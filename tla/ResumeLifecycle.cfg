SPECIFICATION BoundedSpec
CONSTANTS
  Prompts = {p1}
  Resets = {r1}
  Capacity = Capacity
  ScheduleLength = 2
  MaxResumeAttempts = 2
  CapacityRetry = TRUE
  MaxSendErrors = 1
  NoKey = NoKey
  NoReset = NoReset
INVARIANTS TypeOK ReservedOnce ReservationPossible ExhaustedIsSpent CapacityBudget PromptBudget ResumeInv
PROPERTIES TwoWorkingReads CapacitySettles ImplementsLifecycle
