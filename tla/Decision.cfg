SPECIFICATION Spec
CONSTANTS
  Day = 2
  Week = 2
  MaxTime = 3
  MaxLimits = 2
  MaxAge = 1
  NoText = NoText
  LiveRows = 5
  CodexLiveRows = 4
  ClaudeComposerRows = 3
  ApprovalMenuRows = 2
  Scopes = {"session", "weekly"}
  GateTime = 2
  MaxRows = 2
  SampleAge = 1
  Grace = 1
  FirstRetry = 1
  MaxSends = 2
  MaxTrials = 2
  Policies <- FullPolicy
  Commands = {"a", "b"}
  Windows = {6, 8, 14}
  BoxRows = 8
  MenuRows = 8
  ReasonRows = 3
  Pids = {1, 2}
  Terminal = 9
  MaxUptime = 4
  MinSignals = 2
  MaxDepth = 4
  MaxLooks = 2
CHECK_DEADLOCK FALSE
INVARIANTS TypeOK NextOccurrence NeverLate RightKey NotEarly EnterSaysYesOnce SameBoxSameCommand KeyForTheAgent NeverThroughScreen
