SPECIFICATION FairSpec
CONSTANTS
  dash1 = dash1
  service = service
  Watchers <- DashboardAndService
  Attended <- OneDashboard
  Attempts = {a1, a2}
  NoOne = NoOne
  NoAttempt = NoAttempt
INVARIANTS TypeOK ArmedHoldsLock HolderIsArmed HolderIsCurrent TypedOnce
PROPERTIES SomebodyServes GrantIsClean ImplementsSingleWriter
