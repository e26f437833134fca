SPECIFICATION Spec
CONSTANTS
  dash1 = dash1
  service = service
  Watchers <- DashboardAndService
  Attended <- OneDashboard
  Attempts = {a1}
  NoOne = NoOne
  NoAttempt = NoAttempt
INVARIANTS ObserveLasts
