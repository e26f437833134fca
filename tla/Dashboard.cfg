SPECIFICATION Spec
CONSTANTS
  Providers <- TwoProviders
  Watched <- WatchedComponents
  Pages <- StatusPages
  Content <- PageContent
  NoPage = "nothing"
  Slots = {1, 2}
  MonitorMishaps = {"cut"}
  d1 = d1
  d2 = d2
  Dashboards <- TwoDashboards
  Fields <- TwoFields
  Choices <- FieldChoices
  Defaults <- FieldDefaults
  Nobody = Nobody
  Invalid = Invalid
  Unset = Unset
SYMMETRY Alike
INVARIANTS TypeOK OneThread ReadingIsTheAnswer NoLostChoice ChangedIsUnsaved
PROPERTY UnusableIsShown
