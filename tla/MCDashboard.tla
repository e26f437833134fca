----------------------------- MODULE MCDashboard -----------------------------
EXTENDS StatusMonitor, Preferences, TLC

CONSTANTS d1, d2

VARIABLE focus

TwoProviders == {"openai", "anthropic"}
WatchedComponents ==
  [p \in TwoProviders |->
     IF p = "openai" THEN {[id |-> "codex", name |-> "Codex API"]}
     ELSE {[id |-> "code", name |-> "Claude Code"], [id |-> "api", name |-> "Claude API"]}]
StatusPages ==
  [p \in TwoProviders |->
     IF p = "openai" THEN {"well", "twice"} ELSE {"mixed"}]
PageContent ==
  [well    |-> {[id |-> "codex", name |-> "Codex API", status |-> "operational"]},
   twice   |-> {[id |-> "new1", name |-> "Codex API", status |-> "operational"],
                [id |-> "new2", name |-> "Codex API", status |-> "major_outage"]},
   mixed   |-> {[id |-> "code", name |-> "Code", status |-> "operational"],
                [id |-> "other", name |-> "Claude Code", status |-> "major_outage"],
                [id |-> "new", name |-> "Claude API", status |-> "partial_outage"]},
   nothing |-> {}]

TwoDashboards == {d1, d2}
Alike == Permutations(TwoDashboards)
TwoFields == {"theme", "help"}
FieldChoices == [f \in TwoFields |-> 2]
FieldDefaults == [f \in TwoFields |-> 0]

(* The monitor of a dashboard and the preferences share no state: what one *)
(* does neither enables nor changes a step of the other, so each is run    *)
(* with the other at rest.                                                 *)
Init == MonitorInit /\ PrefsInit /\ focus \in {"monitor", "preferences"}
Next ==
  \/ focus = "monitor" /\ MonitorNext /\ UNCHANGED <<focus, prefsVars>>
  \/ focus = "preferences" /\ PrefsNext /\ UNCHANGED <<focus, monitorVars>>
Spec == Init /\ [][Next]_<<focus, monitorVars, prefsVars>> /\ MonitorFairness

(* Every variable of both components stays within its type.                *)
TypeOK == MonitorTypeOK /\ PrefsTypeOK
=============================================================================
