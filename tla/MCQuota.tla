------------------------------ MODULE MCQuota ------------------------------
EXTENDS ClaudeBridge, CodexQuota, TLC

CONSTANTS file1, file2, codex1, codex2, work, private, codex, mini

VARIABLE focus

TwoFiles == {file1, file2}
TwoProcesses == {codex1, codex2}
TwoAccounts == {work, private}
AllLimits == {codex, mini, NoLimit}
HomeOfItsOwn == [x \in TwoProcesses |-> IF x = codex1 THEN "home" ELSE "profile"]
Named == Limits \ {NoLimit}
Alike == Permutations(Files) \cup Permutations(Accounts) \cup Permutations(Named)

(* The sources of the two providers share no state, so each is run with    *)
(* the other at rest.  Codex is run with one limit (the focus) and logins  *)
(* or, over more time, with one login and all that an event may name.      *)
Focus == {"claude", "limits"} \cup Named
OneLogin == \A g, h \in Homes : login[g] = login[h]
InFocus ==
  /\ focus \in Named => now' = 1 /\ \A p \in Processes : \A e \in rollout'[p] : e.limit = focus
  /\ focus = "limits" => logins' = 0 /\ cache' = {}

Init == BridgeInit /\ QuotaInit /\ focus \in Focus /\ (focus \in Named \/ OneLogin)
Next ==
  \/ focus = "claude" /\ BridgeNext /\ UNCHANGED <<focus, quotaVars>>
  \/ focus # "claude" /\ QuotaNext /\ InFocus /\ UNCHANGED <<focus, bridgeVars>>
Spec == Init /\ [][Next]_<<focus, bridgeVars, quotaVars>>

(* Every variable of both sources stays within its type.                   *)
TypeOK == BridgeTypeOK /\ QuotaTypeOK
=============================================================================
