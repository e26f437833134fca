-------------------------- MODULE ActionLifecycle --------------------------
(***************************************************************************)
(* What the persisted lifecycle of resume actions promises, whatever the   *)
(* supervisor does around it: every keystroke answers one plan made for    *)
(* it, nothing is typed for a key while an earlier keystroke of that key   *)
(* has no recorded outcome, and a budgeted key is typed within its budget. *)
(* ResumeLifecycle implements it.                                          *)
(***************************************************************************)
EXTENDS Naturals

CONSTANTS Keys,
          Budgeted,   \* keys with a bound on the keystrokes ever typed
          Budget,     \* that bound
          Renewable   \* keys that may be planned again after a success

VARIABLES stage,   \* where each key's current action is
          typed    \* keystrokes ever handed to the terminal

vars == <<stage, typed>>

Init == /\ stage = [k \in Keys |-> "none"]
        /\ typed = [k \in Keys |-> 0]

Enter(k, s) == stage' = [stage EXCEPT ![k] = s]

Plan(k) == /\ \/ stage[k] \in {"none", "failed"}
              \/ stage[k] = "verified" /\ k \in Renewable
           /\ Enter(k, "planned")
           /\ UNCHANGED typed

Type(k) == /\ stage[k] = "planned"
           /\ k \in Budgeted => typed[k] < Budget[k]
           /\ Enter(k, "typed")
           /\ typed' = [typed EXCEPT ![k] = @ + 1]

RecordSent(k) == /\ stage[k] = "typed"
                 /\ Enter(k, "sent")
                 /\ UNCHANGED typed

Fail(k) == /\ stage[k] \in {"planned", "typed", "sent"}
           /\ Enter(k, "failed")
           /\ UNCHANGED typed

Verify(k) == /\ stage[k] = "sent"
             /\ Enter(k, "verified")
             /\ UNCHANGED typed

Next == \E k \in Keys : Plan(k) \/ Type(k) \/ RecordSent(k) \/ Fail(k) \/ Verify(k)

Spec == Init /\ [][Next]_vars
=============================================================================
