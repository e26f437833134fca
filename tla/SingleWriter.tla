---------------------------- MODULE SingleWriter ----------------------------
(***************************************************************************)
(* What the input lock promises (lock.py, control.py): at any moment at    *)
(* most one instance may type, control changes hands only through a moment *)
(* in which nobody may, and an authorised attempt is typed at most once    *)
(* whichever instances come and go.  InputControl implements it.           *)
(***************************************************************************)
EXTENDS Naturals

CONSTANTS Watchers, Attempts, NoOne

VARIABLES writer,   \* the instance that may send input, or NoOne
          typed     \* how often each attempt reached a terminal

vars == <<writer, typed>>

Init == /\ writer = NoOne
        /\ typed = [a \in Attempts |-> 0]

TakeControl(w) == /\ writer = NoOne
                  /\ writer' = w
                  /\ UNCHANGED typed

LoseControl == /\ writer # NoOne
               /\ writer' = NoOne
               /\ UNCHANGED typed

TypeAttempt(a) == /\ writer # NoOne
                  /\ typed[a] = 0
                  /\ typed' = [typed EXCEPT ![a] = 1]
                  /\ UNCHANGED writer

Next == \/ \E w \in Watchers : TakeControl(w)
        \/ LoseControl
        \/ \E a \in Attempts : TypeAttempt(a)

Spec == Init /\ [][Next]_vars
=============================================================================
