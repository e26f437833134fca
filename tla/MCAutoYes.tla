------------------------------ MODULE MCAutoYes ------------------------------
EXTENDS AutoYes, TLC

CONSTANTS rm, ls

TwoBoxes == {rm, ls}

(* More than two appearances come only where no mishap does.               *)
FewMishaps == mishap' => turn' <= 2

BoundedSpec == Init /\ [][Next /\ FewMishaps]_vars /\ WF_vars(Run) /\ WF_vars(Elapse)
=============================================================================
