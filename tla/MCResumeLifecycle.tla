------------------------- MODULE MCResumeLifecycle -------------------------
EXTENDS ResumeLifecycle

VARIABLE focus

(* What the scans of one behaviour show: a plain prompt and the capacity   *)
(* screen, or timed banners, of which one is resumed in ask mode at most   *)
(* once beside its schedule.                                               *)
Focus == {"plain", "timed"}
Shows ==
  /\ focus = "plain" => seen' \notin Resets
  /\ focus = "timed" => /\ seen' \notin Prompts \cup {Capacity}
                         /\ \A r \in Resets : typed'[r] <= 1

BoundedInit == Init /\ focus \in Focus
BoundedSpec ==
  /\ BoundedInit
  /\ [][Next /\ Shows /\ UNCHANGED focus]_<<vars, focus>>
  /\ WF_vars(Run) /\ WF_vars(Elapse)
=============================================================================
