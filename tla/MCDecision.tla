----------------------------- MODULE MCDecision -----------------------------
EXTENDS ResetAnchor, ResumeGate, PermissionBox, Foreground, TLC

VARIABLE focus

FullPolicy == {{"resume_after_reset", "allow_codex_auto_resume",
                "allow_codex_capacity_retry", "allow_claude_auto_wait"}}

(* Bounds: none goes on once its process is gone, which goes when a key     *)
(* would be due to it: what the gate refuses to it, it refuses to another   *)
(* one in its place.  After the first key only a session in auto mode that  *)
(* uses one window goes on, without a panel, a permission menu or a draft   *)
(* of several lines; and one in ask mode, to which NotEarly promises        *)
(* nothing, uses one window.                                                *)
FewSends ==
  /\ process = "selected"
  /\ sends = 0 \/ (sends = 1 /\ gateMode = "auto" /\ ~panel)
FewSteps ==
  /\ process' # process => Allowed(Reading)
  /\ sends = 1 => panel' = panel /\ prompt' \notin {"permission", "multiline", "ready-lines"}
  /\ (sends = 1 \/ gateMode = "ask") => spent'["weekly"] = 0

(* The four parts of a decision to type share no state: when the limit is   *)
(* over, whether the screen asks for a key, what a permission box is, and   *)
(* who would read the key.  Each is run with the others at rest.            *)
Init ==
  /\ focus \in {"anchor", "gate", "box", "foreground"}
  /\ AnchorInit /\ GateInit /\ BoxInit /\ ForegroundInit
  /\ focus # "anchor" => mode = "watch"
  /\ (focus = "gate") = (gateMode # "observe") /\ (focus # "gate" => provider = "claude")
  /\ focus # "box" => asks = NothingAsked /\ rowsShown = Max(Windows)
  /\ focus # "foreground" => program[Terminal] = Konsole
Next ==
  \/ focus = "anchor" /\ AnchorNext /\ UNCHANGED <<focus, gateVars, boxVars, foregroundVars>>
  \/ /\ focus = "gate" /\ FewSends /\ GateNext /\ FewSteps
     /\ UNCHANGED <<focus, anchorVars, boxVars, foregroundVars>>
  \/ focus = "box" /\ BoxNext /\ UNCHANGED <<focus, anchorVars, gateVars, foregroundVars>>
  \/ /\ focus = "foreground" /\ ForegroundNext
     /\ UNCHANGED <<focus, anchorVars, gateVars, boxVars>>
Spec == Init /\ [][Next]_<<focus, anchorVars, gateVars, boxVars, foregroundVars>>

(* Every variable of the four parts stays within its type.                 *)
TypeOK == AnchorTypeOK /\ GateTypeOK /\ BoxTypeOK /\ ForegroundTypeOK
=============================================================================
