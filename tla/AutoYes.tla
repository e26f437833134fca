------------------------------- MODULE AutoYes -------------------------------
(***************************************************************************)
(* Auto-yes (fsm.py: Supervisor.approve_pending, approve) on the           *)
(* permission boxes of one session.                                        *)
(*                                                                         *)
(* A box can only be told from another by its fingerprint: the watcher     *)
(* polls, so a box may leave and an identical one appear between two of    *)
(* its reads, and the answer of the agent to an Enter looks like the       *)
(* answer of its operator.  The module counts the Enters typed for each    *)
(* appearance of a box.                                                    *)
(*                                                                         *)
(* Nor is a sendText that raises a sendText that did not type: its D-Bus   *)
(* call is given five seconds, and Konsole may deliver the Enter and still *)
(* answer too late.                                                        *)
(*                                                                         *)
(* Evidence outside this module (drift of the process, a resume action in  *)
(* flight, an unsafe session) is the freedom to Skip and to Refuse.        *)
(***************************************************************************)
EXTENDS Naturals

CONSTANTS Boxes,         \* permission boxes, by fingerprint
          NoBox,         \* no box on screen; also the empty fingerprint
          MaxTurns,      \* bound: appearances of a box
          Mishaps        \* what else may happen to the watcher's memory

(* "empty":   a screen read while a box is up shows no prompt (Konsole's   *)
(*            reader answers a failed D-Bus call with an empty screen),    *)
(* "beside":  a limit notice comes up on the screen of the box,            *)
(* "rebound": a failed listing drops the session, the next one selects it. *)
AllMishaps == {"empty", "beside", "rebound"}

ASSUME AutoYesAssumption ==
  /\ NoBox \notin Boxes
  /\ MaxTurns \in Nat
  /\ Mishaps \subseteq AllMishaps

VARIABLES
  box,       \* what is on the screen
  turn,      \* appearances of a box so far
  provider,  \* session.provider_name
  armed,     \* auto-yes on, full auto, input control held, not paused
  pc,        \* "idle", or a place between a scan and its last sendText
  offered,   \* session.approval_fingerprint, if approval_exact
  expected,  \* approve's argument
  approved,  \* session.approved_fingerprint
  age,       \* time since session.approved_at: below or past the recheck
  resent,    \* session.approval_resent
  stuck,     \* session.approval_stuck
  target,    \* history: the appearance the final read has seen
  enters,    \* history: Enters typed for each appearance by calls that returned
  late,      \* history: Enters typed for each appearance by calls that raised
  mishap     \* history: a mishap has happened

screen  == <<box, turn>>
memory  == <<approved, age, resent, stuck>>
sent    == <<target, enters, late>>
history == <<sent, mishap>>
vars    == <<screen, provider, armed, pc, offered, expected, memory, history>>

Turns == 1..MaxTurns

-----------------------------------------------------------------------------
(* The agent and its operator.                                             *)

(* A box appears, perhaps at once in place of an answered one.             *)
Appear(b) ==
  /\ turn < MaxTurns
  /\ turn' = turn + 1
  /\ box' = b
  /\ UNCHANGED <<provider, armed, pc, offered, expected, memory, history>>

Leave ==
  /\ box # NoBox
  /\ box' = NoBox
  /\ UNCHANGED <<turn, provider, armed, pc, offered, expected, memory, history>>

(* The switches act between scans and leave the memory alone.              *)
Toggle ==
  /\ pc = "idle"
  /\ armed' = ~armed
  /\ UNCHANGED <<screen, provider, pc, offered, expected, memory, history>>

(* APPROVAL_RECHECK_SECONDS pass.                                          *)
Elapse ==
  /\ age = "fresh"
  /\ age' = "settled"
  /\ UNCHANGED <<screen, provider, armed, pc, offered, expected, approved, resent, stuck, history>>

-----------------------------------------------------------------------------
(* Reading the screen (_remember_observation).                             *)

ForgetsBoxOnly == approved' = NoBox /\ UNCHANGED <<age, resent, stuck>>
Forget == approved' = NoBox /\ age' = "none" /\ resent' = FALSE /\ stuck' = FALSE

(* The exact box, alone: it is offered for an answer, its memory stays.    *)
ReadBox == box # NoBox /\ offered' = box /\ UNCHANGED <<memory, mishap>>

(* A read that failed, a redraw in progress, another foreground process:   *)
(* nothing is offered and nothing forgotten.                               *)
ForgetsOnFailure == offered' = NoBox /\ Forget /\ UNCHANGED mishap
ReadNothing == offered' = NoBox /\ UNCHANGED <<memory, mishap>>

Mishap(m) == m \in Mishaps /\ mishap' = TRUE

(* A real read without a permission prompt.                                *)
ReadClear ==
  /\ \/ box = NoBox /\ UNCHANGED mishap
     \/ box # NoBox /\ Mishap("empty")
  /\ offered' = NoBox /\ Forget

(* A limit beside the box decides the state.  Claude's recogniser still    *)
(* names the exact box, Codex's does not.                                  *)
ReadBeside ==
  /\ box # NoBox /\ Mishap("beside")
  /\ offered' = IF provider = "claude" THEN box ELSE NoBox
  /\ Forget

Read == ReadBox \/ ReadNothing \/ ReadClear \/ ReadBeside

Scan ==
  /\ pc = "idle"
  /\ Read
  /\ pc' = "scanned"
  /\ UNCHANGED <<screen, provider, armed, expected, sent>>

-----------------------------------------------------------------------------
(* approve_pending, after a scan.                                          *)

ResendDue == provider = "claude" /\ ~resent /\ age = "settled"

OnlyNew == offered # approved
Answerable == offered # approved \/ ResendDue

(* The answered box outlived its last Enter, which is reported once.       *)
Reportable == (provider = "codex" \/ resent) /\ age = "settled" /\ ~stuck

Due == armed /\ offered # NoBox /\ (Answerable \/ Reportable)

Offer ==
  /\ pc = "scanned"
  /\ Due /\ Answerable
  /\ expected' = offered
  /\ pc' = "approving"
  /\ UNCHANGED <<screen, provider, armed, offered, memory, history>>

ReportStuck ==
  /\ pc = "scanned"
  /\ Due /\ ~Answerable
  /\ stuck' = TRUE
  /\ pc' = "idle"
  /\ UNCHANGED <<screen, provider, armed, offered, expected, approved, age, resent, history>>

NothingDue ==
  /\ pc = "scanned"
  /\ ~Due
  /\ pc' = "idle"
  /\ UNCHANGED <<screen, provider, armed, offered, expected, memory, history>>

(* An unsafe session, a verification that is pending.                      *)
Skip ==
  /\ pc = "scanned"
  /\ Due
  /\ pc' = "idle"
  /\ UNCHANGED <<screen, provider, armed, offered, expected, memory, history>>

-----------------------------------------------------------------------------
(* approve: one more read, the foreground process, sendText.               *)

SameBox == ReadBox /\ box = expected

Revalidate ==
  /\ pc = "approving"
  /\ SameBox
  /\ target' = turn
  /\ pc' = "sending"
  /\ UNCHANGED <<screen, provider, armed, expected, enters, late>>

(* The read shows anything else, or other evidence refuses, perhaps before *)
(* the read is made.                                                       *)
Refuse ==
  /\ pc = "approving"
  /\ Read \/ UNCHANGED <<offered, memory, mishap>>
  /\ pc' = "idle"
  /\ UNCHANGED <<screen, provider, armed, expected, sent>>

IsResend == expected = approved

(* The history counts to three, one more than anybody allows.              *)
More(n) == IF n < 3 THEN n + 1 ELSE 3

SendEnter ==
  /\ pc = "sending"
  /\ enters' = [enters EXCEPT ![target] = More(@)]
  /\ resent' = IsResend
  /\ approved' = expected
  /\ age' = "fresh"
  /\ stuck' = FALSE
  /\ pc' = "idle"
  /\ UNCHANGED <<screen, provider, armed, offered, expected, target, late, mishap>>

(* The process has drifted and nothing is typed, or sendText raised, and   *)
(* the Enter may have landed all the same: nothing is remembered of it.    *)
Landed == late' = [late EXCEPT ![target] = More(@)]

SendFails ==
  /\ pc = "sending"
  /\ Landed \/ UNCHANGED late
  /\ pc' = "idle"
  /\ UNCHANGED <<screen, provider, armed, offered, expected, memory, target, enters, mishap>>

-----------------------------------------------------------------------------
(* prune_and_rebind drops a session it cannot list; with --all the next    *)
(* discovery selects it again as a new one.                                *)
Rebind ==
  /\ pc = "idle" /\ Mishap("rebound")
  /\ Forget
  /\ offered' = NoBox
  /\ UNCHANGED <<screen, provider, armed, pc, expected, sent>>

-----------------------------------------------------------------------------
Init ==
  /\ box = NoBox /\ turn = 0
  /\ provider \in {"claude", "codex"}
  /\ armed = FALSE
  /\ pc = "idle"
  /\ offered = NoBox /\ expected = NoBox
  /\ approved = NoBox /\ age = "none" /\ resent = FALSE /\ stuck = FALSE
  /\ target = 0
  /\ enters = [t \in Turns |-> 0] /\ late = [t \in Turns |-> 0]
  /\ mishap = FALSE

Run == Scan \/ Offer \/ ReportStuck \/ NothingDue \/ Skip
       \/ Revalidate \/ Refuse \/ SendEnter \/ SendFails

Next ==
  \/ Run \/ Elapse
  \/ (\E b \in Boxes : Appear(b)) \/ Leave \/ Toggle \/ Rebind

Spec == Init /\ [][Next]_vars

(* The dashboard keeps scanning and the clock keeps going.                 *)
FairSpec == Spec /\ WF_vars(Run) /\ WF_vars(Elapse)

-----------------------------------------------------------------------------
(* Properties.                                                             *)

(* Every variable has its type, and what is remembered of an answered box  *)
(* is set and cleared together: nothing of it outlives its fingerprint.    *)
TypeOK ==
  /\ box \in Boxes \cup {NoBox} /\ turn \in 0..MaxTurns
  /\ provider \in {"claude", "codex"} /\ armed \in BOOLEAN
  /\ pc \in {"idle", "scanned", "approving", "sending"}
  /\ offered \in Boxes \cup {NoBox} /\ expected \in Boxes \cup {NoBox}
  /\ approved \in Boxes \cup {NoBox}
  /\ age \in {"none", "fresh", "settled"} /\ resent \in BOOLEAN /\ stuck \in BOOLEAN
  /\ approved = NoBox => age = "none" /\ ~resent /\ ~stuck
  /\ target \in 0..MaxTurns
  /\ enters \in [Turns -> Nat] /\ late \in [Turns -> Nat] /\ mishap \in BOOLEAN

(* docs/USAGE.md:712-722: one Enter for each appearance of a box, on       *)
(* Claude one more; switching auto-yes off and on grants no other.  The    *)
(* watcher cannot see an appearance, only fingerprints at two moments.     *)
(* Counted are the calls of sendText that returned, whatever calls that    *)
(* raised did in between.  It holds until the first mishap; each of the    *)
(* mishaps breaks it (fsm.py:841, terminal/konsole.py:178).                *)
Allowance == IF provider = "claude" THEN 2 ELSE 1
ReturnedOnce == \A t \in Turns : enters[t] <= Allowance
EnterBudget == ~mishap => ReturnedOnce

(* docs/USAGE.md:714 as it stands, of all Enters that reach the box.  The  *)
(* code breaks it: fsm.py:1272 forgets a call that raised after typing.    *)
AnsweredOnce == \A t \in Turns : enters[t] + late[t] <= Allowance

(* What makes the budget inductive, until the first mishap: while a        *)
(* box is up, what was typed for it is in the memory; and an Enter on its  *)
(* way is the first for its appearance, or Claude's second.                *)
Unshown == \A t \in Turns : t > turn => enters[t] = 0

Remembered ==
  box # NoBox => /\ turn \in Turns
                 /\ enters[turn] >= 1 => approved = box
                 /\ enters[turn] >= 2 => resent

SecondAllowed == provider = "claude" /\ ~resent

OnItsWay ==
  /\ pc \in {"approving", "sending"} =>
       expected # NoBox /\ (expected = approved => SecondAllowed)
  /\ pc = "sending" =>
       /\ target \in Turns /\ target <= turn
       /\ enters[target] >= 1 => enters[target] = 1 /\ expected = approved
       /\ target < turn => enters[turn] = 0
       /\ target = turn /\ box # NoBox => box = expected

Accounted == Unshown /\ ReturnedOnce /\ Remembered /\ OnItsWay
AutoYesInv == TypeOK /\ (~mishap => Accounted)

(* docs/USAGE.md:720-722: a box that stays is reported and left to the     *)
(* operator; it neither waits for ever unanswered nor unreported.  Assumed *)
(* is a watcher left on, whose reads and keystrokes succeed from some      *)
(* point on, whatever mishaps came before.                                 *)
Unhindered ==
  /\ <>[]armed
  /\ <>[][~(Skip \/ Refuse \/ SendFails \/ Rebind)]_vars
  /\ <>[][Scan => box = NoBox \/ ReadBox]_vars
StaysIsReported ==
  Unhindered =>
    \A t \in Turns : turn = t /\ box # NoBox ~> turn # t \/ box = NoBox \/ stuck
=============================================================================
