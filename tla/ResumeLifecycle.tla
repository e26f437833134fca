--------------------------- MODULE ResumeLifecycle ---------------------------
(***************************************************************************)
(* The resume lifecycle of one supervised session (fsm.py: Supervisor) on  *)
(* top of the persistent store of actions and retry episodes               *)
(* (state_store.py: StateStore), with crashes between any two writes.      *)
(*                                                                         *)
(* The terminal is not state: every read of it returns some observation,   *)
(* and two reads of one tick may differ.  Refusals that depend on evidence *)
(* outside this module (quota, times, policy, drift of the process) are    *)
(* the freedom to refuse at the gate and at the final recheck.  The store  *)
(* keeps what it held: behaviours stay within RECORD_TTL_SECONDS.          *)
(***************************************************************************)
EXTENDS Naturals

CONSTANTS Prompts,            \* screens of a plain prompt, by fingerprint
          Resets,             \* Codex limit banners, by anchored reset
          Capacity,           \* the model-capacity screen and its only key
          ScheduleLength,     \* len(config.retry_schedule)
          MaxResumeAttempts,  \* config.max_resume_attempts
          CapacityRetry,      \* config.policy.allow_codex_capacity_retry
          MaxSendErrors,      \* bound: failed sendText calls per key
          NoKey, NoReset

Plain    == Prompts \cup Resets \cup {Capacity}
Reserved == Resets \X (1..ScheduleLength)
Keys     == Plain \cup Reserved

(* What a read shows besides a prompt: positive working output, an agent   *)
(* at rest, a wait Claude has armed itself, a limit with nothing to type;  *)
(* a read that failed ("unread") and no supported agent here ("lost").     *)
Idle == {"working", "quiet", "armed", "limit", "unread", "lost"}
Observations == Plain \cup Idle

ASSUME ConstantsAssumption ==
  /\ ScheduleLength \in Nat \ {0}
  /\ MaxResumeAttempts \in Nat \ {0}
  /\ CapacityRetry \in BOOLEAN /\ MaxSendErrors \in Nat
  /\ Capacity \notin Prompts \cup Resets /\ Prompts \cap Resets = {}
  /\ Plain \cap Reserved = {} /\ Plain \cap Idle = {}
  /\ NoKey \notin Keys /\ NoReset \notin Resets

VARIABLES
  pc,       \* "down", "idle" between ticks, or a place inside a tick
  mode,     \* config.mode
  record,   \* StateStore.records: the state and the attempts of each key
  episode,  \* StateStore.episodes: the retry budget of each reset
  seen,     \* the observation a tick decides on, "lost" outside
  pending,  \* session.pending_key
  retry,    \* session.retry_episode_key
  active,   \* session.retry_active_since: none, just now, or long enough ago
  verify,   \* session.verify_after: none, in the future, or due
  sends,    \* session.attempts_since_success
  typed,    \* history: sendText calls per key
  landed,   \* history: those that returned
  doubt,    \* history: keys typed without an outcome on record
  glance    \* history: what the latest read of this process was

store   == <<record, episode>>
session == <<pending, retry, active, verify, sends>>
history == <<typed, landed, doubt>>
vars    == <<pc, mode, store, seen, session, history, glance>>

Larger(m, n) == IF m > n THEN m ELSE n

-----------------------------------------------------------------------------
(* The store.  Beside an operation stands, as a mutant, a plausible slip.  *)

SetRecord(k, s) == record' = [record EXCEPT ![k].state = s]

(* already_actioned, with the exception _request makes for capacity.       *)
ForgetsCrash(k) == IF k = Capacity THEN {"sent"} ELSE {"sent", "verified"}
Actioned(k) ==
  IF k = Capacity THEN {"planned", "sent"} ELSE {"planned", "sent", "verified"}

(* _schedule_retry: give up when the budget is spent, else wait again.     *)
ScheduledForever(e) == [e EXCEPT !.pending = NoKey]
Scheduled(e) ==
  [e EXCEPT !.pending = NoKey, !.exhausted = @ \/ e.attempts >= ScheduleLength]

(* _finish_episode: completed, with the spent attempts kept.               *)
FreshBudget(e) == [e EXCEPT !.completed = TRUE, !.pending = NoKey, !.attempts = 0]
Completed(e) ==
  [e EXCEPT !.completed = TRUE, !.pending = NoKey,
            !.exhausted = e.attempts >= ScheduleLength]

(* ensure_episode, and the reopening of a completed one.                   *)
Ensured(e) ==
  LET known == [e EXCEPT !.opened = TRUE] IN
  IF e.completed /\ e.pending = NoKey
    THEN Scheduled([known EXCEPT !.completed = FALSE]) ELSE known

(* release_unsent_episode_attempt.                                         *)
KeptReservation(e) == [e EXCEPT !.pending = NoKey]
Released(e) == [e EXCEPT !.attempts = @ - 1, !.pending = NoKey]

-----------------------------------------------------------------------------
(* Reading the session.                                                    *)

(* _anchor_reset: a limit text without a saved episode starts anew.        *)
Anchor(r, o) == IF o \in Resets /\ ~episode[o].opened THEN NoReset ELSE r

(* _retry_activity_confirmed, for an episode or a capacity action.         *)
Tracked(r, k) == r # NoReset \/ k = Capacity

OneReadSuffices(tracked, o) == tracked /\ o = "working"
Confirmed(tracked, o) == tracked /\ o = "working" /\ active = "old"

ActiveSince(tracked, o) ==
  IF ~(tracked /\ o = "working") THEN "none"
  ELSE IF active = "none" THEN "fresh" ELSE active

Glances(o) == glance' = IF o \in {"working", "unread"} THEN o ELSE "other"

(* The exact Codex banner in full auto is tried on a schedule.             *)
Timed(o) == mode = "full-auto" /\ o \in Resets

-----------------------------------------------------------------------------
(* A crash loses the session, never the store.                             *)

SessionLost ==
  /\ pending' = NoKey /\ retry' = NoReset /\ active' = "none"
  /\ verify' = "none" /\ sends' = 0

Die == pc' = "down" /\ SessionLost

Crash ==
  /\ pc # "down"
  /\ Die
  /\ seen' = "lost" /\ glance' = "other"
  /\ UNCHANGED <<mode, store, history>>

Restart(m) ==
  /\ pc = "down"
  /\ pc' = "idle"
  /\ mode' = m
  /\ UNCHANGED <<store, seen, session, history, glance>>

(* The mode toggle; it acts between ticks.                                 *)
SetMode(m) ==
  /\ pc = "idle" /\ m # mode
  /\ mode' = m
  /\ UNCHANGED <<pc, store, seen, session, history, glance>>

(* Time passes between ticks: deadlines become due, three seconds of work  *)
(* go by.                                                                  *)
Elapse ==
  /\ pc = "idle"
  /\ verify = "future" \/ active = "fresh"
  /\ verify' = IF verify = "future" THEN "due" ELSE verify
  /\ active' = IF active = "fresh" THEN "old" ELSE active
  /\ UNCHANGED <<pc, mode, store, seen, pending, retry, sends, history, glance>>

(* _invalidate_schedules, after a suspend or a clock correction.           *)
TimeJump ==
  /\ pc = "idle"
  /\ verify # "none" \/ active # "none"
  /\ verify' = "none"
  /\ active' = "none"
  /\ UNCHANGED <<pc, mode, store, seen, pending, retry, sends, history, glance>>

-----------------------------------------------------------------------------
(* _verify: settle the action of key k from one more read.                 *)

(* An agent that is past its prompt: it works, rests or waits by itself.   *)
PastPrompt(o) == o \in {"working", "quiet", "armed", "unread"}

Settled(k, s) ==
  /\ SetRecord(k, s)
  /\ doubt' = doubt \ {k}
  /\ UNCHANGED <<typed, landed>>

Continue(k, r) == pc' = "idle" /\ pending' = k /\ retry' = r

StandBy(k, r) ==
  /\ mode = "observe"
  /\ Continue(k, r)
  /\ verify' = "none"
  /\ UNCHANGED <<store, active, sends, history>>

AgentGone(k, r) ==
  /\ mode # "observe"
  /\ Settled(k, "failed")
  /\ Continue(k, r)
  /\ verify' = "none"
  /\ UNCHANGED <<episode, active, sends>>

AwaitSecondRead(k, r) ==
  /\ mode # "observe"
  /\ Continue(k, r)
  /\ active' = ActiveSince(TRUE, "working")
  /\ verify' = "future"
  /\ UNCHANGED <<store, sends, history>>

(* The outcome is saved first and the episode afterwards.                  *)
Resumed(k, r) ==
  /\ mode # "observe"
  /\ Settled(k, "verified")
  /\ \/ /\ Continue(NoKey, NoReset)
        /\ active' = "none" /\ verify' = "none" /\ sends' = 0
        /\ episode' = IF r # NoReset /\ mode = "full-auto"
                        THEN [episode EXCEPT ![r] = Completed(@)] ELSE episode
     \/ Die /\ UNCHANGED episode

StillBlocked(k, r, o) ==
  /\ mode # "observe"
  /\ Settled(k, "failed")
  /\ \/ /\ Continue(k, r)
        /\ active' = IF Tracked(r, k) THEN ActiveSince(TRUE, o) ELSE active
        /\ verify' = "none"
        /\ episode' = IF r # NoReset THEN [episode EXCEPT ![r] = Scheduled(@)] ELSE episode
        /\ UNCHANGED sends
     \/ Die /\ UNCHANGED episode

Settle(k, r, o) ==
  LET tracked == Tracked(r, k)
      resumed == IF tracked THEN Confirmed(tracked, o) ELSE PastPrompt(o)
  IN /\ seen' = "lost"
     /\ Glances(o)
     /\ UNCHANGED mode
     /\ \/ StandBy(k, r)
        \/ o = "lost" /\ AgentGone(k, r)
        \/ o = "working" /\ tracked /\ ~resumed /\ AwaitSecondRead(k, r)
        \/ resumed /\ Resumed(k, r)
        \/ /\ ~resumed /\ o # "lost" /\ ~(o = "working" /\ tracked)
           /\ StillBlocked(k, r, o)

Verify(o) ==
  /\ pc = "idle" /\ verify = "due"
  /\ Settle(pending, Anchor(retry, o), o)

(* A sent capacity action is settled before anything else, deadline or not.*)
SentByThisProcess == record[Capacity].state = "sent" /\ pending = Capacity
SentCapacity == record[Capacity].state = "sent"

RecheckCapacity(first, o) ==
  /\ pc = "idle" /\ verify = "none"
  /\ SentCapacity
  /\ Settle(Capacity, Anchor(Anchor(retry, first), o), o)

-----------------------------------------------------------------------------
(* A tick: observe, decide, plan, recheck, type, record.                   *)

(* Up to the gate: work that lasts ends the episode, a timed banner opens  *)
(* or reopens one.                                                         *)
Observe(o) ==
  LET r == IF o = Capacity THEN NoReset ELSE Anchor(retry, o)
      tracked == Tracked(r, pending)
  IN
  /\ pc = "idle" /\ verify = "none"
  /\ ~SentCapacity
  /\ pc' = "scanned"
  /\ seen' = o
  /\ Glances(o)
  /\ \/ /\ Confirmed(tracked, o)
        /\ active' = "none"
        /\ retry' = NoReset
        /\ episode' = IF r # NoReset /\ mode = "full-auto"
                        THEN [episode EXCEPT ![r] = Completed(@)] ELSE episode
     \/ /\ ~Confirmed(tracked, o)
        /\ active' = ActiveSince(tracked, o)
        /\ retry' = IF Timed(o) THEN o ELSE r
        /\ episode' = IF Timed(o) THEN [episode EXCEPT ![o] = Ensured(@)] ELSE episode
  /\ UNCHANGED <<mode, record, pending, verify, sends, history>>

(* The episode's reserved keystroke was sent and nobody waits for it.      *)
Unsettled ==
  /\ retry # NoReset
  /\ episode[retry].pending # NoKey
  /\ record[episode[retry].pending].state = "sent"

SettleReserved(o) ==
  /\ pc = "scanned"
  /\ Unsettled
  /\ Settle(episode[retry].pending, Anchor(retry, o), o)

(* The attempts the gate counts, and the budget it compares them with.     *)
PlainAttempts == IF pending = NoKey THEN sends ELSE Larger(record[pending].attempts, sends)

WithinBudget(o) ==
  IF o = Capacity THEN record[Capacity].attempts < MaxResumeAttempts
  ELSE IF Timed(o) THEN episode[o].attempts < ScheduleLength
  ELSE PlainAttempts < MaxResumeAttempts

(* _decide: a session with an episode plans within it, whatever the prompt.*)
IgnoresPending(e) == ~e.completed /\ ~e.exhausted
Plannable(e) == e.pending = NoKey /\ ~e.completed /\ ~e.exhausted

Allowed(o) ==
  /\ o \in Plain
  /\ IF o = Capacity THEN CapacityRetry /\ mode = "full-auto" ELSE mode # "observe"
  /\ record[o].state \notin Actioned(o)
  /\ WithinBudget(o)
  /\ retry # NoReset => Plannable(episode[retry])

(* A refusal by the gate, or by act when its own, fresh read o differs.     *)
Refuse(o) ==
  /\ pc = "scanned"
  /\ ~Unsettled
  /\ o = seen \/ Allowed(seen)
  /\ pc' = "idle"
  /\ seen' = "lost"
  /\ Glances(o)
  /\ retry' = Anchor(retry, o)
  /\ UNCHANGED <<mode, store, pending, active, verify, sends, history>>

(* act, after a fresh read that shows the same prompt: plan_episode_attempt*)
(* or plan, in one write.                                                  *)
Plan ==
  LET reserved == retry # NoReset
      key == IF reserved THEN <<retry, episode[retry].attempts + 1>> ELSE seen
  IN
  /\ pc = "scanned"
  /\ ~Unsettled
  /\ Allowed(seen)
  /\ SetRecord(key, "planned")
  /\ episode' = IF reserved
                  THEN [episode EXCEPT ![retry].attempts = @ + 1, ![retry].pending = key]
                  ELSE episode
  /\ pending' = key
  /\ pc' = "planned"
  /\ seen' = "lost"
  /\ UNCHANGED <<mode, retry, active, verify, sends, history, glance>>

IsReserved == pending \in Reserved

(* The final recheck, on one more read, refuses: nothing was typed and a   *)
(* reservation goes back.                                                  *)
Cancel(o) ==
  /\ pc = "planned"
  /\ SetRecord(pending, "failed")
  /\ episode' = IF IsReserved THEN [episode EXCEPT ![pending[1]] = Released(@)] ELSE episode
  /\ pc' = "idle"
  /\ Glances(o)
  /\ retry' = Anchor(retry, o)
  /\ UNCHANGED <<mode, seen, pending, active, verify, sends, history>>

(* The final recheck of a plain prompt sees the attempts the store kept    *)
(* for it: only now is it the pending key.                                 *)
PlannedIsEnough == TRUE
FinalBudget == pending \in Prompts \cup Resets => PlainAttempts < MaxResumeAttempts

SendText ==
  /\ pc = "planned"
  /\ FinalBudget
  /\ typed' = [typed EXCEPT ![pending] = @ + 1]
  /\ doubt' = doubt \cup {pending}
  /\ \/ /\ pc' = "typed"
        /\ landed' = [landed EXCEPT ![pending] = @ + 1]
     \/ /\ typed[pending] - landed[pending] < MaxSendErrors
        /\ pc' = "unsent"
        /\ UNCHANGED landed
  /\ UNCHANGED <<mode, store, seen, session, glance>>

MarkSent ==
  /\ pc = "typed"
  /\ record' = [record EXCEPT ![pending] = [state |-> "sent", attempts |-> @.attempts + 1]]
  /\ sends' = sends + 1
  /\ verify' = "future"
  /\ pc' = "idle"
  /\ UNCHANGED <<mode, episode, seen, pending, retry, active, history, glance>>

(* sendText raised: a capacity attempt and a reservation are spent anyway. *)
FreeErrors(k) == 0
SpentByError(k) == IF k = Capacity THEN 1 ELSE 0

MarkSendFailed ==
  /\ pc = "unsent"
  /\ record' = [record EXCEPT ![pending] =
                  [state |-> "failed", attempts |-> @.attempts + SpentByError(pending)]]
  /\ doubt' = doubt \ {pending}
  /\ \/ /\ pc' = "idle"
        /\ episode' = IF IsReserved
                        THEN [episode EXCEPT ![pending[1]] = Scheduled(@)] ELSE episode
        /\ UNCHANGED session
     \/ Die /\ UNCHANGED episode
  /\ UNCHANGED <<mode, seen, typed, landed, glance>>

-----------------------------------------------------------------------------
NewEpisode == [opened |-> FALSE, attempts |-> 0, pending |-> NoKey,
               completed |-> FALSE, exhausted |-> FALSE]

Init ==
  /\ pc = "down"
  /\ mode = "observe"
  /\ record = [k \in Keys |-> [state |-> "none", attempts |-> 0]]
  /\ episode = [r \in Resets |-> NewEpisode]
  /\ seen = "lost"
  /\ pending = NoKey /\ retry = NoReset /\ active = "none"
  /\ verify = "none" /\ sends = 0
  /\ typed = [k \in Keys |-> 0]
  /\ landed = [k \in Keys |-> 0]
  /\ doubt = {}
  /\ glance = "other"

Mode == {"observe", "ask", "full-auto"}

Run ==
  \/ \E o \in Observations :
       Verify(o) \/ Observe(o) \/ SettleReserved(o) \/ Refuse(o) \/ Cancel(o)
  \/ \E first, o \in Observations : RecheckCapacity(first, o)
  \/ Plan \/ SendText \/ MarkSent \/ MarkSendFailed

Next ==
  \/ Run \/ Elapse \/ TimeJump \/ Crash
  \/ \E m \in Mode : Restart(m) \/ SetMode(m)

Spec == Init /\ [][Next]_vars

(* A running loop keeps ticking and the clock keeps going.                 *)
FairSpec == Spec /\ WF_vars(Run) /\ WF_vars(Elapse)

-----------------------------------------------------------------------------
(* Properties.                                                             *)

(* Every variable has its type; the store keeps to the schedule's length.  *)
TypeOK ==
  /\ pc \in {"down", "idle", "scanned", "planned", "typed", "unsent"}
  /\ mode \in Mode
  /\ record \in [Keys -> [state : {"none", "planned", "sent", "verified", "failed"},
                         attempts : Nat]]
  /\ episode \in [Resets -> [opened : BOOLEAN, attempts : 0..ScheduleLength,
                             pending : Reserved \cup {NoKey},
                             completed : BOOLEAN, exhausted : BOOLEAN]]
  /\ seen \in Observations
  /\ pending \in Keys \cup {NoKey}
  /\ retry \in Resets \cup {NoReset}
  /\ active \in {"none", "fresh", "old"}
  /\ verify \in {"none", "future", "due"}
  /\ sends \in Nat
  /\ typed \in [Keys -> Nat]
  /\ landed \in [Keys -> Nat]
  /\ doubt \subseteq Keys
  /\ glance \in {"working", "unread", "other"}

(* docs/USAGE.md:582: a reservation belongs to the episode.  Through       *)
(* crashes, redraws, manual recoveries and reopenings, each of the         *)
(* schedule's attempts is typed at most once, so an episode is typed at    *)
(* most ScheduleLength times.                                              *)
ReservedOnce == \A k \in Reserved : typed[k] <= 1

(* docs/USAGE.md:236: at most max_resume_attempts capacity keystrokes for  *)
(* the process, failed ones included, across restarts and recoveries.      *)
CapacityBudget == typed[Capacity] <= MaxResumeAttempts

(* docs/USAGE.md:387: the attempts of a plain prompt that reached the      *)
(* terminal stay within its budget, although the counter of the process    *)
(* is lost in a restart (only the final recheck sees the store's).         *)
PromptBudget == \A k \in Prompts \cup Resets : landed[k] <= MaxResumeAttempts

(* Whenever the gate lets an episode plan, plan_episode_attempt finds its  *)
(* preconditions true: the next key is free and the schedule is not spent. *)
(* A ValueError there would end the watcher.                               *)
ReservationPossible ==
  \A r \in Resets :
    Plannable(episode[r]) =>
      /\ episode[r].attempts < ScheduleLength
      /\ record[<<r, episode[r].attempts + 1>>]
           \in [state : {"none", "failed"}, attempts : {0}]

(* An exhausted episode has spent its schedule, and an episode that has    *)
(* spent it with nothing in flight is exhausted: it neither gives up early *)
(* nor asks for one attempt more (_schedule_retry, _finish_episode).       *)
ExhaustedIsSpent ==
  \A r \in Resets :
    /\ episode[r].exhausted => episode[r].attempts = ScheduleLength
    /\ episode[r].attempts = ScheduleLength /\ episode[r].pending = NoKey
         => episode[r].exhausted

(* docs/ARCHITECTURE.md:349: a timed retry counts as recovered only after  *)
(* two working reads with time between them and no other read in between,  *)
(* whatever mode changes, clock jumps and restarts come in between.        *)
TwoWorkingReads ==
  [][\A k \in Reserved :
       record[k].state # "verified" /\ record'[k].state = "verified"
         => glance = "working" /\ glance' = "working" /\ active = "old"]_vars

(* What makes the properties above inductive.  Attempts an episode has not *)
(* reserved are untouched, and its pending key is its latest reservation.  *)
Unreserved ==
  \A r \in Resets : \A i \in 1..ScheduleLength :
    i > episode[r].attempts =>
      /\ record[<<r, i>>].state \in {"none", "failed"}
      /\ record[<<r, i>>].attempts = 0
      /\ typed[<<r, i>>] = 0 /\ <<r, i>> \notin doubt

PendingIsLatest ==
  \A r \in Resets :
    episode[r].pending # NoKey =>
      /\ episode[r].attempts > 0 /\ ~episode[r].exhausted
      /\ episode[r].pending = <<r, episode[r].attempts>>

(* Between the plan and its outcome the store holds the plan, and a key    *)
(* typed without an outcome is one the gate refuses.                       *)
Acting ==
  pc \in {"planned", "typed", "unsent"} =>
    /\ pending # NoKey /\ record[pending].state = "planned" /\ active = "none"
    /\ pending \in Reserved => retry = pending[1] /\ episode[retry].pending = pending
    /\ pc = "planned" => pending \notin doubt
    /\ pc = "planned" /\ pending \in Reserved
         => typed[pending] = 0 /\ record[pending].attempts = 0
    /\ pc # "planned" => pending \in doubt
    /\ pc = "unsent" /\ pending \in Prompts \cup Resets
         => landed[pending] <= record[pending].attempts

DoubtIsOpen == \A k \in doubt : record[k].state \in {"planned", "sent"}

(* A deadline belongs to a sent key; time at work is time seen at work.    *)
WaitsForSent ==
  verify # "none" =>
    /\ pc = "idle" /\ pending # NoKey /\ record[pending].state = "sent"
    /\ pending \in Reserved => retry # NoReset

SeenAtWork ==
  /\ verify # "none" /\ active # "none" => glance = "working"
  /\ pc = "scanned" /\ active # "none" => glance = "working" /\ seen = "working"

(* What was typed is counted, but for the keystroke whose record is due.   *)
Uncounted(k) == IF k \in doubt /\ record[k].state = "planned" THEN 1 ELSE 0

CapacityCounted ==
  /\ record[Capacity].attempts <= MaxResumeAttempts
  /\ record[Capacity].state = "planned" => record[Capacity].attempts < MaxResumeAttempts
  /\ typed[Capacity] <= record[Capacity].attempts + Uncounted(Capacity)

PromptCounted ==
  \A k \in Prompts \cup Resets :
    /\ record[k].attempts + Uncounted(k) <= MaxResumeAttempts
    /\ landed[k] <= record[k].attempts + Uncounted(k)

ResumeInv ==
  /\ TypeOK /\ ReservedOnce /\ ExhaustedIsSpent /\ Unreserved /\ PendingIsLatest
  /\ Acting /\ DoubtIsOpen /\ WaitsForSent /\ SeenAtWork
  /\ CapacityCounted /\ PromptCounted

(* docs/ARCHITECTURE.md:327: the persisted action lifecycle.               *)
Stage(k) == IF k \in doubt /\ record[k].state = "planned" THEN "typed" ELSE record[k].state

AL == INSTANCE ActionLifecycle WITH
        stage <- [k \in Keys |-> Stage(k)],
        Budgeted <- Reserved \cup {Capacity},
        Budget <- [k \in Reserved \cup {Capacity} |->
                     IF k = Capacity THEN MaxResumeAttempts ELSE 1],
        Renewable <- {Capacity}
ImplementsLifecycle == AL!Spec

(* A watcher that keeps running, is not interrupted by further clock jumps *)
(* and may type settles a sent capacity action, whatever the screen shows. *)
Undisturbed ==
  /\ <>[](pc # "down" /\ mode # "observe")
  /\ <>[][~TimeJump]_vars

CapacitySettles ==
  Undisturbed => (record[Capacity].state = "sent" ~> record[Capacity].state # "sent")
=============================================================================
