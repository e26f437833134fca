------------------------ MODULE ResumeLifecycleProofs ------------------------
(***************************************************************************)
(* The safety of the resume lifecycle for any prompts, reset banners,      *)
(* schedule and budget.                                                    *)
(***************************************************************************)
EXTENDS ResumeLifecycle, TLAPS

States == {"none", "planned", "sent", "verified", "failed"}
RecordType == [state : States, attempts : Nat]
EpisodeType == [opened : BOOLEAN, attempts : 0..ScheduleLength,
                pending : Reserved \cup {NoKey},
                completed : BOOLEAN, exhausted : BOOLEAN]

(* What the invariant says of one episode.                                 *)
EpisodeOK(r, e) ==
  /\ e.pending # NoKey =>
       e.attempts > 0 /\ ~e.exhausted /\ e.pending = <<r, e.attempts>>
  /\ e.exhausted => e.attempts = ScheduleLength
  /\ e.attempts = ScheduleLength /\ e.pending = NoKey => e.exhausted

(* The invariant in two parts: the store with its history, and the process.*)
StoreInv ==
  /\ ReservedOnce /\ Unreserved /\ DoubtIsOpen /\ CapacityCounted /\ PromptCounted
  /\ \A r \in Resets : EpisodeOK(r, episode[r])
ProcessInv == Acting /\ WaitsForSent /\ SeenAtWork

StoreTypes ==
  /\ record \in [Keys -> RecordType] /\ episode \in [Resets -> EpisodeType]
  /\ typed \in [Keys -> Nat] /\ landed \in [Keys -> Nat] /\ doubt \subseteq Keys
ProcessTypes ==
  /\ pc \in {"down", "idle", "scanned", "planned", "typed", "unsent"}
  /\ mode \in Mode /\ seen \in Observations /\ glance \in {"working", "unread", "other"}
  /\ pending \in Keys \cup {NoKey} /\ retry \in Resets \cup {NoReset}
  /\ active \in {"none", "fresh", "old"} /\ verify \in {"none", "future", "due"}
  /\ sends \in Nat

LEMMA Types ==
  /\ TypeOK <=> StoreTypes /\ ProcessTypes
  /\ TypeOK' <=> StoreTypes' /\ ProcessTypes'
BY DEF TypeOK, StoreTypes, ProcessTypes, RecordType, EpisodeType, States

LEMMA Parts ==
  /\ ResumeInv <=> TypeOK /\ StoreInv /\ ProcessInv
  /\ ResumeInv' <=> TypeOK' /\ StoreInv' /\ ProcessInv'
BY DEF ResumeInv, StoreInv, ProcessInv, EpisodeOK, ExhaustedIsSpent, PendingIsLatest

LEMMA KeyFacts ==
  /\ Capacity \in Keys /\ Capacity \notin Reserved /\ Capacity \notin Prompts \cup Resets
  /\ NoKey \notin Keys /\ NoReset \notin Resets
  /\ \A k \in Reserved : /\ k \in Keys /\ k \notin Plain
                         /\ k[1] \in Resets /\ k[2] \in 1..ScheduleLength
                         /\ k = <<k[1], k[2]>>
  /\ \A r \in Resets : \A i \in 1..ScheduleLength : <<r, i>> \in Reserved
  /\ \A k \in Plain : k \in Keys /\ k \notin Reserved /\ k # "working"
  /\ Prompts \cup Resets \subseteq Plain
  /\ ScheduleLength \in Nat /\ MaxResumeAttempts \in Nat
  /\ ScheduleLength > 0 /\ MaxResumeAttempts > 0
BY ConstantsAssumption DEF Keys, Plain, Reserved, Idle

(* The operations on an episode keep its attempts.                         *)
LEMMA ScheduledOK ==
  ASSUME NEW r, NEW e \in EpisodeType, EpisodeOK(r, e)
  PROVE  /\ Scheduled(e) \in EpisodeType /\ EpisodeOK(r, Scheduled(e))
         /\ Scheduled(e).attempts = e.attempts
<1> DEFINE spent == e.exhausted \/ e.attempts >= ScheduleLength
<1>1. /\ Scheduled(e) \in EpisodeType
      /\ Scheduled(e).attempts = e.attempts /\ Scheduled(e).pending = NoKey
      /\ Scheduled(e).exhausted = spent
  <2>1. spent \in BOOLEAN
    OBVIOUS
  <2>2. Scheduled(e) = [e EXCEPT !.pending = NoKey, !.exhausted = spent]
    BY DEF Scheduled
  <2> HIDE DEF spent
  <2> QED BY <2>1, <2>2 DEF EpisodeType
<1>2. spent <=> e.attempts = ScheduleLength
  BY KeyFacts DEF EpisodeOK, EpisodeType
<1> HIDE DEF spent
<1> QED BY <1>1, <1>2 DEF EpisodeOK

LEMMA CompletedOK ==
  ASSUME NEW r, NEW e \in EpisodeType, EpisodeOK(r, e)
  PROVE  /\ Completed(e) \in EpisodeType /\ EpisodeOK(r, Completed(e))
         /\ Completed(e).attempts = e.attempts
<1> DEFINE spent == e.attempts >= ScheduleLength
<1>1. /\ Completed(e) \in EpisodeType
      /\ Completed(e).attempts = e.attempts /\ Completed(e).pending = NoKey
      /\ Completed(e).exhausted = spent
  <2>1. spent \in BOOLEAN
    OBVIOUS
  <2>2. Completed(e) = [e EXCEPT !.completed = TRUE, !.pending = NoKey, !.exhausted = spent]
    BY DEF Completed
  <2> HIDE DEF spent
  <2> QED BY <2>1, <2>2 DEF EpisodeType
<1>2. spent <=> e.attempts = ScheduleLength
  BY KeyFacts DEF EpisodeType
<1> HIDE DEF spent
<1> QED BY <1>1, <1>2 DEF EpisodeOK

LEMMA EnsuredOK ==
  ASSUME NEW r, NEW e \in EpisodeType, EpisodeOK(r, e)
  PROVE  /\ Ensured(e) \in EpisodeType /\ EpisodeOK(r, Ensured(e))
         /\ Ensured(e).attempts = e.attempts
<1> DEFINE known == [e EXCEPT !.opened = TRUE]
           reopened == [known EXCEPT !.completed = FALSE]
<1>1. known \in EpisodeType /\ EpisodeOK(r, known) /\ known.attempts = e.attempts
  BY DEF EpisodeType, EpisodeOK
<1>2. /\ reopened \in EpisodeType /\ EpisodeOK(r, reopened)
      /\ reopened.attempts = e.attempts
  BY <1>1 DEF EpisodeType, EpisodeOK
<1>3. /\ Scheduled(reopened) \in EpisodeType /\ EpisodeOK(r, Scheduled(reopened))
      /\ Scheduled(reopened).attempts = e.attempts
  BY <1>2, ScheduledOK
<1> QED BY <1>1, <1>3 DEF Ensured

(* Whatever an operation does to one episode, the others keep theirs.      *)
EpisodesKept ==
  /\ episode' \in [Resets -> EpisodeType]
  /\ \A r \in Resets : /\ EpisodeOK(r, episode'[r])
                       /\ episode'[r].attempts = episode[r].attempts

LEMMA OneEpisode ==
  ASSUME ResumeInv, NEW r \in Resets, NEW e \in EpisodeType,
         EpisodeOK(r, e), e.attempts = episode[r].attempts,
         episode' = [episode EXCEPT ![r] = e]
  PROVE  EpisodesKept
BY Parts DEF EpisodesKept, StoreInv, TypeOK, EpisodeType

LEMMA EpisodesUnchanged ==
  ASSUME ResumeInv, UNCHANGED episode
  PROVE  EpisodesKept
BY Parts DEF EpisodesKept, StoreInv, TypeOK, EpisodeType

(* A step that leaves the records alone, and the attempts of the episodes. *)
LEMMA StoreKept ==
  ASSUME ResumeInv, EpisodesKept, UNCHANGED <<record, history>>
  PROVE  StoreInv'
BY Parts DEF StoreInv, EpisodesKept, history, ReservedOnce, Unreserved, DoubtIsOpen,
             CapacityCounted, PromptCounted, Uncounted

LEMMA RecordSet ==
  ASSUME TypeOK, NEW k \in Keys, NEW s \in States, SetRecord(k, s)
  PROVE  /\ record' \in [Keys -> RecordType]
         /\ record'[k].state = s /\ record'[k].attempts = record[k].attempts
         /\ \A j \in Keys : j # k => record'[j] = record[j]
BY DEF TypeOK, SetRecord, RecordType, States

(* A sent key gets its outcome.                                            *)
LEMMA OutcomeKept ==
  ASSUME ResumeInv, NEW k \in Keys, NEW s \in {"failed", "verified"},
         record[k].state = "sent", Settled(k, s), EpisodesKept
  PROVE  StoreInv' /\ record' \in [Keys -> RecordType] /\ doubt' \subseteq Keys
<1> USE Parts
<1>1. s \in States
  BY DEF States
<1>2. /\ record' \in [Keys -> RecordType]
      /\ record'[k].state = s /\ record'[k].attempts = record[k].attempts
      /\ \A j \in Keys : j # k => record'[j] = record[j]
  BY <1>1, RecordSet DEF Settled
<1>3. doubt' = doubt \ {k} /\ UNCHANGED <<typed, landed>> /\ doubt \subseteq Keys
  BY DEF Settled, TypeOK
<1>4. ReservedOnce' /\ DoubtIsOpen'
  BY <1>2, <1>3 DEF StoreInv, ReservedOnce, DoubtIsOpen
<1>5. Unreserved'
  <2> SUFFICES ASSUME NEW r \in Resets, NEW i \in 1..ScheduleLength, i > episode'[r].attempts
               PROVE  /\ record'[<<r, i>>].state \in {"none", "failed"}
                      /\ record'[<<r, i>>].attempts = 0
                      /\ typed'[<<r, i>>] = 0 /\ <<r, i>> \notin doubt'
    BY DEF Unreserved
  <2>1. /\ record[<<r, i>>].state \in {"none", "failed"} /\ record[<<r, i>>].attempts = 0
        /\ typed[<<r, i>>] = 0 /\ <<r, i>> \notin doubt
    BY DEF StoreInv, Unreserved, EpisodesKept
  <2>2. <<r, i>> \in Keys /\ <<r, i>> # k
    BY <2>1, KeyFacts
  <2> QED BY <2>1, <2>2, <1>2, <1>3
<1>6. \A j \in Keys : Uncounted(j)' = Uncounted(j) /\ record'[j].attempts = record[j].attempts
  BY <1>2, <1>3 DEF Uncounted
<1>7. CapacityCounted' /\ PromptCounted'
  BY <1>2, <1>3, <1>6, KeyFacts DEF StoreInv, CapacityCounted, PromptCounted
<1> QED BY <1>2, <1>3, <1>4, <1>5, <1>7 DEF StoreInv, EpisodesKept

(* Between ticks and without a deadline nothing is said of the process.    *)
LEMMA AtRest ==
  ASSUME pc' \in {"idle", "down"}, verify' = "none"
  PROVE  ProcessInv'
BY DEF ProcessInv, Acting, WaitsForSent, SeenAtWork

LEMMA Reading ==
  ASSUME TypeOK, NEW o \in Observations, NEW r \in Resets \cup {NoReset}
  PROVE  /\ Anchor(r, o) \in Resets \cup {NoReset}
         /\ \A t : ActiveSince(t, o) \in {"none", "fresh", "old"}
         /\ Glances(o) => glance' \in {"working", "unread", "other"}
         /\ "lost" \in Observations
BY DEF Anchor, ActiveSince, Glances, TypeOK, Observations, Idle

(* _verify: every way it settles a sent key, or waits for a second read.   *)
LEMMA SettleStep ==
  ASSUME ResumeInv, NEW k \in Keys, record[k].state = "sent",
         NEW r \in Resets \cup {NoReset}, NEW o \in Observations, Settle(k, r, o)
  PROVE  ResumeInv'
<1> USE Parts, Types
<1>1. /\ seen' \in Observations /\ mode' \in Mode /\ glance' \in {"working", "unread", "other"}
  BY Reading DEF Settle, ProcessTypes
<1>2. CASE StandBy(k, r)
  <2>1. StoreInv'
    BY <1>2, EpisodesUnchanged, StoreKept DEF StandBy, store
  <2>2. ProcessInv'
    BY <1>2, AtRest DEF StandBy, Continue
  <2>3. TypeOK'
    BY <1>1, <1>2 DEF StandBy, Continue, StoreTypes, ProcessTypes, store, history
  <2> QED BY <2>1, <2>2, <2>3
<1>3. CASE AgentGone(k, r)
  <2>1. StoreInv' /\ record' \in [Keys -> RecordType] /\ doubt' \subseteq Keys
    BY <1>3, EpisodesUnchanged, OutcomeKept DEF AgentGone
  <2>2. ProcessInv'
    BY <1>3, AtRest DEF AgentGone, Continue
  <2>3. TypeOK'
    BY <1>1, <1>3, <2>1 DEF AgentGone, Continue, Settled, StoreTypes, ProcessTypes
  <2> QED BY <2>1, <2>2, <2>3
<1>4. CASE o = "working" /\ Tracked(r, k) /\ AwaitSecondRead(k, r)
  <2>1. StoreInv'
    BY <1>4, EpisodesUnchanged, StoreKept DEF AwaitSecondRead, store
  <2>2. k \in Reserved => r # NoReset
    BY <1>4, KeyFacts DEF Tracked
  <2>3. glance' = "working"
    BY <1>4 DEF Settle, Glances
  <2>4. ProcessInv'
    BY <1>4, <2>2, <2>3, KeyFacts
       DEF AwaitSecondRead, Continue, ProcessInv, Acting, WaitsForSent, SeenAtWork, store
  <2>5. active' \in {"none", "fresh", "old"}
    BY <1>4, Reading DEF AwaitSecondRead
  <2>6. TypeOK'
    BY <1>1, <1>4, <2>5 DEF AwaitSecondRead, Continue, StoreTypes, ProcessTypes, store, history
  <2> QED BY <2>1, <2>4, <2>6
<1>5. CASE Resumed(k, r)
  <2>1. EpisodesKept
    <3>1. CASE r # NoReset /\ mode = "full-auto" /\ ~Die
      <4>1. /\ Completed(episode[r]) \in EpisodeType /\ EpisodeOK(r, Completed(episode[r]))
            /\ Completed(episode[r]).attempts = episode[r].attempts
        BY <3>1, CompletedOK DEF StoreInv, StoreTypes
      <4> QED BY <1>5, <3>1, <4>1, OneEpisode DEF Resumed
    <3>2. CASE UNCHANGED episode
      BY <3>2, EpisodesUnchanged
    <3> QED BY <1>5, <3>1, <3>2 DEF Resumed, Die, Continue
  <2>2. StoreInv' /\ record' \in [Keys -> RecordType] /\ doubt' \subseteq Keys
    BY <1>5, <2>1, OutcomeKept DEF Resumed
  <2>3. ProcessInv'
    BY <1>5, AtRest DEF Resumed, Continue, Die, SessionLost
  <2>4. TypeOK'
    BY <1>1, <1>5, <2>1, <2>2
       DEF Resumed, Continue, Die, SessionLost, Settled, EpisodesKept, StoreTypes, ProcessTypes
  <2> QED BY <2>2, <2>3, <2>4
<1>6. CASE StillBlocked(k, r, o)
  <2>1. EpisodesKept
    <3>1. CASE r # NoReset /\ episode' = [episode EXCEPT ![r] = Scheduled(episode[r])]
      <4>1. /\ Scheduled(episode[r]) \in EpisodeType /\ EpisodeOK(r, Scheduled(episode[r]))
            /\ Scheduled(episode[r]).attempts = episode[r].attempts
        BY <3>1, ScheduledOK DEF StoreInv, StoreTypes
      <4> QED BY <3>1, <4>1, OneEpisode
    <3>2. CASE UNCHANGED episode
      BY <3>2, EpisodesUnchanged
    <3> QED BY <1>6, <3>1, <3>2 DEF StillBlocked
  <2>2. StoreInv' /\ record' \in [Keys -> RecordType] /\ doubt' \subseteq Keys
    BY <1>6, <2>1, OutcomeKept DEF StillBlocked
  <2>3. ProcessInv'
    BY <1>6, AtRest DEF StillBlocked, Continue, Die, SessionLost
  <2>4. active' \in {"none", "fresh", "old"} /\ sends' \in Nat
    <3>1. CASE Die
      BY <3>1 DEF Die, SessionLost
    <3>2. CASE UNCHANGED sends /\ active' = IF Tracked(r, k) THEN ActiveSince(TRUE, o) ELSE active
      BY <3>2, Reading DEF ProcessTypes
    <3> QED BY <1>6, <3>1, <3>2 DEF StillBlocked
  <2>5. TypeOK'
    BY <1>1, <1>6, <2>1, <2>2, <2>4
       DEF StillBlocked, Continue, Die, SessionLost, Settled, EpisodesKept, StoreTypes, ProcessTypes
  <2> QED BY <2>2, <2>3, <2>5
<1> QED BY <1>2, <1>3, <1>4, <1>5, <1>6 DEF Settle

(* The three ways into _verify.                                            *)
LEMMA VerifyStep ==
  ASSUME ResumeInv, NEW o \in Observations, NEW first \in Observations,
         Verify(o) \/ RecheckCapacity(first, o) \/ SettleReserved(o)
  PROVE  ResumeInv'
<1> USE Parts, Types
<1>1. retry \in Resets \cup {NoReset}
  BY DEF ProcessTypes
<1>2. CASE Verify(o)
  <2>1. pending \in Keys /\ record[pending].state = "sent"
    BY <1>2 DEF Verify, ProcessInv, WaitsForSent, ProcessTypes
  <2> QED BY <1>1, <1>2, <2>1, Reading, SettleStep DEF Verify
<1>3. CASE RecheckCapacity(first, o)
  <2>1. Anchor(retry, first) \in Resets \cup {NoReset}
    BY <1>1, Reading
  <2>2. Anchor(Anchor(retry, first), o) \in Resets \cup {NoReset}
    BY <2>1, Reading
  <2> QED BY <1>3, <2>2, KeyFacts, SettleStep DEF RecheckCapacity, SentCapacity
<1>4. CASE SettleReserved(o)
  <2>1. /\ retry \in Resets /\ episode[retry].pending \in Keys
        /\ record[episode[retry].pending].state = "sent"
    BY <1>1, <1>4, KeyFacts DEF SettleReserved, Unsettled, StoreTypes, EpisodeType
  <2> QED BY <1>1, <1>4, <2>1, Reading, SettleStep DEF SettleReserved
<1> QED BY <1>2, <1>3, <1>4

(* A tick's first read opens, reopens or completes an episode.             *)
LEMMA ObserveStep ==
  ASSUME ResumeInv, NEW o \in Observations, Observe(o)
  PROVE  ResumeInv'
<1> USE Parts, Types
<1> DEFINE r == IF o = Capacity THEN NoReset ELSE Anchor(retry, o)
           tracked == Tracked(r, pending)
<1>1. r \in Resets \cup {NoReset}
  BY Reading DEF ProcessTypes
<1>2. EpisodesKept
  <2>1. CASE r # NoReset /\ episode' = [episode EXCEPT ![r] = Completed(episode[r])]
    <3>1. /\ Completed(episode[r]) \in EpisodeType /\ EpisodeOK(r, Completed(episode[r]))
          /\ Completed(episode[r]).attempts = episode[r].attempts
      BY <1>1, <2>1, CompletedOK DEF StoreInv, StoreTypes
    <3> QED BY <1>1, <2>1, <3>1, OneEpisode
  <2>2. CASE Timed(o) /\ episode' = [episode EXCEPT ![o] = Ensured(episode[o])]
    <3>1. /\ o \in Resets
          /\ Ensured(episode[o]) \in EpisodeType /\ EpisodeOK(o, Ensured(episode[o]))
          /\ Ensured(episode[o]).attempts = episode[o].attempts
      BY <2>2, EnsuredOK DEF StoreInv, StoreTypes, Timed
    <3> QED BY <2>2, <3>1, OneEpisode
  <2>3. CASE UNCHANGED episode
    BY <2>3, EpisodesUnchanged
  <2> QED BY <2>1, <2>2, <2>3 DEF Observe
<1>3. StoreInv'
  BY <1>2, StoreKept DEF Observe
<1>4. active' # "none" => o = "working"
  BY DEF Observe, ActiveSince
<1>5. ProcessInv'
  BY <1>4 DEF Observe, Glances, ProcessInv, Acting, WaitsForSent, SeenAtWork
<1>6. active' \in {"none", "fresh", "old"} /\ retry' \in Resets \cup {NoReset}
  BY <1>1, Reading DEF Observe, Timed, ProcessTypes
<1>7. ProcessTypes'
  BY <1>6, Reading DEF Observe, ProcessTypes
<1>8. StoreTypes'
  BY <1>2 DEF Observe, EpisodesKept, StoreTypes, history
<1> QED BY <1>3, <1>5, <1>7, <1>8

(* The steps that touch neither the store nor its history.                 *)
LEMMA QuietStep ==
  ASSUME ResumeInv,
         \/ Crash \/ Elapse \/ TimeJump
         \/ \E m \in Mode : Restart(m) \/ SetMode(m)
         \/ \E o \in Observations : Refuse(o)
         \/ UNCHANGED vars
  PROVE  ResumeInv'
<1> USE Parts, Types
<1>1. UNCHANGED store /\ UNCHANGED history
  BY DEF Crash, Elapse, TimeJump, Restart, SetMode, Refuse, vars
<1>2. StoreInv'
  BY <1>1, EpisodesUnchanged, StoreKept DEF store
<1>3. StoreTypes'
  BY <1>1 DEF StoreTypes, store, history
<1>4. CASE Crash
  BY <1>2, <1>3, <1>4, AtRest, Reading DEF Crash, Die, SessionLost, ProcessTypes, Observations, Idle
<1>5. CASE Elapse
  BY <1>1, <1>2, <1>3, <1>5
     DEF Elapse, ProcessTypes, ProcessInv, Acting, WaitsForSent, SeenAtWork, store
<1>6. CASE TimeJump
  BY <1>2, <1>3, <1>6, AtRest DEF TimeJump, ProcessTypes
<1>7. ASSUME NEW m \in Mode, Restart(m) PROVE ResumeInv'
  <2>1. verify' = "none"
    BY <1>7 DEF Restart, ProcessInv, WaitsForSent, ProcessTypes, session
  <2> QED BY <1>2, <1>3, <1>7, <2>1, AtRest DEF Restart, ProcessTypes, session
<1>8. ASSUME NEW m \in Mode, SetMode(m) PROVE ResumeInv'
  BY <1>1, <1>2, <1>3, <1>8
     DEF SetMode, ProcessTypes, ProcessInv, Acting, WaitsForSent, SeenAtWork, store, session
<1>9. ASSUME NEW o \in Observations, Refuse(o) PROVE ResumeInv'
  <2>1. verify' = "none"
    BY <1>9 DEF Refuse, ProcessInv, WaitsForSent, ProcessTypes
  <2>2. ProcessTypes'
    BY <1>9, Reading DEF Refuse, ProcessTypes
  <2> QED BY <1>2, <1>3, <1>9, <2>1, <2>2, AtRest DEF Refuse
<1>10. CASE UNCHANGED vars
  BY <1>1, <1>2, <1>3, <1>10
     DEF vars, ProcessTypes, ProcessInv, Acting, WaitsForSent, SeenAtWork, store, session, history
<1> QED BY <1>4, <1>5, <1>6, <1>7, <1>8, <1>9, <1>10

(* act saves its plan: a plain key, or the next key of its episode.        *)
LEMMA PlanStep ==
  ASSUME ResumeInv, Plan
  PROVE  ResumeInv'
<1> USE Parts, Types
<1> DEFINE reserved == retry # NoReset
           key == IF reserved THEN <<retry, episode[retry].attempts + 1>> ELSE seen
           e == episode[retry]
           reservation == [e EXCEPT !.attempts = @ + 1, !.pending = key]
<1>1. /\ pc = "scanned" /\ seen \in Plain /\ SetRecord(key, "planned")
      /\ record[seen].state \notin Actioned(seen) /\ WithinBudget(seen)
      /\ reserved => Plannable(e)
      /\ pending' = key /\ pc' = "planned"
      /\ UNCHANGED <<mode, retry, active, verify, sends, history, glance>>
  BY DEF Plan, Allowed
<1>2. reserved => /\ e \in EpisodeType /\ EpisodeOK(retry, e)
                  /\ e.pending = NoKey /\ ~e.completed /\ ~e.exhausted
                  /\ e.attempts < ScheduleLength /\ e.attempts \in Nat
                  /\ e.attempts + 1 \in 1..ScheduleLength
  BY <1>1, KeyFacts
     DEF Plannable, StoreInv, StoreTypes, ProcessTypes, EpisodeOK, EpisodeType
<1>3. /\ key \in Keys
      /\ reserved => key \in Reserved /\ key[1] = retry
      /\ ~reserved => key \in Plain /\ key \notin Reserved /\ key = seen
  BY <1>1, <1>2, KeyFacts DEF ProcessTypes
<1>4. reserved => /\ record[key].attempts = 0 /\ typed[key] = 0 /\ key \notin doubt
  BY <1>2, KeyFacts DEF StoreInv, Unreserved, ProcessTypes
<1>5. key \notin doubt
  BY <1>1, <1>3, <1>4 DEF StoreInv, DoubtIsOpen, Actioned
<1>6. /\ record' \in [Keys -> RecordType]
      /\ record'[key].state = "planned" /\ record'[key].attempts = record[key].attempts
      /\ \A j \in Keys : j # key => record'[j] = record[j]
  BY <1>1, <1>3, RecordSet DEF States
<1>7. reserved => /\ reservation \in EpisodeType /\ EpisodeOK(retry, reservation)
                  /\ reservation.attempts = e.attempts + 1 /\ reservation.pending = key
  <2> SUFFICES ASSUME reserved PROVE <1>7!2
    OBVIOUS
  <2>1. key = <<retry, e.attempts + 1>> /\ key \in Reserved /\ key # NoKey
    BY <1>3, KeyFacts
  <2> HIDE DEF key, e
  <2>2. e.attempts + 1 \in 0..ScheduleLength /\ e.attempts + 1 > 0
    BY <1>2, KeyFacts
  <2>3. reservation = [e EXCEPT !.attempts = e.attempts + 1, !.pending = key]
    OBVIOUS
  <2>4. /\ reservation \in EpisodeType
        /\ reservation.attempts = e.attempts + 1 /\ reservation.pending = key
        /\ reservation.exhausted = e.exhausted
    BY <1>2, <2>1, <2>2, <2>3 DEF EpisodeType
  <2> QED BY <1>2, <2>1, <2>2, <2>4 DEF EpisodeOK
<1>8. episode' = IF reserved THEN [episode EXCEPT ![retry] = reservation] ELSE episode
  BY DEF Plan
<1>9. /\ episode' \in [Resets -> EpisodeType]
      /\ \A r \in Resets : EpisodeOK(r, episode'[r])
      /\ \A r \in Resets : episode'[r].attempts >= episode[r].attempts
      /\ reserved => episode'[retry] = reservation
      /\ \A r \in Resets : r # retry => episode'[r] = episode[r]
  <2>1. CASE reserved
    <3>1. retry \in Resets
      BY <2>1 DEF ProcessTypes
    <3> HIDE DEF reservation, e, key, reserved
    <3> QED BY <1>2, <1>7, <1>8, <2>1, <3>1 DEF StoreInv, StoreTypes, EpisodeType, reserved, e
  <2>2. CASE ~reserved
    BY <1>8, <2>2, KeyFacts DEF StoreInv, StoreTypes, EpisodeType
  <2> QED BY <2>1, <2>2
<1> HIDE DEF reservation, e, key
<1>10. Unreserved'
  <2> SUFFICES ASSUME NEW r \in Resets, NEW i \in 1..ScheduleLength, i > episode'[r].attempts
               PROVE  /\ record'[<<r, i>>].state \in {"none", "failed"}
                      /\ record'[<<r, i>>].attempts = 0
                      /\ typed'[<<r, i>>] = 0 /\ <<r, i>> \notin doubt'
    BY DEF Unreserved
  <2>1. i > episode[r].attempts
    BY <1>9 DEF StoreTypes, EpisodeType
  <2>2. /\ record[<<r, i>>].state \in {"none", "failed"} /\ record[<<r, i>>].attempts = 0
        /\ typed[<<r, i>>] = 0 /\ <<r, i>> \notin doubt
    BY <2>1 DEF StoreInv, Unreserved
  <2>3. <<r, i>> \in Reserved /\ <<r, i>> \in Keys
    BY KeyFacts
  <2>4. <<r, i>> # key
    <3>1. CASE reserved /\ r = retry
      <4>1. i > e.attempts + 1
        BY <1>7, <1>9, <3>1
      <4>2. key = <<retry, e.attempts + 1>> /\ e.attempts \in Nat
        BY <1>2, <3>1 DEF key, e
      <4>3. i # e.attempts + 1
        BY <4>1, <4>2
      <4> QED BY <4>2, <4>3
    <3>2. CASE ~(reserved /\ r = retry)
      BY <1>3, <2>3, <3>2 DEF key
    <3> QED BY <3>1, <3>2
  <2> QED BY <2>2, <2>3, <2>4, <1>1, <1>6 DEF history
<1>11. ReservedOnce' /\ DoubtIsOpen'
  BY <1>1, <1>5, <1>6 DEF history, StoreInv, ReservedOnce, DoubtIsOpen, StoreTypes
<1>12. \A j \in Keys : Uncounted(j)' = Uncounted(j) /\ record'[j].attempts = record[j].attempts
  BY <1>1, <1>5, <1>6 DEF Uncounted, history
<1>13. CapacityCounted'
  <2>1. record'[Capacity].state = "planned" => record[Capacity].attempts < MaxResumeAttempts
    <3>1. CASE key = Capacity
      BY <1>1, <1>3, <3>1, KeyFacts DEF WithinBudget
    <3>2. CASE key # Capacity
      BY <1>6, <3>2, KeyFacts DEF StoreInv, CapacityCounted
    <3> QED BY <3>1, <3>2
  <2> QED BY <1>1, <1>12, <2>1, KeyFacts DEF StoreInv, CapacityCounted, history
<1>14. PromptCounted'
  BY <1>1, <1>12, KeyFacts DEF StoreInv, PromptCounted, history
<1>15. Acting'
  <2>1. active = "none"
    BY <1>1, KeyFacts DEF ProcessInv, SeenAtWork
  <2>2. key # NoKey
    BY <1>3, KeyFacts
  <2> QED BY <1>1, <1>3, <1>4, <1>5, <1>6, <1>7, <1>9, <2>1, <2>2 DEF Acting, history
<1>16. WaitsForSent' /\ SeenAtWork'
  BY <1>1 DEF ProcessInv, WaitsForSent, SeenAtWork
<1>17. ProcessTypes'
  BY <1>1, <1>3, Reading DEF Plan, ProcessTypes, Observations, Idle
<1>18. StoreTypes'
  BY <1>1, <1>6, <1>9 DEF StoreTypes, history
<1> QED BY <1>9, <1>10, <1>11, <1>13, <1>14, <1>15, <1>16, <1>17, <1>18 DEF StoreInv, ProcessInv

(* Between the plan and its outcome: the key, its record and its episode.  *)
LEMMA InFlight ==
  ASSUME ResumeInv, pc \in {"planned", "typed", "unsent"}
  PROVE  /\ pending \in Keys /\ record[pending].state = "planned" /\ active = "none"
         /\ verify = "none"
         /\ IsReserved => /\ retry \in Resets /\ pending[1] = retry
                          /\ episode[retry].pending = pending
                          /\ pending = <<retry, episode[retry].attempts>>
                          /\ episode[retry].attempts \in 1..ScheduleLength
                          /\ ~episode[retry].exhausted
         /\ ~IsReserved => pending \in Prompts \cup Resets \/ pending = Capacity
<1> USE Parts, Types
<1>1. /\ pending \in Keys /\ record[pending].state = "planned" /\ active = "none"
      /\ verify = "none"
  BY DEF ProcessInv, Acting, WaitsForSent, ProcessTypes
<1>2. ASSUME IsReserved
      PROVE  /\ retry \in Resets /\ pending[1] = retry /\ episode[retry].pending = pending
             /\ pending = <<retry, episode[retry].attempts>>
             /\ episode[retry].attempts \in 1..ScheduleLength
             /\ ~episode[retry].exhausted
  <2>1. retry \in Resets /\ pending[1] = retry /\ episode[retry].pending = pending
    BY <1>2, KeyFacts DEF IsReserved, ProcessInv, Acting
  <2>2. EpisodeOK(retry, episode[retry]) /\ episode[retry].attempts \in 0..ScheduleLength
    BY <2>1 DEF StoreInv, StoreTypes, EpisodeType
  <2> QED BY <1>1, <2>1, <2>2, KeyFacts DEF EpisodeOK
<1>3. ~IsReserved => pending \in Prompts \cup Resets \/ pending = Capacity
  BY <1>1 DEF IsReserved, Keys, Plain
<1> QED BY <1>1, <1>2, <1>3

(* A step that changes the record and the history of the key in flight     *)
(* alone, and keeps the episodes' attempts, owes the invariant that key.   *)
LEMMA KeyInFlight ==
  ASSUME ResumeInv, pc \in {"planned", "typed", "unsent"}, NEW k \in Keys, k = pending,
         record' \in [Keys -> RecordType], typed' \in [Keys -> Nat], landed' \in [Keys -> Nat],
         \A j \in Keys : j # pending =>
           /\ record'[j] = record[j] /\ typed'[j] = typed[j] /\ landed'[j] = landed[j]
           /\ j \in doubt' <=> j \in doubt,
         doubt' \subseteq Keys, EpisodesKept,
         pending \in doubt' => record'[pending].state \in {"planned", "sent"},
         IsReserved => typed'[pending] <= 1,
         pending = Capacity => CapacityCounted',
         pending \in Prompts \cup Resets =>
           /\ record'[pending].attempts + Uncounted(k)' <= MaxResumeAttempts
           /\ landed'[pending] <= record'[pending].attempts + Uncounted(k)'
  PROVE  StoreInv'
<1> USE Parts, Types
<1>1. ReservedOnce' /\ DoubtIsOpen'
  BY KeyFacts DEF IsReserved, StoreInv, ReservedOnce, DoubtIsOpen
<1>2. Unreserved'
  <2> SUFFICES ASSUME NEW r \in Resets, NEW i \in 1..ScheduleLength, i > episode'[r].attempts
               PROVE  /\ record'[<<r, i>>].state \in {"none", "failed"}
                      /\ record'[<<r, i>>].attempts = 0
                      /\ typed'[<<r, i>>] = 0 /\ <<r, i>> \notin doubt'
    BY DEF Unreserved
  <2>1. /\ record[<<r, i>>].state \in {"none", "failed"} /\ record[<<r, i>>].attempts = 0
        /\ typed[<<r, i>>] = 0 /\ <<r, i>> \notin doubt
    BY DEF StoreInv, Unreserved, EpisodesKept
  <2>2. <<r, i>> \in Keys /\ <<r, i>> # pending
    BY <2>1, InFlight, KeyFacts
  <2> QED BY <2>1, <2>2
<1>3. \A j \in Keys : j # pending => Uncounted(j)' = Uncounted(j)
  BY DEF Uncounted
<1>4. CapacityCounted'
  BY <1>3, KeyFacts DEF StoreInv, CapacityCounted
<1>5. PromptCounted'
  <2> SUFFICES ASSUME NEW j \in Prompts \cup Resets
               PROVE  /\ record'[j].attempts + Uncounted(j)' <= MaxResumeAttempts
                      /\ landed'[j] <= record'[j].attempts + Uncounted(j)'
    BY DEF PromptCounted
  <2>1. j \in Keys
    BY KeyFacts
  <2>2. /\ record[j].attempts + Uncounted(j) <= MaxResumeAttempts
        /\ landed[j] <= record[j].attempts + Uncounted(j)
    BY DEF StoreInv, PromptCounted
  <2>3. CASE j # pending
    BY <1>3, <2>1, <2>2, <2>3
  <2>4. CASE j = k
    BY <2>4
  <2> QED BY <2>3, <2>4
<1> QED BY <1>1, <1>2, <1>4, <1>5 DEF StoreInv, EpisodesKept

(* The final recheck refuses: the reservation goes back as it was.         *)
LEMMA CancelStep ==
  ASSUME ResumeInv, NEW o \in Observations, Cancel(o)
  PROVE  ResumeInv'
<1> USE Parts, Types
<1>1. /\ pc = "planned" /\ SetRecord(pending, "failed") /\ pc' = "idle"
      /\ retry' = Anchor(retry, o) /\ UNCHANGED <<mode, seen, pending, active, verify, sends>>
      /\ UNCHANGED <<typed, landed, doubt>>
  BY DEF Cancel, history
<1>2. /\ pending \in Keys /\ record[pending].state = "planned" /\ verify = "none"
      /\ pending \notin doubt
  BY <1>1, InFlight DEF ProcessInv, Acting
<1>k. PICK k \in Keys : k = pending
  BY <1>2
<1>3. /\ record' \in [Keys -> RecordType]
      /\ record'[pending].state = "failed" /\ record'[pending].attempts = record[pending].attempts
      /\ \A j \in Keys : j # pending => record'[j] = record[j]
  BY <1>1, <1>2, RecordSet DEF States
<1>4. ProcessInv'
  BY <1>1, <1>2, AtRest
<1>5. ProcessTypes'
  BY <1>1, Reading DEF Cancel, ProcessTypes
<1>6. CASE ~IsReserved
  <2>1. EpisodesKept
    BY <1>6, EpisodesUnchanged DEF Cancel
  <2>2. \A j \in Keys : Uncounted(j)' = Uncounted(j) /\ record'[j].attempts = record[j].attempts
    BY <1>1, <1>2, <1>3 DEF Uncounted
  <2>3. pending = Capacity => CapacityCounted'
    BY <1>1, <1>3, <2>2, KeyFacts DEF StoreInv, CapacityCounted
  <2>4. pending \in Prompts \cup Resets =>
          /\ record'[pending].attempts + Uncounted(k)' <= MaxResumeAttempts
          /\ landed'[pending] <= record'[pending].attempts + Uncounted(k)'
    BY <1>1, <1>2, <1>k, <2>2 DEF StoreInv, PromptCounted
  <2>5. StoreInv'
    BY <1>1, <1>2, <1>3, <1>6, <2>1, <2>3, <2>4, <1>k, KeyInFlight DEF StoreTypes
  <2>6. StoreTypes'
    BY <1>1, <1>3, <2>1 DEF StoreTypes, EpisodesKept
  <2> QED BY <1>4, <1>5, <2>5, <2>6
<1>7. CASE IsReserved
  <2> DEFINE e == episode[retry]
  <2>1. /\ retry \in Resets /\ pending[1] = retry /\ pending = <<retry, e.attempts>>
        /\ e \in EpisodeType /\ e.attempts \in 1..ScheduleLength /\ ~e.exhausted
    BY <1>1, <1>7, InFlight DEF StoreTypes
  <2>2. typed[pending] = 0 /\ record[pending].attempts = 0
    BY <1>1, <1>7 DEF ProcessInv, Acting, IsReserved
  <2>3. episode' = [episode EXCEPT ![retry] = Released(e)]
    BY <1>7, <2>1 DEF Cancel
  <2>4. /\ Released(e) \in EpisodeType /\ EpisodeOK(retry, Released(e))
        /\ Released(e).attempts = e.attempts - 1
    <3> HIDE DEF e
    <3>1. Released(e) = [e EXCEPT !.attempts = e.attempts - 1, !.pending = NoKey]
      BY DEF Released
    <3>2. e.attempts - 1 \in 0..ScheduleLength /\ e.attempts - 1 # ScheduleLength
      BY <2>1, KeyFacts
    <3>3. /\ Released(e) \in EpisodeType /\ Released(e).attempts = e.attempts - 1
          /\ Released(e).pending = NoKey /\ Released(e).exhausted = e.exhausted
      BY <2>1, <3>1, <3>2 DEF EpisodeType
    <3> QED BY <2>1, <3>2, <3>3 DEF EpisodeOK
  <2>5. /\ episode' \in [Resets -> EpisodeType] /\ episode'[retry] = Released(e)
        /\ \A r \in Resets : r # retry => episode'[r] = episode[r]
    <3> HIDE DEF e
    <3> QED BY <2>1, <2>3, <2>4 DEF StoreTypes
  <2>6. \A r \in Resets : EpisodeOK(r, episode'[r])
    BY <2>4, <2>5 DEF StoreInv
  <2>7. Unreserved'
    <3> SUFFICES ASSUME NEW r \in Resets, NEW i \in 1..ScheduleLength, i > episode'[r].attempts
                 PROVE  /\ record'[<<r, i>>].state \in {"none", "failed"}
                        /\ record'[<<r, i>>].attempts = 0
                        /\ typed'[<<r, i>>] = 0 /\ <<r, i>> \notin doubt'
      BY DEF Unreserved
    <3>1. CASE <<r, i>> = pending
      BY <1>1, <1>2, <1>3, <2>2, <3>1
    <3>2. CASE <<r, i>> # pending
      <4>1. i > episode[r].attempts
        <5>1. CASE r = retry
          BY <2>1, <2>4, <2>5, <3>2, <5>1
        <5> QED BY <2>5, <5>1
      <4>2. /\ record[<<r, i>>].state \in {"none", "failed"} /\ record[<<r, i>>].attempts = 0
            /\ typed[<<r, i>>] = 0 /\ <<r, i>> \notin doubt
        BY <4>1 DEF StoreInv, Unreserved
      <4> QED BY <1>1, <1>3, <3>2, <4>2, KeyFacts
    <3> QED BY <3>1, <3>2
  <2>8. ReservedOnce' /\ DoubtIsOpen'
    BY <1>1, <1>2, <1>3 DEF StoreInv, ReservedOnce, DoubtIsOpen, StoreTypes
  <2>9. \A j \in Keys : Uncounted(j)' = Uncounted(j) /\ record'[j].attempts = record[j].attempts
    BY <1>1, <1>2, <1>3 DEF Uncounted
  <2>10. CapacityCounted' /\ PromptCounted'
    BY <1>1, <1>3, <2>9, KeyFacts DEF StoreInv, CapacityCounted, PromptCounted
  <2>11. StoreTypes'
    BY <1>1, <1>3, <2>5 DEF StoreTypes
  <2> QED BY <1>4, <1>5, <2>6, <2>7, <2>8, <2>10, <2>11 DEF StoreInv
<1> QED BY <1>6, <1>7

(* The keystroke goes out, or sendText raises: counted by nothing yet.     *)
LEMMA SendTextStep ==
  ASSUME ResumeInv, SendText
  PROVE  ResumeInv'
<1> USE Parts, Types
<1>1. /\ pc = "planned" /\ typed' = [typed EXCEPT ![pending] = @ + 1]
      /\ doubt' = doubt \cup {pending} /\ FinalBudget
      /\ UNCHANGED <<mode, store, seen, session, glance>>
      /\ \/ pc' = "typed" /\ landed' = [landed EXCEPT ![pending] = @ + 1]
         \/ pc' = "unsent" /\ landed' = landed
  BY DEF SendText
<1>2. /\ pending \in Keys /\ record[pending].state = "planned" /\ verify = "none"
      /\ active = "none" /\ pending \notin doubt /\ pending # NoKey
      /\ pending \in Reserved =>
           typed[pending] = 0 /\ retry = pending[1] /\ episode[retry].pending = pending
  BY <1>1, InFlight, KeyFacts DEF ProcessInv, Acting
<1>k. PICK k \in Keys : k = pending
  BY <1>2
<1>3. /\ record' = record /\ episode' = episode /\ typed' \in [Keys -> Nat]
      /\ landed' \in [Keys -> Nat] /\ doubt' \subseteq Keys
      /\ typed'[pending] = typed[pending] + 1
      /\ landed'[pending] <= landed[pending] + 1
      /\ pc' = "unsent" => landed' = landed
      /\ \A j \in Keys : j # pending =>
           typed'[j] = typed[j] /\ landed'[j] = landed[j] /\ (j \in doubt' <=> j \in doubt)
  BY <1>1, <1>2 DEF StoreTypes, store
<1>4. \A j \in Keys : j = pending => Uncounted(j) = 0 /\ Uncounted(j)' = 1
  BY <1>1, <1>2, <1>3 DEF Uncounted
<1>5. pending = Capacity => CapacityCounted'
  BY <1>2, <1>3, <1>4, KeyFacts DEF StoreInv, StoreTypes, RecordType, CapacityCounted
<1>6. pending \in Prompts \cup Resets =>
        /\ record'[pending].attempts + Uncounted(k)' <= MaxResumeAttempts
        /\ landed'[pending] <= record'[pending].attempts + Uncounted(k)'
        /\ landed[pending] <= record[pending].attempts
  <2> SUFFICES ASSUME pending \in Prompts \cup Resets PROVE <1>6!2
    OBVIOUS
  <2>1. PlainAttempts < MaxResumeAttempts
    BY <1>1 DEF FinalBudget
  <2>2. record[pending].attempts \in Nat /\ sends \in Nat /\ landed[pending] \in Nat
        /\ landed'[pending] \in Nat
    BY <1>2, <1>3 DEF StoreTypes, RecordType, ProcessTypes
  <2>3. record[pending].attempts < MaxResumeAttempts
    BY <1>2, <2>1, <2>2, KeyFacts DEF PlainAttempts, Larger
  <2>4. landed[pending] <= record[pending].attempts + Uncounted(pending)
    BY DEF StoreInv, PromptCounted
  <2> QED BY <1>k, <1>3, <1>4, <2>2, <2>3, <2>4, KeyFacts
<1>7. IsReserved => typed'[pending] <= 1
  BY <1>2, <1>3 DEF IsReserved
<1>8. EpisodesKept
  BY <1>3, EpisodesUnchanged
<1>9. StoreInv'
  BY <1>1, <1>2, <1>3, <1>5, <1>6, <1>7, <1>8, <1>k, KeyInFlight DEF StoreTypes
<1>10. ProcessInv'
  BY <1>1, <1>2, <1>3, <1>6 DEF session, ProcessInv, Acting, WaitsForSent, SeenAtWork
<1>11. StoreTypes' /\ ProcessTypes'
  BY <1>1, <1>3 DEF StoreTypes, ProcessTypes, session
<1> QED BY <1>9, <1>10, <1>11

(* The outcome of a send is saved.                                         *)
LEMMA MarkSentStep ==
  ASSUME ResumeInv, MarkSent
  PROVE  ResumeInv'
<1> USE Parts, Types
<1>1. /\ pc = "typed"
      /\ record' = [record EXCEPT ![pending] = [state |-> "sent", attempts |-> @.attempts + 1]]
      /\ sends' = sends + 1 /\ verify' = "future" /\ pc' = "idle"
      /\ UNCHANGED <<mode, episode, seen, pending, retry, active, glance>>
      /\ UNCHANGED <<typed, landed, doubt>>
  BY DEF MarkSent, history
<1>2. /\ pending \in Keys /\ record[pending].state = "planned" /\ active = "none"
      /\ pending \in doubt /\ pending # NoKey
      /\ pending \in Reserved => retry \in Resets
  BY <1>1, InFlight, KeyFacts DEF IsReserved, ProcessInv, Acting
<1>k. PICK k \in Keys : k = pending
  BY <1>2
<1>3. /\ record' \in [Keys -> RecordType]
      /\ record'[pending].state = "sent"
      /\ record'[pending].attempts = record[pending].attempts + 1
      /\ \A j \in Keys : j # pending => record'[j] = record[j]
  BY <1>1, <1>2 DEF StoreTypes, RecordType, States
<1>4. \A j \in Keys : j = pending => Uncounted(j) = 1 /\ Uncounted(j)' = 0
  BY <1>1, <1>2, <1>3 DEF Uncounted
<1>5. record[pending].attempts \in Nat /\ typed[pending] \in Nat /\ landed[pending] \in Nat
  BY <1>2 DEF StoreTypes, RecordType
<1>6. pending = Capacity => CapacityCounted'
  BY <1>1, <1>2, <1>3, <1>4, <1>5, KeyFacts DEF StoreInv, CapacityCounted
<1>7. pending \in Prompts \cup Resets =>
        /\ record'[pending].attempts + Uncounted(k)' <= MaxResumeAttempts
        /\ landed'[pending] <= record'[pending].attempts + Uncounted(k)'
  BY <1>k, <1>1, <1>3, <1>4, <1>5 DEF StoreInv, PromptCounted
<1>8. EpisodesKept
  BY <1>1, EpisodesUnchanged
<1>9. IsReserved => typed'[pending] <= 1
  BY <1>1 DEF IsReserved, StoreInv, ReservedOnce
<1>10. StoreInv'
  BY <1>1, <1>2, <1>3, <1>6, <1>7, <1>8, <1>9, <1>k, KeyInFlight DEF StoreTypes
<1>11. ProcessInv'
  BY <1>1, <1>2, <1>3, KeyFacts DEF ProcessInv, Acting, WaitsForSent, SeenAtWork
<1>12. StoreTypes' /\ ProcessTypes'
  BY <1>1, <1>3 DEF StoreTypes, ProcessTypes
<1> QED BY <1>10, <1>11, <1>12

(* sendText raised: a capacity attempt is counted, a reservation is spent. *)
LEMMA MarkSendFailedStep ==
  ASSUME ResumeInv, MarkSendFailed
  PROVE  ResumeInv'
<1> USE Parts, Types
<1>1. /\ pc = "unsent"
      /\ record' = [record EXCEPT ![pending] =
                      [state |-> "failed", attempts |-> @.attempts + SpentByError(pending)]]
      /\ doubt' = doubt \ {pending}
      /\ UNCHANGED <<mode, seen, typed, landed, glance>>
  BY DEF MarkSendFailed
<1>2. /\ pending \in Keys /\ record[pending].state = "planned" /\ verify = "none"
      /\ pending \in doubt
      /\ IsReserved => retry \in Resets /\ pending[1] = retry
      /\ pending \in Prompts \cup Resets => landed[pending] <= record[pending].attempts
  BY <1>1, InFlight DEF ProcessInv, Acting
<1>k. PICK k \in Keys : k = pending
  BY <1>2
<1>3. SpentByError(pending) \in {0, 1} /\ (pending # Capacity => SpentByError(pending) = 0)
  BY DEF SpentByError
<1>4. /\ record' \in [Keys -> RecordType]
      /\ record'[pending].state = "failed"
      /\ record'[pending].attempts = record[pending].attempts + SpentByError(pending)
      /\ \A j \in Keys : j # pending => record'[j] = record[j]
  BY <1>1, <1>2, <1>3 DEF StoreTypes, RecordType, States
<1>5. \A j \in Keys : j = pending => Uncounted(j) = 1 /\ Uncounted(j)' = 0
  BY <1>1, <1>2, <1>4 DEF Uncounted
<1>6. record[pending].attempts \in Nat /\ typed[pending] \in Nat /\ landed[pending] \in Nat
  BY <1>2 DEF StoreTypes, RecordType
<1>7. pending = Capacity => CapacityCounted'
  BY <1>1, <1>2, <1>4, <1>5, <1>6, KeyFacts DEF SpentByError, StoreInv, CapacityCounted
<1>8. pending \in Prompts \cup Resets =>
        /\ record'[pending].attempts + Uncounted(k)' <= MaxResumeAttempts
        /\ landed'[pending] <= record'[pending].attempts + Uncounted(k)'
  BY <1>k, <1>1, <1>2, <1>3, <1>4, <1>5, <1>6, KeyFacts DEF StoreInv, PromptCounted
<1>9. EpisodesKept
  <2>1. CASE IsReserved /\ episode' = [episode EXCEPT ![retry] = Scheduled(episode[retry])]
    <3>1. /\ Scheduled(episode[retry]) \in EpisodeType
          /\ EpisodeOK(retry, Scheduled(episode[retry]))
          /\ Scheduled(episode[retry]).attempts = episode[retry].attempts
      BY <1>2, <2>1, ScheduledOK DEF StoreInv, StoreTypes
    <3> QED BY <1>2, <2>1, <3>1, OneEpisode
  <2>2. CASE UNCHANGED episode
    BY <2>2, EpisodesUnchanged
  <2> QED BY <1>2, <2>1, <2>2 DEF MarkSendFailed
<1>10. IsReserved => typed'[pending] <= 1
  BY <1>1 DEF IsReserved, StoreInv, ReservedOnce
<1>11. StoreInv'
  BY <1>1, <1>2, <1>4, <1>7, <1>8, <1>9, <1>10, <1>k, KeyInFlight DEF StoreTypes
<1>12. ProcessInv'
  BY <1>2, AtRest DEF MarkSendFailed, Die, SessionLost, session
<1>13. ProcessTypes'
  BY DEF MarkSendFailed, Die, SessionLost, session, ProcessTypes
<1>14. StoreTypes'
  BY <1>1, <1>4, <1>9 DEF StoreTypes, EpisodesKept
<1> QED BY <1>11, <1>12, <1>13, <1>14

LEMMA Initially == Init => ResumeInv
<1> SUFFICES ASSUME Init PROVE ResumeInv
  OBVIOUS
<1> USE DEF Init
<1>1. TypeOK
  BY KeyFacts DEF TypeOK, Mode, Observations, Idle, NewEpisode
<1>2. StoreInv
  BY KeyFacts DEF StoreInv, NewEpisode, EpisodeOK, ReservedOnce, Unreserved, DoubtIsOpen,
                  CapacityCounted, PromptCounted, Uncounted, Plain
<1>3. ProcessInv
  BY DEF ProcessInv, Acting, WaitsForSent, SeenAtWork
<1> QED BY <1>1, <1>2, <1>3, Parts

LEMMA Step == ResumeInv /\ [Next]_vars => ResumeInv'
<1> SUFFICES ASSUME ResumeInv, [Next]_vars PROVE ResumeInv'
  OBVIOUS
<1>1. ASSUME NEW o \in Observations, Verify(o) \/ SettleReserved(o) PROVE ResumeInv'
  BY <1>1, VerifyStep
<1>2. ASSUME NEW first \in Observations, NEW o \in Observations, RecheckCapacity(first, o)
      PROVE  ResumeInv'
  BY <1>2, VerifyStep
<1>3. ASSUME NEW o \in Observations, Observe(o) PROVE ResumeInv'
  BY <1>3, ObserveStep
<1>4. ASSUME NEW o \in Observations, Cancel(o) PROVE ResumeInv'
  BY <1>4, CancelStep
<1>5. ASSUME NEW o \in Observations, Refuse(o) PROVE ResumeInv'
  BY <1>5, QuietStep
<1>6. ASSUME Crash \/ Elapse \/ TimeJump \/ UNCHANGED vars PROVE ResumeInv'
  BY <1>6, QuietStep
<1>7. ASSUME NEW m \in Mode, Restart(m) \/ SetMode(m) PROVE ResumeInv'
  BY <1>7, QuietStep
<1> QED BY <1>1, <1>2, <1>3, <1>4, <1>5, <1>6, <1>7, PlanStep, SendTextStep, MarkSentStep,
           MarkSendFailedStep DEF Next, Run

(* The inductive invariant holds, whatever the prompts, the limit banners, *)
(* the length of the schedule and the budget.                              *)
THEOREM ResumeInvariance == Spec => []ResumeInv
BY Initially, Step, PTL DEF Spec

(* Every variable keeps its type; an episode never plans beyond the        *)
(* configured schedule (state_store.py: plan_episode_attempt).             *)
THEOREM ResumeTyping == Spec => []TypeOK
<1>1. ResumeInv => TypeOK
  BY DEF ResumeInv
<1> QED BY <1>1, ResumeInvariance, PTL

(* Each reserved attempt of a limit episode is typed at most once.         *)
THEOREM AttemptsAreReservedOnce == Spec => []ReservedOnce
<1>1. ResumeInv => ReservedOnce
  BY DEF ResumeInv
<1> QED BY <1>1, ResumeInvariance, PTL

(* The capacity prompt is typed at most max_resume_attempts times.         *)
THEOREM CapacityIsBudgeted == Spec => []CapacityBudget
<1>1. ResumeInv => CapacityBudget
  <2> SUFFICES ASSUME ResumeInv PROVE CapacityBudget
    OBVIOUS
  <2>1. typed[Capacity] \in Nat /\ record[Capacity].attempts \in Nat
    BY KeyFacts DEF ResumeInv, TypeOK
  <2>2. CapacityCounted /\ Uncounted(Capacity) \in {0, 1}
    BY DEF ResumeInv, Uncounted
  <2> QED BY <2>1, <2>2, KeyFacts DEF CapacityCounted, Uncounted, CapacityBudget
<1> QED BY <1>1, ResumeInvariance, PTL

(* The keystrokes of a plain prompt that landed stay within its budget.    *)
THEOREM PromptsAreBudgeted == Spec => []PromptBudget
<1>1. ResumeInv => PromptBudget
  <2> SUFFICES ASSUME ResumeInv, NEW k \in Prompts \cup Resets
               PROVE  landed[k] <= MaxResumeAttempts
    BY DEF PromptBudget
  <2>1. landed[k] \in Nat /\ record[k].attempts \in Nat
    BY KeyFacts DEF ResumeInv, TypeOK
  <2>2. /\ record[k].attempts + Uncounted(k) <= MaxResumeAttempts
        /\ landed[k] <= record[k].attempts + Uncounted(k) /\ Uncounted(k) \in {0, 1}
    BY DEF ResumeInv, PromptCounted, Uncounted
  <2> QED BY <2>1, <2>2, KeyFacts
<1> QED BY <1>1, ResumeInvariance, PTL

(* An episode is exhausted when, and only when, its schedule is spent.     *)
THEOREM ExhaustionIsExact == Spec => []ExhaustedIsSpent
<1>1. ResumeInv => ExhaustedIsSpent
  BY DEF ResumeInv
<1> QED BY <1>1, ResumeInvariance, PTL

(* plan_episode_attempt never finds its next key taken.                    *)
THEOREM ReservationsArePossible == Spec => []ReservationPossible
<1>1. ResumeInv => ReservationPossible
  <2> SUFFICES ASSUME ResumeInv, NEW r \in Resets, Plannable(episode[r])
               PROVE  /\ episode[r].attempts < ScheduleLength
                      /\ record[<<r, episode[r].attempts + 1>>]
                           \in [state : {"none", "failed"}, attempts : {0}]
    BY DEF ReservationPossible
  <2>1. /\ episode[r].attempts \in 0..ScheduleLength
        /\ episode[r].attempts # ScheduleLength
    BY Parts, Types DEF StoreInv, StoreTypes, EpisodeType, EpisodeOK, Plannable
  <2> DEFINE i == episode[r].attempts + 1
  <2>2. i \in 1..ScheduleLength /\ i > episode[r].attempts
    BY <2>1, KeyFacts
  <2>3. record[<<r, i>>] \in RecordType
    BY <2>2, KeyFacts, Parts, Types DEF StoreTypes
  <2>4. record[<<r, i>>].state \in {"none", "failed"} /\ record[<<r, i>>].attempts = 0
    BY <2>2, Parts DEF StoreInv, Unreserved
  <2> QED BY <2>1, <2>3, <2>4, KeyFacts DEF RecordType
<1> QED BY <1>1, ResumeInvariance, PTL

(* Only _verify records a success, and only for the key it was called for. *)
LEMMA SettleVerifies ==
  ASSUME ResumeInv, NEW k \in Keys, NEW r, NEW o \in Observations, Settle(k, r, o),
         NEW j \in Keys, record[j].state # "verified", record'[j].state = "verified"
  PROVE  j = k /\ (IF Tracked(r, k) THEN Confirmed(TRUE, o) ELSE PastPrompt(o))
<1> USE Parts
<1>1. CASE UNCHANGED record
  BY <1>1
<1>2. CASE Settled(k, "failed")
  <2>1. /\ record'[k].state = "failed"
        /\ \A i \in Keys : i # k => record'[i] = record[i]
    BY <1>2, RecordSet DEF Settled, States
  <2> QED BY <2>1
<1>3. CASE Settled(k, "verified") /\ (IF Tracked(r, k) THEN Confirmed(TRUE, o) ELSE PastPrompt(o))
  <2>1. \A i \in Keys : i # k => record'[i] = record[i]
    BY <1>3, RecordSet DEF Settled, States
  <2> QED BY <1>3, <2>1
<1> QED BY <1>1, <1>2, <1>3
        DEF Settle, StandBy, AgentGone, AwaitSecondRead, Resumed, StillBlocked, Confirmed, store

(* A timed attempt is verified by two working reads in a row.              *)
LEMMA VerifiedTwice ==
  ASSUME ResumeInv, [Next]_vars, NEW k \in Reserved,
         record[k].state # "verified", record'[k].state = "verified"
  PROVE  glance = "working" /\ glance' = "working" /\ active = "old"
<1> USE Parts
<1>1. k \in Keys /\ k # Capacity
  BY KeyFacts
<1>2. ASSUME NEW j \in Keys, NEW r \in Resets \cup {NoReset}, NEW o \in Observations,
             Settle(j, Anchor(r, o), o), j \in Reserved => r # NoReset,
             active # "none" => glance = "working"
      PROVE  glance = "working" /\ glance' = "working" /\ active = "old"
  <2>1. /\ j = k
        /\ IF Tracked(Anchor(r, o), j) THEN Confirmed(TRUE, o) ELSE PastPrompt(o)
    BY <1>1, <1>2, SettleVerifies
  <2>2. o \notin Resets => Tracked(Anchor(r, o), j)
    BY <1>2, <2>1 DEF Anchor, Tracked
  <2>3. PastPrompt(o) => o \notin Resets
    BY ConstantsAssumption DEF PastPrompt, Plain, Idle
  <2>4. Confirmed(TRUE, o)
    BY <2>1, <2>2, <2>3
  <2> QED BY <1>2, <2>4 DEF Confirmed, Settle, Glances
<1>3. ASSUME NEW o \in Observations, Verify(o)
      PROVE  glance = "working" /\ glance' = "working" /\ active = "old"
  BY <1>2, <1>3, Types, KeyFacts
     DEF Verify, ProcessInv, WaitsForSent, SeenAtWork, ProcessTypes
<1>4. ASSUME NEW o \in Observations, SettleReserved(o)
      PROVE  glance = "working" /\ glance' = "working" /\ active = "old"
  <2>1. retry \in Resets /\ retry # NoReset /\ episode[retry].pending \in Keys
    BY <1>4, Types, KeyFacts DEF SettleReserved, Unsettled, StoreTypes, ProcessTypes, EpisodeType
  <2> QED BY <1>2, <1>4, <2>1 DEF SettleReserved, ProcessInv, SeenAtWork
<1>5. ASSUME NEW first \in Observations, NEW o \in Observations, RecheckCapacity(first, o)
      PROVE  FALSE
  BY <1>1, <1>5, KeyFacts, SettleVerifies DEF RecheckCapacity
<1>6. ASSUME NEW j \in Keys, NEW s \in {"planned", "failed"}, SetRecord(j, s) PROVE FALSE
  BY <1>1, <1>6, RecordSet DEF States
<1>7. ASSUME Plan PROVE FALSE
  <2>1. PICK j : SetRecord(j, "planned") /\ pending' = j
    BY <1>7 DEF Plan
  <2>2. j \in Keys
    BY <1>7, <2>1, PlanStep, Types, KeyFacts DEF Plan, ProcessInv, Acting, ProcessTypes
  <2> QED BY <1>6, <2>1, <2>2
<1>8. ASSUME NEW o \in Observations, Cancel(o) PROVE FALSE
  <2>1. pending \in Keys
    BY <1>8, InFlight DEF Cancel
  <2> QED BY <1>6, <1>8, <2>1 DEF Cancel
<1>9. ASSUME MarkSent \/ MarkSendFailed PROVE FALSE
  <2>1. pending \in Keys
    BY <1>9, InFlight DEF MarkSent, MarkSendFailed
  <2> QED BY <1>1, <1>9, <2>1, Types DEF MarkSent, MarkSendFailed, StoreTypes, RecordType
<1>10. ASSUME UNCHANGED record PROVE FALSE
  BY <1>10
<1> QED BY <1>3, <1>4, <1>5, <1>7, <1>8, <1>9, <1>10
        DEF Next, Run, vars, store, Observe, Refuse, SendText, Elapse, TimeJump, Crash,
            Restart, SetMode

(* Two working reads in a row, with time between them, whatever toggles,   *)
(* clock jumps, crashes and restarts there are (docs/ARCHITECTURE.md:349). *)
THEOREM RecoveryIsSeenTwice == Spec => TwoWorkingReads
<1>1. ResumeInv /\ [Next]_vars =>
        [\A k \in Reserved :
           record[k].state # "verified" /\ record'[k].state = "verified"
             => glance = "working" /\ glance' = "working" /\ active = "old"]_vars
  BY VerifiedTwice
<1> QED BY <1>1, ResumeInvariance, PTL DEF Spec, TwoWorkingReads

(* The lifecycle of the keys, as the abstract specification sees it.       *)
Stages == [k \in Keys |-> Stage(k)]

LEMMA StageMoves ==
  ASSUME NEW k \in Keys, NEW s, Stage(k)' = s, \A j \in Keys : j # k => Stage(j)' = Stage(j)
  PROVE  /\ Stages' = [Stages EXCEPT ![k] = s]
         /\ AL!Enter(k, s)
BY DEF Stages, AL!Enter

LEMMA StagesStay ==
  ASSUME UNCHANGED <<record, history>>
  PROVE  UNCHANGED AL!vars
<1>1. \A j \in Keys : Stage(j)' = Stage(j)
  BY DEF Stage, history
<1> QED BY <1>1 DEF AL!vars, history

LEMMA SettleRefines ==
  ASSUME ResumeInv, NEW k \in Keys, record[k].state = "sent", NEW r, NEW o, Settle(k, r, o)
  PROVE  [AL!Next]_AL!vars
<1> USE Parts
<1>1. CASE UNCHANGED <<record, history>>
  BY <1>1, StagesStay
<1>2. ASSUME NEW s \in {"failed", "verified"}, Settled(k, s) PROVE AL!Next
  <2>1. /\ record'[k].state = s /\ UNCHANGED typed /\ doubt' = doubt \ {k}
        /\ \A j \in Keys : j # k => record'[j] = record[j]
    BY <1>2, RecordSet DEF Settled, States
  <2>2. Stage(k) = "sent"
    BY DEF Stage
  <2>3. Stage(k)' = s /\ \A j \in Keys : j # k => Stage(j)' = Stage(j)
    BY <2>1 DEF Stage
  <2>4. AL!Enter(k, s)
    BY <2>3, StageMoves
  <2>5. AL!Fail(k) \/ AL!Verify(k)
    BY <2>1, <2>2, <2>4 DEF AL!Fail, AL!Verify
  <2> QED BY <2>5 DEF AL!Next
<1> QED BY <1>1, <1>2
        DEF Settle, StandBy, AgentGone, AwaitSecondRead, Resumed, StillBlocked, store, history

LEMMA PlanRefines ==
  ASSUME ResumeInv, Plan
  PROVE  AL!Next
<1> USE Parts, Types
<1>1. PICK k : /\ k = IF retry # NoReset THEN <<retry, episode[retry].attempts + 1>> ELSE seen
               /\ SetRecord(k, "planned") /\ pending' = k /\ UNCHANGED history
  BY DEF Plan
<1>2. k \in Keys
  BY <1>1, PlanStep, KeyFacts DEF Plan, ProcessInv, Acting, ProcessTypes
<1>3. \/ record[k].state \in {"none", "failed"}
      \/ k = Capacity /\ record[k].state = "verified"
  <2>1. CASE retry # NoReset
    <3> DEFINE i == episode[retry].attempts + 1
    <3>1. /\ retry \in Resets /\ Plannable(episode[retry])
          /\ episode[retry] \in EpisodeType /\ EpisodeOK(retry, episode[retry])
      BY <2>1 DEF Plan, Allowed, StoreInv, StoreTypes, ProcessTypes
    <3>2. i \in 1..ScheduleLength /\ i > episode[retry].attempts
      BY <3>1, KeyFacts DEF Plannable, EpisodeOK, EpisodeType
    <3>3. record[<<retry, i>>].state \in {"none", "failed"}
      BY <3>1, <3>2 DEF StoreInv, Unreserved
    <3> QED BY <1>1, <2>1, <3>3
  <2>2. CASE retry = NoReset
    <3>1. k = seen /\ record[k].state \notin Actioned(k)
      BY <1>1, <2>2 DEF Plan, Allowed
    <3>2. record[k].state \in States
      BY <1>2 DEF StoreTypes, RecordType
    <3>3. CASE k = Capacity
      BY <3>1, <3>2, <3>3 DEF Actioned, States
    <3>4. CASE k # Capacity
      BY <3>1, <3>2, <3>4 DEF Actioned, States
    <3> QED BY <3>3, <3>4
  <2> QED BY <2>1, <2>2
<1>4. /\ record'[k].state = "planned"
      /\ \A j \in Keys : j # k => record'[j] = record[j]
  BY <1>1, <1>2, RecordSet DEF States
<1>5. k \notin doubt /\ UNCHANGED <<typed, doubt>>
  BY <1>1, <1>3 DEF history, StoreInv, DoubtIsOpen
<1>6. Stage(k) = record[k].state
  BY <1>3 DEF Stage
<1>7. Stage(k)' = "planned" /\ \A j \in Keys : j # k => Stage(j)' = Stage(j)
  BY <1>4, <1>5 DEF Stage
<1>8. AL!Enter(k, "planned")
  BY <1>2, <1>7, StageMoves
<1>9. AL!Plan(k)
  BY <1>2, <1>3, <1>5, <1>6, <1>8 DEF AL!Plan
<1> QED BY <1>2, <1>9 DEF AL!Next

LEMMA SendTextRefines ==
  ASSUME ResumeInv, SendText
  PROVE  AL!Next
<1> USE Parts, Types
<1>1. PICK k \in Keys : k = pending
  BY InFlight DEF SendText
<1>2. /\ pc = "planned" /\ record[k].state = "planned" /\ k \notin doubt
      /\ k \in Reserved => typed[k] = 0
  BY <1>1, InFlight DEF SendText, ProcessInv, Acting
<1>3. /\ UNCHANGED record /\ doubt' = doubt \cup {k} /\ typed' = [typed EXCEPT ![k] = @ + 1]
  BY <1>1 DEF SendText, store
<1>4. Stage(k) = "planned"
  BY <1>2 DEF Stage
<1>5. Stage(k)' = "typed" /\ \A j \in Keys : j # k => Stage(j)' = Stage(j)
  BY <1>2, <1>3 DEF Stage
<1>6. AL!Enter(k, "typed")
  BY <1>5, StageMoves
<1>7. k = Capacity => typed[k] < MaxResumeAttempts
  <2> SUFFICES ASSUME k = Capacity PROVE typed[k] < MaxResumeAttempts
    OBVIOUS
  <2>1. typed[k] \in Nat /\ record[k].attempts \in Nat
    BY DEF StoreTypes, RecordType
  <2>2. Uncounted(Capacity) = 0
    BY <1>2 DEF Uncounted
  <2> QED BY <1>2, <2>1, <2>2, KeyFacts DEF StoreInv, CapacityCounted
<1>8. AL!Type(k)
  BY <1>2, <1>3, <1>4, <1>6, <1>7 DEF AL!Type
<1> QED BY <1>8 DEF AL!Next

(* The steps that save how a plan ended.                                   *)
LEMMA OutcomeRefines ==
  ASSUME ResumeInv, MarkSent \/ MarkSendFailed \/ \E o \in Observations : Cancel(o)
  PROVE  AL!Next
<1> USE Parts, Types
<1>1. PICK k \in Keys : k = pending
  BY InFlight DEF MarkSent, MarkSendFailed, Cancel
<1>2. /\ record[k].state = "planned" /\ (pc = "planned" => k \notin doubt)
      /\ (pc \in {"typed", "unsent"} => k \in doubt)
  BY <1>1, InFlight DEF MarkSent, MarkSendFailed, Cancel, ProcessInv, Acting
<1>3. CASE MarkSent
  <2>1. /\ pc = "typed" /\ record'[k].state = "sent" /\ UNCHANGED <<typed, doubt>>
        /\ \A j \in Keys : j # k => record'[j] = record[j]
    BY <1>1, <1>3 DEF MarkSent, history, StoreTypes, RecordType
  <2>2. Stage(k) = "typed" /\ Stage(k)' = "sent"
    BY <1>2, <2>1 DEF Stage
  <2>3. \A j \in Keys : j # k => Stage(j)' = Stage(j)
    BY <2>1 DEF Stage
  <2>4. AL!RecordSent(k)
    BY <2>1, <2>2, <2>3, StageMoves DEF AL!RecordSent
  <2> QED BY <2>4 DEF AL!Next
<1>4. CASE MarkSendFailed \/ \E o \in Observations : Cancel(o)
  <2>1. /\ record'[k].state = "failed" /\ UNCHANGED typed
        /\ \A j \in Keys : j # k => record'[j] = record[j]
        /\ doubt' = doubt \ {k}
    <3>1. CASE MarkSendFailed
      BY <1>1, <3>1 DEF MarkSendFailed, StoreTypes, RecordType
    <3>2. CASE \E o \in Observations : Cancel(o)
      BY <1>1, <1>2, <3>2, RecordSet DEF Cancel, history, States
    <3> QED BY <1>4, <3>1, <3>2
  <2>2. Stage(k) \in {"planned", "typed"} /\ Stage(k)' = "failed"
    BY <1>2, <2>1 DEF Stage
  <2>3. \A j \in Keys : j # k => Stage(j)' = Stage(j)
    BY <2>1 DEF Stage
  <2>4. AL!Fail(k)
    BY <2>1, <2>2, <2>3, StageMoves DEF AL!Fail
  <2> QED BY <2>4 DEF AL!Next
<1> QED BY <1>3, <1>4

LEMMA StepRefines ==
  ASSUME ResumeInv, [Next]_vars
  PROVE  [AL!Next]_AL!vars
<1> USE Parts, Types
<1>1. ASSUME NEW o \in Observations, Verify(o) PROVE [AL!Next]_AL!vars
  <2>1. pending \in Keys /\ record[pending].state = "sent"
    BY <1>1 DEF Verify, ProcessInv, WaitsForSent, ProcessTypes
  <2> QED BY <1>1, <2>1, SettleRefines DEF Verify
<1>2. ASSUME NEW first \in Observations, NEW o \in Observations, RecheckCapacity(first, o)
      PROVE  [AL!Next]_AL!vars
  BY <1>2, KeyFacts, SettleRefines DEF RecheckCapacity, SentCapacity
<1>3. ASSUME NEW o \in Observations, SettleReserved(o) PROVE [AL!Next]_AL!vars
  <2>1. episode[retry].pending \in Keys /\ record[episode[retry].pending].state = "sent"
    BY <1>3, KeyFacts DEF SettleReserved, Unsettled, StoreTypes, ProcessTypes, EpisodeType
  <2> QED BY <1>3, <2>1, SettleRefines DEF SettleReserved
<1>4. ASSUME \/ Elapse \/ TimeJump \/ Crash \/ UNCHANGED vars
             \/ \E o \in Observations : Observe(o) \/ Refuse(o)
             \/ \E m \in Mode : Restart(m) \/ SetMode(m)
      PROVE  [AL!Next]_AL!vars
  <2>1. UNCHANGED <<record, history>>
    BY <1>4 DEF Elapse, TimeJump, Crash, vars, Observe, Refuse, Restart, SetMode, store, history
  <2> QED BY <2>1, StagesStay
<1> QED BY <1>1, <1>2, <1>3, <1>4, PlanRefines, SendTextRefines, OutcomeRefines DEF Next, Run

(* The store, the supervisor and their crashes implement the lifecycle     *)
(* that docs/ARCHITECTURE.md:327 promises: one plan per keystroke, none    *)
(* over an open outcome, and the budgets.                                  *)
THEOREM LifecycleIsImplemented == Spec => ImplementsLifecycle
<1>1. Init => AL!Init
  <2> SUFFICES ASSUME Init PROVE AL!Init
    OBVIOUS
  <2>1. \A k \in Keys : Stage(k) = "none"
    BY DEF Init, Stage
  <2> QED BY <2>1 DEF Init, AL!Init
<1>2. ResumeInv /\ [Next]_vars => [AL!Next]_AL!vars
  BY StepRefines
<1> QED BY <1>1, <1>2, ResumeInvariance, PTL DEF Spec, ImplementsLifecycle, AL!Spec

=============================================================================
