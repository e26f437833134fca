------------------------- MODULE InputControlProofs -------------------------
(***************************************************************************)
(* Proofs about InputControl: its invariant is inductive, so for any set   *)
(* of watchers and attempts only the lock's holder may type and nothing is *)
(* typed twice; and the protocol implements SingleWriter.                  *)
(***************************************************************************)
EXTENDS InputControl, TLAPS

(* The rest of the invariant, beside the types.                            *)
ControlInv ==
  /\ ArmedHoldsLock /\ HolderIsArmed /\ HolderIsCurrent /\ TypedOnce
  /\ TypedIsRecorded /\ PlannedIsUntyped /\ BeforeLoop /\ WaitsInObserve

LEMMA InitInv == Init => InputControlInv
  <1> SUFFICES ASSUME Init PROVE InputControlInv
    OBVIOUS
  <1>1. TypeOK
    BY ConstantsAssumption DEF Init, TypeOK, Loop, Mode, MaySend
  <1>2. ArmedHoldsLock /\ HolderIsArmed /\ HolderIsCurrent
    BY ConstantsAssumption
       DEF Init, ArmedHoldsLock, HolderIsArmed, HolderIsCurrent, Armed, Loop
  <1>3. TypedOnce /\ TypedIsRecorded
    BY DEF Init, TypedOnce, TypedIsRecorded
  <1>4. PlannedIsUntyped /\ BeforeLoop /\ WaitsInObserve
    BY ConstantsAssumption DEF Init, PlannedIsUntyped, BeforeLoop, WaitsInObserve
  <1>5. QED
    BY <1>1, <1>2, <1>3, <1>4 DEF InputControlInv

(* The two ways the socket's own variables change keep their types.        *)
LEMMA MatchSocketTyped ==
  ASSUME TypeOK, NEW w \in Watchers, NEW held \in BOOLEAN, MatchSocket(w, held)
  PROVE  /\ listener' \in Watchers \cup {NoOne}
         /\ backlog' \in SUBSET Watchers
         /\ abandoned' \in BOOLEAN
         /\ reply' \in [Watchers -> {"none", "granted", "refused"}]
  BY DEF TypeOK, MatchSocket, CloseSocket, channel

(* A step inside the loop that changes no mode, lock, attempt or history.  *)
LEMMA LoopStepKeepsControl ==
  ASSUME TypeOK, ControlInv, NEW w \in Watchers, pc[w] \in Loop,
         NEW l \in {"serve", "arm", "scan", "keys"}, Goto(w, l),
         UNCHANGED <<mode, memory, current, lock, disk, typed>>
  PROVE  ControlInv'
  BY DEF TypeOK, ControlInv, ArmedHoldsLock, HolderIsArmed, HolderIsCurrent, TypedOnce,
         TypedIsRecorded, PlannedIsUntyped, BeforeLoop, WaitsInObserve, Armed, Loop, Goto

LEMMA StepInv ==
  ASSUME InputControlInv, NEW w \in Watchers, Step(w) PROVE InputControlInv'
  <1> USE ConstantsAssumption
      DEF InputControlInv, TypeOK, ArmedHoldsLock, HolderIsArmed, HolderIsCurrent,
         TypedOnce, TypedIsRecorded, PlannedIsUntyped, BeforeLoop, WaitsInObserve,
         Armed, Loop, Mode, MaySend, Goto, config, work
  <1>1. CASE Probe(w)
    BY <1>1 DEF Probe, CanAcquire, DeferArming, channel
  <1>2. CASE ProbeRelease(w)
    BY <1>2 DEF ProbeRelease, channel
  <1>3. CASE EnterLoop(w)
    <2>1. pc[w] = "starting" /\ UNCHANGED <<verifying, current, disk, typed, channel, stoodDown>>
      BY <1>3 DEF EnterLoop
    <2>2. CASE mode[w] = "observe" /\ Goto(w, "serve") /\ UNCHANGED <<config, memory, lock>>
      BY <2>1, <2>2 DEF channel
    <2>3. CASE /\ mode[w] # "observe" /\ CanAcquire(w) /\ lock' = w /\ Reload(w)
               /\ Goto(w, "serve") /\ UNCHANGED config
      BY <2>1, <2>3 DEF CanAcquire, Reload, channel
    <2>4. CASE /\ mode[w] # "observe" /\ DeferArming(w) /\ UNCHANGED <<memory, lock>>
      BY <2>1, <2>4 DEF DeferArming, channel
    <2>5. QED
      BY <1>3, <2>2, <2>3, <2>4 DEF EnterLoop
  <1>4. CASE Exit(w)
    BY <1>4 DEF Exit, Forget, ReleasedByDeath, channel
  <1>5. CASE Serve(w)
    <2>1. ASSUME NEW first \in backlog \cup (IF abandoned THEN {NoOne} ELSE {}),
                 lock = w, Answer(w, first), ~verifying[w]
          PROVE InputControlInv'
      <3>1. reply' \in [Watchers -> {"none", "granted", "refused"}]
        BY <2>1 DEF Answer
      <3>2. mode[w] \in MaySend
        BY <1>5, <2>1 DEF Serve
      <3>3. TypeOK'
        <4>1. Yield(w) /\ backlog' = {} /\ abandoned' = FALSE /\ UNCHANGED listener
          BY <2>1 DEF Answer, MayYield
        <4>2. pc' = [pc EXCEPT ![w] = "arm"] /\ UNCHANGED <<work, stoodDown>>
          BY <1>5 DEF Serve
        <4>3. QED
          BY <3>1, <3>2, <4>1, <4>2 DEF Yield, YieldsTo, PreviousConfig
      <3>4. ControlInv'
        BY <1>5, <2>1, <3>2 DEF Serve, Answer, MayYield, Yield, YieldsTo, ControlInv
      <3>5. QED
        BY <3>3, <3>4 DEF ControlInv
    <2>2. ASSUME NEW first \in backlog \cup (IF abandoned THEN {NoOne} ELSE {}),
                 Answer(w, first), verifying[w]
          PROVE InputControlInv'
      <3>1. reply' \in [Watchers -> {"none", "granted", "refused"}]
        BY <2>2 DEF Answer
      <3>2. TypeOK'
        <4>1. /\ backlog' = {} /\ abandoned' = FALSE
              /\ UNCHANGED <<listener, config, lock>>
          BY <2>2 DEF Answer, MayYield
        <4>2. pc' = [pc EXCEPT ![w] = "arm"] /\ UNCHANGED <<work, stoodDown>>
          BY <1>5 DEF Serve
        <4>3. QED
          BY <3>1, <4>1, <4>2
      <3>3. ControlInv'
        BY <1>5, <2>2, LoopStepKeepsControl DEF Serve, Answer, MayYield, ControlInv
      <3>4. QED
        BY <3>2, <3>3 DEF ControlInv
    <2>3. CASE MatchSocket(w, lock = w) /\ UNCHANGED <<config, lock>>
      <3>1. /\ listener' \in Watchers \cup {NoOne}
            /\ backlog' \in SUBSET Watchers
            /\ abandoned' \in BOOLEAN
            /\ reply' \in [Watchers -> {"none", "granted", "refused"}]
        BY <2>3, MatchSocketTyped
      <3>2. TypeOK'
        BY <1>5, <2>3, <3>1 DEF Serve
      <3>3. ControlInv'
        BY <1>5, <2>3, LoopStepKeepsControl DEF Serve, ControlInv
      <3>4. QED
        BY <3>2, <3>3 DEF ControlInv
    <2>4. QED
      BY <1>5, <2>1, <2>2, <2>3 DEF Serve
  <1>6. CASE Rearm(w)
    <2>1. /\ listener' \in Watchers \cup {NoOne}
          /\ backlog' \in SUBSET Watchers
          /\ abandoned' \in BOOLEAN
          /\ reply' \in [Watchers -> {"none", "granted", "refused"}]
      BY <1>6, MatchSocketTyped DEF Rearm
    <2>2. CASE /\ rearm[w] # "none" /\ lock # w /\ CanAcquire(w)
               /\ lock' = w
               /\ mode' = [mode EXCEPT ![w] = rearm[w]]
               /\ rearm' = [rearm EXCEPT ![w] = "none"]
               /\ Reload(w)
      BY <1>6, <2>1, <2>2 DEF Rearm, CanAcquire, Reload
    <2>3. CASE UNCHANGED <<lock, mode, rearm, memory>>
      <3>1. TypeOK'
        BY <1>6, <2>1, <2>3 DEF Rearm
      <3>2. ControlInv'
        BY <1>6, <2>3, LoopStepKeepsControl DEF Rearm, ControlInv
      <3>3. QED
        BY <3>1, <3>2 DEF ControlInv
    <2>4. QED
      BY <1>6, <2>2, <2>3 DEF Rearm
  <1>7. CASE Scan(w)
    <2>1. verifying' \in [Watchers -> BOOLEAN]
      BY <1>7 DEF Scan
    <2>2. QED
      <3>1. TypeOK'
        BY <1>7, <2>1 DEF Scan, channel
      <3>2. ControlInv'
        BY <1>7, LoopStepKeepsControl DEF Scan, ControlInv
      <3>3. QED
        BY <3>1, <3>2 DEF ControlInv
  <1>8. ASSUME NEW a \in Attempts, Plan(w, a) PROVE InputControlInv'
    BY <1>8 DEF Plan, Spent, SavePlan, channel
  <1>9. CASE Withdraw(w)
    BY <1>9 DEF Withdraw, channel
  <1>10. CASE Send(w)
    BY <1>10 DEF Send, channel
  <1>11. CASE NoKey(w)
    BY <1>11 DEF NoKey, channel
  <1>12. CASE ReadReply(w)
    BY <1>12 DEF ReadReply, channel
  <1>13. CASE RequestTimeout(w)
    BY <1>13 DEF RequestTimeout, channel
  <1>14. CASE TakeOver(w)
    <2>1. CASE CanAcquire(w) /\ EnterFullAuto(w)
      <3>1. mode[w] = "observe" /\ lock = NoOne
        BY <1>14, <2>1 DEF TakeOver, CanAcquire
      <3>2. QED
        BY <1>14, <2>1, <3>1 DEF TakeOver, EnterFullAuto, Reload, channel
    <2>2. CASE lock # NoOne /\ Goto(w, "serve") /\ UNCHANGED <<config, work, lock, stoodDown>>
      BY <1>14, <2>2 DEF TakeOver, channel
    <2>3. QED
      BY <1>14, <2>1, <2>2 DEF TakeOver, CanAcquire
  <1>15. QED
    BY <1>1, <1>2, <1>3, <1>4, <1>5, <1>6, <1>7, <1>8, <1>9, <1>10, <1>11, <1>12, <1>13, <1>14
       DEF Step

LEMMA EnvironmentInv ==
  ASSUME InputControlInv, NEW w \in Watchers, Environment(w) PROVE InputControlInv'
  <1> USE ConstantsAssumption
      DEF InputControlInv, TypeOK, ArmedHoldsLock, HolderIsArmed, HolderIsCurrent,
         TypedOnce, TypedIsRecorded, PlannedIsUntyped, BeforeLoop, WaitsInObserve,
         Armed, Loop, Mode, MaySend, Goto, config, work
  <1>1. ASSUME NEW m \in Mode, Start(w, m) PROVE InputControlInv'
    BY <1>1 DEF Start, channel
  <1>2. CASE Quit(w)
    <2>1. /\ listener' \in Watchers \cup {NoOne}
          /\ backlog' \in SUBSET Watchers
          /\ abandoned' \in BOOLEAN
          /\ reply' \in [Watchers -> {"none", "granted", "refused"}]
      <3>1. CASE CloseSocket
        BY <3>1 DEF CloseSocket
      <3>2. CASE UNCHANGED channel
        BY <3>2 DEF channel
      <3>3. QED
        BY <1>2, <3>1, <3>2 DEF Quit
    <2>2. /\ pc' = [pc EXCEPT ![w] = "closing"] /\ pc[w] \in {"serve", "keys"}
          /\ UNCHANGED <<config, work, lock, stoodDown>>
      BY <1>2 DEF Quit
    <2>3. TypeOK'
      BY <2>1, <2>2
    <2>4. ControlInv'
      BY <2>2 DEF ControlInv
    <2>5. QED
      BY <2>3, <2>4 DEF ControlInv
  <1>3. CASE Crash(w)
    <2>1. /\ listener' \in Watchers \cup {NoOne}
          /\ backlog' \in SUBSET Watchers
          /\ abandoned' \in BOOLEAN
          /\ reply' \in [Watchers -> {"none", "granted", "refused"}]
      <3>1. CASE CloseSocket
        BY <3>1 DEF CloseSocket
      <3>2. CASE /\ backlog' = backlog \ {w}
                 /\ abandoned' = (abandoned \/ w \in backlog)
                 /\ reply' = [reply EXCEPT ![w] = "none"]
                 /\ UNCHANGED listener
        BY <3>2
      <3>3. QED
        BY <1>3, <3>1, <3>2 DEF Crash
    <2>2. Forget(w)
      BY <1>3 DEF Crash
    <2>3. TypeOK'
      BY <2>1, <2>2 DEF Forget, ReleasedByDeath
    <2>4. ControlInv'
      BY <2>2 DEF Forget, ReleasedByDeath, ControlInv
    <2>5. QED
      BY <2>3, <2>4 DEF ControlInv
  <1>4. CASE GraceEnds(w)
    BY <1>4 DEF GraceEnds, channel
  <1>5. CASE ToggleOff(w)
    <2>1. Armed(w) /\ lock = w /\ pc[w] = "keys"
      BY <1>5 DEF ToggleOff
    <2>2. CASE before[w] = "ask"
      BY <1>5, <2>1, <2>2 DEF ToggleOff, channel
    <2>3. CASE before[w] # "ask"
      <3>1. /\ pc' = [pc EXCEPT ![w] = "serve"] /\ mode' = [mode EXCEPT ![w] = "observe"]
            /\ lock' = NoOne /\ before' = [before EXCEPT ![w] = "none"]
            /\ stoodDown' = [stoodDown EXCEPT ![w] = TRUE]
            /\ UNCHANGED <<rearm, grace, work, channel>>
        BY <1>5, <2>1, <2>3 DEF ToggleOff, Released
      <3>2. TypeOK'
        BY <3>1 DEF channel
      <3>3. \A v \in Watchers : Armed(v) <=> v = w
        BY <2>1
      <3>4. \A v \in Watchers : ~Armed(v)'
        BY <3>1, <3>3
      <3>5. (PlannedIsUntyped /\ BeforeLoop /\ WaitsInObserve)'
        BY <2>1, <3>1, <3>3
      <3>6. ControlInv'
        BY <3>1, <3>4, <3>5 DEF ControlInv
      <3>7. QED
        BY <3>2, <3>6 DEF ControlInv
    <2>4. QED
      BY <2>2, <2>3
  <1>6. CASE ToggleOn(w)
    BY <1>6 DEF ToggleOn, EnterFullAuto, CanAcquire, Reload, channel
  <1>7. CASE RequestYield(w)
    BY <1>7 DEF RequestYield, CanAcquire
  <1>8. QED
    BY <1>1, <1>2, <1>3, <1>4, <1>5, <1>6, <1>7 DEF Environment

LEMMA StutterInv == InputControlInv /\ UNCHANGED vars => InputControlInv'
  BY DEF vars, config, work, channel, InputControlInv, TypeOK, ArmedHoldsLock, HolderIsArmed,
         HolderIsCurrent, TypedOnce, TypedIsRecorded, PlannedIsUntyped, BeforeLoop,
         WaitsInObserve, Armed

(* The invariant holds in every reachable state, whatever the processes    *)
(* and the attempts.                                                       *)
THEOREM Invariance == Spec => []InputControlInv
  <1>1. InputControlInv /\ [Next]_vars => InputControlInv'
    BY StepInv, EnvironmentInv, StutterInv DEF Next
  <1>2. QED
    BY InitInv, <1>1, PTL DEF Spec

(* Type correctness.                                                       *)
THEOREM Typing == Spec => []TypeOK
  BY Invariance, PTL DEF InputControlInv

(* Only the process that holds the lock runs in a mode that may type.      *)
THEOREM WriterHoldsLock == Spec => []ArmedHoldsLock
  BY Invariance, PTL DEF InputControlInv

(* A watcher in its loop that holds the lock is armed: no process sits on  *)
(* the lock in observe, where it would keep another one from typing.       *)
THEOREM HolderMayType == Spec => []HolderIsArmed
  BY Invariance, PTL DEF InputControlInv

(* What an armed watcher remembers of the store is what is on file, so that *)
(* no predecessor's keystroke is unknown to it.                            *)
THEOREM HolderKnowsTheFile == Spec => []HolderIsCurrent
  BY Invariance, PTL DEF InputControlInv

(* No attempt is typed twice across handovers, crashes and restarts.       *)
THEOREM AtMostOnce == Spec => []TypedOnce
  BY Invariance, PTL DEF InputControlInv

-----------------------------------------------------------------------------
(* Refinement of SingleWriter.                                             *)

Writer == IF \E w \in Watchers : lock = w /\ Armed(w) THEN lock ELSE NoOne

(* The lock never passes from one process to another in a single step.     *)
LEMMA LockPassesThroughNoOne ==
  ASSUME InputControlInv, NEW w \in Watchers, Step(w) \/ Environment(w)
  PROVE  lock' = lock \/ lock = NoOne \/ lock' = NoOne
  BY DEF InputControlInv, BeforeLoop, Step, Environment, Probe, ProbeRelease, EnterLoop, Exit, Serve,
         Rearm, Scan, Plan, Withdraw, Send, NoKey, ReadReply, RequestTimeout, TakeOver, Start,
         Quit, Crash, GraceEnds, ToggleOff, ToggleOn, RequestYield, CanAcquire, Released,
         ReleasedByDeath, Forget, EnterFullAuto, Answer, Yield, DeferArming, MayYield

(* Only Send touches the history of keystrokes.                            *)
LEMMA OnlySendTypes ==
  ASSUME NEW w \in Watchers, Step(w) \/ Environment(w), ~Send(w)
  PROVE  typed' = typed
  BY DEF Step, Environment, Probe, ProbeRelease, EnterLoop, Exit, Serve,
         Rearm, Scan, Plan, Withdraw, NoKey, ReadReply, RequestTimeout, TakeOver, Start,
         Quit, Crash, GraceEnds, ToggleOff, ToggleOn, RequestYield, Forget, EnterFullAuto, work

(* The protocol implements the abstract single writer.                     *)
THEOREM Refinement == Spec => ImplementsSingleWriter
  <1>1. Init => SW!Init
    BY DEF Init, SW!Init, Armed, Loop
  <1>2. InputControlInv /\ [Next]_vars => [SW!Next]_SW!vars
    <2> SUFFICES ASSUME InputControlInv, [Next]_vars PROVE [SW!Next]_SW!vars
      OBVIOUS
    <2>1. CASE UNCHANGED vars
      BY <2>1 DEF vars, config, work, SW!vars, Armed
    <2>2. ASSUME NEW w \in Watchers, Send(w) PROVE [SW!Next]_SW!vars
      <3>1. current[w] \in Attempts /\ typed[current[w]] = 0
        BY <2>2 DEF Send, InputControlInv, TypeOK, PlannedIsUntyped
      <3>2. Armed(w) /\ lock = w
        BY <2>2 DEF Send, InputControlInv, PlannedIsUntyped, ArmedHoldsLock, Armed, Loop
      <3>3. Armed(w)' /\ lock' = w
        BY <2>2, <3>2 DEF Send, Armed, Loop, Goto, config, InputControlInv, TypeOK
      <3>4. Writer = w /\ Writer' = w /\ w # NoOne
        BY <3>2, <3>3, ConstantsAssumption DEF Writer
      <3>5. typed' = [typed EXCEPT ![current[w]] = 1]
        BY <2>2, <3>1 DEF Send, InputControlInv, TypeOK
      <3>6. SW!TypeAttempt(current[w])
        BY <3>1, <3>4, <3>5 DEF SW!TypeAttempt, Writer
      <3>7. QED
        BY <3>1, <3>6 DEF SW!Next
    <2>3. ASSUME NEW w \in Watchers, Step(w) \/ Environment(w), ~Send(w)
          PROVE [SW!Next]_SW!vars
      <3>1. typed' = typed
        BY <2>3, OnlySendTypes
      <3>2. Writer \in Watchers \cup {NoOne} /\ Writer' \in Watchers \cup {NoOne}
        BY DEF Writer
      <3>3. Writer' = Writer \/ Writer = NoOne \/ Writer' = NoOne
        BY <2>3, LockPassesThroughNoOne DEF Writer
      <3>4. CASE Writer' = Writer
        BY <3>1, <3>4 DEF SW!vars, Writer
      <3>5. CASE Writer = NoOne /\ Writer' # NoOne
        <4>1. PICK v \in Watchers : v = Writer'
          BY <3>2, <3>5
        <4>2. SW!TakeControl(v)
          BY <3>1, <3>5, <4>1 DEF SW!TakeControl, Writer
        <4>3. QED
          BY <4>2 DEF SW!Next
      <3>6. CASE Writer # NoOne /\ Writer' = NoOne
        BY <3>1, <3>6 DEF SW!LoseControl, SW!Next, Writer
      <3>7. QED
        BY <3>3, <3>4, <3>5, <3>6
    <2>4. QED
      BY <2>1, <2>2, <2>3 DEF Next
  <1>3. QED
    BY <1>1, <1>2, Invariance, PTL DEF Spec, SW!Spec, ImplementsSingleWriter

-----------------------------------------------------------------------------
(* Grants.                                                                 *)

(* Only the answer of the process whose turn it is to serve grants.        *)
LEMMA OnlyServeGrants ==
  ASSUME TypeOK, NEW w \in Watchers, Step(w) \/ Environment(w), ~Serve(w), NEW r \in Watchers
  PROVE  reply'[r] # "granted" \/ reply'[r] = reply[r]
  <1>1. CASE UNCHANGED reply
    BY <1>1
  <1>2. ASSUME CloseSocket PROVE reply'[r] # "granted" \/ reply'[r] = reply[r]
    BY <1>2 DEF CloseSocket
  <1>3. CASE reply' = [reply EXCEPT ![w] = "none"]
    BY <1>3 DEF TypeOK
  <1>4. UNCHANGED reply \/ CloseSocket \/ reply' = [reply EXCEPT ![w] = "none"]
    <2>1. CASE Step(w)
      BY <2>1 DEF Step, Probe, ProbeRelease, EnterLoop, Exit, Rearm, MatchSocket, Scan, Plan, Withdraw,
                  Send, NoKey, ReadReply, RequestTimeout, TakeOver, channel
    <2>2. CASE Environment(w)
      BY <2>2 DEF Environment, Start, Quit, Crash, GraceEnds, ToggleOff, ToggleOn, RequestYield, channel
    <2>3. QED
      BY <2>1, <2>2
  <1>5. QED
    BY <1>1, <1>2, <1>3, <1>4

(* control.py, _yield_input: whoever is granted control was answered by the *)
(* lock's holder, which by then had let go of the lock, was back in observe *)
(* and had no keystroke waiting for its verification.                       *)
THEOREM GrantsAreClean == Spec => GrantIsClean
  <1>1. ASSUME TypeOK, [Next]_vars, NEW r \in Watchers, reply[r] = "none", reply'[r] = "granted"
        PROVE  /\ lock \in Watchers /\ lock = listener
               /\ ~verifying[lock] /\ mode'[lock] = "observe"
               /\ lock' = NoOne
    <2>1. PICK w \in Watchers : Step(w) \/ Environment(w)
      BY <1>1 DEF Next, vars, channel
    <2>2. Serve(w)
      BY <1>1, <2>1, OnlyServeGrants
    <2>3. CASE lock = w /\ listener = w /\ \E first : Answer(w, first)
      <3>1. PICK first : Answer(w, first)
        BY <2>3
      <3>2. MayYield(w)
        BY <1>1, <3>1 DEF Answer
      <3>3. Yield(w)
        BY <3>1, <3>2 DEF Answer
      <3>4. QED
        BY <1>1, <2>3, <3>2, <3>3 DEF Yield, YieldsTo, MayYield, TypeOK
    <2>4. CASE MatchSocket(w, lock = w)
      BY <1>1, <2>4 DEF MatchSocket, CloseSocket, channel
    <2>5. QED
      BY <2>2, <2>3, <2>4 DEF Serve
  <1>2. TypeOK /\ [Next]_vars =>
          [\A r \in Watchers :
             reply[r] = "none" /\ reply'[r] = "granted"
               => /\ lock \in Watchers /\ lock = listener
                  /\ ~verifying[lock] /\ mode'[lock] = "observe"
                  /\ lock' = NoOne]_vars
    BY <1>1
  <1>3. QED
    BY <1>2, Typing, PTL DEF Spec, GrantIsClean
=============================================================================
