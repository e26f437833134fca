---------------------------- MODULE InputControl ----------------------------
(***************************************************************************)
(* The single-writer protocol between instances of agent-while-true: the   *)
(* advisory lock (lock.py), the control socket (control.py) and the run    *)
(* loop that serves it (cli.py: command_run, _loop, _InputControl,         *)
(* _take_input_control, _toggle_runtime_mode).                             *)
(*                                                                         *)
(* One watcher is one process.  pc is the place of its only thread in      *)
(* command_run and _loop; steps of different watchers interleave between   *)
(* any two places.  An attempt stands for one permission to type: an       *)
(* idempotency key together with its attempt number, persisted before the  *)
(* keystroke.  What makes an attempt permissible is the business of the    *)
(* module ResumeLifecycle.                                                 *)
(***************************************************************************)
EXTENDS Naturals

CONSTANTS Watchers,   \* processes
          Attended,   \* those with a terminal, a dashboard and a keyboard
          Attempts,
          NoOne,      \* no process
          NoAttempt

ASSUME ConstantsAssumption ==
  /\ Attended \subseteq Watchers
  /\ NoOne \notin Watchers
  /\ NoAttempt \notin Attempts

Mode == {"observe", "ask", "full-auto"}
MaySend == {"ask", "full-auto"}

VARIABLES
  pc,         \* where each process is
  mode,       \* supervisor.config.mode
  rearm,      \* _InputControl.rearm: the mode to arm with, or "none"
  grace,      \* rearm_not_before lies in the future
  before,     \* before_auto: the mode Shift+A left for full auto, or "none"
  verifying,  \* some session has a verify_after deadline
  memory,     \* attempts the process's StateStore knows as spent
  current,    \* the attempt planned in this scan
  lock,       \* the process whose flock is granted
  listener,   \* the process listening on the control socket
  backlog,    \* requesters waiting for its answer
  abandoned,  \* the socket also queues a request whose sender has gone
  reply,      \* the answer a requester was given
  disk,       \* attempts the state file knows as spent
  typed,      \* history: how often each attempt reached a terminal
  stoodDown   \* history: the user has switched this watcher to observe

config   == <<mode, rearm, grace, before>>
work     == <<verifying, memory, current, disk, typed>>
channel  == <<listener, backlog, abandoned, reply>>
vars     == <<pc, config, work, lock, channel, stoodDown>>

Loop == {"serve", "arm", "scan", "typing", "keys", "asking", "retrying"}

(* The processes that run the loop in a mode that may type.                *)
Armed(w) == pc[w] \in Loop /\ mode[w] \in MaySend

Goto(w, l) == pc' = [pc EXCEPT ![w] = l]

-----------------------------------------------------------------------------
(* The lock and the store.  Beside an operation stands, as a mutant, what  *)
(* a plausible slip in it would do; no action uses a mutant.               *)

(* flock: LOCK_EX | LOCK_NB succeeds while nobody else holds the lock.     *)
AcquireAssumed(w) == TRUE
CanAcquire(w) == lock \in {w, NoOne}

Unreleased(w) == lock
Released(w) == IF lock = w THEN NoOne ELSE lock

(* The kernel releases the lock of a process that is gone.                 *)
StaleLock(w) == lock
ReleasedByDeath(w) == IF lock = w THEN NoOne ELSE lock

(* StateStore.load after an acquisition.                                   *)
KeepMemory(w) == UNCHANGED memory
Reload(w) == memory' = [memory EXCEPT ![w] = disk]

(* already_actioned: what the gate refuses to type again.                  *)
NothingSpent(w) == {}
Spent(w) == memory[w]

(* StateStore._save: the whole in-memory store replaces the file.          *)
SaveLater(w) == UNCHANGED disk
SavePlan(w) == disk' = memory'[w]

-----------------------------------------------------------------------------
(* The control socket.                                                     *)

(* Closing the listening socket resets every connection still queued on it.*)
CloseSocket ==
  /\ listener' = NoOne
  /\ reply' = [r \in Watchers |-> IF r \in backlog THEN "refused" ELSE reply[r]]
  /\ backlog' = {}
  /\ abandoned' = FALSE

(* _match_socket_to_lock: listen exactly while holding the lock; start()   *)
(* leaves a socket alone on which another process is still listening.      *)
MatchSocket(w, held) ==
  \/ /\ held /\ listener = NoOne
     /\ listener' = w
     /\ UNCHANGED <<backlog, abandoned, reply>>
  \/ /\ ~held /\ listener = w
     /\ CloseSocket
  \/ /\ IF held THEN listener # NoOne ELSE listener # w
     /\ UNCHANGED channel

-----------------------------------------------------------------------------
(* Starting and stopping.                                                  *)

(* command_run up to the first use of the lock.  The store is loaded here, *)
(* before ownership; the configured mode is in force but no scan runs.     *)
Start(w, m) ==
  /\ pc[w] = "off"
  /\ \/ Goto(w, "starting")
     \/ w \notin Attended /\ m \in MaySend /\ Goto(w, "probing")
  /\ mode' = [mode EXCEPT ![w] = m]
  /\ memory' = [memory EXCEPT ![w] = disk]
  /\ stoodDown' = [stoodDown EXCEPT ![w] = FALSE]
  /\ UNCHANGED <<rearm, grace, before, verifying, current, disk, typed, lock, channel>>

(* LockHeldError at startup: watch read-only and arm later.                *)
DeferArming(w) ==
  /\ rearm' = [rearm EXCEPT ![w] = mode[w]]
  /\ mode' = [mode EXCEPT ![w] = "observe"]
  /\ Goto(w, "serve")
  /\ UNCHANGED <<grace, before>>

(* A headless --all service probes the lock before it discovers terminals. *)
Probe(w) ==
  /\ pc[w] = "probing"
  /\ IF CanAcquire(w)
     THEN /\ lock' = w
          /\ Goto(w, "probed")
          /\ UNCHANGED config
     ELSE /\ DeferArming(w)
          /\ UNCHANGED lock
  /\ UNCHANGED <<work, channel, stoodDown>>

ProbeRelease(w) ==
  /\ pc[w] = "probed"
  /\ lock' = NoOne
  /\ Goto(w, "starting")
  /\ UNCHANGED <<config, work, channel, stoodDown>>

(* After discovery and the picker: acquire and reload, or defer.           *)
EnterLoop(w) ==
  /\ pc[w] = "starting"
  /\ \/ /\ mode[w] = "observe"
        /\ Goto(w, "serve")
        /\ UNCHANGED <<config, memory, lock>>
     \/ /\ mode[w] # "observe" /\ CanAcquire(w)
        /\ lock' = w
        /\ Reload(w)
        /\ Goto(w, "serve")
        /\ UNCHANGED config
     \/ /\ mode[w] # "observe" /\ ~CanAcquire(w)
        /\ DeferArming(w)
        /\ UNCHANGED <<memory, lock>>
  /\ UNCHANGED <<verifying, current, disk, typed, channel, stoodDown>>

(* A stop signal at the head of the loop, or the quit key: _loop closes    *)
(* the socket, and command_run releases the lock afterwards.               *)
Quit(w) ==
  /\ pc[w] \in {"serve", "keys"}
  /\ Goto(w, "closing")
  /\ IF listener = w THEN CloseSocket ELSE UNCHANGED channel
  /\ UNCHANGED <<config, work, lock, stoodDown>>

(* What a process leaves behind when it is gone: the kernel drops its lock *)
(* and its memory; a request it had queued stays in the holder's backlog.  *)
Forget(w) ==
  /\ Goto(w, "off")
  /\ lock' = ReleasedByDeath(w)
  /\ mode' = [mode EXCEPT ![w] = "observe"]
  /\ rearm' = [rearm EXCEPT ![w] = "none"]
  /\ grace' = [grace EXCEPT ![w] = FALSE]
  /\ before' = [before EXCEPT ![w] = "none"]
  /\ verifying' = [verifying EXCEPT ![w] = FALSE]
  /\ memory' = [memory EXCEPT ![w] = {}]
  /\ current' = [current EXCEPT ![w] = NoAttempt]
  /\ stoodDown' = [stoodDown EXCEPT ![w] = FALSE]
  /\ UNCHANGED <<disk, typed>>

Exit(w) ==
  /\ pc[w] = "closing"
  /\ Forget(w)
  /\ UNCHANGED channel

Crash(w) ==
  /\ pc[w] # "off"
  /\ Forget(w)
  /\ \/ listener = w /\ CloseSocket
     \/ /\ listener # w
        /\ backlog' = backlog \ {w}
        /\ abandoned' = (abandoned \/ w \in backlog)
        /\ reply' = [reply EXCEPT ![w] = "none"]
        /\ UNCHANGED listener

-----------------------------------------------------------------------------
(* _InputControl.tick: serve the socket, then re-arm.                      *)

(* _yield_input, lock held: refused while an action awaits verification;   *)
(* otherwise observe, release, remember what to arm with, and answer.      *)
AlwaysYields(w) == TRUE
MayYield(w) == ~verifying[w]

ReplacedConfig(w) == "observe"
PreviousConfig(w) == mode[w]

YieldsArmed(w) == mode[w]
YieldsTo(w) == "observe"

Yield(w) ==
  /\ mode' = [mode EXCEPT ![w] = YieldsTo(w)]
  /\ rearm' = [rearm EXCEPT ![w] = PreviousConfig(w)]
  /\ grace' = [grace EXCEPT ![w] = TRUE]
  /\ lock' = NoOne
  /\ UNCHANGED before

(* One poll answers what is queued, in the order of arrival: the first     *)
(* request may be granted, the ones after it find no input control here.   *)
(* A first request whose sender has gone is granted to nobody.             *)
Answer(w, first) ==
  /\ reply' = [r \in Watchers |->
                 IF r \notin backlog THEN reply[r]
                 ELSE IF r = first /\ MayYield(w) THEN "granted" ELSE "refused"]
  /\ backlog' = {}
  /\ abandoned' = FALSE
  /\ UNCHANGED listener
  /\ IF MayYield(w) THEN Yield(w) ELSE UNCHANGED <<config, lock>>

Serve(w) ==
  /\ pc[w] = "serve"
  /\ Goto(w, "arm")
  /\ IF lock = w /\ listener = w /\ (backlog # {} \/ abandoned)
     THEN \E first \in backlog \cup (IF abandoned THEN {NoOne} ELSE {}) : Answer(w, first)
     ELSE MatchSocket(w, lock = w) /\ UNCHANGED <<config, lock>>
  /\ UNCHANGED <<work, stoodDown>>

(* _rearm_if_free and the second socket match.  A headless instance that   *)
(* still waits for the lock is in standby: it skips the rest of the loop.  *)
Rearm(w) ==
  /\ pc[w] = "arm"
  /\ IF rearm[w] # "none" /\ lock # w /\ ~grace[w] /\ CanAcquire(w)
     THEN /\ lock' = w
          /\ mode' = [mode EXCEPT ![w] = rearm[w]]
          /\ rearm' = [rearm EXCEPT ![w] = "none"]
          /\ Reload(w)
     ELSE UNCHANGED <<lock, mode, rearm, memory>>
  /\ MatchSocket(w, lock' = w)
  /\ Goto(w, IF w \notin Attended /\ rearm'[w] # "none" /\ lock' # w THEN "serve" ELSE "scan")
  /\ UNCHANGED <<grace, before, verifying, current, disk, typed, stoodDown>>

(* HANDOVER_GRACE_SECONDS pass.                                            *)
GraceEnds(w) ==
  /\ grace[w]
  /\ grace' = [grace EXCEPT ![w] = FALSE]
  /\ UNCHANGED <<pc, mode, rearm, before, work, lock, channel, stoodDown>>

-----------------------------------------------------------------------------
(* Supervisor.tick, as far as the lock and the store are concerned.  It    *)
(* looks at the mode, never at the lock.                                   *)

(* Nothing to do, or a verification deadline passes in any mode.           *)
Scan(w) ==
  /\ pc[w] = "scan"
  /\ Goto(w, "keys")
  /\ \/ UNCHANGED verifying
     \/ verifying' = [verifying EXCEPT ![w] = FALSE]
  /\ UNCHANGED <<config, memory, current, disk, typed, lock, channel, stoodDown>>

(* act: an attempt not yet spent is persisted as PLANNED.  A save writes   *)
(* the whole in-memory store over the file.                                *)
Plan(w, a) ==
  /\ pc[w] = "scan"
  /\ mode[w] \in MaySend
  /\ a \notin Spent(w)
  /\ memory' = [memory EXCEPT ![w] = @ \cup {a}]
  /\ SavePlan(w)
  /\ current' = [current EXCEPT ![w] = a]
  /\ Goto(w, "typing")
  /\ UNCHANGED <<config, verifying, typed, lock, channel, stoodDown>>

(* The final recheck fails: nothing is typed and the attempt is released.  *)
Withdraw(w) ==
  /\ pc[w] = "typing"
  /\ memory' = [memory EXCEPT ![w] = @ \ {current[w]}]
  /\ disk' = memory'[w]
  /\ current' = [current EXCEPT ![w] = NoAttempt]
  /\ Goto(w, "keys")
  /\ UNCHANGED <<config, verifying, typed, lock, channel, stoodDown>>

(* send_text, then SENT is saved and the verification deadline set; the    *)
(* scan goes on with the next session.                                     *)
Send(w) ==
  /\ pc[w] = "typing"
  /\ typed' = [typed EXCEPT ![current[w]] = @ + 1]
  /\ disk' = memory[w]
  /\ verifying' = [verifying EXCEPT ![w] = TRUE]
  /\ current' = [current EXCEPT ![w] = NoAttempt]
  /\ Goto(w, "scan")
  /\ UNCHANGED <<config, memory, lock, channel, stoodDown>>

-----------------------------------------------------------------------------
(* The keyboard: no key, or Shift+A (_toggle_runtime_mode).                *)

NoKey(w) ==
  /\ pc[w] = "keys"
  /\ Goto(w, "serve")
  /\ UNCHANGED <<config, work, lock, channel, stoodDown>>

(* Leaving full auto: back to ask with the lock kept, or to observe with   *)
(* the lock released.                                                      *)
ToggleOff(w) ==
  /\ pc[w] = "keys" /\ w \in Attended
  /\ mode[w] = "full-auto"
  /\ IF before[w] = "ask"
     THEN /\ mode' = [mode EXCEPT ![w] = "ask"]
          /\ UNCHANGED <<lock, stoodDown>>
     ELSE /\ mode' = [mode EXCEPT ![w] = "observe"]
          /\ lock' = Released(w)
          /\ stoodDown' = [stoodDown EXCEPT ![w] = TRUE]
  /\ before' = [before EXCEPT ![w] = "none"]
  /\ Goto(w, "serve")
  /\ UNCHANGED <<rearm, grace, work, channel>>

(* With the lock in hand: reload the store and enter full auto.            *)
EnterFullAuto(w) ==
  /\ lock' = w
  /\ Reload(w)
  /\ before' = [before EXCEPT ![w] = mode[w]]
  /\ mode' = [mode EXCEPT ![w] = "full-auto"]
  /\ stoodDown' = [stoodDown EXCEPT ![w] = FALSE]
  /\ Goto(w, "serve")
  /\ UNCHANGED <<rearm, grace, verifying, current, disk, typed>>

ToggleOn(w) ==
  /\ pc[w] = "keys" /\ w \in Attended
  /\ mode[w] # "full-auto"
  /\ CanAcquire(w)
  /\ EnterFullAuto(w)
  /\ UNCHANGED channel

(* The lock is held elsewhere: ask whoever listens.  With nobody listening *)
(* the key press is refused at once.                                       *)
RequestYield(w) ==
  /\ pc[w] = "keys" /\ w \in Attended
  /\ mode[w] # "full-auto"
  /\ ~CanAcquire(w)
  /\ IF listener = NoOne
     THEN Goto(w, "serve") /\ UNCHANGED backlog
     ELSE Goto(w, "asking") /\ backlog' = backlog \cup {w}
  /\ UNCHANGED <<config, work, lock, listener, abandoned, reply, stoodDown>>

ReadReply(w) ==
  /\ pc[w] = "asking"
  /\ reply[w] # "none"
  /\ Goto(w, IF reply[w] = "granted" THEN "retrying" ELSE "serve")
  /\ reply' = [reply EXCEPT ![w] = "none"]
  /\ UNCHANGED <<config, work, lock, listener, backlog, abandoned, stoodDown>>

(* The five-second timeout: the request itself stays queued.               *)
RequestTimeout(w) ==
  /\ pc[w] = "asking"
  /\ w \in backlog
  /\ Goto(w, "serve")
  /\ backlog' = backlog \ {w}
  /\ abandoned' = TRUE
  /\ UNCHANGED <<config, work, lock, listener, reply, stoodDown>>

(* After a grant, the acquire loop: it takes the lock as soon as it finds  *)
(* it free, or gives up after its last attempt.                            *)
TakeOver(w) ==
  /\ pc[w] = "retrying"
  /\ \/ CanAcquire(w) /\ EnterFullAuto(w)
     \/ /\ ~CanAcquire(w)
        /\ Goto(w, "serve")
        /\ UNCHANGED <<config, work, lock, stoodDown>>
  /\ UNCHANGED channel

-----------------------------------------------------------------------------
Init ==
  /\ pc = [w \in Watchers |-> "off"]
  /\ mode = [w \in Watchers |-> "observe"]
  /\ rearm = [w \in Watchers |-> "none"]
  /\ grace = [w \in Watchers |-> FALSE]
  /\ before = [w \in Watchers |-> "none"]
  /\ verifying = [w \in Watchers |-> FALSE]
  /\ memory = [w \in Watchers |-> {}]
  /\ current = [w \in Watchers |-> NoAttempt]
  /\ lock = NoOne
  /\ listener = NoOne
  /\ backlog = {}
  /\ abandoned = FALSE
  /\ reply = [w \in Watchers |-> "none"]
  /\ disk = {}
  /\ typed = [a \in Attempts |-> 0]
  /\ stoodDown = [w \in Watchers |-> FALSE]

(* The steps a running process takes by itself, without signal or key.     *)
Step(w) ==
  \/ Probe(w) \/ ProbeRelease(w) \/ EnterLoop(w) \/ Exit(w)
  \/ Serve(w) \/ Rearm(w)
  \/ Scan(w) \/ (\E a \in Attempts : Plan(w, a)) \/ Withdraw(w) \/ Send(w)
  \/ NoKey(w) \/ ReadReply(w) \/ RequestTimeout(w) \/ TakeOver(w)

Environment(w) ==
  \/ \E m \in Mode : Start(w, m)
  \/ Quit(w) \/ Crash(w) \/ GraceEnds(w)
  \/ ToggleOff(w) \/ ToggleOn(w) \/ RequestYield(w)

Next == \E w \in Watchers : Step(w) \/ Environment(w)

(* A live process keeps running its loop and the clock keeps going.        *)
Fairness == \A w \in Watchers : WF_vars(Step(w)) /\ WF_vars(GraceEnds(w))

Spec == Init /\ [][Next]_vars
FairSpec == Spec /\ Fairness

-----------------------------------------------------------------------------
(* Properties.                                                             *)

(* Every variable has its type.                                            *)
TypeOK ==
  /\ pc \in [Watchers -> Loop \cup {"off", "probing", "probed", "starting", "closing"}]
  /\ mode \in [Watchers -> Mode]
  /\ rearm \in [Watchers -> MaySend \cup {"none"}]
  /\ grace \in [Watchers -> BOOLEAN]
  /\ before \in [Watchers -> {"none", "observe", "ask"}]
  /\ verifying \in [Watchers -> BOOLEAN]
  /\ memory \in [Watchers -> SUBSET Attempts]
  /\ current \in [Watchers -> Attempts \cup {NoAttempt}]
  /\ lock \in Watchers \cup {NoOne}
  /\ listener \in Watchers \cup {NoOne}
  /\ backlog \in SUBSET Watchers
  /\ abandoned \in BOOLEAN
  /\ reply \in [Watchers -> {"none", "granted", "refused"}]
  /\ disk \in SUBSET Attempts
  /\ typed \in [Attempts -> Nat]
  /\ stoodDown \in [Watchers -> BOOLEAN]

(* Supervisor.tick types according to the mode and never asks for the      *)
(* lock, so the loop must keep the two in step: whoever runs in a mode     *)
(* that may type is the lock's holder.  cli.py: every assignment of        *)
(* config.mode in command_run, _InputControl and _toggle_runtime_mode.     *)
ArmedHoldsLock == \A w \in Watchers : Armed(w) => lock = w

(* And the lock is never stuck with a process in its loop that may not     *)
(* type, where neither it nor anybody else could serve the sessions.       *)
HolderIsArmed == \A w \in Watchers : lock = w /\ pc[w] \in Loop => Armed(w)

(* Whoever may type knows every attempt the file records, its own and its  *)
(* predecessors' (store.load() after each acquisition).                    *)
HolderIsCurrent == \A w \in Watchers : Armed(w) => memory[w] = disk

(* Across handovers, crashes and restarts no attempt is typed twice: the   *)
(* hazard lock.py names (two supervisors, one Enter each).                 *)
TypedOnce == \A a \in Attempts : typed[a] <= 1

(* A granted request means: the process that answered has let go of the    *)
(* lock before the requester could read the answer, was the holder, and    *)
(* had no keystroke waiting for its verification (_yield_input).           *)
GrantIsClean ==
  [][\A r \in Watchers :
       reply[r] = "none" /\ reply'[r] = "granted"
         => /\ lock \in Watchers /\ lock = listener
            /\ ~verifying[lock] /\ mode'[lock] = "observe"
            /\ lock' = NoOne]_vars

(* The protocol implements the abstract single writer.                     *)
SW == INSTANCE SingleWriter WITH
        writer <- IF \E w \in Watchers : lock = w /\ Armed(w) THEN lock ELSE NoOne
ImplementsSingleWriter == SW!Spec

(* A handover nobody completes lapses, and a holder's death frees its lock:*)
(* an instance that still wants input control never waits for ever while   *)
(* no instance may type (_rearm_if_free, flock).  A service restarted for  *)
(* ever could keep colliding with its own probe of the lock, so starts     *)
(* with a probe are assumed to end.                                        *)
ProbesEnd == <>[](\A w \in Watchers : pc[w] \notin {"probing", "probed"})
SomebodyServes ==
  ProbesEnd =>
    \A w \in Watchers :
      rearm[w] # "none" ~> (rearm[w] = "none" \/ \E v \in Watchers : Armed(v))

(* What makes the properties above inductive: the file records everything  *)
(* typed; an attempt between its plan and its keystroke is its armed       *)
(* planner's and untyped; before its loop a process holds the lock only    *)
(* for the probe; and who waits for a handover is in observe.              *)
TypedIsRecorded == \A a \in Attempts : typed[a] > 0 => a \in disk

PlannedIsUntyped ==
  \A w \in Watchers :
    pc[w] = "typing" => /\ mode[w] \in MaySend
                        /\ current[w] \in memory[w]
                        /\ typed[current[w]] = 0

BeforeLoop ==
  \A w \in Watchers :
    /\ pc[w] \in {"off", "probing", "starting"} => lock # w
    /\ pc[w] = "probed" => lock = w
    /\ pc[w] = "probing" => mode[w] \in MaySend

WaitsInObserve == \A w \in Watchers : pc[w] \in {"asking", "retrying"} => mode[w] = "observe"

InputControlInv ==
  /\ TypeOK /\ ArmedHoldsLock /\ HolderIsArmed /\ HolderIsCurrent /\ TypedOnce
  /\ TypedIsRecorded /\ PlannedIsUntyped /\ BeforeLoop /\ WaitsInObserve

(* docs/USAGE.md:20: to stop input, "return to observe with A".  Once the  *)
(* user has done so, the watcher stays in observe until the key is pressed *)
(* again.                                                                  *)
ObserveLasts == \A w \in Watchers : stoodDown[w] => ~Armed(w)
=============================================================================
