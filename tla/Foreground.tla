------------------------------ MODULE Foreground ------------------------------
(* Who would read the key: the processes of one tab, and the watcher that   *)
(* inspects them through /proc (proc.py), classifies what it read           *)
(* (classify.py), lets its user select it (picker.py) and inspects it once  *)
(* more before every key (fsm.py, Supervisor._live_process_drift).          *)
(*                                                                          *)
(* An inspection is one read after the other.  Between two of them the      *)
(* process may exec another program, exit, be suspended or lose an          *)
(* ancestor, and its number may be given to another process.                *)
EXTENDS Integers, Sequences, FiniteSets

CONSTANTS
  Pids,        \* process numbers that the tab's programs get
  Terminal,    \* the process above the tab's shell: Konsole, or a multiplexer
  MaxUptime,   \* how often the processes of the tab change
  MinSignals,  \* MIN_SIGNALS_FOR_HIGH_CONFIDENCE
  MaxDepth,    \* MAX_ANCESTOR_DEPTH
  MaxLooks     \* how many inspections are made

ASSUME ForegroundAssumption ==
  /\ 0 \notin Pids /\ Terminal \notin Pids \cup {0} /\ Pids # {}
  /\ MaxUptime \in Nat \ {0} /\ MinSignals \in Nat \ {0, 1}
  /\ MaxDepth \in Nat /\ MaxLooks \in Nat

VARIABLES
  program, born, parent, marked,        \* per process: image, start time, parent, TMUX set
  front, uptime,                        \* the foreground process; one tick per change
  reading, looks,                       \* the inspection under way
  candidate, ticked, selected,          \* the picker's row and the supervised identity
  held, nested                          \* what was true since the inspection began

processes == <<program, born, parent, marked, front, uptime>>
watcherVars == <<reading, looks, candidate, ticked, selected>>
foregroundVars == <<processes, watcherVars, held, nested>>

-----------------------------------------------------------------------------
(* Programs, by what /proc shows of them: base names only.                  *)

Program(comm, argv, exe) == [comm |-> comm, argv |-> argv, exe |-> exe]
Claude == Program("claude", <<"claude">>, "claude")
ClaudeLauncher == Program("node", <<"node", "claude">>, "node")
Codex == Program("codex", <<"codex">>, "codex")
CodexShim == Program("node", <<"node", "codex">>, "node")
Shell == Program("zsh", <<"zsh">>, "zsh")
Viewer == Program("less", <<"less", "claude">>, "less")
Konsole == Program("konsole", <<"konsole">>, "konsole")
TmuxServer == Program("tmux: server", <<"tmux">>, "tmux")
ScreenServer == Program("screen", <<"SCREEN">>, "screen")
NoProgram == Program("", <<>>, "")
Programs == {Claude, ClaudeLauncher, Codex, CodexShim, Shell, Viewer}
Multiplexers == {TmuxServer, ScreenServer}

All == Pids \cup {Terminal}
Alive(p) == program[p] # NoProgram
Children(p) == {q \in Pids : Alive(q) /\ parent[q] = p}

-----------------------------------------------------------------------------
(* classify().                                                              *)

(* The names that _NESTED_TERMINALS knows; a server of tmux has another.    *)
NestedTerminals == {"tmux", "tmux:server", "screen", "screen.real"}

Signal(holds, name) == IF holds THEN {name} ELSE {}
Argument(info, k) == IF Len(info.argv) >= k THEN info.argv[k] ELSE ""
ClaudeSignals(info) ==
  Signal(info.comm = "claude", "comm") \cup Signal(Argument(info, 1) = "claude", "argv0")
    \cup Signal(info.exe = "claude", "exe") \cup Signal(Argument(info, 2) = "claude", "argv1")
CodexSignals(info) ==
  Signal(info.comm = "codex", "comm") \cup Signal(Argument(info, 1) = "codex", "argv0")
    \cup Signal(info.exe = "codex", "exe")
    \cup Signal(Argument(info, 1) = "node" /\ Argument(info, 2) = "codex", "shim")
    \cup Signal("codex" \in info.children, "child")

Verdict(provider, high, blocked) == [provider |-> provider, high |-> high, blocked |-> blocked]
NotAnAgent == Verdict("none", FALSE, TRUE)
Classify(info) ==
  LET claude == ClaudeSignals(info)
      codex == CodexSignals(info)
      inside == info.marked \/ info.comm \in NestedTerminals
  IN  IF inside \/ (claude = {}) = (codex = {}) THEN NotAnAgent
      ELSE IF claude # {} THEN Verdict("claude", Cardinality(claude) >= MinSignals, info.blocked)
      ELSE Verdict("codex", Cardinality(codex) >= MinSignals, info.blocked)
AnySignal(verdict) == verdict.provider # "none" /\ ~verdict.blocked
Automatable(verdict) == verdict.provider # "none" /\ verdict.high /\ ~verdict.blocked

-----------------------------------------------------------------------------
(* inspect() and classify(), one read of /proc after the other.             *)

Blank == [pid |-> 0, born |-> 0, exe |-> "", comm |-> "", argv |-> <<>>,
          marked |-> FALSE, children |-> {}, blocked |-> FALSE]
Idle == [at |-> "idle", info |-> Blank, above |-> 0, depth |-> 0, for |-> "none"]
WithoutStart(info) == [pid |-> info.pid, born |-> 0, exe |-> info.exe]
Identity(info) == [pid |-> info.pid, born |-> info.born, exe |-> info.exe]
NoSelection == [identity |-> Identity(Blank), provider |-> "none"]
NoCandidate == [identity |-> Identity(Blank), verdict |-> NotAnAgent]

(* The way up from a process, one parent after the other, and a process     *)
(* whose way to a multiplexer is within the walk's reach.                   *)
WayUp(p, n, way) == way[0] = p /\ \A k \in 0..(n - 1) : way[k + 1] = parent[way[k]]
UnderMultiplexer(p) ==
  /\ program[Terminal] \in Multiplexers
  /\ \E n \in 0..MaxDepth : \E way \in [0..n -> All] : WayUp(p, n, way) /\ way[n] = Terminal

(* A read of a process that is gone ends the inspection without a result.   *)
GivesUp == reading' = Idle /\ UNCHANGED <<looks, candidate, ticked, selected>>
Reads(at, next, field, value) ==
  /\ reading.at = at
  /\ IF Alive(reading.info.pid)
       THEN /\ reading' = [reading EXCEPT !.at = next, !.info[field] = value]
            /\ UNCHANGED <<looks, candidate, ticked, selected>>
       ELSE GivesUp
  /\ UNCHANGED <<processes, held, nested>>

Image(p) == [program |-> program[p], born |-> born[p]]

(* Of which process: the foreground one, read from the terminal once.       *)
LookFor(purpose) ==
  /\ reading.at = "idle" /\ looks < MaxLooks
  /\ looks' = looks + 1
  /\ reading' = [Idle EXCEPT !.at = "stat", !.info.pid = front, !.for = purpose]
  /\ held' = {Image(front)} /\ nested' = UnderMultiplexer(front)
  /\ UNCHANGED <<processes, candidate, ticked, selected>>

ReadStat == Reads("stat", "exe", "born", born[reading.info.pid])
ReadExe == Reads("exe", "status", "exe", program[reading.info.pid].exe)
ReadStatus ==
  /\ reading.at = "status"
  /\ IF Alive(reading.info.pid)
       THEN /\ reading' = [reading EXCEPT !.at = "comm", !.above = parent[reading.info.pid]]
            /\ UNCHANGED <<looks, candidate, ticked, selected>>
       ELSE GivesUp
  /\ UNCHANGED <<processes, held, nested>>
ReadComm == Reads("comm", "cmdline", "comm", program[reading.info.pid].comm)
ReadCmdline == Reads("cmdline", "environ", "argv", program[reading.info.pid].argv)
ReadEnviron == Reads("environ", "ancestors", "marked", marked[reading.info.pid])

(* _ancestor_blocker: up to the terminal, one ancestor at a time.  One that *)
(* is gone ends the walk: as a clear way if exists() says so, as an         *)
(* unreadable one, which blocks, if only the reads after it do.             *)
ParentOnly(depth) == FALSE
NextAncestor(depth) == depth < MaxDepth
WalkUp ==
  /\ reading.at = "ancestors"
  /\ LET up == reading.above
         gone == up # 0 /\ ~Alive(up)
         multiplexer == up # 0 /\ program[up].comm \in NestedTerminals
     IN  IF up \in Pids /\ ~gone /\ ~multiplexer /\ NextAncestor(reading.depth + 1)
           THEN reading' = [reading EXCEPT !.above = parent[up], !.depth = @ + 1]
           ELSE \E blocks \in BOOLEAN :
                  /\ gone \/ blocks = multiplexer
                  /\ reading' = [reading EXCEPT !.at = "children", !.info.blocked = blocks]
  /\ UNCHANGED <<processes, looks, candidate, ticked, selected, held, nested>>
(* _child_comms: a process without readable children has none.              *)
ReadChildren ==
  /\ reading.at = "children"
  /\ reading' = [reading EXCEPT !.at = "verdict",
                   !.info.children = {program[q].comm : q \in Children(reading.info.pid)}]
  /\ UNCHANGED <<processes, looks, candidate, ticked, selected, held, nested>>

-----------------------------------------------------------------------------
(* What the inspection is for.                                              *)

Found == Classify(reading.info)
Eligible(row) == Automatable(row.verdict)

(* picker.discover: at the start everything eligible is ticked; after a     *)
(* rescan a tick stays with its tab.                                        *)
Lists ==
  /\ reading.at = "verdict" /\ reading.for = "list"
  /\ candidate' = [identity |-> Identity(reading.info), verdict |-> Found]
  /\ ticked' = (IF candidate = NoCandidate THEN Automatable(Found) ELSE ticked)
  /\ reading' = Idle
  /\ UNCHANGED <<processes, looks, selected, held, nested>>

(* PickerState.toggle, select_all_agents, select_none.                      *)
Toggles ==
  /\ candidate # NoCandidate /\ Eligible(candidate) /\ ticked' = ~ticked
  /\ UNCHANGED <<processes, reading, looks, candidate, selected, held, nested>>

(* Supervisor.select of what the picker returned.                           *)
Starts ==
  /\ ticked /\ candidate.verdict.provider # "none" /\ selected = NoSelection
  /\ reading.at = "idle"
  /\ selected' = [identity |-> candidate.identity, provider |-> candidate.verdict.provider]
  /\ UNCHANGED <<processes, reading, looks, candidate, ticked, held, nested>>

(* The last check before sendText.                                          *)
Drifted ==
  \/ Identity(reading.info) # selected.identity
  \/ ~Automatable(Found) \/ Found.provider # selected.provider
Sending == reading.at = "verdict" /\ reading.for = "send" /\ ~Drifted
Decides ==
  /\ reading.at = "verdict" /\ reading.for = "send"
  /\ reading' = Idle
  /\ UNCHANGED <<processes, looks, candidate, ticked, selected, held, nested>>

Begins == LookFor(IF selected = NoSelection THEN "list" ELSE "send")

-----------------------------------------------------------------------------
(* The tab.                                                                 *)

(* During an inspection it is noted what its process really was.            *)
Noted ==
  LET p == reading.info.pid IN
  IF reading.at = "idle" THEN UNCHANGED <<held, nested>>
  ELSE /\ held' = held \cup {[program |-> program'[p], born |-> born'[p]]}
       /\ nested' = (nested /\ UnderMultiplexer(p)')

Passes == uptime < MaxUptime /\ uptime' = uptime + 1

(* The foreground program starts another one, in front or as its child.  The *)
(* kernel gives a number again once its process is gone, but it goes round: *)
(* not within the milliseconds of one inspection.                           *)
Spawns(p, new, inFront) ==
  /\ ~Alive(p) /\ Alive(front) /\ (reading.at # "idle" => p # reading.info.pid)
  /\ program' = [program EXCEPT ![p] = new] /\ born' = [born EXCEPT ![p] = uptime + 1]
  /\ parent' = [parent EXCEPT ![p] = front]
  /\ \E keeps \in BOOLEAN : marked' = [marked EXCEPT ![p] = marked[front] /\ keeps]
  /\ front' = IF inFront THEN p ELSE front
Runs ==
  /\ Passes
  /\ \E p \in Pids :
       \/ program[front] = Shell /\ (\E new \in Programs : Spawns(p, new, TRUE))
       \/ program[front] = CodexShim /\ Spawns(p, Codex, FALSE)
  /\ UNCHANGED watcherVars /\ Noted

(* A launcher becomes its program, a shell anything, an agent a shell.      *)
Execs ==
  /\ Passes
  /\ \E new \in Programs :
       /\ \/ program[front] = ClaudeLauncher /\ new = Claude
          \/ program[front] = Shell /\ new # Shell
          \/ program[front] \in {Claude, Codex} /\ new = Shell
       /\ program' = [program EXCEPT ![front] = new]
  /\ UNCHANGED <<born, parent, marked, front, watcherVars>> /\ Noted

(* An orphan belongs to init; the tab falls back to the shell above.        *)
Exits(p) ==
  /\ Passes /\ Alive(p)
  /\ program' = [program EXCEPT ![p] = NoProgram]
  /\ born' = [born EXCEPT ![p] = 0] /\ marked' = [marked EXCEPT ![p] = FALSE]
  /\ parent' = [q \in DOMAIN parent |-> IF parent[q] = p THEN 0 ELSE parent[q]]
  /\ p = front => parent[p] \in Pids
  /\ front' = IF p = front THEN parent[p] ELSE front
  /\ UNCHANGED watcherVars /\ Noted

(* Job control.                                                             *)
Switches ==
  /\ Passes
  /\ \E p \in Pids : Alive(p) /\ (p = parent[front] \/ parent[p] = front) /\ front' = p
  /\ UNCHANGED <<program, born, parent, marked, watcherVars>> /\ Noted

-----------------------------------------------------------------------------
FirstPid == CHOOSE p \in Pids : TRUE
ForegroundInit ==
  /\ \E top \in Multiplexers \cup {Konsole} :
       program = [p \in All |-> IF p = Terminal THEN top ELSE IF p = FirstPid THEN Shell ELSE NoProgram]
  /\ born = [p \in All |-> IF p = FirstPid THEN 1 ELSE 0] /\ uptime = 1
  /\ parent = [p \in All |-> IF p = FirstPid THEN Terminal ELSE 0]
  /\ marked = [p \in All |-> p = FirstPid /\ program[Terminal] \in Multiplexers]
  /\ front = FirstPid
  /\ reading = Idle /\ looks = 0 /\ candidate = NoCandidate /\ ticked = FALSE
  /\ selected = NoSelection /\ held = {} /\ nested = FALSE

Inspects == ReadStat \/ ReadExe \/ ReadStatus \/ ReadComm \/ ReadCmdline \/ ReadEnviron
              \/ WalkUp \/ ReadChildren
ForegroundNext ==
  \/ Begins \/ Inspects \/ Lists \/ Toggles \/ Starts \/ Decides
  \/ Runs \/ Execs \/ (\E p \in Pids : Exits(p)) \/ Switches
ForegroundSpec == ForegroundInit /\ [][ForegroundNext]_foregroundVars

-----------------------------------------------------------------------------
ForegroundTypeOK ==
  /\ program \in [All -> Programs \cup {Konsole, TmuxServer, ScreenServer, NoProgram}]
  /\ born \in [All -> 0..MaxUptime] /\ parent \in [All -> All \cup {0}]
  /\ marked \in [All -> BOOLEAN] /\ front \in Pids /\ uptime \in 1..MaxUptime
  /\ looks \in 0..MaxLooks /\ ticked \in BOOLEAN
  /\ reading.depth \in 0..MaxDepth /\ nested \in BOOLEAN

(* fsm.py:12-15: a recycled process number, another program in the tab or a *)
(* process read half before and half after an exec gets no key: whatever    *)
(* the reads of one inspection were mixed from, the selected process had    *)
(* the foreground, and ran the selected agent, at some moment of it.        *)
AgentOf(image) ==
  CASE image.program = Claude -> "claude"
    [] image.program \in {Codex, CodexShim} -> "codex"
    [] OTHER -> "none"
KeyForTheAgent ==
  Sending => \E image \in held : /\ image.born = selected.identity.born
                                 /\ AgentOf(image) = selected.provider

(* No key goes to an agent that has been below screen all through the       *)
(* inspection, within the walk's reach, though its environment may no       *)
(* longer say so: _ancestor_blocker, classify.py:194, finds screen between  *)
(* the agent and Konsole whatever execs, exits and job control do between   *)
(* its reads.                                                               *)
NeverThroughScreen == Sending => ~(nested /\ program[Terminal] = ScreenServer)

(* classify.py:197-199 and docs/ARCHITECTURE.md:401 promise the same of     *)
(* tmux.  The code looks for "tmux" and "tmux:server", a server calls       *)
(* itself "tmux: server" and tests/test_classify.py:273 expects it to be    *)
(* passed over: without the marker in its environment the agent gets a key. *)
NeverThroughTmux == Sending => ~(nested /\ program[Terminal] = TmuxServer)
=============================================================================
