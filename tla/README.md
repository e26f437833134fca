# Formal models of AgentWhileTrue

AgentWhileTrue watches AI coding agents (Claude Code, Codex) in terminal tabs,
recognises when one is blocked on a usage limit or a prompt, and, when it may,
types the one keystroke that continues it. What it must never do is type at the
wrong moment, type twice, or type without bound. This directory holds TLA+ models
of the parts of the program that decide this, TLC configurations that check them
on small instances, and theorems checked by the TLA+ proof system TLAPS.

All paths below are under `src/src/agent_while_true/` unless they start with
`docs/` or `tests/` (under `src/`).

## How to run

    tlc -workers 2 -config InputControl_two.cfg MCInputControl
    tlapm InputControlProofs.tla

Each `<Module>_<question>.cfg` belongs to the module `MC<Module>`; PROJECT.json
lists the runs with what each is expected to show, the source lines of every
definition, the known hazards, and for every property a mutant of the code that
breaks it.

## Inventory

| Component | State | Operations | Hard behaviour | What makes it correct |
|---|---|---|---|---|
| Lock, control socket, handover (`lock.py`, `control.py`, `cli.py`) | flock, listening socket and its queue, each process's mode, deferred configuration, grace deadline | start, probe, defer, serve, yield, re-arm, toggle, request, time out, exit | several processes, lost answers, timeouts, crashes between steps | only the lock holder may type; it knows what its predecessors typed; handovers lapse |
| Resume supervisor (`fsm.py`) | `SupervisedSession`: pending key, retry episode, dated banner, deadlines, counters | observe, anchor, decide, plan, final recheck, send, verify, schedule, time jump | screens change between reads, reads fail, sendText raises, crash between any two writes, mode changed meanwhile | no keystroke repeated without an outcome; budgets hold; outcomes rest on evidence; a banner keeps its date |
| Action and episode store (`state_store.py`) | `records`, `episodes`, one JSON file | plan, mark, reserve, release, prepare, update, load, expire | crash between writes, corrupt file, expiry | write-ahead: what was typed is on file |
| Policy gate (`policy.py`) | none | evaluate, recheck | order of refusals, stale evidence | no key before the limit is over, none to the wrong prompt |
| Auto-yes (`fsm.py`) | answered-box memory, recheck time, stuck flag | approve, resend, report | a box is indistinguishable from its successor; failed reads | one Enter per box (two for Claude); a stuck box ends |
| Recognisers (`providers/`) | none | recognise, plan, compile | patterns over redrawn, quoted and truncated screens | ambiguous screens produce no action; one box, one command |
| Time parsing (`providers/timeparse.py`) | none | parse a printed reset | midnight, today's weekday, equality | the next instant the text shows |
| Quota sources (`quota.py`, `codex_daemon_quota.py`, `codex_rpc.py`) | parsed files, merged and cached snapshots, account binding | scan, merge, capture, bind, expire | files replaced under the reader, account switch, PID reuse | what is answered was true of that process or account |
| Process identity (`proc.py`, `identity.py`, `classify.py`) | `/proc` | classify, fingerprint, drift | PID reuse, exec and job control between reads | the process typed to is the one selected |
| Discovery and selection (`picker.py`, `cli.py`, `terminal/`) | known and selected sessions | list, prune, rebind | a failed listing looks like closed tabs | a session keeps its memory |
| Provider status monitor (`service_health.py`) | readings, threads, stop flag; per client a validator, a cached reading, a connection | start, stop, poll, fetch, publish | hung fetch at stop, cut answers, 304 after a failure | one thread each; what is shown is what was answered |
| Dashboard preferences (`preferences.py`, `tui.py`) | one JSON file, a lock, displayed and unsaved values | load, change, save | several dashboards, failing writes, a damaged file | no dashboard's setting is lost |
| The whip (`whip.py`) | crack counters, cooldown | crack | - | not modelled |
| Metrics (`metrics.py`, `activity.py`) | intervals | update | clock jumps | not modelled |
| Rendering, reports, configuration, diagnostics, simulator | none of their own | - | - | not modelled |

How they interact: `cli._loop` runs, one after the other and in one thread,
`_InputControl.tick` (socket and lock), `Supervisor.tick` for every selected
session (which calls the terminal, the recogniser, the quota source, the policy
gate and the store), rediscovery, rendering and the keyboard. Only the status
monitor has threads of its own. Processes interact only through the lock file,
the control socket, the state file and the preferences file. The terminals and
the agents in them are the environment: two reads of one tick may differ.

## Modules

| Module | Models | Role |
|---|---|---|
| `SingleWriter` | what input control promises | abstract specification |
| `InputControl` | `lock.py`, `control.py`, the lock and mode side of `cli.py`, the order of planning and typing | several watcher processes |
| `InputControlProofs` | - | theorems about `InputControl` |
| `ActionLifecycle` | what the store and the supervisor promise about one key | abstract specification |
| `ResumeLifecycle` | `fsm.py` from observation to verification, with `state_store.py` | one session, all crash points |
| `ResumeLifecycleProofs` | - | theorems about `ResumeLifecycle` |
| `AutoYes` | `fsm.py` from a scan to the Enter that answers a permission box | one session, its agent and operator |
| `AutoYesProofs` | - | theorems about `AutoYes` |
| `ResetAnchor` | `providers/timeparse.py`, the dating of banners and the preparation of episodes in `fsm.py` | one Codex session, its limits, usage sample and watcher over midnight and restarts |
| `Prompts` | `providers/base.py`, `recognise` of `claude.py` and `codex.py` | operators only: a screen reduced to a reading |
| `ResumeGate` | `policy.py`, the availability of `quota.py` | `Prompts` composed with a tab, its user, a usage gauge and the watcher |
| `PermissionBox` | `_approval_block` of both providers | the requests of one agent, their drawing and its recognition |
| `Foreground` | `proc.py`, `classify.py`, the picker's row, the last check before a key | the processes of one tab and their inspection, read by read |
| `ClaudeBridge` | `ClaudeStatuslineSource` of `quota.py` | the bridge files and one reader |
| `CodexQuota` | `CodexRolloutSource` of `quota.py`, `codex_daemon_quota.py` | accounts, logins, rollouts, two sources |
| `StatusMonitor` | `service_health.py` | the polling threads, their clients, the caller |
| `Preferences` | `preferences.py`, the keys of `tui.py`, the saving of `cli.py` | several dashboards and one file |
| `MC*` | - | values of constants, symmetry; `MCDecision`, `MCQuota` and `MCDashboard` put several components into one run |
| `EvidenceProofs` | - | theorems about `ResetAnchor` and about `Foreground`: the evidence there must be before a key |
| `PermissionBoxProofs` | - | theorems about `PermissionBox` |
| `DecisionProofs` | - | theorems about `ResumeGate` with `Prompts`, and about `MCDecision` |
| `QuotaProofs`, `DashboardProofs` | - | theorems about the two components of `MCQuota` and of `MCDashboard`, and about the two together |

Besides an operator some modules hold a second one that nothing in them uses
(`NeverScrolls`, `WithoutStart`, `ParentOnly`...): what a plausible slip in the code
would make of the first. Every property of PROJECT.json is broken by one of them.

### InputControl

One process is a *watcher*, with a program counter `pc` for its places between
two statements another process can observe: before its loop (`starting`,
`probing`, `probed`), in the loop (`serve`, `arm`, `scan`, `typing`, `keys`,
`asking`, `retrying`) and `closing`. Beside `pc` a watcher has its configured
`mode`, what it would re-arm with (`rearm`, `_InputControl.rearm`), whether the
grace period of its last handover runs (`grace`), the mode Shift+A returns to
(`before`), whether a keystroke awaits verification (`verifying`) and its copy of
the store (`memory`). Shared are `lock`, the socket (`listener`, `backlog`,
`abandoned`, `reply`) and the state file (`disk`). `abandoned` is a request whose
sender gave up or died: the holder still reads and answers it. `typed` and
`stoodDown` are history variables.

`Plan`, `Withdraw` and `Send` are `Supervisor.act` as seen by the store: the
attempt is saved before it is typed. They look at `mode`, never at `lock`,
because the code does. That the two agree is the property `ArmedHoldsLock`.

### ResumeLifecycle

One supervised session and the store below it. `pc` marks the places where the
process can die with a different file on disk: between ticks (`idle`), after an
observation (`scanned`), after the plan was saved (`planned`), after sendText
(`typed` when it returned, `unsent` when it raised). `record` and `episode` are
the store and survive a crash; everything under `session` does not. The terminal
is not state: each read yields any observation of `Observations`, the second
read of a tick independently of the first. Deadlines are three-valued (none, not
yet, due) and `Elapse` moves them; so is the time an agent has been seen working
(`active`). `typed`, `landed`, `doubt` and `glance` are history variables the
properties read and no action tests.

What depends on evidence outside the module (quota, usage text, time since the
limit, policy switches other than the capacity retry, drift of the process) is
the freedom of `Refuse` and `Cancel` to say no at the gate and at the final
recheck. Safety thus holds whatever the evidence says; nothing is claimed about
a resume being sent. The store does not expire here: behaviours stay within the
24 hours of `RECORD_TTL_SECONDS`. The back-off deadlines of an episode
(`next_attempt_at`) are not modelled: an attempt may come at any tick at which
the rest of the code allows it.

### AutoYes

The screen of one session (`box`, and `turn`, the number of boxes that have
appeared so far) changes at any time: a box may leave and an identical one appear
between two reads. The watcher has only fingerprints. `pc` is where it is between
a scan and its last `sendText`; `offered`, `approved`, `age`, `resent` and `stuck`
are the fields of `SupervisedSession` for the box offered and the box answered,
`age` being `approved_at` against `APPROVAL_RECHECK_SECONDS`. `armed` stands for
everything that switches auto-yes on and off between scans, also the dashboard's
pause. `enters` and `late` are histories of the Enters typed for each appearance: by
calls of `sendText` that returned, and by calls that raised. `SendFails` may do either,
type or not, since Konsole may deliver an Enter and answer after the five seconds the
D-Bus call is given; the code remembers neither.

`Skip` and `Refuse` are the refusals that rest on evidence outside the module (a
resume in flight, drift of the process, a changed session); `ReadNothing` is a
failed read or a redraw in progress. `Mishaps` names three things the code does
let happen to its memory of an answered box: `"empty"`, a read that fails behind
the reader's back and looks like a screen without a box; `"beside"`, a limit
notice on the screen of the box; `"rebound"`, a session dropped by a failed
listing and selected anew. `mishap` is the history of whether one has happened.
`EnterBudget`, of the calls that returned, holds until then; each of them breaks it; the
report of a stuck box survives all three. `AnsweredOnce`, of all Enters, fails without
any of them (finding 5).

### ResetAnchor

Time is counted in slots. `ParseReset` is `parse_reset`; `Anchored` is
`_anchor_reset` with its order of sources (a window newer than a saved reset, the
memory of the session, a saved episode, the usage sample, the first sighting), and
`FindEpisode` the choice among saved episodes that match. `memory` is the session's
part (`reset_text`, `reset_first_seen`, `reset_at`, `retry_episode_key`), lost at a
restart; `episodes` is the store's. `Observe` is a tick as far as the banner goes:
in auto mode it also prepares the episode. The world prints a reset within a day as
a clock and a later one with its date, redraws the screen at will and has a usage
sample that names the spent window as long as it lasts.

### Prompts and ResumeGate

A row of the screen is a shape, the pattern anchors in its text and the reset it
prints. `Prompts` has the pattern tables, the precedence of states, vetoes, resets
and actions (`ProviderAdapter.recognise`) and what each provider does before and
after: Claude cuts the screen at the latest turn, drops old links and the panel of
background agents; Codex looks for output below a banner, an exact retry or
capacity prompt and an overlay.

`ResumeGate` puts the gate of `policy.evaluate` on top (`Conditions`,
`Authorization`, `Allowed`) and below it a world that can deceive it: a transcript
of work, quotes and banners, a prompt that is a composer, a draft, a menu (with its
cursor moved), an offer to continue, with or without a draft under it, an armed wait or
a permission box, a gauge that lags, caps and goes stale, and another process in the
tab. What is true (`prompt`,
`stopped`, `spent`, `process`) is never read by the gate, except that the last
check compares the process; what is read is never trusted by the properties.

### PermissionBox

A request has a provider, a command, a menu, and a preview that may hold rows that
look like parts of a box. `Drawing` is what the agent draws in a wide or narrow
terminal, `Shown` the rows that fit, and `ClaudeBlock`/`CodexBlock` what the
adapters extract of them. The user moves the cursor and resizes; another request of
similar appearance takes the place of the first.

### Foreground

`program`, `born`, `parent` and `marked` are the processes of the tab as `/proc`
shows them, `front` the one with the terminal. An inspection (`reading`) is one read
after the other in the order of `proc.inspect` and `classify`; `Runs`, `Execs`,
`Exits` and `Switches` come between any two. `candidate`, `ticked` and `selected`
are the picker's row, its tick and the identity that supervision starts with;
`Drifted` is the inspection before a key. `held` and `nested` are histories of what
was true since the inspection began, for the properties.

Above the first process of the tab is Konsole or the server of a multiplexer: tmux,
which calls itself "tmux: server", or screen. Konsole reports the foreground of its own
pty, so a process below a multiplexer is one the code should not meet; the walk up the
ancestors (`WalkUp`) and the marker in the environment are its defence if it does. An
ancestor that is gone ends the walk: with a clear way if `exists()` saw that, with
"ancestor-unreadable", which blocks, if only the reads after it did. `nested` says that
the way up to a multiplexer was within the walk's reach (`MaxDepth`) all the time: in a
deeper tree the code stops climbing and lets the agent pass
(`tests/test_classify.py:286-289`).

### ClaudeBridge and CodexQuota

`ClaudeBridge` is one call of `ClaudeStatuslineSource.snapshot`, split at every
`stat`, `open` and read (`scan`, `todo`, `current`, `versions`), while sessions
replace and remove their files and the PID asked about changes hands. A file has a
unique version; the directory's is that of the last change. `truths` collects the
answers that were right at some moment of the call.

`CodexQuota` has the login of every home, the processes started under it and the
events of their rollouts. An event may name the limit it is about (`limit_id`); only
events of one account about one limit are weighed against each other, and one without
an account or a limit is answered as it is (`Merges`, `Identified`). An event does not
say whose it is, so `Told` and `sound`
are known to the model only. `ReadRollout`/`Merge` and `Bind`/`Respond`/`Verify` are
the two sources, split where a login can come in between; `merged` and `cache` are
what they keep.

### StatusMonitor

A thread of a provider is at one of the places where another thread or the network
can intervene: waiting, requesting, answering, holding a reading. `stop` and `kept`
are `_stop` and `_threads`; `caller` is inside `stop()`, whose joins may time out.
`etag`, `cached` and `conn` are the client. `ParseSummary` is `parse_summary`;
`Verdict` says the same without its search, for the property.

### Preferences

A dashboard is between two of the steps another process can observe: not running,
at the keys, wanting to save, with the lock, with the merged document, or with a
document it could not merge (`blind`). `chosen` is the history of the last save that
was about a field.

## What the runs show

The tables of PROJECT.json hold the source lines; here is what each run asks.

| Run | Instance | Question |
|---|---|---|
| `InputControl_two` | a dashboard and a headless service, 2 attempts | nobody types without the lock, a holder is armed and knows what is on file, nothing is typed twice, grants are clean, and the protocol implements `SingleWriter`; who waits to arm does not wait for ever while nobody may type |
| `InputControl_observe` | the same two, 1 attempt | finding: observe does not last |
| `ResumeLifecycle` | scans that show a prompt and the capacity screen, 2 attempts each, or one reset banner, schedule of 2; 1 failed send per key | budgets, reservations, exhaustion, evidence of recovery and the lifecycle over crashes, redraws and mode changes; a capacity action found sent is settled; the inductive invariant |
| `AutoYes` | two boxes, three appearances until a mishap, two with all of them | one Enter for each appearance, two on Claude, by calls that returned, until a mishap; a box that stays on screen is reported in the end, whatever mishaps there were |
| `AutoYes_empty` | one appearance, one mishap | finding |
| `AutoYes_late` | one appearance, no mishaps | finding |
| `Dashboard` | two providers, three components, two threads each; two dashboards and settings | one thread each, what is shown was answered, an unreachable page is shown; no setting is lost |
| `Dashboard_cut` | the same | finding |
| `Quota` | two bridge files, two processes, three versions; two Codex processes in two homes, with two accounts, one login and one limit, or with one account, two limits or none and two moments | an answer was right during the call; accounts are apart; what rollouts say of a limit never goes back and is about that limit |
| `Decision` | see below | a clock is its next occurrence and is never dated later; the right key, not early; one request, one yes; the selected agent, never through screen |
| `Decision_quote` | the same | finding |
| `Decision_tmux` | the same | finding |

In `Dashboard`, `Quota` and `Decision` components that share no state are put into one
run (in `ResumeLifecycle` and `Quota` two instances of one component as well), in which
`focus` says which of them moves while the others stay at their initial states: no step of one enables or changes a step of another, so nothing is
lost, and the product of their states is not explored for nothing.

Bounds. Two attempts show a second attempt after a first one, its last, and the
refusal of a third. One failed `sendText` per key is enough for its effect on
every counter; it may happen at any attempt. Two watchers show every handover
between a pair; a third one that slips in between is covered by the proofs. One
reset banner is enough for one episode; two of them interact only through
`session.retry_episode_key`, a single field, and any number of them, beside the
capacity screen, is covered by the proofs rather than by TLC: `Shows` in
`MCResumeLifecycle` keeps banners apart from other prompts and lets one be typed outside
its schedule, in ask mode, once. Three appearances show a box, its identical successor and a different one; after a mishap two are enough to
lose the memory of the first (`FewMishaps` in `MCAutoYes`). `More` counts Enters up to
three, one more than any appearance may get.

Two threads for each provider are a hung one and its successor. Two dashboards and
two settings show a save about one setting on top of another's. Three versions of
bridge files are a candidate, its replacement under the reader, and a third one in
another file; two starts are one change of hands of the PID. One login separates two
accounts; one cached answer is one that may go stale. Logins and limits are not mixed
(`InFocus` in `MCQuota`): whether limits are kept apart is asked where no login
interferes, with a moment more and without the app server, which names no limit.

`Decision` dates banners on days of two slots in weeks of two days, over two days
(`MaxTime`) and two limits: a reset today, tomorrow and past midnight, on today's
weekday and on the other. The gate has two usage windows, a clock of three moments
and two rows of transcript, so a banner, what is below it, and scrolling; it runs
with every permission of the policy switched on, because a permission that is
missing only refuses more. `FewSends` and `FewSteps` in `MCDecision` are bounds on the
gate's steps. After a first key only a session in auto mode that uses one window goes
on, with no agent panel, permission menu or draft of several lines, which are all met
before it. A session in ask mode uses one window: how many windows are spent matters
to `NotEarly`, which is about unattended keys. The process is replaced when a key
would be due to it, and nothing follows, because the gate then refuses everything.
The permission boxes are shown whole, cut at the middle and nearly gone (`Windows`).
The tab has two numbers for its processes, so that one is reused, three changes, and
two inspections: the picker's and the last check.

Nothing else is bounded: crashes, restarts, mode changes and time jumps occur any
number of times.

Fairness. `InputControl` assumes that a live process keeps running its loop (weak
fairness of its own steps, `_loop` sleeps at most one interval) and that the grace
period ends. Signals, key presses, starts and crashes are never assumed.
`ProbesEnd` excludes a service that is restarted for ever and always probes the
lock at the wrong moment. `ResumeLifecycle` assumes that a tick is begun and
finished and that time passes; `CapacitySettles` speaks of behaviours in which
the process eventually stays up in a mode that may type. `AutoYes` assumes that
the dashboard keeps scanning and the clock keeps going; `StaysIsReported` speaks
of behaviours in which auto-yes stays on and from some point on reads and
keystrokes succeed and nothing refuses (`Unhindered`). `StatusMonitor` assumes that
threads are scheduled and that every wait of a fetch and of a join has a timeout, as
the code gives them; nobody has to start or stop the monitor, and `UnusableIsShown`
speaks of a provider that was started, was not stopped and whose thread no exception
has ended. The other modules have no liveness properties and assume no fairness.

### Findings

Each is a run expected to fail, with the quotation in PROJECT.json.

1. `ObserveLasts` (`cli.py:532`): leaving full auto with Shift+A returns to
   observe and releases the lock, but keeps the deferred arming; the next loop
   takes the lock back and arms.
2. `ReturnedOnce` in `AutoYes_empty` (`terminal/konsole.py:178`): Konsole's reader
   answers a failed call with an empty screen and not with an error, so the
   answered box is forgotten and answered again. It breaks in two more
   ways, which `AutoYes_empty.cfg` shows with another mishap: `"beside"`, a limit
   notice beside the box makes the watcher forget a box that has not left the screen
   (`fsm.py:843`; docs/USAGE.md:714 wants it "seen" to leave), and `"rebound"`, a
   failed listing drops the session with its memory (`terminal/konsole.py:118`).
3. `UnknownWheneverUnusable` (`service_health.py:124`, `220`): a connection that breaks
   inside a gzip body raises `EOFError`, which no handler of `fetch` names. The polling
   thread dies and the dashboard keeps showing its last reading.
4. `TypesOnlyIntoALimit` (`providers/codex.py:158`): the sentence of a Codex limit is
   searched anywhere in the live rows, so a last answer that quotes it above an empty
   composer is taken for a limit, and with the opt-in and an AVAILABLE sample
   `continue` is typed into a session that no limit has stopped.
5. `AnsweredOnce` (`fsm.py:1272`): a `sendText` that raises after its five seconds
   may have delivered the Enter. Nothing is remembered of it, so the next scan answers
   the same box again, as often as that happens, against docs/USAGE.md:714.
6. `NeverThroughTmux` (`classify.py:88`): the walk up the ancestors looks for "tmux" and
   "tmux:server", a tmux server is called "tmux: server". An agent below it whose
   environment does not say so gets a key; the walk's docstring and
   docs/ARCHITECTURE.md:401 promise otherwise, tests/test_classify.py:273 records it.
   Below screen the same walk holds (`NeverThroughScreen`).

### Known divergences

These were met while modelling. No run reports them; the properties say which
exception they make, or the hazard in PROJECT.json says why no property covers it.

- A screen read that failed counts as "the prompt has gone" and verifies a plain
  resume (`fsm.py:1352`). Timed retries are not affected (`TwoWorkingReads`).
- After a clock jump the sent record of a plain resume is never settled, and auto-yes
  and the whip stay refused (`fsm.py:415`). Capacity actions are (`CapacitySettles`).
- A failed `sendText` is spent for a capacity retry and is free for a plain prompt,
  which may be typed without bound if every call types and raises (`fsm.py:938`).
  `PromptBudget` counts the keystrokes of calls that returned.
- A timed attempt that fails because no agent is seen leaves its episode waiting for
  it for ever (`fsm.py:1355`).
- An event that a Codex process wrote before another login is read as one of the new
  account (`quota.py:462-472`); docs/USAGE.md:86 promises that accounts are kept apart. `AccountsApart`
  excludes it with `sound`.
- An event without an account or a limit is answered as it is, and an answer of the app
  server is not weighed against rollouts (`quota.py:458`, `codex_daemon_quota.py:149`): what is
  reported about a process may go back in time that way. `NothingOlder` speaks of
  rollouts that name both.
- `reset_first_seen` of an earlier banner is kept when its text changes, so a new
  banner may be dated from the old sighting (`fsm.py:618`; docs/OPEN_ISSUES.md:193 speaks
  of the banner's own). `NeverLate` speaks of banners that were once dated rightly.
- A row of Claude's preview that is itself a solid rule passes for the top of the box
  (`providers/claude.py:588-590`): commands above it are not part of the fingerprint.
  Of a box taller than the window only the visible part is. A row of Codex's preview
  that reads as a title is likewise taken for the box's (`providers/codex.py:517-524`).
  `SameBoxSameCommand` excludes all three with `OneTop` and `ShownWhole`.
- Codex's composer counts as empty for a resume when only its cursor row is
  (`providers/codex.py:354`, `434`), so a multi-line draft whose first row is empty
  receives the text. `RightKey` allows it. Under Claude's offer to press enter only
  a cursor row that holds text counts as a newer turn (`providers/claude.py:412-423`), so a
  draft of several rows whose first is empty receives the Enter, which `RightKey` allows
  likewise (`"ready-lines"`).
- A line of Claude's output that is, word for word, the offer to press enter cannot be
  told from the offer once a limit was seen and not answered; `RightKey` and `NotEarly` say so (`QuotedAlone`).
- Codex's banner without a printed reset leaves only the usage sample, which may be
  older than the limit; `NotEarly` excepts a newest row that prints none
  (`PrintsNoReset`). Trials of an opted-in session are not excepted: they too wait for
  the printed reset.
- A rescan in the picker keeps the ticks of tabs that became ineligible
  (`picker.py:254-257`); harmless, since each key is preceded by an inspection.
- A save that could not read the preferences file writes all of its own settings over
  it. `NoLostChoice` counts the file as lost from then on.

## What is proved

`InputControlProofs` proves, for any set of watchers, dashboards and attempts:

- `Invariance`: `InputControlInv` is an invariant. It is inductive where its
  parts are not. `TypedOnce` alone is not preserved by `Send`; it needs that the
  planned attempt is untyped (`PlannedIsUntyped`), which at `Plan` needs that
  whatever was typed is on file (`TypedIsRecorded`) and that the planner's memory
  is the file (`HolderIsCurrent`). The last is preserved because no one else
  writes the file, for which the writer must hold the lock (`ArmedHoldsLock`).
  `BeforeLoop` and `WaitsInObserve` are what `EnterLoop` and the handover need
  for that.
- `WriterHoldsLock`, `AtMostOnce`, `HolderMayType`, `HolderKnowsTheFile`, `Typing`: its
  named parts.
- `GrantsAreClean`: the action property `GrantIsClean`. Only the process whose turn it
  is to serve grants (`OnlyServeGrants`); the rest is in its answer.
- `Refinement`: `InputControl` implements `SingleWriter`.

The assumptions are those of the module: dashboards are watchers, and the null
values are none of them.

`ResumeLifecycleProofs` proves, for any prompts and banners, any length of the
schedule, any budget and any number of failed `sendText` calls:

- `ResumeInvariance`: `ResumeInv` is an invariant. `ReservedOnce` (each attempt of
  a schedule is typed at most once) needs that an attempt about to be typed has
  not been typed. That holds because a reservation is the successor of all the
  episode's attempts and those beyond are untouched (`Unreserved`). It survives
  `Released`, which gives a reservation back, only because the key in flight is
  the episode's latest (`PendingIsLatest`) and was not typed (`Acting`). The
  budgets need that every keystroke is either counted or the one whose record is
  due (`CapacityCounted`, `PromptCounted`), and a keystroke without an outcome
  belongs to a key the gate refuses (`DoubtIsOpen`). `WaitsForSent` and
  `SeenAtWork` tie deadlines to sent keys and the time at work to reads that saw
  work.
- `AttemptsAreReservedOnce`, `CapacityIsBudgeted`, `PromptsAreBudgeted`,
  `ExhaustionIsExact`, `ResumeTyping`, `ReservationsArePossible`: the properties
  of the runs that follow from it.
- `RecoveryIsSeenTwice`: the action property `TwoWorkingReads`. Only `_verify`
  records a success; for a reserved key it does so only on a read that shows work
  when work has been seen long enough, and that this was seen by the read before
  is `SeenAtWork`. A banner without a saved episode, which makes `_verify` treat
  a reserved key as a plain one, is not a screen past its prompt.
- `LifecycleIsImplemented`: supervisor, store and crashes implement
  `ActionLifecycle`, where a key typed without a recorded outcome is in the
  stage `"typed"`, which the file alone does not show.

The proof takes each operation on an episode on its own (`ScheduledOK`,
`CompletedOK`, `EnsuredOK`), then the steps that leave the records alone
(`StoreKept`), the outcome of a sent key (`OutcomeKept`) and the steps on the key
in flight (`KeyInFlight`), and has one lemma for each action.

`AutoYesProofs` proves, for any boxes and any number of appearances:

- `AutoYesInvariance` and `Budget`, until the first mishap: while a box is up,
  what calls of `sendText` that returned have typed for it is remembered (`Remembered`), and an Enter on its way is
  the first for the appearance it was aimed at, or Claude's second (`OnItsWay`),
  also when that appearance has been replaced in the meantime.
- `WholeMemory`, with any mishaps: what is remembered of an answered box is set
  and cleared as a whole.

`DashboardProofs` proves, for any dashboards, settings and numbers of values:

- `PreferencesInvariance`: `PrefsInv`. That no choice is lost needs that what is about
  to be written keeps the others' choices (`MergeKeeps`) and has one's own
  (`MergeChanges`), and that no one else writes between the read and the replacement
  (`WriterHoldsFlock`).
- `ChoicesAreKept` and `ChangesWait` follow, with `PreferencesTyping`.

and, for any providers, components, pages (each a finite set of components) and any
number of hung threads:

- `MonitorInvariance`: `MonitorInv`. `OneThread` needs that no living thread is
  forgotten (`AliveIsKept`). `ReadingIsTheAnswer` needs the same of the reading in
  hand and of the cache: what is cached is the verdict on the page the validator is of
  (`CacheIsTheAnswer`), which is what makes a 304 safe after a failure in between.
- The lemma `SummaryIsTheVerdict`: `parse_summary`, with its search for the identity
  first and the name only where the identity is nowhere, finds what `Verdict`
  describes without one.
- `OneThreadEach`, `PublishedIsTheVerdict`, `MonitorTyping`;
- `DashboardTyping`, `DashboardKeeps`: all of it for the two beside each other, because
  `MCDashboard` is a behaviour of each (`DashboardMonitors`, `DashboardPrefers`).

`QuotaProofs` proves, for any processes, homes, accounts, limits, times and logins:

- `QuotaInvariance`: `QuotaInv`. An event no login has outdated is about the account of
  its process (`RolloutsAreOwn`, `FoundIsOwn`), which is where it is merged
  (`MergedIsAbout`); a daemon's answer is about the account it is bound to, in hand
  and in the cache (`ResponseIsAbout`, `CacheIsAbout`).
- `AccountsAreApart`, `QuotaTyping`, and `ReportsNeverGoBack`, for each limit of each
  account and any number of them.

and, for any files, contents and changes of the process:

- `BridgeInvariance`: `BridgeInv`. As long as nothing has moved since the directory was
  listed, the candidates are all there are (`ListedAreAll`), the best so far is the
  best of those read (`BestSoFar`), and what was right when the process was read is
  on record (`StartIsWitnessed`). The recheck of the directory is the moment from
  which the answer is on record whatever follows (`CheckedIsRight`).
- `AnswersWereRight`, `BridgeTyping`; `QuotasTyping`, `QuotasHold` for the two beside
  each other.

`EvidenceProofs` proves of `ResetAnchor`, for days and weeks of any length, any number
of limits and any age a banner may have:

- `ReadingIsNext`: `NextOccurrence`. A clock is the next instant that shows it
  (`ClockIsNext`), a clock on a weekday the next one on that day (`WeekdayIsNext`), from
  what quotient and remainder are of multiples of a day and of a week.
- `DatedNeverLate`: `NeverLate`, from the invariant `AnchorIInv`. What makes it hold is
  that a date which lies past the last reset is a guess of a bare clock within a day of
  now, first seen before that reset (`DatedOK`), and that nothing else bears its text
  (`SameTextOK`); once the banner has been dated rightly every saved episode of its text
  is at or before its reset (`KnownOK`), so whichever of them `_anchor_reset` finds
  after a restart is not later. One lemma for each kind of step.
- `AnchorTyped`.

and of `Foreground`, for any set of process numbers, any number of changes between two
reads and any number of inspections:

- `ForegroundKeyForTheAgent`: `KeyForTheAgent`, from `LookedOK`. All living images of
  one inspection are of one process, since none is started while it is read
  (`NoRespawn`), and every name that was read is the name of one of them (`HeldOK`);
  the identity that is compared contains the start time, and two signals of an agent
  name it (`ClaudeByName`, `CodexByName`, which is where two signals are needed).
- `ForegroundNeverThroughScreen`: `NeverThroughScreen`, from `WalkOK`: the walk up the
  parents is on every way within its reach from the process to screen and never past
  it, and screen, unlike what is below it, stays (`TopStays`) and is known by its name
  (`KnownAtTop`). The depth of the walk is any number.
- `ForegroundTyped`.

`DecisionProofs` proves, for any number of rows on the screen and of rows that count,
any windows, clock, grace, schedule, budgets and policies:

- `GateInvariance`: `GateIInv` says what the world can look like. While a limit of a
  Codex session stands its banner is the newest row of the transcript (`LimitStands`),
  a Codex session has no menu and no panel (`CodexHasNoMenu`), and the offer to go on,
  with or without a draft under it, stands only when usage is back (`ReadyIsOpen`).
- `GateReachesItsPrompt`: `RightKey`. A proposal is the action of a pattern
  (`ProposedByOne`), whose every anchor stands in a row that counts (`MatchedIs`); which
  rows those are is followed through the cuts of both recognisers (`ClaudeRows`,
  `CodexRows`) back to the screen, and from there to the prompt (`Fits`). A draft and a
  permission box are kept out by Codex's composer and overlay (`CodexRightKey`), a moved
  cursor and a draft under an offer by Claude's latest turn (`ClaudeRightKey`), an old
  offer by the limit that must come before.
- `GateWaitsForTheReset`: `NotEarly`. What Codex's newest banner prints is never later
  than what is read (`ResetOfNewest`), so a key before it is refused; of Claude only
  the offer claims that usage is back.
- `GateTyping`, and `DecisionTyping`, `DecisionHolds`,
  `DecisionNeverThroughScreen` for the four parts beside each other, each of which
  `MCDecision` is a behaviour of (`DecisionDates`, `DecisionGates`, `DecisionAsks`,
  `DecisionInspects`).

`PermissionBoxProofs` proves, for any commands, any heights of the window and any reach
of the three searches:

- `BoxGrantsOneRequest`: `EnterSaysYesOnce`. The type invariant is all the induction it
  needs; the argument is about one screen. `ClaudeLayout` and `CodexLayout` say which
  row of a drawing stands where, with its menu of any number of items and rows
  (`MenuIsDrawn`), and a screen is the end of a drawing (`ShownIs`). What Claude's search
  finds, a yes under the cursor right below a question, can then only be the first item
  of the real menu, because a preview holds one row that looks like a box and not two
  (`ClaudeFirstItem`). What Codex's search finds cannot lie in the preview, because its
  items would have to run on to the footer without a blank row (`CodexWhere`), and a
  menu that is complete for its title begins with the item that says yes once
  (`ValidMenus`).
- `BoxesTellCommandsApart`: `SameBoxSameCommand`. A box is the end of a drawing
  (`ClaudeBlockIs`, `CodexBlockIs`) that reaches up to the command
  (`ClaudeReachesCommand`, `CodexWhole`; a Codex box with rows clipped off is none), so
  two boxes that read the same agree row by row, counted from the end that both
  requests share. That the rows for hidden lines stand only in one of the two is
  excluded by the row above the question.
- `BoxTyping`.

Two things the proof asked of the model that the instance had by chance. The search
above a dashed rule must keep at least two rows (`BoxAssumption`; the code keeps 40),
or a Claude box that hides rows would begin below its command. And `OneTop` has to say
of the command what it said of the row beside it, that it is not worded as a title.

The assumptions are those of the modules: bounds are natural numbers, an agent is
named by at least two signals, policies are sets of the four flags, every watched
provider has a page, a page lists finitely many components, and the null values are
distinct from what they stand beside.

Only model-checked are the liveness properties (`SomebodyServes`, `CapacitySettles`,
`StaysIsReported`, `UnusableIsShown`), which are out of the prover's reach (fairness and
ENABLED). Every other property of the passing runs is a theorem. Induction over data is
out of its reach as well; where a proof needs one (what `FlattenSeq` puts together, the
first of several rows) it takes the least counterexample instead (`LeastMember`).

## What is not modelled

- `whip.py`: it types a phrase the user asks for into empty composers, through the
  reading and the last check that `Prompts` and `Foreground` model; a counter and a
  cooldown remain.
- `metrics.py`, `activity.py`: sums of intervals.
- Rendering and reports, configuration, diagnostics, log files, the simulator and the
  demonstration scripts: formatting, parsing and harnesses around these decisions.
- Regular expressions (an anchor stands for the text a pattern searches), D-Bus, HTTP,
  and the characters of a date.
- In modelled components: the expiry of records after 24 hours and a corrupt state
  file (`state_store.py:434`, `106`), the two steps that unlink the control socket
  (`control.py:145`), rediscovery with `--all`, the fzf picker, containers and remote
  shells (blockers of the same kind as screen).

What is left to do, in this order: the expiry of records and a corrupt state file in
`ResumeLifecycle`; the socket file; the composition of the gate with the lifecycle,
where `Refuse` and `Cancel` now stand for it.
