----------------------------- MODULE ResumeGate -----------------------------
(* When a key may be typed into an agent's terminal (policy.py, with the    *)
(* usage snapshot of quota.py), in a world where there is something to get  *)
(* wrong: one tab whose agent works, quotes banners, runs into limits,      *)
(* shows menus and waits; a user who drafts and chooses; a usage gauge that *)
(* lags, caps and goes stale; and another process in the tab.               *)
(*                                                                          *)
(* What the gate reads is the screen, through Prompts, and the sample; what *)
(* is true is `prompt`, what the keyboard would reach, `stopped`, whether a *)
(* limit ended the agent's last turn, and `spent`.                          *)
EXTENDS Prompts

CONSTANTS
  Scopes,      \* the usage windows
  GateTime,    \* the clock stops here
  MaxRows,     \* rows of the transcript that stay on the screen
  SampleAge,   \* ticks after which a sample is stale
  Grace,       \* Config.reset_grace
  FirstRetry,  \* Config.retry_schedule[0]
  MaxSends,    \* Config.max_resume_attempts
  MaxTrials,   \* the length of Config.retry_schedule
  Policies     \* the policies a run starts with: sets of enabled flags

ASSUME GateAssumption ==
  /\ {GateTime, MaxRows, SampleAge, Grace, FirstRetry, MaxSends, MaxTrials} \subseteq Nat
  /\ \A enabled \in Policies :
       enabled \subseteq {"resume_after_reset", "allow_codex_auto_resume",
                          "allow_codex_capacity_retry", "allow_claude_auto_wait"}

VARIABLES
  provider, transcript, prompt, panel, process,  \* the tab
  clock, spent, stopped, gauge,                  \* usage
  gateMode, policy, limitSeen, sends, actioned   \* the watcher

tab == <<provider, transcript, prompt, panel, process>>
usage == <<clock, spent, stopped, gauge>>
watcher == <<gateMode, policy, limitSeen, sends, actioned>>
gateVars == <<tab, usage, watcher>>

Nothing == [s \in Scopes |-> 0]
NoGauge == [at |-> -1, windows |-> Nothing]

-----------------------------------------------------------------------------
(* The screen: the transcript and, below it, what has the keyboard.         *)

Below ==
  CASE prompt = "composer" -> <<Row("composer", {}), Row(IF provider = "claude" THEN "rule" ELSE "status-footer", {})>>
    [] prompt = "draft" -> <<Row("typed", {})>>
    [] prompt = "multiline" -> <<Row("composer", {}), Row("text", {})>>
    [] prompt = "menu" -> <<Row("menu-cursor", {"stop-and-wait"}),
                            Row("text", {"wait-here", "upgrade-plan-offer", "enter-to-confirm"})>>
    [] prompt = "moved" -> <<Row("text", {"stop-and-wait"}),
                             Row("typed", {"wait-here", "upgrade-plan-offer", "enter-to-confirm"})>>
    [] prompt = "ready" -> <<Row("turn", {"ready-press-enter"}), Row("composer", {})>>
    [] prompt = "ready-draft" -> <<Row("turn", {"ready-press-enter"}), Row("typed", {})>>
    [] prompt = "ready-lines" -> <<Row("turn", {"ready-press-enter"}), Row("composer", {}), Row("text", {})>>
    [] prompt = "armed" -> <<Row("text", {"self-healing"})>>
    [] prompt = "permission" -> <<Row("question", {"question"}), Row("item-cursor", {"item-one"}),
                                  Row("approval-footer", {"footer"})>>
Panel == IF panel THEN <<Row("blank", {}), Row("main-on", {}), Row("agent-off", {})>> ELSE <<>>
Screen == transcript \o Below \o Panel
Reading == Recognise(provider, Screen)

-----------------------------------------------------------------------------
(* QuotaSnapshot: what the last sample says.                                *)

IsStale == gauge.at < 0 \/ clock - gauge.at > SampleAge
ExhaustedScopes == {s \in Scopes : gauge.windows[s] > 0}
Availability ==
  IF gauge.at < 0 THEN "UNKNOWN" ELSE IF ExhaustedScopes # {} THEN "EXHAUSTED" ELSE "AVAILABLE"
NextReset == Max({0} \cup {gauge.windows[s] : s \in Scopes})

-----------------------------------------------------------------------------
(* The gate; a mutant is what a plausible slip would make of the operator   *)
(* that follows it.                                                         *)

NoFingerprint == <<>>

(* A bounded trial of an opted-in Codex session.                           *)
CodexRetry(r) ==
  /\ gateMode = "auto" /\ "allow_codex_auto_resume" \in policy
  /\ provider = "codex" /\ r.retryPrompt /\ r.reset # NoReset

IdempotencyKey(r) ==
  <<process, IF r.state = "CAPACITY_BLOCKED" THEN NoFingerprint ELSE r.fingerprint>>

RightProcess == process = "selected"

Recognised(r) ==
  /\ r.state \in {"LIMIT_BLOCKED", "READY_TO_RESUME", "WAITING_FOR_RESET", "CAPACITY_BLOCKED"}
  /\ ActionOf(r) # NoAction

CapacityIsExact(r) ==
  r.state = "CAPACITY_BLOCKED" =>
    /\ provider = "codex" /\ r.capacityPrompt /\ r.ids = {"model-capacity"}
    /\ r.composerEmpty /\ r.inputReady /\ r.reset = NoReset /\ ~CodexRetry(r)
    /\ ActionOf(r) = Continue("allow_codex_capacity_retry")
    /\ gateMode = "auto" /\ ~IsStale /\ Availability = "AVAILABLE"

AnyReady(r) == TRUE
ReadyFollowsLimit(r) == r.state = "READY_TO_RESUME" => limitSeen

(* Arrow-down and Enter cannot reach the menu's paid third item; text       *)
(* cannot follow the purchase link of the tested Codex banner.              *)
NoVeto(r) ==
  LET action == ActionOf(r)
      harmless ==
        IF action.kind = "ARROW_DOWN_THEN_ENTER" THEN {"upgrade-plan-offer", "usage-credits-offer"}
        ELSE IF /\ provider = "codex" /\ action.kind = "TEXT_THEN_ENTER"
                /\ {"limit-usage", "try-again-at", "purchase-offer"} \subseteq r.ids
          THEN {"purchase-offer"} ELSE {}
  IN  r.vetoes \subseteq harmless

PolicyAllows(r) ==
  /\ "resume_after_reset" \in policy
  /\ ActionOf(r).policy \in policy \cup {"none"}

WithinBudget(r) ==
  /\ IdempotencyKey(r) \notin actioned
  /\ sends < (IF CodexRetry(r) THEN MaxTrials ELSE MaxSends)

(* Exhaustion sampled before the reset, of windows that are over since.     *)
ExpiredCodexWindows(r) ==
  /\ CodexRetry(r) /\ ExhaustedScopes # {}
  /\ gauge.at <= r.reset
  /\ \A s \in ExhaustedScopes : gauge.windows[s] <= clock

NoOtherLimit(r) ==
  \/ ActionOf(r).kind = "ARROW_DOWN_THEN_ENTER"
  \/ ExhaustedScopes = {} \/ IsStale \/ ExpiredCodexWindows(r)

Conditions(r) ==
  /\ RightProcess /\ Recognised(r) /\ CapacityIsExact(r) /\ ReadyFollowsLimit(r)
  /\ NoVeto(r) /\ PolicyAllows(r) /\ WithinBudget(r) /\ NoOtherLimit(r)

ResumeAt(r) ==
  LET latest == Max({NextReset, r.reset}) IN IF latest = 0 THEN 0 ELSE latest + Grace
IgnoresPrintedReset(r) == FALSE
BeforePrintedReset(r) ==
  /\ provider = "codex" /\ r.reset # NoReset
  /\ clock < r.reset + (IF CodexRetry(r) THEN FirstRetry ELSE Grace)

(* How well the evidence says that usage is back.                          *)
Authorization(r) ==
  IF ActionOf(r).kind = "ARROW_DOWN_THEN_ENTER"
    THEN IF (~IsStale /\ Availability = "EXHAUSTED") \/ r.statesLimit
           THEN "PROVIDER_CONFIRMED" ELSE "NONE"
  ELSE IF BeforePrintedReset(r) THEN "NONE"
  ELSE IF ~IsStale /\ Availability = "EXHAUSTED"
    THEN IF ExpiredCodexWindows(r) THEN "TIME_ONLY" ELSE "NONE"
  ELSE IF r.state = "READY_TO_RESUME" \/ (~IsStale /\ Availability = "AVAILABLE")
    THEN "PROVIDER_CONFIRMED"
  ELSE IF CodexRetry(r) \/ (ResumeAt(r) # 0 /\ clock >= ResumeAt(r)) THEN "TIME_ONLY"
  ELSE "NONE"

(* evaluate(): unattended in auto mode, after a yes of the user in ask.     *)
Allowed(r) ==
  /\ gateMode # "observe"
  /\ Conditions(r)
  /\ Authorization(r) # "NONE"
  /\ (gateMode = "auto" /\ Authorization(r) = "TIME_ONLY") => CodexRetry(r)
Unattended(r) == Allowed(r) /\ gateMode = "auto"

-----------------------------------------------------------------------------
(* The watcher.                                                            *)

(* Supervisor._record_state: this process was seen at a limit.              *)
Look ==
  /\ RightProcess /\ ~limitSeen
  /\ Reading.state \in {"LIMIT_BLOCKED", "WAITING_FOR_RESET"}
  /\ limitSeen' = TRUE
  /\ UNCHANGED <<tab, usage, gateMode, policy, sends, actioned>>

NeverScrolls(row) == Append(transcript, row)
Printed(row) == LastRows(Append(transcript, row), MaxRows)
TurnRow(says) == Row(IF provider = "claude" THEN "turn" ELSE "bullet", says)

(* Supervisor.act and a verified outcome: the key goes to whatever has the  *)
(* keyboard; a resume uses up the limit it answered, an armed wait does not.*)
Send ==
  LET r == Reading IN
  /\ Allowed(r)
  /\ actioned' = actioned \cup {IdempotencyKey(r)}
  /\ sends' = sends + 1
  /\ limitSeen' = (limitSeen /\ prompt = "menu")
  /\ IF prompt = "menu" /\ ActionOf(r) = ArmWait
       THEN prompt' = "armed" /\ UNCHANGED <<transcript, stopped>>
       ELSE /\ prompt' = "composer" /\ stopped' = FALSE
            /\ transcript' = Printed(TurnRow({}))
  /\ UNCHANGED <<provider, panel, process, clock, spent, gauge, gateMode, policy>>

-----------------------------------------------------------------------------
(* The agent, its user and the usage.                                      *)

Open == \A s \in Scopes : spent[s] <= clock
AtComposer == prompt \in {"composer", "draft", "multiline"}
AtOffer == prompt \in {"ready", "ready-draft", "ready-lines"}

(* What an agent may write in a turn besides its work: a banner quoted in a *)
(* sentence or, the worst case, an affordance quoted as a line of its own.  *)
Quotes ==
  IF provider = "claude" THEN {{}, {"limit-session"}, {"ready-press-enter"}, {"self-healing"}}
  ELSE {{}, {"limit-usage"}}
Works ==
  /\ AtComposer /\ Open
  /\ \E says \in Quotes : transcript' = Printed(TurnRow(says))
  /\ prompt' = "composer" /\ stopped' = FALSE
  /\ UNCHANGED <<provider, panel, process, clock, spent, gauge, watcher>>

(* The turn ends in a limit: a banner, with or without a reset and links;   *)
(* Claude may open its menu below it.                                       *)
Banner(reset) ==
  IF provider = "claude"
    THEN {Resetting(Row("text", says), reset) :
            says \in {{"limit-session"}, {"limit-session", "usage-credits-offer"}}}
    ELSE {Row("banner", {"limit-usage"}),
          Resetting(Row("banner", {"limit-usage", "try-again-at", "purchase-offer"}), reset)}
HitsLimit(s) ==
  /\ AtComposer /\ Open
  /\ \E reset \in (clock + 1)..GateTime :
       /\ spent' = [spent EXCEPT ![s] = reset]
       /\ \E row \in Banner(reset) : transcript' = Printed(row)
  /\ prompt' \in IF provider = "claude" THEN {"composer", "menu"} ELSE {"composer"}
  /\ stopped' = TRUE
  /\ UNCHANGED <<provider, panel, process, clock, gauge, watcher>>

HitsCapacity ==
  /\ provider = "codex" /\ AtComposer /\ Open
  /\ transcript' = Printed(Row("capacity", {"model-capacity"}))
  /\ prompt' = "composer" /\ stopped' = TRUE
  /\ UNCHANGED <<provider, panel, process, clock, spent, gauge, watcher>>

(* Claude's window is open again: it offers to go on, or goes on itself.    *)
Reopens ==
  /\ provider = "claude" /\ stopped /\ Open
  /\ \/ prompt = "composer" /\ prompt' = "ready" /\ UNCHANGED <<transcript, stopped>>
     \/ /\ prompt = "armed" /\ prompt' = "composer"
        /\ stopped' = FALSE /\ transcript' = Printed(TurnRow({}))
  /\ UNCHANGED <<provider, panel, process, clock, spent, gauge, watcher>>

(* The user drafts, under the offer to go on too, moves in the menu, arms   *)
(* the wait or leaves it; the agent asks for a permission.                  *)
Moves ==
  /\ \/ AtComposer /\ prompt' \in {"composer", "draft", "multiline", "permission"} \ {prompt}
     \/ prompt = "permission" /\ prompt' = "composer"
     \/ AtOffer /\ prompt' \in {"ready", "ready-draft", "ready-lines"} \ {prompt}
     \/ prompt = "menu" /\ prompt' \in {"moved", "armed", "composer"}
     \/ prompt = "moved" /\ prompt' \in {"menu", "armed", "composer"}
  /\ UNCHANGED <<provider, transcript, panel, process, usage, watcher>>

TogglesPanel ==
  /\ provider = "claude" /\ panel' = ~panel
  /\ UNCHANGED <<provider, transcript, prompt, process, usage, watcher>>

(* Claude's gauge stops while it is parked, and may say 99 % of a window    *)
(* that is spent.                                                          *)
Samples ==
  /\ provider = "claude" => AtComposer
  /\ \E seen \in SUBSET {s \in Scopes : spent[s] > clock} :
       /\ provider = "codex" => seen = {s \in Scopes : spent[s] > clock}
       /\ gauge' = [at |-> clock, windows |-> [s \in Scopes |-> IF s \in seen THEN spent[s] ELSE 0]]
  /\ gauge' # gauge
  /\ UNCHANGED <<tab, clock, spent, stopped, watcher>>

Ticks ==
  /\ clock < GateTime /\ clock' = clock + 1
  /\ UNCHANGED <<tab, spent, stopped, gauge, watcher>>

(* The agent is gone: its successor, another agent or the shell has the tab.*)
IsReplaced ==
  /\ process = "selected"
  /\ process' = "another"
  /\ UNCHANGED <<provider, transcript, prompt, panel, usage, watcher>>

-----------------------------------------------------------------------------
GateInit ==
  /\ provider \in {"claude", "codex"} /\ transcript = <<>> /\ prompt = "composer"
  /\ panel = FALSE /\ process = "selected"
  /\ clock = 0 /\ spent = Nothing /\ stopped = FALSE /\ gauge = NoGauge
  /\ gateMode \in {"observe", "ask", "auto"} /\ policy \in Policies
  /\ limitSeen = FALSE /\ sends = 0 /\ actioned = {}

GateNext ==
  \/ Look \/ Send
  \/ Works \/ (\E s \in Scopes : HitsLimit(s)) \/ HitsCapacity \/ Reopens
  \/ Moves \/ TogglesPanel \/ Samples \/ Ticks \/ IsReplaced

GateSpec == GateInit /\ [][GateNext]_gateVars

-----------------------------------------------------------------------------
Prompted == {"composer", "draft", "multiline", "menu", "moved", "armed", "permission",
             "ready", "ready-draft", "ready-lines"}
GateTypeOK ==
  /\ provider \in {"claude", "codex"} /\ prompt \in Prompted /\ Len(transcript) <= MaxRows
  /\ panel \in BOOLEAN /\ process \in {"selected", "another"}
  /\ clock \in 0..GateTime /\ spent \in [Scopes -> 0..GateTime] /\ stopped \in BOOLEAN
  /\ gauge.at \in -1..GateTime /\ gauge.windows \in [Scopes -> 0..GateTime]
  /\ gateMode \in {"observe", "ask", "auto"} /\ policy \in Policies
  /\ limitSeen \in BOOLEAN /\ sends \in 0..Max({MaxSends, MaxTrials})

(* A key reaches what it was meant for, whatever older turns, quotes and    *)
(* panels the screen still shows: Enter the affordance that asks for it,    *)
(* with no draft on the cursor row below it, arrow-down the menu with its   *)
(* cursor on the first item, text a composer that holds no draft on its     *)
(* cursor row; and always the selected process.                             *)
(* (An agent that quotes the affordance as a line of its own, after a limit *)
(* that no resume has answered, cannot be told from the real one.)          *)
QuotedAlone ==
  limitSeen /\ \E i \in DOMAIN transcript : "ready-press-enter" \in transcript[i].says
RightKey ==
  LET r == Reading IN
  Allowed(r) =>
    /\ process = "selected"
    /\ CASE ActionOf(r).kind = "ENTER" -> prompt \in {"ready", "ready-lines"} \/ QuotedAlone
         [] ActionOf(r).kind = "ARROW_DOWN_THEN_ENTER" -> prompt = "menu"
         [] ActionOf(r).kind = "TEXT_THEN_ENTER" -> prompt \in {"composer", "multiline"}

(* docs/USAGE.md:571: "A pre-limit available sample never permits input     *)
(* before the printed reset".  Nothing that claims usage is back is typed   *)
(* unattended while the limit that stopped the session still stands.  Of a  *)
(* Codex banner that prints no reset the sample is all there is, and it may *)
(* be older than the limit; and a quoted affordance passes for a real one,  *)
(* as above.                                                                *)
PrintsNoReset == transcript # <<>> /\ transcript[Len(transcript)].resets = NoReset
NotEarly ==
  LET r == Reading IN
  (stopped /\ ~Open /\ Unattended(r) /\ ActionOf(r) # ArmWait) =>
    (provider = "codex" /\ PrintsNoReset) \/ QuotedAlone

(* docs/USAGE.md:533: text is typed "only after the exact tested            *)
(* limit/reset message": into the empty composer of a session that a limit  *)
(* has stopped.                                                             *)
TypesOnlyIntoALimit ==
  LET r == Reading IN
  (Unattended(r) /\ ActionOf(r).kind = "TEXT_THEN_ENTER") => (stopped /\ prompt = "composer")
=============================================================================
