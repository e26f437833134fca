------------------------------ MODULE Prompts ------------------------------
(* What the watcher makes of a screen (providers/base.py, claude.py and     *)
(* codex.py): the pattern tables, the rows they are matched against, and    *)
(* the reading they add up to.                                              *)
(*                                                                          *)
(* A row is a record of its shape (what glyph or layout it begins with),    *)
(* the pattern anchors found in its text and the reset it prints.  Wording  *)
(* is not modelled: an anchor stands for the text its pattern searches,     *)
(* soft wrapping undone.                                                    *)
EXTENDS Integers, Sequences, FiniteSets, FiniteSetsExt

CONSTANTS
  LiveRows,           \* DEFAULT_LIVE_LINES: rows at the bottom that count
  CodexLiveRows,      \* CODEX_LIVE_LINES
  ClaudeComposerRows, \* how near the bottom Claude's composer must be
  ApprovalMenuRows    \* how far below its question a menu item may be

ASSUME RowsAssumption ==
  {LiveRows, CodexLiveRows, ClaudeComposerRows, ApprovalMenuRows} \subseteq Nat \ {0}

NoReset == 0
Row(shape, says) == [shape |-> shape, says |-> says, resets |-> NoReset]
Resetting(row, at) == [row EXCEPT !.resets = at]

-----------------------------------------------------------------------------
(* The pattern tables.                                                     *)

NoAction == [kind |-> "none", policy |-> "none"]
PressEnter == [kind |-> "ENTER", policy |-> "none"]
ArmWait == [kind |-> "ARROW_DOWN_THEN_ENTER", policy |-> "allow_claude_auto_wait"]
Continue(policy) == [kind |-> "TEXT_THEN_ENTER", policy |-> policy]

Pattern(id, kind, anchors, action) ==
  [id |-> id, kind |-> kind, anchors |-> anchors, action |-> action]
Plain(kind, ids) == {Pattern(id, kind, {id}, NoAction) : id \in ids}

LimitHeadlines == {"limit-session", "limit-weekly", "limit-opus", "limit-sonnet",
                   "limit-fast", "limit-fable", "limit-generic"}
ClaudeLimits == Plain("LIMIT_BLOCKED", LimitHeadlines \cup {"limit-banner"})
ClaudeCaps == Plain("PAID_ACTION_REQUIRED", {"credits-exhausted", "admin-limit"})
ClaudeMenu == {Pattern("arm-automatic-wait", "LIMIT_BLOCKED",
                       {"stop-and-wait", "wait-here", "enter-to-confirm"}, ArmWait)}
ClaudeReady == {Pattern("ready-press-enter", "READY_TO_RESUME",
                        {"ready-press-enter"}, PressEnter)}
ClaudeWaits ==
  Plain("SELF_HEALING", {"self-healing", "self-healing-timed",
                         "self-healing-soon", "self-healing-status"})
    \cup Plain("WILL_NOT_SELF_RESUME", {"will-not-self-resume"})
ClaudeApproval == {Pattern("tool-approval", "APPROVAL_REQUESTED",
                           {"question", "item-one"}, NoAction)}
ClaudeOffers ==
  Plain("PAID_ACTION_REQUIRED", {"spend-limit", "usage-credits-offer",
                                 "upgrade-plan-offer", "session-limit-reset"})
    \cup Plain("MODEL_DOWNGRADE_OFFER", {"lower-priority", "model-downgrade"})
ClaudePatterns == ClaudeLimits \cup ClaudeCaps \cup ClaudeMenu \cup ClaudeReady
                    \cup ClaudeWaits \cup ClaudeApproval \cup ClaudeOffers

CodexCapacity == {Pattern("model-capacity", "CAPACITY_BLOCKED", {"model-capacity"},
                          Continue("allow_codex_capacity_retry"))}
CodexApproval == {Pattern("tool-approval", "APPROVAL_REQUESTED",
                          {"question", "item-one", "footer"}, NoAction)}
CodexLimits ==
  {Pattern(id, "LIMIT_BLOCKED", {id}, Continue("allow_codex_auto_resume")) :
     id \in {"limit-usage", "limit-banner"}}
    \cup Plain("WILL_NOT_SELF_RESUME", {"try-again-at"})
    \cup Plain("LIMIT_WARNING", {"approaching-limit"})
CodexOffers ==
  Plain("PAID_ACTION_REQUIRED", {"out-of-credits", "workspace-credit-limit", "purchase-offer",
                                 "limit-increase-request", "reset-credit-offer"})
    \cup Plain("MODEL_DOWNGRADE_OFFER", {"model-downgrade"})
CodexPatterns == CodexCapacity \cup CodexApproval \cup CodexLimits \cup CodexOffers

-----------------------------------------------------------------------------
(* ProviderAdapter.recognise: what the matched patterns add up to.          *)

LastRows(rows, n) == SubSeq(rows, Max({1, Len(rows) - n + 1}), Len(rows))
Said(rows) == UNION {rows[i].says : i \in DOMAIN rows}
Matched(table, rows) == LET said == Said(rows) IN {p \in table : p.anchors \subseteq said}
Ids(matches) == {p.id : p \in matches}

(* The first of these kinds that matched names the state.  A paid or a      *)
(* downgrade prompt alone blocks too; it has no permitted action.           *)
Precedence == <<
  [kind |-> "READY_TO_RESUME",       state |-> "READY_TO_RESUME"],
  [kind |-> "LIMIT_BLOCKED",         state |-> "LIMIT_BLOCKED"],
  [kind |-> "CAPACITY_BLOCKED",      state |-> "CAPACITY_BLOCKED"],
  [kind |-> "WILL_NOT_SELF_RESUME",  state |-> "WAITING_FOR_RESET"],
  [kind |-> "APPROVAL_REQUESTED",    state |-> "APPROVAL_PENDING"],
  [kind |-> "LIMIT_WARNING",         state |-> "LIMIT_WARNING"],
  [kind |-> "PAID_ACTION_REQUIRED",  state |-> "LIMIT_BLOCKED"],
  [kind |-> "MODEL_DOWNGRADE_OFFER", state |-> "LIMIT_BLOCKED"],
  [kind |-> "SELF_HEALING",          state |-> "WAITING_FOR_RESET"]>>
DeriveState(matches) ==
  LET hits == {i \in DOMAIN Precedence : \E p \in matches : p.kind = Precedence[i].kind}
  IN  IF hits = {} THEN "ACTIVE" ELSE Precedence[Min(hits)].state

DeriveVetoes(matches) ==
  {p.id : p \in {q \in matches : q.kind \in {"PAID_ACTION_REQUIRED", "MODEL_DOWNGRADE_OFFER",
                                             "SELF_HEALING"}}}

(* The latest of the resets printed on the rows that triggered a match.     *)
Trigger(p, rows) == rows[Max({i \in DOMAIN rows : rows[i].says \cap p.anchors # {}})]
DeriveReset(matches, rows) ==
  LET dated == {p \in matches : p.kind \in {"LIMIT_BLOCKED", "WILL_NOT_SELF_RESUME",
                                            "LIMIT_WARNING"}}
  IN  Max({NoReset} \cup {Trigger(p, rows).resets : p \in dated})

(* Two patterns that propose different keys mean that the screen was not    *)
(* understood.  Of two with the same keys the first of the table counts.    *)
Proposed(matches) ==
  LET actions == {p.action : p \in {q \in matches : q.action # NoAction}}
  IN  IF Cardinality({a.kind : a \in actions}) # 1 THEN NoAction
      ELSE IF Continue("allow_codex_capacity_retry") \in actions
        THEN Continue("allow_codex_capacity_retry")
      ELSE CHOOSE a \in actions : TRUE

(* A banner of the provider, and not a menu, states a limit.                *)
StatesLimit(matches) == \E p \in matches : p.kind = "LIMIT_BLOCKED" /\ p.action = NoAction

Read(table, rows, limit) ==
  LET live == LastRows(rows, limit)
      matches == Matched(table, live)
  IN  [state |-> DeriveState(matches), ids |-> Ids(matches),
       vetoes |-> DeriveVetoes(matches), reset |-> DeriveReset(matches, live),
       action |-> Proposed(matches), statesLimit |-> StatesLimit(matches),
       fingerprint |-> live, retryPrompt |-> FALSE, capacityPrompt |-> FALSE,
       inputReady |-> TRUE, composerEmpty |-> FALSE]

(* Recognition.action: nothing is proposed while input is not possible.     *)
ActionOf(reading) == IF reading.inputReady THEN reading.action ELSE NoAction

-----------------------------------------------------------------------------
(* ClaudeAdapter.recognise.                                                 *)

LastShape(rows, shapes) == Max({0} \cup {i \in DOMAIN rows : rows[i].shape \in shapes})
LastPrinted(rows) == Max({0} \cup {i \in DOMAIN rows : rows[i].shape # "blank"})

(* A cursor on an item of a permission menu belongs to the question above;  *)
(* any other text behind the cursor, and every filled marker, starts a turn.*)
InMenu(rows, i) ==
  /\ rows[i].shape = "item-cursor"
  /\ \E q \in DOMAIN rows : /\ rows[q].shape = "question"
                            /\ q < i /\ i - q <= ApprovalMenuRows
TurnStarts(rows) ==
  {i \in DOMAIN rows : \/ rows[i].shape \in {"turn", "main-on", "agent-on", "typed"}
                       \/ rows[i].shape = "item-cursor" /\ ~InMenu(rows, i)}
LatestTurn(rows) == SubSeq(rows, Max({1} \cup TurnStarts(rows)), Len(rows))

(* Command links above the newest limit headline are history.               *)
WithoutOldLinks(rows) ==
  LET limit == Max({0} \cup {i \in DOMAIN rows : rows[i].says \cap LimitHeadlines # {}})
  IN  [i \in DOMAIN rows |->
         IF i < limit THEN [rows[i] EXCEPT !.says = @ \ {"usage-credits-offer"}] ELSE rows[i]]

RecogniseTurn(rows) == Read(ClaudePatterns, WithoutOldLinks(LatestTurn(rows)), LiveRows)

(* The panel of background agents: a blank row, the main row, agent rows.   *)
WithoutAgentPanel(rows) ==
  LET end == LastPrinted(rows)
      main == LastShape(SubSeq(rows, 1, end), {"main-on", "main-off"})
      exact == /\ main >= 2 /\ rows[main - 1].shape = "blank"
               /\ \A i \in (main + 1)..end : rows[i].shape \in {"agent-on", "agent-off"}
      above == SubSeq(rows, 1, main - 1)
  IN  IF exact THEN SubSeq(above, 1, LastPrinted(above)) ELSE SubSeq(rows, 1, end)

(* The newest cursor row near the bottom holds no text and is closed by the *)
(* rule of the input box.                                                   *)
ComposerEmpty(rows) ==
  LET shown == WithoutAgentPanel(rows)
      cursor == LastShape(shown, {"composer", "typed", "menu-cursor", "item-cursor"})
  IN  /\ cursor > Len(shown) - ClaudeComposerRows /\ cursor > 0
      /\ shown[cursor].shape = "composer"
      /\ cursor < Len(shown) /\ shown[cursor + 1].shape = "rule"

(* Without the panel below it an armed wait is seen, and nothing else.      *)
ClaudeReading(rows) ==
  LET whole == RecogniseTurn(rows)
      bare == RecogniseTurn(WithoutAgentPanel(rows))
      standsDown == /\ bare.action = NoAction
                    /\ \E p \in ClaudeWaits : p.kind = "SELF_HEALING" /\ p.id \in bare.ids
  IN  [(IF standsDown THEN bare ELSE whole) EXCEPT !.composerEmpty = ComposerEmpty(rows)]

-----------------------------------------------------------------------------
(* CodexAdapter.recognise.                                                  *)

CodexFooters == {"footer", "status-footer", "capacity-footer"}
FirstShape(rows, shape) ==
  LET found == {i \in DOMAIN rows : rows[i].shape = shape}
  IN  IF found = {} THEN 0 ELSE Min(found)

CodexReading(rows) ==
  LET live == LastRows(rows, CodexLiveRows)
      whole == Read(CodexPatterns, rows, CodexLiveRows)
      composer == LastShape(live, {"composer", "typed"})
      empty == composer > 0 /\ live[composer].shape = "composer"
      trailing == {i \in (composer + 1)..Len(live) : live[i].shape # "blank"}
      nothingBelow ==
        /\ empty /\ \A i \in trailing : live[i].shape \in CodexFooters
        /\ Cardinality({i \in trailing : live[i].shape = "status-footer"}) <= 1
      banner == FirstShape(live, "banner")
      capacityBanner == FirstShape(live, "capacity")
      bullet == LastShape(live, {"bullet", "progress"})
      \* assistant output below the banner belongs to a later turn
      later == bullet > Max({banner, capacityBanner})
      active == \/ later
                \/ capacityBanner = 0 /\ LastShape(live, {"progress"}) > 0
                \/ capacityBanner > 0 /\ bullet > capacityBanner
      result == IF later
                  THEN Read(CodexPatterns, SubSeq(live, bullet, Len(live)), CodexLiveRows)
                  ELSE whole
      exact == /\ empty /\ ~later
               /\ 0 < banner /\ banner < composer
               /\ whole.reset # NoReset /\ {"limit-usage", "try-again-at"} \subseteq whole.ids
               /\ \A i \in (banner + 1)..Len(live) : live[i].shape # "progress"
      capacity == /\ result.ids = {"model-capacity"} /\ ~active /\ nothingBelow
                  /\ trailing # {} /\ Cardinality(trailing) <= 2
                  /\ \A i \in trailing : live[i].shape \in CodexFooters \ {"footer"}
                  /\ 0 < capacityBanner /\ capacityBanner < composer
                  /\ \A i \in (capacityBanner + 1)..(composer - 1) : live[i].shape = "blank"
                  /\ \A i \in 1..(capacityBanner - 1) : live[i].shape # "choice"
      overlay == LastPrinted(rows) > 0 /\ rows[LastPrinted(rows)].shape = "approval-footer"
  IN  IF overlay /\ "tool-approval" \in Ids(Matched(CodexPatterns, rows))
        THEN [Read(CodexPatterns, rows, Len(rows)) EXCEPT !.inputReady = FALSE]
      ELSE [result EXCEPT !.retryPrompt = exact, !.capacityPrompt = capacity,
                          !.inputReady = /\ empty
                                         /\ "model-capacity" \in result.ids => capacity,
                          !.composerEmpty = nothingBelow]

Recognise(provider, rows) ==
  IF provider = "claude" THEN ClaudeReading(rows) ELSE CodexReading(rows)
=============================================================================
