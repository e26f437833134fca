--------------------------- MODULE DecisionProofs ---------------------------
(***************************************************************************)
(* Proofs about when a key may be typed (ResumeGate, Prompts), for any     *)
(* windows, times, row counts and policies; and about the four parts of a  *)
(* decision in one model, as the runs check it.                            *)
(***************************************************************************)
EXTENDS MCDecision, EvidenceProofs, PermissionBoxProofs, SequenceTheorems, TLAPS

-----------------------------------------------------------------------------
(* The rows at the end of a screen.                                        *)

LEMMA LastRowsAre ==
  ASSUME NEW T, NEW rows \in Seq(T), NEW n \in Nat
  PROVE  \E first \in Nat \ {0} :
           /\ LastRows(rows, n) = SubSeq(rows, first, Len(rows))
           /\ first <= Len(rows) + 1 \/ first = 1
           /\ first = 1 \/ first = Len(rows) - n + 1
           /\ first >= Len(rows) - n + 1
  <1> DEFINE first == Max({1, Len(rows) - n + 1})
  <1>1. Len(rows) \in Nat /\ Len(rows) - n + 1 \in Int
    OBVIOUS
  <1>2. first \in {1, Len(rows) - n + 1} /\ first >= 1 /\ first >= Len(rows) - n + 1
    BY <1>1, MaxOfTwo
  <1>3. LastRows(rows, n) = SubSeq(rows, first, Len(rows))
    BY DEF LastRows
  <1> HIDE DEF first
  <1>4. /\ first \in Nat \ {0}
        /\ first <= Len(rows) + 1 \/ first = 1
        /\ first = 1 \/ first = Len(rows) - n + 1
        /\ first >= Len(rows) - n + 1
    BY <1>1, <1>2
  <1>5. QED
    BY <1>3, <1>4

-----------------------------------------------------------------------------
(* What the agent has printed.                                             *)

GateRows ==
  [shape : {"turn", "bullet", "text", "banner", "capacity"},
   says : SUBSET {"limit-session", "ready-press-enter", "self-healing", "usage-credits-offer",
                  "limit-usage", "try-again-at", "purchase-offer", "model-capacity"},
   resets : 0..GateTime]

(* The newest row is the one just printed, unless no row stays at all.      *)
LEMMA PrintedRows ==
  ASSUME MaxRows \in Nat, transcript \in Seq(GateRows), Len(transcript) <= MaxRows,
         NEW row \in GateRows
  PROVE  /\ Printed(row) \in Seq(GateRows) /\ Len(Printed(row)) <= MaxRows
         /\ Printed(row) # <<>> => Printed(row)[Len(Printed(row))] = row
  <1> DEFINE rows == Append(transcript, row)
  <1>1. rows \in Seq(GateRows) /\ Len(rows) = Len(transcript) + 1 /\ rows[Len(rows)] = row
    OBVIOUS
  <1>2. Printed(row) = LastRows(rows, MaxRows)
    BY DEF Printed
  <1> HIDE DEF rows
  <1>3. PICK first \in Nat \ {0} : /\ Printed(row) = SubSeq(rows, first, Len(rows))
                                   /\ first = 1 \/ first = Len(rows) - MaxRows + 1
                                   /\ first >= Len(rows) - MaxRows + 1
    BY <1>1, <1>2, LastRowsAre
  <1>4. Len(transcript) \in Nat /\ first \in 1..(Len(rows) + 1)
    BY <1>1, <1>3
  <1>5. /\ Printed(row) \in Seq(GateRows) /\ Len(Printed(row)) = Len(rows) - first + 1
        /\ \A i \in 1..(Len(rows) - first + 1) : Printed(row)[i] = rows[first + i - 1]
    BY <1>1, <1>3, <1>4, SubSeqProperties
  <1>6. QED
    BY <1>1, <1>3, <1>4, <1>5

(* A session of Codex has no menu, no offer to go on and no panel.          *)
CodexHasNoMenu ==
  provider = "codex" => prompt \in {"composer", "draft", "multiline", "permission"} /\ ~panel
ReadyIsOpen == AtOffer => Open

(* While a limit stands its banner is the newest row, and it prints the     *)
(* reset of the one window that is spent, if any.                           *)
Newest == transcript[Len(transcript)]
LimitStands ==
  (provider = "codex" /\ stopped /\ ~Open /\ transcript # <<>>) =>
    /\ Newest.shape = "banner" /\ "limit-usage" \in Newest.says
    /\ \A s \in Scopes : spent[s] > clock => Newest.resets \in {NoReset, spent[s]}

GateIInv == /\ GateTypeOK /\ transcript \in Seq(GateRows)
            /\ CodexHasNoMenu /\ ReadyIsOpen /\ LimitStands

LEMMA GateInitial == GateInit => GateIInv
  <1> SUFFICES ASSUME GateInit PROVE GateIInv
    OBVIOUS
  <1>1. transcript \in Seq(GateRows) /\ Len(transcript) = 0
    BY DEF GateInit
  <1>2. 0 \in 0..GateTime /\ -1 \in -1..GateTime /\ MaxSends \in Nat /\ MaxTrials \in Nat /\ MaxRows \in Nat
    BY GateAssumption
  <1>3. 0 \in 0..Max({MaxSends, MaxTrials})
    BY <1>2, MaxOfTwo
  <1>4. spent \in [Scopes -> 0..GateTime] /\ gauge.windows \in [Scopes -> 0..GateTime] /\ gauge.at = -1
    BY <1>2 DEF GateInit, Nothing, NoGauge
  <1>5. GateTypeOK
    <2>1. provider \in {"claude", "codex"} /\ prompt \in Prompted /\ Len(transcript) <= MaxRows
      BY <1>1, <1>2 DEF GateInit, Prompted
    <2>2. panel \in BOOLEAN /\ process \in {"selected", "another"}
      BY DEF GateInit
    <2>3. clock \in 0..GateTime /\ stopped \in BOOLEAN /\ gauge.at \in -1..GateTime
      BY <1>2, <1>4 DEF GateInit
    <2>4. gateMode \in {"observe", "ask", "auto"} /\ policy \in Policies /\ limitSeen \in BOOLEAN
      BY DEF GateInit
    <2>5. sends \in 0..Max({MaxSends, MaxTrials})
      BY <1>3 DEF GateInit
    <2>6. QED
      BY <1>4, <2>1, <2>2, <2>3, <2>4, <2>5 DEF GateTypeOK
  <1>6. QED
    BY <1>1, <1>5 DEF GateInit, GateIInv, CodexHasNoMenu, AtOffer, ReadyIsOpen, LimitStands

(* A step that leaves the screen and the limits alone.                      *)
LEMMA GateQuiet ==
  ASSUME GateIInv, GateTypeOK', UNCHANGED <<provider, transcript, stopped, spent>>, clock' >= clock,
         prompt' = prompt \/ ((AtOffer' => AtOffer) /\ CodexHasNoMenu'), panel' = panel \/ provider = "claude"
  PROVE  GateIInv'
  <1>1. /\ clock \in Nat /\ clock' \in Nat /\ \A s \in Scopes : spent[s] \in Nat
        /\ \A s \in Scopes : spent[s] > clock' => spent[s] > clock
    <2>1. GateTime \in Nat
      BY GateAssumption
    <2>2. clock \in Nat /\ spent \in [Scopes -> 0..GateTime]
      BY <2>1 DEF GateIInv, GateTypeOK
    <2>3. clock' \in Nat
      BY <2>1 DEF GateTypeOK
    <2>4. \A s \in Scopes : spent[s] \in Nat
      BY <2>1, <2>2
    <2>5. QED
      BY <2>2, <2>3, <2>4
  <1>2. Open => Open'
    BY <1>1 DEF Open
  <1>3. CodexHasNoMenu'
    BY DEF GateIInv, CodexHasNoMenu
  <1>4. ReadyIsOpen'
    BY <1>2 DEF GateIInv, AtOffer, ReadyIsOpen
  <1>5. LimitStands'
    BY <1>1, <1>2 DEF GateIInv, LimitStands, Newest
  <1>6. QED
    BY <1>3, <1>4, <1>5 DEF GateIInv

(* A step that prints a row while no limit stands.                          *)
LEMMA GatePrints ==
  ASSUME GateIInv, NEW row \in GateRows, transcript' = Printed(row), stopped' = FALSE \/ Open',
         UNCHANGED <<provider, panel, process, clock, gauge, gateMode, policy>>,
         spent' = spent, stopped' \in BOOLEAN, limitSeen' \in BOOLEAN,
         sends' \in 0..Max({MaxSends, MaxTrials}), prompt' = "composer"
  PROVE  GateIInv'
  <1>1. transcript' \in Seq(GateRows) /\ Len(transcript') <= MaxRows
    BY PrintedRows, GateAssumption DEF GateIInv, GateTypeOK
  <1>2. GateTypeOK'
    BY <1>1 DEF GateIInv, GateTypeOK, Prompted
  <1>3. CodexHasNoMenu' /\ ReadyIsOpen' /\ LimitStands'
    BY DEF GateIInv, CodexHasNoMenu, AtOffer, ReadyIsOpen, LimitStands
  <1>4. QED
    BY <1>1, <1>2, <1>3 DEF GateIInv

LEMMA GateHitsLimit == ASSUME GateIInv, NEW s \in Scopes, HitsLimit(s) PROVE GateIInv'
  <1>1. PICK reset \in (clock + 1)..GateTime :
          /\ spent' = [spent EXCEPT ![s] = reset]
          /\ \E row \in Banner(reset) : transcript' = Printed(row)
    BY DEF HitsLimit
  <1>2. PICK row \in Banner(reset) : transcript' = Printed(row)
    BY <1>1
  <1>3. clock \in Nat /\ reset \in 0..GateTime /\ reset \in Nat /\ GateTime \in Nat
    BY <1>1, GateAssumption DEF GateIInv, GateTypeOK
  <1>4. /\ row \in GateRows
        /\ provider # "claude" => /\ row.shape = "banner" /\ "limit-usage" \in row.says
                                  /\ row.resets \in {NoReset, reset}
    <2>1. CASE provider = "claude"
      BY <1>2, <1>3, <2>1 DEF Banner, Row, Resetting, GateRows
    <2>2. CASE provider # "claude"
      BY <1>2, <1>3, <2>2 DEF Banner, Row, Resetting, GateRows, NoReset
    <2>3. QED
      BY <2>1, <2>2
  <1>5. /\ transcript' \in Seq(GateRows) /\ Len(transcript') <= MaxRows
        /\ transcript' # <<>> => Newest' = row
    BY <1>2, <1>4, PrintedRows, GateAssumption DEF GateIInv, GateTypeOK, Newest
  <1>6. /\ UNCHANGED <<provider, panel, process, clock, gauge, gateMode, policy, limitSeen, sends>>
        /\ stopped' = TRUE /\ prompt' \in {"composer", "menu"}
        /\ provider # "claude" => prompt' = "composer"
    BY DEF HitsLimit, watcher
  <1>7. spent' \in [Scopes -> 0..GateTime]
    BY <1>1, <1>3 DEF GateIInv, GateTypeOK
  <1>8. GateTypeOK'
    BY <1>5, <1>6, <1>7 DEF GateIInv, GateTypeOK, Prompted
  <1>9. LimitStands'
    <2>1. \A other \in Scopes : spent[other] \in Nat /\ spent[other] <= clock
      BY <1>3 DEF HitsLimit, Open, GateIInv, GateTypeOK
    <2>2. \A other \in Scopes : spent'[other] > clock' => spent'[other] = reset
      BY <1>1, <1>3, <1>6, <2>1 DEF GateIInv, GateTypeOK
    <2>3. provider' = "codex" => provider # "claude"
      BY <1>6
    <2>4. QED
      BY <1>4, <1>5, <2>2, <2>3 DEF LimitStands, Newest
  <1>10. CodexHasNoMenu' /\ ReadyIsOpen'
    BY <1>6 DEF GateIInv, CodexHasNoMenu, AtOffer, ReadyIsOpen
  <1>11. QED
    BY <1>5, <1>8, <1>9, <1>10 DEF GateIInv

LEMMA TurnsAreRows ==
  /\ TurnRow({}) \in GateRows /\ Row("capacity", {"model-capacity"}) \in GateRows
  /\ \A says \in Quotes : TurnRow(says) \in GateRows
  BY GateAssumption DEF TurnRow, Quotes, Row, GateRows, NoReset

LEMMA GateSends == ASSUME GateIInv, Send PROVE GateIInv'
  <1>1. /\ UNCHANGED <<provider, panel, process, clock, spent, gauge, gateMode, policy>>
        /\ limitSeen' \in BOOLEAN
    BY DEF Send
  <1>2. sends' \in 0..Max({MaxSends, MaxTrials})
    <2>1. sends' = sends + 1 /\ WithinBudget(Reading)
      BY DEF Send, Allowed, Conditions
    <2>2. sends < MaxTrials \/ sends < MaxSends
      BY <2>1 DEF WithinBudget
    <2>3. MaxTrials \in Nat /\ MaxSends \in Nat /\ sends \in Nat
      BY GateAssumption, MaxOfTwo DEF GateIInv, GateTypeOK
    <2>4. Max({MaxSends, MaxTrials}) \in Nat /\ Max({MaxSends, MaxTrials}) >= MaxSends /\ Max({MaxSends, MaxTrials}) >= MaxTrials
      BY <2>3, MaxOfTwo
    <2>5. QED
      BY <2>1, <2>2, <2>3, <2>4
  <1>3. CASE prompt = "menu" /\ prompt' = "armed" /\ UNCHANGED <<transcript, stopped>>
    <2>1. provider # "codex"
      BY <1>3 DEF GateIInv, CodexHasNoMenu
    <2>2. GateTypeOK'
      BY <1>1, <1>2, <1>3 DEF GateIInv, GateTypeOK, Prompted
    <2>3. CodexHasNoMenu'
      BY <1>1, <2>1 DEF CodexHasNoMenu
    <2>4. clock' >= clock
      BY <1>1, GateAssumption DEF GateIInv, GateTypeOK
    <2>5. QED
      BY <1>1, <1>3, <2>2, <2>3, <2>4, GateQuiet DEF AtOffer
  <1>4. CASE prompt' = "composer" /\ stopped' = FALSE /\ transcript' = Printed(TurnRow({}))
    BY <1>1, <1>2, <1>4, TurnsAreRows, GatePrints
  <1>5. QED
    BY <1>3, <1>4 DEF Send

LEMMA GateReopens == ASSUME GateIInv, Reopens PROVE GateIInv'
  <1>1. /\ UNCHANGED <<provider, panel, process, clock, spent, gauge, gateMode, policy, limitSeen, sends>>
        /\ provider = "claude" /\ Open
    BY DEF Reopens, watcher
  <1>2. limitSeen' \in BOOLEAN /\ sends' \in 0..Max({MaxSends, MaxTrials})
    BY <1>1 DEF GateIInv, GateTypeOK
  <1>3. CASE prompt' = "ready" /\ UNCHANGED <<transcript, stopped>>
    <2>1. GateTypeOK'
      BY <1>1, <1>3 DEF GateIInv, GateTypeOK, Prompted
    <2>2. Open'
      BY <1>1 DEF Open
    <2>3. QED
      BY <1>1, <1>3, <2>1, <2>2 DEF GateIInv, CodexHasNoMenu, ReadyIsOpen, LimitStands
  <1>4. CASE prompt' = "composer" /\ stopped' = FALSE /\ transcript' = Printed(TurnRow({}))
    BY <1>1, <1>2, <1>4, TurnsAreRows, GatePrints
  <1>5. QED
    BY <1>3, <1>4 DEF Reopens

LEMMA GateWorks == ASSUME GateIInv, Works \/ HitsCapacity PROVE GateIInv'
  <1>1. /\ UNCHANGED <<provider, panel, process, clock, spent, gauge, gateMode, policy, limitSeen, sends>>
        /\ Open /\ prompt' = "composer" /\ stopped' \in BOOLEAN
    BY DEF Works, HitsCapacity, watcher
  <1>2. limitSeen' \in BOOLEAN /\ sends' \in 0..Max({MaxSends, MaxTrials})
    BY <1>1 DEF GateIInv, GateTypeOK
  <1>3. Open'
    BY <1>1 DEF Open
  <1>4. \E row \in GateRows : transcript' = Printed(row)
    BY TurnsAreRows DEF Works, HitsCapacity
  <1>5. QED
    BY <1>1, <1>2, <1>3, <1>4, GatePrints

LEMMA GateStep == ASSUME GateIInv, [GateNext]_gateVars PROVE GateIInv'
  <1>1. clock \in Nat /\ clock >= clock /\ clock + 1 >= clock
    BY GateAssumption DEF GateIInv, GateTypeOK
  <1>2. CASE Look
    <2>1. limitSeen' = TRUE /\ UNCHANGED <<tab, usage, gateMode, policy, sends>>
      BY <1>2 DEF Look
    <2>2. GateTypeOK'
      BY <2>1 DEF GateIInv, GateTypeOK, tab, usage
    <2>3. QED
      BY <1>1, <2>1, <2>2, GateQuiet DEF tab, usage
  <1>3. CASE Moves
    <2>1. UNCHANGED <<provider, transcript, panel, process, usage, watcher>>
      BY <1>3 DEF Moves
    <2>2. prompt' \in Prompted /\ (AtOffer' => AtOffer) /\ CodexHasNoMenu'
      BY <1>3, <2>1 DEF Moves, AtComposer, AtOffer, GateIInv, CodexHasNoMenu, Prompted
    <2>3. GateTypeOK'
      BY <2>1, <2>2 DEF GateIInv, GateTypeOK, usage, watcher
    <2>4. QED
      BY <1>1, <2>1, <2>2, <2>3, GateQuiet DEF usage
  <1>4. CASE TogglesPanel
    <2>1. UNCHANGED <<provider, transcript, prompt, process, usage, watcher>> /\ panel' = ~panel /\ provider = "claude"
      BY <1>4 DEF TogglesPanel
    <2>2. GateTypeOK'
      BY <2>1 DEF GateIInv, GateTypeOK, usage, watcher
    <2>3. QED
      BY <1>1, <2>1, <2>2, GateQuiet DEF usage
  <1>5. CASE Samples
    <2>1. PICK seen : gauge' = [at |-> clock, windows |-> [s \in Scopes |-> IF s \in seen THEN spent[s] ELSE 0]]
      BY <1>5 DEF Samples
    <2>2. UNCHANGED <<tab, clock, spent, stopped, watcher>>
      BY <1>5 DEF Samples
    <2>3. /\ gauge'.at \in -1..GateTime /\ gauge'.windows \in [Scopes -> 0..GateTime]
      <3>1. gauge'.at = clock /\ gauge'.windows = [s \in Scopes |-> IF s \in seen THEN spent[s] ELSE 0]
        BY <2>1
      <3>2. 0 \in 0..GateTime /\ clock \in 0..GateTime /\ \A s \in Scopes : spent[s] \in 0..GateTime
        BY GateAssumption DEF GateIInv, GateTypeOK
      <3>3. QED
        BY <3>1, <3>2
    <2>4. GateTypeOK'
      BY <2>2, <2>3 DEF GateIInv, GateTypeOK, tab, watcher
    <2>5. QED
      BY <1>1, <2>2, <2>4, GateQuiet DEF tab
  <1>6. CASE Ticks
    <2>1. clock < GateTime /\ clock' = clock + 1 /\ UNCHANGED <<tab, spent, stopped, gauge, watcher>>
      BY <1>6 DEF Ticks
    <2>2. clock' \in 0..GateTime
      BY <2>1, GateAssumption DEF GateIInv, GateTypeOK
    <2>3. GateTypeOK'
      BY <2>1, <2>2 DEF GateIInv, GateTypeOK, tab, watcher
    <2>4. QED
      BY <1>1, <2>1, <2>3, GateQuiet DEF tab
  <1>7. CASE IsReplaced
    <2>1. process' = "another" /\ UNCHANGED <<provider, transcript, prompt, panel, usage, watcher>>
      BY <1>7 DEF IsReplaced
    <2>2. GateTypeOK'
      BY <2>1 DEF GateIInv, GateTypeOK, usage, watcher
    <2>3. QED
      BY <1>1, <2>1, <2>2, GateQuiet DEF usage
  <1>8. CASE UNCHANGED gateVars
    <2>1. GateTypeOK'
      BY <1>8 DEF GateIInv, GateTypeOK, gateVars, tab, usage, watcher
    <2>2. QED
      BY <1>1, <1>8, <2>1, GateQuiet DEF gateVars, tab, usage
  <1>9. QED
    BY <1>2, <1>3, <1>4, <1>5, <1>6, <1>7, <1>8, GateSends, GateWorks, GateHitsLimit, GateReopens DEF GateNext

(* Every variable of the gate's world stays within its type.               *)
THEOREM GateInvariance == GateSpec => []GateIInv
  <1>1. GateIInv /\ [GateNext]_gateVars => GateIInv'
    BY GateStep
  <1>2. QED
    BY <1>1, GateInitial, PTL DEF GateSpec

-----------------------------------------------------------------------------
(* What the screen shows.                                                  *)

Shapes == {"turn", "bullet", "text", "banner", "capacity", "composer", "rule", "status-footer",
           "typed", "menu-cursor", "question", "item-cursor", "approval-footer", "blank",
           "main-on", "agent-off"}
Words == {"limit-session", "ready-press-enter", "self-healing", "usage-credits-offer",
          "limit-usage", "try-again-at", "purchase-offer", "model-capacity", "stop-and-wait",
          "wait-here", "upgrade-plan-offer", "enter-to-confirm", "question", "item-one", "footer"}
ScreenRows == [shape : Shapes, says : SUBSET Words, resets : 0..GateTime]

LEMMA FewRows ==
  ASSUME NEW T, NEW one \in T, NEW two \in T, NEW three \in T
  PROVE  /\ <<one>> \in Seq(T) /\ Len(<<one>>) = 1 /\ <<one>>[1] = one
         /\ <<one, two>> \in Seq(T) /\ Len(<<one, two>>) = 2
         /\ <<one, two>>[1] = one /\ <<one, two>>[2] = two
         /\ <<one, two, three>> \in Seq(T) /\ Len(<<one, two, three>>) = 3
         /\ <<one, two, three>>[1] = one /\ <<one, two, three>>[2] = two /\ <<one, two, three>>[3] = three
  OBVIOUS

(* What a row below the transcript never says, and what it says when.       *)
Fits(row, i) ==
  /\ row \in ScreenRows
  /\ row.says \cap {"limit-usage", "limit-banner", "model-capacity"} = {}
  /\ "ready-press-enter" \in row.says => prompt \in {"ready", "ready-lines"} \/ (prompt = "ready-draft" /\ i = 1)
  /\ "stop-and-wait" \in row.says => prompt = "menu" \/ (prompt = "moved" /\ i = 1)

LEMMA RowFits ==
  ASSUME NEW shape \in Shapes, NEW says \in SUBSET Words, NEW i,
         says \cap {"limit-usage", "limit-banner", "model-capacity"} = {},
         "ready-press-enter" \in says => prompt \in {"ready", "ready-lines"} \/ (prompt = "ready-draft" /\ i = 1),
         "stop-and-wait" \in says => prompt = "menu" \/ (prompt = "moved" /\ i = 1)
  PROVE  Fits(Row(shape, says), i) /\ Row(shape, says).shape = shape /\ Row(shape, says).says = says
  <1>1. Row(shape, says).shape = shape /\ Row(shape, says).says = says
    BY DEF Row
  <1>2. Row(shape, says) \in ScreenRows
    <2>1. 0 \in 0..GateTime
      BY GateAssumption
    <2>2. QED
      BY <2>1 DEF Row, NoReset, ScreenRows
  <1>3. QED
    BY <1>1, <1>2 DEF Fits

LEMMA BelowRows ==
  ASSUME GateIInv
  PROVE  /\ Below \in Seq(ScreenRows) /\ Len(Below) \in {1, 2, 3}
         /\ \A i \in 1..Len(Below) : Fits(Below[i], i)
         /\ prompt \in {"moved", "ready-draft"} => Len(Below) = 2 /\ Below[2].shape = "typed"
         /\ prompt = "draft" => Below[Len(Below)].shape = "typed"
         /\ prompt = "permission" =>
              /\ Len(Below) = 3 /\ Below[3].shape = "approval-footer"
              /\ "question" \in Below[1].says /\ "item-one" \in Below[2].says /\ "footer" \in Below[3].says
  <1>1. prompt \in Prompted
    BY DEF GateIInv, GateTypeOK
  <1>2. CASE prompt = "composer"
    <2>1. PICK one : one = Row("composer", {})
      OBVIOUS
    <2>2. PICK two : two = Row(IF provider = "claude" THEN "rule" ELSE "status-footer", {})
      OBVIOUS
    <2>4. Below = <<one, two>>
      BY <1>2, <2>1, <2>2 DEF Below
    <2>5. Fits(one, 1) /\ one.shape = "composer" /\ one.says = {}
      BY <1>2, <2>1, RowFits DEF Shapes, Words
    <2>6. Fits(two, 2) /\ two.shape = (IF provider = "claude" THEN "rule" ELSE "status-footer") /\ two.says = {}
      BY <1>2, <2>2, RowFits DEF Shapes, Words
    <2>8. one \in ScreenRows /\ two \in ScreenRows
      BY <2>5, <2>6 DEF Fits
    <2>9. /\ Below \in Seq(ScreenRows) /\ Len(Below) = 2
          /\ Below[1] = one /\ Below[2] = two
      BY <2>4, <2>8, FewRows
    <2>10. QED
      BY <1>2, <2>9, <2>5, <2>6
  <1>3. CASE prompt = "draft"
    <2>1. PICK one : one = Row("typed", {})
      OBVIOUS
    <2>4. Below = <<one>>
      BY <1>3, <2>1 DEF Below
    <2>5. Fits(one, 1) /\ one.shape = "typed" /\ one.says = {}
      BY <1>3, <2>1, RowFits DEF Shapes, Words
    <2>8. one \in ScreenRows
      BY <2>5 DEF Fits
    <2>9. /\ Below \in Seq(ScreenRows) /\ Len(Below) = 1
          /\ Below[1] = one
      BY <2>4, <2>8, FewRows
    <2>10. QED
      BY <1>3, <2>9, <2>5
  <1>4. CASE prompt = "multiline"
    <2>1. PICK one : one = Row("composer", {})
      OBVIOUS
    <2>2. PICK two : two = Row("text", {})
      OBVIOUS
    <2>4. Below = <<one, two>>
      BY <1>4, <2>1, <2>2 DEF Below
    <2>5. Fits(one, 1) /\ one.shape = "composer" /\ one.says = {}
      BY <1>4, <2>1, RowFits DEF Shapes, Words
    <2>6. Fits(two, 2) /\ two.shape = "text" /\ two.says = {}
      BY <1>4, <2>2, RowFits DEF Shapes, Words
    <2>8. one \in ScreenRows /\ two \in ScreenRows
      BY <2>5, <2>6 DEF Fits
    <2>9. /\ Below \in Seq(ScreenRows) /\ Len(Below) = 2
          /\ Below[1] = one /\ Below[2] = two
      BY <2>4, <2>8, FewRows
    <2>10. QED
      BY <1>4, <2>9, <2>5, <2>6
  <1>5. CASE prompt = "menu"
    <2>1. PICK one : one = Row("menu-cursor", {"stop-and-wait"})
      OBVIOUS
    <2>2. PICK two : two = Row("text", {"wait-here", "upgrade-plan-offer", "enter-to-confirm"})
      OBVIOUS
    <2>4. Below = <<one, two>>
      BY <1>5, <2>1, <2>2 DEF Below
    <2>5. Fits(one, 1) /\ one.shape = "menu-cursor" /\ one.says = {"stop-and-wait"}
      BY <1>5, <2>1, RowFits DEF Shapes, Words
    <2>6. Fits(two, 2) /\ two.shape = "text" /\ two.says = {"wait-here", "upgrade-plan-offer", "enter-to-confirm"}
      BY <1>5, <2>2, RowFits DEF Shapes, Words
    <2>8. one \in ScreenRows /\ two \in ScreenRows
      BY <2>5, <2>6 DEF Fits
    <2>9. /\ Below \in Seq(ScreenRows) /\ Len(Below) = 2
          /\ Below[1] = one /\ Below[2] = two
      BY <2>4, <2>8, FewRows
    <2>10. QED
      BY <1>5, <2>9, <2>5, <2>6
  <1>6. CASE prompt = "moved"
    <2>1. PICK one : one = Row("text", {"stop-and-wait"})
      OBVIOUS
    <2>2. PICK two : two = Row("typed", {"wait-here", "upgrade-plan-offer", "enter-to-confirm"})
      OBVIOUS
    <2>4. Below = <<one, two>>
      BY <1>6, <2>1, <2>2 DEF Below
    <2>5. Fits(one, 1) /\ one.shape = "text" /\ one.says = {"stop-and-wait"}
      BY <1>6, <2>1, RowFits DEF Shapes, Words
    <2>6. Fits(two, 2) /\ two.shape = "typed" /\ two.says = {"wait-here", "upgrade-plan-offer", "enter-to-confirm"}
      BY <1>6, <2>2, RowFits DEF Shapes, Words
    <2>8. one \in ScreenRows /\ two \in ScreenRows
      BY <2>5, <2>6 DEF Fits
    <2>9. /\ Below \in Seq(ScreenRows) /\ Len(Below) = 2
          /\ Below[1] = one /\ Below[2] = two
      BY <2>4, <2>8, FewRows
    <2>10. QED
      BY <1>6, <2>9, <2>5, <2>6
  <1>7. CASE prompt = "ready"
    <2>1. PICK one : one = Row("turn", {"ready-press-enter"})
      OBVIOUS
    <2>2. PICK two : two = Row("composer", {})
      OBVIOUS
    <2>4. Below = <<one, two>>
      BY <1>7, <2>1, <2>2 DEF Below
    <2>5. Fits(one, 1) /\ one.shape = "turn" /\ one.says = {"ready-press-enter"}
      BY <1>7, <2>1, RowFits DEF Shapes, Words
    <2>6. Fits(two, 2) /\ two.shape = "composer" /\ two.says = {}
      BY <1>7, <2>2, RowFits DEF Shapes, Words
    <2>8. one \in ScreenRows /\ two \in ScreenRows
      BY <2>5, <2>6 DEF Fits
    <2>9. /\ Below \in Seq(ScreenRows) /\ Len(Below) = 2
          /\ Below[1] = one /\ Below[2] = two
      BY <2>4, <2>8, FewRows
    <2>10. QED
      BY <1>7, <2>9, <2>5, <2>6
  <1>8. CASE prompt = "armed"
    <2>1. PICK one : one = Row("text", {"self-healing"})
      OBVIOUS
    <2>4. Below = <<one>>
      BY <1>8, <2>1 DEF Below
    <2>5. Fits(one, 1) /\ one.shape = "text" /\ one.says = {"self-healing"}
      BY <1>8, <2>1, RowFits DEF Shapes, Words
    <2>8. one \in ScreenRows
      BY <2>5 DEF Fits
    <2>9. /\ Below \in Seq(ScreenRows) /\ Len(Below) = 1
          /\ Below[1] = one
      BY <2>4, <2>8, FewRows
    <2>10. QED
      BY <1>8, <2>9, <2>5
  <1>9. CASE prompt = "permission"
    <2>1. PICK one : one = Row("question", {"question"})
      OBVIOUS
    <2>2. PICK two : two = Row("item-cursor", {"item-one"})
      OBVIOUS
    <2>3. PICK three : three = Row("approval-footer", {"footer"})
      OBVIOUS
    <2>4. Below = <<one, two, three>>
      BY <1>9, <2>1, <2>2, <2>3 DEF Below
    <2>5. Fits(one, 1) /\ one.shape = "question" /\ one.says = {"question"}
      BY <1>9, <2>1, RowFits DEF Shapes, Words
    <2>6. Fits(two, 2) /\ two.shape = "item-cursor" /\ two.says = {"item-one"}
      BY <1>9, <2>2, RowFits DEF Shapes, Words
    <2>7. Fits(three, 3) /\ three.shape = "approval-footer" /\ three.says = {"footer"}
      BY <1>9, <2>3, RowFits DEF Shapes, Words
    <2>8. one \in ScreenRows /\ two \in ScreenRows /\ three \in ScreenRows
      BY <2>5, <2>6, <2>7 DEF Fits
    <2>9. /\ Below \in Seq(ScreenRows) /\ Len(Below) = 3
          /\ Below[1] = one /\ Below[2] = two /\ Below[3] = three
      BY <2>4, <2>8, FewRows
    <2>10. QED
      BY <1>9, <2>9, <2>5, <2>6, <2>7
  <1>10. CASE prompt = "ready-draft"
    <2>1. PICK one : one = Row("turn", {"ready-press-enter"})
      OBVIOUS
    <2>2. PICK two : two = Row("typed", {})
      OBVIOUS
    <2>4. Below = <<one, two>>
      BY <1>10, <2>1, <2>2 DEF Below
    <2>5. Fits(one, 1) /\ one.shape = "turn" /\ one.says = {"ready-press-enter"}
      BY <1>10, <2>1, RowFits DEF Shapes, Words
    <2>6. Fits(two, 2) /\ two.shape = "typed" /\ two.says = {}
      BY <1>10, <2>2, RowFits DEF Shapes, Words
    <2>8. one \in ScreenRows /\ two \in ScreenRows
      BY <2>5, <2>6 DEF Fits
    <2>9. /\ Below \in Seq(ScreenRows) /\ Len(Below) = 2
          /\ Below[1] = one /\ Below[2] = two
      BY <2>4, <2>8, FewRows
    <2>10. QED
      BY <1>10, <2>9, <2>5, <2>6
  <1>11. CASE prompt = "ready-lines"
    <2>1. PICK one : one = Row("turn", {"ready-press-enter"})
      OBVIOUS
    <2>2. PICK two : two = Row("composer", {})
      OBVIOUS
    <2>3. PICK three : three = Row("text", {})
      OBVIOUS
    <2>4. Below = <<one, two, three>>
      BY <1>11, <2>1, <2>2, <2>3 DEF Below
    <2>5. Fits(one, 1) /\ one.shape = "turn" /\ one.says = {"ready-press-enter"}
      BY <1>11, <2>1, RowFits DEF Shapes, Words
    <2>6. Fits(two, 2) /\ two.shape = "composer" /\ two.says = {}
      BY <1>11, <2>2, RowFits DEF Shapes, Words
    <2>7. Fits(three, 3) /\ three.shape = "text" /\ three.says = {}
      BY <1>11, <2>3, RowFits DEF Shapes, Words
    <2>8. one \in ScreenRows /\ two \in ScreenRows /\ three \in ScreenRows
      BY <2>5, <2>6, <2>7 DEF Fits
    <2>9. /\ Below \in Seq(ScreenRows) /\ Len(Below) = 3
          /\ Below[1] = one /\ Below[2] = two /\ Below[3] = three
      BY <2>4, <2>8, FewRows
    <2>10. QED
      BY <1>11, <2>9, <2>5, <2>6, <2>7
  <1>12. QED
    BY <1>1, <1>2, <1>3, <1>4, <1>5, <1>6, <1>7, <1>8, <1>9, <1>10, <1>11 DEF Prompted

LEMMA ScreenIs ==
  ASSUME GateIInv
  PROVE  /\ Screen \in Seq(ScreenRows)
         /\ Len(Screen) = Len(transcript) + Len(Below) + Len(Panel)
         /\ \A j \in 1..Len(transcript) : Screen[j] = transcript[j]
         /\ \A i \in 1..Len(Below) : Screen[Len(transcript) + i] = Below[i]
         /\ \A i \in 1..Len(Panel) : Screen[Len(transcript) + Len(Below) + i].says = {}
         /\ provider = "codex" => Len(Panel) = 0
         /\ Len(Panel) \in Nat
  <1>1. transcript \in Seq(ScreenRows)
    <2>1. GateRows \subseteq ScreenRows
      BY DEF GateRows, ScreenRows, Shapes, Words
    <2>2. QED
      BY <2>1 DEF GateIInv
  <1>2. Panel \in Seq(ScreenRows) /\ Len(Panel) \in Nat /\ \A i \in 1..Len(Panel) : Panel[i].says = {}
    <2> DEFINE one == Row("blank", {})
               two == Row("main-on", {})
               three == Row("agent-off", {})
    <2>1. /\ one \in ScreenRows /\ two \in ScreenRows /\ three \in ScreenRows
          /\ one.says = {} /\ two.says = {} /\ three.says = {}
      BY GateAssumption DEF Row, NoReset, ScreenRows, Shapes, Words
    <2>2. Panel = <<one, two, three>> \/ Panel = <<>>
      BY DEF Panel
    <2> HIDE DEF one, two, three
    <2>3. CASE Panel = <<>>
      BY <2>3
    <2>4. CASE Panel = <<one, two, three>>
      BY <2>1, <2>4, FewRows
    <2>5. QED
      BY <2>2, <2>3, <2>4
  <1>3. provider = "codex" => Len(Panel) = 0
    BY DEF GateIInv, CodexHasNoMenu, Panel
  <1>4. Below \in Seq(ScreenRows) /\ Len(Below) \in {1, 2, 3}
    BY BelowRows
  <1> HIDE DEF Panel, Below
  <1>5. QED
    BY <1>1, <1>2, <1>3, <1>4 DEF Screen

LEMMA SaidOnScreen ==
  ASSUME GateIInv, NEW j \in 1..Len(Screen), NEW word \in Screen[j].says
  PROVE  \/ j \in 1..Len(transcript) /\ word \in transcript[j].says
         \/ /\ j - Len(transcript) \in 1..Len(Below) /\ word \in Below[j - Len(transcript)].says
  <1>1. Len(transcript) \in Nat /\ Len(Below) \in Nat /\ Len(Panel) \in Nat
    <2>1. transcript \in Seq(GateRows)
      BY DEF GateIInv
    <2>2. QED
      BY <2>1, ScreenIs, BelowRows
  <1>2. CASE j <= Len(transcript)
    BY <1>1, <1>2, ScreenIs
  <1>3. CASE j > Len(transcript) /\ j <= Len(transcript) + Len(Below)
    <2>1. j - Len(transcript) \in 1..Len(Below) /\ Len(transcript) + (j - Len(transcript)) = j
      BY <1>1, <1>3
    <2>2. QED
      BY <2>1, ScreenIs
  <1>4. CASE j > Len(transcript) + Len(Below)
    <2> DEFINE i == j - (Len(transcript) + Len(Below))
    <2>1. i \in 1..Len(Panel) /\ Len(transcript) + Len(Below) + i = j
      BY <1>1, <1>4, ScreenIs
    <2> HIDE DEF i
    <2>2. QED
      BY <2>1, ScreenIs
  <1>5. QED
    BY <1>1, <1>2, <1>3, <1>4

(* The end of a screen from some row on.                                    *)
LEMMA SuffixRows ==
  ASSUME NEW rows \in Seq(ScreenRows), NEW k \in 1..(Len(rows) + 1)
  PROVE  LET part == SubSeq(rows, k, Len(rows)) IN
         /\ part \in Seq(ScreenRows) /\ Len(part) = Len(rows) - k + 1
         /\ \A i \in 1..Len(part) : part[i] = rows[k + i - 1] /\ k + i - 1 \in 1..Len(rows)
  BY SubSeqProperties

LEMMA SuffixOfSuffix ==
  ASSUME NEW rows \in Seq(ScreenRows), NEW k \in 1..(Len(rows) + 1),
         NEW j \in 1..(Len(rows) - k + 2)
  PROVE  /\ k + j - 1 \in 1..(Len(rows) + 1)
         /\ SubSeq(SubSeq(rows, k, Len(rows)), j, Len(rows) - k + 1) = SubSeq(rows, k + j - 1, Len(rows))
  <1>0. PICK part : part = SubSeq(rows, k, Len(rows))
    OBVIOUS
  <1>1. part \in Seq(ScreenRows) /\ Len(part) = Len(rows) - k + 1 /\ Len(rows) \in Nat
    BY <1>0, SuffixRows
  <1>2. k + j - 1 \in 1..(Len(rows) + 1)
    BY <1>1
  <1>2a. j \in 1..(Len(part) + 1)
    BY <1>1
  <1> DEFINE one == SubSeq(part, j, Len(part))
             other == SubSeq(rows, k + j - 1, Len(rows))
  <1>3. /\ one \in Seq(ScreenRows) /\ Len(one) = Len(part) - j + 1
        /\ \A i \in 1..Len(one) : one[i] = part[j + i - 1] /\ j + i - 1 \in 1..Len(part)
    BY <1>1, <1>2a, SuffixRows
  <1>4. /\ other \in Seq(ScreenRows) /\ Len(other) = Len(rows) - (k + j - 1) + 1
        /\ \A i \in 1..Len(other) : other[i] = rows[(k + j - 1) + i - 1]
    BY <1>2, SuffixRows
  <1>5. \A i \in 1..Len(part) : part[i] = rows[k + i - 1]
    BY <1>0, <1>1, SuffixRows
  <1> HIDE DEF one, other
  <1>6. Len(one) = Len(other)
    BY <1>1, <1>3, <1>4
  <1>7. \A i \in 1..Len(one) : one[i] = other[i]
    <2> SUFFICES ASSUME NEW i \in 1..Len(one) PROVE one[i] = other[i]
      OBVIOUS
    <2>1. one[i] = part[j + i - 1] /\ j + i - 1 \in 1..Len(part)
      BY <1>3
    <2>2. part[j + i - 1] = rows[k + (j + i - 1) - 1]
      BY <1>5, <2>1
    <2>3. other[i] = rows[(k + j - 1) + i - 1]
      BY <1>4, <1>6
    <2>4. k + (j + i - 1) - 1 = (k + j - 1) + i - 1
      BY <1>1, <1>3
    <2>5. QED
      BY <2>1, <2>2, <2>3, <2>4
  <1>8. one = other
    BY <1>3, <1>4, <1>6, <1>7, SeqEqual
  <1>9. QED
    BY <1>0, <1>1, <1>2, <1>8 DEF one, other

-----------------------------------------------------------------------------
(* The pattern tables.                                                     *)

LEMMA PatternsOfCodex ==
  /\ \A p \in CodexPatterns :
       p.action # NoAction => /\ p.action.kind = "TEXT_THEN_ENTER"
                              /\ p.anchors \in {{"model-capacity"}, {"limit-usage"}, {"limit-banner"}}
  /\ Pattern("limit-usage", "LIMIT_BLOCKED", {"limit-usage"}, Continue("allow_codex_auto_resume")) \in CodexPatterns
  /\ Pattern("tool-approval", "APPROVAL_REQUESTED", {"question", "item-one", "footer"}, NoAction) \in CodexPatterns
  /\ \A p \in CodexPatterns : p.anchors # {}
  BY DEF CodexPatterns, CodexCapacity, CodexApproval, CodexLimits, CodexOffers, Plain, Pattern,
         Continue, NoAction

LEMMA PatternsOfClaude ==
  \A p \in ClaudePatterns :
    p.action # NoAction =>
      \/ p.action = PressEnter /\ p.kind = "READY_TO_RESUME" /\ p.anchors = {"ready-press-enter"}
      \/ p.action = ArmWait /\ p.anchors = {"stop-and-wait", "wait-here", "enter-to-confirm"}
  BY DEF ClaudePatterns, ClaudeLimits, ClaudeCaps, ClaudeMenu, ClaudeReady, ClaudeWaits,
         ClaudeApproval, ClaudeOffers, Plain, Pattern, NoAction

(* What is proposed, one of the matched patterns proposes.                  *)
LEMMA ProposedByOne ==
  ASSUME NEW matches, Proposed(matches) # NoAction
  PROVE  \E p \in matches : p.action = Proposed(matches)
  <1> DEFINE actions == {p.action : p \in {q \in matches : q.action # NoAction}}
  <1>1. Cardinality({x.kind : x \in actions}) = 1
    BY DEF Proposed
  <1>2. actions # {}
    <2>1. SUFFICES ASSUME actions = {} PROVE FALSE
      OBVIOUS
    <2>2. {x.kind : x \in actions} = {}
      BY <2>1
    <2>3. Cardinality({x.kind : x \in actions}) = 0
      BY <2>2, FS_EmptySet
    <2>4. QED
      BY <1>1, <2>3
  <1>3. Proposed(matches) = IF Continue("allow_codex_capacity_retry") \in actions
                              THEN Continue("allow_codex_capacity_retry")
                            ELSE CHOOSE x \in actions : TRUE
    BY <1>1 DEF Proposed
  <1>4. Proposed(matches) \in actions
    BY <1>2, <1>3
  <1>5. QED
    BY <1>4

LEMMA SaidInRows ==
  ASSUME NEW rows, NEW word
  PROVE  word \in Said(rows) <=> \E i \in DOMAIN rows : word \in rows[i].says
  BY DEF Said

LEMMA MatchedIs ==
  ASSUME NEW table, NEW rows, NEW p
  PROVE  p \in Matched(table, rows) <=>
           p \in table /\ \A word \in p.anchors : \E i \in DOMAIN rows : word \in rows[i].says
  <1>1. p \in Matched(table, rows) <=> p \in table /\ p.anchors \subseteq Said(rows)
    BY DEF Matched
  <1>2. QED
    BY <1>1, SaidInRows

-----------------------------------------------------------------------------
(* Codex.                                                                  *)

LEMMA NothingProposed ==
  ASSUME NEW r, ActionOf(r) # NoAction
  PROVE  r.inputReady /\ ActionOf(r) = r.action
  BY DEF ActionOf

LEMMA LastShapeIs ==
  ASSUME NEW rows \in Seq(ScreenRows), NEW shapes
  PROVE  /\ LastShape(rows, shapes) \in 0..Len(rows)
         /\ LastShape(rows, shapes) > 0 => rows[LastShape(rows, shapes)].shape \in shapes
         /\ \A i \in 1..Len(rows) : rows[i].shape \in shapes => i <= LastShape(rows, shapes)
  <1> DEFINE found == {0} \cup {i \in DOMAIN rows : rows[i].shape \in shapes}
  <1>1. found \subseteq 0..Len(rows) /\ found # {} /\ Len(rows) \in Nat
    OBVIOUS
  <1>2. Max(found) \in found /\ \A i \in found : i <= Max(found)
    BY <1>1, MaxIsLargest
  <1>3. LastShape(rows, shapes) = Max(found)
    BY DEF LastShape
  <1>4. QED
    BY <1>1, <1>2, <1>3

LEMMA FirstShapeIs ==
  ASSUME NEW rows \in Seq(ScreenRows), NEW shape
  PROVE  FirstShape(rows, shape) \in Nat
  <1> DEFINE found == {i \in DOMAIN rows : rows[i].shape = shape}
  <1>1. found \subseteq Nat
    OBVIOUS
  <1>2. CASE found # {}
    <2>1. PICK x \in found : \A y \in found : x <= y
      BY <1>1, <1>2, LeastMember
    <2>2. Min(found) \in found
      BY <2>1 DEF Min
    <2>3. QED
      BY <1>1, <1>2, <2>2 DEF FirstShape
  <1>3. QED
    BY <1>2 DEF FirstShape

LEMMA LiveRowsAre ==
  ASSUME NEW rows \in Seq(ScreenRows), NEW n \in Nat \ {0}
  PROVE  \E k \in 1..(Len(rows) + 1) :
           /\ LastRows(rows, n) = SubSeq(rows, k, Len(rows))
           /\ Len(rows) > 0 => k <= Len(rows)
  <1>1. PICK k \in Nat \ {0} : /\ LastRows(rows, n) = SubSeq(rows, k, Len(rows))
                               /\ k = 1 \/ k = Len(rows) - n + 1
    BY LastRowsAre
  <1>2. Len(rows) \in Nat
    OBVIOUS
  <1>3. k \in 1..(Len(rows) + 1) /\ (Len(rows) > 0 => k <= Len(rows))
    BY <1>1, <1>2
  <1>4. QED
    BY <1>1, <1>3

LEMMA ReadIs ==
  ASSUME NEW table, NEW rows, NEW n
  PROVE  /\ Read(table, rows, n).action = Proposed(Matched(table, LastRows(rows, n)))
         /\ Read(table, rows, n).ids = Ids(Matched(table, LastRows(rows, n)))
         /\ Read(table, rows, n).reset = DeriveReset(Matched(table, LastRows(rows, n)), LastRows(rows, n))
         /\ Read(table, rows, n).state = DeriveState(Matched(table, LastRows(rows, n)))
         /\ Read(table, rows, n).inputReady = TRUE
  BY DEF Read

LEMMA ReadCorrected ==
  ASSUME NEW table, NEW rows, NEW n
  PROVE  LET r == Read(table, rows, n)
         IN  /\ [r EXCEPT !.inputReady = FALSE].inputReady = FALSE
             /\ \A exact, capacity, ready, empty :
                  LET s == [r EXCEPT !.retryPrompt = exact, !.capacityPrompt = capacity,
                                     !.inputReady = ready, !.composerEmpty = empty]
                  IN  /\ s.action = r.action /\ s.ids = r.ids /\ s.reset = r.reset
                      /\ s.inputReady = ready /\ s.capacityPrompt = capacity
             /\ \A empty : LET s == [r EXCEPT !.composerEmpty = empty]
                           IN  s.action = r.action /\ s.state = r.state /\ s.inputReady = r.inputReady
  BY DEF Read

(* A key is proposed from what rows at the end of the screen say, and only  *)
(* when the last cursor row near the end is an empty composer and no        *)
(* permission is asked below it.                                            *)
LEMMA CodexKey ==
  ASSUME NEW rows \in Seq(ScreenRows), ActionOf(CodexReading(rows)) # NoAction
  PROVE  LET live == LastRows(rows, CodexLiveRows)
             composer == LastShape(live, {"composer", "typed"})
             r == CodexReading(rows)
         IN  /\ composer > 0 /\ live[composer].shape = "composer"
             /\ ~(/\ LastPrinted(rows) > 0 /\ rows[LastPrinted(rows)].shape = "approval-footer"
                  /\ "tool-approval" \in Ids(Matched(CodexPatterns, rows)))
             /\ "model-capacity" \in r.ids => r.ids = {"model-capacity"}
             /\ \E part : /\ \/ part = LastRows(rows, CodexLiveRows)
                             \/ \E bullet \in DOMAIN live :
                                  part = LastRows(SubSeq(live, bullet, Len(live)), CodexLiveRows)
                          /\ r.action = Proposed(Matched(CodexPatterns, part))
                          /\ r.ids = Ids(Matched(CodexPatterns, part))
                          /\ r.reset = DeriveReset(Matched(CodexPatterns, part), part)
  <1> DEFINE r == CodexReading(rows)
             live == LastRows(rows, CodexLiveRows)
             whole == Read(CodexPatterns, rows, CodexLiveRows)
             composer == LastShape(live, {"composer", "typed"})
             empty == composer > 0 /\ live[composer].shape = "composer"
             trailing == {i \in (composer + 1)..Len(live) : live[i].shape # "blank"}
             nothingBelow ==
               /\ empty /\ \A i \in trailing : live[i].shape \in CodexFooters
               /\ Cardinality({i \in trailing : live[i].shape = "status-footer"}) <= 1
             limitRow == FirstShape(live, "banner")
             capacityRow == FirstShape(live, "capacity")
             bullet == LastShape(live, {"bullet", "progress"})
             later == bullet > Max({limitRow, capacityRow})
             active == \/ later
                       \/ capacityRow = 0 /\ LastShape(live, {"progress"}) > 0
                       \/ capacityRow > 0 /\ bullet > capacityRow
             result == IF later
                         THEN Read(CodexPatterns, SubSeq(live, bullet, Len(live)), CodexLiveRows)
                         ELSE whole
             exact == /\ empty /\ ~later
                      /\ 0 < limitRow /\ limitRow < composer
                      /\ whole.reset # NoReset /\ {"limit-usage", "try-again-at"} \subseteq whole.ids
                      /\ \A i \in (limitRow + 1)..Len(live) : live[i].shape # "progress"
             capacity == /\ result.ids = {"model-capacity"} /\ ~active /\ nothingBelow
                         /\ trailing # {} /\ Cardinality(trailing) <= 2
                         /\ \A i \in trailing : live[i].shape \in CodexFooters \ {"footer"}
                         /\ 0 < capacityRow /\ capacityRow < composer
                         /\ \A i \in (capacityRow + 1)..(composer - 1) : live[i].shape = "blank"
                         /\ \A i \in 1..(capacityRow - 1) : live[i].shape # "choice"
             ready == empty /\ ("model-capacity" \in result.ids => capacity)
             overlay == LastPrinted(rows) > 0 /\ rows[LastPrinted(rows)].shape = "approval-footer"
             asked == overlay /\ "tool-approval" \in Ids(Matched(CodexPatterns, rows))
             dimmed == Read(CodexPatterns, rows, Len(rows))
  <1>1. r = IF asked THEN [dimmed EXCEPT !.inputReady = FALSE]
            ELSE [result EXCEPT !.retryPrompt = exact, !.capacityPrompt = capacity,
                                !.inputReady = ready, !.composerEmpty = nothingBelow]
    BY DEF CodexReading
  <1>2. r.inputReady
    BY NothingProposed
  <1>3. [dimmed EXCEPT !.inputReady = FALSE].inputReady = FALSE
    BY ReadCorrected
  <1>4. capacity => result.ids = {"model-capacity"}
    OBVIOUS
  <1>5. later => bullet \in DOMAIN live
    <2>1. PICK k \in 1..(Len(rows) + 1) : live = SubSeq(rows, k, Len(rows))
      BY LiveRowsAre, RowsAssumption
    <2>2. live \in Seq(ScreenRows)
      BY <2>1, SuffixRows
    <2>3. limitRow \in Nat /\ capacityRow \in Nat /\ bullet \in 0..Len(live) /\ Len(live) \in Nat
      BY <2>2, FirstShapeIs, LastShapeIs
    <2> HIDE DEF live, limitRow, capacityRow, bullet
    <2>4. Max({limitRow, capacityRow}) \in Nat
      <3>1. limitRow \in Int /\ capacityRow \in Int
        BY <2>3
      <3>2. Max({limitRow, capacityRow}) \in {limitRow, capacityRow}
        BY <3>1, MaxOfTwo
      <3>3. QED
        BY <2>3, <3>2
    <2>5. QED
      BY <2>2, <2>3, <2>4
  <1>6. \E part : /\ \/ part = LastRows(rows, CodexLiveRows)
                     \/ \E b \in DOMAIN live : part = LastRows(SubSeq(live, b, Len(live)), CodexLiveRows)
                  /\ result.action = Proposed(Matched(CodexPatterns, part))
                  /\ result.ids = Ids(Matched(CodexPatterns, part))
                  /\ result.reset = DeriveReset(Matched(CodexPatterns, part), part)
    <2>1. CASE later
      <3> DEFINE part == LastRows(SubSeq(live, bullet, Len(live)), CodexLiveRows)
      <3>1. result = Read(CodexPatterns, SubSeq(live, bullet, Len(live)), CodexLiveRows)
        BY <2>1
      <3>2. bullet \in DOMAIN live
        BY <1>5, <2>1
      <3> HIDE DEF result, live, later, bullet
      <3>3. /\ result.action = Proposed(Matched(CodexPatterns, part))
            /\ result.ids = Ids(Matched(CodexPatterns, part))
            /\ result.reset = DeriveReset(Matched(CodexPatterns, part), part)
        BY <3>1, ReadIs
      <3>4. \E b \in DOMAIN live : part = LastRows(SubSeq(live, b, Len(live)), CodexLiveRows)
        BY <3>2
      <3> HIDE DEF part
      <3>5. QED
        BY <3>3, <3>4
    <2>2. CASE ~later
      <3>1. result = Read(CodexPatterns, rows, CodexLiveRows)
        BY <2>2
      <3> DEFINE part == LastRows(rows, CodexLiveRows)
      <3> HIDE DEF result, live, later, bullet
      <3>2. /\ result.action = Proposed(Matched(CodexPatterns, part))
            /\ result.ids = Ids(Matched(CodexPatterns, part))
            /\ result.reset = DeriveReset(Matched(CodexPatterns, part), part)
        BY <3>1, ReadIs
      <3>3. part = LastRows(rows, CodexLiveRows)
        OBVIOUS
      <3> HIDE DEF part
      <3>4. QED
        BY <3>2, <3>3
    <2>3. QED
      BY <2>1, <2>2
  <1>7. \E part, n : result = Read(CodexPatterns, part, n)
    OBVIOUS
  <1>8. ready => empty /\ ("model-capacity" \in result.ids => capacity)
    OBVIOUS
  <1>9. empty => composer > 0 /\ live[composer].shape = "composer"
    OBVIOUS
  <1>10. asked <=> (overlay /\ "tool-approval" \in Ids(Matched(CodexPatterns, rows)))
    OBVIOUS
  <1> HIDE DEF live, whole, composer, empty, trailing, nothingBelow, limitRow, capacityRow, bullet, later,
               active, result, exact, capacity, ready, asked, dimmed
  <1>11. ~asked
    BY <1>1, <1>2, <1>3
  <1>12. PICK other, n : result = Read(CodexPatterns, other, n)
    BY <1>7
  <1>13. r.inputReady = ready /\ r.action = result.action /\ r.ids = result.ids /\ r.reset = result.reset
    BY <1>1, <1>11, <1>12, ReadCorrected
  <1>14. ready
    BY <1>2, <1>13
  <1>15. /\ composer > 0 /\ live[composer].shape = "composer"
         /\ "model-capacity" \in r.ids => r.ids = {"model-capacity"}
    BY <1>4, <1>8, <1>9, <1>13, <1>14
  <1>16. QED
    BY <1>6, <1>10, <1>11, <1>13, <1>15 DEF live, composer

(* What a session of Codex shows on the rows that count.                    *)
LEMMA CodexRows ==
  ASSUME GateIInv, provider = "codex", NEW k \in 1..(Len(Screen) + 1),
         NEW p \in Matched(CodexPatterns, SubSeq(Screen, k, Len(Screen))), p.action # NoAction
  PROVE  /\ k <= Len(transcript) /\ Len(transcript) \in Nat
         /\ p.action.kind = "TEXT_THEN_ENTER"
         /\ p.anchors \in {{"model-capacity"}, {"limit-usage"}}
  <1>1. /\ p.action.kind = "TEXT_THEN_ENTER"
        /\ p.anchors \in {{"model-capacity"}, {"limit-usage"}, {"limit-banner"}}
        /\ \A word \in p.anchors :
             \E i \in DOMAIN SubSeq(Screen, k, Len(Screen)) : word \in SubSeq(Screen, k, Len(Screen))[i].says
    BY PatternsOfCodex, MatchedIs
  <1>2. PICK word \in {"model-capacity", "limit-usage", "limit-banner"} : p.anchors = {word}
    BY <1>1
  <1>3. PICK i \in DOMAIN SubSeq(Screen, k, Len(Screen)) : word \in SubSeq(Screen, k, Len(Screen))[i].says
    BY <1>1, <1>2
  <1>4. Screen \in Seq(ScreenRows) /\ Len(Screen) \in Nat
    BY ScreenIs
  <1>5. i \in 1..Len(SubSeq(Screen, k, Len(Screen)))
    BY <1>3, <1>4, SuffixRows
  <1>6. k + i - 1 \in 1..Len(Screen) /\ word \in Screen[k + i - 1].says
    BY <1>3, <1>4, <1>5, SuffixRows
  <1>7. k + i - 1 \in 1..Len(transcript) /\ word \in transcript[k + i - 1].says
    BY <1>2, <1>6, SaidOnScreen, BelowRows DEF Fits
  <1>8. word # "limit-banner"
    <2>1. transcript[k + i - 1] \in GateRows
      BY <1>7 DEF GateIInv
    <2>2. QED
      BY <1>7, <2>1 DEF GateRows
  <1>9. i \in Nat \ {0} /\ Len(transcript) \in Nat
    BY <1>4, <1>5, SuffixRows DEF GateIInv
  <1>10. k <= Len(transcript)
    BY <1>7, <1>9
  <1>11. QED
    BY <1>1, <1>2, <1>8, <1>9, <1>10

LEMMA CodexPart ==
  ASSUME GateIInv, provider = "codex", ActionOf(Reading) # NoAction
  PROVE  /\ ActionOf(Reading).kind = "TEXT_THEN_ENTER"
         /\ "model-capacity" \in Reading.ids => Reading.ids = {"model-capacity"}
         /\ \E k \in 1..Len(transcript) :
              LET part == SubSeq(Screen, k, Len(Screen))
              IN  /\ Reading.ids = Ids(Matched(CodexPatterns, part))
                  /\ Reading.reset = DeriveReset(Matched(CodexPatterns, part), part)
                  /\ \E p \in Matched(CodexPatterns, part) : p.anchors \in {{"model-capacity"}, {"limit-usage"}}
  <1> DEFINE live == LastRows(Screen, CodexLiveRows)
  <1>1. Reading = CodexReading(Screen)
    BY DEF Reading, Recognise
  <1>2. Screen \in Seq(ScreenRows) /\ Len(Screen) \in Nat /\ CodexLiveRows \in Nat \ {0}
    BY ScreenIs, RowsAssumption
  <1>3. PICK part : /\ \/ part = live
                       \/ \E bullet \in DOMAIN live :
                            part = LastRows(SubSeq(live, bullet, Len(live)), CodexLiveRows)
                    /\ Reading.action = Proposed(Matched(CodexPatterns, part))
                    /\ Reading.ids = Ids(Matched(CodexPatterns, part))
                    /\ Reading.reset = DeriveReset(Matched(CodexPatterns, part), part)
    BY <1>1, <1>2, CodexKey
  <1>4. "model-capacity" \in Reading.ids => Reading.ids = {"model-capacity"}
    BY <1>1, <1>2, CodexKey
  <1>5. PICK first \in 1..(Len(Screen) + 1) : live = SubSeq(Screen, first, Len(Screen))
    BY <1>2, LiveRowsAre
  <1> HIDE DEF live
  <1>6. \E k \in 1..(Len(Screen) + 1) : part = SubSeq(Screen, k, Len(Screen))
    <2>1. CASE part = live
      BY <1>5, <2>1
    <2>2. ASSUME NEW bullet \in DOMAIN live,
                 part = LastRows(SubSeq(live, bullet, Len(live)), CodexLiveRows)
          PROVE  \E k \in 1..(Len(Screen) + 1) : part = SubSeq(Screen, k, Len(Screen))
      <3>1. live \in Seq(ScreenRows) /\ bullet \in 1..(Len(live) + 1)
        BY <1>2, <1>5, SuffixRows
      <3>2. PICK other : other = SubSeq(live, bullet, Len(live))
        OBVIOUS
      <3>3. other \in Seq(ScreenRows)
        BY <3>1, <3>2, SuffixRows
      <3>4. PICK j \in 1..(Len(other) + 1) : part = SubSeq(other, j, Len(other))
        BY <1>2, <2>2, <3>2, <3>3, LiveRowsAre
      <3>5. first + bullet - 1 \in 1..(Len(Screen) + 1) /\ other = SubSeq(Screen, first + bullet - 1, Len(Screen))
        <4>1. /\ first + bullet - 1 \in 1..(Len(Screen) + 1)
              /\ SubSeq(live, bullet, Len(live)) = SubSeq(Screen, first + bullet - 1, Len(Screen))
          <5>1. Len(live) = Len(Screen) - first + 1
            BY <1>2, <1>5, SuffixRows
          <5>2. bullet \in 1..(Len(Screen) - first + 2)
            BY <1>2, <3>1, <5>1
          <5>3. QED
            BY <1>2, <1>5, <5>1, <5>2, SuffixOfSuffix
        <4>2. QED
          BY <3>2, <4>1
      <3>6. PICK start \in 1..(Len(Screen) + 1) : start = first + bullet - 1
        BY <3>5
      <3>7. start + j - 1 \in 1..(Len(Screen) + 1) /\ part = SubSeq(Screen, start + j - 1, Len(Screen))
        <4>1. start \in 1..(Len(Screen) + 1) /\ other = SubSeq(Screen, start, Len(Screen))
          BY <3>5, <3>6
        <4>2. /\ start + j - 1 \in 1..(Len(Screen) + 1)
              /\ SubSeq(other, j, Len(other)) = SubSeq(Screen, start + j - 1, Len(Screen))
          <5>1. Len(other) = Len(Screen) - start + 1
            BY <1>2, <4>1, SuffixRows
          <5>2. j \in 1..(Len(Screen) - start + 2)
            BY <1>2, <3>4, <5>1
          <5>3. QED
            BY <1>2, <4>1, <5>1, <5>2, SuffixOfSuffix
        <4>3. QED
          BY <3>4, <4>2
      <3>8. QED
        BY <3>7
    <2>3. QED
      BY <1>3, <2>1, <2>2
  <1>7. PICK k \in 1..(Len(Screen) + 1) : part = SubSeq(Screen, k, Len(Screen))
    BY <1>6
  <1>8. ActionOf(Reading) = Reading.action
    BY NothingProposed
  <1>9. PICK p \in Matched(CodexPatterns, part) : p.action = ActionOf(Reading)
    BY <1>3, <1>8, ProposedByOne
  <1>10. /\ k <= Len(transcript) /\ Len(transcript) \in Nat /\ p.action.kind = "TEXT_THEN_ENTER"
         /\ p.anchors \in {{"model-capacity"}, {"limit-usage"}}
    BY <1>7, <1>9, CodexRows
  <1>11. k \in 1..Len(transcript)
    BY <1>10
  <1>12. QED
    BY <1>3, <1>4, <1>7, <1>9, <1>10, <1>11

(* Text reaches a composer.                                                 *)
LEMMA CodexRightKey ==
  ASSUME GateIInv, provider = "codex", ActionOf(Reading) # NoAction
  PROVE  prompt \in {"composer", "multiline"}
  <1> DEFINE live == LastRows(Screen, CodexLiveRows)
             composer == LastShape(live, {"composer", "typed"})
  <1>1. Reading = CodexReading(Screen)
    BY DEF Reading, Recognise
  <1>2. /\ Screen \in Seq(ScreenRows) /\ Len(Screen) \in Nat /\ CodexLiveRows \in Nat \ {0}
        /\ Len(Screen) = Len(transcript) + Len(Below) /\ Len(transcript) \in Nat
        /\ \A i \in 1..Len(Below) : Screen[Len(transcript) + i] = Below[i]
    <2>1. /\ Screen \in Seq(ScreenRows) /\ Len(Screen) = Len(transcript) + Len(Below)
          /\ \A i \in 1..Len(Below) : Screen[Len(transcript) + i] = Below[i]
      BY ScreenIs
    <2>2. Len(transcript) \in Nat /\ CodexLiveRows \in Nat \ {0}
      BY RowsAssumption DEF GateIInv
    <2>3. Len(Screen) \in Nat
      BY <2>1
    <2>4. QED
      BY <2>1, <2>2, <2>3
  <1>3. /\ composer > 0 /\ live[composer].shape = "composer"
        /\ ~(/\ LastPrinted(Screen) > 0 /\ Screen[LastPrinted(Screen)].shape = "approval-footer"
             /\ "tool-approval" \in Ids(Matched(CodexPatterns, Screen)))
    BY <1>1, <1>2, CodexKey
  <1>4. prompt # "draft"
    <2> SUFFICES ASSUME prompt = "draft" PROVE FALSE
      OBVIOUS
    <2>1. Screen[Len(Screen)].shape = "typed" /\ Len(Screen) > 0
      <3>1. Below[Len(Below)].shape = "typed" /\ Len(Below) \in {1, 2, 3}
        BY BelowRows
      <3>2. Len(Below) \in 1..Len(Below)
        BY <3>1
      <3>3. Screen[Len(transcript) + Len(Below)] = Below[Len(Below)]
        BY <1>2, <3>2
      <3>4. Len(transcript) + Len(Below) > 0
        BY <1>2, <3>1
      <3>5. QED
        BY <1>2, <3>1, <3>3, <3>4
    <2>2. PICK k \in 1..Len(Screen) : live = SubSeq(Screen, k, Len(Screen))
      <3>1. PICK k \in 1..(Len(Screen) + 1) : live = SubSeq(Screen, k, Len(Screen)) /\ k <= Len(Screen)
        BY <1>2, <2>1, LiveRowsAre
      <3>2. QED
        BY <1>2, <3>1
    <2> HIDE DEF live
    <2>3. /\ live \in Seq(ScreenRows) /\ Len(live) = Len(Screen) - k + 1
          /\ \A i \in 1..Len(live) : live[i] = Screen[k + i - 1]
      BY <1>2, <2>2, SuffixRows
    <2>4. Len(live) \in 1..Len(live) /\ k + Len(live) - 1 = Len(Screen) /\ Len(live) \in Nat
      BY <1>2, <2>3
    <2>5. live[Len(live)].shape = "typed"
      BY <2>1, <2>3, <2>4
    <2>6. composer <= Len(live) /\ Len(live) <= composer /\ composer \in Nat
      BY <2>3, <2>4, <2>5, LastShapeIs
    <2> HIDE DEF composer
    <2>7. composer = Len(live)
      BY <2>4, <2>6
    <2>8. QED
      BY <1>3, <2>5, <2>7
  <1>5. prompt # "permission"
    <2> SUFFICES ASSUME prompt = "permission" PROVE FALSE
      OBVIOUS
    <2> DEFINE found == {0} \cup {i \in DOMAIN Screen : Screen[i].shape # "blank"}
    <2>1. /\ Screen[Len(Screen)].shape = "approval-footer" /\ Len(Screen) > 0
          /\ "question" \in Screen[Len(transcript) + 1].says
          /\ "item-one" \in Screen[Len(transcript) + 2].says
          /\ "footer" \in Screen[Len(transcript) + 3].says
          /\ Len(transcript) + 1 \in 1..Len(Screen) /\ Len(transcript) + 2 \in 1..Len(Screen)
          /\ Len(transcript) + 3 \in 1..Len(Screen)
      <3>1. /\ Len(Below) = 3 /\ Below[3].shape = "approval-footer"
            /\ "question" \in Below[1].says /\ "item-one" \in Below[2].says /\ "footer" \in Below[3].says
        BY BelowRows
      <3>2. 1 \in 1..Len(Below) /\ 2 \in 1..Len(Below) /\ 3 \in 1..Len(Below)
        BY <3>1
      <3>3. /\ Screen[Len(transcript) + 1] = Below[1] /\ Screen[Len(transcript) + 2] = Below[2]
            /\ Screen[Len(transcript) + 3] = Below[3] /\ Len(Screen) = Len(transcript) + 3
        BY <1>2, <3>1, <3>2
      <3>4. QED
        BY <1>2, <3>1, <3>3
    <2>2. found \subseteq 0..Len(Screen) /\ Len(Screen) \in found
      BY <1>2, <2>1
    <2>3. Max(found) \in 0..Len(Screen) /\ Len(Screen) <= Max(found)
      BY <1>2, <2>2, MaxIsLargest
    <2>4. LastPrinted(Screen) = Max(found)
      BY DEF LastPrinted
    <2> HIDE DEF found
    <2>5. LastPrinted(Screen) = Len(Screen)
      BY <1>2, <2>3, <2>4
    <2>6. PICK p \in CodexPatterns : p.id = "tool-approval" /\ p.anchors = {"question", "item-one", "footer"}
      BY PatternsOfCodex DEF Pattern
    <2>7. DOMAIN Screen = 1..Len(Screen)
      BY <1>2
    <2>8. p \in Matched(CodexPatterns, Screen)
      BY <2>1, <2>6, <2>7, MatchedIs
    <2>9. "tool-approval" \in Ids(Matched(CodexPatterns, Screen))
      BY <2>6, <2>8 DEF Ids
    <2>10. QED
      BY <1>3, <2>1, <2>5, <2>9
  <1>6. QED
    BY <1>4, <1>5 DEF GateIInv, CodexHasNoMenu

(* While a limit stands, what is read of its banner is the reset it prints, *)
(* or a later one.                                                          *)
LEMMA ResetOfNewest ==
  ASSUME GateIInv, provider = "codex", stopped, ~Open, NEW k \in 1..Len(transcript),
         NEW part, part = SubSeq(Screen, k, Len(Screen))
  PROVE  /\ \E p \in Matched(CodexPatterns, part) : p.id = "limit-usage"
         /\ Newest.resets \in Nat
         /\ DeriveReset(Matched(CodexPatterns, part), part) \in Nat
         /\ DeriveReset(Matched(CodexPatterns, part), part) >= Newest.resets
  <1>1. /\ Screen \in Seq(ScreenRows) /\ Len(Screen) = Len(transcript) + Len(Below)
        /\ Len(transcript) \in Nat /\ Len(Below) \in Nat /\ k <= Len(Screen) /\ k \in Nat
        /\ \A j \in 1..Len(transcript) : Screen[j] = transcript[j]
    <2>1. Len(transcript) \in Nat /\ Len(Below) \in Nat
      BY BelowRows DEF GateIInv
    <2>2. QED
      BY <2>1, ScreenIs
  <1>2. /\ part \in Seq(ScreenRows) /\ Len(part) = Len(Screen) - k + 1 /\ DOMAIN part = 1..Len(part)
        /\ \A i \in 1..Len(part) : part[i] = Screen[k + i - 1] /\ k + i - 1 \in 1..Len(Screen)
    BY <1>1, SuffixRows
  <1> DEFINE n == Len(transcript) - k + 1
  <1>3. n \in 1..Len(part) /\ part[n] = Newest
    <2>1. n \in 1..Len(part) /\ k + n - 1 = Len(transcript) /\ Len(transcript) \in 1..Len(transcript)
      BY <1>1, <1>2
    <2>2. QED
      BY <1>1, <1>2, <2>1 DEF Newest
  <1>4. "limit-usage" \in Newest.says
    <2>1. transcript # <<>>
      BY <1>1
    <2>2. QED
      BY <2>1 DEF GateIInv, LimitStands
  <1>5. \A i \in 1..Len(part) : i > n => "limit-usage" \notin part[i].says
    <2> SUFFICES ASSUME NEW i \in 1..Len(part), i > n, "limit-usage" \in part[i].says PROVE FALSE
      OBVIOUS
    <2>1. k + i - 1 \in 1..Len(Screen) /\ "limit-usage" \in Screen[k + i - 1].says /\ k + i - 1 > Len(transcript)
      BY <1>1, <1>2
    <2>2. \/ k + i - 1 \in 1..Len(transcript)
          \/ /\ k + i - 1 - Len(transcript) \in 1..Len(Below)
             /\ "limit-usage" \in Below[k + i - 1 - Len(transcript)].says
      BY <2>1, SaidOnScreen
    <2>3. PICK x : x = k + i - 1
      OBVIOUS
    <2>4. x \notin 1..Len(transcript)
      <3>1. x > Len(transcript) /\ Len(transcript) \in Nat
        BY <1>1, <2>1, <2>3
      <3>2. QED
        BY <3>1
    <2>5. PICK y \in 1..Len(Below) : "limit-usage" \in Below[y].says
      BY <2>2, <2>3, <2>4
    <2>6. QED
      BY <2>5, BelowRows DEF Fits
  <1>6. PICK limit \in CodexPatterns :
          limit.id = "limit-usage" /\ limit.kind = "LIMIT_BLOCKED" /\ limit.anchors = {"limit-usage"}
    BY PatternsOfCodex DEF Pattern
  <1> HIDE DEF n
  <1>7. limit \in Matched(CodexPatterns, part)
    <2>1. n \in DOMAIN part /\ "limit-usage" \in part[n].says
      BY <1>2, <1>3, <1>4
    <2>2. \A word \in limit.anchors : \E i \in DOMAIN part : word \in part[i].says
      BY <1>6, <2>1
    <2>3. QED
      BY <1>6, <2>2, MatchedIs
  <1>8. Trigger(limit, part) = Newest
    <2> DEFINE said == {i \in DOMAIN part : part[i].says \cap limit.anchors # {}}
    <2>1. n \in said /\ \A i \in said : i <= n
      <3>1. \A i : i \in said <=> i \in 1..Len(part) /\ "limit-usage" \in part[i].says
        BY <1>2, <1>6
      <3>2. n \in said
        BY <1>3, <1>4, <3>1
      <3>3. ASSUME NEW i \in said PROVE i <= n
        <4>1. i \in 1..Len(part) /\ ~(i > n)
          BY <1>5, <3>1
        <4>2. QED
          BY <1>3, <4>1
      <3>4. QED
        BY <3>2, <3>3
    <2>2. said \subseteq 0..Len(part) /\ Len(part) \in Nat
      BY <1>1, <1>2
    <2>3. Max(said) \in said /\ n <= Max(said)
      BY <2>1, <2>2, MaxIsLargest
    <2> HIDE DEF said
    <2>4. Max(said) = n
      <3>1. Max(said) <= n /\ Max(said) \in 0..Len(part) /\ n \in 1..Len(part)
        BY <1>3, <2>1, <2>2, <2>3
      <3>2. QED
        BY <2>2, <2>3, <3>1
    <2>5. Trigger(limit, part) = part[Max(said)]
      BY DEF Trigger, said
    <2>6. QED
      BY <1>3, <2>4, <2>5
  <1> DEFINE dated == {p \in Matched(CodexPatterns, part) :
                         p.kind \in {"LIMIT_BLOCKED", "WILL_NOT_SELF_RESUME", "LIMIT_WARNING"}}
             resets == {NoReset} \cup {Trigger(p, part).resets : p \in dated}
  <1>9. \A p \in dated : Trigger(p, part).resets \in 0..GateTime
    <2> SUFFICES ASSUME NEW p \in Matched(CodexPatterns, part) PROVE Trigger(p, part).resets \in 0..GateTime
      OBVIOUS
    <2> DEFINE said == {i \in DOMAIN part : part[i].says \cap p.anchors # {}}
    <2>1. PICK word \in p.anchors : TRUE
      BY PatternsOfCodex, MatchedIs
    <2>2. said # {} /\ said \subseteq 0..Len(part) /\ Len(part) \in Nat
      <3>1. PICK i \in DOMAIN part : word \in part[i].says
        BY <2>1, MatchedIs
      <3>2. i \in said
        BY <2>1, <3>1
      <3>3. QED
        BY <1>1, <1>2, <3>2
    <2>3. Max(said) \in said
      BY <2>2, MaxIsLargest
    <2>4. Trigger(p, part) = part[Max(said)]
      BY DEF Trigger
    <2>5. part[Max(said)] \in ScreenRows
      <3>1. said \subseteq 1..Len(part)
        BY <1>2
      <3>2. Max(said) \in 1..Len(part)
        BY <2>3, <3>1
      <3> HIDE DEF said
      <3>3. QED
        BY <1>2, <3>2
    <2>6. QED
      BY <2>4, <2>5 DEF ScreenRows
  <1>10. GateTime \in Nat /\ 0 \in 0..GateTime
    BY GateAssumption
  <1>11. resets \subseteq 0..GateTime /\ resets # {} /\ Newest.resets \in resets
    BY <1>6, <1>7, <1>8, <1>9, <1>10 DEF NoReset
  <1>12. Max(resets) \in resets /\ Newest.resets <= Max(resets)
    BY <1>10, <1>11, MaxIsLargest
  <1>13. DeriveReset(Matched(CodexPatterns, part), part) = Max(resets)
    BY DEF DeriveReset
  <1> HIDE DEF resets, dated
  <1>14. Newest.resets \in 0..GateTime /\ Max(resets) \in 0..GateTime
    BY <1>11, <1>12
  <1>15. QED
    BY <1>6, <1>7, <1>10, <1>12, <1>13, <1>14

LEMMA CodexNotEarly ==
  ASSUME GateIInv, provider = "codex", stopped, ~Open, Allowed(Reading)
  PROVE  PrintsNoReset
  <1>1. ActionOf(Reading) # NoAction /\ Authorization(Reading) # "NONE"
    BY DEF Allowed, Conditions, Recognised
  <1>2. ActionOf(Reading).kind = "TEXT_THEN_ENTER"
    BY <1>1, CodexPart
  <1>3. PICK k \in 1..Len(transcript) :
          Reading.reset = DeriveReset(Matched(CodexPatterns, SubSeq(Screen, k, Len(Screen))), SubSeq(Screen, k, Len(Screen)))
    BY <1>1, CodexPart
  <1>4. Reading.reset \in Nat /\ Newest.resets \in Nat /\ Reading.reset >= Newest.resets
    BY <1>3, ResetOfNewest
  <1>5. transcript # <<>>
    BY <1>3 DEF GateIInv
  <1>6. PICK s \in Scopes : ~(spent[s] <= clock)
    BY DEF Open
  <1>7. spent[s] \in Nat /\ clock \in Nat /\ FirstRetry \in Nat /\ Grace \in Nat
    BY <1>6, GateAssumption DEF GateIInv, GateTypeOK
  <1>8. Newest.resets \in {NoReset, spent[s]}
    BY <1>5, <1>6, <1>7 DEF GateIInv, LimitStands
  <1>9. CASE Newest.resets = spent[s]
    <2>1. Reading.reset # NoReset /\ clock < Reading.reset + FirstRetry /\ clock < Reading.reset + Grace
      BY <1>4, <1>6, <1>7, <1>9 DEF NoReset
    <2>2. BeforePrintedReset(Reading)
      BY <2>1 DEF BeforePrintedReset
    <2>3. Authorization(Reading) = "NONE"
      BY <1>2, <2>2 DEF Authorization
    <2>4. QED
      BY <1>1, <2>3
  <1>10. CASE Newest.resets = NoReset
    BY <1>5, <1>10 DEF PrintsNoReset, Newest
  <1>11. QED
    BY <1>8, <1>9, <1>10

-----------------------------------------------------------------------------
(* Claude.                                                                 *)

LEMMA ClaudeKey ==
  ASSUME NEW rows, ActionOf(ClaudeReading(rows)) # NoAction
  PROVE  LET live == LastRows(WithoutOldLinks(LatestTurn(rows)), LiveRows)
         IN  /\ ActionOf(ClaudeReading(rows)) = Proposed(Matched(ClaudePatterns, live))
             /\ ClaudeReading(rows).state = DeriveState(Matched(ClaudePatterns, live))
  <1> DEFINE whole == RecogniseTurn(rows)
             bare == RecogniseTurn(WithoutAgentPanel(rows))
             standsDown == /\ bare.action = NoAction
                           /\ \E p \in ClaudeWaits : p.kind = "SELF_HEALING" /\ p.id \in bare.ids
             empty == ComposerEmpty(rows)
             r == ClaudeReading(rows)
  <1>1. r = [(IF standsDown THEN bare ELSE whole) EXCEPT !.composerEmpty = empty]
    BY DEF ClaudeReading
  <1>2. \A part : LET read == RecogniseTurn(part)
                  IN  /\ [read EXCEPT !.composerEmpty = empty].action = read.action
                      /\ [read EXCEPT !.composerEmpty = empty].state = read.state
    BY ReadCorrected DEF RecogniseTurn
  <1>3. r.action # NoAction /\ ActionOf(r) = r.action
    BY NothingProposed
  <1> HIDE DEF empty, r
  <1>4. ~standsDown
    <2> SUFFICES ASSUME standsDown PROVE FALSE
      OBVIOUS
    <2>1. r = [bare EXCEPT !.composerEmpty = empty] /\ bare.action = NoAction
      BY <1>1
    <2>2. r.action = bare.action
      BY <1>2, <2>1
    <2>3. QED
      BY <1>3, <2>1, <2>2
  <1>5. r = [whole EXCEPT !.composerEmpty = empty]
    BY <1>1, <1>4
  <1>6. r.action = whole.action /\ r.state = whole.state
    BY <1>2, <1>5
  <1>7. QED
    BY <1>3, <1>6, ReadIs DEF RecogniseTurn, r

(* What is read of the latest turn stands on the screen below every row     *)
(* that starts a turn.                                                      *)
LEMMA ClaudeRows ==
  ASSUME NEW rows \in Seq(ScreenRows), NEW live, live = LastRows(WithoutOldLinks(LatestTurn(rows)), LiveRows),
         NEW i \in DOMAIN live, NEW word \in live[i].says
  PROVE  \E j \in 1..Len(rows) : word \in rows[j].says /\ \A start \in TurnStarts(rows) : start <= j
  <1> DEFINE starts == {1} \cup TurnStarts(rows)
  <1>1. Len(rows) \in Nat /\ DOMAIN rows = 1..Len(rows)
    OBVIOUS
  <1>2. TurnStarts(rows) \subseteq 1..Len(rows)
    BY <1>1 DEF TurnStarts
  <1>3. starts \subseteq 0..(Len(rows) + 1) /\ starts # {} /\ Len(rows) + 1 \in Nat
    BY <1>1, <1>2
  <1>4. PICK m : m = Max(starts)
    OBVIOUS
  <1>5. m \in starts /\ \A start \in starts : start <= m
    BY <1>3, <1>4, MaxIsLargest
  <1>6. m \in 1..(Len(rows) + 1) /\ \A start \in TurnStarts(rows) : start <= m
    BY <1>1, <1>2, <1>5
  <1>7. PICK turn : turn = SubSeq(rows, m, Len(rows))
    OBVIOUS
  <1>8. LatestTurn(rows) = turn
    BY <1>4, <1>7 DEF LatestTurn
  <1> HIDE DEF starts
  <1>9. /\ turn \in Seq(ScreenRows) /\ Len(turn) \in Nat /\ DOMAIN turn = 1..Len(turn)
        /\ \A x \in 1..Len(turn) : turn[x] = rows[m + x - 1] /\ m + x - 1 \in 1..Len(rows)
    BY <1>6, <1>7, SuffixRows
  <1>10. PICK cleared : cleared = WithoutOldLinks(turn)
    OBVIOUS
  <1>11. PICK limit : cleared = [x \in DOMAIN turn |->
                        IF x < limit THEN [turn[x] EXCEPT !.says = @ \ {"usage-credits-offer"}] ELSE turn[x]]
    BY <1>10 DEF WithoutOldLinks
  <1>12. \A x \in 1..Len(turn) : cleared[x] \in ScreenRows /\ cleared[x].says \subseteq turn[x].says
    <2> SUFFICES ASSUME NEW x \in 1..Len(turn)
                 PROVE  cleared[x] \in ScreenRows /\ cleared[x].says \subseteq turn[x].says
      OBVIOUS
    <2>1. turn[x] \in ScreenRows
      BY <1>9
    <2>2. cleared[x] = turn[x] \/ cleared[x] = [turn[x] EXCEPT !.says = @ \ {"usage-credits-offer"}]
      BY <1>9, <1>11
    <2>3. QED
      BY <2>1, <2>2 DEF ScreenRows
  <1>13. cleared \in Seq(ScreenRows) /\ Len(cleared) = Len(turn)
    <2>1. cleared \in [1..Len(turn) -> ScreenRows]
      BY <1>9, <1>11, <1>12
    <2>2. QED
      BY <1>9, <2>1
  <1>14. live = LastRows(cleared, LiveRows)
    BY <1>8, <1>10
  <1>15. PICK k \in 1..(Len(cleared) + 1) : live = SubSeq(cleared, k, Len(cleared))
    BY <1>13, <1>14, LiveRowsAre, RowsAssumption
  <1>16. i \in 1..Len(live) /\ Len(live) = Len(cleared) - k + 1 /\ live[i] = cleared[k + i - 1]
    BY <1>13, <1>15, SuffixRows
  <1>17. k + i - 1 \in 1..Len(turn) /\ k \in Nat /\ i \in Nat
    BY <1>9, <1>13, <1>15, <1>16
  <1>18. PICK x \in 1..Len(turn) : x = k + i - 1
    BY <1>17
  <1>19. word \in turn[x].says
    BY <1>12, <1>16, <1>18
  <1>20. m + x - 1 \in 1..Len(rows) /\ word \in rows[m + x - 1].says /\ m + x - 1 >= m
    BY <1>6, <1>9, <1>18, <1>19
  <1>21. \A start \in TurnStarts(rows) : start <= m + x - 1
    BY <1>1, <1>2, <1>6, <1>20
  <1>22. QED
    BY <1>20, <1>21
(* A claude session proposes what one pattern proposes, and all that the    *)
(* pattern looks for stands in the latest turn.                             *)
LEMMA ReadyIsFirst ==
  ASSUME NEW matches, NEW p \in matches, p.kind = "READY_TO_RESUME"
  PROVE  DeriveState(matches) = "READY_TO_RESUME"
  <1> DEFINE hits == {i \in DOMAIN Precedence : \E q \in matches : q.kind = Precedence[i].kind}
  <1>1. /\ DOMAIN Precedence = 1..9 /\ Precedence[1].kind = "READY_TO_RESUME"
        /\ Precedence[1].state = "READY_TO_RESUME"
    BY DEF Precedence
  <1>2. hits \subseteq 1..9 /\ 1 \in hits
    BY <1>1
  <1>3. DeriveState(matches) = IF hits = {} THEN "ACTIVE" ELSE Precedence[Min(hits)].state
    BY DEF DeriveState
  <1> HIDE DEF hits
  <1>4. \A y \in hits : 1 <= y
    BY <1>2
  <1>5. Min(hits) \in hits /\ \A y \in hits : Min(hits) <= y
    BY <1>2, <1>4 DEF Min
  <1>6. Min(hits) = 1
    <2>1. Min(hits) \in 1..9 /\ Min(hits) <= 1
      BY <1>2, <1>5
    <2>2. QED
      BY <2>1
  <1>7. QED
    BY <1>1, <1>2, <1>3, <1>6

LEMMA ClaudePart ==
  ASSUME GateIInv, provider = "claude", ActionOf(Reading) # NoAction
  PROVE  \E p \in ClaudePatterns :
           /\ p.action = ActionOf(Reading)
           /\ p.kind = "READY_TO_RESUME" => Reading.state = "READY_TO_RESUME"
           /\ \A word \in p.anchors : \E j \in 1..Len(Screen) :
                word \in Screen[j].says /\ \A start \in TurnStarts(Screen) : start <= j
  <1>1. PICK live : live = LastRows(WithoutOldLinks(LatestTurn(Screen)), LiveRows)
    OBVIOUS
  <1>2. Reading = ClaudeReading(Screen)
    BY DEF Reading, Recognise
  <1>3. /\ ActionOf(Reading) = Proposed(Matched(ClaudePatterns, live))
        /\ Reading.state = DeriveState(Matched(ClaudePatterns, live))
    BY <1>1, <1>2, ClaudeKey
  <1>4. PICK p \in Matched(ClaudePatterns, live) : p.action = ActionOf(Reading)
    BY <1>3, ProposedByOne
  <1>5. p \in ClaudePatterns /\ \A word \in p.anchors : \E i \in DOMAIN live : word \in live[i].says
    BY MatchedIs
  <1>6. p.kind = "READY_TO_RESUME" => Reading.state = "READY_TO_RESUME"
    BY <1>3, ReadyIsFirst
  <1>7. ASSUME NEW word \in p.anchors
        PROVE  \E j \in 1..Len(Screen) :
                 word \in Screen[j].says /\ \A start \in TurnStarts(Screen) : start <= j
    <2>1. PICK i \in DOMAIN live : word \in live[i].says
      BY <1>5
    <2>2. Screen \in Seq(ScreenRows)
      BY ScreenIs
    <2>3. QED
      BY <1>1, <2>1, <2>2, ClaudeRows
  <1>8. QED
    BY <1>4, <1>5, <1>6, <1>7

(* Enter answers the offer, unless the agent quotes it; arrow-down the menu *)
(* with its cursor where Claude put it.                                     *)
LEMMA ClaudeRightKey ==
  ASSUME GateIInv, provider = "claude", Allowed(Reading)
  PROVE  \/ ActionOf(Reading) = PressEnter /\ (prompt \in {"ready", "ready-lines"} \/ QuotedAlone)
         \/ ActionOf(Reading) = ArmWait /\ prompt = "menu"
  <1>1. ActionOf(Reading) # NoAction /\ (Reading.state = "READY_TO_RESUME" => limitSeen)
    BY DEF Allowed, Conditions, Recognised, ReadyFollowsLimit
  <1>2. PICK p \in ClaudePatterns :
           /\ p.action = ActionOf(Reading)
           /\ p.kind = "READY_TO_RESUME" => Reading.state = "READY_TO_RESUME"
           /\ \A word \in p.anchors : \E j \in 1..Len(Screen) :
                word \in Screen[j].says /\ \A start \in TurnStarts(Screen) : start <= j
    BY <1>1, ClaudePart
  <1>3. \A j \in 1..Len(Screen), word \in {"ready-press-enter", "stop-and-wait"} :
          word \in Screen[j].says =>
            \/ j \in 1..Len(transcript) /\ word \in transcript[j].says
            \/ j - Len(transcript) \in 1..Len(Below) /\ word \in Below[j - Len(transcript)].says
    BY SaidOnScreen
  <1>4. Len(transcript) \in Nat /\ Len(Below) \in Nat /\ DOMAIN transcript = 1..Len(transcript)
    BY BelowRows DEF GateIInv
  \* what is typed in the second row below starts a turn after the first
  <1>8. ASSUME prompt \in {"moved", "ready-draft"}, NEW j \in 1..Len(Screen), j - Len(transcript) = 1,
               \A start \in TurnStarts(Screen) : start <= j
        PROVE  FALSE
    <2>1. Len(Below) = 2 /\ Below[2].shape = "typed"
      BY <1>8, BelowRows
    <2>2. 2 \in 1..Len(Below)
      BY <2>1
    <2>3. Screen[Len(transcript) + 2] = Below[2]
      BY <2>2, ScreenIs
    <2>4. Len(Screen) \in Nat /\ Len(transcript) + 2 \in 1..Len(Screen) /\ DOMAIN Screen = 1..Len(Screen)
      BY <1>4, <2>1, ScreenIs
    <2>5. Len(transcript) + 2 \in TurnStarts(Screen)
      BY <2>1, <2>3, <2>4 DEF TurnStarts
    <2>6. Len(transcript) + 2 <= j /\ j = Len(transcript) + 1 /\ j \in Nat
      BY <1>4, <1>8, <2>4, <2>5
    <2>7. QED
      BY <1>4, <2>6
  <1>5. CASE p.action = PressEnter /\ p.kind = "READY_TO_RESUME" /\ p.anchors = {"ready-press-enter"}
    <2>1. limitSeen
      BY <1>1, <1>2, <1>5
    <2>2. PICK j \in 1..Len(Screen) :
            "ready-press-enter" \in Screen[j].says /\ \A start \in TurnStarts(Screen) : start <= j
      BY <1>2, <1>5
    <2>3. CASE j \in 1..Len(transcript) /\ "ready-press-enter" \in transcript[j].says
      BY <1>2, <1>4, <1>5, <2>1, <2>3 DEF QuotedAlone
    <2>4. CASE /\ j - Len(transcript) \in 1..Len(Below)
               /\ "ready-press-enter" \in Below[j - Len(transcript)].says
      <3>1. PICK i : i = j - Len(transcript)
        OBVIOUS
      <3>2. i \in 1..Len(Below) /\ "ready-press-enter" \in Below[i].says
        BY <2>4, <3>1
      <3>3. prompt \in {"ready", "ready-lines"} \/ (prompt = "ready-draft" /\ i = 1)
        BY <3>2, BelowRows DEF Fits
      <3>4. ~(prompt = "ready-draft" /\ i = 1)
        BY <1>8, <2>2, <3>1
      <3>5. QED
        BY <1>2, <1>5, <3>3, <3>4
    <2>5. QED
      BY <1>3, <2>2, <2>3, <2>4
  <1>6. CASE p.action = ArmWait /\ p.anchors = {"stop-and-wait", "wait-here", "enter-to-confirm"}
    <2>1. PICK j \in 1..Len(Screen) :
            "stop-and-wait" \in Screen[j].says /\ \A start \in TurnStarts(Screen) : start <= j
      BY <1>2, <1>6
    <2>2. ~(j \in 1..Len(transcript) /\ "stop-and-wait" \in transcript[j].says)
      <3>1. j \in 1..Len(transcript) => transcript[j] \in GateRows
        BY DEF GateIInv
      <3>2. QED
        BY <3>1 DEF GateRows
    <2>3. PICK i : i = j - Len(transcript)
      OBVIOUS
    <2>4. i \in 1..Len(Below) /\ "stop-and-wait" \in Below[i].says
      BY <1>3, <2>1, <2>2, <2>3
    <2>5. prompt = "menu" \/ (prompt = "moved" /\ i = 1)
      BY <2>4, BelowRows DEF Fits
    <2>6. ~(prompt = "moved" /\ i = 1)
      BY <1>8, <2>1, <2>3
    <2>7. QED
      BY <1>2, <1>6, <2>5, <2>6
  <1>7. QED
    BY <1>1, <1>2, <1>5, <1>6, PatternsOfClaude

(* A key reaches what it was meant for: the inductive invariant says what   *)
(* the screen shows, and the lemmas what is read of it.                     *)
LEMMA GateRightKey == GateIInv => RightKey
  <1> SUFFICES ASSUME GateIInv, Allowed(Reading)
               PROVE  /\ process = "selected"
                      /\ CASE ActionOf(Reading).kind = "ENTER" -> prompt \in {"ready", "ready-lines"} \/ QuotedAlone
                           [] ActionOf(Reading).kind = "ARROW_DOWN_THEN_ENTER" -> prompt = "menu"
                           [] ActionOf(Reading).kind = "TEXT_THEN_ENTER" -> prompt \in {"composer", "multiline"}
    BY DEF RightKey
  <1>1. process = "selected" /\ ActionOf(Reading) # NoAction
    BY DEF Allowed, Conditions, RightProcess, Recognised
  <1>2. CASE provider = "claude"
    <2>1. \/ ActionOf(Reading).kind = "ENTER" /\ (prompt \in {"ready", "ready-lines"} \/ QuotedAlone)
          \/ ActionOf(Reading).kind = "ARROW_DOWN_THEN_ENTER" /\ prompt = "menu"
      BY <1>2, ClaudeRightKey DEF PressEnter, ArmWait
    <2>2. QED
      BY <1>1, <2>1
  <1>3. CASE provider = "codex"
    <2>1. ActionOf(Reading).kind = "TEXT_THEN_ENTER" /\ prompt \in {"composer", "multiline"}
      BY <1>1, <1>3, CodexPart, CodexRightKey
    <2>2. QED
      BY <1>1, <2>1
  <1>4. QED
    BY <1>2, <1>3 DEF GateIInv, GateTypeOK

(* RightKey, for all row counts, windows, clocks, budgets and policies.     *)
THEOREM GateReachesItsPrompt == GateSpec => []RightKey
  BY GateInvariance, GateRightKey, PTL

(* Nothing claims that usage is back while the limit stands: of Claude only *)
(* the offer that its open window prints claims it, and of Codex no key     *)
(* goes out before the latest reset that its banners print.                 *)
LEMMA GateNotEarly == GateIInv => NotEarly
  <1> SUFFICES ASSUME GateIInv, stopped, ~Open, Unattended(Reading), ActionOf(Reading) # ArmWait
               PROVE  (provider = "codex" /\ PrintsNoReset) \/ QuotedAlone
    BY DEF NotEarly
  <1>1. Allowed(Reading)
    BY DEF Unattended
  <1>2. CASE provider = "claude"
    <2>1. AtOffer \/ QuotedAlone
      BY <1>1, <1>2, ClaudeRightKey DEF AtOffer
    <2>2. QED
      BY <2>1 DEF GateIInv, ReadyIsOpen
  <1>3. CASE provider = "codex"
    BY <1>1, <1>3, CodexNotEarly
  <1>4. QED
    BY <1>2, <1>3 DEF GateIInv, GateTypeOK

(* NotEarly, for all row counts, windows, clocks, budgets and policies.     *)
THEOREM GateWaitsForTheReset == GateSpec => []NotEarly
  BY GateInvariance, GateNotEarly, PTL

(* Every variable of the gate's world stays within its type.               *)
THEOREM GateTyping == GateSpec => []GateTypeOK
  BY GateInvariance, PTL DEF GateIInv


-----------------------------------------------------------------------------
(* The four parts side by side: a step of the model that the runs check is  *)
(* a step of one of them and leaves the others at rest.                     *)

(* ResetAnchor's part is a run of ResetAnchor.                             *)
THEOREM DecisionDates == Spec => AnchorSpec
  <1>1. Init => AnchorInit
    BY DEF Init
  <1>2. [Next]_<<focus, anchorVars, gateVars, boxVars, foregroundVars>> => [AnchorNext]_anchorVars
    BY DEF Next
  <1>3. QED
    BY <1>1, <1>2, PTL DEF Spec, AnchorSpec

(* The gate's part is a run of ResumeGate.                                 *)
THEOREM DecisionGates == Spec => GateSpec
  <1>1. Init => GateInit
    BY DEF Init
  <1>2. [Next]_<<focus, anchorVars, gateVars, boxVars, foregroundVars>> => [GateNext]_gateVars
    BY DEF Next
  <1>3. QED
    BY <1>1, <1>2, PTL DEF Spec, GateSpec

(* The boxes' part is a run of PermissionBox.                              *)
THEOREM DecisionAsks == Spec => BoxSpec
  <1>1. Init => BoxInit
    BY DEF Init
  <1>2. [Next]_<<focus, anchorVars, gateVars, boxVars, foregroundVars>> => [BoxNext]_boxVars
    BY DEF Next
  <1>3. QED
    BY <1>1, <1>2, PTL DEF Spec, BoxSpec

(* The processes' part is a run of Foreground.                             *)
THEOREM DecisionInspects == Spec => ForegroundSpec
  <1>1. Init => ForegroundInit
    BY DEF Init
  <1>2. [Next]_<<focus, anchorVars, gateVars, boxVars, foregroundVars>> => [ForegroundNext]_foregroundVars
    BY DEF Next
  <1>3. QED
    BY <1>1, <1>2, PTL DEF Spec, ForegroundSpec

(* Every variable of a decision stays within its type.                     *)
THEOREM DecisionTyping == Spec => []TypeOK
  <1>1. AnchorTypeOK /\ GateTypeOK /\ BoxTypeOK /\ ForegroundTypeOK => TypeOK
    BY DEF TypeOK
  <1>2. QED
    BY <1>1, DecisionDates, DecisionGates, DecisionAsks, DecisionInspects,
       AnchorTyped, GateTyping, BoxTyping, ForegroundTyped, PTL

(* What the run of the four checks holds of the model it runs: a banner is  *)
(* read as the next occurrence and never dated later, a key reaches what it *)
(* was meant for, not before the printed reset, and only the agent; Enter   *)
(* grants one request, and a box that reads the same is about the same.     *)
THEOREM DecisionHolds ==
  Spec => [](/\ NextOccurrence /\ NeverLate /\ RightKey /\ NotEarly /\ KeyForTheAgent
             /\ EnterSaysYesOnce /\ SameBoxSameCommand)
  BY DecisionDates, DecisionGates, DecisionAsks, DecisionInspects, ReadingIsNext, DatedNeverLate,
     GateReachesItsPrompt, GateWaitsForTheReset, ForegroundKeyForTheAgent,
     BoxGrantsOneRequest, BoxesTellCommandsApart, PTL

(* And never through screen, within the reach of the walk up.               *)
THEOREM DecisionNeverThroughScreen == Spec => []NeverThroughScreen
  BY DecisionInspects, ForegroundNeverThroughScreen, PTL
=============================================================================
