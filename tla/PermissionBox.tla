---------------------------- MODULE PermissionBox ----------------------------
(* The exact permission boxes that auto-yes may answer (_approval_block of  *)
(* providers/claude.py and providers/codex.py), read from the screen of an  *)
(* agent that asks for one tool after another.  What is asked for may hold  *)
(* rows that look like a box; menus may be of a shape nobody tested; the    *)
(* user moves the cursor; a tall box loses its top rows; a narrow terminal  *)
(* wraps titles, items and footers.                                         *)
(* Beside an operator stands, as a mutant, what a plausible slip would make *)
(* of it.                                                                   *)
EXTENDS Integers, Sequences, FiniteSets, FiniteSetsExt, SequencesExt

CONSTANTS
  Commands,    \* what a request can be about
  Windows,     \* how many rows the terminal may show
  BoxRows,     \* APPROVAL_BOX_ROWS and _MAX_APPROVAL_ROWS
  MenuRows,    \* rows between the cursor and the footer that are searched
  ReasonRows   \* rows between the dashed rule and the question

(* At least two rows above a dashed rule are kept (the code keeps 40).      *)
ASSUME BoxAssumption ==
  {BoxRows, MenuRows, ReasonRows} \cup Windows \subseteq Nat \ {0} /\ BoxRows > 1

VARIABLES asks, at, rowsShown, narrow
boxVars == <<asks, at, rowsShown, narrow>>

-----------------------------------------------------------------------------
(* Rows: a shape, the words on it, and whether the cursor glyph is on it.   *)

BoxRow(shape, n, words, on) == [shape |-> shape, n |-> n, words |-> words, on |-> on]
Other(shape) == BoxRow(shape, 0, <<>>, FALSE)
Item(n, label, on) == BoxRow("item", n, label, on)
Wrapped(words) == BoxRow("text", 0, words, FALSE)

NoBlock == <<>>
Filled(rows) == Max({0} \cup {i \in DOMAIN rows : rows[i].shape # "blank"})
Joined(rows) == FlattenSeq([i \in DOMAIN rows |-> rows[i].words])
Between(rows, low, high) == SubSeq(rows, low + 1, high - 1)
Plainly(row) == row.shape # "item" /\ ~row.on

-----------------------------------------------------------------------------
(* Claude: "Do you want to ...?", the cursor on "1. Yes", at most two       *)
(* "Yes, and ..." items, "No", "Esc to cancel".                             *)

Yes == <<"yes">>
YesAnd == <<"yes-and", "more">>
No == <<"no">>

(* The middle items in order; the text of each may wrap.                    *)
MiddleItems(rows, count) ==
  LET items == SelectSeq(rows, LAMBDA row : row.shape = "item")
  IN  /\ Len(items) = count
      /\ \A i \in 1..count : ~items[i].on /\ items[i].n = i + 1 /\ items[i].words[1] = YesAnd[1]
      /\ \A i \in DOMAIN rows : rows[i].shape # "blank" /\ ~rows[i].on
      /\ rows # <<>> => rows[1].shape = "item"

CursorOnYes(row) == row.shape = "item" /\ row.n = 1 /\ row.words = Yes /\ row.on

(* The question's rows above it: up to the box's rule or, of a window-high  *)
(* preview, up to its dashed rule, with the preview as far as it is shown.  *)
FromQuestion(rows, question, end) == SubSeq(rows, question, end)
FromRule(rows, question, end) ==
  LET Nearest(shape, reach) ==
        Max({0} \cup {i \in Max({1, question - reach})..(question - 1) : rows[i].shape = shape})
      rule == Nearest("rule", BoxRows)
      dashed == Nearest("dashed", ReasonRows)
      reason == SelectSeq(Between(rows, dashed, question), LAMBDA row : row.shape # "blank")
  IN  IF rule > 0 THEN SubSeq(rows, rule, end)
      ELSE IF /\ dashed > 0 /\ \A i \in DOMAIN reason : Plainly(reason[i])
              /\ \A i \in DOMAIN reason : reason[i].shape = "explanation"
        THEN SubSeq(rows, Max({1, dashed - BoxRows}), end)
      ELSE NoBlock

ClaudeBlock(rows) ==
  LET end == Filled(rows)
      last == Filled(SubSeq(rows, 1, end - 1))
      IsMenu(yes) == /\ CursorOnYes(rows[yes]) /\ rows[yes - 1].shape = "question"
                     /\ MiddleItems(Between(rows, yes, last), rows[last].n - 2)
      menus == {yes \in Max({2, end - MenuRows})..(last - 1) : IsMenu(yes)}
  IN  IF /\ end >= 4 /\ rows[end].shape = "footer"
         /\ rows[last].shape = "item" /\ rows[last].words[1] = No[1] /\ ~rows[last].on
         /\ rows[last].n \in 2..4 /\ menus # {}
        THEN FromRule(rows, Max(menus) - 1, end) ELSE NoBlock

-----------------------------------------------------------------------------
(* Codex: a title, a preview, consecutive items with the cursor on the      *)
(* first, the footer; each wrapped over two rows at most where it says so.  *)

Footer == <<"press-enter", "or-esc">>
Proceed == <<"yes-proceed">>
Once == <<"yes-once">>
ThisTurn == <<"yes-this-turn">>
Always == <<"yes-always", "more">>
NoTell == <<"no-and-tell", "what-to-do">>
Titles == {<<"run", "command">>, <<"edits">>, <<"input">>, <<"network", "host">>, <<"permissions">>}

(* The complete menu of a title.                                           *)
AnyMenu(title, items) == TRUE
Valid(title, items) ==
  LET Framed(first) == /\ items[1] = first /\ Last(items) = NoTell
                       /\ \A i \in 2..(Len(items) - 1) : items[i] = Always
  IN  CASE title[1] = "run" -> Framed(Proceed)
        [] title[1] = "edits" -> items = <<Proceed, Always, NoTell>>
        [] title[1] = "input" -> items = <<Proceed, NoTell>>
        [] title[1] = "network" -> Framed(Once)
        [] title[1] = "permissions" ->
             items = <<ThisTurn, <<"yes-strict">>, Always, <<"no-without">>>>

(* The labels of consecutive items, their wrapped rows joined.             *)
Labels(rows) ==
  LET starts == {i \in DOMAIN rows : rows[i].shape = "item"}
      Start(k) == CHOOSE i \in starts : Cardinality({j \in starts : j <= i}) = k
      Stop(k) == IF k = Cardinality(starts) THEN Len(rows) + 1 ELSE Start(k + 1)
  IN  [k \in 1..Cardinality(starts) |-> Joined(SubSeq(rows, Start(k), Stop(k) - 1))]
Consecutive(rows) ==
  LET items == SelectSeq(rows, LAMBDA row : row.shape = "item")
  IN  /\ Len(items) \in 2..4 /\ \A k \in DOMAIN items : items[k].n = k
      /\ \A i \in 2..Len(rows) : ~rows[i].on
      /\ \A i \in DOMAIN rows : rows[i].shape # "blank"

CodexBlock(rows) ==
  LET end == Filled(rows)
      widths == {w \in 1..Min({2, end}) : Joined(SubSeq(rows, end - w + 1, end)) = Footer}
      footer == end - Min(widths) + 1
      last == Filled(SubSeq(rows, 1, footer - 1))
      selected == Max({0} \cup {i \in Max({1, last - MenuRows + 1})..last :
                                  rows[i].shape = "item" /\ rows[i].n = 1 /\ rows[i].on})
      menu == SubSeq(rows, selected, last)
      TitlesAt(t) == {Joined(SubSeq(rows, t, t + w - 1)) :
                        w \in {v \in 1..2 : t + v <= selected}} \cap Titles
      title == Max({0} \cup {t \in Max({1, selected - BoxRows + 1})..(selected - 1) :
                               TitlesAt(t) # {}})
      block == SubSeq(rows, title, end)
  IN  IF /\ widths # {} /\ selected > 0 /\ Consecutive(menu)
         /\ title > 0 /\ \A i \in (title + 1)..(selected - 1) : Plainly(rows[i])
         /\ \A i \in DOMAIN block : block[i].shape # "clipped"
         /\ Valid(CHOOSE t \in TitlesAt(title) : TRUE, Labels(menu))
        THEN block ELSE NoBlock

-----------------------------------------------------------------------------
(* What the agent asks, and how it is drawn.                                *)

(* Tested menus and others: items of another order, wording or number.      *)
Menus(provider) ==
  IF provider = "claude"
    THEN {<<Yes, No>>, <<Yes, YesAnd, No>>, <<Yes, YesAnd, YesAnd, No>>,
          <<YesAnd, No>>, <<Yes, No, YesAnd>>, <<YesAnd, Yes, No>>}
    ELSE {<<Proceed, NoTell>>, <<Proceed, Always, NoTell>>, <<Once, Always, NoTell>>,
          <<ThisTurn, <<"yes-strict">>, Always, <<"no-without">>>>,
          <<Always, Proceed, NoTell>>, <<Always, NoTell>>}
(* Rows that a preview may hold beside the command it shows.                *)
Mimics(provider) ==
  IF provider = "claude"
    THEN {Other("question"), Other("rule"), Item(1, Yes, TRUE), Other("text")}
    ELSE {BoxRow("title", 0, <<"edits">>, FALSE), Item(1, Proceed, TRUE), Other("clipped"), Other("text")}
(* An MCP form has a title of its own.                                     *)
Headed(provider) == IF provider = "claude" THEN {<<"question">>} ELSE Titles \cup {<<"form">>}

NothingAsked == [provider |-> "none", title |-> <<>>, menu |-> <<Yes>>, command |-> "none",
                 mimic |-> Other("text"), hidden |-> FALSE]
Requests ==
  UNION {[provider : {p}, title : Headed(p), menu : Menus(p), command : Commands,
          mimic : Mimics(p), hidden : BOOLEAN] : p \in {"claude", "codex"}}

Drawn(label, Make(_)) ==
  IF narrow /\ Len(label) = 2 THEN <<Make(<<label[1]>>), Wrapped(<<label[2]>>)>> ELSE <<Make(label)>>
Preview(r) == <<Wrapped(<<r.command>>), r.mimic>>
Drawing(r) ==
  LET menu == FlattenSeq([k \in DOMAIN r.menu |->
                Drawn(r.menu[k], LAMBDA words : Item(k, words, k = at))])
  IN  IF r.provider = "claude"
        THEN <<Other("rule")>> \o Preview(r)
               \o (IF r.hidden THEN <<Other("dashed"), Other("explanation")>> ELSE <<>>)
               \o <<Other("question")>> \o menu \o <<Other("blank"), Other("footer")>>
        ELSE Drawn(r.title, LAMBDA words : BoxRow("title", 0, words, FALSE))
               \o (IF r.hidden THEN <<Other("clipped"), r.mimic>> ELSE Preview(r))
               \o <<Other("blank")>> \o menu \o <<Other("blank")>>
               \o Drawn(Footer, LAMBDA words : BoxRow("footer", 0, words, FALSE))
Shown(r) == LET rows == Drawing(r) IN SubSeq(rows, Max({1, Len(rows) - rowsShown + 1}), Len(rows))
Block(r) ==
  CASE r.provider = "claude" -> ClaudeBlock(Shown(r))
    [] r.provider = "codex" -> CodexBlock(Shown(r))
    [] OTHER -> NoBlock

-----------------------------------------------------------------------------
(* One request after another; the user moves the cursor and the window.     *)

Similar(r) == [provider : {r.provider}, title : {r.title}, menu : {r.menu}, command : Commands,
               mimic : Mimics(r.provider), hidden : BOOLEAN]
AsksNext == /\ asks # NothingAsked /\ asks' \in Similar(asks) \cup {NothingAsked}
            /\ at' = 1
            /\ UNCHANGED <<rowsShown, narrow>>
MovesCursor == /\ at' \in DOMAIN asks.menu
               /\ UNCHANGED <<asks, rowsShown, narrow>>
Resizes == /\ rowsShown' \in Windows /\ narrow' \in BOOLEAN
           /\ UNCHANGED <<asks, at>>

BoxInit == asks \in Requests \cup {NothingAsked} /\ at = 1 /\ rowsShown \in Windows /\ narrow = FALSE
BoxNext == AsksNext \/ MovesCursor \/ Resizes
BoxSpec == BoxInit /\ [][BoxNext]_boxVars

BoxTypeOK ==
  asks \in Requests \cup {NothingAsked} /\ at \in DOMAIN asks.menu /\ rowsShown \in Windows /\ narrow \in BOOLEAN

(* docs/USAGE.md:716: "Enter on item 1 never reaches a persistent/session   *)
(* item".  Whatever a preview looks like and wherever the cursor is, Enter  *)
(* on a recognised box grants this one request.                             *)
EnterSaysYesOnce ==
  Block(asks) # NoBlock => asks.menu[at] \in {Yes, Proceed, Once, ThisTurn}

(* docs/USAGE.md:718: "a different command, an edit [...] cancels it": a    *)
(* box that reads the same as the one that was scanned is about the same    *)
(* command.  Codex refuses what it cannot see whole; of Claude only what is *)
(* visible can be told apart, so there the box must be shown from its rule  *)
(* on; and no row of the preview may itself pass for the top of a box.      *)
ShownWhole == asks.provider = "claude" => Shown(asks) = Drawing(asks)
OneTop == asks.mimic.shape \notin {"rule", "title"} /\ <<asks.command>> \notin Titles
SameBoxSameCommand ==
  (Block(asks) # NoBlock /\ ShownWhole /\ OneTop) =>
    \A r \in Similar(asks) : Block(r) = Block(asks) => r.command = asks.command
=============================================================================
