------------------------- MODULE PermissionBoxProofs -------------------------
(***************************************************************************)
(* Proofs about permission boxes, for any commands, windows and reach of   *)
(* the search: Enter on a box that is recognised grants the one request    *)
(* that is asked, and a box that reads the same is about the same command. *)
(* Both follow from where each row of what is drawn stands: what is read   *)
(* as a box can then only be what was drawn as one.                        *)
(***************************************************************************)
EXTENDS PermissionBox, FiniteSetTheorems, SequenceTheorems, WellFoundedInduction, TLAPS

-----------------------------------------------------------------------------
(* A set of natural numbers has a least member, a bounded one a largest.    *)
Smaller == {pair \in Nat \X Nat : pair[1] < pair[2]}

LEMMA LeastMember ==
  ASSUME NEW S, S \subseteq Nat, S # {}
  PROVE  \E x \in S : \A y \in S : x <= y
  <1>1. IsWellFoundedOn(Smaller, Nat)
    BY NatLessThanWellFounded DEF OpToRel, Smaller
  <1>2. PICK x \in S : \A y \in S : <<y, x>> \notin Smaller
    BY <1>1, WFMin
  <1>3. ASSUME NEW y \in S PROVE x <= y
    <2>1. x \in Nat /\ y \in Nat
      OBVIOUS
    <2>2. ~(y < x)
      <3>1. <<y, x>> \in Nat \X Nat /\ <<y, x>>[1] = y /\ <<y, x>>[2] = x
        BY <2>1
      <3>2. QED
        BY <1>2, <3>1 DEF Smaller
    <2>3. QED
      BY <2>1, <2>2
  <1>4. QED
    BY <1>2, <1>3

LEMMA LargestMember ==
  ASSUME NEW n \in Nat, NEW S, S \subseteq 0..n, S # {}
  PROVE  \E x \in S : \A y \in S : y <= x
  <1> DEFINE U == {n - y : y \in S}
  <1>1. U \subseteq Nat
    <2> SUFFICES ASSUME NEW y \in S PROVE n - y \in Nat
      OBVIOUS
    <2>1. y \in 0..n
      OBVIOUS
    <2>2. QED
      BY <2>1
  <1>2. U # {}
    OBVIOUS
  <1>3. \A y \in S : n - y \in U
    OBVIOUS
  <1>4. \A u \in U : \E y \in S : u = n - y
    OBVIOUS
  <1> HIDE DEF U
  <1>5. PICK u \in U : \A v \in U : u <= v
    BY <1>1, <1>2, LeastMember
  <1>6. PICK x \in S : u = n - x
    BY <1>4
  <1>7. ASSUME NEW y \in S PROVE y <= x
    <2>1. u <= n - y /\ y \in 0..n /\ x \in 0..n
      BY <1>3, <1>5
    <2>2. QED
      BY <1>6, <2>1
  <1>8. QED
    BY <1>7

LEMMA MaxOfTwo ==
  ASSUME NEW i \in Int, NEW j \in Int
  PROVE  /\ Max({i, j}) \in {i, j}
         /\ Max({i, j}) >= i /\ Max({i, j}) >= j
  <1>1. \E x \in {i, j} : \A y \in {i, j} : x >= y
    <2>1. CASE i >= j
      BY <2>1
    <2>2. CASE j >= i
      BY <2>2
    <2>3. QED
      BY <2>1, <2>2
  <1>2. Max({i, j}) \in {i, j} /\ \A y \in {i, j} : Max({i, j}) >= y
    BY <1>1 DEF Max
  <1>3. QED
    BY <1>2

LEMMA MaxIsLargest ==
  ASSUME NEW n \in Nat, NEW S, S \subseteq 0..n, S # {}
  PROVE  Max(S) \in S /\ \A y \in S : y <= Max(S)
  <1>1. PICK x \in S : \A y \in S : y <= x
    BY LargestMember
  <1>2. \A y \in S : x >= y
    BY <1>1
  <1>3. Max(S) \in S /\ \A y \in S : Max(S) >= y
    BY <1>2 DEF Max
  <1>4. QED
    BY <1>3

-----------------------------------------------------------------------------
LEMMA MenusAreSequences == \A p : \A menu \in Menus(p) : 1 \in DOMAIN menu
  BY DEF Menus

(* Every variable of the permission boxes stays within its type: the cursor *)
(* is on an item of the menu that is asked.                                 *)
THEOREM BoxTyping == BoxSpec => []BoxTypeOK
  <1>1. \A p : \A menu \in Menus(p) : 1 \in DOMAIN menu
    BY MenusAreSequences
  <1>2. 1 \in DOMAIN NothingAsked.menu
    BY DEF NothingAsked
  <1>3. \A r \in Requests : 1 \in DOMAIN r.menu
    BY <1>1 DEF Requests
  <1>4. BoxInit => BoxTypeOK
    BY <1>2, <1>3 DEF BoxInit, BoxTypeOK
  <1>5. BoxTypeOK /\ [BoxNext]_boxVars => BoxTypeOK'
    <2> SUFFICES ASSUME BoxTypeOK, [BoxNext]_boxVars PROVE BoxTypeOK'
      OBVIOUS
    <2>1. CASE AsksNext
      <3>1. asks \in Requests /\ asks' \in Similar(asks) \cup {NothingAsked} /\ at' = 1
        BY <2>1 DEF AsksNext, BoxTypeOK
      <3>2. Similar(asks) \subseteq Requests
        <4>1. PICK p \in {"claude", "codex"} :
                asks \in [provider : {p}, title : Headed(p), menu : Menus(p), command : Commands,
                          mimic : Mimics(p), hidden : BOOLEAN]
          BY <3>1 DEF Requests
        <4>2. Similar(asks) \subseteq [provider : {p}, title : Headed(p), menu : Menus(p),
                                       command : Commands, mimic : Mimics(p), hidden : BOOLEAN]
          BY <4>1 DEF Similar
        <4>3. QED
          BY <4>2 DEF Requests
      <3>3. QED
        BY <1>2, <1>3, <2>1, <3>1, <3>2 DEF AsksNext, BoxTypeOK
    <2>2. CASE MovesCursor
      BY <2>2 DEF MovesCursor, BoxTypeOK
    <2>3. CASE Resizes
      BY <2>3 DEF Resizes, BoxTypeOK
    <2>4. CASE UNCHANGED boxVars
      BY <2>4 DEF boxVars, BoxTypeOK
    <2>5. QED
      BY <2>1, <2>2, <2>3, <2>4 DEF BoxNext
  <1>6. QED
    BY <1>4, <1>5, PTL DEF BoxSpec

-----------------------------------------------------------------------------
(* Sequences put one after another: what FlattenSeq folds, for any number   *)
(* of them.  Its recursive function exists, by the least length for which   *)
(* it would not.                                                           *)

LEMMA FlattenExists ==
  ASSUME NEW seqs, NEW n \in Nat \ {0}
  PROVE  \E f : f = [i \in 1..n |-> IF i = 1 THEN seqs[i] ELSE f[i-1] \o seqs[i]]
  <1> DEFINE Exists(k) == \E f : f = [i \in 1..k |-> IF i = 1 THEN seqs[i] ELSE f[i-1] \o seqs[i]]
             missing == {k \in 1..n : ~Exists(k)}
  <1>1. SUFFICES ASSUME missing # {} PROVE FALSE
    BY n \in 1..n
  <1> HIDE DEF Exists
  <1>2. PICK k \in missing : \A j \in missing : k <= j
    <2>1. missing \subseteq Nat
      OBVIOUS
    <2>2. QED
      BY <1>1, <2>1, LeastMember
  <1>3. k \in 1..n /\ ~Exists(k)
    BY <1>2
  <1> USE DEF Exists
  <1>4. k # 1
    <2> SUFFICES Exists(1)
      BY <1>3
    <2> DEFINE f == [i \in 1..1 |-> seqs[i]]
    <2>1. f = [i \in 1..1 |-> IF i = 1 THEN seqs[i] ELSE f[i-1] \o seqs[i]]
      OBVIOUS
    <2>2. QED
      BY <2>1
  <1>5. PICK g : g = [i \in 1..(k - 1) |-> IF i = 1 THEN seqs[i] ELSE g[i-1] \o seqs[i]]
    <2>1. k - 1 \in 1..n /\ ~(k <= k - 1)
      BY <1>3, <1>4
    <2>2. Exists(k - 1)
      BY <1>2, <2>1
    <2>3. QED
      BY <2>2
  <1> HIDE DEF missing
  <1> DEFINE f == [i \in 1..k |-> IF i = k THEN g[k-1] \o seqs[k] ELSE g[i]]
  <1>6. \A i \in 1..k : f[i] = IF i = 1 THEN seqs[i] ELSE f[i-1] \o seqs[i]
    <2> TAKE i \in 1..k
    <2>1. CASE i = k
      <3>1. i - 1 \in 1..k /\ i - 1 # k
        BY <1>3, <1>4, <2>1
      <3>2. f[i - 1] = g[k - 1]
        BY <2>1, <3>1
      <3>3. QED
        BY <1>4, <2>1, <3>2
    <2>2. CASE i # k /\ i # 1
      <3>1. i \in 1..(k-1) /\ i - 1 \in 1..k /\ i - 1 # k
        BY <1>3, <2>2
      <3>2. f[i] = g[i] /\ f[i-1] = g[i-1]
        BY <2>2, <3>1
      <3>3. g[i] = g[i-1] \o seqs[i]
        BY <1>5, <2>2, <3>1
      <3>4. QED
        BY <2>2, <3>2, <3>3
    <2>3. CASE i = 1
      <3>1. i \in 1..(k-1)
        BY <1>3, <1>4, <2>3
      <3>2. QED
        BY <1>4, <1>5, <2>3, <3>1
    <2>4. QED
      BY <2>1, <2>2, <2>3
  <1>7. f = [i \in 1..k |-> f[i]]
    OBVIOUS
  <1> HIDE DEF f
  <1>8. f = [i \in 1..k |-> IF i = 1 THEN seqs[i] ELSE f[i-1] \o seqs[i]]
    BY <1>6, <1>7
  <1>9. Exists(k)
    BY <1>8
  <1>10. QED
    BY <1>3, <1>9

(* FlattenSeq is that function, at its last sequence.                       *)
LEMMA FlattenIs ==
  ASSUME NEW seqs, Len(seqs) \in Nat \ {0}
  PROVE  \E f : /\ f[1] = seqs[1]
                /\ \A i \in 2..Len(seqs) : f[i] = f[i-1] \o seqs[i]
                /\ FlattenSeq(seqs) = f[Len(seqs)]
  <1> DEFINE Flat(f) == f = [i \in 1..Len(seqs) |-> IF i = 1 THEN seqs[i] ELSE f[i-1] \o seqs[i]]
             flatten == CHOOSE f : Flat(f)
  <1>1. Flat(flatten)
    BY FlattenExists
  <1>2. FlattenSeq(seqs) = flatten[Len(seqs)]
    BY DEF FlattenSeq
  <1> HIDE DEF flatten
  <1>3. /\ flatten[1] = seqs[1]
        /\ \A i \in 2..Len(seqs) : flatten[i] = flatten[i-1] \o seqs[i]
    <2>1. 1 \in 1..Len(seqs) /\ \A i \in 2..Len(seqs) : i \in 1..Len(seqs) /\ i # 1
      OBVIOUS
    <2>2. \A i \in 1..Len(seqs) : flatten[i] = IF i = 1 THEN seqs[i] ELSE flatten[i-1] \o seqs[i]
      BY <1>1
    <2>3. QED
      BY <2>1, <2>2
  <1>4. QED
    BY <1>2, <1>3

(* One sequence after another.                                              *)
LEMMA TwoSequences ==
  ASSUME NEW T, NEW u \in Seq(T), NEW v \in Seq(T), u # <<>>
  PROVE  /\ u \o v \in Seq(T) /\ Len(u \o v) >= Len(u) /\ (u \o v)[1] = u[1]
         /\ \A row : Contains(u \o v, row) => Contains(u, row) \/ Contains(v, row)
  <1>1. /\ u \o v \in Seq(T) /\ Len(u \o v) = Len(u) + Len(v)
        /\ \A i \in 1..Len(u) + Len(v) : (u \o v)[i] = IF i <= Len(u) THEN u[i] ELSE v[i - Len(u)]
    BY ConcatProperties
  <1>2. Len(u) \in Nat \ {0} /\ Len(v) \in Nat
    OBVIOUS
  <1>3. Len(u \o v) >= Len(u) /\ (u \o v)[1] = u[1]
    <2>1. 1 \in 1..Len(u) + Len(v) /\ 1 <= Len(u)
      BY <1>2
    <2>2. QED
      BY <1>1, <1>2, <2>1
  <1>4. ASSUME NEW row, Contains(u \o v, row)
        PROVE  Contains(u, row) \/ Contains(v, row)
    <2>1. PICK j \in 1..Len(u \o v) : (u \o v)[j] = row
      BY <1>4 DEF Contains
    <2>2. CASE j <= Len(u)
      BY <1>1, <1>2, <2>1, <2>2 DEF Contains
    <2>3. CASE ~(j <= Len(u))
      <3>1. j - Len(u) \in 1..Len(v)
        BY <1>1, <1>2, <2>3
      <3>2. QED
        BY <1>1, <2>1, <2>3, <3>1 DEF Contains
    <2>4. QED
      BY <2>2, <2>3
  <1>5. QED
    BY <1>1, <1>3, <1>4

(* What is put together begins as its first sequence does and holds what   *)
(* the sequences hold.                                                     *)
LEMMA Flattened ==
  ASSUME NEW T, NEW seqs \in Seq(Seq(T)), seqs # <<>>, seqs[1] # <<>>
  PROVE  /\ FlattenSeq(seqs) \in Seq(T)
         /\ Len(FlattenSeq(seqs)) >= Len(seqs[1])
         /\ FlattenSeq(seqs)[1] = seqs[1][1]
         /\ \A row : Contains(FlattenSeq(seqs), row) => \E i \in 1..Len(seqs) : Contains(seqs[i], row)
  <1>1. Len(seqs) \in Nat \ {0} /\ \A i \in 1..Len(seqs) : seqs[i] \in Seq(T)
    OBVIOUS
  <1>2. PICK f : /\ f[1] = seqs[1]
                 /\ \A i \in 2..Len(seqs) : f[i] = f[i-1] \o seqs[i]
                 /\ FlattenSeq(seqs) = f[Len(seqs)]
    BY <1>1, FlattenIs
  <1> DEFINE From(s) == \A row : Contains(s, row) => \E i \in 1..Len(seqs) : Contains(seqs[i], row)
             Good(s) == /\ s \in Seq(T) /\ Len(s) >= Len(seqs[1]) /\ s[1] = seqs[1][1] /\ From(s)
             bad == {n \in 1..Len(seqs) : ~Good(f[n])}
  <1>3. Good(f[1])
    BY <1>1, <1>2
  <1>4. ASSUME NEW n \in 1..Len(seqs), n # 1, Good(f[n - 1]) PROVE Good(f[n])
    <2> DEFINE u == f[n - 1]
               v == seqs[n]
    <2>1. f[n] = u \o v /\ v \in Seq(T) /\ Good(u)
      <3>1. n \in 2..Len(seqs)
        BY <1>1, <1>4
      <3>2. QED
        BY <1>1, <1>2, <1>4, <3>1
    <2> HIDE DEF u
    <2>2. \A row : Contains(v, row) => \E i \in 1..Len(seqs) : Contains(seqs[i], row)
      OBVIOUS
    <2> HIDE DEF v
    <2>3. u # <<>>
      <3>1. Len(u) >= Len(seqs[1]) /\ Len(seqs[1]) \in Nat \ {0}
        BY <1>1, <2>1
      <3>2. QED
        BY <3>1
    <2>4. /\ u \o v \in Seq(T) /\ Len(u \o v) >= Len(u) /\ (u \o v)[1] = u[1]
          /\ \A row : Contains(u \o v, row) => Contains(u, row) \/ Contains(v, row)
      <3> HIDE DEF Good
      <3>1. u \in Seq(T)
        BY <2>1 DEF Good
      <3>2. QED
        BY <2>1, <2>3, <3>1, TwoSequences
    <2>5. Len(u \o v) >= Len(seqs[1])
      <3>1. Len(u) >= Len(seqs[1]) /\ Len(seqs[1]) \in Nat /\ Len(u) \in Nat /\ Len(u \o v) \in Nat
        BY <1>1, <2>1, <2>4
      <3>2. QED
        BY <2>4, <3>1
    <2>6. QED
      BY <2>1, <2>2, <2>4, <2>5
  <1> HIDE DEF Good
  <1>5. bad = {}
    <2> SUFFICES ASSUME bad # {} PROVE FALSE
      OBVIOUS
    <2>1. PICK n \in bad : \A m \in bad : n <= m
      <3>1. bad \subseteq Nat
        OBVIOUS
      <3>2. QED
        BY <3>1, LeastMember
    <2>2. n \in 1..Len(seqs) /\ ~Good(f[n]) /\ n # 1
      BY <1>3, <2>1
    <2>3. n - 1 \in 1..Len(seqs) /\ ~(n <= n - 1)
      BY <1>1, <2>2
    <2>4. Good(f[n - 1])
      BY <2>1, <2>3
    <2>5. QED
      BY <1>4, <2>2, <2>4
  <1>6. Good(f[Len(seqs)])
    BY <1>1, <1>5
  <1>7. QED
    BY <1>2, <1>6 DEF Good

-----------------------------------------------------------------------------
(* What an agent draws: its words, its menus and the rows they stand on.     *)

DrawnShape == {"rule", "text", "question", "dashed", "explanation", "item", "blank", "footer", "title", "clipped"}
DrawnWord == Commands \cup
  {"yes", "yes-and", "more", "no", "yes-proceed", "yes-once", "yes-this-turn", "yes-always", "no-and-tell",
   "what-to-do", "yes-strict", "no-without", "press-enter", "or-esc", "run", "command", "edits", "input",
   "network", "host", "permissions", "form", "question"}
DrawnRow == [shape : DrawnShape, n : Nat, words : Seq(DrawnWord), on : BOOLEAN]
ClaudeLabels == {Yes, YesAnd, No}
CodexLabels == {Proceed, Once, ThisTurn, Always, NoTell, <<"yes-strict">>, <<"no-without">>}

LEMMA ShortSequences ==
  ASSUME NEW S, NEW a \in S, NEW b \in S, NEW c \in S, NEW d \in S
  PROVE  /\ <<a>> \in Seq(S) /\ <<a>> # <<>> /\ <<a>>[1] = a
         /\ <<a, b>> \in Seq(S) /\ <<a, b>> # <<>> /\ <<a, b>>[1] = a
         /\ <<a, b, c>> \in Seq(S) /\ <<a, b, c>> # <<>> /\ <<a, b, c>>[1] = a
         /\ <<a, b, c, d>> \in Seq(S) /\ <<a, b, c, d>> # <<>> /\ <<a, b, c, d>>[1] = a
  OBVIOUS

LEMMA OneOrTwo ==
  ASSUME NEW S, NEW a \in S
  PROVE  /\ <<a>> \in Seq(S) /\ Len(<<a>>) = 1 /\ <<a>>[1] = a
         /\ \A b \in S : /\ <<a, b>> \in Seq(S) /\ Len(<<a, b>>) = 2
                       /\ <<a, b>>[1] = a /\ <<a, b>>[2] = b
  OBVIOUS

(* A label is one word or two.                                              *)
LEMMA LabelsAre ==
  \A label \in ClaudeLabels \cup CodexLabels :
    /\ label \in Seq(DrawnWord) /\ Len(label) \in 1..2 /\ label # <<>>
    /\ label[1] \in DrawnWord /\ (Len(label) = 2 => label[2] \in DrawnWord)
  <1> DEFINE OK(label) == /\ label \in Seq(DrawnWord) /\ Len(label) \in 1..2 /\ label # <<>>
                          /\ label[1] \in DrawnWord /\ (Len(label) = 2 => label[2] \in DrawnWord)
  <1>1. ASSUME NEW a \in DrawnWord PROVE OK(<<a>>)
    OBVIOUS
  <1>2. ASSUME NEW a \in DrawnWord, NEW b \in DrawnWord PROVE OK(<<a, b>>)
    OBVIOUS
  <1>3. /\ {"yes", "yes-and", "more", "no"} \subseteq DrawnWord
        /\ {"yes-proceed", "yes-once", "yes-this-turn", "yes-always", "no-and-tell", "what-to-do"} \subseteq DrawnWord
        /\ {"yes-strict", "no-without"} \subseteq DrawnWord
    BY DEF DrawnWord
  <1> HIDE DEF OK
  <1>4. OK(Yes) /\ OK(YesAnd) /\ OK(No)
    BY <1>1, <1>2, <1>3 DEF Yes, YesAnd, No
  <1>5. OK(Proceed) /\ OK(Once) /\ OK(ThisTurn) /\ OK(Always) /\ OK(NoTell)
    BY <1>1, <1>2, <1>3 DEF Proceed, Once, ThisTurn, Always, NoTell
  <1>6. OK(<<"yes-strict">>) /\ OK(<<"no-without">>)
    BY <1>1, <1>3
  <1>7. \A label \in ClaudeLabels \cup CodexLabels : OK(label)
    BY <1>4, <1>5, <1>6 DEF ClaudeLabels, CodexLabels
  <1>8. QED
    BY <1>7 DEF OK

(* The first item of a menu is one of a few.                                *)
LEMMA MenusAre ==
  /\ \A menu \in Menus("claude") : menu \in Seq(ClaudeLabels) /\ menu # <<>> /\ menu[1] \in {Yes, YesAnd}
  /\ \A menu \in Menus("codex") : menu \in Seq(CodexLabels) /\ menu # <<>>
                                    /\ menu[1] \in {Proceed, Once, ThisTurn, Always}
  <1> DEFINE ClaudeLike(menu) == menu \in Seq(ClaudeLabels) /\ menu # <<>> /\ menu[1] \in {Yes, YesAnd}
             CodexLike(menu) == /\ menu \in Seq(CodexLabels) /\ menu # <<>>
                            /\ menu[1] \in {Proceed, Once, ThisTurn, Always}
  <1>1. ASSUME NEW a \in {Yes, YesAnd}, NEW b \in ClaudeLabels, NEW c \in ClaudeLabels, NEW d \in ClaudeLabels
        PROVE  ClaudeLike(<<a, b>>) /\ ClaudeLike(<<a, b, c>>) /\ ClaudeLike(<<a, b, c, d>>)
    <2>1. a \in ClaudeLabels
      BY DEF ClaudeLabels
    <2>2. QED
      BY <2>1, ShortSequences
  <1>2. ASSUME NEW a \in {Proceed, Once, ThisTurn, Always},
               NEW b \in CodexLabels, NEW c \in CodexLabels, NEW d \in CodexLabels
        PROVE  CodexLike(<<a, b>>) /\ CodexLike(<<a, b, c>>) /\ CodexLike(<<a, b, c, d>>)
    <2>1. a \in CodexLabels
      BY DEF CodexLabels
    <2>2. QED
      BY <2>1, ShortSequences
  <1> HIDE DEF ClaudeLike, CodexLike
  <1>3. Yes \in ClaudeLabels /\ YesAnd \in ClaudeLabels /\ No \in ClaudeLabels
    BY DEF ClaudeLabels
  <1>4. /\ Proceed \in CodexLabels /\ Always \in CodexLabels /\ NoTell \in CodexLabels
        /\ <<"yes-strict">> \in CodexLabels /\ <<"no-without">> \in CodexLabels
    BY DEF CodexLabels
  <1>5. /\ ClaudeLike(<<Yes, No>>) /\ ClaudeLike(<<Yes, YesAnd, No>>) /\ ClaudeLike(<<Yes, YesAnd, YesAnd, No>>)
        /\ ClaudeLike(<<YesAnd, No>>) /\ ClaudeLike(<<Yes, No, YesAnd>>) /\ ClaudeLike(<<YesAnd, Yes, No>>)
    BY <1>1, <1>3
  <1>6. /\ CodexLike(<<Proceed, NoTell>>) /\ CodexLike(<<Proceed, Always, NoTell>>) /\ CodexLike(<<Once, Always, NoTell>>)
        /\ CodexLike(<<ThisTurn, <<"yes-strict">>, Always, <<"no-without">>>>)
        /\ CodexLike(<<Always, Proceed, NoTell>>) /\ CodexLike(<<Always, NoTell>>)
    BY <1>2, <1>4
  <1>7. \A menu \in Menus("claude") : ClaudeLike(menu)
    BY <1>5 DEF Menus
  <1>8. \A menu \in Menus("codex") : CodexLike(menu)
    BY <1>6 DEF Menus
  <1>9. QED
    BY <1>7, <1>8 DEF ClaudeLike, CodexLike

(* A request is of one of the two agents.                                   *)
LEMMA RequestsAre ==
  ASSUME NEW r \in Requests
  PROVE  \/ /\ r.provider = "claude" /\ r.title = <<"question">> /\ r.menu \in Menus("claude")
            /\ r.command \in Commands /\ r.mimic \in Mimics("claude") /\ r.hidden \in BOOLEAN
         \/ /\ r.provider = "codex" /\ r.title \in Titles \cup {<<"form">>} /\ r.menu \in Menus("codex")
            /\ r.command \in Commands /\ r.mimic \in Mimics("codex") /\ r.hidden \in BOOLEAN
  <1>1. PICK p \in {"claude", "codex"} :
          r \in [provider : {p}, title : Headed(p), menu : Menus(p), command : Commands,
                 mimic : Mimics(p), hidden : BOOLEAN]
    BY DEF Requests
  <1>2. CASE p = "claude"
    <2>1. Headed("claude") = {<<"question">>}
      BY DEF Headed
    <2>2. QED
      BY <1>1, <1>2, <2>1
  <1>3. CASE p = "codex"
    <2>1. Headed("codex") = Titles \cup {<<"form">>}
      BY DEF Headed
    <2>2. QED
      BY <1>1, <1>3, <2>1
  <1>4. QED
    BY <1>1, <1>2, <1>3

(* The rows of an item and of a menu, as Drawing lays them out.            *)
ItemDrawn(menu, k) ==
  IF narrow /\ Len(menu[k]) = 2
    THEN <<Item(k, <<menu[k][1]>>, k = at), Wrapped(<<menu[k][2]>>)>> ELSE <<Item(k, menu[k], k = at)>>
MenuDrawn(menu) == FlattenSeq([k \in DOMAIN menu |-> ItemDrawn(menu, k)])
MenuRow(menu, row) ==
  \E k \in DOMAIN menu :
    \/ row = Item(k, menu[k], k = at)
    \/ row = Item(k, <<menu[k][1]>>, k = at)
    \/ Len(menu[k]) = 2 /\ row = Wrapped(<<menu[k][2]>>)

LEMMA ItemIsDrawn ==
  ASSUME NEW menu \in Seq(ClaudeLabels \cup CodexLabels), NEW k \in DOMAIN menu
  PROVE  /\ ItemDrawn(menu, k) \in Seq(DrawnRow) /\ ItemDrawn(menu, k) # <<>>
         /\ ItemDrawn(menu, k)[1].words # <<>> /\ ItemDrawn(menu, k)[1].words[1] = menu[k][1]
         /\ ItemDrawn(menu, k)[1].shape = "item" /\ ItemDrawn(menu, k)[1].n = k
         /\ \A row : Contains(ItemDrawn(menu, k), row) => MenuRow(menu, row)
  <1> DEFINE whole == Item(k, menu[k], k = at)
             first == Item(k, <<menu[k][1]>>, k = at)
             second == Wrapped(<<menu[k][2]>>)
             rows == ItemDrawn(menu, k)
  <1>1. /\ menu[k] \in ClaudeLabels \cup CodexLabels /\ k \in Nat
    OBVIOUS
  <1>2. /\ menu[k] \in Seq(DrawnWord) /\ Len(menu[k]) \in 1..2 /\ menu[k] # <<>>
        /\ menu[k][1] \in DrawnWord /\ (Len(menu[k]) = 2 => menu[k][2] \in DrawnWord)
    BY <1>1, LabelsAre DEF DrawnWord
  <1>3. /\ whole \in DrawnRow /\ first \in DrawnRow
        /\ Len(menu[k]) = 2 => second \in DrawnRow
    <2>1. ASSUME NEW words \in Seq(DrawnWord), NEW on \in BOOLEAN PROVE Item(k, words, on) \in DrawnRow
      BY <1>1 DEF Item, BoxRow, DrawnRow, DrawnShape
    <2>2. ASSUME NEW words \in Seq(DrawnWord) PROVE Wrapped(words) \in DrawnRow
      BY DEF Wrapped, BoxRow, DrawnRow, DrawnShape
    <2>3. <<menu[k][1]>> \in Seq(DrawnWord) /\ (Len(menu[k]) = 2 => <<menu[k][2]>> \in Seq(DrawnWord))
      BY <1>2
    <2>4. (k = at) \in BOOLEAN
      OBVIOUS
    <2>5. QED
      BY <1>2, <2>1, <2>2, <2>3, <2>4
  <1>4. /\ MenuRow(menu, whole) /\ MenuRow(menu, first)
        /\ Len(menu[k]) = 2 => MenuRow(menu, second)
    BY DEF MenuRow
  <1>5. /\ whole.words = menu[k] /\ whole.shape = "item" /\ whole.n = k
        /\ first.words = <<menu[k][1]>> /\ first.shape = "item" /\ first.n = k
    BY DEF Item, BoxRow
  <1>6. IF narrow /\ Len(menu[k]) = 2 THEN rows = <<first, second>> ELSE rows = <<whole>>
    BY DEF ItemDrawn
  <1> HIDE DEF whole, first, second, rows
  <1>7. CASE narrow /\ Len(menu[k]) = 2
    <2>1. rows = <<first, second>> /\ second \in DrawnRow /\ MenuRow(menu, second)
      BY <1>3, <1>4, <1>6, <1>7
    <2>2. rows \in Seq(DrawnRow) /\ rows # <<>> /\ rows[1] = first
      BY <1>3, <2>1
    <2>3. \A row : Contains(rows, row) => MenuRow(menu, row)
      BY <1>4, <2>1 DEF Contains
    <2>4. <<menu[k][1]>> # <<>> /\ <<menu[k][1]>>[1] = menu[k][1]
      OBVIOUS
    <2>5. QED
      BY <1>5, <2>2, <2>3, <2>4 DEF rows
  <1>8. CASE ~(narrow /\ Len(menu[k]) = 2)
    <2>1. rows = <<whole>>
      BY <1>6, <1>8
    <2>2. rows \in Seq(DrawnRow) /\ rows # <<>> /\ rows[1] = whole
      BY <1>3, <2>1
    <2>3. \A row : Contains(rows, row) => MenuRow(menu, row)
      BY <1>4, <2>1 DEF Contains
    <2>4. QED
      BY <1>2, <1>5, <2>2, <2>3 DEF rows
  <1>9. QED
    BY <1>7, <1>8

(* The rows of a menu are its items' rows, the first item's first.          *)
LEMMA MenuIsDrawn ==
  ASSUME NEW menu \in Seq(ClaudeLabels \cup CodexLabels), menu # <<>>
  PROVE  /\ MenuDrawn(menu) \in Seq(DrawnRow) /\ Len(MenuDrawn(menu)) \in Nat \ {0}
         /\ MenuDrawn(menu)[1].words # <<>> /\ MenuDrawn(menu)[1].words[1] = menu[1][1]
         /\ MenuDrawn(menu)[1].shape = "item" /\ MenuDrawn(menu)[1].n = 1
         /\ \A i \in 1..Len(MenuDrawn(menu)) : MenuRow(menu, MenuDrawn(menu)[i])
  <1> DEFINE seqs == [k \in DOMAIN menu |-> ItemDrawn(menu, k)]
             rows == MenuDrawn(menu)
  <1>1. rows = FlattenSeq(seqs)
    BY DEF MenuDrawn
  <1>2. DOMAIN menu = 1..Len(menu) /\ Len(menu) \in Nat \ {0} /\ 1 \in DOMAIN menu
    OBVIOUS
  <1>3. /\ seqs \in Seq(Seq(DrawnRow)) /\ Len(seqs) = Len(menu)
        /\ \A k \in DOMAIN menu : seqs[k] = ItemDrawn(menu, k)
    BY <1>2, ItemIsDrawn
  <1> HIDE DEF seqs
  <1>4. seqs # <<>> /\ seqs[1] # <<>> /\ seqs[1] \in Seq(DrawnRow)
    <2>1. seqs[1] = ItemDrawn(menu, 1)
      BY <1>2, <1>3
    <2>2. ItemDrawn(menu, 1) \in Seq(DrawnRow) /\ ItemDrawn(menu, 1) # <<>>
      BY <1>2, ItemIsDrawn
    <2>3. QED
      BY <1>2, <1>3, <2>1, <2>2
  <1>5. /\ rows \in Seq(DrawnRow)
        /\ Len(rows) >= Len(seqs[1])
        /\ rows[1] = seqs[1][1]
        /\ \A row : Contains(rows, row) => \E i \in 1..Len(seqs) : Contains(seqs[i], row)
    BY <1>1, <1>3, <1>4, Flattened
  <1> HIDE DEF rows
  <1>6. Len(rows) \in Nat \ {0}
    <2>1. Len(seqs[1]) \in Nat \ {0} /\ Len(rows) \in Nat
      BY <1>4, <1>5
    <2>2. QED
      BY <1>5, <2>1
  <1>7. ASSUME NEW i \in 1..Len(rows) PROVE MenuRow(menu, rows[i])
    <2>1. Contains(rows, rows[i])
      BY DEF Contains
    <2>2. PICK k \in 1..Len(seqs) : Contains(seqs[k], rows[i])
      BY <1>5, <2>1
    <2>3. k \in DOMAIN menu /\ Contains(ItemDrawn(menu, k), rows[i])
      BY <1>2, <1>3, <2>2
    <2>4. QED
      BY <2>3, ItemIsDrawn
  <1>8. /\ rows[1].words # <<>> /\ rows[1].words[1] = menu[1][1]
        /\ rows[1].shape = "item" /\ rows[1].n = 1
    <2>1. rows[1] = ItemDrawn(menu, 1)[1]
      BY <1>2, <1>3, <1>5
    <2>2. QED
      BY <1>2, <2>1, ItemIsDrawn
  <1>9. QED
    BY <1>5, <1>6, <1>7, <1>8 DEF rows

(* Drawing, its parts written out.                                          *)
LEMMA DrawingIs ==
  ASSUME NEW r
  PROVE  /\ r.provider = "claude" =>
              Drawing(r) = <<Other("rule")>> \o <<Wrapped(<<r.command>>), r.mimic>>
               \o (IF r.hidden THEN <<Other("dashed"), Other("explanation")>> ELSE <<>>)
               \o <<Other("question")>> \o MenuDrawn(r.menu) \o <<Other("blank"), Other("footer")>>
         /\ r.provider = "codex" =>
              Drawing(r) =
                (IF narrow /\ Len(r.title) = 2
                   THEN <<BoxRow("title", 0, <<r.title[1]>>, FALSE), Wrapped(<<r.title[2]>>)>>
                   ELSE <<BoxRow("title", 0, r.title, FALSE)>>)
               \o (IF r.hidden THEN <<Other("clipped"), r.mimic>> ELSE <<Wrapped(<<r.command>>), r.mimic>>)
               \o <<Other("blank")>> \o MenuDrawn(r.menu) \o <<Other("blank")>>
               \o (IF narrow /\ Len(Footer) = 2
                   THEN <<BoxRow("footer", 0, <<Footer[1]>>, FALSE), Wrapped(<<Footer[2]>>)>>
                   ELSE <<BoxRow("footer", 0, Footer, FALSE)>>)
  BY Zenon DEF Drawing, Drawn, Preview, MenuDrawn, ItemDrawn

(* rows is u and then v.                                                   *)
Joins(rows, u, v) ==
  /\ Len(rows) = Len(u) + Len(v)
  /\ \A i \in 1..Len(u) : rows[i] = u[i]
  /\ \A i \in 1..Len(v) : rows[Len(u) + i] = v[i]

LEMMA TwoParts ==
  ASSUME NEW T, NEW u \in Seq(T), NEW v \in Seq(T)
  PROVE  u \o v \in Seq(T) /\ Joins(u \o v, u, v)
  <1>1. /\ u \o v \in Seq(T) /\ Len(u \o v) = Len(u) + Len(v)
        /\ \A i \in 1..Len(u) + Len(v) : (u \o v)[i] = IF i <= Len(u) THEN u[i] ELSE v[i - Len(u)]
    BY ConcatProperties
  <1>2. Len(u) \in Nat /\ Len(v) \in Nat
    OBVIOUS
  <1>3. ASSUME NEW i \in 1..Len(v) PROVE (u \o v)[Len(u) + i] = v[i]
    <2>1. Len(u) + i \in 1..Len(u) + Len(v) /\ ~(Len(u) + i <= Len(u)) /\ Len(u) + i - Len(u) = i
      BY <1>2
    <2>2. QED
      BY <1>1, <2>1
  <1>4. ASSUME NEW i \in 1..Len(u) PROVE (u \o v)[i] = u[i]
    <2>1. i \in 1..Len(u) + Len(v) /\ i <= Len(u)
      BY <1>2
    <2>2. QED
      BY <1>1, <2>1
  <1>5. QED
    BY <1>1, <1>3, <1>4 DEF Joins

JoinsSix(rows, a, b, c, d, e, f) ==
  /\ Len(rows) = Len(a) + Len(b) + Len(c) + Len(d) + Len(e) + Len(f)
  /\ \A i \in 1..Len(a) : rows[i] = a[i]
  /\ \A i \in 1..Len(b) : rows[Len(a) + i] = b[i]
  /\ \A i \in 1..Len(c) : rows[Len(a) + Len(b) + i] = c[i]
  /\ \A i \in 1..Len(d) : rows[Len(a) + Len(b) + Len(c) + i] = d[i]
  /\ \A i \in 1..Len(e) : rows[Len(a) + Len(b) + Len(c) + Len(d) + i] = e[i]
  /\ \A i \in 1..Len(f) : rows[Len(a) + Len(b) + Len(c) + Len(d) + Len(e) + i] = f[i]

LEMMA SixParts ==
  ASSUME NEW T, NEW a \in Seq(T), NEW b \in Seq(T), NEW c \in Seq(T), NEW d \in Seq(T),
         NEW e \in Seq(T), NEW f \in Seq(T)
  PROVE  LET rows == a \o b \o c \o d \o e \o f
         IN  rows \in Seq(T) /\ JoinsSix(rows, a, b, c, d, e, f)
  <1> DEFINE ab == a \o b
             abc == ab \o c
             abcd == abc \o d
             abcde == abcd \o e
             rows == abcde \o f
  <1>1. ab \in Seq(T) /\ Joins(ab, a, b)
    BY TwoParts
  <1> HIDE DEF ab
  <1>3. abc \in Seq(T) /\ Joins(abc, ab, c)
    BY <1>1, TwoParts
  <1> HIDE DEF abc
  <1>4. abcd \in Seq(T) /\ Joins(abcd, abc, d)
    BY <1>3, TwoParts
  <1> HIDE DEF abcd
  <1>5. abcde \in Seq(T) /\ Joins(abcde, abcd, e)
    BY <1>4, TwoParts
  <1> HIDE DEF abcde
  <1>6. rows \in Seq(T) /\ Joins(rows, abcde, f)
    BY <1>5, TwoParts
  <1> HIDE DEF rows
  <1> USE DEF Joins
  <1>7. /\ Len(a) \in Nat /\ Len(b) \in Nat /\ Len(c) \in Nat
        /\ Len(d) \in Nat /\ Len(e) \in Nat /\ Len(f) \in Nat
    OBVIOUS
  <1>8. /\ Len(ab) = Len(a) + Len(b) /\ Len(abc) = Len(a) + Len(b) + Len(c)
        /\ Len(abcd) = Len(a) + Len(b) + Len(c) + Len(d)
        /\ Len(abcde) = Len(a) + Len(b) + Len(c) + Len(d) + Len(e)
        /\ Len(rows) = Len(a) + Len(b) + Len(c) + Len(d) + Len(e) + Len(f)
    BY <1>1, <1>3, <1>4, <1>5, <1>6, <1>7
  <1>9. \A i \in 1..Len(abcd) : rows[i] = abcd[i]
    <2>1. \A i \in 1..Len(abcd) : i \in 1..Len(abcde)
      BY <1>7, <1>8
    <2>2. QED
      BY <1>5, <1>6, <2>1
  <1>10. \A i \in 1..Len(abc) : rows[i] = abc[i]
    <2>1. \A i \in 1..Len(abc) : i \in 1..Len(abcd)
      BY <1>7, <1>8
    <2>2. QED
      BY <1>4, <1>9, <2>1
  <1>11. \A i \in 1..Len(ab) : rows[i] = ab[i]
    <2>1. \A i \in 1..Len(ab) : i \in 1..Len(abc)
      BY <1>7, <1>8
    <2>2. QED
      BY <1>3, <1>10, <2>1
  <1>12. /\ \A i \in 1..Len(a) : i \in 1..Len(ab)
         /\ \A i \in 1..Len(b) : Len(a) + i \in 1..Len(ab)
         /\ \A i \in 1..Len(c) : Len(ab) + i \in 1..Len(abc)
         /\ \A i \in 1..Len(d) : Len(abc) + i \in 1..Len(abcd)
         /\ \A i \in 1..Len(e) : Len(abcd) + i \in 1..Len(abcde)
    BY <1>7, <1>8
  <1>13. \A i \in 1..Len(a) : rows[i] = a[i]
    BY <1>1, <1>11, <1>12
  <1>14. \A i \in 1..Len(b) : rows[Len(a) + i] = b[i]
    BY <1>1, <1>11, <1>12
  <1>15. \A i \in 1..Len(c) : rows[Len(ab) + i] = c[i]
    BY <1>3, <1>10, <1>12
  <1>16. \A i \in 1..Len(d) : rows[Len(abc) + i] = d[i]
    BY <1>4, <1>9, <1>12
  <1>17. \A i \in 1..Len(e) : rows[Len(abcd) + i] = e[i]
    BY <1>5, <1>6, <1>12
  <1>18. QED
    <2>1. rows \in Seq(T) /\ JoinsSix(rows, a, b, c, d, e, f)
      BY <1>6, <1>8, <1>13, <1>14, <1>15, <1>16, <1>17 DEF JoinsSix
    <2>2. QED
      BY <2>1 DEF rows, abcde, abcd, abc, ab

HiddenRows(r) == IF r.hidden THEN 2 ELSE 0
TitleRows(r) == IF narrow /\ Len(r.title) = 2 THEN 2 ELSE 1
FooterRows == IF narrow THEN 2 ELSE 1

LEMMA RowsAre ==
  /\ \A shape \in DrawnShape : Other(shape) \in DrawnRow /\ Other(shape).shape = shape
                          /\ Other(shape).words = <<>> /\ Other(shape).on = FALSE
  /\ \A words \in Seq(DrawnWord) : Wrapped(words) \in DrawnRow /\ Wrapped(words).shape = "text"
                              /\ Wrapped(words).words = words /\ Wrapped(words).on = FALSE
  /\ \A p \in {"claude", "codex"} : Mimics(p) \subseteq DrawnRow
  <1>1. \A shape \in DrawnShape : Other(shape) \in DrawnRow /\ Other(shape).shape = shape
                             /\ Other(shape).words = <<>> /\ Other(shape).on = FALSE
    <2>1. <<>> \in Seq(DrawnWord) /\ 0 \in Nat /\ FALSE \in BOOLEAN
      OBVIOUS
    <2>2. QED
      BY <2>1 DEF Other, BoxRow, DrawnRow
  <1>2. \A words \in Seq(DrawnWord) : Wrapped(words) \in DrawnRow /\ Wrapped(words).shape = "text"
                                 /\ Wrapped(words).words = words /\ Wrapped(words).on = FALSE
    BY DEF Wrapped, BoxRow, DrawnRow, DrawnShape
  <1>3. Mimics("claude") \subseteq DrawnRow
    <2>1. Yes \in Seq(DrawnWord)
      BY LabelsAre DEF ClaudeLabels
    <2>2. Item(1, Yes, TRUE) \in DrawnRow
      BY <2>1 DEF Item, BoxRow, DrawnRow, DrawnShape
    <2>3. {"question", "rule", "text"} \subseteq DrawnShape
      BY DEF DrawnShape
    <2>4. QED
      BY <1>1, <2>2, <2>3 DEF Mimics
  <1>4. Mimics("codex") \subseteq DrawnRow
    <2>1. Proceed \in Seq(DrawnWord)
      BY LabelsAre DEF CodexLabels
    <2>2. Item(1, Proceed, TRUE) \in DrawnRow
      BY <2>1 DEF Item, BoxRow, DrawnRow, DrawnShape
    <2>3. {"clipped", "text"} \subseteq DrawnShape
      BY DEF DrawnShape
    <2>4. <<"edits">> \in Seq(DrawnWord)
      BY DEF DrawnWord
    <2>5. BoxRow("title", 0, <<"edits">>, FALSE) \in DrawnRow
      BY <2>4 DEF BoxRow, DrawnRow, DrawnShape
    <2>6. QED
      BY <1>1, <2>2, <2>3, <2>5 DEF Mimics
  <1>5. QED
    BY <1>1, <1>2, <1>3, <1>4

(* Where each row of a request of Claude stands.                            *)
ClaudeLaidOut(r, rows, h, menu) ==
  /\ rows \in Seq(DrawnRow) /\ Len(menu) \in Nat \ {0} /\ Len(rows) = h + Len(menu) + 6
  /\ rows[1] = Other("rule") /\ rows[2] = Wrapped(<<r.command>>) /\ rows[3] = r.mimic
  /\ r.hidden => rows[4] = Other("dashed") /\ rows[5] = Other("explanation")
  /\ rows[h + 4] = Other("question")
  /\ \A i \in 1..Len(menu) : rows[h + 4 + i] = menu[i]
  /\ rows[h + Len(menu) + 5] = Other("blank") /\ rows[h + Len(menu) + 6] = Other("footer")

LEMMA ClaudeLayout ==
  ASSUME NEW r \in Requests, r.provider = "claude"
  PROVE  ClaudeLaidOut(r, Drawing(r), HiddenRows(r), MenuDrawn(r.menu))
  <1> DEFINE h == HiddenRows(r)
             menu == MenuDrawn(r.menu)
             rows == Drawing(r)
  <1>1. /\ r.menu \in Menus("claude") /\ r.command \in Commands /\ r.mimic \in Mimics("claude")
        /\ r.hidden \in BOOLEAN
    BY RequestsAre
  <1>2. r.menu \in Seq(ClaudeLabels \cup CodexLabels) /\ r.menu # <<>>
    <2>1. r.menu \in Seq(ClaudeLabels) /\ r.menu # <<>>
      BY <1>1, MenusAre
    <2>2. QED
      BY <2>1
  <1>3. menu \in Seq(DrawnRow) /\ Len(menu) \in Nat \ {0}
    BY <1>2, MenuIsDrawn
  <1>4. Wrapped(<<r.command>>) \in DrawnRow /\ r.mimic \in DrawnRow
    <2>1. <<r.command>> \in Seq(DrawnWord)
      BY <1>1 DEF DrawnWord
    <2>2. QED
      BY <1>1, <2>1, RowsAre
  <1>5. /\ Other("rule") \in DrawnRow /\ Other("dashed") \in DrawnRow /\ Other("explanation") \in DrawnRow
        /\ Other("question") \in DrawnRow /\ Other("blank") \in DrawnRow /\ Other("footer") \in DrawnRow
    BY RowsAre DEF DrawnShape
  <1> DEFINE a == <<Other("rule")>>
             b == <<Wrapped(<<r.command>>), r.mimic>>
             c == IF r.hidden THEN <<Other("dashed"), Other("explanation")>> ELSE <<>>
             d == <<Other("question")>>
             f == <<Other("blank"), Other("footer")>>
  <1>6. rows = a \o b \o c \o d \o menu \o f
    BY DrawingIs
  <1>7. /\ a \in Seq(DrawnRow) /\ Len(a) = 1 /\ a[1] = Other("rule")
        /\ b \in Seq(DrawnRow) /\ Len(b) = 2 /\ b[1] = Wrapped(<<r.command>>) /\ b[2] = r.mimic
        /\ d \in Seq(DrawnRow) /\ Len(d) = 1 /\ d[1] = Other("question")
        /\ f \in Seq(DrawnRow) /\ Len(f) = 2 /\ f[1] = Other("blank") /\ f[2] = Other("footer")
    BY <1>4, <1>5
  <1>8. c \in Seq(DrawnRow) /\ Len(c) = h /\ (r.hidden => c[1] = Other("dashed") /\ c[2] = Other("explanation"))
    <2>1. CASE r.hidden
      <3>1. c = <<Other("dashed"), Other("explanation")>> /\ h = 2
        BY <2>1 DEF HiddenRows
      <3> HIDE DEF c
      <3>2. QED
        BY <1>5, <3>1
    <2>2. CASE ~r.hidden
      <3>1. c = <<>> /\ h = 0
        BY <2>2 DEF HiddenRows
      <3> HIDE DEF c
      <3>2. QED
        BY <2>2, <3>1
    <2>3. QED
      BY <2>1, <2>2
  <1> HIDE DEF a, b, c, d, f, menu, rows
  <1>9. rows \in Seq(DrawnRow) /\ JoinsSix(rows, a, b, c, d, menu, f)
    BY <1>3, <1>6, <1>7, <1>8, SixParts
  <1>10. h \in {0, 2} /\ (r.hidden => h = 2)
    BY DEF HiddenRows
  <1> HIDE DEF h
  <1> DEFINE m == Len(menu)
  <1>11. m \in Nat \ {0}
    BY <1>3
  <1> HIDE DEF m
  <1>12. /\ Len(rows) = 1 + 2 + h + 1 + m + 2
         /\ \A i \in 1..1 : rows[i] = a[i]
         /\ \A i \in 1..2 : rows[1 + i] = b[i]
         /\ \A i \in 1..h : rows[1 + 2 + i] = c[i]
         /\ \A i \in 1..1 : rows[1 + 2 + h + i] = d[i]
         /\ \A i \in 1..m : rows[1 + 2 + h + 1 + i] = menu[i]
         /\ \A i \in 1..2 : rows[1 + 2 + h + 1 + m + i] = f[i]
    BY <1>7, <1>8, <1>9 DEF JoinsSix, m
  <1>13. rows[1] = a[1] /\ rows[2] = b[1] /\ rows[3] = b[2]
    BY <1>12
  <1>14. r.hidden => rows[4] = c[1] /\ rows[5] = c[2]
    BY <1>10, <1>12
  <1>15. rows[h + 4] = d[1]
    <2>1. 1 + 2 + h + 1 = h + 4
      BY <1>10
    <2>2. QED
      BY <1>12, <2>1
  <1>16. \A i \in 1..m : rows[h + 4 + i] = menu[i]
    <2>1. \A i \in 1..m : 1 + 2 + h + 1 + i = h + 4 + i
      BY <1>10, <1>11
    <2>2. QED
      BY <1>12, <2>1
  <1>17. rows[h + m + 5] = f[1] /\ rows[h + m + 6] = f[2]
    <2>1. 1 + 2 + h + 1 + m + 1 = h + m + 5 /\ 1 + 2 + h + 1 + m + 2 = h + m + 6
      BY <1>10, <1>11
    <2>2. QED
      BY <1>12, <2>1
  <1>18. Len(rows) = h + m + 6
    BY <1>10, <1>11, <1>12
  <1>19. QED
    <2>1. ClaudeLaidOut(r, rows, h, menu)
      BY <1>3, <1>7, <1>8, <1>9, <1>13, <1>14, <1>15, <1>16, <1>17, <1>18 DEF m, ClaudeLaidOut
    <2>2. QED
      BY <2>1 DEF rows, h, menu

LEMMA TitlesAre ==
  \A title \in Titles \cup {<<"form">>} :
    /\ title \in Seq(DrawnWord) /\ Len(title) \in 1..2 /\ title # <<>>
    /\ title[1] \in DrawnWord /\ (Len(title) = 2 => title[2] \in DrawnWord)
  <1> DEFINE OK(title) == /\ title \in Seq(DrawnWord) /\ Len(title) \in 1..2 /\ title # <<>>
                          /\ title[1] \in DrawnWord /\ (Len(title) = 2 => title[2] \in DrawnWord)
  <1>1. ASSUME NEW x \in DrawnWord PROVE OK(<<x>>)
    OBVIOUS
  <1>2. ASSUME NEW x \in DrawnWord, NEW y \in DrawnWord PROVE OK(<<x, y>>)
    OBVIOUS
  <1>3. {"run", "command", "edits", "input", "network", "host", "permissions", "form"} \subseteq DrawnWord
    BY DEF DrawnWord
  <1> HIDE DEF OK
  <1>4. /\ OK(<<"run", "command">>) /\ OK(<<"edits">>) /\ OK(<<"input">>)
        /\ OK(<<"network", "host">>) /\ OK(<<"permissions">>) /\ OK(<<"form">>)
    BY <1>1, <1>2, <1>3
  <1>5. \A title \in Titles \cup {<<"form">>} : OK(title)
    BY <1>4 DEF Titles
  <1>6. QED
    BY <1>5 DEF OK

(* Where each row of a request of Codex stands.                             *)
CodexLaidOut(r, rows, t, menu) ==
  /\ rows \in Seq(DrawnRow) /\ Len(menu) \in Nat \ {0} /\ Len(rows) = t + Len(menu) + FooterRows + 4
  /\ t = 1 => rows[1] = BoxRow("title", 0, r.title, FALSE)
  /\ t = 2 => /\ rows[1] = BoxRow("title", 0, <<r.title[1]>>, FALSE)
              /\ rows[2] = Wrapped(<<r.title[2]>>)
  /\ rows[t + 1] = IF r.hidden THEN Other("clipped") ELSE Wrapped(<<r.command>>)
  /\ rows[t + 2] = r.mimic /\ rows[t + 3] = Other("blank")
  /\ \A i \in 1..Len(menu) : rows[t + 3 + i] = menu[i]
  /\ rows[t + Len(menu) + 4] = Other("blank")
  /\ narrow => /\ rows[t + Len(menu) + 5] = BoxRow("footer", 0, <<"press-enter">>, FALSE)
               /\ rows[t + Len(menu) + 6] = Wrapped(<<"or-esc">>)
  /\ ~narrow => rows[t + Len(menu) + 5] = BoxRow("footer", 0, Footer, FALSE)

LEMMA CodexLayout ==
  ASSUME NEW r \in Requests, r.provider = "codex", narrow \in BOOLEAN
  PROVE  CodexLaidOut(r, Drawing(r), TitleRows(r), MenuDrawn(r.menu))
  <1> DEFINE t == TitleRows(r)
             menu == MenuDrawn(r.menu)
             rows == Drawing(r)
  <1>1. /\ r.menu \in Menus("codex") /\ r.command \in Commands /\ r.mimic \in Mimics("codex")
        /\ r.hidden \in BOOLEAN /\ r.title \in Titles \cup {<<"form">>}
    BY RequestsAre
  <1>2. r.menu \in Seq(ClaudeLabels \cup CodexLabels) /\ r.menu # <<>>
    <2>1. r.menu \in Seq(CodexLabels) /\ r.menu # <<>>
      BY <1>1, MenusAre
    <2>2. QED
      BY <2>1
  <1>3. menu \in Seq(DrawnRow) /\ Len(menu) \in Nat \ {0}
    BY <1>2, MenuIsDrawn
  <1>4. Wrapped(<<r.command>>) \in DrawnRow /\ r.mimic \in DrawnRow
    <2>1. <<r.command>> \in Seq(DrawnWord)
      BY <1>1 DEF DrawnWord
    <2>2. QED
      BY <1>1, <2>1, RowsAre
  <1>5. Other("clipped") \in DrawnRow /\ Other("blank") \in DrawnRow
    BY RowsAre DEF DrawnShape
  <1>6. ASSUME NEW words \in Seq(DrawnWord)
        PROVE  BoxRow("title", 0, words, FALSE) \in DrawnRow /\ BoxRow("footer", 0, words, FALSE) \in DrawnRow
    BY DEF BoxRow, DrawnRow, DrawnShape
  <1>7. /\ r.title \in Seq(DrawnWord) /\ <<r.title[1]>> \in Seq(DrawnWord)
        /\ Len(r.title) = 2 => <<r.title[2]>> \in Seq(DrawnWord)
    BY <1>1, TitlesAre
  <1>8. /\ Footer \in Seq(DrawnWord) /\ Len(Footer) = 2 /\ <<Footer[1]>> \in Seq(DrawnWord) /\ <<Footer[2]>> \in Seq(DrawnWord)
        /\ Footer[1] = "press-enter" /\ Footer[2] = "or-esc"
    BY DEF Footer, DrawnWord
  <1> DEFINE whole == BoxRow("title", 0, r.title, FALSE)
             first == BoxRow("title", 0, <<r.title[1]>>, FALSE)
             second == Wrapped(<<r.title[2]>>)
             x == IF r.hidden THEN Other("clipped") ELSE Wrapped(<<r.command>>)
             a == IF narrow /\ Len(r.title) = 2
                    THEN <<BoxRow("title", 0, <<r.title[1]>>, FALSE), Wrapped(<<r.title[2]>>)>>
                    ELSE <<BoxRow("title", 0, r.title, FALSE)>>
             b == IF r.hidden THEN <<Other("clipped"), r.mimic>> ELSE <<Wrapped(<<r.command>>), r.mimic>>
             c == <<Other("blank")>>
             f == IF narrow /\ Len(Footer) = 2
                    THEN <<BoxRow("footer", 0, <<Footer[1]>>, FALSE), Wrapped(<<Footer[2]>>)>>
                    ELSE <<BoxRow("footer", 0, Footer, FALSE)>>
  <1>9. rows = a \o b \o c \o menu \o c \o f
    BY DrawingIs
  <1>10. c \in Seq(DrawnRow) /\ Len(c) = 1 /\ c[1] = Other("blank")
    BY <1>5
  <1>11. b \in Seq(DrawnRow) /\ Len(b) = 2 /\ b[1] = x /\ b[2] = r.mimic
    <2>1. b = <<x, r.mimic>> /\ x \in DrawnRow
      BY <1>4, <1>5
    <2> HIDE DEF b, x
    <2>2. QED
      BY <1>4, <2>1
  <1>12. /\ a \in Seq(DrawnRow) /\ Len(a) = t
         /\ t = 1 => a[1] = whole
         /\ t = 2 => a[1] = first /\ a[2] = second
    <2>1. CASE narrow /\ Len(r.title) = 2
      <3>1. a = <<first, second>> /\ t = 2
        BY <2>1 DEF TitleRows
      <3>2. first \in DrawnRow /\ second \in DrawnRow
        BY <1>6, <1>7, <2>1, RowsAre
      <3> HIDE DEF a, first, second, whole
      <3>3. a \in Seq(DrawnRow) /\ Len(a) = 2 /\ a[1] = first /\ a[2] = second
        BY <3>1, <3>2, OneOrTwo
      <3>4. t # 1
        BY <3>1
      <3>5. QED
        BY <3>1, <3>3, <3>4
    <2>2. CASE ~(narrow /\ Len(r.title) = 2)
      <3>1. a = <<whole>> /\ t = 1
        BY <2>2 DEF TitleRows
      <3>2. whole \in DrawnRow
        BY <1>6, <1>7
      <3> HIDE DEF a, first, second, whole
      <3>3. a \in Seq(DrawnRow) /\ Len(a) = 1 /\ a[1] = whole
        BY <3>1, <3>2, OneOrTwo
      <3>4. t # 2
        BY <3>1
      <3>5. QED
        BY <3>1, <3>3, <3>4
    <2>3. QED
      BY <2>1, <2>2
  <1>13. /\ f \in Seq(DrawnRow) /\ Len(f) = FooterRows
         /\ narrow => /\ f[1] = BoxRow("footer", 0, <<"press-enter">>, FALSE)
                      /\ f[2] = Wrapped(<<"or-esc">>)
         /\ ~narrow => f[1] = BoxRow("footer", 0, Footer, FALSE)
    <2>1. CASE narrow
      <3>1. f = <<BoxRow("footer", 0, <<"press-enter">>, FALSE), Wrapped(<<"or-esc">>)>> /\ FooterRows = 2
        BY <1>8, <2>1 DEF FooterRows
      <3>2. /\ BoxRow("footer", 0, <<"press-enter">>, FALSE) \in DrawnRow /\ Wrapped(<<"or-esc">>) \in DrawnRow
        <4>1. <<"press-enter">> \in Seq(DrawnWord) /\ <<"or-esc">> \in Seq(DrawnWord)
          BY <1>8
        <4>2. QED
          BY <1>6, <4>1, RowsAre
      <3> HIDE DEF f
      <3>3. f \in Seq(DrawnRow) /\ Len(f) = 2 /\ f[1] = BoxRow("footer", 0, <<"press-enter">>, FALSE)
            /\ f[2] = Wrapped(<<"or-esc">>)
        BY <3>1, <3>2, OneOrTwo
      <3>4. QED
        BY <2>1, <3>1, <3>3
    <2>2. CASE ~narrow
      <3>1. f = <<BoxRow("footer", 0, Footer, FALSE)>> /\ FooterRows = 1
        BY <2>2 DEF FooterRows
      <3>2. BoxRow("footer", 0, Footer, FALSE) \in DrawnRow
        BY <1>6, <1>8
      <3> HIDE DEF f
      <3>3. f \in Seq(DrawnRow) /\ Len(f) = 1 /\ f[1] = BoxRow("footer", 0, Footer, FALSE)
        BY <3>1, <3>2, OneOrTwo
      <3>4. QED
        BY <2>2, <3>1, <3>3
    <2>3. QED
      BY <2>1, <2>2
  <1> HIDE DEF a, b, c, f, x, menu, rows
  <1>14. rows \in Seq(DrawnRow) /\ JoinsSix(rows, a, b, c, menu, c, f)
    BY <1>3, <1>9, <1>10, <1>11, <1>12, <1>13, SixParts
  <1>15. t \in {1, 2} /\ FooterRows \in {1, 2} /\ (narrow => FooterRows = 2)
    BY DEF TitleRows, FooterRows
  <1> HIDE DEF t
  <1> DEFINE m == Len(menu)
             n == FooterRows
  <1>16. m \in Nat \ {0} /\ n \in {1, 2} /\ (narrow => n = 2)
    BY <1>3, <1>15
  <1> HIDE DEF m, n
  <1>17. /\ Len(rows) = t + 2 + 1 + m + 1 + n
         /\ \A i \in 1..t : rows[i] = a[i]
         /\ \A i \in 1..2 : rows[t + i] = b[i]
         /\ \A i \in 1..1 : rows[t + 2 + i] = c[i]
         /\ \A i \in 1..m : rows[t + 2 + 1 + i] = menu[i]
         /\ \A i \in 1..1 : rows[t + 2 + 1 + m + i] = c[i]
         /\ \A i \in 1..n : rows[t + 2 + 1 + m + 1 + i] = f[i]
    BY <1>10, <1>11, <1>12, <1>13, <1>14 DEF JoinsSix, m, n
  <1>18. rows[1] = a[1] /\ (t = 2 => rows[2] = a[2])
    BY <1>15, <1>17
  <1>19. rows[t + 1] = b[1] /\ rows[t + 2] = b[2]
    BY <1>15, <1>17
  <1>20. rows[t + 3] = c[1]
    <2>1. t + 2 + 1 = t + 3
      BY <1>15
    <2>2. QED
      BY <1>17, <2>1
  <1>21. \A i \in 1..m : rows[t + 3 + i] = menu[i]
    <2>1. \A i \in 1..m : t + 2 + 1 + i = t + 3 + i
      BY <1>15, <1>16
    <2>2. QED
      BY <1>17, <2>1
  <1>22. rows[t + m + 4] = c[1]
    <2>1. t + 2 + 1 + m + 1 = t + m + 4
      BY <1>15, <1>16
    <2>2. QED
      BY <1>17, <2>1
  <1>23. rows[t + m + 5] = f[1] /\ (narrow => rows[t + m + 6] = f[2])
    <2>1. t + 2 + 1 + m + 1 + 1 = t + m + 5 /\ t + 2 + 1 + m + 1 + 2 = t + m + 6
      BY <1>15, <1>16
    <2>2. 1 \in 1..n /\ (narrow => 2 \in 1..n)
      BY <1>16
    <2>3. QED
      BY <1>17, <2>1, <2>2
  <1>24. Len(rows) = t + m + n + 4
    BY <1>15, <1>16, <1>17
  <1>25. rows[t + 1] = IF r.hidden THEN Other("clipped") ELSE Wrapped(<<r.command>>)
    BY <1>11, <1>19 DEF x
  <1>26. /\ t = 1 => rows[1] = BoxRow("title", 0, r.title, FALSE)
         /\ t = 2 => rows[1] = BoxRow("title", 0, <<r.title[1]>>, FALSE) /\ rows[2] = Wrapped(<<r.title[2]>>)
    BY <1>12, <1>18
  <1>27. QED
    <2>1. CodexLaidOut(r, rows, t, menu)
      BY <1>3, <1>10, <1>11, <1>13, <1>14, <1>19, <1>20, <1>21, <1>22, <1>23, <1>24, <1>25, <1>26
         DEF m, n, CodexLaidOut
    <2>2. QED
      BY <2>1 DEF rows, t, menu

(* What is shown is what is drawn without the rows that do not fit above.  *)
Suffix(rows, drawn, above) ==
  /\ above < Len(drawn) /\ rows \in Seq(DrawnRow) /\ Len(rows) = Len(drawn) - above
  /\ \A i \in 1..Len(rows) : rows[i] = drawn[above + i]

LEMMA ShownIs ==
  ASSUME NEW r, Drawing(r) \in Seq(DrawnRow), Len(Drawing(r)) \in Nat \ {0}, rowsShown \in Nat \ {0}
  PROVE  \E above \in Nat : Suffix(Shown(r), Drawing(r), above)
  <1> DEFINE rows == Drawing(r)
             first == Max({1, Len(rows) - rowsShown + 1})
  <1>1. Shown(r) = SubSeq(rows, first, Len(rows))
    BY DEF Shown
  <1>2. first \in 1..Len(rows)
    <2>1. Len(rows) \in Nat \ {0} /\ Len(rows) - rowsShown + 1 \in Int
      OBVIOUS
    <2> HIDE DEF rows
    <2> DEFINE reach == Len(rows) - rowsShown + 1
    <2>2. reach \in Int /\ 1 \in Int /\ reach <= Len(rows)
      BY <2>1
    <2>3. first = Max({1, reach})
      OBVIOUS
    <2> HIDE DEF first, reach
    <2>4. first \in {1, reach} /\ first >= 1
      BY <2>2, <2>3, MaxOfTwo
    <2>5. QED
      BY <2>1, <2>2, <2>4
  <1> HIDE DEF first, rows
  <1>3. Len(rows) \in Nat /\ \A i \in first..Len(rows) : rows[i] \in DrawnRow
    BY <1>2 DEF rows
  <1>4. /\ Shown(r) \in Seq(DrawnRow) /\ Len(Shown(r)) = Len(rows) - first + 1
        /\ \A i \in 1..(Len(rows) - first + 1) : Shown(r)[i] = rows[first + i - 1]
    BY <1>1, <1>2, <1>3, SubSeqProperties
  <1>5. first - 1 \in Nat /\ first - 1 < Len(rows) /\ Len(Shown(r)) = Len(rows) - (first - 1)
    BY <1>2, <1>3, <1>4
  <1>6. \A i \in 1..Len(Shown(r)) : Shown(r)[i] = rows[(first - 1) + i]
    <2>1. \A i \in 1..Len(Shown(r)) : (first - 1) + i = first + i - 1 /\ i \in 1..(Len(rows) - first + 1)
      BY <1>2, <1>3, <1>4
    <2>2. QED
      BY <1>4, <2>1
  <1>7. QED
    BY <1>4, <1>5, <1>6 DEF rows, Suffix

LEMMA FilledIs ==
  ASSUME NEW rows \in Seq(DrawnRow)
  PROVE  /\ Filled(rows) \in 0..Len(rows)
         /\ Filled(rows) # 0 => rows[Filled(rows)].shape # "blank"
         /\ \A i \in 1..Len(rows) : rows[i].shape # "blank" => i <= Filled(rows)
  <1> DEFINE filled == {i \in DOMAIN rows : rows[i].shape # "blank"}
             S == {0} \cup filled
  <1>1. Len(rows) \in Nat /\ DOMAIN rows = 1..Len(rows)
    OBVIOUS
  <1>2. S \subseteq 0..Len(rows) /\ S # {}
    BY <1>1
  <1>3. Filled(rows) = Max(S)
    BY DEF Filled
  <1> HIDE DEF S
  <1>4. Filled(rows) \in S /\ \A y \in S : y <= Filled(rows)
    BY <1>1, <1>2, <1>3, MaxIsLargest
  <1>5. QED
    BY <1>1, <1>2, <1>4 DEF S

LEMMA MenuRowIs ==
  ASSUME NEW menu, NEW row, MenuRow(menu, row)
  PROVE  \E k \in DOMAIN menu :
           \/ /\ row.shape = "item" /\ row.n = k /\ (row.on <=> k = at)
              /\ row.words = menu[k] \/ row.words = <<menu[k][1]>>
           \/ row.shape = "text" /\ ~row.on /\ row.words = <<menu[k][2]>> /\ Len(menu[k]) = 2
  <1>1. PICK k \in DOMAIN menu :
          \/ row = Item(k, menu[k], k = at)
          \/ row = Item(k, <<menu[k][1]>>, k = at)
          \/ Len(menu[k]) = 2 /\ row = Wrapped(<<menu[k][2]>>)
    BY DEF MenuRow
  <1>2. CASE row = Item(k, menu[k], k = at)
    BY <1>2 DEF Item, BoxRow
  <1>3. CASE row = Item(k, <<menu[k][1]>>, k = at)
    BY <1>3 DEF Item, BoxRow
  <1>4. CASE Len(menu[k]) = 2 /\ row = Wrapped(<<menu[k][2]>>)
    BY <1>4 DEF Wrapped, BoxRow
  <1>5. QED
    BY <1>1, <1>2, <1>3, <1>4

-----------------------------------------------------------------------------
(* Enter grants one request: the item the cursor is on is the first that     *)
(* was asked, and it is the one that says yes once.                         *)

(* What was read as Claude's box has the cursor on a row that says yes,      *)
(* below a row that asks.                                                   *)
LEMMA ClaudeMenuIs ==
  ASSUME NEW rows \in Seq(DrawnRow), ClaudeBlock(rows) # NoBlock
  PROVE  \E yes \in 2..Len(rows) :
           /\ CursorOnYes(rows[yes]) /\ rows[yes - 1].shape = "question"
           /\ ClaudeBlock(rows) = FromRule(rows, yes - 1, Filled(rows))
  <1> DEFINE end == Filled(rows)
             last == Filled(SubSeq(rows, 1, end - 1))
             IsMenu(yes) == /\ CursorOnYes(rows[yes]) /\ rows[yes - 1].shape = "question"
                            /\ MiddleItems(Between(rows, yes, last), rows[last].n - 2)
             low == Max({2, end - MenuRows})
             menus == {yes \in low..(last - 1) : IsMenu(yes)}
  <1>1. menus # {} /\ ClaudeBlock(rows) = FromRule(rows, Max(menus) - 1, end)
    BY DEF ClaudeBlock, NoBlock
  <1> HIDE DEF IsMenu
  <1>2. end \in 0..Len(rows) /\ Len(rows) \in Nat
    BY FilledIs
  <1>3. last \in 0..(end - 1) \/ last = 0
    <2>1. CASE end = 0
      <3>1. SubSeq(rows, 1, end - 1) = <<>>
        BY <2>1, SubSeqEmpty
      <3>2. <<>> \in Seq(DrawnRow) /\ Len(<<>>) = 0
        OBVIOUS
      <3>3. last \in 0..0
        BY <3>1, <3>2, FilledIs
      <3>4. QED
        BY <3>3
    <2>2. CASE end # 0
      <3>1. \A i \in 1..(end - 1) : rows[i] \in DrawnRow
        BY <1>2
      <3>2. SubSeq(rows, 1, end - 1) \in Seq(DrawnRow) /\ Len(SubSeq(rows, 1, end - 1)) = end - 1
        <4> HIDE DEF end
        <4>1. end - 1 \in Int /\ (IF 1 <= end - 1 THEN end - 1 - 1 + 1 ELSE 0) = end - 1
          BY <1>2, <2>2
        <4>2. QED
          BY <3>1, <4>1, SubSeqProperties
      <3>3. QED
        BY <3>2, FilledIs
    <2>3. QED
      BY <2>1, <2>2
  <1>4. low \in Int /\ low >= 2
    <2> DEFINE reach == end - MenuRows
    <2>1. reach \in Int
      BY <1>2, BoxAssumption
    <2> HIDE DEF reach
    <2>0. 2 \in Int
      OBVIOUS
    <2>2. Max({2, reach}) \in {2, reach} /\ Max({2, reach}) >= 2
      BY <2>0, <2>1, MaxOfTwo
    <2>3. QED
      BY <2>1, <2>2 DEF reach
  <1> HIDE DEF end, last, low
  <1>5. menus \subseteq 2..Len(rows)
    BY <1>2, <1>3, <1>4
  <1>6. Max(menus) \in menus
    <2>1. menus \subseteq 0..Len(rows)
      BY <1>5
    <2> HIDE DEF menus
    <2>2. QED
      BY <1>1, <1>2, <2>1, MaxIsLargest
  <1>7. Max(menus) \in 2..Len(rows) /\ IsMenu(Max(menus))
    BY <1>5, <1>6
  <1> HIDE DEF menus
  <1>8. QED
    BY <1>1, <1>7 DEF IsMenu, end

(* Only the first item of the real menu stands right below a question: a     *)
(* preview holds one row that looks like a box, not two.                    *)
LEMMA ClaudeFirstItem ==
  ASSUME NEW r \in Requests, r.provider = "claude", NEW h, h = HiddenRows(r),
         NEW j \in 2..Len(Drawing(r)),
         CursorOnYes(Drawing(r)[j]), Drawing(r)[j - 1].shape = "question"
  PROVE  j = h + 5 /\ at = 1 /\ r.menu[1] = Yes
  <1> DEFINE menu == MenuDrawn(r.menu)
             rows == Drawing(r)
             m == Len(menu)
  <1>1. /\ rows \in Seq(DrawnRow) /\ Len(rows) = h + m + 6
        /\ rows[1] = Other("rule") /\ rows[2] = Wrapped(<<r.command>>) /\ rows[3] = r.mimic
        /\ r.hidden => rows[4] = Other("dashed") /\ rows[5] = Other("explanation")
        /\ rows[h + 4] = Other("question")
        /\ \A i \in 1..m : rows[h + 4 + i] = menu[i]
        /\ rows[h + m + 5] = Other("blank") /\ rows[h + m + 6] = Other("footer")
    BY ClaudeLayout DEF ClaudeLaidOut
  <1>2. r.menu \in Seq(ClaudeLabels) /\ r.menu # <<>> /\ r.menu[1] \in {Yes, YesAnd}
    BY RequestsAre, MenusAre
  <1>3. /\ m \in Nat \ {0}
        /\ \A i \in 1..m : MenuRow(r.menu, menu[i])
    BY <1>2, MenuIsDrawn
  <1>4. h \in {0, 2} /\ (h = 2 => r.hidden)
    BY DEF HiddenRows
  <1>5. rows[j].shape = "item" /\ rows[j].n = 1 /\ rows[j].words = Yes /\ rows[j].on
    BY DEF CursorOnYes
  <1>6. rows[j - 1].shape = "question"
    OBVIOUS
  <1> HIDE DEF menu, rows, m
  <1>7. /\ Other("rule").shape = "rule" /\ Other("dashed").shape = "dashed"
        /\ Other("explanation").shape = "explanation" /\ Other("question").shape = "question"
        /\ Other("blank").shape = "blank" /\ Other("footer").shape = "footer"
        /\ Wrapped(<<r.command>>).shape = "text"
    BY DEF Other, Wrapped, BoxRow
  <1>8. j \in 2..(h + m + 6)
    BY <1>1 DEF rows
  <1>9. j - h - 4 \in 1..m
    <2>1. j # 2 /\ j # 3
      BY <1>1, <1>5, <1>6, <1>7
    <2>2. h = 2 => j # 4 /\ j # 5
      BY <1>1, <1>4, <1>5, <1>7
    <2>3. j # h + 4 /\ j # h + m + 5 /\ j # h + m + 6
      BY <1>1, <1>5, <1>7
    <2>4. CASE h = 0
      <3>1. j \in 2..(m + 6) /\ j \notin {2, 3, 4, m + 5, m + 6}
        BY <1>3, <1>8, <2>1, <2>3, <2>4
      <3>2. j - 4 \in 1..m /\ j - h - 4 = j - 4
        BY <1>3, <2>4, <3>1
      <3>3. QED
        BY <3>2
    <2>5. CASE h = 2
      <3>1. j \in 2..(m + 8) /\ j \notin {2, 3, 4, 5, 6, m + 7, m + 8}
        BY <1>3, <1>8, <2>1, <2>2, <2>3, <2>5
      <3>2. j - 6 \in 1..m /\ j - h - 4 = j - 6
        BY <1>3, <2>5, <3>1
      <3>3. QED
        BY <3>2
    <2>6. QED
      BY <1>4, <2>4, <2>5
  <1> DEFINE i == j - h - 4
  <1>10. rows[j] = menu[i] /\ MenuRow(r.menu, menu[i])
    <2>1. i \in 1..m /\ h + 4 + i = j
      BY <1>4, <1>8, <1>9
    <2> HIDE DEF i
    <2>2. QED
      BY <1>1, <1>3, <2>1
  <1>11. PICK k \in DOMAIN r.menu :
           \/ /\ rows[j].shape = "item" /\ rows[j].n = k /\ (rows[j].on <=> k = at)
              /\ rows[j].words = r.menu[k] \/ rows[j].words = <<r.menu[k][1]>>
           \/ rows[j].shape = "text"
    BY <1>10, MenuRowIs
  <1>12. k = 1 /\ at = 1
    BY <1>5, <1>11
  <1>13. Yes = r.menu[1] \/ Yes = <<r.menu[1][1]>>
    BY <1>5, <1>11, <1>12
  <1>14. r.menu[1] = Yes
    <2>1. Yes # <<YesAnd[1]>> /\ Yes # YesAnd
      BY DEF Yes, YesAnd
    <2>2. QED
      BY <1>2, <1>13, <2>1
  <1>15. i = 1
    <2> SUFFICES ASSUME i # 1 PROVE FALSE
      OBVIOUS
    <2>1. i - 1 \in 1..m /\ h + 4 + (i - 1) = j - 1
      <3>1. j \in Nat /\ h \in Nat /\ m \in Nat /\ i \in 1..m
        BY <1>3, <1>4, <1>9
      <3>2. h + 4 + (i - 1) = j - 1
        BY <3>1
      <3> HIDE DEF i
      <3>3. i - 1 \in 1..m
        BY <3>1
      <3>4. QED
        BY <3>2, <3>3
    <2>2. rows[j - 1] = menu[i - 1] /\ MenuRow(r.menu, menu[i - 1])
      <3> HIDE DEF i
      <3>1. QED
        BY <1>1, <1>3, <2>1
    <2>3. rows[j - 1].shape \in {"item", "text"}
      BY <2>2, MenuRowIs
    <2>4. QED
      BY <1>6, <2>3
  <1>16. QED
    BY <1>4, <1>8, <1>12, <1>14, <1>15

LEMMA ClaudeSaysYesOnce ==
  ASSUME NEW r \in Requests, r.provider = "claude", rowsShown \in Nat \ {0}, ClaudeBlock(Shown(r)) # NoBlock
  PROVE  at = 1 /\ r.menu[1] = Yes
  <1> DEFINE rows == Shown(r)
             m == Len(MenuDrawn(r.menu))
  <1>1. Drawing(r) \in Seq(DrawnRow) /\ Len(Drawing(r)) \in Nat \ {0}
    <2>1. ClaudeLaidOut(r, Drawing(r), HiddenRows(r), MenuDrawn(r.menu)) /\ HiddenRows(r) \in Nat
      BY ClaudeLayout DEF HiddenRows
    <2>2. QED
      BY <2>1 DEF ClaudeLaidOut
  <1>2. PICK above \in Nat :
          /\ above < Len(Drawing(r)) /\ rows \in Seq(DrawnRow) /\ Len(rows) = Len(Drawing(r)) - above
          /\ \A i \in 1..Len(rows) : rows[i] = Drawing(r)[above + i]
    BY <1>1, ShownIs DEF Suffix
  <1>3. PICK yes \in 2..Len(rows) : CursorOnYes(rows[yes]) /\ rows[yes - 1].shape = "question"
    BY <1>2, ClaudeMenuIs
  <1> HIDE DEF rows
  <1> DEFINE j == above + yes
  <1>4. /\ j \in 2..Len(Drawing(r)) /\ yes \in 1..Len(rows) /\ yes - 1 \in 1..Len(rows)
        /\ above + (yes - 1) = j - 1
    <2> DEFINE n == Len(rows)
               d == Len(Drawing(r))
    <2>1. n = d - above /\ d \in Nat /\ yes \in 2..n
      BY <1>1, <1>2
    <2> HIDE DEF n, d
    <2>2. yes \in Nat /\ 2 <= yes /\ yes <= n /\ n \in Nat
      BY <2>1
    <2>3. j \in 2..d /\ above + (yes - 1) = j - 1
      BY <2>1, <2>2
    <2>4. yes \in 1..n /\ yes - 1 \in 1..n
      BY <2>2
    <2>5. QED
      BY <2>3, <2>4 DEF n, d
  <1>5. CursorOnYes(Drawing(r)[j]) /\ Drawing(r)[j - 1].shape = "question"
    BY <1>2, <1>3, <1>4
  <1> HIDE DEF j
  <1>6. QED
    BY <1>4, <1>5, ClaudeFirstItem

LEMMA JoinedIs ==
  ASSUME NEW rows \in Seq(DrawnRow), NEW low \in 1..Len(rows), NEW high \in low..Len(rows)
  PROVE  /\ Joined(SubSeq(rows, low, high)) \in Seq(DrawnWord)
         /\ rows[low].words # <<>> => Joined(SubSeq(rows, low, high))[1] = rows[low].words[1]
         /\ high = low => Joined(SubSeq(rows, low, high)) = rows[low].words
         /\ high = low + 1 => Joined(SubSeq(rows, low, high)) = rows[low].words \o rows[high].words
  <1> DEFINE part == SubSeq(rows, low, high)
             seqs == [i \in DOMAIN part |-> part[i].words]
  <1>1. /\ part \in Seq(DrawnRow) /\ Len(part) = high - low + 1
        /\ \A i \in 1..(high - low + 1) : part[i] = rows[low + i - 1]
    <2>1. low \in Int /\ high \in Int /\ low <= high /\ \A i \in low..high : rows[i] \in DrawnRow
      OBVIOUS
    <2>2. QED
      BY <2>1, SubSeqProperties
  <1>2. Joined(SubSeq(rows, low, high)) = FlattenSeq(seqs)
    BY DEF Joined
  <1> HIDE DEF part
  <1>3. /\ seqs \in Seq(Seq(DrawnWord)) /\ Len(seqs) = Len(part)
        /\ \A i \in 1..Len(part) : seqs[i] = part[i].words
    <2>1. \A i \in DOMAIN part : part[i].words \in Seq(DrawnWord)
      <3>1. \A row \in DrawnRow : row.words \in Seq(DrawnWord)
        BY DEF DrawnRow
      <3>2. \A i \in DOMAIN part : part[i] \in DrawnRow
        BY <1>1
      <3>3. QED
        BY <3>1, <3>2
    <2>2. DOMAIN part = 1..Len(part) /\ Len(part) \in Nat
      BY <1>1
    <2>3. QED
      BY <2>1, <2>2
  <1> HIDE DEF seqs
  <1>4. Len(seqs) \in Nat \ {0} /\ Len(seqs) = high - low + 1
    BY <1>1, <1>3
  <1>5. PICK f : /\ f[1] = seqs[1]
                 /\ \A i \in 2..Len(seqs) : f[i] = f[i - 1] \o seqs[i]
                 /\ FlattenSeq(seqs) = f[Len(seqs)]
    BY <1>4, FlattenIs
  <1>6. seqs[1] = rows[low].words
    <2>1. 1 \in 1..(high - low + 1) /\ low + 1 - 1 = low
      OBVIOUS
    <2>2. QED
      BY <1>1, <1>3, <2>1
  <1>7. high = low => FlattenSeq(seqs) = rows[low].words
    BY <1>4, <1>5, <1>6
  <1>8. high = low + 1 => FlattenSeq(seqs) = rows[low].words \o rows[high].words
    <2> SUFFICES ASSUME high = low + 1 PROVE FlattenSeq(seqs) = rows[low].words \o rows[high].words
      OBVIOUS
    <2>1. Len(seqs) = 2 /\ 2 \in 1..(high - low + 1) /\ low + 2 - 1 = high
      BY <1>4
    <2>2. seqs[2] = rows[high].words
      BY <1>1, <1>3, <2>1
    <2>3. FlattenSeq(seqs) = f[2] /\ f[2] = f[1] \o seqs[2]
      <3>1. 2 \in 2..Len(seqs) /\ 2 - 1 = 1
        BY <2>1
      <3>2. f[2] = f[2 - 1] \o seqs[2]
        BY <1>5, <3>1
      <3>3. FlattenSeq(seqs) = f[2]
        BY <1>5, <2>1
      <3>4. QED
        BY <3>1, <3>2, <3>3
    <2>4. QED
      BY <1>5, <1>6, <2>2, <2>3
  <1>9. FlattenSeq(seqs) \in Seq(DrawnWord)
    <2> DEFINE bad == {i \in 1..Len(seqs) : f[i] \notin Seq(DrawnWord)}
    <2>1. SUFFICES ASSUME bad # {} PROVE FALSE
      BY <1>4, <1>5
    <2>2. PICK i \in bad : \A j \in bad : i <= j
      <3>1. bad \subseteq Nat
        OBVIOUS
      <3>2. QED
        BY <2>1, <3>1, LeastMember
    <2>3. i \in 1..Len(seqs) /\ f[i] \notin Seq(DrawnWord)
      BY <2>2
    <2>4. seqs[i] \in Seq(DrawnWord) /\ seqs[1] \in Seq(DrawnWord)
      BY <1>3, <1>4, <2>3
    <2>5. i # 1
      BY <1>5, <2>3, <2>4
    <2>6. i \in 2..Len(seqs) /\ i - 1 \in 1..Len(seqs) /\ ~(i <= i - 1)
      BY <1>4, <2>3, <2>5
    <2>7. f[i - 1] \in Seq(DrawnWord)
      BY <2>2, <2>6
    <2>8. f[i] = f[i - 1] \o seqs[i]
      BY <1>5, <2>6
    <2> HIDE DEF bad
    <2>9. f[i - 1] \o seqs[i] \in Seq(DrawnWord)
      BY <2>4, <2>7, TwoParts
    <2>10. QED
      BY <2>3, <2>8, <2>9
  <1>10. rows[low].words # <<>> => FlattenSeq(seqs)[1] = rows[low].words[1]
    <2> SUFFICES ASSUME seqs[1] # <<>> PROVE FlattenSeq(seqs)[1] = seqs[1][1]
      BY <1>6
    <2>1. seqs # <<>>
      BY <1>4
    <2>2. QED
      BY <1>3, <2>1, Flattened
  <1>11. QED
    BY <1>2, <1>7, <1>8, <1>9, <1>10

(* The labels that are read begin with the row the cursor is on.            *)
LEMMA FirstLabel ==
  ASSUME NEW rows \in Seq(DrawnRow), rows # <<>>, rows[1].shape = "item", rows[1].words # <<>>
  PROVE  Labels(rows)[1][1] = rows[1].words[1]
  <1> DEFINE starts == {i \in DOMAIN rows : rows[i].shape = "item"}
             upTo(i) == {j \in starts : j <= i}
             Start(k) == CHOOSE i \in starts : Cardinality(upTo(i)) = k
             Stop(k) == IF k = Cardinality(starts) THEN Len(rows) + 1 ELSE Start(k + 1)
  <1>1. Len(rows) \in Nat \ {0} /\ DOMAIN rows = 1..Len(rows) /\ 1 \in starts
    OBVIOUS
  <1>2. IsFiniteSet(starts) /\ starts \subseteq 1..Len(rows) /\ Cardinality(starts) \in Nat
    <2>1. starts \subseteq 1..Len(rows) /\ IsFiniteSet(1..Len(rows))
      BY <1>1, FS_Interval
    <2>2. QED
      BY <2>1, FS_Subset, FS_CardinalityType
  <1>3. Cardinality(starts) # 0
    BY <1>1, <1>2, FS_EmptySet
  <1>4. Labels(rows)[1] = Joined(SubSeq(rows, Start(1), Stop(1) - 1))
    <2>1. Labels(rows) = [k \in 1..Cardinality(starts) |-> Joined(SubSeq(rows, Start(k), Stop(k) - 1))]
      BY DEF Labels
    <2>2. 1 \in 1..Cardinality(starts)
      BY <1>2, <1>3
    <2>3. QED
      BY <2>1, <2>2
  <1>5. Start(1) = 1
    <2>1. upTo(1) = {1}
      BY <1>1
    <2>2. Cardinality(upTo(1)) = 1
      BY <2>1, FS_Singleton
    <2>3. Start(1) \in starts /\ Cardinality(upTo(Start(1))) = 1
      BY <1>1, <2>2
    <2> HIDE DEF Start
    <2>4. 1 \in upTo(Start(1)) /\ Start(1) \in upTo(Start(1))
      BY <1>1, <2>3
    <2>5. IsFiniteSet(upTo(Start(1)))
      <3>1. upTo(Start(1)) \subseteq starts
        OBVIOUS
      <3>2. QED
        BY <1>2, <3>1, FS_Subset
    <2>6. PICK x : upTo(Start(1)) = {x}
      <3> HIDE DEF upTo
      <3>1. QED
        BY <2>3, <2>5, FS_Singleton
    <2>7. QED
      BY <2>4, <2>6
  <1>6. Stop(1) \in 2..(Len(rows) + 1)
    <2>1. CASE Cardinality(starts) = 1
      BY <1>1, <2>1
    <2>2. CASE Cardinality(starts) # 1
      <3> DEFINE others == starts \ {1}
      <3>1. others # {}
        <4> SUFFICES ASSUME others = {} PROVE FALSE
          OBVIOUS
        <4>1. starts = {1}
          BY <1>1
        <4>2. QED
          BY <2>2, <4>1, FS_Singleton
      <3>2. others \subseteq Nat
        BY <1>2
      <3>3. PICK x \in others : \A y \in others : x <= y
        BY <3>1, <3>2, LeastMember
      <3>4. x \in starts /\ x # 1 /\ x \in Nat /\ 1 <= x
        BY <1>2, <3>3
      <3>5. upTo(x) = {1} \cup {x}
        <4>1. \A y \in upTo(x) : y \in {1, x}
          BY <1>2, <3>3, <3>4
        <4>2. 1 \in upTo(x) /\ x \in upTo(x)
          BY <1>1, <3>4
        <4>3. QED
          BY <4>1, <4>2
      <3>6. Cardinality(upTo(x)) = 2
        <4>1. IsFiniteSet({1}) /\ Cardinality({1}) = 1 /\ x \notin {1}
          BY <3>4, FS_Singleton
        <4>2. Cardinality({1} \cup {x}) = 1 + 1
          BY <4>1, FS_AddElement
        <4>3. Cardinality(upTo(x)) = 1 + 1
          BY <3>5, <4>2, Zenon
        <4> HIDE DEF upTo
        <4>4. QED
          BY <4>3
      <3>7. Start(2) \in starts /\ Cardinality(upTo(Start(2))) = 2
        <4> HIDE DEF upTo
        <4>1. \E i \in starts : Cardinality(upTo(i)) = 2
          BY <3>4, <3>6
        <4>2. QED
          BY <4>1
      <3>8. Start(2) # 1
        <4>1. upTo(1) = {1}
          BY <1>1
        <4>2. Cardinality(upTo(1)) = 1
          BY <4>1, FS_Singleton
        <4> HIDE DEF upTo, Start
        <4>3. QED
          BY <3>7, <4>2
      <3>9. Stop(1) = Start(2)
        <4> HIDE DEF Start
        <4>1. 1 + 1 = 2
          OBVIOUS
        <4>2. QED
          BY <2>2, <4>1
      <3> HIDE DEF Start, Stop
      <3>10. QED
        BY <1>1, <1>2, <3>7, <3>8, <3>9
    <2>3. QED
      BY <2>1, <2>2
  <1> HIDE DEF Start, Stop, starts
  <1> DEFINE high == Stop(1) - 1
  <1>7. high \in 1..Len(rows) /\ 1 \in 1..Len(rows)
    BY <1>1, <1>6
  <1> HIDE DEF high
  <1>8. Joined(SubSeq(rows, 1, high))[1] = rows[1].words[1]
    BY <1>7, JoinedIs
  <1>9. QED
    BY <1>4, <1>5, <1>8 DEF high

(* A complete menu begins with the item that allows this request once.     *)
LEMMA ValidMenus ==
  ASSUME NEW title \in Titles, NEW items, Valid(title, items)
  PROVE  items[1] \in {Proceed, Once, ThisTurn}
  <1>1. title[1] \in {"run", "edits", "input", "network", "permissions"}
    BY DEF Titles
  <1>2. CASE title[1] = "run"
    BY <1>2 DEF Valid
  <1>3. CASE title[1] = "edits"
    BY <1>3 DEF Valid
  <1>4. CASE title[1] = "input"
    BY <1>4 DEF Valid
  <1>5. CASE title[1] = "network"
    BY <1>5 DEF Valid
  <1>6. CASE title[1] = "permissions"
    BY <1>6 DEF Valid
  <1>7. QED
    BY <1>1, <1>2, <1>3, <1>4, <1>5, <1>6

(* How a box of Codex was read: the footer's rows, the last row above it,   *)
(* the selected row and the title.                                         *)
CodexRead(rows, w, last, chosen, title, words) ==
  LET end == Filled(rows)
  IN  /\ w \in 1..2 /\ w <= end /\ Joined(SubSeq(rows, end - w + 1, end)) = Footer
      /\ w = 2 => Joined(SubSeq(rows, end, end)) # Footer
      /\ last = Filled(SubSeq(rows, 1, end - w)) /\ last \in Nat /\ last <= end - w
      /\ chosen \in 1..last /\ rows[chosen].shape = "item" /\ rows[chosen].n = 1 /\ rows[chosen].on
      /\ Consecutive(SubSeq(rows, chosen, last))
      /\ title \in 1..(chosen - 1)
      /\ words \in Titles
      /\ \E v \in 1..2 : title + v <= chosen /\ words = Joined(SubSeq(rows, title, title + v - 1))
      /\ Valid(words, Labels(SubSeq(rows, chosen, last)))
      /\ CodexBlock(rows) = SubSeq(rows, title, end)
      /\ \A i \in DOMAIN SubSeq(rows, title, end) : SubSeq(rows, title, end)[i].shape # "clipped"

(* Whatever was read as a box of Codex was read from some such rows.        *)
LEMMA CodexMenuIs ==
  ASSUME NEW rows \in Seq(DrawnRow), CodexBlock(rows) # NoBlock
  PROVE  \E w, last, chosen, title, words : CodexRead(rows, w, last, chosen, title, words)
  <1> DEFINE end == Filled(rows)
             widths == {w \in 1..Min({2, end}) : Joined(SubSeq(rows, end - w + 1, end)) = Footer}
             footer == end - Min(widths) + 1
             last == Filled(SubSeq(rows, 1, footer - 1))
             low == Max({1, last - MenuRows + 1})
             items == {i \in low..last : rows[i].shape = "item" /\ rows[i].n = 1 /\ rows[i].on}
             chosen == Max({0} \cup items)
             menu == SubSeq(rows, chosen, last)
             TitlesAt(t) == {Joined(SubSeq(rows, t, t + w - 1)) :
                               w \in {v \in 1..2 : t + v <= chosen}} \cap Titles
             top == Max({1, chosen - BoxRows + 1})
             titles == {t \in top..(chosen - 1) : TitlesAt(t) # {}}
             title == Max({0} \cup titles)
             block == SubSeq(rows, title, end)
             words == CHOOSE t \in TitlesAt(title) : TRUE
  <1>1. /\ widths # {} /\ chosen > 0 /\ Consecutive(menu) /\ title > 0
        /\ \A i \in DOMAIN block : block[i].shape # "clipped"
        /\ Valid(words, Labels(menu)) /\ CodexBlock(rows) = block
    BY DEF CodexBlock, NoBlock
  <1> DEFINE Positive(n) == n > 0
  <1>19. Positive(chosen) /\ Positive(title)
    BY <1>1
  <1>20. ~Positive(0)
    OBVIOUS
  <1> HIDE DEF Positive
  <1>21. BoxRows \in Nat /\ MenuRows \in Nat
    BY BoxAssumption
  <1>2. end \in 0..Len(rows) /\ Len(rows) \in Nat
    BY FilledIs
  <1>3. Min({2, end}) \in 0..2 /\ Min({2, end}) <= end
    <2> HIDE DEF end
    <2>1. \E x \in {2, end} : \A y \in {2, end} : x <= y
      <3>1. CASE end <= 2
        BY <1>2, <3>1
      <3>2. CASE ~(end <= 2)
        BY <1>2, <3>2
      <3>3. QED
        BY <3>1, <3>2
    <2>2. Min({2, end}) \in {2, end} /\ \A y \in {2, end} : Min({2, end}) <= y
      BY <2>1 DEF Min
    <2>3. QED
      BY <1>2, <2>2
  <1>4. widths \subseteq 1..2 /\ \A w \in widths : w <= end
    <2> DEFINE most == Min({2, end})
    <2>1. \A w \in widths : w \in 1..most
      OBVIOUS
    <2> HIDE DEF widths
    <2>2. most \in 0..2 /\ most <= end
      BY <1>3
    <2> HIDE DEF most, end
    <2>3. QED
      BY <1>2, <2>1, <2>2
  <1>5. Min(widths) \in widths /\ \A w \in widths : Min(widths) <= w
    <2>1. widths \subseteq Nat
      BY <1>4
    <2>2. PICK x \in widths : \A y \in widths : x <= y
      <3> HIDE DEF widths
      <3>1. QED
        BY <1>1, <2>1, LeastMember
    <2> HIDE DEF widths
    <2>3. QED
      BY <2>2 DEF Min
  <1> DEFINE w == Min(widths)
  <1>6. w \in 1..2 /\ w <= end /\ Joined(SubSeq(rows, end - w + 1, end)) = Footer
    BY <1>4, <1>5
  <1>7. w = 2 => Joined(SubSeq(rows, end, end)) # Footer
    <2> SUFFICES ASSUME w = 2, Joined(SubSeq(rows, end, end)) = Footer PROVE FALSE
      OBVIOUS
    <2>1. 1 <= Min({2, end}) /\ end - 1 + 1 = end
      <3>1. 1 <= end /\ end \in Nat
        BY <1>2, <1>6
      <3> HIDE DEF end
      <3>2. \E x \in {2, end} : \A y \in {2, end} : x <= y
        <4>1. CASE end <= 2
          BY <3>1, <4>1
        <4>2. CASE ~(end <= 2)
          BY <3>1, <4>2
        <4>3. QED
          BY <4>1, <4>2
      <3>3. Min({2, end}) \in {2, end}
        BY <3>2 DEF Min
      <3>4. QED
        BY <3>1, <3>3
    <2> HIDE DEF end
    <2>2. 1 \in widths
      BY <1>3, <2>1
    <2> HIDE DEF widths
    <2>3. QED
      BY <1>5, <2>2
  <1> HIDE DEF widths
  <1>8. footer - 1 = end - w
    <2>1. footer = end - w + 1
      OBVIOUS
    <2> HIDE DEF end, footer
    <2>2. w \in Int
      BY <1>6
    <2> HIDE DEF w
    <2>3. QED
      BY <1>2, <2>1, <2>2
  <1>9. last = Filled(SubSeq(rows, 1, end - w)) /\ last \in 0..(end - w) /\ end - w \in Nat
    <2>1. last = Filled(SubSeq(rows, 1, end - w))
      BY <1>8
    <2> HIDE DEF end, w, last
    <2>2. end - w \in Nat /\ end - w <= Len(rows)
      BY <1>2, <1>6
    <2> DEFINE n == end - w
    <2>3. SubSeq(rows, 1, n) \in Seq(DrawnRow) /\ Len(SubSeq(rows, 1, n)) = n
      <3> HIDE DEF n
      <3>1. n \in Nat /\ n <= Len(rows)
        BY <2>2 DEF n
      <3>2. 1 \in Int /\ n \in Int /\ \A i \in 1..n : rows[i] \in DrawnRow
        BY <1>2, <3>1
      <3>3. (IF 1 <= n THEN n - 1 + 1 ELSE 0) = n
        BY <3>1
      <3>4. QED
        BY <3>2, <3>3, SubSeqProperties
    <2>4. QED
      BY <2>1, <2>2, <2>3, FilledIs
  <1> HIDE DEF footer, end, w, last
  <1>10. low \in Int /\ low >= 1
    <2> DEFINE x == last - MenuRows + 1
    <2>0. last \in Int
      BY <1>9
    <2>1. x \in Int /\ 1 \in Int
      BY <1>21, <2>0
    <2> HIDE DEF x
    <2>2. Max({1, x}) \in {1, x} /\ Max({1, x}) >= 1
      BY <2>1, MaxOfTwo
    <2>3. QED
      BY <2>1, <2>2 DEF x
  <1> HIDE DEF low
  <1>11. /\ chosen \in 1..last /\ rows[chosen].shape = "item"
         /\ rows[chosen].n = 1 /\ rows[chosen].on
    <2>1. last \in Nat /\ items \subseteq 1..last
      BY <1>9, <1>10
    <2>2. chosen \in {0} \cup items
      <3>1. {0} \cup items \subseteq 0..last
        BY <2>1
      <3> HIDE DEF items
      <3>2. QED
        BY <2>1, <3>1, MaxIsLargest
    <2>3. chosen \in items
      <3>1. chosen # 0
        BY <1>19, <1>20
      <3> HIDE DEF items, chosen
      <3>2. QED
        BY <2>2, <3>1
    <2> HIDE DEF chosen
    <2>4. QED
      BY <2>1, <2>3
  <1> HIDE DEF chosen, items
  <1>12. top \in Int /\ top >= 1
    <2> DEFINE x == chosen - BoxRows + 1
    <2>0. chosen \in Int
      BY <1>11
    <2>1. x \in Int /\ 1 \in Int
      BY <1>21, <2>0
    <2> HIDE DEF x
    <2>2. Max({1, x}) \in {1, x} /\ Max({1, x}) >= 1
      BY <2>1, MaxOfTwo
    <2>3. QED
      BY <2>1, <2>2 DEF x
  <1> HIDE DEF top, TitlesAt
  <1>13. title \in 1..(chosen - 1) /\ TitlesAt(title) # {}
    <2>1. chosen \in Nat /\ titles \subseteq 1..(chosen - 1)
      BY <1>9, <1>11, <1>12
    <2>2. title \in {0} \cup titles
      <3>1. {0} \cup titles \subseteq 0..chosen
        BY <2>1
      <3> HIDE DEF titles
      <3>2. QED
        BY <2>1, <3>1, MaxIsLargest
    <2>3. title \in titles
      <3>1. title # 0
        BY <1>19, <1>20
      <3> HIDE DEF titles, title
      <3>2. QED
        BY <2>2, <3>1
    <2> HIDE DEF title
    <2>4. QED
      BY <2>1, <2>3
  <1> HIDE DEF title, titles
  <1>14. words \in TitlesAt(title)
    BY <1>13
  <1> HIDE DEF words
  <1>15. words \in Titles /\ \E v \in 1..2 : title + v <= chosen /\ words = Joined(SubSeq(rows, title, title + v - 1))
    BY <1>14 DEF TitlesAt
  <1>16. last \in Nat /\ last <= end - w
    BY <1>9
  <1> USE DEF menu, block
  <1>17. CodexRead(rows, w, last, chosen, title, words)
    BY <1>1, <1>6, <1>7, <1>9, <1>11, <1>13, <1>15, <1>16 DEF CodexRead, end
  <1>18. QED
    BY <1>17

(* A box of Codex was read with the selected row on row i of the menu.      *)
CodexPlaced(r, above, i, last, chosen, title, words) ==
  /\ Suffix(Shown(r), Drawing(r), above) /\ Filled(Shown(r)) = Len(Shown(r))
  /\ CodexRead(Shown(r), FooterRows, last, chosen, title, words)
  /\ above + chosen = TitleRows(r) + 3 + i /\ Shown(r)[chosen] = MenuDrawn(r.menu)[i]

(* The row the cursor is on is one of the real menu: between a row of the     *)
(* preview and the menu is a blank row, and no menu holds one.              *)
LEMMA CodexWhere ==
  ASSUME NEW r \in Requests, r.provider = "codex", narrow \in BOOLEAN, rowsShown \in Nat \ {0},
         CodexBlock(Shown(r)) # NoBlock
  PROVE  \E above \in Nat, i \in 1..Len(MenuDrawn(r.menu)) : \E last, chosen, title, words :
           CodexPlaced(r, above, i, last, chosen, title, words)
  <1> DEFINE rows == Shown(r)
             drawn == Drawing(r)
             t == TitleRows(r)
             menu == MenuDrawn(r.menu)
             m == Len(menu)
             f == FooterRows
             n == Len(rows)
  <1>1. CodexLaidOut(r, drawn, t, menu)
    BY CodexLayout
  <1>2. r.menu \in Seq(CodexLabels) /\ r.menu # <<>>
    BY RequestsAre, MenusAre
  <1>3. \A i \in 1..m : MenuRow(r.menu, menu[i])
    BY <1>2, MenuIsDrawn
  <1>4. t \in {1, 2} /\ f \in {1, 2} /\ (narrow => f = 2) /\ (~narrow => f = 1)
    BY DEF TitleRows, FooterRows
  <1>5. m \in Nat \ {0} /\ drawn \in Seq(DrawnRow) /\ Len(drawn) = t + m + f + 4 /\ Len(drawn) \in Nat \ {0}
    <2>1. m \in Nat \ {0} /\ drawn \in Seq(DrawnRow) /\ Len(drawn) = t + m + f + 4
      BY <1>1 DEF CodexLaidOut
    <2> HIDE DEF m, t, f, drawn
    <2>2. QED
      BY <1>4, <2>1
  <1>6. PICK above \in Nat : Suffix(rows, drawn, above)
    BY <1>5, ShownIs
  <1>7. PICK w, last, chosen, title, words : CodexRead(rows, w, last, chosen, title, words)
    <2>1. rows \in Seq(DrawnRow)
      BY <1>6 DEF Suffix
    <2>2. QED
      BY <2>1, CodexMenuIs
  <1> HIDE DEF rows, drawn, t, menu, f
  <1>8. /\ above < Len(drawn) /\ rows \in Seq(DrawnRow) /\ n = Len(drawn) - above
        /\ \A i \in 1..n : rows[i] = drawn[above + i]
    BY <1>6 DEF Suffix
  <1>9. /\ \A i \in 1..m : drawn[t + 3 + i] = menu[i]
        /\ drawn[t + 3] = Other("blank") /\ drawn[t + m + 4] = Other("blank")
        /\ narrow => drawn[t + m + 6] = Wrapped(<<"or-esc">>)
        /\ ~narrow => drawn[t + m + 5] = BoxRow("footer", 0, Footer, FALSE)
    BY <1>1 DEF CodexLaidOut
  <1> HIDE DEF m, n
  <1>10. n \in Nat \ {0} /\ n \in 1..n /\ above + n = t + m + f + 4
    BY <1>4, <1>5, <1>8
  <1>11. /\ narrow => rows[n] = Wrapped(<<"or-esc">>)
         /\ ~narrow => rows[n] = BoxRow("footer", 0, Footer, FALSE)
    <2>1. rows[n] = drawn[above + n]
      BY <1>8, <1>10
    <2>2. narrow => above + n = t + m + 6
      BY <1>4, <1>5, <1>10
    <2>3. ~narrow => above + n = t + m + 5
      BY <1>4, <1>5, <1>10
    <2>4. QED
      BY <1>9, <2>1, <2>2, <2>3
  <1>12. /\ narrow => rows[n].shape = "text" /\ rows[n].words = <<"or-esc">>
         /\ ~narrow => rows[n].shape = "footer" /\ rows[n].words = Footer
    BY <1>11 DEF Wrapped, BoxRow
  <1>13. Filled(rows) = n
    <2>1. rows[n].shape # "blank"
      BY <1>12
    <2>2. Filled(rows) \in 0..n /\ (\A i \in 1..n : rows[i].shape # "blank" => i <= Filled(rows))
      BY <1>8, FilledIs DEF n
    <2>3. n <= Filled(rows)
      BY <1>10, <2>1, <2>2
    <2>4. QED
      BY <1>10, <2>2, <2>3
  <1>14. /\ w \in 1..2 /\ w <= n /\ Joined(SubSeq(rows, n - w + 1, n)) = Footer
         /\ w = 2 => Joined(SubSeq(rows, n, n)) # Footer
         /\ last = Filled(SubSeq(rows, 1, n - w)) /\ last <= n - w
         /\ chosen \in 1..last /\ rows[chosen].shape = "item" /\ rows[chosen].n = 1 /\ rows[chosen].on
         /\ Consecutive(SubSeq(rows, chosen, last))
    BY <1>7, <1>13 DEF CodexRead
  <1>15. Joined(SubSeq(rows, n, n)) = rows[n].words
    <2>1. n \in 1..Len(rows) /\ n \in n..Len(rows)
      BY <1>10 DEF n
    <2>2. QED
      BY <1>8, <2>1, JoinedIs
  <1>16. w = f
    <2>1. CASE narrow
      <3>1. Footer # <<"or-esc">>
        BY DEF Footer
      <3>2. w # 1
        <4> SUFFICES ASSUME w = 1 PROVE FALSE
          OBVIOUS
        <4>1. n - w + 1 = n
          BY <1>10
        <4>2. QED
          BY <1>12, <1>14, <1>15, <2>1, <3>1, <4>1
      <3>3. QED
        BY <1>4, <1>14, <2>1, <3>2
    <2>2. CASE ~narrow
      BY <1>4, <1>12, <1>14, <1>15, <2>2
    <2>3. QED
      BY <2>1, <2>2
  <1> DEFINE upper == SubSeq(rows, 1, n - w)
  <1>17. n - w \in Nat /\ n - w <= n
    BY <1>10, <1>14
  <1>18. /\ upper \in Seq(DrawnRow) /\ Len(upper) = n - w
         /\ \A i \in 1..(n - w) : upper[i] = rows[i]
    <2>1. \A i \in 1..n : rows[i] \in DrawnRow
      BY <1>8 DEF n
    <2>2. \A i \in 1..(n - w) : rows[i] \in DrawnRow
      BY <1>10, <1>17, <2>1
    <2>3. /\ upper \in Seq(DrawnRow) /\ Len(upper) = IF 1 <= n - w THEN n - w - 1 + 1 ELSE 0
          /\ \A i \in 1..(n - w - 1 + 1) : upper[i] = rows[1 + i - 1]
      BY <1>17, <2>2, SubSeqProperties
    <2> HIDE DEF upper
    <2>4. n - w - 1 + 1 = n - w /\ (\A i \in 1..(n - w) : 1 + i - 1 = i)
      BY <1>17
    <2>5. QED
      BY <1>17, <2>3, <2>4
  <1>19. /\ last # 0 => upper[last].shape # "blank"
         /\ \A i \in 1..(n - w) : upper[i].shape # "blank" => i <= last
    BY <1>14, <1>18, FilledIs
  <1> HIDE DEF upper
  <1>20. last \in Nat /\ chosen \in Nat /\ 1 <= chosen /\ chosen <= last
    <2>1. last \in 0..(n - w)
      BY <1>14, <1>18, FilledIs DEF upper
    <2>2. QED
      BY <1>14, <1>17, <2>1
  <1>21. last # n - w
    <2> SUFFICES ASSUME last = n - w PROVE FALSE
      OBVIOUS
    <2>1. last \in 1..(n - w) /\ last \in 1..n /\ above + last = t + m + 4
      BY <1>4, <1>5, <1>10, <1>14, <1>16, <1>17, <1>20
    <2>2. upper[last] = Other("blank")
      BY <1>8, <1>9, <1>18, <2>1
    <2>3. Other("blank").shape = "blank"
      BY DEF Other, BoxRow
    <2>4. QED
      BY <1>19, <1>20, <2>2, <2>3
  <1>22. last = n - w - 1
    <2> DEFINE k == n - w - 1
    <2>1. k \in 1..(n - w) /\ k \in 1..n /\ above + k = t + 3 + m
      BY <1>4, <1>5, <1>10, <1>14, <1>16, <1>17, <1>20, <1>21
    <2>2. m \in 1..m
      BY <1>5
    <2> HIDE DEF k
    <2>3. upper[k] = menu[m]
      <3>1. upper[k] = rows[k] /\ rows[k] = drawn[above + k]
        BY <1>8, <1>18, <2>1
      <3>2. drawn[t + 3 + m] = menu[m]
        BY <1>9, <2>2
      <3>3. QED
        BY <2>1, <3>1, <3>2
    <2>4. upper[k].shape \in {"item", "text"}
      BY <1>3, <2>2, <2>3, MenuRowIs
    <2>5. k <= last
      BY <1>19, <2>1, <2>4
    <2>6. QED
      BY <1>14, <1>17, <1>20, <1>21, <2>5 DEF k
  <1>23. last \in 1..n /\ above + last = t + m + 3
    BY <1>4, <1>5, <1>10, <1>16, <1>20, <1>22
  <1>24. above + chosen >= t + 4
    <2> SUFFICES ASSUME above + chosen <= t + 3 PROVE FALSE
      BY <1>4, <1>6, <1>20
    <2> DEFINE b == t + 3 - above
               part == SubSeq(rows, chosen, last)
               k == b - chosen + 1
    <2>1. b \in chosen..last /\ b \in 1..n /\ above + b = t + 3
      BY <1>4, <1>5, <1>6, <1>10, <1>20, <1>23
    <2> HIDE DEF b
    <2>2. rows[b].shape = "blank"
      <3>1. rows[b] = Other("blank")
        BY <1>8, <1>9, <2>1
      <3>2. QED
        BY <3>1 DEF Other, BoxRow
    <2>3. k \in 1..(last - chosen + 1) /\ chosen + k - 1 = b
      BY <1>20, <2>1
    <2> HIDE DEF k
    <2>4. part \in Seq(DrawnRow) /\ Len(part) = last - chosen + 1 /\ part[k] = rows[b]
      <3>1. \A i \in chosen..last : rows[i] \in DrawnRow
        <4>1. \A i \in 1..n : rows[i] \in DrawnRow
          BY <1>8 DEF n
        <4>2. QED
          BY <1>10, <1>20, <1>23, <4>1
      <3>2. /\ part \in Seq(DrawnRow) /\ Len(part) = IF chosen <= last THEN last - chosen + 1 ELSE 0
            /\ \A i \in 1..(last - chosen + 1) : part[i] = rows[chosen + i - 1]
        BY <1>20, <3>1, SubSeqProperties
      <3> HIDE DEF part
      <3>3. QED
        BY <1>20, <2>3, <3>2
    <2>5. \A i \in DOMAIN part : part[i].shape # "blank"
      BY <1>14 DEF Consecutive
    <2> HIDE DEF part
    <2>6. k \in DOMAIN part
      BY <2>3, <2>4
    <2>7. QED
      BY <2>2, <2>4, <2>5, <2>6
  <1> DEFINE i == above + chosen - t - 3
  <1>25. i \in 1..m /\ above + chosen = t + 3 + i /\ chosen \in 1..n
    BY <1>4, <1>5, <1>6, <1>10, <1>20, <1>23, <1>24
  <1> HIDE DEF i
  <1>26. rows[chosen] = menu[i]
    BY <1>8, <1>9, <1>25
  <1>27. CodexRead(rows, f, last, chosen, title, words)
    BY <1>7, <1>16
  <1>28. QED
    <2>1. CodexPlaced(r, above, i, last, chosen, title, words) /\ i \in 1..Len(MenuDrawn(r.menu))
      BY <1>6, <1>13, <1>25, <1>26, <1>27 DEF CodexPlaced, rows, drawn, t, menu, m, f, n
    <2>2. QED
      BY <2>1

LEMMA CodexSaysYesOnce ==
  ASSUME NEW r \in Requests, r.provider = "codex", narrow \in BOOLEAN, rowsShown \in Nat \ {0},
         CodexBlock(Shown(r)) # NoBlock
  PROVE  at = 1 /\ r.menu[1] \in {Proceed, Once, ThisTurn}
  <1> DEFINE rows == Shown(r)
             menu == MenuDrawn(r.menu)
  <1>0. PICK above \in Nat, i \in 1..Len(menu) :
          \E last, chosen, title, words : CodexPlaced(r, above, i, last, chosen, title, words)
    BY CodexWhere
  <1>1. PICK last, chosen, title, words :
           /\ Suffix(rows, Drawing(r), above) /\ Filled(rows) = Len(rows)
           /\ CodexRead(rows, FooterRows, last, chosen, title, words)
           /\ above + chosen = TitleRows(r) + 3 + i /\ rows[chosen] = menu[i]
    BY <1>0 DEF CodexPlaced
  <1>2. /\ r.menu \in Seq(CodexLabels) /\ r.menu # <<>> /\ r.menu[1] \in {Proceed, Once, ThisTurn, Always}
    BY RequestsAre, MenusAre
  <1>3. MenuRow(r.menu, menu[i])
    BY <1>2, MenuIsDrawn
  <1> HIDE DEF rows, menu
  <1> DEFINE part == SubSeq(rows, chosen, last)
  <1>4. /\ chosen \in 1..last /\ rows[chosen].shape = "item" /\ rows[chosen].n = 1 /\ rows[chosen].on
        /\ words \in Titles /\ Valid(words, Labels(part))
        /\ last \in Nat /\ last <= Filled(rows) - FooterRows
    BY <1>1 DEF CodexRead
  <1>5. PICK k \in DOMAIN r.menu :
           \/ /\ rows[chosen].shape = "item" /\ rows[chosen].n = k /\ (rows[chosen].on <=> k = at)
              /\ rows[chosen].words = r.menu[k] \/ rows[chosen].words = <<r.menu[k][1]>>
           \/ rows[chosen].shape = "text"
    BY <1>1, <1>3, MenuRowIs
  <1>6. at = 1 /\ (rows[chosen].words = r.menu[1] \/ rows[chosen].words = <<r.menu[1][1]>>)
    BY <1>4, <1>5
  <1>7. r.menu[1] \in CodexLabels /\ r.menu[1] # <<>>
    <2>1. r.menu[1] \in CodexLabels
      BY <1>2
    <2>2. QED
      BY <2>1, LabelsAre
  <1>8. rows[chosen].words # <<>> /\ rows[chosen].words[1] = r.menu[1][1]
    BY <1>6, <1>7
  <1>9. part \in Seq(DrawnRow) /\ part # <<>> /\ part[1] = rows[chosen]
    <2>1. rows \in Seq(DrawnRow) /\ Len(rows) \in Nat /\ Filled(rows) = Len(rows) /\ FooterRows \in {1, 2}
      BY <1>1 DEF Suffix, FooterRows
    <2>2. last \in Nat /\ last <= Len(rows)
      <3>1. last \in Nat
        BY <1>4
      <3>2. QED
        BY <1>4, <2>1, <3>1
    <2>3. \A j \in chosen..last : rows[j] \in DrawnRow
      BY <1>4, <2>1, <2>2
    <2>4. chosen \in Nat /\ chosen <= last
      BY <1>4, <2>2
    <2>5. /\ part \in Seq(DrawnRow) /\ Len(part) = IF chosen <= last THEN last - chosen + 1 ELSE 0
          /\ \A j \in 1..(last - chosen + 1) : part[j] = rows[chosen + j - 1]
      BY <2>2, <2>3, <2>4, SubSeqProperties
    <2> HIDE DEF part
    <2>6. Len(part) # 0 /\ 1 \in 1..(last - chosen + 1) /\ chosen + 1 - 1 = chosen
      BY <2>2, <2>4, <2>5
    <2>7. QED
      BY <2>5, <2>6
  <1> HIDE DEF part
  <1>10. Labels(part)[1][1] = r.menu[1][1]
    <2>1. part[1].shape = "item" /\ part[1].words # <<>> /\ part[1].words[1] = r.menu[1][1]
      BY <1>4, <1>8, <1>9
    <2>2. QED
      BY <1>9, <2>1, FirstLabel
  <1>11. Labels(part)[1] \in {Proceed, Once, ThisTurn}
    BY <1>4, ValidMenus
  <1>12. r.menu[1][1] # Always[1]
    <2>1. /\ Proceed[1] = "yes-proceed" /\ Once[1] = "yes-once" /\ ThisTurn[1] = "yes-this-turn"
          /\ Always[1] = "yes-always"
      BY DEF Proceed, Once, ThisTurn, Always
    <2>2. QED
      BY <1>10, <1>11, <2>1
  <1>13. QED
    BY <1>2, <1>6, <1>12

LEMMA BoxSaysYesOnce == BoxTypeOK => EnterSaysYesOnce
  <1> SUFFICES ASSUME BoxTypeOK, Block(asks) # NoBlock PROVE asks.menu[at] \in {Yes, Proceed, Once, ThisTurn}
    BY DEF EnterSaysYesOnce
  <1>1. rowsShown \in Nat \ {0} /\ narrow \in BOOLEAN
    BY BoxAssumption DEF BoxTypeOK
  <1>2. asks \in Requests
    <2>1. Block(NothingAsked) = NoBlock
      BY DEF Block, NothingAsked
    <2>2. QED
      BY <2>1 DEF BoxTypeOK
  <1>3. CASE asks.provider = "claude"
    <2>1. ClaudeBlock(Shown(asks)) # NoBlock
      BY <1>3 DEF Block
    <2>2. QED
      BY <1>1, <1>2, <1>3, <2>1, ClaudeSaysYesOnce
  <1>4. CASE asks.provider = "codex"
    <2>1. CodexBlock(Shown(asks)) # NoBlock
      BY <1>4 DEF Block
    <2>2. QED
      BY <1>1, <1>2, <1>4, <2>1, CodexSaysYesOnce
  <1>5. QED
    BY <1>2, <1>3, <1>4, RequestsAre

-----------------------------------------------------------------------------
(* The same box is about the same command: a box is the end of what is       *)
(* drawn, so two equal boxes agree row by row, counted from the end.        *)

(* The last rows of what is a suffix are one.                              *)
LEMMA RestOfSuffix ==
  ASSUME NEW rows, NEW drawn, NEW above \in Nat, Len(drawn) \in Nat, Suffix(rows, drawn, above),
         NEW low \in 1..Len(rows)
  PROVE  Suffix(SubSeq(rows, low, Len(rows)), drawn, above + low - 1)
  <1> DEFINE part == SubSeq(rows, low, Len(rows))
             n == Len(rows)
  <1>1. /\ above < Len(drawn) /\ rows \in Seq(DrawnRow) /\ n = Len(drawn) - above
        /\ \A i \in 1..n : rows[i] = drawn[above + i]
    BY DEF Suffix
  <1>2. n \in Nat /\ low \in 1..n /\ \A i \in low..n : rows[i] \in DrawnRow
    BY <1>1
  <1>3. /\ part \in Seq(DrawnRow) /\ Len(part) = n - low + 1
        /\ \A i \in 1..(n - low + 1) : part[i] = rows[low + i - 1]
    BY <1>1, <1>2, SubSeqProperties
  <1> HIDE DEF part, n
  <1>4. ASSUME NEW i \in 1..Len(part) PROVE part[i] = drawn[(above + low - 1) + i]
    <2> DEFINE j == low + i - 1
    <2>1. i \in 1..(n - low + 1)
      BY <1>3
    <2>2. j \in 1..n /\ above + j = (above + low - 1) + i
      BY <1>2, <2>1
    <2>3. part[i] = rows[j]
      BY <1>3, <2>1
    <2> HIDE DEF j
    <2>4. QED
      BY <1>1, <2>2, <2>3
  <1>5. above + low - 1 < Len(drawn) /\ Len(part) = Len(drawn) - (above + low - 1)
    BY <1>1, <1>2, <1>3
  <1>6. QED
    BY <1>3, <1>4, <1>5 DEF Suffix, part, n

(* Nearest row of a shape above the question, if there is one.             *)
NearestRow(rows, question, reach, shape) ==
  Max({0} \cup {i \in Max({1, question - reach})..(question - 1) : rows[i].shape = shape})

LEMMA NearestIs ==
  ASSUME NEW rows, NEW question \in Nat, NEW reach \in Nat, NEW shape
  PROVE  \/ NearestRow(rows, question, reach, shape) = 0
         \/ /\ NearestRow(rows, question, reach, shape) \in 1..(question - 1)
            /\ rows[NearestRow(rows, question, reach, shape)].shape = shape
  <1> DEFINE low == Max({1, question - reach})
             S == {0} \cup {i \in low..(question - 1) : rows[i].shape = shape}
  <1>1. low \in Int /\ low >= 1
    <2>1. question - reach \in Int /\ 1 \in Int
      OBVIOUS
    <2>2. QED
      BY <2>1, MaxOfTwo
  <1> HIDE DEF low
  <1>2. S \subseteq 0..question /\ S # {}
    BY <1>1
  <1> HIDE DEF S
  <1>3. Max(S) \in S
    BY <1>2, MaxIsLargest
  <1>4. Max(S) = 0 \/ (Max(S) \in 1..(question - 1) /\ rows[Max(S)].shape = shape)
    BY <1>1, <1>3 DEF S
  <1>5. QED
    BY <1>4 DEF S, low, NearestRow

(* Where a box of Claude begins: at a rule, or no more than BoxRows above   *)
(* the dashed rule of what is hidden.                                      *)
ClaudeTop(rows, question, top) ==
  \/ top \in 1..(question - 1) /\ rows[top].shape = "rule"
  \/ \E dashed \in 1..(question - 1) :
       /\ rows[dashed].shape = "dashed"
       /\ top = 1 \/ (top = dashed - BoxRows /\ top > 1)

LEMMA FromRuleIs ==
  ASSUME NEW rows, NEW question \in Nat, NEW end, FromRule(rows, question, end) # NoBlock
  PROVE  \E top \in 1..(question - 1) :
           ClaudeTop(rows, question, top) /\ FromRule(rows, question, end) = SubSeq(rows, top, end)
  <1> DEFINE rule == NearestRow(rows, question, BoxRows, "rule")
             dashed == NearestRow(rows, question, ReasonRows, "dashed")
             top == Max({1, dashed - BoxRows})
  <1>1. \/ rule > 0 /\ FromRule(rows, question, end) = SubSeq(rows, rule, end)
        \/ dashed > 0 /\ FromRule(rows, question, end) = SubSeq(rows, top, end)
    BY DEF FromRule, NoBlock, NearestRow
  <1>2. BoxRows \in Nat /\ ReasonRows \in Nat /\ BoxRows > 1
    BY BoxAssumption
  <1>3. /\ rule = 0 \/ (rule \in 1..(question - 1) /\ rows[rule].shape = "rule")
        /\ dashed = 0 \/ (dashed \in 1..(question - 1) /\ rows[dashed].shape = "dashed")
    BY <1>2, NearestIs
  <1> HIDE DEF rule, dashed
  <1>4. CASE rule > 0 /\ FromRule(rows, question, end) = SubSeq(rows, rule, end)
    <2>1. rule \in 1..(question - 1) /\ rows[rule].shape = "rule"
      BY <1>3, <1>4
    <2>2. ClaudeTop(rows, question, rule)
      BY <2>1 DEF ClaudeTop
    <2>3. QED
      BY <1>4, <2>1, <2>2
  <1>5. CASE dashed > 0 /\ FromRule(rows, question, end) = SubSeq(rows, top, end)
    <2>1. dashed \in 1..(question - 1) /\ rows[dashed].shape = "dashed"
      BY <1>3, <1>5
    <2>2. dashed - BoxRows \in Int /\ 1 \in Int
      BY <1>2, <2>1
    <2>3. top \in {1, dashed - BoxRows} /\ top >= 1
      BY <2>2, MaxOfTwo
    <2> HIDE DEF top
    <2>4. top = 1 \/ (top = dashed - BoxRows /\ top > 1)
      BY <2>2, <2>3
    <2>5. top \in 1..(question - 1)
      BY <1>2, <2>1, <2>4
    <2>6. ClaudeTop(rows, question, top)
      BY <2>1, <2>4 DEF ClaudeTop
    <2>7. QED
      BY <1>5, <2>5, <2>6 DEF top
  <1>6. QED
    BY <1>1, <1>4, <1>5

(* A box of Claude is what is drawn from a top above the question on.      *)
LEMMA ClaudeBlockIs ==
  ASSUME NEW r \in Requests, r.provider = "claude", rowsShown \in Nat \ {0}, ClaudeBlock(Shown(r)) # NoBlock
  PROVE  \E above \in Nat, top \in Nat \ {0} :
           /\ Suffix(Shown(r), Drawing(r), above)
           /\ Suffix(ClaudeBlock(Shown(r)), Drawing(r), above + top - 1)
           /\ above + top <= HiddenRows(r) + 3
           /\ ClaudeTop(Shown(r), HiddenRows(r) + 4 - above, top)
  <1> DEFINE rows == Shown(r)
             drawn == Drawing(r)
             h == HiddenRows(r)
             n == Len(rows)
  <1>1. /\ drawn \in Seq(DrawnRow) /\ Len(drawn) \in Nat \ {0} /\ h \in {0, 2}
        /\ drawn[Len(drawn)] = Other("footer")
    <2>1. ClaudeLaidOut(r, Drawing(r), HiddenRows(r), MenuDrawn(r.menu)) /\ HiddenRows(r) \in {0, 2}
      BY ClaudeLayout DEF HiddenRows
    <2>2. QED
      BY <2>1 DEF ClaudeLaidOut
  <1>2. PICK above \in Nat : Suffix(rows, drawn, above)
    BY <1>1, ShownIs
  <1>3. /\ above < Len(drawn) /\ rows \in Seq(DrawnRow) /\ n = Len(drawn) - above
        /\ \A i \in 1..n : rows[i] = drawn[above + i]
    BY <1>2 DEF Suffix
  <1>4. PICK yes \in 2..n :
          /\ CursorOnYes(rows[yes]) /\ rows[yes - 1].shape = "question"
          /\ ClaudeBlock(rows) = FromRule(rows, yes - 1, Filled(rows))
    BY <1>3, ClaudeMenuIs
  <1> HIDE DEF rows, drawn, h, n
  <1> DEFINE j == above + yes
  <1>5. n \in Nat \ {0} /\ n \in 1..n /\ above + n = Len(drawn)
    BY <1>1, <1>3
  <1>6. j = h + 5
    <2>1. /\ j \in 2..Len(drawn) /\ yes \in 1..n /\ yes - 1 \in 1..n
          /\ above + (yes - 1) = j - 1
      BY <1>1, <1>3, <1>5
    <2>2. CursorOnYes(drawn[j]) /\ drawn[j - 1].shape = "question"
      BY <1>3, <1>4, <2>1
    <2> HIDE DEF j
    <2>3. QED
      BY <2>1, <2>2, ClaudeFirstItem DEF drawn, h
  <1>7. Filled(rows) = n
    <2>1. rows[n].shape # "blank"
      <3>1. rows[n] = Other("footer")
        BY <1>1, <1>3, <1>5
      <3>2. QED
        BY <3>1 DEF Other, BoxRow
    <2>2. Filled(rows) \in 0..n /\ (\A i \in 1..n : rows[i].shape # "blank" => i <= Filled(rows))
      BY <1>3, FilledIs DEF n
    <2>3. n <= Filled(rows)
      BY <1>5, <2>1, <2>2
    <2>4. QED
      BY <1>5, <2>2, <2>3
  <1> DEFINE question == yes - 1
  <1>8. question \in Nat /\ question < n /\ question = h + 4 - above
    BY <1>1, <1>5, <1>6
  <1>9. FromRule(rows, question, n) # NoBlock /\ ClaudeBlock(rows) = FromRule(rows, question, n)
    BY <1>4, <1>7 DEF rows
  <1> HIDE DEF question
  <1>10. PICK top \in 1..(question - 1) :
           ClaudeTop(rows, question, top) /\ FromRule(rows, question, n) = SubSeq(rows, top, n)
    BY <1>8, <1>9, FromRuleIs
  <1>11. top \in 1..n /\ top \in Nat \ {0} /\ above + top <= h + 3
    BY <1>1, <1>5, <1>8, <1>10
  <1>12. Suffix(SubSeq(rows, top, n), drawn, above + top - 1)
    BY <1>1, <1>2, <1>11, RestOfSuffix DEF n
  <1>13. ClaudeTop(rows, h + 4 - above, top)
    BY <1>8, <1>10
  <1>14. QED
    BY <1>2, <1>9, <1>10, <1>11, <1>12, <1>13 DEF rows, drawn, h

(* A box shown whole, with one rule, reaches up to the command.            *)
LEMMA ClaudeReachesCommand ==
  ASSUME NEW r \in Requests, r.provider = "claude", rowsShown \in Nat \ {0}, ClaudeBlock(Shown(r)) # NoBlock,
         Shown(r) = Drawing(r), r.mimic.shape # "rule"
  PROVE  \E top \in {1, 2} : Suffix(ClaudeBlock(Shown(r)), Drawing(r), top - 1)
  <1> DEFINE drawn == Drawing(r)
             h == HiddenRows(r)
             block == ClaudeBlock(Shown(r))
  <1>1. /\ drawn \in Seq(DrawnRow) /\ Len(drawn) \in Nat /\ drawn[2] = Wrapped(<<r.command>>) /\ drawn[3] = r.mimic
        /\ r.hidden => drawn[4] = Other("dashed") /\ drawn[5] = Other("explanation")
        /\ h \in {0, 2} /\ (h = 2 => r.hidden)
    <2>1. ClaudeLaidOut(r, Drawing(r), HiddenRows(r), MenuDrawn(r.menu))
      BY ClaudeLayout
    <2>2. HiddenRows(r) \in {0, 2} /\ (HiddenRows(r) = 2 => r.hidden)
      BY DEF HiddenRows
    <2>3. QED
      BY <2>1, <2>2 DEF ClaudeLaidOut
  <1>2. PICK above \in Nat, top \in Nat \ {0} :
           /\ Suffix(Shown(r), drawn, above)
           /\ Suffix(block, drawn, above + top - 1)
           /\ above + top <= h + 3
           /\ ClaudeTop(Shown(r), h + 4 - above, top)
    BY ClaudeBlockIs
  <1>3. Shown(r) = drawn
    OBVIOUS
  <1> HIDE DEF drawn, h, block
  <1>4. above = 0
    <2>1. Len(drawn) = Len(drawn) - above
      BY <1>2, <1>3 DEF Suffix
    <2>2. QED
      BY <1>1, <2>1
  <1>5. ClaudeTop(drawn, h + 4, top) /\ Suffix(block, drawn, top - 1)
    <2>1. h + 4 - above = h + 4 /\ above + top - 1 = top - 1
      BY <1>1, <1>4
    <2>2. QED
      BY <1>2, <1>3, <2>1
  <1>6. r.mimic.shape \notin {"rule", "dashed"}
    <2>1. r.mimic \in Mimics("claude")
      BY RequestsAre
    <2>2. QED
      BY <2>1 DEF Mimics, Other, Item, BoxRow
  <1>7. /\ Other("dashed").shape = "dashed" /\ Other("explanation").shape = "explanation"
        /\ Wrapped(<<r.command>>).shape = "text"
    BY DEF Other, Wrapped, BoxRow
  <1>8. ASSUME NEW i \in 1..(h + 3)
        PROVE  (drawn[i].shape = "rule" => i = 1) /\ (drawn[i].shape = "dashed" => i = 1 \/ i = 4)
    <2>1. i \in {1, 2, 3} \/ (h = 2 /\ i \in {4, 5})
      BY <1>1
    <2>2. QED
      BY <1>1, <1>6, <1>7, <2>1
  <1>9. BoxRows \in Nat /\ BoxRows > 1
    BY BoxAssumption
  <1>10. top \in {1, 2}
    <2> DEFINE question == h + 4
    <2>1. question - 1 = h + 3 /\ ClaudeTop(drawn, question, top)
      BY <1>1, <1>5
    <2> HIDE DEF question
    <2>2. CASE top \in 1..(question - 1) /\ drawn[top].shape = "rule"
      BY <1>8, <2>1, <2>2
    <2>3. ASSUME NEW dashed \in 1..(question - 1), drawn[dashed].shape = "dashed",
                 top = 1 \/ (top = dashed - BoxRows /\ top > 1)
          PROVE  top \in {1, 2}
      <3>1. dashed = 1 \/ dashed = 4
        BY <1>8, <2>1, <2>3
      <3>2. QED
        BY <1>9, <2>3, <3>1
    <2>4. \/ top \in 1..(question - 1) /\ drawn[top].shape = "rule"
          \/ \E dashed \in 1..(question - 1) :
               /\ drawn[dashed].shape = "dashed"
               /\ top = 1 \/ (top = dashed - BoxRows /\ top > 1)
      BY Zenon, <2>1 DEF ClaudeTop
    <2>5. QED
      BY <2>2, <2>3, <2>4
  <1>11. QED
    BY <1>5, <1>10 DEF drawn, block

LEMMA OneCommand ==
  ASSUME NEW x, NEW y, Wrapped(<<x>>) = Wrapped(<<y>>)
  PROVE  x = y
  <1>1. <<x>> = <<y>>
    BY DEF Wrapped, BoxRow
  <1>2. QED
    BY <1>1

LEMMA ClaudeTellsCommands ==
  ASSUME NEW r \in Requests, r.provider = "claude", rowsShown \in Nat \ {0}, ClaudeBlock(Shown(r)) # NoBlock,
         Shown(r) = Drawing(r), r.mimic.shape # "rule",
         NEW s \in Requests, s.provider = "claude", s.menu = r.menu, ClaudeBlock(Shown(s)) = ClaudeBlock(Shown(r))
  PROVE  s.command = r.command
  <1> DEFINE block == ClaudeBlock(Shown(r))
             m == Len(MenuDrawn(r.menu))
  <1>1. PICK top \in {1, 2} : Suffix(block, Drawing(r), top - 1)
    BY ClaudeReachesCommand
  <1>2. PICK low \in Nat : Suffix(block, Drawing(s), low)
    <2>1. PICK above \in Nat, first \in Nat \ {0} : Suffix(block, Drawing(s), above + first - 1)
      BY ClaudeBlockIs
    <2>2. above + first - 1 \in Nat
      OBVIOUS
    <2>3. QED
      BY <2>1, <2>2
  <1>3. ASSUME NEW q \in {r, s}
        PROVE  /\ m \in Nat \ {0} /\ Len(Drawing(q)) = HiddenRows(q) + m + 6 /\ HiddenRows(q) \in {0, 2}
               /\ Drawing(q)[2] = Wrapped(<<q.command>>) /\ Drawing(q)[3] = q.mimic
               /\ HiddenRows(q) = 2 => Drawing(q)[5] = Other("explanation")
               /\ q.mimic.shape # "explanation"
    <2>1. ClaudeLaidOut(q, Drawing(q), HiddenRows(q), MenuDrawn(r.menu))
      BY ClaudeLayout
    <2>2. HiddenRows(q) \in {0, 2} /\ (HiddenRows(q) = 2 => q.hidden)
      BY DEF HiddenRows
    <2>3. q.mimic.shape # "explanation"
      <3>1. q.mimic \in Mimics("claude")
        BY RequestsAre
      <3>2. QED
        BY <3>1 DEF Mimics, Other, Item, BoxRow
    <2>4. QED
      BY <2>1, <2>2, <2>3 DEF ClaudeLaidOut
  <1>4. /\ Len(block) = Len(Drawing(r)) - (top - 1) /\ Len(block) = Len(Drawing(s)) - low
        /\ \A i \in 1..Len(block) : block[i] = Drawing(r)[(top - 1) + i]
        /\ \A i \in 1..Len(block) : block[i] = Drawing(s)[low + i]
    BY <1>1, <1>2 DEF Suffix
  <1> DEFINE h == HiddenRows(r)
             k == HiddenRows(s)
  <1>5. m \in Nat \ {0} /\ h \in {0, 2} /\ k \in {0, 2}
    BY <1>3
  <1>6. Len(block) = h + m + 6 - (top - 1) /\ low = top - 1 + k - h
    <2>1. Len(Drawing(r)) = h + m + 6 /\ Len(Drawing(s)) = k + m + 6
      BY <1>3
    <2> HIDE DEF block, m, h, k
    <2>2. QED
      BY <1>4, <1>5, <2>1
  <1> HIDE DEF block, m, h, k
  <1>7. ASSUME NEW p \in 2..5 PROVE Drawing(r)[p] = Drawing(s)[p + k - h]
    <2> DEFINE i == p - (top - 1)
    <2>1. i \in 1..Len(block) /\ (top - 1) + i = p /\ low + i = p + k - h
      <3>1. p \in Nat /\ 2 <= p /\ p <= 5 /\ top \in Nat /\ 1 <= top /\ top <= 2
        OBVIOUS
      <3>2. h \in Nat /\ k \in Nat /\ m \in Nat /\ m >= 1
        BY <1>5
      <3>3. Len(block) \in Int /\ Len(block) >= 6
        BY <1>6, <3>1, <3>2
      <3>4. i \in Nat /\ 1 <= i /\ i <= 5
        BY <3>1
      <3>5. (top - 1) + i = p
        BY <3>1
      <3>6. low + i = p + k - h
        BY <1>6, <3>1, <3>2
      <3> HIDE DEF i
      <3>7. i \in 1..Len(block)
        BY <3>3, <3>4
      <3>8. QED
        BY <3>5, <3>6, <3>7
    <2> HIDE DEF i
    <2>2. QED
      BY <1>4, <2>1
  <1>8. /\ Drawing(r)[2] = Wrapped(<<r.command>>) /\ Drawing(s)[2] = Wrapped(<<s.command>>)
        /\ Drawing(r)[3].shape # "explanation" /\ Drawing(s)[3].shape # "explanation"
        /\ h = 2 => Drawing(r)[5].shape = "explanation"
        /\ k = 2 => Drawing(s)[5].shape = "explanation"
    <2>1. Other("explanation").shape = "explanation"
      BY DEF Other, BoxRow
    <2>2. QED
      BY <1>3, <2>1 DEF h, k
  <1>9. CASE h = k
    <2>1. Drawing(r)[2] = Drawing(s)[2]
      <3>1. 2 + k - h = 2 /\ 2 \in 2..5
        BY <1>5, <1>9
      <3>2. QED
        BY <1>7, <3>1
    <2>2. QED
      BY <1>8, <2>1, OneCommand
  <1>10. ~(h = 0 /\ k = 2)
    <2> SUFFICES ASSUME h = 0, k = 2 PROVE FALSE
      OBVIOUS
    <2>1. 3 + k - h = 5 /\ 3 \in 2..5
      OBVIOUS
    <2>2. Drawing(r)[3] = Drawing(s)[5]
      BY <1>7, <2>1
    <2>3. QED
      BY <1>8, <2>2
  <1>11. ~(h = 2 /\ k = 0)
    <2> SUFFICES ASSUME h = 2, k = 0 PROVE FALSE
      OBVIOUS
    <2>1. 5 + k - h = 3 /\ 5 \in 2..5
      OBVIOUS
    <2>2. Drawing(r)[5] = Drawing(s)[3]
      BY <1>7, <2>1
    <2>3. QED
      BY <1>8, <2>2
  <1>12. QED
    BY <1>5, <1>9, <1>10, <1>11

(* Words that begin no title of Codex.                                     *)
QuietWord ==
  {"yes-proceed", "yes-once", "yes-this-turn", "yes-always", "more", "no-and-tell", "what-to-do",
   "yes-strict", "no-without", "command", "host"}
TitleWord == {"run", "edits", "input", "network", "permissions"}
Quiet(words) == words = <<>> \/ (words # <<>> /\ words[1] \in QuietWord)

LEMMA QuietLabels ==
  \A label \in CodexLabels :
    /\ label[1] \in QuietWord /\ (Len(label) = 2 => label[2] \in QuietWord)
    /\ label \in Seq(DrawnWord) /\ label # <<>>
  <1> DEFINE OK(label) == label[1] \in QuietWord /\ (Len(label) = 2 => label[2] \in QuietWord)
  <1>1. ASSUME NEW x \in QuietWord PROVE OK(<<x>>)
    OBVIOUS
  <1>2. ASSUME NEW x \in QuietWord, NEW y \in QuietWord PROVE OK(<<x, y>>)
    OBVIOUS
  <1>3. {"yes-proceed", "yes-once", "yes-this-turn", "yes-always", "more", "no-and-tell", "what-to-do",
         "yes-strict", "no-without"} \subseteq QuietWord
    BY DEF QuietWord
  <1> HIDE DEF OK
  <1>4. /\ OK(Proceed) /\ OK(Once) /\ OK(ThisTurn) /\ OK(Always) /\ OK(NoTell)
        /\ OK(<<"yes-strict">>) /\ OK(<<"no-without">>)
    BY <1>1, <1>2, <1>3 DEF Proceed, Once, ThisTurn, Always, NoTell
  <1>5. \A label \in CodexLabels : OK(label)
    BY <1>4 DEF CodexLabels
  <1>6. QED
    BY <1>5, LabelsAre DEF OK

LEMMA TitleWords ==
  /\ \A title \in Titles : title # <<>> /\ title[1] \in TitleWord /\ title \in Seq(DrawnWord)
                           /\ (Len(title) = 2 => title[2] \in {"command", "host"})
  /\ TitleWord \cap QuietWord = {}
  <1> DEFINE OK(title) == title[1] \in TitleWord /\ (Len(title) = 2 => title[2] \in {"command", "host"})
  <1>1. ASSUME NEW x \in TitleWord PROVE OK(<<x>>)
    OBVIOUS
  <1>2. ASSUME NEW x \in TitleWord, NEW y \in {"command", "host"} PROVE OK(<<x, y>>)
    OBVIOUS
  <1>3. {"run", "edits", "input", "network", "permissions"} \subseteq TitleWord
    BY DEF TitleWord
  <1> HIDE DEF OK
  <1>4. /\ OK(<<"run", "command">>) /\ OK(<<"edits">>) /\ OK(<<"input">>)
        /\ OK(<<"network", "host">>) /\ OK(<<"permissions">>)
    BY <1>1, <1>2, <1>3
  <1>5. \A title \in Titles : OK(title)
    BY <1>4 DEF Titles
  <1>6. TitleWord \cap QuietWord = {}
    BY DEF TitleWord, QuietWord
  <1>7. QED
    BY <1>5, <1>6, TitlesAre DEF OK

(* Of what is drawn above the footer only the first row and the command    *)
(* may begin with the word of a title.                                     *)
LEMMA CodexQuietRows ==
  ASSUME NEW r \in Requests, r.provider = "codex", narrow \in BOOLEAN, r.mimic.shape # "title",
         NEW p \in 2..(TitleRows(r) + 3 + Len(MenuDrawn(r.menu))), p # TitleRows(r) + 1 \/ r.hidden
  PROVE  Quiet(Drawing(r)[p].words)
  <1> DEFINE t == TitleRows(r)
             menu == MenuDrawn(r.menu)
             m == Len(menu)
             drawn == Drawing(r)
  <1>1. /\ t = 2 => drawn[2] = Wrapped(<<r.title[2]>>)
        /\ drawn[t + 1] = IF r.hidden THEN Other("clipped") ELSE Wrapped(<<r.command>>)
        /\ drawn[t + 2] = r.mimic /\ drawn[t + 3] = Other("blank")
        /\ \A i \in 1..m : drawn[t + 3 + i] = menu[i]
        /\ m \in Nat \ {0}
    BY CodexLayout DEF CodexLaidOut
  <1>2. t \in {1, 2} /\ (t = 2 => Len(r.title) = 2)
    BY DEF TitleRows
  <1>3. /\ r.menu \in Seq(CodexLabels) /\ r.menu # <<>> /\ r.mimic \in Mimics("codex")
        /\ r.title \in Titles \cup {<<"form">>}
    BY RequestsAre, MenusAre
  <1>4. \A i \in 1..m : MenuRow(r.menu, menu[i])
    BY <1>3, MenuIsDrawn
  <1> HIDE DEF t, menu, m, drawn
  <1>5. Quiet(Other("clipped").words) /\ Quiet(Other("blank").words)
    BY DEF Other, BoxRow, Quiet
  <1>6. ASSUME NEW word \in QuietWord PROVE Quiet(<<word>>) /\ Quiet(Wrapped(<<word>>).words)
    BY DEF Wrapped, BoxRow, Quiet
  <1>7. \A label \in CodexLabels : Quiet(label) /\ Quiet(<<label[1]>>) /\ (Len(label) = 2 => Quiet(<<label[2]>>))
    BY <1>6, QuietLabels DEF Quiet
  <1>8. Quiet(r.mimic.words)
    <2>1. r.mimic \in {Item(1, Proceed, TRUE), Other("clipped"), Other("text")}
      <3>1. BoxRow("title", 0, <<"edits">>, FALSE).shape = "title"
        BY DEF BoxRow
      <3>2. QED
        BY <1>3, <3>1 DEF Mimics
    <2>2. Quiet(Item(1, Proceed, TRUE).words)
      <3>1. Item(1, Proceed, TRUE).words = Proceed
        BY DEF Item, BoxRow
      <3>2. Proceed \in CodexLabels
        BY DEF CodexLabels
      <3>3. QED
        BY <1>7, <3>1, <3>2
    <2>3. Quiet(Other("text").words)
      BY DEF Other, BoxRow, Quiet
    <2>4. QED
      BY <1>5, <2>1, <2>2, <2>3
  <1>9. ASSUME NEW i \in 1..m PROVE Quiet(menu[i].words)
    <2>1. PICK k \in DOMAIN r.menu :
           \/ menu[i].words = r.menu[k] \/ menu[i].words = <<r.menu[k][1]>>
           \/ menu[i].words = <<r.menu[k][2]>> /\ Len(r.menu[k]) = 2
      BY <1>4, MenuRowIs
    <2>2. r.menu[k] \in CodexLabels
      BY <1>3
    <2>3. QED
      BY <1>7, <2>1, <2>2
  <1>10. \/ p = 2 /\ t = 2
         \/ p = t + 1 /\ r.hidden
         \/ p \in {t + 2, t + 3}
         \/ p - t - 3 \in 1..m /\ t + 3 + (p - t - 3) = p
    <2>1. p \in 2..(t + 3 + m) /\ (p # t + 1 \/ r.hidden)
      BY DEF t, m, menu
    <2>2. QED
      BY <1>1, <1>2, <2>1
  <1>11. CASE p = 2 /\ t = 2
    <2>1. r.title[2] \in {"command", "host"}
      <3>1. Len(<<"form">>) = 1
        OBVIOUS
      <3>2. QED
        BY <1>2, <1>3, <1>11, <3>1, TitleWords
    <2>2. r.title[2] \in QuietWord
      BY <2>1 DEF QuietWord
    <2>3. QED
      BY <1>1, <1>6, <1>11, <2>2 DEF drawn
  <1>12. CASE p = t + 1 /\ r.hidden
    BY <1>1, <1>5, <1>12 DEF drawn
  <1>13. CASE p \in {t + 2, t + 3}
    BY <1>1, <1>5, <1>8, <1>13 DEF drawn
  <1>14. CASE p - t - 3 \in 1..m /\ t + 3 + (p - t - 3) = p
    <2> DEFINE i == p - t - 3
    <2>1. i \in 1..m /\ t + 3 + i = p
      BY <1>14
    <2> HIDE DEF i
    <2>2. drawn[p] = menu[i]
      BY <1>1, <2>1
    <2>3. QED
      BY <1>9, <2>1, <2>2 DEF drawn
  <1>15. QED
    BY <1>10, <1>11, <1>12, <1>13, <1>14

(* A box of Codex is what is drawn from a title on: the title's words are   *)
(* on its first row or on its first two.                                   *)
TitleAt(drawn, top, low) ==
  \E words \in Titles :
    \/ words = drawn[top].words
    \/ top + 1 < low /\ words = drawn[top].words \o drawn[top + 1].words

CodexTop(r, block, top) ==
  /\ Suffix(block, Drawing(r), top - 1) /\ top < TitleRows(r) + 4 + Len(MenuDrawn(r.menu))
  /\ TitleAt(Drawing(r), top, TitleRows(r) + 4 + Len(MenuDrawn(r.menu)))
  /\ \A i \in DOMAIN block : block[i].shape # "clipped"

LEMMA CodexBlockIs ==
  ASSUME NEW r \in Requests, r.provider = "codex", narrow \in BOOLEAN, rowsShown \in Nat \ {0},
         CodexBlock(Shown(r)) # NoBlock
  PROVE  \E top \in Nat \ {0} : CodexTop(r, CodexBlock(Shown(r)), top)
  <1> DEFINE rows == Shown(r)
             drawn == Drawing(r)
             menu == MenuDrawn(r.menu)
             t == TitleRows(r)
             m == Len(menu)
             n == Len(rows)
  <1>0. PICK above \in Nat, i \in 1..m :
          \E last, chosen, title, words : CodexPlaced(r, above, i, last, chosen, title, words)
    BY CodexWhere
  <1>1. PICK last, chosen, title, words :
           /\ Suffix(rows, drawn, above) /\ Filled(rows) = n
           /\ CodexRead(rows, FooterRows, last, chosen, title, words)
           /\ above + chosen = t + 3 + i
    BY <1>0 DEF CodexPlaced
  <1>2. Len(drawn) \in Nat /\ m \in Nat \ {0} /\ t \in {1, 2}
    <2>1. CodexLaidOut(r, drawn, t, menu) /\ t \in {1, 2}
      BY CodexLayout DEF TitleRows
    <2>2. QED
      BY <2>1 DEF CodexLaidOut
  <1> HIDE DEF rows, drawn, menu, t, m
  <1>3. /\ above < Len(drawn) /\ rows \in Seq(DrawnRow) /\ n = Len(drawn) - above
        /\ \A k \in 1..n : rows[k] = drawn[above + k]
    BY <1>1 DEF Suffix
  <1>4. /\ chosen \in 1..last /\ last \in Nat /\ last <= n - FooterRows
        /\ title \in 1..(chosen - 1) /\ words \in Titles
        /\ \E v \in 1..2 : title + v <= chosen /\ words = Joined(SubSeq(rows, title, title + v - 1))
        /\ CodexBlock(rows) = SubSeq(rows, title, n)
        /\ \A k \in DOMAIN SubSeq(rows, title, n) : SubSeq(rows, title, n)[k].shape # "clipped"
    BY <1>1 DEF CodexRead
  <1>5. n \in Nat /\ FooterRows \in {1, 2} /\ chosen \in Nat /\ chosen <= n
    <2>1. n \in Nat
      BY <1>2, <1>3
    <2>2. FooterRows \in {1, 2}
      BY DEF FooterRows
    <2> HIDE DEF n
    <2>3. QED
      BY <1>4, <2>1, <2>2
  <1> HIDE DEF n
  <1> DEFINE top == above + title
  <1>6. /\ title \in 1..n /\ title \in Nat \ {0} /\ top \in Nat \ {0} /\ top < above + chosen
        /\ above + chosen <= t + 3 + m
    BY <1>1, <1>2, <1>4, <1>5
  <1>7. Suffix(CodexBlock(rows), drawn, top - 1)
    <2>1. Suffix(SubSeq(rows, title, n), drawn, above + title - 1)
      BY <1>1, <1>2, <1>6, RestOfSuffix DEF n
    <2>2. QED
      BY <1>4, <2>1
  <1>13. /\ top < t + 4 + m
         /\ \A k \in DOMAIN CodexBlock(rows) : CodexBlock(rows)[k].shape # "clipped"
    <2>1. \A k \in DOMAIN CodexBlock(rows) : CodexBlock(rows)[k].shape # "clipped"
      BY <1>4
    <2>2. above + chosen \in Nat
      BY <1>5
    <2> HIDE DEF top
    <2>3. top < t + 4 + m
      BY <1>2, <1>6, <2>2
    <2>4. QED
      BY <2>1, <2>3
  <1>14. ASSUME TitleAt(drawn, top, t + 4 + m) PROVE CodexTop(r, CodexBlock(Shown(r)), top)
    BY <1>7, <1>13, <1>14 DEF CodexTop, rows, drawn, t, m, menu
  <1>8. PICK v \in 1..2 : title + v <= chosen /\ words = Joined(SubSeq(rows, title, title + v - 1))
    BY <1>4
  <1>9. rows[title] = drawn[top]
    BY <1>3, <1>6
  <1>10. CASE v = 1
    <2>1. title + v - 1 = title /\ title \in 1..Len(rows) /\ title \in title..Len(rows)
      BY <1>6, <1>10 DEF n
    <2>2. words = rows[title].words
      BY <1>3, <1>8, <2>1, JoinedIs
    <2>3. TitleAt(drawn, top, t + 4 + m)
      BY <1>4, <1>9, <2>2 DEF TitleAt
    <2>4. QED
      BY <1>6, <1>14, <2>3
  <1>11. CASE v = 2
    <2> DEFINE next == title + 1
    <2>1. /\ title + v - 1 = next /\ title \in 1..n /\ next \in title..n /\ next \in 1..n
          /\ top + 1 < t + 4 + m /\ above + next = top + 1
      BY <1>2, <1>5, <1>6, <1>8, <1>11
    <2>2. words = rows[title].words \o rows[next].words
      <3>1. next = title + 1
        OBVIOUS
      <3> HIDE DEF next
      <3>2. title \in 1..Len(rows) /\ next \in title..Len(rows)
        BY <2>1 DEF n
      <3>3. Joined(SubSeq(rows, title, next)) = rows[title].words \o rows[next].words
        BY <1>3, <3>1, <3>2, JoinedIs
      <3>4. QED
        BY <1>8, <2>1, <3>3
    <2>3. rows[next] = drawn[top + 1]
      <3> HIDE DEF top, next
      <3>1. rows[next] = drawn[above + next]
        BY <1>3, <2>1
      <3>2. QED
        BY <2>1, <3>1
    <2> HIDE DEF top, next
    <2>4. TitleAt(drawn, top, t + 4 + m)
      BY <1>4, <1>9, <2>1, <2>2, <2>3 DEF TitleAt
    <2>5. QED
      BY <1>6, <1>14, <2>4 DEF top
  <1>12. QED
    BY <1>10, <1>11

(* With no title in the preview the only title is the first row, and a box  *)
(* is read only when nothing above is missing or clipped.                   *)
LEMMA CodexWhole ==
  ASSUME NEW r \in Requests, r.provider = "codex", narrow \in BOOLEAN, rowsShown \in Nat \ {0},
         CodexBlock(Shown(r)) # NoBlock, r.mimic.shape # "title", <<r.command>> \notin Titles
  PROVE  Suffix(CodexBlock(Shown(r)), Drawing(r), 0) /\ ~r.hidden
  <1> DEFINE drawn == Drawing(r)
             block == CodexBlock(Shown(r))
             t == TitleRows(r)
             m == Len(MenuDrawn(r.menu))
             low == t + 4 + m
  <1>1. PICK top \in Nat \ {0} :
          /\ Suffix(block, drawn, top - 1) /\ top < low /\ TitleAt(drawn, top, low)
          /\ \A i \in DOMAIN block : block[i].shape # "clipped"
    BY CodexBlockIs DEF CodexTop
  <1>2. /\ drawn \in Seq(DrawnRow) /\ Len(drawn) \in Nat /\ m \in Nat \ {0} /\ t \in {1, 2}
        /\ Len(drawn) >= low
        /\ drawn[t + 1] = IF r.hidden THEN Other("clipped") ELSE Wrapped(<<r.command>>)
        /\ drawn[t + 2] = r.mimic /\ (t = 2 => drawn[2] = Wrapped(<<r.title[2]>>))
    <2>1. /\ CodexLaidOut(r, drawn, t, MenuDrawn(r.menu)) /\ t \in {1, 2} /\ FooterRows \in {1, 2}
      BY CodexLayout DEF TitleRows, FooterRows
    <2>2. /\ drawn \in Seq(DrawnRow) /\ m \in Nat \ {0} /\ Len(drawn) = t + m + FooterRows + 4
          /\ drawn[t + 1] = IF r.hidden THEN Other("clipped") ELSE Wrapped(<<r.command>>)
          /\ drawn[t + 2] = r.mimic /\ (t = 2 => drawn[2] = Wrapped(<<r.title[2]>>))
      BY <2>1 DEF CodexLaidOut
    <2> HIDE DEF drawn, t, m
    <2>3. QED
      BY <2>1, <2>2
  <1>3. \A p \in 2..(t + 3 + m) : p # t + 1 \/ r.hidden => Quiet(drawn[p].words)
    BY CodexQuietRows
  <1>4. r.mimic \in Mimics("codex") /\ r.command \in Commands /\ r.hidden \in BOOLEAN
    BY RequestsAre
  <1> HIDE DEF drawn, block, t, m
  <1>5. \A p \in 1..(t + 3 + m) : drawn[p].words \in Seq(DrawnWord)
    <2>1. \A p \in 1..(t + 3 + m) : p \in 1..Len(drawn)
      BY <1>2
    <2>2. \A p \in 1..Len(drawn) : drawn[p].words \in Seq(DrawnWord)
      <3>1. \A p \in 1..Len(drawn) : drawn[p] \in DrawnRow
        BY <1>2
      <3>2. \A row \in DrawnRow : row.words \in Seq(DrawnWord)
        BY DEF DrawnRow
      <3>3. QED
        BY <3>1, <3>2
    <2>3. QED
      BY <2>1, <2>2
  <1>6. PICK words \in Titles :
          \/ words = drawn[top].words
          \/ top + 1 < low /\ words = drawn[top].words \o drawn[top + 1].words
    BY <1>1 DEF TitleAt
  <1>7. words # <<>> /\ words[1] \notin QuietWord /\ (Len(words) = 2 => words[2] \in {"command", "host"})
    BY TitleWords
  <1>8. ~Quiet(words)
    BY <1>7 DEF Quiet
  <1>9. top = 1
    <2> SUFFICES ASSUME top # 1 PROVE FALSE
      OBVIOUS
    <2>1. top \in 2..(t + 3 + m) /\ top \in 1..(t + 3 + m)
      BY <1>1, <1>2
    <2>2. CASE top # t + 1 \/ r.hidden
      <3>1. Quiet(drawn[top].words)
        BY <1>3, <2>1, <2>2
      <3>2. top + 1 < low /\ words = drawn[top].words \o drawn[top + 1].words
        BY <1>6, <1>8, <3>1
      <3>3. top + 1 \in 2..(t + 3 + m) /\ top + 1 \in 1..(t + 3 + m)
        BY <1>2, <2>1, <3>2
      <3>4. CASE drawn[top].words = <<>>
        <4>1. words = drawn[top + 1].words
          <5>1. \A w \in Seq(DrawnWord) : <<>> \o w = w
            OBVIOUS
          <5>2. QED
            BY <1>5, <3>2, <3>3, <3>4, <5>1
        <4>2. top + 1 # t + 1 \/ r.hidden
          <5>1. Wrapped(<<r.title[2]>>).words # <<>>
            BY DEF Wrapped, BoxRow
          <5>2. top # t
            BY <1>2, <2>1, <3>4, <5>1
          <5>3. QED
            BY <1>2, <2>1, <5>2
        <4>3. Quiet(drawn[top + 1].words)
          BY <1>3, <3>3, <4>2
        <4>4. QED
          BY <1>8, <4>1, <4>3
      <3>5. CASE drawn[top].words # <<>>
        <4>1. drawn[top].words[1] \in QuietWord
          BY <3>1, <3>5 DEF Quiet
        <4>2. words[1] = drawn[top].words[1]
          <5>1. \A u, w \in Seq(DrawnWord) : u # <<>> => (u \o w)[1] = u[1]
            OBVIOUS
          <5>2. QED
            BY <1>5, <2>1, <3>2, <3>3, <3>5, <5>1
        <4>3. QED
          BY <1>7, <4>1, <4>2
      <3>6. QED
        BY <3>4, <3>5
    <2>3. CASE top = t + 1 /\ ~r.hidden
      <3>1. drawn[top].words = <<r.command>>
        BY <1>2, <2>3 DEF Wrapped, BoxRow
      <3>2. words = <<r.command>> \o r.mimic.words
        <4>1. top + 1 = t + 2
          BY <1>2, <2>3
        <4>2. QED
          BY <1>2, <1>6, <3>1, <4>1
      <3>3. r.mimic.words = <<>> \/ r.mimic.words = Proceed
        BY <1>4 DEF Mimics, Other, Item, BoxRow
      <3>4. CASE r.mimic.words = <<>>
        <4>1. <<r.command>> \o <<>> = <<r.command>>
          OBVIOUS
        <4>2. QED
          BY <3>2, <3>4, <4>1
      <3>5. CASE r.mimic.words = Proceed
        <4>1. /\ Len(<<r.command>> \o <<"yes-proceed">>) = 2
              /\ (<<r.command>> \o <<"yes-proceed">>)[2] = "yes-proceed"
          OBVIOUS
        <4>2. Len(words) = 2 /\ words[2] = "yes-proceed"
          BY <3>2, <3>5, <4>1 DEF Proceed
        <4>3. QED
          BY <1>7, <4>2
      <3>6. QED
        BY <3>3, <3>4, <3>5
    <2>4. QED
      BY <1>4, <2>2, <2>3
  <1>10. Suffix(block, drawn, 0)
    BY <1>1, <1>9
  <1>11. ~r.hidden
    <2> SUFFICES ASSUME r.hidden PROVE FALSE
      OBVIOUS
    <2>1. /\ block \in Seq(DrawnRow) /\ Len(block) = Len(drawn) - 0
          /\ \A i \in 1..Len(block) : block[i] = drawn[0 + i]
      BY <1>10 DEF Suffix
    <2>2. t + 1 \in 1..Len(block) /\ 0 + (t + 1) = t + 1 /\ DOMAIN block = 1..Len(block)
      BY <1>2, <2>1
    <2>3. block[t + 1] = Other("clipped")
      BY <1>2, <2>1, <2>2
    <2>4. Other("clipped").shape = "clipped"
      BY DEF Other, BoxRow
    <2>5. QED
      BY <1>1, <2>2, <2>3, <2>4
  <1>12. QED
    BY <1>10, <1>11 DEF block, drawn

LEMMA CodexTellsCommands ==
  ASSUME NEW r \in Requests, r.provider = "codex", narrow \in BOOLEAN, rowsShown \in Nat \ {0},
         CodexBlock(Shown(r)) # NoBlock, r.mimic.shape # "title", <<r.command>> \notin Titles,
         NEW s \in Requests, s.provider = "codex", s.menu = r.menu, s.title = r.title,
         CodexBlock(Shown(s)) = CodexBlock(Shown(r))
  PROVE  s.command = r.command
  <1> DEFINE block == CodexBlock(Shown(r))
             t == TitleRows(r)
             m == Len(MenuDrawn(r.menu))
  <1>1. Suffix(block, Drawing(r), 0) /\ ~r.hidden
    BY CodexWhole
  <1>2. PICK top \in Nat \ {0} : Suffix(block, Drawing(s), top - 1)
    BY CodexBlockIs DEF CodexTop
  <1>3. ASSUME NEW q \in {r, s}
        PROVE  /\ m \in Nat \ {0} /\ t \in {1, 2} /\ Len(Drawing(q)) = t + m + FooterRows + 4
               /\ Drawing(q)[t + 1] = IF q.hidden THEN Other("clipped") ELSE Wrapped(<<q.command>>)
    <2>1. TitleRows(q) = TitleRows(r) /\ TitleRows(r) \in {1, 2}
      BY DEF TitleRows
    <2>2. CodexLaidOut(q, Drawing(q), TitleRows(r), MenuDrawn(r.menu))
      BY <2>1, CodexLayout
    <2>3. QED
      BY <2>1, <2>2 DEF CodexLaidOut
  <1>4. FooterRows \in {1, 2}
    BY DEF FooterRows
  <1>5. /\ Len(block) = Len(Drawing(r)) - 0 /\ Len(block) = Len(Drawing(s)) - (top - 1)
        /\ \A i \in 1..Len(block) : block[i] = Drawing(r)[0 + i]
        /\ \A i \in 1..Len(block) : block[i] = Drawing(s)[(top - 1) + i]
    BY <1>1, <1>2 DEF Suffix
  <1>6. /\ m \in Nat \ {0} /\ t \in {1, 2}
        /\ Len(Drawing(r)) = t + m + FooterRows + 4 /\ Len(Drawing(s)) = t + m + FooterRows + 4
    BY <1>3
  <1> HIDE DEF block, m, t
  <1>7. top = 1
    BY <1>4, <1>5, <1>6
  <1>8. t + 1 \in 1..Len(block) /\ 0 + (t + 1) = t + 1 /\ (top - 1) + (t + 1) = t + 1
    BY <1>4, <1>5, <1>6, <1>7
  <1>9. Drawing(s)[t + 1] = Drawing(r)[t + 1]
    BY <1>5, <1>8
  <1>10. Drawing(r)[t + 1] = Wrapped(<<r.command>>)
    BY <1>1, <1>3
  <1>11. ~s.hidden
    <2>1. Other("clipped") # Wrapped(<<r.command>>)
      BY DEF Other, Wrapped, BoxRow
    <2>2. QED
      BY <1>3, <1>9, <1>10, <2>1
  <1>12. Wrapped(<<s.command>>) = Wrapped(<<r.command>>)
    BY <1>3, <1>9, <1>10, <1>11
  <1>13. QED
    BY <1>12, OneCommand

(* A box that reads as it read is about the same command: from the rows of  *)
(* both requests, counted from the end that they share.                    *)
LEMMA BoxTellsCommands == BoxTypeOK => SameBoxSameCommand
  <1> SUFFICES ASSUME BoxTypeOK, Block(asks) # NoBlock, ShownWhole, OneTop,
                      NEW r \in Similar(asks), Block(r) = Block(asks)
               PROVE  r.command = asks.command
    BY DEF SameBoxSameCommand
  <1>1. rowsShown \in Nat \ {0} /\ narrow \in BOOLEAN
    BY BoxAssumption DEF BoxTypeOK
  <1>2. asks \in Requests
    <2>1. Block(NothingAsked) = NoBlock
      BY DEF Block, NothingAsked
    <2>2. QED
      BY <2>1 DEF BoxTypeOK
  <1>3. /\ r.provider = asks.provider /\ r.title = asks.title /\ r.menu = asks.menu
        /\ r \in [provider : {asks.provider}, title : {asks.title}, menu : {asks.menu}, command : Commands,
                  mimic : Mimics(asks.provider), hidden : BOOLEAN]
    BY DEF Similar
  <1>4. asks.provider \in {"claude", "codex"}
    BY <1>2, RequestsAre
  <1>5. r \in Requests
    <2>1. PICK p \in {"claude", "codex"} :
            asks \in [provider : {p}, title : Headed(p), menu : Menus(p), command : Commands,
                      mimic : Mimics(p), hidden : BOOLEAN]
      BY <1>2 DEF Requests
    <2>2. /\ asks.provider = p /\ asks.title \in Headed(p) /\ asks.menu \in Menus(p)
      BY <2>1
    <2>3. r \in [provider : {p}, title : Headed(p), menu : Menus(p), command : Commands,
                 mimic : Mimics(p), hidden : BOOLEAN]
      BY <1>3, <2>2
    <2>4. QED
      BY <2>3 DEF Requests
  <1>6. asks.mimic.shape \notin {"rule", "title"} /\ <<asks.command>> \notin Titles
    BY DEF OneTop
  <1>7. CASE asks.provider = "claude"
    <2>1. ClaudeBlock(Shown(asks)) # NoBlock /\ ClaudeBlock(Shown(r)) = ClaudeBlock(Shown(asks))
      BY <1>3, <1>7 DEF Block
    <2>2. Shown(asks) = Drawing(asks)
      BY <1>7 DEF ShownWhole
    <2>3. QED
      BY <1>1, <1>2, <1>3, <1>5, <1>6, <1>7, <2>1, <2>2, ClaudeTellsCommands
  <1>8. CASE asks.provider = "codex"
    <2>1. CodexBlock(Shown(asks)) # NoBlock /\ CodexBlock(Shown(r)) = CodexBlock(Shown(asks))
      BY <1>3, <1>8 DEF Block
    <2>2. QED
      BY <1>1, <1>2, <1>3, <1>5, <1>6, <1>8, <2>1, CodexTellsCommands
  <1>9. QED
    BY <1>4, <1>7, <1>8

(* Whatever a preview looks like and wherever the cursor is, Enter on a     *)
(* recognised box of either agent grants the one request that is asked:     *)
(* never a session-wide or lasting permission, never a refusal.             *)
THEOREM BoxGrantsOneRequest == BoxSpec => []EnterSaysYesOnce
  BY BoxTyping, BoxSaysYesOnce, PTL

(* A box that reads the same when it is looked at again is about the same   *)
(* command, where the box's top is seen and no row of the preview passes    *)
(* for one.                                                                 *)
THEOREM BoxesTellCommandsApart == BoxSpec => []SameBoxSameCommand
  BY BoxTyping, BoxTellsCommands, PTL
===============================================================================
