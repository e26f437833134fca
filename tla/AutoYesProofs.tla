---------------------------- MODULE AutoYesProofs ----------------------------
(***************************************************************************)
(* For any boxes and any number of appearances: the Enter budget of        *)
(* auto-yes until the first mishap, and the whole memory despite them.     *)
(***************************************************************************)
EXTENDS AutoYes, TLAPS

(* A read that is real when it shows no prompt changes the memory only     *)
(* with no box on screen.                                                  *)
LEMMA Reads ==
  ASSUME TypeOK, Read
  PROVE  /\ offered' \in Boxes \cup {NoBox}
         /\ box # NoBox /\ ~mishap' => UNCHANGED memory
         /\ UNCHANGED memory \/ Forget
         /\ mishap' \in BOOLEAN /\ (mishap => mishap')
BY DEF Read, ReadBox, ReadNothing, ReadClear, ReadBeside, Mishap, TypeOK

(* A count stays a count.                                                  *)
LEMMA Counts ==
  ASSUME NEW counter \in [Turns -> Nat], NEW t
  PROVE  [counter EXCEPT ![t] = More(@)] \in [Turns -> Nat]
<1>1. \A n \in Nat : More(n) \in Nat
  BY DEF More
<1> QED BY <1>1

LEMMA LateIsCounted == TypeOK /\ SendFails => late' \in [Turns -> Nat]
<1> SUFFICES ASSUME TypeOK, SendFails PROVE late' \in [Turns -> Nat]
  OBVIOUS
<1>1. late \in [Turns -> Nat] /\ (Landed \/ late' = late)
  BY DEF TypeOK, SendFails
<1>2. [late EXCEPT ![target] = More(@)] \in [Turns -> Nat]
  BY <1>1, Counts
<1> QED BY <1>1, <1>2 DEF Landed

(* Init satisfies the invariant.                                           *)
LEMMA Initially == Init => TypeOK /\ Accounted
<1> SUFFICES ASSUME Init PROVE TypeOK /\ Accounted
  OBVIOUS
<1>1. TypeOK
  <2>1. enters \in [Turns -> Nat] /\ late \in [Turns -> Nat] /\ 0 \in 0..MaxTurns
    BY AutoYesAssumption DEF Init
  <2> QED BY <2>1 DEF Init, TypeOK
<1>2. \A t \in Turns : enters[t] = 0
  BY DEF Init
<1>3. Unshown /\ ReturnedOnce
  BY <1>2 DEF Unshown, ReturnedOnce, Allowance
<1>4. Remembered /\ OnItsWay
  BY DEF Init, Remembered, OnItsWay
<1> QED BY <1>1, <1>3, <1>4 DEF Accounted

(* Every step without a mishap preserves it.                               *)
LEMMA Step ==
  ASSUME TypeOK, TypeOK', Accounted, ~mishap', [Next]_vars
  PROVE  Accounted'
<1> USE AutoYesAssumption DEF Accounted, ReturnedOnce, Allowance, Turns, SecondAllowed
<1>1. ASSUME NEW b \in Boxes, Appear(b) PROVE Accounted'
  <2>1. turn \in Nat /\ turn + 1 \in Turns /\ turn' = turn + 1
    BY <1>1 DEF Appear, TypeOK
  <2>3. enters' = enters /\ enters[turn + 1] = 0
    BY <1>1, <2>1 DEF Appear, history, sent, Unshown
  <2>4. Unshown' /\ ReturnedOnce' /\ Remembered'
    BY <1>1, <2>1, <2>3 DEF Appear, history, sent, memory, Unshown, Remembered, TypeOK
  <2>5. OnItsWay'
    BY <1>1, <2>1, <2>3 DEF Appear, history, sent, memory, OnItsWay, TypeOK
  <2> QED BY <2>4, <2>5
<1>2. CASE Leave
  BY <1>2 DEF Leave, TypeOK, Unshown, Remembered, OnItsWay, memory, history, sent
<1>3. CASE Toggle
  BY <1>3 DEF Toggle, TypeOK, Unshown, Remembered, OnItsWay, screen, memory, history, sent
<1>4. CASE Elapse
  BY <1>4 DEF Elapse, TypeOK, Unshown, Remembered, OnItsWay, screen, history, sent
<1>5. CASE Scan
  <2>1. Unshown' /\ ReturnedOnce' /\ OnItsWay'
    BY <1>5 DEF Scan, Unshown, OnItsWay, screen, sent
  <2>2. Remembered'
    BY <1>5, Reads DEF Scan, Remembered, screen, memory, sent
  <2> QED BY <2>1, <2>2
<1>6. CASE Offer
  BY <1>6 DEF Offer, Due, Answerable, ResendDue, TypeOK, Unshown, Remembered, OnItsWay,
              screen, memory, history, sent
<1>7. CASE ReportStuck
  BY <1>7 DEF ReportStuck, Due, Answerable, TypeOK, Unshown, Remembered, OnItsWay, screen, history, sent
<1>8. CASE NothingDue \/ Skip
  <2>1. UNCHANGED <<screen, provider, armed, offered, expected, memory, history>> /\ pc' = "idle"
    BY <1>8 DEF NothingDue, Skip
  <2> QED BY <2>1 DEF TypeOK, Unshown, Remembered, OnItsWay, screen, memory, history, sent
<1>9. CASE Revalidate
  <2>1. box = expected /\ box # NoBox /\ turn \in Turns
    BY <1>9 DEF Revalidate, SameBox, ReadBox, Remembered
  <2>2. enters[turn] >= 1 => enters[turn] = 1 /\ expected = approved
    BY <1>9, <2>1 DEF Revalidate, Remembered, OnItsWay, TypeOK
  <2> QED
    BY <1>9, <2>1, <2>2
       DEF Revalidate, SameBox, ReadBox, TypeOK, Unshown, Remembered, OnItsWay, screen, memory
<1>10. CASE Refuse
  <2>1. Read \/ UNCHANGED <<offered, memory>>
    BY <1>10 DEF Refuse
  <2>2. Unshown' /\ ReturnedOnce' /\ OnItsWay'
    BY <1>10 DEF Refuse, Unshown, OnItsWay, screen, sent
  <2>3. Remembered'
    BY <1>10, <2>1, Reads DEF Refuse, Remembered, screen, memory, sent
  <2> QED BY <2>2, <2>3
<1>11. CASE SendEnter
  <2>1. /\ target \in Turns /\ target <= turn /\ turn \in Turns
        /\ enters[target] \in Nat
        /\ enters' = [enters EXCEPT ![target] = More(enters[target])]
        /\ approved' = expected /\ expected # NoBox /\ resent' = (expected = approved)
    BY <1>11 DEF SendEnter, IsResend, OnItsWay, TypeOK
  <2>3. ReturnedOnce' /\ Unshown'
    <3>1. \A t \in Turns : t # target => enters'[t] = enters[t]
      BY <2>1 DEF TypeOK
    <3>2. enters'[target] = More(enters[target])
      BY <2>1 DEF TypeOK
    <3>3. enters'[target] <= Allowance
      BY <1>11, <2>1, <3>2 DEF SendEnter, OnItsWay, More
    <3>4. turn' = turn /\ provider' = provider
      BY <1>11 DEF SendEnter, screen
    <3> QED BY <2>1, <3>1, <3>3, <3>4 DEF Unshown, TypeOK
  <2>4. Remembered'
    <3> SUFFICES ASSUME box # NoBox
                 PROVE  /\ turn \in Turns
                        /\ enters'[turn] >= 1 => approved' = box
                        /\ enters'[turn] >= 2 => resent'
      BY <1>11 DEF SendEnter, Remembered, screen
    <3>1. CASE target = turn
      <4>1. box = expected
        BY <1>11, <3>1 DEF SendEnter, OnItsWay
      <4>2. enters'[turn] >= 2 => expected = approved
        BY <1>11, <2>1, <3>1 DEF SendEnter, OnItsWay, TypeOK, More
      <4> QED BY <2>1, <4>1, <4>2
    <3>2. CASE target < turn
      BY <1>11, <2>1, <3>2 DEF SendEnter, OnItsWay, TypeOK
    <3> QED BY <2>1, <3>1, <3>2
  <2>5. OnItsWay'
    BY <1>11 DEF SendEnter, OnItsWay
  <2> QED BY <2>3, <2>4, <2>5
<1>12. CASE SendFails
  BY <1>12 DEF SendFails, TypeOK, Unshown, Remembered, OnItsWay, screen, memory
<1>13. CASE Rebind
  BY <1>13 DEF Rebind, Mishap
<1>14. CASE UNCHANGED vars
  BY <1>14 DEF vars, TypeOK, Unshown, Remembered, OnItsWay, screen, memory, history, sent
<1> QED
  BY <1>1, <1>2, <1>3, <1>4, <1>5, <1>6, <1>7, <1>8, <1>9, <1>10, <1>11, <1>12, <1>13, <1>14
     DEF Next, Run

(* The whole memory needs no more than a box to answer, with any mishaps.  *)
ExpectsABox == pc \in {"approving", "sending"} => expected # NoBox
MemoryInv == TypeOK /\ ExpectsABox

LEMMA MemoryStep == MemoryInv /\ [Next]_vars => MemoryInv'
<1> SUFFICES ASSUME MemoryInv, [Next]_vars PROVE MemoryInv'
  OBVIOUS
<1> USE AutoYesAssumption DEF MemoryInv, TypeOK, ExpectsABox, Turns
<1>1. ASSUME Read
      PROVE  /\ offered' \in Boxes \cup {NoBox}
             /\ UNCHANGED memory \/ Forget
             /\ mishap' \in BOOLEAN
  BY <1>1, Reads
<1>2. CASE Forget /\ (Scan \/ Refuse \/ Rebind)
  BY <1>1, <1>2 DEF Forget, Scan, Refuse, Rebind, Mishap, screen, history, sent
<1>3. CASE UNCHANGED memory /\ (Scan \/ Refuse)
  BY <1>1, <1>3 DEF Scan, Refuse, screen, memory, history, sent
<1>4. ASSUME NEW b \in Boxes, Appear(b) PROVE MemoryInv'
  <2>1. turn \in 0..MaxTurns /\ turn < MaxTurns /\ turn' = turn + 1
    BY <1>4 DEF Appear
  <2>2. turn' \in 0..MaxTurns
    BY <2>1
  <2> QED BY <1>4, <2>2 DEF Appear, memory, history, sent
<1>5. CASE Leave \/ Toggle \/ Elapse \/ UNCHANGED vars
  <2>1. CASE Leave
    BY <2>1 DEF Leave, memory, history, sent
  <2>2. CASE Toggle
    BY <2>2 DEF Toggle, screen, memory, history, sent
  <2>3. CASE Elapse
    BY <2>3 DEF Elapse, screen, history, sent
  <2>4. CASE UNCHANGED vars
    BY <2>4 DEF vars, screen, memory, history, sent
  <2> QED BY <1>5, <2>1, <2>2, <2>3, <2>4
<1>6. CASE Offer \/ ReportStuck \/ NothingDue \/ Skip
  <2>1. CASE Offer
    BY <2>1 DEF Offer, Due, screen, memory, history, sent
  <2>2. CASE ReportStuck
    BY <2>2 DEF ReportStuck, Due, Answerable, screen, history, sent
  <2>3. CASE NothingDue \/ Skip
    BY <2>3 DEF NothingDue, Skip, screen, memory, history, sent
  <2> QED BY <1>6, <2>1, <2>2, <2>3
<1>7. CASE Revalidate \/ SendFails
  <2>1. CASE Revalidate
    BY <2>1 DEF Revalidate, SameBox, ReadBox, screen, memory
  <2>2. CASE SendFails
    <3>1. late' \in [Turns -> Nat]
      BY <2>2, LateIsCounted
    <3> QED BY <2>2, <3>1 DEF SendFails, screen, memory
  <2> QED BY <1>7, <2>1, <2>2
<1>8. CASE SendEnter
  <2>1. IsResend \in BOOLEAN
    BY DEF IsResend
  <2>2. enters' \in [Turns -> Nat]
    BY <1>8, Counts DEF SendEnter
  <2> QED BY <1>8, <2>1, <2>2 DEF SendEnter, screen
<1>9. ASSUME Refuse PROVE Forget \/ UNCHANGED memory
  BY <1>1, <1>9 DEF Refuse
<1> QED BY <1>1, <1>2, <1>3, <1>4, <1>5, <1>6, <1>7, <1>8, <1>9 DEF Next, Run, Scan, Rebind

(* Whatever mishaps there are, what is remembered of an answered box is    *)
(* set and cleared as a whole (fsm.py: _remember_observation, approve).    *)
THEOREM WholeMemory == Spec => []TypeOK
<1>1. Init => MemoryInv
  <2>1. Init => TypeOK
    BY Initially
  <2> QED BY <2>1 DEF Init, MemoryInv, ExpectsABox
<1>2. MemoryInv => TypeOK
  BY DEF MemoryInv
<1> QED BY <1>1, <1>2, MemoryStep, PTL DEF Spec

(* Nothing undoes a mishap.                                                *)
LEMMA MishapsStay == TypeOK /\ [Next]_vars => (mishap => mishap')
<1> SUFFICES ASSUME TypeOK, [Next]_vars, mishap PROVE mishap'
  OBVIOUS
<1>1. CASE Scan \/ Refuse \/ Rebind
  BY <1>1, Reads DEF Scan, Refuse, Rebind, Mishap
<1>2. CASE Revalidate
  BY <1>2 DEF Revalidate, SameBox, ReadBox
<1>3. CASE SendEnter \/ SendFails
  BY <1>3 DEF SendEnter, SendFails
<1>4. CASE UNCHANGED history
  BY <1>4 DEF history, sent
<1>5. ASSUME ~(Scan \/ Refuse \/ Rebind \/ Revalidate \/ SendEnter \/ SendFails)
      PROVE  UNCHANGED history
  BY <1>5 DEF Next, Run, Appear, Leave, Toggle, Elapse, Offer, ReportStuck, NothingDue, Skip, vars
<1> QED BY <1>1, <1>2, <1>3, <1>4, <1>5

(* The inductive invariant holds in every reachable state: until the first *)
(* mishap, whatever was typed for the box on screen is remembered.         *)
THEOREM AutoYesInvariance == Spec => []AutoYesInv
<1>1. Init => AutoYesInv
  BY Initially DEF AutoYesInv
<1>2. AutoYesInv /\ TypeOK' /\ [Next]_vars => AutoYesInv'
  BY Step, MishapsStay DEF AutoYesInv
<1> QED BY <1>1, <1>2, WholeMemory, PTL DEF Spec

(* docs/USAGE.md:712-722: until the first mishap no appearance of a box    *)
(* gets more than its one Enter, two on Claude, from calls of sendText     *)
(* that returned, however identical boxes follow each other, whatever      *)
(* reads and switches fail in between, and whether calls that raised typed *)
(* or not.                                                                 *)
THEOREM Budget == Spec => []EnterBudget
<1>1. AutoYesInv => EnterBudget BY DEF AutoYesInv, Accounted, EnterBudget
<1> QED BY <1>1, AutoYesInvariance, PTL
=============================================================================
