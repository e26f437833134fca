--------------------------- MODULE DashboardProofs ---------------------------
(***************************************************************************)
(* Proofs about what the dashboards do beside watching: the preferences    *)
(* they share, for any number of dashboards, settings and values, and the  *)
(* status monitor, for any providers, components, pages and however many   *)
(* threads hang; and about the two in one model, as the runs check them.   *)
(***************************************************************************)
EXTENDS MCDashboard, FiniteSetTheorems, TLAPS

-----------------------------------------------------------------------------
(* The preferences.                                                        *)

Documents == {doc \in [Fields -> Nat] : \A f \in Fields : doc[f] < Choices[f]}

LEMMA DocumentsAre == ASSUME NEW doc PROVE IsDocument(doc) <=> doc \in Documents
  BY DEF IsDocument, Documents

Writing == {"locked", "merged", "blind"}

(* What type correctness leaves out: the variables are functions.          *)
Shape ==
  /\ display \in [Dashboards -> Documents]
  /\ document \in [Dashboards -> Documents]
  /\ settled \in [Dashboards -> Documents]
  /\ chosen \in [Fields -> Nat \cup {Unset}]

(* Only the holder of the lock is between reading and replacing.           *)
WriterHoldsFlock == \A d \in Dashboards : pc[d] \in Writing => flock = d

(* A lost file has nobody's choice in it.                                  *)
LostIsUnset == file = Invalid => \A f \in Fields : chosen[f] = Unset

(* What is about to be written keeps the choices about other settings ...  *)
MergeKeeps ==
  \A d \in Dashboards : pc[d] = "merged" =>
    \A f \in Fields \ unsaved[d] : chosen[f] \in {Unset, document[d][f]}

(* ... and has what the dashboard displays for its own.                    *)
MergeChanges ==
  \A d \in Dashboards : pc[d] \in {"merged", "blind"} =>
    \A f \in unsaved[d] : document[d][f] = display[d][f]

PrefsInv ==
  /\ PrefsTypeOK /\ Shape
  /\ WriterHoldsFlock /\ LostIsUnset /\ MergeKeeps /\ MergeChanges
  /\ NoLostChoice /\ ChangedIsUnsaved

-----------------------------------------------------------------------------

(* What a key shows next is a value of its setting.                        *)
LEMMA NextChoiceIsOne ==
  ASSUME NEW n \in Nat \ {0}, NEW a \in Nat
  PROVE  (a + 1) % n \in Nat /\ (a + 1) % n < n
  OBVIOUS

LEMMA InitialState == PrefsInit => PrefsInv
  <1> SUFFICES ASSUME PrefsInit PROVE PrefsInv
    OBVIOUS
  <1> USE PrefsAssumption DEF PrefsInit
  <1>1. PrefsTypeOK
    BY DEF PrefsTypeOK
  <1>2. Shape
    BY DocumentsAre DEF Shape
  <1>3. WriterHoldsFlock /\ LostIsUnset /\ MergeKeeps /\ MergeChanges
    BY DEF WriterHoldsFlock, Writing, LostIsUnset, MergeKeeps, MergeChanges
  <1>4. NoLostChoice /\ ChangedIsUnsaved
    BY DEF NoLostChoice, ChangedIsUnsaved
  <1>5. QED
    BY <1>1, <1>2, <1>3, <1>4 DEF PrefsInv

LEMMA OpenStep == ASSUME PrefsInv, NEW d \in Dashboards, Open(d) PROVE PrefsInv'
  <1> USE PrefsAssumption DEF PrefsInv, Open
  <1>1. Loaded \in Documents
    BY DocumentsAre DEF Loaded, PrefsTypeOK
  <1>2. Shape'
    BY <1>1 DEF Shape
  <1>3. PrefsTypeOK'
    BY <1>2, DocumentsAre DEF PrefsTypeOK, Shape
  <1>4. WriterHoldsFlock' /\ LostIsUnset' /\ MergeKeeps' /\ MergeChanges' /\ NoLostChoice'
    BY DEF PrefsTypeOK, WriterHoldsFlock, Writing, LostIsUnset, MergeKeeps, MergeChanges, NoLostChoice
  <1>5. ChangedIsUnsaved'
    BY DEF PrefsTypeOK, Shape, ChangedIsUnsaved
  <1>6. QED
    BY <1>2, <1>3, <1>4, <1>5

LEMMA PressStep ==
  ASSUME PrefsInv, NEW d \in Dashboards, NEW f \in Fields, Press(d, f) PROVE PrefsInv'
  <1> USE PrefsAssumption DEF PrefsInv, Press
  <1>1. NextChoice(d, f) \in Nat /\ NextChoice(d, f) < Choices[f]
    BY NextChoiceIsOne DEF NextChoice, Shape, Documents
  <1>2. Shape'
    BY <1>1 DEF Shape, Documents
  <1>3. PrefsTypeOK'
    BY <1>2, DocumentsAre DEF PrefsTypeOK, Shape
  <1>4. WriterHoldsFlock' /\ LostIsUnset' /\ MergeKeeps' /\ MergeChanges' /\ NoLostChoice'
    BY DEF PrefsTypeOK, Shape, WriterHoldsFlock, Writing, LostIsUnset, MergeKeeps, MergeChanges,
           NoLostChoice
  <1>5. ChangedIsUnsaved'
    BY DEF PrefsTypeOK, Shape, Documents, ChangedIsUnsaved
  <1>6. QED
    BY <1>2, <1>3, <1>4, <1>5

(* A dashboard that ends, by itself or not, leaves the others as they are. *)
LEMMA EndsStep ==
  ASSUME PrefsInv, NEW d \in Dashboards, Ends(d), UNCHANGED <<file, chosen>> PROVE PrefsInv'
  <1> USE PrefsAssumption DEF PrefsInv, Ends
  <1>1. Shape'
    BY DocumentsAre DEF Shape
  <1>2. PrefsTypeOK'
    BY <1>1, DocumentsAre DEF PrefsTypeOK, Shape
  <1>3. WriterHoldsFlock' /\ LostIsUnset' /\ MergeKeeps' /\ MergeChanges' /\ NoLostChoice'
    BY DEF PrefsTypeOK, Shape, WriterHoldsFlock, Writing, LostIsUnset, MergeKeeps, MergeChanges,
           NoLostChoice
  <1>4. ChangedIsUnsaved'
    BY DEF PrefsTypeOK, Shape, ChangedIsUnsaved
  <1>5. QED
    BY <1>1, <1>2, <1>3, <1>4

LEMMA LeaveStep == ASSUME PrefsInv, NEW d \in Dashboards, Leave(d) PROVE PrefsInv'
  <1>1. CASE unsaved[d] = {}
    BY <1>1, EndsStep DEF Leave
  <1>2. CASE unsaved[d] # {}
    <2> USE <1>2 DEF PrefsInv, Leave
    <2>1. Shape' /\ PrefsTypeOK'
      BY DEF Shape, PrefsTypeOK
    <2>2. WriterHoldsFlock' /\ LostIsUnset' /\ MergeKeeps' /\ MergeChanges' /\ NoLostChoice'
      BY DEF PrefsTypeOK, WriterHoldsFlock, Writing, LostIsUnset, MergeKeeps, MergeChanges,
             NoLostChoice
    <2>3. ChangedIsUnsaved'
      BY DEF PrefsTypeOK, ChangedIsUnsaved
    <2>4. QED
      BY <2>1, <2>2, <2>3
  <1>3. QED
    BY <1>1, <1>2

LEMMA LockStep == ASSUME PrefsInv, NEW d \in Dashboards, Lock(d) PROVE PrefsInv'
  <1> USE PrefsAssumption DEF PrefsInv, Lock
  <1>1. Shape' /\ PrefsTypeOK'
    BY DEF Shape, PrefsTypeOK
  <1>2. WriterHoldsFlock' /\ LostIsUnset' /\ MergeKeeps' /\ MergeChanges' /\ NoLostChoice'
    BY DEF PrefsTypeOK, WriterHoldsFlock, Writing, LostIsUnset, MergeKeeps, MergeChanges,
           NoLostChoice
  <1>3. ChangedIsUnsaved'
    BY DEF PrefsTypeOK, ChangedIsUnsaved
  <1>4. QED
    BY <1>1, <1>2, <1>3

(* What is read under the lock is what is there to be replaced.            *)
LEMMA MergeStep ==
  ASSUME PrefsInv, NEW d \in Dashboards, Read(d) \/ ReadFails(d) PROVE PrefsInv'
  <1> USE PrefsAssumption DEF PrefsInv, Read, ReadFails, Merge
  <1>1. Merged(d, file) \in Documents /\ Merged(d, Invalid) \in Documents
    BY DocumentsAre DEF Merged, Shape, PrefsTypeOK, Documents
  <1>2. Shape'
    BY <1>1 DEF Shape
  <1>3. PrefsTypeOK'
    BY <1>2, DocumentsAre DEF PrefsTypeOK, Shape
  <1>4. WriterHoldsFlock' /\ LostIsUnset' /\ NoLostChoice'
    BY DEF PrefsTypeOK, WriterHoldsFlock, Writing, LostIsUnset, NoLostChoice
  <1>5. MergeKeeps'
    BY DEF PrefsTypeOK, Shape, MergeKeeps, Merged, LostIsUnset, NoLostChoice
  <1>6. MergeChanges'
    BY DEF PrefsTypeOK, Shape, MergeChanges, Merged
  <1>7. ChangedIsUnsaved'
    BY DEF PrefsTypeOK, ChangedIsUnsaved
  <1>8. QED
    BY <1>2, <1>3, <1>4, <1>5, <1>6, <1>7

LEMMA ReplaceStep == ASSUME PrefsInv, NEW d \in Dashboards, Replace(d) PROVE PrefsInv'
  <1> DEFINE written == [f \in Fields |-> IF f \in unsaved[d] THEN document[d][f] ELSE settled[d][f]]
  <1>1. written \in Documents /\ document[d] \in Documents
    <2>1. document[d] \in Documents /\ settled[d] \in Documents
      BY DEF PrefsInv, Shape
    <2>2. QED
      BY <2>1 DEF Documents
  <1> USE PrefsAssumption DEF PrefsInv, Replace, Return, Ends
  <1>2. chosen' \in [Fields -> Nat \cup {Unset}]
    BY <1>1 DEF Shape, Documents
  <1>3. Shape'
    BY <1>1, <1>2, DocumentsAre DEF Shape
  <1>4. PrefsTypeOK'
    <2>1. IsDocument(file') /\ (\A f \in Fields : chosen'[f] # Unset => chosen'[f] \in Nat)
      BY <1>1, <1>2, DocumentsAre
    <2>2. \A e \in Dashboards :
            IsDocument(display'[e]) /\ IsDocument(document'[e]) /\ IsDocument(settled'[e])
      BY <1>3, DocumentsAre DEF Shape
    <2>3. QED
      BY <2>1, <2>2 DEF PrefsTypeOK
  <1>5. WriterHoldsFlock'
    BY DEF PrefsTypeOK, WriterHoldsFlock, Writing
  <1>6. LostIsUnset'
    BY <1>1, DocumentsAre DEF LostIsUnset
  <1>7. NoLostChoice'
    BY DEF NoLostChoice, MergeKeeps
  <1>8. MergeKeeps' /\ MergeChanges'
    BY DEF PrefsTypeOK, Shape, WriterHoldsFlock, Writing, MergeKeeps, MergeChanges
  <1>9. ChangedIsUnsaved'
    BY DEF PrefsTypeOK, Shape, MergeChanges, ChangedIsUnsaved
  <1>10. QED
    BY <1>3, <1>4, <1>5, <1>6, <1>7, <1>8, <1>9

LEMMA SaveFailsStep == ASSUME PrefsInv, NEW d \in Dashboards, SaveFails(d) PROVE PrefsInv'
  <1>1. CASE closing[d]
    BY <1>1, EndsStep DEF SaveFails, Return
  <1>2. CASE ~closing[d]
    <2> USE <1>2, PrefsAssumption DEF PrefsInv, SaveFails, Return
    <2>1. Shape'
      BY DocumentsAre DEF Shape, PrefsTypeOK
    <2>2. PrefsTypeOK'
      BY <2>1, DocumentsAre DEF PrefsTypeOK, Shape
    <2>3. WriterHoldsFlock' /\ LostIsUnset' /\ MergeKeeps' /\ MergeChanges' /\ NoLostChoice'
      BY DEF PrefsTypeOK, Shape, WriterHoldsFlock, Writing, LostIsUnset, MergeKeeps, MergeChanges,
             NoLostChoice
    <2>4. ChangedIsUnsaved'
      BY DEF PrefsTypeOK, Shape, ChangedIsUnsaved
    <2>5. QED
      BY <2>1, <2>2, <2>3, <2>4
  <1>3. QED
    BY <1>1, <1>2

LEMMA DamageStep == ASSUME PrefsInv, Damage PROVE PrefsInv'
  BY DEF PrefsInv, Damage, PrefsTypeOK, Shape, WriterHoldsFlock, Writing, LostIsUnset, MergeKeeps,
         MergeChanges, NoLostChoice, ChangedIsUnsaved

LEMMA StutterStep == ASSUME PrefsInv, UNCHANGED prefsVars PROVE PrefsInv'
  BY DEF PrefsInv, prefsVars, PrefsTypeOK, Shape, WriterHoldsFlock, Writing, LostIsUnset,
         MergeKeeps, MergeChanges, NoLostChoice, ChangedIsUnsaved, IsDocument

(* The invariant holds whatever the dashboards do.                         *)
THEOREM PreferencesInvariance == PrefsSpec => []PrefsInv
  <1>1. PrefsInv /\ [PrefsNext]_prefsVars => PrefsInv'
    BY OpenStep, PressStep, EndsStep, LeaveStep, LockStep, MergeStep, ReplaceStep, SaveFailsStep,
       DamageStep, StutterStep DEF PrefsNext, Die
  <1>2. QED
    BY InitialState, <1>1, PTL DEF PrefsSpec

(* Type correctness.                                                       *)
THEOREM PreferencesTyping == PrefsSpec => []PrefsTypeOK
  BY PreferencesInvariance, PTL DEF PrefsInv

(* No dashboard overwrites a choice another one saved, whatever settings   *)
(* they change, and wherever they fail or die.                             *)
THEOREM ChoicesAreKept == PrefsSpec => []NoLostChoice
  BY PreferencesInvariance, PTL DEF PrefsInv

(* A change that could not be saved stays unsaved until a save is good.    *)
THEOREM ChangesWait == PrefsSpec => []ChangedIsUnsaved
  BY PreferencesInvariance, PTL DEF PrefsInv

-----------------------------------------------------------------------------
(* The status monitor.                                                     *)

Answers == {NoPage} \cup (UNION {Pages[p] : p \in Providers})

(* What type correctness leaves out.                                       *)
MonitorShape ==
  /\ page \in [Providers -> Answers]
  /\ etag \in [Providers -> Answers]
  /\ shown \in [Providers -> Answers]
  /\ answered \in [Threads -> Answers]

(* No thread the monitor has forgotten is alive.                           *)
AliveIsKept == \A t \in Threads : Alive(t) => t \in kept

(* A reading in hand is the verdict on its page ...                        *)
HandIsTheAnswer ==
  \A t \in Threads : thread[t] = "holding" => hand[t] = Verdict(Provider(t), Content[answered[t]])

(* ... and a cached reading the verdict on the page its validator is of.   *)
CacheIsTheAnswer ==
  \A p \in Providers : etag[p] # NoPage => cached[p] = Verdict(p, Content[etag[p]])

MonitorInv ==
  /\ MonitorTypeOK /\ MonitorShape
  /\ AliveIsKept /\ OneThread
  /\ HandIsTheAnswer /\ CacheIsTheAnswer /\ ReadingIsTheAnswer

-----------------------------------------------------------------------------
(* parse_summary finds what Verdict describes.                             *)

LEMMA SeverityRange == ASSUME NEW status PROVE Severity(status) \in 0..3
  BY DEF Severity

(* The component that is meant is the only match.                          *)
LEMMA TheOneMatches ==
  ASSUME NEW answer, NEW w, NEW c \in answer
  PROVE  IsThe(c, w, answer) <=> Matches(w, answer) = {c}
  BY DEF IsThe, Matches

LEMMA OneMatch ==
  ASSUME NEW answer, IsFiniteSet(answer), NEW w
  PROVE  Cardinality(Matches(w, answer)) = 1 <=> \E c \in answer : IsThe(c, w, answer)
  <1>1. Matches(w, answer) \subseteq answer
    BY DEF Matches
  <1>2. IsFiniteSet(Matches(w, answer))
    BY <1>1, FS_Subset
  <1>3. Cardinality(Matches(w, answer)) = 1 <=> \E c : Matches(w, answer) = {c}
    BY <1>2, FS_Singleton
  <1>4. QED
    BY <1>1, <1>3, TheOneMatches

LEMMA SummaryIsTheVerdict ==
  ASSUME NEW p \in Providers, NEW says, IsFiniteSet(Content[says])
  PROVE  ParseSummary(p, says) = Verdict(p, Content[says])
  <1> DEFINE answer == Content[says]
             selected == SelectedComponents(p, answer)
             worst(n) == \E c \in selected : Severity(c.status) = n
             unique == \A w \in Watched[p] : Cardinality(Matches(w, answer)) = 1
             found(c) == \E w \in Watched[p] : c \in answer /\ IsThe(c, w, answer)
  <1>1. unique <=> \A w \in Watched[p] : \E c \in answer : IsThe(c, w, answer)
    BY OneMatch
  <1>2. CASE ~unique
    <2>1. ParseSummary(p, says) = "UNKNOWN"
      BY <1>2 DEF ParseSummary
    <2>2. ~Understood(p, answer)
      BY <1>1, <1>2 DEF Understood
    <2>3. QED
      BY <2>1, <2>2 DEF Verdict
  <1>3. CASE unique
    <2>1. ASSUME NEW c PROVE c \in selected <=> found(c)
      <3>1. ASSUME NEW w \in Watched[p] PROVE c \in Matches(w, answer) <=> c \in answer /\ IsThe(c, w, answer)
        <4>1. PICK e \in answer : IsThe(e, w, answer)
          BY <1>1, <1>3
        <4>2. Matches(w, answer) = {e}
          BY <4>1, TheOneMatches
        <4>3. c \in answer => (IsThe(c, w, answer) <=> {e} = {c})
          BY <4>2, TheOneMatches
        <4>4. QED
          BY <4>2, <4>3
      <3>2. QED
        BY <3>1 DEF SelectedComponents
    <2>2. ASSUME NEW w \in Watched[p], NEW c \in answer, NEW e \in answer,
                 IsThe(c, w, answer), IsThe(e, w, answer)
          PROVE  c = e
      BY <2>2, TheOneMatches
    <2>3. Understood(p, answer) <=> ~worst(3)
      <3>1. ASSUME worst(3) PROVE ~Understood(p, answer)
        <4>1. PICK c : found(c) /\ Severity(c.status) = 3
          BY <3>1, <2>1
        <4>2. QED
          BY <4>1, <2>2 DEF Understood
      <3>2. ASSUME ~worst(3) PROVE Understood(p, answer)
        <4>1. ASSUME NEW w \in Watched[p]
              PROVE \E c \in answer : IsThe(c, w, answer) /\ Severity(c.status) < 3
          <5>1. PICK c \in answer : IsThe(c, w, answer)
            BY <1>1, <1>3
          <5>2. c \in selected
            BY <5>1, <2>1
          <5>3. Severity(c.status) # 3 /\ Severity(c.status) \in 0..3
            BY <5>2, <3>2, SeverityRange
          <5>4. QED
            BY <5>1, <5>3
        <4>2. QED
          BY <4>1 DEF Understood
      <3>3. QED
        BY <3>1, <3>2
    <2>4. Bad(p, answer, 2) <=> worst(2) \/ worst(3)
      <3>1. Bad(p, answer, 2) <=> \E c \in selected : Severity(c.status) >= 2
        BY <2>1 DEF Bad
      <3>2. \A c : Severity(c.status) >= 2 <=> Severity(c.status) = 2 \/ Severity(c.status) = 3
        BY SeverityRange
      <3>3. QED
        BY <3>1, <3>2
    <2>5. Bad(p, answer, 1) <=> worst(1) \/ worst(2) \/ worst(3)
      <3>1. Bad(p, answer, 1) <=> \E c \in selected : Severity(c.status) >= 1
        BY <2>1 DEF Bad
      <3>2. \A c : Severity(c.status) >= 1
                     <=> Severity(c.status) = 1 \/ Severity(c.status) = 2 \/ Severity(c.status) = 3
        BY SeverityRange
      <3>3. QED
        BY <3>1, <3>2
    <2>6. ParseSummary(p, says) = IF worst(3) THEN "UNKNOWN"
                                  ELSE IF worst(2) THEN "OUTAGE"
                                  ELSE IF worst(1) THEN "DEGRADED" ELSE "ONLINE"
      BY <1>3 DEF ParseSummary
    <2>7. QED
      BY <2>3, <2>4, <2>5, <2>6 DEF Verdict
  <1>4. QED
    BY <1>2, <1>3

(* No answer says nothing.                                                 *)
LEMMA NothingIsUnknown == ASSUME NEW p \in Providers PROVE Verdict(p, Content[NoPage]) = "UNKNOWN"
  BY MonitorAssumption DEF Verdict, Understood

LEMMA VerdictIsAState == ASSUME NEW p, NEW answer PROVE Verdict(p, answer) \in States
  BY DEF Verdict, States

-----------------------------------------------------------------------------

LEMMA MonitorInitial == MonitorInit => MonitorInv
  <1> SUFFICES ASSUME MonitorInit PROVE MonitorInv
    OBVIOUS
  <1> USE DEF MonitorInit
  <1>1. MonitorTypeOK /\ MonitorShape
    BY DEF MonitorTypeOK, MonitorShape, States, ThreadStates, Answers, Threads
  <1>2. AliveIsKept /\ OneThread /\ HandIsTheAnswer /\ CacheIsTheAnswer
    BY DEF AliveIsKept, OneThread, ThreadsOf, Alive, HandIsTheAnswer, CacheIsTheAnswer
  <1>3. ReadingIsTheAnswer
    BY NothingIsUnknown DEF ReadingIsTheAnswer
  <1>4. QED
    BY <1>1, <1>2, <1>3 DEF MonitorInv

LEMMA EnvironmentStep ==
  ASSUME MonitorInv, NEW p \in Providers, (\E says \in Pages[p] : Publish(p, says)) \/ Network(p)
  PROVE  MonitorInv'
  <1> USE DEF Publish, Network, client, MonitorInv
  <1>1. MonitorTypeOK' /\ MonitorShape'
    BY DEF MonitorTypeOK, MonitorShape, Answers
  <1>2. AliveIsKept' /\ OneThread' /\ HandIsTheAnswer' /\ CacheIsTheAnswer' /\ ReadingIsTheAnswer'
    BY DEF AliveIsKept, OneThread, ThreadsOf, Alive, HandIsTheAnswer, CacheIsTheAnswer,
           ReadingIsTheAnswer
  <1>3. QED
    BY <1>1, <1>2

(* A step of a thread that starts none keeps the threads apart.            *)
LEMMA NoThreadStarts ==
  ASSUME AliveIsKept, OneThread, kept' = kept, NEW t \in Threads, thread \in [Threads -> ThreadStates],
         Alive(t), NEW where \in ThreadStates, GoesTo(t, where)
  PROVE  AliveIsKept' /\ OneThread'
  <1>1. \A u \in Threads : Alive(u)' => Alive(u)
    BY DEF Alive, GoesTo
  <1>2. QED
    BY <1>1 DEF AliveIsKept, OneThread, ThreadsOf

LEMMA FinishStep == ASSUME MonitorInv, NEW t \in Threads, Finish(t) PROVE MonitorInv'
  <1> USE DEF Finish, GoesTo, environment, client, MonitorInv
  <1>1. MonitorTypeOK' /\ MonitorShape'
    BY DEF MonitorTypeOK, MonitorShape, ThreadStates
  <1>2. AliveIsKept' /\ OneThread'
    BY NoThreadStarts DEF MonitorTypeOK, ThreadStates, Alive
  <1>3. HandIsTheAnswer' /\ CacheIsTheAnswer' /\ ReadingIsTheAnswer'
    BY DEF MonitorTypeOK, HandIsTheAnswer, CacheIsTheAnswer, ReadingIsTheAnswer
  <1>4. QED
    BY <1>1, <1>2, <1>3

LEMMA RequestStep == ASSUME MonitorInv, NEW t \in Threads, Request(t) PROVE MonitorInv'
  <1> USE DEF Request, GoesTo, environment, MonitorInv
  <1>1. MonitorTypeOK' /\ MonitorShape'
    BY DEF MonitorTypeOK, MonitorShape, ThreadStates
  <1>2. AliveIsKept' /\ OneThread'
    BY NoThreadStarts DEF MonitorTypeOK, ThreadStates, Alive
  <1>3. HandIsTheAnswer' /\ CacheIsTheAnswer' /\ ReadingIsTheAnswer'
    BY DEF MonitorTypeOK, HandIsTheAnswer, CacheIsTheAnswer, ReadingIsTheAnswer
  <1>4. QED
    BY <1>1, <1>2, <1>3

LEMMA ShowStep == ASSUME MonitorInv, NEW t \in Threads, Show(t) PROVE MonitorInv'
  <1> USE DEF Show, GoesTo, environment, client, MonitorInv
  <1>1. MonitorTypeOK' /\ MonitorShape'
    BY DEF MonitorTypeOK, MonitorShape, ThreadStates, States, Answers, Threads, Provider
  <1>2. AliveIsKept' /\ OneThread'
    BY NoThreadStarts DEF MonitorTypeOK, ThreadStates, Alive
  <1>3. HandIsTheAnswer' /\ CacheIsTheAnswer'
    BY DEF MonitorTypeOK, MonitorShape, HandIsTheAnswer, CacheIsTheAnswer
  <1>4. ReadingIsTheAnswer'
    BY DEF MonitorTypeOK, MonitorShape, HandIsTheAnswer, ReadingIsTheAnswer
  <1>5. QED
    BY <1>1, <1>2, <1>3, <1>4

-----------------------------------------------------------------------------
(* The outcomes of a fetch.                                                *)

(* A fetch that ends with a reading leaves the verdict on its page.        *)
LEMMA ReadingInHand ==
  ASSUME MonitorInv, NEW t \in Threads, NEW state \in States, NEW answer \in Answers,
         Holds(t, state, answer), state = Verdict(Provider(t), Content[answer])
  PROVE  HandIsTheAnswer' /\ hand' \in [Threads -> States] /\ answered' \in [Threads -> Answers]
  BY DEF MonitorInv, MonitorTypeOK, MonitorShape, HandIsTheAnswer, Holds, GoesTo

LEMMA PageIsAnAnswer ==
  ASSUME MonitorInv, NEW p \in Providers
  PROVE  /\ page[p] \in Answers /\ page[p] # NoPage
         /\ ParseSummary(p, page[p]) = Verdict(p, Content[page[p]])
  BY MonitorAssumption, SummaryIsTheVerdict DEF MonitorInv, MonitorTypeOK, Answers

LEMMA AnswerStep == ASSUME MonitorInv, NEW t \in Threads, Answer(t) PROVE MonitorInv'
  <1> DEFINE p == Provider(t)
             Sound == /\ HandIsTheAnswer' /\ CacheIsTheAnswer'
                      /\ hand' \in [Threads -> States] /\ answered' \in [Threads -> Answers]
                      /\ cached' \in [Providers -> States] /\ etag' \in [Providers -> Answers]
                      /\ conn' \in [Providers -> {"none", "open"}]
  <1>1. p \in Providers
    BY DEF Provider, Threads
  <1>2. \E where \in ThreadStates : GoesTo(t, where)
    <2>1. CASE Reconnects(t)
      BY <2>1 DEF Reconnects, GoesTo, Answer, MonitorInv, MonitorTypeOK, ThreadStates
    <2>2. CASE ~Reconnects(t)
      BY <2>2 DEF Answer, Torn, Unanswered, Reached, CutShort, Dies, TransportFailure, NotModified,
                  FullAnswer, ServerError, Holds, ThreadStates
    <2>3. QED
      BY <2>1, <2>2
  <1>3. AliveIsKept' /\ OneThread'
    BY <1>2, NoThreadStarts DEF Answer, Alive, MonitorInv, MonitorTypeOK
  <1>4. ReadingIsTheAnswer'
    BY DEF Answer, ReadingIsTheAnswer, MonitorInv
  <1>5. Sound
    <2>1. CASE Dies(t) \/ Reconnects(t)
      BY <2>1, <1>1 DEF Dies, Reconnects, GoesTo, client, Answer, MonitorInv, MonitorTypeOK,
                        MonitorShape, HandIsTheAnswer, CacheIsTheAnswer
    <2>2. CASE TransportFailure(t) \/ ServerError(t)
      <3>1. Holds(t, "UNKNOWN", NoPage) /\ "UNKNOWN" \in States /\ NoPage \in Answers
        BY <2>2 DEF TransportFailure, ServerError, States, Answers
      <3>2. HandIsTheAnswer' /\ hand' \in [Threads -> States] /\ answered' \in [Threads -> Answers]
        BY <3>1, <1>1, ReadingInHand, NothingIsUnknown
      <3>3. QED
        BY <2>2, <3>2, <1>1 DEF TransportFailure, ServerError, client, MonitorInv, MonitorTypeOK,
                                MonitorShape, CacheIsTheAnswer
    <2>3. CASE NotModified(t)
      <3>1. /\ Holds(t, cached[p], page[p])
            /\ cached[p] \in States /\ page[p] \in Answers
            /\ cached[p] = Verdict(p, Content[page[p]])
        BY <2>3, <1>1, PageIsAnAnswer DEF NotModified, MonitorInv, MonitorTypeOK, CacheIsTheAnswer
      <3>2. HandIsTheAnswer' /\ hand' \in [Threads -> States] /\ answered' \in [Threads -> Answers]
        BY <3>1, ReadingInHand
      <3>3. QED
        BY <2>3, <3>2 DEF NotModified, client, MonitorInv, MonitorTypeOK, MonitorShape,
                          CacheIsTheAnswer
    <2>4. ASSUME NEW tagged \in BOOLEAN, FullAnswer(t, tagged) PROVE Sound
      <3> DEFINE state == ParseSummary(p, page[p])
      <3>1. /\ Holds(t, state, page[p]) /\ page[p] \in Answers
            /\ state \in States /\ state = Verdict(p, Content[page[p]])
        BY <2>4, <1>1, PageIsAnAnswer, VerdictIsAState DEF FullAnswer
      <3>2. HandIsTheAnswer' /\ hand' \in [Threads -> States] /\ answered' \in [Threads -> Answers]
        BY <3>1, ReadingInHand
      <3> HIDE DEF state
      <3>3. CASE state = "UNKNOWN"
        BY <2>4, <3>2, <3>3 DEF FullAnswer, client, MonitorInv, MonitorTypeOK, MonitorShape,
                                CacheIsTheAnswer, state
      <3>4. CASE state # "UNKNOWN"
        <4>1. /\ cached' = [cached EXCEPT ![p] = state]
              /\ etag' = [etag EXCEPT ![p] = IF tagged THEN page[p] ELSE NoPage]
              /\ conn' = conn
          BY <2>4, <3>4 DEF FullAnswer, state
        <4>2. NoPage \in Answers
          BY DEF Answers
        <4>3. CacheIsTheAnswer'
          BY <4>1, <3>1, <1>1 DEF CacheIsTheAnswer, MonitorInv, MonitorTypeOK, MonitorShape
        <4>4. QED
          BY <4>1, <4>2, <4>3, <3>1, <3>2, <1>1 DEF MonitorInv, MonitorTypeOK, MonitorShape
      <3>5. QED
        BY <3>3, <3>4
    <2>5. QED
      BY <2>1, <2>2, <2>3, <2>4 DEF Answer, Torn, Unanswered, Reached, CutShort
  <1>6. MonitorTypeOK' /\ MonitorShape'
    BY <1>1, <1>2, <1>5 DEF Answer, GoesTo, environment, MonitorInv, MonitorTypeOK, MonitorShape
  <1>7. QED
    BY <1>3, <1>4, <1>5, <1>6 DEF MonitorInv

-----------------------------------------------------------------------------
(* The caller.                                                             *)

(* start() finds one slot for each provider.                               *)
LEMMA OneSlot ==
  ASSUME NEW t \in NewThreads, NEW u \in NewThreads, Provider(t) = Provider(u),
         \A x \in Threads : ~Alive(x)
  PROVE  t = u
  <1>1. /\ t \in Providers \X Slots /\ u \in Providers \X Slots
        /\ t[1] = u[1] /\ t[2] \in Nat /\ u[2] \in Nat
    BY MonitorAssumption DEF NewThreads, Threads, Provider
  <1>2. <<t[1], u[2]>> \in Threads /\ <<u[1], t[2]>> \in Threads
    BY <1>1 DEF Threads
  <1>3. ~(u[2] < t[2]) /\ ~(t[2] < u[2])
    BY <1>1, <1>2 DEF NewThreads
  <1>4. QED
    BY <1>1, <1>3

LEMMA StartStep == ASSUME MonitorInv, Start PROVE MonitorInv'
  <1> USE DEF Start, environment, client, MonitorInv
  <1>1. MonitorTypeOK' /\ MonitorShape'
    <2>1. kept' \subseteq Threads
      BY DEF MonitorTypeOK, NewThreads
    <2>2. thread' \in [Threads -> ThreadStates]
      BY DEF MonitorTypeOK, ThreadStates
    <2>3. launched' \subseteq Providers /\ stop' \in BOOLEAN
      BY DEF MonitorTypeOK
    <2>4. QED
      BY <2>1, <2>2, <2>3 DEF MonitorTypeOK, MonitorShape
  <1>2. CASE {t \in kept : Alive(t)} # {}
    BY <1>1, <1>2 DEF AliveIsKept, OneThread, ThreadsOf, Alive, HandIsTheAnswer, CacheIsTheAnswer,
                      ReadingIsTheAnswer
  <1>3. CASE {t \in kept : Alive(t)} = {}
    <2>1. \A t \in Threads : ~Alive(t)
      BY <1>3 DEF AliveIsKept
    <2>2. \A t \in Threads : Alive(t)' <=> t \in NewThreads
      BY <1>3, <2>1 DEF Alive
    <2>3. AliveIsKept'
      BY <1>3, <2>2 DEF AliveIsKept
    <2>4. OneThread'
      BY <2>1, <2>2, OneSlot DEF OneThread, ThreadsOf
    <2>5. HandIsTheAnswer' /\ CacheIsTheAnswer' /\ ReadingIsTheAnswer'
      BY <1>3 DEF HandIsTheAnswer, CacheIsTheAnswer, ReadingIsTheAnswer
    <2>6. QED
      BY <1>1, <2>3, <2>4, <2>5
  <1>4. QED
    BY <1>2, <1>3

LEMMA StopStep == ASSUME MonitorInv, Stop \/ Joined \/ CloseClients PROVE MonitorInv'
  <1> USE DEF Stop, Joined, CloseClients, environment, client, MonitorInv
  <1>1. MonitorTypeOK' /\ MonitorShape'
    BY DEF MonitorTypeOK, MonitorShape
  <1>2. AliveIsKept' /\ OneThread'
    BY DEF AliveIsKept, OneThread, ThreadsOf, Alive
  <1>3. HandIsTheAnswer' /\ CacheIsTheAnswer' /\ ReadingIsTheAnswer'
    BY DEF HandIsTheAnswer, CacheIsTheAnswer, ReadingIsTheAnswer
  <1>4. QED
    BY <1>1, <1>2, <1>3

LEMMA MonitorStutter == ASSUME MonitorInv, UNCHANGED monitorVars PROVE MonitorInv'
  BY DEF monitorVars, environment, client, MonitorInv, MonitorTypeOK, MonitorShape, AliveIsKept,
         OneThread, ThreadsOf, Alive, HandIsTheAnswer, CacheIsTheAnswer, ReadingIsTheAnswer

(* The invariant holds however fetches hang and the monitor is started and *)
(* stopped.                                                                *)
THEOREM MonitorInvariance == MonitorSpec => []MonitorInv
  <1>1. MonitorInv /\ [MonitorNext]_monitorVars => MonitorInv'
    BY EnvironmentStep, FinishStep, RequestStep, AnswerStep, ShowStep, StartStep, StopStep,
       MonitorStutter DEF MonitorNext, ThreadStep
  <1>2. QED
    BY MonitorInitial, <1>1, PTL DEF MonitorSpec

(* Type correctness.                                                       *)
THEOREM MonitorTyping == MonitorSpec => []MonitorTypeOK
  BY MonitorInvariance, PTL DEF MonitorInv

(* No provider is ever polled by two threads.                              *)
THEOREM OneThreadEach == MonitorSpec => []OneThread
  BY MonitorInvariance, PTL DEF MonitorInv

(* What is published is the verdict on the page that was served.           *)
THEOREM PublishedIsTheVerdict == MonitorSpec => []ReadingIsTheAnswer
  BY MonitorInvariance, PTL DEF MonitorInv

-----------------------------------------------------------------------------
(* Both.                                                                   *)

(* The monitor behaves beside the preferences as it does alone: a step of  *)
(* the model is one of its steps or leaves its state as it was.            *)
THEOREM DashboardMonitors == Spec => MonitorSpec
  <1>1. Init => MonitorInit
    BY DEF Init
  <1>2. [Next]_<<focus, monitorVars, prefsVars>> => [MonitorNext]_monitorVars
    BY DEF Next
  <1>3. QED
    BY <1>1, <1>2, PTL DEF Spec, MonitorSpec

(* And so do the preferences beside the monitor.                           *)
THEOREM DashboardPrefers == Spec => PrefsSpec
  <1>1. Init => PrefsInit
    BY DEF Init
  <1>2. [Next]_<<focus, monitorVars, prefsVars>> => [PrefsNext]_prefsVars
    BY DEF Next
  <1>3. QED
    BY <1>1, <1>2, PTL DEF Spec, PrefsSpec

(* Every variable of the two stays within its type.                        *)
THEOREM DashboardTyping == Spec => []TypeOK
  <1>1. MonitorTypeOK /\ PrefsTypeOK => TypeOK
    BY DEF TypeOK
  <1>2. QED
    BY <1>1, DashboardMonitors, DashboardPrefers, MonitorTyping, PreferencesTyping, PTL

(* What the runs of the two check holds of the model they run: one thread  *)
(* for each provider, the published reading the verdict on its page, no    *)
(* choice lost and every change unsaved until a good save.                 *)
THEOREM DashboardKeeps == Spec => [](OneThread /\ ReadingIsTheAnswer /\ NoLostChoice /\ ChangedIsUnsaved)
  BY DashboardMonitors, DashboardPrefers, OneThreadEach, PublishedIsTheVerdict, ChoicesAreKept, ChangesWait, PTL
=============================================================================
