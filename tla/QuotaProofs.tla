----------------------------- MODULE QuotaProofs -----------------------------
(***************************************************************************)
(* Proofs about the usage shown for Claude, for any number of sessions,    *)
(* documents and processes, and for Codex, for any processes, homes,       *)
(* accounts, times and number of logins; and about the two in one model,   *)
(* as the runs check them.                                                 *)
(***************************************************************************)
EXTENDS MCQuota, TLAPS

-----------------------------------------------------------------------------
(* Claude's usage.                                                         *)

Scanning == {"reading", "stat", "read", "checking", "checked"}

(* Nothing has been written or removed since the directory was listed.     *)
Still == scan # "idle" /\ latest = listing

(* What the steps of a call rely on.                                       *)
CallShape ==
  /\ \A f \in parsed : disk[f] # NoFile
  /\ scan # "idle" => listing <= latest
  /\ scan \in {"stat", "read"} => current \in todo
  /\ scan = "read" => document # NoFile
  /\ scan \in {"idle", "listed"} => newest = NoFile

(* The candidates still to be read and those read are all there are, while *)
(* nothing moves.                                                          *)
ListedAreAll == (scan = "listed" /\ latest = listing) => Present \subseteq todo

(* What is right now is on record, and so is what was when the process was *)
(* read, if the files have not moved since.                                *)
NowIsWitnessed == scan # "idle" => Right(disk, process) \subseteq truths
StartIsWitnessed == (Still /\ scan \in Scanning) => Right(disk, start) \subseteq truths

(* While nothing moves, the answer so far is the best of what was read.    *)
BestSoFar ==
  (Still /\ scan \in Scanning) =>
    /\ newest # NoFile => \E f \in Mine(disk, start) \ todo : newest = disk[f]
    /\ \A g \in Mine(disk, start) \ todo : newest # NoFile /\ disk[g].stamp <= newest.stamp
ReadIsOnDisk == (Still /\ scan = "read") => document = disk[current]

(* After the last check of the directory the answer is on record.          *)
CheckedIsRight == (scan = "checked" /\ newest # NoFile) => newest.version \in truths

BridgeInv ==
  /\ BridgeTypeOK /\ CallShape /\ ListedAreAll
  /\ NowIsWitnessed /\ StartIsWitnessed /\ BestSoFar /\ ReadIsOnDisk /\ CheckedIsRight
  /\ AnswerWasRight

-----------------------------------------------------------------------------

LEMMA RightHasVersions ==
  ASSUME disk \in [Files -> Documents \cup {NoFile}], NEW s PROVE Right(disk, s) \subseteq 1..MaxVersions
  BY DEF Right, Mine, Documents

LEMMA BridgeInitial == BridgeInit => BridgeInv
  <1> SUFFICES ASSUME BridgeInit PROVE BridgeInv
    OBVIOUS
  <1> USE BridgeAssumption DEF BridgeInit
  <1>1. BridgeTypeOK
    BY DEF BridgeTypeOK, Gone
  <1>2. CallShape /\ ListedAreAll /\ NowIsWitnessed /\ StartIsWitnessed /\ BestSoFar /\ ReadIsOnDisk
    BY DEF CallShape, ListedAreAll, NowIsWitnessed, Still, StartIsWitnessed, Scanning, BestSoFar,
           ReadIsOnDisk
  <1>3. CheckedIsRight /\ AnswerWasRight
    BY DEF CheckedIsRight, AnswerWasRight
  <1>4. QED
    BY <1>1, <1>2, <1>3 DEF BridgeInv

(* A file that is written or removed ends the stillness of a call.         *)
LEMMA FileStep ==
  ASSUME BridgeInv, NEW f \in Files, NEW new \in Documents \cup {NoFile},
         latest < MaxVersions, latest' = latest + 1, disk' = [disk EXCEPT ![f] = new],
         parsed' = parsed \ {f}, UNCHANGED <<process, scan, locals, answer>>, Witness
  PROVE  BridgeInv'
  <1> USE BridgeAssumption DEF BridgeInv, locals, Witness
  <1>1. disk' \in [Files -> Documents \cup {NoFile}] /\ latest' \in 0..MaxVersions
    BY DEF BridgeTypeOK
  <1>2. truths' \subseteq 1..MaxVersions
    <2>1. Right(disk', process') \subseteq 1..MaxVersions
      BY <1>1 DEF Right, Mine, Documents
    <2>2. QED
      BY <2>1 DEF BridgeTypeOK
  <1>3. BridgeTypeOK'
    BY <1>1, <1>2 DEF BridgeTypeOK
  <1>4. truths \subseteq truths' /\ (scan = "idle" => truths' = truths)
    OBVIOUS
  <1>5. CallShape'
    BY <1>1 DEF CallShape, BridgeTypeOK
  <1>6. scan' # "idle" => latest' # listing'
    BY DEF CallShape, BridgeTypeOK
  <1>7. ListedAreAll' /\ StartIsWitnessed' /\ BestSoFar' /\ ReadIsOnDisk'
    BY <1>6 DEF ListedAreAll, StartIsWitnessed, BestSoFar, ReadIsOnDisk, Still
  <1>8. NowIsWitnessed'
    BY DEF NowIsWitnessed, Right, Mine
  <1>9. CheckedIsRight' /\ AnswerWasRight'
    BY <1>4 DEF CheckedIsRight, AnswerWasRight
  <1>10. QED
    BY <1>3, <1>5, <1>7, <1>8, <1>9

LEMMA ReplacedStep ==
  ASSUME BridgeInv, NEW s \in Gone..MaxStarts, Replaced(s) PROVE BridgeInv'
  <1> USE BridgeAssumption DEF BridgeInv, locals, Witness, Replaced
  <1>1. truths \subseteq truths' /\ truths' \subseteq 1..MaxVersions
    <2>1. Right(disk', process') \subseteq 1..MaxVersions
      BY DEF Right, Mine, Documents, BridgeTypeOK
    <2>2. QED
      BY <2>1 DEF BridgeTypeOK
  <1>2. BridgeTypeOK'
    BY <1>1 DEF BridgeTypeOK
  <1>3. CallShape' /\ ListedAreAll' /\ BestSoFar' /\ ReadIsOnDisk'
    BY DEF CallShape, ListedAreAll, BestSoFar, ReadIsOnDisk, Still, Mine, Present
  <1>4. Right(disk', start') = Right(disk, start)
    BY DEF Right, Mine
  <1>5. StartIsWitnessed'
    BY <1>1, <1>4 DEF StartIsWitnessed, Still
  <1>6. NowIsWitnessed'
    BY DEF NowIsWitnessed
  <1>7. CheckedIsRight' /\ AnswerWasRight'
    BY <1>1 DEF CheckedIsRight, AnswerWasRight
  <1>8. QED
    BY <1>2, <1>3, <1>5, <1>6, <1>7

LEMMA BridgeEnvironmentStep == ASSUME BridgeInv, BridgeEnvironment PROVE BridgeInv'
  <1>1. ASSUME NEW f \in Files, Remove(f) PROVE BridgeInv'
    BY <1>1, FileStep DEF Remove
  <1>2. ASSUME NEW f \in Files, NEW kind \in Kinds, NEW stamp \in Stamps, Render(f, kind, stamp)
        PROVE  BridgeInv'
    <2> DEFINE new == [kind |-> kind, version |-> latest', start |-> process, stamp |-> stamp]
    <2>1. new \in Documents
      BY <1>2, BridgeAssumption DEF Render, Documents, Gone, BridgeInv, BridgeTypeOK
    <2>2. disk' = [disk EXCEPT ![f] = new]
      BY <1>2 DEF Render
    <2> HIDE DEF new
    <2>3. QED
      BY <1>2, <2>1, <2>2, FileStep DEF Render
  <1>3. QED
    BY <1>1, <1>2, ReplacedStep DEF BridgeEnvironment

-----------------------------------------------------------------------------
(* The steps of a call.                                                    *)

(* The end of a call.                                                      *)
LEMMA AnswersStep ==
  ASSUME BridgeInv, NEW what, Answers(what), what \in (1..MaxVersions) \cup {Unknown},
         what # Unknown => what \in truths,
         parsed' = parsed \/ (\E f \in Files : disk[f] # NoFile /\ parsed' = parsed \cup {f})
  PROVE  BridgeInv'
  <1> USE BridgeAssumption DEF BridgeInv, Answers, Rest, environment
  <1>1. BridgeTypeOK'
    BY DEF BridgeTypeOK, Gone
  <1>2. CallShape'
    BY DEF CallShape
  <1>3. /\ ListedAreAll' /\ NowIsWitnessed' /\ StartIsWitnessed' /\ BestSoFar' /\ ReadIsOnDisk'
        /\ CheckedIsRight'
    BY DEF ListedAreAll, NowIsWitnessed, Still, StartIsWitnessed, BestSoFar, ReadIsOnDisk,
           CheckedIsRight
  <1>4. AnswerWasRight'
    BY DEF AnswerWasRight
  <1>5. QED
    BY <1>1, <1>2, <1>3, <1>4

LEMMA ListStep == ASSUME BridgeInv, List PROVE BridgeInv'
  <1>1. CASE Present = {}
    BY <1>1, AnswersStep DEF List
  <1>2. CASE Present # {}
    <2> USE <1>2, BridgeAssumption DEF List, BridgeInv, environment
    <2>1. truths' \subseteq 1..MaxVersions
      BY RightHasVersions DEF BridgeTypeOK
    <2>2. BridgeTypeOK'
      BY <2>1 DEF BridgeTypeOK, Present
    <2>3. CallShape'
      BY DEF CallShape, BridgeTypeOK
    <2>4. NowIsWitnessed'
      BY DEF NowIsWitnessed, Right, Mine
    <2>5. ListedAreAll'
      BY DEF ListedAreAll, Present
    <2>6. StartIsWitnessed' /\ BestSoFar' /\ ReadIsOnDisk' /\ CheckedIsRight'
      BY DEF StartIsWitnessed, BestSoFar, ReadIsOnDisk, CheckedIsRight, Scanning
    <2>7. AnswerWasRight'
      BY DEF AnswerWasRight
    <2>8. QED
      BY <2>2, <2>3, <2>4, <2>5, <2>6, <2>7
  <1>3. QED
    BY <1>1, <1>2

LEMMA ReadStartStep == ASSUME BridgeInv, ReadStart PROVE BridgeInv'
  <1>1. CASE process = Gone
    BY <1>1, AnswersStep DEF ReadStart
  <1>2. CASE process # Gone
    <2> USE <1>2, BridgeAssumption DEF ReadStart, BridgeInv, environment
    <2>1. BridgeTypeOK' /\ CallShape'
      BY DEF BridgeTypeOK, CallShape
    <2>2. NowIsWitnessed'
      BY DEF NowIsWitnessed, Right, Mine
    <2>3. StartIsWitnessed'
      BY DEF StartIsWitnessed, NowIsWitnessed, Right, Mine
    <2>4. BestSoFar'
      BY DEF BestSoFar, ListedAreAll, Still, Mine, Present, CallShape
    <2>5. ListedAreAll' /\ ReadIsOnDisk' /\ CheckedIsRight' /\ AnswerWasRight'
      BY DEF ListedAreAll, ReadIsOnDisk, CheckedIsRight, AnswerWasRight
    <2>6. QED
      BY <2>1, <2>2, <2>3, <2>4, <2>5
  <1>3. QED
    BY <1>1, <1>2

(* A candidate that is gone has nothing to say.                            *)
LEMMA PassOverStep ==
  ASSUME BridgeInv, scan \in {"reading", "stat", "read"}, NEW f \in todo, disk[f] = NoFile,
         PassOver(f), UNCHANGED <<versions, parsed>>
  PROVE  BridgeInv'
  <1> USE DEF PassOver, BridgeInv, environment
  <1>1. BridgeTypeOK' /\ CallShape'
    BY DEF BridgeTypeOK, CallShape
  <1>2. NowIsWitnessed' /\ StartIsWitnessed'
    BY DEF NowIsWitnessed, StartIsWitnessed, Still, Scanning, Right, Mine
  <1>3. BestSoFar'
    <2>1. Mine(disk', start')  = Mine(disk, start) /\ f \notin Mine(disk, start)
      BY DEF Mine
    <2>2. QED
      BY <2>1 DEF BestSoFar, Still, Scanning
  <1>4. ListedAreAll' /\ ReadIsOnDisk' /\ CheckedIsRight' /\ AnswerWasRight'
    BY DEF ListedAreAll, ReadIsOnDisk, CheckedIsRight, AnswerWasRight
  <1>5. QED
    BY <1>1, <1>2, <1>3, <1>4

(* A candidate that is there is weighed against the best one so far.       *)
LEMMA TakeStep ==
  ASSUME BridgeInv, scan \in {"reading", "read"}, NEW f \in todo, NEW doc \in Documents,
         disk[f] # NoFile, latest = listing => doc = disk[f], Take(f, doc),
         parsed' = parsed \/ parsed' = parsed \cup {f}
  PROVE  BridgeInv'
  <1>1. CASE doc.kind = "undated" /\ Belongs(doc)
    <2>1. f \in Files
      BY DEF BridgeInv, BridgeTypeOK
    <2>2. QED
      BY <1>1, <2>1, AnswersStep DEF Take
  <1>2. CASE ~(doc.kind = "undated" /\ Belongs(doc))
    <2> USE <1>2, BridgeAssumption DEF Take, BridgeInv, environment
    <2>1. f \in Files /\ newest \in Documents \cup {NoFile}
      BY DEF BridgeTypeOK
    <2>2. newest' \in Documents \cup {NoFile}
      BY <2>1
    <2>3. versions' \in [Files -> 0..MaxVersions]
      BY <2>1 DEF BridgeTypeOK, Documents
    <2>4. BridgeTypeOK'
      BY <2>1, <2>2, <2>3 DEF BridgeTypeOK
    <2>5. CallShape'
      BY <2>1 DEF CallShape
    <2>6. NowIsWitnessed' /\ StartIsWitnessed'
      BY DEF NowIsWitnessed, StartIsWitnessed, Still, Scanning, Right, Mine
    <2>7. BestSoFar'
      <3> SUFFICES ASSUME latest = listing PROVE BestSoFar'
        BY DEF BestSoFar, Still
      <3>1. Mine(disk', start') = Mine(disk, start) /\ doc = disk[f]
        BY DEF Mine
      <3>2. f \in Mine(disk, start) <=> doc.kind = "good" /\ Belongs(doc)
        BY <2>1, <3>1 DEF Mine, Belongs
      <3>3. \A g \in Mine(disk, start) : disk[g].stamp \in Nat
        BY BridgeAssumption DEF Mine, BridgeTypeOK, Documents
      <3>4. Still /\ scan \in Scanning
        BY DEF Still, Scanning
      <3>5. newest # NoFile => newest.stamp \in Nat
        BY <2>1 DEF Documents
      <3>6. CASE newest' = doc /\ f \in Mine(disk, start) /\ (newest = NoFile \/ doc.stamp > newest.stamp)
        <4>1. \A g \in Mine(disk, start) \ todo' : newest' # NoFile /\ disk[g].stamp <= newest'.stamp
          BY <2>1, <3>1, <3>3, <3>4, <3>5, <3>6 DEF BestSoFar, Documents
        <4>2. QED
          BY <3>1, <3>6, <4>1 DEF BestSoFar
      <3>7. CASE newest' = newest /\ (f \in Mine(disk, start) => newest # NoFile /\ ~(doc.stamp > newest.stamp))
        <4>1. \A g \in Mine(disk, start) \ todo' : newest' # NoFile /\ disk[g].stamp <= newest'.stamp
          BY <2>1, <3>1, <3>3, <3>4, <3>5, <3>7 DEF BestSoFar
        <4>2. newest' # NoFile => \E g \in Mine(disk, start) \ todo' : newest' = disk[g]
          BY <3>4, <3>7 DEF BestSoFar
        <4>3. QED
          BY <3>1, <4>1, <4>2 DEF BestSoFar
      <3>8. QED
        BY <3>2, <3>6, <3>7
    <2>8. ListedAreAll' /\ ReadIsOnDisk' /\ CheckedIsRight' /\ AnswerWasRight'
      BY DEF ListedAreAll, ReadIsOnDisk, CheckedIsRight, AnswerWasRight
    <2>9. QED
      BY <2>4, <2>5, <2>6, <2>7, <2>8
  <1>3. QED
    BY <1>1, <1>2

LEMMA StatStep == ASSUME BridgeInv, NEW f \in Files, Stat(f) PROVE BridgeInv'
  <1> USE DEF Stat
  <1>1. CASE disk[f] = NoFile /\ PassOver(f) /\ UNCHANGED versions
    BY <1>1, PassOverStep
  <1>2. CASE f \in parsed /\ Take(f, disk[f])
    <2>1. disk[f] \in Documents /\ disk[f] # NoFile
      BY <1>2 DEF BridgeInv, BridgeTypeOK, CallShape
    <2>2. QED
      BY <1>2, <2>1, TakeStep
  <1>3. CASE disk[f] # NoFile /\ f \notin parsed /\ scan' = "stat"
    <2> USE <1>3, BridgeAssumption DEF BridgeInv, environment
    <2>1. versions' \in [Files -> 0..MaxVersions]
      BY DEF BridgeTypeOK, Documents
    <2>2. BridgeTypeOK' /\ CallShape'
      BY <2>1 DEF BridgeTypeOK, CallShape
    <2>3. NowIsWitnessed' /\ StartIsWitnessed' /\ BestSoFar'
      BY DEF NowIsWitnessed, StartIsWitnessed, BestSoFar, Still, Scanning, Right, Mine
    <2>4. ListedAreAll' /\ ReadIsOnDisk' /\ CheckedIsRight' /\ AnswerWasRight'
      BY DEF ListedAreAll, ReadIsOnDisk, CheckedIsRight, AnswerWasRight
    <2>5. QED
      BY <2>2, <2>3, <2>4
  <1>4. QED
    BY <1>1, <1>2, <1>3

LEMMA ReadStep == ASSUME BridgeInv, Read PROVE BridgeInv'
  <1> USE DEF Read
  <1>0. current \in todo /\ current \in Files
    BY DEF BridgeInv, CallShape, BridgeTypeOK
  <1>1. CASE disk[current] = NoFile /\ PassOver(current) /\ UNCHANGED versions
    BY <1>0, <1>1, PassOverStep
  <1>2. CASE Answers(Unknown)
    BY <1>2, AnswersStep
  <1>3. CASE disk[current] # NoFile /\ document' = disk[current] /\ scan' = "read"
    <2> USE <1>0, <1>3 DEF BridgeInv, environment
    <2>1. UNCHANGED <<disk, latest, process, listing, start, todo, current, versions, newest, answer, truths>>
      BY DEF PassOver, Answers, Rest
    <2>2. BridgeTypeOK' /\ CallShape'
      BY <2>1 DEF BridgeTypeOK, CallShape
    <2>3. NowIsWitnessed' /\ StartIsWitnessed' /\ BestSoFar'
      BY <2>1 DEF NowIsWitnessed, StartIsWitnessed, BestSoFar, Still, Scanning, Right, Mine
    <2>4. ListedAreAll' /\ ReadIsOnDisk' /\ CheckedIsRight' /\ AnswerWasRight'
      BY <2>1 DEF ListedAreAll, ReadIsOnDisk, CheckedIsRight, AnswerWasRight
    <2>5. QED
      BY <2>2, <2>3, <2>4
  <1>4. QED
    BY <1>1, <1>2, <1>3

LEMMA ConfirmStep == ASSUME BridgeInv, Confirm PROVE BridgeInv'
  <1> USE DEF Confirm
  <1>0. current \in todo /\ current \in Files /\ document \in Documents
    BY DEF BridgeInv, CallShape, BridgeTypeOK
  <1>1. CASE disk[current] = NoFile /\ PassOver(current) /\ UNCHANGED <<versions, parsed>>
    BY <1>0, <1>1, PassOverStep
  <1>2. CASE Answers(Unknown) /\ UNCHANGED parsed
    BY <1>2, AnswersStep
  <1>3. CASE disk[current] # NoFile /\ parsed' = parsed \cup {current} /\ Take(current, document)
    <2>1. latest = listing => document = disk[current]
      BY DEF BridgeInv, ReadIsOnDisk, Still
    <2>2. QED
      BY <1>0, <1>3, <2>1, TakeStep
  <1>4. QED
    BY <1>1, <1>2, <1>3

(* The checks at the end: what was believed is still there ...             *)
LEMMA RecheckFileStep == ASSUME BridgeInv, NEW f \in Files, RecheckFile(f) PROVE BridgeInv'
  <1> USE DEF RecheckFile
  <1>1. CASE Answers(Unknown)
    BY <1>1, AnswersStep
  <1>2. CASE ~Answers(Unknown)
    <2> USE <1>2, BridgeAssumption DEF BridgeInv, environment
    <2>1. BridgeTypeOK' /\ CallShape'
      <3>1. versions' \in [Files -> 0..MaxVersions]
        BY DEF BridgeTypeOK
      <3>2. QED
        BY <3>1 DEF BridgeTypeOK, CallShape
    <2>2. NowIsWitnessed' /\ StartIsWitnessed' /\ BestSoFar'
      BY DEF NowIsWitnessed, StartIsWitnessed, BestSoFar, Still, Scanning, Right, Mine
    <2>3. ListedAreAll' /\ ReadIsOnDisk' /\ CheckedIsRight' /\ AnswerWasRight'
      BY DEF ListedAreAll, ReadIsOnDisk, CheckedIsRight, AnswerWasRight
    <2>4. QED
      BY <2>1, <2>2, <2>3
  <1>3. QED
    BY <1>1, <1>2

(* ... and nothing else has come: the best of all is right.                *)
LEMMA RecheckDirectoryStep == ASSUME BridgeInv, RecheckDirectory PROVE BridgeInv'
  <1> USE DEF RecheckDirectory
  <1>1. CASE Answers(Unknown)
    BY <1>1, AnswersStep
  <1>2. CASE Unmoved /\ scan' = "checked" /\ UNCHANGED <<environment, locals, answer, truths>>
    <2> USE <1>2 DEF BridgeInv, environment, locals
    <2>1. BridgeTypeOK' /\ CallShape'
      BY DEF BridgeTypeOK, CallShape
    <2>2. NowIsWitnessed' /\ StartIsWitnessed' /\ BestSoFar'
      BY DEF NowIsWitnessed, StartIsWitnessed, BestSoFar, Still, Scanning, Right, Mine
    <2>3. newest # NoFile => newest.version \in Right(disk, start)
      BY DEF BestSoFar, Still, Unmoved, Scanning, Right
    <2>4. CheckedIsRight'
      BY <2>3 DEF CheckedIsRight, StartIsWitnessed, Still, Unmoved, Scanning
    <2>5. ListedAreAll' /\ ReadIsOnDisk' /\ AnswerWasRight'
      BY DEF ListedAreAll, ReadIsOnDisk, AnswerWasRight
    <2>6. QED
      BY <2>1, <2>2, <2>4, <2>5
  <1>3. QED
    BY <1>1, <1>2

LEMMA FinishStep == ASSUME BridgeInv, Finish PROVE BridgeInv'
  <1> DEFINE what == IF process # start \/ newest = NoFile THEN Unknown ELSE newest.version
  <1>1. Answers(what) /\ parsed' = parsed
    BY DEF Finish
  <1>2. what # Unknown => what \in truths
    BY DEF Finish, BridgeInv, CheckedIsRight
  <1>3. what \in (1..MaxVersions) \cup {Unknown}
    BY DEF BridgeInv, BridgeTypeOK, Documents
  <1>4. QED
    BY <1>1, <1>2, <1>3, AnswersStep

LEMMA BridgeStutter == ASSUME BridgeInv, UNCHANGED bridgeVars PROVE BridgeInv'
  BY DEF bridgeVars, environment, locals, BridgeInv, BridgeTypeOK, CallShape, ListedAreAll, Present,
         NowIsWitnessed, StartIsWitnessed, BestSoFar, ReadIsOnDisk, CheckedIsRight, AnswerWasRight,
         Still, Right, Mine

(* The invariant holds whatever is written and whoever gets the PID during *)
(* a call.                                                                 *)
THEOREM BridgeInvariance == BridgeSpec => []BridgeInv
  <1>1. BridgeInv /\ [BridgeNext]_bridgeVars => BridgeInv'
    BY BridgeEnvironmentStep, ListStep, ReadStartStep, StatStep, ReadStep, ConfirmStep,
       RecheckFileStep, RecheckDirectoryStep, FinishStep, BridgeStutter
       DEF BridgeNext, BridgeCall
  <1>2. QED
    BY BridgeInitial, <1>1, PTL DEF BridgeSpec

(* Type correctness.                                                       *)
THEOREM BridgeTyping == BridgeSpec => []BridgeTypeOK
  BY BridgeInvariance, PTL DEF BridgeInv

(* Whatever is answered was the newest good document of the process at     *)
(* some moment of the call.                                                *)
THEOREM AnswersWereRight == BridgeSpec => []AnswerWasRight
  BY BridgeInvariance, PTL DEF BridgeInv

-----------------------------------------------------------------------------
(* Codex's usage.                                                          *)

(* What type correctness leaves out.                                       *)
QuotaShape ==
  /\ rollout \in [Processes -> SUBSET Events]
  /\ merged \in [Identities -> Events \cup {NoEvent}]
  /\ told \in [Identities -> 0..MaxTime]
  /\ call # "idle" => asked \in Processes
  /\ call \in {"event", "response"} => found \in Events
  /\ call \in {"bound", "response"} => binding \in Bindings

(* An event that no login has outdated is about the account its process    *)
(* would be identified by.                                                 *)
Told(e, p) == e.from = p /\ (e.sound => e.about = Account(p))

RolloutsAreOwn == \A p \in Processes : \A e \in rollout[p] : Told(e, p)
FoundIsOwn == call = "event" => Told(found, asked)

(* What is remembered of an account and a limit is about that account,     *)
(* outdated events aside, and about that limit.                            *)
MergedIsAbout ==
  \A key \in Identities :
    merged[key] # NoEvent => /\ merged[key].limit = key[2]
                             /\ merged[key].sound => merged[key].about = key[1]

(* The answers of the daemon are about the account they are bound to.      *)
CacheIsAbout == \A entry \in cache : entry.known.about = entry.binding.account
ResponseIsAbout == call = "response" => found.about = binding.account

(* What was last told of an account and a limit is what is remembered.     *)
ToldIsMerged ==
  \A key \in Identities : told[key] = IF merged[key] = NoEvent THEN 0 ELSE merged[key].at

QuotaInv ==
  /\ QuotaTypeOK /\ QuotaShape
  /\ RolloutsAreOwn /\ FoundIsOwn /\ MergedIsAbout /\ CacheIsAbout /\ ResponseIsAbout
  /\ ToldIsMerged
  /\ AccountsApart /\ NothingOlder

-----------------------------------------------------------------------------

LEMMA QuotaInitial == QuotaInit => QuotaInv
  <1> SUFFICES ASSUME QuotaInit PROVE QuotaInv
    OBVIOUS
  <1> USE QuotaAssumption DEF QuotaInit
  <1>1. QuotaTypeOK /\ QuotaShape
    BY DEF QuotaTypeOK, QuotaShape, Homes
  <1>2. RolloutsAreOwn /\ FoundIsOwn /\ MergedIsAbout /\ CacheIsAbout /\ ResponseIsAbout
    BY DEF RolloutsAreOwn, FoundIsOwn, MergedIsAbout, CacheIsAbout, ResponseIsAbout
  <1>3. ToldIsMerged /\ AccountsApart /\ NothingOlder
    BY DEF ToldIsMerged, AccountsApart, NothingOlder, Identifies
  <1>4. QED
    BY <1>1, <1>2, <1>3 DEF QuotaInv

(* A login outdates the events of its home and touches no others.          *)
LEMMA LoginStep ==
  ASSUME QuotaInv, NEW h \in Homes, NEW a \in Accounts \cup {NoAccount}, Login(h, a)
  PROVE  QuotaInv'
  <1> USE DEF Login, QuotaInv
  <1>1. \A e \in Events : Unsound(e) \in Events /\ ~Unsound(e).sound /\ Unsound(e).from = e.from
    BY DEF Unsound, Events
  <1>2. \A p \in Processes : Home[p] # h => Account(p)' = Account(p)
    BY DEF Account, QuotaTypeOK, Homes
  <1>3. rollout' \in [Processes -> SUBSET Events]
    BY <1>1 DEF QuotaShape
  <1>4. call \in {"event", "response"} => found' \in Events
    BY <1>1 DEF QuotaShape
  <1>5. QuotaShape'
    BY <1>3, <1>4 DEF QuotaShape
  <1>6. QuotaTypeOK'
    <2>1. logins' \in 0..MaxLogins /\ login' \in [Homes -> Accounts \cup {NoAccount}]
      BY QuotaAssumption DEF QuotaTypeOK
    <2>2. found' \in Events \cup {NoEvent}
      BY <1>4 DEF QuotaTypeOK
    <2>3. QED
      BY <1>3, <2>1, <2>2 DEF QuotaTypeOK
  <1>7. RolloutsAreOwn'
    <2> SUFFICES ASSUME NEW p \in Processes, NEW e \in rollout'[p] PROVE Told(e, p)'
      BY DEF RolloutsAreOwn
    <2>1. CASE Home[p] = h
      <3>1. PICK d \in rollout[p] : e = Unsound(d)
        BY <2>1
      <3>2. d \in Events /\ d.from = p
        BY DEF QuotaShape, RolloutsAreOwn, Told
      <3>3. QED
        BY <3>1, <3>2, <1>1 DEF Told
    <2>2. CASE Home[p] # h
      BY <2>2, <1>2 DEF RolloutsAreOwn, Told
    <2>3. QED
      BY <2>1, <2>2
  <1>8. FoundIsOwn'
    BY <1>1, <1>2 DEF FoundIsOwn, Told, QuotaShape
  <1>9. MergedIsAbout' /\ CacheIsAbout' /\ ResponseIsAbout'
    BY DEF MergedIsAbout, CacheIsAbout, ResponseIsAbout
  <1>10. ToldIsMerged' /\ AccountsApart' /\ NothingOlder'
    BY DEF ToldIsMerged, AccountsApart, NothingOlder, Identifies
  <1>11. QED
    BY <1>5, <1>6, <1>7, <1>8, <1>9, <1>10

LEMMA TurnStep ==
  ASSUME QuotaInv, NEW p \in Processes, NEW at \in {0, now}, NEW limit \in Limits,
         Turn(p, at, limit)
  PROVE  QuotaInv'
  <1> DEFINE e == [at |-> at, limit |-> limit, from |-> p, about |-> user[p], sound |-> user[p] = login[Home[p]]]
  <1> USE DEF Turn, QuotaInv
  <1>1. e \in Events
    BY QuotaAssumption DEF Events, QuotaTypeOK
  <1>2. Told(e, p)
    BY DEF Told, Account
  <1>3. rollout' = [rollout EXCEPT ![p] = {d \in @ : (d.at = 0) # (at = 0)} \cup {e}]
    OBVIOUS
  <1> HIDE DEF e
  <1>4. QuotaShape' /\ QuotaTypeOK'
    BY <1>1, <1>3 DEF QuotaShape, QuotaTypeOK
  <1>5. RolloutsAreOwn'
    BY <1>2, <1>3 DEF RolloutsAreOwn, Told, Account, QuotaShape
  <1>6. FoundIsOwn' /\ MergedIsAbout' /\ CacheIsAbout' /\ ResponseIsAbout'
    BY DEF FoundIsOwn, Told, Account, MergedIsAbout, CacheIsAbout, ResponseIsAbout
  <1>7. ToldIsMerged' /\ AccountsApart' /\ NothingOlder'
    BY DEF ToldIsMerged, AccountsApart, NothingOlder, Identifies
  <1>8. QED
    BY <1>4, <1>5, <1>6, <1>7

LEMMA PassStep == ASSUME QuotaInv, Pass PROVE QuotaInv'
  <1> USE QuotaAssumption DEF Pass, QuotaInv
  <1>1. QuotaTypeOK' /\ QuotaShape'
    BY DEF QuotaTypeOK, QuotaShape
  <1>2. RolloutsAreOwn' /\ FoundIsOwn' /\ MergedIsAbout' /\ CacheIsAbout' /\ ResponseIsAbout'
    BY DEF RolloutsAreOwn, FoundIsOwn, Told, Account, MergedIsAbout, CacheIsAbout, ResponseIsAbout
  <1>3. ToldIsMerged' /\ AccountsApart' /\ NothingOlder'
    BY DEF ToldIsMerged, AccountsApart, NothingOlder, Identifies
  <1>4. QED
    BY <1>1, <1>2, <1>3

LEMMA RestartStep == ASSUME QuotaInv, NEW p \in Processes, Restart(p) PROVE QuotaInv'
  <1> USE DEF Restart, QuotaInv
  <1>1. QuotaTypeOK' /\ QuotaShape'
    BY DEF QuotaTypeOK, QuotaShape, Homes
  <1>2. RolloutsAreOwn' /\ FoundIsOwn' /\ MergedIsAbout' /\ CacheIsAbout' /\ ResponseIsAbout'
    BY DEF QuotaShape, RolloutsAreOwn, FoundIsOwn, Told, Account, MergedIsAbout, CacheIsAbout,
           ResponseIsAbout
  <1>3. ToldIsMerged' /\ AccountsApart' /\ NothingOlder'
    BY DEF ToldIsMerged, AccountsApart, NothingOlder, Identifies
  <1>4. QED
    BY <1>1, <1>2, <1>3

LEMMA ReadRolloutStep == ASSUME QuotaInv, NEW p \in Processes, ReadRollout(p) PROVE QuotaInv'
  <1> USE DEF ReadRollout, world, QuotaInv
  <1>1. found' \in rollout[p]
    BY DEF Freshest
  <1>2. found' \in Events
    BY <1>1 DEF QuotaShape
  <1>3. QuotaTypeOK' /\ QuotaShape'
    BY <1>2 DEF QuotaTypeOK, QuotaShape
  <1>4. FoundIsOwn'
    BY <1>1 DEF FoundIsOwn, RolloutsAreOwn, Told, Account
  <1>5. RolloutsAreOwn' /\ MergedIsAbout' /\ CacheIsAbout' /\ ResponseIsAbout'
    BY DEF RolloutsAreOwn, Told, Account, MergedIsAbout, CacheIsAbout, ResponseIsAbout
  <1>6. ToldIsMerged' /\ AccountsApart' /\ NothingOlder'
    BY DEF ToldIsMerged, AccountsApart, NothingOlder, Identifies
  <1>7. QED
    BY <1>3, <1>4, <1>5, <1>6

-----------------------------------------------------------------------------
(* The merge over the processes of an account.                             *)

(* The merge returns one of its events, and one that is not older.         *)
LEMMA NewerIsOne ==
  ASSUME NEW first \in Events, NEW second \in Events \cup {NoEvent}
  PROVE  /\ Newer(first, second) \in {first} \cup (IF second = NoEvent THEN {} ELSE {second})
         /\ Newer(first, second) \in Events
         /\ second # NoEvent => Newer(first, second).at >= second.at
         /\ Newer(first, second).at >= 0
  BY DEF Newer, Events

LEMMA MergeStep == ASSUME QuotaInv, Merge PROVE QuotaInv'
  <1> DEFINE account == Account(asked)
             key == <<account, found.limit>>
             freshest == Newer(found, merged[key])
  <1>1. call = "event" /\ asked \in Processes /\ found \in Events /\ Told(found, asked)
    BY DEF Merge, QuotaInv, QuotaShape, FoundIsOwn
  <1>2. /\ call' = "idle" /\ found' = NoEvent /\ asked' = NoEvent /\ binding' = NoAccount
        /\ UNCHANGED <<world, cache>>
    BY DEF Merge, Returns
  <1>3. account \in Accounts \cup {NoAccount}
    BY <1>1 DEF Account, QuotaInv, QuotaTypeOK, Homes
  <1>4. RolloutsAreOwn' /\ FoundIsOwn' /\ CacheIsAbout' /\ ResponseIsAbout'
    BY <1>2 DEF QuotaInv, RolloutsAreOwn, FoundIsOwn, Told, Account, world, CacheIsAbout,
                ResponseIsAbout
  <1>5. CASE ~Merges(account)
    <2>1. /\ UNCHANGED <<merged, told>>
          /\ report' = [of |-> asked, source |-> "rollout", account |-> account,
                        limit |-> found.limit, known |-> found]
      BY <1>5 DEF Merge, Returns
    <2>2. account = NoAccount \/ found.limit = NoLimit
      BY <1>5 DEF Merges
    <2> HIDE DEF account
    <2>3. QuotaTypeOK' /\ QuotaShape'
      BY <1>2, <2>1 DEF QuotaInv, QuotaTypeOK, QuotaShape, world
    <2>4. MergedIsAbout' /\ ToldIsMerged'
      BY <2>1 DEF QuotaInv, MergedIsAbout, ToldIsMerged
    <2>5. AccountsApart' /\ NothingOlder'
      BY <1>1, <2>1, <2>2 DEF AccountsApart, NothingOlder, Identifies, Told
    <2>6. QED
      BY <1>4, <2>3, <2>4, <2>5 DEF QuotaInv
  <1>6. CASE Merges(account)
    <2>1. account \in Accounts /\ found.limit \in Limits \ {NoLimit} /\ key \in Identities
      BY <1>1, <1>3, <1>6 DEF Merges, Events, Identities
    <2>2. merged[key] \in Events \cup {NoEvent}
      BY <2>1 DEF QuotaInv, QuotaShape
    <2>3. /\ freshest = found \/ (freshest = merged[key] /\ merged[key] # NoEvent)
          /\ freshest \in Events
          /\ freshest.at >= told[key]
      BY <1>1, <2>1, <2>2, NewerIsOne DEF QuotaInv, ToldIsMerged
    <2>4. /\ merged' = [merged EXCEPT ![key] = freshest]
          /\ told' = [told EXCEPT ![key] = IF freshest.at > @ THEN freshest.at ELSE @]
          /\ report' = [of |-> asked, source |-> "rollout", account |-> account,
                        limit |-> found.limit, known |-> freshest]
      BY <1>6 DEF Merge, Returns, Identified
    <2>5. told[key] \in 0..MaxTime /\ freshest.at \in 0..MaxTime
      BY <2>1, <2>3 DEF QuotaInv, QuotaShape, Events
    <2>6. /\ freshest.limit = found.limit
          /\ freshest.sound => freshest.about = account
      <3>1. CASE freshest = found
        BY <1>1, <3>1 DEF Told
      <3>2. CASE freshest = merged[key] /\ merged[key] # NoEvent
        <4>1. key[1] = account /\ key[2] = found.limit
          OBVIOUS
        <4> HIDE DEF key, freshest, account
        <4>2. QED
          BY <2>1, <3>2, <4>1 DEF QuotaInv, MergedIsAbout
      <3>3. QED
        BY <2>3, <3>1, <3>2
    <2> HIDE DEF freshest, account
    <2>7. told'[key] = freshest.at /\ merged'[key] = freshest
      BY <2>1, <2>3, <2>4, <2>5, QuotaAssumption DEF QuotaInv, QuotaShape
    <2>8. merged' \in [Identities -> Events \cup {NoEvent}] /\ told' \in [Identities -> 0..MaxTime]
      BY <2>1, <2>3, <2>4, <2>5 DEF QuotaInv, QuotaShape
    <2>9. QuotaTypeOK' /\ QuotaShape'
      BY <1>2, <2>8 DEF QuotaInv, QuotaTypeOK, QuotaShape, world
    <2>10. MergedIsAbout'
      <3>1. \A k \in Identities : k # key => merged'[k] = merged[k]
        BY <2>4 DEF QuotaInv, QuotaShape
      <3>2. key[1] = account /\ key[2] = found.limit
        OBVIOUS
      <3> HIDE DEF key
      <3>3. QED
        BY <2>6, <2>7, <3>1, <3>2 DEF QuotaInv, MergedIsAbout
    <2>11. ToldIsMerged'
      BY <2>1, <2>3, <2>4, <2>7, NoEventAssumption DEF QuotaInv, QuotaShape, ToldIsMerged
    <2>12. AccountsApart'
      BY <2>4, <2>6, <1>1 DEF AccountsApart, Told
    <2>13. NothingOlder'
      BY <2>4, <2>6, <2>7 DEF NothingOlder, Identifies
    <2>14. QED
      BY <1>4, <2>9, <2>10, <2>11, <2>12, <2>13 DEF QuotaInv
  <1>7. QED
    BY <1>5, <1>6

-----------------------------------------------------------------------------
(* The app server.                                                         *)

LEMMA BindStep == ASSUME QuotaInv, NEW p \in Processes, Bind(p) PROVE QuotaInv'
  <1> USE DEF Bind, world, QuotaInv
  <1>1. Identity(p) \in Bindings
    BY DEF Identity, Bindings, Account, QuotaTypeOK, Homes
  <1>2. QuotaTypeOK' /\ QuotaShape'
    BY <1>1 DEF QuotaTypeOK, QuotaShape
  <1>3. RolloutsAreOwn' /\ FoundIsOwn' /\ MergedIsAbout' /\ CacheIsAbout' /\ ResponseIsAbout'
    BY DEF RolloutsAreOwn, FoundIsOwn, Told, Account, MergedIsAbout, CacheIsAbout, ResponseIsAbout
  <1>4. ToldIsMerged' /\ AccountsApart' /\ NothingOlder'
    BY DEF ToldIsMerged, AccountsApart, NothingOlder, Identifies
  <1>5. QED
    BY <1>2, <1>3, <1>4

LEMMA RespondStep == ASSUME QuotaInv, NEW a \in Accounts, Respond(a) PROVE QuotaInv'
  <1> USE DEF Respond, world, QuotaInv
  <1>1. found' \in Events
    BY QuotaAssumption DEF Events, QuotaTypeOK, QuotaShape
  <1>2. QuotaTypeOK' /\ QuotaShape'
    BY <1>1 DEF QuotaTypeOK, QuotaShape
  <1>3. RolloutsAreOwn' /\ FoundIsOwn' /\ MergedIsAbout' /\ CacheIsAbout'
    BY DEF RolloutsAreOwn, FoundIsOwn, Told, Account, MergedIsAbout, CacheIsAbout
  <1>4. ResponseIsAbout'
    BY DEF ResponseIsAbout, Matches
  <1>5. ToldIsMerged' /\ AccountsApart' /\ NothingOlder'
    BY DEF ToldIsMerged, AccountsApart, NothingOlder, Identifies
  <1>6. QED
    BY <1>2, <1>3, <1>4, <1>5

LEMMA HitStep == ASSUME QuotaInv, NEW entry \in cache, Hit(entry) PROVE QuotaInv'
  <1> USE DEF Hit, world, QuotaInv
  <1>1. found' \in Events /\ found'.about = binding.account
    BY DEF Cached, QuotaTypeOK, CacheIsAbout
  <1>2. QuotaTypeOK' /\ QuotaShape'
    BY <1>1 DEF QuotaTypeOK, QuotaShape
  <1>3. RolloutsAreOwn' /\ FoundIsOwn' /\ MergedIsAbout' /\ CacheIsAbout' /\ ResponseIsAbout'
    BY <1>1 DEF RolloutsAreOwn, FoundIsOwn, Told, Account, MergedIsAbout, CacheIsAbout,
                ResponseIsAbout
  <1>4. ToldIsMerged' /\ AccountsApart' /\ NothingOlder'
    BY DEF ToldIsMerged, AccountsApart, NothingOlder, Identifies
  <1>5. QED
    BY <1>2, <1>3, <1>4

(* The identity is the one the answer was bound to.                        *)
LEMMA VerifyStep == ASSUME QuotaInv, Verify PROVE QuotaInv'
  <1> DEFINE others == {entry \in cache : ~Cached(entry)}
             kept == [of |-> asked, binding |-> binding, known |-> found]
  <1> USE DEF Verify, Returns, world, QuotaInv
  <1>1. /\ asked \in Processes /\ found \in Events /\ binding \in Bindings
        /\ found.about = binding.account
    BY DEF QuotaShape, ResponseIsAbout
  <1>2. cache' = others \cup {kept}
    OBVIOUS
  <1>3. kept \in [of : Processes, binding : Bindings, known : Events]
    BY <1>1
  <1>4. kept.known.about = kept.binding.account
    BY <1>1
  <1>5. Account(asked) = binding.account
    BY DEF StillBound, Identity
  <1> HIDE DEF kept
  <1>6. QuotaTypeOK' /\ QuotaShape'
    BY <1>2, <1>3 DEF QuotaTypeOK, QuotaShape
  <1>7. CacheIsAbout'
    BY <1>2, <1>4 DEF CacheIsAbout
  <1>8. RolloutsAreOwn' /\ FoundIsOwn' /\ MergedIsAbout' /\ ResponseIsAbout'
    BY DEF RolloutsAreOwn, FoundIsOwn, Told, Account, MergedIsAbout, ResponseIsAbout
  <1>9. ToldIsMerged' /\ AccountsApart' /\ NothingOlder'
    BY <1>1, <1>5 DEF ToldIsMerged, AccountsApart, NothingOlder, Identifies
  <1>10. QED
    BY <1>6, <1>7, <1>8, <1>9

LEMMA ForgetStep ==
  ASSUME QuotaInv, GiveUp \/ \E entry \in cache : Expire(entry) PROVE QuotaInv'
  <1> USE DEF GiveUp, Expire, world, QuotaInv
  <1>1. QuotaTypeOK' /\ QuotaShape'
    BY DEF QuotaTypeOK, QuotaShape
  <1>2. RolloutsAreOwn' /\ FoundIsOwn' /\ MergedIsAbout' /\ CacheIsAbout' /\ ResponseIsAbout'
    BY DEF RolloutsAreOwn, FoundIsOwn, Told, Account, MergedIsAbout, CacheIsAbout, ResponseIsAbout
  <1>3. ToldIsMerged' /\ AccountsApart' /\ NothingOlder'
    BY DEF ToldIsMerged, AccountsApart, NothingOlder, Identifies
  <1>4. QED
    BY <1>1, <1>2, <1>3

LEMMA QuotaStutter == ASSUME QuotaInv, UNCHANGED quotaVars PROVE QuotaInv'
  BY DEF quotaVars, world, QuotaInv, QuotaTypeOK, QuotaShape, RolloutsAreOwn, FoundIsOwn, Told,
         Account, MergedIsAbout, CacheIsAbout, ResponseIsAbout, ToldIsMerged, AccountsApart,
         NothingOlder, Identifies

(* The invariant holds whatever logins and turns come between the reads.   *)
THEOREM QuotaInvariance == QuotaSpec => []QuotaInv
  <1>1. QuotaInv /\ [QuotaNext]_quotaVars => QuotaInv'
    BY PassStep, LoginStep, TurnStep, RestartStep, ReadRolloutStep, MergeStep, BindStep,
       RespondStep, HitStep, VerifyStep, ForgetStep, QuotaStutter
       DEF QuotaNext, QuotaEnvironment, QuotaCall
  <1>2. QED
    BY QuotaInitial, <1>1, PTL DEF QuotaSpec

(* Type correctness.                                                       *)
THEOREM QuotaTyping == QuotaSpec => []QuotaTypeOK
  BY QuotaInvariance, PTL DEF QuotaInv

(* No account is reported with the limit of another, but for an event a    *)
(* login has outdated.                                                     *)
THEOREM AccountsAreApart == QuotaSpec => []AccountsApart
  BY QuotaInvariance, PTL DEF QuotaInv

(* What rollouts report about a limit of an account never goes back in     *)
(* time and is about that limit (_newer_snapshot, cache_key).              *)
THEOREM ReportsNeverGoBack == QuotaSpec => []NothingOlder
  BY QuotaInvariance, PTL DEF QuotaInv

-----------------------------------------------------------------------------
(* Both.                                                                   *)

(* Claude's usage behaves beside Codex's as it does alone: a step of the   *)
(* model is one of its steps or leaves its state as it was.                *)
THEOREM QuotaBridges == Spec => BridgeSpec
  <1>1. Init => BridgeInit
    BY DEF Init
  <1>2. [Next]_<<focus, bridgeVars, quotaVars>> => [BridgeNext]_bridgeVars
    BY DEF Next
  <1>3. QED
    BY <1>1, <1>2, PTL DEF Spec, BridgeSpec

(* And so does Codex's beside Claude's.                                    *)
THEOREM QuotaReports == Spec => QuotaSpec
  <1>1. Init => QuotaInit
    BY DEF Init
  <1>2. [Next]_<<focus, bridgeVars, quotaVars>> => [QuotaNext]_quotaVars
    BY DEF Next
  <1>3. QED
    BY <1>1, <1>2, PTL DEF Spec, QuotaSpec

(* Every variable of the two stays within its type.                        *)
THEOREM QuotasTyping == Spec => []TypeOK
  <1>1. BridgeTypeOK /\ QuotaTypeOK => TypeOK
    BY DEF TypeOK
  <1>2. QED
    BY <1>1, QuotaBridges, QuotaReports, BridgeTyping, QuotaTyping, PTL

(* What the runs of the two check holds of the model they run: an answer   *)
(* was right at some moment of its call, no account is told another's      *)
(* usage and none is told an older one than before.                        *)
THEOREM QuotasHold == Spec => [](AnswerWasRight /\ AccountsApart /\ NothingOlder)
  BY QuotaBridges, QuotaReports, AnswersWereRight, AccountsAreApart, ReportsNeverGoBack, PTL
=============================================================================
