---------------------------- MODULE ClaudeBridge ----------------------------
(***************************************************************************)
(* Claude's usage as the watcher reads it (quota.py:                       *)
(* ClaudeStatuslineSource) out of the files the status-line bridge writes. *)
(*                                                                         *)
(* Every Claude session has a file, replaced whenever its status line is   *)
(* drawn, and bound to the process that drew it by PID and start time.     *)
(* The watcher asks for one PID: it lists the directory, reads file after  *)
(* file, and only afterwards looks whether anything moved meanwhile.  The  *)
(* module asks whether what it answers was ever the case.                  *)
(***************************************************************************)
EXTENDS Naturals, FiniteSets

CONSTANTS Files,       \* the bridge files, one for each Claude session
          Stamps,      \* values of updated_at
          Kinds,       \* "good", and what else a file may hold
          NoFile,      \* no such file
          Unknown,     \* the answer that says nothing
          MaxVersions, \* bound: file versions
          MaxStarts    \* bound: processes that get the PID asked for

(* "garbage":     no JSON or no bridge document: read as None,             *)
(* "undecodable": no UTF-8: the exception ends the scan,                   *)
(* "undated":     updated_at cannot be read.                               *)
ASSUME BridgeAssumption ==
  /\ Stamps \subseteq Nat
  /\ "good" \in Kinds /\ Kinds \subseteq {"good", "garbage", "undecodable", "undated"}
  /\ MaxVersions \in Nat /\ MaxStarts \in Nat \ {0}
  /\ NoFile \notin [kind : Kinds, version : Nat, start : Nat, stamp : Stamps]
  /\ Unknown \notin Nat

Gone == 0   \* no process has the PID

VARIABLES
  disk,      \* environment: the file of each session; versions are unique
  latest,    \* environment: the last version given out; that of the directory
  process,   \* environment: start time of the process with the PID, or Gone
  scan,      \* "idle", "listed", "reading", "stat", "read", "checking", "checked"
  listing,   \* directory_version
  start,     \* expected_start
  todo,      \* candidates still to be read
  current,   \* the candidate being read
  document,  \* what was read of it
  versions,  \* the versions the scan relies on
  newest,    \* the document to answer with so far
  parsed,    \* ClaudeStatuslineSource._parsed: the files whose entry has the version
             \* on disk; an entry of an older version never counts again
  answer,    \* the version of the document answered last, or Unknown
  truths     \* history: the answers that were right at some moment of the scan

environment == <<disk, latest, process>>
locals      == <<listing, start, todo, current, document, versions, newest>>
bridgeVars  == <<environment, scan, locals, parsed, answer, truths>>

Present == {f \in Files : disk[f] # NoFile}

-----------------------------------------------------------------------------
(* What there is to say about the process with start time s: its good      *)
(* documents with the latest stamp.                                        *)

Mine(files, s) == {f \in Files : files[f] # NoFile /\ files[f].start = s /\ files[f].kind = "good"}
Right(files, s) ==
  {files[f].version : f \in {g \in Mine(files, s) :
                              \A h \in Mine(files, s) : files[h].stamp <= files[g].stamp}}

-----------------------------------------------------------------------------
(* The environment.                                                        *)

Witness == truths' = IF scan = "idle" THEN truths ELSE truths \cup Right(disk', process')

(* The bridge replaces the file of a session in one step.  Two of its      *)
(* runs may finish out of order, so stamps need not grow.                  *)
Render(f, kind, stamp) ==
  /\ process # Gone /\ latest < MaxVersions
  /\ latest' = latest + 1
  /\ disk' = [disk EXCEPT ![f] = [kind |-> kind, version |-> latest', start |-> process, stamp |-> stamp]]
  /\ parsed' = parsed \ {f}
  /\ UNCHANGED <<process, scan, locals, answer>>
  /\ Witness

Remove(f) ==
  /\ f \in Present /\ latest < MaxVersions
  /\ latest' = latest + 1
  /\ disk' = [disk EXCEPT ![f] = NoFile]
  /\ parsed' = parsed \ {f}
  /\ UNCHANGED <<process, scan, locals, answer>>
  /\ Witness

(* The process ends, and another Claude gets its PID.                      *)
Replaced(s) ==
  /\ s = Gone \/ (process < s /\ s <= MaxStarts)
  /\ process # s
  /\ process' = s
  /\ UNCHANGED <<disk, latest, scan, locals, parsed, answer>>
  /\ Witness

-----------------------------------------------------------------------------
(* One call of snapshot.                                                   *)

(* Back to rest; what a call knows does not outlive it.                    *)
Rest ==
  /\ scan' = "idle"
  /\ listing' = 0 /\ start' = Gone /\ todo' = {} /\ current' = NoFile /\ document' = NoFile
  /\ versions' = [f \in Files |-> 0] /\ newest' = NoFile

Answers(what) == Rest /\ answer' = what /\ UNCHANGED <<environment, truths>>

(* The directory: entries of files that are gone leave the index.          *)
List ==
  /\ scan = "idle"
  /\ IF Present = {}
     THEN Answers(Unknown)
     ELSE /\ scan' = "listed"
          /\ listing' = latest
          /\ todo' = Present
          /\ truths' = Right(disk, process)
          /\ answer' = Unknown
          /\ UNCHANGED <<environment, start, current, document, versions, newest>>
  /\ UNCHANGED parsed

ReadStart ==
  /\ scan = "listed"
  /\ IF process = Gone
     THEN Answers(Unknown)
     ELSE /\ start' = process
          /\ scan' = "reading"
          /\ UNCHANGED <<environment, listing, todo, current, document, versions, newest, answer, truths>>
  /\ UNCHANGED parsed

(* A candidate that cannot be read is passed over.                         *)
PassOver(f) ==
  /\ scan' = "reading"
  /\ todo' = todo \ {f}
  /\ current' = NoFile /\ document' = NoFile
  /\ UNCHANGED <<environment, listing, start, newest, answer, truths>>

(* What a document adds: nothing, the end of the call, or a better answer. *)
AnyProcess(doc) == TRUE
Belongs(doc) == doc.start = start

Take(f, doc) ==
  IF doc.kind = "undated" /\ Belongs(doc)
  THEN Answers(Unknown)
  ELSE /\ newest' = IF /\ doc.kind = "good" /\ Belongs(doc)
                       /\ newest = NoFile \/ doc.stamp > newest.stamp
                    THEN doc ELSE newest
       /\ versions' = [versions EXCEPT ![f] = doc.version]
       /\ scan' = "reading"
       /\ todo' = todo \ {f}
       /\ current' = NoFile /\ document' = NoFile
       /\ UNCHANGED <<environment, listing, start, answer, truths>>

(* The version of a candidate; an unchanged file was parsed before.        *)
Stat(f) ==
  /\ scan = "reading" /\ f \in todo
  /\ UNCHANGED parsed
  /\ \/ disk[f] = NoFile /\ PassOver(f) /\ UNCHANGED versions
     \/ f \in parsed /\ Take(f, disk[f])
     \/ /\ disk[f] # NoFile /\ f \notin parsed
        /\ versions' = [versions EXCEPT ![f] = disk[f].version]
        /\ current' = f
        /\ scan' = "stat"
        /\ UNCHANGED <<environment, listing, start, todo, document, newest, answer, truths>>

Read ==
  /\ scan = "stat"
  /\ UNCHANGED parsed
  /\ \/ disk[current] = NoFile /\ PassOver(current) /\ UNCHANGED versions
     \/ disk[current] # NoFile /\ disk[current].kind = "undecodable" /\ Answers(Unknown)
     \/ /\ disk[current] # NoFile /\ disk[current].kind # "undecodable"
        /\ document' = disk[current]
        /\ scan' = "read"
        /\ UNCHANGED <<environment, listing, start, todo, current, versions, newest, answer, truths>>

(* The version again, before what was read is believed.                    *)
Confirm ==
  /\ scan = "read"
  /\ \/ disk[current] = NoFile /\ PassOver(current) /\ UNCHANGED <<versions, parsed>>
     \/ /\ disk[current] # NoFile /\ disk[current].version # versions[current]
        /\ Answers(Unknown)
        /\ UNCHANGED parsed
     \/ /\ disk[current] # NoFile /\ disk[current].version = versions[current]
        /\ parsed' = parsed \cup {current}
        /\ Take(current, document)

(* All candidates are read: each file again, then the directory, then the  *)
(* process.                                                                *)
Believes(f) == versions[f] # 0

RecheckFile(f) ==
  /\ scan \in {"reading", "checking"} /\ todo = {} /\ Believes(f)
  /\ UNCHANGED parsed
  /\ IF disk[f] # NoFile /\ disk[f].version = versions[f]
     THEN /\ versions' = [versions EXCEPT ![f] = 0]
          /\ scan' = "checking"
          /\ UNCHANGED <<environment, listing, start, todo, current, document, newest, answer, truths>>
     ELSE Answers(Unknown)

Unmoved == latest = listing

RecheckDirectory ==
  /\ scan \in {"reading", "checking"} /\ todo = {} /\ \A f \in Files : ~Believes(f)
  /\ UNCHANGED parsed
  /\ IF Unmoved
     THEN /\ scan' = "checked"
          /\ UNCHANGED <<environment, locals, answer, truths>>
     ELSE Answers(Unknown)

Finish ==
  /\ scan = "checked"
  /\ UNCHANGED parsed
  /\ Answers(IF process # start \/ newest = NoFile THEN Unknown ELSE newest.version)

-----------------------------------------------------------------------------

BridgeInit ==
  /\ disk = [f \in Files |-> NoFile]
  /\ latest = 0
  /\ process = 1
  /\ scan = "idle"
  /\ listing = 0 /\ start = Gone /\ todo = {} /\ current = NoFile /\ document = NoFile
  /\ versions = [f \in Files |-> 0] /\ newest = NoFile
  /\ parsed = {}
  /\ answer = Unknown
  /\ truths = {}

BridgeEnvironment ==
  \/ \E f \in Files : Remove(f) \/ \E kind \in Kinds, stamp \in Stamps : Render(f, kind, stamp)
  \/ \E s \in Gone..MaxStarts : Replaced(s)

BridgeCall ==
  \/ List \/ ReadStart
  \/ \E f \in Files : Stat(f) \/ RecheckFile(f)
  \/ Read \/ Confirm \/ RecheckDirectory \/ Finish

BridgeNext == BridgeEnvironment \/ BridgeCall
BridgeSpec == BridgeInit /\ [][BridgeNext]_bridgeVars

(* Every variable stays within its type.                                   *)
Documents == [kind : Kinds, version : 1..MaxVersions, start : 1..MaxStarts, stamp : Stamps]
BridgeTypeOK ==
  /\ disk \in [Files -> Documents \cup {NoFile}]
  /\ latest \in 0..MaxVersions /\ process \in Gone..MaxStarts
  /\ scan \in {"idle", "listed", "reading", "stat", "read", "checking", "checked"}
  /\ listing \in 0..MaxVersions /\ start \in Gone..MaxStarts
  /\ todo \subseteq Files /\ current \in Files \cup {NoFile}
  /\ document \in Documents \cup {NoFile} /\ newest \in Documents \cup {NoFile}
  /\ versions \in [Files -> 0..MaxVersions]
  /\ parsed \subseteq Files
  /\ answer \in 1..MaxVersions \cup {Unknown}
  /\ truths \subseteq 1..MaxVersions

(* The answer about a process was right at some moment of the call: the    *)
(* document shown was the newest good one of that process, though neither  *)
(* the files nor the process stood still (ClaudeStatuslineSource.snapshot).*)
AnswerWasRight == answer # Unknown => answer \in truths
=============================================================================
