----------------------------- MODULE Preferences -----------------------------
(***************************************************************************)
(* The display preferences that the dashboards of one desktop share        *)
(* (preferences.py, the keys of tui.py, the saving side of cli.py: _loop). *)
(*                                                                         *)
(* Every dashboard holds all settings and the file holds all settings, but *)
(* a key changes one.  A save takes the lock beside the file, merges the   *)
(* settings changed since the last good save into what the file holds now, *)
(* and replaces the file.  Dashboards may die, writes may fail, and the    *)
(* file may become unreadable in between.                                  *)
(***************************************************************************)
EXTENDS Naturals

CONSTANTS Dashboards,
          Fields,      \* the settings a key changes (PREFERENCE_FIELDS_BY_KEY)
          Choices,     \* Choices[f]: how many values the key of f cycles through
          Defaults,    \* DashboardState as constructed
          Nobody,      \* the lock is free
          Invalid,     \* a file that is missing, too large, malformed or of another version
          Unset        \* no save since the file was last lost was about the field

IsDocument(doc) == doc \in [Fields -> Nat] /\ \A f \in Fields : doc[f] < Choices[f]

ASSUME PrefsAssumption ==
  /\ \A f \in Fields : Choices[f] \in Nat \ {0}
  /\ IsDocument(Defaults)
  /\ Nobody \notin Dashboards
  /\ ~IsDocument(Invalid)
  /\ Unset \notin Nat

VARIABLES
  file,     \* preferences.json
  flock,    \* who holds .preferences.json.lock
  pc,       \* "off", "keys", and in save_preferences: "saving", "locked",
            \* "merged", or "blind" when the merge had no file to merge into
  display,  \* DashboardState of each dashboard
  unsaved,  \* unsaved_preference_fields
  closing,  \* the save is the one of a clean shutdown
  document, \* what save_preferences is about to write
  settled,  \* history: the values each dashboard has loaded or written last
  chosen    \* history: for each field, the value of the last save that was about it

prefsVars == <<file, flock, pc, display, unsaved, closing, document, settled, chosen>>

-----------------------------------------------------------------------------
(* The life of a dashboard.                                                *)

(* load_preferences: all of a valid file, else none of it.                 *)
Loaded == IF file = Invalid THEN Defaults ELSE file

Open(d) ==
  /\ pc[d] = "off"
  /\ pc' = [pc EXCEPT ![d] = "keys"]
  /\ display' = [display EXCEPT ![d] = Loaded]
  /\ settled' = [settled EXCEPT ![d] = Loaded]
  /\ UNCHANGED <<file, flock, unsaved, closing, document, chosen>>

(* DashboardState.handle: the key of f shows its next value at once.       *)
Beyond(d, f) == display[d][f] + 1
NextChoice(d, f) == (display[d][f] + 1) % Choices[f]

Press(d, f) ==
  /\ pc[d] = "keys"
  /\ display' = [display EXCEPT ![d][f] = NextChoice(d, f)]
  /\ unsaved' = [unsaved EXCEPT ![d] = @ \cup {f}]
  /\ pc' = [pc EXCEPT ![d] = "saving"]
  /\ UNCHANGED <<file, flock, closing, document, settled, chosen>>

(* The process is gone, and the kernel has released its lock.              *)
Ends(d) ==
  /\ pc' = [pc EXCEPT ![d] = "off"]
  /\ display' = [display EXCEPT ![d] = Defaults]
  /\ unsaved' = [unsaved EXCEPT ![d] = {}]
  /\ closing' = [closing EXCEPT ![d] = FALSE]
  /\ document' = [document EXCEPT ![d] = Defaults]
  /\ settled' = [settled EXCEPT ![d] = Defaults]
  /\ flock' = IF flock = d THEN Nobody ELSE flock

(* q or a signal: the finally clause of _loop saves what is left.          *)
Leave(d) ==
  /\ pc[d] = "keys"
  /\ IF unsaved[d] = {}
     THEN Ends(d)
     ELSE /\ pc' = [pc EXCEPT ![d] = "saving"]
          /\ closing' = [closing EXCEPT ![d] = TRUE]
          /\ UNCHANGED <<flock, display, unsaved, document, settled>>
  /\ UNCHANGED <<file, chosen>>

Die(d) == pc[d] # "off" /\ Ends(d) /\ UNCHANGED <<file, chosen>>

-----------------------------------------------------------------------------
(* save_preferences.                                                       *)

Unlocked(d) ==
  /\ pc[d] = "saving"
  /\ flock' = d
  /\ pc' = [pc EXCEPT ![d] = "locked"]
  /\ UNCHANGED <<file, display, unsaved, closing, document, settled, chosen>>
Lock(d) ==
  /\ pc[d] = "saving" /\ flock = Nobody
  /\ flock' = d
  /\ pc' = [pc EXCEPT ![d] = "locked"]
  /\ UNCHANGED <<file, display, unsaved, closing, document, settled, chosen>>

(* The changed settings over what the file holds, or over everything this  *)
(* dashboard displays when the file cannot be read.                        *)
Merged(d, current) ==
  [f \in Fields |-> IF f \in unsaved[d] \/ current = Invalid THEN display[d][f] ELSE current[f]]

Merge(d, current, to) ==
  /\ pc[d] = "locked"
  /\ document' = [document EXCEPT ![d] = Merged(d, current)]
  /\ pc' = [pc EXCEPT ![d] = to]
  /\ UNCHANGED <<file, flock, display, unsaved, closing, settled, chosen>>

Read(d) == Merge(d, file, "merged")

(* The read fails though the file is good.                                 *)
ReadFails(d) == Merge(d, Invalid, "blind")

(* save_preferences returns: the lock is released, and left is what        *)
(* remains to be saved.                                                    *)
Return(d, left, values) ==
  IF closing[d] THEN Ends(d)
  ELSE /\ pc' = [pc EXCEPT ![d] = "keys"]
       /\ unsaved' = [unsaved EXCEPT ![d] = left]
       /\ document' = [document EXCEPT ![d] = Defaults]
       /\ settled' = [settled EXCEPT ![d] = values]
       /\ flock' = IF flock = d THEN Nobody ELSE flock
       /\ UNCHANGED <<display, closing>>

(* The new file takes the place of the old one in one step.                *)
Replace(d) ==
  /\ pc[d] \in {"merged", "blind"}
  /\ file' = document[d]
  /\ chosen' = [f \in Fields |-> IF f \in unsaved[d] THEN document[d][f]
                                 ELSE IF pc[d] = "blind" THEN Unset ELSE chosen[f]]
  /\ Return(d, {}, [f \in Fields |-> IF f \in unsaved[d] THEN document[d][f] ELSE settled[d][f]])

(* An OSError anywhere on the way: the temporary file is removed, the      *)
(* fields stay unsaved, the dashboard shows a warning.                     *)
GivesUp(d) ==
  /\ pc[d] \in {"saving", "locked", "merged", "blind"}
  /\ Return(d, {}, settled[d])
  /\ UNCHANGED <<file, chosen>>
SaveFails(d) ==
  /\ pc[d] \in {"saving", "locked", "merged", "blind"}
  /\ Return(d, unsaved[d], settled[d])
  /\ UNCHANGED <<file, chosen>>

-----------------------------------------------------------------------------

(* Somebody else removes or damages the file.                              *)
Damage ==
  /\ file # Invalid
  /\ file' = Invalid
  /\ chosen' = [f \in Fields |-> Unset]
  /\ UNCHANGED <<flock, pc, display, unsaved, closing, document, settled>>

PrefsInit ==
  /\ file = Invalid
  /\ flock = Nobody
  /\ pc = [d \in Dashboards |-> "off"]
  /\ display = [d \in Dashboards |-> Defaults]
  /\ unsaved = [d \in Dashboards |-> {}]
  /\ closing = [d \in Dashboards |-> FALSE]
  /\ document = [d \in Dashboards |-> Defaults]
  /\ settled = [d \in Dashboards |-> Defaults]
  /\ chosen = [f \in Fields |-> Unset]

PrefsNext ==
  \/ \E d \in Dashboards :
       \/ Open(d) \/ (\E f \in Fields : Press(d, f)) \/ Leave(d)
       \/ Lock(d) \/ Read(d) \/ ReadFails(d) \/ Replace(d) \/ SaveFails(d)
       \/ Die(d)
  \/ Damage

PrefsSpec == PrefsInit /\ [][PrefsNext]_prefsVars

-----------------------------------------------------------------------------
(* Properties.                                                             *)

(* Every variable stays within its type.                                   *)
PrefsTypeOK ==
  /\ file # Invalid => IsDocument(file)
  /\ flock \in Dashboards \cup {Nobody}
  /\ pc \in [Dashboards -> {"off", "keys", "saving", "locked", "merged", "blind"}]
  /\ unsaved \in [Dashboards -> SUBSET Fields]
  /\ closing \in [Dashboards -> BOOLEAN]
  /\ \A d \in Dashboards :
       IsDocument(display[d]) /\ IsDocument(document[d]) /\ IsDocument(settled[d])
  /\ \A f \in Fields : chosen[f] # Unset => chosen[f] \in Nat

(* No dashboard overwrites the choice another one saved, unless it changed *)
(* the same setting itself or the file could not be read                   *)
(* (save_preferences: read, merge and replace under one lock).             *)
NoLostChoice ==
  file # Invalid => \A f \in Fields : chosen[f] \in {Unset, file[f]}

(* A setting that was changed and could not be saved stays unsaved, over   *)
(* later saves of other settings, until a save was good or the dashboard   *)
(* is gone (_loop: unsaved_preference_fields).                             *)
ChangedIsUnsaved ==
  \A d \in Dashboards : pc[d] # "off" =>
    \A f \in Fields : display[d][f] # settled[d][f] => f \in unsaved[d]
=============================================================================
