---------------------------- MODULE ResetAnchor ----------------------------
(* Which instant the reset printed in a Codex limit banner stands for       *)
(* (timeparse.py and Supervisor._anchor_reset, fsm.py).  A banner prints a  *)
(* time of day, seldom a date, and stays on the screen for hours, over      *)
(* midnight and over restarts of the watcher; read anew, its text would     *)
(* mean tomorrow as soon as its reset has passed.  The watcher therefore    *)
(* dates it once, from its first sighting, from a window of the usage       *)
(* sample or from the episode it saved, and keeps that date.                *)
(*                                                                          *)
(* Time is counted in slots, Day of them in a day; a text is of kind        *)
(* "clock", "weekday", "date" or "in".  The world is one Codex process: its *)
(* limits, what it shows and the usage sample.  Beside an operator stands,  *)
(* as a mutant, what a plausible slip would make of it.                     *)
EXTENDS Integers, FiniteSets

CONSTANTS Day,       \* slots in a day
          Week,      \* days in a week
          MaxTime,   \* the clock stops here
          MaxLimits, \* limits the process runs into
          MaxAge,    \* slots after which a sample is stale
          NoText

ASSUME TimesAssumption ==
  /\ Day \in Nat \ {0} /\ Week \in Nat \ {0}
  /\ MaxTime \in Nat /\ MaxLimits \in Nat /\ MaxAge \in Nat

NoTime == -1
Instants == 0..(MaxTime + 2 * Day)

VARIABLES
  now,
  banner,     \* the last limit: what it printed and its true reset
  visible,    \* whether the banner is on the screen
  limits,     \* how many limits there have been
  sample,     \* the usage sample: a window's reset and when it was read
  mode,       \* "watch" (observe or ask) or "auto" with the Codex opt-in
  memory,     \* what the session remembers of the banner it anchored
  episodes,   \* the store: one episode for each anchored reset
  known       \* history: this banner has been dated rightly and not forgotten

world == <<now, banner, visible, limits, sample>>
anchorVars == <<world, mode, memory, episodes, known>>

NoBanner == [text |-> NoText, resets |-> NoTime]
NoSample == [resets |-> NoTime, at |-> NoTime]
NoMemory == [text |-> NoText, first |-> NoTime, reset |-> NoTime, episode |-> NoTime]

-----------------------------------------------------------------------------
(* Reading a printed reset.                                                *)

Clock(t) == [kind |-> "clock", day |-> 0, at |-> t % Day]
Date(t) == [kind |-> "date", day |-> 0, at |-> t]
Texts ==
  [kind : {"clock"}, day : {0}, at : 0..(Day - 1)]
    \cup [kind : {"weekday"}, day : 0..(Week - 1), at : 0..(Day - 1)]
    \cup [kind : {"date"}, day : {0}, at : Instants]
    \cup [kind : {"in"}, day : {0}, at : 1..Day]

ASSUME NoTextAssumption == NoText \notin Texts

(* That time of the day of `reference`.                                    *)
SameDay(text, reference) == (reference \div Day) * Day + text.at
Ahead(text, candidate) == (text.day - candidate \div Day) % Week

(* A date is exact and an offset is added; a clock, with or without a      *)
(* weekday, is its next occurrence.                                        *)
AllowsNow(text, reference) ==
  CASE text.kind = "date" -> text.at
    [] text.kind = "in" -> reference + text.at
    [] text.kind = "clock" ->
         SameDay(text, reference) + (IF SameDay(text, reference) < reference THEN Day ELSE 0)
    [] text.kind = "weekday" ->
         SameDay(text, reference) + Day * Ahead(text, SameDay(text, reference))
ParseReset(text, reference) ==
  LET candidate == SameDay(text, reference)
      passed == candidate <= reference
      ahead == Ahead(text, candidate)
  IN  CASE text.kind = "date" -> text.at
        [] text.kind = "in" -> reference + text.at
        [] text.kind = "clock" -> IF passed THEN candidate + Day ELSE candidate
        [] text.kind = "weekday" ->
             candidate + Day * (IF ahead = 0 /\ passed THEN Week ELSE ahead)

-----------------------------------------------------------------------------
(* Dating a banner.                                                        *)

NothingSaved(text) == NoTime
(* Work that was done, or a date the provider gave, outranks a bare guess. *)
FindEpisode(text) ==
  LET matches == {r \in DOMAIN episodes : episodes[r].text = text}
      unsettled == {r \in matches : episodes[r].pending}
      anchored == {r \in matches : \/ episodes[r].attempted
                                   \/ episodes[r].completed
                                   \/ episodes[r].confirmed}
      chosen == IF unsettled # {} THEN unsettled
                ELSE IF anchored # {} THEN anchored ELSE matches
  IN  IF chosen = {} THEN NoTime
      ELSE CHOOSE r \in chosen : \A other \in chosen : other <= r

Stale == sample.at = NoTime \/ now - sample.at > MaxAge

(* The sample holds a window, not a day away, that the text agrees with.   *)
Dated(text) ==
  /\ sample # NoSample
  /\ now - sample.resets <= Day /\ sample.resets - now <= Day
  /\ ParseReset(text, sample.resets - 1) = sample.resets

(* A fresh window, read after the saved reset, names a later one.          *)
Renewed(text, saved) ==
  /\ saved # NoTime /\ Dated(text) /\ ~Stale
  /\ ~episodes[saved].pending
  /\ sample.at > saved /\ sample.resets > saved

Reference(text) ==
  IF memory.first # NoTime THEN memory.first
  ELSE IF Dated(text) THEN sample.resets - 1 ELSE now

Anchored(text) ==
  LET saved == FindEpisode(text)
      Anchor(first, reset, episode) ==
        [text |-> text, first |-> first, reset |-> reset, episode |-> episode]
  IN  IF Renewed(text, saved) THEN Anchor(now, sample.resets, NoTime)
      ELSE IF memory.text = text /\ memory.reset # NoTime THEN memory
      ELSE IF saved # NoTime
        THEN Anchor(episodes[saved].first, saved, memory.episode)
      ELSE Anchor(Reference(text), ParseReset(text, Reference(text)), NoTime)

(* In auto mode the anchored reset gets its episode, or the one it had.    *)
Confirmed(reset) == ~Stale /\ sample.resets = reset
Fresh(m) == [text |-> m.text, first |-> m.first, confirmed |-> FALSE,
             attempted |-> FALSE, completed |-> FALSE, pending |-> FALSE]
Prepared(m) ==
  LET old == IF m.reset \in DOMAIN episodes THEN episodes[m.reset] ELSE Fresh(m)
      new == [old EXCEPT !.confirmed = @ \/ Confirmed(m.reset),
                         !.completed = @ /\ old.pending]
  IN  [r \in DOMAIN episodes \cup {m.reset} |-> IF r = m.reset THEN new ELSE episodes[r]]

(* Supervisor.tick and its rechecks: read the screen, date the banner and  *)
(* prepare its episode.                                                    *)
Observe ==
  /\ visible
  /\ LET m == Anchored(banner.text)
     IN  IF mode = "auto"
           THEN memory' = [m EXCEPT !.episode = m.reset] /\ episodes' = Prepared(m)
           ELSE memory' = m /\ UNCHANGED episodes
  /\ known' = (known \/ memory'.reset = banner.resets)
  /\ UNCHANGED <<world, mode>>

(* A trial keystroke and its settling: see ResumeLifecycle.                *)
Try ==
  /\ mode = "auto" /\ visible /\ now >= memory.reset
  /\ memory.episode # NoTime /\ memory.episode = memory.reset
  /\ ~episodes[memory.episode].pending
  /\ episodes' = [episodes EXCEPT ![memory.episode].attempted = TRUE,
                                  ![memory.episode].pending = TRUE]
  /\ UNCHANGED <<world, mode, memory, known>>

Settle ==
  /\ memory.episode # NoTime /\ episodes[memory.episode].pending
  /\ episodes' = [episodes EXCEPT ![memory.episode].pending = FALSE]
  /\ UNCHANGED <<world, mode, memory, known>>

(* Two working reads in a row: the episode is over and the anchor goes.    *)
Finish ==
  /\ ~visible /\ memory.episode # NoTime
  /\ IF mode = "auto"
       THEN episodes' = [episodes EXCEPT ![memory.episode].completed = TRUE,
                                         ![memory.episode].pending = FALSE]
       ELSE UNCHANGED episodes
  /\ memory' = NoMemory
  /\ UNCHANGED <<world, mode, known>>

(* The watcher is started again: of its memory the episodes are left.      *)
Restart ==
  /\ memory # NoMemory
  /\ memory' = NoMemory
  /\ known' = (known /\ banner.resets \in DOMAIN episodes)
  /\ UNCHANGED <<world, mode, episodes>>

SwitchMode ==
  /\ mode' \in {"watch", "auto"} \ {mode}
  /\ UNCHANGED <<world, memory, episodes, known>>

-----------------------------------------------------------------------------
(* The world.                                                              *)

Tick ==
  /\ now < MaxTime
  /\ now' = now + 1
  /\ UNCHANGED <<banner, visible, limits, sample, mode, memory, episodes, known>>

(* Codex runs into a limit.  A reset within a day is printed as a clock,   *)
(* a later one with its date.                                              *)
RunInto(resets) ==
  /\ limits < MaxLimits
  /\ ~visible /\ banner.resets <= now
  /\ banner' = [text |-> IF resets - now <= Day THEN Clock(resets) ELSE Date(resets),
                resets |-> resets]
  /\ visible' = TRUE /\ limits' = limits + 1 /\ known' = FALSE
  /\ UNCHANGED <<now, sample, mode, memory, episodes>>

(* A redraw takes the banner away and may bring it back, reset or not.     *)
Redraw ==
  /\ banner # NoBanner
  /\ visible' = ~visible
  /\ UNCHANGED <<now, banner, limits, sample, mode, memory, episodes, known>>

(* The usage sample names the window that is spent, as long as it is; it   *)
(* names none once the window is over.                                     *)
Gauge ==
  /\ sample' = IF banner.resets > now THEN [resets |-> banner.resets, at |-> now]
               ELSE NoSample
  /\ sample' # sample
  /\ UNCHANGED <<now, banner, visible, limits, mode, memory, episodes, known>>

-----------------------------------------------------------------------------
AnchorInit ==
  /\ now = 0 /\ banner = NoBanner /\ visible = FALSE /\ limits = 0
  /\ sample = NoSample /\ mode \in {"watch", "auto"}
  /\ memory = NoMemory /\ episodes = <<>> /\ known = FALSE

AnchorNext ==
  \/ Observe \/ Try \/ Settle \/ Finish \/ Restart \/ SwitchMode
  \/ Tick \/ Redraw \/ Gauge
  \/ \E resets \in (now + 1)..(now + Day + 1) : RunInto(resets)

AnchorSpec == AnchorInit /\ [][AnchorNext]_anchorVars

-----------------------------------------------------------------------------
(* Every variable has its type; what is remembered of a banner is          *)
(* remembered together, and its episode is in the store.                   *)
AnchorTypeOK ==
  /\ now \in 0..MaxTime /\ visible \in BOOLEAN /\ limits \in 0..MaxLimits
  /\ banner \in [text : Texts \cup {NoText}, 
                 resets : Instants \cup {NoTime}]
  /\ sample \in [resets : Instants \cup {NoTime}, at : Instants \cup {NoTime}]
  /\ mode \in {"watch", "auto"} /\ known \in BOOLEAN
  /\ memory \in [text : Texts \cup {NoText}, first : Instants \cup {NoTime},
                 reset : Instants \cup {NoTime}, episode : Instants \cup {NoTime}]
  /\ (memory.text = NoText) = (memory.reset = NoTime)
  /\ (memory.text = NoText) = (memory.first = NoTime)
  /\ memory.episode \in DOMAIN episodes \cup {NoTime}
  /\ DOMAIN episodes \subseteq Instants
  /\ \A r \in DOMAIN episodes :
       episodes[r] \in [text : Texts, first : Instants, confirmed : BOOLEAN,
                        attempted : BOOLEAN, completed : BOOLEAN, pending : BOOLEAN]

(* parse_reset: a clock, or a clock on a weekday, is the first instant      *)
(* after the reference that shows it: not the reference itself, no day too  *)
(* late at midnight and no week too late on its own weekday.                *)
Shows(text, t) ==
  /\ t % Day = text.at
  /\ text.kind = "weekday" => (t \div Day) % Week = text.day
NextOccurrence ==
  \A text \in {x \in Texts : x.kind \in {"clock", "weekday"}} :
    LET later == {t \in (now + 1)..(now + Day * Week) : Shows(text, t)}
        next == ParseReset(text, now)
    IN  next \in later /\ \A t \in later : next <= t

(* docs/USAGE.md:567-571: "The same prompt keeps its first observed reset   *)
(* date across midnight and restarts."  A banner that was once dated        *)
(* rightly is never dated later: it does not roll on to the next day, not   *)
(* over redraws, a recovery, a switch of mode or a restart that finds its   *)
(* episode.                                                                 *)
NeverLate ==
  known /\ memory.text = banner.text => memory.reset <= banner.resets
=============================================================================
