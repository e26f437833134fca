---------------------------- MODULE StatusMonitor ----------------------------
(***************************************************************************)
(* The provider status monitor of a dashboard (service_health.py): one     *)
(* polling thread for each provider, its HTTP client with the validator    *)
(* and the cached reading, and the caller who starts and stops it all.     *)
(*                                                                         *)
(* A fetch may hang for longer than stop() waits for its thread, so        *)
(* threads told to stop can outlive it, meet a connection closed under     *)
(* them, and meet the next start().                                        *)
(***************************************************************************)
EXTENDS Naturals, FiniteSets

CONSTANTS Providers,
          Watched,         \* Watched[p]: the components that count, as [id, name]
          Pages,           \* Pages[p]: what its status page may say
          Content,         \* Content[page]: the components it lists, as [id, name, status]
          NoPage,          \* no answer
          Slots,           \* names of the threads one provider may ever have alive
          MonitorMishaps   \* what else may happen to an answer

(* "cut": the connection breaks inside a gzip body, and the decompressor   *)
(*        raises EOFError, which fetch() does not catch.                   *)
ASSUME MonitorAssumption ==
  /\ \A p \in Providers : Watched[p] # {} /\ Pages[p] # {} /\ NoPage \notin Pages[p]
  /\ \A p \in Providers : \A says \in Pages[p] : IsFiniteSet(Content[says])
  /\ Content[NoPage] = {}
  /\ Slots \subseteq Nat
  /\ MonitorMishaps \subseteq {"cut"}

VARIABLES
  page,      \* environment: what the status page says
  down,      \* environment: the providers whose page cannot be reached
  thread,    \* where each thread is
  hand,      \* the reading a thread has fetched and not yet published
  latest,    \* HealthMonitor._latest
  kept,      \* HealthMonitor._threads
  stop,      \* HealthMonitor._stop
  caller,    \* "free", or inside stop(): "joining", "closing"
  etag,      \* StatusPageClient._etag: the page it validates, or NoPage
  cached,    \* StatusPageClient._cached
  conn,      \* StatusPageClient._connection: "none" or "open"
  answered,  \* history: the page that was served to the reading in hand
  shown,     \* history: the page that was served to the published reading
  launched   \* history: the providers start() had to begin polling, no thread being
             \* alive, and that neither stop() nor a death of the thread has ended

client       == <<etag, cached, conn>>
environment  == <<page, down>>
monitorVars  == <<environment, thread, hand, latest, kept, stop, caller, client,
                  answered, shown, launched>>

Threads   == Providers \X Slots
States    == {"ONLINE", "DEGRADED", "OUTAGE", "UNKNOWN"}
Provider(t) == t[1]
Alive(t)  == thread[t] # "ended"
ThreadsOf(p) == {t \in Threads : Provider(t) = p /\ Alive(t)}

-----------------------------------------------------------------------------
(* parse_summary: an answer reduced to the watched components.             *)

Severity(status) ==
  CASE status = "operational" -> 0
    [] status \in {"under_maintenance", "degraded_performance", "partial_outage"} -> 1
    [] status = "major_outage" -> 2
    [] OTHER -> 3

(* A name is good enough only when no component has the identity.          *)
Matches(wanted, answer) ==
  LET identified == {c \in answer : c.id = wanted.id}
  IN IF identified # {} THEN identified ELSE {c \in answer : c.name = wanted.name}

SelectedComponents(p, answer) == UNION {Matches(w, answer) : w \in Watched[p]}

ParseSummary(p, says) ==
  LET answer == Content[says]
      selected == SelectedComponents(p, answer)
      worst(n) == \E c \in selected : Severity(c.status) = n
  IN IF worst(3) \/ \E w \in Watched[p] : Cardinality(Matches(w, answer)) # 1 THEN "UNKNOWN"
     ELSE IF worst(2) THEN "OUTAGE"
     ELSE IF worst(1) THEN "DEGRADED" ELSE "ONLINE"

-----------------------------------------------------------------------------
(* The environment.                                                        *)

Publish(p, says) ==
  /\ page' = [page EXCEPT ![p] = says]
  /\ UNCHANGED <<down, thread, hand, latest, kept, stop, caller, client, answered, shown, launched>>

Network(p) ==
  /\ down' = IF p \in down THEN down \ {p} ELSE down \cup {p}
  /\ UNCHANGED <<page, thread, hand, latest, kept, stop, caller, client, answered, shown, launched>>

-----------------------------------------------------------------------------
(* One polling thread.                                                     *)

GoesTo(t, where) == thread' = [thread EXCEPT ![t] = where]

(* while not self._stop.is_set()                                           *)
Finish(t) ==
  /\ thread[t] = "polling" /\ stop
  /\ GoesTo(t, "ended")
  /\ UNCHANGED <<environment, hand, latest, kept, stop, caller, client, answered, shown, launched>>

(* The request leaves on the connection kept alive or, when there is none  *)
(* or it turns out to be dead, on a new one.                               *)
Request(t) ==
  /\ thread[t] = "polling" /\ ~stop
  /\ GoesTo(t, "fetching")
  /\ conn' = [conn EXCEPT ![Provider(t)] = "open"]
  /\ UNCHANGED <<environment, hand, latest, kept, stop, caller, etag, cached, answered, shown, launched>>

Holds(t, state, answer) ==
  /\ GoesTo(t, "holding")
  /\ hand' = [hand EXCEPT ![t] = state]
  /\ answered' = [answered EXCEPT ![t] = answer]

(* 304: the cached reading, checked again.                                 *)
NotModified(t) ==
  LET p == Provider(t) IN
  /\ etag[p] = page[p] /\ cached[p] # "UNKNOWN"
  /\ Holds(t, cached[p], page[p])
  /\ UNCHANGED client

(* 200: a reading that says something is cached with its validator.        *)
RemembersAnyTag(t, tagged) ==
  LET p == Provider(t)
      state == ParseSummary(p, page[p])
  IN
  /\ Holds(t, state, page[p])
  /\ cached' = IF state = "UNKNOWN" THEN cached ELSE [cached EXCEPT ![p] = state]
  /\ etag' = [etag EXCEPT ![p] = IF tagged THEN page[p] ELSE NoPage]
  /\ UNCHANGED conn
FullAnswer(t, tagged) ==
  LET p == Provider(t)
      state == ParseSummary(p, page[p])
  IN
  /\ Holds(t, state, page[p])
  /\ IF state = "UNKNOWN"
     THEN UNCHANGED client
     ELSE /\ cached' = [cached EXCEPT ![p] = state]
          /\ etag' = [etag EXCEPT ![p] = IF tagged THEN page[p] ELSE NoPage]
          /\ UNCHANGED conn

(* Any other status: the connection stays.                                 *)
ServerError(t) ==
  /\ Holds(t, "UNKNOWN", NoPage)
  /\ UNCHANGED client

(* No answer in time, or one that is too large, badly encoded or no JSON.  *)
TransportFailure(t) ==
  /\ Holds(t, "UNKNOWN", NoPage)
  /\ conn' = [conn EXCEPT ![Provider(t)] = "none"]
  /\ UNCHANGED <<etag, cached>>

(* An exception no handler of fetch() names ends the thread.               *)
Dies(t) ==
  /\ GoesTo(t, "ended")
  /\ UNCHANGED <<hand, client, answered>>

Reconnects(t) ==
  /\ conn' = [conn EXCEPT ![Provider(t)] = "open"]
  /\ UNCHANGED <<thread, hand, etag, cached, answered>>

(* stop() has closed the connection under the fetch: the attribute is None *)
(* or the socket closed, so the thread dies, sees a failure or, before the *)
(* request was out, opens a connection of its own.                         *)
Torn(t) ==
  /\ conn[Provider(t)] = "none"
  /\ \/ Dies(t)
     \/ TransportFailure(t)
     \/ Reconnects(t)

Connected(t) == conn[Provider(t)] # "none"

Unanswered(t) == Connected(t) /\ TransportFailure(t)

Reached(t) ==
  /\ Connected(t) /\ Provider(t) \notin down
  /\ \/ NotModified(t)
     \/ \E tagged \in BOOLEAN : FullAnswer(t, tagged)
     \/ ServerError(t)

CutShort(t) ==
  /\ Connected(t) /\ Provider(t) \notin down
  /\ "cut" \in MonitorMishaps
  /\ Dies(t)

Answer(t) ==
  /\ thread[t] = "fetching"
  /\ Torn(t) \/ Unanswered(t) \/ Reached(t) \/ CutShort(t)
  /\ launched' = IF thread'[t] = "ended" THEN launched \ {Provider(t)} ELSE launched
  /\ UNCHANGED <<environment, latest, kept, stop, caller, shown>>

(* Under the lock of the monitor; then the wait for the interval or the    *)
(* stop event.                                                             *)
Show(t) ==
  /\ thread[t] = "holding"
  /\ GoesTo(t, "polling")
  /\ latest' = [latest EXCEPT ![Provider(t)] = hand[t]]
  /\ shown' = [shown EXCEPT ![Provider(t)] = answered[t]]
  /\ hand' = [hand EXCEPT ![t] = "UNKNOWN"]
  /\ answered' = [answered EXCEPT ![t] = NoPage]
  /\ UNCHANGED <<environment, kept, stop, caller, client, launched>>

-----------------------------------------------------------------------------
(* The caller.                                                             *)

(* One thread for each provider, in a slot that is free.                   *)
NewThreads == {t \in Threads : ~Alive(t) /\ \A s \in Slots : s < t[2] => Alive(<<t[1], s>>)}

RetainsFinished ==
  /\ caller = "free"
  /\ launched' = IF \E t \in Threads : Alive(t) THEN launched ELSE Providers
  /\ IF kept # {}
     THEN UNCHANGED <<kept, stop, thread>>
     ELSE /\ stop' = FALSE
          /\ kept' = NewThreads
          /\ thread' = [t \in Threads |-> IF t \in NewThreads THEN "polling" ELSE thread[t]]
  /\ UNCHANGED <<environment, hand, latest, caller, client, answered, shown>>
Start ==
  /\ caller = "free"
  /\ launched' = IF \E t \in Threads : Alive(t) THEN launched ELSE Providers
  /\ LET alive == {t \in kept : Alive(t)} IN
     IF alive # {}
     THEN kept' = alive /\ UNCHANGED <<stop, thread>>
     ELSE /\ stop' = FALSE
          /\ kept' = NewThreads
          /\ thread' = [t \in Threads |-> IF t \in NewThreads THEN "polling" ELSE thread[t]]
  /\ UNCHANGED <<environment, hand, latest, caller, client, answered, shown>>

Stop ==
  /\ caller = "free"
  /\ stop' = TRUE
  /\ caller' = "joining"
  /\ launched' = {}
  /\ UNCHANGED <<environment, thread, hand, latest, kept, client, answered, shown>>

(* Every join has returned, because its thread has ended or because the    *)
(* time is up; who is still running is kept.                               *)
ForgetsAll ==
  /\ caller = "joining"
  /\ kept' = {}
  /\ caller' = "closing"
  /\ UNCHANGED <<environment, thread, hand, latest, stop, client, answered, shown, launched>>
Joined ==
  /\ caller = "joining"
  /\ kept' = {t \in kept : Alive(t)}
  /\ caller' = "closing"
  /\ UNCHANGED <<environment, thread, hand, latest, stop, client, answered, shown, launched>>

CloseClients ==
  /\ caller = "closing"
  /\ conn' = [p \in Providers |-> "none"]
  /\ caller' = "free"
  /\ UNCHANGED <<environment, thread, hand, latest, kept, stop, etag, cached, answered, shown, launched>>

-----------------------------------------------------------------------------

MonitorInit ==
  /\ page \in {f \in [Providers -> UNION {Pages[p] : p \in Providers}] :
                 \A p \in Providers : f[p] \in Pages[p]}
  /\ down = {}
  /\ thread = [t \in Threads |-> "ended"]
  /\ hand = [t \in Threads |-> "UNKNOWN"]
  /\ latest = [p \in Providers |-> "UNKNOWN"]
  /\ kept = {}
  /\ stop = FALSE
  /\ caller = "free"
  /\ etag = [p \in Providers |-> NoPage]
  /\ cached = [p \in Providers |-> "UNKNOWN"]
  /\ conn = [p \in Providers |-> "none"]
  /\ answered = [t \in Threads |-> NoPage]
  /\ shown = [p \in Providers |-> NoPage]
  /\ launched = {}

ThreadStep(t) == Finish(t) \/ Request(t) \/ Answer(t) \/ Show(t)

MonitorNext ==
  \/ \E p \in Providers : (\E says \in Pages[p] : Publish(p, says)) \/ Network(p)
  \/ \E t \in Threads : ThreadStep(t)
  \/ Start
  \/ Stop
  \/ Joined
  \/ CloseClients

(* Threads are scheduled; every wait of a fetch has a timeout; joins do    *)
(* too.  Nobody has to start or stop the monitor.                          *)
MonitorFairness ==
  /\ \A t \in Threads : WF_monitorVars(ThreadStep(t))
  /\ WF_monitorVars(Joined)
  /\ WF_monitorVars(CloseClients)

MonitorSpec == MonitorInit /\ [][MonitorNext]_monitorVars /\ MonitorFairness

-----------------------------------------------------------------------------
(* Properties.                                                             *)

ThreadStates == {"ended", "polling", "fetching", "holding"}

(* Every variable stays within its type.                                   *)
MonitorTypeOK ==
  /\ \A p \in Providers : page[p] \in Pages[p]
  /\ down \subseteq Providers
  /\ thread \in [Threads -> ThreadStates]
  /\ hand \in [Threads -> States]
  /\ latest \in [Providers -> States]
  /\ cached \in [Providers -> States]
  /\ kept \subseteq Threads
  /\ launched \subseteq Providers
  /\ stop \in BOOLEAN
  /\ caller \in {"free", "joining", "closing"}
  /\ conn \in [Providers -> {"none", "open"}]

(* However start() and stop() follow each other, and however long a fetch  *)
(* hangs, a provider is never polled by two threads, so nobody else writes *)
(* its client (HealthMonitor.start, stop).                                 *)
OneThread == \A p \in Providers : \A t, u \in ThreadsOf(p) : t = u

(* What an answer shows, said without the search for components: it must   *)
(* name each watched component exactly once, by identity or, when the      *)
(* identity is nowhere, by name, and the worst status decides.             *)
IsThe(c, wanted, answer) ==
  \/ c.id = wanted.id /\ \A d \in answer : d.id = wanted.id => d = c
  \/ c.name = wanted.name /\ \A d \in answer : d.id # wanted.id /\ (d.name = wanted.name => d = c)
Understood(p, answer) ==
  \A w \in Watched[p] : \E c \in answer : IsThe(c, w, answer) /\ Severity(c.status) < 3
Bad(p, answer, least) ==
  \E w \in Watched[p] : \E c \in answer : IsThe(c, w, answer) /\ Severity(c.status) >= least
Verdict(p, answer) ==
  IF ~Understood(p, answer) THEN "UNKNOWN"
  ELSE IF Bad(p, answer, 2) THEN "OUTAGE"
  ELSE IF Bad(p, answer, 1) THEN "DEGRADED" ELSE "ONLINE"

(* The published reading is the verdict on the page that was being served  *)
(* when it was fetched, over revalidations (304), answers that could not   *)
(* be used, restarts and hung fetches (StatusPageClient.fetch).            *)
ReadingIsTheAnswer == \A p \in Providers : latest[p] = Verdict(p, Content[shown[p]])

(* A monitor that was started while no thread was alive shows UNKNOWN in   *)
(* the end for a page that stays out of reach, unless an exception has     *)
(* ended the thread (HealthMonitor.start, _run_provider).                  *)
UnusableIsShown ==
  \A p \in Providers :
    (<>[](p \in down) /\ <>[](p \in launched)) => <>[](latest[p] = "UNKNOWN")

(* docs/USAGE.md, service health: "UNKNOWN is shown whenever the network,  *)
(* schema, component identity or status is unusable."                      *)
UnknownWheneverUnusable ==
  \A p \in Providers :
    (<>[](p \in down) /\ <>[](~stop /\ kept # {})) => <>[](latest[p] = "UNKNOWN")
=============================================================================
