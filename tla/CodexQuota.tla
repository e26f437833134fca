----------------------------- MODULE CodexQuota -----------------------------
(***************************************************************************)
(* Codex's usage as the watcher reads it: from the newest rate-limit event *)
(* in the rollouts of a process, merged over the processes of an account   *)
(* that name the same limit (quota.py: CodexRolloutSource), or, for a      *)
(* process without a rollout, from the app server (codex_daemon_quota.py:  *)
(* CodexDaemonSource).                                                     *)
(*                                                                         *)
(* An event does not say whose it is.  The account is read from the login  *)
(* of the process's home, later, and a login can change between the event, *)
(* the read and the report; a running process keeps the account it was     *)
(* started under.                                                          *)
(***************************************************************************)
EXTENDS Naturals, FiniteSets

CONSTANTS Processes,
          Home,        \* Home[p]: the CODEX_HOME of a process
          Accounts,
          NoAccount,   \* a login that cannot be read or names no account
          Limits,      \* what an event names as its limit_id, NoLimit if that may lack
          NoLimit,     \* no limit_id
          NoEvent,     \* nothing merged yet
          MaxTime,     \* bound: moments in which usage is told apart
          MaxLogins,   \* bound: logins after the start
          MaxCached    \* bound: cached answers, 64 in the code

Homes == {Home[p] : p \in Processes}
Identities == Accounts \X (Limits \ {NoLimit})

ASSUME QuotaAssumption ==
  /\ NoAccount \notin Accounts
  /\ MaxTime \in Nat \ {0} /\ MaxLogins \in Nat /\ MaxCached \in Nat

VARIABLES
  now,      \* environment: the moment
  login,    \* environment: the account in the auth.json of each home
  logins,   \* environment: how often a login changed
  user,     \* environment: the account each process was started under
  rollout,  \* environment: the events in the open rollouts of a process
  merged,   \* CodexRolloutSource._account_snapshots, by account and limit
  cache,    \* CodexDaemonSource._cache, the entries that have not expired
  call,     \* "idle", "event", "bound", "response"
  asked,    \* the process asked about
  found,    \* the event read from its rollout, or the response of the daemon
  binding,  \* the account CodexDaemonSource has bound the process to
  told,     \* history: the latest time a rollout was reported with, by account and limit
  report    \* what the last call returned

world     == <<now, login, logins, user, rollout>>
quotaVars == <<world, merged, cache, call, asked, found, binding, told, report>>

(* What is known of a limit: when it was seen, 0 for an event that does    *)
(* not say, which limit it is, which process it came from, and two things  *)
(* nobody can see: the account it is about, and whether that has been the  *)
(* login of its home ever since.                                           *)
Events == [at : 0..MaxTime, limit : Limits \cup {NoLimit},
           from : Processes, about : Accounts, sound : BOOLEAN]

ASSUME NoEventAssumption == NoEvent \notin Events

-----------------------------------------------------------------------------
(* The environment.                                                        *)

Pass ==
  /\ now < MaxTime
  /\ now' = now + 1
  /\ UNCHANGED <<login, logins, user, rollout, merged, cache, call, asked, found, binding, told, report>>

(* codex login: the rollouts written before stay where they are.           *)
Unsound(e) == [e EXCEPT !.sound = FALSE]
Login(h, a) ==
  /\ logins < MaxLogins /\ login[h] # a
  /\ logins' = logins + 1
  /\ login' = [login EXCEPT ![h] = a]
  /\ rollout' = [p \in Processes |-> IF Home[p] = h THEN {Unsound(e) : e \in rollout[p]} ELSE rollout[p]]
  /\ found' = IF call = "event" /\ Home[asked] = h THEN Unsound(found) ELSE found
  /\ UNCHANGED <<now, user, merged, cache, call, asked, binding, told, report>>

(* A turn of p ends: its rollout gets an event, now and then without a     *)
(* time or a limit, and about another one when the user changes the model. *)
(* Events that no longer count are dropped here.                           *)
Turn(p, at, limit) ==
  /\ at \in {0, now}
  /\ LET e == [at |-> at, limit |-> limit, from |-> p, about |-> user[p],
               sound |-> user[p] = login[Home[p]]]
     IN rollout' = [rollout EXCEPT ![p] = {d \in @ : (d.at = 0) # (at = 0)} \cup {e}]
  /\ UNCHANGED <<now, login, logins, user, merged, cache, call, asked, found, binding, told, report>>

(* The process ends; the next one under its PID has a rollout of its own.  *)
Restart(p) ==
  /\ login[Home[p]] # NoAccount
  /\ user[p] # login[Home[p]] \/ rollout[p] # {}
  /\ user' = [user EXCEPT ![p] = login[Home[p]]]
  /\ rollout' = [rollout EXCEPT ![p] = {}]
  /\ UNCHANGED <<now, login, logins, merged, cache, call, asked, found, binding, told, report>>

(* The login of a home is read whenever it is needed.                      *)
Account(p) == login[Home[p]]

-----------------------------------------------------------------------------
(* CodexRolloutSource.snapshot.                                            *)

(* The newest event with a time, else one without.                         *)
Freshest(events) ==
  LET dated == {e \in events : e.at > 0}
  IN IF dated = {} THEN events ELSE {e \in dated : \A d \in dated : d.at <= e.at}

ReadRollout(p) ==
  /\ call = "idle"
  /\ \E e \in Freshest(rollout[p]) : found' = e
  /\ asked' = p
  /\ call' = "event"
  /\ report' = NoEvent
  /\ UNCHANGED <<world, merged, cache, binding, told>>

(* Equal times: the event just read; none without a time ever wins.        *)
Newer(first, second) ==
  IF second = NoEvent THEN first
  ELSE IF first.at = 0 THEN second
  ELSE IF first.at >= second.at THEN first ELSE second

Returns(event, account, source) ==
  /\ report' = [of |-> asked, source |-> source, account |-> account, limit |-> found.limit,
                known |-> event]
  /\ call' = "idle"
  /\ found' = NoEvent /\ asked' = NoEvent /\ binding' = NoAccount

(* The account is read from the login of the home that owns the rollout.   *)
(* Only events of one account about one limit are weighed against each     *)
(* other; an event without either is answered as it is.                    *)
Merges(account) == account # NoAccount /\ found.limit # NoLimit

ByAccount(account) == <<account, CHOOSE limit \in Limits \ {NoLimit} : TRUE>>
Identified(account) == <<account, found.limit>>

Merge ==
  /\ call = "event"
  /\ LET account == Account(asked)
         key == Identified(account)
         freshest == Newer(found, merged[key])
     IN \/ /\ ~Merges(account)
           /\ Returns(found, account, "rollout")
           /\ UNCHANGED <<merged, told>>
        \/ /\ Merges(account)
           /\ Returns(freshest, account, "rollout")
           /\ merged' = [merged EXCEPT ![key] = freshest]
           /\ told' = [told EXCEPT ![<<account, found.limit>>] =
                         IF freshest.at > @ THEN freshest.at ELSE @]
  /\ UNCHANGED <<world, cache>>

-----------------------------------------------------------------------------
(* CodexDaemonSource.snapshot, for a process without a rollout.            *)

(* The start of the process, its home and the account of that home.  A     *)
(* restart under the same account is of no consequence and not told apart. *)
Identity(p) == [account |-> Account(p), started |-> user[p]]

BindsAnyone(p) ==
  /\ call = "idle" /\ rollout[p] = {}
  /\ asked' = p
  /\ binding' = Identity(p)
  /\ call' = "bound"
  /\ report' = NoEvent
  /\ UNCHANGED <<world, merged, cache, found, told>>
Bind(p) ==
  /\ call = "idle" /\ rollout[p] = {} /\ Account(p) # NoAccount
  /\ asked' = p
  /\ binding' = Identity(p)
  /\ call' = "bound"
  /\ report' = NoEvent
  /\ UNCHANGED <<world, merged, cache, found, told>>

(* The daemon answers for the account it runs under, that is for a login   *)
(* of the home it has seen; a report about another account is refused.  It *)
(* is about all the limits of the account at once, and names none.         *)
TakesAny(account) == TRUE
Matches(account) == account = binding.account

Cached(entry) == entry \in cache /\ entry.of = asked /\ entry.binding = binding

Respond(account) ==
  /\ call = "bound" /\ \A entry \in cache : ~Cached(entry)
  /\ Matches(account)
  /\ found' = [at |-> now, limit |-> NoLimit, from |-> asked, about |-> account, sound |-> TRUE]
  /\ call' = "response"
  /\ UNCHANGED <<world, merged, cache, asked, binding, told, report>>

Hit(entry) ==
  /\ call = "bound" /\ Cached(entry)
  /\ found' = entry.known
  /\ call' = "response"
  /\ UNCHANGED <<world, merged, cache, asked, binding, told, report>>

(* Process start, home and account are read again before the report is     *)
(* kept and returned.                                                      *)
AsItWas == TRUE
StillBound == Identity(asked) = binding

Verify ==
  /\ call = "response" /\ StillBound
  /\ LET others == {entry \in cache : ~Cached(entry)}
     IN /\ Cardinality(others) < MaxCached
        /\ cache' = others \cup {[of |-> asked, binding |-> binding, known |-> found]}
  /\ Returns(found, Account(asked), "daemon")
  /\ UNCHANGED <<world, merged, told>>

(* No response, an unusable one, or another identity: UNKNOWN.  A failed   *)
(* read is cached too, for a shorter time, and says nothing.               *)
GiveUp ==
  /\ call \in {"bound", "response"}
  /\ call' = "idle"
  /\ found' = NoEvent /\ asked' = NoEvent /\ binding' = NoAccount
  /\ report' = NoEvent
  /\ UNCHANGED <<world, merged, cache, told>>

(* It is too old, or the least recently used of too many.                  *)
Expire(entry) ==
  /\ cache' = cache \ {entry}
  /\ UNCHANGED <<world, merged, call, asked, found, binding, told, report>>

QuotaInit ==
  /\ now = 1
  /\ login \in [Homes -> Accounts]
  /\ logins = 0
  /\ user = [p \in Processes |-> login[Home[p]]]
  /\ rollout = [p \in Processes |-> {}]
  /\ merged = [key \in Identities |-> NoEvent]
  /\ cache = {}
  /\ call = "idle"
  /\ found = NoEvent /\ asked = NoEvent /\ binding = NoAccount
  /\ told = [key \in Identities |-> 0]
  /\ report = NoEvent

QuotaEnvironment ==
  \/ Pass
  \/ \E h \in Homes, a \in Accounts \cup {NoAccount} : Login(h, a)
  \/ \E p \in Processes :
       Restart(p) \/ \E at \in {0, now}, limit \in Limits : Turn(p, at, limit)

QuotaCall ==
  \/ \E p \in Processes : ReadRollout(p) \/ Bind(p)
  \/ Merge
  \/ \E a \in Accounts : Respond(a)
  \/ \E entry \in cache : Hit(entry) \/ Expire(entry)
  \/ Verify
  \/ GiveUp

QuotaNext == QuotaEnvironment \/ QuotaCall
QuotaSpec == QuotaInit /\ [][QuotaNext]_quotaVars

-----------------------------------------------------------------------------
(* Properties.                                                             *)

(* Every variable stays within its type.                                   *)
Bindings == [account : Accounts, started : Accounts]
QuotaTypeOK ==
  /\ now \in 1..MaxTime /\ logins \in 0..MaxLogins
  /\ login \in [Homes -> Accounts \cup {NoAccount}]
  /\ user \in [Processes -> Accounts]
  /\ \A p \in Processes : rollout[p] \subseteq Events
  /\ \A key \in Identities : merged[key] \in Events \cup {NoEvent} /\ told[key] \in 0..MaxTime
  /\ cache \subseteq [of : Processes, binding : Bindings, known : Events]
  /\ call \in {"idle", "event", "bound", "response"}
  /\ binding \in Bindings \cup {NoAccount}
  /\ found \in Events \cup {NoEvent}

(* What is reported about the account of a process was seen by the process *)
(* itself or is about that very account, as long as no login has come      *)
(* between an event and its reading; what the daemon says is always about  *)
(* the account that is logged in when it is reported                       *)
(* (CodexRolloutSource.snapshot, CodexDaemonSource.snapshot).              *)
AccountsApart ==
  report # NoEvent =>
    \/ report.known.about = report.account
    \/ /\ report.source = "rollout"
       /\ report.known.from = report.of \/ ~report.known.sound

(* Once a rollout was reported about a limit of an account, what later     *)
(* reports from rollouts say about it is about that very limit and not     *)
(* older: a limit seen in one session is not undone by another one's       *)
(* earlier event, nor by an event about another limit (_newer_snapshot,    *)
(* cache_key; docs/USAGE.md:82-86).  An event without a limit is answered  *)
(* as it is, and the daemon's answers are not weighed against rollouts.    *)
Identifies == report.source = "rollout" /\ report.account # NoAccount /\ report.limit # NoLimit

NothingOlder ==
  (report # NoEvent /\ Identifies) =>
    /\ report.known.limit = report.limit
    /\ report.known.at = told[<<report.account, report.limit>>]
=============================================================================
