-------------------------------- MODULE Service --------------------------------
(***************************************************************************)
(* The life of the services that answer requests: they migrate the         *)
(* database, serve, and drain when they are told to stop; the api listens  *)
(* for notifications meanwhile. Any of them may die, and so may Postgres.  *)
(*                                                                         *)
(*   packages/shared: shutdownOnSignal (shutdown.ts)                       *)
(*   apps/api, apps/serve: index.ts                                        *)
(*                                                                         *)
(* The worker starts and is migrated like these; how it stops is           *)
(* BuildQueue's. A request whose client is gone is abandoned: the server   *)
(* no longer waits for it, and its handler runs on.                        *)
(***************************************************************************)
EXTENDS Migrations, EventListener

CONSTANTS
  MaxRequests    \* bounds the requests at once of a service, and the streams

ASSUME ServiceAssumption == Apis \subseteq Services /\ MaxRequests \in Nat

VARIABLES
  requests,    \* requests that are being answered
  abandoned,   \* and those whose clients have gone
  following    \* event streams, which end when their clients go

serverVars == <<requests, abandoned, following>>
vars == <<migrationVars, listenerVars, serverVars>>

ServiceTypeOK ==
  /\ MigrationsTypeOK
  /\ ListenerTypeOK
  /\ requests \in [Services -> 0 .. MaxRequests]
  /\ abandoned \in [Services -> 0 .. MaxRequests]
  /\ following \in [Apis -> 0 .. MaxRequests]

Init ==
  /\ MigrationsInit
  /\ ListenerInit
  /\ requests = [s \in Services |-> 0]
  /\ abandoned = [s \in Services |-> 0]
  /\ following = [a \in Apis |-> 0]

Goes(s, from, to) == phase[s] = from /\ phase' = [phase EXCEPT ![s] = to]

-------------------------------------------------------------------------------
\* runMigrations needs Postgres.
Migrate(s) ==
  /\ \/ Start(s)
     \/ postgres /\ (Lock(s) \/ ReadApplied(s) \/ Apply(s))
     \/ Fail(s)
  /\ UNCHANGED <<listenerVars, serverVars>>

\* The service has migrated: an api starts to listen for notifications, and then each
\* of them for requests.
Serve(s) ==
  /\ postgres /\ Unlock(s)
  /\ IF s \in Apis THEN StartListener(s) ELSE UNCHANGED listenerVars
  /\ UNCHANGED serverVars

Listening(a) == ListenerStep(a) /\ UNCHANGED <<migrationVars, serverVars>>

-------------------------------------------------------------------------------
\* Requests. A server that drains accepts none.

Accept(s) ==
  /\ phase[s] = "up" /\ requests[s] + abandoned[s] < MaxRequests
  /\ requests' = [requests EXCEPT ![s] = @ + 1]
  /\ UNCHANGED <<migrationVars, listenerVars, abandoned, following>>

Follow(a) ==
  /\ phase[a] = "up" /\ following[a] < MaxRequests
  /\ following' = [following EXCEPT ![a] = @ + 1]
  /\ UNCHANGED <<migrationVars, listenerVars, requests, abandoned>>

Answer(s) ==
  /\ requests[s] > 0
  /\ requests' = [requests EXCEPT ![s] = @ - 1]
  /\ UNCHANGED <<migrationVars, listenerVars, abandoned, following>>

Abandon(s) ==
  /\ requests[s] > 0
  /\ requests' = [requests EXCEPT ![s] = @ - 1]
  /\ abandoned' = [abandoned EXCEPT ![s] = @ + 1]
  /\ UNCHANGED <<migrationVars, listenerVars, following>>

\* It answers nobody, or fails on a pool that has ended.
FinishAbandoned(s) ==
  /\ abandoned[s] > 0
  /\ abandoned' = [abandoned EXCEPT ![s] = @ - 1]
  /\ UNCHANGED <<migrationVars, listenerVars, requests, following>>

Unfollow(a) ==
  /\ following[a] > 0
  /\ following' = [following EXCEPT ![a] = @ - 1]
  /\ UNCHANGED <<migrationVars, listenerVars, requests, abandoned>>

-------------------------------------------------------------------------------
\* shutdownOnSignal.

Signal(s) ==
  /\ Goes(s, "up", "draining")
  /\ UNCHANGED <<version, applied, lock, todo, listenerVars, serverVars>>

\* The server has closed: none of its connections is left.
Drained(s) == requests[s] = 0 /\ (s \in Apis => following[s] = 0)

\* release: the listener is stopped, and then the pool ended.
Release(s) ==
  /\ Goes(s, "draining", "releasing") /\ Drained(s)
  /\ IF s \in Apis THEN Stop(s) ELSE UNCHANGED listenerVars
  /\ UNCHANGED <<version, applied, lock, todo, serverVars>>

EndPool(s) ==
  /\ Goes(s, "releasing", "released")
  /\ UNCHANGED <<version, applied, lock, todo, listenerVars, serverVars>>

\* The end of a process, however it comes.
Die(s) ==
  /\ End(s)
  /\ IF s \in Apis THEN Gone(s) /\ following' = [following EXCEPT ![s] = 0]
                   ELSE UNCHANGED <<listenerVars, following>>
  /\ requests' = [requests EXCEPT ![s] = 0]
  /\ abandoned' = [abandoned EXCEPT ![s] = 0]

\* The process ends by itself when nothing keeps it: no connection, no handler.
Exit(s) ==
  /\ phase[s] = "released" /\ abandoned[s] = 0
  /\ s \in Apis => connection[s] = NoConnections
  /\ Die(s)

\* FORCE_EXIT_MS after the signal, if anything has kept it until then.
GiveUp(s) == phase[s] \in {"draining", "releasing", "released"} /\ Die(s)

\* A failed migration is thrown, which ends the process.
Throw(s) == phase[s] = "failed" /\ Die(s)

Crash(s) == phase[s] # "down" /\ Die(s)

\* Postgres stops: its sessions end, with the lock and the queries of whoever migrates.
\* A listener hears of it later.
PostgresStops ==
  /\ postgres /\ postgres' = FALSE
  /\ phase' = [s \in Services |-> IF phase[s] \in Migrating THEN "failed" ELSE phase[s]]
  /\ lock' = Nobody
  /\ UNCHANGED <<version, applied, todo, connection, client, stopped, retry, backoff, serverVars>>

PostgresStarts ==
  /\ ~postgres /\ postgres' = TRUE
  /\ UNCHANGED <<migrationVars, connection, client, stopped, retry, backoff, serverVars>>

-------------------------------------------------------------------------------
Request(s) == Accept(s) \/ Answer(s) \/ Abandon(s) \/ FinishAbandoned(s)
Stopping(s) == Signal(s) \/ Release(s) \/ EndPool(s) \/ Exit(s) \/ GiveUp(s)

Next ==
  \/ \E s \in Services :
       Migrate(s) \/ Serve(s) \/ Request(s) \/ Stopping(s) \/ Throw(s) \/ Crash(s)
  \/ \E a \in Apis : Listening(a) \/ Follow(a) \/ Unfollow(a)
  \/ PostgresStops \/ PostgresStarts

Spec == Init /\ [][Next]_vars

\* Timers fire, Postgres answers while it is there, and connections that are cut end. A
\* connection that is made again and again is not lost each time before it listens.
Fairness ==
  \A a \in Apis :
    /\ WF_vars(Reconnect(a) /\ Listening(a))
    /\ \A c \in Connections :
         /\ SF_vars(Connect(a, c) /\ Listening(a)) /\ SF_vars(Listen(a, c) /\ Listening(a))
         /\ WF_vars((FailConnect(a, c) \/ Ended(a, c)) /\ Listening(a))

FairSpec == Spec /\ Fairness

-------------------------------------------------------------------------------
\* What has been accepted is answered before anything is released: the pool that a
\* handler uses is not ended while its client waits.
NothingIsCut ==
  \A s \in Services : phase[s] \in {"releasing", "released"} => requests[s] = 0

\* An api that serves listens again and again, as long as there is a Postgres.
ListensAgain ==
  \A a \in Apis :
    []<>(phase[a] # "up" \/ ~postgres \/ \E c \in Connections : connection[a][c] = "live")
===============================================================================
