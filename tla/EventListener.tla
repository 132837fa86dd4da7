----------------------------- MODULE EventListener -----------------------------
(***************************************************************************)
(* The connection on which an api listens for notifications, and how it    *)
(* comes back: "that matters more here than anywhere else in the system".  *)
(*                                                                         *)
(*   apps/api: startEventListener (events.ts)                              *)
(*                                                                         *)
(* The variables of startEventListener are functions of the api, whose     *)
(* process they are in. A connection is a number of its own as long as     *)
(* anything may still come of it, an event or an answer.                   *)
(***************************************************************************)
EXTENDS Integers

CONSTANTS
  Apis,            \* the processes that listen
  Connections,     \* bounds the connections of each at once
  NoConnection,
  ReconnectMin,    \* RECONNECT_MIN_MS
  ReconnectMax,    \* RECONNECT_MAX_MS
  EndsAreQuick     \* TRUE: a connection has ended before the backoff is over

ASSUME ListenerAssumption ==
  /\ NoConnection \notin Connections
  /\ ReconnectMin \in Nat /\ ReconnectMax \in Nat /\ ReconnectMin <= ReconnectMax
  /\ EndsAreQuick \in BOOLEAN

VARIABLES
  postgres,     \* whether Postgres takes connections
  connection,   \* what becomes of each connection
  client,       \* the connection that stop() would end
  stopped,
  retry,        \* whether the timer is set
  backoff       \* backoffMs

listenerVars == <<postgres, connection, client, stopped, retry, backoff>>

\* A connection fails while it connects, or while it listens for the first time, and is
\* then ended; one that is live has listened.
ConnectionStates == {"none", "connecting", "listening", "live", "ending"}

ListenerTypeOK ==
  /\ postgres \in BOOLEAN
  /\ connection \in [Apis -> [Connections -> ConnectionStates]]
  /\ client \in [Apis -> Connections \cup {NoConnection}]
  /\ stopped \in [Apis -> BOOLEAN]
  /\ retry \in [Apis -> BOOLEAN]
  /\ backoff \in [Apis -> ReconnectMin .. ReconnectMax]

NoConnections == [c \in Connections |-> "none"]

ListenerInit ==
  /\ postgres = TRUE
  /\ connection = [a \in Apis |-> NoConnections]
  /\ client = [a \in Apis |-> NoConnection]
  /\ stopped = [a \in Apis |-> FALSE]
  /\ retry = [a \in Apis |-> FALSE]
  /\ backoff = [a \in Apis |-> ReconnectMin]

-------------------------------------------------------------------------------
Becomes(a, c, state) == connection' = [connection EXCEPT ![a][c] = state]

\* startEventListener, in a process that has just started.
StartListener(a) ==
  /\ \E c \in Connections :
       connection' = [connection EXCEPT ![a] = [NoConnections EXCEPT ![c] = "connecting"]]
  /\ client' = [client EXCEPT ![a] = NoConnection]
  /\ stopped' = [stopped EXCEPT ![a] = FALSE]
  /\ retry' = [retry EXCEPT ![a] = FALSE]
  /\ backoff' = [backoff EXCEPT ![a] = ReconnectMin]
  /\ UNCHANGED postgres

\* Variant: the backoff grows for ever.
Longer_Unbounded(ms) == 2 * ms

Longer(ms) == IF 2 * ms <= ReconnectMax THEN 2 * ms ELSE ReconnectMax

\* Variant: it gives up when the backoff has come to its end.
ScheduleReconnect_GivesUp(a) ==
  IF stopped[a] \/ retry[a] \/ backoff[a] = ReconnectMax
    THEN UNCHANGED <<retry, backoff>>
    ELSE /\ retry' = [retry EXCEPT ![a] = TRUE]
         /\ backoff' = [backoff EXCEPT ![a] = Longer(@)]

ScheduleReconnect(a) ==
  IF stopped[a] \/ retry[a]
    THEN UNCHANGED <<retry, backoff>>
    ELSE /\ retry' = [retry EXCEPT ![a] = TRUE]
         /\ backoff' = [backoff EXCEPT ![a] = Longer(@)]

\* The timer fires; connect() is not called after stop(), which clears it.
Reconnect(a) ==
  /\ retry[a] /\ ~stopped[a]
  /\ EndsAreQuick => \A c \in Connections : connection[a][c] # "ending"
  /\ retry' = [retry EXCEPT ![a] = FALSE]
  /\ \E c \in Connections : connection[a][c] = "none" /\ Becomes(a, c, "connecting")
  /\ UNCHANGED <<postgres, client, stopped, backoff>>

Connect(a, c) ==
  /\ connection[a][c] = "connecting" /\ postgres
  /\ Becomes(a, c, "listening")
  /\ UNCHANGED <<postgres, client, stopped, retry, backoff>>

\* Variant: the connection is not kept.
Listen_Unkept(a, c) ==
  /\ connection[a][c] = "listening" /\ postgres
  /\ Becomes(a, c, "live")
  /\ backoff' = [backoff EXCEPT ![a] = ReconnectMin]
  /\ UNCHANGED <<postgres, client, stopped, retry>>

\* LISTEN is answered, even after stop().
Listen(a, c) ==
  /\ connection[a][c] = "listening" /\ postgres
  /\ Becomes(a, c, "live")
  /\ client' = [client EXCEPT ![a] = c]
  /\ backoff' = [backoff EXCEPT ![a] = ReconnectMin]
  /\ UNCHANGED <<postgres, stopped, retry>>

\* It cannot connect, which is an exception.
FailConnect(a, c) ==
  /\ connection[a][c] = "connecting"
  /\ Becomes(a, c, "ending")
  /\ UNCHANGED <<postgres, client, stopped, retry, backoff>>

\* The connection is lost: an error event, and an exception as well for the query that
\* waits for its answer.
Lose(a, c) ==
  /\ connection[a][c] \in {"listening", "live"}
  /\ Becomes(a, c, IF connection[a][c] = "listening" THEN "ending" ELSE "none")
  /\ client' = [client EXCEPT ![a] = NoConnection]
  /\ ScheduleReconnect(a)
  /\ UNCHANGED <<postgres, stopped>>

\* After an exception, end() has returned.
Ended(a, c) ==
  /\ connection[a][c] = "ending"
  /\ Becomes(a, c, "none")
  /\ ScheduleReconnect(a)
  /\ UNCHANGED <<postgres, client, stopped>>

\* stop(): whatever is connecting is not stopped.
Stop(a) ==
  /\ stopped' = [stopped EXCEPT ![a] = TRUE]
  /\ retry' = [retry EXCEPT ![a] = FALSE]
  /\ connection' = IF client[a] = NoConnection THEN connection
                   ELSE [connection EXCEPT ![a][client[a]] = "none"]
  /\ client' = [client EXCEPT ![a] = NoConnection]
  /\ UNCHANGED <<postgres, backoff>>

\* The process has ended, and with it its connections.
Gone(a) ==
  /\ connection' = [connection EXCEPT ![a] = NoConnections]
  /\ client' = [client EXCEPT ![a] = NoConnection]
  /\ stopped' = [stopped EXCEPT ![a] = TRUE]
  /\ retry' = [retry EXCEPT ![a] = FALSE]
  /\ UNCHANGED <<postgres, backoff>>

ListenerStep(a) ==
  \/ Reconnect(a)
  \/ \E c \in Connections :
       Connect(a, c) \/ Listen(a, c) \/ FailConnect(a, c) \/ Lose(a, c) \/ Ended(a, c)

-------------------------------------------------------------------------------
\* An api has one connection at most that notifications come on, or may come on, and it
\* is the one that it would end: none of them is announced twice, and none is left open.
OneListener ==
  \A a \in Apis :
    /\ \A c, d \in Connections :
         connection[a][c] \in {"connecting", "listening", "live"}
         /\ connection[a][d] \in {"connecting", "listening", "live"} => c = d
    /\ \A c \in Connections : connection[a][c] = "live" => client[a] = c
===============================================================================
