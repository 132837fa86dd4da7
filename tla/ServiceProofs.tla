----------------------------- MODULE ServiceProofs -----------------------------
(***************************************************************************)
(* Proofs about Service, for any services, versions, connections and       *)
(* requests: of migrations and of the drain as they are, of the listener   *)
(* where a connection ends before the backoff does.                        *)
(***************************************************************************)
EXTENDS Service, TLAPS

-------------------------------------------------------------------------------
\* Migrations: the lock makes whoever reads and applies the only one, so that what is
\* pending stays what is not applied.

LockIsHeld == \A s \in Services : phase[s] \in {"reading", "applying"} => lock = s

TodoIsExact ==
  \A s \in Services : phase[s] = "applying" => todo[s] = (1 .. version[s]) \ Range(applied)

MigrationsInv == MigrationsTypeOK /\ InOrder /\ LockIsHeld /\ TodoIsExact /\ SchemaIsReady

\* What a step of Service does to the variables of Migrations.
Serves(s) ==
  /\ phase[s] \in Serving
  /\ \E p \in Serving : phase' = [phase EXCEPT ![s] = p]
  /\ UNCHANGED <<version, applied, lock, todo>>

SessionsEnd ==
  /\ phase' = [s \in Services |-> IF phase[s] \in Migrating THEN "failed" ELSE phase[s]]
  /\ lock' = Nobody
  /\ UNCHANGED <<version, applied, todo>>

Moves(s) ==
  \/ Start(s) \/ Lock(s) \/ ReadApplied(s) \/ Apply(s) \/ Fail(s) \/ Unlock(s)
  \/ End(s) \/ Serves(s)

LEMMA MovesKeepType ==
  ASSUME MigrationsTypeOK, NEW s \in Services, Moves(s)
  PROVE  MigrationsTypeOK'
<1> USE MigrationsAssumption DEF MigrationsTypeOK, Phases, Migrating, Serving
<1>1. CASE Start(s)
  BY <1>1 DEF Start
<1>2. CASE Lock(s)
  BY <1>2 DEF Lock
<1>3. CASE ReadApplied(s)
  <2>1. (1 .. version[s]) \ Range(applied) \in SUBSET (1 .. Newest)
    BY DEF Versions
  <2> QED
    BY <1>3, <2>1 DEF ReadApplied
<1>4. CASE Apply(s)
  <2>1. PICK f \in todo[s] :
          /\ applied' = Append(applied, f)
          /\ todo' = [todo EXCEPT ![s] = @ \ {f}]
    BY <1>4 DEF Apply
  <2>2. todo[s] \in SUBSET (1 .. Newest) /\ f \in 1 .. Newest /\ todo[s] \ {f} \in SUBSET (1 .. Newest)
    OBVIOUS
  <2>3. applied' \in Seq(1 .. Newest)
    BY <2>1, <2>2
  <2>4. todo' \in [Services -> SUBSET (1 .. Newest)]
    BY <2>1, <2>2
  <2> QED
    BY <1>4, <2>3, <2>4 DEF Apply
<1>5. CASE Fail(s)
  BY <1>5 DEF Fail
<1>6. CASE Unlock(s)
  BY <1>6 DEF Unlock, Unlocked
<1>7. CASE End(s)
  BY <1>7 DEF End, Unlocked
<1>8. CASE Serves(s)
  BY <1>8 DEF Serves
<1> QED
  BY <1>1, <1>2, <1>3, <1>4, <1>5, <1>6, <1>7, <1>8 DEF Moves

\* In order, the migrations that have been applied are the first ones.
LEMMA AppliedAreFirst ==
  ASSUME MigrationsTypeOK, InOrder
  PROVE  Len(applied) \in Nat /\ Range(applied) = 1 .. Len(applied)
  BY DEF MigrationsTypeOK, InOrder, Range

\* The first one that is pending is the next.
LEMMA NextIsFirst ==
  ASSUME MigrationsInv, NEW s \in Services, Apply(s)
  PROVE  \E f \in todo[s] :
           /\ f = Len(applied) + 1
           /\ applied' = Append(applied, f) /\ todo' = [todo EXCEPT ![s] = @ \ {f}]
           /\ UNCHANGED <<phase, version, lock>>
<1>1. PICK f \in todo[s] :
        /\ \A g \in todo[s] : f <= g
        /\ applied' = Append(applied, f) /\ todo' = [todo EXCEPT ![s] = @ \ {f}]
  BY DEF Apply
<1>2. Len(applied) \in Nat /\ todo[s] = (1 .. version[s]) \ (1 .. Len(applied))
  BY AppliedAreFirst DEF MigrationsInv, TodoIsExact, Apply
<1>3. version[s] \in Nat
  BY MigrationsAssumption DEF MigrationsInv, MigrationsTypeOK, Versions
<1>4. f = Len(applied) + 1
  <2>1. f \in Nat /\ f > Len(applied) /\ f <= version[s]
    BY <1>2, <1>3
  <2>2. Len(applied) + 1 \in todo[s]
    BY <1>2, <1>3, <2>1
  <2> QED
    BY <1>1, <1>2, <2>1, <2>2
<1> QED
  BY <1>1, <1>4 DEF Apply

LEMMA ApplyKeeps ==
  ASSUME MigrationsInv, NEW s \in Services, Apply(s)
  PROVE  InOrder' /\ LockIsHeld' /\ TodoIsExact' /\ SchemaIsReady'
<1>1. PICK f \in todo[s] :
        /\ f = Len(applied) + 1
        /\ applied' = Append(applied, f) /\ todo' = [todo EXCEPT ![s] = @ \ {f}]
        /\ UNCHANGED <<phase, version, lock>>
  BY NextIsFirst
<1>2. applied \in Seq(1 .. Newest) /\ Len(applied) \in Nat /\ f \in 1 .. Newest
  BY DEF MigrationsInv, MigrationsTypeOK
<1>3. InOrder'
  BY <1>1, <1>2 DEF MigrationsInv, InOrder
<1>4. Range(applied') = Range(applied) \cup {f}
  <2>1. Len(applied') = Len(applied) + 1 /\ Range(applied') = 1 .. Len(applied')
    BY <1>1, <1>2, <1>3 DEF InOrder, Range
  <2> QED
    BY <1>1, <1>2, <2>1, AppliedAreFirst DEF MigrationsInv
<1>5. LockIsHeld'
  BY <1>1 DEF MigrationsInv, LockIsHeld
<1>6. TodoIsExact'
  <2> SUFFICES ASSUME NEW t \in Services, phase'[t] = "applying"
               PROVE  todo'[t] = (1 .. version'[t]) \ Range(applied')
    BY DEF TodoIsExact
  <2>1. t = s
    BY <1>1 DEF Apply, MigrationsInv, LockIsHeld
  <2>2. todo'[t] = todo[t] \ {f} /\ todo[t] = (1 .. version[t]) \ Range(applied)
    BY <1>1, <2>1 DEF MigrationsInv, MigrationsTypeOK, TodoIsExact
  <2> QED
    BY <1>1, <1>4, <2>2
<1>7. SchemaIsReady'
  BY <1>1, <1>4 DEF MigrationsInv, SchemaIsReady
<1> QED
  BY <1>3, <1>5, <1>6, <1>7

\* Of the other steps, none changes what is applied.
LEMMA OthersKeep ==
  ASSUME MigrationsInv, NEW s \in Services,
         Start(s) \/ Lock(s) \/ ReadApplied(s) \/ Fail(s) \/ Unlock(s) \/ End(s) \/ Serves(s)
  PROVE  InOrder' /\ LockIsHeld' /\ TodoIsExact' /\ SchemaIsReady'
<1>1. applied' = applied
  BY DEF Start, Lock, ReadApplied, Fail, Unlock, End, Serves
<1>2. /\ phase \in [Services -> Phases] /\ version \in [Services -> Versions]
      /\ lock \in Services \cup {Nobody} /\ todo \in [Services -> SUBSET (1 .. Newest)]
  BY DEF MigrationsInv, MigrationsTypeOK
<1>3. InOrder'
  BY <1>1 DEF MigrationsInv, InOrder
<1>4. LockIsHeld'
  BY <1>2, MigrationsAssumption
     DEF MigrationsInv, LockIsHeld, Start, Lock, ReadApplied, Fail, Unlock, End, Serves, Serving, Unlocked
<1>5. TodoIsExact'
  BY <1>1, <1>2
     DEF MigrationsInv, TodoIsExact, Start, Lock, ReadApplied, Fail, Unlock, End, Serves, Serving
<1>6. SchemaIsReady'
  <2>1. CASE Unlock(s)
    <3> SUFFICES ASSUME NEW t \in Services, phase'[t] \in Serving
                 PROVE  1 .. version[t] \subseteq Range(applied)
      BY <1>1, <2>1 DEF SchemaIsReady, Unlock
    <3>1. CASE t = s
      BY <2>1, <3>1 DEF MigrationsInv, TodoIsExact, Unlock
    <3>2. CASE t # s
      BY <1>2, <2>1, <3>2 DEF MigrationsInv, SchemaIsReady, Unlock
    <3> QED
      BY <3>1, <3>2
  <2>2. CASE Start(s) \/ Lock(s) \/ ReadApplied(s) \/ Fail(s) \/ End(s) \/ Serves(s)
    BY <1>1, <1>2, <2>2
       DEF MigrationsInv, SchemaIsReady, Start, Lock, ReadApplied, Fail, End, Serves, Serving
  <2> QED
    BY <2>1, <2>2
<1> QED
  BY <1>3, <1>4, <1>5, <1>6

LEMMA MovesKeepMigrations ==
  ASSUME MigrationsInv, NEW s \in Services, Moves(s)
  PROVE  MigrationsInv'
  BY MovesKeepType, ApplyKeeps, OthersKeep DEF MigrationsInv, Moves

LEMMA SessionsEndSafely ==
  ASSUME MigrationsInv, SessionsEnd
  PROVE  MigrationsInv'
<1> USE DEF MigrationsInv, SessionsEnd, Migrating
<1>1. MigrationsTypeOK'
  BY DEF MigrationsTypeOK, Phases, Serving
<1>2. \A s \in Services : phase'[s] \notin Migrating \ {"failed"}
                          /\ (phase'[s] \in Serving => phase[s] \in Serving)
  BY DEF MigrationsTypeOK, Serving
<1>3. LockIsHeld' /\ TodoIsExact'
  BY <1>2 DEF LockIsHeld, TodoIsExact
<1>4. InOrder' /\ SchemaIsReady'
  BY <1>2 DEF InOrder, SchemaIsReady
<1> QED
  BY <1>1, <1>3, <1>4

\* What a step of Service does to the variables of Migrations is one of these.
LEMMA StepsMove ==
  ASSUME MigrationsTypeOK, [Next]_vars
  PROVE  UNCHANGED migrationVars \/ SessionsEnd \/ \E s \in Services : Moves(s)
<1> USE DEF Moves, migrationVars
<1>1. ASSUME NEW s \in Services, Migrate(s) \/ Serve(s)
      PROVE  Moves(s)
  BY <1>1 DEF Migrate, Serve
<1>2. ASSUME NEW s \in Services, Request(s)
      PROVE  UNCHANGED migrationVars
  BY <1>2 DEF Request, Accept, Answer, Abandon, FinishAbandoned
<1>3. ASSUME NEW s \in Services, Signal(s) \/ Release(s) \/ EndPool(s)
      PROVE  Moves(s)
  BY <1>3 DEF Signal, Release, EndPool, Goes, Serves, Serving
<1>4. ASSUME NEW s \in Services, Exit(s) \/ GiveUp(s) \/ Throw(s) \/ Crash(s)
      PROVE  Moves(s)
  BY <1>4 DEF Exit, GiveUp, Throw, Crash, Die
<1>5. ASSUME NEW a \in Apis, Listening(a) \/ Follow(a) \/ Unfollow(a)
      PROVE  UNCHANGED migrationVars
  BY <1>5 DEF Listening, Follow, Unfollow
<1>6. CASE PostgresStops
  BY <1>6 DEF PostgresStops, SessionsEnd
<1>7. CASE PostgresStarts \/ UNCHANGED vars
  BY <1>7 DEF PostgresStarts, vars
<1> QED
  BY <1>1, <1>2, <1>3, <1>4, <1>5, <1>6, <1>7 DEF Next, Stopping

LEMMA MigrationsInvHolds == Spec => []MigrationsInv
<1>1. Init => MigrationsInv
  <2> SUFFICES ASSUME Init PROVE MigrationsInv
    OBVIOUS
  <2>1. MigrationsTypeOK
    BY MigrationsAssumption DEF Init, MigrationsInit, MigrationsTypeOK, Versions, Phases
  <2>2. InOrder /\ LockIsHeld /\ TodoIsExact /\ SchemaIsReady
    BY DEF Init, MigrationsInit, InOrder, LockIsHeld, TodoIsExact, SchemaIsReady, Serving
  <2> QED
    BY <2>1, <2>2 DEF MigrationsInv
<1>2. MigrationsInv /\ [Next]_vars => MigrationsInv'
  <2> SUFFICES ASSUME MigrationsInv, [Next]_vars PROVE MigrationsInv'
    OBVIOUS
  <2>1. CASE UNCHANGED migrationVars
    BY <2>1 DEF MigrationsInv, migrationVars, MigrationsTypeOK, InOrder, LockIsHeld,
                TodoIsExact, SchemaIsReady
  <2> QED
    BY <2>1, StepsMove, MovesKeepMigrations, SessionsEndSafely DEF MigrationsInv
<1> QED
  BY <1>1, <1>2, PTL DEF Spec

\* Every migration is run once and in order, nobody runs what another has run, and a
\* service that answers knows its schema: for any services and versions, whoever dies.
THEOREM StartsStaySafe == Spec => []StartsAreSafe
<1>1. MigrationsInv => StartsAreSafe
  BY DEF MigrationsInv, StartsAreSafe, PendingIsUnapplied, TodoIsExact
<1> QED
  BY <1>1, MigrationsInvHolds, PTL

-------------------------------------------------------------------------------
\* The listener: where a connection has ended before the backoff is over, there is one
\* connection at most of which anything may still come.

Busy(a, c) == connection[a][c] # "none"

ListenerInv ==
  /\ ListenerTypeOK
  /\ \A a \in Apis : \A c, d \in Connections : Busy(a, c) /\ Busy(a, d) => c = d
  /\ \A a \in Apis : \A c \in Connections :
       /\ connection[a][c] = "live" => client[a] = c
       /\ retry[a] => connection[a][c] \in {"none", "ending"}

\* A backoff grows within its limits.
LEMMA LongerIsInLimits ==
  ASSUME NEW ms \in ReconnectMin .. ReconnectMax
  PROVE  Longer(ms) \in ReconnectMin .. ReconnectMax
  BY ListenerAssumption DEF Longer

LEMMA SchedulesKeepType ==
  ASSUME ListenerTypeOK, NEW a \in Apis, ScheduleReconnect(a)
  PROVE  /\ retry' \in [Apis -> BOOLEAN]
         /\ backoff' \in [Apis -> ReconnectMin .. ReconnectMax]
         /\ \A b \in Apis : b # a => retry'[b] = retry[b]
<1>1. backoff[a] \in ReconnectMin .. ReconnectMax /\ Longer(backoff[a]) \in ReconnectMin .. ReconnectMax
  BY LongerIsInLimits DEF ListenerTypeOK
<1>2. \/ retry' = retry /\ backoff' = backoff
      \/ /\ retry' = [retry EXCEPT ![a] = TRUE]
         /\ backoff' = [backoff EXCEPT ![a] = Longer(backoff[a])]
  BY DEF ScheduleReconnect
<1>3. CASE retry' = retry /\ backoff' = backoff
  BY <1>3 DEF ListenerTypeOK
<1>4. CASE /\ retry' = [retry EXCEPT ![a] = TRUE]
           /\ backoff' = [backoff EXCEPT ![a] = Longer(backoff[a])]
  BY <1>1, <1>4 DEF ListenerTypeOK
<1> QED
  BY <1>2, <1>3, <1>4

\* The steps of an api's listener, and those of its process that it hears of.
Turns(a) == ListenerStep(a) \/ StartListener(a) \/ Stop(a) \/ Gone(a)

LEMMA TurnsKeepType ==
  ASSUME ListenerTypeOK, NEW a \in Apis, Turns(a)
  PROVE  ListenerTypeOK'
<1> USE ListenerAssumption DEF ListenerTypeOK, ConnectionStates
<1>1. CASE StartListener(a)
  BY <1>1 DEF StartListener, NoConnections
<1>2. CASE Reconnect(a)
  BY <1>2 DEF Reconnect, Becomes
<1>3. ASSUME NEW c \in Connections, Connect(a, c) \/ FailConnect(a, c)
      PROVE  ListenerTypeOK'
  <2>1. PICK state \in {"listening", "ending"} : Becomes(a, c, state)
    BY <1>3 DEF Connect, FailConnect
  <2>2. connection' \in [Apis -> [Connections -> ConnectionStates]]
    BY <2>1 DEF Becomes
  <2> QED
    BY <1>3, <2>2 DEF Connect, FailConnect
<1>4. ASSUME NEW c \in Connections, Listen(a, c)
      PROVE  ListenerTypeOK'
  BY <1>4 DEF Listen, Becomes
<1>5. ASSUME NEW c \in Connections, Lose(a, c)
      PROVE  ListenerTypeOK'
  BY <1>5, SchedulesKeepType DEF Lose, Becomes
<1>6. ASSUME NEW c \in Connections, Ended(a, c)
      PROVE  ListenerTypeOK'
  BY <1>6, SchedulesKeepType DEF Ended, Becomes
<1>7. CASE Stop(a)
  BY <1>7 DEF Stop
<1>8. CASE Gone(a)
  BY <1>8 DEF Gone, NoConnections
<1> QED
  BY <1>1, <1>2, <1>3, <1>4, <1>5, <1>6, <1>7, <1>8 DEF Turns, ListenerStep

LEMMA OneBecomes ==
  ASSUME ListenerTypeOK, NEW a \in Apis, NEW c \in Connections, NEW state, Becomes(a, c, state)
  PROVE  /\ connection'[a][c] = state
         /\ \A d \in Connections : d # c => connection'[a][d] = connection[a][d]
  BY DEF ListenerTypeOK, Becomes

LEMMA TurnsKeepListener ==
  ASSUME EndsAreQuick, ListenerInv, NEW a \in Apis, Turns(a)
  PROVE  ListenerInv'
<1> USE DEF ListenerInv
<1>1. ListenerTypeOK'
  BY TurnsKeepType
<1>2. ASSUME NEW b \in Apis, b # a
      PROVE  connection'[b] = connection[b] /\ client'[b] = client[b] /\ retry'[b] = retry[b]
  BY <1>2, SchedulesKeepType
     DEF Turns, ListenerStep, StartListener, Stop, Gone, Reconnect, Connect, Listen, FailConnect,
         Lose, Ended, Becomes, ListenerTypeOK
<1> DEFINE Alone == \A c, d \in Connections : Busy(a, c) /\ Busy(a, d) => c = d
<1> DEFINE Known == \A c \in Connections :
                      /\ connection[a][c] = "live" => client[a] = c
                      /\ retry[a] => connection[a][c] \in {"none", "ending"}
<1>3. Alone' /\ Known'
  <2>1. Alone /\ Known
    OBVIOUS
  <2> USE DEF Busy, ListenerTypeOK
  <2>2. CASE StartListener(a)
    BY <2>2 DEF StartListener, NoConnections
  <2>3. CASE Reconnect(a)
    BY <2>1, <2>3 DEF Reconnect, Becomes
  <2>4. ASSUME NEW c \in Connections, Connect(a, c) \/ FailConnect(a, c)
        PROVE  Alone' /\ Known'
    <3>1. PICK state \in {"listening", "ending"} : Becomes(a, c, state)
      BY <2>4 DEF Connect, FailConnect
    <3>2. /\ connection'[a][c] = state
          /\ \A d \in Connections : d # c => connection'[a][d] = connection[a][d]
      BY <3>1, OneBecomes
    <3>3. connection[a][c] = "connecting" /\ client' = client /\ retry' = retry
      BY <2>4 DEF Connect, FailConnect
    <3>4. \A d \in Connections : d # c => connection'[a][d] = "none"
      BY <2>1, <3>2, <3>3
    <3>5. ~retry[a]
      BY <2>1, <3>3
    <3> QED
      BY <3>2, <3>3, <3>4, <3>5
  <2>5. ASSUME NEW c \in Connections, Listen(a, c)
        PROVE  Alone' /\ Known'
    <3>1. /\ connection'[a][c] = "live"
          /\ \A d \in Connections : d # c => connection'[a][d] = connection[a][d]
      BY <2>5, OneBecomes DEF Listen
    <3>2. connection[a][c] = "listening" /\ client'[a] = c /\ retry' = retry
      BY <2>5 DEF Listen
    <3>3. \A d \in Connections : d # c => connection'[a][d] = "none"
      BY <2>1, <3>1, <3>2
    <3>4. ~retry[a]
      BY <2>1, <3>2
    <3> QED
      BY <3>1, <3>2, <3>3, <3>4
  <2>8. ASSUME NEW c \in Connections, Lose(a, c) \/ Ended(a, c)
        PROVE  Alone' /\ Known'
    <3>1. PICK state \in {"ending", "none"} : Becomes(a, c, state)
      BY <2>8 DEF Lose, Ended
    <3>2. /\ connection'[a][c] = state
          /\ \A d \in Connections : d # c => connection'[a][d] = connection[a][d]
      BY <3>1, OneBecomes
    <3>3. connection[a][c] # "none"
      BY <2>8 DEF Lose, Ended
    <3>4. \A d \in Connections : d # c => connection'[a][d] = "none"
      BY <2>1, <3>2, <3>3
    <3> QED
      BY <3>2, <3>4
  <2>6. CASE Stop(a)
    BY <2>1, <2>6, ListenerAssumption DEF Stop
  <2>7. CASE Gone(a)
    BY <2>7 DEF Gone, NoConnections
  <2> QED
    BY <2>2, <2>3, <2>4, <2>5, <2>6, <2>7, <2>8 DEF Turns, ListenerStep
<1> QED
  BY <1>1, <1>2, <1>3 DEF Busy

\* What a step of Service does to the variables of EventListener.
PostgresTurns ==
  /\ postgres' \in BOOLEAN
  /\ UNCHANGED <<connection, client, stopped, retry, backoff>>

LEMMA StepsTurn ==
  ASSUME [Next]_vars
  PROVE  UNCHANGED listenerVars \/ PostgresTurns \/ \E a \in Apis : Turns(a)
<1> USE ServiceAssumption DEF Turns
<1>1. ASSUME NEW s \in Services, Migrate(s) \/ Serve(s) \/ Request(s)
      PROVE  UNCHANGED listenerVars \/ \E a \in Apis : Turns(a)
  BY <1>1 DEF Migrate, Serve, Request, Accept, Answer, Abandon, FinishAbandoned
<1>2. ASSUME NEW s \in Services, Signal(s) \/ Release(s) \/ EndPool(s)
      PROVE  UNCHANGED listenerVars \/ \E a \in Apis : Turns(a)
  BY <1>2 DEF Signal, Release, EndPool
<1>3. ASSUME NEW s \in Services, Exit(s) \/ GiveUp(s) \/ Throw(s) \/ Crash(s)
      PROVE  UNCHANGED listenerVars \/ \E a \in Apis : Turns(a)
  BY <1>3 DEF Exit, GiveUp, Throw, Crash, Die
<1>4. ASSUME NEW a \in Apis, Listening(a) \/ Follow(a) \/ Unfollow(a)
      PROVE  UNCHANGED listenerVars \/ Turns(a)
  BY <1>4 DEF Listening, Follow, Unfollow
<1>5. CASE PostgresStops \/ PostgresStarts
  BY <1>5 DEF PostgresStops, PostgresStarts, PostgresTurns
<1>6. CASE UNCHANGED vars
  BY <1>6 DEF vars
<1> QED
  BY <1>1, <1>2, <1>3, <1>4, <1>5, <1>6 DEF Next, Stopping

LEMMA ListenerStarts == Init => ListenerInv
  BY ListenerAssumption
     DEF Init, ListenerInit, NoConnections, ListenerInv, ListenerTypeOK, ConnectionStates, Busy

LEMMA ListenerTypeHolds == Spec => []ListenerTypeOK
<1>1. Init => ListenerTypeOK
  BY ListenerStarts DEF ListenerInv
<1>2. ListenerTypeOK /\ [Next]_vars => ListenerTypeOK'
  <2> SUFFICES ASSUME ListenerTypeOK, [Next]_vars PROVE ListenerTypeOK'
    OBVIOUS
  <2>1. CASE UNCHANGED listenerVars \/ PostgresTurns
    BY <2>1 DEF listenerVars, PostgresTurns, ListenerTypeOK
  <2> QED
    BY <2>1, StepsTurn, TurnsKeepType
<1> QED
  BY <1>1, <1>2, PTL DEF Spec

LEMMA ListenerInvHolds ==
  ASSUME EndsAreQuick
  PROVE  Spec => []ListenerInv
<1>1. ListenerInv /\ [Next]_vars => ListenerInv'
  <2> SUFFICES ASSUME ListenerInv, [Next]_vars PROVE ListenerInv'
    OBVIOUS
  <2>1. CASE UNCHANGED listenerVars \/ PostgresTurns
    BY <2>1 DEF listenerVars, PostgresTurns, ListenerInv, ListenerTypeOK, Busy
  <2> QED
    BY <2>1, StepsTurn, TurnsKeepListener
<1> QED
  BY <1>1, ListenerStarts, PTL DEF Spec

\* Where a connection has ended before the backoff is over, an api has one connection at
\* most that notifications come on, and it is the one that stop() ends: whatever fails,
\* and however the error event and the exception of a lost connection follow each other.
THEOREM OneListenerHolds ==
  ASSUME EndsAreQuick
  PROVE  Spec => []OneListener
<1>1. ListenerInv => OneListener
  BY DEF ListenerInv, OneListener, Busy
<1> QED
  BY <1>1, ListenerInvHolds, PTL

-------------------------------------------------------------------------------
\* Requests: those whose clients have gone count as well, so that there are never more
\* than were accepted; and the drain lets none of the others down.

RequestsInv ==
  /\ requests \in [Services -> 0 .. MaxRequests]
  /\ abandoned \in [Services -> 0 .. MaxRequests]
  /\ following \in [Apis -> 0 .. MaxRequests]
  /\ \A s \in Services : requests[s] + abandoned[s] <= MaxRequests

LEMMA StepsKeepRequests ==
  ASSUME RequestsInv, [Next]_vars
  PROVE  RequestsInv'
<1> USE ServiceAssumption DEF RequestsInv
<1>1. ASSUME NEW s \in Services, Migrate(s) \/ Serve(s) \/ Signal(s) \/ Release(s) \/ EndPool(s)
      PROVE  UNCHANGED serverVars
  BY <1>1 DEF Migrate, Serve, Signal, Release, EndPool, serverVars
<1>2. ASSUME NEW s \in Services, Accept(s)
      PROVE  RequestsInv'
  BY <1>2 DEF Accept
<1>3. ASSUME NEW s \in Services, Answer(s)
      PROVE  RequestsInv'
  BY <1>3 DEF Answer
<1>4. ASSUME NEW s \in Services, Abandon(s)
      PROVE  RequestsInv'
  BY <1>4 DEF Abandon
<1>5. ASSUME NEW s \in Services, FinishAbandoned(s)
      PROVE  RequestsInv'
  BY <1>5 DEF FinishAbandoned
<1>6. ASSUME NEW s \in Services, Die(s)
      PROVE  RequestsInv'
  BY <1>6 DEF Die
<1>7. ASSUME NEW a \in Apis, Listening(a)
      PROVE  UNCHANGED serverVars
  BY <1>7 DEF Listening, serverVars
<1>8. ASSUME NEW a \in Apis, Follow(a) \/ Unfollow(a)
      PROVE  RequestsInv'
  BY <1>8 DEF Follow, Unfollow
<1>9. CASE PostgresStops \/ PostgresStarts \/ UNCHANGED vars
  BY <1>9 DEF PostgresStops, PostgresStarts, vars, serverVars
<1>10. UNCHANGED serverVars => RequestsInv'
  BY DEF serverVars
<1> QED
  BY <1>1, <1>2, <1>3, <1>4, <1>5, <1>6, <1>7, <1>8, <1>9, <1>10
     DEF Next, Request, Stopping, Exit, GiveUp, Throw, Crash

LEMMA RequestsInvHolds == Spec => []RequestsInv
<1>1. Init => RequestsInv
  BY ServiceAssumption DEF Init, RequestsInv
<1> QED
  BY <1>1, StepsKeepRequests, PTL DEF Spec

\* The variables of Service keep their types.
THEOREM ServiceTypeCorrect == Spec => []ServiceTypeOK
<1>1. MigrationsInv /\ ListenerTypeOK /\ RequestsInv => ServiceTypeOK
  BY DEF MigrationsInv, RequestsInv, ServiceTypeOK
<1> QED
  BY <1>1, MigrationsInvHolds, ListenerTypeHolds, RequestsInvHolds, PTL

\* What the drain leaves nothing of: nothing is accepted once it has begun.
LEMMA StepsCutNothing ==
  ASSUME MigrationsTypeOK, RequestsInv, NothingIsCut, [Next]_vars
  PROVE  NothingIsCut'
<1> USE DEF NothingIsCut
<1> DEFINE Ending(p) == p \in {"releasing", "released"}
<1> SUFFICES ASSUME NEW t \in Services, Ending(phase'[t])
             PROVE  requests'[t] = 0
  OBVIOUS
<1> USE DEF MigrationsTypeOK, RequestsInv
<1>1. ASSUME NEW s \in Services, Migrate(s) \/ Serve(s) \/ Signal(s)
      PROVE  requests' = requests /\ Ending(phase[t])
  BY <1>1 DEF Migrate, Serve, Signal, Goes, Start, Lock, ReadApplied, Apply, Fail, Unlock,
              serverVars
<1>2. ASSUME NEW s \in Services, Release(s)
      PROVE  requests'[t] = 0
  BY <1>2 DEF Release, Goes, Drained, serverVars
<1>3. ASSUME NEW s \in Services, EndPool(s)
      PROVE  requests'[t] = 0
  BY <1>3 DEF EndPool, Goes, serverVars
<1>4. ASSUME NEW s \in Services, Die(s)
      PROVE  requests'[t] = 0
  BY <1>4 DEF Die, End
<1>5. ASSUME NEW s \in Services, Request(s)
      PROVE  requests'[t] = 0
  BY <1>5 DEF Request, Accept, Answer, Abandon, FinishAbandoned, migrationVars
<1>6. ASSUME NEW a \in Apis, Listening(a) \/ Follow(a) \/ Unfollow(a)
      PROVE  requests' = requests /\ Ending(phase[t])
  BY <1>6 DEF Listening, Follow, Unfollow, migrationVars, serverVars
<1>7. CASE PostgresStops \/ PostgresStarts \/ UNCHANGED vars
  BY <1>7 DEF PostgresStops, PostgresStarts, vars, migrationVars, serverVars
<1> QED
  BY <1>1, <1>2, <1>3, <1>4, <1>5, <1>6, <1>7
     DEF Next, Stopping, Exit, GiveUp, Throw, Crash

\* Whatever a client waits for is answered before the listener is stopped and the pool
\* ended, for any number of requests; the only other way is the end of the process.
THEOREM NothingStaysCut == Spec => []NothingIsCut
<1>1. Init => NothingIsCut
  BY DEF Init, NothingIsCut
<1>2. MigrationsInv => MigrationsTypeOK
  BY DEF MigrationsInv
<1> QED
  BY <1>1, <1>2, StepsCutNothing, MigrationsInvHolds, RequestsInvHolds, PTL DEF Spec
===============================================================================
