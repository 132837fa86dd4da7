------------------------------ MODULE Migrations ------------------------------
(***************************************************************************)
(* The start of a service: whoever starts brings the schema up to its own  *)
(* version, and may meet others that do the same.                          *)
(*                                                                         *)
(*   packages/shared: runMigrations (db.ts), and the migrations/ it runs   *)
(*   apps:            the index.ts of each service, up to its first request*)
(*                                                                         *)
(* Migrations are numbered in the order of their names, and a service of   *)
(* version v comes with the first v of them. A migration and its row in    *)
(* schema_migrations are one transaction, so that what has been run is     *)
(* what has been recorded.                                                 *)
(***************************************************************************)
EXTENDS Integers, Sequences, Functions

CONSTANTS
  Services,   \* the processes that use the database
  Nobody,     \* holds the lock when none of them does
  Newest      \* the newest version

ASSUME MigrationsAssumption == Nobody \notin Services /\ Newest \in Nat

VARIABLES
  phase,      \* what each service is doing
  version,    \* the version of each, since it was last started
  applied,    \* the migrations that have been committed, in this order
  lock,       \* who holds the advisory lock
  todo        \* pending, at each service

migrationVars == <<phase, version, applied, lock, todo>>

Versions == 0 .. Newest
Migrating == {"locking", "reading", "applying", "failed"}
Serving == {"up", "draining", "releasing", "released"}
Phases == {"down"} \cup Migrating \cup Serving

MigrationsTypeOK ==
  /\ phase \in [Services -> Phases]
  /\ version \in [Services -> Versions]
  /\ applied \in Seq(1 .. Newest)
  /\ lock \in Services \cup {Nobody}
  /\ todo \in [Services -> SUBSET (1 .. Newest)]

MigrationsInit ==
  /\ phase = [s \in Services |-> "down"]
  /\ version = [s \in Services |-> 0]
  /\ applied = <<>>
  /\ lock = Nobody
  /\ todo = [s \in Services |-> {}]

-------------------------------------------------------------------------------
Start(s) ==
  /\ phase[s] = "down"
  /\ \E v \in Versions : version' = [version EXCEPT ![s] = v]
  /\ phase' = [phase EXCEPT ![s] = "locking"]
  /\ UNCHANGED <<applied, lock, todo>>

\* Variant: nobody waits for the lock.
Lock_AtOnce(s) ==
  /\ phase[s] = "locking"
  /\ lock' = s
  /\ phase' = [phase EXCEPT ![s] = "reading"]
  /\ UNCHANGED <<version, applied, todo>>

\* pg_advisory_lock waits for the session that has it.
Lock(s) ==
  /\ phase[s] = "locking" /\ lock = Nobody
  /\ lock' = s
  /\ phase' = [phase EXCEPT ![s] = "reading"]
  /\ UNCHANGED <<version, applied, todo>>

\* The table is there or is created, and what it says is compared with the files.
ReadApplied(s) ==
  /\ phase[s] = "reading"
  /\ todo' = [todo EXCEPT ![s] = (1 .. version[s]) \ Range(applied)]
  /\ phase' = [phase EXCEPT ![s] = "applying"]
  /\ UNCHANGED <<version, applied, lock>>

\* The first of the pending ones, and its row, whose key is there only once.
Apply(s) ==
  /\ phase[s] = "applying"
  /\ \E f \in todo[s] :
       /\ \A g \in todo[s] : f <= g
       /\ f \notin Range(applied)
       /\ applied' = Append(applied, f)
       /\ todo' = [todo EXCEPT ![s] = @ \ {f}]
  /\ UNCHANGED <<phase, version, lock>>

\* Variant: the failure is logged, and the service started.
Fail_Swallowed(s) ==
  /\ phase[s] = "applying"
  /\ todo' = [todo EXCEPT ![s] = {}]
  /\ UNCHANGED <<phase, version, applied, lock>>

\* A statement fails, and its transaction is rolled back.
Fail(s) ==
  /\ phase[s] \in {"locking", "reading", "applying"}
  /\ phase' = [phase EXCEPT ![s] = "failed"]
  /\ UNCHANGED <<version, applied, lock, todo>>

\* The lock after s has unlocked it, or its session has ended.
Unlocked(s) == IF lock = s THEN Nobody ELSE lock

\* Nothing is pending: the service starts.
Unlock(s) ==
  /\ phase[s] = "applying" /\ todo[s] = {}
  /\ lock' = Unlocked(s)
  /\ phase' = [phase EXCEPT ![s] = "up"]
  /\ UNCHANGED <<version, applied, todo>>

\* The process ends: after a failure by unlocking and throwing, in Service also in
\* other ways.
End(s) ==
  /\ phase' = [phase EXCEPT ![s] = "down"]
  /\ lock' = Unlocked(s)
  /\ todo' = [todo EXCEPT ![s] = {}]
  /\ UNCHANGED <<version, applied>>

-------------------------------------------------------------------------------
\* Whichever services start together, of whichever versions, and however often one
\* dies half-way: every migration is run once, after all those before it.
InOrder == \A i \in 1 .. Len(applied) : applied[i] = i

\* No service is about to run what another has run, which would end it.
PendingIsUnapplied ==
  \A s \in Services : phase[s] = "applying" => todo[s] \cap Range(applied) = {}

\* No service answers a request before the schema is one that it knows.
SchemaIsReady ==
  \A s \in Services : phase[s] \in Serving => 1 .. version[s] \subseteq Range(applied)

StartsAreSafe == InOrder /\ PendingIsUnapplied /\ SchemaIsReady
===============================================================================
