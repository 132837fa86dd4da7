--------------------------- MODULE BuildQueueProofs ---------------------------
(***************************************************************************)
(* Proofs about BuildQueue, for any number of deployments, workers,        *)
(* concurrent builds and attempts.                                         *)
(***************************************************************************)
EXTENDS BuildQueue, TLAPS

-------------------------------------------------------------------------------
\* The operators the actions are built from keep the types.

\* transitionDeployment writes a row of the table.
LEMMA TransitionType ==
  ASSUME TypeOK, NEW d, NEW from, NEW to \in DeploymentStatuses, NEW row,
         d \in Deployments => row \in Row,
         Transition(d, from, to, row)
  PROVE  rows' \in [Deployments -> Row]
<1>1. [row EXCEPT !.status = to] \in Row \/ d \notin Deployments
  BY DEF Row
<1> QED
  BY <1>1 DEF Transition, TypeOK

\* The row a requeue writes is a row.
LEMMA RequeuedType == ASSUME TypeOK, NEW d \in Deployments PROVE Requeued(d) \in Row
  BY DEF Requeued, TypeOK, Row

\* A claim leaves a table.
LEMMA ClaimedType == ASSUME TypeOK, NEW d \in Deployments PROVE Claimed(d) \in [Deployments -> Row]
<1>1. rows[d] \in Row
  BY DEF TypeOK
<1>2. Claimed(d) = [rows EXCEPT ![d] = [rows[d] EXCEPT !.status = "BUILDING",
                                                       !.started = "recent",
                                                       !.attempt = @ + 1]]
  BY DEF Claimed, TypeOK
<1>3. [rows[d] EXCEPT !.status = "BUILDING", !.started = "recent", !.attempt = @ + 1] \in Row
  <2>1. rows[d].attempt + 1 \in Nat
    BY <1>1 DEF Row
  <2>2. "BUILDING" \in DeploymentStatuses \cup {Absent}
    BY DEF DeploymentStatuses
  <2> QED
    BY <1>1, <2>1, <2>2 DEF Row
<1> QED
  BY <1>2, <1>3 DEF TypeOK

\* A slot that leaves idle or changes phase holds a build.
LEMMA EnterType ==
  ASSUME TypeOK, NEW s \in Slots, NEW from, NEW to \in Phases \ {"idle"},
         "idle" \notin from, Enter(s, from, to)
  PROVE  builds' \in [Slots -> Build]
<1>1. builds[s] \in [phase : Phases \ {"idle"}, dep : Deployments, attempt : Nat]
  BY DEF TypeOK, Build, NoBuild, Enter
<1>2. [builds[s] EXCEPT !.phase = to] \in Build
  BY <1>1 DEF Build
<1>3. builds' = [builds EXCEPT ![s] = [builds[s] EXCEPT !.phase = to]]
  BY DEF Enter, TypeOK
<1> QED
  BY <1>2, <1>3 DEF TypeOK

\* Entering a phase changes the phase of one slot and nothing else of it.
LEMMA EnterEffect ==
  ASSUME TypeOK, NEW s \in Slots, NEW from, NEW to, Enter(s, from, to)
  PROVE  /\ builds[s].phase \in from
         /\ builds'[s].phase = to
         /\ builds'[s].dep = builds[s].dep
         /\ builds'[s].attempt = builds[s].attempt
         /\ \A t \in Slots \ {s} : builds'[t] = builds[t]
<1>1. builds[s] \in [phase : Phases, dep : Deployments \cup {NoDeployment}, attempt : Nat]
  BY DEF TypeOK, Build, NoBuild, Phases
<1>2. builds' = [builds EXCEPT ![s] = [builds[s] EXCEPT !.phase = to]]
  BY DEF Enter, TypeOK
<1>3. builds'[s] = [builds[s] EXCEPT !.phase = to]
  BY <1>2 DEF TypeOK
<1> QED
  BY <1>1, <1>2, <1>3 DEF Enter

\* A slot with a build has a deployment.
LEMMA BusySlot ==
  ASSUME TypeOK, NEW s \in Slots, builds[s].phase # "idle"
  PROVE  builds[s] \in [phase : Phases \ {"idle"}, dep : Deployments, attempt : Nat]
  BY DEF TypeOK, Build, NoBuild

\* What a sweep reads is made of deployments and attempts.
LEMMA StaleRowsType == TypeOK => StaleRows \subseteq Deployments \X Nat
  BY DEF TypeOK, StaleRows, Row

LEMMA NoBuildType == NoBuild \in Build
  BY DEF Build

-------------------------------------------------------------------------------
\* Type correctness.

LEMMA InitType == Init => TypeOK
  BY NoBuildType DEF Init, TypeOK, NoRow, Row, WorkerStates

LEMMA ApiType == ASSUME TypeOK, NEW d \in Deployments, ApiStep(d) PROVE TypeOK'
<1>0. rows[d] \in Row
  BY DEF TypeOK
<1>1. CASE Submit(d)
  <2>1. [NoRow EXCEPT !.status = "QUEUED"] \in Row
    BY DEF NoRow, Row, DeploymentStatuses
  <2> QED
    BY <1>1, <2>1 DEF Submit, TypeOK
<1>2. CASE Cancel(d)
  <2>1. rows' \in [Deployments -> Row]
    BY <1>2, <1>0, TransitionType DEF Cancel, DeploymentStatuses
  <2> QED
    BY <1>2, <2>1 DEF Cancel, TypeOK
<1>3. CASE Retry(d)
  <2>1. [rows[d] EXCEPT !.attempt = 0, !.started = "never", !.waiting = FALSE] \in Row
    BY <1>0 DEF Row
  <2>2. rows' \in [Deployments -> Row]
    BY <1>3, <2>1, TransitionType DEF Retry, DeploymentStatuses
  <2> QED
    BY <1>3, <2>2 DEF Retry, TypeOK
<1>4. CASE MarkExpired(d)
  <2>1. rows' \in [Deployments -> Row]
    BY <1>4, <1>0, TransitionType DEF MarkExpired, DeploymentStatuses
  <2> QED
    BY <1>4, <2>1 DEF MarkExpired, TypeOK
<1> QED
  BY <1>1, <1>2, <1>3, <1>4 DEF ApiStep

LEMMA TimeType == ASSUME TypeOK, NEW d \in Deployments, TimeStep(d) PROVE TypeOK'
<1>0. rows[d] \in Row
  BY DEF TypeOK
<1>1. CASE GrowStale(d)
  <2>1. [rows[d] EXCEPT !.started = "old"] \in Row
    BY <1>0 DEF Row
  <2>2. rows' = [rows EXCEPT ![d] = [rows[d] EXCEPT !.started = "old"]]
    BY <1>1 DEF GrowStale, TypeOK
  <2> QED
    BY <1>1, <2>1, <2>2 DEF GrowStale, TypeOK
<1>2. CASE WaitOver(d)
  <2>1. [rows[d] EXCEPT !.waiting = FALSE] \in Row
    BY <1>0 DEF Row
  <2>2. rows' = [rows EXCEPT ![d] = [rows[d] EXCEPT !.waiting = FALSE]]
    BY <1>2 DEF WaitOver, TypeOK
  <2> QED
    BY <1>2, <2>1, <2>2 DEF WaitOver, TypeOK
<1> QED
  BY <1>1, <1>2 DEF TimeStep

LEMMA ClaimType == ASSUME TypeOK, NEW s \in Slots, ClaimStep(s) PROVE TypeOK'
<1>1. ASSUME NEW d \in Deployments, LockOldest(s, d) PROVE TypeOK'
  <2>1. [NoBuild EXCEPT !.phase = "claiming", !.dep = d] \in Build
    BY DEF NoBuild, Build, Phases
  <2> QED
    BY <1>1, <2>1 DEF LockOldest, TypeOK
<1>2. CASE CommitClaim(s)
  <2>1. builds[s].dep \in Deployments
    BY <1>2, BusySlot DEF CommitClaim
  <2>2. [phase |-> "preparing", dep |-> builds[s].dep,
         attempt |-> rows[builds[s].dep].attempt + 1] \in Build
    BY <2>1 DEF Build, Phases, TypeOK, Row
  <2> QED
    BY <1>2, <2>1, <2>2, ClaimedType DEF CommitClaim, TypeOK
<1>3. CASE LoseClaim(s)
  <2>1. builds[s].dep \in Deployments
    BY <1>3, BusySlot DEF LoseClaim
  <2> QED
    BY <1>3, <2>1, ClaimedType, NoBuildType DEF LoseClaim, TypeOK
<1>4. CASE DropClaim(s)
  BY <1>4, NoBuildType DEF DropClaim, TypeOK
<1> QED
  BY <1>1, <1>2, <1>3, <1>4 DEF ClaimStep

LEMMA BuildType == ASSUME TypeOK, NEW s \in Slots, BuildStep(s) PROVE TypeOK'
<1> DEFINE d == builds[s].dep
<1>0. d \in Deployments => rows[d] \in Row /\ Requeued(d) \in Row
  BY RequeuedType DEF TypeOK
<1>1. CASE Prepare(s) \/ Reject(s) \/ Break(s) \/ Announce(s) \/ FailToRecord(s)
  <2>1. builds' \in [Slots -> Build]
    BY <1>1, EnterType DEF Prepare, Reject, Break, Announce, FailToRecord, Phases
  <2> QED
    BY <1>1, <2>1 DEF Prepare, Reject, Break, Announce, FailToRecord, TypeOK
<1>2. CASE Publish(s)
  <2>1. builds' \in [Slots -> Build]
    BY <1>2, EnterType DEF Publish, Phases
  <2>2. rows' \in [Deployments -> Row]
    BY <1>2, <1>0, TransitionType DEF Publish, DeploymentStatuses
  <2> QED
    BY <1>2, <2>1, <2>2 DEF Publish, TypeOK
<1>3. CASE RecordRejection(s)
  <2>1. builds' \in [Slots -> Build]
    BY <1>3, EnterType DEF RecordRejection, Phases
  <2>2. rows' \in [Deployments -> Row]
    BY <1>3, <1>0, TransitionType DEF RecordRejection, DeploymentStatuses
  <2> QED
    BY <1>3, <2>1, <2>2 DEF RecordRejection, TypeOK
<1>4. CASE RecordSystemError(s)
  <2>1. builds' \in [Slots -> Build]
    BY <1>4, EnterType DEF RecordSystemError, Phases
  <2>2. rows' \in [Deployments -> Row]
    BY <1>4, <1>0, TransitionType DEF RecordSystemError, DeploymentStatuses
  <2> QED
    BY <1>4, <2>1, <2>2 DEF RecordSystemError, TypeOK
<1>5. CASE Finish(s)
  BY <1>5, NoBuildType DEF Finish, TypeOK
<1> QED
  BY <1>1, <1>2, <1>3, <1>4, <1>5 DEF BuildStep

LEMMA SweepType == ASSUME TypeOK, NEW w \in Workers, SweepStep(w) PROVE TypeOK'
<1>1. CASE BeginSweep(w)
  BY <1>1, StaleRowsType DEF BeginSweep, TypeOK
<1>2. CASE AbortSweep(w)
  BY <1>2 DEF AbortSweep, TypeOK
<1>3. ASSUME NEW p \in sweeps[w], SweepRow(w, p) PROVE TypeOK'
  <2>1. p[1] \in Deployments
    BY DEF TypeOK
  <2>2. rows[p[1]] \in Row /\ Requeued(p[1]) \in Row
    BY <2>1, RequeuedType DEF TypeOK
  <2>3. rows' \in [Deployments -> Row]
    BY <1>3, <2>2, TransitionType DEF SweepRow, DeploymentStatuses
  <2> QED
    BY <1>3, <2>3 DEF SweepRow, TypeOK
<1> QED
  BY <1>1, <1>2, <1>3 DEF SweepStep

LEMMA ProcessType == ASSUME TypeOK, NEW w \in Workers, ProcessStep(w) PROVE TypeOK'
<1>1. CASE Start(w)
  BY <1>1, StaleRowsType DEF Start, TypeOK, WorkerStates
<1>2. CASE OpenPolling(w) \/ Stop(w)
  BY <1>2 DEF OpenPolling, Stop, TypeOK, WorkerStates
<1>3. CASE Exit(w)
  BY <1>3 DEF Exit, TypeOK, WorkerStates
<1>4. CASE Crash(w)
  BY <1>4, NoBuildType DEF Crash, TypeOK, WorkerStates
<1> QED
  BY <1>1, <1>2, <1>3, <1>4 DEF ProcessStep

LEMMA NextType == TypeOK /\ [Next]_vars => TypeOK'
<1>1. TypeOK /\ Next => TypeOK'
  BY ApiType, TimeType, ClaimType, BuildType, SweepType, ProcessType DEF Next
<1>2. TypeOK /\ UNCHANGED vars => TypeOK'
  BY DEF TypeOK, vars
<1> QED
  BY <1>1, <1>2

\* The state of the queue has its type in every reachable state, whatever the
\* workers, users and failures do.
THEOREM TypeCorrect == Spec => []TypeOK
  BY InitType, NextType, PTL DEF Spec

-------------------------------------------------------------------------------
\* Claims are exclusive.

\* A transition touches one row, and only from the statuses it names.
LEMMA TransitionEffect ==
  ASSUME TypeOK, NEW d, NEW from, NEW to, NEW row, Transition(d, from, to, row)
  PROVE  /\ \A e \in Deployments \ {d} : rows'[e] = rows[e]
         /\ rows[d].status \notin from => rows' = rows
         /\ d \in Deployments /\ rows' # rows =>
              /\ rows[d].status \in from
              /\ CanTransition(rows[d].status, to)
              /\ rows'[d] = [row EXCEPT !.status = to]
  BY DEF Transition, TypeOK

\* No action of a build or a sweep moves a queued row.
LEMMA QueuedRowsStay ==
  ASSUME TypeOK, NEW e \in Deployments, rows[e].status = "QUEUED",
         \/ \E s \in Slots : BuildStep(s)
         \/ \E w \in Workers : SweepStep(w) \/ ProcessStep(w)
  PROVE  rows'[e] = rows[e]
<1>1. ASSUME NEW s \in Slots, BuildStep(s) PROVE rows'[e] = rows[e]
  BY <1>1, TransitionEffect
     DEF BuildStep, Prepare, Reject, Break, Publish, Announce, RecordRejection,
         RecordSystemError, FailToRecord, Finish, Transition, TypeOK
<1>2. ASSUME NEW w \in Workers, SweepStep(w) PROVE rows'[e] = rows[e]
  BY <1>2 DEF SweepStep, BeginSweep, SweepRow, AbortSweep, Transition, TypeOK
<1>3. ASSUME NEW w \in Workers, ProcessStep(w) PROVE rows'[e] = rows[e]
  BY <1>3 DEF ProcessStep, Start, OpenPolling, Stop, Exit, Crash
<1> QED
  BY <1>1, <1>2, <1>3

\* Which slots are claiming after a step of the builds, sweeps or processes.
LEMMA NoNewClaims ==
  ASSUME TypeOK, NEW t \in Slots, builds'[t].phase = "claiming",
         \/ \E s \in Slots : BuildStep(s)
         \/ \E w \in Workers : SweepStep(w) \/ ProcessStep(w)
  PROVE  builds'[t] = builds[t]
<1>1. ASSUME NEW s \in Slots, BuildStep(s) PROVE builds'[t] = builds[t]
  <2>1. CASE t # s
    BY <1>1, <2>1, EnterEffect
       DEF BuildStep, Prepare, Reject, Break, Publish, Announce, RecordRejection,
           RecordSystemError, FailToRecord, Finish, TypeOK
  <2>2. CASE Finish(t)
    BY <2>2 DEF Finish, NoBuild, TypeOK
  <2>3. CASE t = s /\ ~Finish(t)
    BY <1>1, <2>3, EnterEffect
       DEF BuildStep, Prepare, Reject, Break, Publish, Announce, RecordRejection,
           RecordSystemError, FailToRecord
  <2> QED
    BY <2>1, <2>2, <2>3
<1>2. ASSUME NEW w \in Workers, SweepStep(w) PROVE builds'[t] = builds[t]
  BY <1>2 DEF SweepStep, BeginSweep, SweepRow, AbortSweep
<1>3. ASSUME NEW w \in Workers, ProcessStep(w) PROVE builds'[t] = builds[t]
  BY <1>3 DEF ProcessStep, Start, OpenPolling, Stop, Exit, Crash, NoBuild
<1> QED
  BY <1>1, <1>2, <1>3

LEMMA InitClaims == Init => ClaimsAreExclusive
  BY DEF Init, ClaimsAreExclusive, NoBuild

LEMMA NextClaims == TypeOK /\ ClaimsAreExclusive /\ [Next]_vars => ClaimsAreExclusive'
<1> SUFFICES ASSUME TypeOK, ClaimsAreExclusive, [Next]_vars PROVE ClaimsAreExclusive'
  OBVIOUS
<1>0. \A s \in Slots : builds[s].phase = "claiming" => builds[s].dep \in Deployments
  BY BusySlot
<1>1. ASSUME NEW d \in Deployments, ApiStep(d) PROVE ClaimsAreExclusive'
  <2>1. \A s \in Slots : builds[s].phase = "claiming" => rows'[builds[s].dep] = rows[builds[s].dep]
    BY <1>1, <1>0
       DEF ApiStep, Submit, Cancel, Retry, MarkExpired, Transition, Locked, Expirable,
           ClaimsAreExclusive, TypeOK, Absent
  <2>2. builds' = builds
    BY <1>1 DEF ApiStep, Submit, Cancel, Retry, MarkExpired
  <2> QED
    BY <2>1, <2>2 DEF ClaimsAreExclusive
<1>2. ASSUME NEW d \in Deployments, TimeStep(d) PROVE ClaimsAreExclusive'
  BY <1>2, <1>0 DEF TimeStep, GrowStale, WaitOver, ClaimsAreExclusive, TypeOK, Row
<1>3. ASSUME NEW s \in Slots, ClaimStep(s) PROVE ClaimsAreExclusive'
  <2>1. ASSUME NEW d \in Deployments, LockOldest(s, d) PROVE ClaimsAreExclusive'
    BY <2>1, <1>0 DEF LockOldest, Locked, Available, NoBuild, ClaimsAreExclusive, TypeOK
  <2>2. CASE CommitClaim(s) \/ LoseClaim(s)
    <3>1. \A t \in Slots \ {s} : builds'[t] = builds[t]
      BY <2>2 DEF CommitClaim, LoseClaim, TypeOK
    <3>2. builds[s].phase = "claiming" /\ builds'[s].phase # "claiming"
      BY <2>2 DEF CommitClaim, LoseClaim, NoBuild, TypeOK
    <3>3. \A e \in Deployments \ {builds[s].dep} : rows'[e] = rows[e]
      BY <2>2 DEF CommitClaim, LoseClaim, Claimed, TypeOK
    <3> QED
      BY <3>1, <3>2, <3>3, <1>0 DEF ClaimsAreExclusive
  <2>3. CASE DropClaim(s)
    BY <2>3 DEF DropClaim, NoBuild, ClaimsAreExclusive, TypeOK
  <2> QED
    BY <1>3, <2>1, <2>2, <2>3 DEF ClaimStep
<1>4. CASE \/ \E s \in Slots : BuildStep(s)
           \/ \E w \in Workers : SweepStep(w) \/ ProcessStep(w)
  BY <1>4, <1>0, QueuedRowsStay, NoNewClaims DEF ClaimsAreExclusive
<1>5. CASE UNCHANGED vars
  BY <1>5 DEF vars, ClaimsAreExclusive
<1> QED
  BY <1>1, <1>2, <1>3, <1>4, <1>5 DEF Next

\* No two workers ever claim the same row, and no row is claimed that has left
\* the queue (claim.ts, FOR UPDATE SKIP LOCKED).
THEOREM ClaimsExclusive == Spec => []ClaimsAreExclusive
<1>1. Init => TypeOK /\ ClaimsAreExclusive
  BY InitType, InitClaims
<1>2. TypeOK /\ ClaimsAreExclusive /\ [Next]_vars => (TypeOK /\ ClaimsAreExclusive)'
  BY NextType, NextClaims
<1> QED
  BY <1>1, <1>2, PTL DEF Spec

-------------------------------------------------------------------------------
\* Rows move legally.

LEMMA NextMoves ==
  ASSUME TypeOK, ClaimsAreExclusive, [Next]_vars, NEW e \in Deployments
  PROVE  /\ rows'[e].status # rows[e].status =>
              \/ CanTransition(rows[e].status, rows'[e].status)
              \/ rows[e].status = Absent /\ rows'[e].status = "QUEUED"
         /\ rows[e].status = "EXPIRED" => rows'[e] = rows[e]
<1> DEFINE Legal == /\ rows'[e].status # rows[e].status =>
                         \/ CanTransition(rows[e].status, rows'[e].status)
                         \/ rows[e].status = Absent /\ rows'[e].status = "QUEUED"
                    /\ rows[e].status = "EXPIRED" => rows'[e] = rows[e]
<1>0. rows[e] \in Row
  BY DEF TypeOK
\* A transition whose columns come from a row is legal.
<1>1. ASSUME NEW d, NEW from, NEW to, NEW row, Transition(d, from, to, row),
             d \in Deployments => row \in Row, "EXPIRED" \notin from
      PROVE  Legal
  <2>1. CASE e # d \/ rows' = rows
    BY <1>1, <2>1 DEF Transition, TypeOK
  <2>2. CASE e = d /\ rows[d].status \in from /\ CanTransition(rows[d].status, to)
                 /\ rows' = [rows EXCEPT ![d] = [row EXCEPT !.status = to]]
    <3>1. rows'[e] = [row EXCEPT !.status = to]
      BY <2>2 DEF TypeOK
    <3>2. rows'[e].status = to
      BY <1>1, <2>2, <3>1 DEF Row
    <3> QED
      BY <1>1, <2>2, <3>2
  <2> QED
    BY <1>1, <2>1, <2>2 DEF Transition
<1>2. ASSUME NEW d \in Deployments, ApiStep(d) PROVE Legal
  <2>1. CASE Submit(d)
    BY <2>1, <1>0 DEF Submit, NoRow, TypeOK, Absent
  <2>2. rows[d] \in Row /\ [rows[d] EXCEPT !.attempt = 0, !.started = "never", !.waiting = FALSE] \in Row
    BY DEF TypeOK, Row
  <2>3. CASE Cancel(d) \/ Retry(d) \/ MarkExpired(d)
    BY <2>2, <2>3, <1>1 DEF Cancel, Retry, MarkExpired, Expirable
  <2> QED
    BY <1>2, <2>1, <2>3 DEF ApiStep
<1>3. ASSUME NEW d \in Deployments, TimeStep(d) PROVE Legal
  BY <1>3, <1>0 DEF TimeStep, GrowStale, WaitOver, TypeOK, Row
<1>4. ASSUME NEW s \in Slots, ClaimStep(s) PROVE Legal
  <2>1. CASE CommitClaim(s) \/ LoseClaim(s)
    <3>1. rows[builds[s].dep].status = "QUEUED" /\ builds[s].dep \in Deployments
      BY <2>1, BusySlot DEF CommitClaim, LoseClaim, ClaimsAreExclusive
    <3>2. CanTransition("QUEUED", "BUILDING")
      BY DEF CanTransition, ValidTransitions
    <3> QED
      BY <2>1, <3>1, <3>2, <1>0 DEF CommitClaim, LoseClaim, Claimed, TypeOK, Row
  <2>2. CASE DropClaim(s) \/ \E d \in Deployments : LockOldest(s, d)
    BY <2>2 DEF DropClaim, LockOldest
  <2> QED
    BY <1>4, <2>1, <2>2 DEF ClaimStep
<1>5. ASSUME NEW s \in Slots, BuildStep(s) PROVE Legal
  <2>1. builds[s].dep \in Deployments =>
          rows[builds[s].dep] \in Row /\ Requeued(builds[s].dep) \in Row
    BY RequeuedType DEF TypeOK
  <2>2. CASE Publish(s) \/ RecordRejection(s) \/ RecordSystemError(s)
    BY <2>1, <2>2, <1>1 DEF Publish, RecordRejection, RecordSystemError
  <2> QED
    BY <1>5, <2>2 DEF BuildStep, Prepare, Reject, Break, Announce, FailToRecord, Finish
<1>6. ASSUME NEW w \in Workers, SweepStep(w) PROVE Legal
  <2>1. ASSUME NEW p \in sweeps[w], SweepRow(w, p) PROVE Legal
    <3>1. rows[p[1]] \in Row /\ Requeued(p[1]) \in Row
      BY RequeuedType DEF TypeOK
    <3> QED
      BY <2>1, <3>1, <1>1 DEF SweepRow
  <2> QED
    BY <1>6, <2>1 DEF SweepStep, BeginSweep, AbortSweep
<1>7. ASSUME NEW w \in Workers, ProcessStep(w) PROVE Legal
  BY <1>7 DEF ProcessStep, Start, OpenPolling, Stop, Exit, Crash
<1>8. CASE UNCHANGED vars
  BY <1>8 DEF vars
<1> QED
  BY <1>2, <1>3, <1>4, <1>5, <1>6, <1>7, <1>8 DEF Next

\* Every change of a row's status is one VALID_TRANSITIONS allows, the claim's
\* raw SQL included, and nothing happens to an expired row.
THEOREM MovesAreLegal == Spec => RowsMoveLegally
<1>1. TypeOK /\ ClaimsAreExclusive /\ [Next]_vars =>
        [\A d \in Deployments :
           /\ rows'[d].status # rows[d].status =>
                \/ CanTransition(rows[d].status, rows'[d].status)
                \/ rows[d].status = Absent /\ rows'[d].status = "QUEUED"
           /\ rows[d].status = "EXPIRED" => rows'[d] = rows[d]]_vars
  BY NextMoves
<1> QED
  BY <1>1, TypeCorrect, ClaimsExclusive, PTL DEF Spec, RowsMoveLegally

-------------------------------------------------------------------------------
(***************************************************************************)
(* The promises that need builds to be bounded and sweeps to be prompt.    *)
(* Ownership is what makes them inductive: a verdict is written under the  *)
(* status alone, so it must be known that the row is still the build's.    *)
(***************************************************************************)
Punctual == BuildsAreBounded /\ SweepsArePrompt

QueueInv == TypeOK /\ ClaimsAreExclusive /\ AttemptsWithinLimit /\ Ownership

\* Steps that leave the table alone: a slot stays as it is, lets go of its row,
\* or moves on towards its verdict; a sweep forgets rows or reads stale ones.
LEMMA QuietSteps ==
  ASSUME QueueInv,
         rows' = rows,
         \A s \in Slots :
           \/ builds'[s] = builds[s]
           \/ ~Owning(s)' /\ builds'[s].phase # "claiming"
           \/ /\ Owning(s)
              /\ builds'[s].phase \in {"uploading", "rejected", "broken"}
              /\ builds'[s].phase # "broken" => builds[s].phase = "preparing"
              /\ builds'[s].dep = builds[s].dep
              /\ builds'[s].attempt = builds[s].attempt,
         \A w \in Workers : sweeps'[w] \subseteq sweeps[w] \cup StaleRows
  PROVE  Ownership'
<1> USE DEF QueueInv, Ownership
<1>1. \A s \in Slots : Owning(s)' =>
        Owning(s) /\ builds'[s].dep = builds[s].dep /\ builds'[s].attempt = builds[s].attempt
  BY DEF Owning, Live
<1>2. BuildsOwnTheirRows'
  BY <1>1 DEF BuildsOwnTheirRows, Owning, Live
<1>3. OwnersAreAlone'
  BY <1>1 DEF OwnersAreAlone
<1>4. \A d \in Deployments : BeingBuilt(d)' /\ rows[d].status = "BUILDING" => BeingBuilt(d)
  BY <1>1 DEF BeingBuilt, BuildsOwnTheirRows, Owning, Live
<1>5. StaleRowsAreUnattended'
  BY <1>4 DEF StaleRowsAreUnattended
<1>6. SweepsKnowTheirRows'
  <2> SUFFICES ASSUME NEW w \in Workers, NEW p \in sweeps'[w], rows[p[1]].status = "BUILDING"
               PROVE  rows[p[1]].attempt = p[2] /\ ~BeingBuilt(p[1])'
    BY DEF SweepsKnowTheirRows
  <2>1. CASE p \in sweeps[w]
    <3>1. p[1] \in Deployments
      BY <2>1 DEF TypeOK
    <3> QED
      BY <2>1, <3>1, <1>4 DEF SweepsKnowTheirRows
  <2>2. CASE p \in StaleRows
    BY <2>2, <1>4 DEF StaleRows, StaleRowsAreUnattended
  <2> QED
    BY <2>1, <2>2
<1>7. ClaimedRowsAreUnswept'
  <2> SUFFICES ASSUME NEW s \in Slots, builds'[s].phase = "claiming",
                      NEW w \in Workers, NEW p \in sweeps'[w], p[1] = builds'[s].dep
               PROVE  FALSE
    BY DEF ClaimedRowsAreUnswept, SweepHolds
  <2>1. builds'[s] = builds[s]
    BY DEF Owning, Live
  <2>2. p \notin StaleRows
    BY <2>1 DEF ClaimsAreExclusive, StaleRows
  <2> QED
    BY <2>1, <2>2 DEF ClaimedRowsAreUnswept, SweepHolds
<1> QED
  BY <1>2, <1>3, <1>5, <1>6, <1>7

\* Steps on a row that nobody builds and that no step leaves in BUILDING.
LEMMA IdleRowSteps ==
  ASSUME QueueInv, NEW d \in Deployments,
         builds' = builds, sweeps' = sweeps,
         \A e \in Deployments \ {d} : rows'[e] = rows[e],
         rows[d].status # "BUILDING", rows'[d].status # "BUILDING",
         rows[d].status \in {"READY", "EXPIRED"} => rows'[d].status \in {"READY", "EXPIRED"}
  PROVE  Ownership'
<1> USE DEF QueueInv, Ownership
<1>1. \A s \in Slots : Owning(s) => builds[s].dep \in Deployments
  BY BusySlot DEF Owning, Live
<1>2. BuildsOwnTheirRows'
  BY <1>1 DEF BuildsOwnTheirRows, Owning, Live
<1>3. OwnersAreAlone'
  BY DEF OwnersAreAlone, Owning, Live
<1>4. StaleRowsAreUnattended'
  BY DEF StaleRowsAreUnattended, BeingBuilt, Live
<1>5. SweepsKnowTheirRows'
  BY DEF SweepsKnowTheirRows, BeingBuilt, Live, TypeOK
<1>6. ClaimedRowsAreUnswept'
  BY DEF ClaimedRowsAreUnswept, SweepHolds
<1> QED
  BY <1>2, <1>3, <1>4, <1>5, <1>6

\* The api and the clock.
LEMMA ApiKeeps == ASSUME QueueInv, NEW d \in Deployments, ApiStep(d)
                  PROVE  Ownership' /\ AttemptsWithinLimit'
<1> USE DEF QueueInv
<1>0. rows[d] \in Row
  BY DEF TypeOK
<1>1. builds' = builds /\ sweeps' = sweeps
  BY DEF ApiStep, Submit, Cancel, Retry, MarkExpired
<1>2. \A e \in Deployments \ {d} : rows'[e] = rows[e]
  BY DEF ApiStep, Submit, Cancel, Retry, MarkExpired, Transition, TypeOK
<1>3. CASE Submit(d)
  <2>1. rows[d].status = Absent /\ rows'[d] = [NoRow EXCEPT !.status = "QUEUED"]
    BY <1>3 DEF Submit, TypeOK
  <2>2. Ownership'
    BY <2>1, <1>1, <1>2, IdleRowSteps DEF Absent, NoRow
  <2> QED
    BY <2>1, <2>2, <1>2, BuildQueueAssumption DEF NoRow, AttemptsWithinLimit
<1>4. CASE Cancel(d)
  <2>1. rows[d].status = "QUEUED" /\ (rows' = rows \/ rows'[d] = [rows[d] EXCEPT !.status = "CANCELLED"])
    BY <1>4 DEF Cancel, Transition, TypeOK
  <2>2. rows'[d].status \in {"QUEUED", "CANCELLED"} /\ rows'[d].attempt = rows[d].attempt
    BY <2>1, <1>0 DEF Row
  <2>3. Ownership'
    BY <2>1, <2>2, <1>1, <1>2, IdleRowSteps
  <2> QED
    BY <2>1, <2>2, <2>3, <1>2 DEF AttemptsWithinLimit
<1>5. CASE Retry(d)
  <2> DEFINE fresh == [rows[d] EXCEPT !.attempt = 0, !.started = "never", !.waiting = FALSE]
  <2>1. rows[d].status \in {"FAILED", "CANCELLED"} /\ (rows' = rows \/ rows'[d] = [fresh EXCEPT !.status = "QUEUED"])
    BY <1>5 DEF Retry, Transition, TypeOK
  <2>2. \/ rows' = rows
        \/ rows'[d].status = "QUEUED" /\ rows'[d].attempt = 0
    BY <2>1, <1>0 DEF Row
  <2>3. Ownership'
    BY <2>1, <2>2, <1>1, <1>2, IdleRowSteps
  <2> QED
    BY <2>2, <2>3, <1>2, BuildQueueAssumption DEF AttemptsWithinLimit
<1>6. CASE MarkExpired(d)
  <2>1. rows[d].status \in Expirable /\ (rows' = rows \/ rows'[d] = [rows[d] EXCEPT !.status = "EXPIRED"])
    BY <1>6 DEF MarkExpired, Transition, TypeOK
  <2>2. \/ rows' = rows
        \/ rows'[d].status = "EXPIRED" /\ rows'[d].attempt = rows[d].attempt
    BY <2>1, <1>0 DEF Row
  <2>3. Ownership'
    BY <2>1, <2>2, <1>1, <1>2, IdleRowSteps DEF Expirable
  <2> QED
    BY <2>2, <2>3, <1>2 DEF AttemptsWithinLimit
<1> QED
  BY <1>3, <1>4, <1>5, <1>6 DEF ApiStep

LEMMA TimeKeeps == ASSUME QueueInv, Punctual, NEW d \in Deployments, TimeStep(d)
                   PROVE  Ownership' /\ AttemptsWithinLimit'
<1> USE DEF QueueInv
<1>0. rows[d] \in Row
  BY DEF TypeOK
<1>1. builds' = builds /\ sweeps' = sweeps
  BY DEF TimeStep, GrowStale, WaitOver
<1>2. \A e \in Deployments \ {d} : rows'[e] = rows[e]
  BY DEF TimeStep, GrowStale, WaitOver, TypeOK
<1>3. rows'[d].status = rows[d].status /\ rows'[d].attempt = rows[d].attempt
  BY <1>0 DEF TimeStep, GrowStale, WaitOver, TypeOK, Row
<1>4. AttemptsWithinLimit'
  BY <1>2, <1>3 DEF AttemptsWithinLimit
<1>5. CASE WaitOver(d)
  <2>1. rows[d].status = "QUEUED"
    BY <1>5 DEF WaitOver
  <2> QED
    BY <1>1, <1>2, <1>3, <1>4, <2>1, IdleRowSteps
<1>6. CASE GrowStale(d)
  <2>1. ~BeingBuilt(d)
    BY <1>6 DEF GrowStale, Punctual
  <2>2. \A e \in Deployments : rows'[e].status = rows[e].status /\ rows'[e].attempt = rows[e].attempt
    BY <1>2, <1>3
  <2>3. BuildsOwnTheirRows'
    BY <1>1, <2>2, BusySlot DEF Ownership, BuildsOwnTheirRows, Owning, Live
  <2>4. StaleRowsAreUnattended'
    BY <1>1, <1>2, <2>1, <2>2 DEF Ownership, StaleRowsAreUnattended, BeingBuilt, Live
  <2>5. SweepsKnowTheirRows'
    BY <1>1, <2>2 DEF Ownership, SweepsKnowTheirRows, BeingBuilt, Live, TypeOK
  <2>6. OwnersAreAlone' /\ ClaimedRowsAreUnswept'
    BY <1>1 DEF Ownership, OwnersAreAlone, Owning, Live, ClaimedRowsAreUnswept, SweepHolds
  <2> QED
    BY <1>4, <2>3, <2>4, <2>5, <2>6 DEF Ownership
<1> QED
  BY <1>5, <1>6 DEF TimeStep

\* Nobody owns a row that is being claimed.
LEMMA ClaimedRowIsFree ==
  ASSUME QueueInv, NEW s \in Slots, builds[s].phase = "claiming"
  PROVE  /\ builds[s].dep \in Deployments
         /\ rows[builds[s].dep].status = "QUEUED"
         /\ \A t \in Slots : Owning(t) => builds[t].dep # builds[s].dep
         /\ \A t \in Slots \ {s} : builds[t].phase = "claiming" => builds[t].dep # builds[s].dep
         /\ \A w \in Workers : \A p \in sweeps[w] : p[1] # builds[s].dep
  BY BusySlot DEF QueueInv, Ownership, ClaimsAreExclusive, BuildsOwnTheirRows,
                  ClaimedRowsAreUnswept, SweepHolds

LEMMA ClaimKeeps == ASSUME QueueInv, Punctual, NEW s \in Slots, ClaimStep(s)
                    PROVE  Ownership' /\ AttemptsWithinLimit'
<1> USE DEF QueueInv
<1>1. ASSUME NEW d \in Deployments, LockOldest(s, d) PROVE Ownership' /\ AttemptsWithinLimit'
  <2>1. /\ builds'[s].phase = "claiming" /\ builds'[s].dep = d
        /\ \A t \in Slots \ {s} : builds'[t] = builds[t]
        /\ rows' = rows /\ sweeps' = sweeps
    BY <1>1 DEF LockOldest, NoBuild, TypeOK
  <2>2. \A t \in Slots : Owning(t)' => t # s /\ Owning(t)
    BY <2>1 DEF Owning, Live
  <2>3. ~SweepHolds(d)
    BY <1>1 DEF LockOldest, Punctual
  <2>4. BuildsOwnTheirRows' /\ OwnersAreAlone'
    BY <2>1, <2>2 DEF Ownership, BuildsOwnTheirRows, OwnersAreAlone
  <2>5. ClaimedRowsAreUnswept'
    BY <2>1, <2>3 DEF Ownership, ClaimedRowsAreUnswept, SweepHolds
  <2>6. \A e \in Deployments : BeingBuilt(e)' => BeingBuilt(e)
    BY <2>1 DEF BeingBuilt, Live
  <2>7. SweepsKnowTheirRows' /\ StaleRowsAreUnattended'
    BY <2>1, <2>6 DEF Ownership, SweepsKnowTheirRows, StaleRowsAreUnattended, TypeOK
  <2> QED
    BY <2>1, <2>4, <2>5, <2>7 DEF Ownership, AttemptsWithinLimit
<1>2. CASE CommitClaim(s) \/ LoseClaim(s)
  <2> DEFINE d == builds[s].dep
  <2>1. builds[s].phase = "claiming"
    BY <1>2 DEF CommitClaim, LoseClaim
  <2>2. d \in Deployments /\ rows[d] \in Row
    BY <2>1, ClaimedRowIsFree DEF TypeOK
  <2>3. /\ \A e \in Deployments \ {d} : rows'[e] = rows[e]
        /\ rows'[d].status = "BUILDING" /\ rows'[d].started = "recent"
        /\ rows'[d].attempt = rows[d].attempt + 1
    BY <1>2, <2>2 DEF CommitClaim, LoseClaim, Claimed, TypeOK, Row
  <2>4. /\ \A t \in Slots \ {s} : builds'[t] = builds[t]
        /\ sweeps' = sweeps
        /\ \/ builds'[s] = [phase |-> "preparing", dep |-> d, attempt |-> rows[d].attempt + 1]
           \/ builds'[s] = NoBuild
    BY <1>2 DEF CommitClaim, LoseClaim, TypeOK
  <2>5. \A t \in Slots \ {s} : Owning(t)' => Owning(t) /\ builds[t].dep \in Deployments \ {d}
    BY <2>1, <2>4, ClaimedRowIsFree, BusySlot DEF Owning, Live
  <2>6. Owning(s)' => builds'[s] = [phase |-> "preparing", dep |-> d, attempt |-> rows[d].attempt + 1]
    BY <2>4 DEF NoBuild, Owning, Live
  <2>7. BuildsOwnTheirRows'
    <3>1. ASSUME NEW t \in Slots \ {s}, Owning(t)'
          PROVE  Owning(t) /\ builds'[t] = builds[t] /\ rows'[builds'[t].dep] = rows[builds[t].dep]
      BY <3>1, <2>3, <2>4, <2>5
    <3> QED
      BY <3>1, <2>3, <2>6 DEF Ownership, BuildsOwnTheirRows
  <2>8. OwnersAreAlone'
    BY <2>4, <2>5, <2>6 DEF Ownership, OwnersAreAlone
  <2>9. \A e \in Deployments \ {d} : BeingBuilt(e)' => BeingBuilt(e)
    BY <2>4, <2>6 DEF BeingBuilt, Owning, Live
  <2>10. StaleRowsAreUnattended'
    BY <2>3, <2>9 DEF Ownership, StaleRowsAreUnattended
  <2>11. SweepsKnowTheirRows'
    <3>1. \A w \in Workers : \A p \in sweeps'[w] : p[1] \in Deployments \ {d} /\ p \in sweeps[w]
      BY <2>1, <2>4, ClaimedRowIsFree DEF TypeOK
    <3> QED
      BY <3>1, <2>3, <2>9 DEF Ownership, SweepsKnowTheirRows
  <2>12. ClaimedRowsAreUnswept'
    BY <2>4 DEF Ownership, ClaimedRowsAreUnswept, SweepHolds, NoBuild
  <2>13. AttemptsWithinLimit'
    <3>1. rows[d].attempt < MaxAttempts /\ rows[d].attempt \in Nat
      BY <2>1, <2>2, ClaimedRowIsFree DEF AttemptsWithinLimit, Row
    <3> QED
      BY <2>3, <3>1, BuildQueueAssumption DEF AttemptsWithinLimit
  <2> QED
    BY <2>7, <2>8, <2>10, <2>11, <2>12, <2>13 DEF Ownership
<1>3. CASE DropClaim(s)
  <2>1. /\ \A t \in Slots \ {s} : builds'[t] = builds[t]
        /\ builds'[s] = NoBuild /\ rows' = rows /\ sweeps' = sweeps
    BY <1>3 DEF DropClaim, TypeOK
  <2>2. ~Owning(s)' /\ builds'[s].phase # "claiming"
    BY <2>1 DEF Owning, Live, NoBuild
  <2> QED
    BY <2>1, <2>2, QuietSteps DEF AttemptsWithinLimit
<1> QED
  BY <1>1, <1>2, <1>3 DEF ClaimStep

\* A build's verdict: the slot lets go of its row, or keeps a published one.
LEMMA VerdictSteps ==
  ASSUME QueueInv, NEW s \in Slots, NEW d \in Deployments, Live(s), builds[s].dep = d,
         \A t \in Slots \ {s} : builds'[t] = builds[t],
         sweeps' = sweeps,
         \A e \in Deployments \ {d} : rows'[e] = rows[e],
         rows[d].status # "BUILDING" => rows' = rows,
         rows[d].status = "BUILDING" => rows'[d].status \in {"READY", "FAILED", "QUEUED"},
         \/ builds'[s].phase = "cleaning"
         \/ /\ builds'[s].phase = "announcing" /\ builds'[s].dep = d
            /\ rows'[d].status = "READY"
  PROVE  Ownership'
<1> USE DEF QueueInv, Ownership
<1>1. \A t \in Slots \ {s} : Owning(t)' => Owning(t) /\ builds[t].dep \in Deployments \ {d}
  BY BusySlot DEF OwnersAreAlone, Owning, Live
<1>2. ~Live(s)'
  BY DEF Live
<1>3. BuildsOwnTheirRows'
  <2>1. ASSUME NEW t \in Slots \ {s}, Owning(t)'
        PROVE  Owning(t) /\ builds'[t] = builds[t] /\ rows'[builds'[t].dep] = rows[builds[t].dep]
    BY <2>1, <1>1
  <2>2. Owning(s)' => builds'[s].phase = "announcing" /\ rows'[builds'[s].dep].status = "READY"
    BY DEF Owning, Live
  <2> QED
    BY <2>1, <2>2 DEF BuildsOwnTheirRows
<1>4. OwnersAreAlone'
  BY <1>1 DEF OwnersAreAlone, Owning, Live
<1>5. \A e \in Deployments : BeingBuilt(e)' => BeingBuilt(e)
  BY <1>2 DEF BeingBuilt, Live
<1>6. rows'[d].status # "BUILDING"
  OBVIOUS
<1>7. StaleRowsAreUnattended'
  BY <1>5, <1>6 DEF StaleRowsAreUnattended
<1>8. SweepsKnowTheirRows'
  BY <1>5, <1>6 DEF SweepsKnowTheirRows, TypeOK
<1>9. ClaimedRowsAreUnswept'
  BY DEF ClaimedRowsAreUnswept, SweepHolds
<1> QED
  BY <1>3, <1>4, <1>7, <1>8, <1>9

\* What a transition out of BUILDING does to the row and to its attempts.
LEMMA LeaveBuilding ==
  ASSUME TypeOK, NEW d \in Deployments, NEW to \in {"READY", "FAILED", "QUEUED"},
         NEW row \in Row, Transition(d, {"BUILDING"}, to, row),
         row.attempt = rows[d].attempt
  PROVE  /\ \A e \in Deployments \ {d} : rows'[e] = rows[e]
         /\ rows[d].status # "BUILDING" => rows' = rows
         /\ rows[d].status = "BUILDING" =>
              rows'[d].status = to /\ rows'[d].attempt = rows[d].attempt
  BY DEF Transition, TypeOK, CanTransition, ValidTransitions, Row

LEMMA BuildKeeps == ASSUME QueueInv, NEW s \in Slots, BuildStep(s)
                    PROVE  Ownership' /\ AttemptsWithinLimit'
<1> USE DEF QueueInv
<1> DEFINE d == builds[s].dep
<1>1. CASE Prepare(s) \/ Reject(s) \/ Break(s) \/ Announce(s) \/ FailToRecord(s)
  <2>1. rows' = rows /\ sweeps' = sweeps /\ \A t \in Slots \ {s} : builds'[t] = builds[t]
    BY <1>1, EnterEffect DEF Prepare, Reject, Break, Announce, FailToRecord
  <2>2. CASE Prepare(s) \/ Reject(s) \/ Break(s)
    <3>1. /\ Owning(s)
          /\ builds'[s].phase \in {"uploading", "rejected", "broken"}
          /\ builds'[s].phase # "broken" => builds[s].phase = "preparing"
          /\ builds'[s].dep = builds[s].dep
          /\ builds'[s].attempt = builds[s].attempt
      BY <2>2, EnterEffect DEF Prepare, Reject, Break, Owning, Live
    <3> QED
      BY <2>1, <3>1, QuietSteps DEF AttemptsWithinLimit
  <2>3. CASE Announce(s) \/ FailToRecord(s)
    <3>1. ~Owning(s)' /\ builds'[s].phase # "claiming"
      BY <2>3, EnterEffect DEF Announce, FailToRecord, Owning, Live
    <3> QED
      BY <2>1, <3>1, QuietSteps DEF AttemptsWithinLimit
  <2> QED
    BY <1>1, <2>2, <2>3
<1>2. CASE Publish(s) \/ RecordRejection(s) \/ RecordSystemError(s)
  <2>1. Live(s) /\ d \in Deployments /\ rows[d] \in Row
    BY <1>2, BusySlot
       DEF Publish, RecordRejection, RecordSystemError, Enter, Live, TypeOK
  <2>2. Requeued(d) \in Row /\ Requeued(d).attempt = rows[d].attempt
    BY <2>1, RequeuedType DEF Requeued, Row
  <2>3. /\ sweeps' = sweeps
        /\ \A t \in Slots \ {s} : builds'[t] = builds[t]
        /\ builds'[s].phase \in {"cleaning", "announcing"} /\ builds'[s].dep = d
        /\ builds'[s].phase = "announcing" => builds[s].phase = "uploading" /\ Publish(s)
    BY <1>2, EnterEffect DEF Publish, RecordRejection, RecordSystemError
  <2>4. /\ \A e \in Deployments \ {d} : rows'[e] = rows[e]
        /\ rows[d].status # "BUILDING" => rows' = rows
        /\ rows[d].status = "BUILDING" =>
             /\ rows'[d].status \in {"READY", "FAILED", "QUEUED"}
             /\ rows'[d].attempt = rows[d].attempt
             /\ Publish(s) => rows'[d].status = "READY"
             /\ rows'[d].status = "QUEUED" => CanRetry(builds[s].attempt)
    <3>1. CASE Publish(s)
      BY <3>1, <2>1, LeaveBuilding DEF Publish
    <3>2. CASE RecordRejection(s)
      <4>1. ~Publish(s)
        BY <3>2 DEF RecordRejection, Publish, Enter
      <4> QED
        BY <3>2, <4>1, <2>1, LeaveBuilding DEF RecordRejection
    <3>3. CASE RecordSystemError(s)
      <4>1. ~Publish(s)
        BY <3>3 DEF RecordSystemError, Publish, Enter
      <4> QED
        BY <3>3, <4>1, <2>1, <2>2, LeaveBuilding DEF RecordSystemError
    <3> QED
      BY <1>2, <3>1, <3>2, <3>3
  <2>5. /\ builds[s].phase = "uploading" => rows[d].status = "BUILDING"
        /\ rows[d].status = "BUILDING" => rows[d].attempt = builds[s].attempt
    BY <2>1 DEF Ownership, BuildsOwnTheirRows, Owning, Live
  <2>6. Ownership'
    BY <2>1, <2>3, <2>4, <2>5, VerdictSteps
  <2>7. AttemptsWithinLimit'
    BY <2>1, <2>4, <2>5 DEF AttemptsWithinLimit, CanRetry
  <2> QED
    BY <2>6, <2>7
<1>3. CASE Finish(s)
  <2>1. /\ \A t \in Slots \ {s} : builds'[t] = builds[t]
        /\ builds'[s] = NoBuild /\ rows' = rows /\ sweeps' = sweeps
    BY <1>3 DEF Finish, TypeOK
  <2>2. ~Owning(s)' /\ builds'[s].phase # "claiming"
    BY <2>1 DEF Owning, Live, NoBuild
  <2> QED
    BY <2>1, <2>2, QuietSteps DEF AttemptsWithinLimit
<1> QED
  BY <1>1, <1>2, <1>3 DEF BuildStep

LEMMA SweepKeeps == ASSUME QueueInv, NEW w \in Workers, SweepStep(w)
                    PROVE  Ownership' /\ AttemptsWithinLimit'
<1> USE DEF QueueInv
<1>1. CASE BeginSweep(w) \/ AbortSweep(w)
  <2>1. /\ rows' = rows /\ builds' = builds
        /\ \A v \in Workers : sweeps'[v] \subseteq sweeps[v] \cup StaleRows
    BY <1>1 DEF BeginSweep, AbortSweep, TypeOK
  <2> QED
    BY <2>1, QuietSteps DEF AttemptsWithinLimit
<1>2. ASSUME NEW p \in sweeps[w], SweepRow(w, p) PROVE Ownership' /\ AttemptsWithinLimit'
  <2> DEFINE d == p[1]
  <2>1. d \in Deployments /\ rows[d] \in Row
    BY DEF TypeOK
  <2>2. Requeued(d) \in Row /\ Requeued(d).attempt = rows[d].attempt
    BY <2>1, RequeuedType DEF Requeued, Row
  <2>3. /\ builds' = builds
        /\ \A v \in Workers : sweeps'[v] \subseteq sweeps[v]
    BY <1>2 DEF SweepRow, TypeOK
  <2>4. /\ \A e \in Deployments \ {d} : rows'[e] = rows[e]
        /\ rows[d].status # "BUILDING" => rows' = rows
        /\ rows[d].status = "BUILDING" =>
             /\ rows'[d].status \in {"FAILED", "QUEUED"}
             /\ rows'[d].attempt = rows[d].attempt
             /\ rows'[d].status = "QUEUED" => CanRetry(p[2])
    BY <1>2, <2>1, <2>2, LeaveBuilding DEF SweepRow
  <2>5. CASE rows[d].status # "BUILDING"
    BY <2>3, <2>4, <2>5, QuietSteps DEF AttemptsWithinLimit
  <2>6. CASE rows[d].status = "BUILDING"
    <3>1. rows[d].attempt = p[2] /\ ~BeingBuilt(d)
      BY <2>6 DEF Ownership, SweepsKnowTheirRows
    <3>2. \A t \in Slots : Owning(t) => builds[t].dep \in Deployments \ {d}
      BY <2>6, <3>1, BusySlot DEF Ownership, BuildsOwnTheirRows, Owning, BeingBuilt, Live
    <3>3. BuildsOwnTheirRows' /\ OwnersAreAlone'
      BY <2>3, <2>4, <3>2 DEF Ownership, BuildsOwnTheirRows, OwnersAreAlone, Owning, Live
    <3>4. \A e \in Deployments : BeingBuilt(e)' = BeingBuilt(e)
      BY <2>3 DEF BeingBuilt, Live
    <3>5. SweepsKnowTheirRows' /\ StaleRowsAreUnattended'
      BY <2>1, <2>3, <2>4, <2>6, <3>4
         DEF Ownership, SweepsKnowTheirRows, StaleRowsAreUnattended, TypeOK
    <3>6. ClaimedRowsAreUnswept'
      BY <2>3 DEF Ownership, ClaimedRowsAreUnswept, SweepHolds
    <3>7. AttemptsWithinLimit'
      BY <2>1, <2>4, <2>6, <3>1 DEF AttemptsWithinLimit, CanRetry
    <3> QED
      BY <3>3, <3>5, <3>6, <3>7 DEF Ownership
  <2> QED
    BY <2>5, <2>6
<1> QED
  BY <1>1, <1>2 DEF SweepStep

LEMMA ProcessKeeps == ASSUME QueueInv, NEW w \in Workers, ProcessStep(w)
                      PROVE  Ownership' /\ AttemptsWithinLimit'
<1>1. /\ rows' = rows
      /\ \A v \in Workers : sweeps'[v] \subseteq sweeps[v] \cup StaleRows
      /\ \A s \in Slots : builds'[s] = builds[s] \/ builds'[s] = NoBuild
  BY DEF ProcessStep, Start, OpenPolling, Stop, Exit, Crash, QueueInv, TypeOK
<1>2. \A s \in Slots : builds'[s] = NoBuild => ~Owning(s)' /\ builds'[s].phase # "claiming"
  BY DEF Owning, Live, NoBuild
<1> QED
  BY <1>1, <1>2, QuietSteps DEF QueueInv, AttemptsWithinLimit

LEMMA NextQueueInv == Punctual /\ QueueInv /\ [Next]_vars => QueueInv'
<1> SUFFICES ASSUME Punctual, QueueInv, [Next]_vars PROVE QueueInv'
  OBVIOUS
<1>1. TypeOK' /\ ClaimsAreExclusive'
  BY NextType, NextClaims DEF QueueInv
<1>2. Ownership' /\ AttemptsWithinLimit'
  <2>1. CASE Next
    BY <2>1, ApiKeeps, TimeKeeps, ClaimKeeps, BuildKeeps, SweepKeeps, ProcessKeeps DEF Next
  <2>2. CASE UNCHANGED vars
    BY <2>2, QuietSteps DEF vars, QueueInv, AttemptsWithinLimit
  <2> QED
    BY <2>1, <2>2
<1> QED
  BY <1>1, <1>2 DEF QueueInv

LEMMA InitQueueInv == Init => QueueInv
<1> SUFFICES ASSUME Init PROVE QueueInv
  OBVIOUS
<1>1. \A s \in Slots : ~Owning(s) /\ builds[s].phase # "claiming"
  BY DEF Init, NoBuild, Owning, Live
<1>2. \A d \in Deployments : rows[d] = NoRow
  BY DEF Init
<1>3. Ownership
  BY <1>1, <1>2 DEF Init, NoRow, Absent, Ownership, BuildsOwnTheirRows, OwnersAreAlone,
                   SweepsKnowTheirRows, ClaimedRowsAreUnswept, StaleRowsAreUnattended
<1>4. AttemptsWithinLimit
  BY <1>2, BuildQueueAssumption DEF NoRow, Absent, AttemptsWithinLimit
<1> QED
  BY <1>3, <1>4, InitType, InitClaims DEF QueueInv

\* When builds end before they count as stale and a sweep is done with a row
\* before it is claimed again, the inductive invariant holds.
THEOREM QueueInvHolds == ASSUME Punctual PROVE Spec => []QueueInv
<1>1. QueueInv /\ [Next]_vars => QueueInv'
  BY NextQueueInv
<1> QED
  BY <1>1, InitQueueInv, PTL DEF Spec

\* A build owns its row until its verdict is in.
THEOREM OwnershipHolds == ASSUME Punctual PROVE Spec => []Ownership
<1>1. QueueInv => Ownership
  BY DEF QueueInv
<1> QED
  BY <1>1, QueueInvHolds, PTL

\* A deployment is built by one build at a time.
THEOREM BuildsAreAlone == ASSUME Punctual PROVE Spec => []OneBuildPerDeployment
<1>1. QueueInv => OneBuildPerDeployment
  BY DEF QueueInv, Ownership, OwnersAreAlone, Owning, OneBuildPerDeployment
<1> QED
  BY <1>1, QueueInvHolds, PTL

\* What the owner sees queued, failed or cancelled is not being built.
THEOREM NothingIdleIsBuilt == ASSUME Punctual PROVE Spec => []IdleRowsAreNotBuilt
<1>1. QueueInv => IdleRowsAreNotBuilt
  BY DEF QueueInv, Ownership, BuildsOwnTheirRows, Owning, IdleRowsAreNotBuilt, BeingBuilt
<1> QED
  BY <1>1, QueueInvHolds, PTL

\* attempt_count never passes max_attempts.
THEOREM AttemptsAreLimited == ASSUME Punctual PROVE Spec => []AttemptsWithinLimit
<1>1. QueueInv => AttemptsWithinLimit
  BY DEF QueueInv
<1> QED
  BY <1>1, QueueInvHolds, PTL

\* The sweep takes nothing from a build that is still running.
THEOREM SweepsTakeLeftovers == ASSUME Punctual PROVE Spec => SweepTakesOnlyLeftovers
<1> DEFINE Leftover(w, p) == rows'[p[1]] # rows[p[1]] => ~BeingBuilt(p[1])
<1>1. ASSUME QueueInv, Next, NEW w \in Workers, NEW p \in sweeps[w] \ sweeps'[w]
      PROVE  Leftover(w, p)
  <2> USE DEF QueueInv
  <2>1. CASE rows' = rows
    BY <2>1
  <2>2. ASSUME NEW v \in Workers, NEW q \in sweeps[v], SweepRow(v, q) PROVE Leftover(w, p)
    <3>1. v = w /\ q = p
      BY <1>1, <2>2 DEF SweepRow, TypeOK
    <3>2. rows[p[1]].status # "BUILDING" => rows' = rows
      BY <2>2, <3>1 DEF SweepRow, Transition
    <3>3. rows[p[1]].status = "BUILDING" => ~BeingBuilt(p[1])
      BY <1>1 DEF Ownership, SweepsKnowTheirRows
    <3> QED
      BY <3>2, <3>3
  <2>3. CASE sweeps' = sweeps
    BY <2>3
  <2>4. ASSUME NEW d \in Deployments, ApiStep(d) \/ TimeStep(d) PROVE sweeps' = sweeps
    BY <2>4 DEF ApiStep, Submit, Cancel, Retry, MarkExpired, TimeStep, GrowStale, WaitOver
  <2>5. ASSUME NEW s \in Slots, ClaimStep(s) \/ BuildStep(s) PROVE sweeps' = sweeps
    BY <2>5 DEF ClaimStep, LockOldest, CommitClaim, LoseClaim, DropClaim, BuildStep, Prepare,
                Reject, Break, Publish, Announce, RecordRejection, RecordSystemError,
                FailToRecord, Finish
  <2>6. ASSUME NEW v \in Workers, SweepStep(v) \/ ProcessStep(v)
        PROVE  rows' = rows \/ \E q \in sweeps[v] : SweepRow(v, q)
    BY <2>6 DEF SweepStep, BeginSweep, AbortSweep, ProcessStep, Start, OpenPolling, Stop, Exit, Crash
  <2> QED
    BY <1>1, <2>1, <2>2, <2>3, <2>4, <2>5, <2>6 DEF Next
<1>2. QueueInv /\ [Next]_vars =>
        [\A w \in Workers : \A p \in sweeps[w] \ sweeps'[w] :
           rows'[p[1]] # rows[p[1]] => ~BeingBuilt(p[1])]_vars
  BY <1>1
<1> QED
  BY <1>2, QueueInvHolds, PTL DEF Spec, SweepTakesOnlyLeftovers

\* A build writes about the attempt it was claimed for, never over a later one.
THEOREM VerdictsAreTheirOwn == ASSUME Punctual PROVE Spec => VerdictsMatchAttempts
<1> DEFINE Own(s) == LET d == builds[s].dep
                     IN  Live(s) /\ builds'[s] # builds[s] /\ rows'[d] # rows[d] =>
                           rows[d].status = "BUILDING" /\ rows[d].attempt = builds[s].attempt
<1>1. ASSUME QueueInv, Next, NEW s \in Slots PROVE Own(s)
  <2> USE DEF QueueInv
  <2> DEFINE d == builds[s].dep
  <2>1. SUFFICES ASSUME Live(s), builds'[s] # builds[s], rows' # rows,
                        builds[s].phase = "broken", rows[d].status # "BUILDING"
                 PROVE  FALSE
    BY <1>1 DEF Ownership, BuildsOwnTheirRows, Owning, Live
  <2>2. ASSUME NEW t \in Slots, ClaimStep(t) PROVE rows' = rows \/ builds'[s] = builds[s]
    <3>1. CASE CommitClaim(t) \/ LoseClaim(t)
      <4>1. t # s
        BY <2>1, <3>1 DEF CommitClaim, LoseClaim
      <4> QED
        BY <1>1, <3>1, <4>1 DEF CommitClaim, LoseClaim, TypeOK
    <3> QED
      BY <2>2, <3>1 DEF ClaimStep, LockOldest, DropClaim
  <2>3. ASSUME NEW t \in Slots, BuildStep(t) PROVE rows' = rows \/ builds'[s] = builds[s]
    <3>1. CASE Publish(t) \/ RecordRejection(t) \/ RecordSystemError(t)
      <4>1. CASE t # s
        BY <1>1, <3>1, <4>1, EnterEffect DEF Publish, RecordRejection, RecordSystemError
      <4>2. CASE t = s
        BY <2>1, <3>1, <4>2 DEF Publish, RecordRejection, RecordSystemError, Enter, Transition
      <4> QED
        BY <4>1, <4>2
    <3> QED
      BY <2>3, <3>1 DEF BuildStep, Prepare, Reject, Break, Announce, FailToRecord, Finish
  <2>4. ASSUME NEW e \in Deployments, ApiStep(e) \/ TimeStep(e) PROVE builds' = builds
    BY <2>4 DEF ApiStep, Submit, Cancel, Retry, MarkExpired, TimeStep, GrowStale, WaitOver
  <2>5. ASSUME NEW w \in Workers, SweepStep(w) \/ ProcessStep(w)
        PROVE  builds' = builds \/ rows' = rows
    BY <2>5 DEF SweepStep, SweepRow, BeginSweep, AbortSweep,
                ProcessStep, Start, OpenPolling, Stop, Exit, Crash
  <2> QED
    BY <1>1, <2>1, <2>2, <2>3, <2>4, <2>5 DEF Next
<1>2. QueueInv /\ [Next]_vars =>
        [\A s \in Slots :
           LET d == builds[s].dep
           IN  Live(s) /\ builds'[s] # builds[s] /\ rows'[d] # rows[d] =>
                 rows[d].status = "BUILDING" /\ rows[d].attempt = builds[s].attempt]_vars
  BY <1>1
<1> QED
  BY <1>2, QueueInvHolds, PTL DEF Spec, VerdictsMatchAttempts

-------------------------------------------------------------------------------
(***************************************************************************)
(* The queue implements the lifecycle its owner sees.                      *)
(***************************************************************************)

LEMMA InitLifecycle == Init => Lifecycle!Init
  BY DEF Init, NoRow, Absent, Lifecycle!Init, Lifecycle!Absent

\* A step that changes one row in one of the ways the lifecycle knows.
LEMMA OneRowStep ==
  ASSUME TypeOK, NEW d \in Deployments, rows' \in [Deployments -> Row],
         \A e \in Deployments \ {d} : rows'[e] = rows[e],
         \/ /\ rows[d].status = Absent /\ rows'[d].status = "QUEUED"
            /\ rows'[d].attempt = 0
         \/ /\ rows[d].status = "QUEUED" /\ rows'[d].status = "BUILDING"
            /\ rows[d].attempt < MaxAttempts /\ rows'[d].attempt = rows[d].attempt + 1
         \/ /\ rows[d].status = "BUILDING" /\ rows'[d].status = "QUEUED"
            /\ rows[d].attempt < MaxAttempts /\ rows'[d].attempt = rows[d].attempt
         \/ /\ rows[d].status = "BUILDING" /\ rows'[d].status \in {"READY", "FAILED"}
            /\ rows'[d].attempt = rows[d].attempt
         \/ /\ rows[d].status = "QUEUED" /\ rows'[d].status = "CANCELLED"
            /\ rows'[d].attempt = rows[d].attempt
         \/ /\ rows[d].status \in {"FAILED", "CANCELLED"} /\ rows'[d].status = "QUEUED"
            /\ rows'[d].attempt = 0
         \/ /\ rows[d].status \in Expirable /\ rows'[d].status = "EXPIRED"
            /\ rows'[d].attempt = rows[d].attempt
  PROVE  Lifecycle!Next
<1>1. ASSUME NEW from, NEW to, rows[d].status = from, rows'[d].status = to
      PROVE  Lifecycle!Moves(d, from, to)
  BY <1>1 DEF Lifecycle!Moves
<1>2. rows'[d].attempt = rows[d].attempt =>
        UNCHANGED [e \in Deployments |-> rows[e].attempt]
  OBVIOUS
<1>3. [e \in Deployments |-> rows[e].attempt]'
        = [[e \in Deployments |-> rows[e].attempt] EXCEPT ![d] = rows'[d].attempt]
  OBVIOUS
<1>4. CASE /\ rows[d].status = Absent /\ rows'[d].status = "QUEUED"
           /\ rows'[d].attempt = 0
  BY <1>1, <1>3, <1>4 DEF Lifecycle!Next, Lifecycle!Submit, Lifecycle!Absent, Absent
<1>5. CASE /\ rows[d].status = "QUEUED" /\ rows'[d].status = "BUILDING"
           /\ rows[d].attempt < MaxAttempts /\ rows'[d].attempt = rows[d].attempt + 1
  BY <1>1, <1>3, <1>5 DEF Lifecycle!Next, Lifecycle!Try
<1>6. CASE /\ rows[d].status = "BUILDING" /\ rows'[d].status = "QUEUED"
           /\ rows[d].attempt < MaxAttempts /\ rows'[d].attempt = rows[d].attempt
  BY <1>1, <1>2, <1>6 DEF Lifecycle!Next, Lifecycle!TryAgain
<1>7. CASE /\ \/ rows[d].status = "BUILDING" /\ rows'[d].status \in {"READY", "FAILED"}
              \/ rows[d].status = "QUEUED" /\ rows'[d].status = "CANCELLED"
           /\ rows'[d].attempt = rows[d].attempt
  BY <1>1, <1>2, <1>7 DEF Lifecycle!Next, Lifecycle!Settle
<1>8. CASE /\ rows[d].status \in {"FAILED", "CANCELLED"} /\ rows'[d].status = "QUEUED"
           /\ rows'[d].attempt = 0
  BY <1>1, <1>3, <1>8 DEF Lifecycle!Next, Lifecycle!AskAgain
<1>9. CASE /\ rows[d].status \in Expirable /\ rows'[d].status = "EXPIRED"
           /\ rows'[d].attempt = rows[d].attempt
  BY <1>1, <1>2, <1>9 DEF Lifecycle!Next, Lifecycle!Expire, Lifecycle!Expirable, Expirable
<1> QED
  BY <1>4, <1>5, <1>6, <1>7, <1>8, <1>9

\* Every step is one of the lifecycle's, or none.
LEMMA NextLifecycle ==
  ASSUME Punctual, QueueInv, [Next]_vars
  PROVE  [Lifecycle!Next]_(Lifecycle!lifecycle)
<1> USE DEF QueueInv
<1>0. rows' \in [Deployments -> Row] /\ \A d \in Deployments : rows[d] \in Row
  BY NextType DEF TypeOK
<1> DEFINE Implements == Lifecycle!Next \/ UNCHANGED Lifecycle!lifecycle
<1>1. rows' = rows => Implements
  BY DEF Lifecycle!lifecycle
<1>2. ASSUME NEW d \in Deployments, ApiStep(d) PROVE Implements
  <2>1. \A e \in Deployments \ {d} : rows'[e] = rows[e]
    BY <1>2 DEF ApiStep, Submit, Cancel, Retry, MarkExpired, Transition, TypeOK
  <2>2. CASE Submit(d)
    <3>1. rows'[d] = [NoRow EXCEPT !.status = "QUEUED"] /\ rows[d].status = Absent
      BY <2>2 DEF Submit, TypeOK
    <3>2. rows'[d].status = "QUEUED" /\ rows'[d].attempt = 0
      BY <3>1 DEF NoRow
    <3> QED
      BY <1>0, <2>1, <3>1, <3>2, OneRowStep
  <2>3. CASE Cancel(d)
    <3>1. rows' = rows \/ rows'[d] = [rows[d] EXCEPT !.status = "CANCELLED"]
      BY <2>3 DEF Cancel, Transition, TypeOK
    <3>2. \/ rows' = rows
          \/ rows'[d].status = "CANCELLED" /\ rows'[d].attempt = rows[d].attempt
      BY <3>1, <1>0 DEF Row
    <3>3. rows[d].status = "QUEUED"
      BY <2>3 DEF Cancel
    <3> QED
      BY <1>0, <1>1, <2>1, <3>2, <3>3, OneRowStep
  <2>4. CASE Retry(d)
    <3>1. \/ rows' = rows
          \/ rows'[d] = [[rows[d] EXCEPT !.attempt = 0, !.started = "never", !.waiting = FALSE]
                         EXCEPT !.status = "QUEUED"]
      BY <2>4 DEF Retry, Transition, TypeOK
    <3>2. rows[d] \in Row
      BY <1>0
    <3>3. \/ rows' = rows
          \/ rows'[d].status = "QUEUED" /\ rows'[d].attempt = 0
      BY <3>1, <3>2 DEF Row
    <3>4. rows[d].status \in {"FAILED", "CANCELLED"}
      BY <2>4 DEF Retry
    <3> QED
      BY <1>0, <1>1, <2>1, <3>3, <3>4, OneRowStep
  <2>5. CASE MarkExpired(d)
    <3>1. rows' = rows \/ rows'[d] = [rows[d] EXCEPT !.status = "EXPIRED"]
      BY <2>5 DEF MarkExpired, Transition, TypeOK
    <3>2. \/ rows' = rows
          \/ rows'[d].status = "EXPIRED" /\ rows'[d].attempt = rows[d].attempt
      BY <3>1, <1>0 DEF Row
    <3>3. rows[d].status \in Expirable
      BY <2>5 DEF MarkExpired
    <3> QED
      BY <1>0, <1>1, <2>1, <3>2, <3>3, OneRowStep
  <2> QED
    BY <1>2, <2>2, <2>3, <2>4, <2>5 DEF ApiStep
<1>3. ASSUME NEW d \in Deployments, TimeStep(d) PROVE Implements
  <2>1. \A e \in Deployments : rows'[e].status = rows[e].status /\ rows'[e].attempt = rows[e].attempt
    BY <1>3, <1>0 DEF TimeStep, GrowStale, WaitOver, TypeOK, Row
  <2> QED
    BY <2>1 DEF Lifecycle!lifecycle
<1>4. ASSUME NEW s \in Slots, ClaimStep(s) PROVE Implements
  <2>1. CASE CommitClaim(s) \/ LoseClaim(s)
    <3> DEFINE d == builds[s].dep
    <3>1. builds[s].phase = "claiming"
      BY <2>1 DEF CommitClaim, LoseClaim
    <3>2. d \in Deployments /\ rows[d].status = "QUEUED" /\ rows[d].attempt < MaxAttempts
      BY <3>1, ClaimedRowIsFree DEF AttemptsWithinLimit
    <3>3. /\ \A e \in Deployments \ {d} : rows'[e] = rows[e]
          /\ rows'[d].status = "BUILDING" /\ rows'[d].attempt = rows[d].attempt + 1
      BY <2>1, <3>2, <1>0 DEF CommitClaim, LoseClaim, Claimed, TypeOK, Row
    <3> QED
      BY <1>0, <3>2, <3>3, OneRowStep
  <2> QED
    BY <1>1, <1>4, <2>1 DEF ClaimStep, LockOldest, DropClaim
<1>5. ASSUME NEW s \in Slots, BuildStep(s) PROVE Implements
  <2> DEFINE d == builds[s].dep
  <2>1. CASE Publish(s) \/ RecordRejection(s) \/ RecordSystemError(s)
    <3>1. d \in Deployments /\ Live(s)
      BY <2>1, BusySlot DEF Publish, RecordRejection, RecordSystemError, Enter, Live
    <3>0. rows[d] \in Row
      BY <1>0, <3>1
    <3>2. Requeued(d) \in Row /\ Requeued(d).attempt = rows[d].attempt
      BY <3>0 DEF Requeued, Row
    <3>3. /\ \A e \in Deployments \ {d} : rows'[e] = rows[e]
          /\ rows[d].status # "BUILDING" => rows' = rows
          /\ rows[d].status = "BUILDING" =>
               /\ rows'[d].status \in {"READY", "FAILED", "QUEUED"}
               /\ rows'[d].attempt = rows[d].attempt
               /\ rows'[d].status = "QUEUED" => CanRetry(builds[s].attempt)
      BY <2>1, <1>0, <3>1, <3>2, LeaveBuilding DEF Publish, RecordRejection, RecordSystemError
    <3>4. rows[d].status = "BUILDING" => rows[d].attempt = builds[s].attempt
      BY <3>1 DEF Ownership, BuildsOwnTheirRows, Owning
    <3> QED
      BY <1>0, <1>1, <3>1, <3>3, <3>4, OneRowStep DEF CanRetry
  <2> QED
    BY <1>1, <1>5, <2>1 DEF BuildStep, Prepare, Reject, Break, Announce, FailToRecord, Finish
<1>6. ASSUME NEW w \in Workers, SweepStep(w) PROVE Implements
  <2>1. ASSUME NEW p \in sweeps[w], SweepRow(w, p) PROVE Implements
    <3>1. p[1] \in Deployments
      BY DEF TypeOK
    <3>0. rows[p[1]] \in Row
      BY <1>0, <3>1
    <3>2. Requeued(p[1]) \in Row /\ Requeued(p[1]).attempt = rows[p[1]].attempt
      BY <3>0 DEF Requeued, Row
    <3>3. /\ \A e \in Deployments \ {p[1]} : rows'[e] = rows[e]
          /\ rows[p[1]].status # "BUILDING" => rows' = rows
          /\ rows[p[1]].status = "BUILDING" =>
               /\ rows'[p[1]].status \in {"FAILED", "QUEUED"}
               /\ rows'[p[1]].attempt = rows[p[1]].attempt
               /\ rows'[p[1]].status = "QUEUED" => CanRetry(p[2])
      BY <2>1, <1>0, <3>1, <3>2, LeaveBuilding DEF SweepRow
    <3>4. rows[p[1]].status = "BUILDING" => rows[p[1]].attempt = p[2]
      BY DEF Ownership, SweepsKnowTheirRows
    <3> QED
      BY <1>0, <1>1, <3>1, <3>3, <3>4, OneRowStep DEF CanRetry
  <2> QED
    BY <1>1, <1>6, <2>1 DEF SweepStep, BeginSweep, AbortSweep
<1>7. ASSUME NEW w \in Workers, ProcessStep(w) PROVE Implements
  BY <1>1, <1>7 DEF ProcessStep, Start, OpenPolling, Stop, Exit, Crash
<1>8. CASE UNCHANGED vars
  BY <1>1, <1>8 DEF vars
<1> QED
  BY <1>2, <1>3, <1>4, <1>5, <1>6, <1>7, <1>8 DEF Next

\* To the owner, the queue with its workers, crashes and sweeps is the plain
\* lifecycle, with its limit on tries.
THEOREM QueueImplementsLifecycle == ASSUME Punctual PROVE Spec => ImplementsLifecycle
<1>1. QueueInv /\ [Next]_vars => [Lifecycle!Next]_(Lifecycle!lifecycle)
  BY NextLifecycle
<1> QED
  BY <1>1, InitLifecycle, QueueInvHolds, PTL DEF Spec, ImplementsLifecycle, Lifecycle!Spec
===============================================================================
