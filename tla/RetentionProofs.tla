---------------------------- MODULE RetentionProofs ----------------------------
(***************************************************************************)
(* Proofs about Retention, for any number of deployments, workers, builds, *)
(* files and rows a page, and, but for the last theorem, with no           *)
(* assumption about time.                                                  *)
(***************************************************************************)
EXTENDS Retention, BuildQueueProofs

-------------------------------------------------------------------------------
\* The steps that concern the queue alone.
QuietStep ==
  /\ UNCHANGED retention
  /\ \/ \E d \in Deployments : (d \in source /\ Submit(d)) \/ Cancel(d) \/ Retry(d) \/ TimeStep(d)
     \/ \E s \in Slots : \/ ClaimStep(s)
                         \/ Announce(s) \/ RecordRejection(s) \/ RecordSystemError(s)
                         \/ FailToRecord(s) \/ Finish(s)
     \/ \E w \in Workers : SweepStep(w) \/ Stop(w) \/ OpenPolling(w)

\* The steps of the composition, with the actor of each.
LEMMA StepCases ==
  ASSUME RetentionNext
  PROVE  \/ QuietStep
         \/ \E d \in Deployments : StoreSource(d)
         \/ \E s \in Slots : \/ Fetch(s) \/ BuildFetched(s) \/ PublishSite(s) \/ BreakBuild(s)
                             \/ \E f \in Files : Put(s, f)
         \/ \E p \in strays : StrayPut(p[1], p[2], p[3])
         \/ \E w \in Workers : \/ BeginCleanup(w) \/ ReadPage(w) \/ FailPage(w)
                               \/ StartWorker(w) \/ EndWorker(w)
                               \/ \E d \in cleaner[w].batch : RowStep(w, d)
         \/ FallDue
<1>1. ASSUME NEW d \in Deployments, OwnerStep(d) PROVE QuietStep \/ StoreSource(d)
  BY <1>1 DEF OwnerStep, Insert, QuietStep
<1>2. ASSUME NEW s \in Slots, ClaimStep(s) /\ UNCHANGED retention PROVE QuietStep
  BY <1>2 DEF QuietStep
<1>3. ASSUME NEW s \in Slots, StoreStep(s)
      PROVE  \/ QuietStep
             \/ Fetch(s) \/ BuildFetched(s) \/ PublishSite(s) \/ BreakBuild(s)
             \/ \E f \in Files : Put(s, f)
  BY <1>3 DEF StoreStep, PlainBuildStep, QuietStep
<1>4. ASSUME NEW w \in Workers, WorkerStep(w)
      PROVE  QuietStep \/ StartWorker(w) \/ EndWorker(w) \/ BeginCleanup(w)
  BY <1>4 DEF WorkerStep, PollWhenClean, QuietStep
<1>5. ASSUME NEW w \in Workers, CleanerStep(w)
      PROVE  ReadPage(w) \/ FailPage(w) \/ \E d \in cleaner[w].batch : RowStep(w, d)
  BY <1>5 DEF CleanerStep
<1> QED
  BY <1>1, <1>2, <1>3, <1>4, <1>5 DEF RetentionNext

\* A row a cleanup is at is a deployment.
LEMMA BatchType ==
  ASSUME RetentionTypeOK, NEW w \in Workers, NEW d \in cleaner[w].batch
  PROVE  d \in Deployments
  BY DEF RetentionTypeOK, Cleaner

\* A step of the composition is a step of the queue, or leaves the queue alone.
LEMMA QueueStep == RetentionTypeOK /\ [RetentionNext]_<<vars, retention>> => [Next]_vars
<1> SUFFICES ASSUME RetentionTypeOK, RetentionNext PROVE [Next]_vars
  BY DEF vars
<1>1. CASE QuietStep
  BY <1>1 DEF QuietStep, Next, ApiStep, BuildStep, ProcessStep
<1>2. ASSUME NEW d \in Deployments, StoreSource(d) PROVE UNCHANGED vars
  BY <1>2 DEF StoreSource
<1>3. ASSUME NEW s \in Slots,
             Fetch(s) \/ BuildFetched(s) \/ PublishSite(s) \/ BreakBuild(s)
               \/ \E f \in Files : Put(s, f)
      PROVE  [Next]_vars
  BY <1>3 DEF Fetch, BuildFetched, PublishSite, BreakBuild, Put, Next, BuildStep
<1>4. ASSUME NEW p \in strays, StrayPut(p[1], p[2], p[3]) PROVE UNCHANGED vars
  BY <1>4 DEF StrayPut
<1>5. ASSUME NEW w \in Workers, NEW d \in cleaner[w].batch, RowStep(w, d) PROVE [Next]_vars
  <2>1. d \in Deployments
    BY BatchType
  <2> QED
    BY <1>5, <2>1 DEF RowStep, ListSite, DeleteSite, DeleteSource, Mark, FailRow, Next, ApiStep
<1>6. ASSUME NEW w \in Workers,
             BeginCleanup(w) \/ ReadPage(w) \/ FailPage(w) \/ StartWorker(w) \/ EndWorker(w)
      PROVE  [Next]_vars
  BY <1>6 DEF BeginCleanup, ReadPage, FailPage, StartWorker, EndWorker, Next, ProcessStep
<1>7. CASE FallDue
  BY <1>7 DEF FallDue
<1> QED
  BY <1>1, <1>2, <1>3, <1>4, <1>5, <1>6, <1>7, StepCases

\* A quiet step leaves a build that deals with the bucket where it is; it
\* publishes nothing, expires nothing, and inserts only what has its archive.
LEMMA QuietEffect ==
  ASSUME TypeOK, ClaimsAreExclusive, QuietStep
  PROVE  /\ \A s \in Slots : builds[s].phase \in {"preparing", "uploading"} => builds'[s] = builds[s]
         /\ \A s \in Slots : builds'[s].phase = "uploading" => builds'[s] = builds[s]
         /\ \A d \in Deployments :
              \/ rows'[d].status = rows[d].status
              \/ /\ rows'[d].status \in {"QUEUED", "BUILDING", "FAILED", "CANCELLED"}
                 /\ rows[d].status = Absent => d \in source
<1> DEFINE SlotQuiet(s) == /\ builds[s].phase \in {"preparing", "uploading"} => builds'[s] = builds[s]
                           /\ builds'[s].phase = "uploading" => builds'[s] = builds[s]
           RowQuiet(d) == \/ rows'[d].status = rows[d].status
                          \/ /\ rows'[d].status \in {"QUEUED", "BUILDING", "FAILED", "CANCELLED"}
                             /\ rows[d].status = Absent => d \in source
<1>0. \A d \in Deployments : rows[d] \in Row
  BY DEF TypeOK
<1>1. ASSUME NEW d, NEW from, NEW to \in {"QUEUED", "FAILED", "CANCELLED"}, NEW row,
             d \in Deployments => row \in Row, Transition(d, from, to, row), Absent \notin from
      PROVE  \A e \in Deployments : RowQuiet(e)
  <2>1. CASE rows' = rows
    BY <2>1
  <2>2. CASE /\ rows[d].status \in from
             /\ rows' = [rows EXCEPT ![d] = [row EXCEPT !.status = to]]
    <3>1. ASSUME NEW e \in Deployments, e # d PROVE rows'[e] = rows[e]
      BY <2>2, <3>1 DEF TypeOK
    <3>2. d \in Deployments => rows'[d].status = to /\ rows[d].status # Absent
      BY <1>1, <2>2 DEF TypeOK, Row
    <3> QED
      BY <3>1, <3>2
  <2> QED
    BY <1>1, <2>1, <2>2 DEF Transition
<1>2. ASSUME NEW d \in Deployments, (d \in source /\ Submit(d)) \/ Cancel(d) \/ Retry(d) \/ TimeStep(d)
      PROVE  /\ \A s \in Slots : SlotQuiet(s)
             /\ \A e \in Deployments : RowQuiet(e)
  <2>1. builds' = builds
    BY <1>2 DEF Submit, Cancel, Retry, TimeStep, GrowStale, WaitOver
  <2>2. CASE d \in source /\ Submit(d)
    <3>1. rows'[d] = [NoRow EXCEPT !.status = "QUEUED"] /\ \A e \in Deployments \ {d} : rows'[e] = rows[e]
      BY <2>2 DEF Submit, TypeOK
    <3>2. rows'[d].status = "QUEUED"
      BY <3>1 DEF NoRow
    <3> QED
      BY <2>1, <2>2, <3>1, <3>2
  <2>3. CASE Cancel(d)
    BY <1>0, <1>1, <2>1, <2>3 DEF Cancel, Absent
  <2>4. CASE Retry(d)
    <3>1. [rows[d] EXCEPT !.attempt = 0, !.started = "never", !.waiting = FALSE] \in Row
      BY <1>0 DEF Row
    <3> QED
      BY <1>1, <2>1, <2>4, <3>1 DEF Retry, Absent
  <2>5. CASE TimeStep(d)
    <3>1. \A e \in Deployments : rows'[e].status = rows[e].status
      BY <2>5, <1>0 DEF TimeStep, GrowStale, WaitOver, TypeOK, Row
    <3> QED
      BY <2>1, <3>1
  <2> QED
    BY <1>2, <2>2, <2>3, <2>4, <2>5
<1>3. ASSUME NEW s \in Slots, ClaimStep(s)
      PROVE  /\ \A t \in Slots : SlotQuiet(t)
             /\ \A e \in Deployments : RowQuiet(e)
  <2>1. /\ builds[s].phase \in {"idle", "claiming"}
        /\ \A t \in Slots \ {s} : builds'[t] = builds[t]
        /\ builds'[s].phase \in {"idle", "claiming", "preparing"}
    <3>1. \E b : /\ builds' = [builds EXCEPT ![s] = b]
                /\ b.phase \in {"idle", "claiming", "preparing"}
      BY <1>3 DEF ClaimStep, LockOldest, CommitClaim, LoseClaim, DropClaim, NoBuild
    <3>2. builds[s].phase \in {"idle", "claiming"}
      BY <1>3 DEF ClaimStep, LockOldest, CommitClaim, LoseClaim, DropClaim
    <3> QED
      BY <3>1, <3>2 DEF TypeOK
  <2>2. CASE rows' = rows
    BY <2>1, <2>2
  <2>3. CASE CommitClaim(s) \/ LoseClaim(s)
    <3> DEFINE d == builds[s].dep
    <3>1. builds[s].phase = "claiming" /\ rows' = Claimed(d)
      BY <2>3 DEF CommitClaim, LoseClaim
    <3>2. d \in Deployments /\ rows[d].status = "QUEUED"
      BY <3>1, BusySlot DEF ClaimsAreExclusive
    <3>3. rows'[d].status = "BUILDING" /\ \A e \in Deployments \ {d} : rows'[e] = rows[e]
      BY <3>1, <3>2, <1>0 DEF Claimed, TypeOK, Row
    <3> QED
      BY <2>1, <3>2, <3>3 DEF Absent
  <2> QED
    BY <1>3, <2>2, <2>3 DEF ClaimStep, LockOldest, DropClaim
<1>4. ASSUME NEW s \in Slots,
             Announce(s) \/ RecordRejection(s) \/ RecordSystemError(s) \/ FailToRecord(s) \/ Finish(s)
      PROVE  /\ \A t \in Slots : SlotQuiet(t)
             /\ \A e \in Deployments : RowQuiet(e)
  <2>1. /\ builds[s].phase \in {"announcing", "rejected", "broken", "cleaning"}
        /\ \A t \in Slots \ {s} : builds'[t] = builds[t]
        /\ builds'[s].phase \in {"idle", "cleaning"}
    <3>1. CASE Finish(s)
      BY <3>1 DEF Finish, TypeOK, NoBuild
    <3> QED
      BY <1>4, <3>1, EnterEffect DEF Announce, RecordRejection, RecordSystemError, FailToRecord
  <2>2. CASE Announce(s) \/ FailToRecord(s) \/ Finish(s)
    BY <2>1, <2>2 DEF Announce, FailToRecord, Finish
  <2>3. CASE RecordRejection(s) \/ RecordSystemError(s)
    <3>1. builds[s].dep \in Deployments
      BY <2>1, BusySlot
    <3>2. Requeued(builds[s].dep) \in Row /\ rows[builds[s].dep] \in Row
      BY <3>1, <1>0, RequeuedType
    <3>3. \A e \in Deployments : RowQuiet(e)
      BY <1>1, <2>3, <3>2 DEF RecordRejection, RecordSystemError, Absent
    <3> QED
      BY <2>1, <3>3
  <2> QED
    BY <1>4, <2>2, <2>3
<1>5. ASSUME NEW w \in Workers, SweepStep(w) \/ Stop(w) \/ OpenPolling(w)
      PROVE  /\ \A t \in Slots : SlotQuiet(t)
             /\ \A e \in Deployments : RowQuiet(e)
  <2>1. builds' = builds
    BY <1>5 DEF SweepStep, BeginSweep, SweepRow, AbortSweep, Stop, OpenPolling
  <2>2. ASSUME NEW p \in sweeps[w], SweepRow(w, p) PROVE \A e \in Deployments : RowQuiet(e)
    <3>1. p[1] \in Deployments
      BY DEF TypeOK
    <3>2. Requeued(p[1]) \in Row /\ rows[p[1]] \in Row
      BY <3>1, <1>0, RequeuedType
    <3> QED
      BY <1>1, <2>2, <3>2 DEF SweepRow, Absent
  <2> QED
    BY <1>5, <2>1, <2>2 DEF SweepStep, BeginSweep, AbortSweep, Stop, OpenPolling
<1> QED
  BY <1>2, <1>3, <1>4, <1>5 DEF QuietStep

\* A cleanup that goes on to its next row, its next page or its end has a shape.
LEMMA NextRowType ==
  ASSUME RetentionTypeOK, NEW w \in Workers, NEW d \in cleaner[w].batch, NextRow(w, d)
  PROVE  /\ cleaner' \in [Workers -> Cleaner]
         /\ \A v \in Workers \ {w} : cleaner'[v] = cleaner[v]
         /\ cleaner'[w].batch \subseteq cleaner[w].batch
         /\ cleaner'[w].phase # "marking"
<1> DEFINE c == cleaner[w]
<1>1. c \in Cleaner
  BY DEF RetentionTypeOK
<1>2. /\ [c EXCEPT !.phase = "listing", !.batch = @ \ {d}, !.listed = {}] \in Cleaner
      /\ [c EXCEPT !.phase = "listing", !.batch = @ \ {d}, !.listed = {}].batch \subseteq c.batch
      /\ [c EXCEPT !.phase = "listing", !.batch = @ \ {d}, !.listed = {}].phase = "listing"
  BY <1>1 DEF Cleaner, CleanerPhases
<1>3. /\ [NewCleanup EXCEPT !.after = c.after] \in Cleaner
      /\ [NewCleanup EXCEPT !.after = c.after].batch = {}
      /\ [NewCleanup EXCEPT !.after = c.after].phase = "paging"
  BY <1>1 DEF Cleaner, CleanerPhases, NewCleanup, NoCleanup
<1>4. NoCleanup \in Cleaner /\ NoCleanup.batch = {} /\ NoCleanup.phase = "idle"
  BY DEF Cleaner, CleanerPhases, NoCleanup
<1>5. \E x \in Cleaner : /\ cleaner' = [cleaner EXCEPT ![w] = x]
                         /\ x.batch \subseteq c.batch
                         /\ x.phase # "marking"
  BY <1>2, <1>3, <1>4 DEF NextRow
<1> QED
  BY <1>5 DEF RetentionTypeOK

LEMMA InitRetentionType == RetentionInit => RetentionTypeOK
  BY BuildQueueAssumption DEF RetentionInit, RetentionTypeOK, NoCleanup, Cleaner, CleanerPhases

\* What a step of the slots does to them, one at a time.
LEMMA SlotType ==
  ASSUME TypeOK, RetentionTypeOK, NEW s \in Slots,
         Fetch(s) \/ BuildFetched(s) \/ PublishSite(s) \/ BreakBuild(s)
           \/ \E f \in Files : Put(s, f)
  PROVE  RetentionTypeOK'
<1> DEFINE d == builds[s].dep
<1>1. builds[s].phase \in {"preparing", "uploading", "announcing"} => d \in Deployments
  BY BusySlot
<1>2. CASE Fetch(s)
  BY <1>2 DEF Fetch, vars, storage, RetentionTypeOK
<1>3. CASE \E f \in Files : Put(s, f)
  BY <1>1, <1>3 DEF Put, vars, RetentionTypeOK
<1>4. CASE BuildFetched(s)
  <2>1. s \notin fetched' /\ put[s] = {} /\ \A t \in Slots \ {s} : builds'[t] = builds[t]
    BY <1>4, EnterEffect DEF BuildFetched, Prepare, Reject, RetentionTypeOK
  <2> QED
    BY <1>4, <2>1 DEF BuildFetched, storage, RetentionTypeOK
<1>5. CASE PublishSite(s)
  <2>1. \A t \in Slots \ {s} : builds'[t] = builds[t]
    BY <1>5, EnterEffect DEF PublishSite, Publish
  <2> QED
    BY <1>5, <2>1 DEF PublishSite, Forget, storage, RetentionTypeOK
<1>6. CASE BreakBuild(s)
  <2>1. \A t \in Slots \ {s} : builds'[t] = builds[t]
    BY <1>6, EnterEffect DEF BreakBuild, Break
  <2>2. strays' \subseteq Workers \X Deployments \X Files
    <3>1. d \in Deployments
      BY <1>6, <1>1 DEF BreakBuild, Break, Enter
    <3>2. s[1] \in Workers
      BY DEF Slots
    <3>3. \A failed : Leftover(s, failed) \subseteq Workers \X Deployments \X Files
      BY <3>1, <3>2 DEF Leftover
    <3> QED
      BY <1>6, <3>3 DEF BreakBuild, RetentionTypeOK
  <2> QED
    BY <1>6, <2>1, <2>2 DEF BreakBuild, Forget, storage, RetentionTypeOK
<1> QED
  BY <1>2, <1>3, <1>4, <1>5, <1>6

\* What a step of a cleanup does to it.
LEMMA CleanerType ==
  ASSUME RetentionTypeOK, NEW w \in Workers,
         BeginCleanup(w) \/ ReadPage(w) \/ FailPage(w)
           \/ \E d \in cleaner[w].batch : RowStep(w, d)
  PROVE  /\ cleaner' \in [Workers -> Cleaner]
         /\ site' \in [Deployments -> SUBSET Files]
         /\ source' \in SUBSET Deployments
         /\ \A v \in Workers \ {w} : cleaner'[v] = cleaner[v]
         /\ UNCHANGED <<builds, worker, sweeps, horizon, uploads>>
<1>1. cleaner[w] \in Cleaner /\ NoCleanup \in Cleaner /\ NewCleanup \in Cleaner
  BY DEF RetentionTypeOK, NoCleanup, NewCleanup, Cleaner, CleanerPhases
<1>2. CASE BeginCleanup(w) \/ FailPage(w)
  BY <1>1, <1>2 DEF BeginCleanup, FailPage, vars, storage, RetentionTypeOK
<1>3. CASE ReadPage(w)
  <2> DEFINE page == FirstOf(Expired(cleaner[w].after))
  <2>1. page \subseteq Deployments /\ Deployments \subseteq Nat
    BY DEF FirstOf, Expired, Deployments
  <2>2. \A last \in page :
          [ phase |-> "listing", after |-> last, batch |-> page,
            more |-> Cardinality(page) = ExpireBatch, listed |-> {} ] \in Cleaner
    BY <2>1 DEF Cleaner, CleanerPhases
  <2>3. \E c \in Cleaner : cleaner' = [cleaner EXCEPT ![w] = c]
    BY <1>1, <1>3, <2>2 DEF ReadPage
  <2> QED
    BY <1>3, <2>3 DEF ReadPage, vars, storage, RetentionTypeOK
<1>4. ASSUME NEW d \in cleaner[w].batch, RowStep(w, d)
      PROVE  /\ cleaner' \in [Workers -> Cleaner]
             /\ site' \in [Deployments -> SUBSET Files]
             /\ source' \in SUBSET Deployments
             /\ \A v \in Workers \ {w} : cleaner'[v] = cleaner[v]
             /\ UNCHANGED <<builds, worker, sweeps, horizon, uploads>>
  <2>0. d \in Deployments /\ site[d] \subseteq Files
    BY BatchType DEF RetentionTypeOK
  <2>1. CASE ListSite(w, d)
    <3>1. [cleaner[w] EXCEPT !.phase = "deleting", !.listed = site[d]] \in Cleaner
      BY <1>1, <2>0 DEF Cleaner, CleanerPhases
    <3>2. cleaner' = [cleaner EXCEPT ![w] = [cleaner[w] EXCEPT !.phase = "deleting", !.listed = site[d]]]
      BY <2>1 DEF ListSite, RetentionTypeOK
    <3> QED
      BY <2>1, <3>1, <3>2 DEF ListSite, vars, storage, RetentionTypeOK
  <2>2. CASE DeleteSite(w, d)
    <3>1. [cleaner[w] EXCEPT !.phase = "source", !.listed = {}] \in Cleaner
      BY <1>1 DEF Cleaner, CleanerPhases
    <3>2. cleaner' = [cleaner EXCEPT ![w] = [cleaner[w] EXCEPT !.phase = "source", !.listed = {}]]
      BY <2>2 DEF DeleteSite, RetentionTypeOK
    <3> QED
      BY <2>0, <2>2, <3>1, <3>2 DEF DeleteSite, vars, RetentionTypeOK
  <2>3. CASE DeleteSource(w, d)
    <3>1. [cleaner[w] EXCEPT !.phase = "marking"] \in Cleaner
      BY <1>1 DEF Cleaner, CleanerPhases
    <3>2. cleaner' = [cleaner EXCEPT ![w] = [cleaner[w] EXCEPT !.phase = "marking"]]
      BY <2>3 DEF DeleteSource, RetentionTypeOK
    <3> QED
      BY <2>3, <3>1, <3>2 DEF DeleteSource, vars, RetentionTypeOK
  <2>4. CASE Mark(w, d)
    BY <2>4, NextRowType DEF Mark, MarkExpired, vars, storage, RetentionTypeOK
  <2>5. CASE FailRow(w, d)
    <3>1. site' \in [Deployments -> SUBSET Files] /\ source' \in SUBSET Deployments
      BY <2>5 DEF FailRow, storage, RetentionTypeOK
    <3> QED
      BY <2>5, <3>1, NextRowType DEF FailRow, vars
  <2> QED
    BY <1>4, <2>1, <2>2, <2>3, <2>4, <2>5 DEF RowStep
<1> QED
  BY <1>2, <1>3, <1>4

\* Every step keeps what the variables may be.
LEMMA NextRetentionType ==
  TypeOK /\ ClaimsAreExclusive /\ RetentionTypeOK /\ [RetentionNext]_<<vars, retention>>
    => RetentionTypeOK'
<1> SUFFICES ASSUME TypeOK, ClaimsAreExclusive, RetentionTypeOK,
                    [RetentionNext]_<<vars, retention>>
             PROVE  RetentionTypeOK'
  OBVIOUS
<1>1. CASE QuietStep
  BY <1>1, QuietEffect DEF QuietStep, retention, storage, uploads, RetentionTypeOK
<1>2. ASSUME NEW d \in Deployments, StoreSource(d) PROVE RetentionTypeOK'
  BY <1>2 DEF StoreSource, vars, uploads, RetentionTypeOK
<1>3. ASSUME NEW p \in strays, StrayPut(p[1], p[2], p[3]) PROVE RetentionTypeOK'
  <2>1. p[2] \in Deployments /\ p[3] \in Files
    BY DEF RetentionTypeOK
  <2> QED
    BY <1>3, <2>1 DEF StrayPut, vars, RetentionTypeOK
<1>4. ASSUME NEW w \in Workers,
             BeginCleanup(w) \/ ReadPage(w) \/ FailPage(w)
               \/ \E d \in cleaner[w].batch : RowStep(w, d)
      PROVE  RetentionTypeOK'
  BY <1>4, CleanerType DEF uploads, RetentionTypeOK
<1>5. ASSUME NEW w \in Workers, StartWorker(w) PROVE RetentionTypeOK'
  <2>1. NewCleanup \in Cleaner
    BY DEF NoCleanup, NewCleanup, Cleaner, CleanerPhases
  <2> QED
    BY <1>5, <2>1 DEF StartWorker, Start, storage, uploads, RetentionTypeOK
<1>6. ASSUME NEW w \in Workers, EndWorker(w) PROVE RetentionTypeOK'
  <2>1. NoCleanup \in Cleaner
    BY DEF NoCleanup, Cleaner, CleanerPhases
  <2>2. \A s \in Slots : s[1] # w => builds'[s] = builds[s]
    BY <1>6 DEF EndWorker, Exit, Crash, TypeOK
  <2> QED
    BY <1>6, <2>1, <2>2 DEF EndWorker, storage, RetentionTypeOK
<1>7. CASE FallDue
  BY <1>7, BuildQueueAssumption DEF FallDue, vars, storage, uploads, RetentionTypeOK
<1>8. CASE UNCHANGED <<vars, retention>>
  BY <1>8 DEF vars, retention, storage, uploads, RetentionTypeOK
<1> QED
  BY <1>1, <1>2, <1>3, <1>4, <1>5, <1>6, <1>7, <1>8, StepCases, SlotType

-------------------------------------------------------------------------------
(***************************************************************************)
(* The promises about storage. They rest on Custody: a cleanup only has    *)
(* due rows in its hands, an upload's puts stay until their row is due,    *)
(* and an archive that was deleted to be marked is not stored again.       *)
(***************************************************************************)

RetentionInv ==
  RetentionTypeOK /\ Custody /\ LiveSitesAreWhole /\ SourcesAreKept /\ ExpiredSourcesAreGone

LEMMA InitRetentionInv == RetentionInit => RetentionInv
<1> SUFFICES ASSUME RetentionInit PROVE RetentionInv
  OBVIOUS
<1>1. /\ \A d \in Deployments : rows[d].status = Absent
      /\ \A s \in Slots : builds[s].phase = "idle"
      /\ \A w \in Workers : cleaner[w].batch = {}
  BY DEF RetentionInit, Init, NoRow, NoBuild, NoCleanup
<1> QED
  BY <1>1, InitRetentionType
     DEF RetentionInv, Custody, BatchesAreDue, PutsStay, MarkedSourcesAreGone,
         LiveSitesAreWhole, SourcesAreKept, ExpiredSourcesAreGone, Absent

\* A step of the queue alone.
LEMMA QuietKeeps ==
  ASSUME TypeOK, ClaimsAreExclusive, RetentionInv, QuietStep
  PROVE  Custody' /\ LiveSitesAreWhole' /\ SourcesAreKept' /\ ExpiredSourcesAreGone'
<1> USE DEF RetentionInv, Custody
<1>1. UNCHANGED <<source, site, horizon, fetched, put, strays, cleaner>>
  BY DEF QuietStep, retention, storage, uploads
<1>2. \A d \in Deployments :
        /\ rows[d].status # Absent => rows'[d].status # Absent
        /\ rows'[d].status \in {"READY", "EXPIRED"} => rows'[d].status = rows[d].status
        /\ rows'[d].status # Absent => rows[d].status # Absent \/ d \in source
  BY QuietEffect DEF Absent
<1>3. BatchesAreDue'
  BY <1>1, <1>2, BatchType DEF BatchesAreDue, Due
<1>4. PutsStay'
  BY <1>1, QuietEffect DEF PutsStay, Due
<1>5. MarkedSourcesAreGone'
  BY <1>1 DEF MarkedSourcesAreGone, Turn
<1>6. LiveSitesAreWhole' /\ ExpiredSourcesAreGone' /\ SourcesAreKept'
  BY <1>1, <1>2 DEF LiveSitesAreWhole, ExpiredSourcesAreGone, SourcesAreKept, Due
<1> QED
  BY <1>3, <1>4, <1>5, <1>6

\* A step of a slot with the bucket.
LEMMA SlotKeeps ==
  ASSUME TypeOK, RetentionInv, NEW s \in Slots,
         Fetch(s) \/ BuildFetched(s) \/ PublishSite(s) \/ BreakBuild(s)
           \/ \E f \in Files : Put(s, f)
  PROVE  Custody' /\ LiveSitesAreWhole' /\ SourcesAreKept' /\ ExpiredSourcesAreGone'
<1> USE DEF RetentionInv, Custody
<1> DEFINE d == builds[s].dep
<1>0. d \in Deployments
  BY BusySlot DEF Fetch, Put, BuildFetched, Prepare, Reject, PublishSite, Publish,
                  BreakBuild, Break, Enter
<1>1. /\ UNCHANGED <<source, horizon, cleaner>>
      /\ \A e \in Deployments : site[e] \subseteq site'[e] /\ site'[e] \subseteq Files
      /\ \A t \in Slots \ {s} : builds'[t] = builds[t] /\ put'[t] = put[t]
      /\ builds'[s].dep = d
      /\ builds'[s].phase = "uploading" =>
           \/ put'[s] = {}
           \/ builds[s].phase = "uploading" /\ put'[s] \subseteq put[s] \cup site'[d]
  <2>1. CASE Fetch(s)
    BY <2>1 DEF Fetch, vars, storage, RetentionTypeOK
  <2>2. ASSUME NEW f \in Files, Put(s, f)
        PROVE  /\ UNCHANGED <<source, horizon, cleaner, builds>>
               /\ put' = [put EXCEPT ![s] = @ \cup {f}]
               /\ site' = [site EXCEPT ![d] = @ \cup {f}]
               /\ builds[s].phase = "uploading"
    BY <2>2 DEF Put, vars
  <2>3. CASE \E f \in Files : Put(s, f)
    BY <1>0, <2>2, <2>3 DEF RetentionTypeOK
  <2>4. CASE BuildFetched(s)
    BY <2>4, EnterEffect DEF BuildFetched, Prepare, Reject, storage, RetentionTypeOK
  <2>5. CASE PublishSite(s) \/ BreakBuild(s)
    BY <2>5, EnterEffect DEF PublishSite, Publish, BreakBuild, Break, Forget, storage, RetentionTypeOK
  <2> QED
    BY <2>1, <2>3, <2>4, <2>5
<1>2. \A e \in Deployments :
        /\ rows[e].status # Absent <=> rows'[e].status # Absent
        /\ rows'[e].status = "EXPIRED" => rows[e].status = "EXPIRED"
        /\ rows'[e].status = "READY" =>
             rows[e].status = "READY" \/ (PublishSite(s) /\ e = d)
  <2>1. CASE PublishSite(s)
    <3>1. Transition(d, {"BUILDING"}, "READY", rows[d])
      BY <2>1 DEF PublishSite, Publish
    <3>2. /\ \A e \in Deployments \ {d} : rows'[e] = rows[e]
          /\ \/ rows'[d] = rows[d]
             \/ rows'[d].status = "READY" /\ rows[d].status = "BUILDING"
      <4>1. rows[d] \in Row
        BY <1>0 DEF TypeOK
      <4>2. [rows[d] EXCEPT !.status = "READY"].status = "READY"
        BY <4>1 DEF Row
      <4>3. CASE rows' = rows
        BY <4>3
      <4>4. CASE /\ rows[d].status = "BUILDING"
                 /\ rows' = [rows EXCEPT ![d] = [rows[d] EXCEPT !.status = "READY"]]
        BY <1>0, <4>2, <4>4 DEF TypeOK
      <4> QED
        BY <3>1, <4>3, <4>4 DEF Transition
    <3> QED
      BY <2>1, <3>2 DEF Absent
  <2>2. CASE rows' = rows
    BY <2>2
  <2> QED
    BY <2>1, <2>2 DEF Fetch, BuildFetched, Prepare, Reject, BreakBuild, Break, Put, vars
<1>3. PublishSite(s) => builds[s].phase = "uploading" /\ put[s] = Files
  BY DEF PublishSite, Publish, Enter
<1>4. PutsStay'
  <2>1. ASSUME NEW t \in Slots, builds'[t].phase = "uploading", ~Due(builds[t].dep)'
        PROVE  put'[t] \subseteq site'[builds'[t].dep]
    <3>1. CASE t = s
      BY <1>0, <1>1, <2>1, <3>1 DEF PutsStay, Due
    <3>2. CASE t # s
      BY <1>1, <2>1, <3>2, BusySlot DEF PutsStay, Due
    <3> QED
      BY <3>1, <3>2
  <2> QED
    BY <2>1 DEF PutsStay
<1>5. BatchesAreDue'
  BY <1>1, <1>2, BatchType DEF BatchesAreDue, Due
<1>6. MarkedSourcesAreGone'
  BY <1>1 DEF MarkedSourcesAreGone, Turn
<1>7. LiveSitesAreWhole'
  <2>1. ASSUME NEW e \in Deployments, rows'[e].status = "READY", ~Due(e)'
        PROVE  site'[e] = Files
    <3>1. CASE rows[e].status = "READY"
      BY <1>1, <2>1, <3>1 DEF LiveSitesAreWhole, Due
    <3>2. CASE PublishSite(s) /\ e = d
      BY <1>1, <1>3, <2>1, <3>2 DEF PutsStay, Due
    <3> QED
      BY <1>2, <2>1, <3>1, <3>2
  <2> QED
    BY <2>1 DEF LiveSitesAreWhole
<1>8. SourcesAreKept' /\ ExpiredSourcesAreGone'
  BY <1>1, <1>2 DEF SourcesAreKept, ExpiredSourcesAreGone, Due
<1> QED
  BY <1>4, <1>5, <1>6, <1>7, <1>8

\* A step of a cleanup on a row: it takes away from due rows only.
LEMMA RowKeeps ==
  ASSUME TypeOK, RetentionInv, NEW w \in Workers, NEW d \in cleaner[w].batch, RowStep(w, d)
  PROVE  Custody' /\ LiveSitesAreWhole' /\ SourcesAreKept' /\ ExpiredSourcesAreGone'
<1> USE DEF RetentionInv, Custody
<1>0. d \in Deployments /\ Due(d) /\ rows[d].status # Absent
  BY BatchType DEF BatchesAreDue
<1>1. /\ UNCHANGED <<builds, horizon, uploads>>
      /\ \A v \in Workers \ {w} : cleaner'[v] = cleaner[v]
      /\ cleaner' \in [Workers -> Cleaner]
  BY CleanerType
<1>2. /\ source' \subseteq source /\ source \subseteq source' \cup {d}
      /\ \A e \in Deployments \ {d} : site'[e] = site[e]
  BY <1>0 DEF RowStep, ListSite, DeleteSite, DeleteSource, Mark, FailRow, storage, RetentionTypeOK
<1>3. /\ cleaner'[w].batch \subseteq cleaner[w].batch
      /\ cleaner'[w].phase = "marking" => d \notin source' /\ cleaner'[w].batch = cleaner[w].batch
  <2>1. CASE Mark(w, d) \/ FailRow(w, d)
    BY <2>1, NextRowType DEF Mark, FailRow
  <2>2. CASE ListSite(w, d) \/ DeleteSite(w, d) \/ DeleteSource(w, d)
    <3>1. cleaner[w] \in Cleaner
      BY DEF RetentionTypeOK
    <3> QED
      BY <2>2, <3>1 DEF ListSite, DeleteSite, DeleteSource, RetentionTypeOK, Cleaner
  <2> QED
    BY <2>1, <2>2 DEF RowStep
<1>4. Turn(w, d)
  BY DEF RowStep, ListSite, DeleteSite, DeleteSource, Mark, FailRow
<1>5. \A e \in Deployments :
        \/ rows'[e] = rows[e]
        \/ e = d /\ rows'[e].status = "EXPIRED" /\ d \notin source
  <2>1. CASE Mark(w, d) /\ MarkExpired(d)
    <3>1. rows[d] \in Row
      BY <1>0 DEF TypeOK
    <3>2. [rows[d] EXCEPT !.status = "EXPIRED"].status = "EXPIRED"
      BY <3>1 DEF Row
    <3>3. d \notin source
      BY <2>1 DEF Mark, MarkedSourcesAreGone
    <3> QED
      BY <1>0, <2>1, <3>2, <3>3 DEF MarkExpired, Transition, TypeOK
  <2>2. CASE rows' = rows
    BY <2>2
  <2> QED
    BY <2>1, <2>2 DEF RowStep, ListSite, DeleteSite, DeleteSource, Mark, FailRow, vars
<1>6. BatchesAreDue'
  <2>1. ASSUME NEW v \in Workers, NEW e \in cleaner'[v].batch PROVE e \in cleaner[v].batch
    BY <1>1, <1>3, <2>1
  <2>2. \A v \in Workers : \A e \in cleaner'[v].batch : Due(e)' /\ rows'[e].status # Absent
    BY <1>1, <1>5, <2>1, BatchType DEF BatchesAreDue, Due, Absent
  <2> QED
    BY <2>2 DEF BatchesAreDue
<1>7. PutsStay'
  <2>1. ASSUME NEW s \in Slots, builds'[s].phase = "uploading", ~Due(builds[s].dep)'
        PROVE  put'[s] \subseteq site'[builds'[s].dep]
    <3>1. builds[s].dep # d /\ builds[s].dep \in Deployments
      BY <1>0, <1>1, <2>1, BusySlot DEF Due
    <3> QED
      BY <1>1, <1>2, <2>1, <3>1 DEF PutsStay, Due, uploads
  <2> QED
    BY <1>1, <2>1 DEF PutsStay
<1>8. MarkedSourcesAreGone'
  <2>1. ASSUME NEW v \in Workers, NEW e \in cleaner'[v].batch,
               Turn(v, e)', cleaner'[v].phase = "marking"
        PROVE  e \notin source'
    <3>1. CASE v # w
      BY <1>1, <1>2, <2>1, <3>1 DEF MarkedSourcesAreGone, Turn
    <3>2. CASE v = w
      <4>1. e = d
        BY <1>3, <1>4, <2>1, <3>2, BatchType DEF Turn, Deployments
      <4> QED
        BY <1>3, <2>1, <3>2, <4>1
    <3> QED
      BY <3>1, <3>2
  <2> QED
    BY <2>1 DEF MarkedSourcesAreGone
<1>9. LiveSitesAreWhole' /\ SourcesAreKept' /\ ExpiredSourcesAreGone'
  BY <1>0, <1>1, <1>2, <1>5 DEF LiveSitesAreWhole, SourcesAreKept, ExpiredSourcesAreGone, Due, Absent
<1> QED
  BY <1>6, <1>7, <1>8, <1>9

\* The other steps of a cleanup: it begins, reads a page of due rows, or ends.
LEMMA CleanupKeeps ==
  ASSUME TypeOK, RetentionInv, NEW w \in Workers,
         BeginCleanup(w) \/ ReadPage(w) \/ FailPage(w) \/ StartWorker(w) \/ EndWorker(w)
  PROVE  Custody' /\ LiveSitesAreWhole' /\ SourcesAreKept' /\ ExpiredSourcesAreGone'
<1> USE DEF RetentionInv, Custody
<1>1. /\ UNCHANGED <<rows, source, site, horizon>>
      /\ \A v \in Workers \ {w} : cleaner'[v] = cleaner[v]
      /\ cleaner'[w].phase # "marking"
      /\ cleaner'[w].batch # {} => ReadPage(w)
  <2>1. CASE ReadPage(w)
    BY <2>1 DEF ReadPage, vars, storage, RetentionTypeOK, NoCleanup
  <2>2. CASE BeginCleanup(w) \/ FailPage(w) \/ StartWorker(w) \/ EndWorker(w)
    BY <2>2 DEF BeginCleanup, FailPage, StartWorker, Start, EndWorker, Exit, Crash,
                vars, storage, RetentionTypeOK, NoCleanup, NewCleanup
  <2> QED
    BY <2>1, <2>2
<1>2. ReadPage(w) => \A d \in cleaner'[w].batch : Due(d) /\ rows[d].status # Absent
  <2>1. \A after : \A d \in FirstOf(Expired(after)) : Due(d) /\ rows[d].status # Absent
    BY DEF FirstOf, Expired, Expirable, Absent
  <2> QED
    BY <2>1 DEF ReadPage, RetentionTypeOK, NoCleanup
<1>3. BatchesAreDue'
  BY <1>1, <1>2 DEF BatchesAreDue, Due
<1>4. PutsStay'
  <2>1. ASSUME NEW s \in Slots, builds'[s].phase = "uploading"
        PROVE  builds'[s] = builds[s] /\ (put'[s] = put[s] \/ put'[s] = {})
    BY <2>1 DEF BeginCleanup, ReadPage, FailPage, StartWorker, Start, EndWorker, Exit, Crash,
                vars, uploads, NoBuild
  <2> QED
    BY <1>1, <2>1 DEF PutsStay, Due
<1>5. MarkedSourcesAreGone'
  BY <1>1 DEF MarkedSourcesAreGone, Turn
<1>6. LiveSitesAreWhole' /\ SourcesAreKept' /\ ExpiredSourcesAreGone'
  BY <1>1 DEF LiveSitesAreWhole, SourcesAreKept, ExpiredSourcesAreGone, Due
<1> QED
  BY <1>3, <1>4, <1>5, <1>6

\* A step that only adds to the bucket, or lets a row fall due.
LEMMA AdditionKeeps ==
  ASSUME TypeOK, RetentionInv,
         \/ \E d \in Deployments : StoreSource(d)
         \/ \E p \in strays : StrayPut(p[1], p[2], p[3])
         \/ FallDue
  PROVE  Custody' /\ LiveSitesAreWhole' /\ SourcesAreKept' /\ ExpiredSourcesAreGone'
<1> USE DEF RetentionInv, Custody
<1>1. ASSUME NEW d \in Deployments, StoreSource(d)
      PROVE  Custody' /\ LiveSitesAreWhole' /\ SourcesAreKept' /\ ExpiredSourcesAreGone'
  <2>1. /\ UNCHANGED <<rows, builds, site, horizon, put, cleaner>>
        /\ source' = source \cup {d} /\ rows[d].status = Absent
    BY <1>1 DEF StoreSource, vars, uploads
  <2>2. BatchesAreDue' /\ PutsStay' /\ LiveSitesAreWhole'
    BY <2>1 DEF BatchesAreDue, PutsStay, LiveSitesAreWhole, Due
  <2>3. MarkedSourcesAreGone'
    BY <2>1 DEF MarkedSourcesAreGone, BatchesAreDue, Turn
  <2>4. SourcesAreKept' /\ ExpiredSourcesAreGone'
    BY <2>1 DEF SourcesAreKept, ExpiredSourcesAreGone, Due, Absent
  <2> QED
    BY <2>2, <2>3, <2>4
<1>2. ASSUME NEW p \in strays, StrayPut(p[1], p[2], p[3])
      PROVE  Custody' /\ LiveSitesAreWhole' /\ SourcesAreKept' /\ ExpiredSourcesAreGone'
  <2>1. p[2] \in Deployments /\ p[3] \in Files
    BY DEF RetentionTypeOK
  <2>2. /\ UNCHANGED <<rows, builds, source, horizon, put, cleaner>>
        /\ \A e \in Deployments : site[e] \subseteq site'[e] /\ site'[e] \subseteq Files
    BY <1>2, <2>1 DEF StrayPut, vars, RetentionTypeOK
  <2>3. BatchesAreDue' /\ MarkedSourcesAreGone' /\ SourcesAreKept' /\ ExpiredSourcesAreGone'
    BY <2>2 DEF BatchesAreDue, MarkedSourcesAreGone, SourcesAreKept, ExpiredSourcesAreGone, Turn, Due
  <2>4. PutsStay'
    BY <2>2, BusySlot DEF PutsStay, Due
  <2>5. LiveSitesAreWhole'
    BY <2>2 DEF LiveSitesAreWhole, Due
  <2> QED
    BY <2>3, <2>4, <2>5
<1>3. ASSUME FallDue
      PROVE  Custody' /\ LiveSitesAreWhole' /\ SourcesAreKept' /\ ExpiredSourcesAreGone'
  <2>1. /\ UNCHANGED <<rows, builds, source, site, put, cleaner>>
        /\ \A d \in Deployments : Due(d) => Due(d)'
    BY <1>3 DEF FallDue, vars, storage, uploads, Due, Deployments, RetentionTypeOK
  <2>2. BatchesAreDue' /\ MarkedSourcesAreGone' /\ SourcesAreKept' /\ ExpiredSourcesAreGone'
    BY <2>1, BatchType
       DEF BatchesAreDue, MarkedSourcesAreGone, SourcesAreKept, ExpiredSourcesAreGone, Turn
  <2>3. PutsStay' /\ LiveSitesAreWhole'
    BY <2>1, BusySlot DEF PutsStay, LiveSitesAreWhole
  <2> QED
    BY <2>2, <2>3
<1> QED
  BY <1>1, <1>2, <1>3

LEMMA NextRetentionInv ==
  TypeOK /\ ClaimsAreExclusive /\ RetentionInv /\ [RetentionNext]_<<vars, retention>>
    => RetentionInv'
<1> SUFFICES ASSUME TypeOK, ClaimsAreExclusive, RetentionInv,
                    [RetentionNext]_<<vars, retention>>
             PROVE  RetentionInv'
  OBVIOUS
<1>1. RetentionTypeOK'
  BY NextRetentionType DEF RetentionInv
<1>2. CASE RetentionNext
  BY <1>1, <1>2, StepCases, QuietKeeps, SlotKeeps, RowKeeps, CleanupKeeps, AdditionKeeps
     DEF RetentionInv
<1>3. CASE UNCHANGED <<vars, retention>>
  BY <1>1, <1>3
     DEF vars, retention, storage, uploads, RetentionInv, Custody, BatchesAreDue, PutsStay,
         MarkedSourcesAreGone, LiveSitesAreWhole, SourcesAreKept, ExpiredSourcesAreGone, Turn, Due
<1> QED
  BY <1>2, <1>3

\* The queue composed with storage and cleanups is still the queue: every promise
\* proved of BuildQueue holds here, too.
THEOREM RetentionIsQueue == RetentionSpec => Spec /\ []RetentionInv
<1>1. RetentionInit => Init /\ RetentionInv
  BY InitRetentionInv DEF RetentionInit
<1>2. RetentionInv /\ [RetentionNext]_<<vars, retention>> => [Next]_vars
  BY QueueStep DEF RetentionInv
<1>3. Init => TypeOK /\ ClaimsAreExclusive
  BY InitType, InitClaims
<1>4. TypeOK /\ ClaimsAreExclusive /\ [Next]_vars => TypeOK' /\ ClaimsAreExclusive'
  BY NextType, NextClaims
<1> QED
  BY <1>1, <1>2, <1>3, <1>4, NextRetentionInv, PTL DEF RetentionSpec, Spec

\* The variables of storage and cleanups keep their types.
THEOREM RetentionTypeCorrect == RetentionSpec => []RetentionTypeOK
<1>1. RetentionInv => RetentionTypeOK
  BY DEF RetentionInv
<1> QED
  BY <1>1, RetentionIsQueue, PTL

\* What is READY and not yet due is there in full.
THEOREM LiveSitesStayWhole == RetentionSpec => []LiveSitesAreWhole
<1>1. RetentionInv => LiveSitesAreWhole
  BY DEF RetentionInv
<1> QED
  BY <1>1, RetentionIsQueue, PTL

\* Only what is due is in a cleanup's hands, the puts of an upload stay until then,
\* and an archive that a cleanup has deleted is not stored again.
THEOREM CustodyHolds == RetentionSpec => []Custody
<1>1. RetentionInv => Custody
  BY DEF RetentionInv
<1> QED
  BY <1>1, RetentionIsQueue, PTL

\* What is not yet due can be built, retried and redeployed: its archive is there.
THEOREM SourcesStay == RetentionSpec => []SourcesAreKept
<1>1. RetentionInv => SourcesAreKept
  BY DEF RetentionInv
<1> QED
  BY <1>1, RetentionIsQueue, PTL

\* What has expired has no archive left, and never gets one again.
THEOREM ExpiredSourcesStayGone == RetentionSpec => []ExpiredSourcesAreGone
<1>1. RetentionInv => ExpiredSourcesAreGone
  BY DEF RetentionInv
<1> QED
  BY <1>1, RetentionIsQueue, PTL

\* With its site and its archive in storage and the cleanup at work, a deployment lives
\* the lifecycle that the queue promises, where builds and sweeps keep to their time.
THEOREM RetentionFollowsLifecycle == ASSUME Punctual PROVE RetentionSpec => ImplementsLifecycle
<1> QED
  BY RetentionIsQueue, QueueImplementsLifecycle, PTL
===============================================================================
