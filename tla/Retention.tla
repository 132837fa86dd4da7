------------------------------ MODULE Retention ------------------------------
(***************************************************************************)
(* What the bucket holds for each deployment, and the hourly cleanup that  *)
(* takes it away: the build queue composed with storage.                   *)
(*                                                                         *)
(*   apps/worker: cleanup.ts, downloadSource (pipeline.ts), uploadSite     *)
(*                (output.ts), the cleanup timer (index.ts)                *)
(*   apps/api:    the source archive of an upload or a redeploy            *)
(*                                                                         *)
(* One action is one request to the bucket or one SQL statement. Every     *)
(* deployment's site is the same set of Files: what they contain does not  *)
(* matter here, only whether they are there.                               *)
(***************************************************************************)
EXTENDS BuildQueue

CONSTANTS
  Files,        \* the objects of a site, compressed twins included
  ExpireBatch   \* EXPIRE_BATCH

ASSUME RetentionAssumption == ExpireBatch \in Nat \ {0}

VARIABLES
  source,   \* deployments whose archive sources/<id>.zip is stored
  site,     \* the objects stored under sites/<id>/
  horizon,  \* how many deployments, the oldest first, are past expires_at
  fetched,  \* slots that have downloaded the archive of their build
  put,      \* what each slot's upload has put so far
  strays,   \* puts of an upload that has failed already, still on their way
  cleaner   \* the cleanup of each worker

storage == <<source, site>>
uploads == <<fetched, put, strays>>
retention == <<storage, horizon, uploads, cleaner>>

CleanerPhases == {"idle", "paging", "listing", "deleting", "source", "marking"}

\* after is the cursor, batch what is left of the page that was read, more
\* whether that page was full, listed the keys about to be deleted.
Cleaner == [ phase : CleanerPhases, after : Nat, batch : SUBSET Deployments,
             more : BOOLEAN, listed : SUBSET Files ]

NoCleanup == [ phase |-> "idle", after |-> 0, batch |-> {}, more |-> FALSE, listed |-> {} ]
NewCleanup == [NoCleanup EXCEPT !.phase = "paging"]

RetentionTypeOK ==
  /\ source \in SUBSET Deployments
  /\ site \in [Deployments -> SUBSET Files]
  /\ horizon \in 0 .. MaxDeployments
  /\ fetched \in SUBSET Slots
  /\ put \in [Slots -> SUBSET Files]
  /\ strays \in SUBSET (Workers \X Deployments \X Files)
  /\ cleaner \in [Workers -> Cleaner]
  /\ \A s \in fetched : builds[s].phase = "preparing"
  /\ \A s \in Slots : put[s] # {} => builds[s].phase = "uploading"

RetentionInit ==
  /\ Init
  /\ source = {}
  /\ site = [d \in Deployments |-> {}]
  /\ horizon = 0
  /\ fetched = {}
  /\ put = [s \in Slots |-> {}]
  /\ strays = {}
  /\ cleaner = [w \in Workers |-> NoCleanup]

\* expires_at < now(). Retention is the same for all, so the rows fall due in
\* the order they were inserted.
Due(d) == d <= horizon

-------------------------------------------------------------------------------
\* The api. It stores the archive first and inserts the row once that is done:
\* an upload puts the file, a redeploy copies another deployment's archive.

StoreSource(d) ==
  /\ rows[d].status = Absent
  /\ d \notin source
  /\ source' = source \cup {d}
  /\ UNCHANGED <<vars, site, horizon, uploads, cleaner>>

\* Variant: the row is inserted before the archive is stored.
Insert_BeforeSource(d) == Submit(d) /\ UNCHANGED retention

Insert(d) == d \in source /\ Submit(d) /\ UNCHANGED retention

-------------------------------------------------------------------------------
\* A build's dealings with the bucket.

\* downloadSource. When there is no archive the request throws, and Break is
\* all that is left to the build.
Fetch(s) ==
  /\ builds[s].phase = "preparing"
  /\ s \notin fetched
  /\ builds[s].dep \in source
  /\ fetched' = fetched \cup {s}
  /\ UNCHANGED <<vars, storage, horizon, put, strays, cleaner>>

Put(s, f) ==
  /\ builds[s].phase = "uploading"
  /\ f \notin put[s]
  /\ put' = [put EXCEPT ![s] = @ \cup {f}]
  /\ site' = [site EXCEPT ![builds[s].dep] = @ \cup {f}]
  /\ UNCHANGED <<vars, source, horizon, fetched, strays, cleaner>>

\* The archive is unpacked and built, or turns out not to be buildable.
BuildFetched(s) ==
  /\ s \in fetched
  /\ Prepare(s) \/ Reject(s)
  /\ fetched' = fetched \ {s}
  /\ UNCHANGED <<storage, horizon, put, strays, cleaner>>

\* Variant: what was put is counted towards the slot's next build, too.
Forget_KeepsPuts(s) == fetched' = fetched \ {s} /\ UNCHANGED put

\* What a slot has fetched and put is its own build's.
Forget(s) == fetched' = fetched \ {s} /\ put' = [put EXCEPT ![s] = {}]

\* Variant: the site is published without waiting for its last put.
PublishSite_Early(s) ==
  /\ put[s] # {}
  /\ Publish(s)
  /\ Forget(s)
  /\ UNCHANGED <<storage, horizon, strays, cleaner>>

\* Promise.all has resolved: every file of the site was put.
PublishSite(s) ==
  /\ put[s] = Files
  /\ Publish(s)
  /\ Forget(s)
  /\ UNCHANGED <<storage, horizon, strays, cleaner>>

\* A build that ends in the middle of its upload ends by one put that failed:
\* the other loops do not hear of it and go on with the rest.
Leftover(s, failed) == {s[1]} \X {builds[s].dep} \X ((Files \ put[s]) \ {failed})

BreakBuild(s) ==
  /\ Break(s)
  /\ Forget(s)
  /\ \/ /\ builds[s].phase = "uploading" => put[s] = Files
        /\ UNCHANGED strays
     \/ /\ builds[s].phase = "uploading"
        /\ \E failed \in Files \ put[s] : strays' = strays \cup Leftover(s, failed)
  /\ UNCHANGED <<storage, horizon, cleaner>>

StrayPut(w, d, f) ==
  /\ <<w, d, f>> \in strays
  /\ strays' = strays \ {<<w, d, f>>}
  /\ \/ site' = [site EXCEPT ![d] = @ \cup {f}]
     \/ UNCHANGED site
  /\ UNCHANGED <<vars, source, horizon, fetched, put, cleaner>>

\* The steps that do not touch the bucket.
PlainBuildStep(s) ==
  /\ \/ Announce(s) \/ RecordRejection(s) \/ RecordSystemError(s)
     \/ FailToRecord(s) \/ Finish(s)
  /\ UNCHANGED retention

-------------------------------------------------------------------------------
\* expireOldDeployments.

\* Variant: the SELECT does not look at expires_at.
Expired_AnyAge(after) == { d \in Deployments : rows[d].status \in Expirable /\ d > after }

\* Variant: without the cursor, the next batch of matches.
Expired_NoCursor(after) == { d \in Deployments : rows[d].status \in Expirable /\ Due(d) }

\* The WHERE clause.
Expired(after) == { d \in Deployments : rows[d].status \in Expirable /\ Due(d) /\ d > after }

\* ORDER BY expires_at, id LIMIT: the oldest of a set.
FirstOf(set) == { d \in set : Cardinality({ e \in set : e <= d }) <= ExpireBatch }

\* Variant: the hourly timer is never set, cleanup runs at startup only.
BeginCleanup_StartupOnly(w) == FALSE /\ UNCHANGED <<vars, retention>>

\* The timer fires. As with sweeps, a worker runs one cleanup at a time here.
BeginCleanup(w) ==
  /\ worker[w] = "polling"
  /\ cleaner[w].phase = "idle"
  /\ cleaner' = [cleaner EXCEPT ![w] = NewCleanup]
  /\ UNCHANGED <<vars, storage, horizon, uploads>>

\* One SELECT: a page of rows to expire, or none, which ends the run. The
\* startup cleanup waits for the startup sweep.
ReadPage(w) ==
  LET page == FirstOf(Expired(cleaner[w].after))
  IN  /\ cleaner[w].phase = "paging"
      /\ worker[w] = "starting" => sweeps[w] = {}
      /\ \/ page = {} /\ cleaner' = [cleaner EXCEPT ![w] = NoCleanup]
         \/ \E last \in page :
              /\ \A d \in page : d <= last
              /\ cleaner' = [cleaner EXCEPT ![w] =
                   [ phase |-> "listing", after |-> last, batch |-> page,
                     more |-> Cardinality(page) = ExpireBatch, listed |-> {} ]]
      /\ UNCHANGED <<vars, storage, horizon, uploads>>

\* The SELECT fails, which ends the run.
FailPage(w) ==
  /\ cleaner[w].phase = "paging"
  /\ cleaner' = [cleaner EXCEPT ![w] = NoCleanup]
  /\ UNCHANGED <<vars, storage, horizon, uploads>>

\* The row the loop is at.
Turn(w, d) == d \in cleaner[w].batch /\ \A e \in cleaner[w].batch : d <= e

\* The loop goes on to the next row, the next page, or ends.
NextRow(w, d) ==
  LET c == cleaner[w]
  IN  cleaner' = [cleaner EXCEPT ![w] =
        IF c.batch # {d} THEN [c EXCEPT !.phase = "listing", !.batch = @ \ {d}, !.listed = {}]
        ELSE IF c.more THEN [NewCleanup EXCEPT !.after = c.after]
        ELSE NoCleanup]

\* deletePrefix: the keys are listed, and what was listed is deleted. (A site
\* of more than DELETE_BATCH keys repeats the two steps.)
ListSite(w, d) ==
  /\ Turn(w, d)
  /\ cleaner[w].phase = "listing"
  /\ cleaner' = [cleaner EXCEPT ![w].phase = "deleting", ![w].listed = site[d]]
  /\ UNCHANGED <<vars, storage, horizon, uploads>>

DeleteSite(w, d) ==
  /\ Turn(w, d)
  /\ cleaner[w].phase = "deleting"
  /\ site' = [site EXCEPT ![d] = @ \ cleaner[w].listed]
  /\ cleaner' = [cleaner EXCEPT ![w].phase = "source", ![w].listed = {}]
  /\ UNCHANGED <<vars, source, horizon, uploads>>

\* Variant: the row is marked and the archive left behind.
DeleteSource_Forgotten(w, d) ==
  /\ Turn(w, d)
  /\ cleaner[w].phase = "source"
  /\ cleaner' = [cleaner EXCEPT ![w].phase = "marking"]
  /\ UNCHANGED <<vars, storage, horizon, uploads>>

DeleteSource(w, d) ==
  /\ Turn(w, d)
  /\ cleaner[w].phase = "source"
  /\ source' = source \ {d}
  /\ cleaner' = [cleaner EXCEPT ![w].phase = "marking"]
  /\ UNCHANGED <<vars, site, horizon, uploads>>

\* The row is marked, unless it has left the expirable statuses meanwhile.
Mark(w, d) ==
  /\ Turn(w, d)
  /\ cleaner[w].phase = "marking"
  /\ \/ MarkExpired(d)
     \/ rows[d].status \notin Expirable /\ UNCHANGED vars
  /\ NextRow(w, d)
  /\ UNCHANGED <<storage, horizon, uploads>>

\* A request fails, with none, some or all of its keys deleted. The loop logs
\* it and goes on.
FailRow(w, d) ==
  /\ Turn(w, d)
  /\ \/ cleaner[w].phase \in {"listing", "marking"} /\ UNCHANGED storage
     \/ /\ cleaner[w].phase = "deleting"
        /\ \E gone \in SUBSET cleaner[w].listed : site' = [site EXCEPT ![d] = @ \ gone]
        /\ UNCHANGED source
     \/ /\ cleaner[w].phase = "source"
        /\ source' \in {source, source \ {d}}
        /\ UNCHANGED site
  /\ NextRow(w, d)
  /\ UNCHANGED <<vars, horizon, uploads>>

-------------------------------------------------------------------------------
\* The life of a worker process, with its cleanup.

\* The startup cleanup follows the startup sweep.
StartWorker(w) ==
  /\ Start(w)
  /\ cleaner' = [cleaner EXCEPT ![w] = NewCleanup]
  /\ UNCHANGED <<storage, horizon, uploads>>

PollWhenClean(w) ==
  /\ cleaner[w].phase = "idle"
  /\ OpenPolling(w)
  /\ UNCHANGED retention

\* The pool ends, or the process dies: a cleanup stops where it is, and so does
\* whatever the worker's uploads had on their way.
EndWorker(w) ==
  /\ Exit(w) \/ Crash(w)
  /\ cleaner' = [cleaner EXCEPT ![w] = NoCleanup]
  /\ fetched' = { s \in fetched : s[1] # w }
  /\ put' = [s \in Slots |-> IF s[1] = w THEN {} ELSE put[s]]
  /\ strays' = { p \in strays : p[1] # w }
  /\ UNCHANGED <<storage, horizon>>

\* RETENTION_DAYS after its insertion, which may be none, a row falls due.
FallDue ==
  /\ horizon < MaxDeployments
  /\ rows[horizon + 1].status # Absent
  /\ horizon' = horizon + 1
  /\ UNCHANGED <<vars, storage, uploads, cleaner>>

-------------------------------------------------------------------------------
OwnerStep(d) ==
  \/ StoreSource(d)
  \/ Insert(d)
  \/ (Cancel(d) \/ Retry(d) \/ TimeStep(d)) /\ UNCHANGED retention

StoreStep(s) ==
  \/ Fetch(s)
  \/ BuildFetched(s)
  \/ \E f \in Files : Put(s, f)
  \/ PublishSite(s)
  \/ BreakBuild(s)
  \/ PlainBuildStep(s)

RowStep(w, d) ==
  ListSite(w, d) \/ DeleteSite(w, d) \/ DeleteSource(w, d) \/ Mark(w, d) \/ FailRow(w, d)

CleanerStep(w) == ReadPage(w) \/ FailPage(w) \/ \E d \in cleaner[w].batch : RowStep(w, d)

WorkerStep(w) ==
  \/ (SweepStep(w) \/ Stop(w)) /\ UNCHANGED retention
  \/ StartWorker(w) \/ PollWhenClean(w) \/ EndWorker(w) \/ BeginCleanup(w)

RetentionNext ==
  \/ \E d \in Deployments : OwnerStep(d)
  \/ \E s \in Slots : StoreStep(s) \/ (ClaimStep(s) /\ UNCHANGED retention)
  \/ \E w \in Workers : WorkerStep(w) \/ CleanerStep(w)
  \/ \E p \in strays : StrayPut(p[1], p[2], p[3])
  \/ FallDue

RetentionSpec == RetentionInit /\ [][RetentionNext]_<<vars, retention>>

-------------------------------------------------------------------------------
(***************************************************************************)
(* Fairness, on the terms of BuildQueue's: a cleanup that has begun goes   *)
(* on, a worker is restarted, and failures and crashes may recur for ever  *)
(* but not so as to forestall every page or every step of a row.           *)
(***************************************************************************)
RetentionFairness ==
  /\ \A w \in Workers :
       /\ WF_<<vars, retention>>(StartWorker(w))
       /\ WF_<<vars, retention>>(Exit(w) /\ EndWorker(w))
       /\ WF_<<vars, retention>>(SweepStep(w) /\ UNCHANGED retention)
       /\ WF_<<vars, retention>>(CleanerStep(w))
       /\ SF_<<vars, retention>>(PollWhenClean(w))
       /\ SF_<<vars, retention>>(BeginCleanup(w))
       /\ SF_<<vars, retention>>(ReadPage(w))
       /\ \A d \in Deployments :
            /\ SF_<<vars, retention>>(ListSite(w, d))
            /\ SF_<<vars, retention>>(DeleteSite(w, d))
            /\ SF_<<vars, retention>>(DeleteSource(w, d))
            /\ SF_<<vars, retention>>(Mark(w, d))
  /\ \A s \in Slots : WF_<<vars, retention>>(StoreStep(s))

FairRetention == RetentionSpec /\ RetentionFairness

-------------------------------------------------------------------------------
\* A deployment whose time has not come and that its owner sees READY is there
\* in full, whatever cleanups, retries and failed uploads have gone before.
LiveSitesAreWhole ==
  \A d \in Deployments : rows[d].status = "READY" /\ ~Due(d) => site[d] = Files

\* Until its time has come, a deployment keeps the archive that a build, a retry
\* or a redeploy needs.
SourcesAreKept ==
  \A d \in Deployments : rows[d].status # Absent /\ ~Due(d) => d \in source

\* An expired deployment has no archive left, "which is why retry and redeploy
\* are illegal from EXPIRED" (cleanup.ts).
ExpiredSourcesAreGone ==
  \A d \in Deployments : rows[d].status = "EXPIRED" => d \notin source

\* Why they hold: only what is due is in a cleanup's hands, an upload's puts stay
\* where they are until then, and nobody stores an archive for a row that exists.
BatchesAreDue ==
  \A w \in Workers : \A d \in cleaner[w].batch : Due(d) /\ rows[d].status # Absent

PutsStay ==
  \A s \in Slots : builds[s].phase = "uploading" /\ ~Due(builds[s].dep) =>
    put[s] \subseteq site[builds[s].dep]

MarkedSourcesAreGone ==
  \A w \in Workers : \A d \in cleaner[w].batch :
    Turn(w, d) /\ cleaner[w].phase = "marking" => d \notin source

Custody == BatchesAreDue /\ PutsStay /\ MarkedSourcesAreGone

\* "Expiry removes the files first and marks the row afterwards, so a crash
\* midway leaves a row still claiming to be live over files that are gone rather
\* than the reverse" (cleanup.ts): no expired row has files.
ExpiredSitesAreGone ==
  \A d \in Deployments : rows[d].status = "EXPIRED" => site[d] = {}

\* "The cursor is what makes this terminate" (cleanup.ts): a cleanup ends, even
\* when every deletion fails.
CleanupsEnd == \A w \in Workers : cleaner[w].phase # "idle" ~> cleaner[w].phase = "idle"

\* Unless owners go on asking for retries for ever, what is due expires, or is
\* asked for again before it does.
DueDeploymentsExpire ==
  <>[][~RetryStep]_vars =>
    \A d \in Deployments :
      (Due(d) /\ rows[d].status \in Expirable) ~> rows[d].status \in {"EXPIRED", "QUEUED"}
===============================================================================
