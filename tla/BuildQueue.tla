------------------------------ MODULE BuildQueue ------------------------------
(***************************************************************************)
(* The deployments table used as a queue, the workers that take rows from  *)
(* it, and the sweep that puts back what a dead worker left behind.        *)
(*                                                                         *)
(*   apps/worker: claim.ts, pipeline.ts, sweep.ts, index.ts                *)
(*   apps/api:    upload, retry, cancel, redeploy (routes/deployments.ts)  *)
(*   packages/shared: transitionDeployment (deployment.ts)                 *)
(*                                                                         *)
(* One action is one SQL statement, or one stretch of code between two     *)
(* awaits that matter to somebody else. Time is abstracted to what the     *)
(* code compares: a started_at is "recent" until it is older than the      *)
(* staleness limit, a requeued row is waiting until available_at passes.   *)
(* A definition named X_Y is definition X with fault Y, and no part of the *)
(* specification: it is what a property that guards against Y must catch.  *)
(***************************************************************************)
EXTENDS Naturals, FiniteSets, DeploymentStatus

CONSTANTS
  MaxDeployments,       \* rows are numbered in the order of created_at
  Workers,              \* worker processes
  MaxConcurrentBuilds,  \* MAX_CONCURRENT_BUILDS of each
  MaxAttempts,          \* the max_attempts column
  BuildsAreBounded,     \* TRUE: no build outlasts the staleness limit
  SweepsArePrompt       \* TRUE: a sweep has dealt with each row it read
                        \*       before that row can be claimed again

ASSUME BuildQueueAssumption ==
  /\ MaxDeployments \in Nat \ {0}
  /\ MaxConcurrentBuilds \in Nat \ {0}
  /\ MaxAttempts \in Nat \ {0}
  /\ BuildsAreBounded \in BOOLEAN
  /\ SweepsArePrompt \in BOOLEAN

Deployments == 1 .. MaxDeployments
NoDeployment == 0

\* A worker builds at most MaxConcurrentBuilds deployments: the inFlight set.
Slots == Workers \X (1 .. MaxConcurrentBuilds)

VARIABLES
  rows,    \* the deployments table
  worker,  \* where each worker process is in its life
  builds,  \* what each slot of a worker is doing
  sweeps   \* what each worker's sweep read and has not dealt with yet

vars == <<rows, worker, builds, sweeps>>

Row == [ status : DeploymentStatuses \cup {Absent},
         attempt : Nat,                        \* attempt_count
         started : {"never", "recent", "old"}, \* started_at
         waiting : BOOLEAN ]                   \* available_at > now()

WorkerStates == {"down", "starting", "polling", "draining"}

Phases == { "idle",
            "claiming",    \* the claim holds the row's lock, not committed
            "preparing",   \* download, extract, preset, sandboxed build
            "uploading",   \* uploadSite
            "announcing",  \* after the READY transition
            "rejected",    \* a BuildFailure is on its way to the row
            "broken",      \* any other error is on its way to the row
            "cleaning" }   \* removing the workspace

NoBuild == [ phase |-> "idle", dep |-> NoDeployment, attempt |-> 0 ]

\* attempt is the snapshot of attempt_count the claim returned.
Build == {NoBuild} \cup [ phase : Phases \ {"idle"}, dep : Deployments, attempt : Nat ]

TypeOK ==
  /\ rows \in [Deployments -> Row]
  /\ worker \in [Workers -> WorkerStates]
  /\ builds \in [Slots -> Build]
  /\ sweeps \in [Workers -> SUBSET (Deployments \X Nat)]

NoRow == [ status |-> Absent, attempt |-> 0, started |-> "never", waiting |-> FALSE ]

Init ==
  /\ rows = [d \in Deployments |-> NoRow]
  /\ worker = [w \in Workers |-> "down"]
  /\ builds = [s \in Slots |-> NoBuild]
  /\ sweeps = [w \in Workers |-> {}]

-------------------------------------------------------------------------------
\* The table.

\* Variant: the UPDATE without AND status = ANY($2).
Transition_Unguarded(d, from, to, row) == rows' = [rows EXCEPT ![d] = [row EXCEPT !.status = to]]

\* transitionDeployment: the UPDATE is guarded by the status alone. A lost race
\* changes nothing, and so does a transition the table forbids, which throws.
Transition(d, from, to, row) ==
  IF rows[d].status \in from /\ \A s \in from : CanTransition(s, to)
    THEN rows' = [rows EXCEPT ![d] = [row EXCEPT !.status = to]]
    ELSE UNCHANGED rows

\* The columns a requeue writes, in the worker's failure path and in the sweep.
Requeued(d) == [rows[d] EXCEPT !.started = "never", !.waiting = TRUE]

\* Rows whose lock a claim in flight holds.
Locked == { builds[s].dep : s \in { t \in Slots : builds[t].phase = "claiming" } }

\* A build that may still write its verdict to the row.
Live(s) == builds[s].phase \in {"preparing", "uploading", "rejected", "broken"}

BeingBuilt(d) == \E s \in Slots : Live(s) /\ builds[s].dep = d

SweepHolds(d) == \E w \in Workers : \E p \in sweeps[w] : p[1] = d

-------------------------------------------------------------------------------
\* The api. Each guard is the WHERE clause of the transition: a request that
\* finds another status is answered with INVALID_STATE and changes nothing.

\* An upload or a redeploy reaches insertDeployment.
Submit(d) ==
  /\ rows[d].status = Absent
  /\ \A e \in Deployments : e < d => rows[e].status # Absent
  /\ rows' = [rows EXCEPT ![d] = [NoRow EXCEPT !.status = "QUEUED"]]
  /\ UNCHANGED <<worker, builds, sweeps>>

\* The UPDATE waits while a claim holds the row's lock.
Cancel(d) ==
  /\ rows[d].status = "QUEUED"
  /\ d \notin Locked
  /\ Transition(d, {"QUEUED"}, "CANCELLED", rows[d])
  /\ UNCHANGED <<worker, builds, sweeps>>

\* Variants: retry gives one attempt back instead of all, or is let in from BUILDING.
Retry_RefundsOne(d) ==
  /\ rows[d].status \in {"FAILED", "CANCELLED"}
  /\ Transition(d, {"FAILED", "CANCELLED"}, "QUEUED",
                [rows[d] EXCEPT !.attempt = @ - 1, !.started = "never", !.waiting = FALSE])
  /\ UNCHANGED <<worker, builds, sweeps>>

Retry_WhileBuilding(d) ==
  /\ rows[d].status \in {"FAILED", "CANCELLED", "BUILDING"}
  /\ Transition(d, {"FAILED", "CANCELLED", "BUILDING"}, "QUEUED",
                [rows[d] EXCEPT !.attempt = 0, !.started = "never", !.waiting = FALSE])
  /\ UNCHANGED <<worker, builds, sweeps>>

Retry(d) ==
  /\ rows[d].status \in {"FAILED", "CANCELLED"}
  /\ Transition(d, {"FAILED", "CANCELLED"}, "QUEUED",
                [rows[d] EXCEPT !.attempt = 0, !.started = "never", !.waiting = FALSE])
  /\ UNCHANGED <<worker, builds, sweeps>>

\* The last statement of an expiry. Which rows are due, and what is deleted
\* before this, is module Retention's.
MarkExpired(d) ==
  /\ rows[d].status \in Expirable
  /\ Transition(d, Expirable, "EXPIRED", rows[d])
  /\ UNCHANGED <<worker, builds, sweeps>>

-------------------------------------------------------------------------------
\* The worker's poll loop and its claim.

Available(d) == rows[d].status = "QUEUED" /\ ~rows[d].waiting

\* Variant: FOR UPDATE SKIP LOCKED is left out of the subselect.
LockOldest_NoSkipLocked(s, d) ==
  /\ worker[s[1]] = "polling"
  /\ builds[s].phase = "idle"
  /\ \A t \in Slots : t[1] = s[1] => builds[t].phase # "claiming"
  /\ Available(d)
  /\ \A e \in Deployments : Available(e) => d <= e
  /\ builds' = [builds EXCEPT ![s] = [NoBuild EXCEPT !.phase = "claiming", !.dep = d]]
  /\ UNCHANGED <<rows, worker, sweeps>>

\* SELECT ... ORDER BY created_at LIMIT 1 FOR UPDATE SKIP LOCKED. The loop
\* awaits the claim, so a worker has one in flight at most.
LockOldest(s, d) ==
  /\ worker[s[1]] = "polling"
  /\ builds[s].phase = "idle"
  /\ \A t \in Slots : t[1] = s[1] => builds[t].phase # "claiming"
  /\ Available(d)
  /\ d \notin Locked
  /\ \A e \in Deployments : Available(e) /\ e \notin Locked => d <= e
  /\ SweepsArePrompt => ~SweepHolds(d)
  /\ builds' = [builds EXCEPT ![s] = [NoBuild EXCEPT !.phase = "claiming", !.dep = d]]
  /\ UNCHANGED <<rows, worker, sweeps>>

\* Variant: the claim does not count the attempt.
Claimed_Uncounted(d) == [rows EXCEPT ![d].status = "BUILDING", ![d].started = "recent"]

Claimed(d) ==
  [rows EXCEPT ![d].status = "BUILDING", ![d].started = "recent", ![d].attempt = @ + 1]

\* The claim commits and the worker starts the build.
CommitClaim(s) ==
  LET d == builds[s].dep
  IN  /\ builds[s].phase = "claiming"
      /\ rows' = Claimed(d)
      /\ builds' = [builds EXCEPT ![s] = [phase |-> "preparing", dep |-> d,
                                          attempt |-> rows[d].attempt + 1]]
      /\ UNCHANGED <<worker, sweeps>>

\* The claim commits, and the connection fails before the worker hears of it:
\* the row is BUILDING and nobody builds it.
LoseClaim(s) ==
  /\ builds[s].phase = "claiming"
  /\ rows' = Claimed(builds[s].dep)
  /\ builds' = [builds EXCEPT ![s] = NoBuild]
  /\ UNCHANGED <<worker, sweeps>>

\* The statement fails before it commits.
DropClaim(s) ==
  /\ builds[s].phase = "claiming"
  /\ builds' = [builds EXCEPT ![s] = NoBuild]
  /\ UNCHANGED <<rows, worker, sweeps>>

-------------------------------------------------------------------------------
\* runDeployment, from the claim to the workspace's removal.

Enter(s, from, to) ==
  /\ builds[s].phase \in from
  /\ builds' = [builds EXCEPT ![s].phase = to]

\* Everything up to assertDeployable succeeds.
Prepare(s) == Enter(s, {"preparing"}, "uploading") /\ UNCHANGED <<rows, worker, sweeps>>

\* extract, selectPreset, the sandbox or assertDeployable throws a BuildFailure.
Reject(s) == Enter(s, {"preparing"}, "rejected") /\ UNCHANGED <<rows, worker, sweeps>>

\* Postgres, storage or docker fails. An announcement that fails after the READY
\* transition lands in the same catch block.
Break(s) ==
  /\ Enter(s, {"preparing", "uploading", "announcing"}, "broken")
  /\ UNCHANGED <<rows, worker, sweeps>>

\* The site is uploaded. The result of the transition is not looked at.
Publish(s) ==
  /\ Enter(s, {"uploading"}, "announcing")
  /\ Transition(builds[s].dep, {"BUILDING"}, "READY", rows[builds[s].dep])
  /\ UNCHANGED <<worker, sweeps>>

Announce(s) == Enter(s, {"announcing"}, "cleaning") /\ UNCHANGED <<rows, worker, sweeps>>

\* recordFailure of a BuildFailure: trying again would not help.
RecordRejection(s) ==
  /\ Enter(s, {"rejected"}, "cleaning")
  /\ Transition(builds[s].dep, {"BUILDING"}, "FAILED", rows[builds[s].dep])
  /\ UNCHANGED <<worker, sweeps>>

\* Variant: one attempt too many.
CanRetry_OneMore(attempt) == attempt <= MaxAttempts

\* canRetry: decided on the attempt_count that was read, not on the row's.
CanRetry(attempt) == attempt < MaxAttempts

\* recordFailure of any other error.
RecordSystemError(s) ==
  LET d == builds[s].dep
  IN  /\ Enter(s, {"broken"}, "cleaning")
      /\ IF CanRetry(builds[s].attempt)
           THEN Transition(d, {"BUILDING"}, "QUEUED", Requeued(d))
           ELSE Transition(d, {"BUILDING"}, "FAILED", rows[d])
      /\ UNCHANGED <<worker, sweeps>>

\* The recording failed too: the row keeps whatever status it has.
FailToRecord(s) ==
  /\ Enter(s, {"rejected", "broken"}, "cleaning")
  /\ UNCHANGED <<rows, worker, sweeps>>

Finish(s) ==
  /\ builds[s].phase = "cleaning"
  /\ builds' = [builds EXCEPT ![s] = NoBuild]
  /\ UNCHANGED <<rows, worker, sweeps>>

-------------------------------------------------------------------------------
\* recoverStaleBuilds.

\* Variant: the SELECT does not look at started_at.
StaleRows_AnyAge ==
  { <<d, rows[d].attempt>> : d \in { e \in Deployments : rows[e].status = "BUILDING" } }

\* What the SELECT returns: each stale row with the attempt_count it had.
StaleRows ==
  { <<d, rows[d].attempt>> :
      d \in { e \in Deployments : rows[e].status = "BUILDING" /\ rows[e].started = "old" } }

\* Variant: the sweep runs at startup only.
BeginSweep_StartupOnly(w) == FALSE /\ UNCHANGED vars

\* The timer fires. A worker runs one sweep at a time here: two overlapping
\* sweeps of one worker are two sweeps of two workers to the table.
BeginSweep(w) ==
  /\ worker[w] = "polling"
  /\ sweeps[w] = {}
  /\ StaleRows # {}
  /\ sweeps' = [sweeps EXCEPT ![w] = StaleRows]
  /\ UNCHANGED <<rows, worker, builds>>

\* One turn of the loop, for a row read earlier: requeue or give up.
SweepRow(w, p) ==
  /\ p \in sweeps[w]
  /\ IF CanRetry(p[2])
       THEN Transition(p[1], {"BUILDING"}, "QUEUED", Requeued(p[1]))
       ELSE Transition(p[1], {"BUILDING"}, "FAILED", rows[p[1]])
  /\ sweeps' = [sweeps EXCEPT ![w] = @ \ {p}]
  /\ UNCHANGED <<worker, builds>>

\* A statement of the sweep fails: the rest of what it read is left for the next.
AbortSweep(w) ==
  /\ sweeps[w] # {}
  /\ sweeps' = [sweeps EXCEPT ![w] = {}]
  /\ UNCHANGED <<rows, worker, builds>>

-------------------------------------------------------------------------------
\* The life of a worker process.

\* The first thing a worker does is sweep.
Start(w) ==
  /\ worker[w] = "down"
  /\ worker' = [worker EXCEPT ![w] = "starting"]
  /\ sweeps' = [sweeps EXCEPT ![w] = StaleRows]
  /\ UNCHANGED <<rows, builds>>

OpenPolling(w) ==
  /\ worker[w] = "starting"
  /\ sweeps[w] = {}
  /\ worker' = [worker EXCEPT ![w] = "polling"]
  /\ UNCHANGED <<rows, builds, sweeps>>

\* The loop reads accepting = FALSE, between two claims.
Stop(w) ==
  /\ worker[w] = "polling"
  /\ \A s \in Slots : s[1] = w => builds[s].phase # "claiming"
  /\ worker' = [worker EXCEPT ![w] = "draining"]
  /\ UNCHANGED <<rows, builds, sweeps>>

\* inFlight has settled and the pool ends, under a sweep that may still run.
Exit(w) ==
  /\ worker[w] = "draining"
  /\ \A s \in Slots : s[1] = w => builds[s].phase = "idle"
  /\ worker' = [worker EXCEPT ![w] = "down"]
  /\ sweeps' = [sweeps EXCEPT ![w] = {}]
  /\ UNCHANGED <<rows, builds>>

\* The process dies: its builds and sweep with it, and a claim not yet
\* committed is rolled back.
Crash(w) ==
  /\ worker[w] # "down"
  /\ worker' = [worker EXCEPT ![w] = "down"]
  /\ builds' = [s \in Slots |-> IF s[1] = w THEN NoBuild ELSE builds[s]]
  /\ sweeps' = [sweeps EXCEPT ![w] = {}]
  /\ UNCHANGED rows

-------------------------------------------------------------------------------
\* Time.

\* BUILD_TIMEOUT_SECONDS + GRACE_SECONDS have passed since the claim. The limit
\* bounds the sandbox; nothing in the code bounds the download, the building of
\* the builder image or the upload, unless BuildsAreBounded is assumed.
GrowStale(d) ==
  /\ rows[d].status = "BUILDING"
  /\ rows[d].started = "recent"
  /\ BuildsAreBounded => ~BeingBuilt(d)
  /\ rows' = [rows EXCEPT ![d].started = "old"]
  /\ UNCHANGED <<worker, builds, sweeps>>

\* available_at passes.
WaitOver(d) ==
  /\ rows[d].status = "QUEUED"
  /\ rows[d].waiting
  /\ rows' = [rows EXCEPT ![d].waiting = FALSE]
  /\ UNCHANGED <<worker, builds, sweeps>>

-------------------------------------------------------------------------------
ApiStep(d) == Submit(d) \/ Cancel(d) \/ Retry(d) \/ MarkExpired(d)

TimeStep(d) == GrowStale(d) \/ WaitOver(d)

ClaimStep(s) ==
  (\E d \in Deployments : LockOldest(s, d)) \/ CommitClaim(s) \/ LoseClaim(s) \/ DropClaim(s)

BuildStep(s) ==
  \/ Prepare(s) \/ Reject(s) \/ Break(s) \/ Publish(s) \/ Announce(s)
  \/ RecordRejection(s) \/ RecordSystemError(s) \/ FailToRecord(s) \/ Finish(s)

SweepStep(w) == BeginSweep(w) \/ AbortSweep(w) \/ \E p \in sweeps[w] : SweepRow(w, p)

ProcessStep(w) == Start(w) \/ OpenPolling(w) \/ Stop(w) \/ Exit(w) \/ Crash(w)

Next ==
  \/ \E d \in Deployments : ApiStep(d) \/ TimeStep(d)
  \/ \E s \in Slots : ClaimStep(s) \/ BuildStep(s)
  \/ \E w \in Workers : SweepStep(w) \/ ProcessStep(w)

Spec == Init /\ [][Next]_vars

-------------------------------------------------------------------------------
(***************************************************************************)
(* Fairness. Clocks advance. A worker is restarted, and what it has begun  *)
(* goes on. Crashes, stops and failing statements may recur for ever, but  *)
(* not so as to forestall every claim, every commit or every sweep of a    *)
(* row: the strong conditions. (A sweep has no try around a row: if its    *)
(* first row fails every time, the others are never reached.) Nothing is   *)
(* assumed of the user, and nothing obliges a build to succeed.            *)
(***************************************************************************)
Fairness ==
  /\ \A d \in Deployments : WF_vars(GrowStale(d)) /\ WF_vars(WaitOver(d))
  /\ \A w \in Workers : /\ WF_vars(Start(w)) /\ WF_vars(Exit(w))
                        /\ SF_vars(OpenPolling(w))
                        /\ SF_vars(BeginSweep(w))
                        /\ \A d \in Deployments :
                             SF_vars(\E p \in sweeps[w] : p[1] = d /\ SweepRow(w, p))
  /\ \A s \in Slots : /\ SF_vars(\E d \in Deployments : LockOldest(s, d))
                      /\ SF_vars(CommitClaim(s))
                      /\ WF_vars(BuildStep(s))

FairSpec == Spec /\ Fairness

-------------------------------------------------------------------------------
(***************************************************************************)
(* Properties that need no assumption about time.                          *)
(***************************************************************************)

\* Two workers never hold a claim on the same row, and a row that is being
\* claimed is still queued: SKIP LOCKED steps over it, and a cancel waits.
ClaimsAreExclusive ==
  \A s \in Slots : builds[s].phase = "claiming" =>
    /\ rows[builds[s].dep].status = "QUEUED"
    /\ \A t \in Slots \ {s} : ~(builds[t].phase = "claiming" /\ builds[t].dep = builds[s].dep)

\* Whatever races, a row only moves along VALID_TRANSITIONS, including through
\* the claim's own SQL, which does not consult the table; an expired row never
\* changes at all.
RowsMoveLegally ==
  [][\A d \in Deployments :
       /\ rows'[d].status # rows[d].status =>
            \/ CanTransition(rows[d].status, rows'[d].status)
            \/ rows[d].status = Absent /\ rows'[d].status = "QUEUED"
       /\ rows[d].status = "EXPIRED" => rows'[d] = rows[d]]_vars

\* A row left in BUILDING by a crash, a lost claim or a failed recording does
\* not stay there: some sweep finds it.
InterruptedBuildsRecover ==
  \A d \in Deployments :
    (rows[d].status = "BUILDING" /\ ~BeingBuilt(d)) ~> rows[d].status # "BUILDING"

RetryStep == \E d \in Deployments : rows[d].status \in {"FAILED", "CANCELLED"}
                                    /\ rows'[d].status = "QUEUED"

\* Unless users go on asking for retries for ever, every deployment is settled
\* in the end: published, failed or cancelled.
DeploymentsSettle ==
  <>[][~RetryStep]_vars =>
    \A d \in Deployments : rows[d].status = "QUEUED" ~> rows[d].status \in Settled

(***************************************************************************)
(* Properties that hold when builds are bounded and sweeps prompt.         *)
(***************************************************************************)

\* A deployment is built by one build at a time.
OneBuildPerDeployment ==
  \A s, t \in Slots :
    Live(s) /\ Live(t) /\ builds[s].dep = builds[t].dep => s = t

\* Nobody is building a deployment that its owner sees queued, failed or
\* cancelled.
IdleRowsAreNotBuilt ==
  \A d \in Deployments : rows[d].status \in {"QUEUED", "FAILED", "CANCELLED"} => ~BeingBuilt(d)

\* attempt_count never passes max_attempts, and a queued row has one to spend.
AttemptsWithinLimit ==
  \A d \in Deployments :
    /\ rows[d].attempt <= MaxAttempts
    /\ rows[d].status = "QUEUED" => rows[d].attempt < MaxAttempts

\* What a build writes to its row, it writes about the attempt it was claimed
\* for, never over a later one.
VerdictsMatchAttempts ==
  [][\A s \in Slots :
       LET d == builds[s].dep
       IN  Live(s) /\ builds'[s] # builds[s] /\ rows'[d] # rows[d] =>
             rows[d].status = "BUILDING" /\ rows[d].attempt = builds[s].attempt]_vars

\* The sweep takes nothing away from a build that is still running: what it
\* requeues or fails are "the crash leftovers they are" (sweep.ts).
SweepTakesOnlyLeftovers ==
  [][\A w \in Workers : \A p \in sweeps[w] \ sweeps'[w] :
       rows'[p[1]] # rows[p[1]] => ~BeingBuilt(p[1])]_vars

\* Why they hold. A build owns its row: until its verdict is in, the row is
\* BUILDING and its attempt_count is the build's; a build past its READY
\* transition finds the row READY or expired, and nobody else comes near it.
Owning(s) == Live(s) \/ builds[s].phase = "announcing"

BuildsOwnTheirRows ==
  \A s \in Slots : Owning(s) =>
    LET row == rows[builds[s].dep]
    IN  \/ /\ row.status = "BUILDING"
           /\ row.attempt = builds[s].attempt
           /\ builds[s].phase # "announcing"
        \/ /\ row.status \in {"READY", "EXPIRED"}
           /\ builds[s].phase \in {"announcing", "broken"}

OwnersAreAlone ==
  \A s, t \in Slots : Owning(s) /\ Owning(t) /\ builds[s].dep = builds[t].dep => s = t

\* A sweep that still holds a row knows its attempt, and nobody builds it.
SweepsKnowTheirRows ==
  \A w \in Workers : \A p \in sweeps[w] :
    rows[p[1]].status = "BUILDING" => rows[p[1]].attempt = p[2] /\ ~BeingBuilt(p[1])

ClaimedRowsAreUnswept ==
  \A s \in Slots : builds[s].phase = "claiming" => ~SweepHolds(builds[s].dep)

StaleRowsAreUnattended ==
  \A d \in Deployments :
    rows[d].status = "BUILDING" /\ rows[d].started = "old" => ~BeingBuilt(d)

\* The inductive invariant of the promises above, with ClaimsAreExclusive and
\* AttemptsWithinLimit.
Ownership ==
  /\ BuildsOwnTheirRows
  /\ OwnersAreAlone
  /\ SweepsKnowTheirRows
  /\ ClaimedRowsAreUnswept
  /\ StaleRowsAreUnattended

\* To the owner of a deployment the queue is the lifecycle and nothing else.
Lifecycle == INSTANCE DeploymentLifecycle
               WITH status <- [d \in Deployments |-> rows[d].status],
                    tries <- [d \in Deployments |-> rows[d].attempt]

\* The queue implements the lifecycle: at most MaxAttempts tries for each time
\* the owner asks, and every status the owner sees follows from the one before.
ImplementsLifecycle == Lifecycle!Spec
===============================================================================
