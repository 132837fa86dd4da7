----------------------------- MODULE MCRetention -----------------------------
(***************************************************************************)
(* Instances of Retention for TLC.                                         *)
(***************************************************************************)
EXTENDS Retention, TLC

\* Workers, and likewise files, are interchangeable: nothing orders them.
RetentionSymmetry == Permutations(Workers) \cup Permutations(Files)

\* "A worker that has been down for a weekend comes back to a backlog of unknown
\* size" (cleanup.ts): deployments that settled long ago, any number of them due.
BacklogInit ==
  /\ \E settled \in [Deployments -> {"READY", "FAILED"}] :
       /\ rows = [d \in Deployments |-> [ status |-> settled[d], attempt |-> 1,
                                          started |-> "old", waiting |-> FALSE ]]
       /\ site = [d \in Deployments |-> IF settled[d] = "READY" THEN Files ELSE {}]
  /\ worker = [w \in Workers |-> "down"]
  /\ builds = [s \in Slots |-> NoBuild]
  /\ sweeps = [w \in Workers |-> {}]
  /\ source = Deployments
  /\ horizon \in 0 .. MaxDeployments
  /\ fetched = {}
  /\ put = [s \in Slots |-> {}]
  /\ strays = {}
  /\ cleaner = [w \in Workers |-> NoCleanup]

\* The steps of the owners, the cleanups and the processes, while no worker
\* comes round to a build.
BacklogNext ==
  \/ \E d \in Deployments : OwnerStep(d)
  \/ \E w \in Workers : WorkerStep(w) \/ CleanerStep(w)
  \/ FallDue

FairBacklog == BacklogInit /\ [][BacklogNext]_<<vars, retention>> /\ RetentionFairness
===============================================================================
