-------------------------- MODULE DeploymentLifecycle --------------------------
(***************************************************************************)
(* What the queue promises the owner of a deployment, with no workers,     *)
(* builds, sweeps or locks in sight: a deployment is tried at most         *)
(* MaxAttempts times for each time its owner asks, it is given up only     *)
(* once it has been tried, and what expired stays expired.                 *)
(***************************************************************************)
EXTENDS Naturals, DeploymentStatus

CONSTANTS Deployments, MaxAttempts

VARIABLES status,   \* status of each deployment
          tries     \* times it was tried since its owner last asked

lifecycle == <<status, tries>>

Init == /\ status = [d \in Deployments |-> Absent]
        /\ tries = [d \in Deployments |-> 0]

Moves(d, from, to) == /\ status[d] = from
                      /\ status' = [status EXCEPT ![d] = to]

Submit(d) == /\ Moves(d, Absent, "QUEUED")
             /\ tries' = [tries EXCEPT ![d] = 0]

Try(d) == /\ Moves(d, "QUEUED", "BUILDING")
          /\ tries[d] < MaxAttempts
          /\ tries' = [tries EXCEPT ![d] = @ + 1]

TryAgain(d) == /\ Moves(d, "BUILDING", "QUEUED")
               /\ tries[d] < MaxAttempts
               /\ UNCHANGED tries

Settle(d) == /\ \/ Moves(d, "BUILDING", "READY")
                \/ Moves(d, "BUILDING", "FAILED")
                \/ Moves(d, "QUEUED", "CANCELLED")
             /\ UNCHANGED tries

AskAgain(d) == /\ Moves(d, "FAILED", "QUEUED") \/ Moves(d, "CANCELLED", "QUEUED")
               /\ tries' = [tries EXCEPT ![d] = 0]

Expire(d) == /\ \E from \in Expirable : Moves(d, from, "EXPIRED")
             /\ UNCHANGED tries

Next == \E d \in Deployments :
          \/ Submit(d) \/ Try(d) \/ TryAgain(d)
          \/ Settle(d) \/ AskAgain(d) \/ Expire(d)

Spec == Init /\ [][Next]_lifecycle
================================================================================
