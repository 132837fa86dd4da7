--------------------------- MODULE DeploymentStatus ---------------------------
(***************************************************************************)
(* The status machine every service shares: packages/shared/deployment.ts. *)
(* A deployment that has not been inserted yet is Absent, which is not a   *)
(* status of the table: the row does not exist.                            *)
(***************************************************************************)

DeploymentStatuses ==
  {"QUEUED", "BUILDING", "READY", "FAILED", "CANCELLED", "EXPIRED"}

Absent == "ABSENT"

\* VALID_TRANSITIONS as a relation.
ValidTransitions ==
  { <<"QUEUED", "BUILDING">>,    <<"QUEUED", "CANCELLED">>,
    <<"BUILDING", "READY">>,     <<"BUILDING", "FAILED">>,
    <<"BUILDING", "QUEUED">>,    <<"READY", "EXPIRED">>,
    <<"FAILED", "QUEUED">>,      <<"FAILED", "EXPIRED">>,
    <<"CANCELLED", "QUEUED">>,   <<"CANCELLED", "EXPIRED">> }

CanTransition(from, to) == <<from, to>> \in ValidTransitions

\* The statuses cleanup.ts may expire.
Expirable == {"READY", "FAILED", "CANCELLED"}

\* Nothing is being done for the user in these statuses, and nothing will be.
Settled == Expirable \cup {"EXPIRED"}
===============================================================================
