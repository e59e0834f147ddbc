------------------------------ MODULE RunService ------------------------------
(***************************************************************************)
(* What SyncCoordinator (worker.py) promises those who read sync_metadata:  *)
(* one run at a time over all replicas, and a status that is written by     *)
(* that run alone and tells how it stands.  SyncScheduler and EventSync     *)
(* implement it, each with a detail of its own.                             *)
(***************************************************************************)
CONSTANTS
  Replicas,  \* application processes
  NoReplica  \* nobody has the right to run

VARIABLES
  holder,  \* the replica that may run
  status   \* sync_metadata.sync_status

Init == holder = NoReplica /\ status = "none"

Take(r) == holder = NoReplica /\ holder' = r /\ UNCHANGED status

(* A run announces itself before it touches the catalogue. *)
Begin(r) == holder = r /\ status' = "running" /\ UNCHANGED holder

(* It succeeds once; what it has called a success it may still call failed, *)
(* when the COMMIT that says so was applied but not acknowledged.           *)
Succeed(r) == holder = r /\ status = "running" /\ status' = "success" /\ UNCHANGED holder

Fail(r) ==
  /\ holder = r
  /\ status \in {"running", "success"}
  /\ status' = "failed"
  /\ UNCHANGED holder

(* The run is over, or its process is. *)
GiveUp(r) == holder = r /\ holder' = NoReplica /\ UNCHANGED status

Next == \E r \in Replicas : Take(r) \/ Begin(r) \/ Succeed(r) \/ Fail(r) \/ GiveUp(r)

Spec == Init /\ [][Next]_<<holder, status>>

=============================================================================
