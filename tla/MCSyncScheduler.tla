--------------------------- MODULE MCSyncScheduler ---------------------------
(***************************************************************************)
(* Model-checking instances of SyncScheduler.  The runs state liveness, so  *)
(* replicas are not treated as interchangeable.                            *)
(***************************************************************************)
EXTENDS SyncScheduler

AnyFault == FaultKinds

FailedRunsOnly == {"run"}

=============================================================================
