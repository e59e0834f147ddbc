----------------------------- MODULE MCRequests -----------------------------
(***************************************************************************)
(* The model-checking instance of Requests.  The run states liveness, so    *)
(* handlers are not treated as interchangeable.                            *)
(***************************************************************************)
EXTENDS Requests

=============================================================================
