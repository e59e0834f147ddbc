------------------------------ MODULE MCTickets ------------------------------
(***************************************************************************)
(* The model-checking instance of Tickets.  The run states liveness, so     *)
(* neither bookings nor clients are treated as interchangeable.            *)
(***************************************************************************)
EXTENDS Tickets

AnyFault == FaultKinds

=============================================================================
