---------------------------- MODULE MCMigrations ----------------------------
(***************************************************************************)
(* The model-checking instance of Migrations.  The run states liveness, so *)
(* containers are not treated as interchangeable.                          *)
(***************************************************************************)
EXTENDS Migrations

=============================================================================
