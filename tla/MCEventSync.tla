----------------------------- MODULE MCEventSync -----------------------------
(***************************************************************************)
(* Model-checking instances of EventSync.  Replicas are interchangeable,   *)
(* and so are events that agree on being dated.                            *)
(***************************************************************************)
EXTENDS EventSync, TLC

Symmetry ==
  Permutations(Replicas) \cup Permutations(Events \ Undated)

=============================================================================
