---------------------------- MODULE MCSeatsCache ----------------------------
(***************************************************************************)
(* Model-checking instances of SeatsCache.  Tasks are interchangeable where *)
(* no liveness is checked; lock objects are not, as NewLock chooses one.    *)
(***************************************************************************)
EXTENDS SeatsCache, TLC

Symmetry == Permutations(Tasks)

=============================================================================
