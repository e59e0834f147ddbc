----------------------------- MODULE MCCatalogue -----------------------------
(***************************************************************************)
(* The model-checking instance of Catalogue.  Events are numbers, because   *)
(* the order of their ids breaks ties in the listing.                      *)
(***************************************************************************)
EXTENDS Catalogue

=============================================================================
