--------------------------- MODULE MCHighAvailability ---------------------------
(***************************************************************************)
(* Model checking of HighAvailability: no collector is special at the      *)
(* start, and timestamps are compared, never the collectors themselves.    *)
(***************************************************************************)
EXTENDS HighAvailability, TLC

Symmetry == Permutations(Daemons)
=============================================================================
