--------------------------- MODULE MCFragmentTable ---------------------------
(* FragmentTable on three datagrams, two of which share a bucket.          *)
EXTENDS FragmentTable, TLC

CONSTANTS d1, d2, d3

MCHash == (d1 :> 1) @@ (d2 :> 1) @@ (d3 :> 2)
NodeSymmetry == Permutations(Nodes)
=============================================================================
