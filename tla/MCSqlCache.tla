----------------------------- MODULE MCSqlCache -----------------------------
(* SqlCache on concrete keys, of which the odd ones share a bucket.        *)
EXTENDS SqlCache

MCHash == [k \in Keys |-> 1 + (k % Buckets)]
=============================================================================
