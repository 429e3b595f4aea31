---------------------------- MODULE MCPluginCache ----------------------------
(* PluginCache on concrete keys: the smallest and the largest share a      *)
(* bucket when there are two, and all of them share it when there is one.  *)
EXTENDS PluginCache

MCHash == [k \in Keys |-> 1 + (k % Buckets)]
=============================================================================
