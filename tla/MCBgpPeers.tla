----------------------------- MODULE MCBgpPeers -----------------------------
EXTENDS BgpPeers, TLC

Symmetry == Permutations(Allowed) \cup Permutations(Ids) \cup Permutations(Attrs)
=============================================================================
