----------------------------- MODULE MCBgpTable -----------------------------
EXTENDS BgpTable, TLC

(* The default route, a covering prefix, two that make a stub and one on the *)
(* other side of it.                                                         *)
MCRoutes == {<<>>, <<0>>, <<0, 0, 0>>, <<0, 0, 1>>, <<0, 1, 1>>}
PeerSymmetry == Permutations(Peers)
=============================================================================
