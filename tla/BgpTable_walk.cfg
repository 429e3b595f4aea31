SPECIFICATION TableSpec
CONSTANTS
  MaxLen = 3
  Routes <- MCRoutes
  Peers = {p1, p2}
  Null = Null
  LockBits = 4
  MaxLookups = 2
INVARIANTS TrieSound LocksExact MatchIsLongest NeverAborts
PROPERTIES WalkClears WalkAdvances
SYMMETRY PeerSymmetry
