SPECIFICATION Spec
CONSTANTS
  MaxPeers = 2
  Addrs = {a1, a2, a3}
  Allowed = {a1, a2}
  Ids = {i1, i2}
  Unset = Unset
  MinHold = 2
  Holds = {0}
  Nets = {p1}
  Attrs = {x1, x2}
  Labels = {l1}
  Buckets = 2
  BatchNum = 1
  BatchInterval = 1
  Old = 5
SYMMETRY Symmetry
INVARIANTS EverySessionWatched OneSession RibIsAnnounced NoStarvation
PROPERTIES ReplacedWhenSilent
