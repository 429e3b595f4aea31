SPECIFICATION FairSpec
CONSTANTS
  Slots = 5
  BufEnd = 2
  Sizes = {1, 2}
  Immediate = TRUE
  MaxSeq = 8
  PipeLen = 1
  MaxBufs = 5
  KeepsUp = TRUE
  PollTimesOut = TRUE
INVARIANTS
  RewindBounded
  JumpsAreCounted
PROPERTIES
  KickReachesAll
