SPECIFICATION Spec
CONSTANTS
  Slots = 2
  BufEnd = 3
  Sizes = {1, 2, 4}
  Immediate = FALSE
  MaxSeq = 4
  PipeLen = 2
  MaxBufs = 3
  KeepsUp = FALSE
  PollTimesOut = TRUE
INVARIANTS
  RecordsConserved
  NoSlotOverflow
