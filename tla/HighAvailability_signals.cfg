SPECIFICATION HaSpec
CONSTANTS
  Daemons = {a, b}
  a = a
  b = b
  ExpTime = 3
  Timeout = 1
  MaxQueue = 1
  MaxMsgs = 2
  MaxFaults = 2
  Faults = {"crash", "expiry", "regenerate", "active", "standby", "normal"}
  Punctual = TRUE
  Overlap = FALSE
  KafkaFails = TRUE
INVARIANTS ActiveQueueEmpty
SYMMETRY Symmetry
