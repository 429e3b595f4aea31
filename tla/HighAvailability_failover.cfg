SPECIFICATION HaFairSpec
CONSTANTS
  Daemons = {a, b}
  a = a
  b = b
  ExpTime = 3
  Timeout = 3
  MaxQueue = 0
  MaxMsgs = 1
  MaxFaults = 1
  Faults = {"crash", "redis", "regenerate"}
  Punctual = TRUE
  Overlap = FALSE
  KafkaFails = FALSE
INVARIANTS NoMessageLost
PROPERTIES OneActive AllActiveWithoutRedis
