SPECIFICATION OrderlySpec
CONSTANTS
  Miners = {m1, m2}
  Primary = p
  Children = {}
  SigMax = 2
  MaxTx = 2
  PipeCap = 1
  QueueCap = 1
CHECK_DEADLOCK FALSE
INVARIANTS
  JoinersWoken
PROPERTIES
  ShutdownEnds
