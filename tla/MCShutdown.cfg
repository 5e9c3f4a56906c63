SPECIFICATION Spec
CONSTANTS
  Miners = {m1}
  Primary = p
  Children = {c1}
  SigMax = 2
  MaxTx = 2
  PipeCap = 1
  QueueCap = 1
CHECK_DEADLOCK FALSE
INVARIANTS
  TypeOK
  QuietRemoval
  PipeKeepsReader
  StatisticsLast
