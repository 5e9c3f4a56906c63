SPECIFICATION FairSpec
CONSTANTS
  Miners = {m1}
  Primary = p
  Children = {}
  SigMax = 1
  MaxTx = 2
  PipeCap = 1
  QueueCap = 1
CHECK_DEADLOCK FALSE
PROPERTIES
  ReportsSent
