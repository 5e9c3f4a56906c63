SPECIFICATION Spec
CONSTANTS
  TxGens = {g1}
  Miners = {m1}
  Primary = p
  Children = {c1}
  PoolSize = 3
  TxsPerBlock = 1
  BlockchainBlocks = 1
  MaxTx = 3
  MayFail = FALSE
  NoTx = NoTx
  NoBlock = NoBlock
  Garbage = Garbage
  Unknown = Unknown
SYMMETRY Symmetry
INVARIANTS
  NoDoubleInclusion
  LedgerBound
  StatsMatchLedger
  OccupancyNotLow
  AvailableNotInFlight
PROPERTIES
  ImplementsChain
