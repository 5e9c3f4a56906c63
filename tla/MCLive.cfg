SPECIFICATION FairSpec
CONSTANTS
  TxGens = {g1}
  Miners = {m1, m2}
  Primary = p
  Children = {}
  PoolSize = 4
  TxsPerBlock = 2
  BlockchainBlocks = 2
  MaxTx = 4
  MayFail = FALSE
  NoTx = NoTx
  NoBlock = NoBlock
  Garbage = Garbage
  Unknown = Unknown
INVARIANTS
  EnoughWakeups
PROPERTIES
  PoolDrains
  StatsComplete
