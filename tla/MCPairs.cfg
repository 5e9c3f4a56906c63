SPECIFICATION Spec
CONSTANTS
  TxGens = {g1, g2}
  Miners = {m1, m2}
  Primary = p
  Children = {}
  PoolSize = 3
  TxsPerBlock = 2
  BlockchainBlocks = 2
  MaxTx = 2
  MayFail = TRUE
  NoTx = NoTx
  NoBlock = NoBlock
  Garbage = Garbage
  Unknown = Unknown
SYMMETRY Symmetry
INVARIANTS
  NoDoubleInclusion
  MissingIsPrefix
  StatsMatchLedger
