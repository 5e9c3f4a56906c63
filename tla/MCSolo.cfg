SPECIFICATION Spec
CONSTANTS
  TxGens = {g1}
  Miners = {m1, m2}
  Primary = p
  Children = {}
  PoolSize = 2
  TxsPerBlock = 1
  BlockchainBlocks = 2
  MaxTx = 3
  MayFail = TRUE
  NoTx = NoTx
  NoBlock = NoBlock
  Garbage = Garbage
  Unknown = Unknown
SYMMETRY Symmetry
INVARIANTS
  TypeOK
  NoDoubleInclusion
  AvailableNotInFlight
  SoloChainLinked
PROPERTIES
  ImplementsChain
