SPECIFICATION Spec
CONSTANTS
  TxGens = {g1}
  Miners = {m1, m2}
  Primary = p
  Children = {c1}
  PoolSize = 2
  TxsPerBlock = 1
  BlockchainBlocks = 1
  MaxTx = 3
  MayFail = FALSE
  NoTx = NoTx
  NoBlock = NoBlock
  Garbage = Garbage
  Unknown = Unknown
SYMMETRY Symmetry
ACTION_CONSTRAINT OrderlyPipe
INVARIANTS
  LedgerCapacity
