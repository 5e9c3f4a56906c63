SPECIFICATION Spec
CONSTANTS
  TxGens = {g1}
  Miners = {m1}
  Primary = p
  Children = {}
  PoolSize = 2
  TxsPerBlock = 1
  BlockchainBlocks = 2
  MaxTx = 3
  MayFail = FALSE
  NoTx = NoTx
  NoBlock = NoBlock
  Garbage = Garbage
  Unknown = Unknown
SYMMETRY Symmetry
ACTION_CONSTRAINT OrderlyPipe
INVARIANTS
  NoOrphanReservation
