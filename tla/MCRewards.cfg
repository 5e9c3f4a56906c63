SPECIFICATION Spec
CONSTANTS
  Miners = {m1}
  Primary = p
  Children = {c1}
  PoolSize = 2
  TxsPerBlock = 2
  BlockchainBlocks = 1
  BaseRewards = {1}
  AgeStep = 2
  MaxOps = 2
  Zeros = {2, 4}
  MaxTx = 4
  MaxTime = 2
  NoBlock = NoBlock
INVARIANTS
  TypeOK
  RewardByAge
  AgeBound
  MinedVerifies
  RewardFrozen
  CreditsMatchLedger
