------------------------------ MODULE ChainProofs ------------------------------
(***************************************************************************)
(* The links and the capacity of the ledger, and the refinement of the     *)
(* abstract chain.  The argument counts validators: those that were ever   *)
(* created are as many as active_validators says, each of them appends at  *)
(* most one block on the strength of an outdated num_blocks, and a single  *)
(* one appends to the very ledger it compared the previous hash with.      *)
(***************************************************************************)
EXTENDS InclusionProofs

Started == {v \in Validators : vpc[v] # "off"}
Appending == {v \in Validators : vpc[v] = "append"}

StartedCounted ==
  IsFiniteSet(Started) /\ Cardinality(Started) = active /\ Primary \in Started

\* The ledger has room for the blocks about to be appended, up to one block
\* for each validator but the first.
RoomKept ==
  Len(ledger) + Cardinality(Appending) <= BlockchainBlocks - 1 + active

\* A block and a miner have read the hash of a block that is in the ledger.
PrevRead ==
  /\ \A m \in Miners :
       /\ lastHash[m] <= Len(ledger)
       /\ mblk[m] # NoBlock => mblk[m].prev <= Len(ledger)
  /\ \A k \in 1..Len(pipe) : pipe[k] # Garbage => pipe[k].blk.prev <= Len(ledger)
  /\ \A v \in Validators : vblk[v] # NoBlock => vblk[v].prev <= Len(ledger)

\* The check of the previous hash still holds while the primary is alone.
SoloChecked ==
  active = 1 /\ vpc[Primary] \in {"txs", "full", "append"} =>
    vblk[Primary].prev = Len(ledger)

ChainInv == /\ StartedCounted /\ RoomKept /\ PrevRead
            /\ SoloChecked /\ SoloChainLinked

LEMMA SoloPrimary ==
  ASSUME StartedCounted, active = 1, NEW v \in Validators, vpc[v] # "off"
  PROVE  v = Primary
<1>1. \E x : Started = {x}
  BY FS_Singleton DEF StartedCounted
<1> QED
  BY <1>1 DEF StartedCounted, Started

LEMMA InitChain == Init => ChainInv
<1> SUFFICES ASSUME Init PROVE ChainInv
  OBVIOUS
<1>1. Started = {Primary} /\ Appending = {}
  BY DEF Init, Started, Appending, Validators
<1>2. StartedCounted
  BY <1>1, FS_Singleton DEF Init, StartedCounted
<1>3. RoomKept
  BY <1>1, FS_EmptySet, EmptySeq, ConfigAssumption DEF Init, RoomKept
<1>4. PrevRead
  BY EmptySeq DEF Init, PrevRead
<1>5. SoloChecked /\ SoloChainLinked
  BY EmptySeq DEF Init, SoloChecked, SoloChainLinked, Validators
<1> QED
  BY <1>2, <1>3, <1>4, <1>5 DEF ChainInv

\* Steps of generators, miners and statistics touch no validator.
LEMMA QuietChain ==
  ASSUME ChainInv, PrevRead', UNCHANGED <<vpc, vblk, active, ledger>>
  PROVE  ChainInv'
<1>1. Started' = Started /\ Appending' = Appending
  BY DEF Started, Appending
<1>2. StartedCounted' /\ RoomKept'
  BY <1>1 DEF ChainInv, StartedCounted, RoomKept
<1> QED
  BY <1>2 DEF ChainInv, SoloChecked, SoloChainLinked

LEMMA MinerChain ==
  ASSUME TypeInv, ChainInv, NEW m \in Miners, MinerNext(m)
  PROVE  ChainInv'
<1>1. UNCHANGED <<vpc, vblk, active, ledger>>
  BY DEF MinerNext, MinerWake, MinerReadHash, MinerTooFew, MinerSelect,
     MinerPowFails, MinerStartSend, MinerFinishSend, MinerSendFails, valVars
<1>2. \A n \in Miners : lastHash'[n] <= Len(ledger)
  <2>1. CASE MinerReadHash(m)
    BY <2>1
    DEF MinerReadHash, ChainInv, PrevRead, TypeInv, TypeOK, ChannelTypeOK,
        MinerTypeOK
  <2>2. CASE ~MinerReadHash(m)
    <3>1. lastHash' = lastHash
      BY <2>2 DEF MinerNext, MinerWake, MinerTooFew, MinerSelect,
         MinerPowFails, MinerStartSend, MinerFinishSend, MinerSendFails
    <3> QED
      BY <3>1 DEF ChainInv, PrevRead
  <2> QED
    BY <2>1, <2>2
<1>3. \A n \in Miners : mblk'[n] # NoBlock => mblk'[n].prev <= Len(ledger)
  <2>1. CASE MinerSelect(m)
    <3>1. PICK txs : mblk' = [mblk EXCEPT ![m] =
                       [miner |-> m, prev |-> lastHash[m], txs |-> txs]]
      BY <2>1 DEF MinerSelect
    <3> QED
      BY <3>1 DEF ChainInv, PrevRead, TypeInv, TypeOK, MinerTypeOK
  <2>2. CASE ~MinerSelect(m)
    <3>1. mblk' = mblk \/ mblk' = [mblk EXCEPT ![m] = NoBlock]
      BY <2>2 DEF MinerNext, MinerWake, MinerReadHash, MinerTooFew,
         MinerPowFails, MinerStartSend, MinerFinishSend, MinerSendFails,
         RestoreTxs
    <3> QED
      BY <3>1 DEF ChainInv, PrevRead, TypeInv, TypeOK, MinerTypeOK
  <2> QED
    BY <2>1, <2>2
<1>4. \A k \in 1..Len(pipe') :
        pipe'[k] # Garbage => pipe'[k].blk.prev <= Len(ledger)
  <2>1. CASE pipe' = pipe
    BY <2>1 DEF ChainInv, PrevRead
  <2>2. CASE pipe' # pipe
    <3>1. PICK b : /\ pipe' = Append(pipe, b)
                   /\ \/ b = Garbage
                      \/ b \in Frame /\ mblk[m] # NoBlock /\ b.blk = mblk[m]
      <4>1. CASE MinerFinishSend(m)
        <5>1. mblk[m] \in Block /\ mblk[m] # NoBlock
          BY <4>1 DEF MinerFinishSend, TypeInv, TypeOK, MinerTypeOK
        <5>2. [blk |-> mblk[m], whole |-> m \notin torn] \in Frame
          BY <5>1 DEF Frame
        <5> QED
          BY <4>1, <5>1, <5>2 DEF MinerFinishSend
      <4>2. CASE ~MinerFinishSend(m)
        <5>1. pipe' = Append(pipe, Garbage)
          BY <2>2, <4>2 DEF MinerNext, MinerWake, MinerReadHash, MinerTooFew,
             MinerSelect, MinerPowFails, MinerStartSend, MinerSendFails
        <5> QED
          BY <5>1
      <4> QED
        BY <4>1, <4>2
    <3>2. /\ Len(pipe') = Len(pipe) + 1 /\ Len(pipe) \in Nat
          /\ \A k \in 1..Len(pipe) : pipe'[k] = pipe[k]
          /\ pipe'[Len(pipe) + 1] = b
      BY <3>1, AppendProperties DEF TypeInv, TypeOK, ChannelTypeOK
    <3>3. b # Garbage => b.blk.prev <= Len(ledger)
      BY <3>1 DEF ChainInv, PrevRead
    <3>4. \A k \in 1..Len(pipe') : k \in 1..Len(pipe) \/ k = Len(pipe) + 1
      BY <3>2
    <3> QED
      BY <3>2, <3>3, <3>4 DEF ChainInv, PrevRead
  <2> QED
    BY <2>1, <2>2
<1>5. PrevRead'
  BY <1>1, <1>2, <1>3, <1>4 DEF ChainInv, PrevRead
<1> QED
  BY <1>1, <1>5, QuietChain

\* A step of living validators that leaves the ledger as it is.  Who comes to
\* append has seen room, and who is past the check of the previous hash was
\* past it before or has just compared.
LEMMA CheckChain ==
  ASSUME TypeInv, ChainInv, PrevRead', UNCHANGED <<active, ledger>>,
         \A v \in Validators : vpc'[v] = "off" <=> vpc[v] = "off",
         \A v \in Validators :
           vpc'[v] = "append" /\ vpc[v] # "append" =>
             Len(ledger) < BlockchainBlocks,
         \A v \in Validators :
           vpc'[v] \in {"txs", "full", "append"} =>
             /\ vblk'[v] = vblk[v]
             /\ \/ vpc[v] \in {"txs", "full", "append"}
                \/ vblk[v].prev = Len(ledger)
  PROVE  ChainInv'
<1>1. Started' = Started
  BY DEF Started
<1>2. StartedCounted'
  BY <1>1 DEF ChainInv, StartedCounted
<1>3. Appending' \subseteq Started /\ Appending \subseteq Started
  BY <1>1 DEF Appending, Started
<1>4. /\ IsFiniteSet(Appending) /\ IsFiniteSet(Appending')
      /\ Cardinality(Appending) \in Nat /\ Cardinality(Appending') \in Nat
      /\ Cardinality(Appending') <= active
  BY <1>3, FS_Subset, FS_CardinalityType DEF ChainInv, StartedCounted
<1>5. Len(ledger) \in Nat /\ active \in Nat
  BY DEF TypeInv, TypeOK, ChannelTypeOK, ValidatorTypeOK
<1>6. RoomKept'
  <2>1. CASE Appending' \subseteq Appending
    <3>1. Cardinality(Appending') <= Cardinality(Appending)
      BY <1>4, <2>1, FS_Subset
    <3> QED
      BY <1>4, <1>5, <3>1, ConfigAssumption DEF ChainInv, RoomKept
  <2>2. CASE ~(Appending' \subseteq Appending)
    <3>1. Len(ledger) < BlockchainBlocks
      BY <2>2 DEF Appending
    <3> QED
      BY <1>4, <1>5, <3>1, ConfigAssumption DEF RoomKept
  <2> QED
    BY <2>1, <2>2
<1>7. SoloChecked' /\ SoloChainLinked'
  BY DEF ChainInv, SoloChecked, SoloChainLinked, Validators
<1> QED
  BY <1>2, <1>6, <1>7 DEF ChainInv

LEMMA MisreadChain ==
  ASSUME TypeInv, ChainInv, NEW V \in SUBSET Validators,
         \A v \in V : vpc[v] = "select",
         NEW k \in 1..Len(pipe), NEW donors \in SUBSET (1..k),
         \A j \in donors : pipe[j] # Garbage, Misread(V, k, donors),
         UNCHANGED <<lastHash, mblk, active, ledger>>
  PROVE  ChainInv'
<1>1. PICK D \in SUBSET V : \E source \in [D -> donors] :
        MisreadResult(V, D, source)
  BY MisreadStep
<1>2. /\ \A v \in D : vpc'[v] = "prev" /\ vblk'[v].prev <= Len(ledger)
      /\ \A v \in V \ D : vpc'[v] \in {"report", "top"} /\ vblk'[v] = NoBlock
      /\ \A v \in Validators \ V : vpc'[v] = vpc[v] /\ vblk'[v] = vblk[v]
  BY <1>1 DEF MisreadResult
<1>3. \A j \in 1..Len(pipe') :
        pipe'[j] # Garbage => pipe'[j].blk.prev <= Len(ledger)
  <2> SUFFICES ASSUME NEW j \in 1..Len(pipe'), pipe'[j] # Garbage
               PROVE  pipe'[j].blk.prev <= Len(ledger)
    OBVIOUS
  <2>1. Len(pipe) \in Nat
    BY DEF TypeInv, TypeOK, ChannelTypeOK
  <2>2. Len(pipe') = Len(pipe) - k /\ pipe'[j] = pipe[j + k]
    BY RemaindersLike DEF Misread
  <2>3. j + k \in 1..Len(pipe)
    BY <2>1, <2>2
  <2> QED
    BY <2>2, <2>3 DEF ChainInv, PrevRead
<1>4. PrevRead'
  BY <1>2, <1>3 DEF ChainInv, PrevRead
<1>5. \A v \in Validators :
        /\ vpc'[v] = "off" <=> vpc[v] = "off"
        /\ vpc'[v] \in {"txs", "full", "append"} =>
             vpc'[v] = vpc[v] /\ vblk'[v] = vblk[v]
  BY <1>2
<1> QED
  BY <1>4, <1>5, CheckChain

\* A block is appended: the ledger takes up the room counted for it, and a
\* lone validator compared with the block that is still the last one.
LEMMA AppendChain ==
  ASSUME TypeInv, ChainInv, NEW v \in Validators, AppendBlock(v)
  PROVE  ChainInv'
<1>1. /\ UNCHANGED <<lastHash, mblk, pipe, vblk, active>>
      /\ ledger' = Append(ledger, vblk[v])
      /\ vpc[v] = "append" /\ vpc'[v] = "remove"
      /\ \A u \in Validators \ {v} : vpc'[u] = vpc[u]
  BY DEF AppendBlock, minerVars, TypeInv, TypeOK, ValidatorTypeOK
<1>2. /\ Len(ledger') = Len(ledger) + 1 /\ Len(ledger) \in Nat
      /\ \A k \in 1..Len(ledger) : ledger'[k] = ledger[k]
      /\ ledger'[Len(ledger) + 1] = vblk[v]
  <2>1. ledger \in Seq(Block) /\ vblk[v] \in Block
    BY <1>1 DEF TypeInv, TypeOK, ChannelTypeOK, ValidatorTypeOK, CheckPc
  <2> QED
    BY <1>1, <2>1, AppendProperties
<1>3. StartedCounted'
  <2>1. Started' = Started
    BY <1>1 DEF Started
  <2> QED
    BY <1>1, <2>1 DEF ChainInv, StartedCounted
<1>4. RoomKept'
  <2>1. Appending' = Appending \ {v} /\ v \in Appending
    BY <1>1 DEF Appending
  <2>2. IsFiniteSet(Appending)
    BY FS_Subset DEF ChainInv, StartedCounted, Appending, Started
  <2>3. /\ Cardinality(Appending') = Cardinality(Appending) - 1
        /\ Cardinality(Appending) \in Nat
    BY <2>1, <2>2, FS_RemoveElement, FS_CardinalityType
  <2>4. active \in Nat
    BY DEF TypeInv, TypeOK, ValidatorTypeOK
  <2> QED
    BY <1>1, <1>2, <2>3, <2>4, ConfigAssumption DEF ChainInv, RoomKept
<1>5. PrevRead'
  <2>1. \A n \in Nat : n <= Len(ledger) => n <= Len(ledger')
    BY <1>2
  <2>2. \A b \in Block : b.prev \in Nat
    BY DEF Block
  <2>3. \A k \in 1..Len(pipe) : pipe[k] # Garbage => pipe[k].blk \in Block
    BY ElementOfSeq, TxsOfFrame DEF TypeInv, TypeOK, ChannelTypeOK
  <2>4. \A m \in Miners : /\ lastHash[m] \in Nat
                          /\ mblk[m] # NoBlock => mblk[m] \in Block
    BY DEF TypeInv, TypeOK, MinerTypeOK
  <2>5. \A u \in Validators : vblk[u] # NoBlock => vblk[u] \in Block
    BY DEF TypeInv, TypeOK, ValidatorTypeOK
  <2> QED
    BY <1>1, <2>1, <2>2, <2>3, <2>4, <2>5 DEF ChainInv, PrevRead
<1>6. active = 1 => v = Primary
  BY <1>1, SoloPrimary DEF ChainInv
<1>7. SoloChecked'
  BY <1>1, <1>6 DEF SoloChecked
<1>8. SoloChainLinked'
  <2> SUFFICES ASSUME active = 1, NEW k \in 1..Len(ledger')
               PROVE  ledger'[k].prev = k - 1
    BY <1>1 DEF SoloChainLinked
  <2>1. CASE k \in 1..Len(ledger)
    BY <1>2, <2>1 DEF ChainInv, SoloChainLinked
  <2>2. CASE k = Len(ledger) + 1
    BY <1>1, <1>2, <1>6, <2>2 DEF ChainInv, SoloChecked
  <2> QED
    BY <1>2, <2>1, <2>2
<1> QED
  BY <1>3, <1>4, <1>5, <1>7, <1>8 DEF ChainInv

LEMMA ForkChain ==
  ASSUME TypeInv, ChainInv, NEW c \in Children, Fork(c)
  PROVE  ChainInv'
<1>1. /\ UNCHANGED <<lastHash, mblk, pipe, vblk, ledger>>
      /\ active' = active + 1 /\ active \in 1..3
      /\ vpc[c] = "off" /\ vpc[Primary] = "top" /\ c # Primary
      /\ vpc' = [vpc EXCEPT ![Primary] = "select", ![c] = "top"]
  BY ProcessAssumption
  DEF Fork, minerVars, TypeInv, TypeOK, ValidatorTypeOK
<1>2. /\ vpc'[c] = "top" /\ vpc'[Primary] = "select"
      /\ \A v \in Validators \ {c, Primary} : vpc'[v] = vpc[v]
  BY <1>1 DEF TypeInv, TypeOK, ValidatorTypeOK, Validators
<1>3. Started' = Started \cup {c} /\ c \notin Started
  BY <1>1, <1>2 DEF Started, Validators
<1>4. Appending' = Appending
  BY <1>1, <1>2 DEF Appending, Validators
<1>5. StartedCounted'
  BY <1>1, <1>3, FS_AddElement DEF ChainInv, StartedCounted
<1>6. RoomKept'
  <2>1. Len(ledger) \in Nat
    BY DEF TypeInv, TypeOK, ChannelTypeOK
  <2>2. IsFiniteSet(Appending)
    BY FS_Subset DEF ChainInv, StartedCounted, Appending, Started
  <2>3. Cardinality(Appending) \in Nat
    BY <2>2, FS_CardinalityType
  <2> QED
    BY <1>1, <1>4, <2>1, <2>3, ConfigAssumption DEF ChainInv, RoomKept
<1>7. PrevRead'
  BY <1>1 DEF ChainInv, PrevRead
<1>8. active' # 1
  BY <1>1
<1> QED
  BY <1>5, <1>6, <1>7, <1>8 DEF ChainInv, SoloChecked, SoloChainLinked

LEMMA ValidatorChain ==
  ASSUME TypeInv, ChainInv, NEW v \in Validators, ValidatorNext(v)
  PROVE  ChainInv'
<1>1. CASE AppendBlock(v)
  BY <1>1, AppendChain
<1>2. CASE ReadGarbage(v)
  <2>1. PICK k \in 1..Len(pipe) :
          Misread({v}, k, {j \in 1..k : pipe[j] # Garbage /\ ~pipe[j].whole})
    BY <1>2 DEF ReadGarbage
  <2> QED
    BY <1>2, <2>1, MisreadChain DEF ReadGarbage, minerVars
<1>3. CASE ~AppendBlock(v) /\ ~ReadGarbage(v)
  <2>1. UNCHANGED <<lastHash, mblk, active, ledger>>
    BY <1>3 DEF ValidatorNext, ValidatorTop, ChildExit, SelectTimeout,
       ReadFrame, PrevMatches, PrevMismatch, TxsPresent, TxMissing,
       LedgerHasRoom, LedgerFull, RemoveTxs, GiveBack, SendStatistics, Go,
       minerVars
  <2>2. /\ vpc[v] # "off" /\ vpc'[v] # "off"
        /\ \A u \in Validators \ {v} : vpc'[u] = vpc[u]
    BY <1>3 DEF ValidatorNext, ValidatorTop, ChildExit, SelectTimeout,
       ReadFrame, PrevMatches, PrevMismatch, TxsPresent, TxMissing,
       LedgerHasRoom, LedgerFull, RemoveTxs, GiveBack, SendStatistics, Go,
       Report, TypeInv, TypeOK, ValidatorTypeOK
  <2>3. vpc'[v] = "append" => Len(ledger) < BlockchainBlocks
    BY <1>3 DEF ValidatorNext, ValidatorTop, ChildExit, SelectTimeout,
       ReadFrame, PrevMatches, PrevMismatch, TxsPresent, TxMissing,
       LedgerHasRoom, LedgerFull, RemoveTxs, GiveBack, SendStatistics, Go,
       Report, TypeInv, TypeOK, ValidatorTypeOK
  <2>4. vpc'[v] \in {"txs", "full", "append"} =>
          /\ vblk' = vblk
          /\ vpc[v] \in {"txs", "full"} \/ vblk[v].prev = Len(ledger)
    BY <1>3 DEF ValidatorNext, ValidatorTop, ChildExit, SelectTimeout,
       ReadFrame, PrevMatches, PrevMismatch, TxsPresent, TxMissing,
       LedgerHasRoom, LedgerFull, RemoveTxs, GiveBack, SendStatistics, Go,
       Report, TypeInv, TypeOK, ValidatorTypeOK
  <2>5. \A u \in Validators \ {v} : vblk'[u] = vblk[u]
    BY <1>3 DEF ValidatorNext, ValidatorTop, ChildExit, SelectTimeout,
       ReadFrame, PrevMatches, PrevMismatch, TxsPresent, TxMissing,
       LedgerHasRoom, LedgerFull, RemoveTxs, GiveBack, SendStatistics, Go,
       Report, TypeInv, TypeOK, ValidatorTypeOK
  <2>6. PrevRead'
    <3>1. CASE ReadFrame(v)
      <4>1. /\ pipe # <<>> /\ Len(pipe) \in Nat /\ 1 \in 1..Len(pipe)
            /\ Len(pipe') = Len(pipe) - 1
            /\ \A k \in 1..(Len(pipe) - 1) : pipe'[k] = pipe[k + 1]
            /\ vblk' = [vblk EXCEPT ![v] = pipe[1].blk] /\ pipe[1] # Garbage
        <5>1. pipe \in Seq(Frame \cup {Garbage})
          BY DEF TypeInv, TypeOK, ChannelTypeOK
        <5>2. pipe # <<>> /\ Head(pipe) # Garbage /\ Head(pipe) = pipe[1]
          BY <3>1, <5>1 DEF ReadFrame, Readable
        <5>3. /\ Len(pipe) \in Nat /\ 1 \in 1..Len(pipe)
              /\ Len(Tail(pipe)) = Len(pipe) - 1
              /\ \A k \in 1..(Len(pipe) - 1) : Tail(pipe)[k] = pipe[k + 1]
          BY <5>1, <5>2
        <5>4. pipe' = Tail(pipe) /\ vblk' = [vblk EXCEPT ![v] = Head(pipe).blk]
          BY <3>1 DEF ReadFrame
        <5> QED
          BY <5>2, <5>3, <5>4
      <4>2. \A k \in 1..Len(pipe') :
              pipe'[k] # Garbage => pipe'[k].blk.prev <= Len(ledger)
        <5>1. \A k \in 1..Len(pipe') :
                k + 1 \in 1..Len(pipe) /\ pipe'[k] = pipe[k + 1]
          BY <4>1
        <5> QED
          BY <5>1 DEF ChainInv, PrevRead
      <4>3. vblk'[v] = pipe[1].blk
        BY <4>1 DEF TypeInv, TypeOK, ValidatorTypeOK
      <4>4. pipe[1].blk.prev <= Len(ledger)
        BY <4>1 DEF ChainInv, PrevRead
      <4>5. \A u \in Validators :
              vblk'[u] # NoBlock => vblk'[u].prev <= Len(ledger)
        BY <2>5, <4>3, <4>4 DEF ChainInv, PrevRead
      <4> QED
        BY <2>1, <4>2, <4>5 DEF ChainInv, PrevRead
    <3>2. CASE ~ReadFrame(v)
      <4>1. pipe' = pipe /\ (vblk' = vblk \/ vblk' = [vblk EXCEPT ![v] = NoBlock])
        BY <1>3, <3>2 DEF ValidatorNext, ValidatorTop, ChildExit,
           SelectTimeout, PrevMatches, PrevMismatch, TxsPresent, TxMissing,
           LedgerHasRoom, LedgerFull, RemoveTxs, GiveBack, SendStatistics, Go,
           Report
      <4>2. vblk'[v] = vblk[v] \/ vblk'[v] = NoBlock
        BY <4>1 DEF TypeInv, TypeOK, ValidatorTypeOK
      <4> QED
        BY <2>1, <2>5, <4>1, <4>2 DEF ChainInv, PrevRead
    <3> QED
      BY <3>1, <3>2
  <2>7. /\ \A u \in Validators : vpc'[u] = "off" <=> vpc[u] = "off"
        /\ \A u \in Validators :
             vpc'[u] = "append" /\ vpc[u] # "append" =>
               Len(ledger) < BlockchainBlocks
    BY <2>2, <2>3
  <2>8. \A u \in Validators :
          vpc'[u] \in {"txs", "full", "append"} =>
            /\ vblk'[u] = vblk[u]
            /\ \/ vpc[u] \in {"txs", "full", "append"}
               \/ vblk[u].prev = Len(ledger)
    BY <2>2, <2>4, <2>5
  <2> QED
    BY <2>1, <2>6, <2>7, <2>8, CheckChain
<1> QED
  BY <1>1, <1>2, <1>3

LEMMA NextChain == TypeInv /\ ChainInv /\ [Next]_vars => ChainInv'
<1> SUFFICES ASSUME TypeInv, ChainInv, [Next]_vars PROVE ChainInv'
  OBVIOUS
<1>1. ASSUME NEW g \in TxGens, GenNext(g) PROVE ChainInv'
  <2>1. UNCHANGED <<lastHash, mblk, pipe, vpc, vblk, active, ledger>>
    BY <1>1 DEF GenNext, TxAdd, TxPoolFull, TxNotify, minerVars, valVars
  <2>2. PrevRead'
    BY <2>1 DEF ChainInv, PrevRead
  <2> QED
    BY <2>1, <2>2, QuietChain
<1>2. ASSUME NEW V \in SUBSET Validators, ReadTorn(V)
      PROVE  ChainInv'
  <2>1. PICK k \in 1..Len(pipe) :
          Misread(V, k, {j \in 1..k : pipe[j] # Garbage})
    BY <1>2 DEF ReadTorn
  <2> QED
    BY <1>2, <2>1, MisreadChain DEF ReadTorn, minerVars
<1>3. CASE StatReceive \/ UNCHANGED vars
  <2>1. UNCHANGED <<lastHash, mblk, pipe, vpc, vblk, active, ledger>>
    BY <1>3 DEF StatReceive, vars, minerVars, valVars
  <2>2. PrevRead'
    BY <2>1 DEF ChainInv, PrevRead
  <2> QED
    BY <2>1, <2>2, QuietChain
<1> QED
  BY <1>1, <1>2, <1>3, MinerChain, ValidatorChain, ForkChain DEF Next

LEMMA ChainInvariant == Spec => [](TypeInv /\ OwnInv /\ ChainInv)
<1>1. Init => ChainInv
  BY InitChain
<1>2. TypeInv /\ ChainInv /\ [Next]_vars => ChainInv'
  BY NextChain
<1> QED
  BY <1>1, <1>2, OwnInvariant, PTL DEF Spec

\* As long as active_validators has never exceeded one, every block of the
\* ledger names the block before it.
THEOREM SoloChainLinkedCorrect == Spec => []SoloChainLinked
BY ChainInvariant, PTL DEF ChainInv

\* The ledger exceeds blockchain_blocks by at most one block per additional
\* validator: the check outside ledger->mutex costs no more than that.
THEOREM LedgerBoundCorrect == Spec => []LedgerBound
<1>1. TypeInv /\ ChainInv => LedgerBound
  <2> SUFFICES ASSUME TypeInv, ChainInv PROVE LedgerBound
    OBVIOUS
  <2>1. Cardinality(Appending) \in Nat
    BY FS_Subset, FS_CardinalityType
    DEF ChainInv, StartedCounted, Appending, Started
  <2>2. Len(ledger) \in Nat /\ active \in Nat
    BY DEF TypeInv, TypeOK, ChannelTypeOK, ValidatorTypeOK
  <2> QED
    BY <2>1, <2>2, ConfigAssumption DEF ChainInv, RoomKept, LedgerBound
<1> QED
  BY <1>1, ChainInvariant, PTL

\* An append is a step of the abstract chain: there is room for it, its block
\* names a block of the ledger, the last one if the writer is alone, and its
\* transactions are new.
LEMMA AppendRefines ==
  ASSUME TypeInv, ChainInv, OwnInv, NEW v \in Validators, AppendBlock(v)
  PROVE  Abstract!Extend
<1>1. /\ UNCHANGED active
      /\ ledger' = Append(ledger, vblk[v])
      /\ vpc[v] = "append" /\ vblk[v] \in Block
  BY DEF AppendBlock, TypeInv, TypeOK, ValidatorTypeOK, CheckPc
<1>2. /\ Len(ledger) \in Nat
      /\ \A k \in 1..Len(ledger) : ledger[k] \in Block
  BY ElementOfSeq DEF TypeInv, TypeOK, ChannelTypeOK
<1>3. Len(ledger) < BlockchainBlocks - 1 + active
  <2>1. v \in Appending /\ IsFiniteSet(Appending)
    BY <1>1, FS_Subset DEF ChainInv, StartedCounted, Appending, Started
  <2>2. Cardinality(Appending) \in Nat /\ Cardinality(Appending) # 0
    BY <2>1, FS_CardinalityType, FS_EmptySet
  <2>3. active \in Nat
    BY DEF TypeInv, TypeOK, ValidatorTypeOK
  <2> QED
    BY <1>2, <2>2, <2>3, ConfigAssumption DEF ChainInv, RoomKept
<1>4. PICK m \in Miners \cup {Unknown}, p \in Nat, txs \in [1..TxsPerBlock -> Tx] :
        vblk[v] = [miner |-> m, prev |-> p, txs |-> txs]
  BY <1>1 DEF Block
<1>5. p \in 0..Len(ledger)
  <2>1. vblk[v].prev <= Len(ledger)
    BY <1>1, TxsOfBlock DEF ChainInv, PrevRead
  <2> QED
    BY <1>2, <1>4, <2>1
<1>6. active = 1 => p = Len(ledger)
  <2> SUFFICES ASSUME active = 1 PROVE p = Len(ledger)
    OBVIOUS
  <2>1. v = Primary
    BY <1>1, SoloPrimary DEF ChainInv
  <2>2. vblk[v].prev = Len(ledger)
    BY <1>1, <2>1 DEF ChainInv, SoloChecked
  <2> QED
    BY <1>4, <2>2
<1>7. \A b \in Block : Abstract!BlockTxs(b) = TxsOf(b)
  BY TxsOfBlock DEF Abstract!BlockTxs
<1>8. \A k \in 1..Len(ledger) :
        Abstract!BlockTxs(ledger[k]) \cap Abstract!BlockTxs(vblk[v]) = {}
  <2> SUFFICES ASSUME NEW k \in 1..Len(ledger)
               PROVE  TxsOf(ledger[k]) \cap TxsOf(vblk[v]) = {}
    BY <1>1, <1>2, <1>7
  <2>1. /\ LedgerPlace(k) \in Place /\ ValidatorPlace(v) \in Place
        /\ LedgerPlace(k) # ValidatorPlace(v)
    BY <1>2, PlacesDiffer DEF Place
  <2> QED
    BY <1>1, <2>1, HeldAt DEF OwnInv, Owned, OnePlace
<1> QED
  BY <1>1, <1>3, <1>4, <1>5, <1>6, <1>8 DEF Abstract!Extend

LEMMA NextRefines ==
  TypeInv /\ OwnInv /\ ChainInv /\ [Next]_vars =>
    [Abstract!Next]_<<ledger, active>>
<1> SUFFICES ASSUME TypeInv, OwnInv, ChainInv, [Next]_vars
             PROVE  [Abstract!Next]_<<ledger, active>>
  OBVIOUS
<1>1. ASSUME NEW v \in Validators, AppendBlock(v) PROVE Abstract!Next
  BY <1>1, AppendRefines DEF Abstract!Next
<1>2. ASSUME NEW c \in Children, Fork(c) PROVE Abstract!Next
  <2>1. active < 3 /\ active' = active + 1 /\ UNCHANGED ledger
    BY <1>2 DEF Fork, WantsValidator, TypeInv, TypeOK, ValidatorTypeOK
  <2> QED
    BY <2>1 DEF Abstract!Next, Abstract!AddWriter
<1>3. ASSUME NEW v \in Validators, ValidatorNext(v), ~AppendBlock(v)
      PROVE  UNCHANGED <<ledger, active>>
  BY <1>3 DEF ValidatorNext, ValidatorTop, ChildExit, SelectTimeout,
     ReadFrame, ReadGarbage, PrevMatches, PrevMismatch, TxsPresent, TxMissing,
     LedgerHasRoom, LedgerFull, RemoveTxs, GiveBack, SendStatistics, Go
<1>4. ASSUME NEW m \in Miners, MinerNext(m) PROVE UNCHANGED <<ledger, active>>
  BY <1>4 DEF MinerNext, MinerWake, MinerReadHash, MinerTooFew, MinerSelect,
     MinerPowFails, MinerStartSend, MinerFinishSend, MinerSendFails, valVars
<1>5. ASSUME NEW g \in TxGens, GenNext(g) PROVE UNCHANGED <<ledger, active>>
  BY <1>5 DEF GenNext, TxAdd, TxPoolFull, TxNotify, valVars
<1>6. ASSUME NEW V \in SUBSET Validators, ReadTorn(V)
      PROVE  UNCHANGED <<ledger, active>>
  BY <1>6 DEF ReadTorn
<1>7. CASE StatReceive \/ UNCHANGED vars
  BY <1>7 DEF StatReceive, valVars, vars
<1> QED
  BY <1>1, <1>2, <1>3, <1>4, <1>5, <1>6, <1>7 DEF Next

\* The ledger behaves like the abstract chain, with the validators created so
\* far as its writers.
THEOREM ImplementsChainCorrect == Spec => ImplementsChain
<1>1. Init => Abstract!Init
  BY DEF Init, Abstract!Init
<1>2. TypeInv /\ OwnInv /\ ChainInv /\ [Next]_vars =>
        [Abstract!Next]_<<ledger, active>>
  BY NextRefines
<1> QED
  BY <1>1, <1>2, ChainInvariant, PTL DEF Spec, ImplementsChain, Abstract!Spec
=============================================================================
