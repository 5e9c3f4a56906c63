--------------------------- MODULE DeiChainProofs ---------------------------
(***************************************************************************)
(* Proofs about DeiChain, for every number of processes, pool size, block  *)
(* size, ledger capacity and number of transactions.                       *)
(***************************************************************************)
EXTENDS DeiChain, FiniteSetTheorems, SequenceTheorems, TLAPS

\* A slot in use holds a transaction: what a miner selects is never NoTx.
UsedSlotsHold == \A i \in Available : slotTx[i] # NoTx

TypeInv == TypeOK /\ UsedSlotsHold

\* The percentage computed for the occupancy is one.
LEMMA PercentType == \A e : Percent(e) \in 0..100
<1>1. SUFFICES ASSUME NEW e PROVE Percent(e) \in 0..100
  OBVIOUS
<1>2. IsFiniteSet(Slot) /\ Cardinality(Slot) = PoolSize
  BY FS_Interval, ConfigAssumption DEF Slot
<1>3. Cardinality(Slot \ e) \in Nat /\ Cardinality(Slot \ e) <= PoolSize
  BY <1>2, FS_Subset, FS_CardinalityType
<1>4. \A c \in Nat, n \in Nat \ {0} : c <= n => (c * 100) \div n \in 0..100
  OBVIOUS
<1>5. QED
  BY <1>3, <1>4, ConfigAssumption DEF Percent

\* The transactions of a block and of a frame, and of what is none.
LEMMA TxsOfBlock ==
  /\ \A b \in Block : /\ b # NoBlock
                      /\ TxsOf(b) = {b.txs[i] : i \in 1..TxsPerBlock}
                      /\ TxsOf(b) \subseteq Tx
  /\ TxsOf(NoBlock) = {}
<1>1. \A b \in Block, i \in 1..TxsPerBlock : b.txs[i] \in Tx
  BY DEF Block
<1> QED
  BY <1>1, ValueAssumption DEF TxsOf

LEMMA TxsOfFrame ==
  /\ \A f \in Frame : /\ f # Garbage /\ f.blk \in Block
                      /\ FrameTxs(f) = TxsOf(f.blk)
                      /\ FrameTxs(f) \subseteq Tx
  /\ FrameTxs(Garbage) = {}
<1>1. \A f \in Frame : f # Garbage /\ f.blk \in Block
  BY ValueAssumption DEF Frame
<1> QED
  BY <1>1, TxsOfBlock DEF FrameTxs

LEMMA InitType == Init => TypeInv
<1> SUFFICES ASSUME Init PROVE TypeInv
  OBVIOUS
<1>1. PoolTypeOK /\ GenTypeOK
  BY ConfigAssumption DEF Init, PoolTypeOK, GenTypeOK, GenPc
<1>2. MinerTypeOK
  BY DEF Init, MinerTypeOK, MinerPc
<1>3. ValidatorTypeOK
  BY DEF Init, ValidatorTypeOK, ValidatorPc, CheckPc, Silent, Message
<1>4. ChannelTypeOK /\ StatTypeOK
  BY DEF Init, ChannelTypeOK, StatTypeOK
<1>5. UsedSlotsHold
  BY DEF Init, UsedSlotsHold, Available
<1> QED
  BY <1>1, <1>2, <1>3, <1>4, <1>5 DEF TypeInv, TypeOK

LEMMA GenType ==
  ASSUME TypeInv, NEW g \in TxGens, GenNext(g)
  PROVE  TypeInv'
<1> USE DEF TypeInv, TypeOK
<1>1. CASE TxAdd(g)
  <2>1. PICK i \in Slot :
          /\ FirstEmpty(i)
          /\ slotTx' = [slotTx EXCEPT ![i] = <<g, counter[g]>>]
          /\ empty' = empty \ {i}
    BY <1>1 DEF TxAdd
  <2>2. <<g, counter[g]>> \in Tx
    BY <1>1, ConfigAssumption DEF TxAdd, GenTypeOK, Tx
  <2>3. PoolTypeOK'
    BY <1>1, <2>1, <2>2, PercentType DEF TxAdd, PoolTypeOK
  <2>4. GenTypeOK'
    BY <1>1, ConfigAssumption DEF TxAdd, GenTypeOK, GenPc
  <2>5. UsedSlotsHold'
    BY <2>1, <2>2, ValueAssumption DEF UsedSlotsHold, Available, PoolTypeOK
  <2> QED
    BY <1>1, <2>3, <2>4, <2>5 DEF TxAdd, minerVars, valVars, statVars,
       MinerTypeOK, ValidatorTypeOK, ChannelTypeOK, StatTypeOK
<1>2. CASE TxPoolFull(g)
  BY <1>2, ConfigAssumption DEF TxPoolFull, poolVars, minerVars, valVars, statVars,
     PoolTypeOK, GenTypeOK, MinerTypeOK, ValidatorTypeOK, ChannelTypeOK,
     StatTypeOK, UsedSlotsHold, Available
<1>3. CASE TxNotify(g)
  BY <1>3 DEF TxNotify, poolVars, minerVars, valVars, statVars,
     PoolTypeOK, GenTypeOK, GenPc, MinerTypeOK, ValidatorTypeOK, ChannelTypeOK,
     StatTypeOK, UsedSlotsHold, Available
<1> QED
  BY <1>1, <1>2, <1>3 DEF GenNext

LEMMA MinerType ==
  ASSUME TypeInv, NEW m \in Miners, MinerNext(m)
  PROVE  TypeInv'
<1> USE DEF TypeInv, TypeOK
<1>1. ASSUME empty' = empty \ Holding(TxsOf(mblk[m])), UNCHANGED slotTx,
             mblk[m] # NoBlock
      PROVE  empty' \in SUBSET Slot /\ UsedSlotsHold'
  <2>1. mblk[m] \in Block /\ TxsOf(mblk[m]) \subseteq Tx
    BY <1>1, TxsOfBlock DEF MinerTypeOK
  <2> QED
    BY <1>1, <2>1, ValueAssumption
    DEF UsedSlotsHold, Available, PoolTypeOK, Holding
<1>2. ASSUME NEW A, A \in {"wait", "hash", "select"},
             mpc' = [mpc EXCEPT ![m] = A],
             mblk' = [mblk EXCEPT ![m] = NoBlock]
      PROVE  /\ mpc' \in [Miners -> MinerPc]
             /\ mblk' \in [Miners -> Block \cup {NoBlock}]
             /\ \A n \in Miners : mblk'[n] # NoBlock <=> mpc'[n] \in {"mine", "send"}
  BY <1>2 DEF MinerTypeOK, MinerPc
<1>3. CASE MinerWake(m)
  BY <1>3 DEF MinerWake, poolVars, genVars, valVars, statVars, PoolTypeOK,
     GenTypeOK, MinerTypeOK, MinerPc, ValidatorTypeOK, ChannelTypeOK,
     StatTypeOK, UsedSlotsHold, Available
<1>4. CASE MinerReadHash(m)
  <2>1. Len(ledger) \in Nat
    BY DEF ChannelTypeOK
  <2> QED
    BY <1>4, <2>1 DEF MinerReadHash, poolVars, genVars, valVars, statVars,
       PoolTypeOK, GenTypeOK, MinerTypeOK, MinerPc, ValidatorTypeOK,
       ChannelTypeOK, StatTypeOK, UsedSlotsHold, Available
<1>5. CASE MinerTooFew(m)
  BY <1>5 DEF MinerTooFew, poolVars, genVars, valVars, statVars, PoolTypeOK,
     GenTypeOK, MinerTypeOK, MinerPc, ValidatorTypeOK, ChannelTypeOK,
     StatTypeOK, UsedSlotsHold, Available
<1>6. CASE MinerSelect(m)
  <2>1. PICK s \in [1..TxsPerBlock -> Available] :
          /\ empty' = empty \cup Reserved(s)
          /\ mblk' = [mblk EXCEPT ![m] =
                        [miner |-> m, prev |-> lastHash[m],
                         txs |-> [k \in 1..TxsPerBlock |-> slotTx[s[k]]]]]
    BY <1>6 DEF MinerSelect
  <2> DEFINE b == [miner |-> m, prev |-> lastHash[m],
                   txs |-> [k \in 1..TxsPerBlock |-> slotTx[s[k]]]]
  <2>2. \A k \in 1..TxsPerBlock : slotTx[s[k]] \in Tx
    BY DEF UsedSlotsHold, PoolTypeOK, Available
  <2>3. b \in Block
    BY <2>2 DEF Block, MinerTypeOK
  <2>4. PoolTypeOK' /\ UsedSlotsHold'
    BY <1>6, <2>1
    DEF MinerSelect, PoolTypeOK, UsedSlotsHold, Available, Reserved
  <2>5. MinerTypeOK'
    BY <1>6, <2>1, <2>3, ValueAssumption DEF MinerSelect, MinerTypeOK, MinerPc
  <2> QED
    BY <1>6, <2>4, <2>5 DEF MinerSelect, genVars, valVars, statVars,
       GenTypeOK, ValidatorTypeOK, ChannelTypeOK, StatTypeOK
<1>7. CASE MinerPowFails(m)
  <2>1. mblk[m] # NoBlock
    BY <1>7 DEF MinerPowFails, MinerTypeOK
  <2> QED
    BY <1>1, <1>2, <1>7, <2>1 DEF MinerPowFails, RestoreTxs, genVars, valVars,
       statVars, PoolTypeOK, GenTypeOK, MinerTypeOK, ValidatorTypeOK,
       ChannelTypeOK, StatTypeOK
<1>8. CASE MinerStartSend(m)
  <2>1. torn' \in SUBSET Miners
    BY <1>8 DEF MinerStartSend, MinerTypeOK, Senders
  <2> QED
    BY <1>8, <2>1 DEF MinerStartSend, poolVars, genVars, valVars, statVars,
       PoolTypeOK, GenTypeOK, MinerTypeOK, MinerPc, ValidatorTypeOK,
       ChannelTypeOK, StatTypeOK, UsedSlotsHold, Available
<1>9. CASE MinerFinishSend(m)
  <2>1. mblk[m] \in Block
    BY <1>9 DEF MinerFinishSend, MinerTypeOK
  <2>2. [blk |-> mblk[m], whole |-> m \notin torn] \in Frame
    BY <2>1 DEF Frame
  <2>3. ChannelTypeOK'
    BY <1>9, <2>2 DEF MinerFinishSend, ChannelTypeOK
  <2> QED
    BY <1>2, <1>9, <2>3 DEF MinerFinishSend, poolVars, genVars, valVars,
       statVars, PoolTypeOK, GenTypeOK, MinerTypeOK, ValidatorTypeOK,
       StatTypeOK, UsedSlotsHold, Available
<1>10. CASE MinerSendFails(m)
  <2>1. mblk[m] # NoBlock
    BY <1>10 DEF MinerSendFails, MinerTypeOK
  <2>2. Append(pipe, Garbage) \in Seq(Frame \cup {Garbage})
    BY DEF ChannelTypeOK
  <2>3. ChannelTypeOK'
    BY <1>10, <2>2 DEF MinerSendFails, ChannelTypeOK
  <2> QED
    BY <1>1, <1>2, <1>10, <2>1, <2>3 DEF MinerSendFails, RestoreTxs, genVars,
       valVars, statVars, PoolTypeOK, GenTypeOK, MinerTypeOK, ValidatorTypeOK,
       StatTypeOK
<1> QED
  BY <1>3, <1>4, <1>5, <1>6, <1>7, <1>8, <1>9, <1>10 DEF MinerNext

\* A step that only moves one validator between two places where it holds a
\* block, or between two where it holds none.
LEMMA GoType ==
  ASSUME TypeInv, NEW v \in Validators, NEW A \in ValidatorPc,
         NEW B \in ValidatorPc, A \in CheckPc <=> B \in CheckPc, Go(v, A, B)
  PROVE  TypeInv'
BY DEF TypeInv, TypeOK, Go, poolVars, genVars, minerVars, statVars, PoolTypeOK,
   GenTypeOK, MinerTypeOK, ValidatorTypeOK, ChannelTypeOK, StatTypeOK,
   UsedSlotsHold, Available

LEMMA ReportType ==
  ASSUME TypeInv, NEW v \in Validators, vpc[v] \in CheckPc,
         NEW valid \in BOOLEAN, Report(v, valid), UNCHANGED active
  PROVE  ValidatorTypeOK'
<1> USE DEF TypeInv, TypeOK
<1>1. vblk[v] \in Block
  BY DEF ValidatorTypeOK
<1>2. [miner |-> vblk[v].miner, valid |-> valid] \in Message
  BY <1>1 DEF Message, Block
<1> QED
  BY <1>2 DEF Report, ValidatorTypeOK, ValidatorPc, CheckPc

\* Clearing the flag of slots that hold transactions keeps them selectable.
LEMMA ReleaseType ==
  ASSUME TypeInv, NEW txs \in SUBSET Tx,
         empty' = empty \ Holding(txs), UNCHANGED slotTx
  PROVE  empty' \in SUBSET Slot /\ UsedSlotsHold'
BY ValueAssumption DEF TypeInv, TypeOK, UsedSlotsHold, Available, PoolTypeOK,
   Holding

\* What a misread leaves in the pipe: the frames after the first k, except
\* that the first of them may have become garbage.
LEMMA RemaindersLike ==
  ASSUME TypeInv, NEW k \in 1..Len(pipe), NEW r \in Remainders(k)
  PROVE  /\ r \in Seq(Frame \cup {Garbage})
         /\ Len(r) = Len(pipe) - k
         /\ \A i \in 1..Len(r) : r[i] = pipe[i + k] \/ r[i] = Garbage
<1>1. PICK rest : rest = SubSeq(pipe, k + 1, Len(pipe))
  OBVIOUS
<1>2. pipe \in Seq(Frame \cup {Garbage}) /\ Len(pipe) \in Nat
  BY DEF TypeInv, TypeOK, ChannelTypeOK
<1>3. /\ rest \in Seq(Frame \cup {Garbage})
      /\ Len(rest) = Len(pipe) - k /\ Len(rest) \in Nat
      /\ \A i \in 1..Len(rest) : rest[i] = pipe[i + k]
  BY <1>1, <1>2
<1>4. CASE r = rest
  BY <1>3, <1>4
<1>5. CASE r = [i \in 1..Len(rest) |-> IF i = 1 THEN Garbage ELSE rest[i]]
  <2>1. \A i \in 1..Len(rest) : rest[i] \in Frame \cup {Garbage}
    BY <1>3
  <2>2. r \in [1..Len(rest) -> Frame \cup {Garbage}]
    BY <1>5, <2>1
  <2>3. r \in Seq(Frame \cup {Garbage}) /\ Len(r) = Len(rest)
    <3>1. r \in Seq(Frame \cup {Garbage})
      BY <1>3, <2>2, SeqDef
    <3>2. DOMAIN r = 1..Len(r) /\ Len(r) \in Nat /\ DOMAIN r = 1..Len(rest)
      BY <2>2, <3>1
    <3> QED
      BY <1>3, <3>1, <3>2
  <2> QED
    BY <1>3, <1>5, <2>3
<1> QED
  BY <1>1, <1>4, <1>5 DEF Remainders

\* A misread seen from its readers V: those in D get a block with the
\* transactions of a frame that is gone, each of another frame.
MisreadResult(V, D, source) ==
  /\ \A v, w \in D : source[v] = source[w] => v = w
  /\ \A v \in D : /\ vpc'[v] = "prev" /\ vblk'[v] \in Block
                  /\ vblk'[v].txs = pipe[source[v]].blk.txs
                  /\ vblk'[v].prev <= Len(ledger)
  /\ \A v \in V \ D : vpc'[v] \in {"report", "top"} /\ vblk'[v] = NoBlock
  /\ \A v \in Validators \ V : vpc'[v] = vpc[v] /\ vblk'[v] = vblk[v]
  /\ vpc' \in [Validators -> ValidatorPc]
  /\ vblk' \in [Validators -> Block \cup {NoBlock}]
  /\ report' \in [Validators -> Message]

LEMMA MisreadStep ==
  ASSUME TypeInv, NEW V \in SUBSET Validators, \A v \in V : vpc[v] = "select",
         NEW k \in 1..Len(pipe), NEW donors \in SUBSET (1..k),
         \A j \in donors : pipe[j] # Garbage, Misread(V, k, donors)
  PROVE  \E D \in SUBSET V : \E source \in [D -> donors] :
           MisreadResult(V, D, source)
<1> USE DEF TypeInv, TypeOK
<1>1. PICK D \in SUBSET V :
        \E R \in SUBSET (V \ D) :
        \E id \in [D \cup R -> Miners \cup {Unknown}] :
        \E hash \in [D -> 0..Len(ledger)], source \in [D -> donors] :
          MisreadBy(V, D, R, id, hash, source)
  BY DEF Misread
<1>r. PICK R \in SUBSET (V \ D) :
        \E id \in [D \cup R -> Miners \cup {Unknown}] :
        \E hash \in [D -> 0..Len(ledger)], source \in [D -> donors] :
          MisreadBy(V, D, R, id, hash, source)
  BY <1>1
<1>i. PICK id \in [D \cup R -> Miners \cup {Unknown}] :
        \E hash \in [D -> 0..Len(ledger)], source \in [D -> donors] :
          MisreadBy(V, D, R, id, hash, source)
  BY <1>r
<1>m. PICK hash \in [D -> 0..Len(ledger)], source \in [D -> donors] :
        MisreadBy(V, D, R, id, hash, source)
  BY <1>i
<1>n. /\ \A v, w \in D : source[v] = source[w] => v = w
      /\ vpc' = [v \in Validators |-> IF v \in D THEN "prev" ELSE
                                      IF v \in R THEN "report" ELSE
                                      IF v \in V THEN "top" ELSE vpc[v]]
      /\ vblk' = [v \in Validators |->
           IF v \in D THEN [miner |-> id[v], prev |-> hash[v],
                           txs |-> pipe[source[v]].blk.txs] ELSE vblk[v]]
      /\ report' = [v \in Validators |->
           IF v \in R THEN [miner |-> id[v], valid |-> FALSE] ELSE report[v]]
  BY <1>m DEF MisreadBy
<1>2. \A j \in donors : pipe[j].blk.txs \in [1..TxsPerBlock -> Tx]
  <2>1. pipe \in Seq(Frame \cup {Garbage}) /\ Len(pipe) \in Nat
    BY DEF ChannelTypeOK
  <2>2. \A j \in donors : pipe[j] \in Frame
    BY <2>1
  <2> QED
    BY <2>2 DEF Frame, Block
<1>3. Len(ledger) \in Nat
  BY DEF ChannelTypeOK
<1>4. ASSUME NEW v \in D
      PROVE  [miner |-> id[v], prev |-> hash[v],
              txs |-> pipe[source[v]].blk.txs] \in Block
  <2>1. id[v] \in Miners \cup {Unknown} /\ hash[v] \in Nat
    BY <1>3
  <2>2. pipe[source[v]].blk.txs \in [1..TxsPerBlock -> Tx]
    BY <1>2
  <2> QED
    BY <2>1, <2>2 DEF Block
<1>5. \A v \in V : vblk[v] = NoBlock
  BY DEF ValidatorTypeOK, CheckPc
<1>6. /\ vpc' \in [Validators -> ValidatorPc]
      /\ vblk' \in [Validators -> Block \cup {NoBlock}]
  BY <1>n, <1>4 DEF ValidatorTypeOK, ValidatorPc, CheckPc
<1>7. report' \in [Validators -> Message]
  <2>1. \A v \in R : [miner |-> id[v], valid |-> FALSE] \in Message
    BY DEF Message
  <2> QED
    BY <1>n, <2>1 DEF ValidatorTypeOK
<1>8. \A v \in D : /\ vpc'[v] = "prev" /\ vblk'[v] \in Block
                   /\ vblk'[v].txs = pipe[source[v]].blk.txs
                   /\ vblk'[v].prev <= Len(ledger)
  BY <1>n, <1>3, <1>4
<1>9. /\ \A v \in V \ D : vpc'[v] \in {"report", "top"} /\ vblk'[v] = NoBlock
      /\ \A v \in Validators \ V : vpc'[v] = vpc[v] /\ vblk'[v] = vblk[v]
  BY <1>n, <1>5
<1>10. \A v, w \in D : source[v] = source[w] => v = w
  BY <1>n
<1> QED
  BY <1>6, <1>7, <1>8, <1>9, <1>10 DEF MisreadResult

LEMMA MisreadType ==
  ASSUME TypeInv, NEW V \in SUBSET Validators, \A v \in V : vpc[v] = "select",
         NEW k \in 1..Len(pipe), NEW donors \in SUBSET (1..k),
         \A j \in donors : pipe[j] # Garbage, Misread(V, k, donors),
         UNCHANGED active
  PROVE  ValidatorTypeOK' /\ pipe' \in Seq(Frame \cup {Garbage})
<1>1. pipe' \in Remainders(k)
  BY DEF Misread
<1>2. pipe' \in Seq(Frame \cup {Garbage})
  BY <1>1, RemaindersLike
<1>3. PICK D \in SUBSET V : \E source \in [D -> donors] :
        MisreadResult(V, D, source)
  BY MisreadStep
<1>4. \A v \in Validators : vblk'[v] # NoBlock <=> vpc'[v] \in CheckPc
  <2>1. \A v \in Validators \ V : vblk[v] # NoBlock <=> vpc[v] \in CheckPc
    BY DEF TypeInv, TypeOK, ValidatorTypeOK
  <2> QED
    BY <1>3, <2>1, ValueAssumption DEF MisreadResult, CheckPc
<1> QED
  BY <1>2, <1>3, <1>4 DEF MisreadResult, TypeInv, TypeOK, ValidatorTypeOK

LEMMA ValidatorType ==
  ASSUME TypeInv, NEW v \in Validators, ValidatorNext(v)
  PROVE  TypeInv'
<1> USE DEF TypeInv, TypeOK
<1>1. CASE \/ ValidatorTop(v) \/ ChildExit(v) \/ SelectTimeout(v)
           \/ PrevMatches(v) \/ TxsPresent(v) \/ LedgerHasRoom(v)
           \/ LedgerFull(v)
  BY <1>1, GoType DEF ValidatorTop, ChildExit, SelectTimeout, PrevMatches,
     TxsPresent, LedgerHasRoom, LedgerFull, ValidatorPc, CheckPc
<1>2. CASE ReadFrame(v)
  <2>1. Head(pipe) \in Frame /\ Tail(pipe) \in Seq(Frame \cup {Garbage})
    BY <1>2 DEF ReadFrame, Readable, ChannelTypeOK
  <2>2. ValidatorTypeOK'
    BY <1>2, <2>1, TxsOfFrame, ValueAssumption
    DEF ReadFrame, ValidatorTypeOK, ValidatorPc, CheckPc
  <2> QED
    BY <1>2, <2>1, <2>2 DEF ReadFrame, poolVars, genVars, minerVars, statVars,
       PoolTypeOK, GenTypeOK, MinerTypeOK, ChannelTypeOK, StatTypeOK,
       UsedSlotsHold, Available
<1>3. CASE ReadGarbage(v)
  <2>1. PICK k \in 1..Len(pipe) :
          Misread({v}, k, {j \in 1..k : pipe[j] # Garbage /\ ~pipe[j].whole})
    BY <1>3 DEF ReadGarbage
  <2>2. ValidatorTypeOK' /\ pipe' \in Seq(Frame \cup {Garbage})
    BY <1>3, <2>1, MisreadType DEF ReadGarbage
  <2> QED
    BY <1>3, <2>2 DEF ReadGarbage, poolVars, genVars, minerVars, statVars,
       PoolTypeOK, GenTypeOK, MinerTypeOK, ChannelTypeOK, StatTypeOK,
       UsedSlotsHold, Available
<1>4. CASE PrevMismatch(v)
  <2>1. ValidatorTypeOK'
    BY <1>4, ReportType DEF PrevMismatch, CheckPc
  <2> QED
    BY <1>4, <2>1 DEF PrevMismatch, poolVars, genVars, minerVars, statVars,
       PoolTypeOK, GenTypeOK, MinerTypeOK, ChannelTypeOK, StatTypeOK,
       UsedSlotsHold, Available
<1>5. CASE TxMissing(v)
  <2>1. PICK k \in 1..TxsPerBlock :
          empty' = empty \ Holding({vblk[v].txs[j] : j \in 1..(k - 1)})
    BY <1>5 DEF TxMissing
  <2>2. {vblk[v].txs[j] : j \in 1..(k - 1)} \in SUBSET Tx
    <3>1. vblk[v] \in Block
      BY <1>5 DEF TxMissing, ValidatorTypeOK, CheckPc
    <3> QED
      BY <3>1, ConfigAssumption DEF Block
  <2>3. empty' \in SUBSET Slot /\ UsedSlotsHold'
    BY <1>5, <2>1, <2>2, ReleaseType DEF TxMissing
  <2>4. ValidatorTypeOK'
    BY <1>5, ReportType DEF TxMissing, CheckPc
  <2> QED
    BY <1>5, <2>3, <2>4 DEF TxMissing, genVars, minerVars, statVars,
       PoolTypeOK, GenTypeOK, MinerTypeOK, ChannelTypeOK, StatTypeOK
<1>6. CASE AppendBlock(v)
  <2>1. vblk[v] \in Block
    BY <1>6 DEF AppendBlock, ValidatorTypeOK, CheckPc
  <2>2. ledger' \in Seq(Block)
    BY <1>6, <2>1 DEF AppendBlock, ChannelTypeOK
  <2> QED
    BY <1>6, <2>2 DEF AppendBlock, poolVars, genVars, minerVars, statVars,
       PoolTypeOK, GenTypeOK, MinerTypeOK, ValidatorTypeOK, ValidatorPc,
       CheckPc, ChannelTypeOK, StatTypeOK, UsedSlotsHold, Available
<1>7. CASE RemoveTxs(v)
  <2>1. empty' \in SUBSET Slot /\ UsedSlotsHold'
    BY <1>7
    DEF RemoveTxs, PoolTypeOK, UsedSlotsHold, Available, Holding
  <2>2. ValidatorTypeOK'
    BY <1>7, ReportType DEF RemoveTxs, CheckPc
  <2> QED
    BY <1>7, <2>1, <2>2, PercentType DEF RemoveTxs, genVars, minerVars, statVars,
       PoolTypeOK, GenTypeOK, MinerTypeOK, ChannelTypeOK, StatTypeOK
<1>8. CASE GiveBack(v)
  <2>1. TxsOf(vblk[v]) \in SUBSET Tx
    BY <1>8, TxsOfBlock DEF GiveBack, ValidatorTypeOK
  <2>2. empty' \in SUBSET Slot /\ UsedSlotsHold'
    BY <1>8, <2>1, ReleaseType DEF GiveBack
  <2>3. ValidatorTypeOK'
    BY <1>8, ReportType DEF GiveBack, CheckPc
  <2> QED
    BY <1>8, <2>2, <2>3, PercentType DEF GiveBack, genVars, minerVars, statVars,
       PoolTypeOK, GenTypeOK, MinerTypeOK, ChannelTypeOK, StatTypeOK
<1>9. CASE SendStatistics(v)
  <2>1. msgq' \in Seq(Message)
    BY <1>9 DEF SendStatistics, ChannelTypeOK, ValidatorTypeOK
  <2>2. Silent \in Message
    BY DEF Silent, Message
  <2>3. ValidatorTypeOK'
    BY <1>9, <2>2 DEF SendStatistics, ValidatorTypeOK, ValidatorPc, CheckPc
  <2> QED
    BY <1>9, <2>1, <2>3 DEF SendStatistics, poolVars, genVars, minerVars,
       statVars, PoolTypeOK, GenTypeOK, MinerTypeOK, ChannelTypeOK, StatTypeOK,
       UsedSlotsHold, Available
<1> QED
  BY <1>1, <1>2, <1>3, <1>4, <1>5, <1>6, <1>7, <1>8, <1>9 DEF ValidatorNext

\* The steps of two processes, and of the statistics process.
LEMMA SharedType ==
  ASSUME TypeInv,
         \/ \E c \in Children : Fork(c)
         \/ \E V \in SUBSET Validators : ReadTorn(V)
         \/ StatReceive
  PROVE  TypeInv'
<1> USE DEF TypeInv, TypeOK
<1>1. ASSUME NEW c \in Children, Fork(c) PROVE TypeInv'
  <2>1. active' \in 1..3
    BY <1>1 DEF Fork, WantsValidator, ValidatorTypeOK
  <2>2. ValidatorTypeOK'
    BY <1>1, <2>1 DEF Fork, ValidatorTypeOK, ValidatorPc, CheckPc, Validators
  <2> QED
    BY <1>1, <2>2 DEF Fork, poolVars, genVars, minerVars, statVars,
       PoolTypeOK, GenTypeOK, MinerTypeOK, ChannelTypeOK, StatTypeOK,
       UsedSlotsHold, Available
<1>2. ASSUME NEW V \in SUBSET Validators, ReadTorn(V)
      PROVE  TypeInv'
  <2>1. PICK k \in 1..Len(pipe) :
          Misread(V, k, {j \in 1..k : pipe[j] # Garbage})
    BY <1>2 DEF ReadTorn
  <2>2. ValidatorTypeOK' /\ pipe' \in Seq(Frame \cup {Garbage})
    BY <1>2, <2>1, MisreadType DEF ReadTorn
  <2> QED
    BY <1>2, <2>2 DEF ReadTorn, poolVars, genVars, minerVars, statVars,
       PoolTypeOK, GenTypeOK, MinerTypeOK, ChannelTypeOK, StatTypeOK,
       UsedSlotsHold, Available
<1>3. CASE StatReceive
  <2>1. msgq' \in Seq(Message)
    BY <1>3 DEF StatReceive, ChannelTypeOK
  <2>2. StatTypeOK'
    BY <1>3 DEF StatReceive, StatTypeOK, Counted
  <2> QED
    BY <1>3, <2>1, <2>2 DEF StatReceive, poolVars, genVars, minerVars, valVars,
       PoolTypeOK, GenTypeOK, MinerTypeOK, ValidatorTypeOK, ChannelTypeOK,
       UsedSlotsHold, Available
<1> QED
  BY <1>1, <1>2, <1>3

LEMMA NextType == TypeInv /\ [Next]_vars => TypeInv'
<1> SUFFICES ASSUME TypeInv, [Next]_vars PROVE TypeInv'
  OBVIOUS
<1>1. CASE Next
  BY <1>1, GenType, MinerType, ValidatorType, SharedType DEF Next
<1>2. CASE UNCHANGED vars
  BY <1>2 DEF vars, TypeInv, TypeOK, PoolTypeOK, GenTypeOK, MinerTypeOK,
     ValidatorTypeOK, ChannelTypeOK, StatTypeOK, UsedSlotsHold, Available
<1> QED
  BY <1>1, <1>2

LEMMA TypeInvariant == Spec => []TypeInv
BY InitType, NextType, PTL DEF Spec

\* Every variable has its type, and processes hold blocks exactly where the
\* code has one: mined or sent by a miner, checked or stored by a validator.
THEOREM TypeCorrect == Spec => []TypeOK
BY TypeInvariant, PTL DEF TypeInv
=============================================================================
