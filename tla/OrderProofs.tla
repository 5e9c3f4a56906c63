---------------------------- MODULE OrderProofs -----------------------------
(***************************************************************************)
(* What generators leave of a reserved block: its transactions lie in the  *)
(* pool in the order of the block, generators take the first slot whose    *)
(* flag empty is 1, so a block loses its first transactions first, and     *)
(* validate_block has nothing to return when one is missing.  Without      *)
(* failures the occupancy is then never below what the pool holds.         *)
(***************************************************************************)
EXTENDS InclusionProofs

\* The transactions of a block lie in the pool in the order of the block.
Ordered(b) ==
  \A j, k \in 1..TxsPerBlock : \A h, i \in Slot :
    j < k /\ slotTx[h] = b.txs[j] /\ slotTx[i] = b.txs[k] => h < i

LosesPrefix(b) ==
  \A j, k \in 1..TxsPerBlock : j < k /\ InPool(b, j) => InPool(b, k)

OrderInv == \A b \in InFlight : Ordered(b) /\ LosesPrefix(b)

LEMMA InFlightMember ==
  \A b : b \in InFlight <=>
    /\ b # NoBlock
    /\ \/ \E m \in Miners : b = mblk[m]
       \/ \E v \in Validators : b = vblk[v]
       \/ \E k \in 1..Len(pipe) : pipe[k] # Garbage /\ b = pipe[k].blk
BY DEF InFlight

LEMMA InFlightMemberNext ==
  \A b : b \in InFlight' <=>
    /\ b # NoBlock
    /\ \/ \E m \in Miners : b = mblk'[m]
       \/ \E v \in Validators : b = vblk'[v]
       \/ \E k \in 1..Len(pipe') : pipe'[k] # Garbage /\ b = pipe'[k].blk
BY DEF InFlight

LEMMA InFlightBlock ==
  ASSUME TypeInv
  PROVE  /\ InFlight \subseteq Block
         /\ \A k \in 1..Len(pipe) :
              pipe[k] # Garbage => pipe[k].blk \in InFlight
<1>1. \A k \in 1..Len(pipe) : pipe[k] # Garbage => pipe[k].blk \in Block
  BY ElementOfSeq DEF TypeInv, TypeOK, ChannelTypeOK, Frame
<1>2. NoBlock \notin Block
  BY ValueAssumption
<1>3. \A m \in Miners : mblk[m] \in Block \cup {NoBlock}
  BY DEF TypeInv, TypeOK, MinerTypeOK
<1>4. \A v \in Validators : vblk[v] \in Block \cup {NoBlock}
  BY DEF TypeInv, TypeOK, ValidatorTypeOK
<1>5. InFlight \subseteq Block
  <2> SUFFICES ASSUME NEW b \in InFlight PROVE b \in Block
    OBVIOUS
  <2>1. b # NoBlock
    BY InFlightMember
  <2>2. CASE \E m \in Miners : b = mblk[m]
    BY <1>3, <2>1, <2>2
  <2>3. CASE \E v \in Validators : b = vblk[v]
    BY <1>4, <2>1, <2>3
  <2>4. CASE \E k \in 1..Len(pipe) : pipe[k] # Garbage /\ b = pipe[k].blk
    BY <1>1, <2>4
  <2> QED
    BY <2>2, <2>3, <2>4, InFlightMember
<1>6. ASSUME NEW k \in 1..Len(pipe), pipe[k] # Garbage
      PROVE  pipe[k].blk \in InFlight
  <2>1. pipe[k].blk # NoBlock
    BY <1>1, <1>2, <1>6
  <2> QED
    BY <1>6, <2>1, InFlightMember
<1> QED
  BY <1>5, <1>6

\* Whether the order holds depends on the lists of transactions alone.
LEMMA SameList ==
  ASSUME NEW a, NEW b, a.txs = b.txs, UNCHANGED slotTx,
         Ordered(a), LosesPrefix(a)
  PROVE  Ordered(b)' /\ LosesPrefix(b)'
BY DEF Ordered, LosesPrefix, InPool

\* A step that puts no new list of transactions on the way keeps the order.
LEMMA ListsKept ==
  ASSUME TypeInv, OrderInv, UNCHANGED slotTx,
         \A m \in Miners : mblk'[m] = NoBlock \/ mblk'[m] = mblk[m],
         \A v \in Validators :
           \/ vblk'[v] = NoBlock
           \/ vblk'[v] = vblk[v]
           \/ \E k \in 1..Len(pipe) :
                pipe[k] # Garbage /\ vblk'[v].txs = pipe[k].blk.txs,
         \A k \in 1..Len(pipe') :
           \/ pipe'[k] = Garbage
           \/ \E j \in 1..Len(pipe) : pipe'[k] = pipe[j]
           \/ \E m \in Miners : mblk[m] # NoBlock /\ pipe'[k].blk = mblk[m]
  PROVE  OrderInv'
<1> SUFFICES ASSUME NEW b \in InFlight'
             PROVE  Ordered(b)' /\ LosesPrefix(b)'
  BY DEF OrderInv
<1>1. \E a \in InFlight : a.txs = b.txs
  <2>0. b # NoBlock
    BY InFlightMemberNext
  <2>1. CASE \E m \in Miners : b = mblk'[m]
    BY <2>0, <2>1, InFlightMember
  <2>2. CASE \E v \in Validators : b = vblk'[v]
    <3>1. PICK v \in Validators : b = vblk'[v]
      BY <2>2
    <3>2. \/ vblk'[v] = vblk[v]
          \/ \E k \in 1..Len(pipe) :
               pipe[k] # Garbage /\ vblk'[v].txs = pipe[k].blk.txs
      BY <2>0, <3>1
    <3> QED
      BY <2>0, <3>1, <3>2, InFlightMember, InFlightBlock
  <2>3. CASE \E k \in 1..Len(pipe') : pipe'[k] # Garbage /\ b = pipe'[k].blk
    <3>1. PICK k \in 1..Len(pipe') : pipe'[k] # Garbage /\ b = pipe'[k].blk
      BY <2>3
    <3>2. CASE \E j \in 1..Len(pipe) : pipe'[k] = pipe[j]
      BY <3>1, <3>2, InFlightBlock
    <3>3. CASE \E m \in Miners : mblk[m] # NoBlock /\ pipe'[k].blk = mblk[m]
      BY <3>1, <3>3, InFlightMember
    <3> QED
      BY <3>1, <3>2, <3>3
  <2> QED
    BY <2>1, <2>2, <2>3, InFlightMemberNext
<1> QED
  BY <1>1, SameList DEF OrderInv

\* A transaction on its way has been generated and is not available.
LEMMA InFlightReserved ==
  ASSUME TypeInv, OwnInv, NEW b \in InFlight, NEW k \in 1..TxsPerBlock
  PROVE  /\ b.txs[k] \in Tx
         /\ Minted(b.txs[k])
         /\ \A i \in Slot : slotTx[i] = b.txs[k] => i \in empty
<1>1. b \in Block /\ b.txs[k] \in TxsOf(b)
  BY InFlightBlock, TxsOfBlock
<1>2. PICK p \in Place : b.txs[k] \in Held(p)
  <2>1. CASE \E m \in Miners : b = mblk[m]
    BY <1>1, <2>1, HeldAt DEF Place
  <2>2. CASE \E j \in 1..Len(pipe) : pipe[j] # Garbage /\ b = pipe[j].blk
    <3>1. PICK j \in 1..Len(pipe) : pipe[j] # Garbage /\ b = pipe[j].blk
      BY <2>2
    <3>2. PipePlace(j) \in Place
      BY DEF Place, TypeInv, TypeOK, ChannelTypeOK
    <3> QED
      BY <1>1, <3>1, <3>2, HeldAt DEF FrameTxs
  <2>3. CASE \E v \in Validators : b = vblk[v] /\ vpc[v] # "remove"
    BY <1>1, <2>3, HeldAt DEF Place
  <2>4. CASE \E v \in Validators : b = vblk[v] /\ vpc[v] = "remove"
    <3>1. PICK j \in 1..Len(ledger) : ledger[j] = b
      BY <2>4 DEF OwnInv, Stored
    <3>2. LedgerPlace(j) \in Place
      BY DEF Place, TypeInv, TypeOK, ChannelTypeOK
    <3> QED
      BY <1>1, <3>1, <3>2, HeldAt
  <2> QED
    BY <2>1, <2>2, <2>3, <2>4, InFlightMember
<1>3. b.txs[k] \in Tx /\ Minted(b.txs[k])
  BY <1>2, HeldInTx DEF OwnInv, Owned, HeldMinted
<1>4. \A i \in Slot : slotTx[i] = b.txs[k] => i \in empty
  BY <1>2 DEF OwnInv, Owned, AvailableFree, Available
<1> QED
  BY <1>3, <1>4

LEMMA InitOrder == Init => OrderInv
<1> SUFFICES ASSUME Init PROVE InFlight = {}
  BY DEF OrderInv
<1> QED
  BY InFlightMember, EmptySeq DEF Init

\* The slot a generator takes is the first that is marked: no transaction of
\* a block that lies before it can still be there.
LEMMA AddOrder ==
  ASSUME TypeInv, OwnInv, OrderInv, NEW g \in TxGens, TxAdd(g)
  PROVE  OrderInv'
<1>1. PICK i \in Slot : /\ FirstEmpty(i)
                        /\ slotTx' = [slotTx EXCEPT ![i] = <<g, counter[g]>>]
  BY DEF TxAdd
<1>2. /\ slotTx'[i] = <<g, counter[g]>>
      /\ \A h \in Slot \ {i} : slotTx'[h] = slotTx[h]
  BY <1>1 DEF TypeInv, TypeOK, PoolTypeOK
<1>3. ~Minted(<<g, counter[g]>>)
  BY ConfigAssumption DEF Minted, TypeInv, TypeOK, GenTypeOK
<1>4. InFlight' = InFlight
  BY DEF TxAdd, minerVars, valVars, InFlight
<1> SUFFICES ASSUME NEW b \in InFlight PROVE Ordered(b)' /\ LosesPrefix(b)'
  BY <1>4 DEF OrderInv
<1>5. Ordered(b) /\ LosesPrefix(b)
  BY DEF OrderInv
<1>6. \A k \in 1..TxsPerBlock : b.txs[k] # <<g, counter[g]>>
  BY <1>3, InFlightReserved
<1>7. \A k \in 1..TxsPerBlock, h \in Slot :
        slotTx'[h] = b.txs[k] <=> h # i /\ slotTx[h] = b.txs[k]
  BY <1>2, <1>6
<1>8. Ordered(b)'
  BY <1>5, <1>7 DEF Ordered
<1>9. LosesPrefix(b)'
  <2> SUFFICES ASSUME NEW j \in 1..TxsPerBlock, NEW k \in 1..TxsPerBlock,
                      j < k, NEW h \in Slot, slotTx'[h] = b.txs[j]
               PROVE  \E l \in Slot : slotTx'[l] = b.txs[k]
    BY DEF LosesPrefix, InPool
  <2>1. h # i /\ slotTx[h] = b.txs[j]
    BY <1>7
  <2>2. PICK l \in Slot : slotTx[l] = b.txs[k]
    BY <1>5, <2>1 DEF LosesPrefix, InPool
  <2>3. h < l /\ h \in empty
    BY <1>5, <2>1, <2>2, InFlightReserved DEF Ordered
  <2>4. l # i
    BY <1>1, <2>1, <2>3 DEF FirstEmpty, Slot
  <2> QED
    BY <1>7, <2>2, <2>4
<1> QED
  BY <1>8, <1>9

LEMMA GenOrder ==
  ASSUME TypeInv, OwnInv, OrderInv, NEW g \in TxGens, GenNext(g)
  PROVE  OrderInv'
<1>1. CASE TxAdd(g)
  BY <1>1, AddOrder
<1>2. CASE TxPoolFull(g) \/ TxNotify(g)
  <2>1. UNCHANGED <<slotTx, mblk, vblk, pipe>>
    BY <1>2 DEF TxPoolFull, TxNotify, poolVars, minerVars, valVars
  <2> QED
    BY <2>1, ListsKept
<1> QED
  BY <1>1, <1>2 DEF GenNext

\* A new block takes its transactions in slot order, and they are all there.
LEMMA SelectOrder ==
  ASSUME TypeInv, OwnInv, OrderInv, NEW m \in Miners, MinerSelect(m)
  PROVE  OrderInv'
<1>1. PICK s \in [1..TxsPerBlock -> Available] :
        /\ FirstAvailable(s)
        /\ mblk' = [mblk EXCEPT ![m] =
                      [miner |-> m, prev |-> lastHash[m],
                       txs |-> [k \in 1..TxsPerBlock |-> slotTx[s[k]]]]]
  BY DEF MinerSelect
<1>2. UNCHANGED <<slotTx, pipe, vblk>>
  BY DEF MinerSelect, valVars
<1>3. /\ \A k \in 1..TxsPerBlock : mblk'[m].txs[k] = slotTx[s[k]]
      /\ \A n \in Miners \ {m} : mblk'[n] = mblk[n]
  BY <1>1 DEF TypeInv, TypeOK, MinerTypeOK
<1>0. PICK new : new = mblk'[m]
  OBVIOUS
<1>4. Ordered(new)'
  <2> SUFFICES ASSUME NEW j \in 1..TxsPerBlock, NEW k \in 1..TxsPerBlock,
                      NEW h \in Slot, NEW i \in Slot, j < k,
                      slotTx[h] = slotTx[s[j]], slotTx[i] = slotTx[s[k]]
               PROVE  h < i
    BY <1>0, <1>2, <1>3 DEF Ordered
  <2>1. /\ s[j] \in Slot /\ slotTx[s[j]] # NoTx
        /\ s[k] \in Slot /\ slotTx[s[k]] # NoTx
    BY DEF TypeInv, UsedSlotsHold, Available
  <2>2. h = s[j] /\ i = s[k]
    BY <2>1 DEF OwnInv, Owned, SlotUnique
  <2>3. s[j] < s[k]
    BY <1>1 DEF FirstAvailable
  <2> QED
    BY <2>2, <2>3
<1>5. LosesPrefix(new)'
  <2>1. \A k \in 1..TxsPerBlock : s[k] \in Slot
    BY DEF Available
  <2> QED
    BY <1>0, <1>2, <1>3, <2>1 DEF LosesPrefix, InPool
<1>6. ASSUME NEW b \in InFlight', b # new
      PROVE  Ordered(b)' /\ LosesPrefix(b)'
  <2>1. b \in InFlight
    BY <1>0, <1>2, <1>3, <1>6, InFlightMember, InFlightMemberNext
  <2> QED
    BY <1>2, <2>1, SameList DEF OrderInv
<1>7. ASSUME NEW b \in InFlight', b = new
      PROVE  Ordered(b)' /\ LosesPrefix(b)'
  BY <1>4, <1>5, <1>7
<1> QED
  BY <1>6, <1>7 DEF OrderInv

LEMMA MinerOrder ==
  ASSUME TypeInv, OwnInv, OrderInv, NEW m \in Miners, MinerNext(m)
  PROVE  OrderInv'
<1> USE DEF TypeInv, TypeOK
<1>1. CASE MinerSelect(m)
  BY <1>1, SelectOrder
<1>2. CASE \/ MinerWake(m) \/ MinerReadHash(m) \/ MinerTooFew(m)
           \/ MinerStartSend(m)
  <2>1. UNCHANGED <<slotTx, mblk, vblk, pipe>>
    BY <1>2 DEF MinerWake, MinerReadHash, MinerTooFew, MinerStartSend,
       poolVars, valVars
  <2> QED
    BY <2>1, ListsKept
<1>3. CASE MinerPowFails(m) \/ MinerSendFails(m)
  <2>1. /\ UNCHANGED <<slotTx, vblk>>
        /\ mblk' = [mblk EXCEPT ![m] = NoBlock]
        /\ pipe' = pipe \/ pipe' = Append(pipe, Garbage)
    BY <1>3 DEF MinerPowFails, MinerSendFails, RestoreTxs, valVars
  <2>2. \A n \in Miners : mblk'[n] = NoBlock \/ mblk'[n] = mblk[n]
    BY <2>1 DEF MinerTypeOK
  <2>3. \A k \in 1..Len(pipe') :
          pipe'[k] = Garbage \/ \E j \in 1..Len(pipe) : pipe'[k] = pipe[j]
    BY <2>1, AppendProperties DEF ChannelTypeOK
  <2> QED
    BY <2>1, <2>2, <2>3, ListsKept
<1>4. CASE MinerFinishSend(m)
  <2>0. PICK fr : fr = [blk |-> mblk[m], whole |-> m \notin torn]
    OBVIOUS
  <2>1. /\ UNCHANGED <<slotTx, vblk>>
        /\ mblk' = [mblk EXCEPT ![m] = NoBlock]
        /\ pipe' = Append(pipe, fr)
    BY <1>4, <2>0 DEF MinerFinishSend, valVars, poolVars
  <2>2. mblk[m] \in Block /\ mblk[m] # NoBlock
    BY <1>4 DEF MinerFinishSend, MinerTypeOK
  <2>3. fr \in Frame /\ fr.blk = mblk[m]
    BY <2>0, <2>2 DEF Frame
  <2>4. \A n \in Miners : mblk'[n] = NoBlock \/ mblk'[n] = mblk[n]
    BY <2>1 DEF MinerTypeOK
  <2>5. \A k \in 1..Len(pipe') :
          \/ \E j \in 1..Len(pipe) : pipe'[k] = pipe[j]
          \/ \E n \in Miners : mblk[n] # NoBlock /\ pipe'[k].blk = mblk[n]
    BY <2>1, <2>2, <2>3, AppendProperties DEF ChannelTypeOK
  <2> QED
    BY <2>1, <2>4, <2>5, ListsKept
<1> QED
  BY <1>1, <1>2, <1>3, <1>4 DEF MinerNext

\* Readers out of step with the frames still get the list of one frame.
LEMMA MisreadOrder ==
  ASSUME TypeInv, OrderInv, NEW V \in SUBSET Validators,
         \A v \in V : vpc[v] = "select",
         NEW k \in 1..Len(pipe), NEW donors \in SUBSET (1..k),
         \A j \in donors : pipe[j] # Garbage, Misread(V, k, donors),
         UNCHANGED <<slotTx, mblk>>
  PROVE  OrderInv'
<1>1. PICK D \in SUBSET V : \E source \in [D -> donors] :
        MisreadResult(V, D, source)
  BY MisreadStep
<1>2. PICK source \in [D -> donors] : MisreadResult(V, D, source)
  BY <1>1
<1>3. Len(pipe) \in Nat
  BY DEF TypeInv, TypeOK, ChannelTypeOK
<1>4. \A v \in D : /\ source[v] \in 1..Len(pipe)
                   /\ pipe[source[v]] # Garbage
                   /\ vblk'[v].txs = pipe[source[v]].blk.txs
  <2>1. \A v \in D : vblk'[v].txs = pipe[source[v]].blk.txs
    BY <1>2 DEF MisreadResult
  <2>2. \A j \in donors : j \in 1..Len(pipe)
    BY <1>3
  <2>3. \A v \in D : source[v] \in donors
    OBVIOUS
  <2> QED
    BY <2>1, <2>2, <2>3
<1>5. \A v \in Validators :
        \/ vblk'[v] = NoBlock
        \/ vblk'[v] = vblk[v]
        \/ \E j \in 1..Len(pipe) :
             pipe[j] # Garbage /\ vblk'[v].txs = pipe[j].blk.txs
  <2>1. \A v \in V \ D : vblk'[v] = NoBlock
    BY <1>2 DEF MisreadResult
  <2>2. \A v \in Validators \ V : vblk'[v] = vblk[v]
    BY <1>2 DEF MisreadResult
  <2>3. \A v \in D : \E j \in 1..Len(pipe) :
          pipe[j] # Garbage /\ vblk'[v].txs = pipe[j].blk.txs
    BY <1>4
  <2> QED
    BY <2>1, <2>2, <2>3
<1>6. /\ Len(pipe') = Len(pipe) - k
      /\ \A i \in 1..Len(pipe') : pipe'[i] = pipe[i + k] \/ pipe'[i] = Garbage
  BY RemaindersLike DEF Misread
<1>7. \A i \in 1..Len(pipe') :
        pipe'[i] = Garbage \/ \E j \in 1..Len(pipe) : pipe'[i] = pipe[j]
  <2>1. \A i \in 1..Len(pipe') : i + k \in 1..Len(pipe)
    BY <1>3, <1>6
  <2> QED
    BY <1>6, <2>1
<1> QED
  BY <1>5, <1>7, ListsKept

LEMMA ValidatorOrder ==
  ASSUME TypeInv, OrderInv, NEW v \in Validators, ValidatorNext(v)
  PROVE  OrderInv'
<1> USE DEF TypeInv, TypeOK
<1>1. CASE ReadFrame(v)
  <2>1. /\ UNCHANGED <<slotTx, mblk>> /\ pipe # <<>> /\ pipe' = Tail(pipe)
        /\ Head(pipe) # Garbage
        /\ vblk' = [vblk EXCEPT ![v] = Head(pipe).blk]
    BY <1>1 DEF ReadFrame, Readable, poolVars, minerVars
  <2>2. /\ 1 \in 1..Len(pipe) /\ Head(pipe) = pipe[1]
        /\ \A k \in 1..Len(pipe') : \E j \in 1..Len(pipe) : pipe'[k] = pipe[j]
    BY <2>1 DEF ChannelTypeOK
  <2>3. \A u \in Validators :
          \/ vblk'[u] = vblk[u]
          \/ \E k \in 1..Len(pipe) :
               pipe[k] # Garbage /\ vblk'[u].txs = pipe[k].blk.txs
    BY <2>1, <2>2 DEF ValidatorTypeOK
  <2> QED
    BY <2>1, <2>2, <2>3, ListsKept
<1>2. CASE ReadGarbage(v)
  <2>1. PICK k \in 1..Len(pipe) :
          Misread({v}, k, {j \in 1..k : pipe[j] # Garbage /\ ~pipe[j].whole})
    BY <1>2 DEF ReadGarbage
  <2> QED
    BY <1>2, <2>1, MisreadOrder DEF ReadGarbage, poolVars, minerVars
<1>3. CASE PrevMismatch(v) \/ TxMissing(v) \/ RemoveTxs(v) \/ GiveBack(v)
  <2>1. /\ UNCHANGED <<slotTx, mblk, pipe>>
        /\ vblk' = [vblk EXCEPT ![v] = NoBlock]
    BY <1>3 DEF PrevMismatch, TxMissing, RemoveTxs, GiveBack, Report,
       poolVars, minerVars
  <2>2. \A u \in Validators : vblk'[u] = NoBlock \/ vblk'[u] = vblk[u]
    BY <2>1 DEF ValidatorTypeOK
  <2> QED
    BY <2>1, <2>2, ListsKept
<1>4. CASE \/ ValidatorTop(v) \/ ChildExit(v) \/ SelectTimeout(v)
           \/ PrevMatches(v) \/ TxsPresent(v)
           \/ LedgerHasRoom(v) \/ LedgerFull(v)
           \/ AppendBlock(v) \/ SendStatistics(v)
  <2>1. UNCHANGED <<slotTx, mblk, vblk, pipe>>
    BY <1>4 DEF ValidatorTop, ChildExit, SelectTimeout, PrevMatches,
       TxsPresent, LedgerHasRoom, LedgerFull, AppendBlock, SendStatistics, Go,
       poolVars, minerVars
  <2> QED
    BY <2>1, ListsKept
<1> QED
  BY <1>1, <1>2, <1>3, <1>4 DEF ValidatorNext

LEMMA SharedOrder ==
  ASSUME TypeInv, OrderInv,
         \/ \E c \in Children : Fork(c)
         \/ \E V \in SUBSET Validators : ReadTorn(V)
         \/ StatReceive
  PROVE  OrderInv'
<1>1. ASSUME NEW V \in SUBSET Validators, ReadTorn(V)
      PROVE  OrderInv'
  <2>1. PICK k \in 1..Len(pipe) :
          Misread(V, k, {j \in 1..k : pipe[j] # Garbage})
    BY <1>1 DEF ReadTorn
  <2> QED
    BY <1>1, <2>1, MisreadOrder DEF ReadTorn, poolVars, minerVars
<1>2. CASE StatReceive \/ \E c \in Children : Fork(c)
  <2>1. UNCHANGED <<slotTx, mblk, vblk, pipe>>
    BY <1>2 DEF StatReceive, Fork, poolVars, minerVars, valVars
  <2> QED
    BY <2>1, ListsKept
<1> QED
  BY <1>1, <1>2

LEMMA NextOrder == TypeInv /\ OwnInv /\ OrderInv /\ [Next]_vars => OrderInv'
<1> SUFFICES ASSUME TypeInv, OwnInv, OrderInv, [Next]_vars PROVE OrderInv'
  OBVIOUS
<1>1. CASE Next
  BY <1>1, GenOrder, MinerOrder, ValidatorOrder, SharedOrder DEF Next
<1>2. CASE UNCHANGED vars
  <2>1. UNCHANGED <<slotTx, mblk, vblk, pipe>>
    BY <1>2 DEF vars
  <2> QED
    BY <2>1, ListsKept
<1> QED
  BY <1>1, <1>2

LEMMA OrderInvariant == Spec => [](TypeInv /\ OwnInv /\ OrderInv)
<1>1. Init => OrderInv
  BY InitOrder
<1>2. TypeInv /\ OwnInv /\ OrderInv /\ [Next]_vars => OrderInv'
  BY NextOrder
<1> QED
  BY <1>1, <1>2, OwnInvariant, PTL DEF Spec

LEMMA PrefixLost == OrderInv => MissingIsPrefix
BY DEF OrderInv, LosesPrefix, MissingIsPrefix

\* A block that generators have robbed of a transaction has lost its first
\* one, for any number of generators, miners and validators: the loop in
\* validate_block that returns the transactions found returns none.
THEOREM MissingIsPrefixCorrect == Spec => []MissingIsPrefix
BY OrderInvariant, PrefixLost, PTL

LEMMA PercentMonotone ==
  ASSUME NEW d, NEW e, e \subseteq d
  PROVE  Percent(d) <= Percent(e)
<1>1. IsFiniteSet(Slot) /\ Slot \ e \subseteq Slot
  BY FS_Interval, ConfigAssumption DEF Slot
<1>2. IsFiniteSet(Slot \ e) /\ Slot \ d \subseteq Slot \ e
  BY <1>1, FS_Subset
<1>3. /\ Cardinality(Slot \ d) \in Nat /\ Cardinality(Slot \ e) \in Nat
      /\ Cardinality(Slot \ d) <= Cardinality(Slot \ e)
  BY <1>2, FS_Subset, FS_CardinalityType
<1>4. \A a, b \in Nat, n \in Nat \ {0} :
        a <= b => (a * 100) \div n <= (b * 100) \div n
  OBVIOUS
<1> QED
  BY <1>3, <1>4, ConfigAssumption DEF Percent

\* Whoever makes slots available computes the occupancy anew, except the
\* failure paths of miners and the loop of TxMissing, which returns nothing.
LEMMA MissingReturnsNothing ==
  ASSUME TypeInv, OrderInv, NEW v \in Validators, TxMissing(v)
  PROVE  UNCHANGED <<empty, occupancy>>
<1>1. PICK k \in 1..TxsPerBlock :
        /\ ~InPool(vblk[v], k)
        /\ \A j \in 1..(k - 1) : InPool(vblk[v], j)
        /\ empty' = empty \ Holding({vblk[v].txs[j] : j \in 1..(k - 1)})
  BY DEF TxMissing
<1>2. vblk[v] \in InFlight
  BY InFlightMember
  DEF TxMissing, CheckPc, TypeInv, TypeOK, ValidatorTypeOK
<1>3. k = 1
  <2>1. SUFFICES ASSUME k # 1 PROVE FALSE
    OBVIOUS
  <2>2. 1 \in 1..(k - 1) /\ 1 \in 1..TxsPerBlock /\ 1 < k
    BY <2>1, ConfigAssumption
  <2> QED
    BY <1>1, <1>2, <2>2 DEF OrderInv, LosesPrefix
<1>4. {vblk[v].txs[j] : j \in 1..(k - 1)} = {}
  BY <1>3
<1> QED
  BY <1>1, <1>4 DEF Holding, TxMissing

LEMMA NextNotLow ==
  ASSUME TypeInv, OrderInv, OccupancyNotLow, [Next]_vars
  PROVE  OccupancyNotLow'
<1> SUFFICES ASSUME ~MayFail
             PROVE  occupancy' >= Percent(empty')
  BY DEF OccupancyNotLow, Percent
<1>1. /\ occupancy \in Int /\ \A e : Percent(e) \in Int
      /\ occupancy >= Percent(empty)
  BY PercentType DEF OccupancyNotLow, TypeInv, TypeOK, PoolTypeOK
<1>2. CASE UNCHANGED <<empty, occupancy>>
  BY <1>1, <1>2
<1>3. CASE occupancy' = Percent(empty')
  BY <1>1, <1>3
<1>4. CASE \E m \in Miners : MinerSelect(m)
  <2>1. occupancy' = occupancy /\ empty \subseteq empty'
    BY <1>4 DEF MinerSelect
  <2>2. Percent(empty') <= Percent(empty)
    BY <2>1, PercentMonotone
  <2> QED
    BY <1>1, <2>1, <2>2
<1>5. ASSUME NEW g \in TxGens, GenNext(g)
      PROVE  UNCHANGED <<empty, occupancy>> \/ occupancy' = Percent(empty')
  BY <1>5 DEF GenNext, TxAdd, TxPoolFull, TxNotify, poolVars
<1>6. ASSUME NEW m \in Miners, MinerNext(m)
      PROVE  UNCHANGED <<empty, occupancy>> \/ MinerSelect(m)
  BY <1>6 DEF MinerNext, MinerWake, MinerReadHash, MinerTooFew, MinerPowFails,
     MinerStartSend, MinerFinishSend, MinerSendFails, poolVars
<1>7. ASSUME NEW v \in Validators, ValidatorNext(v)
      PROVE  UNCHANGED <<empty, occupancy>> \/ occupancy' = Percent(empty')
  <2>1. CASE TxMissing(v)
    BY <2>1, MissingReturnsNothing
  <2>2. CASE RemoveTxs(v) \/ GiveBack(v)
    BY <2>2 DEF RemoveTxs, GiveBack
  <2>3. CASE \/ ValidatorTop(v) \/ ChildExit(v) \/ SelectTimeout(v)
             \/ ReadFrame(v) \/ ReadGarbage(v) \/ PrevMatches(v)
             \/ PrevMismatch(v) \/ TxsPresent(v) \/ LedgerHasRoom(v)
             \/ LedgerFull(v) \/ AppendBlock(v) \/ SendStatistics(v)
    BY <2>3 DEF ValidatorTop, ChildExit, SelectTimeout, ReadFrame,
       ReadGarbage, PrevMatches, PrevMismatch, TxsPresent, LedgerHasRoom,
       LedgerFull, AppendBlock, SendStatistics, Go, poolVars
  <2> QED
    BY <1>7, <2>1, <2>2, <2>3 DEF ValidatorNext
<1>8. ASSUME \/ \E c \in Children : Fork(c)
             \/ \E V \in SUBSET Validators : ReadTorn(V)
             \/ StatReceive
             \/ UNCHANGED vars
      PROVE  UNCHANGED <<empty, occupancy>>
  BY <1>8 DEF Fork, ReadTorn, StatReceive, poolVars, vars
<1> QED
  BY <1>2, <1>3, <1>4, <1>5, <1>6, <1>7, <1>8 DEF Next

\* Without failed proofs of work and failed sends the occupancy never falls
\* below what the pool holds, whatever the size of pool and blocks: a primary
\* that should fork sees a percentage that is high enough.
THEOREM OccupancyNotLowCorrect == Spec => []OccupancyNotLow
<1>1. Init => OccupancyNotLow
  <2>1. \A n \in Nat \ {0} : 0 >= (0 * 100) \div n
    OBVIOUS
  <2>2. Cardinality(Slot \ Slot) = 0
    BY FS_EmptySet
  <2> QED
    BY <2>1, <2>2, ConfigAssumption DEF Init, OccupancyNotLow, Percent
<1>2. TypeInv /\ OwnInv /\ OrderInv /\ OccupancyNotLow /\ [Next]_vars
      => OccupancyNotLow'
  BY NextNotLow
<1> QED
  BY <1>1, <1>2, OrderInvariant, PTL DEF Spec
=============================================================================
