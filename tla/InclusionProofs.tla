--------------------------- MODULE InclusionProofs ---------------------------
(***************************************************************************)
(* No transaction is included in the ledger twice.  The proof follows the  *)
(* transactions: at any time a transaction is held in at most one place    *)
(* (a miner, a position of the pipe, a validator, a position of the        *)
(* ledger), and one that a miner may select is held nowhere.               *)
(***************************************************************************)
EXTENDS DeiChainProofs

MinerPlace(m) == <<"miner", m>>
PipePlace(k) == <<"pipe", k>>
ValidatorPlace(v) == <<"validator", v>>
LedgerPlace(k) == <<"ledger", k>>

Place == {MinerPlace(m) : m \in Miners} \cup {PipePlace(k) : k \in Nat} \cup
         {ValidatorPlace(v) : v \in Validators} \cup
         {LedgerPlace(k) : k \in Nat}

\* The transactions held at a place.  Between AppendBlock and RemoveTxs the
\* block belongs to the ledger, no longer to its validator.
Held(p) ==
  IF p[1] = "miner" THEN TxsOf(mblk[p[2]])
  ELSE IF p[1] = "pipe" THEN
    IF p[2] \in 1..Len(pipe) THEN FrameTxs(pipe[p[2]]) ELSE {}
  ELSE IF p[1] = "validator" THEN
    IF vpc[p[2]] = "remove" THEN {} ELSE TxsOf(vblk[p[2]])
  ELSE IF p[2] \in 1..Len(ledger) THEN TxsOf(ledger[p[2]]) ELSE {}

\* The transaction has been generated.
Minted(t) == t[2] < counter[t[1]]

OnePlace == \A p, q \in Place : p # q => Held(p) \cap Held(q) = {}
AvailableFree == \A i \in Available, p \in Place : slotTx[i] \notin Held(p)
HeldMinted == \A p \in Place : \A t \in Held(p) : Minted(t)
SlotMinted == \A i \in Slot : slotTx[i] # NoTx => Minted(slotTx[i])
SlotUnique ==
  \A i, j \in Slot : slotTx[i] = slotTx[j] /\ slotTx[i] # NoTx => i = j
Stored ==
  \A v \in Validators :
    vpc[v] = "remove" => \E k \in 1..Len(ledger) : ledger[k] = vblk[v]

Owned == /\ OnePlace /\ AvailableFree /\ HeldMinted
         /\ SlotMinted /\ SlotUnique
OwnInv == Owned /\ Stored

LEMMA HeldAt ==
  /\ \A m : Held(MinerPlace(m)) = TxsOf(mblk[m])
  /\ \A k : Held(PipePlace(k)) =
              IF k \in 1..Len(pipe) THEN FrameTxs(pipe[k]) ELSE {}
  /\ \A v : Held(ValidatorPlace(v)) =
              IF vpc[v] = "remove" THEN {} ELSE TxsOf(vblk[v])
  /\ \A k : Held(LedgerPlace(k)) =
              IF k \in 1..Len(ledger) THEN TxsOf(ledger[k]) ELSE {}
BY DEF Held, MinerPlace, PipePlace, ValidatorPlace, LedgerPlace

LEMMA HeldAtNext ==
  /\ \A m : Held(MinerPlace(m))' = TxsOf(mblk'[m])
  /\ \A k : Held(PipePlace(k))' =
              IF k \in 1..Len(pipe') THEN FrameTxs(pipe'[k]) ELSE {}
  /\ \A v : Held(ValidatorPlace(v))' =
              IF vpc'[v] = "remove" THEN {} ELSE TxsOf(vblk'[v])
  /\ \A k : Held(LedgerPlace(k))' =
              IF k \in 1..Len(ledger') THEN TxsOf(ledger'[k]) ELSE {}
BY DEF Held, MinerPlace, PipePlace, ValidatorPlace, LedgerPlace, TxsOf, FrameTxs

LEMMA HeldInTx ==
  ASSUME TypeInv
  PROVE  \A p \in Place : Held(p) \subseteq Tx
<1> USE DEF TypeInv, TypeOK
<1>1. \A m \in Miners : Held(MinerPlace(m)) \subseteq Tx
  BY HeldAt, TxsOfBlock DEF MinerTypeOK
<1>2. \A v \in Validators : Held(ValidatorPlace(v)) \subseteq Tx
  BY HeldAt, TxsOfBlock DEF ValidatorTypeOK
<1>3. \A k : Held(PipePlace(k)) \subseteq Tx
  <2>1. \A k \in 1..Len(pipe) : pipe[k] \in Frame \cup {Garbage}
    BY ElementOfSeq DEF ChannelTypeOK
  <2> QED
    BY <2>1, HeldAt, TxsOfFrame
<1>4. \A k : Held(LedgerPlace(k)) \subseteq Tx
  <2>1. \A k \in 1..Len(ledger) : ledger[k] \in Block
    BY ElementOfSeq DEF ChannelTypeOK
  <2> QED
    BY <2>1, HeldAt, TxsOfBlock
<1> QED
  BY <1>1, <1>2, <1>3, <1>4 DEF Place

\* Equal places are of one kind and have one index.
LEMMA PlacesDiffer ==
  /\ \A m, n : MinerPlace(m) = MinerPlace(n) => m = n
  /\ \A m, n : PipePlace(m) = PipePlace(n) => m = n
  /\ \A m, n : ValidatorPlace(m) = ValidatorPlace(n) => m = n
  /\ \A m, n : LedgerPlace(m) = LedgerPlace(n) => m = n
  /\ \A m, n : /\ MinerPlace(m) # PipePlace(n)
               /\ MinerPlace(m) # ValidatorPlace(n)
               /\ MinerPlace(m) # LedgerPlace(n)
               /\ PipePlace(m) # ValidatorPlace(n)
               /\ PipePlace(m) # LedgerPlace(n)
               /\ ValidatorPlace(m) # LedgerPlace(n)
BY DEF MinerPlace, PipePlace, ValidatorPlace, LedgerPlace

\* A step that moves held transactions along f, merging no two places, and
\* makes a transaction selectable only when the place that held it gives it
\* up, keeps every transaction in one place.
LEMMA Transport ==
  ASSUME TypeInv, Owned, NEW f \in [Place -> Place],
         UNCHANGED <<slotTx, counter>>, empty' \in SUBSET Slot,
         \A p \in Place : Held(p)' \subseteq Held(f[p]),
         \A p, q \in Place :
           p # q /\ f[p] = f[q] => Held(p)' = {} \/ Held(q)' = {},
         \A i \in Slot \ empty' :
           \/ i \in Available
           \/ \E o \in Place : /\ slotTx[i] \in Held(o)
                               /\ \A p \in Place : f[p] = o => Held(p)' = {}
  PROVE  Owned'
<1>1. OnePlace'
  BY DEF Owned, OnePlace
<1>2. AvailableFree'
  <2> SUFFICES ASSUME NEW i \in Slot \ empty', NEW p \in Place,
                      slotTx[i] \in Held(p)'
               PROVE  FALSE
    BY DEF AvailableFree, Available
  <2>1. slotTx[i] \in Held(f[p])
    OBVIOUS
  <2>2. i \notin Available
    BY <2>1 DEF Owned, AvailableFree
  <2>3. PICK o \in Place : /\ slotTx[i] \in Held(o)
                           /\ \A q \in Place : f[q] = o => Held(q)' = {}
    BY <2>2
  <2>4. f[p] # o
    BY <2>3
  <2> QED
    BY <2>1, <2>3, <2>4 DEF Owned, OnePlace
<1>3. HeldMinted' /\ SlotMinted' /\ SlotUnique'
  BY DEF Owned, HeldMinted, SlotMinted, SlotUnique, Minted
<1> QED
  BY <1>1, <1>2, <1>3 DEF Owned

\* The case in which nothing moves, though some places may give up.
LEMMA StayPut ==
  ASSUME TypeInv, Owned, UNCHANGED <<slotTx, counter>>,
         empty' \in SUBSET Slot,
         \A p \in Place : Held(p)' \subseteq Held(p),
         \A i \in Slot \ empty' :
           \/ i \in Available
           \/ \E o \in Place : slotTx[i] \in Held(o) /\ Held(o)' = {}
  PROVE  Owned'
<1> DEFINE f == [p \in Place |-> p]
<1>1. f \in [Place -> Place]
  OBVIOUS
<1> QED
  BY <1>1, Transport

LEMMA InitOwn == Init => OwnInv
<1> SUFFICES ASSUME Init PROVE OwnInv
  OBVIOUS
<1>1. \A p \in Place : Held(p) = {}
  <2>1. \A m \in Miners : Held(MinerPlace(m)) = {}
    BY HeldAt, TxsOfBlock DEF Init
  <2>2. \A v \in Validators : Held(ValidatorPlace(v)) = {}
    BY HeldAt, TxsOfBlock DEF Init
  <2>3. \A k : Held(PipePlace(k)) = {} /\ Held(LedgerPlace(k)) = {}
    BY HeldAt, EmptySeq DEF Init
  <2> QED
    BY <2>1, <2>2, <2>3 DEF Place
<1>2. \A v \in Validators : vpc[v] # "remove"
  BY DEF Init
<1> QED
  BY <1>1, <1>2 DEF Init, OwnInv, Owned, OnePlace, AvailableFree, HeldMinted,
     SlotMinted, SlotUnique, Stored, Available

\* Stored speaks of validators and the ledger only.
LEMMA StoredKept ==
  ASSUME Stored, UNCHANGED <<vpc, vblk, ledger>>
  PROVE  Stored'
BY DEF Stored

LEMMA GenOwn ==
  ASSUME TypeInv, OwnInv, NEW g \in TxGens, GenNext(g)
  PROVE  OwnInv'
<1> USE DEF OwnInv
<1>1. UNCHANGED <<mblk, pipe, vpc, vblk, ledger>>
  BY DEF GenNext, TxAdd, TxPoolFull, TxNotify, minerVars, valVars
<1>2. Stored'
  BY <1>1, StoredKept
<1>3. \A p \in Place : Held(p)' = Held(p)
  BY <1>1 DEF Held
<1>4. \A t : Minted(t) /\ t \in Tx => Minted(t)'
  BY DEF GenNext, TxAdd, TxPoolFull, TxNotify, Minted, Tx, TypeInv, TypeOK,
     GenTypeOK
<1>5. \A p \in Place : Held(p) \subseteq Tx
  BY HeldInTx
<1>6. HeldMinted'
  BY <1>3, <1>4, <1>5 DEF Owned, HeldMinted
<1>7. OnePlace'
  BY <1>3 DEF Owned, OnePlace
<1>8. CASE TxAdd(g)
  <2>0. PICK t : t = <<g, counter[g]>>
    OBVIOUS
  <2>1. PICK i \in Slot : /\ FirstEmpty(i)
                          /\ slotTx' = [slotTx EXCEPT ![i] = t]
                          /\ empty' = empty \ {i}
    BY <1>8, <2>0 DEF TxAdd
  <2>2. t \in Tx /\ ~Minted(t) /\ Minted(t)'
    BY <1>8, <2>0, ConfigAssumption
    DEF TxAdd, Minted, Tx, TypeInv, TypeOK, GenTypeOK
  <2>3. \A j \in Slot : slotTx[j] # t
    BY <2>2, ValueAssumption DEF Owned, SlotMinted
  <2>4. \A p \in Place : t \notin Held(p)
    BY <2>2 DEF Owned, HeldMinted
  <2>5. slotTx'[i] = t /\ \A j \in Slot \ {i} : slotTx'[j] = slotTx[j]
    BY <2>1 DEF TypeInv, TypeOK, PoolTypeOK
  <2>6. AvailableFree'
    BY <1>3, <2>1, <2>4, <2>5 DEF Owned, AvailableFree, Available
  <2>7. SlotMinted'
    <3> SUFFICES ASSUME NEW j \in Slot, slotTx'[j] # NoTx
                 PROVE  Minted(slotTx[j])'
      BY DEF SlotMinted
    <3>1. PICK u : u = slotTx'[j]
      OBVIOUS
    <3>2. u \in Tx /\ (u = t \/ Minted(u))
      BY <2>2, <2>5, <3>1, ValueAssumption
      DEF Owned, SlotMinted, TypeInv, TypeOK, PoolTypeOK
    <3>3. Minted(u)'
      BY <1>4, <2>2, <3>2
    <3> QED
      BY <3>1, <3>3 DEF Minted
  <2>8. SlotUnique'
    BY <2>3, <2>5 DEF Owned, SlotUnique
  <2> QED
    BY <1>2, <1>6, <1>7, <2>6, <2>7, <2>8 DEF Owned
<1>9. CASE TxPoolFull(g) \/ TxNotify(g)
  <2>1. UNCHANGED <<slotTx, empty>>
    BY <1>9 DEF TxPoolFull, TxNotify, poolVars
  <2>2. AvailableFree' /\ SlotUnique'
    BY <1>3, <2>1 DEF Owned, AvailableFree, Available, SlotUnique
  <2>3. SlotMinted'
    <3>1. \A i \in Slot : slotTx[i] # NoTx => slotTx[i] \in Tx
      BY DEF TypeInv, TypeOK, PoolTypeOK
    <3> QED
      BY <1>4, <2>1, <3>1 DEF Owned, SlotMinted, Minted
  <2> QED
    BY <1>2, <1>6, <1>7, <2>2, <2>3 DEF Owned
<1> QED
  BY <1>8, <1>9 DEF GenNext

\* The transactions of the first available slots go to the miner.
LEMMA SelectOwn ==
  ASSUME TypeInv, Owned, NEW m \in Miners, MinerSelect(m)
  PROVE  Owned'
<1>1. PICK s \in [1..TxsPerBlock -> Available] :
        /\ empty' = empty \cup Reserved(s)
        /\ mblk' = [mblk EXCEPT ![m] =
                      [miner |-> m, prev |-> lastHash[m],
                       txs |-> [k \in 1..TxsPerBlock |-> slotTx[s[k]]]]]
  BY DEF MinerSelect
<1> DEFINE new == {slotTx[s[k]] : k \in 1..TxsPerBlock}
<1>2. UNCHANGED <<slotTx, counter, pipe, vpc, vblk, ledger>>
  BY DEF MinerSelect, genVars, valVars
<1>3. Held(MinerPlace(m))' = new
  <2>1. \A k \in 1..TxsPerBlock : slotTx[s[k]] \in Tx
    BY DEF TypeInv, TypeOK, UsedSlotsHold, PoolTypeOK, Available
  <2>2. mblk'[m] = [miner |-> m, prev |-> lastHash[m],
                    txs |-> [k \in 1..TxsPerBlock |-> slotTx[s[k]]]]
    BY <1>1 DEF TypeInv, TypeOK, MinerTypeOK
  <2>3. mblk'[m] \in Block
    BY <2>1, <2>2 DEF Block, TypeInv, TypeOK, MinerTypeOK
  <2>4. \A k \in 1..TxsPerBlock : mblk'[m].txs[k] = slotTx[s[k]]
    BY <2>2
  <2>5. TxsOf(mblk'[m]) = {mblk'[m].txs[k] : k \in 1..TxsPerBlock}
    BY <2>3, TxsOfBlock
  <2>6. TxsOf(mblk'[m]) = new
    BY <2>4, <2>5
  <2> QED
    BY <2>6, HeldAtNext
<1>4. \A p \in Place : p # MinerPlace(m) => Held(p)' = Held(p)
  <2>1. \A n \in Miners : n # m =>
          Held(MinerPlace(n))' = Held(MinerPlace(n))
    BY <1>1, HeldAt, HeldAtNext DEF TypeInv, TypeOK, MinerTypeOK
  <2>2. \A k : /\ Held(PipePlace(k))' = Held(PipePlace(k))
               /\ Held(ValidatorPlace(k))' = Held(ValidatorPlace(k))
               /\ Held(LedgerPlace(k))' = Held(LedgerPlace(k))
    BY <1>2 DEF Held, PipePlace, ValidatorPlace, LedgerPlace
  <2> QED
    BY <2>1, <2>2 DEF Place
<1>5. \A p \in Place : Held(p) \cap new = {}
  BY DEF Owned, AvailableFree
<1>6. OnePlace'
  BY <1>3, <1>4, <1>5 DEF Owned, OnePlace
<1>7. AvailableFree'
  <2>1. \A i \in Slot \ empty' : i \in Available /\ slotTx[i] \notin new
    BY <1>1 DEF Owned, SlotUnique, Available, Reserved, TypeInv, UsedSlotsHold
  <2> QED
    BY <1>2, <1>3, <1>4, <2>1 DEF Owned, AvailableFree, Available
<1>8. HeldMinted'
  BY <1>2, <1>3, <1>4
  DEF Owned, HeldMinted, SlotMinted, Minted, TypeInv, UsedSlotsHold, Available
<1>9. SlotMinted' /\ SlotUnique'
  BY <1>2 DEF Owned, SlotMinted, SlotUnique, Minted
<1> QED
  BY <1>6, <1>7, <1>8, <1>9 DEF Owned

LEMMA MinerOwn ==
  ASSUME TypeInv, OwnInv, NEW m \in Miners, MinerNext(m)
  PROVE  OwnInv'
<1> USE DEF OwnInv
<1>1. UNCHANGED <<slotTx, counter, vpc, vblk, ledger>>
  BY DEF MinerNext, MinerWake, MinerReadHash, MinerTooFew, MinerSelect,
     MinerPowFails, MinerStartSend, MinerFinishSend, MinerSendFails,
     poolVars, genVars, valVars
<1>2. Stored'
  BY <1>1, StoredKept
<1>3. empty' \in SUBSET Slot
  BY MinerType DEF TypeInv, TypeOK, PoolTypeOK
<1>4. MinerPlace(m) \in Place
  BY DEF Place
<1>5. CASE \/ MinerWake(m) \/ MinerReadHash(m) \/ MinerTooFew(m)
           \/ MinerStartSend(m)
  <2>1. UNCHANGED <<empty, mblk, pipe>>
    BY <1>5 DEF MinerWake, MinerReadHash, MinerTooFew, MinerStartSend, poolVars
  <2>2. \A p \in Place : Held(p)' = Held(p)
    BY <1>1, <2>1 DEF Held
  <2> QED
    BY <1>1, <1>2, <1>3, <2>1, <2>2, StayPut DEF Available
<1>6. CASE MinerSelect(m)
  BY <1>2, <1>6, SelectOwn
<1>7. CASE MinerPowFails(m) \/ MinerSendFails(m)
  <2>1. RestoreTxs(m) /\ (pipe' = pipe \/ pipe' = Append(pipe, Garbage))
    BY <1>7 DEF MinerPowFails, MinerSendFails
  <2>2. \A k : Held(PipePlace(k))' \subseteq Held(PipePlace(k))
    <3>1. CASE pipe' = pipe
      BY <3>1, HeldAt, HeldAtNext
    <3>2. CASE pipe' = Append(pipe, Garbage)
      <4>1. /\ Len(pipe') = Len(pipe) + 1 /\ Len(pipe) \in Nat
            /\ \A k \in 1..Len(pipe) : pipe'[k] = pipe[k]
            /\ pipe'[Len(pipe) + 1] = Garbage
        BY <3>2, AppendProperties DEF TypeInv, TypeOK, ChannelTypeOK
      <4> QED
        BY <4>1, HeldAt, HeldAtNext, TxsOfFrame
    <3> QED
      BY <2>1, <3>1, <3>2
  <2>3. /\ Held(MinerPlace(m))' = {}
        /\ \A n \in Miners : Held(MinerPlace(n))' \subseteq Held(MinerPlace(n))
    BY <2>1, HeldAt, HeldAtNext, TxsOfBlock
    DEF RestoreTxs, TypeInv, TypeOK, MinerTypeOK
  <2>4. \A p \in Place : Held(p)' \subseteq Held(p)
    BY <1>1, <2>2, <2>3, HeldAt, HeldAtNext DEF Place
  <2>5. \A i \in Slot \ empty' :
          i \in Available \/ slotTx[i] \in Held(MinerPlace(m))
    BY <2>1, HeldAt DEF RestoreTxs, Holding, Available
  <2> QED
    BY <1>1, <1>2, <1>3, <1>4, <2>3, <2>4, <2>5, StayPut
<1>8. CASE MinerFinishSend(m)
  <2>0. PICK new : new = PipePlace(Len(pipe) + 1)
    OBVIOUS
  <2> DEFINE f == [p \in Place |-> IF p = new THEN MinerPlace(m) ELSE p]
  <2>1. /\ Len(pipe') = Len(pipe) + 1 /\ Len(pipe) \in Nat
        /\ \A k \in 1..Len(pipe) : pipe'[k] = pipe[k]
        /\ FrameTxs(pipe'[Len(pipe) + 1]) = TxsOf(mblk[m])
    <3>1. PICK fr : fr = [blk |-> mblk[m], whole |-> m \notin torn]
      OBVIOUS
    <3>2. pipe \in Seq(Frame \cup {Garbage}) /\ mblk[m] \in Block
      BY <1>8 DEF MinerFinishSend, TypeInv, TypeOK, ChannelTypeOK, MinerTypeOK
    <3>3. fr \in Frame /\ fr.blk = mblk[m]
      BY <3>1, <3>2 DEF Frame
    <3>4. FrameTxs(fr) = TxsOf(mblk[m])
      BY <3>3, TxsOfFrame
    <3>5. pipe' = Append(pipe, fr)
      BY <1>8, <3>1 DEF MinerFinishSend
    <3> QED
      BY <3>2, <3>3, <3>4, <3>5, AppendProperties
  <2>2. new \in Place
    BY <2>0, <2>1 DEF Place
  <2>3. f \in [Place -> Place]
    BY <1>4
  <2>4. /\ Held(MinerPlace(m))' = {}
        /\ \A n \in Miners : Held(MinerPlace(n))' \subseteq Held(MinerPlace(n))
    BY <1>8, HeldAt, HeldAtNext, TxsOfBlock
    DEF MinerFinishSend, TypeInv, TypeOK, MinerTypeOK
  <2>5. Held(new)' \subseteq Held(MinerPlace(m))
    <3>1. PICK n : n = Len(pipe) + 1
      OBVIOUS
    <3>2. Held(PipePlace(n))' \subseteq Held(MinerPlace(m))
      BY <2>1, <3>1, HeldAt, HeldAtNext, TxsOfBlock
    <3> QED
      BY <2>0, <3>1, <3>2
  <2>6. \A k \in Nat : PipePlace(k) # new =>
          Held(PipePlace(k))' \subseteq Held(PipePlace(k))
    BY <2>0, <2>1, HeldAt, HeldAtNext, PlacesDiffer
  <2>7. \A p \in Place : p # new => Held(p)' \subseteq Held(p)
    BY <1>1, <2>4, <2>6, HeldAt, HeldAtNext DEF Place
  <2>8. \A p \in Place : Held(p)' \subseteq Held(f[p])
    <3>1. \A p \in Place : f[p] = IF p = new THEN MinerPlace(m) ELSE p
      OBVIOUS
    <3> HIDE DEF f
    <3> QED
      BY <2>5, <2>7, <3>1
  <2>9. \A p, q \in Place :
          p # q /\ f[p] = f[q] => Held(p)' = {} \/ Held(q)' = {}
    BY <2>4
  <2>10. empty' = empty
    BY <1>8 DEF MinerFinishSend, poolVars
  <2> QED
    BY <1>1, <1>2, <1>3, <2>3, <2>8, <2>9, <2>10, Transport DEF Available
<1> QED
  BY <1>5, <1>6, <1>7, <1>8 DEF MinerNext

\* A step of one validator that moves no transaction, though the validator
\* may give up its block and return transactions of it to the pool.
LEMMA ReleaseOwn ==
  ASSUME TypeInv, Owned, NEW v \in Validators,
         UNCHANGED <<slotTx, counter, mblk, pipe, ledger>>,
         empty' \in SUBSET Slot,
         \A u \in Validators \ {v} : vblk'[u] = vblk[u] /\ vpc'[u] = vpc[u],
         Held(ValidatorPlace(v))' \subseteq Held(ValidatorPlace(v)),
         \A i \in Slot \ empty' :
           \/ i \in Available
           \/ /\ slotTx[i] \in Held(ValidatorPlace(v))
              /\ Held(ValidatorPlace(v))' = {}
  PROVE  Owned'
<1>1. ValidatorPlace(v) \in Place
  BY DEF Place
<1>2. \A u \in Validators \ {v} :
        Held(ValidatorPlace(u))' = Held(ValidatorPlace(u))
  <2> SUFFICES ASSUME NEW u \in Validators \ {v}
               PROVE  Held(ValidatorPlace(u))' = Held(ValidatorPlace(u))
    OBVIOUS
  <2>1. vblk'[u] = vblk[u] /\ vpc'[u] = vpc[u]
    OBVIOUS
  <2> QED
    BY <2>1, HeldAt, HeldAtNext
<1>3. /\ \A k : Held(MinerPlace(k))' = Held(MinerPlace(k))
      /\ \A k : Held(PipePlace(k))' = Held(PipePlace(k))
      /\ \A k : Held(LedgerPlace(k))' = Held(LedgerPlace(k))
  BY DEF Held, MinerPlace, PipePlace, LedgerPlace
<1>4. \A p \in Place : Held(p)' \subseteq Held(p)
  BY <1>2, <1>3 DEF Place
<1> QED
  BY <1>1, <1>4, StayPut

\* A step that takes k frames off the pipe, gives the transactions of some of
\* them to the validators in D, each of another frame, and moves nothing else.
LEMMA TakeOwn ==
  ASSUME TypeInv, Owned, UNCHANGED <<slotTx, empty, counter, mblk, ledger>>,
         NEW k \in Nat, NEW D \in SUBSET Validators, NEW source \in [D -> 1..k],
         \A v, w \in D : source[v] = source[w] => v = w,
         \A j \in Nat : Held(PipePlace(j))' \subseteq Held(PipePlace(j + k)),
         \A v \in D :
           Held(ValidatorPlace(v))' \subseteq Held(PipePlace(source[v])),
         \A v \in Validators \ D :
           Held(ValidatorPlace(v))' \subseteq Held(ValidatorPlace(v))
  PROVE  Owned'
<1> DEFINE f == [p \in Place |->
                   IF p[1] = "pipe" THEN PipePlace(p[2] + k)
                   ELSE IF p[1] = "validator" /\ p[2] \in D
                     THEN PipePlace(source[p[2]])
                   ELSE p]
<1>1. /\ \A j \in Nat : PipePlace(j) \in Place
                        /\ f[PipePlace(j)] = PipePlace(j + k)
      /\ \A m \in Miners : f[MinerPlace(m)] = MinerPlace(m)
      /\ \A v \in D : f[ValidatorPlace(v)] = PipePlace(source[v])
      /\ \A v \in Validators \ D : f[ValidatorPlace(v)] = ValidatorPlace(v)
      /\ \A j \in Nat : f[LedgerPlace(j)] = LedgerPlace(j)
  BY DEF Place, MinerPlace, PipePlace, ValidatorPlace, LedgerPlace
<1>2. f \in [Place -> Place]
  <2>1. \A p \in Place : f[p] \in Place
    <3>1. \A j \in Nat : PipePlace(j + k) \in Place
      BY DEF Place
    <3>2. \A v \in D : PipePlace(source[v]) \in Place
      BY DEF Place
    <3> HIDE DEF f
    <3> QED
      BY <1>1, <3>1, <3>2 DEF Place
  <2> QED
    BY <2>1
<1> HIDE DEF f
<1>3. /\ \A m \in Miners : Held(MinerPlace(m))' = Held(MinerPlace(m))
      /\ \A j \in Nat : Held(LedgerPlace(j))' = Held(LedgerPlace(j))
  BY DEF Held, MinerPlace, LedgerPlace
<1>4. \A p \in Place : Held(p)' \subseteq Held(f[p])
  BY <1>1, <1>3 DEF Place
<1>5. Held(PipePlace(0))' = {}
  BY HeldAtNext
<1>6. \A i, j \in Nat : f[PipePlace(i)] = f[PipePlace(j)] => i = j
  <2> SUFFICES ASSUME NEW i \in Nat, NEW j \in Nat,
                      f[PipePlace(i)] = f[PipePlace(j)]
               PROVE  i = j
    OBVIOUS
  <2>1. i + k = j + k
    BY <1>1, PlacesDiffer
  <2> QED
    BY <2>1
<1>7. \A j \in Nat, v \in D :
        f[PipePlace(j)] = f[ValidatorPlace(v)] => j = 0
  <2> SUFFICES ASSUME NEW j \in Nat, NEW v \in D,
                      f[PipePlace(j)] = f[ValidatorPlace(v)]
               PROVE  j = 0
    OBVIOUS
  <2>1. j + k = source[v] /\ source[v] \in 1..k
    BY <1>1, PlacesDiffer
  <2> QED
    BY <2>1
<1>8. \A v, w \in D : f[ValidatorPlace(v)] = f[ValidatorPlace(w)] => v = w
  BY <1>1, PlacesDiffer
<1>9. \A p \in Place :
        \/ f[p] = p /\ \A n : p # PipePlace(n)
        \/ \E j \in Nat : p = PipePlace(j)
        \/ \E v \in D : p = ValidatorPlace(v)
  BY <1>1, PlacesDiffer DEF Place
<1>10. /\ \A j \in Nat : \E n : f[PipePlace(j)] = PipePlace(n)
       /\ \A v \in D : \E n : f[ValidatorPlace(v)] = PipePlace(n)
  BY <1>1
<1>11. \A p, q \in Place :
         p # q /\ f[p] = f[q] => Held(p)' = {} \/ Held(q)' = {}
  <2> SUFFICES ASSUME NEW p \in Place, NEW q \in Place, p # q, f[p] = f[q]
               PROVE  Held(p)' = {} \/ Held(q)' = {}
    OBVIOUS
  <2>1. p = PipePlace(0) \/ q = PipePlace(0)
    BY <1>6, <1>7, <1>8, <1>9, <1>10
  <2> QED
    BY <1>5, <2>1
<1>12. empty' \in SUBSET Slot
  BY DEF TypeInv, TypeOK, PoolTypeOK
<1> QED
  BY <1>2, <1>4, <1>11, <1>12, Transport DEF Available

\* The head of the pipe becomes the block of validator v.
LEMMA ReadFrameOwn ==
  ASSUME TypeInv, Owned, NEW v \in Validators, ReadFrame(v)
  PROVE  Owned'
<1>1. /\ UNCHANGED <<slotTx, empty, counter, mblk, ledger>>
      /\ vblk' = [vblk EXCEPT ![v] = pipe[1].blk]
      /\ vpc' = [vpc EXCEPT ![v] = "prev"]
  <2>1. Head(pipe) = pipe[1]
    BY DEF ReadFrame, Readable, TypeInv, TypeOK, ChannelTypeOK
  <2> QED
    BY <2>1 DEF ReadFrame, poolVars, genVars, minerVars
<1>2. /\ pipe[1] \in Frame /\ Len(pipe) \in Nat /\ 1 \in 1..Len(pipe)
      /\ Len(pipe') = Len(pipe) - 1
      /\ \A j \in 1..(Len(pipe) - 1) : pipe'[j] = pipe[j + 1]
  <2>1. pipe \in Seq(Frame \cup {Garbage})
    BY DEF TypeInv, TypeOK, ChannelTypeOK
  <2> QED
    BY <2>1 DEF ReadFrame, Readable
<1>3. \A j \in Nat : Held(PipePlace(j))' \subseteq Held(PipePlace(j + 1))
  <2> SUFFICES ASSUME NEW j \in Nat
               PROVE  Held(PipePlace(j))' \subseteq Held(PipePlace(j + 1))
    OBVIOUS
  <2>1. CASE j \in 1..Len(pipe')
    <3>1. j + 1 \in 1..Len(pipe) /\ pipe'[j] = pipe[j + 1]
      BY <1>2, <2>1
    <3> QED
      BY <2>1, <3>1, HeldAt, HeldAtNext
  <2>2. CASE j \notin 1..Len(pipe')
    BY <2>2, HeldAtNext
  <2> QED
    BY <2>1, <2>2
<1>4. Held(ValidatorPlace(v))' \subseteq Held(PipePlace(1))
  <2>1. vblk'[v] = pipe[1].blk
    BY <1>1 DEF TypeInv, TypeOK, ValidatorTypeOK
  <2>2. FrameTxs(pipe[1]) = TxsOf(pipe[1].blk)
    BY <1>2, TxsOfFrame
  <2> QED
    BY <1>2, <2>1, <2>2, HeldAt, HeldAtNext
<1>5. \A u \in Validators \ {v} :
        Held(ValidatorPlace(u))' \subseteq Held(ValidatorPlace(u))
  <2> SUFFICES ASSUME NEW u \in Validators \ {v}
               PROVE  Held(ValidatorPlace(u))' = Held(ValidatorPlace(u))
    OBVIOUS
  <2>1. vblk'[u] = vblk[u] /\ vpc'[u] = vpc[u]
    BY <1>1 DEF TypeInv, TypeOK, ValidatorTypeOK
  <2> QED
    BY <2>1, HeldAt, HeldAtNext
<1>6. PICK source : source = [u \in {v} |-> 1]
  OBVIOUS
<1>7. /\ source \in [{v} -> 1..1] /\ source[v] = 1
      /\ {v} \in SUBSET Validators
  BY <1>6
<1>8. \A u \in {v} :
        Held(ValidatorPlace(u))' \subseteq Held(PipePlace(source[u]))
  BY <1>4, <1>7
<1> QED
  BY <1>1, <1>3, <1>5, <1>7, <1>8, TakeOwn

\* The block of validator v becomes the last block of the ledger.
LEMMA AppendOwn ==
  ASSUME TypeInv, OwnInv, NEW v \in Validators, AppendBlock(v)
  PROVE  OwnInv'
<1> USE DEF OwnInv
<1>1. /\ UNCHANGED <<slotTx, empty, counter, mblk, pipe, vblk>>
      /\ ledger' = Append(ledger, vblk[v])
      /\ vpc[v] = "append"
      /\ vpc' = [vpc EXCEPT ![v] = "remove"]
  BY DEF AppendBlock, poolVars, genVars, minerVars
<1>2. /\ Len(ledger') = Len(ledger) + 1 /\ Len(ledger) \in Nat
      /\ \A k \in 1..Len(ledger) : ledger'[k] = ledger[k]
      /\ ledger'[Len(ledger) + 1] = vblk[v]
  <2>1. ledger \in Seq(Block) /\ vblk[v] \in Block
    BY <1>1 DEF TypeInv, TypeOK, ChannelTypeOK, ValidatorTypeOK, CheckPc
  <2> QED
    BY <1>1, <2>1, AppendProperties
<1>3. PICK new : new = LedgerPlace(Len(ledger) + 1)
  OBVIOUS
<1>4. vpc'[v] = "remove" /\ \A u \in Validators \ {v} : vpc'[u] = vpc[u]
  BY <1>1 DEF TypeInv, TypeOK, ValidatorTypeOK
<1>5. Stored'
  <2> SUFFICES ASSUME NEW u \in Validators, vpc'[u] = "remove"
               PROVE  \E k \in 1..Len(ledger') : ledger'[k] = vblk'[u]
    BY DEF Stored
  <2>1. CASE u = v
    BY <1>1, <1>2, <2>1
  <2>2. CASE u # v
    <3>1. PICK k \in 1..Len(ledger) : ledger[k] = vblk[u]
      BY <1>4, <2>2 DEF Stored
    <3> QED
      BY <1>1, <1>2, <3>1
  <2> QED
    BY <2>1, <2>2
<1> DEFINE f == [p \in Place |-> IF p = new THEN ValidatorPlace(v) ELSE p]
<1>6. f \in [Place -> Place]
  BY DEF Place
<1>7. new \in Place
  BY <1>2, <1>3 DEF Place
<1>8. Held(ValidatorPlace(v))' = {}
  BY <1>4, HeldAtNext
<1>9. Held(new)' \subseteq Held(ValidatorPlace(v))
  <2>1. PICK n : n = Len(ledger) + 1
    OBVIOUS
  <2>2. Held(LedgerPlace(n))' \subseteq Held(ValidatorPlace(v))
    BY <1>1, <1>2, <2>1, HeldAt, HeldAtNext
  <2> QED
    BY <1>3, <2>1, <2>2
<1>10. \A u \in Validators :
         Held(ValidatorPlace(u))' \subseteq Held(ValidatorPlace(u))
  <2> SUFFICES ASSUME NEW u \in Validators, u # v
               PROVE  Held(ValidatorPlace(u))' = Held(ValidatorPlace(u))
    BY <1>8
  <2> QED
    BY <1>1, <1>4, HeldAt, HeldAtNext
<1>11. \A k \in Nat : LedgerPlace(k) # new =>
         Held(LedgerPlace(k))' \subseteq Held(LedgerPlace(k))
  BY <1>2, <1>3, HeldAt, HeldAtNext, PlacesDiffer
<1>12. /\ \A m \in Miners : Held(MinerPlace(m))' = Held(MinerPlace(m))
       /\ \A k \in Nat : Held(PipePlace(k))' = Held(PipePlace(k))
  BY <1>1 DEF Held, MinerPlace, PipePlace
<1>13. \A p \in Place : p # new => Held(p)' \subseteq Held(p)
  BY <1>10, <1>11, <1>12 DEF Place
<1>14. \A p \in Place : f[p] = IF p = new THEN ValidatorPlace(v) ELSE p
  OBVIOUS
<1> HIDE DEF f
<1>15. \A p \in Place : Held(p)' \subseteq Held(f[p])
  BY <1>9, <1>13, <1>14
<1>16. \A p, q \in Place :
         p # q /\ f[p] = f[q] => Held(p)' = {} \/ Held(q)' = {}
  BY <1>8, <1>14
<1>17. empty' \in SUBSET Slot
  BY <1>1 DEF TypeInv, TypeOK, PoolTypeOK
<1> QED
  BY <1>1, <1>5, <1>6, <1>15, <1>16, <1>17, Transport DEF Available

\* Stored is kept by a step in which no validator comes to "remove".
LEMMA StoredLeft ==
  ASSUME Stored, UNCHANGED ledger,
         \A v \in Validators :
           vpc'[v] = "remove" => vpc[v] = "remove" /\ vblk'[v] = vblk[v]
  PROVE  Stored'
BY DEF Stored

\* A validator that only moves on neither gains nor loses transactions.
LEMMA GoOwn ==
  ASSUME TypeInv, OwnInv, NEW v \in Validators, NEW from, NEW to,
         Go(v, from, to), from # "remove", to # "remove"
  PROVE  OwnInv'
<1> USE DEF OwnInv
<1>1. /\ UNCHANGED <<slotTx, empty, counter, mblk, pipe, vblk, ledger>>
      /\ vpc[v] # "remove" /\ vpc'[v] # "remove"
      /\ \A u \in Validators \ {v} : vpc'[u] = vpc[u]
  BY DEF Go, poolVars, genVars, minerVars, TypeInv, TypeOK, ValidatorTypeOK
<1>2. Stored'
  BY <1>1, StoredLeft
<1>3. Held(ValidatorPlace(v))' \subseteq Held(ValidatorPlace(v))
  BY <1>1, HeldAt, HeldAtNext
<1>4. empty' \in SUBSET Slot
  BY <1>1 DEF TypeInv, TypeOK, PoolTypeOK
<1>5. Owned'
  BY <1>1, <1>3, <1>4, ReleaseOwn DEF Available
<1> QED
  BY <1>2, <1>5

\* A validator that reports a block gives it up, and may return to the pool
\* transactions of the block that are not in the ledger.
LEMMA ReportOwn ==
  ASSUME TypeInv, OwnInv, NEW v \in Validators, NEW valid, Report(v, valid),
         UNCHANGED <<slotTx, counter, mblk, pipe, ledger>>,
         empty' \in SUBSET Slot,
         \A i \in Slot \ empty' :
           i \in Available \/ slotTx[i] \in Held(ValidatorPlace(v))
  PROVE  OwnInv'
<1> USE DEF OwnInv
<1>1. /\ vpc'[v] = "report" /\ vblk'[v] = NoBlock
      /\ \A u \in Validators \ {v} : vpc'[u] = vpc[u] /\ vblk'[u] = vblk[u]
  BY DEF Report, TypeInv, TypeOK, ValidatorTypeOK
<1>2. Stored'
  BY <1>1, StoredLeft
<1>3. Held(ValidatorPlace(v))' = {}
  BY <1>1, HeldAtNext, TxsOfBlock
<1>4. Owned'
  BY <1>1, <1>3, ReleaseOwn
<1> QED
  BY <1>2, <1>4

\* A misread consumes frames; what its readers take for blocks are the
\* transactions of frames that are gone.
LEMMA MisreadOwn ==
  ASSUME TypeInv, OwnInv, NEW V \in SUBSET Validators,
         \A v \in V : vpc[v] = "select",
         NEW k \in 1..Len(pipe), NEW donors \in SUBSET (1..k),
         \A j \in donors : pipe[j] # Garbage, Misread(V, k, donors),
         UNCHANGED <<slotTx, empty, counter, mblk, ledger>>
  PROVE  OwnInv'
<1> USE DEF OwnInv
<1>1. PICK D \in SUBSET V : \E source \in [D -> donors] :
        MisreadResult(V, D, source)
  BY MisreadStep
<1>2. PICK source \in [D -> donors] : MisreadResult(V, D, source)
  BY <1>1
<1>3. \A v \in Validators :
        vpc'[v] = "remove" => vpc[v] = "remove" /\ vblk'[v] = vblk[v]
  BY <1>2 DEF MisreadResult
<1>4. Stored'
  BY <1>3, StoredLeft
<1>5. /\ pipe \in Seq(Frame \cup {Garbage}) /\ Len(pipe) \in Nat
      /\ \A j \in donors : j \in 1..Len(pipe) /\ pipe[j] \in Frame
  <2>1. pipe \in Seq(Frame \cup {Garbage}) /\ Len(pipe) \in Nat
    BY DEF TypeInv, TypeOK, ChannelTypeOK
  <2>2. \A j \in donors : j \in 1..Len(pipe)
    BY <2>1
  <2>3. \A j \in donors : pipe[j] \in Frame
    BY <2>1, <2>2
  <2> QED
    BY <2>1, <2>2, <2>3
<1>6. \A j \in Nat : Held(PipePlace(j))' \subseteq Held(PipePlace(j + k))
  <2> SUFFICES ASSUME NEW j \in Nat
               PROVE  Held(PipePlace(j))' \subseteq Held(PipePlace(j + k))
    OBVIOUS
  <2>1. /\ Len(pipe') = Len(pipe) - k
        /\ \A i \in 1..Len(pipe') : pipe'[i] = pipe[i + k] \/ pipe'[i] = Garbage
    BY RemaindersLike DEF Misread
  <2>2. CASE j \in 1..Len(pipe')
    <3>1. j + k \in 1..Len(pipe)
      BY <1>5, <2>1, <2>2
    <3>2. FrameTxs(pipe'[j]) \subseteq FrameTxs(pipe[j + k])
      BY <2>1, <2>2, TxsOfFrame
    <3> QED
      BY <2>2, <3>1, <3>2, HeldAt, HeldAtNext
  <2>3. CASE j \notin 1..Len(pipe')
    BY <2>3, HeldAtNext
  <2> QED
    BY <2>2, <2>3
<1>7. ASSUME NEW v \in D
      PROVE  Held(ValidatorPlace(v))' \subseteq Held(PipePlace(source[v]))
  <2>1. PICK b : b = vblk'[v]
    OBVIOUS
  <2>2. PICK s : s = pipe[source[v]].blk
    OBVIOUS
  <2>3. b \in Block /\ s \in Block /\ b.txs = s.txs
    BY <1>2, <1>5, <2>1, <2>2, TxsOfFrame DEF MisreadResult
  <2>4. TxsOf(b) = TxsOf(s)
    BY <2>3, TxsOfBlock
  <2>5. Held(PipePlace(source[v])) = TxsOf(s)
    BY <1>5, <2>2, HeldAt, TxsOfFrame
  <2>6. vpc'[v] # "remove"
    BY <1>2 DEF MisreadResult
  <2> QED
    BY <2>1, <2>4, <2>5, <2>6, HeldAtNext
<1>8. ASSUME NEW v \in Validators \ D
      PROVE  Held(ValidatorPlace(v))' \subseteq Held(ValidatorPlace(v))
  <2>1. CASE v \in V
    <3>1. vblk'[v] = NoBlock
      BY <1>2, <2>1 DEF MisreadResult
    <3> QED
      BY <3>1, HeldAtNext, TxsOfBlock
  <2>2. CASE v \notin V
    <3>1. vpc'[v] = vpc[v] /\ vblk'[v] = vblk[v]
      BY <1>2, <2>2 DEF MisreadResult
    <3> QED
      BY <3>1, HeldAt, HeldAtNext
  <2> QED
    BY <2>1, <2>2
<1>9. /\ D \in SUBSET Validators /\ k \in Nat
      /\ \A v, w \in D : source[v] = source[w] => v = w
      /\ source \in [D -> 1..k]
  <2>1. D \in SUBSET Validators /\ k \in Nat
    BY <1>5
  <2>2. \A v, w \in D : source[v] = source[w] => v = w
    BY <1>2 DEF MisreadResult
  <2>3. source \in [D -> 1..k]
    OBVIOUS
  <2> QED
    BY <2>1, <2>2, <2>3
<1>10. Owned'
  BY <1>6, <1>7, <1>8, <1>9, TakeOwn
<1> QED
  BY <1>4, <1>10

LEMMA ValidatorOwn ==
  ASSUME TypeInv, OwnInv, NEW v \in Validators, ValidatorNext(v)
  PROVE  OwnInv'
<1>1. CASE \/ ValidatorTop(v) \/ ChildExit(v) \/ SelectTimeout(v)
           \/ PrevMatches(v) \/ TxsPresent(v)
           \/ LedgerHasRoom(v) \/ LedgerFull(v)
  <2>1. PICK from \in {"top", "select", "prev", "txs", "full"},
             to \in {"select", "exited", "top", "txs", "full", "append",
                     "giveback"} : Go(v, from, to)
    BY <1>1 DEF ValidatorTop, ChildExit, SelectTimeout, PrevMatches,
       TxsPresent, LedgerHasRoom, LedgerFull
  <2> QED
    BY <2>1, GoOwn
<1>2. CASE ReadFrame(v)
  <2>1. Owned'
    BY <1>2, ReadFrameOwn DEF OwnInv
  <2>2. /\ ledger' = ledger /\ vpc'[v] # "remove"
        /\ \A u \in Validators \ {v} : vpc'[u] = vpc[u] /\ vblk'[u] = vblk[u]
    BY <1>2 DEF ReadFrame, TypeInv, TypeOK, ValidatorTypeOK
  <2>3. Stored'
    BY <2>2, StoredLeft DEF OwnInv
  <2> QED
    BY <2>1, <2>3 DEF OwnInv
<1>3. CASE ReadGarbage(v)
  <2>1. PICK k \in 1..Len(pipe) :
          Misread({v}, k, {j \in 1..k : pipe[j] # Garbage /\ ~pipe[j].whole})
    BY <1>3 DEF ReadGarbage
  <2> QED
    BY <1>3, <2>1, MisreadOwn DEF ReadGarbage, poolVars, genVars, minerVars
<1>4. CASE AppendBlock(v)
  BY <1>4, AppendOwn
<1>5. CASE PrevMismatch(v) \/ TxMissing(v) \/ RemoveTxs(v) \/ GiveBack(v)
  <2>1. PICK valid : Report(v, valid)
    BY <1>5 DEF PrevMismatch, TxMissing, RemoveTxs, GiveBack
  <2>2. UNCHANGED <<slotTx, counter, mblk, pipe, ledger>>
    BY <1>5 DEF PrevMismatch, TxMissing, RemoveTxs, GiveBack, poolVars,
       genVars, minerVars
  <2>3. empty' \in SUBSET Slot
    BY <1>5, ValidatorType DEF ValidatorNext, TypeInv, TypeOK, PoolTypeOK
  <2>4. \A i \in Slot \ empty' :
          i \in Available \/ slotTx[i] \in Held(ValidatorPlace(v))
    <3>1. CASE PrevMismatch(v) \/ RemoveTxs(v)
      BY <3>1 DEF PrevMismatch, RemoveTxs, poolVars, Available
    <3>2. CASE TxMissing(v)
      <4>1. vblk[v] \in Block /\ Held(ValidatorPlace(v)) = TxsOf(vblk[v])
        BY <3>2, HeldAt
        DEF TxMissing, CheckPc, TypeInv, TypeOK, ValidatorTypeOK
      <4>2. PICK k \in 1..TxsPerBlock :
              empty' = empty \ Holding({vblk[v].txs[j] : j \in 1..(k - 1)})
        BY <3>2 DEF TxMissing
      <4>3. {vblk[v].txs[j] : j \in 1..(k - 1)} \subseteq TxsOf(vblk[v])
        <5>1. 1..(k - 1) \subseteq 1..TxsPerBlock
          BY ConfigAssumption
        <5> QED
          BY <4>1, <5>1, TxsOfBlock
      <4> QED
        BY <4>1, <4>2, <4>3 DEF Holding, Available
    <3>3. CASE GiveBack(v)
      <4>1. Held(ValidatorPlace(v)) = TxsOf(vblk[v])
        BY <3>3, HeldAt DEF GiveBack
      <4> QED
        BY <3>3, <4>1 DEF GiveBack, Holding, Available
    <3> QED
      BY <1>5, <3>1, <3>2, <3>3
  <2> QED
    BY <2>1, <2>2, <2>3, <2>4, ReportOwn
<1>6. CASE SendStatistics(v)
  <2>1. /\ UNCHANGED <<slotTx, empty, counter, mblk, pipe, vblk, ledger>>
        /\ vpc[v] # "remove" /\ vpc'[v] # "remove"
        /\ \A u \in Validators \ {v} : vpc'[u] = vpc[u]
    BY <1>6 DEF SendStatistics, poolVars, genVars, minerVars, TypeInv, TypeOK,
       ValidatorTypeOK
  <2>2. Stored'
    BY <2>1, StoredLeft DEF OwnInv
  <2>3. Held(ValidatorPlace(v))' \subseteq Held(ValidatorPlace(v))
    BY <2>1, HeldAt, HeldAtNext
  <2>4. Owned'
    BY <2>1, <2>3, ReleaseOwn
    DEF OwnInv, Available, TypeInv, TypeOK, PoolTypeOK
  <2> QED
    BY <2>2, <2>4 DEF OwnInv
<1> QED
  BY <1>1, <1>2, <1>3, <1>4, <1>5, <1>6 DEF ValidatorNext

LEMMA SharedOwn ==
  ASSUME TypeInv, OwnInv,
         \/ \E c \in Children : Fork(c)
         \/ \E V \in SUBSET Validators : ReadTorn(V)
         \/ StatReceive
  PROVE  OwnInv'
<1>1. ASSUME NEW c \in Children, Fork(c) PROVE OwnInv'
  <2>1. /\ UNCHANGED <<slotTx, empty, counter, mblk, pipe, vblk, ledger>>
        /\ \A v \in Validators :
             \/ vpc'[v] = vpc[v]
             \/ vpc[v] # "remove" /\ vpc'[v] # "remove"
    BY <1>1 DEF Fork, poolVars, genVars, minerVars, TypeInv, TypeOK,
       ValidatorTypeOK
  <2>2. Stored'
    BY <2>1, StoredLeft DEF OwnInv
  <2>3. \A v \in Validators :
          Held(ValidatorPlace(v))' \subseteq Held(ValidatorPlace(v))
    <3> SUFFICES ASSUME NEW v \in Validators
                 PROVE  Held(ValidatorPlace(v))' = Held(ValidatorPlace(v))
      OBVIOUS
    <3> QED
      BY <2>1, HeldAt, HeldAtNext
  <2>4. /\ \A m \in Miners : Held(MinerPlace(m))' = Held(MinerPlace(m))
        /\ \A k \in Nat : /\ Held(PipePlace(k))' = Held(PipePlace(k))
                          /\ Held(LedgerPlace(k))' = Held(LedgerPlace(k))
    BY <2>1 DEF Held, MinerPlace, PipePlace, LedgerPlace
  <2>5. \A p \in Place : Held(p)' \subseteq Held(p)
    BY <2>3, <2>4 DEF Place
  <2>6. Owned'
    BY <2>1, <2>5, StayPut
    DEF OwnInv, Available, TypeInv, TypeOK, PoolTypeOK
  <2> QED
    BY <2>2, <2>6 DEF OwnInv
<1>2. ASSUME NEW V \in SUBSET Validators, ReadTorn(V)
      PROVE  OwnInv'
  <2>1. PICK k \in 1..Len(pipe) :
          Misread(V, k, {j \in 1..k : pipe[j] # Garbage})
    BY <1>2 DEF ReadTorn
  <2> QED
    BY <1>2, <2>1, MisreadOwn DEF ReadTorn, poolVars, genVars, minerVars
<1>3. CASE StatReceive
  <2>1. UNCHANGED <<slotTx, empty, counter, mblk, pipe, vpc, vblk, ledger>>
    BY <1>3 DEF StatReceive, poolVars, genVars, minerVars, valVars
  <2>2. \A p \in Place : Held(p)' = Held(p)
    BY <2>1 DEF Held
  <2>3. empty' \in SUBSET Slot
    BY <2>1 DEF TypeInv, TypeOK, PoolTypeOK
  <2> QED
    BY <2>1, <2>2, <2>3, StayPut, StoredKept DEF OwnInv, Available
<1> QED
  BY <1>1, <1>2, <1>3

LEMMA NextOwn == TypeInv /\ OwnInv /\ [Next]_vars => OwnInv'
<1> SUFFICES ASSUME TypeInv, OwnInv, [Next]_vars PROVE OwnInv'
  OBVIOUS
<1>1. CASE Next
  BY <1>1, GenOwn, MinerOwn, ValidatorOwn, SharedOwn DEF Next
<1>2. CASE UNCHANGED vars
  <2>1. \A p \in Place : Held(p)' = Held(p)
    BY <1>2 DEF vars, Held
  <2>2. empty' \in SUBSET Slot
    BY <1>2 DEF vars, TypeInv, TypeOK, PoolTypeOK
  <2> QED
    BY <1>2, <2>1, <2>2, StayPut, StoredKept DEF OwnInv, Available, vars
<1> QED
  BY <1>1, <1>2

LEMMA OwnInvariant == Spec => [](TypeInv /\ OwnInv)
<1>1. Init => TypeInv /\ OwnInv
  BY InitType, InitOwn
<1>2. TypeInv /\ OwnInv /\ [Next]_vars => (TypeInv /\ OwnInv)'
  BY NextType, NextOwn
<1> QED
  BY <1>1, <1>2, PTL DEF Spec

\* No transaction is ever in two blocks of the ledger, for any number of
\* generators, miners and validators and any sizes of pool, block and ledger.
THEOREM NoDoubleInclusionCorrect == Spec => []NoDoubleInclusion
<1>1. TypeInv /\ OwnInv => NoDoubleInclusion
  <2> SUFFICES ASSUME TypeInv, OwnInv,
                      NEW j \in 1..Len(ledger), NEW k \in 1..Len(ledger), j # k
               PROVE  TxsOf(ledger[j]) \cap TxsOf(ledger[k]) = {}
    BY DEF NoDoubleInclusion
  <2>1. /\ LedgerPlace(j) \in Place /\ LedgerPlace(k) \in Place
        /\ LedgerPlace(j) # LedgerPlace(k)
    BY PlacesDiffer DEF Place, TypeInv, TypeOK, ChannelTypeOK
  <2> QED
    BY <2>1, HeldAt DEF OwnInv, Owned, OnePlace
<1> QED
  BY <1>1, OwnInvariant, PTL

\* What a miner can select is in no block that is being mined, sent, checked
\* or that the ledger holds, so no transaction is ever mined twice at a time.
THEOREM AvailableNotInFlightCorrect == Spec => []AvailableNotInFlight
<1>1. TypeInv /\ OwnInv => AvailableNotInFlight
  <2> SUFFICES ASSUME TypeInv, OwnInv, NEW i \in Available
               PROVE  /\ slotTx[i] # NoTx
                      /\ \A m \in Miners : slotTx[i] \notin TxsOf(mblk[m])
                      /\ \A k \in 1..Len(pipe) :
                           slotTx[i] \notin FrameTxs(pipe[k])
                      /\ \A v \in Validators : slotTx[i] \notin TxsOf(vblk[v])
                      /\ \A k \in 1..Len(ledger) :
                           slotTx[i] \notin TxsOf(ledger[k])
    BY DEF AvailableNotInFlight
  <2>1. \A p \in Place : slotTx[i] \notin Held(p)
    BY DEF OwnInv, Owned, AvailableFree
  <2>2. slotTx[i] # NoTx
    BY DEF TypeInv, UsedSlotsHold
  <2>3. \A m \in Miners : slotTx[i] \notin TxsOf(mblk[m])
    BY <2>1, HeldAt DEF Place
  <2>4. \A k \in 1..Len(pipe) : slotTx[i] \notin FrameTxs(pipe[k])
    <3>1. \A k \in 1..Len(pipe) : PipePlace(k) \in Place
      BY DEF Place, TypeInv, TypeOK, ChannelTypeOK
    <3> QED
      BY <2>1, <3>1, HeldAt
  <2>5. \A k \in 1..Len(ledger) : slotTx[i] \notin TxsOf(ledger[k])
    <3>1. \A k \in 1..Len(ledger) : LedgerPlace(k) \in Place
      BY DEF Place, TypeInv, TypeOK, ChannelTypeOK
    <3> QED
      BY <2>1, <3>1, HeldAt
  <2>6. \A v \in Validators : slotTx[i] \notin TxsOf(vblk[v])
    <3> SUFFICES ASSUME NEW v \in Validators
                 PROVE  slotTx[i] \notin TxsOf(vblk[v])
      OBVIOUS
    <3>1. CASE vpc[v] = "remove"
      BY <2>5, <3>1 DEF OwnInv, Stored
    <3>2. CASE vpc[v] # "remove"
      BY <2>1, <3>2, HeldAt DEF Place
    <3> QED
      BY <3>1, <3>2
  <2> QED
    BY <2>2, <2>3, <2>4, <2>5, <2>6
<1> QED
  BY <1>1, OwnInvariant, PTL
=============================================================================
