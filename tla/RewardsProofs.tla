---------------------------- MODULE RewardsProofs -----------------------------
(***************************************************************************)
(* Difficulty and worth, for any rewards, ages, limits and numbers of      *)
(* processes.  What a miner finds with the maximum reward of its block,    *)
(* verify_nonce accepts from the copy that went through the pipe.  What a  *)
(* block pays for a transaction, the transaction is worth in the pool as   *)
(* long as the block may be given up, and an available one is worth its    *)
(* first reward and its age: a transaction is at one place at a time.      *)
(***************************************************************************)
EXTENDS Rewards, SequenceTheorems, TLAPS

BlockTypeOK ==
  /\ count \in 0..MaxTx /\ now \in Nat
  /\ pool \in [Slot -> Entry]
  /\ \A i \in Available : pool[i].id # 0
  /\ mpc \in [Miners -> {"wait", "mine", "retry", "send"}]
  /\ mblk \in [Miners -> Block \cup {NoBlock}]
  /\ \A m \in Miners : mblk[m] = NoBlock <=> mpc[m] = "wait"
  /\ pipe \in Seq(Block)
  /\ vpc \in [Validators -> {"off", "loop", "ageing", "exited"} \cup CheckPc]
  /\ vblk \in [Validators -> Block \cup {NoBlock}]
  /\ \A v \in Validators : vblk[v] # NoBlock <=> vpc[v] \in CheckPc
  /\ ledger \in Seq(Block)

\* Every block that has been mined verifies, wherever it is.
Verified ==
  /\ \A m \in Miners : mpc[m] = "send" => Verify(mblk[m])
  /\ \A k \in 1..Len(pipe) : Verify(pipe[k])
  /\ \A v \in Validators : vpc[v] \in CheckPc => Verify(vblk[v])
  /\ \A k \in 1..Len(ledger) : Verify(ledger[k])

MinedInv == BlockTypeOK /\ Verified

\* The difficulty of a block depends on its transactions alone.
LEMMA SameDifficulty ==
  ASSUME NEW a, NEW b, a.txs = b.txs
  PROVE  MaxReward(a) = MaxReward(b)
BY DEF MaxReward

LEMMA InitMined == Init => MinedInv
<1> SUFFICES ASSUME Init PROVE MinedInv
  OBVIOUS
<1>1. BlockTypeOK
  <2>1. count \in 0..MaxTx /\ now \in Nat
    BY RewardAssumption DEF Init
  <2>2. pool \in [Slot -> Entry] /\ Available = {}
    <3>1. Free \in Entry /\ Free.empty = TRUE
      BY RewardAssumption DEF Free, Entry, Reward
    <3> QED
      BY <3>1 DEF Init, Available
  <2>3. /\ mpc \in [Miners -> {"wait", "mine", "retry", "send"}]
        /\ mblk \in [Miners -> Block \cup {NoBlock}]
        /\ \A m \in Miners : mblk[m] = NoBlock <=> mpc[m] = "wait"
    BY DEF Init
  <2>4. /\ vpc \in [Validators -> {"off", "loop", "ageing", "exited"}
                                     \cup CheckPc]
        /\ vblk \in [Validators -> Block \cup {NoBlock}]
        /\ \A v \in Validators : vblk[v] # NoBlock <=> vpc[v] \in CheckPc
    BY DEF Init, CheckPc
  <2>5. pipe \in Seq(Block) /\ ledger \in Seq(Block)
    BY DEF Init
  <2> QED
    BY <2>1, <2>2, <2>3, <2>4, <2>5 DEF BlockTypeOK
<1>2. Verified
  BY DEF Init, Verified, CheckPc
<1> QED
  BY <1>1, <1>2 DEF MinedInv

\* A step that moves no block keeps what is true of blocks.
LEMMA BlocksKept ==
  ASSUME MinedInv, UNCHANGED <<mpc, mblk, pipe, vpc, vblk, ledger>>,
         count' \in 0..MaxTx, now' \in Nat, pool' \in [Slot -> Entry],
         \A i \in Available' : pool'[i].id # 0
  PROVE  MinedInv'
<1>1. BlockTypeOK'
  BY DEF MinedInv, BlockTypeOK
<1>2. Verified'
  BY DEF MinedInv, Verified
<1> QED
  BY <1>1, <1>2 DEF MinedInv

LEMMA TickMined ==
  ASSUME MinedInv, Tick
  PROVE  MinedInv'
<1>1. /\ UNCHANGED <<mpc, mblk, pipe, vpc, vblk, ledger, count, pool>>
      /\ now' = now + 1
  BY DEF Tick, poolVars, minerVars, valVars
<1> QED
  BY <1>1, BlocksKept DEF MinedInv, BlockTypeOK, Available

\* Setting the flags of slots that hold a transaction keeps the typing.
LEMMA MarkedType ==
  ASSUME BlockTypeOK, NEW S \in SUBSET Slot, NEW flag \in BOOLEAN,
         pool' = Marked(S, flag),
         flag = FALSE => \A i \in S : pool[i].id # 0
  PROVE  pool' \in [Slot -> Entry] /\ \A i \in Available' : pool'[i].id # 0
<1>1. \A i \in Slot : pool[i] \in Entry
  BY DEF BlockTypeOK
<1>2. \A i \in Slot :
        /\ pool'[i] \in Entry /\ pool'[i].id = pool[i].id
        /\ pool'[i].empty = IF i \in S THEN flag ELSE pool[i].empty
  BY <1>1 DEF Marked, Entry
<1>3. \A i \in Available' : i \in Slot /\ (i \in Available \/ i \in S)
  BY <1>2 DEF Available
<1>5. flag = TRUE => \A i \in Available' : i \in Available
  BY <1>2 DEF Available
<1>4. pool' \in [Slot -> Entry]
  BY <1>2 DEF Marked
<1> QED
  BY <1>2, <1>3, <1>4, <1>5 DEF BlockTypeOK

LEMMA BlockIds ==
  ASSUME NEW b \in Block, NEW k \in Nth
  PROVE  b.txs[k].id # 0 /\ b.txs[k] \in [id : 1..MaxTx, reward : Reward]
BY RewardAssumption DEF Block, Nth

LEMMA AddMined ==
  ASSUME MinedInv, TxAdd
  PROVE  MinedInv'
<1> USE DEF MinedInv, BlockTypeOK
<1>1. PICK i \in Slot, base \in BaseRewards :
        pool' = [pool EXCEPT ![i] = EntryFor(count + 1, base, i)]
  BY DEF TxAdd
<1>2. count' = count + 1 /\ count' \in 0..MaxTx /\ count + 1 # 0
  BY RewardAssumption DEF TxAdd
<1>3. EntryFor(count + 1, base, i) \in Entry
  BY <1>2, RewardAssumption DEF EntryFor, Entry, Reward
<1>4. pool' \in [Slot -> Entry] /\ \A j \in Available' : pool'[j].id # 0
  BY <1>1, <1>2, <1>3 DEF Available, EntryFor
<1>5. UNCHANGED <<now, mpc, mblk, pipe, vpc, vblk, ledger>>
  BY DEF TxAdd, minerVars, valVars
<1> QED
  BY <1>2, <1>4, <1>5, BlocksKept

LEMMA SelectMined ==
  ASSUME MinedInv, NEW m \in Miners, Select(m)
  PROVE  MinedInv'
<1>1. PICK s \in [Nth -> Available] :
        /\ mblk' = [mblk EXCEPT ![m] =
             [miner |-> m, zeros |-> 0,
              txs |-> [k \in Nth |-> [id |-> pool[s[k]].id,
                                      reward |-> pool[s[k]].reward]]]]
        /\ pool' = Marked({s[k] : k \in Nth}, TRUE)
  BY DEF Select
<1>2. /\ UNCHANGED <<now, count, pipe, vpc, vblk, ledger>>
      /\ mpc' = [mpc EXCEPT ![m] = "mine"]
  BY DEF Select, valVars
<1>3. pool' \in [Slot -> Entry] /\ \A i \in Available' : pool'[i].id # 0
  <2>1. {s[k] : k \in Nth} \in SUBSET Slot
    BY DEF Available
  <2> QED
    BY <1>1, <2>1, MarkedType DEF MinedInv
<1>4. mblk'[m] \in Block /\ \A n \in Miners \ {m} : mblk'[n] = mblk[n]
  <2>1. \A k \in Nth : /\ pool[s[k]].id \in 1..MaxTx
                       /\ pool[s[k]].reward \in Reward
    <3>1. \A k \in Nth : pool[s[k]] \in Entry /\ pool[s[k]].id # 0
      BY DEF MinedInv, BlockTypeOK, Available
    <3> QED
      BY <3>1, RewardAssumption DEF Entry
  <2> QED
    BY <1>1, <2>1 DEF MinedInv, BlockTypeOK, Block
<1>5. BlockTypeOK'
  BY <1>1, <1>2, <1>3, <1>4, ValueAssumption DEF MinedInv, BlockTypeOK
<1>6. Verified'
  BY <1>2, <1>4 DEF MinedInv, BlockTypeOK, Verified
<1> QED
  BY <1>5, <1>6 DEF MinedInv

\* The hash that proof_of_work stops at satisfies verify_nonce.
LEMMA FoundMined ==
  ASSUME MinedInv, NEW m \in Miners, Mined(m)
  PROVE  MinedInv'
<1>1. PICK hash \in [0..(MaxOps - 1) -> Zeros], n \in 0..(MaxOps - 1) :
        /\ Finds(mblk[m], hash, n)
        /\ mblk' = [mblk EXCEPT ![m].zeros = hash[n]]
  BY DEF Mined
<1>2. /\ UNCHANGED <<now, count, pool, pipe, vpc, vblk, ledger>>
      /\ mpc' = [mpc EXCEPT ![m] = "send"]
      /\ mblk[m] \in Block
  BY DEF Mined, poolVars, valVars, MinedInv, BlockTypeOK
<1>3. /\ mblk'[m] \in Block /\ mblk'[m].txs = mblk[m].txs
      /\ mblk'[m].zeros = hash[n]
      /\ \A o \in Miners \ {m} : mblk'[o] = mblk[o]
  <2>1. hash[n] \in Nat
    BY RewardAssumption
  <2> QED
    BY <1>1, <1>2, <2>1 DEF MinedInv, BlockTypeOK, Block
<1>4. PICK b : b = mblk'[m]
  OBVIOUS
<1>5. Verify(b)
  <2>1. MaxReward(b) = MaxReward(mblk[m])
    BY <1>3, <1>4, SameDifficulty
  <2> QED
    BY <1>1, <1>3, <1>4, <2>1 DEF Verify, Finds
<1>6. BlockTypeOK'
  BY <1>1, <1>2, <1>3, ValueAssumption DEF MinedInv, BlockTypeOK, Available
<1>7. Verified'
  BY <1>2, <1>3, <1>4, <1>5 DEF MinedInv, BlockTypeOK, Verified
<1> QED
  BY <1>6, <1>7 DEF MinedInv

LEMMA RestoreMined ==
  ASSUME MinedInv, NEW m \in Miners, Restore(m), mpc[m] # "wait",
         UNCHANGED <<now, count, pipe, vpc, vblk, ledger>>
  PROVE  MinedInv'
<1>1. mblk[m] \in Block
  BY DEF MinedInv, BlockTypeOK
<1>2. pool' \in [Slot -> Entry] /\ \A i \in Available' : pool'[i].id # 0
  <2>1. \A i \in Slot : Holds(i, mblk[m]) => pool[i].id # 0
    BY <1>1, BlockIds DEF Holds
  <2> QED
    BY <2>1, MarkedType DEF MinedInv, Restore
<1>3. BlockTypeOK'
  BY <1>2 DEF Restore, MinedInv, BlockTypeOK
<1>4. Verified'
  BY DEF Restore, MinedInv, BlockTypeOK, Verified
<1> QED
  BY <1>3, <1>4 DEF MinedInv

LEMMA MinerMined ==
  ASSUME MinedInv, NEW m \in Miners, MinerNext(m)
  PROVE  MinedInv'
<1>1. CASE TooFew(m)
  <2>1. UNCHANGED <<now, count, pool, mpc, mblk, pipe, vpc, vblk, ledger>>
    BY <1>1 DEF TooFew, minerVars, valVars
  <2> QED
    BY <2>1, BlocksKept DEF MinedInv, BlockTypeOK, Available
<1>2. CASE Select(m)
  BY <1>2, SelectMined
<1>3. CASE Mined(m)
  BY <1>3, FoundMined
<1>4. CASE Exhausted(m)
  <2>1. /\ UNCHANGED <<now, count, pool, mblk, pipe, vpc, vblk, ledger>>
        /\ mpc[m] = "mine" /\ mpc' = [mpc EXCEPT ![m] = "retry"]
    BY <1>4 DEF Exhausted, poolVars, valVars
  <2>2. BlockTypeOK'
    BY <2>1 DEF MinedInv, BlockTypeOK, Available
  <2>3. Verified'
    BY <2>1 DEF MinedInv, BlockTypeOK, Verified
  <2> QED
    BY <2>2, <2>3 DEF MinedInv
<1>5. CASE GiveUp(m) \/ SendFails(m)
  BY <1>5, RestoreMined DEF GiveUp, SendFails, valVars
<1>6. CASE SendBlock(m)
  <2>1. /\ UNCHANGED <<now, count, pool, vpc, vblk, ledger>>
        /\ mpc[m] = "send" /\ mpc' = [mpc EXCEPT ![m] = "wait"]
        /\ mblk' = [mblk EXCEPT ![m] = NoBlock]
        /\ pipe' = Append(pipe, mblk[m])
    BY <1>6 DEF SendBlock, poolVars, valVars
  <2>2. pipe \in Seq(Block) /\ mblk[m] \in Block /\ Verify(mblk[m])
    BY <2>1 DEF MinedInv, BlockTypeOK, Verified
  <2>3. /\ pipe' \in Seq(Block) /\ Len(pipe') = Len(pipe) + 1
        /\ \A k \in 1..Len(pipe) : pipe'[k] = pipe[k]
        /\ pipe'[Len(pipe) + 1] = mblk[m]
    BY <2>1, <2>2, AppendProperties
  <2>4. \A k \in 1..Len(pipe') : Verify(pipe'[k])
    BY <2>2, <2>3 DEF MinedInv, Verified
  <2>5. BlockTypeOK'
    BY <2>1, <2>3 DEF MinedInv, BlockTypeOK, Available
  <2>6. Verified'
    BY <2>1, <2>4 DEF MinedInv, BlockTypeOK, Verified
  <2> QED
    BY <2>5, <2>6 DEF MinedInv
<1> QED
  BY <1>1, <1>2, <1>3, <1>4, <1>5, <1>6 DEF MinerNext

\* A validator goes on with the block it has, or with none.
LEMMA ValidatorMoves ==
  ASSUME MinedInv, NEW v \in Validators, NEW to, To(v, vpc[v], to),
         to \in {"loop", "ageing", "exited"} \cup CheckPc,
         to \in CheckPc <=> vpc[v] \in CheckPc,
         UNCHANGED <<now, count, mpc, mblk, pipe, vblk>>,
         ledger' \in Seq(Block),
         \A k \in 1..Len(ledger') : Verify(ledger'[k]),
         pool' \in [Slot -> Entry], \A i \in Available' : pool'[i].id # 0
  PROVE  MinedInv'
<1>1. BlockTypeOK'
  BY DEF To, MinedInv, BlockTypeOK
<1>2. Verified'
  BY DEF To, MinedInv, BlockTypeOK, Verified
<1> QED
  BY <1>1, <1>2 DEF MinedInv

LEMMA AgedType ==
  ASSUME BlockTypeOK, pool' = Aged
  PROVE  pool' \in [Slot -> Entry] /\ \A i \in Available' : pool'[i].id # 0
<1>1. \A i \in Slot : /\ pool[i] \in Entry
                      /\ Older(pool[i]) \in Entry
                      /\ Older(pool[i]).id = pool[i].id
                      /\ Older(pool[i]).empty = pool[i].empty
  <2> SUFFICES ASSUME NEW e \in Entry
               PROVE  /\ Older(e) \in Entry /\ Older(e).id = e.id
                      /\ Older(e).empty = e.empty
    BY DEF BlockTypeOK
  <2>1. PICK r : r = IF (e.age + 1) % AgeStep = 0 THEN e.reward + 1
                                                  ELSE e.reward
    OBVIOUS
  <2>2. Older(e) = [e EXCEPT !.age = e.age + 1, !.reward = r]
    BY <2>1 DEF Older
  <2>3. r \in Nat
    BY <2>1 DEF Entry, Reward
  <2>4. Older(e) = [id |-> e.id, base |-> e.base, reward |-> r,
                    made |-> e.made, age |-> e.age + 1, empty |-> e.empty]
    BY <2>2 DEF Entry
  <2> QED
    BY <2>3, <2>4 DEF Entry, Reward
<1>2. \A i \in Slot : /\ pool'[i] \in Entry /\ pool'[i].id = pool[i].id
                      /\ pool'[i].empty = pool[i].empty
  BY <1>1 DEF Aged
<1>3. pool' \in [Slot -> Entry]
  BY <1>2 DEF Aged
<1> QED
  BY <1>2, <1>3 DEF BlockTypeOK, Available

LEMMA ValidatorMined ==
  ASSUME MinedInv, NEW v \in Validators, ValidatorNext(v)
  PROVE  MinedInv'
<1>1. CASE \/ IdlePass(v) \/ ChildExit(v) \/ ReadTime(v) \/ Accept(v)
           \/ Reject(v) \/ RoomTest(v)
  <2>1. /\ UNCHANGED <<now, count, pool, mpc, mblk, pipe, vblk, ledger>>
        /\ \E to \in {"loop", "ageing", "exited"} \cup CheckPc :
             To(v, vpc[v], to) /\ (to \in CheckPc <=> vpc[v] \in CheckPc)
    BY <1>1 DEF IdlePass, ChildExit, ReadTime, Accept, Reject, RoomTest, Go, To,
       CheckPc, poolVars, minerVars
  <2> QED
    BY <2>1, ValidatorMoves DEF MinedInv, BlockTypeOK, Verified, Available
<1>2. CASE AgePool(v)
  <2>1. /\ UNCHANGED <<now, count, mpc, mblk, pipe, vblk, ledger>>
        /\ pool' = Aged /\ To(v, vpc[v], "loop") /\ vpc[v] \notin CheckPc
    BY <1>2 DEF AgePool, To, CheckPc, minerVars
  <2>2. "loop" \notin CheckPc
    BY DEF CheckPc
  <2> QED
    BY <2>1, <2>2, AgedType, ValidatorMoves DEF MinedInv, BlockTypeOK, Verified
<1>3. CASE ReadBlock(v)
  <2>1. /\ UNCHANGED <<now, count, pool, mpc, mblk, ledger>>
        /\ pipe # <<>> /\ pipe' = Tail(pipe) /\ pipe \in Seq(Block)
        /\ vblk' = [vblk EXCEPT ![v] = Head(pipe)]
        /\ vpc' = [vpc EXCEPT ![v] = "check"]
    BY <1>3 DEF ReadBlock, To, poolVars, minerVars, MinedInv, BlockTypeOK
  <2>2. /\ Head(pipe) \in Block /\ Head(pipe) = pipe[1] /\ 1 \in 1..Len(pipe)
        /\ pipe' \in Seq(Block)
        /\ \A k \in 1..Len(pipe') : \E j \in 1..Len(pipe) : pipe'[k] = pipe[j]
    BY <2>1
  <2>3. Verify(Head(pipe)) /\ \A k \in 1..Len(pipe') : Verify(pipe'[k])
    BY <2>2 DEF MinedInv, Verified
  <2>4. BlockTypeOK'
    BY <2>1, <2>2, ValueAssumption DEF MinedInv, BlockTypeOK, Available, CheckPc
  <2>5. Verified'
    BY <2>1, <2>3 DEF MinedInv, BlockTypeOK, Verified
  <2> QED
    BY <2>4, <2>5 DEF MinedInv
<1>4. CASE RejectMissing(v) \/ GiveBack(v)
  <2>1. /\ UNCHANGED <<now, count, mpc, mblk, pipe, vblk, ledger>>
        /\ To(v, vpc[v], "report") /\ vpc[v] \in CheckPc
    BY <1>4 DEF RejectMissing, GiveBack, To, CheckPc, minerVars
  <2>2. vblk[v] \in Block
    BY <2>1 DEF MinedInv, BlockTypeOK
  <2>3. \E S \in SUBSET Slot : /\ pool' = Marked(S, FALSE)
                               /\ \A i \in S : pool[i].id # 0
    <3>1. CASE GiveBack(v)
      <4>1. PICK S \in SUBSET Slot : S = {i \in Slot : Holds(i, vblk[v])}
        OBVIOUS
      <4>2. \A i \in S : pool[i].id # 0
        BY <2>2, <4>1, BlockIds DEF Holds
      <4>3. pool' = Marked(S, FALSE)
        BY <3>1, <4>1 DEF GiveBack
      <4> QED
        BY <4>2, <4>3
    <3>2. CASE RejectMissing(v)
      <4>1. PICK k \in Nth :
              pool' = Marked({i \in Slot : \E j \in 1..(k - 1) :
                                pool[i].id = vblk[v].txs[j].id}, FALSE)
        BY <3>2 DEF RejectMissing
      <4>2. \A j \in 1..(k - 1) : j \in Nth
        BY RewardAssumption DEF Nth
      <4>3. PICK S \in SUBSET Slot :
              S = {i \in Slot : \E j \in 1..(k - 1) :
                     pool[i].id = vblk[v].txs[j].id}
        OBVIOUS
      <4>4. \A i \in S : pool[i].id # 0
        BY <2>2, <4>2, <4>3, BlockIds
      <4> QED
        BY <4>1, <4>3, <4>4
    <3> QED
      BY <1>4, <3>1, <3>2
  <2>4. pool' \in [Slot -> Entry] /\ \A i \in Available' : pool'[i].id # 0
    BY <2>3, MarkedType DEF MinedInv
  <2>5. "report" \in CheckPc
    BY DEF CheckPc
  <2> QED
    BY <2>1, <2>4, <2>5, ValidatorMoves DEF MinedInv, BlockTypeOK, Verified
<1>5. CASE AppendBlock(v)
  <2>1. /\ UNCHANGED <<now, count, pool, mpc, mblk, pipe, vblk>>
        /\ ledger' = Append(ledger, vblk[v])
        /\ To(v, vpc[v], "remove") /\ vpc[v] \in CheckPc
    BY <1>5 DEF AppendBlock, To, CheckPc, poolVars, minerVars
  <2>2. ledger \in Seq(Block) /\ vblk[v] \in Block /\ Verify(vblk[v])
    BY <2>1 DEF MinedInv, BlockTypeOK, Verified
  <2>3. /\ ledger' \in Seq(Block) /\ Len(ledger') = Len(ledger) + 1
        /\ \A k \in 1..Len(ledger) : ledger'[k] = ledger[k]
        /\ ledger'[Len(ledger) + 1] = vblk[v]
    BY <2>1, <2>2, AppendProperties
  <2>4. \A k \in 1..Len(ledger') : Verify(ledger'[k])
    BY <2>2, <2>3 DEF MinedInv, Verified
  <2>5. "remove" \in CheckPc
    BY DEF CheckPc
  <2>6. pool' \in [Slot -> Entry] /\ \A i \in Available' : pool'[i].id # 0
    BY <2>1 DEF MinedInv, BlockTypeOK, Available
  <2> QED
    BY <2>1, <2>3, <2>4, <2>5, <2>6, ValidatorMoves
<1>6. CASE RemoveTxs(v)
  <2>1. /\ UNCHANGED <<now, count, mpc, mblk, pipe, vblk, ledger>>
        /\ pool' = [i \in Slot |-> IF Holds(i, vblk[v])
                      THEN [pool[i] EXCEPT !.empty = TRUE, !.age = 0]
                      ELSE pool[i]]
        /\ To(v, vpc[v], "report") /\ vpc[v] \in CheckPc
    BY <1>6 DEF RemoveTxs, To, CheckPc, minerVars
  <2>2. pool' \in [Slot -> Entry] /\ \A i \in Available' : pool'[i].id # 0
    <3>1. \A i \in Slot : pool[i] \in Entry
      BY DEF MinedInv, BlockTypeOK
    <3>2. \A i \in Slot :
            /\ pool'[i] \in Entry /\ pool'[i].id = pool[i].id
            /\ pool'[i].empty = TRUE \/ pool'[i].empty = pool[i].empty
      BY <2>1, <3>1 DEF Entry
    <3>3. \A i \in Available' : i \in Available
      BY <3>2 DEF Available
    <3>4. pool' \in [Slot -> Entry]
      BY <2>1, <3>2
    <3> QED
      BY <3>2, <3>3, <3>4 DEF MinedInv, BlockTypeOK, Available
  <2>3. "report" \in CheckPc
    BY DEF CheckPc
  <2> QED
    BY <2>1, <2>2, <2>3, ValidatorMoves DEF MinedInv, BlockTypeOK, Verified
<1>7. CASE SendStatistics(v)
  <2>1. /\ UNCHANGED <<now, count, pool, mpc, mblk, pipe, ledger>>
        /\ vblk' = [vblk EXCEPT ![v] = NoBlock]
        /\ vpc' = [vpc EXCEPT ![v] = "loop"]
    BY <1>7 DEF SendStatistics, To, poolVars, minerVars
  <2>2. BlockTypeOK'
    BY <2>1 DEF MinedInv, BlockTypeOK, Available, CheckPc
  <2>3. Verified'
    BY <2>1 DEF MinedInv, BlockTypeOK, Verified, CheckPc
  <2> QED
    BY <2>2, <2>3 DEF MinedInv
<1> QED
  BY <1>1, <1>2, <1>3, <1>4, <1>5, <1>6, <1>7 DEF ValidatorNext

LEMMA NextMined == MinedInv /\ [Next]_vars => MinedInv'
<1> SUFFICES ASSUME MinedInv, [Next]_vars PROVE MinedInv'
  OBVIOUS
<1>1. CASE \E c \in Children : Fork(c)
  <2>1. PICK c \in Children : Fork(c)
    BY <1>1
  <2>2. /\ UNCHANGED <<now, count, pool, mpc, mblk, pipe, vblk, ledger>>
        /\ vpc[c] = "off" /\ vpc' = [vpc EXCEPT ![c] = "loop"]
    BY <2>1 DEF Fork, poolVars, minerVars
  <2>3. BlockTypeOK'
    BY <2>2 DEF MinedInv, BlockTypeOK, Available, CheckPc
  <2>4. Verified'
    BY <2>2 DEF MinedInv, BlockTypeOK, Verified, CheckPc
  <2> QED
    BY <2>3, <2>4 DEF MinedInv
<1>2. CASE StatReceive \/ UNCHANGED vars
  <2>1. UNCHANGED <<now, count, pool, mpc, mblk, pipe, vpc, vblk, ledger>>
    BY <1>2 DEF StatReceive, vars, poolVars, minerVars, valVars
  <2> QED
    BY <2>1, BlocksKept DEF MinedInv, BlockTypeOK, Available
<1> QED
  BY <1>1, <1>2, TickMined, AddMined, MinerMined, ValidatorMined DEF Next

\* A block that was mined passes verify_nonce wherever it is, for any rewards
\* that age has added before it was selected and any number of operations a
\* proof of work may take.
THEOREM MinedVerifiesCorrect == Spec => []MinedVerifies
<1>1. MinedInv => MinedVerifies
  <2> SUFFICES ASSUME MinedInv, NEW b \in Sent PROVE Verify(b)
    BY DEF MinedVerifies
  <2> QED
    BY DEF Sent, MinedInv, Verified
<1> QED
  BY <1>1, InitMined, NextMined, PTL DEF Spec

-----------------------------------------------------------------------------
(***************************************************************************)
(* What a transaction is worth.  A block in flight lies with a miner, in   *)
(* the pipe or with a validator that may still return it; two of them      *)
(* share no transaction, and what a miner may select is in none.  So a     *)
(* reserved transaction does not age, and is worth what its block pays.    *)
(***************************************************************************)

MinerPlace(m) == <<"miner", m>>
PipePlace(k) == <<"pipe", k>>
ValidatorPlace(v) == <<"validator", v>>

Place == {MinerPlace(m) : m \in Miners} \cup {PipePlace(k) : k \in Nat} \cup
         {ValidatorPlace(v) : v \in Validators}

TxsOf(b) == IF b = NoBlock THEN {} ELSE {b.txs[k] : k \in Nth}

\* The copies of transactions in the block at a place.
Load(p) ==
  IF p[1] = "miner" THEN TxsOf(mblk[p[2]])
  ELSE IF p[1] = "pipe" THEN
    IF p[2] \in 1..Len(pipe) THEN TxsOf(pipe[p[2]]) ELSE {}
  ELSE IF vpc[p[2]] = "report" THEN {} ELSE TxsOf(vblk[p[2]])

OnePlace ==
  \A p, q \in Place : p # q => \A t \in Load(p), u \in Load(q) : t.id # u.id
AvailableFree ==
  \A i \in Available, p \in Place : \A t \in Load(p) : pool[i].id # t.id
LoadMade == \A p \in Place : \A t \in Load(p) : t.id <= count
SlotMade == \A i \in Slot : pool[i].id <= count
SlotUnique ==
  \A i, j \in Slot : pool[i].id = pool[j].id /\ pool[i].id # 0 => i = j

\* The copy and the slot agree on the reward.
Frozen ==
  \A p \in Place, i \in Slot : \A t \in Load(p) :
    pool[i].id = t.id => pool[i].reward = t.reward

\* A slot that holds or may again hold an available transaction.
Alive(i) ==
  i \in Available \/ \E p \in Place : \E t \in Load(p) : pool[i].id = t.id

Worth(e) == e.reward = e.base + e.age \div AgeStep
AliveWorth == \A i \in Slot : Alive(i) => Worth(pool[i])

Owned == OnePlace /\ AvailableFree /\ LoadMade /\ SlotMade /\ SlotUnique
WorthInv == Owned /\ Frozen /\ AliveWorth

LEMMA LoadAt ==
  /\ \A m : Load(MinerPlace(m)) = TxsOf(mblk[m])
  /\ \A k : Load(PipePlace(k)) =
              IF k \in 1..Len(pipe) THEN TxsOf(pipe[k]) ELSE {}
  /\ \A v : Load(ValidatorPlace(v)) =
              IF vpc[v] = "report" THEN {} ELSE TxsOf(vblk[v])
BY DEF Load, MinerPlace, PipePlace, ValidatorPlace

LEMMA LoadAtNext ==
  /\ \A m : Load(MinerPlace(m))' = TxsOf(mblk'[m])
  /\ \A k : Load(PipePlace(k))' =
              IF k \in 1..Len(pipe') THEN TxsOf(pipe'[k]) ELSE {}
  /\ \A v : Load(ValidatorPlace(v))' =
              IF vpc'[v] = "report" THEN {} ELSE TxsOf(vblk'[v])
BY DEF Load, MinerPlace, PipePlace, ValidatorPlace, TxsOf

\* Equal places are of one kind and have one index.
LEMMA PlacesDiffer ==
  /\ \A m, n : MinerPlace(m) = MinerPlace(n) => m = n
  /\ \A m, n : PipePlace(m) = PipePlace(n) => m = n
  /\ \A m, n : ValidatorPlace(m) = ValidatorPlace(n) => m = n
  /\ \A m, n : /\ MinerPlace(m) # PipePlace(n)
               /\ MinerPlace(m) # ValidatorPlace(n)
               /\ PipePlace(m) # ValidatorPlace(n)
BY DEF MinerPlace, PipePlace, ValidatorPlace

LEMMA LoadType ==
  ASSUME BlockTypeOK
  PROVE  \A p \in Place : Load(p) \subseteq [id : 1..MaxTx, reward : Reward]
<1>1. \A b \in Block \cup {NoBlock} :
        TxsOf(b) \subseteq [id : 1..MaxTx, reward : Reward]
  BY BlockIds DEF TxsOf
<1>2. \A k \in 1..Len(pipe) : pipe[k] \in Block
  BY DEF BlockTypeOK
<1> QED
  BY <1>1, <1>2, LoadAt DEF Place, BlockTypeOK

\* A step that moves blocks along f, merging no two places, and makes
\* available or resets only what was in a block that is given up, keeps what
\* the transactions are worth.
LEMMA Carried ==
  ASSUME WorthInv, NEW f \in [Place -> Place], count' = count,
         \A p \in Place : Load(p)' \subseteq Load(f[p]),
         \A p, q \in Place :
           p # q /\ f[p] = f[q] => Load(p)' = {} \/ Load(q)' = {},
         \A i \in Slot : /\ pool'[i].id = pool[i].id
                         /\ pool'[i].base = pool[i].base
                         /\ pool'[i].reward = pool[i].reward,
         \A i \in Slot :
           \/ /\ pool'[i].age = pool[i].age
              /\ i \in Available' => i \in Available
           \/ /\ pool'[i].age = pool[i].age \/ i \notin Available'
              /\ \E o \in Place :
                   /\ \E t \in Load(o) : pool[i].id = t.id
                   /\ \A p \in Place : f[p] = o => Load(p)' = {}
  PROVE  WorthInv'
<1> DEFINE Freed(i) == \E o \in Place :
                         /\ \E t \in Load(o) : pool[i].id = t.id
                         /\ \A p \in Place : f[p] = o => Load(p)' = {}
<1>1. \A i \in Slot, p \in Place : \A t \in Load(p)' :
        Freed(i) => pool[i].id # t.id
  <2> SUFFICES ASSUME NEW i \in Slot, NEW p \in Place, NEW t \in Load(p)',
                      Freed(i), pool[i].id = t.id
               PROVE  FALSE
    OBVIOUS
  <2>1. t \in Load(f[p]) /\ f[p] \in Place
    OBVIOUS
  <2>2. PICK o \in Place : /\ \E u \in Load(o) : pool[i].id = u.id
                           /\ \A q \in Place : f[q] = o => Load(q)' = {}
    OBVIOUS
  <2>3. f[p] # o
    BY <2>2
  <2>4. PICK u \in Load(o) : t.id = u.id
    BY <2>2
  <2> QED
    BY <2>1, <2>3, <2>4 DEF WorthInv, Owned, OnePlace
<1>2. OnePlace'
  <2> SUFFICES ASSUME NEW p \in Place, NEW q \in Place, p # q,
                      NEW t \in Load(p)', NEW u \in Load(q)'
               PROVE  t.id # u.id
    BY DEF OnePlace
  <2>1. t \in Load(f[p]) /\ u \in Load(f[q]) /\ f[p] # f[q]
    OBVIOUS
  <2> QED
    BY <2>1 DEF WorthInv, Owned, OnePlace
<1>3. AvailableFree'
  <2> SUFFICES ASSUME NEW i \in Available', NEW p \in Place, NEW t \in Load(p)'
               PROVE  pool'[i].id # t.id
    BY DEF AvailableFree
  <2>1. i \in Slot
    BY DEF Available
  <2>2. CASE Freed(i)
    BY <1>1, <2>1, <2>2
  <2>3. CASE i \in Available
    BY <2>1, <2>3 DEF WorthInv, Owned, AvailableFree
  <2> QED
    BY <2>1, <2>2, <2>3
<1>4. LoadMade' /\ SlotMade' /\ SlotUnique'
  BY DEF WorthInv, Owned, LoadMade, SlotMade, SlotUnique
<1>5. Frozen'
  BY DEF WorthInv, Frozen
<1>6. AliveWorth'
  <2> SUFFICES ASSUME NEW i \in Slot, Alive(i)' PROVE Worth(pool'[i])
    BY DEF AliveWorth, Worth
  <2>1. Alive(i)
    BY DEF Alive
  <2>2. pool'[i].age = pool[i].age
    BY <1>1 DEF Alive
  <2> QED
    BY <2>1, <2>2 DEF WorthInv, AliveWorth, Worth
<1> QED
  BY <1>2, <1>3, <1>4, <1>5, <1>6 DEF WorthInv, Owned

\* Nothing moves; some places may give up what they have.
LEMMA Stays ==
  ASSUME WorthInv, count' = count,
         \A p \in Place : Load(p)' \subseteq Load(p),
         \A i \in Slot : /\ pool'[i].id = pool[i].id
                         /\ pool'[i].base = pool[i].base
                         /\ pool'[i].reward = pool[i].reward,
         \A i \in Slot :
           \/ /\ pool'[i].age = pool[i].age
              /\ i \in Available' => i \in Available
           \/ /\ pool'[i].age = pool[i].age \/ i \notin Available'
              /\ \E o \in Place : /\ \E t \in Load(o) : pool[i].id = t.id
                                  /\ Load(o)' = {}
  PROVE  WorthInv'
<1> DEFINE f == [p \in Place |-> p]
<1>1. f \in [Place -> Place]
  OBVIOUS
<1> QED
  BY <1>1, Carried

LEMMA MarkedSlots ==
  ASSUME BlockTypeOK, NEW S, NEW flag, pool' = Marked(S, flag)
  PROVE  \A i \in Slot :
           /\ pool'[i].id = pool[i].id /\ pool'[i].base = pool[i].base
           /\ pool'[i].reward = pool[i].reward /\ pool'[i].age = pool[i].age
           /\ pool'[i].made = pool[i].made
           /\ i \in S => pool'[i].empty = flag
           /\ i \notin S => pool'[i].empty = pool[i].empty
<1>1. \A i \in Slot : pool[i] \in Entry
  BY DEF BlockTypeOK
<1> QED
  BY <1>1 DEF Marked, Entry

\* A process gives up a block and makes some of its transactions available.
LEMMA Returned ==
  ASSUME BlockTypeOK, WorthInv, count' = count,
         \A p \in Place : Load(p)' \subseteq Load(p),
         NEW o \in Place, Load(o)' = {},
         NEW S, pool' = Marked(S, FALSE),
         \A i \in S : \E t \in Load(o) : pool[i].id = t.id
  PROVE  WorthInv'
<1>0. \A i \in Slot :
        /\ pool'[i].id = pool[i].id /\ pool'[i].base = pool[i].base
        /\ pool'[i].reward = pool[i].reward /\ pool'[i].age = pool[i].age
        /\ i \notin S => pool'[i].empty = pool[i].empty
  BY MarkedSlots
<1>1. \A i \in Slot : i \in Available' => i \in Available \/ i \in S
  BY <1>0 DEF Available
<1>2. \A i \in S : \E p \in Place : /\ \E t \in Load(p) : pool[i].id = t.id
                                   /\ Load(p)' = {}
  OBVIOUS
<1> QED
  BY <1>0, <1>1, <1>2, Stays

LEMMA InitWorth == Init => WorthInv
<1> SUFFICES ASSUME Init PROVE WorthInv
  OBVIOUS
<1>1. \A p \in Place : Load(p) = {}
  <2>1. \A m \in Miners : Load(MinerPlace(m)) = {}
    BY LoadAt DEF Init, TxsOf
  <2>2. \A v \in Validators : Load(ValidatorPlace(v)) = {}
    BY LoadAt DEF Init, TxsOf
  <2>3. \A k : Load(PipePlace(k)) = {}
    <3>1. 1..Len(pipe) = {}
      BY DEF Init
    <3> QED
      BY <3>1, LoadAt
  <2> QED
    BY <2>1, <2>2, <2>3 DEF Place
<1>2. \A i \in Slot : pool[i].id = 0 /\ i \notin Available
  BY DEF Init, Available, Free
<1> QED
  BY <1>1, <1>2 DEF Init, WorthInv, Owned, OnePlace, AvailableFree, LoadMade,
     SlotMade, SlotUnique, Frozen, AliveWorth, Alive

\* A new transaction has a number that is found nowhere; it is worth its base.
LEMMA AddWorth ==
  ASSUME BlockTypeOK, WorthInv, TxAdd
  PROVE  WorthInv'
<1>1. PICK i \in Slot, base \in BaseRewards :
        pool' = [pool EXCEPT ![i] = EntryFor(count + 1, base, i)]
  BY DEF TxAdd
<1>2. /\ pool'[i].id = count + 1 /\ Worth(pool'[i])
      /\ \A j \in Slot : j # i => pool'[j] = pool[j]
  <2>1. pool'[i] = EntryFor(count + 1, base, i) /\ base \in Nat
    BY <1>1, RewardAssumption DEF BlockTypeOK
  <2>2. 0 \div AgeStep = 0
    BY RewardAssumption
  <2>3. \A j \in Slot : j # i => pool'[j] = pool[j]
    BY <1>1 DEF BlockTypeOK
  <2> QED
    BY <2>1, <2>2, <2>3 DEF EntryFor, Worth
<1>3. count' = count + 1 /\ count \in Nat
  BY RewardAssumption DEF TxAdd, BlockTypeOK
<1>4. \A p \in Place : Load(p)' = Load(p)
  BY DEF TxAdd, minerVars, valVars, Load
<1>5. \A p \in Place : \A t \in Load(p) : t.id \in Nat /\ t.id <= count
  BY LoadType DEF WorthInv, Owned, LoadMade
<1>6. \A j \in Slot : pool[j].id \in Nat /\ pool[j].id <= count
  BY DEF BlockTypeOK, Entry, WorthInv, Owned, SlotMade
<1>7. \A p \in Place : \A t \in Load(p) : pool'[i].id # t.id
  BY <1>2, <1>3, <1>5
<1>8. \A j \in Available' : j = i \/ j \in Available
  BY <1>2 DEF Available
<1>9. OnePlace' /\ LoadMade'
  BY <1>3, <1>4, <1>5 DEF WorthInv, Owned, OnePlace, LoadMade
<1>10. AvailableFree'
  <2>1. \A j \in Available' : j \in Slot
    BY DEF Available
  <2> QED
    BY <1>2, <1>4, <1>7, <1>8, <2>1 DEF WorthInv, Owned, AvailableFree
<1>11. SlotMade'
  BY <1>2, <1>3, <1>6 DEF SlotMade
<1>12. SlotUnique'
  <2>1. \A j \in Slot : j # i => pool'[j].id # pool'[i].id
    BY <1>2, <1>3, <1>6
  <2> QED
    BY <1>2, <2>1 DEF WorthInv, Owned, SlotUnique
<1>13. Frozen'
  BY <1>2, <1>4, <1>7 DEF WorthInv, Frozen
<1>14. AliveWorth'
  <2> SUFFICES ASSUME NEW j \in Slot, Alive(j)' PROVE Worth(pool'[j])
    BY DEF AliveWorth, Worth
  <2>1. CASE j = i
    BY <1>2, <2>1
  <2>2. CASE j # i
    <3>1. pool'[j] = pool[j] /\ Alive(j)
      BY <1>2, <1>4, <1>8, <2>2 DEF Alive
    <3> QED
      BY <3>1 DEF WorthInv, AliveWorth
  <2> QED
    BY <2>1, <2>2
<1> QED
  BY <1>9, <1>10, <1>11, <1>12, <1>13, <1>14 DEF WorthInv, Owned

\* The copy a miner takes is that of slots nobody else has taken.
LEMMA SelectWorth ==
  ASSUME BlockTypeOK, WorthInv, NEW m \in Miners, Select(m)
  PROVE  WorthInv'
<1>1. PICK s \in [Nth -> Available] :
        /\ mblk' = [mblk EXCEPT ![m] =
             [miner |-> m, zeros |-> 0,
              txs |-> [k \in Nth |-> [id |-> pool[s[k]].id,
                                      reward |-> pool[s[k]].reward]]]]
        /\ pool' = Marked({s[k] : k \in Nth}, TRUE)
  BY DEF Select
<1>2. UNCHANGED <<count, pipe, vpc, vblk>>
  BY DEF Select, valVars
<1> DEFINE new == {[id |-> pool[s[k]].id, reward |-> pool[s[k]].reward] :
                     k \in Nth}
<1>3. /\ \A i \in Slot :
           /\ pool'[i].id = pool[i].id /\ pool'[i].base = pool[i].base
           /\ pool'[i].reward = pool[i].reward /\ pool'[i].age = pool[i].age
      /\ \A i \in Available' : i \in Available /\ \A k \in Nth : i # s[k]
  <2>1. PICK T : T = {s[k] : k \in Nth}
    OBVIOUS
  <2>2. PICK flag \in BOOLEAN : flag = TRUE
    OBVIOUS
  <2>3. pool' = Marked(T, flag)
    BY <1>1, <2>1, <2>2
  <2>4. \A i \in Slot :
          /\ pool'[i].id = pool[i].id /\ pool'[i].base = pool[i].base
          /\ pool'[i].reward = pool[i].reward /\ pool'[i].age = pool[i].age
          /\ i \in T => pool'[i].empty = flag
          /\ i \notin T => pool'[i].empty = pool[i].empty
    BY <2>3, MarkedSlots
  <2>5. \A i \in Available' : i \in Available /\ i \notin T
    BY <2>2, <2>4 DEF Available
  <2> QED
    BY <2>1, <2>4, <2>5
<1>4. Load(MinerPlace(m))' = new
  <2>1. mblk'[m] = [miner |-> m, zeros |-> 0,
                    txs |-> [k \in Nth |-> [id |-> pool[s[k]].id,
                                            reward |-> pool[s[k]].reward]]]
    BY <1>1 DEF BlockTypeOK
  <2>2. \A k \in Nth : /\ pool[s[k]].id \in 1..MaxTx
                       /\ pool[s[k]].reward \in Reward
    <3>1. \A k \in Nth : pool[s[k]] \in Entry /\ pool[s[k]].id # 0
      BY DEF BlockTypeOK, Available
    <3> QED
      BY <3>1, RewardAssumption DEF Entry
  <2>3. mblk'[m] \in Block
    BY <2>1, <2>2 DEF Block
  <2>4. TxsOf(mblk'[m]) = new
    BY <2>1, <2>3, ValueAssumption DEF TxsOf
  <2> QED
    BY <2>4, LoadAtNext
<1>5. \A p \in Place : p # MinerPlace(m) => Load(p)' = Load(p)
  <2>1. \A n \in Miners : n # m =>
          Load(MinerPlace(n))' = Load(MinerPlace(n))
    BY <1>1, LoadAt, LoadAtNext DEF BlockTypeOK
  <2>2. \A k : /\ Load(PipePlace(k))' = Load(PipePlace(k))
               /\ Load(ValidatorPlace(k))' = Load(ValidatorPlace(k))
    BY <1>2 DEF Load, PipePlace, ValidatorPlace
  <2> QED
    BY <2>1, <2>2 DEF Place
<1>6. \A k \in Nth : s[k] \in Available /\ s[k] \in Slot /\ pool[s[k]].id # 0
  BY DEF Available, BlockTypeOK
<1>7. \A t \in new : \E k \in Nth : /\ t.id = pool[s[k]].id
                                    /\ t.reward = pool[s[k]].reward
  OBVIOUS
<1> HIDE DEF new
<1>8. \A p \in Place : \A t \in Load(p), u \in new : t.id # u.id
  BY <1>6, <1>7 DEF WorthInv, Owned, AvailableFree
<1>9. \A i \in Slot : \A t \in new : pool[i].id = t.id =>
        \E k \in Nth : i = s[k] /\ t.reward = pool[i].reward
  BY <1>6, <1>7 DEF WorthInv, Owned, SlotUnique
<1>10. OnePlace'
  BY <1>4, <1>5, <1>8 DEF WorthInv, Owned, OnePlace
<1>11. AvailableFree'
  <2> SUFFICES ASSUME NEW i \in Available', NEW p \in Place, NEW t \in Load(p)'
               PROVE  pool'[i].id # t.id
    BY DEF AvailableFree
  <2>1. i \in Slot /\ i \in Available /\ pool'[i].id = pool[i].id
    BY <1>3 DEF Available
  <2>2. CASE t \in new
    BY <1>3, <1>9, <2>1, <2>2
  <2>3. CASE t \in Load(p)
    BY <2>1, <2>3 DEF WorthInv, Owned, AvailableFree
  <2> QED
    BY <1>4, <1>5, <2>2, <2>3
<1>12. LoadMade'
  <2>1. \A t \in new : t.id <= count
    BY <1>6, <1>7 DEF WorthInv, Owned, SlotMade
  <2> QED
    BY <1>2, <1>4, <1>5, <2>1 DEF WorthInv, Owned, LoadMade
<1>13. SlotMade' /\ SlotUnique'
  BY <1>2, <1>3 DEF WorthInv, Owned, SlotMade, SlotUnique
<1>14. Frozen'
  BY <1>3, <1>4, <1>5, <1>9 DEF WorthInv, Frozen
<1>15. AliveWorth'
  <2> SUFFICES ASSUME NEW i \in Slot, Alive(i)' PROVE Worth(pool'[i])
    BY DEF AliveWorth, Worth
  <2>1. Alive(i)
    BY <1>3, <1>4, <1>5, <1>6, <1>9 DEF Alive
  <2> QED
    BY <1>3, <2>1 DEF WorthInv, AliveWorth, Worth
<1> QED
  BY <1>10, <1>11, <1>12, <1>13, <1>14, <1>15 DEF WorthInv, Owned

\* The quotient grows when the remainder comes round.
LEMMA DivNext ==
  ASSUME NEW a \in Nat, NEW s \in Nat \ {0}
  PROVE  (a + 1) \div s = IF (a + 1) % s = 0 THEN a \div s + 1 ELSE a \div s
<1>1. PICK q, r, x, y : /\ q = a \div s /\ r = a % s
                        /\ x = (a + 1) \div s /\ y = (a + 1) % s
  OBVIOUS
<1>2. q \in Int /\ r \in 0..(s - 1) /\ a = s * q + r
  BY <1>1
<1>3. x \in Int /\ y \in 0..(s - 1) /\ a + 1 = s * x + y
  BY <1>1
<1>4. PICK d \in Int : d = x - q
  BY <1>2, <1>3
<1>5. s * d = r + 1 - y
  <2>1. s * (x - q) = s * x - s * q
    BY <1>2, <1>3
  <2> QED
    BY <1>2, <1>3, <1>4, <2>1
<1>6. d <= 1
  <2>1. d >= 2 => s * d >= s + s
    BY <1>4
  <2> QED
    BY <1>2, <1>3, <1>5, <2>1
<1>7. d >= 0
  <2>1. d <= -1 => s * d <= 0 - s
    BY <1>4
  <2> QED
    BY <1>2, <1>3, <1>5, <2>1
<1>8. CASE d = 0
  <2>1. s * d = 0
    BY <1>8
  <2>2. y = r + 1 /\ x = q
    BY <1>2, <1>3, <1>4, <1>5, <1>8, <2>1
  <2> QED
    BY <1>1, <1>2, <2>2
<1>9. CASE d = 1
  <2>1. s * d = s
    BY <1>9
  <2>2. y = 0 /\ x = q + 1
    BY <1>2, <1>3, <1>4, <1>5, <1>9, <2>1
  <2> QED
    BY <1>1, <1>2, <2>2
<1> QED
  BY <1>4, <1>6, <1>7, <1>8, <1>9

LEMMA OlderWorth ==
  ASSUME NEW e \in Entry, Worth(e)
  PROVE  /\ Worth(Older(e)) /\ Older(e).id = e.id
         /\ Older(e).empty = e.empty
<1>1. PICK r : r = IF (e.age + 1) % AgeStep = 0 THEN e.reward + 1 ELSE e.reward
  OBVIOUS
<1>2. Older(e) = [id |-> e.id, base |-> e.base, reward |-> r,
                  made |-> e.made, age |-> e.age + 1, empty |-> e.empty]
  <2>1. Older(e) = [e EXCEPT !.age = e.age + 1, !.reward = r]
    BY <1>1 DEF Older
  <2> QED
    BY <2>1 DEF Entry
<1>3. r = e.base + (e.age + 1) \div AgeStep
  <2>1. e.age \in Nat /\ e.base \in Nat /\ e.age \div AgeStep \in Int
    BY RewardAssumption DEF Entry
  <2>2. e.reward = e.base + e.age \div AgeStep
    BY DEF Worth
  <2>3. (e.age + 1) \div AgeStep = IF (e.age + 1) % AgeStep = 0
                                  THEN e.age \div AgeStep + 1
                                  ELSE e.age \div AgeStep
    BY <2>1, DivNext, RewardAssumption
  <2>4. PICK q \in Int : q = e.age \div AgeStep
    BY <2>1
  <2>5. CASE (e.age + 1) % AgeStep = 0
    <3>1. r = e.base + q + 1 /\ (e.age + 1) \div AgeStep = q + 1
      BY <1>1, <2>2, <2>3, <2>4, <2>5
    <3> QED
      BY <2>1, <2>4, <3>1
  <2>6. CASE (e.age + 1) % AgeStep # 0
    BY <1>1, <2>2, <2>3, <2>6
  <2> QED
    BY <2>5, <2>6
<1> QED
  BY <1>2, <1>3 DEF Worth

\* What is in a block is not available, and so does not age.
LEMMA AgeWorth ==
  ASSUME BlockTypeOK, WorthInv, pool' = Aged, count' = count,
         \A p \in Place : Load(p)' = Load(p)
  PROVE  WorthInv'
<1>1. \A i \in Slot : pool[i] \in Entry
  BY DEF BlockTypeOK
<1>2. \A i \in Slot \ Available : pool'[i] = pool[i]
  BY DEF Aged, Available
<1>3. \A i \in Available : /\ i \in Slot /\ Worth(pool'[i])
                           /\ pool'[i].id = pool[i].id
                           /\ pool'[i].empty = pool[i].empty
  <2> SUFFICES ASSUME NEW i \in Available
               PROVE  /\ i \in Slot /\ Worth(pool'[i])
                      /\ pool'[i].id = pool[i].id
                      /\ pool'[i].empty = pool[i].empty
    OBVIOUS
  <2>1. i \in Slot /\ pool'[i] = Older(pool[i])
    BY DEF Aged, Available
  <2>2. Worth(pool[i])
    BY <2>1 DEF WorthInv, AliveWorth, Alive
  <2> QED
    BY <1>1, <2>1, <2>2, OlderWorth
<1>4. \A i \in Slot : pool'[i].id = pool[i].id
  BY <1>2, <1>3
<1>5. Available' = Available
  BY <1>2, <1>3 DEF Available
<1>6. Owned'
  BY <1>4, <1>5 DEF WorthInv, Owned, OnePlace, AvailableFree, LoadMade,
     SlotMade, SlotUnique, Available
<1>7. Frozen'
  BY <1>2, <1>4 DEF WorthInv, Owned, AvailableFree, Frozen
<1>8. AliveWorth'
  <2> SUFFICES ASSUME NEW i \in Slot, Alive(i)' PROVE Worth(pool'[i])
    BY DEF AliveWorth, Worth
  <2>1. Alive(i)
    BY <1>4, <1>5 DEF Alive
  <2> QED
    BY <1>2, <1>3, <2>1 DEF WorthInv, AliveWorth
<1> QED
  BY <1>6, <1>7, <1>8 DEF WorthInv

LEMMA LoadsKept ==
  ASSUME WorthInv, UNCHANGED <<pool, count>>,
         \A p \in Place : Load(p)' \subseteq Load(p)
  PROVE  WorthInv'
<1>1. Available' = Available
  BY DEF Available
<1> QED
  BY <1>1, Stays

\* The block goes from the thread to the end of the pipe.
LEMMA SendWorth ==
  ASSUME BlockTypeOK, WorthInv, NEW m \in Miners, SendBlock(m)
  PROVE  WorthInv'
<1>1. /\ UNCHANGED <<pool, count, vpc, vblk>>
      /\ mblk' = [mblk EXCEPT ![m] = NoBlock]
      /\ pipe' = Append(pipe, mblk[m]) /\ mblk[m] \in Block
  BY DEF SendBlock, poolVars, valVars, BlockTypeOK
<1>2. PICK n : n = Len(pipe) + 1
  OBVIOUS
<1>3. /\ n \in Nat /\ Len(pipe') = n
      /\ \A k \in 1..Len(pipe) : pipe'[k] = pipe[k]
      /\ pipe'[n] = mblk[m]
  <2>1. pipe \in Seq(Block)
    BY DEF BlockTypeOK
  <2> QED
    BY <1>1, <1>2, <2>1, AppendProperties
<1> DEFINE new == PipePlace(n)
<1> DEFINE f == [p \in Place |-> IF p = new THEN MinerPlace(m) ELSE p]
<1>4. new \in Place /\ MinerPlace(m) \in Place
  BY <1>3 DEF Place
<1>5. f \in [Place -> Place]
  BY <1>4
<1>6. \A p \in Place : f[p] = IF p = new THEN MinerPlace(m) ELSE p
  OBVIOUS
<1>7. /\ Load(MinerPlace(m))' = {}
      /\ \A o \in Miners : Load(MinerPlace(o))' \subseteq Load(MinerPlace(o))
  BY <1>1, LoadAt, LoadAtNext DEF TxsOf, BlockTypeOK
<1>8. Load(new)' \subseteq Load(MinerPlace(m))
  BY <1>3, LoadAt, LoadAtNext
<1>9. \A k \in Nat : k # n =>
        Load(PipePlace(k))' \subseteq Load(PipePlace(k))
  <2> SUFFICES ASSUME NEW k \in Nat, k # n
               PROVE  Load(PipePlace(k))' \subseteq Load(PipePlace(k))
    OBVIOUS
  <2>1. CASE k \in 1..Len(pipe)
    <3>1. pipe'[k] = pipe[k] /\ Load(PipePlace(k)) = TxsOf(pipe[k])
      BY <1>3, <2>1, LoadAt
    <3> QED
      BY <3>1, LoadAtNext
  <2>2. CASE k \notin 1..Len(pipe)
    <3>1. k \notin 1..Len(pipe')
      <4>1. Len(pipe) \in Nat
        BY DEF BlockTypeOK
      <4> QED
        BY <1>2, <1>3, <2>2, <4>1
    <3> QED
      BY <3>1, LoadAtNext
  <2> QED
    BY <2>1, <2>2
<1>10. \A v : Load(ValidatorPlace(v))' = Load(ValidatorPlace(v))
  BY <1>1 DEF Load, ValidatorPlace
<1> HIDE DEF f
<1>11. \A p \in Place : Load(p)' \subseteq Load(f[p])
  <2>1. \A p \in Place : p # new => Load(p)' \subseteq Load(p)
    BY <1>7, <1>9, <1>10 DEF Place
  <2> HIDE DEF new
  <2> QED
    BY <1>6, <1>8, <2>1
<1>12. \A p, q \in Place :
         p # q /\ f[p] = f[q] => Load(p)' = {} \/ Load(q)' = {}
  BY <1>6, <1>7
<1>13. Available' = Available
  BY <1>1 DEF Available
<1> QED
  BY <1>1, <1>5, <1>11, <1>12, <1>13, Carried

\* The validator has the head; the others move up.
LEMMA ReadWorth ==
  ASSUME BlockTypeOK, WorthInv, NEW v \in Validators, ReadBlock(v)
  PROVE  WorthInv'
<1>1. /\ UNCHANGED <<pool, count, mblk>>
      /\ pipe # <<>> /\ pipe' = Tail(pipe) /\ pipe \in Seq(Block)
      /\ vblk' = [vblk EXCEPT ![v] = Head(pipe)]
      /\ vpc[v] = "loop" /\ vpc' = [vpc EXCEPT ![v] = "check"]
  BY DEF ReadBlock, To, poolVars, minerVars, BlockTypeOK
<1>2. /\ Head(pipe) = pipe[1] /\ Len(pipe) \in Nat /\ Len(pipe) >= 1
      /\ Len(pipe') = Len(pipe) - 1
      /\ \A k \in 1..Len(pipe') : pipe'[k] = pipe[k + 1]
  BY <1>1
<1> DEFINE f == [p \in Place |->
                   IF p[1] = "pipe" THEN PipePlace(p[2] + 1)
                   ELSE IF p = ValidatorPlace(v) THEN PipePlace(1) ELSE p]
<1>3. /\ \A k \in Nat : PipePlace(k) \in Place
                        /\ f[PipePlace(k)] = PipePlace(k + 1)
      /\ \A m \in Miners : f[MinerPlace(m)] = MinerPlace(m)
      /\ f[ValidatorPlace(v)] = PipePlace(1)
      /\ \A w \in Validators : w # v => f[ValidatorPlace(w)] = ValidatorPlace(w)
  BY PlacesDiffer DEF Place, MinerPlace, PipePlace, ValidatorPlace
<1>4. f \in [Place -> Place]
  <2>1. \A p \in Place : f[p] \in Place
    <3>1. \A k \in Nat : PipePlace(k + 1) \in Place /\ PipePlace(1) \in Place
      BY DEF Place
    <3> HIDE DEF f
    <3> QED
      BY <1>3, <3>1 DEF Place
  <2> QED
    BY <2>1
<1> HIDE DEF f
<1>5. \A m \in Miners : Load(MinerPlace(m))' = Load(MinerPlace(m))
  BY <1>1, LoadAt, LoadAtNext
<1>6. \A k \in Nat : Load(PipePlace(k))' \subseteq Load(PipePlace(k + 1))
  <2> SUFFICES ASSUME NEW k \in Nat, k \in 1..Len(pipe')
               PROVE  Load(PipePlace(k))' \subseteq Load(PipePlace(k + 1))
    BY LoadAtNext
  <2>1. k + 1 \in 1..Len(pipe) /\ pipe'[k] = pipe[k + 1]
    BY <1>2
  <2> QED
    BY <2>1, LoadAt, LoadAtNext
<1>7. Load(ValidatorPlace(v))' \subseteq Load(PipePlace(1))
  <2>1. vblk'[v] = pipe[1] /\ 1 \in 1..Len(pipe)
    BY <1>1, <1>2 DEF BlockTypeOK
  <2> QED
    BY <2>1, LoadAt, LoadAtNext
<1>8. \A w \in Validators : w # v =>
        Load(ValidatorPlace(w))' = Load(ValidatorPlace(w))
  <2> SUFFICES ASSUME NEW w \in Validators, w # v
               PROVE  Load(ValidatorPlace(w))' = Load(ValidatorPlace(w))
    OBVIOUS
  <2>1. vblk'[w] = vblk[w] /\ vpc'[w] = vpc[w]
    BY <1>1 DEF BlockTypeOK
  <2> QED
    BY <2>1, LoadAt, LoadAtNext
<1>9. \A p \in Place : Load(p)' \subseteq Load(f[p])
  <2> SUFFICES ASSUME NEW p \in Place PROVE Load(p)' \subseteq Load(f[p])
    OBVIOUS
  <2>1. CASE \E m \in Miners : p = MinerPlace(m)
    BY <1>3, <1>5, <2>1
  <2>2. CASE \E k \in Nat : p = PipePlace(k)
    BY <1>3, <1>6, <2>2
  <2>3. CASE \E w \in Validators : p = ValidatorPlace(w)
    BY <1>3, <1>7, <1>8, <2>3
  <2> QED
    BY <2>1, <2>2, <2>3 DEF Place
<1>10. Load(PipePlace(0))' = {}
  BY LoadAtNext
<1>11. \A p, q \in Place :
         p # q /\ f[p] = f[q] => p = PipePlace(0) \/ q = PipePlace(0)
  <2>1. \A i, j \in Nat : f[PipePlace(i)] = f[PipePlace(j)] => i = j
    <3> SUFFICES ASSUME NEW i \in Nat, NEW j \in Nat,
                        f[PipePlace(i)] = f[PipePlace(j)]
                 PROVE  i = j
      OBVIOUS
    <3>1. i + 1 = j + 1
      BY <1>3, PlacesDiffer
    <3> QED
      BY <3>1
  <2>2. \A i \in Nat : f[PipePlace(i)] = f[ValidatorPlace(v)] => i = 0
    <3> SUFFICES ASSUME NEW i \in Nat, f[PipePlace(i)] = f[ValidatorPlace(v)]
                 PROVE  i = 0
      OBVIOUS
    <3>1. i + 1 = 1
      BY <1>3, PlacesDiffer
    <3> QED
      BY <3>1
  <2>3. \A p \in Place : \/ f[p] = p /\ \A n : p # PipePlace(n)
                         \/ \E i \in Nat : p = PipePlace(i)
                         \/ p = ValidatorPlace(v)
    <3>1. \A m \in Miners : /\ f[MinerPlace(m)] = MinerPlace(m)
                            /\ \A n : MinerPlace(m) # PipePlace(n)
      BY <1>3, PlacesDiffer
    <3>2. \A w \in Validators :
            w # v => /\ f[ValidatorPlace(w)] = ValidatorPlace(w)
                     /\ \A n : ValidatorPlace(w) # PipePlace(n)
      BY <1>3, PlacesDiffer
    <3> QED
      BY <3>1, <3>2 DEF Place
  <2>4. /\ \A i \in Nat : \E n : f[PipePlace(i)] = PipePlace(n)
        /\ \E n : f[ValidatorPlace(v)] = PipePlace(n)
    BY <1>3
  <2> QED
    BY <2>1, <2>2, <2>3, <2>4
<1>12. \A p, q \in Place :
         p # q /\ f[p] = f[q] => Load(p)' = {} \/ Load(q)' = {}
  BY <1>10, <1>11
<1>13. Available' = Available
  BY <1>1 DEF Available
<1> QED
  BY <1>1, <1>4, <1>9, <1>12, <1>13, Carried

LEMMA MinerWorth ==
  ASSUME BlockTypeOK, WorthInv, NEW m \in Miners, MinerNext(m)
  PROVE  WorthInv'
<1>1. CASE TooFew(m) \/ Exhausted(m)
  <2>1. UNCHANGED <<pool, count, mblk, pipe, vpc, vblk>>
    BY <1>1 DEF TooFew, Exhausted, poolVars, minerVars, valVars
  <2>2. \A p \in Place : Load(p)' = Load(p)
    BY <2>1 DEF Load
  <2> QED
    BY <2>1, <2>2, LoadsKept
<1>2. CASE Mined(m)
  <2>1. /\ UNCHANGED <<pool, count, pipe, vpc, vblk>>
        /\ mblk[m] \in Block
        /\ \E z : mblk' = [mblk EXCEPT ![m].zeros = z]
    BY <1>2 DEF Mined, poolVars, valVars, BlockTypeOK
  <2>2. /\ \A n \in Miners : n # m => mblk'[n] = mblk[n]
        /\ mblk'[m].txs = mblk[m].txs
    BY <2>1 DEF BlockTypeOK, Block
  <2>3. \A n \in Miners : TxsOf(mblk'[n]) \subseteq TxsOf(mblk[n])
    BY <2>1, <2>2, ValueAssumption DEF TxsOf
  <2>4. /\ \A n \in Miners :
             Load(MinerPlace(n))' \subseteq Load(MinerPlace(n))
        /\ \A k : /\ Load(PipePlace(k))' = Load(PipePlace(k))
                  /\ Load(ValidatorPlace(k))' = Load(ValidatorPlace(k))
    <3>1. \A n \in Miners :
            Load(MinerPlace(n))' \subseteq Load(MinerPlace(n))
      BY <2>3, LoadAt, LoadAtNext
    <3>2. \A k : /\ Load(PipePlace(k))' = Load(PipePlace(k))
                 /\ Load(ValidatorPlace(k))' = Load(ValidatorPlace(k))
      BY <2>1 DEF Load, PipePlace, ValidatorPlace
    <3> QED
      BY <3>1, <3>2
  <2>5. \A p \in Place : Load(p)' \subseteq Load(p)
    BY <2>4 DEF Place
  <2> QED
    BY <2>1, <2>5, LoadsKept
<1>3. CASE GiveUp(m) \/ SendFails(m)
  <2>1. /\ Restore(m) /\ UNCHANGED <<count, pipe, vpc, vblk>>
        /\ mblk[m] \in Block
    BY <1>3 DEF GiveUp, SendFails, valVars, BlockTypeOK
  <2>2. mblk' = [mblk EXCEPT ![m] = NoBlock]
    BY <2>1 DEF Restore
  <2>3. /\ \A n \in Miners :
             Load(MinerPlace(n))' \subseteq Load(MinerPlace(n))
        /\ Load(MinerPlace(m))' = {}
    BY <2>2, LoadAt, LoadAtNext DEF TxsOf, BlockTypeOK
  <2>4. \A k : /\ Load(PipePlace(k))' = Load(PipePlace(k))
               /\ Load(ValidatorPlace(k))' = Load(ValidatorPlace(k))
    BY <2>1 DEF Load, PipePlace, ValidatorPlace
  <2>5. \A p \in Place : Load(p)' \subseteq Load(p)
    BY <2>3, <2>4 DEF Place
  <2>6. PICK S : S = {i \in Slot : Holds(i, mblk[m])}
    OBVIOUS
  <2>7. pool' = Marked(S, FALSE)
    BY <2>1, <2>6 DEF Restore
  <2>8. \A i \in S : \E t \in Load(MinerPlace(m)) : pool[i].id = t.id
    BY <2>1, <2>6, LoadAt, ValueAssumption DEF Holds, TxsOf
  <2>9. MinerPlace(m) \in Place
    BY DEF Place
  <2> QED
    BY <2>1, <2>3, <2>5, <2>7, <2>8, <2>9, Returned
<1> QED
  BY <1>1, <1>2, <1>3, SelectWorth, SendWorth DEF MinerNext

\* The validator keeps its block; at "report" it has given it up.
LEMMA ValidatorLoads ==
  ASSUME BlockTypeOK, NEW v \in Validators, vpc[v] # "report",
         NEW to, To(v, vpc[v], to), UNCHANGED <<mblk, pipe, vblk>>
  PROVE  /\ \A p \in Place : Load(p)' \subseteq Load(p)
         /\ to # "report" => \A p \in Place : Load(p)' = Load(p)
         /\ to = "report" => Load(ValidatorPlace(v))' = {}
         /\ ValidatorPlace(v) \in Place
         /\ vblk[v] # NoBlock =>
              Load(ValidatorPlace(v)) = {vblk[v].txs[k] : k \in Nth}
<1>1. vpc'[v] = to /\ \A w \in Validators : w # v => vpc'[w] = vpc[w]
  BY DEF To, BlockTypeOK
<1>2. \A k : /\ Load(MinerPlace(k))' = Load(MinerPlace(k))
             /\ Load(PipePlace(k))' = Load(PipePlace(k))
  BY DEF Load, MinerPlace, PipePlace
<1>3. \A w \in Validators : w # v =>
        Load(ValidatorPlace(w))' = Load(ValidatorPlace(w))
  <2> SUFFICES ASSUME NEW w \in Validators, w # v
               PROVE  Load(ValidatorPlace(w))' = Load(ValidatorPlace(w))
    OBVIOUS
  <2>1. Load(ValidatorPlace(w)) = IF vpc[w] = "report" THEN {}
                                  ELSE TxsOf(vblk[w])
    BY LoadAt
  <2>2. Load(ValidatorPlace(w))' = IF vpc'[w] = "report" THEN {}
                                   ELSE TxsOf(vblk'[w])
    BY LoadAtNext
  <2>3. vpc'[w] = vpc[w] /\ TxsOf(vblk'[w]) = TxsOf(vblk[w])
    BY <1>1
  <2> QED
    BY <2>1, <2>2, <2>3
<1>4. Load(ValidatorPlace(v))' = IF to = "report" THEN {}
                                 ELSE Load(ValidatorPlace(v))
  <2>1. Load(ValidatorPlace(v)) = TxsOf(vblk[v])
    BY LoadAt
  <2>2. Load(ValidatorPlace(v))' = IF vpc'[v] = "report" THEN {}
                                   ELSE TxsOf(vblk'[v])
    BY LoadAtNext
  <2>3. TxsOf(vblk'[v]) = TxsOf(vblk[v])
    OBVIOUS
  <2>4. vpc'[v] = to
    BY <1>1
  <2>5. CASE to = "report"
    BY <2>2, <2>4, <2>5
  <2>6. CASE to # "report"
    BY <2>1, <2>2, <2>3, <2>4, <2>6
  <2> QED
    BY <2>5, <2>6
<1>5. \A w \in Validators :
        /\ Load(ValidatorPlace(w))' \subseteq Load(ValidatorPlace(w))
        /\ to # "report" =>
             Load(ValidatorPlace(w))' = Load(ValidatorPlace(w))
  <2> SUFFICES ASSUME NEW w \in Validators
               PROVE  /\ Load(ValidatorPlace(w))' \subseteq
                           Load(ValidatorPlace(w))
                      /\ to # "report" =>
                           Load(ValidatorPlace(w))' = Load(ValidatorPlace(w))
    OBVIOUS
  <2>1. CASE w = v
    BY <1>1, <2>1, LoadAt, LoadAtNext
  <2>2. CASE w # v
    BY <1>3, <2>2
  <2> QED
    BY <2>1, <2>2
<1>6. /\ \A p \in Place : Load(p)' \subseteq Load(p)
      /\ to # "report" => \A p \in Place : Load(p)' = Load(p)
  BY <1>2, <1>5 DEF Place
<1> QED
  BY <1>4, <1>6, LoadAt DEF Place, TxsOf

LEMMA ValidatorWorth ==
  ASSUME BlockTypeOK, WorthInv, NEW v \in Validators, ValidatorNext(v)
  PROVE  WorthInv'
<1>1. CASE \/ IdlePass(v) \/ ChildExit(v) \/ ReadTime(v) \/ Accept(v)
           \/ Reject(v) \/ RoomTest(v) \/ AppendBlock(v)
  <2>1. UNCHANGED <<pool, count, mblk, pipe, vblk>> /\ vpc[v] # "report"
    BY <1>1 DEF IdlePass, ChildExit, ReadTime, Accept, Reject, RoomTest,
       AppendBlock, Go, To, poolVars, minerVars
  <2>2. \E to : To(v, vpc[v], to)
    BY <1>1 DEF IdlePass, ChildExit, ReadTime, Accept, Reject, RoomTest,
       AppendBlock, Go, To
  <2> QED
    BY <2>1, <2>2, ValidatorLoads, LoadsKept
<1>2. CASE AgePool(v)
  <2>1. /\ UNCHANGED <<count, mblk, pipe, vblk>> /\ pool' = Aged
        /\ To(v, vpc[v], "loop") /\ vpc[v] # "report"
    BY <1>2 DEF AgePool, To, minerVars
  <2>2. \A p \in Place : Load(p)' = Load(p)
    BY <2>1, ValidatorLoads
  <2> QED
    BY <2>1, <2>2, AgeWorth
<1>3. CASE RejectMissing(v) \/ GiveBack(v) \/ RemoveTxs(v)
  <2>1. /\ UNCHANGED <<count, mblk, pipe, vblk>>
        /\ To(v, vpc[v], "report") /\ vpc[v] # "report" /\ vpc[v] \in CheckPc
    BY <1>3 DEF RejectMissing, GiveBack, RemoveTxs, To, minerVars, CheckPc
  <2>2. vblk[v] \in Block /\ vblk[v] # NoBlock
    BY <2>1, ValueAssumption DEF BlockTypeOK
  <2>3. /\ \A p \in Place : Load(p)' \subseteq Load(p)
        /\ Load(ValidatorPlace(v))' = {} /\ ValidatorPlace(v) \in Place
        /\ Load(ValidatorPlace(v)) = {vblk[v].txs[k] : k \in Nth}
    BY <2>1, <2>2, ValidatorLoads
  <2>4. CASE RejectMissing(v) \/ GiveBack(v)
    <3>1. \E S : /\ pool' = Marked(S, FALSE)
                 /\ \A i \in S : \E k \in Nth : pool[i].id = vblk[v].txs[k].id
      <4>1. CASE GiveBack(v)
        <5>1. PICK S : S = {i \in Slot : Holds(i, vblk[v])}
          OBVIOUS
        <5>2. pool' = Marked(S, FALSE)
          BY <4>1, <5>1 DEF GiveBack
        <5>3. \A i \in S : \E k \in Nth : pool[i].id = vblk[v].txs[k].id
          BY <5>1 DEF Holds
        <5> QED
          BY <5>2, <5>3
      <4>2. CASE RejectMissing(v)
        <5>1. PICK k \in Nth :
                pool' = Marked({i \in Slot : \E j \in 1..(k - 1) :
                                  pool[i].id = vblk[v].txs[j].id}, FALSE)
          BY <4>2 DEF RejectMissing
        <5>2. \A j \in 1..(k - 1) : j \in Nth
          BY RewardAssumption DEF Nth
        <5>3. PICK S : S = {i \in Slot : \E j \in 1..(k - 1) :
                              pool[i].id = vblk[v].txs[j].id}
          OBVIOUS
        <5>4. pool' = Marked(S, FALSE)
          BY <5>1, <5>3
        <5>5. \A i \in S : \E j \in Nth : pool[i].id = vblk[v].txs[j].id
          BY <5>2, <5>3
        <5> QED
          BY <5>4, <5>5
      <4> QED
        BY <2>4, <4>1, <4>2
    <3>2. PICK S : /\ pool' = Marked(S, FALSE)
                   /\ \A i \in S : \E k \in Nth :
                        pool[i].id = vblk[v].txs[k].id
      BY <3>1
    <3>3. \A i \in S : \E t \in Load(ValidatorPlace(v)) : pool[i].id = t.id
      BY <2>3, <3>2
    <3> QED
      BY <2>1, <2>3, <3>2, <3>3, Returned
  <2>5. CASE RemoveTxs(v)
    <3>1. pool' = [i \in Slot |-> IF Holds(i, vblk[v])
                     THEN [pool[i] EXCEPT !.empty = TRUE, !.age = 0]
                     ELSE pool[i]]
      BY <2>5 DEF RemoveTxs
    <3>2. \A i \in Slot : pool[i] \in Entry
      BY DEF BlockTypeOK
    <3>3. \A i \in Slot :
            /\ pool'[i].id = pool[i].id /\ pool'[i].base = pool[i].base
            /\ pool'[i].reward = pool[i].reward
            /\ Holds(i, vblk[v]) => pool'[i].empty
            /\ ~Holds(i, vblk[v]) => pool'[i] = pool[i]
      BY <3>1, <3>2 DEF Entry
    <3>4. \A i \in Slot :
            Holds(i, vblk[v]) =>
              \E o \in Place : /\ \E t \in Load(o) : pool[i].id = t.id
                               /\ Load(o)' = {}
      <4>1. \A i \in Slot : Holds(i, vblk[v]) =>
              \E t \in Load(ValidatorPlace(v)) : pool[i].id = t.id
        BY <2>3 DEF Holds
      <4> QED
        BY <2>3, <4>1
    <3>5. \A i \in Slot :
            \/ /\ pool'[i].age = pool[i].age
               /\ i \in Available' => i \in Available
            \/ i \notin Available' /\ Holds(i, vblk[v])
      BY <3>3 DEF Available
    <3> QED
      BY <2>1, <2>3, <3>3, <3>4, <3>5, Stays
  <2> QED
    BY <1>3, <2>4, <2>5
<1>4. CASE SendStatistics(v)
  <2>1. /\ UNCHANGED <<pool, count, mblk, pipe>>
        /\ vblk' = [vblk EXCEPT ![v] = NoBlock]
        /\ vpc' = [vpc EXCEPT ![v] = "loop"]
    BY <1>4 DEF SendStatistics, To, poolVars, minerVars
  <2>2. \A k : /\ Load(MinerPlace(k))' = Load(MinerPlace(k))
               /\ Load(PipePlace(k))' = Load(PipePlace(k))
    BY <2>1 DEF Load, MinerPlace, PipePlace
  <2>3. \A w \in Validators :
          Load(ValidatorPlace(w))' \subseteq Load(ValidatorPlace(w))
    <3> SUFFICES ASSUME NEW w \in Validators
                 PROVE  Load(ValidatorPlace(w))' \subseteq
                          Load(ValidatorPlace(w))
      OBVIOUS
    <3>1. CASE w = v
      <4>1. TxsOf(vblk'[w]) = {}
        BY <2>1, <3>1 DEF TxsOf, BlockTypeOK
      <4> QED
        BY <4>1, LoadAtNext
    <3>2. CASE w # v
      <4>1. vblk'[w] = vblk[w] /\ vpc'[w] = vpc[w]
        BY <2>1, <3>2 DEF BlockTypeOK
      <4> QED
        BY <4>1, LoadAt, LoadAtNext
    <3> QED
      BY <3>1, <3>2
  <2>4. \A p \in Place : Load(p)' \subseteq Load(p)
    BY <2>2, <2>3 DEF Place
  <2> QED
    BY <2>1, <2>4, LoadsKept
<1> QED
  BY <1>1, <1>2, <1>3, <1>4, ReadWorth DEF ValidatorNext

LEMMA NextWorth == MinedInv /\ WorthInv /\ [Next]_vars => WorthInv'
<1> SUFFICES ASSUME BlockTypeOK, WorthInv, [Next]_vars PROVE WorthInv'
  BY DEF MinedInv
<1>1. CASE Tick \/ StatReceive \/ UNCHANGED vars
  <2>1. UNCHANGED <<pool, count, mblk, pipe, vpc, vblk>>
    BY <1>1 DEF Tick, StatReceive, vars, poolVars, minerVars, valVars
  <2>2. \A p \in Place : Load(p)' = Load(p)
    BY <2>1 DEF Load
  <2> QED
    BY <2>1, <2>2, LoadsKept
<1>2. CASE \E c \in Children : Fork(c)
  <2>1. PICK c \in Children : Fork(c)
    BY <1>2
  <2>2. /\ UNCHANGED <<pool, count, mblk, pipe, vblk>> /\ c \in Validators
        /\ To(c, vpc[c], "loop") /\ vpc[c] # "report"
    BY <2>1 DEF Fork, To, poolVars, minerVars, Validators
  <2>3. \A p \in Place : Load(p)' \subseteq Load(p)
    BY <2>2, ValidatorLoads
  <2> QED
    BY <2>2, <2>3, LoadsKept
<1> QED
  BY <1>1, <1>2, AddWorth, MinerWorth, ValidatorWorth DEF Next

LEMMA WorthAlways == Spec => [](MinedInv /\ WorthInv)
<1>1. Init => MinedInv /\ WorthInv
  BY InitMined, InitWorth
<1>2. MinedInv /\ WorthInv /\ [Next]_vars => (MinedInv /\ WorthInv)'
  BY NextMined, NextWorth
<1> QED
  BY <1>1, <1>2, PTL DEF Spec

\* Until a block is accepted or given up, its transactions do not age: what it
\* pays for one that is still in the pool is what that one is worth there.
THEOREM RewardFrozenCorrect == Spec => []RewardFrozen
<1>1. BlockTypeOK /\ WorthInv => RewardFrozen
  <2> SUFFICES ASSUME BlockTypeOK, WorthInv,
                      NEW b \in {mblk[m] : m \in Miners}
                                  \cup {pipe[k] : k \in 1..Len(pipe)}
                                  \cup {vblk[v] : v \in {w \in Validators :
                                                    vpc[w] # "report"}},
                      b # NoBlock, NEW k \in Nth, NEW i \in Slot,
                      pool[i].id = b.txs[k].id
               PROVE  pool[i].reward = b.txs[k].reward
    BY DEF RewardFrozen
  <2>1. b.txs[k] \in TxsOf(b)
    BY DEF TxsOf
  <2>2. \E p \in Place : b.txs[k] \in Load(p)
    <3>1. CASE \E m \in Miners : b = mblk[m]
      BY <2>1, <3>1, LoadAt DEF Place
    <3>2. CASE \E j \in 1..Len(pipe) : b = pipe[j]
      BY <2>1, <3>2, LoadAt DEF Place
    <3>3. CASE \E v \in Validators : vpc[v] # "report" /\ b = vblk[v]
      BY <2>1, <3>3, LoadAt DEF Place
    <3> QED
      BY <3>1, <3>2, <3>3
  <2> QED
    BY <2>2 DEF WorthInv, Frozen
<1> QED
  BY <1>1, WorthAlways, PTL DEF MinedInv

\* An available transaction is worth its first reward and one for every
\* AgeStep of its age, wherever it has been in between.
THEOREM RewardByAgeCorrect == Spec => []RewardByAge
<1>1. WorthInv => RewardByAge
  BY DEF WorthInv, AliveWorth, Alive, Worth, RewardByAge, Available
<1> QED
  BY <1>1, WorthAlways, PTL
=============================================================================
