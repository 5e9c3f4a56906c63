------------------------------ MODULE Rewards -------------------------------
(***************************************************************************)
(* What a transaction is worth: the reward it is made with, the reward its *)
(* age adds, the difficulty of the proof of work that follows from it, and *)
(* the credits the statistics process counts for it.                       *)
(*                                                                         *)
(* Time passes here.  The pipe is a queue of whole blocks and the previous *)
(* hash of a block matches or not by choice: DeiChain is about those.      *)
(***************************************************************************)
EXTENDS Integers, Sequences, FiniteSets, Functions
LOCAL INSTANCE FiniteSetsExt

CONSTANTS
  Miners,            \* miner threads
  Primary,           \* the validator forked by the controller
  Children,          \* processes the primary validator may fork
  PoolSize,          \* config->tx_pool_size
  TxsPerBlock,       \* config->transactions_per_block
  BlockchainBlocks,  \* config->blockchain_blocks
  BaseRewards,       \* rewards the generators are started with
  AgeStep,           \* seconds of age that add one to the reward
  MaxOps,            \* POW_MAX_OPS
  Zeros,             \* leading zeros a hash may have
  MaxTx,             \* bound: transactions made
  MaxTime,           \* bound: seconds that pass
  NoBlock            \* a process that holds no block

ASSUME RewardAssumption ==
  /\ Primary \notin Children
  /\ IsFiniteSet(Children)
  /\ PoolSize \in Nat \ {0}
  /\ TxsPerBlock \in Nat \ {0}
  /\ BlockchainBlocks \in Nat \ {0}
  /\ BaseRewards \subseteq 1..3
  /\ AgeStep \in Nat \ {0}
  /\ MaxOps \in Nat \ {0}
  /\ Zeros \subseteq Nat
  /\ MaxTx \in Nat
  /\ MaxTime \in Nat

Validators == {Primary} \cup Children
Slot == 1..PoolSize
Nth == 1..TxsPerBlock
Reward == Nat

\* Identifiers are the numbers of the transactions; 0 is that of no transaction.
\* base is the reward it was made with, made the second.
Entry == [id : 0..MaxTx, base : Nat, reward : Reward, made : Nat, age : Nat,
          empty : BOOLEAN]

\* txs is the copy made by select_transactions; zeros is the number of zeros
\* its hash begins with.
Block == [miner : Miners, txs : [Nth -> [id : 1..MaxTx, reward : Reward]],
          zeros : Nat]

ASSUME ValueAssumption == NoBlock \notin Block

VARIABLES
  now,       \* time(NULL)
  count,     \* transactions made so far
  pool,      \* transactions_list
  work,      \* the value of work_notification_sem
  mpc,       \* where each miner is
  mblk,      \* the block each miner mines or sends
  pipe,      \* blocks in VALIDATOR_INPUT
  vpc,       \* where each validator is
  vblk,      \* the block each validator works on
  valid,     \* the result of validate_block, kept for send_statistics
  last,      \* last_age_update of each validator
  seen,      \* current_time of each validator's age_transaction_pool
  active,    \* active_validators of the primary
  ledger,    \* the blocks of the ledger
  msgq,      \* the message queue
  credits,   \* credits of the statistics process, per miner
  unearned   \* history: rewards of blocks given back and reported valid

minerVars == <<mpc, mblk>>
ageVars   == <<last, seen, active>>
valVars   == <<vpc, vblk, valid>>
statVars  == <<msgq, credits, unearned>>
poolVars  == <<pool, work>>

vars == <<now, count, pool, work, mpc, mblk, pipe, vpc, vblk, valid, last, seen,
          active, ledger, msgq, credits, unearned>>

\* A new segment is zero; the flags are set.
Free == [id |-> 0, base |-> 0, reward |-> 0, made |-> 0, age |-> 0,
         empty |-> TRUE]

Init ==
  /\ now = 1
  /\ count = 0
  /\ pool = [i \in Slot |-> Free]
  /\ work = 0
  /\ mpc = [m \in Miners |-> "wait"]
  /\ mblk = [m \in Miners |-> NoBlock]
  /\ pipe = <<>>
  /\ vpc = [v \in Validators |-> IF v = Primary THEN "loop" ELSE "off"]
  /\ vblk = [v \in Validators |-> NoBlock]
  /\ valid = [v \in Validators |-> FALSE]
  /\ last = [v \in Validators |-> 0]
  /\ seen = [v \in Validators |-> 0]
  /\ active = 1
  /\ ledger = <<>>
  /\ msgq = <<>>
  /\ credits = [m \in Miners |-> 0]
  /\ unearned = [m \in Miners |-> 0]

Tick ==
  /\ now < MaxTime
  /\ now' = now + 1
  /\ UNCHANGED <<count, poolVars, minerVars, pipe, valVars, ageVars, ledger,
                 statVars>>

(***************************************************************************)
(* Difficulty and proof of work                                            *)
(***************************************************************************)

ZerosRequired(reward) == IF reward <= 1 THEN 2 ELSE IF reward = 2 THEN 3 ELSE 4

\* The maximum that verify_nonce and proof_of_work both look for.
MaxReward(b) == Max({b.txs[k].reward : k \in Nth} \cup {0})

\* verify_nonce: the hash of the block as it was read against the rewards in it.
Verify(b) == b.zeros >= ZerosRequired(MaxReward(b))

\* Variant: the miner takes the difficulty from the first transaction.
FindsByFirst(b, hash, n) ==
  LET enough == ZerosRequired(b.txs[1].reward) IN
    /\ n \in 0..(MaxOps - 1)
    /\ hash[n] >= enough
    /\ \A k \in 0..(n - 1) : hash[k] < enough

\* hash[n] stands for the hash of block b with nonce n: the zeros it begins
\* with.  proof_of_work returns the first nonce that will do.
Finds(b, hash, n) ==
  LET enough == ZerosRequired(MaxReward(b)) IN
    /\ n \in 0..(MaxOps - 1)
    /\ hash[n] >= enough
    /\ \A k \in 0..(n - 1) : hash[k] < enough

(***************************************************************************)
(* Generators                                                              *)
(***************************************************************************)

\* Variant: the age of the slot is left as it was.
EntryForAged(id, base, i) ==
  [id |-> id, base |-> base, reward |-> base, made |-> now,
   age |-> pool[i].age, empty |-> FALSE]

EntryFor(id, base, i) ==
  [id |-> id, base |-> base, reward |-> base, made |-> now, age |-> 0,
   empty |-> FALSE]

\* The first slot with empty = 1, free or reserved; one post for the miners.
TxAdd ==
  /\ count < MaxTx
  /\ \E i \in Slot, base \in BaseRewards :
       /\ pool[i].empty
       /\ \A j \in 1..(i - 1) : ~pool[j].empty
       /\ pool' = [pool EXCEPT ![i] = EntryFor(count + 1, base, i)]
  /\ count' = count + 1
  /\ work' = work + 1
  /\ UNCHANGED <<now, minerVars, pipe, valVars, ageVars, ledger, statVars>>

(***************************************************************************)
(* Miners                                                                  *)
(***************************************************************************)

Holds(i, b) == \E k \in Nth : pool[i].id = b.txs[k].id

\* The pool with the slots in S marked.
Marked(S, flag) ==
  [i \in Slot |-> [pool[i] EXCEPT !.empty = IF i \in S THEN flag ELSE @]]

Available == {i \in Slot : ~pool[i].empty}

\* A wake-up is used up, whatever it finds.
TooFew(m) ==
  /\ mpc[m] = "wait"
  /\ Cardinality(Available) < TxsPerBlock
  /\ work > 0 /\ work' = work - 1
  /\ UNCHANGED <<now, count, pool, minerVars, pipe, valVars, ageVars, ledger,
                 statVars>>

\* The first TxsPerBlock slots in use, in order, are copied and reserved.
Select(m) ==
  /\ mpc[m] = "wait"
  /\ work > 0 /\ work' = work - 1
  /\ \E s \in [Nth -> Available] :
       /\ \A j, k \in Nth : j < k => s[j] < s[k]
       /\ \A i \in 1..s[TxsPerBlock] : pool[i].empty \/ \E k \in Nth : s[k] = i
       /\ mblk' = [mblk EXCEPT ![m] =
            [miner |-> m, zeros |-> 0,
             txs |-> [k \in Nth |-> [id |-> pool[s[k]].id,
                                     reward |-> pool[s[k]].reward]]]]
       /\ pool' = Marked({s[k] : k \in Nth}, TRUE)
  /\ mpc' = [mpc EXCEPT ![m] = "mine"]
  /\ UNCHANGED <<now, count, pipe, valVars, ageVars, ledger, statVars>>

\* A first attempt, or a second with another timestamp and so other hashes.
Mined(m) ==
  /\ mpc[m] \in {"mine", "retry"}
  /\ \E hash \in [0..(MaxOps - 1) -> Zeros], n \in 0..(MaxOps - 1) :
       /\ Finds(mblk[m], hash, n)
       /\ mblk' = [mblk EXCEPT ![m].zeros = hash[n]]
  /\ mpc' = [mpc EXCEPT ![m] = "send"]
  /\ UNCHANGED <<now, count, poolVars, pipe, valVars, ageVars, ledger,
                 statVars>>

\* No nonce below MaxOps will do.
MayExhaust(m) ==
  \E hash \in [0..(MaxOps - 1) -> Zeros] :
    ~\E n \in 0..(MaxOps - 1) : Finds(mblk[m], hash, n)

Exhausted(m) ==
  /\ mpc[m] = "mine"
  /\ MayExhaust(m)
  /\ mpc' = [mpc EXCEPT ![m] = "retry"]
  /\ UNCHANGED <<now, count, poolVars, mblk, pipe, valVars, ageVars, ledger,
                 statVars>>

\* Variant: the thread keeps the block it has freed.
RestoreDangling(m) ==
  /\ pool' = Marked({i \in Slot : Holds(i, mblk[m])}, FALSE)
  /\ mpc' = [mpc EXCEPT ![m] = "wait"]
  /\ UNCHANGED mblk

\* The transactions still in the pool become available again.
Restore(m) ==
  /\ pool' = Marked({i \in Slot : Holds(i, mblk[m])}, FALSE)
  /\ mblk' = [mblk EXCEPT ![m] = NoBlock]
  /\ mpc' = [mpc EXCEPT ![m] = "wait"]

GiveUp(m) ==
  /\ mpc[m] = "retry"
  /\ MayExhaust(m)
  /\ Restore(m)
  /\ UNCHANGED <<now, count, work, pipe, valVars, ageVars, ledger, statVars>>

SendBlock(m) ==
  /\ mpc[m] = "send"
  /\ pipe' = Append(pipe, mblk[m])
  /\ mblk' = [mblk EXCEPT ![m] = NoBlock]
  /\ mpc' = [mpc EXCEPT ![m] = "wait"]
  /\ UNCHANGED <<now, count, poolVars, valVars, ageVars, ledger, statVars>>

SendFails(m) ==
  /\ mpc[m] = "send"
  /\ Restore(m)
  /\ UNCHANGED <<now, count, work, pipe, valVars, ageVars, ledger, statVars>>

(***************************************************************************)
(* Validators: scaling and ageing                                          *)
(***************************************************************************)

To(v, from, to) == vpc[v] = from /\ vpc' = [vpc EXCEPT ![v] = to]

\* A step that only tests and moves on.
Go(v, from, to) ==
  /\ To(v, from, to)
  /\ UNCHANGED <<now, count, poolVars, minerVars, pipe, vblk, valid, ageVars,
                 ledger, statVars>>

\* A validator is in "loop" between two things it does: it forks, leaves, ages
\* the pool or reads a block.

\* Less than a second since its last update, and no block before the timeout.
IdlePass(v) == Go(v, "loop", "loop") /\ now <= last[v] /\ pipe = <<>>

\* A fork copies last_age_update; the occupancy that asks for it is abstracted.
Fork(c) ==
  /\ vpc[Primary] = "loop" /\ vpc[c] = "off"
  /\ vpc' = [vpc EXCEPT ![c] = "loop"]
  /\ last' = [last EXCEPT ![c] = last[Primary]]
  /\ active' = active + 1
  /\ UNCHANGED <<now, count, poolVars, minerVars, pipe, vblk, valid, seen,
                 ledger, statVars>>

ChildExit(c) == c \in Children /\ Go(c, "loop", "exited")

\* The time, read before the lock is taken, is later than the last update's.
ReadTime(v) ==
  /\ To(v, "loop", "ageing")
  /\ now > last[v]
  /\ seen' = [seen EXCEPT ![v] = now]
  /\ UNCHANGED <<now, count, poolVars, minerVars, pipe, vblk, valid, last,
                 active, ledger, statVars>>

Older(e) ==
  [e EXCEPT !.age = @ + 1,
            !.reward = IF (e.age + 1) % AgeStep = 0 THEN @ + 1 ELSE @]

\* Variant: reserved transactions grow older too.
AgedAll == [i \in Slot |-> Older(pool[i])]

Aged == [i \in Slot |-> IF pool[i].empty THEN pool[i] ELSE Older(pool[i])]

\* Variant: the time of the update is not kept.
AgePoolForgetful(v) ==
  /\ To(v, "ageing", "loop")
  /\ pool' = Aged
  /\ seen' = [seen EXCEPT ![v] = 0]
  /\ UNCHANGED <<now, count, work, minerVars, pipe, vblk, valid, last, active,
                 ledger, statVars>>

AgePool(v) ==
  /\ To(v, "ageing", "loop")
  /\ pool' = Aged
  /\ last' = [last EXCEPT ![v] = seen[v]]
  /\ seen' = [seen EXCEPT ![v] = 0]
  /\ UNCHANGED <<now, count, work, minerVars, pipe, vblk, valid, active,
                 ledger, statVars>>

(***************************************************************************)
(* Validators: blocks                                                      *)
(***************************************************************************)

ReadBlock(v) ==
  /\ To(v, "loop", "check")
  /\ pipe # <<>>
  /\ vblk' = [vblk EXCEPT ![v] = Head(pipe)]
  /\ pipe' = Tail(pipe)
  /\ UNCHANGED <<now, count, poolVars, minerVars, valid, ageVars, ledger,
                 statVars>>

InPool(tx) == \E i \in Slot : pool[i].id = tx.id

\* The nonce does, the previous hash is the last one's, all is in the pool.
Accept(v) ==
  /\ To(v, "check", "full")
  /\ Verify(vblk[v])
  /\ \A k \in Nth : InPool(vblk[v].txs[k])
  /\ valid' = [valid EXCEPT ![v] = TRUE]
  /\ UNCHANGED <<now, count, poolVars, minerVars, pipe, vblk, ageVars, ledger,
                 statVars>>

\* The nonce does not, or the previous hash is another's: early return.
Reject(v) ==
  /\ To(v, "check", "report")
  /\ valid' = [valid EXCEPT ![v] = FALSE]
  /\ UNCHANGED <<now, count, poolVars, minerVars, pipe, vblk, ageVars, ledger,
                 statVars>>

\* A transaction is no longer in the pool; those before it are returned.
RejectMissing(v) ==
  /\ To(v, "check", "report")
  /\ Verify(vblk[v])
  /\ \E k \in Nth :
       /\ ~InPool(vblk[v].txs[k])
       /\ \A j \in 1..(k - 1) : InPool(vblk[v].txs[j])
       /\ pool' = Marked({i \in Slot : \E j \in 1..(k - 1) :
                            pool[i].id = vblk[v].txs[j].id}, FALSE)
  /\ valid' = [valid EXCEPT ![v] = FALSE]
  /\ UNCHANGED <<now, count, work, minerVars, pipe, vblk, ageVars, ledger,
                 statVars>>

RoomTest(v) ==
  Go(v, "full", IF Len(ledger) < BlockchainBlocks THEN "append" ELSE "giveback")

AppendBlock(v) ==
  /\ To(v, "append", "remove")
  /\ ledger' = Append(ledger, vblk[v])
  /\ UNCHANGED <<now, count, poolVars, minerVars, pipe, vblk, valid, ageVars,
                 statVars>>

\* Removal resets the age and leaves the rest of the slot readable.
RemoveTxs(v) ==
  /\ To(v, "remove", "report")
  /\ pool' = [i \in Slot |-> IF Holds(i, vblk[v])
                             THEN [pool[i] EXCEPT !.empty = TRUE, !.age = 0]
                             ELSE pool[i]]
  /\ UNCHANGED <<now, count, work, minerVars, pipe, vblk, valid, ageVars,
                 ledger, statVars>>

TotalRewards(b) == SumFunction([k \in Nth |-> b.txs[k].reward])

\* No room: the transactions are returned, and the block counts as valid.
GiveBack(v) ==
  /\ To(v, "giveback", "report")
  /\ pool' = Marked({i \in Slot : Holds(i, vblk[v])}, FALSE)
  /\ unearned' = [unearned EXCEPT ![vblk[v].miner] = @ + TotalRewards(vblk[v])]
  /\ UNCHANGED <<now, count, work, minerVars, pipe, vblk, valid, ageVars,
                 ledger, msgq, credits>>

\* Rewards are added up for a valid block only.
MessageFor(v) ==
  [miner |-> vblk[v].miner, valid |-> valid[v],
   total_rewards |-> IF valid[v] THEN TotalRewards(vblk[v]) ELSE 0]

\* Variant: msgsnd is given IPC_NOWAIT, and a queue that holds a message is
\* full.
SendStatisticsNoWait(v) ==
  /\ To(v, "report", "loop")
  /\ msgq' = IF msgq = <<>> THEN <<MessageFor(v)>> ELSE msgq
  /\ vblk' = [vblk EXCEPT ![v] = NoBlock]
  /\ valid' = [valid EXCEPT ![v] = FALSE]
  /\ UNCHANGED <<now, count, poolVars, minerVars, pipe, ageVars, ledger,
                 credits, unearned>>

SendStatistics(v) ==
  /\ To(v, "report", "loop")
  /\ msgq' = Append(msgq, MessageFor(v))
  /\ vblk' = [vblk EXCEPT ![v] = NoBlock]
  /\ valid' = [valid EXCEPT ![v] = FALSE]
  /\ UNCHANGED <<now, count, poolVars, minerVars, pipe, ageVars, ledger,
                 credits, unearned>>

\* What a message adds to the credits of its miner: an invalid block, nothing.
CreditOf(msg) == IF msg.valid THEN msg.total_rewards ELSE 0

\* Blocks arrive as they were sent, so the miner is one that is known.
StatReceive ==
  /\ msgq # <<>>
  /\ credits' = [credits EXCEPT ![Head(msgq).miner] = @ + CreditOf(Head(msgq))]
  /\ msgq' = Tail(msgq)
  /\ UNCHANGED <<now, count, poolVars, minerVars, pipe, valVars, ageVars,
                 ledger, unearned>>

-----------------------------------------------------------------------------

MinerNext(m) ==
  TooFew(m) \/ Select(m) \/ Mined(m) \/ Exhausted(m) \/ GiveUp(m)
    \/ SendBlock(m) \/ SendFails(m)

ValidatorNext(v) ==
  \/ IdlePass(v) \/ ChildExit(v) \/ ReadTime(v) \/ AgePool(v) \/ ReadBlock(v)
  \/ Accept(v) \/ Reject(v) \/ RejectMissing(v)
  \/ RoomTest(v) \/ AppendBlock(v) \/ RemoveTxs(v) \/ GiveBack(v)
  \/ SendStatistics(v)

Next ==
  \/ Tick
  \/ TxAdd
  \/ \E m \in Miners : MinerNext(m)
  \/ \E v \in Validators : ValidatorNext(v)
  \/ \E c \in Children : Fork(c)
  \/ StatReceive

Spec == Init /\ [][Next]_vars

-----------------------------------------------------------------------------
(***************************************************************************)
(* Properties                                                              *)
(***************************************************************************)

CheckPc == {"check", "full", "append", "remove", "giveback", "report"}

\* Every variable has its type; a miner thread and a validator hold a block
\* just as long as they mine, send or check one.
TypeOK ==
  /\ now \in 1..(MaxTime + 1)
  /\ count \in 0..MaxTx
  /\ pool \in [Slot -> Entry]
  /\ mpc \in [Miners -> {"wait", "mine", "retry", "send"}]
  /\ mblk \in [Miners -> Block \cup {NoBlock}]
  /\ \A m \in Miners : mblk[m] = NoBlock <=> mpc[m] = "wait"
  /\ pipe \in Seq(Block)
  /\ vpc \in [Validators -> {"off", "loop", "ageing", "exited"} \cup CheckPc]
  /\ vblk \in [Validators -> Block \cup {NoBlock}]
  /\ \A v \in Validators : vblk[v] # NoBlock <=> vpc[v] \in CheckPc
  /\ valid \in [Validators -> BOOLEAN]
  /\ last \in [Validators -> Nat]
  /\ seen \in [Validators -> Nat]
  /\ active \in 1..(1 + Cardinality(Children))
  /\ ledger \in Seq(Block)
  /\ msgq \in Seq([miner : Miners, valid : BOOLEAN, total_rewards : Nat])
  /\ work \in 0..MaxTx
  /\ credits \in [Miners -> Nat]
  /\ unearned \in [Miners -> Nat]

\* However a transaction is reserved, returned, aged or put over another one,
\* what an available slot offers is its first reward and one for every AgeStep
\* of its age.
RewardByAge ==
  \A i \in Slot : ~pool[i].empty =>
    pool[i].reward = pool[i].base + pool[i].age \div AgeStep

\* Every validator ages the pool once a second by its own clock: a transaction
\* is never older than the seconds it was there, times the validators created,
\* with the second it came in and one update that was under way.
AgeBound ==
  \A i \in Slot : ~pool[i].empty =>
    pool[i].age <= active * (now - pool[i].made + 2)

\* Blocks a miner has mined and blocks on their way to the ledger.
Sent == {pipe[k] : k \in 1..Len(pipe)}
          \cup {mblk[m] : m \in {n \in Miners : mpc[n] = "send"}}
          \cup {vblk[v] : v \in {w \in Validators : vpc[w] \in CheckPc}}
          \cup {ledger[k] : k \in 1..Len(ledger)}

\* A block that was mined passes verify_nonce wherever it is, although the
\* difficulty is worked out again from rewards that have gone through the
\* pool, the miner's copy and the pipe.
MinedVerifies == \A b \in Sent : Verify(b)

\* Until a block is accepted or given up, a transaction of it that is still in
\* the pool is worth there what the block pays for it: it does not age.
RewardFrozen ==
  \A b \in {mblk[m] : m \in Miners} \cup {pipe[k] : k \in 1..Len(pipe)}
            \cup {vblk[v] : v \in {w \in Validators : vpc[w] # "report"}} :
    b # NoBlock =>
      \A k \in Nth : \A i \in Slot :
        pool[i].id = b.txs[k].id => pool[i].reward = b.txs[k].reward

\* Per place, what it holds for miner m: messages in the queue, blocks stored or
\* given back and not yet reported, blocks of the ledger.
QueuedFor(m) ==
  [k \in 1..Len(msgq) |->
     IF msgq[k].miner = m THEN CreditOf(msgq[k]) ELSE 0]

DueTo(m) ==
  [v \in Validators |->
     IF valid[v] /\ vpc[v] \in {"remove", "report"} /\ vblk[v].miner = m
     THEN TotalRewards(vblk[v]) ELSE 0]

StoredFor(m) ==
  [k \in 1..Len(ledger) |->
     IF ledger[k].miner = m THEN TotalRewards(ledger[k]) ELSE 0]

PaidTo(m) == credits[m] + SumFunction(QueuedFor(m)) + SumFunction(DueTo(m))
EarnedBy(m) == SumFunction(StoredFor(m))

\* The credits, with what is on its way to the statistics process, are the
\* rewards of the ledger and those of blocks that were given back; and only a
\* full ledger has blocks given back, so until then credits follow the ledger.
CreditsMatchLedger ==
  \A m \in Miners :
    /\ PaidTo(m) = EarnedBy(m) + unearned[m]
    /\ unearned[m] > 0 => Len(ledger) >= BlockchainBlocks
=============================================================================
