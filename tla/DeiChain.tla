------------------------------ MODULE DeiChain ------------------------------
(***************************************************************************)
(* The transaction pipeline of DEIChain: transaction generators fill a     *)
(* shared pool, miner threads reserve transactions and mine blocks,        *)
(* validators take the blocks from a named pipe, check them, append them   *)
(* to the shared ledger and report to the statistics process.              *)
(*                                                                         *)
(* Every critical section of pool->mutex or ledger->mutex is one action,   *)
(* and so is every semaphore operation and every access to the pipe or to  *)
(* the message queue; whatever happens between two of them may interleave  *)
(* with the other processes.  Termination is not part of this module.      *)
(***************************************************************************)
EXTENDS Integers, Sequences, FiniteSets

CONSTANTS
  TxGens,            \* transaction generator processes
  Miners,            \* miner threads
  Primary,           \* the validator forked by the controller
  Children,          \* processes the primary validator may fork
  PoolSize,          \* config->tx_pool_size
  TxsPerBlock,       \* config->transactions_per_block
  BlockchainBlocks,  \* config->blockchain_blocks
  MaxTx,             \* bound: transactions one generator makes
  MayFail,           \* whether a proof of work or a send may fail
  NoTx,              \* a slot that never held a transaction
  NoBlock,           \* a process that holds no block
  Garbage,           \* bytes in the pipe that hold no whole list of transactions
  Unknown            \* a miner id that is not the id of a miner

ASSUME ConfigAssumption ==
  /\ PoolSize \in Nat \ {0}
  /\ TxsPerBlock \in Nat \ {0}
  /\ BlockchainBlocks \in Nat \ {0}
  /\ MaxTx \in Nat
  /\ MayFail \in BOOLEAN

ASSUME ProcessAssumption ==
  /\ Primary \notin Children
  /\ Unknown \notin Miners
  /\ IsFiniteSet(TxGens) /\ IsFiniteSet(Miners) /\ IsFiniteSet(Children)

Validators == {Primary} \cup Children

Slot == 1..PoolSize

\* A transaction is known by its generator and the generator's counter.
Tx == TxGens \X (0..(MaxTx - 1))

\* prev stands for previous_block_hash: the number of blocks the ledger held
\* when the hash was read, 0 for INITIAL_HASH.
\* miner is the id that travels with the block.
Block == [miner : Miners \cup {Unknown}, prev : Nat,
          txs : [1..TxsPerBlock -> Tx]]

\* What one miner writes to the pipe, in one piece or mixed with the bytes of
\* miners that write at the same time.
Frame == [blk : Block, whole : BOOLEAN]

Message == [miner : Miners \cup {Unknown}, valid : BOOLEAN]

ASSUME ValueAssumption ==
  /\ NoTx \notin Tx
  /\ NoBlock \notin Block
  /\ Garbage \notin Frame

VARIABLES
  slotTx,         \* transactions_list[i].transaction, stale ones included
  empty,          \* the slots whose flag empty is 1: free or reserved
  occupancy,      \* pool->occupancy, a percentage
  work,           \* the value of work_notification_sem
  counter,        \* transaction_counter of each generator
  gpc,            \* where each generator is
  mpc,            \* where each miner is
  lastHash,       \* previous_hash of each miner
  mblk,           \* the block each miner mines or sends
  torn,           \* miners whose frame is mixed with other bytes
  pipe,           \* frames in VALIDATOR_INPUT
  vpc,            \* where each validator is
  vblk,           \* the block each validator works on
  report,         \* the arguments of each validator's send_statistics
  active,         \* active_validators of the primary
  ledger,         \* the blocks of the ledger
  msgq,           \* the message queue
  valid_blocks,   \* counters of the statistics process, per miner
  invalid_blocks

poolVars  == <<slotTx, empty, occupancy>>
genVars   == <<counter, gpc>>
minerVars == <<mpc, lastHash, mblk, torn>>
valVars   == <<vpc, vblk, report, active>>
statVars  == <<valid_blocks, invalid_blocks>>

vars == <<slotTx, empty, occupancy, work, counter, gpc, mpc, lastHash, mblk,
          torn, pipe, vpc, vblk, report, active, ledger, msgq, valid_blocks,
          invalid_blocks>>

Available == Slot \ empty

\* Variant: the count is not scaled by the size of the pool.
PercentUnscaled(emptySlots) == Cardinality(Slot \ emptySlots) * 100

Percent(emptySlots) == (Cardinality(Slot \ emptySlots) * 100) \div PoolSize

Holding(txs) == {i \in Slot : slotTx[i] \in txs}

TxsOf(b) == IF b = NoBlock THEN {} ELSE {b.txs[i] : i \in 1..TxsPerBlock}
FrameTxs(f) == IF f = Garbage THEN {} ELSE TxsOf(f.blk)

Silent == [miner |-> Unknown, valid |-> FALSE]

Init ==
  /\ slotTx = [i \in Slot |-> NoTx]
  /\ empty = Slot
  /\ occupancy = 0
  /\ work = 0
  /\ counter = [g \in TxGens |-> 0]
  /\ gpc = [g \in TxGens |-> "gen"]
  /\ mpc = [m \in Miners |-> "wait"]
  /\ lastHash = [m \in Miners |-> 0]
  /\ mblk = [m \in Miners |-> NoBlock]
  /\ torn = {}
  /\ pipe = <<>>
  /\ vpc = [v \in Validators |-> IF v = Primary THEN "top" ELSE "off"]
  /\ vblk = [v \in Validators |-> NoBlock]
  /\ report = [v \in Validators |-> Silent]
  /\ active = 1
  /\ ledger = <<>>
  /\ msgq = <<>>
  /\ valid_blocks = [m \in Miners |-> 0]
  /\ invalid_blocks = [m \in Miners |-> 0]

(***************************************************************************)
(* Transaction generators                                                  *)
(***************************************************************************)

\* Variant: the search for a slot keeps the last match.
LastEmpty(i) == i \in empty /\ \A j \in empty : i >= j

FirstEmpty(i) == i \in empty /\ \A j \in empty : i <= j

\* The first slot with empty = 1 takes the transaction, whether it is free or
\* reserved by a miner.  Identifiers are unique here: no duplicate branch.
TxAdd(g) ==
  /\ gpc[g] = "gen"
  /\ counter[g] < MaxTx
  /\ \E i \in Slot :
       /\ FirstEmpty(i)
       /\ slotTx' = [slotTx EXCEPT ![i] = <<g, counter[g]>>]
       /\ empty' = empty \ {i}
  /\ occupancy' = Percent(empty')
  /\ counter' = [counter EXCEPT ![g] = @ + 1]
  /\ gpc' = [gpc EXCEPT ![g] = "notify"]
  /\ UNCHANGED <<work, minerVars, pipe, valVars, ledger, msgq, statVars>>

TxPoolFull(g) ==
  /\ gpc[g] = "gen"
  /\ counter[g] < MaxTx
  /\ empty = {}
  /\ counter' = [counter EXCEPT ![g] = @ + 1]
  /\ UNCHANGED <<poolVars, work, gpc, minerVars, pipe, valVars, ledger, msgq,
                 statVars>>

\* Variant: the semaphore is binary, a second post is lost.
TxNotifyBinary(g) ==
  /\ gpc[g] = "notify"
  /\ work' = 1
  /\ gpc' = [gpc EXCEPT ![g] = "gen"]
  /\ UNCHANGED <<poolVars, counter, minerVars, pipe, valVars, ledger, msgq,
                 statVars>>

TxNotify(g) ==
  /\ gpc[g] = "notify"
  /\ work' = work + 1
  /\ gpc' = [gpc EXCEPT ![g] = "gen"]
  /\ UNCHANGED <<poolVars, counter, minerVars, pipe, valVars, ledger, msgq,
                 statVars>>

(***************************************************************************)
(* Miner threads                                                           *)
(***************************************************************************)

\* Variant: a miner that wakes takes all posts at once.
MinerWakeDraining(m) ==
  /\ mpc[m] = "wait"
  /\ work > 0
  /\ work' = 0
  /\ mpc' = [mpc EXCEPT ![m] = "hash"]
  /\ UNCHANGED <<poolVars, genVars, lastHash, mblk, torn, pipe, valVars,
                 ledger, msgq, statVars>>

MinerWake(m) ==
  /\ mpc[m] = "wait"
  /\ work > 0
  /\ work' = work - 1
  /\ mpc' = [mpc EXCEPT ![m] = "hash"]
  /\ UNCHANGED <<poolVars, genVars, lastHash, mblk, torn, pipe, valVars,
                 ledger, msgq, statVars>>

MinerReadHash(m) ==
  /\ mpc[m] = "hash"
  /\ lastHash' = [lastHash EXCEPT ![m] = Len(ledger)]
  /\ mpc' = [mpc EXCEPT ![m] = "select"]
  /\ UNCHANGED <<poolVars, work, genVars, mblk, torn, pipe, valVars, ledger,
                 msgq, statVars>>

MinerTooFew(m) ==
  /\ mpc[m] = "select"
  /\ Cardinality(Available) < TxsPerBlock
  /\ mpc' = [mpc EXCEPT ![m] = "wait"]
  /\ UNCHANGED <<poolVars, work, genVars, lastHash, mblk, torn, pipe, valVars,
                 ledger, msgq, statVars>>

\* The first TxsPerBlock slots in use, in slot order.
FirstAvailable(s) ==
  /\ \A j, k \in 1..TxsPerBlock : j < k => s[j] < s[k]
  /\ \A i \in Available :
       i < s[TxsPerBlock] => \E k \in 1..TxsPerBlock : s[k] = i

\* Variant: the last transaction selected is not marked.
ReservedButLast(s) == {s[k] : k \in 1..(TxsPerBlock - 1)}

Reserved(s) == {s[k] : k \in 1..TxsPerBlock}

\* Reserving marks the slots empty and leaves the occupancy as it was.
MinerSelect(m) ==
  /\ mpc[m] = "select"
  /\ \E s \in [1..TxsPerBlock -> Available] :
       /\ FirstAvailable(s)
       /\ empty' = empty \cup Reserved(s)
       /\ mblk' = [mblk EXCEPT ![m] =
                     [miner |-> m, prev |-> lastHash[m],
                      txs |-> [k \in 1..TxsPerBlock |-> slotTx[s[k]]]]]
  /\ mpc' = [mpc EXCEPT ![m] = "mine"]
  /\ UNCHANGED <<slotTx, occupancy, work, genVars, lastHash, torn, pipe,
                 valVars, ledger, msgq, statVars>>

\* Variant: every reservation is undone, also those of other miners.
RestoreAllTxs(m) ==
  /\ empty' = {i \in empty : slotTx[i] = NoTx}
  /\ mblk' = [mblk EXCEPT ![m] = NoBlock]
  /\ mpc' = [mpc EXCEPT ![m] = "wait"]

\* The slots that still hold a transaction of the block become available
\* again; neither the occupancy nor the semaphore is touched.
RestoreTxs(m) ==
  /\ empty' = empty \ Holding(TxsOf(mblk[m]))
  /\ mblk' = [mblk EXCEPT ![m] = NoBlock]
  /\ mpc' = [mpc EXCEPT ![m] = "wait"]

\* Two proofs of work in a row ran out of operations.
MinerPowFails(m) ==
  /\ MayFail
  /\ mpc[m] = "mine"
  /\ RestoreTxs(m)
  /\ UNCHANGED <<slotTx, occupancy, work, genVars, lastHash, torn, pipe,
                 valVars, ledger, msgq, statVars>>

Senders == {m \in Miners : mpc[m] = "send"}

\* A frame is seven write() calls and the pipe has no lock: miners that send
\* at the same time may or may not interleave their bytes.
MinerStartSend(m) ==
  /\ mpc[m] = "mine"
  /\ \E T \in SUBSET Senders :
       torn' = IF T = {} THEN torn ELSE torn \cup T \cup {m}
  /\ mpc' = [mpc EXCEPT ![m] = "send"]
  /\ UNCHANGED <<poolVars, work, genVars, lastHash, mblk, pipe, valVars,
                 ledger, msgq, statVars>>

MinerFinishSend(m) ==
  /\ mpc[m] = "send"
  /\ pipe' = Append(pipe, [blk |-> mblk[m], whole |-> m \notin torn])
  /\ torn' = torn \ {m}
  /\ mblk' = [mblk EXCEPT ![m] = NoBlock]
  /\ mpc' = [mpc EXCEPT ![m] = "wait"]
  /\ UNCHANGED <<poolVars, work, genVars, lastHash, valVars, ledger, msgq,
                 statVars>>

\* open() fails, or a write() fails and leaves a part of the frame behind.
MinerSendFails(m) ==
  /\ MayFail
  /\ mpc[m] = "send"
  /\ RestoreTxs(m)
  /\ \/ pipe' = pipe
     \/ pipe' = Append(pipe, Garbage)
  /\ torn' = torn \ {m}
  /\ UNCHANGED <<slotTx, occupancy, work, genVars, lastHash, valVars, ledger,
                 msgq, statVars>>

(***************************************************************************)
(* Validators                                                              *)
(***************************************************************************)

\* A step of validator v that only tests and moves on.
Go(v, from, to) ==
  /\ vpc[v] = from
  /\ vpc' = [vpc EXCEPT ![v] = to]
  /\ UNCHANGED <<poolVars, work, genVars, minerVars, pipe, vblk, report,
                 active, ledger, msgq, statVars>>

\* The pass through the top of the loop that neither forks nor exits.
ValidatorTop(v) ==
  /\ Go(v, "top", "select")
  /\ v \in Children => occupancy > 40

\* active_validators belongs to the primary, which never learns of the exit.
ChildExit(v) ==
  /\ Go(v, "top", "exited")
  /\ v \in Children
  /\ occupancy <= 40

WantsValidator ==
  \/ occupancy >= 80 /\ active < 3
  \/ occupancy >= 60 /\ active < 2

\* Only the primary forks; time (5 s between two forks) is abstracted: the
\* primary may always pass on instead (ValidatorTop).
Fork(c) ==
  /\ vpc[Primary] = "top"
  /\ vpc[c] = "off"
  /\ WantsValidator
  /\ active' = active + 1
  /\ vpc' = [vpc EXCEPT ![Primary] = "select", ![c] = "top"]
  /\ UNCHANGED <<poolVars, work, genVars, minerVars, pipe, vblk, report,
                 ledger, msgq, statVars>>

\* select() times out, or returns for an end of file (all writers have closed
\* the pipe) or for bytes that another validator has read since.
SelectTimeout(v) ==
  /\ Go(v, "select", "top")
  /\ pipe = <<>>

Readable == pipe # <<>> /\ Head(pipe) # Garbage /\ Head(pipe).whole

\* The proof of work of a whole frame holds because its miner checked it.
ReadFrame(v) ==
  /\ vpc[v] = "select"
  /\ Readable
  /\ vblk' = [vblk EXCEPT ![v] = Head(pipe).blk]
  /\ pipe' = Tail(pipe)
  /\ vpc' = [vpc EXCEPT ![v] = "prev"]
  /\ UNCHANGED <<poolVars, work, genVars, minerVars, report, active, ledger,
                 msgq, statVars>>

\* What a read that is out of step with the frames leaves in the pipe, once
\* the first k frames are gone: the next one may have lost its beginning.
Remainders(k) ==
  LET rest == SubSeq(pipe, k + 1, Len(pipe)) IN
    {rest, [i \in 1..Len(rest) |-> IF i = 1 THEN Garbage ELSE rest[i]]}

\* The validators in D take the transactions of a frame each, under a hash
\* and a miner id that need not be theirs; those in R report a bad block; the
\* others in V find nothing they take for a block.
MisreadBy(V, D, R, id, hash, source) ==
  /\ \A v, w \in D : source[v] = source[w] => v = w
  /\ vpc' = [v \in Validators |-> IF v \in D THEN "prev" ELSE
                                  IF v \in R THEN "report" ELSE
                                  IF v \in V THEN "top" ELSE vpc[v]]
  /\ vblk' = [v \in Validators |->
       IF v \in D THEN [miner |-> id[v], prev |-> hash[v],
                       txs |-> pipe[source[v]].blk.txs] ELSE vblk[v]]
  /\ report' = [v \in Validators |->
       IF v \in R THEN [miner |-> id[v], valid |-> FALSE] ELSE report[v]]

\* The validators V read the bytes of the first k frames out of step; by a
\* lucky alignment, transactions of the frames donors survive.
Misread(V, k, donors) ==
  /\ pipe' \in Remainders(k)
  /\ \E D \in SUBSET V : \E R \in SUBSET (V \ D) :
     \E id \in [D \cup R -> Miners \cup {Unknown}] :
     \E hash \in [D -> 0..Len(ledger)], source \in [D -> donors] :
       MisreadBy(V, D, R, id, hash, source)

\* The first frame is mixed with others: only such frames can still yield
\* their transactions.
ReadGarbage(v) ==
  /\ vpc[v] = "select"
  /\ pipe # <<>>
  /\ ~Readable
  /\ \E k \in 1..Len(pipe) :
       Misread({v}, k, {j \in 1..k : pipe[j] # Garbage /\ ~pipe[j].whole})
  /\ UNCHANGED <<poolVars, work, genVars, minerVars, active, ledger, msgq,
                 statVars>>

\* Validators share the file description: several that read at the same time
\* get parts of the same frames each.
ReadTorn(V) ==
  /\ \E v, w \in V : v # w
  /\ \A v \in V : vpc[v] = "select"
  /\ \E k \in 1..Len(pipe) :
       Misread(V, k, {j \in 1..k : pipe[j] # Garbage})
  /\ UNCHANGED <<poolVars, work, genVars, minerVars, active, ledger, msgq,
                 statVars>>

\* Variant: the result of the validation is not passed on.
ReportValid(v, valid) ==
  /\ vpc' = [vpc EXCEPT ![v] = "report"]
  /\ report' = [report EXCEPT ![v] = [miner |-> vblk[v].miner, valid |-> TRUE]]
  /\ vblk' = [vblk EXCEPT ![v] = NoBlock]

\* The block leaves the validator's hands and its outcome is to be reported.
Report(v, valid) ==
  /\ vpc' = [vpc EXCEPT ![v] = "report"]
  /\ report' = [report EXCEPT ![v] = [miner |-> vblk[v].miner, valid |-> valid]]
  /\ vblk' = [vblk EXCEPT ![v] = NoBlock]

\* Variant: the previous hash is not compared.
PrevUnchecked(v) == Go(v, "prev", "txs")

PrevMatches(v) ==
  /\ Go(v, "prev", "txs")
  /\ vblk[v].prev = Len(ledger)

\* The early return of validate_block: the reservations are not undone.
PrevMismatch(v) ==
  /\ vpc[v] = "prev"
  /\ vblk[v].prev # Len(ledger)
  /\ Report(v, FALSE)
  /\ UNCHANGED <<poolVars, work, genVars, minerVars, pipe, active, ledger,
                 msgq, statVars>>

\* Transaction k of the block is still in some slot.
InPool(b, k) == \E i \in Slot : slotTx[i] = b.txs[k]

TxsPresent(v) ==
  /\ Go(v, "txs", "full")
  /\ \A k \in 1..TxsPerBlock : InPool(vblk[v], k)

\* The search stops at the first missing transaction; those found before it
\* go back to the pool.
TxMissing(v) ==
  /\ vpc[v] = "txs"
  /\ \E k \in 1..TxsPerBlock :
       /\ ~InPool(vblk[v], k)
       /\ \A j \in 1..(k - 1) : InPool(vblk[v], j)
       /\ empty' = empty \ Holding({vblk[v].txs[j] : j \in 1..(k - 1)})
  /\ Report(v, FALSE)
  /\ UNCHANGED <<slotTx, occupancy, work, genVars, minerVars, pipe, active,
                 ledger, msgq, statVars>>

\* Variant: the capacity check is off by one.
LedgerHasRoomOffByOne(v) ==
  /\ Go(v, "full", "append")
  /\ Len(ledger) <= BlockchainBlocks

\* num_blocks is read before ledger->mutex is taken.
LedgerHasRoom(v) ==
  /\ Go(v, "full", "append")
  /\ Len(ledger) < BlockchainBlocks

LedgerFull(v) ==
  /\ Go(v, "full", "giveback")
  /\ Len(ledger) >= BlockchainBlocks

AppendBlock(v) ==
  /\ vpc[v] = "append"
  /\ ledger' = Append(ledger, vblk[v])
  /\ vpc' = [vpc EXCEPT ![v] = "remove"]
  /\ UNCHANGED <<poolVars, work, genVars, minerVars, pipe, vblk, report,
                 active, msgq, statVars>>

RemoveTxs(v) ==
  /\ vpc[v] = "remove"
  /\ empty' = empty \cup Holding(TxsOf(vblk[v]))
  /\ occupancy' = Percent(empty')
  /\ Report(v, TRUE)
  /\ UNCHANGED <<slotTx, work, genVars, minerVars, pipe, active, ledger, msgq,
                 statVars>>

\* Variant: the occupancy is left as it was.
GiveBackStale(v) ==
  /\ vpc[v] = "giveback"
  /\ empty' = empty \ Holding(TxsOf(vblk[v]))
  /\ Report(v, TRUE)
  /\ UNCHANGED <<slotTx, occupancy, work, genVars, minerVars, pipe, active,
                 ledger, msgq, statVars>>

\* The block did not fit, its transactions are available again, and it is
\* reported valid all the same.
GiveBack(v) ==
  /\ vpc[v] = "giveback"
  /\ empty' = empty \ Holding(TxsOf(vblk[v]))
  /\ occupancy' = Percent(empty')
  /\ Report(v, TRUE)
  /\ UNCHANGED <<slotTx, work, genVars, minerVars, pipe, active, ledger, msgq,
                 statVars>>

\* Variant: a message replaces the one not yet received.
SendStatisticsMailbox(v) ==
  /\ vpc[v] = "report"
  /\ msgq' = <<report[v]>>
  /\ report' = [report EXCEPT ![v] = Silent]
  /\ vpc' = [vpc EXCEPT ![v] = "top"]
  /\ UNCHANGED <<poolVars, work, genVars, minerVars, pipe, vblk, active,
                 ledger, statVars>>

SendStatistics(v) ==
  /\ vpc[v] = "report"
  /\ msgq' = Append(msgq, report[v])
  /\ report' = [report EXCEPT ![v] = Silent]
  /\ vpc' = [vpc EXCEPT ![v] = "top"]
  /\ UNCHANGED <<poolVars, work, genVars, minerVars, pipe, vblk, active,
                 ledger, statVars>>

(***************************************************************************)
(* Statistics                                                              *)
(***************************************************************************)

\* Adds one to the counter of the miner; an unknown id is ignored.
Counted(counts, msg, valid) ==
  [m \in Miners |-> IF msg.miner = m /\ msg.valid = valid
                    THEN counts[m] + 1 ELSE counts[m]]

StatReceive ==
  /\ msgq # <<>>
  /\ valid_blocks' = Counted(valid_blocks, Head(msgq), TRUE)
  /\ invalid_blocks' = Counted(invalid_blocks, Head(msgq), FALSE)
  /\ msgq' = Tail(msgq)
  /\ UNCHANGED <<poolVars, work, genVars, minerVars, pipe, valVars, ledger>>

-----------------------------------------------------------------------------

GenNext(g) == TxAdd(g) \/ TxPoolFull(g) \/ TxNotify(g)

MinerNext(m) ==
  \/ MinerWake(m) \/ MinerReadHash(m) \/ MinerTooFew(m) \/ MinerSelect(m)
  \/ MinerPowFails(m) \/ MinerStartSend(m) \/ MinerFinishSend(m)
  \/ MinerSendFails(m)

ValidatorNext(v) ==
  \/ ValidatorTop(v) \/ ChildExit(v) \/ SelectTimeout(v)
  \/ ReadFrame(v) \/ ReadGarbage(v)
  \/ PrevMatches(v) \/ PrevMismatch(v) \/ TxsPresent(v) \/ TxMissing(v)
  \/ LedgerHasRoom(v) \/ LedgerFull(v) \/ AppendBlock(v) \/ RemoveTxs(v)
  \/ GiveBack(v) \/ SendStatistics(v)

Next ==
  \/ \E g \in TxGens : GenNext(g)
  \/ \E m \in Miners : MinerNext(m)
  \/ \E v \in Validators : ValidatorNext(v)
  \/ \E c \in Children : Fork(c)
  \/ \E V \in SUBSET Validators : ReadTorn(V)
  \/ StatReceive

Spec == Init /\ [][Next]_vars

\* Every process runs on: generators, miner threads, living validators and
\* the statistics process are scheduled again and again by the kernel.
Fairness ==
  /\ \A g \in TxGens : WF_vars(GenNext(g))
  /\ \A m \in Miners : WF_vars(MinerNext(m))
  /\ \A v \in Validators : WF_vars(ValidatorNext(v))
  /\ WF_vars(StatReceive)

FairSpec == Spec /\ Fairness

-----------------------------------------------------------------------------
(***************************************************************************)
(* Properties                                                              *)
(***************************************************************************)

GenPc == {"gen", "notify"}
MinerPc == {"wait", "hash", "select", "mine", "send"}
CheckPc == {"prev", "txs", "full", "append", "giveback", "remove"}
ValidatorPc == {"off", "top", "select", "report", "exited"} \cup CheckPc

PoolTypeOK ==
  /\ slotTx \in [Slot -> Tx \cup {NoTx}]
  /\ empty \in SUBSET Slot
  /\ occupancy \in 0..100
  /\ work \in Nat

GenTypeOK ==
  /\ counter \in [TxGens -> 0..MaxTx]
  /\ gpc \in [TxGens -> GenPc]

MinerTypeOK ==
  /\ mpc \in [Miners -> MinerPc]
  /\ lastHash \in [Miners -> Nat]
  /\ mblk \in [Miners -> Block \cup {NoBlock}]
  /\ \A m \in Miners : mblk[m] # NoBlock <=> mpc[m] \in {"mine", "send"}
  /\ torn \in SUBSET Miners

ValidatorTypeOK ==
  /\ vpc \in [Validators -> ValidatorPc]
  /\ vblk \in [Validators -> Block \cup {NoBlock}]
  /\ \A v \in Validators : vblk[v] # NoBlock <=> vpc[v] \in CheckPc
  /\ report \in [Validators -> Message]
  /\ active \in 1..3

ChannelTypeOK ==
  /\ pipe \in Seq(Frame \cup {Garbage})
  /\ ledger \in Seq(Block)
  /\ msgq \in Seq(Message)

StatTypeOK ==
  /\ valid_blocks \in [Miners -> Nat]
  /\ invalid_blocks \in [Miners -> Nat]

\* Every variable has its type; a miner holds a block exactly while it mines
\* or sends one, a validator exactly while it checks or stores one.
TypeOK ==
  /\ PoolTypeOK
  /\ GenTypeOK
  /\ MinerTypeOK
  /\ ValidatorTypeOK
  /\ ChannelTypeOK
  /\ StatTypeOK

\* No transaction is in two blocks of the ledger, however the pool, the pipe
\* and the validators interleave: neither the reservations of
\* select_transactions nor the returns of the failure paths ever give one
\* transaction to two blocks that are both accepted.
NoDoubleInclusion ==
  \A j, k \in 1..Len(ledger) :
    j # k => TxsOf(ledger[j]) \cap TxsOf(ledger[k]) = {}

\* A transaction a miner can select is in no block that is being mined, is
\* in the pipe, is being validated, or is in the ledger.
AvailableNotInFlight ==
  \A i \in Available :
    /\ slotTx[i] # NoTx
    /\ \A m \in Miners : slotTx[i] \notin TxsOf(mblk[m])
    /\ \A k \in 1..Len(pipe) : slotTx[i] \notin FrameTxs(pipe[k])
    /\ \A v \in Validators : slotTx[i] \notin TxsOf(vblk[v])
    /\ \A k \in 1..Len(ledger) : slotTx[i] \notin TxsOf(ledger[k])

\* While the primary is the only validator ever created, each block of the
\* ledger names the block before it, although the previous hash is checked
\* in one critical section and the block appended in another.
SoloChainLinked ==
  active = 1 => \A k \in 1..Len(ledger) : ledger[k].prev = k - 1

\* The check of num_blocks outside the mutex lets the ledger exceed its
\* capacity by at most one block per additional validator.
LedgerBound == Len(ledger) <= BlockchainBlocks - 1 + active

\* Reserving transactions leaves the occupancy as it was, so the primary may
\* fork for a pool that miners have emptied; but unless a miner returns
\* transactions, nobody is kept from forking, and no child leaves, for a value
\* below what the pool holds.
OccupancyNotLow == ~MayFail => occupancy >= Percent(empty)

\* The blocks that are being mined, sent, in the pipe or being checked.
InFlight ==
  ({mblk[m] : m \in Miners} \cup {vblk[v] : v \in Validators} \cup
   {pipe[k].blk : k \in {j \in 1..Len(pipe) : pipe[j] # Garbage}}) \ {NoBlock}

\* Generators overwrite the reserved slots of a block from its first one on,
\* so a block with a missing transaction lacks its first one: the loop of
\* validate_block that returns the transactions found returns none.
MissingIsPrefix ==
  \A b \in InFlight : \A j, k \in 1..TxsPerBlock :
    j < k /\ InPool(b, j) => InPool(b, k)

\* Wake-ups that are pending or being acted upon.
Wakeups == work + Cardinality({g \in TxGens : gpc[g] = "notify"})
                + Cardinality({m \in Miners : mpc[m] \in {"hash", "select"}})

\* As long as nothing is returned to the pool (no failure, ledger not full)
\* the semaphore never runs short: a wake-up is left for every transaction
\* beyond an incomplete block, so no full block waits with all miners asleep.
EnoughWakeups ==
  ~MayFail /\ Len(ledger) < BlockchainBlocks =>
    Cardinality(Available) - TxsPerBlock < Wakeups

\* Blocks of the ledger that came with the id of miner m, and blocks reported
\* or about to be reported as valid for m.
InLedger(m) == Cardinality({k \in 1..Len(ledger) : ledger[k].miner = m})
ReportedValid(m) ==
  LET msg == [miner |-> m, valid |-> TRUE] IN
    valid_blocks[m] + Cardinality({k \in 1..Len(msgq) : msgq[k] = msg})
      + Cardinality({v \in Validators :
          report[v] = msg \/ (vpc[v] = "remove" /\ vblk[v].miner = m)})

\* Statistics never miss a block of the ledger that came with the id of a
\* miner, and until the ledger is full they count no other block as valid.
StatsMatchLedger ==
  \A m \in Miners :
    /\ ReportedValid(m) >= InLedger(m)
    /\ Len(ledger) < BlockchainBlocks => ReportedValid(m) = InLedger(m)

\* The ledger implements the abstract chain, with the validators the primary
\* has created as writers.
Abstract == INSTANCE Chain WITH chain <- ledger, writers <- active,
                                Miners <- Miners \cup {Unknown}
ImplementsChain == Abstract!Spec

\* Without failures, the miners empty the pool down to an incomplete block.
PoolDrains ==
  <>[](Cardinality(Available) < TxsPerBlock \/ Len(ledger) >= BlockchainBlocks)

\* In the end the statistics process has counted every block of the ledger
\* that came with a miner's id, and no other unless the ledger became full.
StatsComplete ==
  <>[](\A m \in Miners :
         /\ valid_blocks[m] >= InLedger(m)
         /\ Len(ledger) < BlockchainBlocks => valid_blocks[m] = InLedger(m))

\* Two validators keep what one guarantees: every block names the block
\* before it (validate_block compares with the last block's hash).
ChainLinked == \A k \in 1..Len(ledger) : ledger[k].prev = k - 1

\* blockchain_blocks is the maximum size of the ledger.
LedgerCapacity == Len(ledger) <= BlockchainBlocks

\* A slot that holds a reserved transaction belongs to a block that may still
\* consume or return it, or that is in the ledger.
NoOrphanReservation ==
  \A i \in empty : slotTx[i] # NoTx =>
    \/ \E b \in InFlight : slotTx[i] \in TxsOf(b)
    \/ \E k \in 1..Len(ledger) : slotTx[i] \in TxsOf(ledger[k])

\* A reservation lasts until the block is consumed or returned: the pool
\* still holds every transaction of a block that is mined or sent.
ReservationHeld ==
  \A m \in Miners : mblk[m] # NoBlock =>
    \A k \in 1..TxsPerBlock : InPool(mblk[m], k)
=============================================================================
