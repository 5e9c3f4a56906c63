# DEIChain: specification, model checking and proofs

DEIChain simulates a blockchain with processes of one machine: generators put
transactions into a pool in shared memory, miner threads make blocks of them,
validators check the blocks and append them to a ledger in shared memory, and a
statistics process counts the results. This directory holds TLA+ modules that
model that pipeline, TLC configurations that check them on small instances, and
TLAPS proofs that hold for every value of the constants. `PROJECT.json` lists
the runs, the theorems, the hazards, and the source lines of each definition.

    tlc -workers 2 -config MCSolo.cfg MCDeiChain.tla
    tlapm InclusionProofs.tla

## Inventory

| component | source | state | operations | interacts through |
|---|---|---|---|---|
| Controller | `controller.c` | ids of the IPC objects, pids, two signal flags | read the configuration, create IPC objects and processes, dump the ledger, clean up | fork, signals, shared memory |
| Transaction Generator | `txgen.c` | its counter | make a transaction, put it in the pool, notify | pool, `work_notification_sem` |
| Transaction Pool | `data_structures.h` | slots (transaction, `empty`, `age`), `occupancy`, two semaphores | none of its own: generators, miners and validators all write it under `pool->mutex` | shared memory |
| Miner | `miner.c` | per thread: previous hash, block | wait, read the last hash, reserve, mine, send, return on failure | pool, ledger (reads), pipe |
| Proof of Work | `pow.c` | none | hash, search for a nonce, verify | called by miners and validators |
| Named pipe | `miner.c`, `validator.c` | bytes | seven `write()` calls per block, as many reads | shared by all miners and all validators |
| Validator | `validator.c` | `validator_id`, `active_validators`, the block at hand, two timestamps | fork, exit, age the pool, read, validate, append, remove, give back, report | pool, ledger, pipe, queue |
| Blockchain Ledger | `data_structures.h` | `num_blocks`, entries | append (validators), read the last block (miners), dump | shared memory |
| Message queue | `validator.c`, `statistics.c` | messages | `msgsnd`, `msgrcv` | validators to statistics |
| Statistics | `statistics.c` | counters, credits and averages per miner | receive, print | queue, signals |
| Logger | `logger.c` | file, mutex | print one or several lines | called everywhere, also in signal handlers |

What is hard here:

* concurrency without a common lock: the three stages of a validation, the
  append, the removal and the report are separate critical sections, and other
  processes act between any two of them;
* `empty = 1` means *free* as well as *reserved*, and nobody owns a reservation;
* a pipe shared by many writers and, after a fork, by many readers of one file
  description, with frames larger than one `write()`;
* failures on the way (proof of work, `open`, a `write` in the middle of a frame);
* wake-ups counted apart from the transactions they announce;
* the number of validators changing with the occupancy;
* several clocks for one pool: every validator ages it, by its own reckoning of
  when a second has passed;
* termination: flags that are tested before a call that sleeps, system calls
  that a signal cuts short or restarts, a pipe that loses its readers, handlers
  that take a mutex, and a clean-up that waits for some of the processes.

What makes each part correct:

* pool, miners, validators together: a transaction is never in two blocks of
  the ledger, and one that is offered to miners is in no block at all;
* ledger: it only grows, each block names the one before it, and the capacity
  is kept, or, where several validators break that, by how much;
* pool: reservations are held until consumed or returned, and none is orphaned;
* notification: enough posts for what is in the pool;
* statistics: the counts and the credits agree with the ledger;
* rewards: what a transaction is worth depends on its age alone, and a block is
  mined, verified and paid for by the same rewards;
* termination: nothing is removed under a process that still works, the miners
  keep a reader, the final statistics are final, and the controller ends.

## Modules

| module | what it is |
|---|---|
| `DeiChain.tla` | the pipeline: constants, state, one action per critical section or system call, properties |
| `Chain.tla` | the abstract ledger: what readers may rely on |
| `Shutdown.tla` | the same processes seen from where they can wait, with signals and clean-up |
| `Rewards.tla` | the same pipeline with time: ages, rewards, difficulty, credits |
| `MCDeiChain.tla` | symmetry and an action constraint for TLC |
| `DeiChainProofs.tla` | the typing invariant `TypeInv` and `TypeCorrect` |
| `InclusionProofs.tla` | who holds a transaction: `OwnInv`, `NoDoubleInclusion`, `AvailableNotInFlight` |
| `ChainProofs.tla` | `ChainInv`, `SoloChainLinked`, `LedgerBound`, the refinement of `Chain` |
| `OrderProofs.tla` | what generators leave of a block: `OrderInv`, `MissingIsPrefix`, `OccupancyNotLow` |
| `CountProofs.tla` | two counts kept by several processes: `EnoughWakeups`, `StatsMatchLedger` |
| `ShutdownProofs.tla` | typing of `Shutdown`, `ShutInv` and three properties of the clean-up, `WakeInv` and `JoinersWoken` |
| `RewardsProofs.tla` | difficulty and worth: `MinedInv`, `WorthInv`, `MinedVerifies`, `RewardFrozen`, `RewardByAge` |
| `SumProofs.tla` | sums over sets of any size; `AgeInv`, `AgeBound`, `CreditInv`, `CreditsMatchLedger`, typing of `Rewards` |

The three models look at one program from three sides. What one of them leaves
out is in another: `DeiChain` has the slots, the blocks and the pipe in detail
and neither time nor signals; `Rewards` adds time and worth and takes the pipe
as a queue of whole blocks; `Shutdown` keeps of each process the places where
it waits and of each channel how full it is. Put together, their states
would be out of reach of a model checker.

### Plan

Done: the pipeline, its abstraction, termination, ages and rewards, and the
proofs of every invariant that a run checks and of the refinement. What would
come next:

1. `PipeFraming`: the frame as a sequence of fields, written and read field by
   field, refining the reading actions of `DeiChain`; lists shorter than
   configured, and the credit to the miner that mined the block.
2. A second start of the controller on the segments and the queue of a run that
   was killed.
3. Small bounds: identifiers cut off at `TX_ID_LEN`, the line arrays of the dump
   and of the print.

## How DeiChain follows the code

A critical section of `pool->mutex` or `ledger->mutex` is one action: nobody
else may see or change what it protects before it ends. A semaphore operation
and an access to the queue is one action too. Everything between two such
points interleaves.

| variable | code |
|---|---|
| `slotTx`, `empty` | `transactions_list[i].transaction` and the set of `i` with `empty == 1`; a removed or reserved transaction stays readable in its slot, as in the code |
| `occupancy` | `pool->occupancy`, recomputed only where the code does so: not by a reservation, not by a miner's return |
| `work` | `work_notification_sem` |
| `counter`, `gpc` | `transaction_counter`; `gen` or between `sem_post(mutex)` and `sem_post(work...)` |
| `mpc` | `wait` (sem_wait), `hash` (reads the last block), `select`, `mine` (proof of work), `send` (between the first and the last `write`) |
| `lastHash`, `mblk` | `previous_hash` and `block` of the thread |
| `torn` | miners whose frame has been mixed with another's |
| `pipe` | frames in `VALIDATOR_INPUT`, and remains of frames (`Garbage`) |
| `vpc`, `vblk`, `report` | `top` of the loop, `select`, `prev`, `txs`, `full`, `append`, `remove`, `giveback`, `report`; `off` before the fork, `exited` |
| `active` | `active_validators` of the primary |
| `ledger`, `msgq`, `valid_blocks`, `invalid_blocks` | as named |

* **Hashes.** `prev` is the number of blocks the ledger held when the hash was
  read. Blocks differ in their transactions and entries never change, so, as
  long as SHA-256 does not collide, equal hashes and equal lengths are the
  same. All processes attach the segments in the same order after the fork and
  at the same addresses, so the pointer stored in a ledger entry is readable in
  the miners. After an overrun the extra entry is written over the
  transactions of the first block, and the hash of the entries changes; the
  model keeps the sequence and says so here.
* **Proof of work.** It succeeds, or both attempts fail when `MayFail` holds. A
  block that was read whole carries the nonce its miner found; a block put
  together from an out-of-step read may pass or fail.
* **Mixed frames.** Miners that are in `send` at the same time may mix their
  bytes (`MinerStartSend` chooses), and the validators that are in `select` at
  the same time may share the bytes of some frames (`ReadTorn`, any set of two
  or more). What such a read yields is over-approximated: it takes at least one
  frame off the pipe, may spoil the beginning of the next, and each validator
  may see nothing it takes for a block, a block it rejects under any miner id,
  or a block with the transaction list of one of the frames under any hash and
  id. A list is written by one `write()`; up to 128 transactions it fits
  `PIPE_BUF` and arrives in one piece. The transactions of one frame go to one
  validator only, because bytes are read once. Lists shorter than the
  configured number and lists joined from parts of two are not modelled.
* **Early returns.** `PrevMismatch` leaves the reservations alone, `TxMissing`
  returns what precedes the missing transaction, `GiveBack` is followed by a
  report of success: all three as in the code.
* **Unreachable code.** With unique identifiers the duplicate branch of
  `add_transaction_to_pool` and the undo branch of `select_transactions` cannot
  be taken; `malloc`, `strdup` and `calloc` do not fail here.
* **Time** is left out: the primary may or may not fork whenever the
  occupancy allows it, and `select()` may time out whenever the pipe is empty.
* **The pipe and the queue** have no capacity limit (`Shutdown` has both).

## How Shutdown follows the code

| variable | code |
|---|---|
| `cpc`, `kid` | the controller: `test`, `dump`, `idle` (about to call `pause`), `pause`; in `cleanup_resources` `stop` (kill) and `wait` (waitpid) for the child `kid`, then `remove`, `final` (last dump), `done` |
| `cflag`, `cusr`, `mflag`, `vflag`, `sflag`, `susr` | `should_terminate` of each process (a child's is a copy of the parent's at the fork) and the SIGUSR1 flags |
| `mpc` | the main thread of the miner process: `test`, `idle`, `pause`, `post`, `join`; `killed` by SIGPIPE |
| `tpc` | each miner thread: `top`, `wait` (sem_wait), `select`, `mine`, `open`, `write`, `restore` |
| `vpc` | each validator: `top`, `manage`, `select`, `read` (read_fully), `check`, `report` (msgsnd) |
| `spc` | `test`, `print`, `idle` (about to call `msgrcv`), `recv`, `final` |
| `work`, `pipe`, `msgq` | the semaphore; how many blocks and messages wait |
| `hung` | processes whose handler waits for the `log_mutex` its own thread holds |
| `locked` | a generator was killed between `sem_wait` and `sem_post` of `pool->mutex` |
| `terminal`, `late` | history: a signal came from the terminal; any signal reached the controller during clean-up, whether or not it cut a wait short |

* **Which calls a signal ends.** The handlers of the children are installed
  with `signal()`, which in glibc sets `SA_RESTART`: `sem_wait`, `open` and
  `read` go on after the handler; `pause`, `select`, `msgsnd` and `msgrcv` fail
  with EINTR in any case. The controller uses `sigaction` with flags 0, so its
  `waitpid` fails too, and its result is not looked at.
* **When a signal is delivered.** At once, at any place. Several places are
  split for that: `idle` is the gap between the test of a flag and the call
  that sleeps, and `report` holds a validator that is about to call `msgsnd` as
  well as one that waits in it (`StopValidators` chooses). A delayed delivery is
  a signal sent later.
* **Which thread gets it.** A signal for the miner process is handled by its
  main thread, which the kernel tries first; the threads never see one.
* **The logger.** `log_message` takes a mutex that is not recursive, and two
  handlers call it: SIGINT of the controller, SIGUSR1 of the statistics
  process. If the handler interrupts a call that holds the mutex, the thread
  waits for itself. The model lets that happen where these processes log
  while their handlers matter (`ControllerLogs`, `StatisticsLogs`).
* **The pipe.** A thread in `write` is a writer, every validator that runs a
  reader (children share the description). `open` for writing waits for a
  reader; a write without one raises SIGPIPE, whose default action ends the
  process (`BrokenPipe`). `read_fully` retries on EAGAIN and returns at the end
  of file, when no writer is left. A thread may `open` after `unlink` and fail,
  or have been in the call before and wait on: both are possible.
* **The removal.** Shared memory stays while it is attached, so processes that
  outlive it go on; the queue is gone at once. Using a semaphore after
  `sem_destroy` is undefined by POSIX; in glibc it changes nothing, and the
  model takes it so.
* **Critical sections** are one action, except for the death of a generator: then
  `PoolFree` is false for ever and whoever needs the lock stays where it is.
* **Left out**: signals before the handlers are installed; the ledger's
  semaphore, which only the processes modelled here take and none of them dies
  with; a SIGKILL of other processes.

## How Rewards follows the code

| variable | code |
|---|---|
| `now` | `time(NULL)`, in seconds |
| `pool` | `transactions_list`: identifier, reward, `age`, `empty`; `base` and `made` remember the first reward and the second of the insertion |
| `mpc`, `mblk` | `wait`, `mine` and `retry` (first and second proof of work), `send`; the block with its copy of the rewards |
| `pipe` | blocks on their way |
| `vpc`, `vblk`, `valid` | `loop`, `ageing` (between reading the clock and taking the lock), then the stages of a block as in `DeiChain`; the result of `validate_block` |
| `last`, `seen`, `active` | `last_age_update`, `current_time`, validators created |
| `ledger`, `msgq`, `credits` | as named; a message has the miner, the `valid` flag and the total of the rewards |
| `unearned` | history: rewards of blocks that found the ledger full and were reported as valid |

* **Proof of work.** A block's hashes are a function from the nonce to the zeros
  they begin with, chosen when the search begins; `Finds` is the first nonce
  below `POW_MAX_OPS` that has enough, `MayExhaust` that none has. The retry has another
  timestamp and so other hashes. The block carries the zeros of the nonce
  found; `Verify` compares them with the difficulty worked out afresh.
* **Credits.** `send_statistics` adds the rewards up for a valid block only, and
  statistics adds the total of a message to the credits only if its flag says
  valid (`CreditOf`): both tests are in the model.
* **The range of a reward.** A generator makes transactions worth 1 to 3, which
  is the range `data_structures.h:41` gives; ageing takes a reward beyond 3
  (`validator.c:243` adds one for every 50 of age, without a limit). The model
  follows the code, and `RewardByAge` says what a reward then is. Any reward
  from 3 on has the highest difficulty.
* **Ageing.** `current_time` is read before the lock is taken and stored after it
  is released, hence two steps. Only slots with `empty = 0` age: a reserved
  transaction does not. 50 seconds per unit are `AgeStep`.
* **One pass of the loop** may do several things; here each is an action that
  starts and ends at `loop`, so the order of the code is one of those allowed.
* **By choice**: the previous hash (a block may be rejected for it at any time),
  whether the occupancy asks for a fork or an exit, failed sends.
* **Out-of-step reads** are left to `DeiChain`: blocks arrive as they were sent.

## Runs

Bounds of `DeiChain`: a generator makes at most `MaxTx` transactions; the other
constants are the sizes of the configuration file. Generators act alike except for the
identifiers they use. One generator that may run at any time gives every order
of insertions a slot can see; what a second one adds is that two insertions
may both wait to be announced, and `MCPairs` has two for that.

| run | instance | shows | distinct states |
|---|---|---|---|
| `MCSolo` | 2 miners, 1 validator, 2 slots, 1 transaction per block, 2 blocks, 3 transactions, failures | typing, single inclusion, ownership, a linked chain, refinement | 278,201 |
| `MCPairs` | 2 generators, 2 miners, 1 validator, 3 slots, 2 per block, 2 blocks, 2 transactions each, failures | blocks that lose a part of their transactions; statistics | 996,829 |
| `MCScaling` | 1 miner, 2 validators, 3 slots, 1 block, 3 transactions | fork and exit, the race for the last place, ownership and refinement with two writers, statistics, an occupancy that is not too low | 1,927,259 |
| `MCLive` | 2 miners, 1 validator, 4 slots, 2 per block, 2 blocks, 4 transactions, no failures, fair | wake-ups suffice, the pool drains, statistics complete | 151,005 |
| `MCShutdown` | 1 miner thread, 2 validators, 2 signals, 2 transactions, room for 1 block and 1 message | what clean-up keeps: `QuietRemoval`, `PipeKeepsReader`, `StatisticsLast` | 4,237,292 |
| `MCShutdownLive` | 2 miner threads, 1 validator, otherwise the same, fair, the orderly end | each joined thread finds a post; the controller ends, or why not | 522,562 |
| `MCRewards` | 1 miner, 2 validators, 2 slots, 2 per block, 1 block, 4 transactions, 2 seconds, `AgeStep` 2, 2 hashes per search | worth, age, difficulty, credits | 2,036,470 |
| `MCFork` | 2 miners, 2 validators | **violated**: `ChainLinked` | |
| `MCOverrun` | 2 miners, 2 validators, 1 block | **violated**: `LedgerCapacity` | |
| `MCOrphan` | 1 miner, 1 validator | **violated**: `NoOrphanReservation` | |
| `MCOverwrite` | 1 miner, 1 validator | **violated**: `ReservationHeld` | |
| `MCReports` | 1 miner thread, 1 validator, 1 signal, fair | **violated**: `ReportsSent` | |

Why the bounds are enough to be interesting: in `MCSolo` two miners compete for
two slots while a third transaction overwrites a reserved slot; two blocks per
ledger let a block be built on a stale hash and be rejected, and the ledger
fill up. In `MCPairs` a third slot makes the position of an overwritten slot
matter and four transactions allow two whole blocks; in `MCLive` the fourth slot
lets two whole blocks wait at once, so that a lost wake-up would leave one. In
`MCScaling` two out of three slots give an occupancy above 60 % (a fork), and
33 % lets the child exit. The third validator the code allows multiplies the
states beyond what TLC can do in minutes if the ledger is to fill up as well: it
is left to the theorems, which hold for any number of validators
(`LedgerBound` and the refinement among them). In `MCShutdown` two signals give every pair that matters (SIGINT
twice, SIGINT with SIGUSR1, a killed generator and SIGINT), on top of the
SIGTERMs of the clean-up; one place in pipe and queue makes both of them full
with the first block and lets the second one wait; the safety
properties are proved for any number of threads. In `MCShutdownLive` a second
thread may take the post meant for the first, and may keep the pipe open while a
validator waits for the rest of a block that another thread has abandoned; the
validator that is forked is left out there, because nobody waits for it. In
`MCReports` one signal, one thread and one validator are enough. In `MCRewards` two validators
that update twice each within two seconds bring a transaction to `AgeStep` and
its reward from 1 to 2, so that blocks of one and of two difficulties occur;
`Zeros` holds a number that is enough for the lowest difficulty only and one that
is enough for all, so both attempts can fail; a ledger of one block is full soon
enough for blocks to be given back and credited. More is the business of the
proofs, which need no bound.

The five violated properties are statements of the code's own comments and of
its README, quoted in `PROJECT.json`. The runs of `DeiChain` among them use the
constraint `OrderlyPipe` (one writer and one reader at a time), so that no
counterexample rests on what a mixed frame might contain. The passing
properties say what holds in spite of them (`SoloChainLinked` and `LedgerBound`
instead of `ChainLinked` and `LedgerCapacity`; `MissingIsPrefix` says how a block
loses its transactions; `ShutdownEnds` that in the orderly end no report waits
for ever).

Deadlock is checked in the runs of `DeiChain` and `Rewards`: there the primary
never exits and can always read from the pipe or time out, so the system never
stops. It is switched off in those of `Shutdown`, where the system is meant to
come to an end; that it does not stop too early is `ShutdownEnds`.

### Fairness

`FairSpec` asks weak fairness of each generator, each miner thread, each
validator and the statistics process as a whole: the kernel schedules every
process that can run. It asks nothing of single actions; which branch a
process takes is up to the data. Forking, and the coincidence of two readers,
are never forced. `PoolDrains` and `StatsComplete` are stated for runs without
failures (`MayFail = FALSE`): after a failed proof of work nobody is notified
of the returned transactions, and the code does not keep either promise.

In `Shutdown` fairness is weak again and asked of the controller, the main
thread of the miner process, each miner thread, each validator and the
statistics process. The user and the generators need not do anything. Nor is
anything asked of the steps that depend on how far a system call has got or on
timing (`ThreadOpenFails`, `ThreadAbandon`, `Reject`, `ManageEarly`): a thread
that waits in `open` need not be one that fails in it. `OrderlySpec` has the
same fairness and leaves out steps of the user only: what is typed at the
terminal, and signals that reach the controller during clean-up.

### What ShutdownEnds and ReportsSent say

`ShutdownEnds` is about the orderly end: the controller is told by a
`kill -INT` of its own and not disturbed while it cleans up (`OrderlySpec`). It
then ends, unless one of three conditions lasts for ever. TLC shows that there
are no others, in particular that no `open`, `read`, `write`, `msgsnd` or
`sem_wait` of a child keeps the clean-up waiting:

* `LostWakeup`: the flag is set after the test and before `pause` or `msgrcv`
  (`controller.c:412`, `miner.c:469`, `statistics.c:146`);
* `LogDeadlock`: a handler logs while its process holds `log_mutex`
  (`controller.c:359`, `statistics.c:22`);
* `PoolLockLost`: a generator was killed with `pool->mutex` (`txgen.c:77`).

The repository's documents make no statement about these three. `JoinersWoken` is
the safety part of it for the miner process: posts are not addressed, so one
made for a thread may be taken by another; still there are enough.

Ctrl+C tells all processes at once, and then the order of `cleanup_resources` is
of no use. A miner thread may open the pipe after the validators have ended
(`miner.c:140`) and wait for ever: no document says otherwise, so no property does.
But a validator may wait for ever in `msgsnd` (`validator.c:345`), after the
statistics process has ended with the queue full, and the repository's README
says of the queue that it "ensures Validators do not block and Statistics can
receive data reliably" (`README.md:47`). That is `ReportsSent`, and `MCReports`
shows how the code breaks it: the controller waits for that validator, and
would remove the queue only afterwards.

## Proofs

Assumptions about `DeiChain`: `ConfigAssumption` (sizes are positive, as
`read_config` demands), `ProcessAssumption` (finitely many, distinct processes),
`ValueAssumption` (the null values are not transactions, blocks or frames).
About `Shutdown`: `BoundAssumption`; about `Rewards`: `RewardAssumption` and
`ValueAssumption`. The sets of processes may have any size.

* `TypeCorrect`. `TypeInv` strengthens `TypeOK` by `UsedSlotsHold`: a slot in
  use holds a transaction. Without it a miner could make a block of slots that
  never held one.
* `NoDoubleInclusionCorrect`, `AvailableNotInFlightCorrect`. Neither is
  inductive: that a block about to be appended shares nothing with the ledger
  depends on every place a block can be. `OwnInv` lists the places (miners,
  positions of the pipe, validators up to the append, positions of the ledger)
  and says that two places hold different transactions and that a transaction
  in an available slot is in no place. Moving a block between places keeps
  that (one lemma, `TakeOwn`, serves all reads, mixed ones included);
  returning it opens slots only when the place is vacated. It further says that
  identifiers in use were generated (`HeldMinted`, `SlotMinted`), that no two
  slots hold the same one (`SlotUnique`), and that a block that is being removed
  from the pool is in the ledger (`Stored`).
* `SoloChainLinkedCorrect`, `LedgerBoundCorrect`. `ChainInv` counts: a child that
  runs has been counted in `active` (`StartedCounted`), validators that have
  passed the capacity check fit into the places left plus one for each
  additional validator (`RoomKept`), hashes are those of a ledger that existed
  (`PrevRead`), and a lone validator past the comparison still has the last hash
  (`SoloChecked`).
* `ImplementsChainCorrect`. Under `chain <- ledger`, `writers <- active`, the
  append is `Extend` (its three conditions follow from the three invariants
  above), a fork is `AddWriter`, and every other step stutters.

* `MissingIsPrefixCorrect`. A block takes its transactions from the slots in
  order and generators take the first slot with `empty = 1`. `OrderInv` says
  that the transactions of a block in flight lie in the pool in the order of the
  block, and that a block that has lost a transaction has lost all before it.
  A block's slots need `empty = 1` for the second part to be inductive:
  `OwnInv` gives it, because what is available is in no block.
* `OccupancyNotLowCorrect`. Without failures only a removal, an insertion and a
  return by a validator change the number of available slots upwards or
  recompute the percentage, and a block that is given back recomputes it.
  A rejected block returns nothing (`MissingIsPrefix`).
* `EnoughWakeupsCorrect`. The property counts what is posted, about to be posted
  and being acted on. It is inductive together with `FullWhenGivenBack`: a block
  is given back only to a full ledger, so until then the pool only grows by
  insertions, and each brings its post. A miner that gives up has just seen
  that the pool holds less than a block.
* `StatsMatchLedgerCorrect`. `StatsInv` adds that a report on its way belongs to
  a validator at `report`; an append moves a block from one set that is
  counted to another. Counting positions of a sequence is done with bijections
  between the positions before and after a step.
* `ShutdownProofs`. `TypeCorrect` says of the channels that neither is read empty nor
  overfilled. `QuietRemoval`, `PipeKeepsReader` and `StatisticsLast` follow from
  `ShutInv`: without a signal to the controller during clean-up it
  is past a child only if that has ended (`WaitsInOrder`);
  a process ends only if it was told to (`EndsWhenTold`); and, without a signal
  from the terminal, it was told only if the controller had come that far
  (`ToldInOrder`). So the first validator is alive as long as a miner is, and
  the statistics process as long as both.
* `JoinersWokenCorrect`. `WakeInv` adds that only a process that was told to end posts
  and joins. The main thread posts once for each thread; from then on a thread
  that takes a post ends, so posts and threads that have not ended go down
  together.
* `MinedVerifiesCorrect`. `MinedInv` carries `Verify` from the miner to the pipe, the
  validator and the ledger, with the typing it needs; mining with the maximum
  reward and verifying with it is one fact about the block's own copy.

* `RewardFrozenCorrect`, `RewardByAgeCorrect`. Both fail to be inductive for the
  same reason: a reserved slot and a slot with a removed transaction look alike,
  and only the block that holds the reservation tells them apart. `Owned` is the
  ownership argument of `InclusionProofs` for this model: a transaction is at one
  *place* (a miner, a position of the pipe, a validator that may still return it),
  an available one at none, no two slots hold the same one, and identifiers come
  from the counter. With it `Frozen` holds: a slot whose transaction is at a
  place is not aged, because it is not available, and not written over with
  another one of the same identifier. `AliveWorth` extends `RewardByAge` from the
  available slots to those that a place may make available again. It must not
  say more: a removal resets the age and leaves the reward, so a consumed slot
  no longer satisfies the equation, and that no reservation brings it back is
  what ownership is for. Ageing needs one fact of arithmetic (`DivNext`): the
  quotient grows exactly when the next age is divisible by the step.
* `AgeBoundCorrect`. The bound has a product of two variables and a clock for each
  validator, and says nothing of who aged the pool how often. `Agings(d)` says it:
  the updates that validator `v` can have made since second `d`, from its
  `last_age_update` and the time it may have read and not yet used. `AgeInv` holds
  every age below the sum of these over the validators that were started
  (`AgesLimited`), whose number is `active` (`StartedCounted`), and orders the clocks
  (`ClocksRight`). An update raises all ages by one and its own summand by at
  least one; a fork adds a summand; and each is at most `now - made + 2`.
* `CreditsMatchLedgerCorrect`. `CreditInv` adds that a block on its way to the ledger
  was found valid (`AcceptedValid`): rewards are added up and credited by the flag
  and stored by the stage. `FullInv` says that a block is given back to a full
  ledger only, because the ledger never shrinks after the test. An append raises the sum over the ledger and what its validator
  owes, a report moves that to the queue, a receipt moves it to the credits.
* `SumProofs.TypeCorrect` collects the typing parts of the three invariants and adds
  that the semaphore never counts more posts than transactions (`PostsInv`).
* Sums. `SumFunction` of the community modules is a fold, that is, a `CHOOSE` of a
  function with a recursive equation. Induction principles are out of the
  provers' reach, so existence, uniqueness and the bounds of sums are shown by a
  smallest counterexample (`LeastNat`, `SmallestSet`, from the well-foundedness of
  `<`). The lemmas that follow say how a sum changes when one value does
  (`SumUpdate`), when a list grows at the end (`SumAppend`) and when it loses its
  head (`SumTail`).

Only model-checked: the liveness properties `PoolDrains`, `StatsComplete` and
`ShutdownEnds`, which this prover cannot treat. The five properties that the code
violates are refuted by TLC.

## Not modelled

* The bytes of the pipe: what a read that is out of step decodes to is
  over-approximated in `DeiChain`; lists of another length than configured and
  the miner id of such a block are left out.
* Serialisation and SHA-256: hashes do not collide in `DeiChain` and are zeros
  per nonce in `Rewards`.
* A start on IPC objects that a killed run left behind, failures of the set-up
  (`shmget`, `fork`, `pthread_create`, `malloc`), signals during the set-up.
* Identifiers that are cut off: they are unique in all modules. `TX_ID_LEN` leaves
  15 characters for `TX-`, the pid, a hyphen and the counter: with a pid of five
  digits that suffices up to the counter 999999, with one of seven digits up to
  9999 only.
* The text of the log, the dump and the print, the averages and totals, the
  number of lines in their arrays.
* Parsing of the configuration and of the command line, beyond their ranges.

`hazards` in `PROJECT.json` says what these parts expose.
