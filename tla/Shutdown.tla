------------------------------ MODULE Shutdown ------------------------------
(***************************************************************************)
(* How DEIChain ends: SIGINT from the terminal or to the controller alone, *)
(* the SIGTERM the controller sends to its children one after the other,   *)
(* SIGUSR1, the system calls a signal cuts short and those it does not,    *)
(* the joins and waits, the removal of the IPC objects and the last dump.  *)
(* The pipeline is reduced to the places where a process can wait.         *)
(*                                                                         *)
(* Handlers installed with signal() restart system calls (SA_RESTART):     *)
(* sem_wait and open go on, while pause, select, msgsnd and msgrcv always  *)
(* fail with EINTR.  The controller uses sigaction with no flags, so its   *)
(* waitpid fails too.  A signal is delivered when it is sent: all a delay  *)
(* could add is what a later signal shows as well.  Linux gives a signal   *)
(* for the miner process to its main thread.                               *)
(***************************************************************************)
EXTENDS Integers, FiniteSets

CONSTANTS
  Miners,     \* miner threads
  Primary,    \* the validator forked by the controller
  Children,   \* processes the primary validator may fork
  SigMax,     \* bound: signals the user sends
  MaxTx,      \* bound: transactions the generators add
  PipeCap,    \* blocks that fit into the pipe
  QueueCap    \* messages that fit into the queue

ASSUME BoundAssumption ==
  /\ IsFiniteSet(Miners)
  /\ Primary \notin Children
  /\ SigMax \in Nat
  /\ MaxTx \in Nat
  /\ PipeCap \in Nat \ {0}
  /\ QueueCap \in Nat \ {0}

Validators == {Primary} \cup Children

VARIABLES
  cpc,      \* where the controller is
  kid,      \* which child clean-up is about: 1, 2, 3
  cflag,    \* should_terminate of the controller
  cusr,     \* sigusr1_received_controller
  mpc,      \* where the main thread of the miner process is
  mflag,    \* should_terminate of the miner process
  tpc,      \* where each miner thread is
  work,     \* the value of work_notification_sem
  vpc,      \* where each validator is
  vflag,    \* should_terminate of each validator
  spc,      \* where the statistics process is
  sflag,    \* should_terminate of the statistics process
  susr,     \* sigusr1_received_statistics
  hung,     \* processes that wait in a handler for their own log_mutex
  pipe,     \* whole blocks in VALIDATOR_INPUT
  msgq,     \* messages in the queue
  locked,   \* whether a generator died with pool->mutex
  made,     \* transactions the generators have added
  sigs,     \* signals the user has sent
  terminal, \* whether one of them was typed at the terminal
  late      \* whether one reached the controller during clean-up

ctlVars  == <<cpc, kid, cflag, cusr>>
minVars  == <<mpc, mflag, tpc>>
valVars  == <<vpc, vflag>>
statVars == <<spc, sflag, susr>>
genVars  == <<locked, made>>
userVars == <<sigs, terminal, late>>

vars == <<cpc, kid, cflag, cusr, mpc, mflag, tpc, work, vpc, vflag, spc, sflag,
          susr, hung, pipe, msgq, locked, made, sigs, terminal, late>>

Gone == {"exited", "killed"}

\* Variant: the validator is stopped before the miner.
KidsSwapped == <<"validator", "miner", "statistics">>

\* Variant: the statistics process is stopped first.
KidsStatisticsFirst == <<"statistics", "miner", "validator">>

\* The order of cleanup_resources.
Kids == <<"miner", "validator", "statistics">>

Alive(v) == vpc[v] \notin {"off", "exited"}
Readers == {v \in Validators : Alive(v)}
Writers == {m \in Miners : tpc[m] = "write"}

\* Every critical section of pool->mutex is one action, except the one in
\* which a generator is killed.
PoolFree == ~locked

\* The message queue, the segments and the pipe's name are gone.
Removed == cpc \in {"final", "done"}

CleanUp == {"stop", "wait", "remove", "final"}

\* Places from which log_message or log_atomic_messages is called.
ControllerLogs == {"dump", "stop", "remove", "final"}
StatisticsLogs == {"print", "final"}

Init ==
  /\ cpc = "test" /\ kid = 1 /\ cflag = FALSE /\ cusr = FALSE
  /\ mpc = "test" /\ mflag = FALSE
  /\ tpc = [m \in Miners |-> "top"]
  /\ work = 0
  /\ vpc = [v \in Validators |-> IF v = Primary THEN "top" ELSE "off"]
  /\ vflag = [v \in Validators |-> FALSE]
  /\ spc = "test" /\ sflag = FALSE /\ susr = FALSE
  /\ hung = {}
  /\ pipe = 0 /\ msgq = 0
  /\ locked = FALSE /\ made = 0
  /\ sigs = 0 /\ terminal = FALSE /\ late = FALSE

(***************************************************************************)
(* Delivery of a signal to each kind of process                            *)
(***************************************************************************)

\* After a wait comes the next child, or the removal.
AfterWait == IF kid = 3 THEN "remove" ELSE "stop"
NextKid == IF kid = 3 THEN 3 ELSE kid + 1

\* pause() returns, and so does waitpid(), whose result nobody looks at.
CutController ==
  \/ cpc = "pause" /\ cpc' = "test" /\ UNCHANGED kid
  \/ cpc = "wait" /\ cpc' = AfterWait /\ kid' = NextKid
  \/ cpc \notin {"pause", "wait"} /\ UNCHANGED <<cpc, kid>>

\* The handler logs before it sets the flag: it may have interrupted the
\* very call that holds log_mutex, which is not recursive.
IntController ==
  \/ /\ cpc # "done" /\ "controller" \notin hung
     /\ CutController
     /\ cflag' = TRUE
     /\ late' = (late \/ cpc \in CleanUp)
     /\ UNCHANGED <<cusr, hung>>
  \/ /\ cpc \in ControllerLogs
     /\ hung' = hung \cup {"controller"}
     /\ late' = (late \/ cpc \in CleanUp)
     /\ UNCHANGED ctlVars
  \/ /\ cpc = "done" \/ "controller" \in hung
     /\ UNCHANGED <<ctlVars, hung, late>>

UsrController ==
  /\ cpc # "done" /\ "controller" \notin hung
  /\ CutController
  /\ cusr' = TRUE
  /\ late' = (late \/ cpc \in CleanUp)
  /\ UNCHANGED cflag

StopMiner ==
  /\ mflag' = TRUE
  /\ mpc' = IF mpc = "pause" THEN "test" ELSE mpc

\* select() returns; a msgsnd() that waits for room fails and its message is
\* lost, one that has not begun is not affected.
StopValidators(V) ==
  /\ vflag' = [v \in Validators |-> vflag[v] \/ (v \in V /\ Alive(v))]
  /\ \E blocked \in SUBSET {v \in V : vpc[v] = "report" /\ msgq = QueueCap} :
       vpc' = [v \in Validators |->
                 IF v \in blocked \/ (v \in V /\ vpc[v] = "select")
                 THEN "top" ELSE vpc[v]]

\* msgrcv() returns if the process is in it.
CutStatistics == spc' = IF spc = "recv" THEN "test" ELSE spc

StopStatistics ==
  /\ CutStatistics
  /\ sflag' = TRUE

\* This handler logs as well, but only for SIGUSR1.
UsrStatistics ==
  \/ /\ spc # "exited" /\ "statistics" \notin hung
     /\ CutStatistics
     /\ susr' = TRUE
     /\ UNCHANGED <<sflag, hung>>
  \/ /\ spc \in StatisticsLogs
     /\ hung' = hung \cup {"statistics"}
     /\ UNCHANGED statVars

(***************************************************************************)
(* The user                                                                *)
(***************************************************************************)

Send == sigs < SigMax /\ sigs' = sigs + 1

\* Ctrl+C reaches every process of the group.
CtrlC ==
  /\ Send
  /\ terminal' = TRUE
  /\ IntController /\ StopMiner /\ StopValidators(Validators) /\ StopStatistics
  /\ UNCHANGED <<tpc, work, susr, pipe, msgq, genVars>>

KillController ==
  /\ Send
  /\ IntController
  /\ UNCHANGED <<minVars, work, valVars, statVars, pipe, msgq, genVars,
                 terminal>>

Usr1Controller ==
  /\ Send
  /\ UsrController
  /\ UNCHANGED <<minVars, work, valVars, statVars, hung, pipe, msgq, genVars,
                 terminal>>

Usr1Statistics ==
  /\ Send
  /\ UsrStatistics
  /\ UNCHANGED <<ctlVars, minVars, work, valVars, pipe, msgq, genVars,
                 terminal, late>>

\* A generator has no handler; a signal may end it inside its critical section.
\* Anywhere else its end is no event for the others.
KillGenerator ==
  /\ Send
  /\ locked' = TRUE
  /\ UNCHANGED <<ctlVars, minVars, work, valVars, statVars, hung, pipe, msgq,
                 made, terminal, late>>

User == CtrlC \/ KillController \/ Usr1Controller \/ Usr1Statistics
        \/ KillGenerator

(***************************************************************************)
(* Controller                                                              *)
(***************************************************************************)

\* A step of the controller's own; nothing of it happens in a hung handler.
Controller(from, to) ==
  /\ "controller" \notin hung
  /\ cpc = from
  /\ cpc' = to
  /\ UNCHANGED <<cflag, work, tpc, hung, pipe, msgq, susr, genVars, userVars>>

\* A signal after the test and before pause() does not end the pause.
ControllerTest ==
  /\ Controller("test", IF cflag THEN "stop" ELSE IF cusr THEN "dump"
                        ELSE "idle")
  /\ UNCHANGED <<kid, cusr, mpc, mflag, valVars, spc, sflag>>

ControllerDump ==
  /\ Controller("dump", "idle")
  /\ cusr' = FALSE
  /\ UNCHANGED <<kid, mpc, mflag, valVars, spc, sflag>>

ControllerPause ==
  /\ Controller("idle", "pause")
  /\ UNCHANGED <<kid, cusr, mpc, mflag, valVars, spc, sflag>>

\* kill(pid, SIGTERM), after the line that reports the child before.
ControllerStop ==
  /\ Controller("stop", "wait")
  /\ \/ Kids[kid] = "miner" /\ StopMiner /\ UNCHANGED <<valVars, spc, sflag>>
     \/ /\ Kids[kid] = "validator" /\ StopValidators({Primary})
        /\ UNCHANGED <<mpc, mflag, spc, sflag>>
     \/ /\ Kids[kid] = "statistics" /\ StopStatistics
        /\ UNCHANGED <<mpc, mflag, valVars>>
  /\ UNCHANGED <<kid, cusr>>

KidGone(name) ==
  \/ name = "miner" /\ mpc \in Gone
  \/ name = "validator" /\ vpc[Primary] \in Gone
  \/ name = "statistics" /\ spc \in Gone

\* Variant: waitpid is given WNOHANG.
ControllerReapNoHang ==
  /\ Controller("wait", AfterWait)
  /\ kid' = NextKid
  /\ UNCHANGED <<cusr, mpc, mflag, valVars, spc, sflag>>

ControllerReap ==
  /\ Controller("wait", AfterWait)
  /\ KidGone(Kids[kid])
  /\ kid' = NextKid
  /\ UNCHANGED <<cusr, mpc, mflag, valVars, spc, sflag>>

\* Processes that still run keep the segments and the open pipe; calls on the
\* queue fail from now on.
ControllerRemove ==
  /\ Controller("remove", "final")
  /\ UNCHANGED <<kid, cusr, mpc, mflag, valVars, spc, sflag>>

ControllerFinalDump ==
  /\ Controller("final", "done")
  /\ UNCHANGED <<kid, cusr, mpc, mflag, valVars, spc, sflag>>

ControllerNext ==
  \/ ControllerTest \/ ControllerDump \/ ControllerPause \/ ControllerStop
  \/ ControllerReap \/ ControllerRemove \/ ControllerFinalDump

(***************************************************************************)
(* Miner process                                                           *)
(***************************************************************************)

MainGo(from, to) ==
  /\ mpc = from
  /\ mpc' = to
  /\ UNCHANGED <<ctlVars, mflag, tpc, valVars, statVars, hung, pipe, msgq,
                 genVars, userVars>>

\* Here too a signal may fall between the test and pause().
MainTest == MainGo("test", IF mflag THEN "post" ELSE "idle") /\ UNCHANGED work

MainPause == MainGo("idle", "pause") /\ UNCHANGED work

\* Variant: one post is made, not one for each thread.
MainPostOnce == MainGo("post", "join") /\ work' = work + 1

MainPost == MainGo("post", "join") /\ work' = work + Cardinality(Miners)

MainJoin ==
  /\ MainGo("join", "exited")
  /\ \A m \in Miners : tpc[m] = "exited"
  /\ UNCHANGED work

\* A step of thread m; none is taken after the process was killed.
Thread(m, from, to) ==
  /\ mpc \notin Gone
  /\ tpc[m] = from
  /\ tpc' = [tpc EXCEPT ![m] = to]
  /\ UNCHANGED <<ctlVars, mpc, mflag, valVars, statVars, hung, msgq, genVars,
                 userVars>>

ThreadTop(m) ==
  /\ Thread(m, "top", IF mflag THEN "exited" ELSE "wait")
  /\ UNCHANGED <<work, pipe>>

ThreadWake(m) ==
  /\ work > 0
  /\ Thread(m, "wait", IF mflag THEN "exited" ELSE "select")
  /\ work' = work - 1
  /\ UNCHANGED pipe

\* The flag is tested before and after each of these stages; what the thread
\* has reserved stays reserved.
ThreadQuit(m) ==
  /\ mflag
  /\ \E from \in {"select", "mine"} : Thread(m, from, "exited")
  /\ UNCHANGED <<work, pipe>>

\* Transactions are selected, or there are too few.
ThreadSelect(m) ==
  /\ PoolFree
  /\ \E to \in {"mine", "top"} : Thread(m, "select", to)
  /\ UNCHANGED <<work, pipe>>

\* The proof of work succeeds, or fails twice.
ThreadMine(m) ==
  /\ ~mflag
  /\ \E to \in {"open", "restore"} : Thread(m, "mine", to)
  /\ UNCHANGED <<work, pipe>>

\* open() for writing waits for a reader.
ThreadOpen(m) ==
  /\ Thread(m, "open", "write")
  /\ Readers # {}
  /\ UNCHANGED <<work, pipe>>

\* A thread that calls open() after unlink() fails; one that waits in it does
\* not learn of the removal.
ThreadOpenFails(m) ==
  /\ Thread(m, "open", "restore")
  /\ Removed
  /\ UNCHANGED <<work, pipe>>

ThreadSend(m) ==
  /\ Thread(m, "write", "top")
  /\ Readers # {}
  /\ pipe < PipeCap
  /\ pipe' = pipe + 1
  /\ UNCHANGED work

\* The flag is tested between two writes, not by a write that waits for room.
ThreadAbandon(m) ==
  /\ mflag
  /\ Thread(m, "write", "restore")
  /\ UNCHANGED <<work, pipe>>

ThreadRestore(m) ==
  /\ PoolFree
  /\ Thread(m, "restore", "top")
  /\ UNCHANGED <<work, pipe>>

\* Nobody ignores SIGPIPE: a write without a reader ends the whole process.
BrokenPipe(m) ==
  /\ mpc \notin Gone
  /\ tpc[m] = "write"
  /\ Readers = {}
  /\ mpc' = "killed"
  /\ UNCHANGED <<ctlVars, mflag, tpc, work, valVars, statVars, hung, pipe,
                 msgq, genVars, userVars>>

MainNext == MainTest \/ MainPause \/ MainPost \/ MainJoin

\* What thread m does as long as it is scheduled and nothing blocks it.
ThreadRun(m) ==
  \/ ThreadTop(m) \/ ThreadWake(m) \/ ThreadQuit(m) \/ ThreadSelect(m)
  \/ ThreadMine(m) \/ ThreadOpen(m) \/ ThreadSend(m) \/ ThreadRestore(m)
  \/ BrokenPipe(m)

ThreadNext(m) == ThreadRun(m) \/ ThreadOpenFails(m) \/ ThreadAbandon(m)

(***************************************************************************)
(* Validators                                                              *)
(***************************************************************************)

Validator(v, from, to) ==
  /\ vpc[v] = from
  /\ vpc' = [vpc EXCEPT ![v] = to]
  /\ UNCHANGED <<ctlVars, minVars, work, vflag, statVars, hung, genVars,
                 userVars>>

ValidatorTop(v) ==
  /\ Validator(v, "top", IF vflag[v] THEN "exited" ELSE "manage")
  /\ UNCHANGED <<pipe, msgq>>

\* The occupancy, and the ages when a second has passed, under the lock.
Manage(v) ==
  /\ PoolFree
  /\ Validator(v, "manage", "select")
  /\ UNCHANGED <<pipe, msgq>>

\* The primary needs the lock only if it has not forked for five seconds.
ManageEarly ==
  /\ Validator(Primary, "manage", "select")
  /\ UNCHANGED <<pipe, msgq>>

\* Another process empties the pool: the child leaves.
ChildExit(c) ==
  /\ c \in Children
  /\ PoolFree
  /\ Validator(c, "manage", "exited")
  /\ UNCHANGED <<pipe, msgq>>

\* The child begins with the parent's flag and in the middle of the loop.
Fork(c) ==
  /\ vpc[Primary] = "manage" /\ vpc[c] = "off"
  /\ PoolFree
  /\ vpc' = [vpc EXCEPT ![Primary] = "select", ![c] = "manage"]
  /\ vflag' = [vflag EXCEPT ![c] = vflag[Primary]]
  /\ UNCHANGED <<ctlVars, minVars, work, statVars, hung, pipe, msgq, genVars,
                 userVars>>

SelectTimeout(v) ==
  /\ pipe = 0
  /\ Validator(v, "select", "top")
  /\ UNCHANGED <<pipe, msgq>>

\* The first field of a block is there, all of it or as far as it was written.
StartRead(v) ==
  /\ pipe > 0 \/ Writers # {}
  /\ Validator(v, "select", "read")
  /\ UNCHANGED <<pipe, msgq>>

\* read_fully waits for the rest of the block and does not test the flag.
FinishRead(v) ==
  /\ pipe > 0
  /\ Validator(v, "read", "check")
  /\ pipe' = pipe - 1
  /\ UNCHANGED msgq

\* End of file: no writer has the pipe open any more.
ReadFails(v) ==
  /\ pipe = 0 /\ (Writers = {} \/ mpc \in Gone)
  /\ Validator(v, "read", "top")
  /\ UNCHANGED <<pipe, msgq>>

\* Validation, the ledger and the pool.
Check(v) ==
  /\ PoolFree
  /\ Validator(v, "check", "report")
  /\ UNCHANGED <<pipe, msgq>>

\* A wrong previous hash is reported without the pool's lock.
Reject(v) ==
  /\ Validator(v, "check", "report")
  /\ UNCHANGED <<pipe, msgq>>

\* msgsnd() waits for room; it fails once the queue is removed.
ReportBlock(v) ==
  /\ Validator(v, "report", "top")
  /\ \/ Removed /\ UNCHANGED msgq
     \/ ~Removed /\ msgq < QueueCap /\ msgq' = msgq + 1
  /\ UNCHANGED pipe

ValidatorRun(v) ==
  \/ ValidatorTop(v) \/ Manage(v) \/ ChildExit(v) \/ SelectTimeout(v)
  \/ StartRead(v) \/ FinishRead(v) \/ ReadFails(v) \/ Check(v)
  \/ ReportBlock(v)

ValidatorNext(v) == ValidatorRun(v) \/ Reject(v)

(***************************************************************************)
(* Statistics                                                              *)
(***************************************************************************)

StatisticsGo(from, to) ==
  /\ "statistics" \notin hung
  /\ spc = from
  /\ spc' = to
  /\ UNCHANGED <<ctlVars, minVars, work, valVars, sflag, hung, pipe, genVars,
                 userVars>>

StatisticsTest ==
  /\ StatisticsGo("test", IF sflag THEN "final" ELSE IF susr THEN "print"
                          ELSE "idle")
  /\ UNCHANGED <<msgq, susr>>

\* A second SIGUSR1 during the print is forgotten with the first.
StatisticsPrint ==
  /\ StatisticsGo("print", "idle")
  /\ susr' = FALSE
  /\ UNCHANGED msgq

\* A signal before this step does not end the msgrcv() that follows.
StatisticsBlock == StatisticsGo("idle", "recv") /\ UNCHANGED <<msgq, susr>>

\* Variant: the result of msgrcv is not looked at.
StatisticsReceiveAny ==
  /\ StatisticsGo("recv", "test")
  /\ msgq' = msgq - 1
  /\ UNCHANGED susr

StatisticsReceive ==
  /\ StatisticsGo("recv", "test")
  /\ msgq > 0 /\ ~Removed
  /\ msgq' = msgq - 1
  /\ UNCHANGED susr

\* msgrcv() fails on a queue that is no more.
StatisticsNoQueue ==
  /\ StatisticsGo("recv", "test")
  /\ Removed
  /\ UNCHANGED <<msgq, susr>>

StatisticsFinal == StatisticsGo("final", "exited") /\ UNCHANGED <<msgq, susr>>

StatisticsNext ==
  \/ StatisticsTest \/ StatisticsPrint \/ StatisticsBlock
  \/ StatisticsReceive \/ StatisticsNoQueue \/ StatisticsFinal

(***************************************************************************)
(* Transaction generators                                                  *)
(***************************************************************************)

Generate ==
  /\ PoolFree
  /\ made < MaxTx
  /\ made' = made + 1
  /\ work' = work + 1
  /\ UNCHANGED <<ctlVars, minVars, valVars, statVars, hung, pipe, msgq, locked,
                 userVars>>

-----------------------------------------------------------------------------

Next ==
  \/ User
  \/ ControllerNext
  \/ MainNext \/ \E m \in Miners : ThreadNext(m)
  \/ \E v \in Validators : ValidatorNext(v)
  \/ ManageEarly \/ \E c \in Children : Fork(c)
  \/ StatisticsNext
  \/ Generate

Spec == Init /\ [][Next]_vars

\* The kernel schedules what can run.  Nothing is asked of the user and of the
\* generators, nor of the branches that depend on how far a call has got.
Fairness ==
  /\ WF_vars(ControllerNext)
  /\ WF_vars(MainNext)
  /\ \A m \in Miners : WF_vars(ThreadRun(m))
  /\ \A v \in Validators : WF_vars(ValidatorRun(v))
  /\ WF_vars(StatisticsNext)

FairSpec == Spec /\ Fairness

\* The orderly end: nothing is typed at the terminal, and no signal reaches the
\* controller once it has begun to clean up.  Only steps of the user are left
\* out, and of these nothing is asked.
OrderlySpec == Init /\ [][Next /\ ~terminal' /\ ~late']_vars /\ Fairness

-----------------------------------------------------------------------------
(***************************************************************************)
(* Properties                                                              *)
(***************************************************************************)

ControllerPc ==
  {"test", "dump", "idle", "pause", "stop", "wait", "remove", "final", "done"}
MainPc == {"test", "idle", "pause", "post", "join", "exited", "killed"}
ThreadPc ==
  {"top", "wait", "select", "mine", "open", "write", "restore", "exited"}
ValidatorPc ==
  {"off", "top", "manage", "select", "read", "check", "report", "exited"}
StatisticsPc == {"test", "print", "idle", "recv", "final", "exited"}

ControllerTypeOK ==
  /\ cpc \in ControllerPc
  /\ kid \in 1..3
  /\ cflag \in BOOLEAN /\ cusr \in BOOLEAN

MinerTypeOK ==
  /\ mpc \in MainPc
  /\ mflag \in BOOLEAN
  /\ tpc \in [Miners -> ThreadPc]

ValidatorTypeOK ==
  /\ vpc \in [Validators -> ValidatorPc]
  /\ vflag \in [Validators -> BOOLEAN]

StatisticsTypeOK ==
  /\ spc \in StatisticsPc
  /\ sflag \in BOOLEAN /\ susr \in BOOLEAN

SharedTypeOK ==
  /\ work \in Nat
  /\ hung \in SUBSET {"controller", "statistics"}
  /\ pipe \in 0..PipeCap
  /\ msgq \in 0..QueueCap
  /\ locked \in BOOLEAN
  /\ made \in 0..MaxTx

UserTypeOK ==
  /\ sigs \in 0..SigMax
  /\ terminal \in BOOLEAN /\ late \in BOOLEAN

\* Every variable has its type: no message is received or sent but one that
\* is there or finds room, and no process is where its code cannot be.
TypeOK ==
  /\ ControllerTypeOK
  /\ MinerTypeOK
  /\ ValidatorTypeOK
  /\ StatisticsTypeOK
  /\ SharedTypeOK
  /\ UserTypeOK

\* The IPC objects are removed only when the miners, the first validator and
\* the statistics process have ended, if no signal reached the controller
\* during clean-up: one that falls into a wait cuts it short.
QuietRemoval ==
  Removed /\ ~late =>
    mpc \in Gone /\ vpc[Primary] = "exited" /\ spc = "exited"

\* Stopped through the controller alone, no miner thread ever opens or writes
\* a pipe without readers: validators outlive the miners.
PipeKeepsReader ==
  ~terminal /\ ~late =>
    /\ mpc # "killed"
    /\ mpc \notin Gone /\ Readers = {} =>
         \A m \in Miners : tpc[m] \notin {"open", "write"}

\* Stopped through the controller alone, the final statistics are printed
\* when no miner thread and not the first validator can add to them.
StatisticsLast ==
  ~terminal /\ ~late /\ spc \in {"final", "exited"} =>
    mpc \in Gone /\ vpc[Primary] = "exited"

(***************************************************************************)
(* What can keep the controller from ending                                *)
(***************************************************************************)

\* The flag was set between its test and the call that now sleeps.
LostWakeup ==
  \/ cpc = "pause" /\ cflag
  \/ mpc = "pause" /\ mflag
  \/ spc = "recv" /\ sflag /\ msgq = 0

\* A handler waits for the mutex of the call it interrupted.
LogDeadlock == hung # {}

\* The generator died with pool->mutex.
PoolLockLost == locked

\* The main thread posts once for each miner thread before it joins them: from
\* then on every thread that has not ended finds a post should it wait for one,
\* whoever takes the others.
JoinersWoken ==
  mpc = "join" => Cardinality({m \in Miners : tpc[m] # "exited"}) <= work

\* Under OrderlySpec: once the controller has seen SIGINT it stops its children,
\* cleans up and ends.  No thread, open(), read or msgsnd() keeps it waiting for
\* ever; all that can is a signal lost between a test and a sleep, a handler
\* that waits for its own log_mutex, or a pool lock that a killed generator held.
ShutdownEnds ==
  <>cflag =>
    <>(cpc = "done") \/ <>[](LostWakeup \/ LogDeadlock \/ PoolLockLost)

\* README.md: the message queue "ensures Validators do not block".  A validator
\* that is about to report a block gets its message sent, or learns that it
\* cannot.
ReportsSent ==
  \A v \in Validators : vpc[v] = "report" ~> vpc[v] # "report"
=============================================================================
