--------------------------- MODULE ShutdownProofs ---------------------------
(***************************************************************************)
(* Proofs about Shutdown, for every number of miner threads, forked        *)
(* validators, signals, transactions, and places in the pipe and queue.    *)
(***************************************************************************)
EXTENDS Shutdown, FiniteSetTheorems, TLAPS

(***************************************************************************)
(* Typing                                                                  *)
(***************************************************************************)

LEMMA InitType == Init => TypeOK
<1> SUFFICES ASSUME Init PROVE TypeOK
  OBVIOUS
<1>0. kid \in 1..3 /\ sigs \in 0..SigMax
  BY BoundAssumption DEF Init
<1>1. ControllerTypeOK /\ StatisticsTypeOK /\ UserTypeOK
  BY <1>0, Zenon DEF Init, ControllerTypeOK, ControllerPc, StatisticsTypeOK,
     StatisticsPc, UserTypeOK
<1>2. MinerTypeOK
  BY DEF Init, MinerTypeOK, MainPc, ThreadPc
<1>3. ValidatorTypeOK
  BY DEF Init, ValidatorTypeOK, ValidatorPc
<1>4. SharedTypeOK
  <2>1. work \in Nat /\ pipe \in 0..PipeCap /\ msgq \in 0..QueueCap
          /\ made \in 0..MaxTx
    BY BoundAssumption DEF Init
  <2> QED
    BY <2>1, Zenon DEF Init, SharedTypeOK
<1> QED
  BY <1>1, <1>2, <1>3, <1>4 DEF TypeOK

\* What the delivery of a signal leaves of the types.
LEMMA IntControllerType ==
  ASSUME TypeOK, IntController
  PROVE  ControllerTypeOK' /\ hung' \in SUBSET {"controller", "statistics"}
           /\ late' \in BOOLEAN
<1> USE DEF TypeOK, ControllerTypeOK, SharedTypeOK, UserTypeOK, ctlVars
<1>1. late' \in BOOLEAN
  BY DEF IntController
<1>2. hung' \in SUBSET {"controller", "statistics"}
  BY DEF IntController
<1>3. CASE UNCHANGED ctlVars
  BY <1>1, <1>2, <1>3
<1>4. CASE CutController /\ cflag' = TRUE /\ UNCHANGED cusr
  BY <1>1, <1>2, <1>4 DEF CutController, AfterWait, NextKid, ControllerPc
<1> QED
  BY <1>3, <1>4 DEF IntController

LEMMA UsrControllerType ==
  ASSUME TypeOK, UsrController
  PROVE  ControllerTypeOK' /\ late' \in BOOLEAN
BY DEF TypeOK, ControllerTypeOK, UserTypeOK, UsrController, CutController,
   AfterWait, NextKid, ControllerPc

LEMMA StopMinerType ==
  ASSUME TypeOK, StopMiner, UNCHANGED tpc
  PROVE  MinerTypeOK'
BY DEF TypeOK, MinerTypeOK, StopMiner, MainPc

LEMMA StopValidatorsType ==
  ASSUME TypeOK, NEW V \in SUBSET Validators, StopValidators(V)
  PROVE  ValidatorTypeOK'
<1>1. PICK blocked \in SUBSET {v \in V : vpc[v] = "report" /\ msgq = QueueCap} :
        vpc' = [v \in Validators |->
                  IF v \in blocked \/ (v \in V /\ vpc[v] = "select")
                  THEN "top" ELSE vpc[v]]
  BY DEF StopValidators
<1>2. vpc' \in [Validators -> ValidatorPc]
  BY <1>1 DEF TypeOK, ValidatorTypeOK, ValidatorPc
<1>3. vflag' \in [Validators -> BOOLEAN]
  <2>1. \A v \in Validators : vflag[v] \in BOOLEAN
    BY DEF TypeOK, ValidatorTypeOK
  <2> QED
    BY <2>1, Zenon DEF StopValidators
<1> QED
  BY <1>2, <1>3 DEF ValidatorTypeOK

LEMMA StopStatisticsType ==
  ASSUME TypeOK, StopStatistics, UNCHANGED susr
  PROVE  StatisticsTypeOK'
BY DEF TypeOK, StatisticsTypeOK, StopStatistics, CutStatistics, StatisticsPc

LEMMA UserType ==
  ASSUME TypeOK, User
  PROVE  TypeOK'
<1> USE DEF TypeOK
<1>0. ASSUME Send PROVE sigs' \in 0..SigMax
  BY <1>0, BoundAssumption DEF Send, UserTypeOK
<1>1. CASE CtrlC
  <2>1. ControllerTypeOK' /\ hung' \in SUBSET {"controller", "statistics"}
          /\ late' \in BOOLEAN
    BY <1>1, IntControllerType DEF CtrlC
  <2>2. MinerTypeOK'
    BY <1>1, StopMinerType DEF CtrlC
  <2>3. ValidatorTypeOK'
    BY <1>1, StopValidatorsType DEF CtrlC
  <2>4. StatisticsTypeOK'
    BY <1>1, StopStatisticsType DEF CtrlC
  <2>5. SharedTypeOK' /\ UserTypeOK'
    BY <1>0, <1>1, <2>1 DEF CtrlC, SharedTypeOK, UserTypeOK, genVars
  <2> QED
    BY <2>1, <2>2, <2>3, <2>4, <2>5
<1>2. CASE KillController
  <2>1. ControllerTypeOK' /\ hung' \in SUBSET {"controller", "statistics"}
          /\ late' \in BOOLEAN
    BY <1>2, IntControllerType DEF KillController
  <2>2. SharedTypeOK' /\ UserTypeOK'
    BY <1>0, <1>2, <2>1 DEF KillController, SharedTypeOK, UserTypeOK, genVars
  <2> QED
    BY <1>2, <2>1, <2>2 DEF KillController, minVars, valVars, statVars,
       MinerTypeOK, ValidatorTypeOK, StatisticsTypeOK
<1>3. CASE Usr1Controller
  <2>1. ControllerTypeOK' /\ late' \in BOOLEAN
    BY <1>3, UsrControllerType DEF Usr1Controller
  <2>2. SharedTypeOK' /\ UserTypeOK'
    BY <1>0, <1>3, <2>1 DEF Usr1Controller, SharedTypeOK, UserTypeOK, genVars
  <2> QED
    BY <1>3, <2>1, <2>2 DEF Usr1Controller, minVars, valVars, statVars,
       MinerTypeOK, ValidatorTypeOK, StatisticsTypeOK
<1>4. CASE Usr1Statistics
  <2>1. StatisticsTypeOK'
    BY <1>4 DEF Usr1Statistics, UsrStatistics, CutStatistics, statVars,
       StatisticsTypeOK, StatisticsPc
  <2>2. SharedTypeOK' /\ UserTypeOK'
    BY <1>0, <1>4 DEF Usr1Statistics, UsrStatistics, SharedTypeOK, UserTypeOK,
       genVars
  <2> QED
    BY <1>4, <2>1, <2>2 DEF Usr1Statistics, ctlVars, minVars, valVars,
       ControllerTypeOK, MinerTypeOK, ValidatorTypeOK
<1>5. CASE KillGenerator
  <2>1. SharedTypeOK' /\ UserTypeOK'
    BY <1>0, <1>5 DEF KillGenerator, SharedTypeOK, UserTypeOK
  <2> QED
    BY <1>5, <2>1 DEF KillGenerator, ctlVars, minVars, valVars, statVars,
       ControllerTypeOK, MinerTypeOK, ValidatorTypeOK, StatisticsTypeOK
<1> QED
  BY <1>1, <1>2, <1>3, <1>4, <1>5 DEF User

LEMMA ControllerType ==
  ASSUME TypeOK, ControllerNext
  PROVE  TypeOK'
<1> USE DEF TypeOK
<1>1. /\ UNCHANGED <<cflag, work, tpc, hung, pipe, msgq, susr, genVars,
                     userVars>>
  BY DEF ControllerNext, ControllerTest, ControllerDump, ControllerPause,
     ControllerStop, ControllerReap, ControllerRemove, ControllerFinalDump,
     Controller
<1>2. SharedTypeOK' /\ UserTypeOK'
  BY <1>1 DEF SharedTypeOK, UserTypeOK, genVars, userVars
<1>3. ControllerTypeOK'
  <2>1. cpc' \in ControllerPc /\ kid' \in 1..3
    BY DEF ControllerNext, ControllerTest, ControllerDump, ControllerPause,
       ControllerStop, ControllerReap, ControllerRemove, ControllerFinalDump,
       Controller, AfterWait, NextKid, ControllerTypeOK, ControllerPc
  <2>2. cusr' = FALSE \/ cusr' = cusr
    BY Zenon DEF ControllerNext, ControllerTest, ControllerDump,
       ControllerPause, ControllerStop, ControllerReap, ControllerRemove,
       ControllerFinalDump
  <2> QED
    BY <1>1, <2>1, <2>2, Zenon DEF ControllerTypeOK
<1>4. CASE ControllerStop
  <2>1. MinerTypeOK'
    BY <1>1, <1>4, StopMinerType DEF ControllerStop, MinerTypeOK
  <2>2. ValidatorTypeOK'
    BY <1>1, <1>4, StopValidatorsType DEF ControllerStop, ValidatorTypeOK,
       Validators, valVars
  <2>3. StatisticsTypeOK'
    BY <1>1, <1>4, StopStatisticsType DEF ControllerStop, StatisticsTypeOK
  <2> QED
    BY <1>2, <1>3, <2>1, <2>2, <2>3
<1>5. CASE UNCHANGED <<mpc, mflag, valVars, spc, sflag>>
  BY <1>1, <1>2, <1>3, <1>5 DEF valVars, MinerTypeOK, ValidatorTypeOK,
     StatisticsTypeOK
<1> QED
  BY <1>4, <1>5 DEF ControllerNext, ControllerTest, ControllerDump,
     ControllerPause, ControllerReap, ControllerRemove, ControllerFinalDump

LEMMA MinerType ==
  ASSUME TypeOK, MainNext \/ \E m \in Miners : ThreadNext(m)
  PROVE  TypeOK'
<1> USE DEF TypeOK
<1>1. UNCHANGED <<ctlVars, mflag, valVars, statVars, hung, msgq, genVars,
                  userVars>>
  <2>1. CASE MainNext
    BY <2>1 DEF MainNext, MainTest, MainPause, MainPost, MainJoin, MainGo
  <2>2. ASSUME NEW m \in Miners, ThreadNext(m)
        PROVE  UNCHANGED <<ctlVars, mflag, valVars, statVars, hung, msgq,
                           genVars, userVars>>
    BY <2>2 DEF ThreadNext, ThreadRun, ThreadTop, ThreadWake, ThreadQuit,
       ThreadSelect, ThreadMine, ThreadOpen, ThreadOpenFails, ThreadSend,
       ThreadAbandon, ThreadRestore, BrokenPipe, Thread
  <2> QED
    BY <2>1, <2>2
<1>2. ControllerTypeOK' /\ ValidatorTypeOK' /\ StatisticsTypeOK' /\ UserTypeOK'
  BY <1>1 DEF ctlVars, valVars, statVars, userVars, ControllerTypeOK,
     ValidatorTypeOK, StatisticsTypeOK, UserTypeOK
<1>3. SUFFICES MinerTypeOK' /\ work' \in Nat /\ pipe' \in 0..PipeCap
  BY <1>1, <1>2 DEF SharedTypeOK, genVars
<1>4. CASE MainNext
  <2>1. Cardinality(Miners) \in Nat
    BY BoundAssumption, FS_CardinalityType
  <2>2. mpc' \in MainPc /\ tpc' = tpc /\ pipe' = pipe
    BY <1>4 DEF MainNext, MainTest, MainPause, MainPost, MainJoin, MainGo,
       MainPc
  <2>3. work' = work \/ work' = work + Cardinality(Miners)
    BY <1>4 DEF MainNext, MainTest, MainPause, MainPost, MainJoin
  <2> QED
    BY <1>1, <2>1, <2>2, <2>3 DEF MinerTypeOK, SharedTypeOK
<1>5. ASSUME NEW m \in Miners, ThreadNext(m)
      PROVE  MinerTypeOK' /\ work' \in Nat /\ pipe' \in 0..PipeCap
  <2>1. CASE BrokenPipe(m)
    BY <1>1, <2>1 DEF BrokenPipe, MinerTypeOK, MainPc, SharedTypeOK
  <2>2. CASE \E from, to \in ThreadPc : Thread(m, from, to)
    <3>1. MinerTypeOK'
      BY <1>1, <2>2 DEF Thread, MinerTypeOK
    <3>2. work' \in Nat /\ pipe' \in 0..PipeCap
      BY <1>5, BoundAssumption DEF ThreadNext, ThreadRun, ThreadTop,
         ThreadWake, ThreadQuit, ThreadSelect, ThreadMine, ThreadOpen,
         ThreadOpenFails, ThreadSend, ThreadAbandon, ThreadRestore,
         BrokenPipe, SharedTypeOK
    <3> QED
      BY <3>1, <3>2
  <2> QED
    BY <1>5, <2>1, <2>2 DEF ThreadNext, ThreadRun, ThreadTop, ThreadWake,
       ThreadQuit, ThreadSelect, ThreadMine, ThreadOpen, ThreadOpenFails,
       ThreadSend, ThreadAbandon, ThreadRestore, ThreadPc
<1> QED
  BY <1>4, <1>5

\* A step of a validator: where it goes, and what it does to the channels.
LEMMA ValidatorStep ==
  ASSUME TypeOK, NEW v \in Validators,
         ValidatorNext(v) \/ (v = Primary /\ ManageEarly)
  PROVE  /\ \E from, to \in ValidatorPc \ {"off"} :
              /\ Validator(v, from, to)
              /\ from # "exited"
              /\ to = "exited" => v \in Children \/ vflag[v]
         /\ pipe' \in 0..PipeCap
         /\ msgq' \in 0..QueueCap
<1> DEFINE Goes(from, to) == /\ Validator(v, from, to)
                             /\ from # "exited"
                             /\ to = "exited" => v \in Children \/ vflag[v]
<1>1. pipe' \in 0..PipeCap /\ msgq' \in 0..QueueCap
  BY BoundAssumption DEF TypeOK, SharedTypeOK, ValidatorNext, ValidatorRun,
     ValidatorTop, Manage, ManageEarly, ChildExit, SelectTimeout, StartRead,
     FinishRead, ReadFails, Check, Reject, ReportBlock
<1>2. SUFFICES \E from, to \in ValidatorPc \ {"off"} : Goes(from, to)
  BY <1>1
<1>3. CASE ValidatorTop(v)
  <2>1. Goes("top", "exited") \/ Goes("top", "manage")
    BY <1>3 DEF ValidatorTop
  <2> QED
    BY <2>1 DEF ValidatorPc
<1>4. CASE ChildExit(v)
  <2>1. Goes("manage", "exited")
    BY <1>4 DEF ChildExit
  <2> QED
    BY <2>1 DEF ValidatorPc
<1>5. CASE \/ Manage(v) \/ (v = Primary /\ ManageEarly) \/ SelectTimeout(v)
           \/ StartRead(v) \/ FinishRead(v) \/ ReadFails(v) \/ Check(v)
           \/ Reject(v) \/ ReportBlock(v)
  <2>1. PICK from \in ValidatorPc \ {"off", "exited"},
             to \in ValidatorPc \ {"off", "exited"} :
               Validator(v, from, to)
    BY <1>5 DEF Manage, ManageEarly, SelectTimeout, StartRead, FinishRead,
       ReadFails, Check, Reject, ReportBlock, ValidatorPc
  <2> QED
    BY <2>1
<1> QED
  BY <1>3, <1>4, <1>5 DEF ValidatorNext, ValidatorRun

LEMMA ValidatorType ==
  ASSUME TypeOK, NEW v \in Validators,
         ValidatorNext(v) \/ (v = Primary /\ ManageEarly)
  PROVE  TypeOK'
<1>1. PICK from \in ValidatorPc, to \in ValidatorPc : Validator(v, from, to)
  BY ValidatorStep
<1>2. ValidatorTypeOK'
  BY <1>1 DEF TypeOK, ValidatorTypeOK, Validator
<1>3. SharedTypeOK'
  BY <1>1, ValidatorStep DEF TypeOK, SharedTypeOK, Validator, genVars
<1> QED
  BY <1>1, <1>2, <1>3 DEF TypeOK, Validator, ctlVars, minVars, statVars,
     userVars, ControllerTypeOK, MinerTypeOK, StatisticsTypeOK, UserTypeOK

LEMMA ForkType ==
  ASSUME TypeOK, NEW c \in Children, Fork(c)
  PROVE  TypeOK'
<1>1. vpc' \in [Validators -> ValidatorPc]
  BY DEF TypeOK, ValidatorTypeOK, ValidatorPc, Fork
<1>2. vflag' \in [Validators -> BOOLEAN]
  <2>1. vflag \in [Validators -> BOOLEAN] /\ Primary \in Validators
    BY DEF TypeOK, ValidatorTypeOK, Validators
  <2>2. vflag[Primary] \in BOOLEAN
    BY <2>1
  <2> QED
    BY <2>1, <2>2 DEF Fork
<1> QED
  BY <1>1, <1>2 DEF TypeOK, Fork, ctlVars, minVars, statVars, genVars,
     userVars, ControllerTypeOK, MinerTypeOK, ValidatorTypeOK,
     StatisticsTypeOK, SharedTypeOK, UserTypeOK

LEMMA StatisticsType ==
  ASSUME TypeOK, StatisticsNext
  PROVE  TypeOK'
<1>1. /\ UNCHANGED <<ctlVars, minVars, work, valVars, sflag, hung, pipe,
                     genVars, userVars>>
      /\ spc' \in StatisticsPc
  BY DEF StatisticsNext, StatisticsTest, StatisticsPrint, StatisticsBlock,
     StatisticsReceive, StatisticsNoQueue, StatisticsFinal, StatisticsGo,
     StatisticsPc
<1>2. susr' = FALSE \/ susr' = susr
  BY Zenon DEF StatisticsNext, StatisticsTest, StatisticsPrint,
     StatisticsBlock, StatisticsReceive, StatisticsNoQueue, StatisticsFinal
<1>3. msgq' \in 0..QueueCap
  BY BoundAssumption DEF TypeOK, SharedTypeOK, StatisticsNext,
     StatisticsTest, StatisticsPrint, StatisticsBlock, StatisticsReceive,
     StatisticsNoQueue, StatisticsFinal
<1>4. StatisticsTypeOK'
  BY <1>1, <1>2, Zenon DEF TypeOK, StatisticsTypeOK
<1>5. SharedTypeOK'
  BY <1>1, <1>3 DEF TypeOK, SharedTypeOK, genVars
<1> QED
  BY <1>1, <1>4, <1>5 DEF TypeOK, ctlVars, minVars, valVars, userVars,
     ControllerTypeOK, MinerTypeOK, ValidatorTypeOK, UserTypeOK

LEMMA NextType == TypeOK /\ [Next]_vars => TypeOK'
<1> SUFFICES ASSUME TypeOK, [Next]_vars PROVE TypeOK'
  OBVIOUS
<1>1. CASE Generate
  <2>1. SharedTypeOK'
    BY <1>1, BoundAssumption DEF TypeOK, SharedTypeOK, Generate
  <2> QED
    BY <1>1, <2>1 DEF TypeOK, Generate, ctlVars, minVars, valVars, statVars,
       userVars, ControllerTypeOK, MinerTypeOK, ValidatorTypeOK,
       StatisticsTypeOK, UserTypeOK
<1>2. CASE UNCHANGED vars
  BY <1>2 DEF vars, TypeOK, ControllerTypeOK, MinerTypeOK, ValidatorTypeOK,
     StatisticsTypeOK, SharedTypeOK, UserTypeOK
<1>3. Primary \in Validators
  BY DEF Validators
<1> QED
  BY <1>1, <1>2, <1>3, UserType, ControllerType, MinerType, ValidatorType,
     ForkType, StatisticsType DEF Next

\* However signals fall, every process stays in a place its code has, and
\* neither channel is read empty or filled beyond its capacity.
THEOREM TypeCorrect == Spec => []TypeOK
BY InitType, NextType, PTL DEF Spec

(***************************************************************************)
(* Who ends before whom                                                    *)
(***************************************************************************)

\* The first k of the processes that clean-up stops have ended.
Ended(k) ==
  /\ k >= 1 => mpc \in Gone
  /\ k >= 2 => vpc[Primary] = "exited"
  /\ k >= 3 => spc = "exited"

\* Clean-up has waited for those before the child it is about.
WaitsInOrder ==
  /\ cpc \notin CleanUp \cup {"done"} => kid = 1
  /\ ~late => /\ cpc \in {"stop", "wait"} => Ended(kid - 1)
              /\ cpc \in {"remove", "final", "done"} => Ended(3)

\* The first validator and the statistics process end only when told to.
EndsWhenTold ==
  /\ vpc[Primary] # "off"
  /\ vpc[Primary] = "exited" => vflag[Primary]
  /\ spc \in {"final", "exited"} => sflag

\* When only the controller tells them, those before them have ended.
ToldInOrder ==
  ~terminal /\ ~late => /\ vflag[Primary] => Ended(1)
                        /\ sflag => Ended(2)
                        /\ mpc # "killed"

ShutInv == WaitsInOrder /\ EndsWhenTold /\ ToldInOrder

LEMMA Three == /\ 1..3 = {1, 2, 3}
               /\ Kids[1] = "miner" /\ Kids[2] = "validator"
               /\ Kids[3] = "statistics"
BY DEF Kids

LEMMA InitShut == Init => ShutInv
<1> SUFFICES ASSUME Init PROVE ShutInv
  OBVIOUS
<1>1. Primary \in Validators
  BY DEF Validators
<1> QED
  BY <1>1 DEF Init, ShutInv, WaitsInOrder, EndsWhenTold, ToldInOrder, Ended,
     CleanUp

\* What the delivery of a signal does to validators.
LEMMA StoppedValidator ==
  ASSUME TypeOK, NEW V \in SUBSET Validators, StopValidators(V),
         NEW v \in Validators
  PROVE  /\ vpc'[v] = vpc[v] \/ (vpc[v] \in {"report", "select"} /\ vpc'[v] = "top")
         /\ vflag[v] => vflag'[v]
         /\ v \notin V => vflag'[v] = vflag[v]
<1>1. /\ vpc'[v] = vpc[v] \/ (vpc[v] \in {"report", "select"} /\ vpc'[v] = "top")
  BY DEF StopValidators
<1>2. vflag'[v] = (vflag[v] \/ (v \in V /\ Alive(v)))
  BY Zenon DEF StopValidators
<1>3. vflag[v] \in BOOLEAN
  BY DEF TypeOK, ValidatorTypeOK
<1> QED
  BY <1>1, <1>2, <1>3

\* What each process may do to those it does not own.
LEMMA UserStep ==
  ASSUME TypeOK, User
  PROVE  /\ mpc \in Gone => mpc' = mpc
         /\ mpc' = "killed" => mpc = "killed"
         /\ vpc'[Primary] = vpc[Primary]
              \/ (vpc[Primary] \in {"report", "select"} /\ vpc'[Primary] = "top")
         /\ vflag[Primary] => vflag'[Primary]
         /\ spc' = spc \/ (spc = "recv" /\ spc' = "test")
         /\ sflag => sflag'
         /\ terminal => terminal'
         /\ late => late'
         /\ ~terminal' => vflag' = vflag /\ sflag' = sflag
<1> USE DEF TypeOK
<1>0. Primary \in Validators
  BY DEF Validators
<1>1. CASE CtrlC
  <2>1. StopMiner /\ StopValidators(Validators) /\ StopStatistics
          /\ IntController /\ terminal'
    BY <1>1, Zenon DEF CtrlC
  <2>2. /\ mpc \in Gone => mpc' = mpc
        /\ mpc' = "killed" => mpc = "killed"
    BY <2>1 DEF StopMiner, Gone
  <2>3. /\ spc' = spc \/ (spc = "recv" /\ spc' = "test")
        /\ sflag'
    BY <2>1 DEF StopStatistics, CutStatistics
  <2>4. late => late'
    BY <2>1 DEF IntController
  <2> QED
    BY <1>0, <2>1, <2>2, <2>3, <2>4, StoppedValidator
<1>2. CASE KillController
  <2>1. UNCHANGED <<mpc, vpc, vflag, spc, sflag, terminal>>
    BY <1>2 DEF KillController, minVars, valVars, statVars
  <2>2. late => late'
    BY <1>2, Zenon DEF KillController, IntController
  <2> QED
    BY <2>1, <2>2
<1>3. CASE Usr1Controller
  <2>1. UNCHANGED <<mpc, vpc, vflag, spc, sflag, terminal>>
    BY <1>3 DEF Usr1Controller, minVars, valVars, statVars
  <2>2. late => late'
    BY <1>3, Zenon DEF Usr1Controller, UsrController
  <2> QED
    BY <2>1, <2>2
<1>4. CASE Usr1Statistics
  <2>1. UNCHANGED <<mpc, vpc, vflag, sflag, terminal, late>>
    BY <1>4 DEF Usr1Statistics, UsrStatistics, minVars, valVars, statVars
  <2>2. spc' = spc \/ (spc = "recv" /\ spc' = "test")
    BY <1>4 DEF Usr1Statistics, UsrStatistics, CutStatistics, statVars
  <2> QED
    BY <2>1, <2>2
<1>5. CASE KillGenerator
  BY <1>5 DEF KillGenerator, minVars, valVars, statVars
<1> QED
  BY <1>1, <1>2, <1>3, <1>4, <1>5 DEF User

LEMMA UserShut ==
  ASSUME TypeOK, ShutInv, User
  PROVE  ShutInv'
<1>1. EndsWhenTold'
  BY UserStep, Zenon DEF ShutInv, EndsWhenTold
<1>2. \A k \in 0..3 : Ended(k) => Ended(k)'
  BY UserStep, Zenon DEF Ended
<1>3. ToldInOrder'
  BY UserStep, <1>2 DEF ShutInv, ToldInOrder
<1>4. WaitsInOrder'
  <2>1. CASE UNCHANGED <<cpc, kid>>
    BY <1>2, <2>1, UserStep DEF ShutInv, WaitsInOrder, TypeOK,
       ControllerTypeOK
  <2>2. CASE cpc = "pause" /\ cpc' = "test" /\ UNCHANGED kid
    BY <2>2 DEF ShutInv, WaitsInOrder, CleanUp
  <2>3. CASE /\ cpc = "wait" /\ cpc' = AfterWait /\ kid' = NextKid
             /\ late'
    BY <2>3 DEF WaitsInOrder, AfterWait, CleanUp
  <2>4. ASSUME CutController, late' = (late \/ cpc \in CleanUp)
        PROVE  WaitsInOrder'
    BY <2>1, <2>2, <2>3, <2>4 DEF CutController, CleanUp
  <2> QED
    BY <2>1, <2>4 DEF User, CtrlC, KillController, Usr1Controller,
       Usr1Statistics, KillGenerator, IntController, UsrController, ctlVars
<1> QED
  BY <1>1, <1>3, <1>4 DEF ShutInv

\* Nobody but a signal and the controller itself moves the controller.
LEMMA OthersShut ==
  ASSUME TypeOK, ShutInv,
         UNCHANGED <<ctlVars, sflag, userVars>>,
         mpc \in Gone => mpc' = mpc,
         mpc' = "killed" => mpc = "killed" \/ (mpc \notin Gone /\ Readers = {}),
         vpc'[Primary] # "off",
         vpc[Primary] = "exited" => vpc'[Primary] = "exited",
         vpc'[Primary] = "exited" => vflag[Primary],
         vflag'[Primary] = vflag[Primary],
         spc = "exited" => spc' = "exited",
         spc' \in {"final", "exited"} => sflag
  PROVE  ShutInv'
<1>1. \A k \in 0..3 : Ended(k) => Ended(k)'
  BY DEF Ended
<1>2. EndsWhenTold'
  BY DEF EndsWhenTold
<1>3. WaitsInOrder'
  BY <1>1 DEF ShutInv, WaitsInOrder, TypeOK, ControllerTypeOK, ctlVars,
     userVars
<1>4. ASSUME ~terminal, ~late PROVE mpc' # "killed"
  <2>1. SUFFICES ASSUME mpc \notin Gone, Readers = {} PROVE FALSE
    BY <1>4 DEF ShutInv, ToldInOrder
  <2>2. Primary \in Readers \/ vpc[Primary] = "exited"
    BY DEF ShutInv, EndsWhenTold, Readers, Alive, Validators
  <2> QED
    BY <1>4, <2>1, <2>2 DEF ShutInv, EndsWhenTold, ToldInOrder, Ended
<1>5. ToldInOrder'
  BY <1>1, <1>4 DEF ShutInv, ToldInOrder, userVars
<1> QED
  BY <1>2, <1>3, <1>5 DEF ShutInv

LEMMA ControllerShut ==
  ASSUME TypeOK, ShutInv, ControllerNext
  PROVE  ShutInv'
<1>1. UNCHANGED <<cflag, tpc, userVars>>
  BY DEF ControllerNext, ControllerTest, ControllerDump, ControllerPause,
     ControllerStop, ControllerReap, ControllerRemove, ControllerFinalDump,
     Controller
<1>2. Primary \in Validators
  BY DEF Validators
<1>3. CASE ControllerStop
  <2>1. /\ cpc = "stop" /\ cpc' = "wait" /\ kid' = kid
        /\ kid \in {1, 2, 3}
    BY <1>3, Three DEF ControllerStop, Controller, TypeOK, ControllerTypeOK
  <2>2. ~late => Ended(kid - 1)
    BY <2>1 DEF ShutInv, WaitsInOrder
  <2>3. CASE kid = 1
    <3>1. StopMiner /\ UNCHANGED <<valVars, spc, sflag>>
      BY <1>3, <2>3, Three DEF ControllerStop
    <3>2. (mpc \in Gone => mpc' = mpc) /\ (mpc' = "killed" => mpc = "killed")
      BY <3>1 DEF StopMiner, Gone
    <3>3. \A k \in 0..3 : Ended(k) => Ended(k)'
      BY <3>1, <3>2 DEF Ended, valVars
    <3>4. EndsWhenTold' /\ ToldInOrder'
      BY <1>1, <3>1, <3>2, <3>3 DEF ShutInv, EndsWhenTold, ToldInOrder,
         valVars, userVars
    <3> QED
      BY <1>1, <2>1, <2>2, <2>3, <3>3, <3>4 DEF ShutInv, WaitsInOrder,
         CleanUp, userVars
  <2>4. CASE kid = 2
    <3>1. StopValidators({Primary}) /\ UNCHANGED <<mpc, mflag, spc, sflag>>
      BY <1>3, <2>4, Three DEF ControllerStop
    <3>2. /\ vpc'[Primary] = vpc[Primary]
               \/ (vpc[Primary] \in {"report", "select"} /\ vpc'[Primary] = "top")
          /\ vflag[Primary] => vflag'[Primary]
      BY <1>2, <3>1, StoppedValidator
    <3>3. \A k \in 0..3 : Ended(k) => Ended(k)'
      BY <3>1, <3>2 DEF Ended
    <3>4. EndsWhenTold'
      BY <3>1, <3>2, Zenon DEF ShutInv, EndsWhenTold
    <3>5. ToldInOrder'
      BY <1>1, <2>2, <2>4, <3>1, <3>3 DEF ShutInv, ToldInOrder, userVars
    <3> QED
      BY <1>1, <2>1, <2>2, <2>4, <3>3, <3>4, <3>5 DEF ShutInv, WaitsInOrder,
         CleanUp, userVars
  <2>5. CASE kid = 3
    <3>1. StopStatistics /\ UNCHANGED <<mpc, mflag, valVars>>
      BY <1>3, <2>5, Three DEF ControllerStop
    <3>2. sflag' /\ (spc' = spc \/ (spc = "recv" /\ spc' = "test"))
      BY <3>1 DEF StopStatistics, CutStatistics
    <3>3. \A k \in 0..3 : Ended(k) => Ended(k)'
      BY <3>1, <3>2 DEF Ended, valVars
    <3>4. EndsWhenTold'
      BY <3>1, <3>2 DEF ShutInv, EndsWhenTold, valVars
    <3>5. ToldInOrder'
      BY <1>1, <2>2, <2>5, <3>1, <3>3 DEF ShutInv, ToldInOrder, userVars,
         valVars
    <3> QED
      BY <1>1, <2>1, <2>2, <2>5, <3>3, <3>4, <3>5 DEF ShutInv, WaitsInOrder,
         CleanUp, userVars
  <2> QED
    BY <2>1, <2>3, <2>4, <2>5
<1>4. CASE UNCHANGED <<mpc, mflag, valVars, spc, sflag>>
  <2>1. \A k \in 0..3 : Ended(k) => Ended(k)'
    BY <1>4 DEF Ended, valVars
  <2>2. EndsWhenTold' /\ ToldInOrder'
    BY <1>1, <1>4, <2>1 DEF ShutInv, EndsWhenTold, ToldInOrder, valVars,
       userVars
  <2>3. CASE ControllerReap
    <3>1. /\ cpc = "wait" /\ cpc' = AfterWait /\ kid' = NextKid
          /\ KidGone(Kids[kid]) /\ kid \in {1, 2, 3}
      BY <2>3, Three DEF ControllerReap, Controller, TypeOK, ControllerTypeOK
    <3>2. ~late => Ended(kid - 1)
      BY <3>1 DEF ShutInv, WaitsInOrder
    <3>3. vpc[Primary] # "killed" /\ spc # "killed"
      BY <1>2 DEF TypeOK, ValidatorTypeOK, StatisticsTypeOK, ValidatorPc,
         StatisticsPc
    <3>4. ~late => Ended(kid)
      BY <3>1, <3>2, <3>3, Three DEF KidGone, Ended, Gone
    <3> QED
      BY <1>1, <2>1, <2>2, <3>1, <3>4 DEF ShutInv, WaitsInOrder, AfterWait,
         NextKid, CleanUp, userVars
  <2>4. CASE ControllerTest \/ ControllerDump \/ ControllerPause
    <3>1. /\ kid' = kid /\ kid = 1
          /\ cpc' \in {"stop", "dump", "idle", "pause"}
      BY <2>4 DEF ControllerTest, ControllerDump, ControllerPause, Controller,
         ShutInv, WaitsInOrder, CleanUp
    <3> QED
      BY <2>2, <3>1 DEF ShutInv, WaitsInOrder, CleanUp, Ended
  <2>5. CASE ControllerRemove \/ ControllerFinalDump
    <3>1. /\ cpc \in {"remove", "final"} /\ cpc' \in {"final", "done"}
      BY <2>5 DEF ControllerRemove, ControllerFinalDump, Controller
    <3> QED
      BY <1>1, <2>1, <2>2, <3>1 DEF ShutInv, WaitsInOrder, CleanUp, userVars
  <2>6. CASE ControllerStop
    BY <1>3, <2>6
  <2> QED
    BY <2>3, <2>4, <2>5, <2>6 DEF ControllerNext
<1> QED
  BY <1>3, <1>4 DEF ControllerNext, ControllerTest, ControllerDump,
     ControllerPause, ControllerReap, ControllerRemove, ControllerFinalDump

LEMMA MinerShut ==
  ASSUME TypeOK, ShutInv, MainNext \/ \E m \in Miners : ThreadNext(m)
  PROVE  ShutInv'
<1>1. CASE MainNext
  <2>1. /\ UNCHANGED <<ctlVars, valVars, statVars, userVars>>
        /\ mpc \notin Gone /\ mpc' # "killed"
    BY <1>1 DEF MainNext, MainTest, MainPause, MainPost, MainJoin, MainGo,
       Gone
  <2> QED
    BY <2>1, OthersShut DEF ShutInv, EndsWhenTold, valVars, statVars
<1>2. ASSUME NEW m \in Miners, ThreadNext(m) PROVE ShutInv'
  <2>1. /\ UNCHANGED <<ctlVars, valVars, statVars, userVars>>
        /\ mpc \notin Gone
        /\ mpc' = mpc \/ (mpc' = "killed" /\ Readers = {})
    BY <1>2 DEF ThreadNext, ThreadRun, ThreadTop, ThreadWake, ThreadQuit,
       ThreadSelect, ThreadMine, ThreadOpen, ThreadOpenFails, ThreadSend,
       ThreadAbandon, ThreadRestore, BrokenPipe, Thread
  <2> QED
    BY <2>1, OthersShut DEF ShutInv, EndsWhenTold, valVars, statVars
<1> QED
  BY <1>1, <1>2

LEMMA ValidatorShut ==
  ASSUME TypeOK, ShutInv, NEW v \in Validators,
         ValidatorNext(v) \/ (v = Primary /\ ManageEarly)
  PROVE  ShutInv'
<1>1. PICK from \in ValidatorPc \ {"off"}, to \in ValidatorPc \ {"off"} :
        /\ Validator(v, from, to)
        /\ from # "exited"
        /\ to = "exited" => v \in Children \/ vflag[v]
  BY ValidatorStep
<1>2. /\ UNCHANGED <<ctlVars, minVars, vflag, statVars, userVars>>
      /\ vpc[v] = from /\ vpc' = [vpc EXCEPT ![v] = to]
  BY <1>1 DEF Validator
<1>3. /\ Primary \in Validators /\ Primary \notin Children
      /\ vpc \in [Validators -> ValidatorPc]
  BY BoundAssumption DEF Validators, TypeOK, ValidatorTypeOK
<1>4. /\ vpc'[Primary] # "off"
      /\ vpc[Primary] = "exited" => vpc'[Primary] = "exited"
      /\ vpc'[Primary] = "exited" => vflag[Primary]
  BY <1>1, <1>2, <1>3 DEF ShutInv, EndsWhenTold
<1> QED
  BY <1>2, <1>4, OthersShut DEF ShutInv, EndsWhenTold, minVars, statVars

LEMMA ForkShut ==
  ASSUME TypeOK, ShutInv, NEW c \in Children, Fork(c)
  PROVE  ShutInv'
<1>1. c # Primary /\ Primary \in Validators /\ c \in Validators
  BY BoundAssumption DEF Validators
<1>2. vpc'[Primary] = "select" /\ vpc[Primary] = "manage"
  BY <1>1 DEF Fork, TypeOK, ValidatorTypeOK
<1>3. vflag'[Primary] = vflag[Primary]
  BY <1>1 DEF Fork, TypeOK, ValidatorTypeOK
<1> QED
  BY <1>2, <1>3, OthersShut DEF Fork, ShutInv, EndsWhenTold, minVars, statVars

LEMMA StatisticsShut ==
  ASSUME TypeOK, ShutInv, StatisticsNext
  PROVE  ShutInv'
<1>1. /\ UNCHANGED <<ctlVars, minVars, valVars, sflag, userVars>>
      /\ spc # "exited"
  BY DEF StatisticsNext, StatisticsTest, StatisticsPrint, StatisticsBlock,
     StatisticsReceive, StatisticsNoQueue, StatisticsFinal, StatisticsGo
<1>2. spc' \in {"final", "exited"} => sflag
  BY DEF StatisticsNext, StatisticsTest, StatisticsPrint, StatisticsBlock,
     StatisticsReceive, StatisticsNoQueue, StatisticsFinal, StatisticsGo,
     ShutInv, EndsWhenTold
<1> QED
  BY <1>1, <1>2, OthersShut DEF ShutInv, EndsWhenTold, minVars, valVars

LEMMA NextShut == TypeOK /\ ShutInv /\ [Next]_vars => ShutInv'
<1> SUFFICES ASSUME TypeOK, ShutInv, [Next]_vars PROVE ShutInv'
  OBVIOUS
<1>1. CASE Generate \/ UNCHANGED vars
  BY <1>1, OthersShut DEF Generate, vars, ctlVars, minVars, valVars, statVars,
     userVars, ShutInv, EndsWhenTold
<1>2. Primary \in Validators
  BY DEF Validators
<1> QED
  BY <1>1, <1>2, UserShut, ControllerShut, MinerShut, ValidatorShut, ForkShut,
     StatisticsShut DEF Next

LEMMA ShutInvariant == Spec => [](TypeOK /\ ShutInv)
BY InitType, InitShut, NextType, NextShut, PTL DEF Spec

\* The IPC objects are removed only when the processes the controller has
\* waited for have ended, if no signal reached it while it cleaned up.
THEOREM QuietRemovalCorrect == Spec => []QuietRemoval
<1>1. ShutInv => QuietRemoval
  BY DEF ShutInv, WaitsInOrder, Ended, QuietRemoval, Removed
<1> QED
  BY <1>1, ShutInvariant, PTL

\* Stopped through the controller alone, the first validator lives as long as
\* the miners: none of them meets a pipe without readers.
THEOREM PipeKeepsReaderCorrect == Spec => []PipeKeepsReader
<1>1. ShutInv => PipeKeepsReader
  <2>1. Primary \in Readers \/ vpc[Primary] \in {"off", "exited"}
    BY DEF Readers, Alive, Validators
  <2> QED
    BY <2>1 DEF ShutInv, EndsWhenTold, ToldInOrder, Ended, PipeKeepsReader
<1> QED
  BY <1>1, ShutInvariant, PTL

\* Stopped through the controller alone, the final statistics come after the
\* miners and the first validator.
THEOREM StatisticsLastCorrect == Spec => []StatisticsLast
<1>1. ShutInv => StatisticsLast
  BY DEF ShutInv, EndsWhenTold, ToldInOrder, Ended, StatisticsLast
<1> QED
  BY <1>1, ShutInvariant, PTL

(***************************************************************************)
(* The last posts                                                          *)
(***************************************************************************)

Running == {m \in Miners : tpc[m] # "exited"}

\* The threads are joined only by a process that was told to end, so none of
\* them goes on after a wake-up.
WakeInv ==
  /\ mpc \in {"post", "join"} => mflag
  /\ JoinersWoken

LEMMA InitWake == Init => WakeInv
BY DEF Init, WakeInv, JoinersWoken

\* Nothing is taken from the semaphore, and no thread begins anew.
LEMMA WakeKept ==
  ASSUME TypeOK, WakeInv, work' \in Nat, work' >= work,
         \A m \in Miners : tpc[m] = "exited" => tpc'[m] = "exited",
         mpc' = "join" => mpc = "join",
         mpc' \in {"post", "join"} => mflag'
  PROVE  WakeInv'
<1>1. IsFiniteSet(Running) /\ Running' \subseteq Running
  <2>1. IsFiniteSet(Miners) /\ Running \subseteq Miners
    BY BoundAssumption DEF Running
  <2>2. Running' \subseteq Running
    BY DEF Running
  <2> QED
    BY <2>1, <2>2, FS_Subset
<1>2. /\ Cardinality(Running') <= Cardinality(Running)
      /\ Cardinality(Running) \in Nat /\ Cardinality(Running') \in Nat
  BY <1>1, FS_Subset, FS_CardinalityType
<1>3. mpc' = "join" => Cardinality(Running) <= work
  BY DEF WakeInv, JoinersWoken, Running
<1>4. mpc' = "join" => Cardinality(Running') <= work'
  BY <1>2, <1>3 DEF TypeOK, SharedTypeOK
<1> QED
  BY <1>4 DEF WakeInv, JoinersWoken, Running

LEMMA MainWake ==
  ASSUME TypeOK, WakeInv, MainNext
  PROVE  WakeInv'
<1>1. tpc' = tpc /\ mflag' = mflag /\ work \in Nat
  BY DEF MainNext, MainTest, MainPause, MainPost, MainJoin, MainGo, TypeOK,
     SharedTypeOK
<1>2. CASE MainPost
  <2>1. /\ mpc = "post" /\ mpc' = "join" /\ mflag
        /\ work' = work + Cardinality(Miners)
    BY <1>2 DEF MainPost, MainGo, WakeInv
  <2>2. Running' \subseteq Miners /\ IsFiniteSet(Miners)
    BY BoundAssumption DEF Running
  <2>3. /\ Cardinality(Running') <= Cardinality(Miners)
        /\ Cardinality(Running') \in Nat /\ Cardinality(Miners) \in Nat
    BY <2>2, FS_Subset, FS_CardinalityType
  <2>4. Cardinality(Running') <= work'
    BY <1>1, <2>1, <2>3
  <2> QED
    BY <1>1, <2>1, <2>4 DEF WakeInv, JoinersWoken, Running
<1>3. CASE ~ MainPost
  <2>1. /\ work' = work /\ mpc' # "join"
        /\ mpc' = "post" => mflag
    BY <1>3 DEF MainNext, MainTest, MainPause, MainJoin, MainGo
  <2> QED
    BY <1>1, <2>1, WakeKept
<1> QED
  BY <1>2, <1>3

\* A thread that takes a post from the joining process takes it to end.
LEMMA ThreadWakes ==
  ASSUME TypeOK, WakeInv, NEW m \in Miners, ThreadNext(m)
  PROVE  WakeInv'
<1>1. work \in Nat /\ tpc \in [Miners -> ThreadPc] /\ mflag' = mflag
  BY DEF TypeOK, SharedTypeOK, MinerTypeOK, ThreadNext, ThreadRun, ThreadTop,
     ThreadWake, ThreadQuit, ThreadSelect, ThreadMine, ThreadOpen,
     ThreadOpenFails, ThreadSend, ThreadAbandon, ThreadRestore, BrokenPipe,
     Thread
<1>2. CASE ThreadWake(m)
  <2>1. /\ mpc' = mpc /\ work > 0 /\ work' = work - 1 /\ tpc[m] = "wait"
        /\ tpc' = [tpc EXCEPT ![m] = IF mflag THEN "exited" ELSE "select"]
    BY <1>2 DEF ThreadWake, Thread
  <2>2. CASE mpc = "join"
    <3>1. mflag /\ Cardinality(Running) <= work
      BY <2>2 DEF WakeInv, JoinersWoken, Running
    <3>2. m \in Running /\ Running' = Running \ {m}
      BY <1>1, <2>1, <3>1 DEF Running
    <3>3. IsFiniteSet(Running)
      BY BoundAssumption, FS_Subset DEF Running
    <3>4. /\ Cardinality(Running') = Cardinality(Running) - 1
          /\ Cardinality(Running) \in Nat
      BY <3>2, <3>3, FS_RemoveElement, FS_CardinalityType
    <3>5. Cardinality(Running') <= work'
      BY <1>1, <2>1, <3>1, <3>4
    <3> QED
      BY <1>1, <3>1, <3>5 DEF WakeInv, JoinersWoken, Running
  <2>3. CASE mpc # "join"
    BY <1>1, <2>1, <2>3 DEF WakeInv, JoinersWoken
  <2> QED
    BY <2>2, <2>3
<1>3. CASE ~ ThreadWake(m)
  <2>1. /\ work' = work /\ mpc' \in {mpc, "killed"}
        /\ \/ tpc' = tpc
           \/ tpc[m] # "exited" /\ \E to : tpc' = [tpc EXCEPT ![m] = to]
    BY <1>3 DEF ThreadNext, ThreadRun, ThreadTop, ThreadQuit, ThreadSelect,
       ThreadMine, ThreadOpen, ThreadOpenFails, ThreadSend, ThreadAbandon,
       ThreadRestore, BrokenPipe, Thread
  <2>2. \A n \in Miners : tpc[n] = "exited" => tpc'[n] = "exited"
    BY <1>1, <2>1
  <2>3. /\ mpc' = "join" => mpc = "join"
        /\ mpc' \in {"post", "join"} => mflag'
    BY <1>1, <2>1 DEF WakeInv
  <2> QED
    BY <1>1, <2>1, <2>2, <2>3, WakeKept
<1> QED
  BY <1>2, <1>3

LEMMA NextWake == TypeOK /\ WakeInv /\ [Next]_vars => WakeInv'
<1> SUFFICES ASSUME TypeOK, WakeInv, [Next]_vars PROVE WakeInv'
  OBVIOUS
<1>1. CASE MainNext \/ \E m \in Miners : ThreadNext(m)
  BY <1>1, MainWake, ThreadWakes
<1>2. CASE ~ (MainNext \/ \E m \in Miners : ThreadNext(m))
  <2>1. work \in Nat
    BY DEF TypeOK, SharedTypeOK
  <2>2. tpc' = tpc /\ (work' = work \/ work' = work + 1)
    <3>1. CASE User
      BY <3>1 DEF User, CtrlC, KillController, Usr1Controller, Usr1Statistics,
         KillGenerator, minVars
    <3>2. CASE ControllerNext
      BY <3>2 DEF ControllerNext, ControllerTest, ControllerDump,
         ControllerPause, ControllerStop, ControllerReap, ControllerRemove,
         ControllerFinalDump, Controller
    <3>3. ASSUME NEW v \in Validators, ValidatorNext(v) \/ ManageEarly
          PROVE  <2>2
      BY <3>3 DEF ValidatorNext, ValidatorRun, ValidatorTop, Manage, ChildExit,
         SelectTimeout, StartRead, FinishRead, ReadFails, Check, Reject,
         ReportBlock, ManageEarly, Validator, minVars
    <3>4. CASE StatisticsNext
      BY <3>4 DEF StatisticsNext, StatisticsTest, StatisticsPrint,
         StatisticsBlock, StatisticsReceive, StatisticsNoQueue,
         StatisticsFinal, StatisticsGo, minVars
    <3>5. CASE Generate \/ UNCHANGED vars \/ \E c \in Children : Fork(c)
      BY <3>5 DEF Generate, Fork, vars, minVars
    <3>6. Primary \in Validators
      BY DEF Validators
    <3> QED
      BY <1>2, <3>1, <3>2, <3>3, <3>4, <3>5, <3>6 DEF Next
  <2>3. UNCHANGED <<mpc, mflag>> \/ StopMiner
    <3>1. CASE User
      BY <3>1 DEF User, CtrlC, KillController, Usr1Controller, Usr1Statistics,
         KillGenerator, minVars
    <3>2. CASE ControllerNext
      BY <3>2 DEF ControllerNext, ControllerTest, ControllerDump,
         ControllerPause, ControllerStop, ControllerReap, ControllerRemove,
         ControllerFinalDump
    <3>3. ASSUME NEW v \in Validators, ValidatorNext(v) \/ ManageEarly
          PROVE  <2>3
      BY <3>3 DEF ValidatorNext, ValidatorRun, ValidatorTop, Manage, ChildExit,
         SelectTimeout, StartRead, FinishRead, ReadFails, Check, Reject,
         ReportBlock, ManageEarly, Validator, minVars
    <3>4. CASE StatisticsNext
      BY <3>4 DEF StatisticsNext, StatisticsTest, StatisticsPrint,
         StatisticsBlock, StatisticsReceive, StatisticsNoQueue,
         StatisticsFinal, StatisticsGo, minVars
    <3>5. CASE Generate \/ UNCHANGED vars \/ \E c \in Children : Fork(c)
      BY <3>5 DEF Generate, Fork, vars, minVars
    <3>6. Primary \in Validators
      BY DEF Validators
    <3> QED
      BY <1>2, <3>1, <3>2, <3>3, <3>4, <3>5, <3>6 DEF Next
  <2>4. /\ mpc' = "join" => mpc = "join"
        /\ mpc' \in {"post", "join"} => mflag'
    BY <2>3 DEF StopMiner, WakeInv
  <2> QED
    BY <2>1, <2>2, <2>4, WakeKept
<1> QED
  BY <1>1, <1>2

\* However the posts of generators and of the main thread are shared out among
\* the miner threads, each thread the process waits for finds one: the join
\* never waits for a thread that sleeps on the semaphore.
THEOREM JoinersWokenCorrect == Spec => []JoinersWoken
<1>1. Init => TypeOK /\ WakeInv
  BY InitType, InitWake
<1>2. TypeOK /\ WakeInv /\ [Next]_vars => (TypeOK /\ WakeInv)'
  BY NextType, NextWake
<1>3. WakeInv => JoinersWoken
  BY DEF WakeInv
<1> QED
  BY <1>1, <1>2, <1>3, PTL DEF Spec
=============================================================================
