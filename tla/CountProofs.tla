----------------------------- MODULE CountProofs ------------------------------
(***************************************************************************)
(* Two counts that the processes keep together.  The semaphore and the     *)
(* processes that act on it never run short of wake-ups while nothing is   *)
(* returned to the pool; and the blocks of the ledger, the reports on      *)
(* their way and the counters of the statistics process agree.             *)
(***************************************************************************)
EXTENDS OrderProofs

Notifying == {g \in TxGens : gpc[g] = "notify"}
Acting == {m \in Miners : mpc[m] \in {"hash", "select"}}

FullWhenGivenBack ==
  \A v \in Validators : vpc[v] = "giveback" => Len(ledger) >= BlockchainBlocks

WakeInv == FullWhenGivenBack /\ EnoughWakeups

LEMMA WakeCounts ==
  ASSUME TypeInv
  PROVE  /\ IsFiniteSet(Available) /\ Cardinality(Available) \in Nat
         /\ IsFiniteSet(Notifying) /\ Cardinality(Notifying) \in Nat
         /\ IsFiniteSet(Acting) /\ Cardinality(Acting) \in Nat
         /\ work \in Nat
         /\ Wakeups = work + Cardinality(Notifying) + Cardinality(Acting)
<1>1. IsFiniteSet(Slot)
  BY FS_Interval, ConfigAssumption DEF Slot
<1>2. IsFiniteSet(TxGens) /\ IsFiniteSet(Miners)
  BY ProcessAssumption
<1>3. IsFiniteSet(Available)
  BY <1>1, FS_Subset DEF Available
<1>4. IsFiniteSet(Notifying) /\ IsFiniteSet(Acting)
  BY <1>2, FS_Subset DEF Notifying, Acting
<1> QED
  BY <1>3, <1>4, FS_CardinalityType
  DEF Wakeups, Notifying, Acting, TypeInv, TypeOK, PoolTypeOK

\* What a process leaves of a set that it enters or leaves.
LEMMA CountStep ==
  ASSUME NEW S, NEW T, NEW x, IsFiniteSet(S), S \ {x} = T \ {x}
  PROVE  /\ x \notin S /\ x \in T => Cardinality(T) = Cardinality(S) + 1
         /\ x \in S /\ x \notin T => Cardinality(T) = Cardinality(S) - 1
         /\ (x \in S <=> x \in T) => T = S
<1>1. ASSUME x \notin S, x \in T
      PROVE  Cardinality(T) = Cardinality(S) + 1
  <2>1. T = S \cup {x}
    BY <1>1
  <2> QED
    BY <1>1, <2>1, FS_AddElement
<1>2. ASSUME x \in S, x \notin T
      PROVE  Cardinality(T) = Cardinality(S) - 1
  <2>1. T = S \ {x}
    BY <1>2
  <2> QED
    BY <1>2, <2>1, FS_RemoveElement
<1>3. ASSUME x \in S <=> x \in T
      PROVE  T = S
  BY <1>3
<1> QED
  BY <1>1, <1>2, <1>3

LEMMA GenWake ==
  ASSUME TypeInv, TypeInv', NEW g \in TxGens, GenNext(g),
         Cardinality(Available) - TxsPerBlock < Wakeups
  PROVE  Cardinality(Available') - TxsPerBlock < Wakeups'
<1>1. mpc' = mpc
  BY DEF GenNext, TxAdd, TxPoolFull, TxNotify, minerVars
<1>2. Acting' = Acting
  BY <1>1 DEF Acting
<1>3. /\ Wakeups = work + Cardinality(Notifying) + Cardinality(Acting)
      /\ Wakeups' = work' + Cardinality(Notifying') + Cardinality(Acting')
      /\ IsFiniteSet(Available) /\ IsFiniteSet(Notifying)
      /\ Cardinality(Available) \in Nat /\ Cardinality(Notifying) \in Nat
      /\ Cardinality(Acting) \in Nat /\ work \in Nat /\ TxsPerBlock \in Nat
  <2>1. Wakeups' = work' + Cardinality(Notifying') + Cardinality(Acting')
    BY DEF Wakeups, Notifying, Acting
  <2> QED
    BY <2>1, WakeCounts, ConfigAssumption
<1>4. CASE TxAdd(g)
  <2>1. PICK i \in Slot : i \in empty /\ empty' = empty \ {i}
    BY <1>4 DEF TxAdd, FirstEmpty
  <2>2. Cardinality(Available') = Cardinality(Available) + 1
    <3>1. /\ Available \ {i} = Available' \ {i}
          /\ i \notin Available /\ i \in Available'
      BY <2>1 DEF Available
    <3> QED
      BY <1>3, <3>1, CountStep
  <2>3. Cardinality(Notifying') = Cardinality(Notifying) + 1
    <3>1. /\ Notifying \ {g} = Notifying' \ {g}
          /\ g \notin Notifying /\ g \in Notifying'
      BY <1>4 DEF TxAdd, Notifying, TypeInv, TypeOK, GenTypeOK
    <3> QED
      BY <1>3, <3>1, CountStep
  <2>4. work' = work
    BY <1>4 DEF TxAdd
  <2> QED
    BY <1>2, <1>3, <2>2, <2>3, <2>4
<1>5. CASE TxNotify(g)
  <2>1. Available' = Available /\ work' = work + 1
    BY <1>5 DEF TxNotify, poolVars, Available
  <2>2. Cardinality(Notifying') = Cardinality(Notifying) - 1
    <3>1. /\ Notifying \ {g} = Notifying' \ {g}
          /\ g \in Notifying /\ g \notin Notifying'
      BY <1>5 DEF TxNotify, Notifying, TypeInv, TypeOK, GenTypeOK
    <3> QED
      BY <1>3, <3>1, CountStep
  <2> QED
    BY <1>2, <1>3, <2>1, <2>2
<1>6. CASE TxPoolFull(g)
  <2>1. Available' = Available /\ work' = work /\ Notifying' = Notifying
    BY <1>6 DEF TxPoolFull, poolVars, Available, Notifying
  <2> QED
    BY <1>2, <1>3, <2>1
<1> QED
  BY <1>4, <1>5, <1>6 DEF GenNext

LEMMA MinerWakeups ==
  ASSUME TypeInv, TypeInv', NEW m \in Miners, MinerNext(m), ~MayFail,
         Cardinality(Available) - TxsPerBlock < Wakeups
  PROVE  Cardinality(Available') - TxsPerBlock < Wakeups'
<1> USE DEF TypeInv, TypeOK, MinerTypeOK
<1>1. Notifying' = Notifying
  BY DEF MinerNext, MinerWake, MinerReadHash, MinerTooFew, MinerSelect,
     MinerPowFails, MinerStartSend, MinerFinishSend, MinerSendFails, genVars,
     Notifying
<1>2. /\ Wakeups = work + Cardinality(Notifying) + Cardinality(Acting)
      /\ Wakeups' = work' + Cardinality(Notifying') + Cardinality(Acting')
      /\ IsFiniteSet(Available) /\ IsFiniteSet(Acting)
      /\ Cardinality(Available) \in Nat /\ Cardinality(Notifying) \in Nat
      /\ Cardinality(Acting) \in Nat /\ work \in Nat
      /\ TxsPerBlock \in Nat \ {0}
  <2>1. Wakeups' = work' + Cardinality(Notifying') + Cardinality(Acting')
    BY DEF Wakeups, Notifying, Acting
  <2> QED
    BY <2>1, WakeCounts, ConfigAssumption
<1>3. CASE MinerWake(m)
  <2>1. Available' = Available /\ work' = work - 1
    BY <1>3 DEF MinerWake, poolVars, Available
  <2>2. Cardinality(Acting') = Cardinality(Acting) + 1
    <3>1. /\ Acting \ {m} = Acting' \ {m} /\ m \notin Acting /\ m \in Acting'
      BY <1>3 DEF MinerWake, Acting
    <3> QED
      BY <1>2, <3>1, CountStep
  <2> QED
    BY <1>1, <1>2, <2>1, <2>2
<1>4. CASE MinerReadHash(m) \/ MinerStartSend(m) \/ MinerFinishSend(m)
  <2>1. Available' = Available /\ work' = work
    BY <1>4 DEF MinerReadHash, MinerStartSend, MinerFinishSend, poolVars,
       Available
  <2>2. Acting' = Acting
    BY <1>4 DEF MinerReadHash, MinerStartSend, MinerFinishSend, Acting
  <2> QED
    BY <1>1, <1>2, <2>1, <2>2
<1>5. CASE MinerTooFew(m)
  <2>1. /\ Available' = Available /\ work' = work
        /\ Cardinality(Available) < TxsPerBlock
    BY <1>5 DEF MinerTooFew, poolVars, Available
  <2>2. Cardinality(Acting') = Cardinality(Acting) - 1 /\ m \in Acting
    <3>1. /\ Acting \ {m} = Acting' \ {m} /\ m \in Acting /\ m \notin Acting'
      BY <1>5 DEF MinerTooFew, Acting
    <3> QED
      BY <1>2, <3>1, CountStep
  <2>3. Cardinality(Acting) > 0
    BY <1>2, <2>2, FS_EmptySet
  <2> QED
    BY <1>1, <1>2, <2>1, <2>2, <2>3
<1>6. CASE MinerSelect(m)
  <2>1. PICK s \in [1..TxsPerBlock -> Available] :
          empty' = empty \cup Reserved(s)
    BY <1>6 DEF MinerSelect
  <2>2. PICK i \in Available : Available' \subseteq Available \ {i}
    <3>1. s[1] \in Available /\ s[1] \in Reserved(s)
      BY <1>2 DEF Reserved
    <3> QED
      BY <2>1, <3>1 DEF Available
  <2>3. Cardinality(Available') <= Cardinality(Available) - 1
        /\ Cardinality(Available') \in Nat
    <3>1. /\ IsFiniteSet(Available \ {i})
          /\ Cardinality(Available \ {i}) = Cardinality(Available) - 1
      BY <1>2, <2>2, FS_RemoveElement
    <3> QED
      BY <2>2, <3>1, FS_Subset, FS_CardinalityType
  <2>4. Cardinality(Acting') = Cardinality(Acting) - 1
    <3>1. /\ Acting \ {m} = Acting' \ {m} /\ m \in Acting /\ m \notin Acting'
      BY <1>6 DEF MinerSelect, Acting
    <3> QED
      BY <1>2, <3>1, CountStep
  <2>5. work' = work
    BY <1>6 DEF MinerSelect
  <2>6. \A a, b, c, n, t, w \in Nat :
          b <= a - 1 /\ a - t < w + n + c => b - t < w + n + (c - 1)
    OBVIOUS
  <2>7. Wakeups' = work + Cardinality(Notifying) + (Cardinality(Acting) - 1)
    BY <1>1, <1>2, <2>4, <2>5, Zenon
  <2> HIDE DEF TypeInv, TypeOK, MinerTypeOK
  <2> QED
    BY <1>2, <2>3, <2>6, <2>7
<1> QED
  BY <1>3, <1>4, <1>5, <1>6
  DEF MinerNext, MinerPowFails, MinerSendFails

LEMMA LedgerGrows ==
  ASSUME TypeInv, [Next]_vars
  PROVE  Len(ledger) \in Nat /\ Len(ledger') \in Nat
         /\ Len(ledger) <= Len(ledger')
<1>1. ledger \in Seq(Block)
  BY DEF TypeInv, TypeOK, ChannelTypeOK
<1>2. CASE ledger' = ledger
  BY <1>1, <1>2
<1>3. CASE \E v \in Validators : AppendBlock(v)
  <2>1. PICK v \in Validators : AppendBlock(v)
    BY <1>3
  <2>2. ledger' = Append(ledger, vblk[v]) /\ vblk[v] \in Block
    BY <2>1
    DEF AppendBlock, TypeInv, TypeOK, ValidatorTypeOK, CheckPc
  <2> QED
    BY <1>1, <2>2, AppendProperties
<1>4. ASSUME NEW g \in TxGens, GenNext(g) PROVE ledger' = ledger
  BY <1>4 DEF GenNext, TxAdd, TxPoolFull, TxNotify
<1>5. ASSUME NEW m \in Miners, MinerNext(m) PROVE ledger' = ledger
  BY <1>5 DEF MinerNext, MinerWake, MinerReadHash, MinerTooFew, MinerSelect,
     MinerPowFails, MinerStartSend, MinerFinishSend, MinerSendFails
<1>6. ASSUME NEW v \in Validators, ValidatorNext(v)
      PROVE  ledger' = ledger \/ AppendBlock(v)
  BY <1>6 DEF ValidatorNext, ValidatorTop, ChildExit, SelectTimeout,
     ReadFrame, ReadGarbage, PrevMatches, PrevMismatch, TxsPresent, TxMissing,
     LedgerHasRoom, LedgerFull, RemoveTxs, GiveBack, SendStatistics, Go
<1>7. ASSUME \/ \E c \in Children : Fork(c)
             \/ \E V \in SUBSET Validators : ReadTorn(V)
             \/ StatReceive
             \/ UNCHANGED vars
      PROVE  ledger' = ledger
  BY <1>7 DEF Fork, ReadTorn, StatReceive, vars
<1> QED
  BY <1>2, <1>3, <1>4, <1>5, <1>6, <1>7 DEF Next

LEMMA NextFull ==
  ASSUME TypeInv, FullWhenGivenBack, [Next]_vars
  PROVE  FullWhenGivenBack'
<1> USE DEF TypeInv, TypeOK, ValidatorTypeOK
<1>1. /\ Len(ledger) \in Nat /\ Len(ledger') \in Nat
      /\ Len(ledger) <= Len(ledger') /\ BlockchainBlocks \in Nat
  BY LedgerGrows, ConfigAssumption
<1>2. ASSUME NEW v \in Validators, vpc'[v] = "giveback"
      PROVE  vpc[v] = "giveback" \/ Len(ledger) >= BlockchainBlocks
  <2>1. CASE UNCHANGED vpc
    BY <1>2, <2>1
  <2>2. ASSUME NEW w \in Validators, ValidatorNext(w), ~ReadGarbage(w)
        PROVE  vpc[v] = "giveback" \/ Len(ledger) >= BlockchainBlocks
    <3>1. CASE LedgerFull(w)
      BY <1>2, <3>1 DEF LedgerFull, Go
    <3>2. CASE ~LedgerFull(w)
      BY <1>2, <2>2, <3>2
      DEF ValidatorNext, ValidatorTop, ChildExit, SelectTimeout, ReadFrame,
          PrevMatches, PrevMismatch, TxsPresent, TxMissing, LedgerHasRoom,
          AppendBlock, RemoveTxs, GiveBack, SendStatistics, Go, Report
    <3> QED
      BY <3>1, <3>2
  <2>3. ASSUME NEW V \in SUBSET Validators,
               NEW k, NEW donors, Misread(V, k, donors)
        PROVE  vpc[v] = "giveback"
    BY <1>2, <2>3 DEF Misread, MisreadBy
  <2>4. CASE \E c \in Children : Fork(c)
    BY <1>2, <2>4 DEF Fork, Validators
  <2>5. ASSUME NEW g \in TxGens, GenNext(g) PROVE UNCHANGED vpc
    BY <2>5 DEF GenNext, TxAdd, TxPoolFull, TxNotify, valVars
  <2>6. ASSUME NEW m \in Miners, MinerNext(m) PROVE UNCHANGED vpc
    BY <2>6 DEF MinerNext, MinerWake, MinerReadHash, MinerTooFew, MinerSelect,
       MinerPowFails, MinerStartSend, MinerFinishSend, MinerSendFails, valVars
  <2>7. StatReceive \/ UNCHANGED vars => UNCHANGED vpc
    BY DEF StatReceive, vars, valVars
  <2>8. ASSUME NEW w \in Validators, ReadGarbage(w)
        PROVE  vpc[v] = "giveback"
    BY <2>3, <2>8 DEF ReadGarbage
  <2>9. ASSUME NEW V \in SUBSET Validators, ReadTorn(V)
        PROVE  vpc[v] = "giveback"
    BY <2>3, <2>9 DEF ReadTorn
  <2> QED
    BY <2>1, <2>2, <2>4, <2>5, <2>6, <2>7, <2>8, <2>9 DEF Next
<1> QED
  BY <1>1, <1>2 DEF FullWhenGivenBack

LEMMA NextWake ==
  TypeInv /\ OrderInv /\ WakeInv /\ [Next]_vars => EnoughWakeups'
<1> SUFFICES ASSUME TypeInv, OrderInv, WakeInv, [Next]_vars,
                    ~MayFail, Len(ledger') < BlockchainBlocks
             PROVE  Cardinality(Available') - TxsPerBlock < Wakeups'
  BY DEF EnoughWakeups, Available, Wakeups
<1>1. TypeInv'
  BY NextType
<1>2. Len(ledger) < BlockchainBlocks
  BY LedgerGrows, ConfigAssumption
<1>3. Cardinality(Available) - TxsPerBlock < Wakeups
  BY <1>2 DEF WakeInv, EnoughWakeups
<1>4. ASSUME UNCHANGED <<work, gpc, mpc>>, Available' \subseteq Available
      PROVE  Cardinality(Available') - TxsPerBlock < Wakeups'
  <2>1. Wakeups' = Wakeups
    BY <1>4 DEF Wakeups
  <2>2. /\ Cardinality(Available') <= Cardinality(Available)
        /\ Cardinality(Available') \in Nat
    BY <1>4, WakeCounts, FS_Subset, FS_CardinalityType
  <2> QED
    BY <1>3, <2>1, <2>2, WakeCounts, ConfigAssumption
<1>5. ASSUME NEW v \in Validators, ValidatorNext(v)
      PROVE  UNCHANGED <<work, gpc, mpc>> /\ Available' \subseteq Available
  <2>1. UNCHANGED <<work, gpc, mpc>>
    BY <1>5 DEF ValidatorNext, ValidatorTop, ChildExit, SelectTimeout,
       ReadFrame, ReadGarbage, PrevMatches, PrevMismatch, TxsPresent,
       TxMissing, LedgerHasRoom, LedgerFull, AppendBlock, RemoveTxs, GiveBack,
       SendStatistics, Go, genVars, minerVars
  <2>2. CASE TxMissing(v)
    BY <2>1, <2>2, MissingReturnsNothing DEF Available
  <2>3. CASE RemoveTxs(v)
    BY <2>1, <2>3 DEF RemoveTxs, Available
  <2>4. ~GiveBack(v)
    <3>1. ~(Len(ledger) >= BlockchainBlocks)
      BY <1>2, ConfigAssumption, LedgerGrows
    <3> QED
      BY <3>1 DEF GiveBack, WakeInv, FullWhenGivenBack
  <2>5. CASE ~TxMissing(v) /\ ~RemoveTxs(v)
    BY <1>5, <2>1, <2>4, <2>5
    DEF ValidatorNext, ValidatorTop, ChildExit, SelectTimeout, ReadFrame,
        ReadGarbage, PrevMatches, PrevMismatch, TxsPresent, LedgerHasRoom,
        LedgerFull, AppendBlock, SendStatistics, Go, poolVars, Available
  <2> QED
    BY <2>1, <2>2, <2>3, <2>5
<1>6. ASSUME \/ \E c \in Children : Fork(c)
             \/ \E V \in SUBSET Validators : ReadTorn(V)
             \/ StatReceive
             \/ UNCHANGED vars
      PROVE  UNCHANGED <<work, gpc, mpc>> /\ Available' \subseteq Available
  BY <1>6 DEF Fork, ReadTorn, StatReceive, genVars, minerVars, poolVars, vars,
     Available
<1> QED
  BY <1>1, <1>3, <1>4, <1>5, <1>6, GenWake, MinerWakeups DEF Next

\* Until the ledger is full and unless a miner fails, a wake-up is left for
\* every transaction beyond an incomplete block: no set of generators and
\* miners of any size can leave a full block in the pool with all asleep.
THEOREM EnoughWakeupsCorrect == Spec => []EnoughWakeups
<1>1. Init => WakeInv
  <2> SUFFICES ASSUME Init PROVE WakeInv
    OBVIOUS
  <2>1. Available = {}
    BY DEF Init, Available
  <2>2. TypeInv
    BY InitType
  <2>3. Cardinality(Available) = 0
    BY <2>1, FS_EmptySet
  <2>4. EnoughWakeups
    BY <2>2, <2>3, WakeCounts, ConfigAssumption DEF EnoughWakeups
  <2>5. FullWhenGivenBack
    BY DEF Init, FullWhenGivenBack
  <2> QED
    BY <2>4, <2>5 DEF WakeInv
<1>2. TypeInv /\ OrderInv /\ WakeInv /\ [Next]_vars => WakeInv'
  BY NextFull, NextWake DEF WakeInv
<1>3. WakeInv => EnoughWakeups
  BY DEF WakeInv
<1> QED
  BY <1>1, <1>2, <1>3, OrderInvariant, PTL DEF Spec

-----------------------------------------------------------------------------

\* The positions of a sequence that hold a member of X.
At(q, X) == {k \in 1..Len(q) : q[k] \in X}

LEMMA AtFinite ==
  ASSUME NEW A, NEW q \in Seq(A), NEW X
  PROVE  IsFiniteSet(At(q, X)) /\ Cardinality(At(q, X)) \in Nat
<1>1. IsFiniteSet(1..Len(q)) /\ At(q, X) \subseteq 1..Len(q)
  BY FS_Interval DEF At
<1> QED
  BY <1>1, FS_Subset, FS_CardinalityType

LEMMA AtAppend ==
  ASSUME NEW A, NEW q \in Seq(A), NEW y \in A, NEW X
  PROVE  Cardinality(At(Append(q, y), X)) =
           Cardinality(At(q, X)) + (IF y \in X THEN 1 ELSE 0)
<1>1. PICK n : n = Len(q) + 1
  OBVIOUS
<1>2. /\ At(q, X) \ {n} = At(Append(q, y), X) \ {n} /\ n \notin At(q, X)
      /\ n \in At(Append(q, y), X) <=> y \in X
  BY <1>1, AppendProperties DEF At
<1>3. Cardinality(At(q, X)) \in Nat
  BY AtFinite
<1>4. CASE y \in X
  BY <1>2, <1>4, AtFinite, CountStep
<1>5. CASE y \notin X
  <2>1. At(Append(q, y), X) = At(q, X)
    BY <1>2, <1>5, AtFinite, CountStep
  <2> QED
    BY <1>3, <1>5, <2>1
<1> QED
  BY <1>4, <1>5

LEMMA AtTail ==
  ASSUME NEW A, NEW q \in Seq(A), q # <<>>, NEW X
  PROVE  Cardinality(At(q, X)) =
           Cardinality(At(Tail(q), X)) + (IF Head(q) \in X THEN 1 ELSE 0)
<1> DEFINE S == At(Tail(q), X)
           T == At(q, X) \ {1}
           f == [k \in S |-> k + 1]
<1>1. /\ Len(q) \in Nat \ {0} /\ Len(Tail(q)) = Len(q) - 1 /\ Head(q) = q[1]
      /\ \A k \in 1..Len(Tail(q)) : Tail(q)[k] = q[k + 1]
  BY HeadTailProperties
<1>2. f \in [S -> T]
  BY <1>1 DEF At
<1>3. \A a, b \in S : f[a] = f[b] => a = b
  BY <1>1 DEF At
<1>4. \A t \in T : \E k \in S : f[k] = t
  <2> SUFFICES ASSUME NEW t \in T PROVE t - 1 \in S /\ f[t - 1] = t
    OBVIOUS
  <2>1. t \in 2..Len(q) /\ q[t] \in X
    BY <1>1 DEF At
  <2>2. t - 1 \in 1..Len(Tail(q)) /\ Tail(q)[t - 1] = q[t]
    BY <1>1, <2>1
  <2> QED
    BY <2>1, <2>2 DEF At
<1>5. ExistsBijection(S, T)
  <2> HIDE DEF f, S, T
  <2>1. f \in Bijection(S, T)
    BY <1>2, <1>3, <1>4 DEF Bijection, Injection, Surjection, IsInjective
  <2> QED
    BY <2>1 DEF ExistsBijection
<1>6. Cardinality(T) = Cardinality(S) /\ Cardinality(S) \in Nat
  <2>1. IsFiniteSet(S) /\ Cardinality(S) \in Nat
    BY AtFinite, HeadTailProperties
  <2> QED
    BY <1>5, <2>1, FS_Bijection
<1>7. IsFiniteSet(At(q, X)) /\ Cardinality(At(q, X)) \in Nat
  BY AtFinite
<1>8. Cardinality(T) = IF 1 \in At(q, X) THEN Cardinality(At(q, X)) - 1
                                         ELSE Cardinality(At(q, X))
  BY <1>7, FS_RemoveElement
<1>9. 1 \in At(q, X) <=> Head(q) \in X
  BY <1>1 DEF At
<1> QED
  BY <1>6, <1>7, <1>8, <1>9

ValidFor(m) == [miner |-> m, valid |-> TRUE]
ByMiner(m) == {b \in Block : b.miner = m}

\* The validators that are about to report a block of m as valid.
Owing(m) == {v \in Validators : \/ report[v] = ValidFor(m)
                                \/ vpc[v] = "remove" /\ vblk[v].miner = m}

ReportQuiet == \A v \in Validators : vpc[v] # "report" => report[v] = Silent

StatsInv == ReportQuiet /\ FullWhenGivenBack /\ StatsMatchLedger

LEMMA StatCounts ==
  ASSUME TypeInv, NEW m \in Miners
  PROVE  /\ valid_blocks[m] \in Nat
         /\ Cardinality(At(msgq, {ValidFor(m)})) \in Nat
         /\ IsFiniteSet(Owing(m)) /\ Cardinality(Owing(m)) \in Nat
         /\ Cardinality(At(ledger, ByMiner(m))) \in Nat
         /\ ReportedValid(m) = valid_blocks[m]
              + Cardinality(At(msgq, {ValidFor(m)})) + Cardinality(Owing(m))
         /\ InLedger(m) = Cardinality(At(ledger, ByMiner(m)))
         /\ ReportedValid(m) \in Int /\ InLedger(m) \in Int
<1> USE DEF TypeInv, TypeOK
<1>1. IsFiniteSet(Validators)
  BY ProcessAssumption, FS_Singleton, FS_Union DEF Validators
<1>2. IsFiniteSet(Owing(m)) /\ Cardinality(Owing(m)) \in Nat
  BY <1>1, FS_Subset, FS_CardinalityType DEF Owing
<1>3. valid_blocks[m] \in Nat
  BY DEF StatTypeOK
<1>4. /\ Cardinality(At(msgq, {ValidFor(m)})) \in Nat
      /\ Cardinality(At(ledger, ByMiner(m))) \in Nat
  BY AtFinite DEF ChannelTypeOK
<1>5. At(msgq, {ValidFor(m)}) =
        {k \in 1..Len(msgq) : msgq[k] = [miner |-> m, valid |-> TRUE]}
  BY DEF At, ValidFor
<1>6. At(ledger, ByMiner(m)) = {k \in 1..Len(ledger) : ledger[k].miner = m}
  <2>1. \A k \in 1..Len(ledger) : ledger[k] \in Block
    BY ElementOfSeq DEF ChannelTypeOK
  <2> QED
    BY <2>1 DEF At, ByMiner
<1>7. /\ ReportedValid(m) = valid_blocks[m]
           + Cardinality(At(msgq, {ValidFor(m)})) + Cardinality(Owing(m))
      /\ InLedger(m) = Cardinality(At(ledger, ByMiner(m)))
  BY <1>5, <1>6 DEF ReportedValid, InLedger, Owing, ValidFor
<1> QED
  BY <1>2, <1>3, <1>4, <1>7

LEMMA CountsNext ==
  ASSUME TypeInv', NEW m \in Miners
  PROVE  /\ ReportedValid(m)' = valid_blocks'[m]
              + Cardinality(At(msgq', {ValidFor(m)})) + Cardinality(Owing(m)')
         /\ InLedger(m)' = Cardinality(At(ledger', ByMiner(m)))
         /\ ReportedValid(m)' \in Int /\ InLedger(m)' \in Int
<1>1. /\ At(msgq', {ValidFor(m)}) =
           {k \in 1..Len(msgq') : msgq'[k] = [miner |-> m, valid |-> TRUE]}
      /\ At(ledger', ByMiner(m)) =
           {k \in 1..Len(ledger') : ledger'[k].miner = m}
  <2>1. \A k \in 1..Len(ledger') : ledger'[k] \in Block
    BY ElementOfSeq DEF TypeInv, TypeOK, ChannelTypeOK
  <2> QED
    BY <2>1 DEF At, ByMiner, ValidFor
<1>2. /\ valid_blocks'[m] \in Nat
      /\ Cardinality(At(msgq', {ValidFor(m)})) \in Nat
      /\ Cardinality(At(ledger', ByMiner(m))) \in Nat
  BY AtFinite DEF TypeInv, TypeOK, ChannelTypeOK, StatTypeOK
<1>3. Cardinality(Owing(m)') \in Nat
  <2>1. IsFiniteSet(Validators)
    BY ProcessAssumption, FS_Singleton, FS_Union DEF Validators
  <2> QED
    BY <2>1, FS_Subset, FS_CardinalityType DEF Owing
<1>4. /\ ReportedValid(m)' = valid_blocks'[m]
           + Cardinality(At(msgq', {ValidFor(m)})) + Cardinality(Owing(m)')
      /\ InLedger(m)' = Cardinality(At(ledger', ByMiner(m)))
  BY <1>1 DEF ReportedValid, InLedger, Owing, ValidFor
<1> QED
  BY <1>2, <1>3, <1>4

\* A step changes the two counts by as much as these summands.
LEMMA ExcessStep ==
  ASSUME TypeInv, TypeInv', NEW m \in Miners,
         NEW a \in Int, NEW b \in Int, NEW c \in Int, NEW d \in Int,
         valid_blocks'[m] = valid_blocks[m] + a,
         Cardinality(At(msgq', {ValidFor(m)})) =
           Cardinality(At(msgq, {ValidFor(m)})) + b,
         Cardinality(Owing(m)') = Cardinality(Owing(m)) + c,
         Cardinality(At(ledger', ByMiner(m))) =
           Cardinality(At(ledger, ByMiner(m))) + d
  PROVE  /\ ReportedValid(m)' - InLedger(m)' =
              ReportedValid(m) - InLedger(m) + a + b + c - d
         /\ ReportedValid(m) - InLedger(m) \in Int
<1>1. /\ ReportedValid(m)' = valid_blocks'[m]
           + Cardinality(At(msgq', {ValidFor(m)})) + Cardinality(Owing(m)')
      /\ InLedger(m)' = Cardinality(At(ledger', ByMiner(m)))
  BY CountsNext
<1> QED
  BY <1>1, StatCounts

\* A step in which no validator begins or ends to owe a report.
LEMMA QuietStep ==
  ASSUME TypeInv, NEW m \in Miners, UNCHANGED <<valid_blocks, msgq, ledger>>,
         \A v \in Validators :
           \/ vpc'[v] = vpc[v] /\ vblk'[v] = vblk[v] /\ report'[v] = report[v]
           \/ /\ vpc[v] # "remove" /\ report[v] # ValidFor(m)
              /\ vpc'[v] # "remove" /\ report'[v] # ValidFor(m)
  PROVE  ReportedValid(m)' = ReportedValid(m) /\ InLedger(m)' = InLedger(m)
<1>1. Owing(m)' = Owing(m)
  BY DEF Owing, ValidFor
<1> QED
  BY <1>1 DEF ReportedValid, InLedger, Owing, ValidFor

LEMMA SilentDiffers ==
  /\ \A m : Silent # ValidFor(m)
  /\ \A m, n : [miner |-> n, valid |-> FALSE] # ValidFor(m)
BY DEF Silent, ValidFor

LEMMA MisreadStats ==
  ASSUME TypeInv, ReportQuiet, NEW V \in SUBSET Validators,
         \A v \in V : vpc[v] = "select", NEW k, NEW donors,
         Misread(V, k, donors), UNCHANGED <<valid_blocks, msgq, ledger>>
  PROVE  /\ ReportQuiet'
         /\ \A m \in Miners : ReportedValid(m)' = ReportedValid(m)
                              /\ InLedger(m)' = InLedger(m)
<1>1. PICK D \in SUBSET V, R \in SUBSET V :
        /\ D \cap R = {}
        /\ \E id \in [D \cup R -> Miners \cup {Unknown}] : \E hash, source :
             MisreadBy(V, D, R, id, hash, source)
  BY DEF Misread
<1>2. PICK id, hash, source : MisreadBy(V, D, R, id, hash, source)
  BY <1>1
<1>3. \A v \in V : report[v] = Silent /\ vpc[v] # "remove"
  BY DEF ReportQuiet
<1>4. \A v \in V : vpc'[v] \in {"prev", "report", "top"}
  BY <1>2 DEF MisreadBy
<1>5. \A v \in R : /\ report'[v] = [miner |-> id[v], valid |-> FALSE]
                   /\ vpc'[v] = "report"
  BY <1>1, <1>2 DEF MisreadBy
<1>6. \A v \in Validators \ R : report'[v] = report[v]
  BY <1>2 DEF MisreadBy
<1>7. \A v \in Validators \ V : vpc'[v] = vpc[v] /\ vblk'[v] = vblk[v]
  BY <1>1, <1>2 DEF MisreadBy
<1>8. ReportQuiet'
  BY <1>3, <1>5, <1>6, <1>7 DEF ReportQuiet, Silent
<1>9. ASSUME NEW m \in Miners
      PROVE  ReportedValid(m)' = ReportedValid(m) /\ InLedger(m)' = InLedger(m)
  <2>1. \A v \in V : /\ report[v] # ValidFor(m) /\ report'[v] # ValidFor(m)
                     /\ vpc[v] # "remove" /\ vpc'[v] # "remove"
    <3>1. \A v \in V : report[v] # ValidFor(m)
      BY <1>3, SilentDiffers
    <3>2. \A v \in R : report'[v] # ValidFor(m)
      BY <1>5, SilentDiffers
    <3>3. \A v \in V \ R : report'[v] # ValidFor(m)
      BY <1>6, <3>1
    <3>4. \A v \in V : vpc[v] # "remove" /\ vpc'[v] # "remove"
      BY <1>3, <1>4
    <3> QED
      BY <3>1, <3>2, <3>3, <3>4
  <2>2. \A v \in Validators \ V :
          vpc'[v] = vpc[v] /\ vblk'[v] = vblk[v] /\ report'[v] = report[v]
    BY <1>1, <1>6, <1>7
  <2> QED
    BY <2>1, <2>2, QuietStep
<1> QED
  BY <1>8, <1>9

\* The steps of a validator other than the four that move a valid block.
LEMMA CheckStats ==
  ASSUME TypeInv, ReportQuiet, NEW v \in Validators,
         \/ ValidatorTop(v) \/ ChildExit(v) \/ SelectTimeout(v)
         \/ ReadFrame(v) \/ PrevMatches(v) \/ PrevMismatch(v)
         \/ TxsPresent(v) \/ TxMissing(v) \/ LedgerHasRoom(v) \/ LedgerFull(v)
  PROVE  /\ ReportQuiet'
         /\ \A m \in Miners : ReportedValid(m)' = ReportedValid(m)
                              /\ InLedger(m)' = InLedger(m)
<1> USE DEF TypeInv, TypeOK, ValidatorTypeOK
<1>1. UNCHANGED <<valid_blocks, msgq, ledger>>
  BY DEF ValidatorTop, ChildExit, SelectTimeout, ReadFrame, PrevMatches,
     PrevMismatch, TxsPresent, TxMissing, LedgerHasRoom, LedgerFull, Go,
     statVars
<1>2. \A u \in Validators \ {v} :
        vpc'[u] = vpc[u] /\ vblk'[u] = vblk[u] /\ report'[u] = report[u]
  BY DEF ValidatorTop, ChildExit, SelectTimeout, ReadFrame, PrevMatches,
     PrevMismatch, TxsPresent, TxMissing, LedgerHasRoom, LedgerFull, Go, Report
<1>3. /\ vpc[v] \notin {"remove", "report"} /\ vpc'[v] # "remove"
      /\ \/ vpc'[v] # "report" /\ report'[v] = report[v]
         \/ /\ vpc'[v] = "report"
            /\ report'[v] = [miner |-> vblk[v].miner, valid |-> FALSE]
  <2>1. CASE \/ ValidatorTop(v) \/ ChildExit(v) \/ SelectTimeout(v)
             \/ PrevMatches(v) \/ TxsPresent(v)
             \/ LedgerHasRoom(v) \/ LedgerFull(v)
    BY <2>1 DEF ValidatorTop, ChildExit, SelectTimeout, PrevMatches,
       TxsPresent, LedgerHasRoom, LedgerFull, Go
  <2>2. CASE ReadFrame(v)
    BY <2>2 DEF ReadFrame
  <2>3. CASE PrevMismatch(v) \/ TxMissing(v)
    BY <2>3 DEF PrevMismatch, TxMissing, Report
  <2> QED
    BY <2>1, <2>2, <2>3
<1>4. report[v] = Silent
  BY <1>3 DEF ReportQuiet
<1>5. ReportQuiet'
  BY <1>2, <1>3, <1>4 DEF ReportQuiet, Silent
<1>6. ASSUME NEW m \in Miners
      PROVE  ReportedValid(m)' = ReportedValid(m) /\ InLedger(m)' = InLedger(m)
  BY <1>1, <1>2, <1>3, <1>4, SilentDiffers, QuietStep
<1> QED
  BY <1>5, <1>6

\* The four steps that move a valid block towards the statistics.
LEMMA AppendStats ==
  ASSUME TypeInv, TypeInv', ReportQuiet, NEW v \in Validators, AppendBlock(v)
  PROVE  /\ ReportQuiet'
         /\ \A m \in Miners : ReportedValid(m)' - InLedger(m)' =
                              ReportedValid(m) - InLedger(m)
<1> USE DEF TypeInv, TypeOK, ValidatorTypeOK
<1>0. /\ msgq \in Seq(Message) /\ msgq' \in Seq(Message)
      /\ ledger \in Seq(Block) /\ valid_blocks \in [Miners -> Nat]
  BY DEF ChannelTypeOK, StatTypeOK
<1>1. /\ vpc[v] = "append" /\ vpc' = [vpc EXCEPT ![v] = "remove"]
      /\ ledger' = Append(ledger, vblk[v]) /\ vblk[v] \in Block
      /\ UNCHANGED <<vblk, report, msgq, valid_blocks>>
  BY DEF AppendBlock, CheckPc, statVars
<1>2. ReportQuiet'
  BY <1>1 DEF ReportQuiet
<1>3. ASSUME NEW m \in Miners
      PROVE  ReportedValid(m)' - InLedger(m)' = ReportedValid(m) - InLedger(m)
  <2>1. PICK d : d = IF vblk[v].miner = m THEN 1 ELSE 0
    OBVIOUS
  <2>2. Cardinality(At(ledger', ByMiner(m))) =
          Cardinality(At(ledger, ByMiner(m))) + d
    BY <1>0, <1>1, <2>1, AtAppend DEF ByMiner
  <2>3. Cardinality(Owing(m)') = Cardinality(Owing(m)) + d
    <3>1. report[v] # ValidFor(m)
      BY <1>1, SilentDiffers DEF ReportQuiet
    <3>2. /\ Owing(m) \ {v} = Owing(m)' \ {v} /\ v \notin Owing(m)
          /\ v \in Owing(m)' <=> vblk[v].miner = m
      BY <1>1, <3>1 DEF Owing, ValidFor
    <3>3. IsFiniteSet(Owing(m)) /\ Cardinality(Owing(m)) \in Nat
      BY StatCounts
    <3> QED
      BY <2>1, <3>2, <3>3, CountStep
  <2>4. /\ valid_blocks'[m] = valid_blocks[m] + 0
        /\ Cardinality(At(msgq', {ValidFor(m)})) =
             Cardinality(At(msgq, {ValidFor(m)})) + 0
    <3>1. /\ valid_blocks[m] \in Nat
          /\ Cardinality(At(msgq, {ValidFor(m)})) \in Nat
      BY StatCounts
    <3> QED
      BY <1>1, <3>1
  <2>5. d \in Int
    BY <2>1
  <2>6. /\ ReportedValid(m)' - InLedger(m)' =
             ReportedValid(m) - InLedger(m) + 0 + 0 + d - d
        /\ ReportedValid(m) - InLedger(m) \in Int
    BY <2>2, <2>3, <2>4, <2>5, ExcessStep
  <2> QED
    BY <2>5, <2>6
<1> QED
  BY <1>2, <1>3

LEMMA RemoveStats ==
  ASSUME TypeInv, TypeInv', ReportQuiet, NEW v \in Validators, RemoveTxs(v)
  PROVE  /\ ReportQuiet'
         /\ \A m \in Miners : ReportedValid(m)' = ReportedValid(m)
                              /\ InLedger(m)' = InLedger(m)
<1> USE DEF TypeInv, TypeOK, ValidatorTypeOK
<1>1. /\ vpc[v] = "remove" /\ vpc' = [vpc EXCEPT ![v] = "report"]
      /\ report' = [report EXCEPT ![v] = [miner |-> vblk[v].miner,
                                          valid |-> TRUE]]
      /\ vblk' = [vblk EXCEPT ![v] = NoBlock]
      /\ UNCHANGED <<msgq, ledger, valid_blocks>>
  BY DEF RemoveTxs, Report, statVars
<1>2. ReportQuiet'
  BY <1>1 DEF ReportQuiet
<1>3. ASSUME NEW m \in Miners
      PROVE  ReportedValid(m)' = ReportedValid(m) /\ InLedger(m)' = InLedger(m)
  <2>1. report[v] # ValidFor(m)
    BY <1>1, SilentDiffers DEF ReportQuiet
  <2>2. report'[v] = ValidFor(m) <=> vblk[v].miner = m
    BY <1>1 DEF ValidFor
  <2>3. Owing(m)' = Owing(m)
    BY <1>1, <2>1, <2>2 DEF Owing, ValidFor
  <2> QED
    BY <1>1, <2>3 DEF ReportedValid, InLedger, Owing, ValidFor
<1> QED
  BY <1>2, <1>3

LEMMA GiveBackStats ==
  ASSUME TypeInv, TypeInv', ReportQuiet, NEW v \in Validators, GiveBack(v)
  PROVE  /\ ReportQuiet'
         /\ \A m \in Miners : ReportedValid(m)' - InLedger(m)' >=
                              ReportedValid(m) - InLedger(m)
<1> USE DEF TypeInv, TypeOK, ValidatorTypeOK
<1>1. /\ vpc[v] = "giveback" /\ vpc' = [vpc EXCEPT ![v] = "report"]
      /\ report' = [report EXCEPT ![v] = [miner |-> vblk[v].miner,
                                          valid |-> TRUE]]
      /\ vblk' = [vblk EXCEPT ![v] = NoBlock]
      /\ UNCHANGED <<msgq, ledger, valid_blocks>>
  BY DEF GiveBack, Report, statVars
<1>2. ReportQuiet'
  BY <1>1 DEF ReportQuiet
<1>3. ASSUME NEW m \in Miners
      PROVE  ReportedValid(m)' - InLedger(m)' >= ReportedValid(m) - InLedger(m)
  <2>1. PICK c : c = IF vblk[v].miner = m THEN 1 ELSE 0
    OBVIOUS
  <2>2. Cardinality(Owing(m)') = Cardinality(Owing(m)) + c
    <3>1. report[v] # ValidFor(m)
      BY <1>1, SilentDiffers DEF ReportQuiet
    <3>2. report'[v] = ValidFor(m) <=> vblk[v].miner = m
      BY <1>1 DEF ValidFor
    <3>3. /\ Owing(m) \ {v} = Owing(m)' \ {v} /\ v \notin Owing(m)
          /\ v \in Owing(m)' <=> vblk[v].miner = m
      BY <1>1, <3>1, <3>2 DEF Owing, ValidFor
    <3>4. IsFiniteSet(Owing(m)) /\ Cardinality(Owing(m)) \in Nat
      BY StatCounts
    <3> QED
      BY <2>1, <3>3, <3>4, CountStep
  <2>3. /\ valid_blocks'[m] = valid_blocks[m] + 0
        /\ Cardinality(At(msgq', {ValidFor(m)})) =
             Cardinality(At(msgq, {ValidFor(m)})) + 0
        /\ Cardinality(At(ledger', ByMiner(m))) =
             Cardinality(At(ledger, ByMiner(m))) + 0
    BY <1>1, StatCounts
  <2>4. c \in Nat
    BY <2>1
  <2>5. /\ ReportedValid(m)' - InLedger(m)' =
             ReportedValid(m) - InLedger(m) + 0 + 0 + c - 0
        /\ ReportedValid(m) - InLedger(m) \in Int
    BY <2>2, <2>3, <2>4, ExcessStep
  <2> QED
    BY <2>4, <2>5
<1> QED
  BY <1>2, <1>3

LEMMA SendStats ==
  ASSUME TypeInv, TypeInv', ReportQuiet, NEW v \in Validators,
         SendStatistics(v)
  PROVE  /\ ReportQuiet'
         /\ \A m \in Miners : ReportedValid(m)' - InLedger(m)' =
                              ReportedValid(m) - InLedger(m)
<1> USE DEF TypeInv, TypeOK, ValidatorTypeOK
<1>0. /\ msgq \in Seq(Message) /\ msgq' \in Seq(Message)
      /\ ledger \in Seq(Block) /\ valid_blocks \in [Miners -> Nat]
  BY DEF ChannelTypeOK, StatTypeOK
<1>1. /\ vpc[v] = "report" /\ vpc' = [vpc EXCEPT ![v] = "top"]
      /\ report' = [report EXCEPT ![v] = Silent]
      /\ msgq' = Append(msgq, report[v]) /\ report[v] \in Message
      /\ UNCHANGED <<vblk, ledger, valid_blocks>>
  BY DEF SendStatistics, statVars
<1>2. ReportQuiet'
  BY <1>1 DEF ReportQuiet, Silent
<1>3. ASSUME NEW m \in Miners
      PROVE  ReportedValid(m)' - InLedger(m)' = ReportedValid(m) - InLedger(m)
  <2>1. PICK b : b = IF report[v] = ValidFor(m) THEN 1 ELSE 0
    OBVIOUS
  <2>2. Cardinality(At(msgq', {ValidFor(m)})) =
          Cardinality(At(msgq, {ValidFor(m)})) + b
    BY <1>0, <1>1, <2>1, AtAppend
  <2>3. Cardinality(Owing(m)') = Cardinality(Owing(m)) - b
    <3>1. report'[v] # ValidFor(m)
      BY <1>1, SilentDiffers
    <3>2. /\ Owing(m) \ {v} = Owing(m)' \ {v} /\ v \notin Owing(m)'
          /\ v \in Owing(m) <=> report[v] = ValidFor(m)
      BY <1>1, <3>1 DEF Owing, ValidFor
    <3>3. IsFiniteSet(Owing(m)) /\ Cardinality(Owing(m)) \in Nat
      BY StatCounts
    <3> QED
      BY <2>1, <3>2, <3>3, CountStep
  <2>4. /\ valid_blocks'[m] = valid_blocks[m] + 0
        /\ Cardinality(At(ledger', ByMiner(m))) =
             Cardinality(At(ledger, ByMiner(m))) + 0
    <3>1. valid_blocks[m] \in Nat /\ Cardinality(At(ledger, ByMiner(m))) \in Nat
      BY StatCounts
    <3> QED
      BY <1>1, <3>1
  <2>5. b \in Int /\ -b \in Int
    BY <2>1
  <2>6. Cardinality(Owing(m)') = Cardinality(Owing(m)) + (-b)
    BY <2>3, <2>5, StatCounts
  <2>7. /\ ReportedValid(m)' - InLedger(m)' =
             ReportedValid(m) - InLedger(m) + 0 + b + (-b) - 0
        /\ ReportedValid(m) - InLedger(m) \in Int
    BY <2>2, <2>4, <2>5, <2>6, ExcessStep
  <2> QED
    BY <2>5, <2>7
<1> QED
  BY <1>2, <1>3

LEMMA ReceiveStats ==
  ASSUME TypeInv, TypeInv', ReportQuiet, StatReceive
  PROVE  /\ ReportQuiet'
         /\ \A m \in Miners : ReportedValid(m)' - InLedger(m)' =
                              ReportedValid(m) - InLedger(m)
<1> USE DEF TypeInv, TypeOK
<1>0. /\ msgq \in Seq(Message) /\ msgq' \in Seq(Message)
      /\ ledger \in Seq(Block) /\ valid_blocks \in [Miners -> Nat]
  BY DEF ChannelTypeOK, StatTypeOK
<1>1. /\ msgq # <<>> /\ msgq' = Tail(msgq)
      /\ valid_blocks' = Counted(valid_blocks, Head(msgq), TRUE)
      /\ UNCHANGED <<vpc, vblk, report, ledger>>
  BY DEF StatReceive, valVars
<1>2. ReportQuiet'
  BY <1>1 DEF ReportQuiet
<1>3. ASSUME NEW m \in Miners
      PROVE  ReportedValid(m)' - InLedger(m)' = ReportedValid(m) - InLedger(m)
  <2>1. PICK a : a = IF Head(msgq) = ValidFor(m) THEN 1 ELSE 0
    OBVIOUS
  <2>2. Cardinality(At(msgq, {ValidFor(m)})) =
          Cardinality(At(msgq', {ValidFor(m)})) + a
    BY <1>0, <1>1, <2>1, AtTail
  <2>3. valid_blocks'[m] = valid_blocks[m] + a
    <3>1. Head(msgq) \in Message
      BY <1>0, <1>1, HeadTailProperties
    <3>2. Head(msgq) = ValidFor(m) <=>
            Head(msgq).miner = m /\ Head(msgq).valid = TRUE
      BY <3>1 DEF Message, ValidFor
    <3>3. valid_blocks[m] \in Nat
      BY <1>0
    <3> QED
      BY <1>1, <2>1, <3>2, <3>3 DEF Counted
  <2>4. /\ Cardinality(Owing(m)') = Cardinality(Owing(m)) + 0
        /\ Cardinality(At(ledger', ByMiner(m))) =
             Cardinality(At(ledger, ByMiner(m))) + 0
    <3>1. Owing(m)' = Owing(m)
      BY <1>1 DEF Owing, ValidFor
    <3>2. /\ Cardinality(Owing(m)) \in Nat
          /\ Cardinality(At(ledger, ByMiner(m))) \in Nat
      BY StatCounts
    <3> QED
      BY <1>1, <3>1, <3>2
  <2>5. a \in Int /\ -a \in Int
    BY <2>1
  <2>6. Cardinality(At(msgq', {ValidFor(m)})) =
          Cardinality(At(msgq, {ValidFor(m)})) + (-a)
    <3>1. Cardinality(At(msgq', {ValidFor(m)})) \in Nat
      BY <1>0, AtFinite
    <3> QED
      BY <2>2, <2>5, <3>1, StatCounts
  <2>7. /\ ReportedValid(m)' - InLedger(m)' =
             ReportedValid(m) - InLedger(m) + a + (-a) + 0 - 0
        /\ ReportedValid(m) - InLedger(m) \in Int
    BY <2>3, <2>4, <2>5, <2>6, ExcessStep
  <2> QED
    BY <2>5, <2>7
<1> QED
  BY <1>2, <1>3

\* Whatever else happens touches neither count.
LEMMA OtherStats ==
  ASSUME TypeInv, ReportQuiet,
         \/ \E g \in TxGens : GenNext(g)
         \/ \E m \in Miners : MinerNext(m)
         \/ \E c \in Children : Fork(c)
         \/ UNCHANGED vars
  PROVE  /\ ReportQuiet'
         /\ \A m \in Miners : ReportedValid(m)' = ReportedValid(m)
                              /\ InLedger(m)' = InLedger(m)
<1>1. /\ UNCHANGED <<valid_blocks, msgq, ledger, vblk, report>>
      /\ \A v \in Validators :
           \/ vpc'[v] = vpc[v]
           \/ vpc[v] \in {"top", "off"} /\ vpc'[v] \in {"top", "select"}
  <2>1. ASSUME NEW g \in TxGens, GenNext(g)
        PROVE  UNCHANGED <<valid_blocks, msgq, ledger, vblk, report, vpc>>
    BY <2>1 DEF GenNext, TxAdd, TxPoolFull, TxNotify, valVars, statVars
  <2>2. ASSUME NEW m \in Miners, MinerNext(m)
        PROVE  UNCHANGED <<valid_blocks, msgq, ledger, vblk, report, vpc>>
    BY <2>2 DEF MinerNext, MinerWake, MinerReadHash, MinerTooFew, MinerSelect,
       MinerPowFails, MinerStartSend, MinerFinishSend, MinerSendFails,
       valVars, statVars
  <2>3. ASSUME NEW c \in Children, Fork(c)
        PROVE  /\ UNCHANGED <<valid_blocks, msgq, ledger, vblk, report>>
               /\ \A v \in Validators :
                    \/ vpc'[v] = vpc[v]
                    \/ /\ vpc[v] \in {"top", "off"}
                       /\ vpc'[v] \in {"top", "select"}
    BY <2>3 DEF Fork, statVars, Validators, TypeInv, TypeOK, ValidatorTypeOK
  <2>4. UNCHANGED vars =>
          UNCHANGED <<valid_blocks, msgq, ledger, vblk, report, vpc>>
    BY DEF vars
  <2> QED
    BY <2>1, <2>2, <2>3, <2>4
<1>2. ReportQuiet'
  BY <1>1 DEF ReportQuiet, Silent
<1>3. ASSUME NEW m \in Miners
      PROVE  ReportedValid(m)' = ReportedValid(m) /\ InLedger(m)' = InLedger(m)
  <2>1. \A v \in Validators :
          vpc[v] \in {"top", "off"} => report[v] # ValidFor(m)
    BY SilentDiffers DEF ReportQuiet
  <2> QED
    BY <1>1, <2>1, QuietStep
<1> QED
  BY <1>2, <1>3

\* The excess of the reports over the blocks of the ledger stays as it is,
\* except that a block given back because the ledger is full adds to it.
LEMMA NextExcess ==
  ASSUME TypeInv, ReportQuiet, [Next]_vars
  PROVE  /\ ReportQuiet'
         /\ \A m \in Miners :
              \/ ReportedValid(m)' - InLedger(m)' =
                   ReportedValid(m) - InLedger(m)
              \/ /\ \E v \in Validators : vpc[v] = "giveback"
                 /\ ReportedValid(m)' - InLedger(m)' >=
                      ReportedValid(m) - InLedger(m)
<1>1. TypeInv'
  BY NextType
<1>2. ASSUME NEW v \in Validators, ValidatorNext(v)
      PROVE  \/ GiveBack(v) \/ AppendBlock(v) \/ RemoveTxs(v)
             \/ SendStatistics(v) \/ ReadGarbage(v)
             \/ /\ ReportQuiet'
                /\ \A m \in Miners : ReportedValid(m)' = ReportedValid(m)
                                     /\ InLedger(m)' = InLedger(m)
  BY <1>2, CheckStats DEF ValidatorNext
<1>3. ASSUME NEW v \in Validators, ReadGarbage(v)
      PROVE  /\ ReportQuiet'
             /\ \A m \in Miners : ReportedValid(m)' = ReportedValid(m)
                                  /\ InLedger(m)' = InLedger(m)
  <2>1. PICK k \in 1..Len(pipe) :
          Misread({v}, k, {j \in 1..k : pipe[j] # Garbage /\ ~pipe[j].whole})
    BY <1>3 DEF ReadGarbage
  <2>2. UNCHANGED <<valid_blocks, msgq, ledger>> /\ vpc[v] = "select"
    BY <1>3 DEF ReadGarbage, statVars
  <2> QED
    BY <2>1, <2>2, MisreadStats
<1>4. ASSUME NEW V \in SUBSET Validators, ReadTorn(V)
      PROVE  /\ ReportQuiet'
             /\ \A m \in Miners : ReportedValid(m)' = ReportedValid(m)
                                  /\ InLedger(m)' = InLedger(m)
  <2>1. PICK k \in 1..Len(pipe) :
          Misread(V, k, {j \in 1..k : pipe[j] # Garbage})
    BY <1>4 DEF ReadTorn
  <2>2. /\ UNCHANGED <<valid_blocks, msgq, ledger>>
        /\ \A v \in V : vpc[v] = "select"
    BY <1>4 DEF ReadTorn, statVars
  <2> QED
    BY <2>1, <2>2, MisreadStats
<1>5. ASSUME NEW v \in Validators, GiveBack(v)
      PROVE  /\ ReportQuiet' /\ vpc[v] = "giveback"
             /\ \A m \in Miners : ReportedValid(m)' - InLedger(m)' >=
                                  ReportedValid(m) - InLedger(m)
  BY <1>1, <1>5, GiveBackStats DEF GiveBack
<1>6. ASSUME NEW v \in Validators,
             AppendBlock(v) \/ RemoveTxs(v) \/ SendStatistics(v)
      PROVE  /\ ReportQuiet'
             /\ \A m \in Miners : ReportedValid(m)' - InLedger(m)' =
                                  ReportedValid(m) - InLedger(m)
  BY <1>1, <1>6, AppendStats, RemoveStats, SendStats
<1>7. CASE StatReceive
  BY <1>1, <1>7, ReceiveStats
<1>8. CASE \/ \E g \in TxGens : GenNext(g)
           \/ \E m \in Miners : MinerNext(m)
           \/ \E c \in Children : Fork(c)
           \/ UNCHANGED vars
  BY <1>8, OtherStats
<1>9. CASE \E v \in Validators : ValidatorNext(v)
  BY <1>2, <1>3, <1>5, <1>6, <1>9
<1>10. CASE \E V \in SUBSET Validators : ReadTorn(V)
  BY <1>4, <1>10
<1> QED
  BY <1>7, <1>8, <1>9, <1>10 DEF Next

LEMMA NextStats == TypeInv /\ StatsInv /\ [Next]_vars => StatsInv'
<1> SUFFICES ASSUME TypeInv, StatsInv, [Next]_vars PROVE StatsInv'
  OBVIOUS
<1>1. TypeInv' /\ ReportQuiet' /\ FullWhenGivenBack'
  BY NextType, NextExcess, NextFull DEF StatsInv
<1>2. /\ Len(ledger) \in Nat /\ Len(ledger') \in Nat
      /\ Len(ledger) <= Len(ledger') /\ BlockchainBlocks \in Nat
  BY LedgerGrows, ConfigAssumption
<1>3. ASSUME NEW m \in Miners
      PROVE  /\ ReportedValid(m) \in Int /\ InLedger(m) \in Int
             /\ ReportedValid(m)' \in Int /\ InLedger(m)' \in Int
  <2>1. ReportedValid(m) \in Int /\ InLedger(m) \in Int
    BY StatCounts
  <2>2. ReportedValid(m)' \in Int /\ InLedger(m)' \in Int
    BY <1>1, CountsNext
  <2> QED
    BY <2>1, <2>2
<1>4. ASSUME NEW m \in Miners
      PROVE  /\ ReportedValid(m)' >= InLedger(m)'
             /\ Len(ledger') < BlockchainBlocks =>
                  ReportedValid(m)' = InLedger(m)'
  <2>1. /\ ReportedValid(m) >= InLedger(m)
        /\ Len(ledger) < BlockchainBlocks => ReportedValid(m) = InLedger(m)
    BY DEF StatsInv, StatsMatchLedger
  <2>2. CASE ReportedValid(m)' - InLedger(m)' = ReportedValid(m) - InLedger(m)
    BY <1>2, <1>3, <2>1, <2>2
  <2>3. CASE /\ \E v \in Validators : vpc[v] = "giveback"
             /\ ReportedValid(m)' - InLedger(m)' >=
                  ReportedValid(m) - InLedger(m)
    <3>1. Len(ledger) >= BlockchainBlocks
      BY <2>3 DEF StatsInv, FullWhenGivenBack
    <3> QED
      BY <1>2, <1>3, <2>1, <2>3, <3>1
  <2> QED
    BY <2>2, <2>3, NextExcess DEF StatsInv
<1> QED
  BY <1>1, <1>4 DEF StatsInv, StatsMatchLedger

\* The statistics never miss a block of the ledger and, until the ledger is
\* full, credit no other: for any number of validators the report of a block
\* is on the way or counted as soon as the block is appended, and once only.
THEOREM StatsMatchLedgerCorrect == Spec => []StatsMatchLedger
<1>1. Init => StatsInv
  <2> SUFFICES ASSUME Init PROVE StatsInv
    OBVIOUS
  <2>1. TypeInv
    BY InitType
  <2>2. ReportQuiet /\ FullWhenGivenBack
    BY DEF Init, ReportQuiet, FullWhenGivenBack
  <2>3. ASSUME NEW m \in Miners PROVE ReportedValid(m) = 0 /\ InLedger(m) = 0
    <3>1. /\ At(msgq, {ValidFor(m)}) = {} /\ At(ledger, ByMiner(m)) = {}
          /\ valid_blocks[m] = 0
      BY EmptySeq DEF Init, At
    <3>2. Owing(m) = {}
      BY SilentDiffers DEF Init, Owing
    <3>3. Cardinality({}) = 0
      BY FS_EmptySet
    <3>4. /\ ReportedValid(m) = 0 + Cardinality({}) + Cardinality({})
          /\ InLedger(m) = Cardinality({})
      BY <2>1, <3>1, <3>2, StatCounts
    <3> QED
      BY <3>3, <3>4
  <2>4. StatsMatchLedger
    BY <2>3 DEF StatsMatchLedger
  <2> QED
    BY <2>2, <2>4 DEF StatsInv
<1>2. TypeInv /\ StatsInv /\ [Next]_vars => StatsInv'
  BY NextStats
<1>3. StatsInv => StatsMatchLedger
  BY DEF StatsInv
<1> QED
  BY <1>1, <1>2, <1>3, TypeInvariant, PTL DEF Spec
=============================================================================
