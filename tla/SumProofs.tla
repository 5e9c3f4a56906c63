------------------------------ MODULE SumProofs ------------------------------
(***************************************************************************)
(* Sums over sets of any size, and what rests on them: how old the updates *)
(* of all validators can make a transaction, and that no credit is lost or *)
(* counted twice on its way from the ledger to the statistics process.     *)
(*                                                                         *)
(* A fold is a function chosen to satisfy a recursive equation.  That one  *)
(* exists, and that it is the only one, is shown without an induction      *)
(* principle: a set that had no sum, or two, would have a smallest part    *)
(* that has none, or two, and that part less one element has just one.     *)
(***************************************************************************)
EXTENDS RewardsProofs, FiniteSetTheorems

\* Every nonempty set of numbers has a least one.
LEMMA LeastNat ==
  ASSUME NEW T \in SUBSET Nat, T # {}
  PROVE  \E x \in T : \A y \in T : x <= y
<1>1. PICK R : R = OpToRel(<, Nat)
  OBVIOUS
<1>2. IsWellFoundedOn(R, Nat)
  BY <1>1, NatLessThanWellFounded
<1>3. PICK x \in T : \A y \in T : ~ (<<y, x>> \in R)
  BY <1>2, WFMin
<1>4. \A y \in T : y < x => <<y, x>> \in R
  BY <1>1 DEF OpToRel
<1>5. \A y \in T : y \in Nat /\ ~ (y < x)
  BY <1>3, <1>4
<1>6. \A y \in T : x <= y
  BY <1>5
<1> QED
  BY <1>6

\* A set of finite sets has a member of least cardinality: when one is taken
\* that has less, it is not in the set.
LEMMA SmallestSet ==
  ASSUME NEW C, C # {}, \A s \in C : IsFiniteSet(s)
  PROVE  \E s \in C : /\ Cardinality(s) \in Nat
                      /\ \A x \in s : s \ {x} \notin C
<1>1. PICK T : T = {Cardinality(s) : s \in C}
  OBVIOUS
<1>2. T \in SUBSET Nat /\ T # {}
  BY <1>1, FS_CardinalityType
<1>3. PICK n \in T : \A y \in T : n <= y
  BY <1>2, LeastNat
<1>4. PICK s \in C : Cardinality(s) = n
  BY <1>1
<1>5. ASSUME NEW x \in s PROVE s \ {x} \notin C
  <2>1. Cardinality(s \ {x}) = Cardinality(s) - 1 /\ n \in Nat
    BY <1>2, <1>4, FS_RemoveElement
  <2> QED
    BY <1>1, <1>3, <1>4, <2>1
<1> QED
  BY <1>2, <1>4, <1>5

\* g[s] is the sum of f over s, for each part s of S.
Adds(g, f, S) ==
  /\ g \in [SUBSET S -> Int]
  /\ g[{}] = 0
  /\ \A s \in SUBSET S : \A x \in s : g[s] = f[x] + g[s \ {x}]

LEMMA AddsExtend ==
  ASSUME NEW S, NEW d \in S, NEW f, \A x \in S : f[x] \in Int,
         NEW g, Adds(g, f, S \ {d})
  PROVE  \E h : Adds(h, f, S)
<1>1. PICK h : h = [s \in SUBSET S |-> IF d \in s THEN f[d] + g[s \ {d}]
                                                 ELSE g[s]]
  OBVIOUS
<1>2. h \in [SUBSET S -> Int] /\ h[{}] = 0
  <2>1. \A s \in SUBSET S : s \ {d} \in SUBSET (S \ {d})
    OBVIOUS
  <2>2. \A s \in SUBSET S : d \notin s => s \in SUBSET (S \ {d})
    OBVIOUS
  <2>3. \A s \in SUBSET S : h[s] \in Int
    BY <1>1, <2>1, <2>2 DEF Adds
  <2> QED
    BY <1>1, <2>3 DEF Adds
<1>3. ASSUME NEW s \in SUBSET S, NEW x \in s
      PROVE  h[s] = f[x] + h[s \ {x}]
  <2>1. f[x] \in Int /\ f[d] \in Int
    OBVIOUS
  <2>2. CASE x = d
    <3>1. h[s] = f[d] + g[s \ {d}] /\ h[s \ {d}] = g[s \ {d}]
      BY <1>1, <2>2
    <3> QED
      BY <2>2, <3>1
  <2>3. CASE x # d /\ d \in s
    <3>1. s \ {d} \in SUBSET (S \ {d}) /\ x \in s \ {d}
      BY <2>3
    <3>2. g[s \ {d}] = f[x] + g[(s \ {d}) \ {x}]
      BY <3>1 DEF Adds
    <3>3. (s \ {d}) \ {x} = (s \ {x}) \ {d}
      OBVIOUS
    <3>4. h[s] = f[d] + g[s \ {d}] /\ h[s \ {x}] = f[d] + g[(s \ {x}) \ {d}]
      BY <1>1, <2>3
    <3>5. PICK r \in Int : r = g[(s \ {d}) \ {x}]
      BY <3>1 DEF Adds
    <3>6. h[s] = f[d] + (f[x] + r) /\ h[s \ {x}] = f[d] + r
      BY <3>2, <3>3, <3>4, <3>5
    <3> QED
      BY <2>1, <3>6
  <2>4. CASE d \notin s
    <3>1. s \in SUBSET (S \ {d}) /\ h[s] = g[s] /\ h[s \ {x}] = g[s \ {x}]
      BY <1>1, <2>4
    <3> QED
      BY <3>1 DEF Adds
  <2> QED
    BY <2>2, <2>3, <2>4
<1> QED
  BY <1>2, <1>3 DEF Adds

LEMMA AddsExists ==
  ASSUME NEW S, IsFiniteSet(S), NEW f, \A x \in S : f[x] \in Int
  PROVE  \E g : Adds(g, f, S)
<1> SUFFICES ASSUME ~ \E g : Adds(g, f, S) PROVE FALSE
  OBVIOUS
<1>1. PICK C : C = {D \in SUBSET S : ~ \E g : Adds(g, f, D)}
  OBVIOUS
<1>2. S \in C /\ \A s \in C : IsFiniteSet(s)
  BY <1>1, FS_Subset
<1>3. PICK D \in C : \A x \in D : D \ {x} \notin C
  BY <1>2, SmallestSet
<1>4. D \in SUBSET S /\ ~ \E g : Adds(g, f, D)
  BY <1>1, <1>2
<1>5. D # {}
  <2>1. Adds([s \in SUBSET {} |-> 0], f, {})
    BY DEF Adds
  <2> QED
    BY <1>4, <2>1
<1>6. PICK d \in D : D \ {d} \notin C
  BY <1>3, <1>5
<1>7. PICK g : Adds(g, f, D \ {d})
  BY <1>1, <1>4, <1>6
<1> QED
  BY <1>4, <1>7, AddsExtend

\* The folding function of the community module adds up.
LEMMA SumAdds ==
  ASSUME NEW S, IsFiniteSet(S), NEW f, NEW g, Adds(g, f, S)
  PROVE  SumFunctionOnSet(f, S) = g[S]
<1>1. g = [s \in SUBSET S |->
            IF s = {} THEN 0
            ELSE LET x == CHOOSE y \in s : TRUE IN f[x] + g[s \ {x}]]
  <2>1. \A s \in SUBSET S :
          g[s] = IF s = {} THEN 0
                 ELSE LET x == CHOOSE y \in s : TRUE IN f[x] + g[s \ {x}]
    BY DEF Adds
  <2> QED
    BY <2>1 DEF Adds
<1>2. PICK it : /\ it = [s \in SUBSET S |->
                     IF s = {} THEN 0
                     ELSE LET x == CHOOSE y \in s : TRUE IN f[x] + it[s \ {x}]]
                /\ SumFunctionOnSet(f, S) = it[S]
  BY <1>1 DEF SumFunctionOnSet, FoldFunctionOnSet, MapThenFoldSet
<1>3. PICK C : C = {s \in SUBSET S : it[s] # g[s]}
  OBVIOUS
<1>4. C = {}
  <2> SUFFICES ASSUME C # {} PROVE FALSE
    OBVIOUS
  <2>1. \A s \in C : IsFiniteSet(s)
    BY <1>3, FS_Subset
  <2>2. PICK s \in C : \A x \in s : s \ {x} \notin C
    BY <2>1, SmallestSet
  <2>3. s \in SUBSET S /\ it[s] # g[s]
    BY <1>3
  <2>4. s # {}
    BY <1>2, <2>3 DEF Adds
  <2>5. PICK x : x = CHOOSE y \in s : TRUE
    OBVIOUS
  <2>6. x \in s /\ it[s] = f[x] + it[s \ {x}]
    BY <1>2, <2>3, <2>4, <2>5
  <2>7. g[s] = f[x] + g[s \ {x}]
    BY <2>3, <2>6 DEF Adds
  <2>8. it[s \ {x}] = g[s \ {x}]
    BY <1>3, <2>2, <2>3, <2>6
  <2> QED
    BY <2>3, <2>6, <2>7, <2>8
<1> QED
  BY <1>2, <1>3, <1>4

\* The sums over the parts of a finite set.
LEMMA PartSums ==
  ASSUME NEW S, IsFiniteSet(S), NEW f, \A x \in S : f[x] \in Int
  PROVE  \E g : /\ Adds(g, f, S)
                /\ \A s \in SUBSET S : SumFunctionOnSet(f, s) = g[s]
<1>1. PICK g : Adds(g, f, S)
  BY AddsExists
<1>2. ASSUME NEW s \in SUBSET S PROVE SumFunctionOnSet(f, s) = g[s]
  <2>1. PICK h : h = [t \in SUBSET s |-> g[t]]
    OBVIOUS
  <2>2. Adds(h, f, s)
    BY <1>1, <2>1 DEF Adds
  <2>3. SumFunctionOnSet(f, s) = h[s]
    BY <2>2, SumAdds, FS_Subset
  <2> QED
    BY <2>1, <2>3
<1> QED
  BY <1>1, <1>2

LEMMA SumInt ==
  ASSUME NEW S, IsFiniteSet(S), NEW f, \A x \in S : f[x] \in Int
  PROVE  /\ SumFunctionOnSet(f, S) \in Int
         /\ SumFunctionOnSet(f, {}) = 0
<1>1. PICK g : /\ Adds(g, f, S)
               /\ \A s \in SUBSET S : SumFunctionOnSet(f, s) = g[s]
  BY PartSums
<1>2. S \in SUBSET S /\ {} \in SUBSET S
  OBVIOUS
<1> QED
  BY <1>1, <1>2 DEF Adds

LEMMA SumEmpty ==
  ASSUME NEW f
  PROVE  SumFunctionOnSet(f, {}) = 0
<1>1. PICK g : g = [s \in SUBSET {} |-> 0]
  OBVIOUS
<1>2. Adds(g, f, {})
  BY <1>1 DEF Adds
<1>3. SumFunctionOnSet(f, {}) = g[{}]
  BY <1>2, FS_EmptySet, SumAdds
<1> QED
  BY <1>2, <1>3 DEF Adds

LEMMA SumRemove ==
  ASSUME NEW S, IsFiniteSet(S), NEW f, \A x \in S : f[x] \in Int, NEW x \in S
  PROVE  SumFunctionOnSet(f, S) = f[x] + SumFunctionOnSet(f, S \ {x})
<1>1. PICK g : /\ Adds(g, f, S)
               /\ \A s \in SUBSET S : SumFunctionOnSet(f, s) = g[s]
  BY PartSums
<1>2. S \in SUBSET S /\ S \ {x} \in SUBSET S
  OBVIOUS
<1> QED
  BY <1>1, <1>2 DEF Adds

LEMMA SumSame ==
  ASSUME NEW S, IsFiniteSet(S), NEW f, \A x \in S : f[x] \in Int,
         NEW h, \A x \in S : h[x] = f[x]
  PROVE  SumFunctionOnSet(h, S) = SumFunctionOnSet(f, S)
<1>1. PICK g : Adds(g, f, S)
  BY AddsExists
<1>2. Adds(g, h, S)
  BY <1>1 DEF Adds
<1> QED
  BY <1>1, <1>2, SumAdds

\* Values up to c give a sum up to c for each element.
LEMMA SumBound ==
  ASSUME NEW S, IsFiniteSet(S), NEW c \in Int, NEW f,
         \A x \in S : f[x] \in Int /\ f[x] <= c
  PROVE  SumFunctionOnSet(f, S) <= Cardinality(S) * c
<1>1. PICK C : C = {D \in SUBSET S :
                      ~ (SumFunctionOnSet(f, D) <= Cardinality(D) * c)}
  OBVIOUS
<1>2. C = {}
  <2> SUFFICES ASSUME C # {} PROVE FALSE
    OBVIOUS
  <2>1. \A D \in C : D \in SUBSET S /\ IsFiniteSet(D)
    BY <1>1, FS_Subset
  <2>2. PICK D \in C : \A x \in D : D \ {x} \notin C
    BY <2>1, SmallestSet
  <2>3. CASE D = {}
    <3>1. SumFunctionOnSet(f, D) = 0 /\ Cardinality(D) = 0
      BY <2>3, SumInt, FS_EmptySet
    <3>2. 0 * c = 0
      BY Z3
    <3> QED
      BY <1>1, <3>1, <3>2
  <2>4. CASE D # {}
    <3>1. PICK x \in D : D \ {x} \notin C
      BY <2>2, <2>4
    <3>2. /\ D \ {x} \in SUBSET S /\ IsFiniteSet(D \ {x})
          /\ Cardinality(D) \in Nat
          /\ Cardinality(D \ {x}) = Cardinality(D) - 1
      BY <2>1, FS_RemoveElement, FS_CardinalityType
    <3>3. SumFunctionOnSet(f, D \ {x}) <= Cardinality(D \ {x}) * c
      BY <1>1, <3>1, <3>2
    <3>4. SumFunctionOnSet(f, D) = f[x] + SumFunctionOnSet(f, D \ {x})
      BY <2>1, SumRemove
    <3>5. SumFunctionOnSet(f, D \ {x}) \in Int /\ f[x] \in Int /\ f[x] <= c
      BY <2>1, <3>2, SumInt
    <3>6. ASSUME NEW n \in Int, NEW a \in Int, NEW s \in Int,
                 a <= c, s <= (n - 1) * c
          PROVE  a + s <= n * c
      <4>1. (n - 1) * c = n * c - c
        OBVIOUS
      <4> QED
        BY <3>6, <4>1
    <3> QED
      BY <1>1, <3>2, <3>3, <3>4, <3>5, <3>6
  <2> QED
    BY <2>3, <2>4
<1>3. S \in SUBSET S
  OBVIOUS
<1> QED
  BY <1>1, <1>2, <1>3

LEMMA SumNat ==
  ASSUME NEW S, IsFiniteSet(S), NEW f, \A x \in S : f[x] \in Nat
  PROVE  SumFunctionOnSet(f, S) \in Nat
<1>1. PICK C : C = {D \in SUBSET S : SumFunctionOnSet(f, D) \notin Nat}
  OBVIOUS
<1>2. C = {}
  <2> SUFFICES ASSUME C # {} PROVE FALSE
    OBVIOUS
  <2>1. \A D \in C : D \in SUBSET S /\ IsFiniteSet(D)
    BY <1>1, FS_Subset
  <2>2. PICK D \in C : \A x \in D : D \ {x} \notin C
    BY <2>1, SmallestSet
  <2>3. \A x \in D : f[x] \in Int
    BY <2>1
  <2>4. D # {}
    <3>1. SumFunctionOnSet(f, D) \notin Nat
      BY <1>1
    <3>2. SumFunctionOnSet(f, {}) = 0
      BY <2>1, <2>3, SumInt
    <3> QED
      BY <3>1, <3>2
  <2>5. PICK x \in D : D \ {x} \notin C
    BY <2>2, <2>4
  <2>6. SumFunctionOnSet(f, D \ {x}) \in Nat /\ f[x] \in Nat
    BY <1>1, <2>1, <2>5
  <2>7. SumFunctionOnSet(f, D) = f[x] + SumFunctionOnSet(f, D \ {x})
    BY <2>1, <2>3, SumRemove
  <2> QED
    BY <1>1, <2>6, <2>7
<1>3. S \in SUBSET S
  OBVIOUS
<1> QED
  BY <1>1, <1>2, <1>3

\* One value is replaced.
LEMMA SumUpdate ==
  ASSUME NEW S, IsFiniteSet(S), NEW f, \A x \in S : f[x] \in Int,
         NEW h, NEW v \in S, h[v] \in Int, \A x \in S \ {v} : h[x] = f[x]
  PROVE  SumFunctionOnSet(h, S) = SumFunctionOnSet(f, S) - f[v] + h[v]
<1>1. IsFiniteSet(S \ {v}) /\ \A x \in S : h[x] \in Int
  BY FS_RemoveElement
<1>2. SumFunctionOnSet(h, S \ {v}) = SumFunctionOnSet(f, S \ {v})
  BY <1>1, SumSame
<1>3. SumFunctionOnSet(f, S \ {v}) \in Int
  BY <1>1, SumInt
<1>4. /\ SumFunctionOnSet(f, S) = f[v] + SumFunctionOnSet(f, S \ {v})
      /\ SumFunctionOnSet(h, S) = h[v] + SumFunctionOnSet(h, S \ {v})
  BY <1>1, SumRemove
<1> QED
  BY <1>2, <1>3, <1>4

\* A value is added at the end of a list.
LEMMA SumAppend ==
  ASSUME NEW n \in Nat, NEW f, \A k \in 1..n : f[k] \in Int,
         NEW h, h[n + 1] \in Int, \A k \in 1..n : h[k] = f[k]
  PROVE  SumFunctionOnSet(h, 1..(n + 1)) = SumFunctionOnSet(f, 1..n) + h[n + 1]
<1>1. /\ IsFiniteSet(1..(n + 1)) /\ IsFiniteSet(1..n)
      /\ n + 1 \in 1..(n + 1) /\ (1..(n + 1)) \ {n + 1} = 1..n
  <2>1. \A b \in Nat : IsFiniteSet(1..b)
    BY FS_Interval
  <2> QED
    BY <2>1
<1>2. \A k \in 1..(n + 1) : h[k] \in Int
  BY <1>1
<1>3. SumFunctionOnSet(h, 1..(n + 1)) = h[n + 1] + SumFunctionOnSet(h, 1..n)
  BY <1>1, <1>2, SumRemove
<1>4. SumFunctionOnSet(h, 1..n) = SumFunctionOnSet(f, 1..n)
  BY <1>1, SumSame
<1>5. SumFunctionOnSet(f, 1..n) \in Int
  BY <1>1, SumInt
<1> QED
  BY <1>3, <1>4, <1>5

\* The first value of a list is taken away.
LEMMA SumTail ==
  ASSUME NEW n \in Nat, NEW f, \A k \in 1..(n + 1) : f[k] \in Int,
         NEW h, \A k \in 1..n : h[k] = f[k + 1]
  PROVE  SumFunctionOnSet(f, 1..(n + 1)) = f[1] + SumFunctionOnSet(h, 1..n)
<1>1. PICK C : C = {j \in 0..n :
                      SumFunctionOnSet(f, 1..(j + 1))
                        # f[1] + SumFunctionOnSet(h, 1..j)}
  OBVIOUS
<1>2. C = {}
  <2> SUFFICES ASSUME C # {} PROVE FALSE
    OBVIOUS
  <2>1. C \in SUBSET Nat
    BY <1>1
  <2>2. PICK j \in C : \A i \in C : j <= i
    BY <2>1, LeastNat
  <2>3. j \in 0..n /\ SumFunctionOnSet(f, 1..(j + 1))
                        # f[1] + SumFunctionOnSet(h, 1..j)
    BY <1>1
  <2>4. 1..(j + 1) \subseteq 1..(n + 1) /\ 1..j \subseteq 1..n
    BY <2>3
  <2>5. /\ \A k \in 1..(j + 1) : f[k] \in Int
        /\ \A k \in 1..j : h[k] \in Int
    <3>1. \A k \in 1..n : k + 1 \in 1..(n + 1)
      OBVIOUS
    <3> QED
      BY <2>4, <3>1
  <2>6. SumFunctionOnSet(f, 1..(j + 1))
          = SumFunctionOnSet(f, 1..j) + f[j + 1]
    <3>1. \A k \in 1..j : f[k] \in Int
      BY <2>3, <2>5
    <3>2. f[j + 1] \in Int
      BY <2>3, <2>5
    <3> QED
      BY <2>3, <3>1, <3>2, SumAppend
  <2>7. CASE j = 0
    <3>1. SumFunctionOnSet(f, 1..j) = 0 /\ SumFunctionOnSet(h, 1..j) = 0
      <4>1. 1..j = {} /\ IsFiniteSet({})
        BY <2>7, FS_EmptySet
      <4> QED
        BY <4>1, SumInt
    <3>2. f[1] \in Int
      BY <2>3, <2>5, <2>7
    <3> QED
      BY <2>3, <2>6, <2>7, <3>1, <3>2
  <2>8. CASE j # 0
    <3>1. j - 1 \in 0..n /\ j - 1 \in Nat /\ (j - 1) + 1 = j /\ j \in 1..j
      BY <2>3, <2>8
    <3>2. j - 1 \notin C
      BY <2>2, <2>3, <3>1
    <3>3. SumFunctionOnSet(f, 1..j) = f[1] + SumFunctionOnSet(h, 1..(j - 1))
      BY <1>1, <3>1, <3>2
    <3>4. SumFunctionOnSet(h, 1..j)
            = SumFunctionOnSet(h, 1..(j - 1)) + h[j]
      <4>1. \A k \in 1..(j - 1) : h[k] \in Int
        BY <2>5, <3>1
      <4>2. h[(j - 1) + 1] \in Int
        BY <2>5, <3>1
      <4>3. SumFunctionOnSet(h, 1..((j - 1) + 1))
              = SumFunctionOnSet(h, 1..(j - 1)) + h[(j - 1) + 1]
        BY <3>1, <4>1, <4>2, SumAppend
      <4> QED
        BY <3>1, <4>3
    <3>5. h[j] = f[j + 1] /\ h[j] \in Int /\ f[1] \in Int
      BY <2>3, <2>4, <2>5, <3>1
    <3>6. SumFunctionOnSet(h, 1..(j - 1)) \in Int
      <4>1. IsFiniteSet(1..(j - 1))
        BY <3>1, FS_Interval
      <4>2. \A k \in 1..(j - 1) : h[k] \in Int
        BY <2>3, <2>5
      <4> QED
        BY <4>1, <4>2, SumInt
    <3> QED
      BY <2>3, <2>6, <3>3, <3>4, <3>5, <3>6
  <2> QED
    BY <2>7, <2>8
<1>3. n \in 0..n
  OBVIOUS
<1> QED
  BY <1>1, <1>2, <1>3

-----------------------------------------------------------------------------
(***************************************************************************)
(* Ages.  A validator ages the pool once for each second its clock shows   *)
(* after its last update.  So the updates since second d that it has made  *)
(* are the seconds from d to its last one, with the update of second d     *)
(* itself and one whose time was read before and that came later.          *)
(***************************************************************************)

Started == {v \in Validators : vpc[v] # "off"}

Agings(d) ==
  [v \in Started |->
     IF last[v] >= d THEN last[v] - d + 2
     ELSE IF vpc[v] = "ageing" /\ seen[v] < d THEN 0 ELSE 1]

AgeLimit(d) == SumFunctionOnSet(Agings(d), Started)

StartedCounted ==
  IsFiniteSet(Started) /\ Cardinality(Started) = active /\ Primary \in Started

ClocksRight ==
  /\ now \in 1..(MaxTime + 1)
  /\ last \in [Validators -> Nat] /\ seen \in [Validators -> Nat]
  /\ \A v \in Validators :
       /\ last[v] <= now
       /\ vpc[v] = "ageing" => last[v] < seen[v] /\ seen[v] <= now

AgesLimited ==
  \A i \in Slot, d \in Nat :
    pool[i].made = d => d <= now /\ pool[i].age <= AgeLimit(d)

AgeInv == StartedCounted /\ ClocksRight /\ AgesLimited

LEMMA AgingsType ==
  ASSUME ClocksRight, NEW d \in Nat
  PROVE  \A v \in Started : Agings(d)[v] \in Nat
BY DEF ClocksRight, Agings, Started

LEMMA LimitType ==
  ASSUME StartedCounted, ClocksRight, NEW d \in Nat
  PROVE  AgeLimit(d) \in Nat
BY AgingsType, SumNat DEF StartedCounted, AgeLimit

LEMMA InitAge == Init => AgeInv
<1> SUFFICES ASSUME Init PROVE AgeInv
  OBVIOUS
<1>1. Started = {Primary}
  BY DEF Init, Started, Validators
<1>2. StartedCounted
  BY <1>1, FS_Singleton DEF Init, StartedCounted
<1>3. ClocksRight
  BY RewardAssumption DEF Init, ClocksRight
<1>4. AgesLimited
  <2>1. \A i \in Slot : pool[i].made = 0 /\ pool[i].age = 0
    BY DEF Init, Free
  <2>2. AgeLimit(0) \in Nat
    BY <1>2, <1>3, LimitType
  <2> QED
    BY <2>1, <2>2 DEF Init, AgesLimited
<1> QED
  BY <1>2, <1>3, <1>4 DEF AgeInv

\* No validator starts, reads the time or ages the pool.
LEMMA LimitKept ==
  ASSUME UNCHANGED <<last, seen>>, NEW d,
         \A v \in Validators :
           /\ vpc'[v] = "off" <=> vpc[v] = "off"
           /\ vpc'[v] = "ageing" <=> vpc[v] = "ageing"
  PROVE  AgeLimit(d)' = AgeLimit(d) /\ Started' = Started
<1>1. Started' = Started
  BY DEF Started
<1>2. Agings(d)' = Agings(d)
  BY <1>1 DEF Agings, Started
<1> QED
  BY <1>1, <1>2 DEF AgeLimit

LEMMA AgesKept ==
  ASSUME BlockTypeOK, AgeInv, UNCHANGED <<last, seen, active>>,
         now' \in 1..(MaxTime + 1), now <= now',
         \A v \in Validators : /\ vpc'[v] = "off" <=> vpc[v] = "off"
                               /\ vpc'[v] = "ageing" <=> vpc[v] = "ageing",
         \A i \in Slot : \/ /\ pool'[i].made = pool[i].made
                            /\ pool'[i].age = pool[i].age \/ pool'[i].age = 0
                         \/ pool'[i].made = now /\ pool'[i].age = 0
  PROVE  AgeInv'
<1>1. \A d : AgeLimit(d)' = AgeLimit(d) /\ Started' = Started
  BY LimitKept
<1>2. StartedCounted'
  BY <1>1 DEF AgeInv, StartedCounted
<1>3. now \in Nat /\ now' \in Nat
  BY RewardAssumption DEF AgeInv, ClocksRight
<1>4. ClocksRight'
  BY <1>3 DEF AgeInv, ClocksRight
<1>5. AgesLimited'
  <2> SUFFICES ASSUME NEW i \in Slot, NEW d \in Nat, pool'[i].made = d
               PROVE  d <= now' /\ pool'[i].age <= AgeLimit(d)'
    BY DEF AgesLimited
  <2>1. /\ pool[i].made \in Nat /\ pool[i].made <= now /\ pool[i].age \in Nat
        /\ pool[i].age <= AgeLimit(pool[i].made)
    BY DEF BlockTypeOK, Entry, AgeInv, AgesLimited
  <2>3. d <= now
    BY <1>3, <2>1
  <2>4. AgeLimit(d) \in Nat
    BY <2>3, LimitType DEF AgeInv
  <2>5. pool'[i].age <= AgeLimit(d)
    <3>1. CASE pool'[i].age = 0
      BY <2>4, <3>1
    <3>2. CASE pool'[i].made = pool[i].made /\ pool'[i].age = pool[i].age
      BY <2>1, <3>2
    <3> QED
      BY <3>1, <3>2
  <2> QED
    BY <1>1, <1>3, <2>3, <2>5
<1> QED
  BY <1>2, <1>4, <1>5 DEF AgeInv

\* One validator starts with the last update of the primary.
LEMMA ForkAge ==
  ASSUME BlockTypeOK, AgeInv, NEW c \in Children, Fork(c)
  PROVE  AgeInv'
<1>1. /\ UNCHANGED <<now, pool, seen>> /\ active' = active + 1
      /\ vpc[c] = "off" /\ vpc' = [vpc EXCEPT ![c] = "loop"]
      /\ last' = [last EXCEPT ![c] = last[Primary]]
      /\ c \in Validators /\ Primary \in Validators
  BY DEF Fork, poolVars, Validators
<1>2. Started' = Started \cup {c} /\ c \notin Started
  BY <1>1 DEF Started, BlockTypeOK
<1>3. StartedCounted'
  <2>1. /\ IsFiniteSet(Started')
        /\ Cardinality(Started') = Cardinality(Started) + 1
    BY <1>2, FS_AddElement DEF AgeInv, StartedCounted
  <2> QED
    BY <1>1, <1>2, <2>1 DEF AgeInv, StartedCounted
<1>4. ClocksRight'
  BY <1>1 DEF AgeInv, ClocksRight, BlockTypeOK
<1>5. \A d \in Nat : AgeLimit(d) <= AgeLimit(d)'
  <2> SUFFICES ASSUME NEW d \in Nat PROVE AgeLimit(d) <= AgeLimit(d)'
    OBVIOUS
  <2>1. PICK f : f = Agings(d)'
    OBVIOUS
  <2>2. PICK T : T = Started'
    OBVIOUS
  <2>3. \A v \in T : f[v] \in Nat
    <3>1. \A v \in Started' : Agings(d)'[v] \in Nat
      BY <1>4 DEF ClocksRight, Agings, Started
    <3> QED
      BY <2>1, <2>2, <3>1
  <2>4. \A v \in Started : f[v] = Agings(d)[v]
    BY <1>1, <1>2, <2>1 DEF Agings, Started, BlockTypeOK, AgeInv, ClocksRight
  <2>5. /\ SumFunctionOnSet(f, T) = f[c] + SumFunctionOnSet(f, T \ {c})
        /\ T \ {c} = Started /\ f[c] \in Nat /\ IsFiniteSet(Started)
    <3>1. IsFiniteSet(T) /\ c \in T /\ \A v \in T : f[v] \in Int
      BY <1>2, <1>3, <2>2, <2>3 DEF StartedCounted
    <3>2. SumFunctionOnSet(f, T) = f[c] + SumFunctionOnSet(f, T \ {c})
      BY <3>1, SumRemove
    <3> QED
      BY <1>2, <2>2, <2>3, <3>2 DEF AgeInv, StartedCounted
  <2>6. SumFunctionOnSet(f, Started) = AgeLimit(d)
    <3>1. \A v \in Started : Agings(d)[v] \in Int
      BY AgingsType DEF AgeInv
    <3> QED
      BY <2>4, <2>5, <3>1, SumSame DEF AgeLimit
  <2>7. AgeLimit(d) \in Nat
    BY LimitType DEF AgeInv
  <2> QED
    BY <2>1, <2>2, <2>5, <2>6, <2>7 DEF AgeLimit
<1>6. AgesLimited'
  <2> SUFFICES ASSUME NEW i \in Slot, NEW d \in Nat, pool'[i].made = d
               PROVE  d <= now' /\ pool'[i].age <= AgeLimit(d)'
    BY DEF AgesLimited
  <2>2. d <= now /\ pool[i].age \in Nat /\ pool[i].age <= AgeLimit(d)
    BY <1>1 DEF BlockTypeOK, Entry, AgeInv, AgesLimited
  <2>3. AgeLimit(d) \in Nat /\ AgeLimit(d)' \in Nat
    <3>1. AgeLimit(d)' \in Nat
      BY <1>3, <1>4, <2>2, SumNat
      DEF ClocksRight, StartedCounted, Agings, Started, AgeLimit
    <3> QED
      BY <2>2, <3>1, LimitType DEF AgeInv
  <2>4. pool[i].age <= AgeLimit(d)'
    BY <1>5, <2>2, <2>3
  <2> QED
    BY <1>1, <2>2, <2>4
<1> QED
  BY <1>3, <1>4, <1>6 DEF AgeInv

\* A validator that reads the time may have made as many updates as before.
LEMMA ReadAge ==
  ASSUME BlockTypeOK, AgeInv, NEW v \in Validators, ReadTime(v)
  PROVE  AgeInv'
<1>1. /\ UNCHANGED <<now, pool, last, active>>
      /\ vpc[v] = "loop" /\ vpc' = [vpc EXCEPT ![v] = "ageing"]
      /\ now > last[v] /\ seen' = [seen EXCEPT ![v] = now]
  BY DEF ReadTime, To, poolVars
<1>2. Started' = Started
  BY <1>1 DEF Started, BlockTypeOK
<1>3. now \in Nat
  BY RewardAssumption DEF AgeInv, ClocksRight
<1>4. ClocksRight'
  BY <1>1, <1>3 DEF AgeInv, ClocksRight, BlockTypeOK
<1>5. \A d \in Nat : d <= now => AgeLimit(d)' = AgeLimit(d)
  <2> SUFFICES ASSUME NEW d \in Nat, d <= now
               PROVE  Agings(d)' = Agings(d)
    BY <1>2 DEF AgeLimit
  <2>1. \A w \in Started : Agings(d)'[w] = Agings(d)[w]
    <3> SUFFICES ASSUME NEW w \in Started
                 PROVE  Agings(d)'[w] = Agings(d)[w]
      OBVIOUS
    <3>1. CASE w = v
      <4>1. vpc'[w] = "ageing" /\ seen'[w] = now /\ ~(now < d)
        BY <1>1, <1>3, <3>1 DEF BlockTypeOK, AgeInv, ClocksRight
      <4> QED
        BY <1>1, <1>2, <3>1, <4>1 DEF Agings
    <3>2. CASE w # v
      <4>1. vpc'[w] = vpc[w] /\ seen'[w] = seen[w]
        BY <1>1, <3>2 DEF BlockTypeOK, AgeInv, ClocksRight, Started
      <4> QED
        BY <1>1, <1>2, <4>1 DEF Agings
    <3> QED
      BY <3>1, <3>2
  <2> QED
    BY <1>2, <2>1 DEF Agings
<1>6. AgesLimited'
  <2> SUFFICES ASSUME NEW i \in Slot, NEW d \in Nat, pool'[i].made = d
               PROVE  d <= now' /\ pool'[i].age <= AgeLimit(d)'
    BY DEF AgesLimited
  <2>1. d <= now /\ pool[i].age <= AgeLimit(d)
    BY <1>1 DEF BlockTypeOK, Entry, AgeInv, AgesLimited
  <2> QED
    BY <1>1, <1>5, <2>1
<1> QED
  BY <1>1, <1>2, <1>4, <1>6 DEF AgeInv, StartedCounted

\* An update adds one to the ages, and to what its validator may have added.
LEMMA UpdateAge ==
  ASSUME BlockTypeOK, AgeInv, NEW v \in Validators, AgePool(v)
  PROVE  AgeInv'
<1>1. /\ UNCHANGED <<now, active>> /\ pool' = Aged
      /\ vpc[v] = "ageing" /\ vpc' = [vpc EXCEPT ![v] = "loop"]
      /\ last' = [last EXCEPT ![v] = seen[v]] /\ seen' = [seen EXCEPT ![v] = 0]
  BY DEF AgePool, To
<1>2. Started' = Started /\ v \in Started
  BY <1>1 DEF Started, BlockTypeOK
<1>3. /\ now \in Nat /\ last[v] \in Nat /\ seen[v] \in Nat
      /\ last[v] < seen[v] /\ seen[v] <= now
  BY <1>1, RewardAssumption DEF AgeInv, ClocksRight
<1>4. ClocksRight'
  BY <1>1, <1>3 DEF AgeInv, ClocksRight, BlockTypeOK
<1>5. \A d \in Nat : AgeLimit(d)' \in Int /\ AgeLimit(d) + 1 <= AgeLimit(d)'
  <2> SUFFICES ASSUME NEW d \in Nat
               PROVE  AgeLimit(d)' \in Int /\ AgeLimit(d) + 1 <= AgeLimit(d)'
    OBVIOUS
  <2>1. PICK f : f = Agings(d)'
    OBVIOUS
  <2>2. PICK g : g = Agings(d)
    OBVIOUS
  <2>3. \A w \in Started : w # v => f[w] = g[w]
    BY <1>1, <1>2, <2>1, <2>2
    DEF Agings, BlockTypeOK, AgeInv, ClocksRight, Started
  <2>4. f[v] = IF seen[v] >= d THEN seen[v] - d + 2 ELSE 1
    <3>1. last'[v] = seen[v] /\ vpc'[v] = "loop"
      BY <1>1 DEF BlockTypeOK, AgeInv, ClocksRight
    <3> QED
      BY <1>2, <2>1, <3>1 DEF Agings
  <2>5. g[v] = IF last[v] >= d THEN last[v] - d + 2
               ELSE IF seen[v] < d THEN 0 ELSE 1
    BY <1>1, <1>2, <2>2 DEF Agings
  <2>6. f[v] \in Int /\ g[v] \in Int /\ g[v] + 1 <= f[v]
    BY <1>3, <2>4, <2>5
  <2>7. \A w \in Started : g[w] \in Int
    BY <2>2, AgingsType DEF AgeInv
  <2>8. /\ IsFiniteSet(Started)
        /\ SumFunctionOnSet(f, Started)
             = SumFunctionOnSet(g, Started) - g[v] + f[v]
    <3>1. IsFiniteSet(Started)
      BY DEF AgeInv, StartedCounted
    <3> QED
      BY <1>2, <2>3, <2>6, <2>7, <3>1, SumUpdate
  <2>9. SumFunctionOnSet(g, Started) \in Int
    BY <2>7, <2>8, SumInt
  <2>10. AgeLimit(d) = SumFunctionOnSet(g, Started)
    BY <2>2 DEF AgeLimit
  <2>11. AgeLimit(d)' = SumFunctionOnSet(f, Started)
    BY <1>2, <2>1 DEF AgeLimit
  <2> QED
    BY <2>6, <2>8, <2>9, <2>10, <2>11
<1>6. AgesLimited'
  <2> SUFFICES ASSUME NEW i \in Slot, NEW d \in Nat, pool'[i].made = d
               PROVE  d <= now' /\ pool'[i].age <= AgeLimit(d)'
    BY DEF AgesLimited
  <2>1. pool[i] \in Entry
    BY DEF BlockTypeOK
  <2>2. /\ pool'[i].made = pool[i].made
        /\ pool'[i].age \in {pool[i].age, pool[i].age + 1}
    <3>1. CASE pool[i].empty
      BY <1>1, <3>1 DEF Aged
    <3>2. CASE ~pool[i].empty
      <4>1. pool'[i] = Older(pool[i])
        BY <1>1, <3>2 DEF Aged
      <4> QED
        BY <2>1, <4>1 DEF Older, Entry
    <3> QED
      BY <3>1, <3>2
  <2>3. d <= now /\ pool[i].age \in Nat /\ pool[i].age <= AgeLimit(d)
    BY <2>1, <2>2 DEF Entry, AgeInv, AgesLimited
  <2>4. AgeLimit(d) \in Nat /\ AgeLimit(d) + 1 <= AgeLimit(d)'
    BY <1>5, LimitType DEF AgeInv
  <2>5. AgeLimit(d)' \in Int
    BY <1>5
  <2> QED
    BY <1>1, <2>2, <2>3, <2>4, <2>5
<1> QED
  BY <1>1, <1>2, <1>4, <1>6 DEF AgeInv, StartedCounted

LEMMA MinerAge ==
  ASSUME BlockTypeOK, AgeInv, NEW m \in Miners, MinerNext(m)
  PROVE  AgeInv'
<1>1. UNCHANGED <<now, vpc, last, seen, active>>
  BY DEF MinerNext, TooFew, Select, Mined, Exhausted, GiveUp, SendBlock,
     SendFails, valVars, ageVars
<1>2. pool' = pool \/ \E S, flag : pool' = Marked(S, flag)
  BY DEF MinerNext, TooFew, Select, Mined, Exhausted, GiveUp, SendBlock,
     SendFails, poolVars, Restore
<1>3. \A i \in Slot : pool'[i].made = pool[i].made /\ pool'[i].age = pool[i].age
  BY <1>2, MarkedSlots
<1> QED
  BY <1>1, <1>3, AgesKept DEF AgeInv, ClocksRight

LEMMA ValidatorAge ==
  ASSUME BlockTypeOK, AgeInv, NEW v \in Validators, ValidatorNext(v)
  PROVE  AgeInv'
<1>1. CASE ReadTime(v) \/ AgePool(v)
  BY <1>1, ReadAge, UpdateAge
<1>2. CASE ~ (ReadTime(v) \/ AgePool(v))
  <2>1. UNCHANGED <<now, last, seen, active>>
    BY <1>2 DEF ValidatorNext, IdlePass, ChildExit, ReadBlock, Accept, Reject,
       RejectMissing, RoomTest, AppendBlock, RemoveTxs, GiveBack,
       SendStatistics, Go, ageVars
  <2>2. \E to : /\ vpc' = [vpc EXCEPT ![v] = to]
                /\ vpc[v] \notin {"off", "ageing"}
                /\ to \notin {"off", "ageing"}
    <3>1. CASE RoomTest(v)
      <4>1. PICK to : to = IF Len(ledger) < BlockchainBlocks THEN "append"
                           ELSE "giveback"
        OBVIOUS
      <4>2. vpc[v] = "full" /\ vpc' = [vpc EXCEPT ![v] = to]
        BY <3>1, <4>1 DEF RoomTest, Go, To
      <4>3. to \notin {"off", "ageing"} /\ vpc[v] \notin {"off", "ageing"}
        BY <4>1, <4>2
      <4> QED
        BY <4>2, <4>3
    <3>2. CASE IdlePass(v) \/ ChildExit(v) \/ ReadBlock(v) \/ Accept(v)
      BY <3>2 DEF IdlePass, ChildExit, ReadBlock, Accept, Go, To
    <3>3. CASE \/ Reject(v) \/ RejectMissing(v) \/ AppendBlock(v)
               \/ RemoveTxs(v) \/ GiveBack(v) \/ SendStatistics(v)
      BY <3>3 DEF Reject, RejectMissing, AppendBlock, RemoveTxs, GiveBack,
         SendStatistics, To
    <3> QED
      BY <1>2, <3>1, <3>2, <3>3 DEF ValidatorNext
  <2>3. \A w \in Validators : /\ vpc'[w] = "off" <=> vpc[w] = "off"
                              /\ vpc'[w] = "ageing" <=> vpc[w] = "ageing"
    BY <2>2 DEF BlockTypeOK
  <2>4. \A i \in Slot : /\ pool'[i].made = pool[i].made
                        /\ pool'[i].age = pool[i].age \/ pool'[i].age = 0
    <3>1. CASE RemoveTxs(v)
      <4>1. \A i \in Slot : pool[i] \in Entry
        BY DEF BlockTypeOK
      <4> QED
        BY <3>1, <4>1 DEF RemoveTxs, Entry
    <3>2. CASE RejectMissing(v) \/ GiveBack(v)
      <4>1. \E S, flag : pool' = Marked(S, flag)
        BY <3>2 DEF RejectMissing, GiveBack
      <4> QED
        BY <4>1, MarkedSlots
    <3>3. CASE ~ (RemoveTxs(v) \/ RejectMissing(v) \/ GiveBack(v))
      <4>1. pool' = pool
        BY <1>2, <3>3 DEF ValidatorNext, IdlePass, ChildExit, ReadBlock,
           Accept, Reject, RoomTest, AppendBlock, SendStatistics, Go, poolVars
      <4> QED
        BY <4>1
    <3> QED
      BY <3>1, <3>2, <3>3
  <2> QED
    BY <2>1, <2>3, <2>4, AgesKept DEF AgeInv, ClocksRight
<1> QED
  BY <1>1, <1>2

LEMMA NextAge == MinedInv /\ AgeInv /\ [Next]_vars => AgeInv'
<1> SUFFICES ASSUME BlockTypeOK, AgeInv, [Next]_vars PROVE AgeInv'
  BY DEF MinedInv
<1>0. now \in 1..(MaxTime + 1) /\ MaxTime \in Nat
  BY RewardAssumption DEF AgeInv, ClocksRight
<1>1. CASE Tick
  <2>1. /\ UNCHANGED <<pool, vpc, last, seen, active>>
        /\ now' = now + 1 /\ now < MaxTime
    BY <1>1 DEF Tick, poolVars, valVars, ageVars
  <2> QED
    BY <1>0, <2>1, AgesKept
<1>2. CASE TxAdd
  <2>1. UNCHANGED <<now, vpc, last, seen, active>>
    BY <1>2 DEF TxAdd, valVars, ageVars
  <2>2. \A i \in Slot : pool'[i] = pool[i] \/ /\ pool'[i].made = now
                                              /\ pool'[i].age = 0
    BY <1>2 DEF TxAdd, EntryFor, BlockTypeOK
  <2> QED
    BY <1>0, <2>1, <2>2, AgesKept
<1>3. CASE StatReceive \/ UNCHANGED vars
  <2>1. UNCHANGED <<now, pool, vpc, last, seen, active>>
    BY <1>3 DEF StatReceive, vars, poolVars, valVars, ageVars
  <2> QED
    BY <1>0, <2>1, AgesKept
<1> QED
  BY <1>1, <1>2, <1>3, MinerAge, ValidatorAge, ForkAge DEF Next

LEMMA AgeAlways == Spec => [](MinedInv /\ AgeInv)
<1>1. Init => MinedInv /\ AgeInv
  BY InitMined, InitAge
<1>2. MinedInv /\ AgeInv /\ [Next]_vars => (MinedInv /\ AgeInv)'
  BY NextMined, NextAge
<1> QED
  BY <1>1, <1>2, PTL DEF Spec

\* A transaction is never older than the seconds it was in the pool times the
\* validators created, with the second it came in and one late update each:
\* for any number of validators, each of which ages the whole pool by its own
\* clock.
THEOREM AgeBoundCorrect == Spec => []AgeBound
<1>1. MinedInv /\ AgeInv => AgeBound
  <2> SUFFICES ASSUME BlockTypeOK, AgeInv, NEW i \in Slot
               PROVE  pool[i].age <= active * (now - pool[i].made + 2)
    BY DEF AgeBound, MinedInv
  <2>1. PICK d \in Nat : d = pool[i].made
    BY DEF BlockTypeOK, Entry
  <2>2. d <= now /\ pool[i].age <= AgeLimit(d) /\ pool[i].age \in Nat
    BY <2>1 DEF BlockTypeOK, Entry, AgeInv, AgesLimited
  <2>3. PICK c \in Int : c = now - d + 2 /\ now \in Nat
    BY <2>1, RewardAssumption DEF AgeInv, ClocksRight
  <2>4. \A v \in Started : Agings(d)[v] \in Int /\ Agings(d)[v] <= c
    BY <2>2, <2>3 DEF AgeInv, ClocksRight, Agings, Started
  <2>5. AgeLimit(d) <= Cardinality(Started) * c
    BY <2>4, SumBound DEF AgeInv, StartedCounted, AgeLimit
  <2>6. /\ Cardinality(Started) = active /\ active \in Nat
        /\ AgeLimit(d) \in Nat
    BY FS_CardinalityType, LimitType DEF AgeInv, StartedCounted
  <2>7. active * c \in Int
    BY <2>6
  <2>8. pool[i].age <= active * c
    BY <2>2, <2>5, <2>6, <2>7
  <2> QED
    BY <2>1, <2>3, <2>8
<1> QED
  BY <1>1, AgeAlways, PTL

-----------------------------------------------------------------------------
(***************************************************************************)
(* Credits.  The reward of a block that is stored or given back is carried *)
(* by its validator until the message is sent, then by the queue, then by  *)
(* the statistics process: each step takes it from one and gives it to the *)
(* next.                                                                   *)
(***************************************************************************)

Message == [miner : Miners, valid : BOOLEAN, total_rewards : Nat]

CreditTypeOK ==
  /\ valid \in [Validators -> BOOLEAN]
  /\ msgq \in Seq(Message)
  /\ credits \in [Miners -> Nat] /\ unearned \in [Miners -> Nat]

AcceptedValid ==
  \A v \in Validators :
    vpc[v] \in {"full", "append", "remove", "giveback"} => valid[v] = TRUE

\* The first part of CreditsMatchLedger.
Balance == \A m \in Miners : PaidTo(m) = EarnedBy(m) + unearned[m]

CreditInv == CreditTypeOK /\ AcceptedValid /\ Balance

Queued(m) == SumFunctionOnSet(QueuedFor(m), 1..Len(msgq))
Due(m) == SumFunctionOnSet(DueTo(m), Validators)
Stored(m) == SumFunctionOnSet(StoredFor(m), 1..Len(ledger))

LEMMA FinitePlaces ==
  /\ IsFiniteSet(Validators) /\ IsFiniteSet(Nth)
  /\ \A n \in Nat : IsFiniteSet(1..n)
<1>1. IsFiniteSet(Validators)
  <2>1. IsFiniteSet(Children \cup {Primary})
    BY RewardAssumption, FS_AddElement
  <2>2. Validators = Children \cup {Primary}
    BY DEF Validators
  <2> QED
    BY <2>1, <2>2
<1>2. \A n \in Nat : IsFiniteSet(1..n)
  BY FS_Interval
<1> QED
  BY <1>1, <1>2, RewardAssumption DEF Nth

LEMMA TotalNat ==
  ASSUME NEW b \in Block
  PROVE  TotalRewards(b) \in Nat
<1>1. PICK f : f = [k \in Nth |-> b.txs[k].reward]
  OBVIOUS
<1>2. \A k \in Nth : f[k] \in Nat
  BY <1>1, BlockIds DEF Reward
<1>3. SumFunctionOnSet(f, Nth) \in Nat
  BY <1>2, FinitePlaces, SumNat
<1> QED
  BY <1>1, <1>3 DEF TotalRewards, SumFunction

LEMMA CreditNat ==
  ASSUME NEW e \in Message
  PROVE  e.miner \in Miners /\ CreditOf(e) \in Nat
BY DEF Message, CreditOf

LEMMA SumsMeant ==
  ASSUME NEW m
  PROVE  /\ PaidTo(m) = credits[m] + Queued(m) + Due(m)
         /\ EarnedBy(m) = Stored(m)
BY DEF PaidTo, EarnedBy, Queued, Due, Stored, SumFunction, QueuedFor, DueTo,
   StoredFor

LEMMA SumsMeantNext ==
  ASSUME NEW m
  PROVE  /\ PaidTo(m)' = credits'[m] + Queued(m)' + Due(m)'
         /\ EarnedBy(m)' = Stored(m)'
BY DEF PaidTo, EarnedBy, Queued, Due, Stored, SumFunction, QueuedFor, DueTo,
   StoredFor

LEMMA SumTypes ==
  ASSUME BlockTypeOK, CreditTypeOK, NEW m \in Miners
  PROVE  /\ \A k \in 1..Len(msgq) : QueuedFor(m)[k] \in Nat
         /\ \A v \in Validators : DueTo(m)[v] \in Nat
         /\ \A k \in 1..Len(ledger) : StoredFor(m)[k] \in Nat
         /\ Queued(m) \in Nat /\ Due(m) \in Nat /\ Stored(m) \in Nat
         /\ credits[m] \in Nat /\ unearned[m] \in Nat
<1>1. \A k \in 1..Len(msgq) : QueuedFor(m)[k] \in Nat
  <2>1. \A k \in 1..Len(msgq) : msgq[k] \in Message
    BY DEF CreditTypeOK
  <2> QED
    BY <2>1, CreditNat DEF QueuedFor
<1>2. \A v \in Validators : DueTo(m)[v] \in Nat
  <2> SUFFICES ASSUME NEW v \in Validators PROVE DueTo(m)[v] \in Nat
    OBVIOUS
  <2>1. CASE vpc[v] \in {"remove", "report"}
    <3>1. vblk[v] \in Block
      BY <2>1 DEF BlockTypeOK, CheckPc
    <3>2. TotalRewards(vblk[v]) \in Nat
      BY <3>1, TotalNat
    <3> QED
      BY <3>2 DEF DueTo
  <2>2. CASE vpc[v] \notin {"remove", "report"}
    BY <2>2 DEF DueTo
  <2> QED
    BY <2>1, <2>2
<1>3. \A k \in 1..Len(ledger) : StoredFor(m)[k] \in Nat
  <2>1. \A k \in 1..Len(ledger) : ledger[k] \in Block
    BY DEF BlockTypeOK
  <2>2. \A k \in 1..Len(ledger) : TotalRewards(ledger[k]) \in Nat
    BY <2>1, TotalNat
  <2> QED
    BY <2>2 DEF StoredFor
<1>4. Len(msgq) \in Nat /\ Len(ledger) \in Nat
  BY DEF CreditTypeOK, BlockTypeOK
<1>5. Queued(m) \in Nat
  BY <1>1, <1>4, FinitePlaces, SumNat DEF Queued
<1>6. Due(m) \in Nat
  BY <1>2, FinitePlaces, SumNat DEF Due
<1>7. Stored(m) \in Nat
  BY <1>3, <1>4, FinitePlaces, SumNat DEF Stored
<1> QED
  BY <1>1, <1>2, <1>3, <1>5, <1>6, <1>7 DEF CreditTypeOK

\* What the invariant says of the sums.
LEMMA SumsMatch ==
  ASSUME CreditInv, NEW m \in Miners
  PROVE  credits[m] + Queued(m) + Due(m) = Stored(m) + unearned[m]
BY SumsMeant DEF CreditInv, Balance

LEMMA InitCredit == Init => CreditInv
<1> SUFFICES ASSUME Init PROVE CreditInv
  OBVIOUS
<1>1. CreditTypeOK
  BY DEF Init, CreditTypeOK
<1>2. AcceptedValid
  BY DEF Init, AcceptedValid
<1>3. ASSUME NEW m \in Miners
      PROVE  Queued(m) = 0 /\ Due(m) = 0 /\ Stored(m) = 0
  <2>1. 1..Len(msgq) = {} /\ 1..Len(ledger) = {}
    BY DEF Init
  <2>2. Queued(m) = 0 /\ Stored(m) = 0
    BY <2>1, SumEmpty DEF Queued, Stored
  <2>3. \A v \in Validators : DueTo(m)[v] = 0
    BY DEF Init, DueTo
  <2>4. PICK f : f = DueTo(m)
    OBVIOUS
  <2>5. PICK c \in Int : c = 0
    OBVIOUS
  <2>6. \A v \in Validators : f[v] \in Int /\ f[v] <= c /\ f[v] \in Nat
    BY <2>3, <2>4, <2>5
  <2>7. /\ SumFunctionOnSet(f, Validators) <= Cardinality(Validators) * c
        /\ SumFunctionOnSet(f, Validators) \in Nat
    BY <2>6, FinitePlaces, SumBound, SumNat
  <2>8. Cardinality(Validators) \in Nat /\ Cardinality(Validators) * c = 0
    BY <2>5, FinitePlaces, FS_CardinalityType
  <2>9. Due(m) = 0
    BY <2>4, <2>7, <2>8 DEF Due
  <2> QED
    BY <2>2, <2>9
<1>4. Balance
  BY <1>3, SumsMeant DEF Init, Balance
<1> QED
  BY <1>1, <1>2, <1>4 DEF CreditInv

\* A step that stores no block, gives none back and sends or takes no message.
LEMMA CreditsKept ==
  ASSUME CreditInv, UNCHANGED <<ledger, msgq, credits, unearned>>,
         valid' \in [Validators -> BOOLEAN], AcceptedValid',
         \A m \in Miners : DueTo(m)' = DueTo(m)
  PROVE  CreditInv'
<1>1. CreditTypeOK'
  BY DEF CreditInv, CreditTypeOK
<1>2. ASSUME NEW m \in Miners
      PROVE  PaidTo(m)' = EarnedBy(m)' + unearned'[m]
  <2>1. Queued(m)' = Queued(m) /\ Due(m)' = Due(m) /\ Stored(m)' = Stored(m)
    BY DEF Queued, Due, Stored, QueuedFor, StoredFor
  <2> QED
    BY <2>1, SumsMatch, SumsMeantNext
<1> QED
  BY <1>1, <1>2 DEF CreditInv, Balance

\* A step of one validator changes what is due by its own part.
LEMMA DueChanged ==
  ASSUME BlockTypeOK, CreditTypeOK, NEW m \in Miners, NEW v \in Validators,
         \A w \in Validators \ {v} : /\ valid'[w] = valid[w]
                                     /\ vpc'[w] = vpc[w]
                                     /\ vblk'[w] = vblk[w],
         DueTo(m)'[v] \in Int
  PROVE  Due(m)' = Due(m) - DueTo(m)[v] + DueTo(m)'[v]
<1>1. PICK h : h = DueTo(m)'
  OBVIOUS
<1>2. PICK f : f = DueTo(m)
  OBVIOUS
<1>3. \A w \in Validators \ {v} : h[w] = f[w]
  BY <1>1, <1>2 DEF DueTo
<1>4. \A w \in Validators : f[w] \in Int
  BY <1>2, SumTypes
<1>5. SumFunctionOnSet(h, Validators)
        = SumFunctionOnSet(f, Validators) - f[v] + h[v]
  BY <1>1, <1>3, <1>4, FinitePlaces, SumUpdate
<1> QED
  BY <1>1, <1>2, <1>5 DEF Due

\* Validators that neither store nor return a block nor send a message.
LEMMA QuietCredit ==
  ASSUME BlockTypeOK, CreditInv, NEW v \in Validators, ValidatorNext(v),
         ~ (AppendBlock(v) \/ GiveBack(v) \/ SendStatistics(v))
  PROVE  CreditInv'
<1>1. UNCHANGED <<ledger, msgq, credits, unearned>>
  BY DEF ValidatorNext, IdlePass, ChildExit, ReadTime, AgePool, ReadBlock,
     Accept, Reject, RejectMissing, RoomTest, RemoveTxs, Go, statVars
<1>2. PICK to : /\ vpc' = [vpc EXCEPT ![v] = to]
                /\ vpc'[v] = to
                /\ \A w \in Validators \ {v} : vpc'[w] = vpc[w]
  <2>1. \E to : vpc' = [vpc EXCEPT ![v] = to]
    BY DEF ValidatorNext, IdlePass, ChildExit, ReadTime, AgePool, ReadBlock,
       Accept, Reject, RejectMissing, RoomTest, RemoveTxs, Go, To
  <2> QED
    BY <2>1 DEF BlockTypeOK
<1>3. CASE Accept(v) \/ Reject(v) \/ RejectMissing(v)
  <2>1. /\ vblk' = vblk /\ vpc[v] = "check"
        /\ \/ to = "full" /\ valid' = [valid EXCEPT ![v] = TRUE]
           \/ to = "report" /\ valid' = [valid EXCEPT ![v] = FALSE]
    BY <1>2, <1>3 DEF Accept, Reject, RejectMissing, To, BlockTypeOK
  <2>2. /\ valid' \in [Validators -> BOOLEAN]
        /\ \A w \in Validators \ {v} : valid'[w] = valid[w]
        /\ \/ to = "full" /\ valid'[v] = TRUE
           \/ to = "report" /\ valid'[v] = FALSE
    <3>1. valid \in [Validators -> BOOLEAN]
      BY DEF CreditInv, CreditTypeOK
    <3>2. CASE to = "full" /\ valid' = [valid EXCEPT ![v] = TRUE]
      <4>1. valid' \in [Validators -> BOOLEAN]
        BY <3>1, <3>2
      <4>2. \A w \in Validators \ {v} : valid'[w] = valid[w]
        BY <3>1, <3>2, Zenon
      <4>3. valid'[v] = TRUE
        BY <3>1, <3>2
      <4> QED
        BY <3>2, <4>1, <4>2, <4>3
    <3>3. CASE to = "report" /\ valid' = [valid EXCEPT ![v] = FALSE]
      BY <3>1, <3>3, Zenon
    <3> QED
      BY <2>1, <3>2, <3>3
  <2>3. AcceptedValid'
    BY <1>2, <2>2 DEF CreditInv, AcceptedValid
  <2>4. ASSUME NEW m \in Miners PROVE DueTo(m)' = DueTo(m)
    BY <1>2, <2>1, <2>2 DEF DueTo
  <2> QED
    BY <1>1, <2>2, <2>3, <2>4, CreditsKept
<1>4. CASE RemoveTxs(v)
  <2>1. UNCHANGED <<vblk, valid>> /\ vpc[v] = "remove" /\ to = "report"
    BY <1>2, <1>4 DEF RemoveTxs, To, BlockTypeOK
  <2>2. AcceptedValid'
    BY <1>2, <2>1 DEF CreditInv, AcceptedValid
  <2>3. ASSUME NEW m \in Miners PROVE DueTo(m)' = DueTo(m)
    BY <1>2, <2>1 DEF DueTo
  <2> QED
    BY <1>1, <2>1, <2>2, <2>3, CreditsKept DEF CreditInv, CreditTypeOK
<1>5. CASE ~ (Accept(v) \/ Reject(v) \/ RejectMissing(v) \/ RemoveTxs(v))
  <2>1. /\ valid' = valid
        /\ vpc[v] \notin {"remove", "report"} /\ to \notin {"remove", "report"}
        /\ to \in {"full", "append", "giveback"} => vpc[v] = "full"
    BY <1>2, <1>5 DEF ValidatorNext, IdlePass, ChildExit, ReadTime, AgePool,
       ReadBlock, RoomTest, Go, To
  <2>2. \A w \in Validators \ {v} : vblk'[w] = vblk[w]
    BY <1>5 DEF ValidatorNext, IdlePass, ChildExit, ReadTime, AgePool,
       ReadBlock, RoomTest, Go, BlockTypeOK
  <2>3. AcceptedValid'
    BY <1>2, <2>1 DEF CreditInv, AcceptedValid
  <2>4. ASSUME NEW m \in Miners PROVE DueTo(m)' = DueTo(m)
    <3>1. \A w \in Validators : DueTo(m)'[w] = DueTo(m)[w]
      BY <1>2, <2>1, <2>2 DEF DueTo
    <3> QED
      BY <3>1 DEF DueTo
  <2> QED
    BY <1>1, <2>1, <2>3, <2>4, CreditsKept DEF CreditInv, CreditTypeOK
<1> QED
  BY <1>3, <1>4, <1>5

\* The ledger gains what the validator then owes the statistics process.
LEMMA AppendCredit ==
  ASSUME BlockTypeOK, CreditInv, NEW v \in Validators, AppendBlock(v)
  PROVE  CreditInv'
<1>1. /\ vpc[v] = "append" /\ vpc' = [vpc EXCEPT ![v] = "remove"]
      /\ ledger' = Append(ledger, vblk[v])
      /\ UNCHANGED <<vblk, valid, msgq, credits, unearned>>
  BY DEF AppendBlock, To, statVars
<1>2. vblk[v] \in Block /\ valid[v] = TRUE
  BY <1>1 DEF CreditInv, AcceptedValid, BlockTypeOK, CheckPc
<1>3. /\ vpc'[v] = "remove"
      /\ \A w \in Validators \ {v} : vpc'[w] = vpc[w]
  BY <1>1 DEF BlockTypeOK
<1>4. CreditTypeOK' /\ AcceptedValid'
  BY <1>1, <1>2, <1>3 DEF CreditInv, CreditTypeOK, AcceptedValid
<1>5. ASSUME NEW m \in Miners
      PROVE  PaidTo(m)' = EarnedBy(m)' + unearned'[m]
  <2>1. PICK gain \in Nat :
          gain = IF vblk[v].miner = m THEN TotalRewards(vblk[v]) ELSE 0
    BY <1>2, TotalNat
  <2>2. DueTo(m)[v] = 0 /\ DueTo(m)'[v] = gain
    BY <1>1, <1>2, <1>3, <2>1 DEF DueTo
  <2>3. Due(m)' = Due(m) - 0 + gain
    BY <1>1, <1>3, <2>2, DueChanged DEF CreditInv
  <2>4. Stored(m)' = Stored(m) + gain
    <3>1. PICK n \in Nat : n = Len(ledger)
      BY DEF BlockTypeOK
    <3>2. /\ Len(ledger') = n + 1 /\ ledger'[n + 1] = vblk[v]
          /\ \A k \in 1..n : ledger'[k] = ledger[k]
      BY <1>1, <1>2, <3>1, AppendProperties DEF BlockTypeOK
    <3>3. PICK f : f = StoredFor(m)
      OBVIOUS
    <3>4. PICK h : h = StoredFor(m)'
      OBVIOUS
    <3>5. h[n + 1] = gain /\ \A k \in 1..n : h[k] = f[k]
      <4>1. n + 1 \in 1..(n + 1) /\ \A k \in 1..n : k \in 1..(n + 1)
        OBVIOUS
      <4> QED
        BY <2>1, <3>1, <3>2, <3>3, <3>4, <4>1 DEF StoredFor
    <3>6. \A k \in 1..n : f[k] \in Int
      BY <3>1, <3>3, SumTypes DEF CreditInv
    <3>7. SumFunctionOnSet(h, 1..(n + 1)) = SumFunctionOnSet(f, 1..n) + h[n + 1]
      BY <3>5, <3>6, SumAppend
    <3> QED
      BY <3>1, <3>2, <3>3, <3>4, <3>5, <3>7 DEF Stored
  <2>5. Queued(m)' = Queued(m)
    BY <1>1 DEF Queued, QueuedFor
  <2>6. /\ Queued(m) \in Nat /\ Due(m) \in Nat /\ Stored(m) \in Nat
        /\ credits[m] \in Nat /\ unearned[m] \in Nat
    BY SumTypes DEF CreditInv
  <2>7. credits[m] + Queued(m) + Due(m) = Stored(m) + unearned[m]
    BY SumsMatch
  <2>8. credits'[m] + Queued(m)' + Due(m)' = Stored(m)' + unearned'[m]
    <3>1. credits'[m] = credits[m] /\ unearned'[m] = unearned[m]
      BY <1>1
    <3> QED
      BY <2>3, <2>4, <2>5, <2>6, <2>7, <3>1
  <2> QED
    BY <2>8, SumsMeantNext
<1> QED
  BY <1>4, <1>5 DEF CreditInv, Balance

\* What a full ledger does not take is counted apart, and owed all the same.
LEMMA GiveBackCredit ==
  ASSUME BlockTypeOK, CreditInv, NEW v \in Validators, GiveBack(v)
  PROVE  CreditInv'
<1>1. /\ vpc[v] = "giveback" /\ vpc' = [vpc EXCEPT ![v] = "report"]
      /\ unearned' = [unearned EXCEPT ![vblk[v].miner] =
                        @ + TotalRewards(vblk[v])]
      /\ UNCHANGED <<vblk, valid, msgq, credits, ledger>>
  BY DEF GiveBack, To
<1>2. vblk[v] \in Block /\ valid[v] = TRUE
  BY <1>1 DEF CreditInv, AcceptedValid, BlockTypeOK, CheckPc
<1>3. /\ vpc'[v] = "report"
      /\ \A w \in Validators \ {v} : vpc'[w] = vpc[w]
  BY <1>1 DEF BlockTypeOK
<1>4. CreditTypeOK' /\ AcceptedValid'
  <2>1. TotalRewards(vblk[v]) \in Nat /\ vblk[v].miner \in Miners
    BY <1>2, TotalNat DEF Block
  <2>2. unearned' \in [Miners -> Nat]
    BY <1>1, <2>1 DEF CreditInv, CreditTypeOK
  <2> QED
    BY <1>1, <1>2, <1>3, <2>2 DEF CreditInv, CreditTypeOK, AcceptedValid
<1>5. ASSUME NEW m \in Miners
      PROVE  PaidTo(m)' = EarnedBy(m)' + unearned'[m]
  <2>1. PICK gain \in Nat :
          gain = IF vblk[v].miner = m THEN TotalRewards(vblk[v]) ELSE 0
    BY <1>2, TotalNat
  <2>2. DueTo(m)[v] = 0 /\ DueTo(m)'[v] = gain
    BY <1>1, <1>2, <1>3, <2>1 DEF DueTo
  <2>3. Due(m)' = Due(m) - 0 + gain
    BY <1>1, <1>3, <2>2, DueChanged DEF CreditInv
  <2>4. unearned'[m] = unearned[m] + gain
    <3>1. unearned \in [Miners -> Nat]
      BY DEF CreditInv, CreditTypeOK
    <3> QED
      BY <1>1, <2>1, <3>1
  <2>5. Queued(m)' = Queued(m) /\ Stored(m)' = Stored(m)
    BY <1>1 DEF Queued, QueuedFor, Stored, StoredFor
  <2>6. /\ Queued(m) \in Nat /\ Due(m) \in Nat /\ Stored(m) \in Nat
        /\ credits[m] \in Nat /\ unearned[m] \in Nat
    BY SumTypes DEF CreditInv
  <2>7. credits[m] + Queued(m) + Due(m) = Stored(m) + unearned[m]
    BY SumsMatch
  <2>8. credits'[m] + Queued(m)' + Due(m)' = Stored(m)' + unearned'[m]
    BY <1>1, <2>3, <2>4, <2>5, <2>6, <2>7
  <2> QED
    BY <2>8, SumsMeantNext
<1> QED
  BY <1>4, <1>5 DEF CreditInv, Balance

\* A message carries what was due for the block, nothing for a rejected one.
LEMMA SendCredit ==
  ASSUME BlockTypeOK, CreditInv, NEW v \in Validators, SendStatistics(v)
  PROVE  CreditInv'
<1>1. /\ vpc[v] = "report" /\ vpc' = [vpc EXCEPT ![v] = "loop"]
      /\ msgq' = Append(msgq, MessageFor(v))
      /\ vblk' = [vblk EXCEPT ![v] = NoBlock]
      /\ valid' = [valid EXCEPT ![v] = FALSE]
      /\ UNCHANGED <<ledger, credits, unearned>>
  BY DEF SendStatistics, To
<1>2. vblk[v] \in Block /\ valid \in [Validators -> BOOLEAN]
  BY <1>1 DEF CreditInv, CreditTypeOK, BlockTypeOK, CheckPc
<1>3. /\ vpc'[v] = "loop"
      /\ \A w \in Validators \ {v} : vpc'[w] = vpc[w] /\ vblk'[w] = vblk[w]
  BY <1>1 DEF BlockTypeOK
<1>4. \A w \in Validators \ {v} : valid'[w] = valid[w]
  BY <1>1, <1>2
<1>5. PICK e \in Message :
        /\ e = MessageFor(v) /\ e.miner = vblk[v].miner
        /\ CreditOf(e) = IF valid[v] THEN TotalRewards(vblk[v]) ELSE 0
  <2>1. TotalRewards(vblk[v]) \in Nat /\ vblk[v].miner \in Miners
    BY <1>2, TotalNat DEF Block
  <2>2. PICK r \in Nat : r = IF valid[v] THEN TotalRewards(vblk[v]) ELSE 0
    BY <2>1
  <2>3. PICK e : e = MessageFor(v)
    OBVIOUS
  <2>4. PICK flag \in BOOLEAN : flag = valid[v]
    BY <1>2
  <2>5. e = [miner |-> vblk[v].miner, valid |-> flag, total_rewards |-> r]
    BY <2>2, <2>3, <2>4 DEF MessageFor
  <2>6. e \in Message /\ e.miner = vblk[v].miner
    BY <2>1, <2>2, <2>4, <2>5 DEF Message
  <2>7. CreditOf(e) = IF flag THEN r ELSE 0
    BY <2>5 DEF CreditOf
  <2>8. CreditOf(e) = r
    BY <2>2, <2>4, <2>7
  <2> QED
    BY <2>2, <2>3, <2>6, <2>8
<1>6. CreditTypeOK'
  <2>1. valid' \in [Validators -> BOOLEAN]
    BY <1>1, <1>2
  <2>2. msgq' \in Seq(Message)
    BY <1>1, <1>5, AppendProperties DEF CreditInv, CreditTypeOK
  <2> QED
    BY <1>1, <2>1, <2>2 DEF CreditInv, CreditTypeOK
<1>7. AcceptedValid'
  BY <1>3, <1>4 DEF CreditInv, AcceptedValid
<1>8. ASSUME NEW m \in Miners
      PROVE  PaidTo(m)' = EarnedBy(m)' + unearned'[m]
  <2>1. PICK pay \in Nat : pay = IF e.miner = m THEN CreditOf(e) ELSE 0
    BY <1>5, CreditNat
  <2>2. DueTo(m)[v] = pay
    BY <1>1, <1>5, <2>1 DEF DueTo
  <2>3. DueTo(m)'[v] = 0
    BY <1>3 DEF DueTo
  <2>4. Due(m)' = Due(m) - pay + 0
    BY <1>3, <1>4, <2>2, <2>3, DueChanged DEF CreditInv
  <2>5. Queued(m)' = Queued(m) + pay
    <3>1. PICK n \in Nat : n = Len(msgq)
      BY DEF CreditInv, CreditTypeOK
    <3>2. /\ Len(msgq') = n + 1 /\ msgq'[n + 1] = e
          /\ \A k \in 1..n : msgq'[k] = msgq[k]
      BY <1>1, <1>5, <3>1, AppendProperties DEF CreditInv, CreditTypeOK
    <3>3. PICK f : f = QueuedFor(m)
      OBVIOUS
    <3>4. PICK h : h = QueuedFor(m)'
      OBVIOUS
    <3>5. h[n + 1] = pay /\ \A k \in 1..n : h[k] = f[k]
      <4>1. n + 1 \in 1..(n + 1) /\ \A k \in 1..n : k \in 1..(n + 1)
        OBVIOUS
      <4> QED
        BY <2>1, <3>1, <3>2, <3>3, <3>4, <4>1 DEF QueuedFor
    <3>6. \A k \in 1..n : f[k] \in Int
      BY <3>1, <3>3, SumTypes DEF CreditInv
    <3>7. SumFunctionOnSet(h, 1..(n + 1)) = SumFunctionOnSet(f, 1..n) + h[n + 1]
      BY <3>5, <3>6, SumAppend
    <3> QED
      BY <3>1, <3>2, <3>3, <3>4, <3>5, <3>7 DEF Queued
  <2>6. Stored(m)' = Stored(m)
    BY <1>1 DEF Stored, StoredFor
  <2>7. /\ Queued(m) \in Nat /\ Due(m) \in Nat /\ Stored(m) \in Nat
        /\ credits[m] \in Nat /\ unearned[m] \in Nat
    BY SumTypes DEF CreditInv
  <2>8. credits[m] + Queued(m) + Due(m) = Stored(m) + unearned[m]
    BY SumsMatch
  <2>9. credits'[m] + Queued(m)' + Due(m)' = Stored(m)' + unearned'[m]
    <3>1. credits'[m] = credits[m] /\ unearned'[m] = unearned[m]
      BY <1>1
    <3> QED
      BY <2>4, <2>5, <2>6, <2>7, <2>8, <3>1
  <2> QED
    BY <2>9, SumsMeantNext
<1> QED
  BY <1>6, <1>7, <1>8 DEF CreditInv, Balance

\* The credits gain what the queue loses.
LEMMA ReceiveCredit ==
  ASSUME BlockTypeOK, CreditInv, StatReceive
  PROVE  CreditInv'
<1>1. /\ msgq # <<>> /\ msgq' = Tail(msgq)
      /\ credits' = [credits EXCEPT ![Head(msgq).miner] =
                       @ + CreditOf(Head(msgq))]
      /\ UNCHANGED <<vpc, vblk, valid, ledger, unearned>>
  BY DEF StatReceive, valVars
<1>2. PICK n \in Nat :
        /\ Len(msgq) = n + 1 /\ Len(msgq') = n
        /\ \A k \in 1..n : msgq'[k] = msgq[k + 1]
        /\ msgq' \in Seq(Message)
  <2>1. msgq \in Seq(Message)
    BY DEF CreditInv, CreditTypeOK
  <2> QED
    BY <1>1, <2>1, HeadTailProperties
<1>3. PICK e \in Message : e = Head(msgq) /\ e = msgq[1]
  BY <1>1 DEF CreditInv, CreditTypeOK
<1>4. credits' = [credits EXCEPT ![e.miner] = @ + CreditOf(e)]
  BY <1>1, <1>3
<1>5. CreditTypeOK'
  <2>1. e.miner \in Miners /\ CreditOf(e) \in Nat
    BY <1>3, CreditNat
  <2>2. credits' \in [Miners -> Nat]
    BY <1>4, <2>1 DEF CreditInv, CreditTypeOK
  <2> QED
    BY <1>1, <1>2, <2>2 DEF CreditInv, CreditTypeOK
<1>6. AcceptedValid'
  BY <1>1 DEF CreditInv, AcceptedValid
<1>7. ASSUME NEW m \in Miners
      PROVE  PaidTo(m)' = EarnedBy(m)' + unearned'[m]
  <2>1. PICK pay \in Nat : pay = IF e.miner = m THEN CreditOf(e) ELSE 0
    BY <1>3, CreditNat
  <2>2. credits'[m] = credits[m] + pay
    <3>1. credits \in [Miners -> Nat]
      BY DEF CreditInv, CreditTypeOK
    <3> QED
      BY <1>4, <2>1, <3>1
  <2>3. Queued(m) = pay + Queued(m)'
    <3>1. PICK f : f = QueuedFor(m)
      OBVIOUS
    <3>2. PICK h : h = QueuedFor(m)'
      OBVIOUS
    <3>3. \A k \in 1..(n + 1) : f[k] \in Int
      BY <1>2, <3>1, SumTypes DEF CreditInv
    <3>4. f[1] = pay /\ \A k \in 1..n : h[k] = f[k + 1]
      <4>1. 1 \in 1..(n + 1) /\ \A k \in 1..n : k + 1 \in 1..(n + 1)
        OBVIOUS
      <4>2. f[1] = pay
        BY <1>2, <1>3, <2>1, <3>1, <4>1 DEF QueuedFor
      <4>3. \A k \in 1..n : h[k] = f[k + 1]
        BY <1>2, <3>1, <3>2, <4>1 DEF QueuedFor
      <4> QED
        BY <4>2, <4>3
    <3>5. SumFunctionOnSet(f, 1..(n + 1)) = f[1] + SumFunctionOnSet(h, 1..n)
      BY <3>3, <3>4, SumTail
    <3> QED
      BY <1>2, <3>1, <3>2, <3>4, <3>5 DEF Queued
  <2>4. Due(m)' = Due(m) /\ Stored(m)' = Stored(m)
    BY <1>1 DEF Due, DueTo, Stored, StoredFor
  <2>5. /\ Queued(m) \in Nat /\ Due(m) \in Nat /\ Stored(m) \in Nat
        /\ credits[m] \in Nat /\ unearned[m] \in Nat
    BY SumTypes DEF CreditInv
  <2>6. credits[m] + Queued(m) + Due(m) = Stored(m) + unearned[m]
    BY SumsMatch
  <2>7. Queued(m)' \in Int
    <3>1. \A k \in 1..Len(msgq') : QueuedFor(m)'[k] \in Int
      <4>1. \A k \in 1..Len(msgq') : msgq'[k] \in Message
        BY <1>5 DEF CreditTypeOK
      <4> QED
        BY <4>1, CreditNat DEF QueuedFor
    <3>2. IsFiniteSet(1..Len(msgq'))
      BY <1>2, FinitePlaces
    <3> QED
      BY <3>1, <3>2, SumInt DEF Queued
  <2>8. credits'[m] + Queued(m)' + Due(m)' = Stored(m)' + unearned'[m]
    <3>1. unearned'[m] = unearned[m]
      BY <1>1
    <3> QED
      BY <2>2, <2>3, <2>4, <2>5, <2>6, <2>7, <3>1
  <2> QED
    BY <2>8, SumsMeantNext
<1> QED
  BY <1>5, <1>6, <1>7 DEF CreditInv, Balance

LEMMA NextCredit == MinedInv /\ CreditInv /\ [Next]_vars => CreditInv'
<1> SUFFICES ASSUME BlockTypeOK, CreditInv, [Next]_vars PROVE CreditInv'
  BY DEF MinedInv
<1>1. CASE /\ ~ \E v \in Validators : ValidatorNext(v)
           /\ ~ StatReceive /\ ~ \E c \in Children : Fork(c)
  <2>1. UNCHANGED <<vpc, vblk, valid, ledger, msgq, credits, unearned>>
    BY <1>1 DEF Next, Tick, TxAdd, MinerNext, TooFew, Select, Mined, Exhausted,
       GiveUp, SendBlock, SendFails, vars, valVars, statVars
  <2>2. AcceptedValid'
    BY <2>1 DEF CreditInv, AcceptedValid
  <2>3. ASSUME NEW m \in Miners PROVE DueTo(m)' = DueTo(m)
    BY <2>1 DEF DueTo
  <2> QED
    BY <2>1, <2>2, <2>3, CreditsKept DEF CreditInv, CreditTypeOK
<1>2. ASSUME NEW c \in Children, Fork(c) PROVE CreditInv'
  <2>1. /\ UNCHANGED <<vblk, valid, ledger, msgq, credits, unearned>>
        /\ vpc[c] = "off" /\ vpc' = [vpc EXCEPT ![c] = "loop"]
        /\ c \in Validators
    BY <1>2 DEF Fork, statVars, Validators
  <2>2. \A v \in Validators :
          \/ vpc'[v] = vpc[v]
          \/ vpc[v] = "off" /\ vpc'[v] = "loop"
    BY <2>1 DEF BlockTypeOK
  <2>3. AcceptedValid'
    BY <2>1, <2>2 DEF CreditInv, AcceptedValid
  <2>4. ASSUME NEW m \in Miners PROVE DueTo(m)' = DueTo(m)
    <3>1. \A w \in Validators : DueTo(m)'[w] = DueTo(m)[w]
      BY <2>1, <2>2 DEF DueTo
    <3> QED
      BY <3>1 DEF DueTo
  <2> QED
    BY <2>1, <2>3, <2>4, CreditsKept DEF CreditInv, CreditTypeOK
<1>3. ASSUME NEW v \in Validators, ValidatorNext(v) PROVE CreditInv'
  BY <1>3, QuietCredit, AppendCredit, GiveBackCredit, SendCredit
<1> QED
  BY <1>1, <1>2, <1>3, ReceiveCredit

LEMMA CreditAlways == Spec => [](MinedInv /\ CreditInv)
<1>1. Init => MinedInv /\ CreditInv
  BY InitMined, InitCredit
<1>2. MinedInv /\ CreditInv /\ [Next]_vars => (MinedInv /\ CreditInv)'
  BY NextMined, NextCredit
<1> QED
  BY <1>1, <1>2, PTL DEF Spec

(***************************************************************************)
(* Blocks are given back to a full ledger only: the test is made before    *)
(* the step, but the ledger never shrinks.                                 *)
(***************************************************************************)

LedgerFull == Len(ledger) >= BlockchainBlocks

FullInv ==
  /\ \A v \in Validators : vpc[v] = "giveback" => LedgerFull
  /\ \A m \in Miners : unearned[m] > 0 => LedgerFull

LEMMA InitFull == Init => FullInv
BY DEF Init, FullInv

LEMMA NextFull == MinedInv /\ CreditInv /\ FullInv /\ [Next]_vars => FullInv'
<1> SUFFICES ASSUME BlockTypeOK, CreditInv, FullInv, [Next]_vars PROVE FullInv'
  BY DEF MinedInv
<1>1. ASSUME NEW v \in Validators, AppendBlock(v) PROVE FullInv'
  <2>1. /\ vpc[v] = "append" /\ vpc' = [vpc EXCEPT ![v] = "remove"]
        /\ ledger' = Append(ledger, vblk[v]) /\ unearned' = unearned
    BY <1>1 DEF AppendBlock, To, statVars
  <2>2. vblk[v] \in Block /\ ledger \in Seq(Block)
    BY <2>1 DEF BlockTypeOK, CheckPc
  <2>3. Len(ledger') = Len(ledger) + 1 /\ Len(ledger) \in Nat
    BY <2>1, <2>2, AppendProperties
  <2>4. LedgerFull => LedgerFull'
    BY <2>3, RewardAssumption DEF LedgerFull
  <2>5. \A w \in Validators : vpc'[w] = "giveback" => vpc[w] = "giveback"
    BY <2>1 DEF BlockTypeOK
  <2> QED
    BY <2>1, <2>4, <2>5 DEF FullInv
<1>2. ASSUME NEW v \in Validators, GiveBack(v) PROVE FullInv'
  <2>1. /\ vpc[v] = "giveback" /\ vpc' = [vpc EXCEPT ![v] = "report"]
        /\ ledger' = ledger
    BY <1>2 DEF GiveBack, To
  <2>2. LedgerFull'
    BY <2>1 DEF FullInv, LedgerFull
  <2> QED
    BY <2>2 DEF FullInv
<1>3. ASSUME NEW v \in Validators, RoomTest(v) PROVE FullInv'
  <2>1. PICK to :
          /\ to = IF LedgerFull THEN "giveback" ELSE "append"
          /\ vpc' = [vpc EXCEPT ![v] = to]
          /\ ledger' = ledger /\ unearned' = unearned
    <3>1. LedgerFull <=> ~ (Len(ledger) < BlockchainBlocks)
      <4>1. Len(ledger) \in Nat /\ BlockchainBlocks \in Nat
        BY RewardAssumption DEF BlockTypeOK
      <4> QED
        BY <4>1 DEF LedgerFull
    <3>2. /\ ledger' = ledger /\ unearned' = unearned
          /\ vpc' = [vpc EXCEPT ![v] = IF Len(ledger) < BlockchainBlocks
                                      THEN "append" ELSE "giveback"]
      BY <1>3, Zenon DEF RoomTest, Go, To, statVars
    <3> QED
      BY <3>1, <3>2
  <2>2. \A w \in Validators :
          vpc'[w] = "giveback" => vpc[w] = "giveback" \/ LedgerFull
    BY <2>1 DEF BlockTypeOK
  <2>3. LedgerFull' = LedgerFull
    BY <2>1 DEF LedgerFull
  <2> QED
    BY <2>1, <2>2, <2>3 DEF FullInv
<1>4. CASE ~ \E v \in Validators :
               AppendBlock(v) \/ GiveBack(v) \/ RoomTest(v)
  <2>1. /\ UNCHANGED <<ledger, unearned>>
        /\ \/ vpc' = vpc
           \/ \E v \in Validators, to \in {"loop", "ageing", "check", "full",
                                           "report", "exited"} :
                vpc' = [vpc EXCEPT ![v] = to]
    <3>1. ASSUME NEW v \in Validators, ValidatorNext(v) PROVE <2>1
      BY <1>4, <3>1 DEF ValidatorNext, IdlePass, ChildExit, ReadTime, AgePool,
         ReadBlock, Accept, Reject, RejectMissing, RemoveTxs, SendStatistics,
         Go, To, statVars
    <3>2. ASSUME NEW c \in Children, Fork(c) PROVE <2>1
      BY <3>2 DEF Fork, statVars, Validators
    <3>3. CASE /\ ~ \E v \in Validators : ValidatorNext(v)
               /\ ~ \E c \in Children : Fork(c)
      BY <3>3 DEF Next, Tick, TxAdd, MinerNext, TooFew, Select, Mined,
         Exhausted, GiveUp, SendBlock, SendFails, StatReceive, vars, valVars,
         statVars
    <3> QED
      BY <3>1, <3>2, <3>3
  <2>2. \A w \in Validators : vpc'[w] = "giveback" => vpc[w] = "giveback"
    BY <2>1 DEF BlockTypeOK
  <2>3. LedgerFull' = LedgerFull
    BY <2>1 DEF LedgerFull
  <2> QED
    BY <2>1, <2>2, <2>3 DEF FullInv
<1> QED
  BY <1>1, <1>2, <1>3, <1>4

\* For every miner the credits, with the messages in the queue and the blocks
\* not yet reported, are the rewards of its blocks in the ledger and of those
\* that were given back: no reward is lost or counted twice on the way,
\* whatever the number of validators that store and report at the same time.
\* And a block was given back only if the ledger is full.
THEOREM CreditsMatchLedgerCorrect == Spec => []CreditsMatchLedger
<1>1. Spec => []FullInv
  <2>1. MinedInv /\ CreditInv /\ FullInv /\ [Next]_vars =>
          (MinedInv /\ CreditInv /\ FullInv)'
    BY NextMined, NextCredit, NextFull
  <2> QED
    BY <2>1, InitMined, InitCredit, InitFull, PTL DEF Spec
<1>2. CreditInv /\ FullInv => CreditsMatchLedger
  BY DEF CreditInv, Balance, FullInv, LedgerFull, CreditsMatchLedger
<1> QED
  BY <1>1, <1>2, CreditAlways, PTL

-----------------------------------------------------------------------------
\* No more posts than transactions made.
PostsInv == work \in Nat /\ work <= count

LEMMA NextPosts == MinedInv /\ PostsInv /\ [Next]_vars => PostsInv'
<1> SUFFICES ASSUME BlockTypeOK, PostsInv, [Next]_vars PROVE PostsInv'
  BY DEF MinedInv
<1>1. count \in Nat
  BY RewardAssumption DEF BlockTypeOK
<1>2. CASE TxAdd
  BY <1>1, <1>2 DEF TxAdd, PostsInv
<1>3. ASSUME NEW m \in Miners, MinerNext(m) PROVE PostsInv'
  <2>1. /\ count' = count
        /\ \/ work' = work
           \/ work > 0 /\ work' = work - 1
    BY <1>3 DEF MinerNext, TooFew, Select, Mined, Exhausted, GiveUp, SendBlock,
       SendFails, poolVars
  <2> QED
    BY <1>1, <2>1 DEF PostsInv
<1>4. CASE ~ TxAdd /\ ~ \E m \in Miners : MinerNext(m)
  <2>1. UNCHANGED <<count, work>>
    <3>1. CASE \E v \in Validators : ValidatorNext(v)
      BY <3>1 DEF ValidatorNext, IdlePass, ChildExit, ReadTime, AgePool,
         ReadBlock, Accept, Reject, RejectMissing, RoomTest, AppendBlock,
         RemoveTxs, GiveBack, SendStatistics, Go, poolVars
    <3>2. CASE ~ \E v \in Validators : ValidatorNext(v)
      BY <1>4, <3>2 DEF Next, Tick, Fork, StatReceive, vars, poolVars
    <3> QED
      BY <3>1, <3>2
  <2> QED
    BY <2>1 DEF PostsInv
<1> QED
  BY <1>2, <1>3, <1>4

\* Every variable has its type: in particular the semaphore never counts more
\* posts than transactions, the counter of validators never exceeds those that
\* can be forked, and a process holds a block exactly as long as it works on
\* one.
THEOREM TypeCorrect == Spec => []TypeOK
<1>1. Init => PostsInv
  BY DEF Init, PostsInv
<1>2. MinedInv /\ PostsInv /\ [Next]_vars => (MinedInv /\ PostsInv)'
  BY NextMined, NextPosts
<1>3. Spec => [](MinedInv /\ PostsInv)
  BY <1>1, <1>2, InitMined, PTL DEF Spec
<1>4. MinedInv /\ PostsInv /\ AgeInv /\ CreditInv => TypeOK
  <2> SUFFICES ASSUME BlockTypeOK, PostsInv, AgeInv, CreditInv PROVE TypeOK
    BY DEF MinedInv
  <2>1. active \in 1..(1 + Cardinality(Children))
    <3>1. /\ IsFiniteSet(Children) /\ IsFiniteSet(Children \cup {Primary})
          /\ Cardinality(Children \cup {Primary}) = 1 + Cardinality(Children)
          /\ Cardinality(Children) \in Nat
      <4>1. IsFiniteSet(Children) /\ Primary \notin Children
        BY RewardAssumption
      <4>2. /\ IsFiniteSet(Children \cup {Primary})
            /\ Cardinality(Children \cup {Primary}) = Cardinality(Children) + 1
        BY <4>1, FS_AddElement
      <4> QED
        BY <4>1, <4>2, FS_CardinalityType
    <3>2. Started \subseteq Children \cup {Primary}
      BY DEF Started, Validators
    <3>3. /\ IsFiniteSet(Started) /\ Started # {}
          /\ Cardinality(Started) = active
      BY DEF AgeInv, StartedCounted
    <3>4. active \in Nat /\ active # 0
      BY <3>3, FS_CardinalityType, FS_EmptySet
    <3>5. Cardinality(Started) <= Cardinality(Children \cup {Primary})
      BY <3>1, <3>2, FS_Subset
    <3> QED
      BY <3>1, <3>3, <3>4, <3>5
  <2>2. work \in 0..MaxTx
    BY RewardAssumption DEF PostsInv, BlockTypeOK
  <2>3. msgq \in Seq([miner : Miners, valid : BOOLEAN, total_rewards : Nat])
    BY DEF CreditInv, CreditTypeOK, Message
  <2> QED
    BY <2>1, <2>2, <2>3
    DEF TypeOK, BlockTypeOK, AgeInv, ClocksRight, CreditInv, CreditTypeOK
<1> QED
  BY <1>3, <1>4, AgeAlways, CreditAlways, PTL
=============================================================================
