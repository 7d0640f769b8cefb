------------------------- MODULE LinearScan_proofs -------------------------
(***************************************************************************)
(* Theorems about the legalizer and the register allocator, for every test *)
(* and every set of registers: the legalizer leaves a program, two values  *)
(* that are alive at the same time never share a register, and every value *)
(* that is not spilled reaches the instruction that reads it.              *)
(*                                                                         *)
(* The legalizer goes through the code twice, and the invariant follows    *)
(* what each pass has made so far: the first, the code of the test with    *)
(* loads of the values that nobody defines (Resolved); the second, code in *)
(* which what is read is defined before, in the type it is read in         *)
(* (Casted).                                                               *)
(*                                                                         *)
(* Intervals are placed in the order of their starts, each once.  A        *)
(* register changes hands in two ways.  It goes through the pool, when the *)
(* value it held is dead; or it is taken from an active interval that is   *)
(* spilled, by one that begins later and ends earlier: then the register   *)
(* never returns to the pool, so nobody after them gets it.                *)
(***************************************************************************)
EXTENDS LinearScan, FiniteSetTheorems, TLAPS

\* A set of natural numbers that is not empty has a least element.
LEMMA LeastNatural ==
  ASSUME NEW T \in SUBSET Nat, T # {}
  PROVE  \E x \in T : \A y \in T : x <= y
<1> DEFINE R == OpToRel(<, Nat)
<1>1. PICK x \in T : \A y \in T : ~ (<<y, x>> \in R)
  <2> HIDE DEF R
  <2>1. IsWellFoundedOn(R, Nat)
    BY NatLessThanWellFounded DEF R
  <2> QED BY <2>1, WFMin
<1>2. \A y \in T : x \in Nat /\ y \in Nat /\ ~ (y < x)
  BY <1>1 DEF OpToRel
<1> HIDE DEF R
<1> QED BY <1>2

\* The least number of a set belongs to it.
LEMMA MinType ==
  ASSUME NEW T \in SUBSET Nat, T # {}
  PROVE  Min(T) \in T /\ \A y \in T : Min(T) <= y
BY LeastNatural DEF Min

\* So does the greatest, of numbers up to N.
LEMMA MaxType ==
  ASSUME NEW N \in Nat, NEW T \in SUBSET (0 .. N), T # {}
  PROVE  Max(T) \in T /\ \A y \in T : y <= Max(T)
<1> DEFINE D == {N - y : y \in T}
<1>1. D \in SUBSET Nat /\ D # {}
  <2>1. \A y \in T : N - y \in Nat
    OBVIOUS
  <2> QED BY <2>1
<1>2. PICK d \in D : \A y \in D : d <= y
  <2> HIDE DEF D
  <2> QED BY <1>1, LeastNatural
<1>3. PICK x \in T : d = N - x
  BY <1>2
<1>4. \A y \in T : N - x <= N - y
  BY <1>2, <1>3
<1>5. \A y \in T : y <= x
  BY <1>4
<1> QED BY <1>5 DEF Max

\* The image of a finite set under a function.
LEMMA FiniteImage ==
  ASSUME NEW S, IsFiniteSet(S), NEW f, DOMAIN f = S, f = [x \in S |-> f[x]]
  PROVE  IsFiniteSet({f[x] : x \in S})
<1> DEFINE T == {f[x] : x \in S}
<1>1. f \in Surjection(S, T)
  BY DEF Surjection
<1> HIDE DEF T
<1>2. IsFiniteSet(T)
  BY <1>1, FS_Surjection
<1> QED BY <1>2 DEF T

-----------------------------------------------------------------------------
\* A program: all numbers that the passes compute from it are there.
LEMMA CodeType ==
  ASSUME IsCode(code)
  PROVE  /\ Len(code) \in Nat /\ DOMAIN code = 1 .. Len(code)
         /\ \A k \in DOMAIN code : /\ Len(code[k].uses) \in Nat
                                   /\ DOMAIN code[k].uses = 1 .. Len(code[k].uses)
BY DEF IsCode, IsInstruction, IsSequence

\* The live intervals of the code.
Intervals == {Interval(n) : n \in LiveNames}

\* An interval lies in the code, begins at the first definition of its name, if
\* there is one, and reaches up to the last use.
LEMMA IntervalType ==
  ASSUME IsCode(code), NEW n \in LiveNames
  PROVE  /\ Interval(n).name = n
         /\ Interval(n).start \in DOMAIN code /\ Interval(n).end \in DOMAIN code
         /\ Interval(n).start <= Interval(n).end
         /\ \A k \in Uses(n) : k <= Interval(n).end
         /\ Definitions(n) # {} => /\ Interval(n).start \in Definitions(n)
                                   /\ \A k \in Definitions(n) : Interval(n).start <= k
         /\ Definitions(n) = {} => Interval(n).start = Min(Uses(n)) /\ Min(Uses(n)) \in Uses(n)
<1> DEFINE start == IF Definitions(n) # {} THEN Min(Definitions(n)) ELSE Min(Uses(n))
           ends  == Uses(n) \cup {start}
<1>1. Definitions(n) \subseteq DOMAIN code /\ Uses(n) \subseteq DOMAIN code
  BY DEF Definitions, Uses
<1>2. Definitions(n) # {} \/ Uses(n) # {}
  <2>1. CASE \E k \in DOMAIN code : Defines(code[k]) /\ code[k].id = n
    BY <2>1 DEF Definitions
  <2>2. CASE \E k \in DOMAIN code : \E u \in ToSet(code[k].uses) : u.name = n
    BY <2>2 DEF Uses, ToSet
  <2> QED BY <2>1, <2>2 DEF LiveNames
<1>3. Definitions(n) \in SUBSET Nat /\ Uses(n) \in SUBSET Nat
  BY <1>1, CodeType
<1>4. /\ Definitions(n) # {} => /\ start \in Definitions(n)
                                /\ \A k \in Definitions(n) : start <= k
      /\ Definitions(n) = {} => start = Min(Uses(n)) /\ start \in Uses(n)
  BY <1>2, <1>3, MinType, Zenon
<1>5. start \in DOMAIN code
  BY <1>1, <1>4
<1> HIDE DEF start
<1>6. ends \in SUBSET (0 .. Len(code)) /\ ends # {} /\ start \in ends
  BY <1>1, <1>5, CodeType
<1>7. Max(ends) \in ends /\ \A y \in ends : y <= Max(ends)
  <2> HIDE DEF ends
  <2> QED BY <1>6, CodeType, MaxType
<1>8. Interval(n) = [name |-> n, start |-> start, end |-> Max(ends),
                     type |-> Interval(n).type]
  BY DEF Interval, start
<1>9. Max(ends) \in DOMAIN code
  BY <1>1, <1>5, <1>7
<1> HIDE DEF ends
<1>10. Uses(n) \subseteq ends /\ start \in ends
  BY DEF ends
<1> QED BY <1>4, <1>5, <1>7, <1>8, <1>9, <1>10

\* A name that no instruction defines stands somewhere in the instruction that
\* reads it first.
LEMMA PositionType ==
  ASSUME IsCode(code), NEW n \in LiveNames
  PROVE  /\ Position(n) \in Nat
         /\ Definitions(n) # {} => Position(n) = 0
         /\ Definitions(n) = {} =>
               /\ Position(n) > 0
               /\ code[Interval(n).start].uses[Position(n)].name = n
<1>1. CASE Definitions(n) # {}
  BY <1>1 DEF Position
<1>2. CASE Definitions(n) = {}
  <2> DEFINE k == Interval(n).start
             places == {u \in DOMAIN code[k].uses : code[k].uses[u].name = n}
  <2>1. k \in Uses(n) /\ k = Min(Uses(n))
    BY <1>2, IntervalType
  <2>2. places # {}
    BY <2>1 DEF Uses
  <2>3. k \in DOMAIN code
    BY <2>1 DEF Uses
  <2>4. \A u \in DOMAIN code[k].uses : u \in Nat /\ u > 0
    BY <2>3, CodeType
  <2>5. places \in SUBSET Nat
    BY <2>4
  <2>6. Position(n) = Min(places)
    BY <1>2, <2>1 DEF Position, FirstUse
  <2>7. Min(places) \in places
    <3> HIDE DEF places
    <3> QED BY <2>2, <2>5, MinType
  <2> QED BY <1>2, <2>4, <2>6, <2>7
<1> QED BY <1>1, <1>2

\* Two intervals never have the same place in the list.
LEMMA BeforeIsTotal ==
  ASSUME IsCode(code), NEW n \in LiveNames, NEW m \in LiveNames, n # m
  PROVE  Before(Interval(n), Interval(m)) \/ Before(Interval(m), Interval(n))
<1> DEFINE i == Interval(n)  j == Interval(m)
<1>1. i.name = n /\ j.name = m /\ i.start \in Nat /\ j.start \in Nat
  BY IntervalType, CodeType
<1>2. Position(n) \in Nat /\ Position(m) \in Nat
  BY PositionType
<1>3. i.start # j.start \/ Position(n) # Position(m)
  <2> SUFFICES ASSUME i.start = j.start, Position(n) = Position(m)  PROVE FALSE
    OBVIOUS
  <2>1. CASE Definitions(n) # {} /\ Definitions(m) # {}
    <3>1. i.start \in Definitions(n) /\ i.start \in Definitions(m)
      BY <2>1, IntervalType
    <3> QED BY <3>1 DEF Definitions
  <2>2. CASE Definitions(n) = {} /\ Definitions(m) = {}
    BY <2>2, PositionType
  <2>3. CASE (Definitions(n) = {}) # (Definitions(m) = {})
    BY <2>3, PositionType
  <2> QED BY <2>1, <2>2, <2>3
<1> HIDE DEF i, j
<1>4. Before(i, j) \/ Before(j, i)
  BY <1>1, <1>2, <1>3 DEF Before
<1> QED BY <1>4 DEF i, j

\* The order of the list is a strict order, and follows the starts.
LEMMA BeforeIsOrder ==
  ASSUME IsCode(code), NEW n \in LiveNames, NEW m \in LiveNames, NEW o \in LiveNames,
         Before(Interval(n), Interval(m))
  PROVE  /\ ~ Before(Interval(n), Interval(n))
         /\ Before(Interval(m), Interval(o)) => Before(Interval(n), Interval(o))
         /\ Interval(n).start <= Interval(m).start
<1> DEFINE i == Interval(n)  j == Interval(m)  k == Interval(o)
<1>1. /\ i.name = n /\ j.name = m /\ k.name = o
      /\ i.start \in Nat /\ j.start \in Nat /\ k.start \in Nat
  BY IntervalType, CodeType
<1>2. Position(n) \in Nat /\ Position(m) \in Nat /\ Position(o) \in Nat
  BY PositionType
<1> HIDE DEF i, j, k
<1>3. Before(i, j) => ~ Before(i, i) /\ (Before(j, k) => Before(i, k)) /\ i.start <= j.start
  BY <1>1, <1>2 DEF Before
<1> QED BY <1>3 DEF i, j, k

\* There are finitely many names, so an interval has a place in the list.
LEMMA FiniteNames == ASSUME IsCode(code) PROVE IsFiniteSet(LiveNames)
<1> DEFINE D == DOMAIN code
           f == [k \in D |-> code[k].id]
           names(k) == [u \in DOMAIN code[k].uses |-> code[k].uses[u].name]
           namesOf(k) == {names(k)[u] : u \in DOMAIN code[k].uses}
           g == [k \in D |-> namesOf(k)]
<1>1. IsFiniteSet(D)
  BY CodeType, FS_Interval
<1>2. IsFiniteSet({f[k] : k \in D})
  <2>1. DOMAIN f = D /\ f = [k \in D |-> f[k]]
    OBVIOUS
  <2> HIDE DEF f, D
  <2> QED BY <1>1, <2>1, FiniteImage
<1>3. ASSUME NEW k \in D  PROVE IsFiniteSet(namesOf(k))
  <2>1. IsFiniteSet(DOMAIN code[k].uses)
    <3>1. Len(code[k].uses) \in Nat /\ DOMAIN code[k].uses = 1 .. Len(code[k].uses)
      BY <1>3, CodeType
    <3> QED BY <3>1, FS_Interval
  <2>2. DOMAIN names(k) = DOMAIN code[k].uses /\ names(k) = [u \in DOMAIN code[k].uses |-> names(k)[u]]
    OBVIOUS
  <2> HIDE DEF names, D
  <2> QED BY <2>1, <2>2, FiniteImage
<1>4. IsFiniteSet({g[k] : k \in D})
  <2>1. DOMAIN g = D /\ g = [k \in D |-> g[k]]
    OBVIOUS
  <2> HIDE DEF g, D
  <2> QED BY <1>1, <2>1, FiniteImage
<1>5. \A T \in {g[k] : k \in D} : IsFiniteSet(T)
  <2> HIDE DEF namesOf, D
  <2> QED BY <1>3
<1>6. IsFiniteSet(UNION {g[k] : k \in D})
  <2> HIDE DEF g, D
  <2> QED BY <1>4, <1>5, FS_UNION
<1>7. LiveNames \subseteq {f[k] : k \in D} \cup UNION {g[k] : k \in D}
  <2> SUFFICES ASSUME NEW n \in LiveNames
               PROVE  n \in {f[k] : k \in D} \cup UNION {g[k] : k \in D}
    OBVIOUS
  <2>1. CASE \E k \in D : n = code[k].id
    BY <2>1
  <2>2. CASE \E k \in D : \E u \in DOMAIN code[k].uses : n = code[k].uses[u].name
    <3>1. PICK k \in D : \E u \in DOMAIN code[k].uses : n = code[k].uses[u].name
      BY <2>2
    <3>2. n \in g[k]
      BY <3>1
    <3> QED BY <3>2
  <2> QED BY <2>1, <2>2 DEF LiveNames, ToSet
<1> HIDE DEF f, g, D
<1> QED BY <1>2, <1>6, <1>7, FS_Union, FS_Subset

\* The list that the scan works through: all intervals, each once, by start.
Sorted(s) ==
    /\ s \in Seq(Intervals)
    /\ \A j, k \in DOMAIN s : j < k => s[j].start <= s[k].start /\ s[j] # s[k]

\* sorted() gives the list that way: the number of intervals before an interval
\* is its place, and counts each place once.
LEMMA AllSorted ==
  ASSUME IsCode(code)
  PROVE  Sorted(SortedIntervals) /\ \A i \in Intervals : \E k \in DOMAIN SortedIntervals : SortedIntervals[k] = i
<1> DEFINE N == Cardinality(Intervals)
           preds(i) == {j \in Intervals : Before(j, i)}
           rank == [i \in Intervals |-> Cardinality(preds(i))]
<1>1. IsFiniteSet(Intervals) /\ N \in Nat
  <2> DEFINE f == [n \in LiveNames |-> Interval(n)]
  <2>1. DOMAIN f = LiveNames /\ f = [n \in LiveNames |-> f[n]] /\ Intervals = {f[n] : n \in LiveNames}
    BY DEF Intervals
  <2> HIDE DEF f
  <2> QED BY <2>1, FiniteNames, FiniteImage, FS_CardinalityType
<1>2. ASSUME NEW i \in Intervals, NEW j \in Intervals, Before(i, j)
      PROVE  preds(i) \subseteq preds(j) /\ i \in preds(j) /\ i \notin preds(i) /\ i.start <= j.start
  <2>1. PICK n \in LiveNames, m \in LiveNames : i = Interval(n) /\ j = Interval(m)
    BY DEF Intervals
  <2>2. \A k \in Intervals : Before(k, i) => Before(k, j)
    <3> SUFFICES ASSUME NEW o \in LiveNames, Before(Interval(o), i)  PROVE Before(Interval(o), j)
      BY DEF Intervals
    <3> QED BY <1>2, <2>1, BeforeIsOrder
  <2>3. ~ Before(i, i) /\ i.start <= j.start
    BY <1>2, <2>1, BeforeIsOrder
  <2> QED BY <1>2, <2>2, <2>3
<1>3. ASSUME NEW i \in Intervals  PROVE rank[i] \in 0 .. N - 1
  <2>1. ~ Before(i, i)
    <3>1. PICK n \in LiveNames : i = Interval(n)
      BY DEF Intervals
    <3> QED BY <3>1, BeforeIsOrder
  <2>2. preds(i) \subseteq Intervals /\ preds(i) # Intervals
    BY <2>1
  <2> HIDE DEF preds
  <2>3. Cardinality(preds(i)) <= N /\ Cardinality(preds(i)) # N /\ Cardinality(preds(i)) \in Nat
    BY <1>1, <2>2, FS_Subset, FS_CardinalityType
  <2> QED BY <1>1, <2>3
<1>4. ASSUME NEW i \in Intervals, NEW j \in Intervals, Before(i, j)  PROVE rank[i] < rank[j]
  <2>1. preds(i) \subseteq preds(j) /\ preds(i) # preds(j) /\ preds(j) \subseteq Intervals
    BY <1>2, <1>4
  <2> HIDE DEF preds
  <2>2. IsFiniteSet(preds(j))
    BY <1>1, <2>1, FS_Subset
  <2>3. /\ Cardinality(preds(i)) <= Cardinality(preds(j))
        /\ Cardinality(preds(i)) # Cardinality(preds(j))
        /\ Cardinality(preds(i)) \in Nat /\ Cardinality(preds(j)) \in Nat
    BY <2>1, <2>2, FS_Subset, FS_CardinalityType
  <2> QED BY <2>3
<1>5. ASSUME NEW i \in Intervals, NEW j \in Intervals, i # j  PROVE Before(i, j) \/ Before(j, i)
  BY <1>5, BeforeIsTotal DEF Intervals
<1>6. \A i, j \in Intervals : rank[i] = rank[j] => i = j
  <2> HIDE DEF rank
  <2> SUFFICES ASSUME NEW i \in Intervals, NEW j \in Intervals, rank[i] = rank[j], i # j  PROVE FALSE
    OBVIOUS
  <2>1. rank[i] \in Int /\ rank[j] \in Int
    BY <1>1, <1>3
  <2>2. rank[i] < rank[j] \/ rank[j] < rank[i]
    BY <1>4, <1>5
  <2> QED BY <2>1, <2>2
<1> HIDE DEF preds
<1>7. rank \in Injection(Intervals, 0 .. N - 1)
  <2>1. rank \in [Intervals -> 0 .. N - 1]
    BY <1>3
  <2> HIDE DEF rank
  <2> QED BY <1>6, <2>1 DEF Injection, IsInjective
<1>8. \A k \in 0 .. N - 1 : \E i \in Intervals : rank[i] = k
  <2>1. IsFiniteSet(0 .. N - 1) /\ Cardinality(0 .. N - 1) = N
    BY <1>1, FS_Interval
  <2> HIDE DEF rank
  <2>2. rank \in Surjection(Intervals, 0 .. N - 1)
    BY <1>1, <1>7, <2>1, FS_Injection
  <2> QED BY <2>2 DEF Surjection
<1>9. /\ DOMAIN SortedIntervals = 1 .. N
      /\ \A k \in 1 .. N : SortedIntervals[k] \in Intervals /\ rank[SortedIntervals[k]] = k - 1
  <2>1. SortedIntervals = [k \in 1 .. N |-> CHOOSE i \in Intervals : Cardinality(preds(i)) = k - 1]
    BY DEF SortedIntervals, Intervals, preds
  <2>2. ASSUME NEW k \in 1 .. N
        PROVE  LET i == CHOOSE x \in Intervals : Cardinality(preds(x)) = k - 1
               IN  i \in Intervals /\ rank[i] = k - 1
    <3>1. k - 1 \in 0 .. N - 1
      BY <1>1
    <3>2. \E i \in Intervals : Cardinality(preds(i)) = k - 1
      BY <1>8, <3>1
    <3> QED BY <3>2
  <2> HIDE DEF rank
  <2> QED BY <1>1, <2>1, <2>2
<1>10. SortedIntervals \in Seq(Intervals)
  <2>1. SortedIntervals \in [1 .. N -> Intervals]
    <3>1. SortedIntervals = [k \in 1 .. N |-> SortedIntervals[k]]
      BY <1>9 DEF SortedIntervals, Intervals
    <3> QED BY <1>9, <3>1
  <2> QED BY <1>1, <2>1
<1>11. ASSUME NEW j \in 1 .. N, NEW k \in 1 .. N, j < k
       PROVE  SortedIntervals[j].start <= SortedIntervals[k].start /\ SortedIntervals[j] # SortedIntervals[k]
  <2> DEFINE a == SortedIntervals[j]  b == SortedIntervals[k]
  <2> HIDE DEF rank
  <2>1. a \in Intervals /\ b \in Intervals /\ rank[a] = j - 1 /\ rank[b] = k - 1
    BY <1>9
  <2> HIDE DEF a, b
  <2>2. Before(a, b)
    <3>1. rank[a] < rank[b] /\ a # b
      BY <1>1, <1>11, <2>1
    <3>2. ~ Before(b, a)
      BY <1>1, <1>4, <1>11, <2>1
    <3> QED BY <1>5, <2>1, <3>1, <3>2
  <2>3. a.start <= b.start /\ a # b
    BY <1>1, <1>2, <1>11, <2>1, <2>2
  <2> QED BY <2>3 DEF a, b
<1>12. \A i \in Intervals : \E k \in 1 .. N : SortedIntervals[k] = i
  <2> SUFFICES ASSUME NEW i \in Intervals  PROVE \E k \in 1 .. N : SortedIntervals[k] = i
    OBVIOUS
  <2> HIDE DEF rank
  <2>1. PICK k \in 1 .. N : k - 1 = rank[i]
    <3>1. rank[i] + 1 \in 1 .. N /\ (rank[i] + 1) - 1 = rank[i]
      BY <1>1, <1>3
    <3> QED BY <3>1
  <2> QED BY <1>6, <1>9, <2>1
<1> HIDE DEF rank
<1> QED BY <1>9, <1>10, <1>11, <1>12 DEF Sorted

-----------------------------------------------------------------------------
\* The names still to be placed.
QueueNames == {queue[k].name : k \in DOMAIN queue}

\* The placed ones that sit in a register.
InRegisters == {n \in Placed : ~ Spilled(n)}

\* Where the scan put one.
RegisterOf(n) == register_map[n].reg

\* A register is free, or it was granted to one name.
PoolInv ==
    /\ free \subseteq Registers
    /\ \A n \in DOMAIN allocated : allocated[n] \in Registers /\ allocated[n] \notin free
    /\ \A n, o \in DOMAIN allocated : allocated[n] = allocated[o] => n = o

\* An active interval is where its register was granted.
ActiveInv ==
    \A a \in active : /\ a \in Intervals
                      /\ a.name \in DOMAIN allocated /\ a.name \in InRegisters
                      /\ RegisterOf(a.name) = allocated[a.name]

\* A name that sits in a register is dead before anybody else gets the register:
\* a name to be placed that finds it free, or the active interval that has it.
DeadBefore(n) ==
    /\ RegisterOf(n) \in free => \A k \in DOMAIN queue : Interval(n).end <= queue[k].start
    /\ \A a \in active : allocated[a.name] = RegisterOf(n) /\ a.name # n => Interval(n).end <= a.start

\* One is dead when the other begins.
Apart(n, o) == Interval(n).end <= Interval(o).start \/ Interval(o).end <= Interval(n).start

\* Names that sit in registers: the register survives what their life spans,
\* they began before whatever is still to come, and do not interfere.
PlacedInv ==
    /\ Placed \subseteq LiveNames /\ LiveNames \subseteq Placed \cup QueueNames
    /\ \A n \in InRegisters :
          /\ RegisterOf(n) \in Registers /\ RegisterOf(n) \notin ClobberedIn(Interval(n))
          /\ \A k \in DOMAIN queue : Interval(n).start <= queue[k].start
          /\ DeadBefore(n)
    /\ \A n, o \in InRegisters : n # o /\ RegisterOf(n) = RegisterOf(o) => Apart(n, o)

\* The invariant of the scan.
ScanInv == Sorted(queue) /\ PoolInv /\ ActiveInv /\ PlacedInv

\* Intervals are those of the code, which the scan does not change.
LEMMA SameCode ==
  ASSUME code' = code
  PROVE  /\ \A n : Interval(n)' = Interval(n)
         /\ LiveNames' = LiveNames /\ Intervals' = Intervals
         /\ \A i : ClobberedIn(i)' = ClobberedIn(i)
         /\ IsCode(code)' <=> IsCode(code)
<1>1. \A n : Interval(n)' = Interval(n)
  BY DEF Interval, Definitions, Defines, Uses, FirstUse
<1>2. LiveNames' = LiveNames
  BY DEF LiveNames, Defines
<1>3. Intervals' = Intervals
  BY <1>1, <1>2 DEF Intervals
<1>4. \A i : ClobberedIn(i)' = ClobberedIn(i)
  BY DEF ClobberedIn
<1> QED BY <1>1, <1>2, <1>3, <1>4

\* Taking the first interval leaves a list of those that begin no earlier.
LEMMA HeadOfQueue ==
  ASSUME IsCode(code), Sorted(queue), queue # << >>
  PROVE  /\ Head(queue) \in Intervals /\ Head(queue) = queue[1] /\ 1 \in DOMAIN queue
         /\ Sorted(Tail(queue))
         /\ \A k \in DOMAIN Tail(queue) : /\ Tail(queue)[k] \in Intervals
                                          /\ \E j \in DOMAIN queue : j > 1 /\ Tail(queue)[k] = queue[j]
                                          /\ Head(queue).start <= Tail(queue)[k].start
         /\ {Tail(queue)[k].name : k \in DOMAIN Tail(queue)} = QueueNames \ {Head(queue).name}
<1>1. /\ queue \in Seq(Intervals)
      /\ \A j, k \in DOMAIN queue : j < k => queue[j].start <= queue[k].start /\ queue[j] # queue[k]
  BY DEF Sorted
<1>2. /\ Head(queue) = queue[1] /\ 1 \in DOMAIN queue /\ Head(queue) \in Intervals
      /\ Tail(queue) \in Seq(Intervals) /\ Len(queue) \in Nat /\ DOMAIN queue = 1 .. Len(queue)
      /\ DOMAIN Tail(queue) = 1 .. Len(queue) - 1
      /\ \A k \in DOMAIN Tail(queue) : Tail(queue)[k] = queue[k + 1]
  BY <1>1
<1>3. \A k \in DOMAIN Tail(queue) : /\ k + 1 \in DOMAIN queue /\ k + 1 > 1
                                    /\ Tail(queue)[k] = queue[k + 1]
  BY <1>2
<1>4. Sorted(Tail(queue))
  <2> SUFFICES ASSUME NEW j \in DOMAIN Tail(queue), NEW k \in DOMAIN Tail(queue), j < k
               PROVE  Tail(queue)[j].start <= Tail(queue)[k].start /\ Tail(queue)[j] # Tail(queue)[k]
    BY <1>2 DEF Sorted
  <2>1. j + 1 \in DOMAIN queue /\ k + 1 \in DOMAIN queue /\ j + 1 < k + 1
    BY <1>2
  <2> QED BY <1>1, <1>2, <2>1
<1>5. \A k \in DOMAIN Tail(queue) : /\ Tail(queue)[k] \in Intervals
                                    /\ \E j \in DOMAIN queue : j > 1 /\ Tail(queue)[k] = queue[j]
                                    /\ Head(queue).start <= Tail(queue)[k].start
  <2> SUFFICES ASSUME NEW k \in DOMAIN Tail(queue)
               PROVE  /\ Tail(queue)[k] \in Intervals
                      /\ \E j \in DOMAIN queue : j > 1 /\ Tail(queue)[k] = queue[j]
                      /\ Head(queue).start <= Tail(queue)[k].start
    OBVIOUS
  <2>1. Tail(queue)[k] = queue[k + 1] /\ k + 1 \in DOMAIN queue /\ 1 < k + 1
    BY <1>3
  <2>2. Tail(queue)[k] \in Intervals
    BY <1>1, <2>1
  <2>3. Head(queue).start <= Tail(queue)[k].start
    BY <1>1, <1>2, <2>1
  <2> QED BY <2>1, <2>2, <2>3
<1>6. {Tail(queue)[k].name : k \in DOMAIN Tail(queue)} = QueueNames \ {Head(queue).name}
  <2>1. ASSUME NEW i \in Intervals, NEW j \in Intervals, i.name = j.name  PROVE i = j
    BY <2>1, IntervalType DEF Intervals
  <2>2. ASSUME NEW j \in DOMAIN queue, j # 1
        PROVE  /\ queue[j].name # Head(queue).name
               /\ j - 1 \in DOMAIN Tail(queue) /\ Tail(queue)[j - 1] = queue[j]
    <3>1. j > 1
      BY <1>2, <2>2
    <3>2. queue[j] # queue[1] /\ queue[j] \in Intervals /\ queue[1] \in Intervals
      BY <1>1, <1>2, <3>1
    <3> QED BY <1>2, <2>1, <2>2, <3>2
  <2>3. ASSUME NEW k \in DOMAIN Tail(queue)
        PROVE  Tail(queue)[k].name \in QueueNames \ {Head(queue).name}
    <3>1. PICK j \in DOMAIN queue : j > 1 /\ Tail(queue)[k] = queue[j]
      BY <1>5
    <3> QED BY <1>2, <2>2, <3>1 DEF QueueNames
  <2>4. ASSUME NEW j \in DOMAIN queue, queue[j].name # Head(queue).name
        PROVE  \E k \in DOMAIN Tail(queue) : queue[j].name = Tail(queue)[k].name
    <3>1. j # 1
      BY <1>2, <2>4
    <3> QED BY <2>2, <3>1
  <2> QED BY <2>3, <2>4 DEF QueueNames
<1> QED BY <1>2, <1>4, <1>5, <1>6

\* An interval is the one of its name.
LEMMA IntervalOf ==
  ASSUME IsCode(code), NEW i \in Intervals
  PROVE  /\ i.name \in LiveNames /\ Interval(i.name) = i
         /\ i.start \in Nat /\ i.end \in Nat /\ i.start <= i.end
<1>1. PICK n \in LiveNames : i = Interval(n)
  BY DEF Intervals
<1> QED BY <1>1, IntervalType, CodeType

\* What the pool is when the expired intervals have given their registers back:
\* nobody who had one of its registers is still alive.
LEMMA PoolReturned ==
  ASSUME IsCode(code), ScanInv, queue # << >>
  PROVE  LET i == Head(queue)
         IN  /\ PoolAt(i) \subseteq Registers
             /\ \A n \in DOMAIN Held(i) : /\ n \in DOMAIN allocated /\ Held(i)[n] = allocated[n]
                                          /\ Held(i)[n] \in Registers /\ Held(i)[n] \notin PoolAt(i)
             /\ \A n \in InRegisters : RegisterOf(n) \in PoolAt(i) => Interval(n).end <= i.start
             /\ \A a \in Live(i) : a \in active /\ a.name \in DOMAIN Held(i)
<1> DEFINE i == Head(queue)
<1>1. i \in Intervals /\ i = queue[1] /\ 1 \in DOMAIN queue /\ i.start \in Nat
  BY HeadOfQueue, IntervalOf DEF ScanInv
<1> HIDE DEF i
<1>2. \A a \in active : /\ a \in Intervals /\ a.name \in DOMAIN allocated /\ a.name \in InRegisters
                        /\ RegisterOf(a.name) = allocated[a.name]
  BY DEF ScanInv, ActiveInv
<1>3. /\ free \subseteq Registers
      /\ \A n \in DOMAIN allocated : allocated[n] \in Registers /\ allocated[n] \notin free
      /\ \A n, o \in DOMAIN allocated : allocated[n] = allocated[o] => n = o
  BY DEF ScanInv, PoolInv
<1>4. Expired(i) \subseteq active /\ \A a \in Expired(i) : a.end <= i.start
  BY DEF Expired
<1>5. PoolAt(i) \subseteq Registers
  BY <1>2, <1>3, <1>4 DEF PoolAt
<1>6. ASSUME NEW n \in DOMAIN Held(i)
      PROVE  /\ n \in DOMAIN allocated /\ Held(i)[n] = allocated[n]
             /\ Held(i)[n] \in Registers /\ Held(i)[n] \notin PoolAt(i)
  <2>1. n \in DOMAIN allocated /\ Held(i)[n] = allocated[n] /\ \A a \in Expired(i) : a.name # n
    BY DEF Held
  <2> QED BY <1>2, <1>3, <1>4, <2>1 DEF PoolAt
<1>7. ASSUME NEW n \in InRegisters, RegisterOf(n) \in PoolAt(i)
      PROVE  Interval(n).end <= i.start
  <2>1. DeadBefore(n) /\ n \in LiveNames
    BY DEF ScanInv, PlacedInv, InRegisters
  <2>2. CASE RegisterOf(n) \in free
    BY <1>1, <2>1, <2>2 DEF DeadBefore
  <2>3. CASE \E a \in Expired(i) : RegisterOf(n) = allocated[a.name]
    <3>1. PICK a \in Expired(i) : RegisterOf(n) = allocated[a.name]
      BY <2>3
    <3>2. a \in Intervals /\ a \in active /\ a.end <= i.start
      BY <1>2, <1>4
    <3>3. Interval(a.name) = a /\ a.start \in Nat /\ a.end \in Nat /\ a.start <= a.end
      BY <3>2, IntervalOf
    <3>4. Interval(n).end \in Nat
      BY <2>1, IntervalType, CodeType
    <3>5. CASE a.name = n
      BY <3>2, <3>3, <3>5
    <3>6. CASE a.name # n
      <4>1. Interval(n).end <= a.start
        BY <2>1, <3>1, <3>2, <3>6 DEF DeadBefore
      <4> QED BY <1>1, <3>2, <3>3, <3>4, <4>1
    <3> QED BY <3>5, <3>6
  <2> QED BY <1>7, <2>2, <2>3 DEF PoolAt
<1>8. ASSUME NEW a \in Live(i)  PROVE a \in active /\ a.name \in DOMAIN Held(i)
  <2>1. a \in active /\ a \notin Expired(i)
    BY DEF Live
  <2>2. ASSUME NEW b \in Expired(i)  PROVE b.name # a.name
    <3>1. a \in Intervals /\ b \in Intervals
      BY <1>2, <1>4, <2>1
    <3>2. Interval(a.name) = a /\ Interval(b.name) = b
      BY <3>1, IntervalOf
    <3> QED BY <2>1, <3>2
  <2> QED BY <1>2, <2>1, <2>2 DEF Held
<1> QED BY <1>5, <1>6, <1>7, <1>8 DEF i

\* The next interval leaves the queue with a place of its own.
LEMMA PlacedGrows ==
  ASSUME IsCode(code), ScanInv, queue # << >>, queue' = Tail(queue),
         DOMAIN register_map' = {Head(queue).name} \cup DOMAIN register_map
  PROVE  /\ Placed' = Placed \cup {Head(queue).name} /\ Head(queue).name \notin Placed
         /\ QueueNames' = QueueNames \ {Head(queue).name}
         /\ Sorted(queue')
<1>1. /\ Sorted(Tail(queue)) /\ 1 \in DOMAIN queue /\ Head(queue) = queue[1]
      /\ {Tail(queue)[k].name : k \in DOMAIN Tail(queue)} = QueueNames \ {Head(queue).name}
  BY HeadOfQueue DEF ScanInv
<1>2. QueueNames' = QueueNames \ {Head(queue).name}
  BY <1>1 DEF QueueNames
<1>3. Placed = DOMAIN register_map \ QueueNames /\ Placed' = DOMAIN register_map' \ QueueNames'
  BY DEF Placed, QueueNames
<1>4. Head(queue).name \in QueueNames
  BY <1>1 DEF QueueNames
<1> QED BY <1>1, <1>2, <1>3, <1>4

\* An interval that is granted a register.
LEMMA GrantStep ==
  ASSUME IsCode(code), ScanInv, queue # << >>, code' = code, queue' = Tail(queue), Grant(Head(queue))
  PROVE  ScanInv'
<1>0. PICK i : i = Head(queue)
  OBVIOUS
<1>1. /\ i \in Intervals /\ i.name \in LiveNames /\ Interval(i.name) = i
      /\ i.start \in Nat /\ i.end \in Nat
  BY <1>0, HeadOfQueue, IntervalOf DEF ScanInv
<1>2. \A k \in DOMAIN queue' : /\ i.start <= queue'[k].start
                               /\ \E j \in DOMAIN queue : queue'[k] = queue[j]
                               /\ queue'[k].start \in Nat
  BY <1>0, HeadOfQueue, IntervalOf DEF ScanInv
<1>3. PICK r \in Granted(i) :
         /\ free' = PoolAt(i) \ {r}
         /\ allocated' = Put(Held(i), i.name, r)
         /\ register_map' = Put(register_map, i.name, InRegister(r))
  BY <1>0 DEF Grant
<1>4. active' = Live(i) \cup {i}
  BY <1>0 DEF Grant
<1>5. r \in PoolAt(i) /\ r \notin ClobberedIn(i)
  BY <1>3 DEF Granted, Candidates
<1>6. /\ PoolAt(i) \subseteq Registers
      /\ \A n \in DOMAIN Held(i) : /\ n \in DOMAIN allocated /\ Held(i)[n] = allocated[n]
                                   /\ Held(i)[n] \in Registers /\ Held(i)[n] \notin PoolAt(i)
      /\ \A n \in InRegisters : RegisterOf(n) \in PoolAt(i) => Interval(n).end <= i.start
      /\ \A a \in Live(i) : a \in active /\ a.name \in DOMAIN Held(i)
  BY <1>0, PoolReturned
<1>7. /\ DOMAIN register_map' = {i.name} \cup DOMAIN register_map
      /\ register_map'[i.name] = InRegister(r)
      /\ \A n \in DOMAIN register_map : n # i.name => register_map'[n] = register_map[n]
  BY <1>3 DEF Put
<1>8. /\ Placed' = Placed \cup {i.name} /\ i.name \notin Placed
      /\ QueueNames' = QueueNames \ {i.name} /\ Sorted(queue')
  BY <1>0, <1>7, PlacedGrows
<1>9. /\ DOMAIN allocated' = {i.name} \cup DOMAIN Held(i)
      /\ allocated'[i.name] = r
      /\ \A n \in DOMAIN Held(i) : n # i.name => allocated'[n] = Held(i)[n]
  BY <1>3 DEF Put
<1>10. /\ \A n : Interval(n)' = Interval(n)
       /\ LiveNames' = LiveNames /\ Intervals' = Intervals
       /\ \A j : ClobberedIn(j)' = ClobberedIn(j)
  BY SameCode
<1>11. r \in Registers /\ r # NoRegister
  BY <1>5, <1>6, RegTypeAssumption DEF Registers
<1>12. /\ InRegisters' = InRegisters \cup {i.name} /\ i.name \notin InRegisters
       /\ \A n \in InRegisters : RegisterOf(n)' = RegisterOf(n) /\ n \in LiveNames
       /\ RegisterOf(i.name)' = r
  <2>1. Placed \subseteq DOMAIN register_map /\ Placed \subseteq LiveNames
    BY DEF Placed, ScanInv, PlacedInv
  <2>2. \A n \in Placed : register_map'[n] = register_map[n]
    BY <1>7, <1>8, <2>1
  <2>3. register_map'[i.name].reg = r
    BY <1>7 DEF InRegister
  <2> QED BY <1>8, <1>11, <2>1, <2>2, <2>3 DEF InRegisters, Spilled, RegisterOf
<1>13. PoolInv'
  <2>1. free' \subseteq Registers
    BY <1>3, <1>6
  <2>2. \A n \in DOMAIN allocated' : allocated'[n] \in Registers /\ allocated'[n] \notin free'
    BY <1>3, <1>6, <1>9, <1>11
  <2>3. \A n, o \in DOMAIN allocated' : allocated'[n] = allocated'[o] => n = o
    <3>1. \A n, o \in DOMAIN Held(i) : Held(i)[n] = Held(i)[o] => n = o
      BY <1>6 DEF ScanInv, PoolInv
    <3> QED BY <1>5, <1>6, <1>9, <3>1
  <2> QED BY <2>1, <2>2, <2>3 DEF PoolInv, Registers
<1>14. \A a \in Live(i) : /\ a \in Intervals /\ a.name # i.name
                          /\ a.name \in InRegisters /\ RegisterOf(a.name) = allocated[a.name]
                          /\ a.name \in DOMAIN allocated'
                          /\ allocated'[a.name] = allocated[a.name]
  BY <1>6, <1>9, <1>12 DEF ScanInv, ActiveInv
<1>15. ActiveInv'
  <2> SUFFICES ASSUME NEW a \in active'
               PROVE  /\ a \in Intervals' /\ a.name \in DOMAIN allocated' /\ a.name \in InRegisters'
                      /\ RegisterOf(a.name)' = allocated'[a.name]
    BY DEF ActiveInv
  <2>1. CASE a = i
    BY <1>1, <1>9, <1>10, <1>12, <2>1
  <2>2. CASE a \in Live(i)
    BY <1>10, <1>12, <1>14, <2>2
  <2> QED BY <1>4, <2>1, <2>2
<1>16. \A n \in InRegisters : /\ RegisterOf(n) = r => Interval(n).end <= i.start
                              /\ Interval(n).end \in Nat /\ Interval(n).start \in Nat
  <2>1. \A n \in InRegisters : n \in LiveNames
    BY <1>12
  <2> QED BY <1>5, <1>6, <2>1, IntervalType, CodeType
<1>17. ASSUME NEW n \in InRegisters'
       PROVE  /\ RegisterOf(n)' \in Registers /\ RegisterOf(n)' \notin ClobberedIn(Interval(n))
              /\ \A k \in DOMAIN queue' : Interval(n).start <= queue'[k].start
              /\ RegisterOf(n)' \in free' => \A k \in DOMAIN queue' : Interval(n).end <= queue'[k].start
              /\ \A a \in active' : allocated'[a.name] = RegisterOf(n)' /\ a.name # n
                                      => Interval(n).end <= a.start
  <2>1. CASE n = i.name
    <3>1. \A a \in Live(i) : allocated'[a.name] # r
      BY <1>5, <1>6, <1>14
    <3> QED BY <1>1, <1>2, <1>3, <1>4, <1>5, <1>11, <1>12, <2>1, <3>1
  <2>2. CASE n \in InRegisters
    <3>1. /\ RegisterOf(n) \in Registers /\ RegisterOf(n) \notin ClobberedIn(Interval(n))
          /\ \A k \in DOMAIN queue : Interval(n).start <= queue[k].start
          /\ \A a \in active : allocated[a.name] = RegisterOf(n) /\ a.name # n => Interval(n).end <= a.start
      BY <2>2 DEF ScanInv, PlacedInv, DeadBefore
    <3>2. RegisterOf(n)' = RegisterOf(n)
      BY <1>12, <2>2
    <3>3. \A k \in DOMAIN queue' : Interval(n).start <= queue'[k].start
      BY <1>2, <3>1
    <3>4. RegisterOf(n) \in free' => \A k \in DOMAIN queue' : Interval(n).end <= queue'[k].start
      <4> SUFFICES ASSUME RegisterOf(n) \in PoolAt(i), NEW k \in DOMAIN queue'
                   PROVE  Interval(n).end <= queue'[k].start
        BY <1>3
      <4>1. Interval(n).end <= i.start /\ i.start <= queue'[k].start
        BY <1>2, <1>6, <2>2
      <4> QED BY <1>1, <1>2, <1>16, <2>2, <4>1
    <3>5. \A a \in active' : allocated'[a.name] = RegisterOf(n) /\ a.name # n => Interval(n).end <= a.start
      BY <1>4, <1>6, <1>9, <1>14, <1>16, <2>2, <3>1
    <3> QED BY <3>1, <3>2, <3>3, <3>4, <3>5
  <2> QED BY <1>12, <2>1, <2>2
<1>18. ASSUME NEW n \in InRegisters', NEW o \in InRegisters', n # o, RegisterOf(n)' = RegisterOf(o)'
       PROVE  Apart(n, o)
  <2>1. CASE n \in InRegisters /\ o \in InRegisters
    BY <1>12, <1>18, <2>1 DEF ScanInv, PlacedInv
  <2>2. CASE n = i.name \/ o = i.name
    BY <1>1, <1>12, <1>16, <1>18, <2>2 DEF Apart
  <2> QED BY <1>12, <2>1, <2>2
<1>19. PlacedInv'
  <2>1. Placed' \subseteq LiveNames' /\ LiveNames' \subseteq Placed' \cup QueueNames'
    BY <1>1, <1>8, <1>10 DEF ScanInv, PlacedInv
  <2>2. \A n \in InRegisters' : DeadBefore(n)'
    BY <1>10, <1>17 DEF DeadBefore
  <2>3. \A n, o \in InRegisters' : n # o /\ RegisterOf(n)' = RegisterOf(o)' => Apart(n, o)'
    BY <1>10, <1>18 DEF Apart
  <2>4. \A n \in InRegisters' :
          /\ RegisterOf(n)' \in Registers /\ RegisterOf(n)' \notin ClobberedIn(Interval(n))'
          /\ \A k \in DOMAIN queue' : Interval(n)'.start <= queue'[k].start
    <3>1. \A n : ClobberedIn(Interval(n))' = ClobberedIn(Interval(n))
      BY <1>10
    <3> QED BY <1>10, <1>17, <3>1
  <2> QED BY <2>1, <2>2, <2>3, <2>4 DEF PlacedInv, Registers
<1>20. Sorted(queue)'
  BY <1>8, <1>10 DEF Sorted
<1> QED BY <1>13, <1>15, <1>19, <1>20 DEF ScanInv

\* An interval that is spilled, or that takes the register of one that lives
\* longer: it begins later and ends earlier, so what avoids the other's life
\* avoids its own, and nobody looks for the register again.
LEMMA SpillStep ==
  ASSUME IsCode(code), ScanInv, queue # << >>, code' = code, queue' = Tail(queue), Spill(Head(queue))
  PROVE  ScanInv'
<1>0. PICK i : i = Head(queue)
  OBVIOUS
<1>1. /\ i \in Intervals /\ i.name \in LiveNames /\ Interval(i.name) = i
      /\ i.start \in Nat /\ i.end \in Nat /\ 1 \in DOMAIN queue /\ queue[1] = i
  BY <1>0, HeadOfQueue, IntervalOf DEF ScanInv
<1>2. \A k \in DOMAIN queue' : /\ i.start <= queue'[k].start
                               /\ \E j \in DOMAIN queue : queue'[k] = queue[j]
                               /\ queue'[k].start \in Nat
  BY <1>0, HeadOfQueue, IntervalOf DEF ScanInv
<1>3. PICK last \in SameType(i) :
         \/ /\ Loser(i, last) = i
            /\ register_map' = Put(register_map, i.name, OnStack(slots + 1))
            /\ active' = Live(i)
         \/ /\ Loser(i, last) # i
            /\ register_map' = Put(Put(register_map, last.name, OnStack(slots + 1)),
                                   i.name, register_map[last.name])
            /\ active' = Live(i) \ {last}
  BY <1>0 DEF Spill
<1>4. free' = PoolAt(i) /\ allocated' = Held(i)
  BY <1>0 DEF Spill
<1>5. last \in Live(i)
  BY DEF SameType
<1>6. /\ PoolAt(i) \subseteq Registers
      /\ \A n \in DOMAIN Held(i) : /\ n \in DOMAIN allocated /\ Held(i)[n] = allocated[n]
                                   /\ Held(i)[n] \in Registers /\ Held(i)[n] \notin PoolAt(i)
      /\ \A n \in InRegisters : RegisterOf(n) \in PoolAt(i) => Interval(n).end <= i.start
      /\ \A a \in Live(i) : a \in active /\ a.name \in DOMAIN Held(i)
  BY <1>0, PoolReturned
<1>7. /\ \A n : Interval(n)' = Interval(n)
      /\ LiveNames' = LiveNames /\ Intervals' = Intervals
      /\ \A j : ClobberedIn(j)' = ClobberedIn(j)
  BY SameCode
<1>8. PoolInv'
  BY <1>4, <1>6 DEF ScanInv, PoolInv, Registers
<1>9. \A a \in Live(i) : /\ a \in Intervals /\ a.name \in InRegisters
                         /\ RegisterOf(a.name) = allocated[a.name]
                         /\ allocated'[a.name] = allocated[a.name] /\ a.name \in DOMAIN allocated'
  BY <1>4, <1>6 DEF ScanInv, ActiveInv
<1>10. \A n \in InRegisters : /\ n \in LiveNames /\ n \in DOMAIN register_map
                              /\ Interval(n).end \in Nat /\ Interval(n).start \in Nat
  <2>1. \A n \in InRegisters : n \in LiveNames /\ n \in DOMAIN register_map
    BY DEF InRegisters, Placed, ScanInv, PlacedInv
  <2> QED BY <2>1, IntervalType, CodeType
<1>11. ASSUME NEW n \in InRegisters
       PROVE  /\ RegisterOf(n) \in Registers /\ RegisterOf(n) \notin ClobberedIn(Interval(n))
              /\ \A k \in DOMAIN queue' : Interval(n).start <= queue'[k].start
              /\ RegisterOf(n) \in free' => \A k \in DOMAIN queue' : Interval(n).end <= queue'[k].start
              /\ \A a \in Live(i) : allocated'[a.name] = RegisterOf(n) /\ a.name # n
                                      => Interval(n).end <= a.start
              /\ Interval(n).start <= i.start
  <2>1. /\ RegisterOf(n) \in Registers /\ RegisterOf(n) \notin ClobberedIn(Interval(n))
        /\ \A k \in DOMAIN queue : Interval(n).start <= queue[k].start
        /\ \A a \in active : allocated[a.name] = RegisterOf(n) /\ a.name # n => Interval(n).end <= a.start
    BY DEF ScanInv, PlacedInv, DeadBefore
  <2>2. \A k \in DOMAIN queue' : Interval(n).start <= queue'[k].start
    BY <1>2, <2>1
  <2>3. RegisterOf(n) \in free' => \A k \in DOMAIN queue' : Interval(n).end <= queue'[k].start
    <3> SUFFICES ASSUME RegisterOf(n) \in PoolAt(i), NEW k \in DOMAIN queue'
                 PROVE  Interval(n).end <= queue'[k].start
      BY <1>4
    <3>1. Interval(n).end <= i.start /\ i.start <= queue'[k].start
      BY <1>2, <1>6
    <3> QED BY <1>1, <1>2, <1>10, <3>1
  <2>4. Interval(n).start <= i.start
    BY <1>1, <2>1
  <2> QED BY <1>6, <1>9, <2>1, <2>2, <2>3, <2>4
<1>12. i.name \notin Placed /\ i.name \notin InRegisters
  <2>1. i.name \in QueueNames
    BY <1>1 DEF QueueNames
  <2> QED BY <2>1 DEF Placed, QueueNames, InRegisters
<1>13. CASE Loser(i, last) = i
  <2>1. register_map' = Put(register_map, i.name, OnStack(slots + 1)) /\ active' = Live(i)
    BY <1>3, <1>13
  <2>2. /\ DOMAIN register_map' = {i.name} \cup DOMAIN register_map
        /\ register_map'[i.name].reg = NoRegister
        /\ \A n \in DOMAIN register_map : n # i.name => register_map'[n] = register_map[n]
    BY <2>1 DEF Put, OnStack
  <2>3. /\ Placed' = Placed \cup {i.name} /\ QueueNames' = QueueNames \ {i.name} /\ Sorted(queue')
    BY <1>0, <2>2, PlacedGrows
  <2>4. InRegisters' = InRegisters /\ \A n \in InRegisters : RegisterOf(n)' = RegisterOf(n)
    <3>1. Placed \subseteq DOMAIN register_map
      BY DEF Placed
    <3>2. \A n \in Placed : register_map'[n] = register_map[n]
      BY <1>12, <2>2, <3>1
    <3> QED BY <1>12, <2>2, <2>3, <3>1, <3>2 DEF InRegisters, Spilled, RegisterOf
  <2>5. ActiveInv'
    BY <1>7, <1>9, <2>1, <2>4 DEF ActiveInv
  <2>6. PlacedInv'
    <3>1. Placed' \subseteq LiveNames' /\ LiveNames' \subseteq Placed' \cup QueueNames'
      BY <1>1, <1>7, <2>3 DEF ScanInv, PlacedInv
    <3>2. \A n \in InRegisters' : DeadBefore(n)'
      BY <1>7, <1>11, <2>1, <2>4 DEF DeadBefore
    <3>3. \A n, o \in InRegisters' : n # o /\ RegisterOf(n)' = RegisterOf(o)' => Apart(n, o)'
      BY <1>7, <2>4 DEF Apart, ScanInv, PlacedInv
    <3>4. \A n \in InRegisters' :
            /\ RegisterOf(n)' \in Registers /\ RegisterOf(n)' \notin ClobberedIn(Interval(n))'
            /\ \A k \in DOMAIN queue' : Interval(n)'.start <= queue'[k].start
      BY <1>7, <1>11, <2>4
    <3> QED BY <3>1, <3>2, <3>3, <3>4 DEF PlacedInv, Registers
  <2>7. Sorted(queue)'
    BY <1>7, <2>3 DEF Sorted
  <2> QED BY <1>8, <2>5, <2>6, <2>7 DEF ScanInv
<1>14. CASE Loser(i, last) # i
  <2> DEFINE r == allocated[last.name]
  <2>1. /\ register_map' = Put(Put(register_map, last.name, OnStack(slots + 1)),
                               i.name, register_map[last.name])
        /\ active' = Live(i) \ {last}
    BY <1>3, <1>14
  <2>2. /\ last \in Intervals /\ last \in active /\ last.name \in InRegisters
        /\ last.name \in DOMAIN Held(i) /\ RegisterOf(last.name) = r
        /\ Interval(last.name) = last /\ last.start \in Nat /\ last.end \in Nat
    BY <1>5, <1>6, <1>9, IntervalOf
  <2>3. last.name # i.name /\ last.end > i.end /\ last.start <= i.start
    <3>1. last.name # i.name
      BY <1>12, <2>2
    <3>2. last.end > i.end
      BY <1>14 DEF Loser
    <3>3. Interval(last.name).start <= i.start
      BY <1>11, <2>2
    <3> QED BY <2>2, <3>1, <3>2, <3>3
  <2>4. /\ DOMAIN register_map' = {i.name} \cup DOMAIN register_map
        /\ register_map'[i.name] = register_map[last.name]
        /\ register_map'[last.name].reg = NoRegister
        /\ \A n \in DOMAIN register_map : n # i.name /\ n # last.name => register_map'[n] = register_map[n]
    <3>1. last.name \in DOMAIN register_map
      BY <1>10, <2>2
    <3> QED BY <2>1, <2>3, <3>1 DEF Put, OnStack
  <2>5. /\ Placed' = Placed \cup {i.name} /\ QueueNames' = QueueNames \ {i.name} /\ Sorted(queue')
    BY <1>0, <2>4, PlacedGrows
  <2> HIDE DEF r
  <2>6. r \in Registers /\ r # NoRegister /\ r \notin ClobberedIn(last)
    BY <1>11, <2>2, RegTypeAssumption DEF Registers
  <2>7. /\ InRegisters' = (InRegisters \ {last.name}) \cup {i.name}
        /\ \A n \in InRegisters \ {last.name} : RegisterOf(n)' = RegisterOf(n)
        /\ RegisterOf(i.name)' = r
    <3>1. Placed \subseteq DOMAIN register_map
      BY DEF Placed
    <3>2. \A n \in Placed : n # last.name => register_map'[n] = register_map[n]
      BY <1>12, <2>4, <3>1
    <3>3. register_map'[i.name].reg = r
      BY <2>2, <2>4 DEF RegisterOf
    <3>4. ASSUME NEW n \in Placed  PROVE n \in InRegisters' <=> n \in InRegisters \ {last.name}
      <4>1. CASE n = last.name
        BY <2>4, <4>1 DEF InRegisters, Spilled
      <4>2. CASE n # last.name
        BY <2>5, <3>2, <4>2 DEF InRegisters, Spilled
      <4> QED BY <4>1, <4>2
    <3>5. i.name \in InRegisters'
      BY <2>5, <2>6, <3>3 DEF InRegisters, Spilled
    <3>6. InRegisters' \subseteq Placed \cup {i.name} /\ InRegisters \subseteq Placed
      BY <2>5 DEF InRegisters
    <3>7. InRegisters' = (InRegisters \ {last.name}) \cup {i.name}
      BY <1>12, <3>4, <3>5, <3>6
    <3> QED BY <3>2, <3>3, <3>6, <3>7 DEF RegisterOf
  <2>8. \A a \in active' : a \in Live(i) /\ a.name # last.name
    <3>1. \A a \in Live(i) : a.name = last.name => a = last
      BY <1>9, <2>2, IntervalOf
    <3> QED BY <2>1, <3>1
  <2>9. ActiveInv'
    <3> SUFFICES ASSUME NEW a \in active'
                 PROVE  /\ a \in Intervals' /\ a.name \in DOMAIN allocated' /\ a.name \in InRegisters'
                        /\ RegisterOf(a.name)' = allocated'[a.name]
      BY DEF ActiveInv
    <3>1. a \in Live(i) /\ a.name # last.name
      BY <2>8
    <3> QED BY <1>7, <1>9, <2>7, <3>1
  <2>10. r \notin free' /\ \A a \in active' : allocated'[a.name] # r
    <3>1. \A a \in Live(i) : a.name # last.name => allocated[a.name] # allocated[last.name]
      BY <1>6, <2>2 DEF ScanInv, PoolInv
    <3> QED BY <1>4, <1>6, <1>9, <2>2, <2>8, <3>1 DEF r
  <2>11. r \notin ClobberedIn(i)
    <3>1. i.start + 1 .. i.end - 1 \subseteq last.start + 1 .. last.end - 1
      BY <1>1, <2>2, <2>3
    <3>2. ClobberedIn(i) \subseteq ClobberedIn(last)
      BY <3>1 DEF ClobberedIn
    <3> QED BY <2>6, <3>2
  <2>12. ASSUME NEW n \in InRegisters'
         PROVE  /\ RegisterOf(n)' \in Registers /\ RegisterOf(n)' \notin ClobberedIn(Interval(n))
                /\ \A k \in DOMAIN queue' : Interval(n).start <= queue'[k].start
                /\ RegisterOf(n)' \in free' => \A k \in DOMAIN queue' : Interval(n).end <= queue'[k].start
                /\ \A a \in active' : allocated'[a.name] = RegisterOf(n)' /\ a.name # n
                                        => Interval(n).end <= a.start
    <3>1. CASE n = i.name
      BY <1>1, <1>2, <2>6, <2>7, <2>10, <2>11, <3>1
    <3>2. CASE n \in InRegisters \ {last.name}
      <4>1. RegisterOf(n)' = RegisterOf(n)
        BY <2>7, <3>2
      <4> QED BY <1>11, <2>8, <3>2, <4>1
    <3> QED BY <2>7, <3>1, <3>2
  <2>13. ASSUME NEW n \in InRegisters \ {last.name}, RegisterOf(n) = r  PROVE Apart(n, i.name)
    <3>1. Interval(n).end <= last.start
      BY <1>5, <1>9, <1>11, <2>2, <2>13
    <3>2. Interval(n).end <= i.start
      BY <1>1, <1>10, <2>2, <2>3, <2>13, <3>1
    <3> QED BY <1>1, <3>2 DEF Apart
  <2>14. ASSUME NEW n \in InRegisters', NEW o \in InRegisters', n # o, RegisterOf(n)' = RegisterOf(o)'
         PROVE  Apart(n, o)
    <3>1. CASE n \in InRegisters \ {last.name} /\ o \in InRegisters \ {last.name}
      BY <2>7, <2>14, <3>1 DEF ScanInv, PlacedInv
    <3>2. CASE n = i.name
      BY <1>12, <2>7, <2>13, <2>14, <3>2 DEF Apart
    <3>3. CASE o = i.name
      BY <1>12, <2>7, <2>13, <2>14, <3>3 DEF Apart
    <3> QED BY <2>7, <3>1, <3>2, <3>3
  <2>15. PlacedInv'
    <3>1. Placed' \subseteq LiveNames' /\ LiveNames' \subseteq Placed' \cup QueueNames'
      BY <1>1, <1>7, <2>5 DEF ScanInv, PlacedInv
    <3>2. \A n \in InRegisters' : DeadBefore(n)'
      BY <1>7, <2>12 DEF DeadBefore
    <3>3. \A n, o \in InRegisters' : n # o /\ RegisterOf(n)' = RegisterOf(o)' => Apart(n, o)'
      BY <1>7, <2>14 DEF Apart
    <3>4. \A n \in InRegisters' :
            /\ RegisterOf(n)' \in Registers /\ RegisterOf(n)' \notin ClobberedIn(Interval(n))'
            /\ \A k \in DOMAIN queue' : Interval(n)'.start <= queue'[k].start
      <4>1. \A n : ClobberedIn(Interval(n))' = ClobberedIn(Interval(n))
        BY <1>7
      <4> QED BY <1>7, <2>12, <4>1
    <3> QED BY <3>1, <3>2, <3>3, <3>4 DEF PlacedInv, Registers
  <2>16. Sorted(queue)'
    BY <1>7, <2>5 DEF Sorted
  <2> QED BY <1>8, <2>9, <2>15, <2>16 DEF ScanInv
<1> QED BY <1>13, <1>14

-----------------------------------------------------------------------------
\* The passes of the legalizer leave a program: a sequence is made of its entries.
LEMMA SequenceIntro ==
  ASSUME NEW s, NEW n \in Nat, s = [k \in 1 .. n |-> s[k]]
  PROVE  IsSequence(s) /\ Len(s) = n /\ DOMAIN s = 1 .. n
<1>1. s \in [1 .. n -> ToSet(s)]
  BY DEF ToSet
<1> QED BY <1>1 DEF IsSequence

\* A sequence of instructions is a program.
LEMMA CodeIntro ==
  ASSUME NEW S, NEW s \in Seq(S), \A k \in DOMAIN s : IsInstruction(s[k])
  PROVE  IsCode(s)
<1>1. Len(s) \in Nat /\ s = [k \in 1 .. Len(s) |-> s[k]]
  OBVIOUS
<1> QED BY <1>1, SequenceIntro DEF IsCode

\* Programs one after the other: list.extend.
LEMMA CodeConcat ==
  ASSUME NEW a, NEW b, IsCode(a), IsCode(b)
  PROVE  IsCode(a \o b) /\ Len(a \o b) = Len(a) + Len(b)
<1>1. a \in Seq(ToSet(a)) /\ b \in Seq(ToSet(b))
  BY DEF IsCode, IsSequence
<1> DEFINE S == ToSet(a) \cup ToSet(b)
<1>2. a \in Seq(S) /\ b \in Seq(S)
  BY <1>1
<1>3. a \o b \in Seq(S) /\ Len(a \o b) = Len(a) + Len(b)
  BY <1>2
<1>4. ASSUME NEW k \in DOMAIN (a \o b)  PROVE IsInstruction((a \o b)[k])
  <2>1. CASE k <= Len(a)
    <3>1. k \in DOMAIN a /\ (a \o b)[k] = a[k]
      BY <1>1, <1>2, <1>3, <2>1
    <3> QED BY <3>1 DEF IsCode
  <2>2. CASE k > Len(a)
    <3>1. k - Len(a) \in DOMAIN b /\ (a \o b)[k] = b[k - Len(a)]
      BY <1>1, <1>2, <1>3, <2>2
    <3> QED BY <3>1 DEF IsCode
  <2> QED BY <1>2, <1>3, <2>1, <2>2
<1> QED BY <1>3, <1>4, CodeIntro

\* A program of one instruction: list.append.
LEMMA CodeOne ==
  ASSUME NEW i, IsInstruction(i)
  PROVE  IsCode(<<i>>)
<1>1. <<i>> \in Seq({i}) /\ \A k \in DOMAIN <<i>> : <<i>>[k] = i
  OBVIOUS
<1> QED BY <1>1, CodeIntro

\* The list each pass begins with.
LEMMA CodeEmpty == IsCode(<< >>)
<1>1. << >> \in Seq({}) /\ DOMAIN << >> = {}
  OBVIOUS
<1> QED BY <1>1, CodeIntro

\* What is left when a pass takes the label back that it put last.
LEMMA CodeFront ==
  ASSUME NEW s, IsCode(s), s # << >>
  PROVE  IsCode(Front(s)) /\ IsInstruction(Last(s))
<1>1. s \in Seq(ToSet(s)) /\ Len(s) \in Nat /\ Len(s) > 0
  BY DEF IsCode, IsSequence
<1>2. /\ Front(s) \in Seq(ToSet(s)) /\ Len(s) \in DOMAIN s
      /\ \A k \in DOMAIN Front(s) : k \in DOMAIN s /\ Front(s)[k] = s[k]
  BY <1>1 DEF Front
<1>3. Last(s) = s[Len(s)]
  BY DEF Last
<1> QED BY <1>1, <1>2, <1>3, CodeIntro DEF IsCode

\* There are finitely many registers for an instruction to read.
LEMMA UsesCounted ==
  ASSUME NEW i, IsInstruction(i), NEW T \in SUBSET DOMAIN i.uses
  PROVE  Cardinality(T) \in Nat
<1>1. Len(i.uses) \in Nat /\ DOMAIN i.uses = 1 .. Len(i.uses)
  BY DEF IsInstruction, IsSequence
<1>2. IsFiniteSet(DOMAIN i.uses)
  BY <1>1, FS_Interval
<1> QED BY <1>2, FS_Subset, FS_CardinalityType

\* Each pass reads a program and builds one, and there is a label to take back.
CodeInv ==
    /\ IsCode(code)
    /\ stage \in {"immediates", "casts"} =>
          IsCode(out) /\ IsCode(pending) /\ pc \in 1 .. Len(code) + 1
    /\ stage = "immediates" /\ pc > 1 => out # << >>

\* resolve_li_immediates builds a program, wherever it puts the loads.
LEMMA ResolveKeeps == CodeInv /\ ResolveImmediates => CodeInv'
<1> SUFFICES ASSUME CodeInv, ResolveImmediates  PROVE CodeInv'
  OBVIOUS
<1> DEFINE instr   == code[pc]
           known   == resolved \cup {instr.id}
           missing == {u \in DOMAIN instr.uses : instr.uses[u].name \notin known \cup {NoName}}
           loads   == [k \in 1 .. Cardinality(missing) |-> LoadImmediate(instr.uses[Nth(missing, k)])]
<1>1. /\ IsCode(code) /\ IsCode(out) /\ pc \in DOMAIN code /\ pc \in Nat /\ Len(code) \in Nat
      /\ pc + 1 \in 1 .. Len(code) + 1 /\ stage = "immediates"
      /\ pc > 1 => out # << >>
      /\ IsCode(pending)
  <2>1. stage = "immediates" /\ pc # Len(code) + 1
    BY DEF ResolveImmediates, AtEnd
  <2>2. /\ IsCode(code) /\ IsCode(out) /\ IsCode(pending) /\ pc \in 1 .. Len(code) + 1
        /\ pc > 1 => out # << >>
    BY <2>1 DEF CodeInv
  <2>3. Len(code) \in Nat /\ DOMAIN code = 1 .. Len(code)
    BY <2>2, CodeType
  <2> QED BY <2>1, <2>2, <2>3
<1>2. IsInstruction(instr)
  BY <1>1 DEF IsCode
<1>3. IsCode(loads)
  <2>1. Cardinality(missing) \in Nat
    <3>1. missing \in SUBSET DOMAIN instr.uses
      OBVIOUS
    <3> HIDE DEF missing, instr
    <3> QED BY <1>2, <3>1, UsesCounted
  <2>2. \A u : IsInstruction(LoadImmediate(u))
    <3>1. IsSequence(<< >>)
      BY DEF IsSequence
    <3> QED BY <3>1 DEF IsInstruction, LoadImmediate
  <2> HIDE DEF missing, instr
  <2>3. loads = [k \in 1 .. Cardinality(missing) |-> loads[k]]
    OBVIOUS
  <2>4. \A k \in 1 .. Cardinality(missing) : IsInstruction(loads[k])
    BY <2>2
  <2> HIDE DEF loads
  <2> QED BY <2>1, <2>3, <2>4, SequenceIntro DEF IsCode
<1>4. /\ UNCHANGED <<code, pending>>
      /\ \/ stage' = "failed"
         \/ /\ pc' = pc + 1 /\ stage' = stage
            /\ \/ out' = out \o loads \o <<instr>>
               \/ pc > 1 /\ out' = Front(out) \o loads \o <<Last(out), instr>>
               \/ pc > 1 /\ out' = out
  BY DEF ResolveImmediates
<1> HIDE DEF loads, instr
<1>5. IsCode(out \o loads \o <<instr>>) /\ out \o loads \o <<instr>> # << >>
  <2>1. IsCode(out \o loads) /\ IsCode(<<instr>>)
    BY <1>1, <1>2, <1>3, CodeConcat, CodeOne
  <2>2. IsCode(out \o loads \o <<instr>>) /\ Len(out \o loads \o <<instr>>) = Len(out \o loads) + 1
    BY <2>1, CodeConcat
  <2>3. Len(out \o loads) \in Nat
    BY <2>1 DEF IsCode, IsSequence
  <2> QED BY <2>2, <2>3
<1>6. ASSUME out # << >>
      PROVE  LET moved == Front(out) \o loads \o <<Last(out), instr>>
             IN  IsCode(moved) /\ moved # << >>
  <2>1. IsCode(Front(out)) /\ IsInstruction(Last(out))
    BY <1>1, <1>6, CodeFront
  <2>2. IsCode(Front(out) \o loads)
    BY <1>3, <2>1, CodeConcat
  <2>3. IsCode(<<Last(out), instr>>)
    <3>1. <<Last(out), instr>> = <<Last(out)>> \o <<instr>>
      OBVIOUS
    <3>2. IsCode(<<Last(out)>>) /\ IsCode(<<instr>>)
      BY <1>2, <2>1, CodeOne
    <3>3. IsCode(<<Last(out)>> \o <<instr>>)
      BY <3>2, CodeConcat
    <3> QED BY <3>1, <3>3
  <2>4. /\ IsCode(Front(out) \o loads \o <<Last(out), instr>>)
        /\ Len(Front(out) \o loads \o <<Last(out), instr>>) = Len(Front(out) \o loads) + 2
    BY <2>2, <2>3, CodeConcat
  <2>5. Len(Front(out) \o loads) \in Nat
    BY <2>2 DEF IsCode, IsSequence
  <2> QED BY <2>4, <2>5
<1> QED BY <1>1, <1>4, <1>5, <1>6 DEF CodeInv

\* insert_casts builds a program.
LEMMA CastKeeps == CodeInv /\ InsertCasts => CodeInv'
<1> SUFFICES ASSUME CodeInv, InsertCasts  PROVE CodeInv'
  OBVIOUS
<1> DEFINE instr == code[pc]
           ks    == {k \in DOMAIN instr.uses : NeedsCast(instr.uses[k])}
<1>1. /\ IsCode(code) /\ IsCode(out) /\ pc \in DOMAIN code /\ pc \in Nat /\ Len(code) \in Nat
      /\ pc + 1 \in 1 .. Len(code) + 1 /\ stage = "casts"
      /\ IsCode(pending)
  <2>1. stage = "casts" /\ pc # Len(code) + 1
    BY DEF InsertCasts, AtEnd
  <2>2. /\ IsCode(code) /\ IsCode(out) /\ IsCode(pending) /\ pc \in 1 .. Len(code) + 1
    BY <2>1 DEF CodeInv
  <2>3. Len(code) \in Nat /\ DOMAIN code = 1 .. Len(code)
    BY <2>2, CodeType
  <2> QED BY <2>1, <2>2, <2>3
<1>2. IsInstruction(instr)
  BY <1>1 DEF IsCode
<1>3. IsCode(CastsOf(instr))
  <2>1. Cardinality(ks) \in Nat
    <3>1. ks \in SUBSET DOMAIN instr.uses
      OBVIOUS
    <3> HIDE DEF ks, instr
    <3> QED BY <1>2, <3>1, UsesCounted
  <2>2. \A k : IsInstruction(Cast(k))
    <3> SUFFICES ASSUME NEW k  PROVE IsInstruction(Cast(k))
      OBVIOUS
    <3>1. PICK u : /\ Cast(k).uses = <<u>> /\ DOMAIN u = {"name", "reg", "type"}
                   /\ DOMAIN Cast(k) = {"kind", "id", "dest", "reg", "type", "uses", "clobbers"}
      BY DEF Cast
    <3>2. <<u>> \in Seq(ToSet(<<u>>))
      BY DEF ToSet
    <3>3. \A j \in DOMAIN <<u>> : <<u>>[j] = u
      OBVIOUS
    <3> QED BY <3>1, <3>2, <3>3 DEF IsInstruction, IsSequence
  <2>3. CastsOf(instr) = [k \in 1 .. Cardinality(ks) |-> CastsOf(instr)[k]]
    BY DEF CastsOf
  <2>4. \A k \in 1 .. Cardinality(ks) : IsInstruction(CastsOf(instr)[k])
    BY <2>2 DEF CastsOf
  <2> HIDE DEF ks, instr
  <2> QED BY <2>1, <2>3, <2>4, SequenceIntro DEF IsCode
<1>4. IsInstruction(Rewired(instr))
  <2> DEFINE rewired == [k \in DOMAIN instr.uses |->
                IF NeedsCast(instr.uses[k]) THEN [instr.uses[k] EXCEPT !.name = CastId(k)] ELSE instr.uses[k]]
  <2>1. DOMAIN Rewired(instr) = DOMAIN instr /\ Rewired(instr).uses = rewired
    BY <1>2 DEF Rewired, IsInstruction
  <2>2. Len(instr.uses) \in Nat /\ DOMAIN instr.uses = 1 .. Len(instr.uses)
    BY <1>2 DEF IsInstruction, IsSequence
  <2>3. rewired = [k \in 1 .. Len(instr.uses) |-> rewired[k]]
    BY <2>2
  <2>4. \A u \in DOMAIN rewired : DOMAIN rewired[u] = {"name", "reg", "type"}
    BY <1>2 DEF IsInstruction
  <2> HIDE DEF rewired, instr
  <2>5. IsSequence(rewired)
    BY <2>2, <2>3, SequenceIntro
  <2> QED BY <1>2, <2>1, <2>4, <2>5 DEF IsInstruction
<1>5. /\ UNCHANGED code
      /\ \/ stage' = "failed"
         \/ /\ pc' = pc + 1 /\ stage' = stage
            /\ \/ out' = out /\ pending' = <<instr>>
               \/ out' = out \o CastsOf(instr) \o pending \o <<Rewired(instr)>> /\ pending' = << >>
  BY DEF InsertCasts
<1> HIDE DEF instr
<1>6. IsCode(out \o CastsOf(instr) \o pending \o <<Rewired(instr)>>)
  <2>1. IsCode(out \o CastsOf(instr)) /\ IsCode(<<Rewired(instr)>>)
    BY <1>1, <1>3, <1>4, CodeConcat, CodeOne
  <2>2. IsCode(out \o CastsOf(instr) \o pending)
    BY <1>1, <2>1, CodeConcat
  <2> QED BY <2>1, <2>2, CodeConcat
<1>7. IsCode(<<instr>>)
  BY <1>2, CodeOne
<1> QED BY <1>1, <1>5, <1>6, <1>7, CodeEmpty DEF CodeInv

-----------------------------------------------------------------------------
\* The stages a test goes through.
Stages == {"immediates", "casts", "scan", "run", "failed"}

\* Each stage is where it says it is in the code, with registers to run on.
StageInv ==
    /\ stage \in Stages
    /\ stage = "scan" => pc \in {1, 2}
    /\ stage = "run" => pc \in 1 .. Len(code) + 1 /\ queue = << >>
    /\ Registers \subseteq DOMAIN regs

\* Until the scan begins, nothing is granted.
Fresh ==
    stage \in {"immediates", "casts"} \/ (stage = "scan" /\ pc = 1) =>
        free = Registers /\ allocated = << >> /\ active = {}

\* _linear_scan has begun, or is done.
Placing == stage = "run" \/ (stage = "scan" /\ pc = 2)

\* In a run of legalized code, a value that is alive is in its register.
ValuesKept ==
    stage = "run" /\ LegalizedCode /\ HardCodedKept =>
        \A n \in InRegisters :
            Definitions(n) # {} /\ Interval(n).start < pc /\ pc <= Interval(n).end
                => regs[RegisterOf(n)] = n

\* The inductive invariant.
IInv ==
    /\ CodeInv /\ StageInv /\ Fresh
    /\ Placing => ScanInv
    /\ ValuesKept /\ (LegalizedCode => ValuesArrive)

\* The scan begins with every name in the list and nothing granted; registers
\* that the code names are recorded, yet not granted.
LEMMA AnalyzeStep ==
  ASSUME IsCode(code), free = Registers, allocated = << >>, active = {}, Analyze
  PROVE  ScanInv'
<1>1. /\ queue' = SortedIntervals /\ code' = code
      /\ DOMAIN register_map' = {code[k].id : k \in HardCoded}
      /\ free' = Registers /\ allocated' = << >> /\ active' = {}
  BY DEF Analyze
<1>2. LiveNames' = LiveNames /\ Intervals' = Intervals
  BY <1>1, SameCode
<1>3. Sorted(queue)'
  BY <1>1, <1>2, AllSorted DEF Sorted
<1>4. LiveNames \subseteq QueueNames'
  <2> SUFFICES ASSUME NEW n \in LiveNames  PROVE n \in QueueNames'
    OBVIOUS
  <2>1. Interval(n) \in Intervals /\ Interval(n).name = n
    BY IntervalType DEF Intervals
  <2>2. PICK k \in DOMAIN SortedIntervals : SortedIntervals[k] = Interval(n)
    BY <2>1, AllSorted
  <2> QED BY <1>1, <2>1, <2>2 DEF QueueNames
<1>5. {code[k].id : k \in HardCoded} \subseteq LiveNames
  BY DEF HardCoded, LiveNames, Defines
<1>6. Placed' = {} /\ InRegisters' = {}
  <2>1. Placed' = {}
    BY <1>1, <1>4, <1>5 DEF Placed, QueueNames
  <2> QED BY <2>1 DEF InRegisters
<1>7. PoolInv'
  BY <1>1 DEF PoolInv, Registers
<1>8. ActiveInv'
  BY <1>1 DEF ActiveInv
<1>9. PlacedInv'
  BY <1>2, <1>4, <1>6 DEF PlacedInv
<1> QED BY <1>3, <1>7, <1>8, <1>9 DEF ScanInv

\* Nothing of the scan changes when the code runs.
LEMMA SameScan ==
  ASSUME UNCHANGED <<code, queue, active, free, allocated, register_map>>
  PROVE  /\ ScanInv' <=> ScanInv
         /\ InRegisters' = InRegisters /\ (HardCodedKept' <=> HardCodedKept)
         /\ \A n : RegisterOf(n)' = RegisterOf(n) /\ Definitions(n)' = Definitions(n)
                   /\ Interval(n)' = Interval(n)
<1>1. /\ \A n : Interval(n)' = Interval(n)
      /\ LiveNames' = LiveNames /\ Intervals' = Intervals
      /\ \A i : ClobberedIn(i)' = ClobberedIn(i)
  BY SameCode
<1>2. InRegisters' = InRegisters /\ \A n : RegisterOf(n)' = RegisterOf(n)
  BY DEF InRegisters, Placed, Spilled, RegisterOf
<1>3. Placed' = Placed /\ QueueNames' = QueueNames
  BY DEF Placed, QueueNames
<1>4. HardCodedKept' <=> HardCodedKept
  BY DEF HardCodedKept, HardCoded
<1>5. \A n : Definitions(n)' = Definitions(n)
  BY DEF Definitions, Defines
<1>6. Sorted(queue)' <=> Sorted(queue)
  BY <1>1 DEF Sorted
<1>7. PoolInv' <=> PoolInv
  BY DEF PoolInv, Registers
<1>8. ActiveInv' <=> ActiveInv
  BY <1>1, <1>2 DEF ActiveInv
<1>9. \A n : (DeadBefore(n)' <=> DeadBefore(n)) /\ ClobberedIn(Interval(n))' = ClobberedIn(Interval(n))
  BY <1>1, <1>2 DEF DeadBefore
<1>10. \A n, o : Apart(n, o)' <=> Apart(n, o)
  BY <1>1 DEF Apart
<1>11. PlacedInv' <=> PlacedInv
  BY <1>1, <1>2, <1>3, <1>9, <1>10 DEF PlacedInv, Registers
<1> QED BY <1>1, <1>2, <1>4, <1>5, <1>6, <1>7, <1>8, <1>11 DEF ScanInv

\* One instruction runs.
LEMMA ExecuteStep ==
  ASSUME IInv, Execute, LegalizedCode, HardCodedKept
  PROVE  /\ \A n \in InRegisters :
              Definitions(n) # {} /\ Interval(n).start < pc + 1 /\ pc + 1 <= Interval(n).end
                  => regs'[RegisterOf(n)] = n
         /\ \A u \in DOMAIN reads' :
              LET n == code[pc].uses[u].name
              IN  n # NoName /\ Definitions(n) # {} /\ ~ Spilled(n) => reads'[u] = n
<1> DEFINE instr  == code[pc]
           stored == IF instr.dest = "virtual" /\ Spilled(instr.id)
                     THEN [stack EXCEPT ![register_map[instr.id].slot] = regs[TempOf(instr.type)]]
                     ELSE stack
           loadsInto(r) == {u \in DOMAIN instr.uses : SpilledUse(instr.uses[u]) /\ TempOf(instr.uses[u].type) = r}
           loaded == [r \in DOMAIN regs |->
                        IF loadsInto(r) = {} THEN regs[r]
                        ELSE stored[register_map[instr.uses[Max(loadsInto(r))].name].slot]]
           operand(u) == IF u.name = NoName THEN u.reg
                         ELSE IF SpilledUse(u) THEN TempOf(u.type) ELSE register_map[u.name].reg
<1>1. /\ IsCode(code) /\ ScanInv /\ queue = << >> /\ pc \in DOMAIN code /\ stage = "run"
      /\ pc \in Nat /\ Registers \subseteq DOMAIN regs
  <2>1. stage = "run" /\ pc # Len(code) + 1
    BY DEF Execute, AtEnd
  <2>2. IsCode(code) /\ ScanInv /\ queue = << >> /\ pc \in 1 .. Len(code) + 1 /\ Registers \subseteq DOMAIN regs
    BY <2>1 DEF IInv, CodeInv, StageInv, Placing
  <2>3. Len(code) \in Nat /\ DOMAIN code = 1 .. Len(code)
    BY <2>2, CodeType
  <2> QED BY <2>1, <2>2, <2>3
<1>2. /\ reads' = [u \in DOMAIN instr.uses |-> loaded[operand(instr.uses[u])]]
      /\ regs' = [r \in DOMAIN regs |->
                    IF Defines(instr) /\ r = TargetOf(instr) THEN instr.id
                    ELSE IF r \in instr.clobbers THEN Junk ELSE loaded[r]]
  BY DEF Execute
<1>3. ASSUME NEW r \in Registers
      PROVE  r \notin {"t0", "ft0", NoRegister} /\ loaded[r] = regs[r] /\ r \in DOMAIN regs
  <2>1. r \notin {"t0", "ft0", NoRegister}
    BY RegTypeAssumption DEF Registers
  <2>2. loadsInto(r) = {}
    BY <2>1 DEF TempOf
  <2> QED BY <1>1, <2>1, <2>2
<1> HIDE DEF loaded, stored, loadsInto
<1>4. \A n \in LiveNames : n \in Placed
  <2>1. DOMAIN queue = {} /\ QueueNames = {}
    BY <1>1 DEF QueueNames
  <2> QED BY <1>1, <2>1 DEF ScanInv, PlacedInv
<1>5. \A n \in InRegisters : /\ RegisterOf(n) \in Registers /\ RegisterOf(n) \notin ClobberedIn(Interval(n))
                             /\ n \in LiveNames
  BY <1>1 DEF ScanInv, PlacedInv, InRegisters
<1>6. \A n \in LiveNames : /\ Interval(n).start \in Nat /\ Interval(n).end \in Nat
                           /\ \A k \in Uses(n) : k <= Interval(n).end
                           /\ Definitions(n) # {} => /\ Interval(n).start \in Definitions(n)
                                                     /\ \A k \in Definitions(n) : Interval(n).start <= k
  BY <1>1, IntervalType, CodeType
<1>7. \A n \in InRegisters :
         Definitions(n) # {} /\ Interval(n).start < pc /\ pc <= Interval(n).end => regs[RegisterOf(n)] = n
  BY <1>1 DEF IInv, ValuesKept
<1>8. \A k \in HardCoded : register_map[code[k].id].reg = code[k].reg
  BY DEF HardCodedKept
<1>9. ASSUME NEW n \in InRegisters, Definitions(n) # {},
             Interval(n).start < pc + 1, pc + 1 <= Interval(n).end
      PROVE  regs'[RegisterOf(n)] = n
  <2> DEFINE r == RegisterOf(n)
  <2>1. r \in Registers /\ r \in DOMAIN regs /\ loaded[r] = regs[r] /\ n \in LiveNames
        /\ r \notin {"t0", "ft0", NoRegister}
    BY <1>3, <1>5
  <2>2. CASE Interval(n).start = pc
    <3>1. Defines(instr) /\ instr.id = n
      BY <1>6, <1>9, <2>1, <2>2 DEF Definitions
    <3>2. TargetOf(instr) = r
      <4>1. CASE instr.dest = "hard"
        <5>1. register_map[instr.id].reg = instr.reg
          BY <1>1, <1>8, <4>1 DEF HardCoded
        <5> QED BY <3>1, <4>1, <5>1 DEF TargetOf, RegisterOf
      <4>2. CASE instr.dest # "hard"
        <5>1. ~ Spilled(instr.id)
          BY <3>1 DEF InRegisters
        <5> QED BY <3>1, <4>2, <5>1 DEF TargetOf, RegisterOf
      <4> QED BY <4>1, <4>2
    <3> HIDE DEF r
    <3> QED BY <1>2, <2>1, <3>1, <3>2 DEF r
  <2>3. CASE Interval(n).start # pc
    <3>1. Interval(n).start < pc /\ pc < Interval(n).end
      BY <1>1, <1>6, <1>9, <2>1, <2>3
    <3>2. regs[r] = n
      BY <1>1, <1>6, <1>7, <1>9, <2>1, <3>1
    <3>3. ~ (r \in instr.clobbers)
      <4>1. pc \in Interval(n).start + 1 .. Interval(n).end - 1
        BY <1>1, <1>6, <2>1, <3>1
      <4>2. r \notin ClobberedIn(Interval(n))
        BY <1>5
      <4> QED BY <4>1, <4>2 DEF ClobberedIn
    <3>4. ASSUME Defines(instr), r = TargetOf(instr)  PROVE instr.id = n
      <4> DEFINE m == instr.id
      <4> SUFFICES ASSUME m # n  PROVE FALSE
        OBVIOUS
      <4>1. m \in LiveNames /\ m \in Placed /\ pc \in Definitions(m)
        BY <1>1, <1>4, <3>4 DEF LiveNames, Definitions
      <4>2. register_map[m].reg = r
        <5>1. CASE instr.dest = "hard"
          BY <1>1, <1>8, <3>4, <5>1 DEF HardCoded, TargetOf
        <5>2. CASE instr.dest # "hard" /\ Spilled(m)
          BY <2>1, <3>4, <5>2 DEF TargetOf, TempOf
        <5>3. CASE instr.dest # "hard" /\ ~ Spilled(m)
          BY <3>4, <5>3 DEF TargetOf
        <5> QED BY <5>1, <5>2, <5>3
      <4>3. m \in InRegisters /\ RegisterOf(m) = RegisterOf(n)
        BY <2>1, <4>1, <4>2 DEF InRegisters, Spilled, RegisterOf
      <4>4. Apart(n, m)
        BY <1>1, <4>3 DEF ScanInv, PlacedInv
      <4>5. Interval(m).start <= pc /\ pc <= Interval(m).end
        <5>1. pc <= Interval(m).end
          BY <1>1, <3>4 DEF LegalizedCode
        <5> QED BY <1>6, <4>1, <5>1
      <4>6. /\ Interval(n).start \in Nat /\ Interval(n).end \in Nat
            /\ Interval(m).start \in Nat /\ Interval(m).end \in Nat
        BY <1>6, <2>1, <4>1
      <4> QED BY <1>1, <3>1, <4>4, <4>5, <4>6 DEF Apart
    <3> HIDE DEF r, instr
    <3> QED BY <1>2, <2>1, <3>2, <3>3, <3>4 DEF r
  <2> QED BY <2>2, <2>3
<1>10. ASSUME NEW u \in DOMAIN reads',
              instr.uses[u].name # NoName, Definitions(instr.uses[u].name) # {},
              ~ Spilled(instr.uses[u].name)
       PROVE  reads'[u] = instr.uses[u].name
  <2> DEFINE n == instr.uses[u].name
  <2>1. u \in DOMAIN instr.uses /\ reads'[u] = loaded[operand(instr.uses[u])]
    BY <1>2
  <2>2. operand(instr.uses[u]) = RegisterOf(n)
    BY <1>10 DEF SpilledUse, RegisterOf
  <2>3. n \in LiveNames
    BY <1>1, <1>10, <2>1 DEF LiveNames, ToSet
  <2>4. n \in InRegisters
    BY <1>4, <1>10, <2>3 DEF InRegisters
  <2>5. pc <= Interval(n).end
    <3>1. pc \in Uses(n)
      BY <1>1, <2>1 DEF Uses
    <3> QED BY <1>6, <2>3, <3>1
  <2>6. Interval(n).start < pc
    <3>1. ~ Dropped(n)
      BY <1>10 DEF Dropped, Definitions
    <3>2. instr.uses[u] \in ToSet(instr.uses)
      BY <2>1 DEF ToSet
    <3>3. \E d \in Definitions(n) : d < pc
      BY <1>1, <1>10, <3>1, <3>2 DEF LegalizedCode
    <3>4. PICK d \in Definitions(n) : d < pc
      BY <3>3
    <3>5. Interval(n).start <= d /\ d \in Nat /\ Interval(n).start \in Nat
      <4>1. d \in DOMAIN code
        BY <3>4 DEF Definitions
      <4> QED BY <1>1, <1>6, <1>10, <2>3, <3>4, <4>1, CodeType
    <3> QED BY <1>1, <3>4, <3>5
  <2>7. regs[RegisterOf(n)] = n
    BY <1>7, <1>10, <2>4, <2>5, <2>6
  <2>8. loaded[RegisterOf(n)] = regs[RegisterOf(n)]
    BY <1>3, <1>5, <2>4
  <2> QED BY <2>1, <2>2, <2>7, <2>8
<1> QED BY <1>2, <1>9, <1>10
-----------------------------------------------------------------------------
\* Nor does what the legalizer left when the code runs.
LEMMA SameLegalized ==
  ASSUME UNCHANGED <<test, code, stage>>
  PROVE  LegalizedCode' <=> LegalizedCode
<1>1. \A n : /\ Definitions(n)' = Definitions(n) /\ Interval(n)' = Interval(n)
             /\ Dropped(n)' <=> Dropped(n)
  BY SameCode DEF Definitions, Defines, Dropped
<1> QED BY <1>1 DEF LegalizedCode, Defines, IsLabel

\* A test that has not been looked at.
LEMMA InitInv == Init => IInv
<1> SUFFICES ASSUME Init  PROVE IInv
  OBVIOUS
<1>1. /\ test \in Tests /\ code = test /\ out = << >> /\ pc = 1
      /\ pending = << >> /\ stage = "immediates"
      /\ active = {} /\ free = Registers /\ allocated = << >>
      /\ regs = [r \in Registers \cup {"t0", "ft0"} |-> Junk]
  BY DEF Init, LegalizerInit
<1>2. IsCode(code)
  BY <1>1, TestsAssumption
<1>3. Len(code) \in Nat
  BY <1>2, CodeType
<1>4. CodeInv
  BY <1>1, <1>2, <1>3, CodeEmpty DEF CodeInv
<1>5. StageInv /\ Fresh
  BY <1>1 DEF StageInv, Stages, Fresh
<1> QED BY <1>1, <1>4, <1>5 DEF IInv, Placing, ValuesKept, ValuesArrive

\* Every step of the legalizer, of the scan and of the code keeps it.
LEMMA StepInv == IInv /\ [Next]_vars => IInv'
<1> SUFFICES ASSUME IInv, [Next]_vars  PROVE IInv'
  OBVIOUS
<1>1. /\ CodeInv /\ StageInv /\ Fresh /\ (Placing => ScanInv)
      /\ ValuesKept /\ (LegalizedCode => ValuesArrive)
      /\ IsCode(code) /\ Len(code) \in Nat /\ DOMAIN code = 1 .. Len(code)
  BY CodeType DEF IInv, CodeInv
<1>2. CASE Legalize
  <2>1. UNCHANGED <<queue, active, free, allocated, register_map, slots, regs, stack, reads>>
    BY <1>2 DEF Legalize, scanVars, machineVars
  <2>2. /\ stage \in {"immediates", "casts"} /\ stage' \in {"immediates", "casts", "failed"}
        /\ CodeInv'
    <3>1. CASE ResolveImmediates
      BY <1>1, <3>1, ResolveKeeps DEF ResolveImmediates
    <3>2. CASE InsertCasts
      BY <1>1, <3>2, CastKeeps DEF InsertCasts
    <3>3. CASE StartCasts
      <4>1. /\ stage = "immediates" /\ stage' = "casts" /\ code' = out /\ out' = << >>
            /\ pc' = 1 /\ pending' = pending
        BY <3>3 DEF StartCasts, NextPass
      <4>2. IsCode(code') /\ IsCode(out') /\ IsCode(pending')
        BY <1>1, <4>1, CodeEmpty DEF CodeInv
      <4>3. Len(code') \in Nat
        BY <4>2 DEF IsCode, IsSequence
      <4> QED BY <4>1, <4>2, <4>3 DEF CodeInv
    <3> QED BY <1>2, <3>1, <3>2, <3>3 DEF Legalize
  <2>3. StageInv' /\ Fresh'
    BY <1>1, <2>1, <2>2 DEF StageInv, Stages, Fresh, Registers
  <2> QED BY <2>2, <2>3 DEF IInv, Placing, ValuesKept, ValuesArrive
<1>3. CASE StartScan
  <2>1. /\ stage = "casts" /\ stage' = "scan" /\ code' = out /\ out' = << >> /\ pc' = 1
        /\ UNCHANGED <<active, free, allocated, regs>>
    BY <1>3 DEF StartScan, NextPass, machineVars
  <2>2. CodeInv'
    BY <1>1, <2>1 DEF CodeInv
  <2>3. StageInv' /\ Fresh'
    BY <1>1, <2>1 DEF StageInv, Stages, Fresh, Registers
  <2> QED BY <2>1, <2>2, <2>3 DEF IInv, Placing, ValuesKept, ValuesArrive
<1>4. CASE Analyze
  <2>1. /\ stage = "scan" /\ pc = 1 /\ stage' = "scan" /\ pc' = 2
        /\ code' = code /\ regs' = regs
    BY <1>4 DEF Analyze, machineVars
  <2>2. ScanInv'
    BY <1>1, <1>4, <2>1, AnalyzeStep DEF Fresh
  <2>3. CodeInv' /\ StageInv' /\ Fresh'
    BY <1>1, <2>1 DEF CodeInv, StageInv, Stages, Fresh, Registers
  <2> QED BY <2>1, <2>2, <2>3 DEF IInv, ValuesKept, ValuesArrive
<1>5. CASE PlaceInterval
  <2>1. /\ stage = "scan" /\ pc = 2 /\ queue # << >> /\ queue' = Tail(queue)
        /\ stage' = stage /\ pc' = pc /\ code' = code /\ regs' = regs
    BY <1>5 DEF PlaceInterval, Scanning, legalizerVars, machineVars
  <2>2. ScanInv
    BY <1>1, <2>1 DEF Placing
  <2>3. ScanInv'
    <3>1. Grant(Head(queue)) \/ Spill(Head(queue))
      BY <1>5 DEF PlaceInterval
    <3> QED BY <1>1, <2>1, <2>2, <3>1, GrantStep, SpillStep
  <2>4. CodeInv' /\ StageInv' /\ Fresh'
    BY <1>1, <2>1 DEF CodeInv, StageInv, Stages, Fresh, Registers
  <2> QED BY <2>1, <2>3, <2>4 DEF IInv, ValuesKept, ValuesArrive
<1>6. CASE FailToPlace
  <2>1. stage' = "failed" /\ code' = code /\ regs' = regs
    BY <1>6 DEF FailToPlace, scanVars, machineVars
  <2>2. CodeInv' /\ StageInv' /\ Fresh'
    BY <1>1, <2>1 DEF CodeInv, StageInv, Stages, Fresh, Registers
  <2> QED BY <2>1, <2>2 DEF IInv, Placing, ValuesKept, ValuesArrive
<1>7. CASE FinishScan
  <2>1. /\ stage = "scan" /\ pc = 2 /\ queue = << >> /\ stage' = "run" /\ pc' = 1
        /\ UNCHANGED <<code, queue, active, free, allocated, register_map, regs>>
    BY <1>7 DEF FinishScan, scanVars, machineVars
  <2>2. ScanInv /\ ScanInv'
    BY <1>1, <2>1, SameScan DEF Placing
  <2>3. CodeInv' /\ StageInv' /\ Fresh'
    BY <1>1, <2>1 DEF CodeInv, StageInv, Stages, Fresh, Registers
  <2>4. ASSUME NEW n \in InRegisters'  PROVE ~ (Interval(n)'.start < pc')
    <3>1. n \in InRegisters /\ Interval(n)' = Interval(n)
      BY <2>1, SameScan
    <3>2. n \in LiveNames
      BY <2>2, <3>1 DEF InRegisters, ScanInv, PlacedInv
    <3>3. Interval(n).start \in 1 .. Len(code)
      BY <1>1, <3>2, IntervalType
    <3> QED BY <1>1, <2>1, <3>1, <3>3
  <2>5. ValuesKept' /\ ValuesArrive'
    BY <2>1, <2>4 DEF ValuesKept, ValuesArrive
  <2> QED BY <2>2, <2>3, <2>5 DEF IInv
<1>8. CASE Execute
  <2>1. /\ stage = "run" /\ pc # Len(code) + 1 /\ pc' = pc + 1
        /\ UNCHANGED <<test, code, stage, queue, active, free, allocated, register_map>>
        /\ DOMAIN regs' = DOMAIN regs
    BY <1>8 DEF Execute, AtEnd, scanVars
  <2>2. pc \in 1 .. Len(code) /\ queue = << >>
    BY <1>1, <2>1 DEF StageInv
  <2>3. ScanInv'
    BY <1>1, <2>1, SameScan DEF Placing
  <2>4. CodeInv' /\ StageInv' /\ Fresh'
    BY <1>1, <2>1, <2>2 DEF CodeInv, StageInv, Stages, Fresh, Registers
  <2>5. (LegalizedCode' <=> LegalizedCode) /\ (HardCodedKept' <=> HardCodedKept)
    BY <2>1, SameLegalized, SameScan
  <2>6. ASSUME LegalizedCode, HardCodedKept
        PROVE  /\ \A n \in InRegisters :
                    Definitions(n) # {} /\ Interval(n).start < pc + 1 /\ pc + 1 <= Interval(n).end
                        => regs'[RegisterOf(n)] = n
               /\ \A u \in DOMAIN reads' :
                    LET n == code[pc].uses[u].name
                    IN  n # NoName /\ Definitions(n) # {} /\ ~ Spilled(n) => reads'[u] = n
    BY <1>8, <2>6, ExecuteStep
  <2>7. ValuesKept'
    BY <2>1, <2>5, <2>6, SameScan DEF ValuesKept
  <2>8. LegalizedCode' => ValuesArrive'
    <3>1. code'[pc' - 1] = code[pc]
      BY <2>1, <2>2
    <3>2. \A n : Definitions(n)' = Definitions(n) /\ (Spilled(n)' <=> Spilled(n))
      BY <2>1, SameScan DEF Spilled
    <3>3. ASSUME LegalizedCode, HardCodedKept, NEW u \in DOMAIN reads', NEW n,
                 n = code'[pc' - 1].uses[u].name, n # NoName, Definitions(n)' # {}, ~ Spilled(n)'
          PROVE  reads'[u] = n
      BY <2>6, <3>1, <3>2, <3>3
    <3> QED BY <2>5, <3>3 DEF ValuesArrive
  <2> QED BY <2>3, <2>4, <2>7, <2>8 DEF IInv
<1>9. CASE UNCHANGED vars
  <2>1. UNCHANGED <<test, code, out, pc, resolved, pending, stage, queue, active, free, allocated,
                    register_map, slots, regs, stack, reads>>
    BY <1>9 DEF vars, legalizerVars, scanVars, machineVars
  <2>2. /\ ScanInv' <=> ScanInv
        /\ InRegisters' = InRegisters /\ (HardCodedKept' <=> HardCodedKept)
        /\ \A n : RegisterOf(n)' = RegisterOf(n) /\ Definitions(n)' = Definitions(n)
                  /\ Interval(n)' = Interval(n)
        /\ LegalizedCode' <=> LegalizedCode
    BY <2>1, SameScan, SameLegalized
  <2>3. CodeInv' /\ StageInv' /\ Fresh'
    BY <1>1, <2>1 DEF CodeInv, StageInv, Stages, Fresh, Registers
  <2>4. ValuesKept'
    BY <1>1, <2>1, <2>2 DEF ValuesKept
  <2>5. ValuesArrive' <=> ValuesArrive
    BY <2>1, <2>2 DEF ValuesArrive, Spilled
  <2> QED BY <1>1, <2>1, <2>2, <2>3, <2>4, <2>5 DEF IInv, Placing
<1> QED BY <1>2, <1>3, <1>4, <1>5, <1>6, <1>7, <1>8, <1>9 DEF Next, Stop

\* The invariant holds in every state.
THEOREM ScanInvariant == Spec => []IInv
BY InitInv, StepInv, PTL DEF Spec

\* _linear_scan: two values that are alive at the same time are never in one
\* register, whichever registers are drawn and whoever is spilled.
THEOREM NoTwoValuesShareARegister == Spec => []NoInterference
<1>1. IInv => NoInterference
  <2> SUFFICES ASSUME IInv, stage \in {"scan", "run"}, pc # 1,
                      NEW n \in Placed, NEW o \in Placed,
                      n # o, register_map[n].reg = register_map[o].reg, ~ Spilled(n)
               PROVE  Apart(n, o)
    BY DEF NoInterference, Apart
  <2>1. CASE Placing
    <3>1. n \in InRegisters /\ o \in InRegisters /\ RegisterOf(n) = RegisterOf(o)
      BY DEF InRegisters, Spilled, RegisterOf
    <3> QED BY <2>1, <3>1 DEF IInv, ScanInv, PlacedInv
  <2>2. CASE ~ Placing
    BY <2>2 DEF IInv, StageInv, Placing
  <2> QED BY <2>1, <2>2
<1> QED BY <1>1, ScanInvariant, PTL

-----------------------------------------------------------------------------
\* The numbers of a set, in their order.
LEMMA NthFact ==
  ASSUME NEW N \in Nat, NEW S \in SUBSET (1 .. N)
  PROVE  /\ Cardinality(S) \in Nat
         /\ \A k \in 1 .. Cardinality(S) : Nth(S, k) \in S
         /\ \A i \in S : \E k \in 1 .. Cardinality(S) : Nth(S, k) = i
         /\ \A j, k \in 1 .. Cardinality(S) : Nth(S, j) = Nth(S, k) => j = k
<1> DEFINE M == Cardinality(S)
           preds(i) == {j \in S : j < i}
           rank == [i \in S |-> Cardinality(preds(i))]
<1>1. IsFiniteSet(S) /\ M \in Nat
  <2>1. IsFiniteSet(1 .. N)
    BY FS_Interval
  <2> QED BY <2>1, FS_Subset, FS_CardinalityType
<1>2. \A i \in S : i \in Nat
  OBVIOUS
<1>3. ASSUME NEW i \in S  PROVE rank[i] \in 0 .. M - 1
  <2>1. preds(i) \subseteq S /\ preds(i) # S
    BY <1>2
  <2> HIDE DEF preds
  <2>2. Cardinality(preds(i)) <= M /\ Cardinality(preds(i)) # M /\ Cardinality(preds(i)) \in Nat
    BY <1>1, <2>1, FS_Subset, FS_CardinalityType
  <2> QED BY <1>1, <2>2
<1>4. ASSUME NEW i \in S, NEW j \in S, i < j  PROVE rank[i] < rank[j]
  <2>1. preds(i) \subseteq preds(j) /\ preds(i) # preds(j) /\ preds(j) \subseteq S
    <3>1. i \in preds(j) /\ i \notin preds(i) /\ preds(j) \subseteq S
      BY <1>2, <1>4
    <3>2. \A k \in S : k < i => k < j
      BY <1>2, <1>4
    <3> QED BY <3>1, <3>2
  <2> HIDE DEF preds
  <2>2. IsFiniteSet(preds(j))
    BY <1>1, <2>1, FS_Subset
  <2>3. /\ Cardinality(preds(i)) <= Cardinality(preds(j))
        /\ Cardinality(preds(i)) # Cardinality(preds(j))
        /\ Cardinality(preds(i)) \in Nat /\ Cardinality(preds(j)) \in Nat
    BY <2>1, <2>2, FS_Subset, FS_CardinalityType
  <2> QED BY <2>3
<1>5. \A i, j \in S : rank[i] = rank[j] => i = j
  <2> HIDE DEF rank
  <2> SUFFICES ASSUME NEW i \in S, NEW j \in S, rank[i] = rank[j], i # j  PROVE FALSE
    OBVIOUS
  <2>1. rank[i] \in Int /\ rank[j] \in Int
    BY <1>1, <1>3
  <2>2. rank[i] < rank[j] \/ rank[j] < rank[i]
    BY <1>2, <1>4
  <2> QED BY <2>1, <2>2
<1> HIDE DEF preds
<1>6. rank \in Injection(S, 0 .. M - 1)
  <2>1. rank \in [S -> 0 .. M - 1]
    BY <1>3
  <2> HIDE DEF rank
  <2> QED BY <1>5, <2>1 DEF Injection, IsInjective
<1>7. \A k \in 0 .. M - 1 : \E i \in S : rank[i] = k
  <2>1. IsFiniteSet(0 .. M - 1) /\ Cardinality(0 .. M - 1) = M
    BY <1>1, FS_Interval
  <2> HIDE DEF rank
  <2>2. rank \in Surjection(S, 0 .. M - 1)
    BY <1>1, <1>6, <2>1, FS_Injection
  <2> QED BY <2>2 DEF Surjection
<1>8. ASSUME NEW k \in 1 .. M  PROVE Nth(S, k) \in S /\ rank[Nth(S, k)] = k - 1
  <2>1. k - 1 \in 0 .. M - 1
    BY <1>1
  <2>2. \E i \in S : Cardinality(preds(i)) = k - 1
    BY <1>7, <2>1
  <2>3. Nth(S, k) = CHOOSE i \in S : Cardinality(preds(i)) = k - 1
    BY DEF Nth, preds
  <2> QED BY <2>2, <2>3
<1> HIDE DEF rank
<1>9. ASSUME NEW i \in S  PROVE \E k \in 1 .. M : Nth(S, k) = i
  <2>1. rank[i] + 1 \in 1 .. M /\ rank[i] \in Int
    BY <1>1, <1>3
  <2>2. rank[Nth(S, rank[i] + 1)] = rank[i] /\ Nth(S, rank[i] + 1) \in S
    BY <1>8, <2>1
  <2> QED BY <1>5, <2>1, <2>2
<1>10. ASSUME NEW j \in 1 .. M, NEW k \in 1 .. M, Nth(S, j) = Nth(S, k)  PROVE j = k
  <2>1. j - 1 = k - 1
    BY <1>8, <1>10
  <2> QED BY <1>1, <2>1
<1> QED BY <1>1, <1>8, <1>9, <1>10

\* An elaborated test.
LEMMA TestFact ==
  ASSUME test \in Tests
  PROVE  /\ IsCode(test) /\ Elaborated(test) /\ Len(test) \in Nat /\ DOMAIN test = 1 .. Len(test)
         /\ \A k \in DOMAIN test : IsLabel(test[k]) => \A n : ~ Reads(test[k], n)
BY TestsAssumption, ElaborationAssumption DEF IsCode, IsSequence, Elaborated, Reads

\* A load reads nothing.
LEMMA LoadFact ==
  ASSUME NEW i, IsLoad(i)
  PROVE  /\ \A n : ~ Reads(i, n)
         /\ DOMAIN i.uses = {} /\ i.dest = "virtual" /\ i.type = "gpr" /\ i.kind = "op"
BY DEF IsLoad, LoadImmediate, Reads

\* The first pass, when it has put an instruction behind the loads it needs: all
\* that was there is still there in its order (at f), and what stands before an
\* instruction that is no label stays right before it.
LEMMA ResolvedGrows ==
  ASSUME test \in Tests, NEW s, NEW t, NEW p \in Nat, NEW f,
         Len(s) \in Nat, DOMAIN s = 1 .. Len(s), Len(t) \in Nat, DOMAIN t = 1 .. Len(t), Len(t) > 0,
         p + 1 \in DOMAIN test, Resolved(s, p), t[Len(t)] = test[p + 1],
         \A k \in 1 .. p : test[k].id # test[p + 1].id,
         \A k \in DOMAIN s : f[k] \in 1 .. Len(t) - 1 /\ t[f[k]] = s[k],
         \A j, k \in DOMAIN s : j < k => f[j] < f[k],
         \A k \in 1 .. Len(s) - 1 : ~ IsLabel(s[k + 1]) => f[k + 1] = f[k] + 1,
         \A k \in 1 .. Len(t) - 1 :
            \/ \E i \in DOMAIN s : k = f[i]
            \/ /\ IsLoad(t[k]) /\ Reads(test[p + 1], t[k].id)
               /\ \A j \in 1 .. p + 1 : test[j].id # t[k].id,
         \A u \in DOMAIN test[p + 1].uses :
            LET n == test[p + 1].uses[u].name
            IN  \/ n = NoName \/ \E j \in 1 .. p + 1 : test[j].id = n
                \/ \E k \in 1 .. Len(t) - 1 : t[k].id = n,
         p > 0 /\ test[p].kind = "fault_label" /\ ~ IsLabel(test[p + 1]) => f[Len(s)] = Len(t) - 1
  PROVE  Resolved(t, p + 1)
<1> DEFINE instr == test[p + 1]
<1>1. /\ Len(test) \in Nat /\ DOMAIN test = 1 .. Len(test)
      /\ Elaborated(test)
      /\ \A k \in DOMAIN test : IsLabel(test[k]) => \A n : ~ Reads(test[k], n)
  BY TestFact
<1>2. ASSUME NEW n, Reads(instr, n), \A j \in 1 .. p + 1 : test[j].id # n
      PROVE  n \notin TestIds \cup CastIds
  <2>1. n \notin CastIds
    BY <1>1, <1>2 DEF Elaborated, Reads
  <2>2. ASSUME NEW k \in DOMAIN test, test[k].id = n  PROVE FALSE
    <3>1. \E l \in 1 .. (p + 1) - 1 : test[l].id = test[k].id
      BY <1>1, <1>2, <2>2 DEF Elaborated
    <3> QED BY <1>2, <2>2, <3>1
  <2> QED BY <2>1, <2>2 DEF TestIds
<1>3. ASSUME NEW n, Reads(instr, n), \E j \in 1 .. p + 1 : test[j].id = n
      PROVE  \E j \in 1 .. p : test[j].id = n
  <2>1. PICK j \in 1 .. p + 1 : test[j].id = n
    BY <1>3
  <2>2. j \in DOMAIN test
    BY <1>1
  <2>3. \E l \in 1 .. (p + 1) - 1 : test[l].id = n
    BY <1>1, <1>3, <2>1, <2>2 DEF Elaborated
  <2> QED BY <2>3
<1>4. \A k \in DOMAIN t : \/ \E i \in DOMAIN s : k = f[i]
                          \/ k = Len(t)
                          \/ /\ IsLoad(t[k]) /\ Reads(instr, t[k].id) /\ k < Len(t)
                             /\ t[k].id \notin TestIds \cup CastIds
  BY <1>2
<1>5. \A j, k \in 1 .. p + 1 : test[j].id = test[k].id => j = k
  BY DEF Resolved
<1>6. ASSUME NEW k \in DOMAIN t
      PROVE  \/ \E j \in 1 .. p + 1 : t[k] = test[j]
             \/ /\ IsLoad(t[k]) /\ t[k].id \notin TestIds \cup CastIds
                /\ \E l \in DOMAIN t : l > k /\ Reads(t[l], t[k].id)
  <2>1. CASE \E i \in DOMAIN s : k = f[i]
    <3>1. PICK i \in DOMAIN s : k = f[i]
      BY <2>1
    <3>2. \/ \E j \in 1 .. p : s[i] = test[j]
          \/ /\ IsLoad(s[i]) /\ s[i].id \notin TestIds \cup CastIds
             /\ \E l \in DOMAIN s : l > i /\ Reads(s[l], s[i].id)
      BY DEF Resolved
    <3>3. CASE \E j \in 1 .. p : s[i] = test[j]
      BY <3>1, <3>3
    <3>4. CASE IsLoad(s[i]) /\ s[i].id \notin TestIds \cup CastIds /\ \E l \in DOMAIN s : l > i /\ Reads(s[l], s[i].id)
      <4>1. PICK l \in DOMAIN s : l > i /\ Reads(s[l], s[i].id)
        BY <3>4
      <4>2. f[l] \in DOMAIN t /\ f[l] > f[i] /\ t[f[l]] = s[l] /\ t[k] = s[i]
        BY <3>1, <4>1
      <4> QED BY <3>1, <3>4, <4>1, <4>2
    <3> QED BY <3>2, <3>3, <3>4
  <2>2. CASE k = Len(t)
    BY <2>2
  <2>3. CASE IsLoad(t[k]) /\ Reads(instr, t[k].id) /\ k < Len(t) /\ t[k].id \notin TestIds \cup CastIds
    BY <2>3
  <2> QED BY <1>4, <2>1, <2>2, <2>3
<1>7. \A i \in DOMAIN s : s[i].id = instr.id => FALSE
  <2> SUFFICES ASSUME NEW i \in DOMAIN s, s[i].id = instr.id  PROVE FALSE
    OBVIOUS
  <2>1. instr.id \in TestIds
    BY DEF TestIds
  <2>2. \E j \in 1 .. p : s[i] = test[j]
    BY <2>1 DEF Resolved
  <2> QED BY <2>2
<1>8. ASSUME NEW k \in DOMAIN t, NEW l \in DOMAIN t, t[k].id = t[l].id, t[k].id \in TestIds
      PROVE  k = l
  <2>1. \/ \E i \in DOMAIN s : k = f[i]
        \/ k = Len(t)
    BY <1>4, <1>8
  <2>2. \/ \E i \in DOMAIN s : l = f[i]
        \/ l = Len(t)
    BY <1>4, <1>8
  <2>3. \A i, j \in DOMAIN s : s[i].id = s[j].id /\ s[i].id \in TestIds => i = j
    BY DEF Resolved
  <2> QED BY <1>7, <1>8, <2>1, <2>2, <2>3
<1>9. ASSUME NEW k \in DOMAIN t, NEW u \in DOMAIN t[k].uses, t[k].uses[u].name # NoName
      PROVE  LET n == t[k].uses[u].name
             IN  \/ \E d \in 1 .. k - 1 : t[d].id = n
                 \/ /\ \E j \in 1 .. p + 1 : test[j].id = n
                    /\ \A d \in DOMAIN t : t[d].id # n
  <2> DEFINE n == t[k].uses[u].name
  <2>1. ASSUME NEW j \in 1 .. p, test[j].id = n, \A i \in DOMAIN s : s[i].id # n
        PROVE  \A d \in DOMAIN t : t[d].id # n
    <3>1. j \in DOMAIN test /\ n \in TestIds /\ n # instr.id
      BY <1>1, <2>1 DEF TestIds
    <3> HIDE DEF n
    <3> QED BY <1>4, <2>1, <3>1
  <2>2. CASE \E i \in DOMAIN s : k = f[i]
    <3>1. PICK i \in DOMAIN s : k = f[i]
      BY <2>2
    <3>2. t[k] = s[i]
      BY <3>1
    <3>3. \/ \E d \in 1 .. i - 1 : s[d].id = n
          \/ /\ \E j \in 1 .. p : test[j].id = n
             /\ \A d \in DOMAIN s : s[d].id # n
      <4>1. u \in DOMAIN s[i].uses /\ n = s[i].uses[u].name
        BY <3>2
      <4>2. \A v \in DOMAIN s[i].uses :
               LET m == s[i].uses[v].name
               IN  m # NoName => \/ \E d \in 1 .. i - 1 : s[d].id = m
                                 \/ /\ \E j \in 1 .. p : test[j].id = m
                                    /\ \A d \in DOMAIN s : s[d].id # m
        BY DEF Resolved
      <4>3. n # NoName
        BY <1>9
      <4> HIDE DEF n
      <4> QED BY <4>1, <4>2, <4>3
    <3>4. CASE \E d \in 1 .. i - 1 : s[d].id = n
      <4>1. PICK d \in 1 .. i - 1 : s[d].id = n
        BY <3>4
      <4>2. d \in DOMAIN s /\ d < i
        OBVIOUS
      <4>3. f[d] < f[i] /\ t[f[d]] = s[d] /\ f[d] \in 1 .. Len(t) - 1
        BY <4>2
      <4>4. f[d] \in 1 .. k - 1
        BY <3>1, <4>3
      <4> QED BY <4>1, <4>3, <4>4
    <3>5. CASE (\E j \in 1 .. p : test[j].id = n) /\ \A d \in DOMAIN s : s[d].id # n
      BY <2>1, <3>5
    <3> QED BY <3>3, <3>4, <3>5
  <2>3. CASE k = Len(t)
    <3>1. n = instr.uses[u].name /\ u \in DOMAIN instr.uses /\ Reads(instr, n)
      BY <2>3 DEF Reads
    <3>2. CASE \E d \in 1 .. Len(t) - 1 : t[d].id = n
      BY <2>3, <3>2
    <3>3. CASE \E j \in 1 .. p + 1 : test[j].id = n
      <4>1. PICK j \in 1 .. p : test[j].id = n
        BY <1>3, <3>1, <3>3
      <4>2. CASE \E i \in DOMAIN s : s[i].id = n
        <5>1. PICK i \in DOMAIN s : s[i].id = n
          BY <4>2
        <5>2. f[i] \in 1 .. Len(t) - 1 /\ t[f[i]].id = n
          BY <5>1
        <5> QED BY <2>3, <5>2
      <4>3. CASE \A i \in DOMAIN s : s[i].id # n
        BY <2>1, <4>1, <4>3
      <4> QED BY <4>2, <4>3
    <3> QED BY <1>9, <3>1, <3>2, <3>3
  <2>4. CASE IsLoad(t[k])
    BY <2>4, LoadFact
  <2> QED BY <1>4, <2>2, <2>3, <2>4
<1>10. ASSUME NEW j \in 1 .. (p + 1) - 1, test[j].kind = "fault_label", ~ IsLabel(test[j + 1])
       PROVE  \E k \in 1 .. Len(t) - 1 : t[k] = test[j] /\ t[k + 1] = test[j + 1]
  <2>1. CASE j < p
    <3>1. j \in 1 .. p - 1
      BY <2>1
    <3>2. PICK k \in 1 .. Len(s) - 1 : s[k] = test[j] /\ s[k + 1] = test[j + 1]
      BY <1>10, <3>1 DEF Resolved
    <3>3. k \in DOMAIN s /\ k + 1 \in DOMAIN s /\ f[k + 1] = f[k] + 1
      <4>1. k \in DOMAIN s /\ k + 1 \in DOMAIN s
        OBVIOUS
      <4>2. ~ IsLabel(s[k + 1])
        BY <1>10, <3>2
      <4> QED BY <4>1, <4>2
    <3>4. f[k] \in 1 .. Len(t) - 1 /\ t[f[k]] = test[j] /\ t[f[k] + 1] = test[j + 1]
      BY <3>2, <3>3
    <3> QED BY <3>4
  <2>2. CASE j = p
    <3>1. IsLabel(test[p]) /\ p > 0
      BY <1>10, <2>2 DEF IsLabel
    <3>2. s # << >> /\ Last(s) = test[p]
      BY <3>1 DEF Resolved
    <3>3. Len(s) \in DOMAIN s /\ s[Len(s)] = test[p]
      <4>1. Len(s) > 0
        BY <3>1, <3>2 DEF Resolved
      <4> QED BY <3>2, <4>1 DEF Last
    <3>4. f[Len(s)] = Len(t) - 1 /\ t[f[Len(s)]] = test[p] /\ f[Len(s)] \in 1 .. Len(t) - 1
      BY <1>10, <2>2, <3>1, <3>3
    <3> QED BY <2>2, <3>4
  <2> QED BY <2>1, <2>2
<1>11. t # << >> /\ Last(t) = test[p + 1]
  BY DEF Last
<1> QED BY <1>5, <1>6, <1>8, <1>9, <1>10, <1>11 DEF Resolved

\* The first pass, when it drops an instruction behind a label.
LEMMA ResolvedDrops ==
  ASSUME test \in Tests, NEW s, NEW p \in Nat,
         p + 1 \in DOMAIN test, Resolved(s, p),
         \A k \in 1 .. p : test[k].id # test[p + 1].id,
         ~ IsLabel(test[p + 1]), p > 0, test[p].kind # "fault_label"
  PROVE  Resolved(s, p + 1)
<1>1. \A j, k \in 1 .. p + 1 : test[j].id = test[k].id => j = k
  BY DEF Resolved
<1>2. \A j \in 1 .. p : j \in 1 .. p + 1
  OBVIOUS
<1>3. \A j \in 1 .. (p + 1) - 1 : test[j].kind = "fault_label" => j \in 1 .. p - 1
  OBVIOUS
<1> QED BY <1>1, <1>2, <1>3 DEF Resolved

\* Where the instructions of two lists are in both together.
LEMMA Joined ==
  ASSUME NEW a, NEW b, IsSequence(a), IsSequence(b)
  PROVE  /\ IsSequence(a \o b) /\ Len(a \o b) = Len(a) + Len(b)
         /\ Len(a) \in Nat /\ Len(b) \in Nat
         /\ DOMAIN a = 1 .. Len(a) /\ DOMAIN b = 1 .. Len(b)
         /\ DOMAIN (a \o b) = 1 .. Len(a) + Len(b)
         /\ \A k \in 1 .. Len(a) : (a \o b)[k] = a[k]
         /\ \A k \in 1 .. Len(b) : (a \o b)[Len(a) + k] = b[k]
<1> DEFINE S == ToSet(a) \cup ToSet(b)
<1>1. a \in Seq(S) /\ b \in Seq(S)
  <2>1. a \in Seq(ToSet(a)) /\ b \in Seq(ToSet(b))
    BY DEF IsSequence
  <2> QED BY <2>1
<1> HIDE DEF S
<1>2. a \o b \in Seq(S) /\ Len(a \o b) = Len(a) + Len(b)
  BY <1>1
<1>3. IsSequence(a \o b)
  <2> DEFINE c == a \o b
  <2>1. \A k \in 1 .. Len(c) : c[k] \in ToSet(c)
    BY <1>2 DEF ToSet
  <2>2. c \in Seq(S)
    BY <1>2
  <2> HIDE DEF c
  <2>3. c \in Seq(ToSet(c))
    BY <2>1, <2>2
  <2> QED BY <2>3 DEF IsSequence, c
<1> QED BY <1>1, <1>2, <1>3

\* Lists of one and of two.
LEMMA ShortLists ==
  ASSUME NEW x, NEW y
  PROVE  /\ IsSequence(<<x>>) /\ Len(<<x>>) = 1 /\ <<x>>[1] = x
         /\ IsSequence(<<x, y>>) /\ Len(<<x, y>>) = 2 /\ <<x, y>>[1] = x /\ <<x, y>>[2] = y
<1>1. ToSet(<<x>>) = {x} /\ ToSet(<<x, y>>) = {x, y}
  BY DEF ToSet
<1>2. <<x>> \in Seq({x}) /\ <<x, y>> \in Seq({x, y})
  OBVIOUS
<1> QED BY <1>1, <1>2 DEF IsSequence

\* Operands that nobody defines, and their loads.
Missing(instr, known) == {u \in DOMAIN instr.uses : instr.uses[u].name \notin known \cup {NoName}}
Loads(instr, known) ==
    LET missing == Missing(instr, known)
    IN  [k \in 1 .. Cardinality(missing) |-> LoadImmediate(instr.uses[Nth(missing, k)])]

\* The loads for one instruction: one for each operand that nobody defines.
LEMMA LoadsFact ==
  ASSUME NEW instr, IsInstruction(instr), NEW known
  PROVE  LET missing == Missing(instr, known)
             loads   == Loads(instr, known)
         IN
         /\ IsSequence(loads) /\ Len(loads) \in Nat /\ DOMAIN loads = 1 .. Len(loads)
         /\ missing = {} => Len(loads) = 0
         /\ \A k \in DOMAIN loads : /\ IsLoad(loads[k]) /\ Reads(instr, loads[k].id)
                                    /\ loads[k].id \notin known \cup {NoName}
         /\ \A u \in DOMAIN instr.uses :
               LET n == instr.uses[u].name
               IN  n = NoName \/ n \in known \/ \E k \in DOMAIN loads : loads[k].id = n
<1> DEFINE missing == Missing(instr, known)
           loads   == Loads(instr, known)
           M       == Cardinality(missing)
<1>0. /\ missing = {u \in DOMAIN instr.uses : instr.uses[u].name \notin known \cup {NoName}}
      /\ loads = [k \in 1 .. Cardinality(missing) |-> LoadImmediate(instr.uses[Nth(missing, k)])]
  BY DEF Missing, Loads
<1> HIDE DEF missing, loads
<1>1. /\ M \in Nat /\ \A k \in 1 .. M : Nth(missing, k) \in missing
      /\ \A i \in missing : \E k \in 1 .. M : Nth(missing, k) = i
  <2> DEFINE N == Len(instr.uses)
  <2>1. N \in Nat /\ missing \in SUBSET (1 .. N)
    BY <1>0 DEF IsInstruction, IsSequence
  <2> HIDE DEF N
  <2> QED BY ONLY <2>1, NthFact
<1> HIDE DEF M
<1>2. loads = [k \in 1 .. M |-> LoadImmediate(instr.uses[Nth(missing, k)])]
  BY <1>0 DEF M
<1>3. \A k \in 1 .. M : loads[k] = LoadImmediate(instr.uses[Nth(missing, k)])
  BY <1>2
<1>4. \A u : LoadImmediate(u).id = u.name /\ IsLoad(LoadImmediate(u))
  BY DEF LoadImmediate, IsLoad
<1>5. DOMAIN loads = 1 .. M /\ Len(loads) = M /\ IsSequence(loads)
  <2>1. loads = [k \in 1 .. M |-> loads[k]]
    BY <1>2
  <2> QED BY <1>1, <2>1, SequenceIntro
<1>6. \A k \in DOMAIN loads : /\ IsLoad(loads[k]) /\ Reads(instr, loads[k].id)
                             /\ loads[k].id \notin known \cup {NoName}
  BY <1>0, <1>1, <1>3, <1>4, <1>5 DEF Reads
<1>7. ASSUME NEW u \in missing  PROVE \E k \in DOMAIN loads : loads[k].id = instr.uses[u].name
  <2>1. PICK k \in 1 .. M : Nth(missing, k) = u
    BY <1>1
  <2> QED BY <1>3, <1>4, <1>5, <2>1
<1>8. missing = {} => Len(loads) = 0
  <2>1. M > 0 => Nth(missing, 1) \in missing
    BY ONLY <1>1
  <2>2. missing = {} => M = 0
    BY ONLY <1>1, <2>1
  <2> QED BY <1>5, <2>2
<1> QED BY <1>0, <1>1, <1>5, <1>6, <1>7, <1>8 DEF missing, loads

\* resolve_li_immediates: one instruction.
LEMMA ResolveStep == LegalizerInv /\ CodeInv /\ ResolveImmediates => LegalizerInv'
<1> SUFFICES ASSUME LegalizerInv, CodeInv, ResolveImmediates  PROVE LegalizerInv'
  OBVIOUS
<1> DEFINE instr   == code[pc]
           known   == resolved \cup {instr.id}
           missing == {u \in DOMAIN instr.uses : instr.uses[u].name \notin known \cup {NoName}}
           loads   == [k \in 1 .. Cardinality(missing) |-> LoadImmediate(instr.uses[Nth(missing, k)])]
           moves   == pc > 1 /\ IsLabel(code[pc - 1]) /\ missing # {}
           p       == pc - 1
           L       == Len(out)
           M       == Len(loads)
<1>1. /\ stage = "immediates" /\ code = test /\ pending = << >> /\ Resolved(out, p)
      /\ resolved = {test[k].id : k \in 1 .. p} /\ test \in Tests
      /\ UNCHANGED <<test, code, pending>>
  BY DEF LegalizerInv, ResolveImmediates
<1>2. /\ IsCode(test) /\ Elaborated(test) /\ Len(test) \in Nat /\ DOMAIN test = 1 .. Len(test)
      /\ \A k \in DOMAIN test : IsLabel(test[k]) => \A n : ~ Reads(test[k], n)
  BY <1>1, TestFact
<1>3. /\ p \in Nat /\ p + 1 = pc /\ pc \in DOMAIN test /\ pc \in Nat /\ IsInstruction(instr)
      /\ instr = test[p + 1]
  <2>1. pc \in 1 .. Len(test) + 1 /\ pc # Len(test) + 1
    BY <1>1 DEF CodeInv, ResolveImmediates, AtEnd
  <2>2. pc \in DOMAIN test /\ p \in Nat /\ p + 1 = pc
    BY <1>2, <2>1
  <2> QED BY <1>1, <1>2, <2>2 DEF IsCode
<1>4. IsSequence(out) /\ L \in Nat /\ DOMAIN out = 1 .. L
  BY <1>1 DEF CodeInv, IsCode, IsSequence
<1>5. known = {test[k].id : k \in 1 .. p + 1}
  BY <1>1, <1>3
<1>6. \/ stage' = "failed"
      \/ /\ instr.id \notin resolved /\ resolved' = known /\ pc' = pc + 1 /\ stage' = stage
         /\ out' = IF ~ moves THEN out \o loads \o <<instr>>
                   ELSE IF code[pc - 1].kind = "fault_label"
                   THEN Front(out) \o loads \o <<Last(out), instr>>
                   ELSE out
  BY DEF ResolveImmediates
<1>7. CASE stage' = "failed"
  BY <1>1, <1>7 DEF LegalizerInv
<1>8. /\ IsSequence(loads) /\ M \in Nat /\ DOMAIN loads = 1 .. M /\ (missing = {} => M = 0)
      /\ \A k \in DOMAIN loads : /\ IsLoad(loads[k]) /\ Reads(instr, loads[k].id)
                                 /\ loads[k].id \notin known \cup {NoName}
      /\ \A u \in DOMAIN instr.uses :
            LET n == instr.uses[u].name
            IN  n = NoName \/ n \in known \/ \E k \in DOMAIN loads : loads[k].id = n
  <2>1. missing = Missing(instr, known) /\ loads = Loads(instr, known)
    BY DEF Missing, Loads
  <2>2. IsInstruction(instr)
    BY <1>3
  <2> HIDE DEF known, instr, missing, loads, p, L, moves
  <2> QED BY ONLY <2>1, <2>2, LoadsFact
<1> HIDE DEF loads
<1>9. missing # {} => ~ IsLabel(instr)
  BY <1>2, <1>3 DEF Reads
<1>10. ASSUME Resolved(out', p + 1), stage' # "failed"  PROVE LegalizerInv'
  <2>1. pc' - 1 = p + 1 /\ stage' = "immediates"
    BY <1>1, <1>3, <1>6, <1>10
  <2>2. Resolved(out, pc - 1)'
    <3>1. Resolved(out', p + 1) /\ pc' - 1 = p + 1 /\ test' = test
      BY <1>1, <1>10, <2>1
    <3> HIDE DEF p
    <3> QED BY ONLY <3>1 DEF Resolved, TestIds
  <2> QED BY <1>1, <1>5, <1>6, <1>10, <2>1, <2>2 DEF LegalizerInv
<1>11. ASSUME stage' # "failed"
       PROVE  /\ \A k \in 1 .. p : test[k].id # test[p + 1].id
              /\ \A k \in DOMAIN loads : \A j \in 1 .. p + 1 : test[j].id # loads[k].id
              /\ \A u \in DOMAIN test[p + 1].uses :
                    LET n == test[p + 1].uses[u].name
                    IN  \/ n = NoName \/ \E j \in 1 .. p + 1 : test[j].id = n
                        \/ \E k \in DOMAIN loads : loads[k].id = n
  <2>1. instr.id \notin resolved
    BY <1>6, <1>11
  <2>2. \A n : n \in known => \E j \in 1 .. p + 1 : test[j].id = n
    BY <1>5
  <2>3. \A j \in 1 .. p + 1 : test[j].id \in known
    BY <1>5
  <2> HIDE DEF known
  <2> QED BY <1>1, <1>3, <1>8, <2>1, <2>2, <2>3
<1> HIDE DEF missing, p, L, M
<1>12. CASE stage' # "failed" /\ ~ moves
  <2> DEFINE a == out \o loads
             t == a \o <<instr>>
             f == [k \in DOMAIN out |-> k]
  <2>1. /\ IsSequence(a) /\ Len(a) = L + M
        /\ \A k \in 1 .. L : a[k] = out[k]
        /\ \A k \in 1 .. M : a[L + k] = loads[k]
    BY <1>4, <1>8, Joined DEF L, M
  <2>2. IsSequence(<<instr>>) /\ Len(<<instr>>) = 1 /\ <<instr>>[1] = instr
    BY ShortLists
  <2> HIDE DEF a
  <2>3. /\ Len(t) = L + M + 1 /\ DOMAIN t = 1 .. L + M + 1
        /\ \A k \in 1 .. L + M : t[k] = a[k]
        /\ t[L + M + 1] = instr
    <3>1. /\ Len(t) = Len(a) + 1 /\ DOMAIN t = 1 .. Len(a) + 1
          /\ \A k \in 1 .. Len(a) : t[k] = a[k]
          /\ \A k \in 1 .. 1 : t[Len(a) + k] = <<instr>>[k]
      BY <2>1, <2>2, Joined
    <3> QED BY <2>1, <2>2, <3>1
  <2> HIDE DEF t, instr
  <2>4. \A k \in 1 .. L : t[k] = out[k]
    BY <1>4, <1>8, <2>1, <2>3
  <2>5. \A k \in 1 .. M : t[L + k] = loads[k]
    <3> TAKE k \in 1 .. M
    <3>1. L + k \in 1 .. L + M
      BY <1>4, <1>8
    <3> QED BY <2>1, <2>3, <3>1
  <2>6. \A k \in DOMAIN out : f[k] \in 1 .. Len(t) - 1 /\ t[f[k]] = out[k] /\ f[k] = k
    BY <1>4, <1>8, <2>3, <2>4
  <2>7. \A k \in 1 .. Len(t) - 1 : k \in DOMAIN out \/ \E i \in DOMAIN loads : t[k] = loads[i]
    <3> TAKE k \in 1 .. Len(t) - 1
    <3>1. CASE k > L
      <4>1. k - L \in 1 .. M /\ L + (k - L) = k
        BY <1>4, <1>8, <2>3, <3>1
      <4> QED BY <1>8, <2>5, <4>1
    <3>2. CASE k <= L
      BY <1>4, <3>2
    <3> QED BY <1>4, <3>1, <3>2
  <2>8. \A i \in DOMAIN loads : L + i \in 1 .. Len(t) - 1 /\ t[L + i] = loads[i]
    BY <1>4, <1>8, <2>3, <2>5
  <2>9. p > 0 /\ test[p].kind = "fault_label" /\ ~ IsLabel(test[p + 1]) => f[Len(out)] = Len(t) - 1
    <3> SUFFICES ASSUME p > 0, test[p].kind = "fault_label"  PROVE f[Len(out)] = Len(t) - 1
      OBVIOUS
    <3>1. pc > 1 /\ IsLabel(code[pc - 1])
      BY <1>1, <1>3 DEF IsLabel, p
    <3>2. M = 0
      BY <1>8, <1>12, <3>1
    <3>3. L > 0
      <4>1. out # << >>
        BY <1>1, <3>1 DEF CodeInv
      <4> QED BY <1>4, <4>1 DEF IsSequence, L
    <3> QED BY <1>4, <2>3, <3>2, <3>3 DEF L
  <2>10. Resolved(t, p + 1)
    <3>1. Len(t) \in Nat /\ DOMAIN t = 1 .. Len(t) /\ Len(t) > 0 /\ t[Len(t)] = test[p + 1]
      BY <1>3, <1>4, <1>8, <2>3
    <3>2. \A k \in DOMAIN out : f[k] \in 1 .. Len(t) - 1 /\ t[f[k]] = out[k]
      BY <2>6
    <3>3. /\ \A j, k \in DOMAIN out : j < k => f[j] < f[k]
          /\ \A k \in 1 .. Len(out) - 1 : ~ IsLabel(out[k + 1]) => f[k + 1] = f[k] + 1
      <4>1. \A k \in 1 .. Len(out) - 1 : k \in DOMAIN out /\ k + 1 \in DOMAIN out
        BY <1>4 DEF L
      <4> QED BY <2>6, <4>1
    <3>4. \A k \in 1 .. Len(t) - 1 :
             \/ \E i \in DOMAIN out : k = f[i]
             \/ /\ IsLoad(t[k]) /\ Reads(test[p + 1], t[k].id)
                /\ \A j \in 1 .. p + 1 : test[j].id # t[k].id
      BY <1>3, <1>8, <1>11, <1>12, <2>6, <2>7
    <3>5. \A u \in DOMAIN test[p + 1].uses :
            LET n == test[p + 1].uses[u].name
            IN  \/ n = NoName \/ \E j \in 1 .. p + 1 : test[j].id = n
                \/ \E k \in 1 .. Len(t) - 1 : t[k].id = n
      BY <1>11, <1>12, <2>8
    <3> HIDE DEF t, f
    <3> QED BY <1>1, <1>3, <1>4, <1>11, <1>12, <2>9, <3>1, <3>2, <3>3, <3>4, <3>5, ResolvedGrows DEF L
  <2> QED BY <1>6, <1>10, <1>12, <2>10 DEF t, a
<1>13. CASE stage' # "failed" /\ moves /\ code[pc - 1].kind = "fault_label"
  <2> DEFINE front == Front(out)
             a == front \o loads
             two == <<Last(out), instr>>
             t == a \o two
             f == [k \in DOMAIN out |-> IF k < L THEN k ELSE L + M]
  <2>1. p > 0 /\ IsLabel(test[p]) /\ L > 0 /\ Last(out) = out[L] /\ Last(out) = test[p]
    <3>1. p > 0 /\ IsLabel(test[p])
      BY <1>1, <1>3, <1>13 DEF p
    <3>2. out # << >> /\ Last(out) = test[p]
      BY <1>1, <3>1 DEF Resolved
    <3> QED BY <1>4, <3>1, <3>2 DEF L, Last, IsSequence
  <2>2. IsSequence(front) /\ Len(front) = L - 1 /\ \A k \in 1 .. L - 1 : front[k] = out[k]
    <3>1. front = [k \in 1 .. L - 1 |-> out[k]]
      <4>1. out \in Seq(ToSet(out))
        BY <1>4 DEF IsSequence
      <4> QED BY <1>4, <2>1, <4>1 DEF Front, L
    <3> HIDE DEF front
    <3>2. front = [k \in 1 .. L - 1 |-> front[k]] /\ L - 1 \in Nat
      BY <1>4, <2>1, <3>1
    <3> QED BY <3>1, <3>2, SequenceIntro
  <2> HIDE DEF front
  <2>3. /\ IsSequence(a) /\ Len(a) = L - 1 + M
        /\ \A k \in 1 .. L - 1 : a[k] = out[k]
        /\ \A k \in 1 .. M : a[L - 1 + k] = loads[k]
    BY <1>8, <2>2, Joined DEF M
  <2>4. IsSequence(two) /\ Len(two) = 2 /\ two[1] = out[L] /\ two[2] = instr
    BY <2>1, ShortLists
  <2> HIDE DEF a, two
  <2>5. /\ Len(t) = L + M + 1 /\ DOMAIN t = 1 .. L + M + 1
        /\ \A k \in 1 .. L - 1 + M : t[k] = a[k]
        /\ t[L + M] = out[L] /\ t[L + M + 1] = instr
    <3>1. /\ Len(t) = Len(a) + 2 /\ DOMAIN t = 1 .. Len(a) + 2
          /\ \A k \in 1 .. Len(a) : t[k] = a[k]
          /\ \A k \in 1 .. 2 : t[Len(a) + k] = two[k]
      <4>1. IsSequence(a) /\ IsSequence(two) /\ Len(two) = 2
        BY <2>3, <2>4
      <4>2. \A k \in 1 .. Len(two) : t[Len(a) + k] = two[k]
        BY ONLY <4>1, Joined
      <4>3. /\ Len(t) = Len(a) + Len(two) /\ DOMAIN t = 1 .. Len(a) + Len(two)
            /\ \A k \in 1 .. Len(a) : t[k] = a[k]
        BY ONLY <4>1, Joined
      <4> HIDE DEF t
      <4> QED BY ONLY <4>1, <4>2, <4>3
    <3>2. Len(a) + 1 = L + M /\ Len(a) + 2 = L + M + 1 /\ Len(a) = L - 1 + M
      BY <1>4, <1>8, <2>3
    <3>3. t[Len(a) + 1] = two[1] /\ t[Len(a) + 2] = two[2]
      BY <3>1
    <3> HIDE DEF t
    <3> QED BY <2>4, <3>1, <3>2, <3>3
  <2> HIDE DEF t, instr
  <2>6. \A k \in DOMAIN out : f[k] \in 1 .. Len(t) - 1 /\ t[f[k]] = out[k]
    <3> TAKE k \in DOMAIN out
    <3>1. CASE k < L
      <4>1. k \in 1 .. L - 1 /\ k \in 1 .. L - 1 + M
        BY <1>4, <1>8, <3>1
      <4>2. f[k] = k /\ t[k] = out[k]
        BY <2>3, <2>5, <3>1, <4>1
      <4>3. k \in 1 .. Len(t) - 1
        BY <1>4, <1>8, <2>5, <4>1
      <4> QED BY <4>2, <4>3
    <3>2. CASE k = L
      <4>1. f[k] = L + M /\ t[L + M] = out[k]
        BY <1>4, <2>5, <3>2
      <4>2. L + M \in 1 .. Len(t) - 1
        BY <1>4, <1>8, <2>1, <2>5
      <4> QED BY <4>1, <4>2
    <3> QED BY <1>4, <3>1, <3>2
  <2>7. \A k \in 1 .. Len(t) - 1 : (\E i \in DOMAIN out : k = f[i]) \/ \E i \in DOMAIN loads : t[k] = loads[i]
    <3> TAKE k \in 1 .. Len(t) - 1
    <3>1. CASE k < L
      <4>1. k \in DOMAIN out /\ f[k] = k
        BY <1>4, <3>1
      <4> QED BY <4>1
    <3>2. CASE k >= L /\ k < L + M
      <4>1. k - (L - 1) \in 1 .. M /\ L - 1 + (k - (L - 1)) = k /\ k \in 1 .. L - 1 + M
        BY <1>4, <1>8, <2>1, <3>2
      <4> QED BY <1>8, <2>3, <2>5, <4>1
    <3>3. CASE k = L + M
      <4>1. L \in DOMAIN out /\ f[L] = k
        BY <1>4, <2>1, <3>3
      <4> QED BY <4>1
    <3> QED BY <1>4, <1>8, <2>5, <3>1, <3>2, <3>3
  <2>8. \A i \in DOMAIN loads : L - 1 + i \in 1 .. Len(t) - 1 /\ t[L - 1 + i] = loads[i]
    <3> TAKE i \in DOMAIN loads
    <3>1. i \in 1 .. M /\ L - 1 + i \in 1 .. L - 1 + M /\ L - 1 + i \in 1 .. Len(t) - 1
      BY <1>4, <1>8, <2>1, <2>5
    <3> QED BY <2>3, <2>5, <3>1
  <2>10. Resolved(t, p + 1)
    <3>1. Len(t) \in Nat /\ DOMAIN t = 1 .. Len(t) /\ Len(t) > 0 /\ t[Len(t)] = test[p + 1]
      BY <1>3, <1>4, <1>8, <2>5
    <3>2. \A j, k \in DOMAIN out : j < k => f[j] < f[k]
      BY <1>4, <1>8
    <3>3. ASSUME NEW k \in 1 .. Len(out) - 1, ~ IsLabel(out[k + 1])  PROVE f[k + 1] = f[k] + 1
      <4>1. k + 1 # L
        BY <2>1, <3>3
      <4>2. k \in 1 .. L - 1
        BY DEF L
      <4>3. k \in DOMAIN out /\ k + 1 \in DOMAIN out /\ k < L /\ k + 1 < L
        BY <1>4, <4>1, <4>2
      <4> QED BY <4>3
    <3>4. \A k \in 1 .. Len(t) - 1 :
             \/ \E i \in DOMAIN out : k = f[i]
             \/ /\ IsLoad(t[k]) /\ Reads(test[p + 1], t[k].id)
                /\ \A j \in 1 .. p + 1 : test[j].id # t[k].id
      <4> HIDE DEF f
      <4> QED BY <1>3, <1>8, <1>11, <1>13, <2>7
    <3>5. \A u \in DOMAIN test[p + 1].uses :
            LET n == test[p + 1].uses[u].name
            IN  \/ n = NoName \/ \E j \in 1 .. p + 1 : test[j].id = n
                \/ \E k \in 1 .. Len(t) - 1 : t[k].id = n
      BY <1>11, <1>13, <2>8
    <3>6. f[Len(out)] = Len(t) - 1
      BY <1>4, <1>8, <2>1, <2>5 DEF L
    <3> HIDE DEF t, f
    <3> QED BY <1>1, <1>3, <1>4, <1>11, <1>13, <2>6, <3>1, <3>2, <3>3, <3>4, <3>5, <3>6, ResolvedGrows DEF L
  <2> QED BY <1>6, <1>10, <1>13, <2>10 DEF t, a, two, front
<1>14. CASE stage' # "failed" /\ moves /\ code[pc - 1].kind # "fault_label"
  <2>1. Resolved(out, p + 1)
    BY <1>1, <1>3, <1>9, <1>11, <1>14, ResolvedDrops DEF p
  <2> QED BY <1>6, <1>10, <1>14, <2>1
<1> QED BY <1>7, <1>12, <1>13, <1>14

\* What the second pass is given: instructions of one id are alike, those of the
\* test are there once, and each reads what comes before it.
CodeFacts ==
    /\ \A k \in DOMAIN code : code[k].id \notin CastIds /\ \A n \in CastIds : ~ Reads(code[k], n)
    /\ \A k \in DOMAIN code : IsLabel(code[k]) =>
          code[k].dest = "none" /\ code[k].id \in TestIds /\ \A n : ~ Reads(code[k], n)
    /\ \A k, l \in DOMAIN code : code[k].id = code[l].id => Same(code[k], code[l])
    /\ \A k, l \in DOMAIN code : code[k].id = code[l].id /\ code[k].id \in TestIds => k = l
    /\ \A k \in DOMAIN code : code[k].id \notin TestIds =>
          code[k].dest = "virtual" /\ \E l \in DOMAIN code : l > k /\ Reads(code[l], code[k].id)
    /\ \A k \in DOMAIN code : \A n : Reads(code[k], n) /\ n # NoName =>
          (\E d \in 1 .. k - 1 : code[d].id = n) \/ \A d \in DOMAIN code : code[d].id # n

\* The first pass has made it so.
LEMMA FactsOfCode ==
  ASSUME test \in Tests, IsCode(code), Resolved(code, Len(test))
  PROVE  CodeFacts
<1>1. /\ Len(test) \in Nat /\ DOMAIN test = 1 .. Len(test) /\ Elaborated(test)
      /\ \A k \in DOMAIN test : IsLabel(test[k]) => \A n : ~ Reads(test[k], n)
  BY TestFact
<1>2. /\ \A j, k \in DOMAIN test : test[j].id = test[k].id => j = k
      /\ \A k \in DOMAIN code :
           \/ \E j \in DOMAIN test : code[k] = test[j]
           \/ /\ IsLoad(code[k]) /\ code[k].id \notin TestIds \cup CastIds
              /\ \E l \in DOMAIN code : l > k /\ Reads(code[l], code[k].id)
      /\ \A k, l \in DOMAIN code : code[k].id = code[l].id /\ code[k].id \in TestIds => k = l
      /\ \A k \in DOMAIN code : \A u \in DOMAIN code[k].uses :
           LET n == code[k].uses[u].name
           IN  n # NoName => (\E d \in 1 .. k - 1 : code[d].id = n) \/ \A d \in DOMAIN code : code[d].id # n
  BY <1>1 DEF Resolved
<1>3. \A j \in DOMAIN test : /\ test[j].id \in TestIds /\ test[j].id \notin CastIds
                             /\ \A n \in CastIds : ~ Reads(test[j], n)
                             /\ IsLabel(test[j]) => test[j].dest = "none" /\ \A n : ~ Reads(test[j], n)
  BY <1>1 DEF TestIds, Elaborated, Reads
<1>4. \A i : IsLoad(i) => /\ \A n : ~ Reads(i, n)
                          /\ ~ IsLabel(i) /\ i.dest = "virtual" /\ i.type = "gpr"
  BY LoadFact DEF IsLabel
<1>5. ASSUME NEW k \in DOMAIN code
      PROVE  /\ code[k].id \notin CastIds /\ \A n \in CastIds : ~ Reads(code[k], n)
             /\ IsLabel(code[k]) =>
                  code[k].dest = "none" /\ code[k].id \in TestIds /\ \A n : ~ Reads(code[k], n)
             /\ code[k].id \notin TestIds => code[k].dest = "virtual" /\ code[k].type = "gpr"
                  /\ \E l \in DOMAIN code : l > k /\ Reads(code[l], code[k].id)
  <2>1. CASE \E j \in DOMAIN test : code[k] = test[j]
    BY <1>3, <2>1
  <2>2. CASE /\ IsLoad(code[k]) /\ code[k].id \notin TestIds \cup CastIds
             /\ \E l \in DOMAIN code : l > k /\ Reads(code[l], code[k].id)
    BY <1>4, <2>2
  <2> QED BY <1>2, <2>1, <2>2
<1>6. ASSUME NEW k \in DOMAIN code, NEW l \in DOMAIN code, code[k].id = code[l].id
      PROVE  Same(code[k], code[l])
  <2>1. CASE code[k].id \in TestIds
    <3>1. k = l
      BY <1>2, <1>6, <2>1
    <3> QED BY <3>1 DEF Same
  <2>2. CASE code[k].id \notin TestIds
    BY <1>5, <1>6, <2>2 DEF Same
  <2> QED BY <2>1, <2>2
<1>7. ASSUME NEW k \in DOMAIN code, NEW n, Reads(code[k], n), n # NoName
      PROVE  (\E d \in 1 .. k - 1 : code[d].id = n) \/ \A d \in DOMAIN code : code[d].id # n
  <2>1. PICK u \in DOMAIN code[k].uses : code[k].uses[u].name = n
    BY <1>7 DEF Reads
  <2> QED BY <1>2, <1>7, <2>1
<1> QED BY <1>2, <1>5, <1>6, <1>7 DEF CodeFacts

\* The producer of a name is like any instruction with that id.
LEMMA ProducerFact ==
  ASSUME IsCode(code), CodeFacts, NEW d \in DOMAIN code
  PROVE  Same(Producer(code[d].id), code[d])
<1> DEFINE T == {k \in DOMAIN code : code[k].id = code[d].id}
<1>1. Len(code) \in Nat /\ DOMAIN code = 1 .. Len(code)
  BY CodeType
<1>2. T \in SUBSET (0 .. Len(code)) /\ d \in T
  BY <1>1
<1>3. Max(T) \in T
  <2> HIDE DEF T
  <2>1. T # {}
    BY <1>2
  <2> QED BY <1>1, <1>2, <2>1, MaxType
<1>4. Producer(code[d].id) = code[Max(T)]
  BY DEF Producer
<1>5. Max(T) \in DOMAIN code /\ code[Max(T)].id = code[d].id
  BY <1>3
<1> HIDE DEF T
<1> QED BY <1>4, <1>5 DEF CodeFacts

\* What an instruction reads and somebody produces is there before it, as its
\* producer defines it; not by a label.
LEMMA ProducedBefore ==
  ASSUME IsCode(code), CodeFacts, NEW k \in DOMAIN code, NEW u \in DOMAIN code[k].uses,
         Produced(code[k].uses[u]), Producer(code[k].uses[u].name).dest # "none"
  PROVE  \E d \in 1 .. k - 1 : /\ d \in DOMAIN code /\ code[d].id = code[k].uses[u].name
                               /\ ~ IsLabel(code[d]) /\ Same(Producer(code[d].id), code[d])
<1> DEFINE n == code[k].uses[u].name
<1>1. n # NoName /\ Reads(code[k], n) /\ \E d \in DOMAIN code : code[d].id = n
  BY DEF Produced, Reads
<1>2. PICK d \in 1 .. k - 1 : code[d].id = n
  BY <1>1 DEF CodeFacts
<1>3. d \in DOMAIN code
  BY CodeType
<1>4. Same(Producer(code[d].id), code[d])
  BY <1>3, ProducerFact
<1>5. code[d].dest # "none"
  BY <1>2, <1>4 DEF Same
<1> QED BY <1>2, <1>3, <1>4, <1>5 DEF CodeFacts

\* The casts of one instruction: one for each operand of another type.
LEMMA CastsFact ==
  ASSUME NEW instr, IsInstruction(instr)
  PROVE  LET casts == CastsOf(instr)
         IN  /\ IsSequence(casts) /\ Len(casts) \in Nat /\ DOMAIN casts = 1 .. Len(casts)
             /\ \A i \in DOMAIN casts : \E u \in DOMAIN instr.uses :
                    NeedsCast(instr.uses[u]) /\ casts[i] = Cast(u)
             /\ \A u \in DOMAIN instr.uses : NeedsCast(instr.uses[u]) =>
                    \E i \in DOMAIN casts : casts[i] = Cast(u)
             /\ \A i, j \in DOMAIN casts : casts[i].id = casts[j].id => i = j
<1> DEFINE ks == {u \in DOMAIN instr.uses : NeedsCast(instr.uses[u])}
           M  == Cardinality(ks)
           casts == CastsOf(instr)
<1>1. /\ M \in Nat /\ \A i \in 1 .. M : Nth(ks, i) \in ks
      /\ \A u \in ks : \E i \in 1 .. M : Nth(ks, i) = u
      /\ \A i, j \in 1 .. M : Nth(ks, i) = Nth(ks, j) => i = j
  <2> DEFINE N == Len(instr.uses)
  <2>1. N \in Nat /\ ks \in SUBSET (1 .. N)
    BY DEF IsInstruction, IsSequence
  <2> HIDE DEF N, ks
  <2> QED BY ONLY <2>1, NthFact
<1>2. casts = [i \in 1 .. M |-> Cast(Nth(ks, i))]
  BY DEF CastsOf
<1>3. \A u : Cast(u).id = <<"cast", pc, u>>
  BY DEF Cast, CastId
<1> HIDE DEF ks, casts, M
<1>4. IsSequence(casts) /\ Len(casts) = M /\ DOMAIN casts = 1 .. M
  <2>1. casts = [i \in 1 .. M |-> casts[i]]
    BY <1>2
  <2> QED BY <1>1, <2>1, SequenceIntro
<1>5. \A i \in 1 .. M : casts[i] = Cast(Nth(ks, i)) /\ casts[i].id = <<"cast", pc, Nth(ks, i)>>
  BY <1>2, <1>3
<1>6. \A i, j \in 1 .. M : casts[i].id = casts[j].id => i = j
  <2> SUFFICES ASSUME NEW i \in 1 .. M, NEW j \in 1 .. M, casts[i].id = casts[j].id  PROVE i = j
    OBVIOUS
  <2>1. Nth(ks, i) = Nth(ks, j)
    BY <1>5
  <2> QED BY <1>1, <2>1
<1>7. \A i \in 1 .. M : \E u \in DOMAIN instr.uses : NeedsCast(instr.uses[u]) /\ casts[i] = Cast(u)
  BY <1>1, <1>5 DEF ks
<1>8. \A u \in DOMAIN instr.uses : NeedsCast(instr.uses[u]) => \E i \in 1 .. M : casts[i] = Cast(u)
  <2> SUFFICES ASSUME NEW u \in DOMAIN instr.uses, NeedsCast(instr.uses[u])
               PROVE  \E i \in 1 .. M : casts[i] = Cast(u)
    OBVIOUS
  <2>1. u \in ks
    BY DEF ks
  <2> QED BY <1>1, <1>5, <2>1
<1> QED BY <1>1, <1>4, <1>6, <1>7, <1>8 DEF casts

\* The second pass has put the instruction behind s, its casts and the fault label
\* that waited for it before it.
Appended(s, t, p) ==
    /\ Len(s) \in Nat /\ DOMAIN s = 1 .. Len(s) /\ Len(t) \in Nat /\ DOMAIN t = 1 .. Len(t) /\ Len(s) < Len(t)
    /\ pc \in DOMAIN code
    /\ \A u \in DOMAIN code[pc].uses :
          Produced(code[pc].uses[u]) => Producer(code[pc].uses[u].name).dest # "none"
    /\ \A k \in 1 .. Len(s) : t[k] = s[k]
    /\ t[Len(t)] = Rewired(code[pc])
    /\ \A k \in Len(s) + 1 .. Len(t) - 1 :
          \/ \E u \in DOMAIN code[pc].uses : NeedsCast(code[pc].uses[u]) /\ t[k] = Cast(u)
          \/ p = pc - 2 /\ k = Len(t) - 1 /\ t[k] = code[pc - 1]
    /\ \A u \in DOMAIN code[pc].uses : NeedsCast(code[pc].uses[u]) =>
          \E k \in Len(s) + 1 .. Len(t) - 1 : t[k] = Cast(u)
    /\ \A j, k \in Len(s) + 1 .. Len(t) - 1 : t[j].id = t[k].id /\ t[j].id \in CastIds => j = k
    /\ \/ p = pc - 1 /\ ~ (pc > 1 /\ code[pc - 1].kind = "fault_label")
       \/ /\ p = pc - 2 /\ pc > 1 /\ code[pc - 1].kind = "fault_label"
          /\ Len(t) - 1 > Len(s) /\ t[Len(t) - 1] = code[pc - 1]

\* It is as far as that instruction.
LEMMA CastedGrows ==
  ASSUME IsCode(code), CodeFacts, NEW s, NEW t, NEW p \in Nat, Casted(s, p), Appended(s, t, p)
  PROVE  Casted(t, pc)
<1> DEFINE instr == code[pc]
           L == Len(s)
           N == Len(t)
<1>0. /\ L \in Nat /\ DOMAIN s = 1 .. L /\ N \in Nat /\ DOMAIN t = 1 .. N /\ L < N
      /\ pc \in DOMAIN code /\ (p = pc - 1 \/ p = pc - 2)
      /\ \A k \in 1 .. L : t[k] = s[k]
  BY DEF Appended
<1>1. /\ Len(code) \in Nat /\ DOMAIN code = 1 .. Len(code) /\ pc \in Nat /\ pc > 0
      /\ L \in Nat /\ N \in Nat /\ L < N /\ p < pc /\ p <= Len(code) /\ pc <= Len(code)
      /\ DOMAIN instr.uses = 1 .. Len(instr.uses) /\ Len(instr.uses) \in Nat
      /\ DOMAIN s = 1 .. L /\ DOMAIN t = 1 .. N /\ \A k \in 1 .. L : t[k] = s[k]
  <2>1. /\ Len(code) \in Nat /\ DOMAIN code = 1 .. Len(code)
        /\ DOMAIN instr.uses = 1 .. Len(instr.uses) /\ Len(instr.uses) \in Nat
    BY <1>0, CodeType
  <2>2. pc \in Nat /\ pc > 0 /\ pc <= Len(code)
    BY <1>0, <2>1
  <2> QED BY <1>0, <2>1, <2>2
<1>label. p = pc - 2 => pc > 1 /\ code[pc - 1].kind = "fault_label" /\ N - 1 > L /\ t[N - 1] = code[pc - 1]
  <2>1. \/ p = pc - 1
        \/ pc > 1 /\ code[pc - 1].kind = "fault_label" /\ N - 1 > L /\ t[N - 1] = code[pc - 1]
    BY DEF Appended
  <2> QED BY <1>1, <2>1
<1>2. /\ \A u : /\ Cast(u).id = <<"cast", pc, u>> /\ Cast(u).dest = "virtual"
               /\ Cast(u).type = instr.uses[u].type
               /\ Cast(u).uses = <<[name |-> IF Producer(instr.uses[u].name).dest = "hard" THEN NoName
                                            ELSE Producer(instr.uses[u].name).id,
                                   reg |-> Producer(instr.uses[u].name).reg,
                                   type |-> Producer(instr.uses[u].name).type]>>
  BY DEF Cast, CastId
<1>3. \A u \in DOMAIN instr.uses : <<"cast", pc, u>> \in CastIds
  BY <1>1 DEF CastIds
<1>4. IsInstruction(instr) /\ Same(t[N], instr) /\ t[N].kind = instr.kind
      /\ DOMAIN t[N].uses = DOMAIN instr.uses
      /\ \A u \in DOMAIN instr.uses :
            /\ t[N].uses[u].type = instr.uses[u].type
            /\ t[N].uses[u].name = IF NeedsCast(instr.uses[u]) THEN <<"cast", pc, u>> ELSE instr.uses[u].name
  <2>1. IsInstruction(instr)
    BY <1>0 DEF IsCode
  <2>2. t[N] = [instr EXCEPT !.uses = [k \in DOMAIN instr.uses |->
           IF NeedsCast(instr.uses[k]) THEN [instr.uses[k] EXCEPT !.name = CastId(k)] ELSE instr.uses[k]]]
    BY DEF Rewired, Appended
  <2>3. Same(t[N], instr) /\ t[N].kind = instr.kind
    BY <2>1, <2>2 DEF Same, IsInstruction
  <2>4. t[N].uses = [k \in DOMAIN instr.uses |->
           IF NeedsCast(instr.uses[k]) THEN [instr.uses[k] EXCEPT !.name = CastId(k)] ELSE instr.uses[k]]
    BY <2>1, <2>2 DEF IsInstruction
  <2>5. ASSUME NEW u \in DOMAIN instr.uses
        PROVE  /\ t[N].uses[u].type = instr.uses[u].type
               /\ t[N].uses[u].name = IF NeedsCast(instr.uses[u]) THEN <<"cast", pc, u>> ELSE instr.uses[u].name
    <3>1. DOMAIN instr.uses[u] = {"name", "reg", "type"}
      BY <2>1 DEF IsInstruction
    <3>2. t[N].uses[u] = IF NeedsCast(instr.uses[u]) THEN [instr.uses[u] EXCEPT !.name = CastId(u)] ELSE instr.uses[u]
      BY <2>4
    <3>3. CASE NeedsCast(instr.uses[u])
      BY <3>1, <3>2, <3>3 DEF CastId
    <3>4. CASE ~ NeedsCast(instr.uses[u])
      BY <3>2, <3>4
    <3> QED BY <3>3, <3>4
  <2> QED BY <2>1, <2>3, <2>4, <2>5
<1>5. /\ \A k \in DOMAIN code : code[k].id \notin CastIds /\ \A n \in CastIds : ~ Reads(code[k], n)
      /\ \A k \in DOMAIN code : IsLabel(code[k]) => code[k].id \in TestIds /\ \A n : ~ Reads(code[k], n)
      /\ \A k, l \in DOMAIN code : code[k].id = code[l].id /\ code[k].id \in TestIds => k = l
      /\ \A k \in DOMAIN code : code[k].id \notin TestIds =>
            code[k].dest = "virtual" /\ \E l \in DOMAIN code : l > k /\ Reads(code[l], code[k].id)
  BY DEF CodeFacts
<1>6. /\ \A k \in DOMAIN s : \/ \E j \in 1 .. p : Same(s[k], code[j])
                              \/ s[k].id \in {"cast"} \X (1 .. p) \X Nat
      /\ \A j \in 1 .. p : code[j].kind # "fault_label" => \E k \in DOMAIN s : Same(s[k], code[j])
  BY DEF Casted
<1>7. \A j \in 1 .. pc - 1 : j \in 1 .. p \/ (j = pc - 1 /\ p = pc - 2 /\ code[j].kind = "fault_label")
  BY <1>0, <1>1, <1>label
<1>8. \A k \in DOMAIN t : \/ k \in DOMAIN s /\ t[k] = s[k]
                          \/ /\ k > L /\ k < N
                             /\ \E u \in DOMAIN instr.uses : NeedsCast(instr.uses[u]) /\ t[k] = Cast(u)
                          \/ /\ k > L /\ k = N - 1 /\ p = pc - 2 /\ t[k] = code[pc - 1]
                             /\ pc - 1 \in DOMAIN code /\ code[pc - 1].kind = "fault_label"
                          \/ k = N
  <2> SUFFICES ASSUME NEW k \in DOMAIN t, k > L, k # N
               PROVE  \/ \E u \in DOMAIN instr.uses : NeedsCast(instr.uses[u]) /\ t[k] = Cast(u)
                      \/ /\ k = N - 1 /\ p = pc - 2 /\ t[k] = code[pc - 1]
                         /\ pc - 1 \in DOMAIN code /\ code[pc - 1].kind = "fault_label"
    BY <1>1
  <2>1. k \in L + 1 .. N - 1
    BY <1>1
  <2>2. \/ \E u \in DOMAIN instr.uses : NeedsCast(instr.uses[u]) /\ t[k] = Cast(u)
        \/ p = pc - 2 /\ k = N - 1 /\ t[k] = code[pc - 1]
    BY <2>1 DEF Appended
  <2>3. CASE p = pc - 2
    <3>1. pc - 1 \in DOMAIN code
      BY <1>1, <2>3
    <3>2. code[pc - 1].kind = "fault_label"
      BY <1>label, <2>3
    <3> QED BY <2>2, <3>1, <3>2
  <2> QED BY <2>2, <2>3
<1> HIDE DEF instr, L, N
\* What an operand's value comes from is in what has been made.
<1>9. ASSUME NEW u \in DOMAIN instr.uses, Produced(instr.uses[u])
      PROVE  \E i \in DOMAIN s : Same(Producer(instr.uses[u].name), s[i]) /\ s[i].id = instr.uses[u].name
                                 /\ s[i].dest # "none"
  <2>1. Producer(instr.uses[u].name).dest # "none"
    BY <1>9 DEF instr, Appended
  <2>2. PICK d \in 1 .. pc - 1 : /\ d \in DOMAIN code /\ code[d].id = instr.uses[u].name
                                 /\ ~ IsLabel(code[d]) /\ Same(Producer(code[d].id), code[d])
    BY <1>0, <1>9, <2>1, ProducedBefore DEF instr
  <2>3. d \in 1 .. p /\ code[d].kind # "fault_label"
    BY <1>7, <2>2 DEF IsLabel
  <2>4. PICK i \in DOMAIN s : Same(s[i], code[d])
    BY <1>6, <2>3
  <2> QED BY <2>1, <2>2, <2>4 DEF Same
<1>10. ASSUME NEW k \in DOMAIN t
       PROVE  (\E j \in 1 .. pc : Same(t[k], code[j])) \/ t[k].id \in {"cast"} \X (1 .. pc) \X Nat
  <2>1. CASE k \in DOMAIN s /\ t[k] = s[k]
    <3>1. \A j \in 1 .. p : j \in 1 .. pc
      BY <1>1
    <3> QED BY <1>6, <2>1, <3>1
  <2>2. CASE \E u \in DOMAIN instr.uses : t[k] = Cast(u)
    <3>1. PICK u \in DOMAIN instr.uses : t[k] = Cast(u)
      BY <2>2
    <3>2. u \in Nat /\ pc \in 1 .. pc
      BY <1>1
    <3>3. t[k].id = <<"cast", pc, u>>
      BY <1>2, <3>1
    <3> QED BY <3>2, <3>3
  <2>3. CASE t[k] = code[pc - 1] /\ pc - 1 \in DOMAIN code
    BY <1>1, <2>3 DEF Same
  <2>4. CASE k = N
    BY <1>1, <1>4, <2>4 DEF instr
  <2> QED BY <1>8, <2>1, <2>2, <2>3, <2>4
<1>11. ASSUME NEW j \in 1 .. pc, code[j].kind # "fault_label"
       PROVE  \E k \in DOMAIN t : Same(t[k], code[j])
  <2>1. CASE j = pc
    BY <1>1, <1>4, <2>1 DEF instr, N
  <2>2. CASE j # pc
    <3>1. j \in 1 .. p
      <4>1. j \in 1 .. pc - 1
        BY <1>1, <2>2
      <4> QED BY <1>7, <1>11, <4>1
    <3>2. PICK k \in DOMAIN s : Same(s[k], code[j])
      BY <1>6, <1>11, <3>1
    <3>3. k \in DOMAIN t /\ t[k] = s[k]
      BY <1>1 DEF L, N
    <3> QED BY <3>2, <3>3
  <2> QED BY <2>1, <2>2
<1>12. ASSUME NEW k \in DOMAIN t, NEW i \in DOMAIN s, NEW use, k > L,
              s[i].id = use.name, s[i].dest # "none", s[i].type = use.type
       PROVE  DefinedBefore(t, k, use)
  <2>1. i \in 1 .. k - 1 /\ t[i] = s[i]
    BY <1>1, <1>12 DEF L, N
  <2> QED BY <1>12, <2>1 DEF DefinedBefore
<1>13. ASSUME NEW k \in DOMAIN t, NEW v \in DOMAIN t[k].uses, t[k].uses[v].name # NoName
       PROVE  LET use == t[k].uses[v]
              IN  \/ DefinedBefore(t, k, use)
                  \/ use.name \notin CastIds /\ \A j \in DOMAIN code : code[j].id # use.name
  <2> DEFINE use == t[k].uses[v]
  <2>1. CASE k \in DOMAIN s /\ t[k] = s[k]
    <3>1. \/ DefinedBefore(s, k, use)
          \/ use.name \notin CastIds /\ \A j \in DOMAIN code : code[j].id # use.name
      BY <1>13, <2>1 DEF Casted
    <3>2. ASSUME DefinedBefore(s, k, use)  PROVE DefinedBefore(t, k, use)
      <4>1. PICK d \in 1 .. k - 1 : s[d].id = use.name /\ s[d].dest # "none" /\ s[d].type = use.type
        BY <3>2 DEF DefinedBefore
      <4>2. t[d] = s[d]
        BY <1>1, <2>1
      <4> QED BY <4>1, <4>2 DEF DefinedBefore
    <3> QED BY <3>1, <3>2
  <2>2. CASE k > L /\ \E u \in DOMAIN instr.uses : NeedsCast(instr.uses[u]) /\ t[k] = Cast(u)
    <3>1. PICK u \in DOMAIN instr.uses : NeedsCast(instr.uses[u]) /\ t[k] = Cast(u)
      BY <2>2
    <3> DEFINE P == Producer(instr.uses[u].name)
    <3>2. use.type = P.type /\ use.name = P.id
      <4> DEFINE one == [name |-> IF P.dest = "hard" THEN NoName ELSE P.id, reg |-> P.reg, type |-> P.type]
      <4>1. t[k].uses = <<one>>
        BY <1>2, <3>1
      <4>2. v = 1 /\ use = one
        <5> HIDE DEF one
        <5> QED BY <4>1
      <4> QED BY <1>13, <4>2
    <3>3. PICK i \in DOMAIN s : Same(P, s[i]) /\ s[i].dest # "none"
      BY <1>9, <3>1 DEF NeedsCast
    <3> HIDE DEF P, use
    <3>4. s[i].id = use.name /\ s[i].type = use.type
      BY <3>2, <3>3 DEF Same
    <3>5. DefinedBefore(t, k, use)
      BY <1>12, <2>2, <3>3, <3>4
    <3> QED BY <3>5 DEF use
  <2>3. CASE t[k] = code[pc - 1] /\ pc - 1 \in DOMAIN code /\ code[pc - 1].kind = "fault_label"
    BY <1>5, <2>3 DEF IsLabel, Reads
  <2>4. CASE k = N
    <3> DEFINE old == instr.uses[v]
    <3>1. /\ v \in DOMAIN instr.uses /\ use.type = old.type
          /\ use.name = IF NeedsCast(old) THEN <<"cast", pc, v>> ELSE old.name
      BY <1>4, <2>4
    <3>2. CASE NeedsCast(old)
      <4>1. PICK i \in L + 1 .. N - 1 : t[i] = Cast(v)
        BY <3>1, <3>2 DEF instr, L, N, Appended
      <4>2. i \in 1 .. k - 1 /\ t[i].id = use.name /\ t[i].type = use.type /\ t[i].dest # "none"
        BY <1>1, <1>2, <2>4, <3>1, <3>2, <4>1
      <4> QED BY <4>2 DEF DefinedBefore
    <3>3. CASE ~ NeedsCast(old) /\ Produced(old)
      <4>1. PICK i \in DOMAIN s : /\ Same(Producer(old.name), s[i]) /\ s[i].id = old.name /\ s[i].dest # "none"
        BY <1>9, <3>1, <3>3
      <4>2. s[i].type = use.type /\ s[i].id = use.name /\ k > L
        BY <1>1, <2>4, <3>1, <3>3, <4>1 DEF Same, NeedsCast
      <4> HIDE DEF use
      <4>3. DefinedBefore(t, k, use)
        BY <1>12, <4>1, <4>2
      <4> QED BY <4>3 DEF use
    <3>4. CASE ~ Produced(old)
      <4>1. use.name = old.name /\ Reads(instr, use.name)
        BY <3>1, <3>4 DEF NeedsCast, Reads
      <4>2. \A j \in DOMAIN code : code[j].id # use.name
        BY <1>13, <3>4, <4>1 DEF Produced
      <4>3. use.name \notin CastIds
        BY <1>0, <1>5, <4>1 DEF instr
      <4> QED BY <4>2, <4>3
    <3> QED BY <3>2, <3>3, <3>4
  <2> QED BY <1>8, <2>1, <2>2, <2>3, <2>4
\* Where the ids come from: what was there, what is new.
<1>14. \A k \in DOMAIN s : \/ \E j \in 1 .. p : s[k].id = code[j].id
                           \/ \E j \in 1 .. p : \E u \in Nat : s[k].id = <<"cast", j, u>>
  BY <1>6 DEF Same
<1>15. \A k \in DOMAIN t : k > L =>
          \/ k < N /\ \E u \in DOMAIN instr.uses : t[k].id = <<"cast", pc, u>>
          \/ k = N - 1 /\ p = pc - 2 /\ pc - 1 \in DOMAIN code /\ t[k].id = code[pc - 1].id /\ IsLabel(code[pc - 1])
          \/ k = N /\ t[k].id = code[pc].id
  <2>1. t[N].id = code[pc].id
    BY <1>4 DEF Same, instr
  <2> QED BY <1>1, <1>2, <1>8, <2>1 DEF IsLabel, L
<1>16. ASSUME NEW k \in DOMAIN t, NEW l \in DOMAIN t, k < l, t[k].id = t[l].id, t[k].id \in TestIds \cup CastIds
       PROVE  FALSE
  <2>1. CASE l <= L
    <3>1. k \in DOMAIN s /\ l \in DOMAIN s /\ t[k] = s[k] /\ t[l] = s[l]
      BY <1>1, <1>16, <2>1 DEF L
    <3>2. Once(s, k)
      BY <1>16, <3>1 DEF Casted
    <3> QED BY <1>1, <1>16, <3>1, <3>2 DEF Once
  <2>2. CASE l > L /\ t[l].id \in CastIds
    <3>1. PICK u \in DOMAIN instr.uses : t[l].id = <<"cast", pc, u>> /\ l < N
      BY <1>0, <1>1, <1>5, <1>15, <2>2
    <3>2. CASE k <= L
      <4>1. k \in DOMAIN s /\ t[k] = s[k]
        BY <1>1, <3>2 DEF L
      <4>2. ASSUME NEW j \in 1 .. p, s[k].id = code[j].id  PROVE FALSE
        BY <1>1, <1>5, <1>16, <2>2, <4>1, <4>2
      <4>3. ASSUME NEW j \in 1 .. p, NEW v \in Nat, s[k].id = <<"cast", j, v>>  PROVE FALSE
        <5>1. <<"cast", j, v>> = <<"cast", pc, u>>
          BY <1>16, <3>1, <4>1, <4>3
        <5>2. j = pc
          BY <5>1
        <5> QED BY <1>1, <5>2
      <4> QED BY <1>14, <4>1, <4>2, <4>3
    <3>3. CASE k > L
      <4>1. k \in L + 1 .. N - 1 /\ l \in L + 1 .. N - 1
        BY <1>1, <1>16, <2>2, <3>1, <3>3
      <4>2. k = l
        BY <1>16, <2>2, <4>1 DEF L, N, Appended
      <4> QED BY <1>1, <1>16, <4>2
    <3> QED BY <1>1, <3>2, <3>3
  <2>3. CASE l > L /\ t[l].id \notin CastIds
    <3>1. /\ \A u \in DOMAIN instr.uses : t[l].id # <<"cast", pc, u>> /\ t[k].id # <<"cast", pc, u>>
          /\ t[l].id \in TestIds /\ t[k].id \in TestIds
      BY <1>3, <1>16, <2>3
    <3>2. PICK m \in DOMAIN code : m > p /\ t[l].id = code[m].id /\ ((l = N /\ m = pc) \/ (l = N - 1 /\ m = pc - 1))
      <4>1. \/ p = pc - 2 /\ pc - 1 \in DOMAIN code /\ t[l].id = code[pc - 1].id /\ l = N - 1
            \/ l = N /\ t[l].id = code[pc].id
        BY <1>15, <2>3, <3>1
      <4>2. pc > p /\ (p = pc - 2 => pc - 1 > p)
        BY <1>1
      <4>3. CASE p = pc - 2 /\ pc - 1 \in DOMAIN code /\ t[l].id = code[pc - 1].id /\ l = N - 1
        <5> DEFINE q == pc - 1
        <5>1. q \in DOMAIN code /\ q > p /\ t[l].id = code[q].id /\ l = N - 1 /\ q = pc - 1
          BY <4>2, <4>3
        <5> HIDE DEF q
        <5> QED BY <5>1
      <4>4. CASE l = N /\ t[l].id = code[pc].id
        <5> DEFINE q == pc
        <5>1. q \in DOMAIN code /\ q > p /\ t[l].id = code[q].id /\ l = N /\ q = pc
          BY <1>0, <4>2, <4>4
        <5> HIDE DEF q
        <5> QED BY <1>1, <5>1
      <4> QED BY <4>1, <4>3, <4>4
    <3>3. CASE k <= L
      <4>1. k \in DOMAIN s /\ t[k] = s[k]
        BY <1>1, <3>3 DEF L
      <4>2. ASSUME NEW j \in 1 .. p, s[k].id = code[j].id  PROVE FALSE
        <5>1. j \in DOMAIN code /\ j # m
          BY <1>1, <3>2
        <5> QED BY <1>5, <1>16, <3>1, <3>2, <4>1, <4>2, <5>1
      <4>3. ASSUME NEW j \in 1 .. p, NEW v \in Nat, s[k].id = <<"cast", j, v>>  PROVE FALSE
        <5>1. j \in Nat /\ t[l].id = <<"cast", j, v>>
          BY <1>16, <4>1, <4>3
        <5>2. t[l].id \in CastIds
          BY <5>1 DEF CastIds
        <5> QED BY <2>3, <5>2
      <4> QED BY <1>14, <4>1, <4>2, <4>3
    <3>4. CASE k > L
      <4>1. k = N - 1 /\ p = pc - 2 /\ pc - 1 \in DOMAIN code /\ t[k].id = code[pc - 1].id /\ l = N
        BY <1>1, <1>15, <1>16, <3>1, <3>4
      <4>2. pc - 1 = m
        BY <1>5, <1>16, <3>1, <3>2, <4>1
      <4> QED BY <1>1, <3>2, <4>1, <4>2
    <3> QED BY <1>1, <3>3, <3>4
  <2> QED BY <1>1, <2>1, <2>2, <2>3
<1>17. ASSUME NEW k \in DOMAIN t, t[k].id \in TestIds \cup CastIds  PROVE Once(t, k)
  <2>1. ASSUME NEW l \in DOMAIN t, t[l].id = t[k].id, l # k  PROVE FALSE
    <3>1. k < l \/ l < k
      BY <1>1, <2>1
    <3> QED BY <1>16, <1>17, <2>1, <3>1
  <2> QED BY <2>1 DEF Once
<1>18. ASSUME NEW k \in DOMAIN t, t[k].id \notin TestIds \cup CastIds
       PROVE  ReadLater(t, k) \/ \E j \in pc + 1 .. Len(code) : Reads(code[j], t[k].id)
  <2> DEFINE n == t[k].id
  <2>1. CASE k <= L
    <3>1. k \in DOMAIN s /\ t[k] = s[k] /\ k < N
      BY <1>1, <2>1 DEF L
    <3>2. ReadLater(s, k) \/ \E j \in p + 1 .. Len(code) : Reads(code[j], n)
      BY <1>18, <3>1 DEF Casted
    <3>3. CASE ReadLater(s, k)
      <4>1. PICK l \in DOMAIN s : l > k /\ Reads(s[l], s[k].id)
        BY <3>3 DEF ReadLater
      <4>2. l \in DOMAIN t /\ t[l] = s[l]
        BY <1>1 DEF L, N
      <4> QED BY <3>1, <4>1, <4>2 DEF ReadLater
    <3>4. CASE \E j \in p + 1 .. Len(code) : Reads(code[j], n)
      <4>1. PICK j \in p + 1 .. Len(code) : Reads(code[j], n)
        BY <3>4
      <4>2. j \in DOMAIN code /\ ~ IsLabel(code[j])
        BY <1>1, <1>5, <4>1
      <4>3. CASE j = pc
        <5>1. PICK u \in DOMAIN instr.uses : instr.uses[u].name = n
          BY <4>1, <4>3 DEF Reads, instr
        <5>2. CASE ~ NeedsCast(instr.uses[u])
          <6>1. t[N].uses[u].name = n /\ u \in DOMAIN t[N].uses
            BY <1>4, <5>1, <5>2
          <6> HIDE DEF n
          <6>2. N \in DOMAIN t /\ N > k /\ Reads(t[N], n)
            BY <1>1, <3>1, <6>1 DEF Reads, N
          <6> QED BY <6>2 DEF ReadLater, n
        <5>3. CASE NeedsCast(instr.uses[u])
          <6>1. PICK d \in DOMAIN code : code[d].id = n
            BY <5>1, <5>3 DEF NeedsCast, Produced
          <6>2. Same(Producer(n), code[d])
            BY <6>1, ProducerFact
          <6>3. Producer(n).dest = "virtual" /\ Producer(n).id = n
            BY <1>5, <1>18, <6>1, <6>2 DEF Same
          <6>4. PICK i \in L + 1 .. N - 1 : t[i] = Cast(u)
            BY <5>3 DEF instr, L, N, Appended
          <6>5. t[i].uses = <<[name |-> n, reg |-> Producer(n).reg, type |-> Producer(n).type]>>
            BY <1>2, <5>1, <6>3, <6>4
          <6> HIDE DEF n
          <6>6. Reads(t[i], n)
            <7>1. 1 \in DOMAIN t[i].uses /\ t[i].uses[1].name = n
              BY <6>5
            <7> QED BY <7>1 DEF Reads
          <6>7. i \in DOMAIN t /\ i > k
            BY <1>1, <2>1 DEF N
          <6> QED BY <6>6, <6>7 DEF ReadLater, n
        <5> QED BY <5>2, <5>3
      <4>4. CASE j < pc
        <5>1. j \in 1 .. pc - 1 /\ j \notin 1 .. p
          BY <1>1, <4>1, <4>4
        <5> QED BY <1>7, <4>2, <5>1 DEF IsLabel
      <4>5. CASE j > pc
        <5>1. j \in pc + 1 .. Len(code)
          BY <1>1, <4>1, <4>5
        <5> QED BY <4>1, <5>1
      <4> QED BY <1>1, <4>1, <4>3, <4>4, <4>5
    <3> QED BY <3>2, <3>3, <3>4
  <2>2. CASE k > L
    <3>1. n = code[pc].id /\ pc \in DOMAIN code
      BY <1>0, <1>3, <1>5, <1>15, <1>18, <2>2
    <3>2. PICK l \in DOMAIN code : l > pc /\ Reads(code[l], n)
      BY <1>5, <1>18, <3>1
    <3>3. l \in pc + 1 .. Len(code)
      BY <1>1, <3>2
    <3> QED BY <3>2, <3>3
  <2> QED BY <1>1, <2>1, <2>2
<1>19. ASSUME NEW j \in 1 .. pc - 1, code[j].kind = "fault_label", ~ IsLabel(code[j + 1])
       PROVE  \E k \in 1 .. Len(t) - 1 : t[k].id = code[j].id /\ t[k + 1].id = code[j + 1].id
  <2>1. CASE j \in 1 .. p - 1
    <3>1. PICK k \in 1 .. Len(s) - 1 : s[k].id = code[j].id /\ s[k + 1].id = code[j + 1].id
      BY <1>19, <2>1 DEF Casted
    <3>2. k \in 1 .. Len(t) - 1 /\ t[k] = s[k] /\ t[k + 1] = s[k + 1]
      BY <1>1 DEF L, N
    <3> QED BY <3>1, <3>2
  <2>2. CASE j = pc - 1
    <3>1. pc > 1 /\ code[pc - 1].kind = "fault_label"
      BY <1>1, <1>19, <2>2
    <3>2. N - 1 > L /\ t[N - 1] = code[pc - 1]
      BY <3>1 DEF L, N, Appended
    <3>3. N - 1 \in 1 .. N - 1 /\ (N - 1) + 1 = N /\ j + 1 = pc
      BY <1>1, <2>2, <3>2
    <3>4. t[N].id = code[pc].id
      BY <1>4 DEF Same, instr
    <3> QED BY <2>2, <3>2, <3>3, <3>4 DEF N
  <2>3. CASE j = p /\ p = pc - 2
    <3>1. j + 1 = pc - 1 /\ code[pc - 1].kind = "fault_label"
      BY <1>1, <1>label, <2>3
    <3> QED BY <1>19, <3>1 DEF IsLabel
  <2> QED BY <1>1, <1>7, <2>1, <2>2, <2>3
<1> QED BY <1>10, <1>11, <1>13, <1>17, <1>18, <1>19 DEF Casted

\* A fault label that waits changes nothing of what the list has to hold.
LEMMA CastedWaits ==
  ASSUME IsCode(code), CodeFacts, NEW s, NEW p \in Nat, pc \in DOMAIN code, code[pc].kind = "fault_label",
         Casted(s, p), p < pc, \A j \in p + 1 .. pc - 1 : code[j].kind = "fault_label"
  PROVE  Casted(s, pc - 1)
<1>1. Len(code) \in Nat /\ DOMAIN code = 1 .. Len(code) /\ pc \in Nat /\ pc > 0 /\ pc <= Len(code)
  <2>1. Len(code) \in Nat /\ DOMAIN code = 1 .. Len(code)
    BY CodeType
  <2> QED BY <2>1
<1>2. \A j \in 1 .. pc - 1 : j \in 1 .. p \/ code[j].kind = "fault_label"
  BY <1>1
<1>3. \A j \in 1 .. p : j \in 1 .. pc - 1
  BY <1>1
<1>4. \A j \in DOMAIN code : IsLabel(code[j]) => \A n : ~ Reads(code[j], n)
  BY DEF CodeFacts
<1>5. ASSUME NEW k \in DOMAIN s
      PROVE  (\E j \in 1 .. pc - 1 : Same(s[k], code[j])) \/ s[k].id \in {"cast"} \X (1 .. pc - 1) \X Nat
  <2>1. (\E j \in 1 .. p : Same(s[k], code[j])) \/ s[k].id \in {"cast"} \X (1 .. p) \X Nat
    BY DEF Casted
  <2> QED BY <1>3, <2>1
<1>6. ASSUME NEW j \in 1 .. pc - 1, code[j].kind # "fault_label"
      PROVE  \E k \in DOMAIN s : Same(s[k], code[j])
  BY <1>2, <1>6 DEF Casted
<1>7. ASSUME NEW n, \E j \in p + 1 .. Len(code) : Reads(code[j], n)
      PROVE  \E j \in (pc - 1) + 1 .. Len(code) : Reads(code[j], n)
  <2>1. PICK j \in p + 1 .. Len(code) : Reads(code[j], n)
    BY <1>7
  <2>2. j \in DOMAIN code /\ ((j \in 1 .. pc - 1 /\ j \notin 1 .. p) \/ j \in (pc - 1) + 1 .. Len(code))
    BY <1>1
  <2>3. ~ IsLabel(code[j])
    BY <1>4, <2>1, <2>2
  <2> QED BY <1>2, <2>1, <2>2, <2>3 DEF IsLabel
<1>8. ASSUME NEW j \in 1 .. (pc - 1) - 1, code[j].kind = "fault_label", ~ IsLabel(code[j + 1])
      PROVE  \E k \in 1 .. Len(s) - 1 : s[k].id = code[j].id /\ s[k + 1].id = code[j + 1].id
  <2>1. j + 1 \in 1 .. p
    <3>1. j + 1 \in 1 .. pc - 1
      BY <1>1
    <3> QED BY <1>2, <1>8, <3>1 DEF IsLabel
  <2>2. j \in 1 .. p - 1
    BY <1>1, <2>1
  <2> QED BY <1>8, <2>2 DEF Casted
<1> QED BY <1>5, <1>6, <1>7, <1>8 DEF Casted

\* insert_casts: one instruction.
LEMMA CastStep == LegalizerInv /\ CodeInv /\ InsertCasts => LegalizerInv'
<1> SUFFICES ASSUME LegalizerInv, CodeInv, InsertCasts  PROVE LegalizerInv'
  OBVIOUS
<1> DEFINE instr == code[pc]
           p     == pc - 1 - Len(pending)
           casts == CastsOf(instr)
           L     == Len(out)
           C     == Len(casts)
           P     == Len(pending)
<1>1. /\ stage = "casts" /\ Resolved(code, Len(test)) /\ Casted(out, p) /\ test \in Tests
      /\ pending = IF pc > 1 /\ code[pc - 1].kind = "fault_label" THEN <<code[pc - 1]>> ELSE << >>
      /\ UNCHANGED <<test, code, resolved>> /\ pc # Len(code) + 1
  BY DEF LegalizerInv, InsertCasts, AtEnd
<1>2. IsCode(code) /\ IsCode(out) /\ IsCode(pending) /\ pc \in 1 .. Len(code) + 1
  BY <1>1 DEF CodeInv
<1>3. /\ Len(code) \in Nat /\ DOMAIN code = 1 .. Len(code) /\ pc \in DOMAIN code /\ pc \in Nat /\ pc > 0
      /\ IsInstruction(instr)
  <2>1. Len(code) \in Nat /\ DOMAIN code = 1 .. Len(code)
    BY <1>2, CodeType
  <2>2. pc \in DOMAIN code /\ pc \in Nat /\ pc > 0
    BY <1>1, <1>2, <2>1
  <2> QED BY <1>2, <2>1, <2>2 DEF IsCode
<1>4. CodeFacts
  BY <1>1, <1>2, FactsOfCode
<1>5. \/ pc > 1 /\ code[pc - 1].kind = "fault_label" /\ P = 1 /\ pending[1] = code[pc - 1] /\ p = pc - 2
      \/ ~ (pc > 1 /\ code[pc - 1].kind = "fault_label") /\ P = 0 /\ p = pc - 1
  <2>1. CASE pc > 1 /\ code[pc - 1].kind = "fault_label"
    <3>1. pending = <<code[pc - 1]>>
      BY <1>1, <2>1
    <3>2. P = 1 /\ pending[1] = code[pc - 1]
      BY <3>1
    <3> HIDE DEF P
    <3>3. p = pc - 2
      BY <1>3, <3>2 DEF P
    <3> QED BY <2>1, <3>2, <3>3
  <2>2. CASE ~ (pc > 1 /\ code[pc - 1].kind = "fault_label")
    <3>1. pending = << >>
      BY <1>1, <2>2
    <3> QED BY <1>3, <2>2, <3>1
  <2> QED BY <2>1, <2>2
<1>6. /\ p \in Nat /\ p < pc /\ P \in Nat
      /\ \A j \in p + 1 .. pc - 1 : code[j].kind = "fault_label"
  <2>1. p \in Nat /\ p < pc /\ P \in Nat
    BY <1>3, <1>5
  <2> HIDE DEF p, P
  <2>2. CASE p = pc - 2
    <3>1. \A j \in p + 1 .. pc - 1 : j = pc - 1
      BY <1>3, <2>2
    <3>2. code[pc - 1].kind = "fault_label"
      BY <1>3, <1>5, <2>2
    <3> QED BY <2>1, <3>1, <3>2
  <2>3. CASE p = pc - 1
    <3>1. \A j \in p + 1 .. pc - 1 : FALSE
      BY <1>3, <2>3
    <3> QED BY <2>1, <3>1
  <2> QED BY <1>5, <2>1, <2>2, <2>3
<1>7. ASSUME NEW q, Casted(out', q), pc' - 1 - Len(pending') = q, stage' = "casts",
             pending' = IF pc' > 1 /\ code[pc' - 1].kind = "fault_label" THEN <<code[pc' - 1]>> ELSE << >>
      PROVE  LegalizerInv'
  <2>1. Casted(out, pc - 1 - Len(pending))'
    <3>1. Casted(out', q) /\ pc' - 1 - Len(pending') = q /\ test' = test /\ code' = code
      BY <1>1, <1>7
    <3> HIDE DEF p
    <3> QED BY ONLY <3>1 DEF Casted, TestIds
  <2>2. Resolved(code, Len(test))'
    <3>1. Resolved(code, Len(test)) /\ test' = test /\ code' = code
      BY <1>1
    <3> QED BY ONLY <3>1 DEF Resolved, TestIds
  <2> QED BY <1>1, <1>7, <2>1, <2>2 DEF LegalizerInv
<1> HIDE DEF p, L, C, P, casts, instr
<1>8. CASE stage' = "failed"
  BY <1>1, <1>8 DEF LegalizerInv
<1>9. CASE stage' = stage /\ instr.kind = "fault_label" /\ pending' = <<instr>> /\ pc' = pc + 1 /\ out' = out
  <2>1. Casted(out, pc - 1)
    BY <1>1, <1>2, <1>3, <1>4, <1>6, <1>9, CastedWaits DEF instr
  <2>2. Len(pending') = 1
    BY <1>9
  <2>3. pc' - 1 - Len(pending') = pc - 1 /\ pc' > 1 /\ pc' - 1 = pc
    BY <1>3, <1>9, <2>2
  <2> QED BY <1>1, <1>7, <1>9, <2>1, <2>3 DEF instr
<1>10. CASE /\ stage' = stage /\ instr.kind # "fault_label" /\ pending' = << >> /\ pc' = pc + 1
            /\ out' = out \o CastsOf(instr) \o pending \o <<Rewired(instr)>>
            /\ \A k \in DOMAIN instr.uses :
                  Produced(instr.uses[k]) => Producer(instr.uses[k].name).dest # "none"
  <2> DEFINE a == out \o casts
             b == a \o pending
             t == b \o <<Rewired(instr)>>
  <2>1. /\ IsSequence(casts) /\ C \in Nat /\ DOMAIN casts = 1 .. C
        /\ \A i \in DOMAIN casts : \E u \in DOMAIN instr.uses :
              NeedsCast(instr.uses[u]) /\ casts[i] = Cast(u)
        /\ \A u \in DOMAIN instr.uses : NeedsCast(instr.uses[u]) =>
              \E i \in DOMAIN casts : casts[i] = Cast(u)
        /\ \A i, j \in DOMAIN casts : casts[i].id = casts[j].id => i = j
    BY <1>3, CastsFact DEF casts, C
  <2>2. IsSequence(out) /\ IsSequence(pending) /\ L \in Nat /\ DOMAIN out = 1 .. L
    BY <1>2 DEF IsCode, IsSequence, L
  <2>3. IsSequence(a) /\ Len(a) = L + C /\ (\A k \in 1 .. L : a[k] = out[k]) /\ \A k \in 1 .. C : a[L + k] = casts[k]
    BY <2>1, <2>2, Joined DEF L, C
  <2> HIDE DEF a
  <2>4. /\ IsSequence(b) /\ Len(b) = L + C + P /\ (\A k \in 1 .. L + C : b[k] = a[k])
        /\ \A k \in 1 .. P : b[L + C + k] = pending[k]
    BY <2>2, <2>3, Joined DEF P
  <2> HIDE DEF b
  <2>5. /\ Len(t) = L + C + P + 1 /\ DOMAIN t = 1 .. L + C + P + 1
        /\ \A k \in 1 .. L + C + P : t[k] = b[k]
        /\ t[L + C + P + 1] = Rewired(instr)
    <3>1. IsSequence(<<Rewired(instr)>>) /\ Len(<<Rewired(instr)>>) = 1 /\ <<Rewired(instr)>>[1] = Rewired(instr)
      BY ShortLists
    <3>2. /\ Len(t) = Len(b) + 1 /\ DOMAIN t = 1 .. Len(b) + 1
          /\ \A k \in 1 .. Len(b) : t[k] = b[k]
          /\ \A k \in 1 .. 1 : t[Len(b) + k] = <<Rewired(instr)>>[k]
      BY <2>4, <3>1, Joined
    <3> QED BY <2>4, <3>1, <3>2
  <2> HIDE DEF t
  <2>6. \A k \in 1 .. L : t[k] = out[k]
    BY <1>6, <2>1, <2>2, <2>3, <2>4, <2>5
  <2>7. \A i \in 1 .. C : t[L + i] = casts[i] /\ L + i \in L + 1 .. Len(t) - 1
    <3> TAKE i \in 1 .. C
    <3>1. L + i \in 1 .. L + C /\ L + i \in 1 .. L + C + P /\ L + i \in L + 1 .. Len(t) - 1
      BY <1>6, <2>1, <2>2, <2>5
    <3> QED BY <2>3, <2>4, <2>5, <3>1
  <2>8. \A k \in L + 1 .. Len(t) - 1 :
           \/ k - L \in 1 .. C /\ t[k] = casts[k - L]
           \/ P = 1 /\ k = Len(t) - 1 /\ p = pc - 2 /\ t[k] = code[pc - 1]
    <3> TAKE k \in L + 1 .. Len(t) - 1
    <3>1. CASE k <= L + C
      <4>1. k - L \in 1 .. C /\ L + (k - L) = k
        BY <1>6, <2>1, <2>2, <2>5, <3>1
      <4> QED BY <2>7, <4>1
    <3>2. CASE k > L + C
      <4>1. P = 1 /\ k = L + C + 1 /\ k = Len(t) - 1
        BY <1>5, <1>6, <2>1, <2>2, <2>5, <3>2
      <4>2. t[k] = b[k] /\ b[k] = pending[1] /\ pending[1] = code[pc - 1] /\ p = pc - 2
        <5>1. k \in 1 .. L + C + P /\ 1 \in 1 .. P
          BY <2>1, <2>2, <4>1
        <5> QED BY <1>5, <2>4, <2>5, <4>1, <5>1
      <4> QED BY <4>1, <4>2
    <3> QED BY <2>1, <2>2, <3>1, <3>2
  <2>9. ASSUME NEW j \in L + 1 .. Len(t) - 1, NEW k \in L + 1 .. Len(t) - 1, t[j].id = t[k].id, t[j].id \in CastIds
        PROVE  j = k
    <3>1. \A i : P = 1 /\ p = pc - 2 /\ t[i] = code[pc - 1] => t[i].id \notin CastIds
      <4>1. P = 1 => pc - 1 \in DOMAIN code
        BY <1>3, <1>5
      <4> QED BY <1>4, <4>1 DEF CodeFacts
    <3>2. j - L \in 1 .. C /\ k - L \in 1 .. C /\ t[j] = casts[j - L] /\ t[k] = casts[k - L]
      BY <2>8, <2>9, <3>1
    <3>3. j - L = k - L
      BY <2>1, <2>9, <3>2
    <3> QED BY <2>2, <3>3
  <2>10. \/ p = pc - 1 /\ ~ (pc > 1 /\ code[pc - 1].kind = "fault_label")
         \/ /\ p = pc - 2 /\ pc > 1 /\ code[pc - 1].kind = "fault_label"
            /\ Len(t) - 1 > L /\ t[Len(t) - 1] = code[pc - 1]
    <3>1. CASE P = 1
      <4>1. Len(t) - 1 \in L + 1 .. Len(t) - 1 /\ Len(t) - 1 > L /\ Len(t) - 1 - L = C + 1
        BY <2>1, <2>2, <2>5, <3>1
      <4>2. ~ (Len(t) - 1 - L \in 1 .. C)
        BY <2>1, <4>1
      <4> QED BY <1>5, <2>8, <3>1, <4>1, <4>2
    <3>2. CASE P = 0
      BY <1>5, <3>2
    <3> QED BY <1>5, <3>1, <3>2
  <2>11. Appended(out, t, p)
    <3>1. /\ Len(t) \in Nat /\ DOMAIN t = 1 .. Len(t) /\ L < Len(t) /\ t[Len(t)] = Rewired(instr)
      BY <1>6, <2>1, <2>2, <2>5
    <3>2. \A k \in L + 1 .. Len(t) - 1 :
             \/ \E u \in DOMAIN instr.uses : NeedsCast(instr.uses[u]) /\ t[k] = Cast(u)
             \/ p = pc - 2 /\ k = Len(t) - 1 /\ t[k] = code[pc - 1]
      BY <2>1, <2>8
    <3>3. \A u \in DOMAIN instr.uses : NeedsCast(instr.uses[u]) =>
             \E k \in L + 1 .. Len(t) - 1 : t[k] = Cast(u)
      BY <2>1, <2>7
    <3> QED BY <1>3, <1>10, <2>2, <2>6, <2>9, <2>10, <3>1, <3>2, <3>3 DEF Appended, L, instr
  <2>12. Casted(t, pc)
    BY <1>1, <1>2, <1>4, <1>6, <2>11, CastedGrows
  <2>13. Len(pending') = 0
    BY <1>10
  <2>14. pc' - 1 - Len(pending') = pc /\ pc' - 1 = pc
    BY <1>3, <1>10, <2>13
  <2>15. out' = t
    BY <1>10 DEF t, b, a, casts
  <2> QED BY <1>1, <1>7, <1>10, <2>12, <2>14, <2>15 DEF instr
<1> QED BY <1>8, <1>9, <1>10 DEF InsertCasts, instr

\* insert_casts begins with what the first pass has made of the whole test.
LEMMA StartCastsStep == LegalizerInv /\ CodeInv /\ StartCasts => LegalizerInv'
<1> SUFFICES ASSUME LegalizerInv, CodeInv, StartCasts  PROVE LegalizerInv'
  OBVIOUS
<1>1. /\ code = test /\ test \in Tests /\ pending = << >> /\ Resolved(out, pc - 1)
      /\ code' = out /\ out' = << >> /\ pc' = 1 /\ stage' = "casts" /\ UNCHANGED <<test, pending>>
      /\ pc = Len(code) + 1
  BY DEF LegalizerInv, StartCasts, NextPass, AtEnd
<1>2. Resolved(out, Len(test)) /\ Len(test) \in Nat
  <2>1. Len(test) \in Nat
    BY <1>1, TestFact
  <2>2. pc - 1 = Len(test)
    BY <1>1, <2>1
  <2> QED BY <1>1, <2>1, <2>2
<1>3. Resolved(code, Len(test))'
  <2>1. Resolved(out, Len(test)) /\ test' = test /\ code' = out
    BY <1>1, <1>2
  <2> QED BY ONLY <2>1 DEF Resolved, TestIds
<1>4. Casted(out, pc - 1 - Len(pending))'
  <2>1. out' = << >> /\ Len(pending') = 0 /\ pc' = 1
    BY <1>1
  <2>2. (pc - 1 - Len(pending))' = 0
    BY <2>1
  <2>3. (\A k \in DOMAIN out' : FALSE) /\ (\A j \in 1 .. 0 : FALSE) /\ \A j \in 1 .. 0 - 1 : FALSE
    BY <2>1
  <2> QED BY ONLY <2>2, <2>3 DEF Casted
<1> QED BY <1>1, <1>3, <1>4 DEF LegalizerInv

\* The scan begins with what both have made of the test.
LEMMA StartScanStep == LegalizerInv /\ CodeInv /\ StartScan => LegalizerInv'
<1> SUFFICES ASSUME LegalizerInv, CodeInv, StartScan  PROVE LegalizerInv'
  OBVIOUS
<1> DEFINE p == pc - 1 - Len(pending)
<1>1. /\ stage = "casts" /\ test \in Tests /\ Resolved(code, Len(test)) /\ Casted(out, p)
      /\ pending = IF pc > 1 /\ code[pc - 1].kind = "fault_label" THEN <<code[pc - 1]>> ELSE << >>
      /\ code' = out /\ stage' = "scan" /\ UNCHANGED test /\ pc = Len(code) + 1
  BY DEF LegalizerInv, StartScan, NextPass, AtEnd
<1>2. IsCode(code) /\ Len(code) \in Nat /\ DOMAIN code = 1 .. Len(code)
  <2>1. IsCode(code)
    BY <1>1 DEF CodeInv
  <2> QED BY <2>1, CodeType
<1>3. CodeFacts
  BY <1>1, <1>2, FactsOfCode
<1>4. p \in Nat /\ p <= Len(code) /\ \A j \in p + 1 .. Len(code) : IsLabel(code[j])
  <2>1. pc = Len(code) + 1
    BY <1>1
  <2>2. CASE pc > 1 /\ code[pc - 1].kind = "fault_label"
    <3>1. Len(pending) = 1
      BY <1>1, <2>2
    <3>2. p = Len(code) - 1 /\ pc - 1 = Len(code) /\ Len(code) > 0
      BY <1>2, <2>1, <2>2, <3>1
    <3> HIDE DEF p
    <3>3. code[Len(code)].kind = "fault_label"
      BY <2>2, <3>2
    <3>4. ASSUME NEW j \in p + 1 .. Len(code)  PROVE IsLabel(code[j])
      <4>1. j = Len(code)
        BY <1>2, <3>2
      <4>2. code[j].kind = "fault_label"
        BY <3>3, <4>1
      <4> QED BY <4>2 DEF IsLabel
    <3>5. p \in Nat /\ p <= Len(code)
      BY <1>2, <3>2
    <3> QED BY <3>4, <3>5
  <2>3. CASE ~ (pc > 1 /\ code[pc - 1].kind = "fault_label")
    <3>1. Len(pending) = 0
      BY <1>1, <2>3
    <3>2. p = Len(code)
      BY <1>2, <2>1, <3>1
    <3> HIDE DEF p
    <3> QED BY <1>2, <3>2
  <2> QED BY <2>2, <2>3
<1> HIDE DEF p
\* A name that code does not define, neither does what has been made of it.
<1>5. ASSUME NEW n, n \notin CastIds, \A j \in DOMAIN code : code[j].id # n
      PROVE  \A d \in DOMAIN out : out[d].id # n
  <2>1. ASSUME NEW d \in DOMAIN out, out[d].id = n  PROVE FALSE
    <3>1. (\E j \in 1 .. p : Same(out[d], code[j])) \/ out[d].id \in {"cast"} \X (1 .. p) \X Nat
      BY <1>1 DEF Casted
    <3>2. CASE \E j \in 1 .. p : Same(out[d], code[j])
      <4>1. PICK j \in 1 .. p : Same(out[d], code[j])
        BY <3>2
      <4>2. j \in DOMAIN code
        BY <1>2, <1>4
      <4> QED BY <1>5, <2>1, <4>1, <4>2 DEF Same
    <3>3. CASE out[d].id \in {"cast"} \X (1 .. p) \X Nat
      <4>1. 1 .. p \subseteq Nat
        BY <1>4
      <4>2. out[d].id \in CastIds
        BY <3>3, <4>1 DEF CastIds
      <4> QED BY <1>5, <2>1, <4>2
    <3> QED BY <3>1, <3>2, <3>3
  <2> QED BY <2>1
<1>6. ASSUME NEW k \in DOMAIN out, NEW u \in DOMAIN out[k].uses, out[k].uses[u].name # NoName
      PROVE  LET use == out[k].uses[u]
             IN  DefinedBefore(out, k, use) \/ \A d \in DOMAIN out : out[d].id # use.name
  <2> DEFINE use == out[k].uses[u]
  <2>1. \/ DefinedBefore(out, k, use)
        \/ use.name \notin CastIds /\ \A j \in DOMAIN code : code[j].id # use.name
    BY <1>1, <1>6 DEF Casted
  <2> HIDE DEF use
  <2>2. CASE use.name \notin CastIds /\ \A j \in DOMAIN code : code[j].id # use.name
    BY <1>5, <2>2 DEF use
  <2> QED BY <2>1, <2>2 DEF use
<1>7. ASSUME NEW k \in DOMAIN out  PROVE Once(out, k) \/ ReadLater(out, k)
  <2>1. CASE out[k].id \in TestIds \cup CastIds
    BY <1>1, <2>1 DEF Casted
  <2>2. CASE out[k].id \notin TestIds \cup CastIds
    <3>1. ReadLater(out, k) \/ \E j \in p + 1 .. Len(code) : Reads(code[j], out[k].id)
      BY <1>1, <2>2 DEF Casted
    <3>2. ASSUME NEW j \in p + 1 .. Len(code), Reads(code[j], out[k].id)  PROVE FALSE
      <4>1. j \in DOMAIN code
        BY <1>2, <1>4
      <4> QED BY <1>3, <1>4, <3>2, <4>1 DEF CodeFacts
    <3> QED BY <3>1, <3>2
  <2> QED BY <2>1, <2>2
<1>8. ASSUME NEW j \in 1 .. Len(test) - 1, test[j].kind = "fault_label", ~ IsLabel(test[j + 1])
      PROVE  \E k \in 1 .. Len(out) - 1 : out[k].id = test[j].id /\ out[k + 1].id = test[j + 1].id
  <2>1. PICK k \in 1 .. Len(code) - 1 : code[k] = test[j] /\ code[k + 1] = test[j + 1]
    BY <1>1, <1>8 DEF Resolved
  <2>2. k \in 1 .. p - 1
    <3>1. k + 1 \in 1 .. Len(code) /\ ~ IsLabel(code[k + 1])
      BY <1>2, <1>8, <2>1
    <3>2. k + 1 \in 1 .. p
      BY <1>2, <1>4, <3>1
    <3> QED BY <1>2, <1>4, <3>2
  <2> QED BY <1>1, <1>8, <2>1, <2>2 DEF Casted
<1>9. Legal(out)
  BY <1>6, <1>7, <1>8 DEF Legal
<1>10. Legal(code)'
  <2>1. Legal(out) /\ code' = out /\ test' = test
    BY <1>1, <1>9
  <2> QED BY ONLY <2>1 DEF Legal
<1> QED BY <1>1, <1>10 DEF LegalizerInv

\* Every step of the legalizer keeps it, and the allocator keeps what it is given.
LEMMA LegalizerStep == LegalizerInv /\ CodeInv /\ [Next]_vars => LegalizerInv'
<1> SUFFICES ASSUME LegalizerInv, CodeInv, [Next]_vars  PROVE LegalizerInv'
  OBVIOUS
<1>1. CASE Legalize
  BY <1>1, ResolveStep, StartCastsStep, CastStep DEF Legalize
<1>2. CASE StartScan
  BY <1>2, StartScanStep
<1>3. ASSUME stage \in {"scan", "run"}, stage' \in {"scan", "run", "failed"}, UNCHANGED <<test, code>>
      PROVE  LegalizerInv'
  <2>1. test' \in Tests /\ stage' \notin {"immediates", "casts"}
    BY <1>3 DEF LegalizerInv
  <2>2. Legal(code)'
    <3>1. Legal(code) /\ code' = code /\ test' = test
      BY <1>3 DEF LegalizerInv
    <3> QED BY ONLY <3>1 DEF Legal
  <2> QED BY <2>1, <2>2 DEF LegalizerInv
<1>4. CASE Analyze \/ FailToPlace \/ FinishScan \/ Execute
  BY <1>3, <1>4 DEF Analyze, FailToPlace, Scanning, FinishScan, Execute
<1>5. CASE PlaceInterval
  BY <1>3, <1>5 DEF PlaceInterval, Scanning, legalizerVars
<1>6. CASE UNCHANGED vars
  <2>1. UNCHANGED <<test, code, out, pc, resolved, pending, stage>>
    BY <1>6 DEF vars, legalizerVars
  <2> QED BY <2>1 DEF LegalizerInv, Resolved, Casted, Legal, TestIds
<1> QED BY <1>1, <1>2, <1>4, <1>5, <1>6 DEF Next, Stop

\* A test that no pass has looked at.
LEMMA LegalizerStarts == Init => LegalizerInv
<1> SUFFICES ASSUME Init  PROVE LegalizerInv
  OBVIOUS
<1>1. /\ test \in Tests /\ code = test /\ out = << >> /\ pc = 1 /\ resolved = {} /\ pending = << >>
      /\ stage = "immediates"
  BY DEF Init, LegalizerInit
<1>2. pc - 1 = 0
  BY <1>1
<1>3. Resolved(out, 0)
  <2>1. (\A k \in DOMAIN out : FALSE) /\ (\A j \in 1 .. 0 : FALSE) /\ \A j \in 1 .. 0 - 1 : FALSE
    BY <1>1
  <2> QED BY <2>1 DEF Resolved
<1>4. resolved = {test[k].id : k \in 1 .. pc - 1}
  BY <1>1
<1> QED BY <1>1, <1>2, <1>3, <1>4 DEF LegalizerInv

\* The invariant holds in every state.
THEOREM LegalizerInvariant == Spec => []LegalizerInv
<1>1. IInv => CodeInv
  BY DEF IInv
<1> QED BY <1>1, LegalizerStarts, LegalizerStep, ScanInvariant, PTL DEF Spec

\* The two passes of the legalizer: code that is given to the allocator reads only
\* what was defined before with the type it is read in, or what was dropped behind
\* a label; a name is not defined behind its last use; a fault label is still right
\* before the instruction it stood before, whatever loads and casts were put there.
THEOREM LegalizerLeavesAProgram == Spec => []LegalizedCode
<1>1. ASSUME LegalizerInv, IInv  PROVE LegalizedCode
  <2> SUFFICES ASSUME stage \in {"scan", "run"}  PROVE LegalizedCode
    BY DEF LegalizedCode
  <2>1. Legal(code) /\ IsCode(code)
    BY <1>1 DEF LegalizerInv, IInv, CodeInv
  <2>2. Len(code) \in Nat /\ DOMAIN code = 1 .. Len(code)
    BY <2>1, CodeType
  <2>3. ASSUME NEW k \in DOMAIN code, NEW v \in DOMAIN code[k].uses, code[k].uses[v].name # NoName
        PROVE  LET u == code[k].uses[v]
               IN  Dropped(u.name) \/ \E d \in Definitions(u.name) : d < k /\ code[d].type = u.type
    <3> DEFINE u == code[k].uses[v]
    <3>1. DefinedBefore(code, k, u) \/ \A d \in DOMAIN code : code[d].id # u.name
      BY <2>1, <2>3 DEF Legal
    <3> HIDE DEF u
    <3>2. CASE DefinedBefore(code, k, u)
      <4>1. PICK d \in 1 .. k - 1 : code[d].id = u.name /\ code[d].dest # "none" /\ code[d].type = u.type
        BY <3>2 DEF DefinedBefore
      <4>2. d \in DOMAIN code /\ d < k
        BY <2>2
      <4>3. d \in Definitions(u.name)
        BY <4>1, <4>2 DEF Definitions, Defines
      <4> QED BY <4>1, <4>2, <4>3 DEF u
    <3>3. CASE \A d \in DOMAIN code : code[d].id # u.name
      BY <3>3 DEF Dropped, u
    <3> QED BY <3>1, <3>2, <3>3
  <2>4. ASSUME NEW k \in DOMAIN code, Defines(code[k])  PROVE k <= Interval(code[k].id).end
    <3> DEFINE n == code[k].id
    <3>1. n \in LiveNames /\ k \in Definitions(n)
      BY <2>4 DEF LiveNames, Definitions
    <3>2. /\ Interval(n).start \in Definitions(n) /\ Interval(n).start <= Interval(n).end
          /\ \A l \in Uses(n) : l <= Interval(n).end
          /\ Interval(n).end \in DOMAIN code
      BY <2>1, <3>1, IntervalType
    <3>3. CASE Once(code, k)
      <4>1. Interval(n).start = k
        BY <3>2, <3>3 DEF Once, Definitions
      <4> QED BY <3>2, <4>1
    <3>4. CASE ReadLater(code, k)
      <4>1. PICK l \in DOMAIN code : l > k /\ Reads(code[l], n)
        BY <3>4 DEF ReadLater
      <4>2. l \in Uses(n)
        BY <4>1 DEF Uses, Reads
      <4>3. l <= Interval(n).end
        BY <3>2, <4>2
      <4> HIDE DEF n
      <4> QED BY <2>2, <3>2, <4>1, <4>3 DEF n
    <3> QED BY <2>1, <3>3, <3>4 DEF Legal
  <2>5. \A k \in DOMAIN code : \A u \in ToSet(code[k].uses) :
           u.name # NoName => \/ Dropped(u.name)
                              \/ \E d \in Definitions(u.name) : d < k /\ code[d].type = u.type
    BY <2>3 DEF ToSet
  <2>6. \A j \in 1 .. Len(test) - 1 :
           test[j].kind = "fault_label" /\ ~ IsLabel(test[j + 1]) =>
               \E k \in 1 .. Len(code) - 1 : code[k].id = test[j].id /\ code[k + 1].id = test[j + 1].id
    BY <2>1 DEF Legal
  <2> QED BY <2>4, <2>5, <2>6 DEF LegalizedCode
<1> QED BY <1>1, LegalizerInvariant, ScanInvariant, PTL

\* Whatever the test: an instruction of the rewritten code that reads a value by
\* its name, one that stays in a register, reads what it read before
\* _apply_linear_scan, whatever is clobbered in between.  As ValuesArrive says
\* itself, spilled values are left out, what a cast reads by the name of a register,
\* and a test whose hard-coded register was refused.
THEOREM ValuesReachTheirUses == Spec => []ValuesArrive
<1>1. IInv /\ LegalizedCode => ValuesArrive
  BY DEF IInv
<1> QED BY <1>1, ScanInvariant, LegalizerLeavesAProgram, PTL

-----------------------------------------------------------------------------
\* What TypeOK says of the scan follows from its invariant, but for two things: a
\* register is never lost, and a name has a place that is one.
Shared == Registers \subseteq free \cup Range(allocated)

PlaceOK(place, hard, given) == place.reg \in Registers \cup hard \/ place.slot \in 1 .. given

\* Nobody holds a register before being placed; nobody has a place before the scan.
PlacesInv ==
    /\ slots \in Nat
    /\ Shared
    /\ DOMAIN allocated \cap QueueNames = {}
    /\ stage \in {"immediates", "casts"} => register_map = << >>
    /\ \A n \in DOMAIN register_map : PlaceOK(register_map[n], HardRegisters, slots)

\* A name that is put on record has a place if it is given one.
LEMMA PutKeeps ==
  ASSUME NEW f, NEW k, NEW v, NEW hard, NEW given,
         \A n \in DOMAIN f : PlaceOK(f[n], hard, given), PlaceOK(v, hard, given)
  PROVE  \A n \in DOMAIN Put(f, k, v) : PlaceOK(Put(f, k, v)[n], hard, given)
BY DEF Put

\* A register that an expired interval does not give back stays with who holds it.
LEMMA ReturnedOrHeld ==
  ASSUME Shared, NEW i, NEW r \in Registers
  PROVE  r \in PoolAt(i) \/ \E n \in DOMAIN Held(i) : r = Held(i)[n]
<1>1. CASE r \in free
  BY <1>1 DEF PoolAt
<1>2. CASE r \in Range(allocated)
  <2>1. PICK n \in DOMAIN allocated : r = allocated[n]
    BY <1>2 DEF Range
  <2>2. CASE \E a \in Expired(i) : n = a.name
    BY <2>1, <2>2 DEF PoolAt
  <2>3. CASE ~ \E a \in Expired(i) : n = a.name
    <3>1. n \in DOMAIN allocated \ {a.name : a \in Expired(i)}
      BY <2>3
    <3>2. n \in DOMAIN Held(i) /\ Held(i)[n] = allocated[n]
      BY <3>1 DEF Held
    <3> QED BY <2>1, <3>2
  <2> QED BY <2>2, <2>3
<1> QED BY <1>1, <1>2 DEF Shared

\* An interval that is granted a register takes it from the pool; none is lost.
LEMMA GrantKeepsPlaces ==
  ASSUME IsCode(code), ScanInv, PlacesInv, queue # << >>, stage = "scan", stage' = "scan",
         code' = code, queue' = Tail(queue), Grant(Head(queue))
  PROVE  PlacesInv'
<1>0. PICK i : i = Head(queue)
  OBVIOUS
<1>1. PICK r \in Granted(i) :
         /\ free' = PoolAt(i) \ {r}
         /\ allocated' = Put(Held(i), i.name, r)
         /\ register_map' = Put(register_map, i.name, InRegister(r))
  BY <1>0 DEF Grant
<1>2. slots' = slots /\ slots \in Nat
  BY DEF Grant, PlacesInv
<1>3. /\ PoolAt(i) \subseteq Registers
      /\ \A n \in DOMAIN Held(i) : /\ n \in DOMAIN allocated /\ Held(i)[n] = allocated[n]
                                   /\ Held(i)[n] \notin PoolAt(i)
  BY <1>0, PoolReturned
<1>4. r \in PoolAt(i) /\ r \in Registers
  BY <1>1, <1>3 DEF Granted, Candidates
<1>5. i.name \in QueueNames /\ QueueNames' = QueueNames \ {i.name}
  <2>1. 1 \in DOMAIN queue /\ i = queue[1]
    BY <1>0, HeadOfQueue DEF ScanInv
  <2>2. {Tail(queue)[k].name : k \in DOMAIN Tail(queue)} = QueueNames \ {i.name}
    BY <1>0, HeadOfQueue DEF ScanInv
  <2> QED BY <2>1, <2>2 DEF QueueNames
<1>6. i.name \notin DOMAIN Held(i)
  BY <1>3, <1>5 DEF PlacesInv
<1>7. /\ DOMAIN allocated' = {i.name} \cup DOMAIN Held(i) /\ allocated'[i.name] = r
      /\ \A n \in DOMAIN Held(i) : allocated'[n] = Held(i)[n]
  BY <1>1, <1>6 DEF Put
<1>8. Shared'
  <2> SUFFICES ASSUME NEW s \in Registers  PROVE s \in free' \cup Range(allocated')
    BY DEF Shared, Registers
  <2>1. s \in PoolAt(i) \/ \E n \in DOMAIN Held(i) : s = Held(i)[n]
    BY ReturnedOrHeld DEF PlacesInv
  <2> QED BY <1>1, <1>7, <2>1 DEF Range
<1>9. DOMAIN allocated' \cap QueueNames' = {}
  BY <1>3, <1>5, <1>7 DEF PlacesInv
<1>10. \A n \in DOMAIN register_map' : PlaceOK(register_map'[n], HardRegisters', slots')
  <2>1. HardRegisters' = HardRegisters
    BY DEF HardRegisters, HardCoded
  <2>2. \A n \in DOMAIN register_map : PlaceOK(register_map[n], HardRegisters, slots)
    BY DEF PlacesInv
  <2>3. PlaceOK(InRegister(r), HardRegisters, slots)
    BY <1>4 DEF PlaceOK, InRegister
  <2> QED BY <1>1, <1>2, <2>1, <2>2, <2>3, PutKeeps
<1> QED BY <1>2, <1>8, <1>9, <1>10 DEF PlacesInv

\* An interval that is spilled, or takes another's register, gets a new slot for one
\* of the two; none is lost.
LEMMA SpillKeepsPlaces ==
  ASSUME IsCode(code), ScanInv, PlacesInv, queue # << >>, stage = "scan", stage' = "scan",
         code' = code, queue' = Tail(queue), Spill(Head(queue))
  PROVE  PlacesInv'
<1>0. PICK i : i = Head(queue)
  OBVIOUS
<1>1. PICK last \in SameType(i) :
         \/ register_map' = Put(register_map, i.name, OnStack(slots + 1))
         \/ register_map' = Put(Put(register_map, last.name, OnStack(slots + 1)),
                                i.name, register_map[last.name])
  BY <1>0 DEF Spill
<1>2. slots' = slots + 1 /\ free' = PoolAt(i) /\ allocated' = Held(i) /\ slots \in Nat
  BY <1>0 DEF Spill, PlacesInv
<1>3. /\ \A n \in DOMAIN Held(i) : n \in DOMAIN allocated
      /\ \A a \in Live(i) : a \in active
  BY <1>0, PoolReturned
<1>4. i.name \in QueueNames /\ QueueNames' = QueueNames \ {i.name}
  <2>1. 1 \in DOMAIN queue /\ i = queue[1]
    BY <1>0, HeadOfQueue DEF ScanInv
  <2>2. {Tail(queue)[k].name : k \in DOMAIN Tail(queue)} = QueueNames \ {i.name}
    BY <1>0, HeadOfQueue DEF ScanInv
  <2> QED BY <2>1, <2>2 DEF QueueNames
<1>5. Shared'
  <2> SUFFICES ASSUME NEW s \in Registers  PROVE s \in free' \cup Range(allocated')
    BY DEF Shared, Registers
  <2>1. s \in PoolAt(i) \/ \E n \in DOMAIN Held(i) : s = Held(i)[n]
    BY ReturnedOrHeld DEF PlacesInv
  <2> QED BY <1>2, <2>1 DEF Range
<1>6. DOMAIN allocated' \cap QueueNames' = {}
  BY <1>2, <1>3, <1>4 DEF PlacesInv
<1>7. last.name \in DOMAIN register_map
  <2>1. last \in active
    BY <1>3 DEF SameType
  <2>2. last.name \in InRegisters
    BY <2>1 DEF ScanInv, ActiveInv
  <2> QED BY <2>2 DEF InRegisters, Placed
<1>8. \A n \in DOMAIN register_map' : PlaceOK(register_map'[n], HardRegisters', slots')
  <2> DEFINE spilled == OnStack(slots + 1)
             one == Put(register_map, i.name, spilled)
             two == Put(register_map, last.name, spilled)
  <2>1. HardRegisters' = HardRegisters
    BY DEF HardRegisters, HardCoded
  <2>2. \A n \in DOMAIN register_map : PlaceOK(register_map[n], HardRegisters, slots + 1)
    <3>1. \A k \in 1 .. slots : k \in 1 .. slots + 1
      BY <1>2
    <3>2. \A n \in DOMAIN register_map : PlaceOK(register_map[n], HardRegisters, slots)
      BY DEF PlacesInv
    <3> QED BY <3>1, <3>2 DEF PlaceOK
  <2>3. PlaceOK(spilled, HardRegisters, slots + 1)
    <3>1. spilled.slot = slots + 1 /\ slots + 1 \in 1 .. slots + 1
      BY <1>2 DEF OnStack
    <3> HIDE DEF spilled
    <3> QED BY <3>1 DEF PlaceOK
  <2>4. PlaceOK(register_map[last.name], HardRegisters, slots + 1)
    BY <1>7, <2>2
  <2>5. \A n \in DOMAIN two : PlaceOK(two[n], HardRegisters, slots + 1)
    BY <2>2, <2>3, PutKeeps
  <2>6. CASE register_map' = one
    BY <1>2, <2>1, <2>2, <2>3, <2>6, PutKeeps
  <2>7. CASE register_map' = Put(two, i.name, register_map[last.name])
    <3> HIDE DEF two
    <3> QED BY <1>2, <2>1, <2>4, <2>5, <2>7, PutKeeps
  <2> QED BY <1>1, <2>6, <2>7
<1> QED BY <1>2, <1>5, <1>6, <1>8 DEF PlacesInv

\* _analyze_hardcoded: what is recorded is a register that the code names.
LEMMA AnalyzeKeepsPlaces ==
  ASSUME IsCode(code), PlacesInv, allocated = << >>, free = Registers, Analyze
  PROVE  PlacesInv'
<1>1. /\ stage' = "scan" /\ code' = code /\ slots' = slots /\ free' = free /\ allocated' = allocated
      /\ register_map' = [n \in {code[k].id : k \in HardCoded} |-> InRegister(HardRegister(n))]
  BY DEF Analyze
<1>2. ASSUME NEW n \in {code[k].id : k \in HardCoded}
      PROVE  HardRegister(n) \in HardRegisters
  <2> DEFINE T == {k \in HardCoded : code[k].id = n}
  <2>1. Len(code) \in Nat /\ DOMAIN code = 1 .. Len(code)
    BY CodeType
  <2>2. T \in SUBSET (0 .. Len(code)) /\ T # {} /\ T \subseteq HardCoded
    BY <1>2, <2>1 DEF HardCoded
  <2>3. HardRegister(n) = code[Max(T)].reg
    BY DEF HardRegister
  <2> HIDE DEF T
  <2>4. Max(T) \in T
    BY <2>1, <2>2, MaxType
  <2> QED BY <2>2, <2>3, <2>4 DEF HardRegisters
<1>3. \A n \in DOMAIN register_map' : PlaceOK(register_map'[n], HardRegisters', slots')
  <2>1. \A n \in DOMAIN register_map' :
           /\ n \in {code[k].id : k \in HardCoded} /\ register_map'[n].reg = HardRegister(n)
    BY <1>1 DEF InRegister
  <2>2. HardRegisters' = HardRegisters
    BY <1>1 DEF HardCoded, HardRegisters
  <2>3. \A n \in DOMAIN register_map' : register_map'[n].reg \in HardRegisters
    BY <1>2, <2>1
  <2> QED BY <2>2, <2>3 DEF PlaceOK
<1>4. Shared' /\ DOMAIN allocated' \cap QueueNames' = {}
  BY <1>1 DEF Shared, Registers
<1> QED BY <1>1, <1>3, <1>4 DEF PlacesInv

\* The places change with the scan only.
LEMMA PlacesStep == IInv /\ PlacesInv /\ [Next]_vars => PlacesInv'
<1> SUFFICES ASSUME IInv, PlacesInv, [Next]_vars  PROVE PlacesInv'
  OBVIOUS
<1>1. IsCode(code) /\ Fresh /\ (Placing => ScanInv)
  BY DEF IInv, CodeInv
<1>2. CASE Legalize
  <2>1. /\ UNCHANGED <<queue, free, allocated, register_map, slots>>
        /\ stage \in {"immediates", "casts"}
    BY <1>2 DEF Legalize, scanVars, ResolveImmediates, StartCasts, InsertCasts
  <2>2. register_map = << >>
    BY <2>1 DEF PlacesInv
  <2> QED BY <2>1, <2>2 DEF PlacesInv, Shared, QueueNames, Registers
<1>3. CASE StartScan
  <2>1. /\ UNCHANGED <<queue, free, allocated, register_map, slots>>
        /\ stage = "casts" /\ stage' = "scan"
    BY <1>3 DEF StartScan, NextPass
  <2>2. register_map = << >>
    BY <2>1 DEF PlacesInv
  <2> QED BY <2>1, <2>2 DEF PlacesInv, Shared, QueueNames, Registers
<1>4. CASE Analyze
  <2>1. stage = "scan" /\ pc = 1
    BY <1>4 DEF Analyze
  <2> QED BY <1>1, <1>4, <2>1, AnalyzeKeepsPlaces DEF Fresh
<1>5. CASE PlaceInterval
  <2>1. /\ stage = "scan" /\ pc = 2 /\ queue # << >> /\ stage' = "scan" /\ code' = code
        /\ queue' = Tail(queue) /\ (Grant(Head(queue)) \/ Spill(Head(queue)))
    BY <1>5 DEF PlaceInterval, Scanning, legalizerVars
  <2>2. ScanInv
    BY <1>1, <2>1 DEF Placing
  <2> QED BY <1>1, <2>1, <2>2, GrantKeepsPlaces, SpillKeepsPlaces
<1>6. ASSUME UNCHANGED <<code, queue, free, allocated, register_map, slots>>,
             stage' = stage \/ stage' \notin {"immediates", "casts"}
      PROVE  PlacesInv'
  <2>1. HardRegisters' = HardRegisters
    BY <1>6 DEF HardCoded, HardRegisters
  <2> QED BY <1>6, <2>1 DEF PlacesInv, Shared, QueueNames, Registers
<1>7. CASE FailToPlace \/ FinishScan \/ Execute
  BY <1>6, <1>7 DEF FailToPlace, FinishScan, Execute, scanVars
<1>8. CASE UNCHANGED vars
  BY <1>6, <1>8 DEF vars, legalizerVars, scanVars
<1> QED BY <1>2, <1>3, <1>4, <1>5, <1>7, <1>8 DEF Next, Stop

\* A pass, or the scan, has raised.
Failed == stage = "failed"

\* Whatever registers are drawn and whoever is spilled or fails, the pool and the
\* names that hold registers share all registers out between them (register_pool.py),
\* an active interval holds one, and every name has a place.
THEOREM TypeCorrect == Spec => []TypeOK
<1>1. Init => PlacesInv
  <2> SUFFICES ASSUME Init  PROVE PlacesInv
    OBVIOUS
  <2>1. free = Registers /\ allocated = << >> /\ register_map = << >> /\ slots = 0
    BY DEF Init
  <2> QED BY <2>1 DEF PlacesInv, Shared
<1>2. Spec => []PlacesInv
  BY <1>1, PlacesStep, ScanInvariant, PTL DEF Spec
<1>3. ASSUME IInv, LegalizerInv, PlacesInv, ~ Failed  PROVE TypeOK
  <2>1. /\ CodeInv /\ StageInv /\ Fresh /\ (Placing => ScanInv) /\ test \in Tests
        /\ stage \in {"immediates", "casts", "scan", "run"}
        /\ Len(code) \in Nat
    BY <1>3, CodeType DEF IInv, LegalizerInv, StageInv, Stages, CodeInv, Failed
  <2>2. pc \in 1 .. Len(code) + 2
    <3>1. CASE stage \in {"immediates", "casts"}
      BY <2>1, <3>1 DEF CodeInv
    <3>2. CASE stage = "scan"
      BY <2>1, <3>2 DEF StageInv
    <3>3. CASE stage = "run"
      BY <2>1, <3>3 DEF StageInv
    <3> QED BY <2>1, <3>1, <3>2, <3>3
  <2>3. PoolInv /\ \A a \in active : a.name \in DOMAIN allocated
    <3>1. CASE Placing
      BY <2>1, <3>1 DEF ScanInv, ActiveInv
    <3>2. CASE ~ Placing
      <4>1. free = Registers /\ allocated = << >> /\ active = {}
        BY <2>1, <3>2 DEF Placing, Fresh, StageInv
      <4> QED BY <4>1 DEF PoolInv
    <3> QED BY <3>1, <3>2
  <2>4. free \cap Range(allocated) = {} /\ free \cup Range(allocated) = Registers
    BY <1>3, <2>3 DEF PoolInv, PlacesInv, Shared, Range
  <2>5. \A n, o \in DOMAIN allocated : n # o => allocated[n] # allocated[o]
    BY <2>3 DEF PoolInv
  <2> QED BY <1>3, <2>1, <2>2, <2>3, <2>4, <2>5 DEF TypeOK, PlacesInv, PlaceOK
<1>4. Init => ~ Failed
  BY DEF Init, LegalizerInit, Failed
<1>5. TypeOK /\ [Next]_vars /\ Failed' => TypeOK'
  <2> SUFFICES ASSUME TypeOK, [Next]_vars, stage' = "failed"  PROVE TypeOK'
    BY DEF Failed
  <2>1. UNCHANGED <<test, code, pc, active, free, allocated, register_map, slots>>
    <3>1. CASE Legalize
      BY <3>1 DEF Legalize, scanVars, ResolveImmediates, StartCasts, NextPass, InsertCasts
    <3>2. CASE StartScan \/ Analyze \/ FinishScan \/ Execute \/ FailToPlace
      BY <3>2 DEF StartScan, NextPass, Analyze, FinishScan, Execute, FailToPlace, scanVars
    <3>3. CASE PlaceInterval
      BY <3>3 DEF PlaceInterval, Scanning, legalizerVars
    <3>4. CASE UNCHANGED vars
      BY <3>4 DEF vars, legalizerVars, scanVars
    <3> QED BY <3>1, <3>2, <3>3, <3>4 DEF Next, Stop
  <2>2. HardRegisters' = HardRegisters /\ Range(allocated') = Range(allocated)
    BY <2>1 DEF HardCoded, HardRegisters, Range
  <2>3. /\ test' \in Tests /\ stage' \in {"immediates", "casts", "scan", "run", "failed"}
        /\ pc' \in 1 .. Len(code') + 2 /\ slots' \in Nat
    BY <2>1 DEF TypeOK
  <2>4. /\ \A n, o \in DOMAIN allocated' : n # o => allocated'[n] # allocated'[o]
        /\ \A a \in active' : a.name \in DOMAIN allocated'
    BY <2>1 DEF TypeOK
  <2>5. free' \cap Range(allocated') = {} /\ free' \cup Range(allocated') = Registers
    BY <2>1, <2>2 DEF TypeOK
  <2>6. \A n \in DOMAIN register_map' :
           \/ register_map'[n].reg \in Registers \cup HardRegisters'
           \/ register_map'[n].slot \in 1 .. slots'
    BY <2>1, <2>2 DEF TypeOK
  <2> QED BY <2>3, <2>4, <2>5, <2>6 DEF TypeOK, Registers
<1> QED BY <1>2, <1>3, <1>4, <1>5, ScanInvariant, LegalizerInvariant, PTL DEF Spec
=============================================================================
