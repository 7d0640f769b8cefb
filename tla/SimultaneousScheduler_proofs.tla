-------------------- MODULE SimultaneousScheduler_proofs --------------------
(***************************************************************************)
(* Proofs, for any number of harts and tests, that the barriers keep all   *)
(* harts of the simultaneous scheduler in the same test, that a run which  *)
(* passes has covered the sequence, and that the barrier routine, under    *)
(* this scheduler, implements the atomic one.                              *)
(***************************************************************************)
EXTENDS SimultaneousScheduler, Eot_proofs

-----------------------------------------------------------------------------
(***************************************************************************)
(* The routine: os_barrier_amo keeps its invariant and implements the      *)
(* atomic Barrier, step by step.  This holds under any scheduler that      *)
(* calls it, which supplies the steps outside the barrier.                 *)
(***************************************************************************)
\* There is at least one hart.
LEMMA NumHartsFact == NumHarts \in Nat /\ NumHarts > 0
<1>1. NumHarts \in Nat
  BY EotAssumption, FS_CardinalityType DEF NumHarts
<1>2. NumHarts # 0
  BY EotAssumption, FS_EmptySet DEF NumHarts
<1> QED
  BY <1>1, <1>2

\* A set of harts is finite, and taking a hart out of it leaves one less.
LEMMA HartSets ==
  ASSUME NEW S \in SUBSET Harts
  PROVE  /\ IsFiniteSet(S)
         /\ Cardinality(S) \in Nat
         /\ Cardinality(S) <= NumHarts
         /\ Cardinality(S) = 0 <=> S = {}
         /\ \A x \in S : /\ Cardinality(S) > 0
                         /\ Cardinality(S \ {x}) = Cardinality(S) - 1
                         /\ Cardinality(S) = 1 => S = {x}
<1>1. IsFiniteSet(S) /\ Cardinality(S) <= NumHarts
  BY EotAssumption, FS_Subset DEF NumHarts
<1>2. Cardinality(S) \in Nat
  BY <1>1, FS_CardinalityType
<1>3. Cardinality(S) = 0 <=> S = {}
  BY <1>1, FS_EmptySet
<1>4. ASSUME NEW x \in S
      PROVE  /\ Cardinality(S) > 0
             /\ Cardinality(S \ {x}) = Cardinality(S) - 1
             /\ Cardinality(S) = 1 => S = {x}
  <2>1. Cardinality(S \ {x}) = Cardinality(S) - 1
    BY <1>1, FS_RemoveElement
  <2>2. Cardinality(S) > 0
    BY <1>2, <1>3
  <2>3. ASSUME Cardinality(S) = 1 PROVE S = {x}
    <3>1. IsFiniteSet(S \ {x}) /\ Cardinality(S \ {x}) = 0
      BY <1>1, <2>1, <2>3, FS_RemoveElement
    <3>2. S \ {x} = {}
      BY <3>1, FS_EmptySet
    <3> QED
      BY <3>2
  <2> QED
    BY <2>1, <2>2, <2>3
<1> QED
  BY <1>1, <1>2, <1>3, <1>4

\* While a hart resets the barrier nobody has left, and everybody is to do.
LEMMA ResettingFact ==
  ASSUME BarrierInv, NEW h \in Harts, pc[h] \in Resetting
  PROVE  /\ Todo = Harts /\ Gone = {} /\ barrier_flag = 0
         /\ \A g \in Harts \ {h} : pc[g] \in Spinning
BY DEF BarrierInv, OpenInv, FlagInv, Opens, Todo, Gone, Resetting, Spinning, EotLabels

\* A step that changes neither the counter nor the sets keeps the sum.
LEMMA ArriveSame ==
  ASSUME ArriveInv, Gone' = Gone, Todo' = Todo, barrier_arrive_counter' = barrier_arrive_counter
  PROVE  ArriveInv'
BY DEF ArriveInv, NumHarts

\* A hart that has not arrived leaves: the barrier stays shut.
LEMMA ArriveLeft ==
  ASSUME BarrierInv, NEW L, EotTypeOK(L), NEW h \in Harts,
         pc[h] \notin EotLabels, h \notin Arrived, pc' = [pc EXCEPT ![h] = "end_test"],
         pc[h] \notin Resetting \cup Spinning \/ barrier_flag # 0,
         UNCHANGED <<barrier_flag, barrier_arrive_counter>>
  PROVE  ArriveInv'
<1>1. \A g \in Harts : pc[g] \notin Resetting
  BY ResettingFact DEF Resetting, Spinning
<1>2. h \in Todo /\ Todo' = Todo \ {h} /\ Gone' # {}
  BY <1>1 DEF Todo, Gone, Arrived, EotTypeOK, EotLabels, Resetting, Spinning
<1>3. Todo \in SUBSET Harts
  BY DEF Todo
<1> QED
  BY <1>2, <1>3, HartSets, NumHartsFact DEF ArriveInv, BarrierInv, BarrierTypeOK, NumHarts

\* Nobody is on the way out any more when the flag is cleared.
LEMMA NobodyDeparts ==
  ASSUME BarrierInv, NEW h \in Harts, pc[h] = "clear_flag" \/ (pc[h] \in Acquiring /\ lk[h] = 1)
  PROVE  barrier_depart_counter = NumHarts /\ Departing = {}
<1>1. Departing \in SUBSET Harts
  BY DEF Departing
<1>2. Cardinality(Departing) = 0
  BY <1>1, HartSets, NumHartsFact DEF BarrierInv, DepartInv
<1> QED
  BY <1>1, <1>2, HartSets DEF BarrierInv, DepartInv

\* The hart that is about to count itself is still counted as missing, so the
\* counter has room for it; when it is the last, nobody else is missing.
LEMMA ArriveRoom ==
  ASSUME NEW L, EotTypeOK(L), BarrierInv, NEW h \in Harts, pc[h] = "arrive"
  PROVE  /\ \A g \in Harts : pc[g] \notin Resetting
         /\ h \in Todo
         /\ Cardinality(Todo) \in Nat
         /\ Cardinality(Todo) > 0
         /\ Cardinality(Todo \ {h}) = Cardinality(Todo) - 1
         /\ barrier_arrive_counter + Cardinality(Todo) <= NumHarts
         /\ barrier_arrive_counter + 1 = NumHarts => Gone = {} /\ Todo = {h}
<1>1. \A g \in Harts : pc[g] \notin Resetting
  BY ResettingFact DEF Resetting, Spinning
<1>2. h \in Todo /\ Todo \in SUBSET Harts
  BY <1>1 DEF Todo, Gone, Arrived, EotLabels, Spinning
<1>3. /\ Cardinality(Todo) \in Nat
      /\ Cardinality(Todo) > 0
      /\ Cardinality(Todo \ {h}) = Cardinality(Todo) - 1
      /\ Cardinality(Todo) = 1 => Todo = {h}
  BY <1>2, HartSets
<1>4. barrier_arrive_counter + Cardinality(Todo) <= NumHarts
      /\ (Gone # {} => barrier_arrive_counter + Cardinality(Todo) < NumHarts)
  BY <1>3, NumHartsFact DEF BarrierInv, BarrierTypeOK, ArriveInv
<1> QED
  BY <1>1, <1>2, <1>3, <1>4, NumHartsFact DEF BarrierInv, BarrierTypeOK

\* Every step of the barrier keeps barrier_lock exclusive.
LEMMA LockStep ==
  ASSUME NEW L, EotTypeOK(L), EotInv, BarrierInv, NEW h \in Harts, BarrierStep(h)
  PROVE  LockInv'
<1> USE BarrierAssumption
        DEF BarrierInv, BarrierTypeOK, LockInv, EotTypeOK, LockedLabels, Acquiring, Goto,
            barrierVars
<1>1. CASE CheckEnded(h)
  BY <1>1 DEF CheckEnded, OsEndTest, TestFailed
<1>2. CASE TryLock(h)
  BY <1>2 DEF TryLock
<1>3. CASE SwapLock(h)
  BY <1>3 DEF SwapLock, AfterAcquire
<1>4. CASE ArriveTest(h)
  BY <1>4 DEF ArriveTest
<1>5. CASE DepartTest(h)
  BY <1>5 DEF DepartTest
<1>6. CASE Release0(h)
  BY <1>6 DEF Release0
<1>7. CASE DepartSpin(h)
  BY <1>7 DEF DepartSpin, Acquire
<1>8. CASE ClearFlag(h)
  BY <1>8 DEF ClearFlag
<1>9. CASE Arrive(h)
  BY <1>9 DEF Arrive
<1>10. CASE Release1(h)
  BY <1>10 DEF Release1, IsLast
<1>11. CASE ResetArrive(h)
  BY <1>11 DEF ResetArrive
<1>12. CASE ResetDepart(h)
  BY <1>12 DEF ResetDepart
<1>13. CASE SetFlag(h)
  BY <1>13 DEF SetFlag
<1>14. CASE FlagEnded(h)
  BY <1>14 DEF FlagEnded, OsEndTest
<1>15. CASE FlagSpin(h)
  BY <1>15 DEF FlagSpin, Acquire
<1>16. CASE Depart(h)
  BY <1>16 DEF Depart
<1>17. CASE Release2(h)
  BY <1>17 DEF Release2
<1> QED
  BY <1>1, <1>2, <1>3, <1>4, <1>5, <1>6, <1>7, <1>8, <1>9, <1>10, <1>11, <1>12, <1>13,
     <1>14, <1>15, <1>16, <1>17 DEF BarrierStep

\* Every step of the barrier keeps the types.
LEMMA TypeStep ==
  ASSUME NEW L, EotTypeOK(L), EotInv, BarrierInv, NEW h \in Harts, BarrierStep(h)
  PROVE  BarrierTypeOK'
<1> USE NumHartsFact, BarrierAssumption
        DEF BarrierInv, BarrierTypeOK, LockInv, EotTypeOK, Acquiring, Goto, barrierVars
<1>1. CASE CheckEnded(h)
  BY <1>1 DEF CheckEnded, OsEndTest, TestFailed
<1>2. CASE TryLock(h)
  BY <1>2 DEF TryLock
<1>3. CASE SwapLock(h)
  BY <1>3 DEF SwapLock, AfterAcquire
<1>4. CASE ArriveTest(h)
  BY <1>4 DEF ArriveTest
<1>5. CASE DepartTest(h)
  BY <1>5 DEF DepartTest
<1>6. CASE Release0(h)
  BY <1>6 DEF Release0
<1>7. CASE DepartSpin(h)
  BY <1>7 DEF DepartSpin, Acquire
<1>8. CASE ClearFlag(h)
  BY <1>8 DEF ClearFlag
<1>9. CASE Arrive(h)
  <2>0. /\ Cardinality(Todo) \in Nat
        /\ Cardinality(Todo) > 0
        /\ barrier_arrive_counter + Cardinality(Todo) <= NumHarts
    BY <1>9, ArriveRoom DEF Arrive
  <2>1. barrier_arrive_counter + 1 <= NumHarts
    BY <2>0
  <2> QED
    BY <2>1, <1>9 DEF Arrive, NumHarts
<1>10. CASE Release1(h)
  BY <1>10 DEF Release1, IsLast
<1>11. CASE ResetArrive(h)
  BY <1>11 DEF ResetArrive
<1>12. CASE ResetDepart(h)
  BY <1>12 DEF ResetDepart
<1>13. CASE SetFlag(h)
  BY <1>13 DEF SetFlag
<1>14. CASE FlagEnded(h)
  BY <1>14 DEF FlagEnded, OsEndTest
<1>15. CASE FlagSpin(h)
  BY <1>15 DEF FlagSpin, Acquire
<1>16. CASE Depart(h)
  <2>1. h \in Departing /\ Departing \in SUBSET Harts
    BY <1>16 DEF Depart, Departing
  <2>2. Cardinality(Departing) \in Nat /\ Cardinality(Departing) > 0
    BY <2>1, HartSets
  <2>3. barrier_depart_counter + 1 <= NumHarts
    BY <2>2 DEF DepartInv
  <2> QED
    BY <2>3, <1>16 DEF Depart, NumHarts
<1>17. CASE Release2(h)
  BY <1>17 DEF Release2
<1> QED
  BY <1>1, <1>2, <1>3, <1>4, <1>5, <1>6, <1>7, <1>8, <1>9, <1>10, <1>11, <1>12, <1>13,
     <1>14, <1>15, <1>16, <1>17 DEF BarrierStep

\* Every step of the barrier keeps the flag down while harts arrive.
LEMMA FlagStep ==
  ASSUME NEW L, EotTypeOK(L), EotInv, BarrierInv, NEW h \in Harts, BarrierStep(h)
  PROVE  FlagInv'
<1> USE NumHartsFact, BarrierAssumption
        DEF BarrierInv, BarrierTypeOK, LockInv, LockedLabels, FlagInv, OpenInv, Opens, IsLast,
            EotTypeOK, Acquiring, Spinning, Resetting, Goto, barrierVars
<1>1. CASE CheckEnded(h)
  BY <1>1 DEF CheckEnded, OsEndTest, TestFailed
<1>2. CASE TryLock(h)
  BY <1>2 DEF TryLock
<1>3. CASE SwapLock(h)
  BY <1>3 DEF SwapLock, AfterAcquire
<1>4. CASE ArriveTest(h)
  BY <1>4 DEF ArriveTest
<1>5. CASE DepartTest(h)
  BY <1>5 DEF DepartTest
<1>6. CASE Release0(h)
  BY <1>6 DEF Release0
<1>7. CASE DepartSpin(h)
  BY <1>7 DEF DepartSpin, Acquire
<1>8. CASE ClearFlag(h)
  BY <1>8 DEF ClearFlag
<1>9. CASE Arrive(h)
  BY <1>9 DEF Arrive
<1>10. CASE Release1(h)
  BY <1>10 DEF Release1, IsLast
<1>11. CASE ResetArrive(h)
  BY <1>11 DEF ResetArrive
<1>12. CASE ResetDepart(h)
  BY <1>12 DEF ResetDepart
<1>13. CASE SetFlag(h)
  BY <1>13 DEF SetFlag
<1>14. CASE FlagEnded(h)
  BY <1>14 DEF FlagEnded, OsEndTest
<1>15. CASE FlagSpin(h)
  BY <1>15 DEF FlagSpin, Acquire
<1>16. CASE Depart(h)
  BY <1>16 DEF Depart
<1>17. CASE Release2(h)
  BY <1>17 DEF Release2
<1> QED
  BY <1>1, <1>2, <1>3, <1>4, <1>5, <1>6, <1>7, <1>8, <1>9, <1>10, <1>11, <1>12, <1>13,
     <1>14, <1>15, <1>16, <1>17 DEF BarrierStep

\* Every step of the barrier keeps the others spinning while one opens it.
LEMMA OpenStep ==
  ASSUME NEW L, EotTypeOK(L), EotInv, BarrierInv, NEW h \in Harts, BarrierStep(h)
  PROVE  OpenInv'
<1> USE NumHartsFact, BarrierAssumption
        DEF BarrierInv, BarrierTypeOK, LockInv, LockedLabels, FlagInv, OpenInv, Opens, IsLast,
            EotTypeOK, Acquiring, Spinning, Resetting, Goto, barrierVars
<1>1. CASE CheckEnded(h)
  BY <1>1 DEF CheckEnded, OsEndTest, TestFailed
<1>2. CASE TryLock(h)
  BY <1>2 DEF TryLock
<1>3. CASE SwapLock(h)
  BY <1>3 DEF SwapLock, AfterAcquire
<1>4. CASE ArriveTest(h)
  BY <1>4 DEF ArriveTest
<1>5. CASE DepartTest(h)
  BY <1>5 DEF DepartTest
<1>6. CASE Release0(h)
  BY <1>6 DEF Release0
<1>7. CASE DepartSpin(h)
  BY <1>7 DEF DepartSpin, Acquire
<1>8. CASE ClearFlag(h)
  BY <1>8 DEF ClearFlag
<1>9. CASE Arrive(h)
  <2>1. CASE barrier_arrive_counter + 1 = NumHarts
    <3>1. Gone = {} /\ Todo = {h} /\ \A g \in Harts : pc[g] \notin Resetting
      BY <2>1, <1>9, ArriveRoom DEF Arrive
    <3>2. ASSUME NEW g \in Harts \ {h} PROVE g \in Arrived
      BY <3>1 DEF Todo
    <3>3. \A g \in Harts \ {h} : pc[g] \in Spinning
      BY <3>2, <1>9 DEF Arrived, Arrive
    <3> QED
      BY <2>1, <3>1, <3>3, <1>9 DEF Arrive, NumHarts
  <2>2. CASE barrier_arrive_counter + 1 # NumHarts
    <3>1. \A g \in Harts : ~ Opens(g)
      BY <1>9 DEF Arrive
    <3> QED
      BY <2>2, <3>1, <1>9 DEF Arrive, NumHarts
  <2> QED
    BY <2>1, <2>2
<1>10. CASE Release1(h)
  BY <1>10 DEF Release1, IsLast
<1>11. CASE ResetArrive(h)
  BY <1>11 DEF ResetArrive
<1>12. CASE ResetDepart(h)
  BY <1>12 DEF ResetDepart
<1>13. CASE SetFlag(h)
  <2>1. \A g \in Harts \ {h} : pc[g] \in Spinning
    BY <1>13 DEF SetFlag
  <2>2. \A g \in Harts : pc'[g] \in Spinning \cup {"complete"}
    BY <2>1, <1>13 DEF SetFlag
  <2> QED
    BY <2>2
<1>14. CASE FlagEnded(h)
  <2>1. CASE num_harts_ended # 0
    <3>1. Gone # {}
      BY <2>1, SomebodyIsGone
    <3>2. \A g \in Harts : ~ Opens(g)
      BY <3>1, <1>14 DEF FlagEnded, Gone, EotLabels
    <3>3. pc' = [pc EXCEPT ![h] = "end_test"]
      BY <2>1, <1>14 DEF FlagEnded, OsEndTest
    <3> QED
      BY <3>2, <3>3, <1>14 DEF FlagEnded, NumHarts
  <2>2. CASE num_harts_ended = 0
    BY <2>2, <1>14 DEF FlagEnded
  <2> QED
    BY <2>1, <2>2, <1>14 DEF FlagEnded
<1>15. CASE FlagSpin(h)
  BY <1>15 DEF FlagSpin, Acquire
<1>16. CASE Depart(h)
  BY <1>16 DEF Depart
<1>17. CASE Release2(h)
  BY <1>17 DEF Release2
<1> QED
  BY <1>1, <1>2, <1>3, <1>4, <1>5, <1>6, <1>7, <1>8, <1>9, <1>10, <1>11, <1>12, <1>13,
     <1>14, <1>15, <1>16, <1>17 DEF BarrierStep

\* Every step of the barrier keeps the count of those who have not arrived.
LEMMA ArriveStep ==
  ASSUME NEW L, EotTypeOK(L), EotInv, BarrierInv, NEW h \in Harts, BarrierStep(h)
  PROVE  ArriveInv'
<1> USE NumHartsFact
        DEF BarrierInv, BarrierTypeOK, LockInv, LockedLabels, FlagInv, OpenInv, Opens, IsLast,
            EotTypeOK, Acquiring, Spinning, Resetting, Goto, barrierVars
<1>1. CASE CheckEnded(h)
  <2>1. CASE pc' = [pc EXCEPT ![h] = "end_test"]
    BY <2>1, <1>1, ArriveLeft DEF CheckEnded, Arrived, EotLabels
  <2>2. CASE pc' = [pc EXCEPT ![h] = "try_lock"]
    <3>1. Gone' = Gone /\ Todo' = Todo
      BY <2>2, <1>1 DEF CheckEnded, Gone, Todo, Arrived, EotLabels
    <3> QED
      BY <1>1, <3>1, ArriveSame DEF CheckEnded
  <2> QED
    BY <2>1, <2>2, <1>1 DEF CheckEnded, OsEndTest, TestFailed
<1>2. CASE TryLock(h)
  <2>1. Gone' = Gone /\ Todo' = Todo
    BY <1>2 DEF TryLock, Gone, Todo, Arrived, EotLabels
  <2> QED
    BY <1>2, <2>1, ArriveSame DEF TryLock
<1>3. CASE SwapLock(h)
  <2>1. PICK l \in {"check_ended", "arrive_test", "clear_flag", "depart"} :
          pc' = [pc EXCEPT ![h] = l]
    BY <1>3 DEF SwapLock, AfterAcquire
  <2>2. Gone' = Gone /\ Todo' = Todo
    BY <2>1, <1>3 DEF SwapLock, Gone, Todo, Arrived, EotLabels
  <2> QED
    BY <1>3, <2>2, ArriveSame DEF SwapLock
<1>4. CASE ArriveTest(h)
  <2>1. Gone' = Gone /\ Todo' = Todo
    BY <1>4 DEF ArriveTest, Gone, Todo, Arrived, EotLabels
  <2> QED
    BY <1>4, <2>1, ArriveSame DEF ArriveTest
<1>5. CASE DepartTest(h)
  <2>1. Gone' = Gone /\ Todo' = Todo
    BY <1>5 DEF DepartTest, Gone, Todo, Arrived, EotLabels
  <2> QED
    BY <1>5, <2>1, ArriveSame DEF DepartTest
<1>6. CASE Release0(h)
  <2>1. Gone' = Gone /\ Todo' = Todo
    BY <1>6 DEF Release0, Gone, Todo, Arrived, EotLabels
  <2> QED
    BY <1>6, <2>1, ArriveSame DEF Release0
<1>7. CASE DepartSpin(h)
  <2>1. Gone' = Gone /\ Todo' = Todo
    BY <1>7 DEF DepartSpin, Acquire, Gone, Todo, Arrived, EotLabels
  <2> QED
    BY <1>7, <2>1, ArriveSame DEF DepartSpin, Acquire
<1>8. CASE ClearFlag(h)
  <2>1. barrier_flag = 1 => \A g \in Harts : pc[g] \notin Spinning
    BY <1>8, NobodyDeparts DEF ClearFlag, Departing
  <2>2. Gone' = Gone /\ Todo' = Todo
    BY <1>8, <2>1 DEF ClearFlag, Gone, Todo, Arrived, EotLabels
  <2> QED
    BY <1>8, <2>2, ArriveSame DEF ClearFlag
<1>9. CASE Arrive(h)
  <2>1. Todo' = Todo \ {h} /\ Gone' = Gone
    BY <1>9, ArriveRoom DEF Arrive, Gone, Todo, Arrived, EotLabels
  <2>2. Cardinality(Todo') = Cardinality(Todo) - 1 /\ Cardinality(Todo) \in Nat
    BY <1>9, <2>1, ArriveRoom DEF Arrive
  <2>3. barrier_arrive_counter' + Cardinality(Todo') = barrier_arrive_counter + Cardinality(Todo)
    BY <1>9, <2>2 DEF Arrive
  <2>4. NumHarts' = NumHarts
    BY DEF NumHarts
  <2> QED
    BY <2>1, <2>3, <2>4 DEF ArriveInv
<1>10. CASE Release1(h)
  <2>1. Gone' = Gone /\ Todo' = Todo
    BY <1>10 DEF Release1, IsLast, Gone, Todo, Arrived, EotLabels
  <2> QED
    BY <1>10, <2>1, ArriveSame DEF Release1, IsLast
<1>11. CASE ResetArrive(h)
  <2>1. Gone' = {} /\ Todo' = Harts
    BY <1>11 DEF ResetArrive, Gone, Todo, Arrived, EotLabels
  <2> QED
    BY <1>11, <2>1, NumHartsFact DEF ResetArrive, ArriveInv, NumHarts
<1>12. CASE ResetDepart(h)
  <2>1. Gone' = Gone /\ Todo' = Todo
    BY <1>12 DEF ResetDepart, Gone, Todo, Arrived, EotLabels
  <2> QED
    BY <1>12, <2>1, ArriveSame DEF ResetDepart
<1>13. CASE SetFlag(h)
  <2>0. Todo = Harts /\ Gone = {} /\ \A g \in Harts \ {h} : pc[g] \in Spinning
    BY <1>13, ResettingFact DEF SetFlag
  <2>1. Gone' = Gone /\ Todo' = Todo
    <3> HIDE DEF Todo
    <3>1. Gone' = {}
      BY <2>0, <1>13 DEF SetFlag, Gone, EotLabels
    <3>2. Arrived' = {}
      BY <2>0, <1>13 DEF SetFlag, Arrived
    <3>3. Todo' = Harts
      BY <3>1, <3>2, <2>0, <1>13 DEF SetFlag, Todo
    <3> QED
      BY <3>1, <3>3, <2>0
  <2> QED
    BY <1>13, <2>1, ArriveSame DEF SetFlag
<1>14. CASE FlagEnded(h)
  <2>1. CASE pc' = [pc EXCEPT ![h] = "end_test"]
    <3>1. CASE barrier_flag = 0
      <4>1. Gone # {} /\ Gone' # {}
        BY <2>1, <3>1, <1>14, SomebodyIsGone DEF FlagEnded, Gone, EotLabels
      <4>2. \A g \in Harts : pc[g] \notin Resetting
        BY <4>1, ResettingFact
      <4>3. Todo' = Todo
        BY <2>1, <3>1, <4>2, <1>14 DEF FlagEnded, Gone, Todo, Arrived, EotLabels
      <4> QED
        BY <4>1, <4>3, <1>14 DEF FlagEnded, ArriveInv, NumHarts
    <3>2. CASE barrier_flag # 0
      BY <2>1, <3>2, <1>14, ArriveLeft DEF FlagEnded, Arrived, EotLabels
    <3> QED
      BY <3>1, <3>2
  <2>2. CASE pc' = [pc EXCEPT ![h] = "flag_spin"]
    <3>1. Gone' = Gone /\ Todo' = Todo
      BY <2>2, <1>14 DEF FlagEnded, Gone, Todo, Arrived, EotLabels
    <3> QED
      BY <1>14, <3>1, ArriveSame DEF FlagEnded
  <2> QED
    BY <2>1, <2>2, <1>14 DEF FlagEnded, OsEndTest
<1>15. CASE FlagSpin(h)
  <2>1. Gone' = Gone /\ Todo' = Todo
    BY <1>15 DEF FlagSpin, Acquire, Gone, Todo, Arrived, EotLabels
  <2> QED
    BY <1>15, <2>1, ArriveSame DEF FlagSpin, Acquire
<1>16. CASE Depart(h)
  <2>1. Gone' = Gone /\ Todo' = Todo
    BY <1>16 DEF Depart, Gone, Todo, Arrived, EotLabels
  <2> QED
    BY <1>16, <2>1, ArriveSame DEF Depart
<1>17. CASE Release2(h)
  <2>1. Gone' = Gone /\ Todo' = Todo
    BY <1>17 DEF Release2, Gone, Todo, Arrived, EotLabels
  <2> QED
    BY <1>17, <2>1, ArriveSame DEF Release2
<1> QED
  BY <1>1, <1>2, <1>3, <1>4, <1>5, <1>6, <1>7, <1>8, <1>9, <1>10, <1>11, <1>12, <1>13,
     <1>14, <1>15, <1>16, <1>17 DEF BarrierStep

\* A step that lets nobody through keeps the sum, if it leaves the counter alone.
LEMMA DepartShrinks ==
  ASSUME BarrierInv, Departing' \subseteq Departing,
         barrier_depart_counter' = barrier_depart_counter,
         \A h \in Harts : pc'[h] = "clear_flag" \/ (pc'[h] \in Acquiring /\ lk'[h] = 1)
                            => barrier_depart_counter = NumHarts
  PROVE  DepartInv'
<1>1. Departing \in SUBSET Harts
  BY DEF Departing
<1>2. Cardinality(Departing') <= Cardinality(Departing)
  BY <1>1, HartSets, FS_Subset
<1>3. Cardinality(Departing) \in Nat /\ Cardinality(Departing') \in Nat
  BY <1>1, HartSets
<1>4. NumHarts' = NumHarts
  BY DEF NumHarts
<1>5. barrier_depart_counter' + Cardinality(Departing') <= NumHarts'
  BY <1>2, <1>3, <1>4, NumHartsFact DEF BarrierInv, BarrierTypeOK, DepartInv
<1> QED
  BY <1>4, <1>5 DEF DepartInv, Acquiring

\* Every step of the barrier keeps the count of those on the way out.
LEMMA DepartStep ==
  ASSUME NEW L, EotTypeOK(L), EotInv, BarrierInv, NEW h \in Harts, BarrierStep(h)
  PROVE  DepartInv'
<1>d. \A g \in Harts : pc[g] = "clear_flag" \/ (pc[g] \in Acquiring /\ lk[g] = 1)
                        => barrier_depart_counter = NumHarts
  BY DEF BarrierInv, DepartInv
<1> USE NumHartsFact, BarrierAssumption
        DEF BarrierInv, BarrierTypeOK, LockInv, LockedLabels, FlagInv, OpenInv, Opens, IsLast,
            EotTypeOK, Acquiring, Spinning, Resetting, Goto, barrierVars
<1>1. CASE CheckEnded(h)
  <2>1. Departing' \subseteq Departing
    BY <1>1 DEF CheckEnded, OsEndTest, TestFailed, Departing
  <2> QED
    BY <1>1, <2>1, DepartShrinks, <1>d DEF CheckEnded, OsEndTest, TestFailed
<1>2. CASE TryLock(h)
  <2>1. Departing' \subseteq Departing
    BY <1>2 DEF TryLock, Departing
  <2> QED
    BY <1>2, <2>1, DepartShrinks, <1>d DEF TryLock
<1>3. CASE SwapLock(h)
  <2>1. PICK l \in {"check_ended", "arrive_test", "clear_flag", "depart"} :
          /\ pc' = [pc EXCEPT ![h] = l]
          /\ l = "clear_flag" => lk[h] = 1
          /\ l = "depart" => lk[h] = 2
    BY <1>3 DEF SwapLock, AfterAcquire
  <2>2. Departing' \subseteq Departing
    BY <2>1, <1>3 DEF SwapLock, Departing
  <2> QED
    BY <1>3, <2>1, <2>2, DepartShrinks, <1>d DEF SwapLock
<1>4. CASE ArriveTest(h)
  <2>1. Departing' \subseteq Departing
    BY <1>4 DEF ArriveTest, Departing
  <2> QED
    BY <1>4, <2>1, DepartShrinks, <1>d DEF ArriveTest
<1>5. CASE DepartTest(h)
  <2>1. Departing' \subseteq Departing
    BY <1>5 DEF DepartTest, Departing
  <2> QED
    BY <1>5, <2>1, DepartShrinks, <1>d DEF DepartTest
<1>6. CASE Release0(h)
  <2>1. Departing' \subseteq Departing
    BY <1>6 DEF Release0, Departing
  <2> QED
    BY <1>6, <2>1, DepartShrinks, <1>d DEF Release0
<1>7. CASE DepartSpin(h)
  <2>1. Departing' \subseteq Departing
    BY <1>7 DEF DepartSpin, Acquire, Departing
  <2> QED
    BY <1>7, <2>1, DepartShrinks, <1>d DEF DepartSpin, Acquire
<1>8. CASE ClearFlag(h)
  <2>1. Departing = {} /\ Departing' = {}
    BY <1>8, NobodyDeparts DEF ClearFlag, Departing
  <2> QED
    BY <1>8, <2>1, DepartShrinks, <1>d DEF ClearFlag
<1>9. CASE Arrive(h)
  <2>1. Departing' \subseteq Departing
    BY <1>9 DEF Arrive, Departing
  <2> QED
    BY <1>9, <2>1, DepartShrinks, <1>d DEF Arrive
<1>10. CASE Release1(h)
  <2>1. Departing' \subseteq Departing
    BY <1>10 DEF Release1, IsLast, Departing
  <2> QED
    BY <1>10, <2>1, DepartShrinks, <1>d DEF Release1, IsLast
<1>11. CASE ResetArrive(h)
  <2>1. Departing' \subseteq Departing
    BY <1>11 DEF ResetArrive, Departing
  <2> QED
    BY <1>11, <2>1, DepartShrinks, <1>d DEF ResetArrive
<1>12. CASE ResetDepart(h)
  <2>1. Departing' = {}
    BY <1>12 DEF ResetDepart, Departing
  <2>2. \A g \in Harts : pc'[g] \in Spinning \cup {"set_flag"}
    BY <1>12 DEF ResetDepart
  <2> QED
    BY <1>12, <2>1, <2>2, FS_EmptySet DEF ResetDepart, DepartInv, NumHarts
<1>13. CASE SetFlag(h)
  <2>1. Departing' \subseteq Harts \ {h}
    BY <1>13 DEF SetFlag, Departing
  <2>2. Cardinality(Harts \ {h}) = NumHarts - 1 /\ IsFiniteSet(Harts \ {h})
    BY HartSets DEF NumHarts
  <2>3. Cardinality(Departing') <= NumHarts - 1 /\ Cardinality(Departing') \in Nat
    BY <2>1, <2>2, FS_Subset, HartSets
  <2>4. \A g \in Harts : pc'[g] \in Spinning \cup {"complete"}
    BY <1>13 DEF SetFlag
  <2>5. barrier_depart_counter' = 1
    BY <1>13 DEF SetFlag
  <2> QED
    BY <2>3, <2>4, <2>5 DEF DepartInv, NumHarts
<1>14. CASE FlagEnded(h)
  <2>1. Departing' \subseteq Departing
    BY <1>14 DEF FlagEnded, OsEndTest, Departing
  <2> QED
    BY <1>14, <2>1, DepartShrinks, <1>d DEF FlagEnded, OsEndTest
<1>15. CASE FlagSpin(h)
  <2>1. Departing' \subseteq Departing
    BY <1>15 DEF FlagSpin, Acquire, Departing
  <2> QED
    BY <1>15, <2>1, DepartShrinks, <1>d DEF FlagSpin, Acquire
<1>16. CASE Depart(h)
  <2>1. h \in Departing /\ Departing \in SUBSET Harts /\ Departing' = Departing \ {h}
    BY <1>16 DEF Depart, Departing
  <2>2. /\ Cardinality(Departing) \in Nat
        /\ Cardinality(Departing') = Cardinality(Departing) - 1
    BY <2>1, HartSets
  <2>3. \A g \in Harts : ~ (pc[g] = "clear_flag" \/ (pc[g] \in Acquiring /\ lk[g] = 1))
    BY <2>1, NobodyDeparts
  <2>4. barrier_depart_counter' + Cardinality(Departing') <= NumHarts'
    BY <1>16, <2>2 DEF Depart, DepartInv, NumHarts
  <2> QED
    BY <1>16, <2>3, <2>4 DEF Depart, DepartInv
<1>17. CASE Release2(h)
  <2>1. Departing' \subseteq Departing
    BY <1>17 DEF Release2, Departing
  <2> QED
    BY <1>17, <2>1, DepartShrinks, <1>d DEF Release2
<1> QED
  BY <1>1, <1>2, <1>3, <1>4, <1>5, <1>6, <1>7, <1>8, <1>9, <1>10, <1>11, <1>12, <1>13,
     <1>14, <1>15, <1>16, <1>17 DEF BarrierStep

\* Every step of the barrier keeps its invariant.
LEMMA BarrierStepKeepsInv ==
  ASSUME NEW L, EotTypeOK(L), EotInv, BarrierInv, NEW h \in Harts, BarrierStep(h)
  PROVE  BarrierInv'
<1>1. BarrierTypeOK' /\ LockInv'
  BY TypeStep, LockStep
<1>2. ArriveInv' /\ DepartInv'
  BY ArriveStep, DepartStep
<1>3. FlagInv' /\ OpenInv'
  BY FlagStep, OpenStep
<1> QED
  BY <1>1, <1>2, <1>3 DEF BarrierInv

-----------------------------------------------------------------------------
(* What surrounds the barrier                                              *)

\* Labels between the call of the barrier and its return.
Inside == BarrierLabels \ {"complete"}

\* A hart that moves about outside the barrier is counted as before.
LEMMA OutsideKeepsBarrier ==
  ASSUME NEW L, EotTypeOK(L), BarrierInv, NEW h \in Harts, pc[h] \notin Inside,
         NEW l, l \notin Inside, pc[h] \in EotLabels <=> l \in EotLabels,
         pc' = [pc EXCEPT ![h] = l], UNCHANGED barrierVars
  PROVE  BarrierInv'
<1> USE DEF EotTypeOK, Inside, BarrierLabels, LockedLabels, Acquiring, Spinning,
            Resetting, barrierVars
<1>1. Gone' = Gone /\ Todo' = Todo /\ Departing' = Departing
  BY DEF Gone, Todo, Arrived, Departing
<1>2. BarrierTypeOK' /\ LockInv'
  BY DEF BarrierInv, BarrierTypeOK, LockInv, NumHarts
<1>3. ArriveInv' /\ DepartInv'
  BY <1>1 DEF BarrierInv, ArriveInv, DepartInv, NumHarts
<1>4. FlagInv' /\ OpenInv'
  BY DEF BarrierInv, FlagInv, OpenInv, Opens, IsLast, NumHarts
<1> QED
  BY <1>2, <1>3, <1>4 DEF BarrierInv

\* A hart that calls the barrier has still to arrive.
LEMMA EnterKeepsBarrier ==
  ASSUME NEW L, EotTypeOK(L), BarrierInv, NEW h \in Harts,
         pc[h] \notin Inside \cup EotLabels, EnterBarrier(h)
  PROVE  BarrierInv'
<1> USE BarrierAssumption
    DEF EotTypeOK, Inside, BarrierLabels, LockedLabels, Acquiring, Spinning, Resetting,
        EnterBarrier, Acquire, Goto, EotLabels
<1>t. lk \in [Harts -> 0 .. 2]
  BY DEF BarrierInv, BarrierTypeOK
<1>1. Gone' = Gone /\ Todo' = Todo /\ Departing' \subseteq Departing
  <2>1. Gone' = Gone /\ Arrived' = Arrived
    BY DEF Gone, Arrived
  <2>2. Todo' = Todo
    BY <2>1 DEF Todo
  <2>3. Departing' \subseteq Departing
    BY <1>t DEF Departing
  <2> QED
    BY <2>1, <2>2, <2>3
<1>2. BarrierTypeOK' /\ LockInv'
  BY DEF BarrierInv, BarrierTypeOK, LockInv, NumHarts
<1>3. ArriveInv'
  BY <1>1, ArriveSame DEF BarrierInv
<1>4. DepartInv'
  BY <1>1, DepartShrinks DEF BarrierInv, BarrierTypeOK, DepartInv
<1>5. FlagInv' /\ OpenInv'
  BY DEF BarrierInv, FlagInv, OpenInv, Opens, IsLast, NumHarts
<1> QED
  BY <1>2, <1>3, <1>4, <1>5 DEF BarrierInv

\* A hart that leaves for the end of the test keeps the barrier shut.
LEMMA LeaveKeepsBarrier ==
  ASSUME NEW L, EotTypeOK(L), BarrierInv, NEW h \in Harts,
         pc[h] \notin Inside \cup EotLabels, pc' = [pc EXCEPT ![h] = "end_test"],
         UNCHANGED barrierVars
  PROVE  BarrierInv'
<1> USE DEF EotTypeOK, Inside, BarrierLabels, LockedLabels, Acquiring, Spinning,
            Resetting, barrierVars
<1>1. Departing' \subseteq Departing
  BY DEF Departing
<1>2. BarrierTypeOK' /\ LockInv'
  BY DEF BarrierInv, BarrierTypeOK, LockInv, NumHarts
<1>3. ArriveInv'
  BY ArriveLeft DEF Arrived
<1>4. DepartInv'
  BY <1>1, DepartShrinks DEF BarrierInv, DepartInv
<1>5. FlagInv' /\ OpenInv'
  BY DEF BarrierInv, FlagInv, OpenInv, Opens, IsLast, NumHarts
<1> QED
  BY <1>2, <1>3, <1>4, <1>5 DEF BarrierInv

\* Initially nobody has arrived and nobody has to depart.
LEMMA InitBarrierInv ==
  ASSUME BarrierInit, NEW l, l \notin BarrierLabels \cup EotLabels,
         pc = [h \in Harts |-> l]
  PROVE  BarrierInv
<1> USE NumHartsFact DEF BarrierInit, BarrierLabels, LockedLabels, EotLabels, Acquiring,
                         Spinning, Resetting
<1>1. Gone = {} /\ Todo = Harts /\ Departing = {}
  BY DEF Gone, Todo, Arrived, Departing
<1>2. ArriveInv
  BY <1>1 DEF ArriveInv, NumHarts
<1>3. DepartInv
  BY <1>1, FS_EmptySet DEF DepartInv
<1> QED
  BY <1>2, <1>3 DEF BarrierInv, BarrierTypeOK, LockInv, FlagInv, OpenInv, Opens

-----------------------------------------------------------------------------
(* The refinement                                                          *)

\* Each step of the routine is a step of the atomic barrier or changes nothing
\* it sees: the increment of barrier_arrive_counter is Arrive, the store to
\* barrier_flag is Open, and the ways out of the two loops are Leave.
LEMMA BarrierStepRefines ==
  ASSUME NEW L, EotTypeOK(L), BarrierInv, NEW h \in Harts, BarrierStep(h)
  PROVE  [AbstractBarrier!Next]_<<Waiting, Gone>>
<1> USE
        DEF BarrierInv, BarrierTypeOK, LockInv, LockedLabels, FlagInv, OpenInv, Opens, IsLast,
            EotTypeOK, Acquiring, Spinning, Resetting, Goto, barrierVars
<1>1. CASE CheckEnded(h)
  <2>1. CASE pc' = [pc EXCEPT ![h] = "end_test"]
    <3>1. AbstractBarrier!Leave(h)
      BY <2>1, <1>1 DEF AbstractBarrier!Leave, CheckEnded, Waiting, Gone, EotLabels
    <3> QED
      BY <3>1 DEF AbstractBarrier!Next
  <2>2. CASE pc' = [pc EXCEPT ![h] = "try_lock"]
    <3>1. UNCHANGED <<Waiting, Gone>>
      BY <2>2, <1>1 DEF CheckEnded, Waiting, Gone, EotLabels
    <3> QED
      BY <3>1
  <2> QED
    BY <2>1, <2>2, <1>1 DEF CheckEnded, OsEndTest, TestFailed
<1>2. CASE TryLock(h)
  <2>1. UNCHANGED <<Waiting, Gone>>
    BY <1>2 DEF TryLock, Waiting, Gone, EotLabels
  <2> QED
    BY <2>1
<1>3. CASE SwapLock(h)
  <2>1. PICK l \in {"check_ended", "arrive_test", "clear_flag", "depart"} :
          pc' = [pc EXCEPT ![h] = l]
    BY <1>3 DEF SwapLock, AfterAcquire
  <2>2. UNCHANGED <<Waiting, Gone>>
    BY <2>1, <1>3 DEF SwapLock, Waiting, Gone, EotLabels
  <2> QED
    BY <2>2
<1>4. CASE ArriveTest(h)
  <2>1. UNCHANGED <<Waiting, Gone>>
    BY <1>4 DEF ArriveTest, Waiting, Gone, EotLabels
  <2> QED
    BY <2>1
<1>5. CASE DepartTest(h)
  <2>1. UNCHANGED <<Waiting, Gone>>
    BY <1>5 DEF DepartTest, Waiting, Gone, EotLabels
  <2> QED
    BY <2>1
<1>6. CASE Release0(h)
  <2>1. UNCHANGED <<Waiting, Gone>>
    BY <1>6 DEF Release0, Waiting, Gone, EotLabels
  <2> QED
    BY <2>1
<1>7. CASE DepartSpin(h)
  <2>1. UNCHANGED <<Waiting, Gone>>
    BY <1>7 DEF DepartSpin, Acquire, Waiting, Gone, EotLabels
  <2> QED
    BY <2>1
<1>8. CASE ClearFlag(h)
  <2>1. barrier_flag = 1 => \A g \in Harts : pc[g] \notin Spinning
    BY <1>8, NobodyDeparts DEF ClearFlag, Departing
  <2>2. UNCHANGED <<Waiting, Gone>>
    BY <1>8, <2>1 DEF ClearFlag, Waiting, Gone, EotLabels
  <2> QED
    BY <2>2
<1>9. CASE Arrive(h)
  <2>1. AbstractBarrier!Arrive(h)
    BY <1>9 DEF AbstractBarrier!Arrive, Arrive, Waiting, Gone, EotLabels
  <2> QED
    BY <2>1 DEF AbstractBarrier!Next
<1>10. CASE Release1(h)
  <2>1. UNCHANGED <<Waiting, Gone>>
    BY <1>10 DEF Release1, IsLast, Waiting, Gone, EotLabels
  <2> QED
    BY <2>1
<1>11. CASE ResetArrive(h)
  <2>1. UNCHANGED <<Waiting, Gone>>
    BY <1>11 DEF ResetArrive, Waiting, Gone, EotLabels
  <2> QED
    BY <2>1
<1>12. CASE ResetDepart(h)
  <2>1. UNCHANGED <<Waiting, Gone>>
    BY <1>12 DEF ResetDepart, Waiting, Gone, EotLabels
  <2> QED
    BY <2>1
<1>13. CASE SetFlag(h)
  <2>1. barrier_flag = 0 /\ \A g \in Harts \ {h} : pc[g] \in Spinning
    BY <1>13, ResettingFact DEF SetFlag
  <2>2. Waiting = Harts /\ Waiting' = {} /\ Gone' = Gone
    BY <2>1, <1>13 DEF SetFlag, Waiting, Gone, EotLabels
  <2>3. AbstractBarrier!Open
    BY <2>2 DEF AbstractBarrier!Open
  <2> QED
    BY <2>3 DEF AbstractBarrier!Next
<1>14. CASE FlagEnded(h)
  <2>1. CASE pc' = [pc EXCEPT ![h] = "end_test"]
    <3>1. AbstractBarrier!Leave(h)
      BY <2>1, <1>14 DEF AbstractBarrier!Leave, FlagEnded, Waiting, Gone, EotLabels
    <3> QED
      BY <3>1 DEF AbstractBarrier!Next
  <2>2. CASE pc' = [pc EXCEPT ![h] = "flag_spin"]
    <3>1. UNCHANGED <<Waiting, Gone>>
      BY <2>2, <1>14 DEF FlagEnded, Waiting, Gone, EotLabels
    <3> QED
      BY <3>1
  <2> QED
    BY <2>1, <2>2, <1>14 DEF FlagEnded, OsEndTest, TestFailed
<1>15. CASE FlagSpin(h)
  <2>1. UNCHANGED <<Waiting, Gone>>
    BY <1>15 DEF FlagSpin, Acquire, Waiting, Gone, EotLabels
  <2> QED
    BY <2>1
<1>16. CASE Depart(h)
  <2>1. UNCHANGED <<Waiting, Gone>>
    BY <1>16 DEF Depart, Waiting, Gone, EotLabels
  <2> QED
    BY <2>1
<1>17. CASE Release2(h)
  <2>1. UNCHANGED <<Waiting, Gone>>
    BY <1>17 DEF Release2, Waiting, Gone, EotLabels
  <2> QED
    BY <2>1
<1> QED
  BY <1>1, <1>2, <1>3, <1>4, <1>5, <1>6, <1>7, <1>8, <1>9, <1>10, <1>11, <1>12, <1>13,
     <1>14, <1>15, <1>16, <1>17 DEF BarrierStep

-----------------------------------------------------------------------------
(* What a scheduler may assume of the barrier                              *)

\* A step of the barrier moves one hart inside it, and a hart only leaves it for
\* the end of the test with a failure, or because another hart has ended.
LEMMA BarrierJump ==
  ASSUME NEW L, EotTypeOK(L), BarrierTypeOK, NEW h \in Harts, BarrierStep(h)
  PROVE  /\ pc[h] \in Inside
         /\ UNCHANGED eotRest
         /\ \/ \E l \in BarrierLabels : pc' = [pc EXCEPT ![h] = l] /\ gp' = gp
            \/ /\ pc' = [pc EXCEPT ![h] = "end_test"]
               /\ \/ gp' = [gp EXCEPT ![h] = "fail"]
                  \/ gp' = [gp EXCEPT ![h] = "pass"] /\ num_harts_ended # 0
<1> USE DEF Inside, BarrierLabels, LockedLabels, Goto
<1>1. CASE CheckEnded(h)
  BY <1>1 DEF CheckEnded, OsEndTest, TestFailed
<1>2. CASE TryLock(h)
  BY <1>2 DEF TryLock
<1>3. CASE SwapLock(h)
  <2>1. PICK l \in {"check_ended", "arrive_test", "clear_flag", "depart"} :
          pc' = [pc EXCEPT ![h] = l]
    BY <1>3 DEF SwapLock, AfterAcquire, BarrierTypeOK
  <2> QED
    BY <2>1, <1>3 DEF SwapLock
<1>4. CASE ArriveTest(h)
  BY <1>4 DEF ArriveTest
<1>5. CASE DepartTest(h)
  BY <1>5 DEF DepartTest
<1>6. CASE Release0(h)
  BY <1>6 DEF Release0
<1>7. CASE DepartSpin(h)
  <2>1. CASE barrier_depart_counter = NumHarts
    BY <2>1, <1>7 DEF DepartSpin, Acquire
  <2>2. CASE barrier_depart_counter # NumHarts
    <3>1. pc' = [pc EXCEPT ![h] = "depart_spin"]
      BY <2>2, <1>7 DEF DepartSpin, EotTypeOK
    <3> QED
      BY <3>1, <2>2, <1>7 DEF DepartSpin
  <2> QED
    BY <2>1, <2>2
<1>8. CASE ClearFlag(h)
  BY <1>8 DEF ClearFlag
<1>9. CASE Arrive(h)
  BY <1>9 DEF Arrive
<1>10. CASE Release1(h)
  BY <1>10 DEF Release1, IsLast
<1>11. CASE ResetArrive(h)
  BY <1>11 DEF ResetArrive
<1>12. CASE ResetDepart(h)
  BY <1>12 DEF ResetDepart
<1>13. CASE SetFlag(h)
  BY <1>13 DEF SetFlag
<1>14. CASE FlagEnded(h)
  BY <1>14 DEF FlagEnded, OsEndTest
<1>15. CASE FlagSpin(h)
  BY <1>15 DEF FlagSpin, Acquire
<1>16. CASE Depart(h)
  BY <1>16 DEF Depart
<1>17. CASE Release2(h)
  BY <1>17 DEF Release2
<1> QED
  BY <1>1, <1>2, <1>3, <1>4, <1>5, <1>6, <1>7, <1>8, <1>9, <1>10, <1>11, <1>12, <1>13,
     <1>14, <1>15, <1>16, <1>17 DEF BarrierStep

\* Until the last arriver sets the flag, a step lets nobody through and takes
\* nobody back.
LEMMA ReleasedStays ==
  ASSUME NEW L, EotTypeOK(L), BarrierInv, NEW h \in Harts, BarrierStep(h), ~SetFlag(h),
         NEW g \in Harts, g \notin Gone'
  PROVE  Released(g)' <=> Released(g)
<1> USE DEF Released, Departing, Gone, EotLabels, BarrierInv, BarrierTypeOK, LockInv,
            LockedLabels, FlagInv, OpenInv, Opens, IsLast, EotTypeOK, Acquiring, Spinning,
            Resetting, Goto, barrierVars
<1>1. CASE CheckEnded(h)
  BY <1>1 DEF CheckEnded, OsEndTest, TestFailed
<1>2. CASE TryLock(h)
  BY <1>2 DEF TryLock
<1>3. CASE SwapLock(h)
  <2>1. PICK l \in {"check_ended", "arrive_test", "clear_flag", "depart"} :
          /\ pc' = [pc EXCEPT ![h] = l]
          /\ (l = "depart") => lk[h] = 2
          /\ (l \in {"arrive_test", "clear_flag"}) => lk[h] # 2
    BY <1>3 DEF SwapLock, AfterAcquire
  <2> QED
    BY <2>1, <1>3 DEF SwapLock
<1>4. CASE ArriveTest(h)
  BY <1>4 DEF ArriveTest
<1>5. CASE DepartTest(h)
  BY <1>5 DEF DepartTest
<1>6. CASE Release0(h)
  BY <1>6 DEF Release0
<1>7. CASE DepartSpin(h)
  BY <1>7 DEF DepartSpin, Acquire
<1>8. CASE ClearFlag(h)
  <2>1. Departing = {}
    BY <1>8, NobodyDeparts DEF ClearFlag
  <2>2. Departing' = {}
    BY <2>1, <1>8 DEF ClearFlag
  <2> QED
    BY <2>1, <2>2, <1>8 DEF ClearFlag
<1>9. CASE Arrive(h)
  BY <1>9 DEF Arrive
<1>10. CASE Release1(h)
  BY <1>10 DEF Release1, IsLast
<1>11. CASE ResetArrive(h)
  BY <1>11 DEF ResetArrive
<1>12. CASE ResetDepart(h)
  BY <1>12 DEF ResetDepart
<1>13. CASE SetFlag(h)
  BY <1>13
<1>14. CASE FlagEnded(h)
  BY <1>14 DEF FlagEnded, OsEndTest
<1>15. CASE FlagSpin(h)
  BY <1>15 DEF FlagSpin, Acquire
<1>16. CASE Depart(h)
  BY <1>16 DEF Depart
<1>17. CASE Release2(h)
  BY <1>17 DEF Release2
<1> QED
  BY <1>1, <1>2, <1>3, <1>4, <1>5, <1>6, <1>7, <1>8, <1>9, <1>10, <1>11, <1>12, <1>13,
     <1>14, <1>15, <1>16, <1>17 DEF BarrierStep

\* The store to the flag lets all harts through together: none was let through
\* before, none has left, and all of them are in the barrier.
LEMMA AllReleased ==
  ASSUME NEW L, EotTypeOK(L), BarrierInv, NEW h \in Harts, SetFlag(h)
  PROVE  /\ Gone = {} /\ Gone' = {}
         /\ \A g \in Harts : /\ ~Released(g) /\ Released(g)'
                             /\ pc[g] \in BarrierLabels /\ pc'[g] \in BarrierLabels
                             /\ pc[g] \in Inside
<1>1. Gone = {} /\ barrier_flag = 0 /\ \A g \in Harts \ {h} : pc[g] \in Spinning
  BY ResettingFact DEF SetFlag, Resetting
<1> QED
  BY <1>1 DEF SetFlag, Released, Departing, Gone, EotLabels, Spinning, Acquiring, Inside,
              BarrierLabels, LockedLabels, EotTypeOK, Goto

-----------------------------------------------------------------------------
(***************************************************************************)
(* The scheduler.                                                          *)
(***************************************************************************)
\* Labels of the program, and what is inside the barrier.
LEMMA LabelsFact ==
  /\ BarrierLabels \subseteq Labels
  /\ EotLabels \subseteq Labels
  /\ SchedLabels \subseteq Labels
  /\ "end_test" \in EotLabels /\ "end_test" \notin EndedLabels
  /\ \A l \in BarrierLabels \cup SchedLabels : l \notin EotLabels /\ l \notin EndedLabels
  /\ \A l \in SchedLabels : l \notin Inside
  /\ \A l \in EotLabels : l \notin Inside
BY DEF Labels, SchedLabels, BarrierLabels, LockedLabels, EotLabels, EndedLabels,
       WinnerLabels, Inside

\* A step of the scheduler calls the barrier, leaves for the end of the test, or
\* stays outside both.
LEMMA SchedJump ==
  ASSUME NEW h \in Harts, SchedStep(h)
  PROVE  /\ pc[h] \in SchedLabels \cup {"complete"}
         /\ UNCHANGED eotRest
         /\ \/ EnterBarrier(h)
            \/ pc' = [pc EXCEPT ![h] = "end_test"] /\ UNCHANGED barrierVars
            \/ /\ \E l \in SchedLabels : pc' = [pc EXCEPT ![h] = l]
               /\ gp' = gp /\ UNCHANGED barrierVars
<1> USE DEF SchedLabels, Goto, CallBarrier, OsEndTest, TestFailed
<1>1. CASE SchedulerInit(h)
  BY <1>1 DEF SchedulerInit, EnterBarrier
<1>2. CASE LaunchSetup(h)
  BY <1>2 DEF LaunchSetup, EnterBarrier
<1>3. CASE LoadNumRuns(h)
  BY <1>3 DEF LoadNumRuns, EnterBarrier
<1>4. CASE LoadTestAddr(h)
  BY <1>4 DEF LoadTestAddr, EnterBarrier
<1>5. CASE BackInDispatch(h) \/ StoreNumRuns(h) \/ ExecuteTest(h)
  BY <1>5 DEF BackInDispatch, StoreNumRuns, ExecuteTest
<1>6. CASE TestPasses(h) \/ TestFails(h) \/ TestEnds(h) \/ TestHangs(h)
  BY <1>6 DEF TestPasses, TestFails, TestEnds, TestHangs
<1> QED
  BY <1>1, <1>2, <1>3, <1>4, <1>5, <1>6 DEF SchedStep

\* Calling the barrier moves a hart to the start of its first lock acquisition.
LEMMA EnterJump ==
  ASSUME NEW h \in Harts, EnterBarrier(h)
  PROVE  /\ pc' = [pc EXCEPT ![h] = "check_ended"]
         /\ lk' = [lk EXCEPT ![h] = 0]
         /\ UNCHANGED <<gp, eotRest, barrier_flag>>
BY DEF EnterBarrier, Acquire, Goto

\* Initially all harts are in scheduler__init.
LEMMA InitInv == Init => SchedulerInv
<1> SUFFICES ASSUME Init PROVE SchedulerInv
  OBVIOUS
<1> USE SimultaneousAssumption DEF Init, EotInit
<1>1. BarrierInv
  <2>1. "init" \notin BarrierLabels \cup EotLabels
    BY DEF BarrierLabels, LockedLabels, EotLabels
  <2> QED
    BY <2>1, InitBarrierInv
<1>2. TypeOK
  <2>1. EotTypeOK(Labels)
    BY LabelsFact DEF EotTypeOK, GpValues, SchedLabels
  <2>2. num_runs \in 0 .. SequenceLength + 1 /\ 0 \in Sequence
    BY DEF Sequence
  <2>3. ra \in [Harts -> {"init", "dispatch", "execute"}]
    OBVIOUS
  <2>4. s10 \in [Harts -> Sequence]
    BY <2>2
  <2>5. test \in [Harts -> Sequence \cup {Setup}]
    OBVIOUS
  <2>6. soft_end \in BOOLEAN
    BY Zenon
  <2> QED
    BY <1>1, <2>1, <2>2, <2>3, <2>4, <2>5, <2>6 DEF TypeOK, BarrierInv
<1>3. EotInv
  <2>1. Ended = {}
    BY DEF Ended, EndedLabels, WinnerLabels
  <2> QED
    BY <2>1, FS_EmptySet DEF EotInv, OneTohostWriter, WinnerLabels
<1>4. Gone = {} /\ \A h \in Harts : NextSite(h) = "init"
  BY DEF Gone, EotLabels, NextSite, BarrierLabels, LockedLabels
<1>5. RoundInv /\ DataInv /\ EndInv
  BY <1>4 DEF RoundInv, DataInv, EndInv, Running, Setup
<1> QED
  BY <1>1, <1>2, <1>3, <1>5 DEF SchedulerInv

\* Every step keeps the invariant of the end of the test.
LEMMA EotInvStep == SchedulerInv /\ [Next]_vars => EotInv'
<1> SUFFICES ASSUME SchedulerInv, [Next]_vars PROVE EotInv'
  OBVIOUS
<1>t. EotTypeOK(Labels) /\ EotInv /\ BarrierTypeOK
  BY DEF SchedulerInv, TypeOK
<1>1. ASSUME NEW h \in Harts, SchedStep(h) PROVE EotInv'
  <2>1. UNCHANGED eotRest /\ pc[h] \notin EndedLabels
    BY <1>1, SchedJump, LabelsFact DEF BarrierLabels
  <2>2. \E l : l \notin EndedLabels /\ pc' = [pc EXCEPT ![h] = l]
    <3>1. "check_ended" \notin EndedLabels
      BY LabelsFact DEF BarrierLabels
    <3> QED
      BY <1>1, <3>1, SchedJump, EnterJump, LabelsFact
  <2> QED
    BY <1>t, <2>1, <2>2, OutsideStep
<1>2. ASSUME NEW h \in Harts, BarrierStep(h) PROVE EotInv'
  <2>1. UNCHANGED eotRest /\ pc[h] \notin EndedLabels
    BY <1>t, <1>2, BarrierJump, LabelsFact DEF Inside
  <2>2. \E l : l \notin EndedLabels /\ pc' = [pc EXCEPT ![h] = l]
    BY <1>t, <1>2, BarrierJump, LabelsFact
  <2> QED
    BY <1>t, <2>1, <2>2, OutsideStep
<1>3. ASSUME NEW h \in Harts, EotStep(h) PROVE EotInv'
  BY <1>3, <1>t, EotStepKeepsInv
<1>4. CASE UNCHANGED vars
  BY <1>4, <1>t DEF vars, eotVars, eotRest, EotInv, OneTohostWriter, Ended
<1> QED
  BY <1>1, <1>2, <1>3, <1>4 DEF Next, HartStep, Terminated

\* Every step keeps the invariant of the barrier.
LEMMA BarrierInvStep == SchedulerInv /\ [Next]_vars => BarrierInv'
<1> SUFFICES ASSUME SchedulerInv, [Next]_vars PROVE BarrierInv'
  OBVIOUS
<1>t. EotTypeOK(Labels) /\ EotInv /\ BarrierInv
  BY DEF SchedulerInv, TypeOK
<1>1. ASSUME NEW h \in Harts, SchedStep(h) PROVE BarrierInv'
  <2>1. pc[h] \notin Inside \cup EotLabels
    BY <1>1, SchedJump, LabelsFact DEF Inside, BarrierLabels
  <2>2. CASE EnterBarrier(h)
    BY <1>t, <2>1, <2>2, EnterKeepsBarrier
  <2>3. CASE pc' = [pc EXCEPT ![h] = "end_test"] /\ UNCHANGED barrierVars
    BY <1>t, <2>1, <2>3, LeaveKeepsBarrier
  <2>4. ASSUME NEW l \in SchedLabels, pc' = [pc EXCEPT ![h] = l], UNCHANGED barrierVars
        PROVE  BarrierInv'
    <3>1. l \notin Inside /\ l \notin EotLabels
      BY LabelsFact
    <3> QED
      BY <1>t, <2>1, <2>4, <3>1, OutsideKeepsBarrier
  <2> QED
    BY <1>1, <2>2, <2>3, <2>4, SchedJump
<1>2. ASSUME NEW h \in Harts, BarrierStep(h) PROVE BarrierInv'
  BY <1>2, <1>t, BarrierStepKeepsInv
<1>3. ASSUME NEW h \in Harts, EotStep(h), UNCHANGED barrierVars PROVE BarrierInv'
  <2>1. PICK l \in EotLabels : pc' = [pc EXCEPT ![h] = l]
    BY <1>3, EotJump
  <2>2. pc[h] \in EotLabels
    BY <1>3, EotJump
  <2>3. pc[h] \notin Inside /\ l \notin Inside
    BY <2>2, LabelsFact
  <2> QED
    BY <1>t, <1>3, <2>1, <2>2, <2>3, OutsideKeepsBarrier
<1>4. CASE UNCHANGED vars
  BY <1>4, <1>t DEF vars, eotVars, barrierVars, BarrierInv, BarrierTypeOK, LockInv,
      ArriveInv, Todo, Gone, Arrived, DepartInv, Departing, FlagInv, OpenInv, Opens, IsLast,
      NumHarts
<1> QED
  BY <1>1, <1>2, <1>3, <1>4 DEF Next, HartStep, Terminated

\* Every step keeps the types.
LEMMA TypeOKStep == SchedulerInv /\ [Next]_vars => TypeOK'
<1> SUFFICES ASSUME SchedulerInv, [Next]_vars PROVE TypeOK'
  OBVIOUS
<1>t. TypeOK
  BY DEF SchedulerInv
<1>b. BarrierTypeOK'
  BY BarrierInvStep DEF BarrierInv
<1>e. ASSUME NEW h \in Harts, UNCHANGED eotRest,
             NEW l \in Labels, pc' = [pc EXCEPT ![h] = l],
             NEW v \in GpValues, gp' = gp \/ gp' = [gp EXCEPT ![h] = v]
      PROVE  EotTypeOK(Labels)'
  BY <1>t, <1>e DEF TypeOK, EotTypeOK, eotRest, Labels
<1>1. ASSUME NEW h \in Harts, SchedStep(h) PROVE TypeOK'
  <2>1. EotTypeOK(Labels)'
    <3>1. "check_ended" \in Labels /\ "end_test" \in Labels /\ SchedLabels \subseteq Labels
      BY LabelsFact DEF BarrierLabels
    <3>2. \E l \in Labels : pc' = [pc EXCEPT ![h] = l]
      BY <1>1, <3>1, SchedJump, EnterJump
    <3>3. \E v \in GpValues : gp' = gp \/ gp' = [gp EXCEPT ![h] = v]
      BY <1>1 DEF SchedStep, SchedulerInit, LaunchSetup, LoadNumRuns, BackInDispatch,
          StoreNumRuns, LoadTestAddr, ExecuteTest, TestPasses, TestFails, TestEnds, TestHangs,
          CallBarrier, EnterBarrier, OsEndTest, TestFailed, GpValues
    <3> QED
      BY <1>1, <1>e, <3>2, <3>3, SchedJump
  <2>2. /\ num_runs' \in 0 .. SequenceLength + 1
        /\ ra' \in [Harts -> {"init", "dispatch", "execute"}]
        /\ s10' \in [Harts -> Sequence]
        /\ test' \in [Harts -> Sequence \cup {Setup}]
        /\ soft_end' \in BOOLEAN
    <3> USE <1>t, SimultaneousAssumption DEF TypeOK, Sequence, Setup, CallBarrier, schedVars
    <3>1. CASE SchedulerInit(h) \/ LaunchSetup(h) \/ LoadTestAddr(h)
      BY <3>1 DEF SchedulerInit, LaunchSetup, LoadTestAddr
    <3>2. CASE LoadNumRuns(h)
      BY <3>2 DEF LoadNumRuns, NoRunsLeft
    <3>3. CASE StoreNumRuns(h)
      BY <3>3 DEF StoreNumRuns
    <3>4. CASE BackInDispatch(h) \/ ExecuteTest(h)
      BY <3>4 DEF BackInDispatch, ExecuteTest
    <3>5. CASE TestPasses(h) \/ TestFails(h) \/ TestEnds(h) \/ TestHangs(h)
      BY <3>5 DEF TestPasses, TestFails, TestEnds, TestHangs
    <3> QED
      BY <1>1, <3>1, <3>2, <3>3, <3>4, <3>5 DEF SchedStep
  <2> QED
    BY <1>b, <2>1, <2>2 DEF TypeOK, Sequence, Setup
<1>2. ASSUME NEW h \in Harts, BarrierStep(h), UNCHANGED schedVars PROVE TypeOK'
  <2>1. UNCHANGED eotRest
    BY <1>t, <1>2, BarrierJump DEF TypeOK
  <2>2. /\ \E l \in Labels : pc' = [pc EXCEPT ![h] = l]
        /\ \E v \in GpValues : gp' = gp \/ gp' = [gp EXCEPT ![h] = v]
    BY <1>t, <1>2, BarrierJump, LabelsFact DEF TypeOK, GpValues
  <2>3. EotTypeOK(Labels)'
    BY <1>e, <2>1, <2>2
  <2> QED
    BY <1>t, <1>b, <1>2, <2>3 DEF TypeOK, schedVars, Sequence, Setup
<1>3. ASSUME NEW h \in Harts, EotStep(h), UNCHANGED schedVars PROVE TypeOK'
  <2>1. EotTypeOK(Labels)'
    <3>1. PICK l \in EotLabels : pc' = [pc EXCEPT ![h] = l]
      BY <1>3, EotJump
    <3> QED
      BY <1>t, <1>3, <3>1, LabelsFact, EotAssumption
         DEF TypeOK, EotTypeOK, EotStep, EndTest, MarkDone, TohostTryLock, TohostSwap,
             WaitForOthers, WaitEnded, Passed, Failed
  <2> QED
    BY <1>t, <1>b, <1>3, <2>1 DEF TypeOK, schedVars, Sequence, Setup
<1>4. CASE UNCHANGED vars
  BY <1>t, <1>b, <1>4 DEF TypeOK, EotTypeOK, vars, eotVars, eotRest, schedVars, Sequence,
      Setup
<1> QED
  BY <1>1, <1>2, <1>3, <1>4 DEF Next, HartStep, Terminated

-----------------------------------------------------------------------------
(* The rounds                                                              *)

\* What a step of the scheduler leaves alone of the other harts.
LEMMA OthersStay ==
  ASSUME TypeOK, NEW h \in Harts, SchedStep(h), NEW g \in Harts, g # h
  PROVE  /\ pc'[g] = pc[g] /\ ra'[g] = ra[g] /\ s10'[g] = s10[g] /\ test'[g] = test[g]
         /\ gp'[g] = gp[g]
         /\ Released(g)' <=> Released(g)
         /\ g \in Gone' <=> g \in Gone
<1> USE DEF TypeOK, EotTypeOK, BarrierTypeOK, CallBarrier, EnterBarrier, Acquire, Goto,
            OsEndTest, TestFailed, schedVars, barrierVars, Released, Departing, Gone
<1>1. CASE SchedulerInit(h) \/ LaunchSetup(h) \/ LoadTestAddr(h)
  BY <1>1 DEF SchedulerInit, LaunchSetup, LoadTestAddr
<1>2. CASE LoadNumRuns(h)
  BY <1>2 DEF LoadNumRuns
<1>3. CASE BackInDispatch(h) \/ StoreNumRuns(h) \/ ExecuteTest(h)
  BY <1>3 DEF BackInDispatch, StoreNumRuns, ExecuteTest
<1>4. CASE TestPasses(h) \/ TestFails(h) \/ TestEnds(h) \/ TestHangs(h)
  BY <1>4 DEF TestPasses, TestFails, TestEnds, TestHangs
<1> QED
  BY <1>1, <1>2, <1>3, <1>4 DEF SchedStep

\* A step of the scheduler leaves every hart that keeps running on its way to
\* the same barrier.
LEMMA SchedStepStays ==
  ASSUME SchedulerInv, NEW h \in Harts, SchedStep(h), NEW g \in Running'
  PROVE  g \in Running /\ NextSite(g)' = NextSite(g)
<1>1. CASE g # h
  <2>1. g \in Harts
    BY DEF Running
  <2> QED
    BY <1>1, <2>1, OthersStay DEF SchedulerInv, Running, NextSite
<1>2. CASE g = h
  <2>t. /\ pc \in [Harts -> Labels] /\ ra \in [Harts -> {"init", "dispatch", "execute"}]
        /\ lk \in [Harts -> 0 .. 2]
    BY DEF SchedulerInv, TypeOK, EotTypeOK, BarrierTypeOK
  <2>d. pc[h] \in {"store_num_runs", "load_test_addr"} => ra[h] = "dispatch"
    BY DEF SchedulerInv, DataInv
  <2> USE <1>2, <2>t, <2>d DEF Running, NextSite, Released, Departing, Acquiring, Spinning, Gone,
        After, BarrierLabels, LockedLabels, EotLabels, Goto, schedVars, barrierVars
  <2>1. CASE SchedulerInit(h)
    BY <2>1 DEF SchedulerInit, CallBarrier, EnterBarrier, Acquire
  <2>2. CASE LaunchSetup(h)
    BY <2>2 DEF LaunchSetup, CallBarrier, EnterBarrier, Acquire
  <2>3. CASE LoadNumRuns(h)
    BY <2>3 DEF LoadNumRuns, CallBarrier, OsEndTest, EnterBarrier, Acquire
  <2>4. CASE BackInDispatch(h)
    BY <2>4 DEF BackInDispatch
  <2>5. CASE StoreNumRuns(h)
    BY <2>5 DEF StoreNumRuns
  <2>6. CASE LoadTestAddr(h)
    BY <2>6 DEF LoadTestAddr, CallBarrier, EnterBarrier, Acquire
  <2>7. CASE ExecuteTest(h)
    BY <2>7 DEF ExecuteTest
  <2>8. CASE TestPasses(h)
    BY <2>8 DEF TestPasses
  <2>9. CASE TestFails(h)
    BY <2>9 DEF TestFails, TestFailed
  <2>10. CASE TestEnds(h)
    BY <2>10 DEF TestEnds, OsEndTest
  <2>11. CASE TestHangs(h)
    BY <2>11 DEF TestHangs
  <2> QED
    BY <2>1, <2>2, <2>3, <2>4, <2>5, <2>6, <2>7, <2>8, <2>9, <2>10, <2>11 DEF SchedStep
<1> QED
  BY <1>1, <1>2


\* Neither does a step of the barrier, until the flag is set.
LEMMA BarrierStepStays ==
  ASSUME SchedulerInv, NEW h \in Harts, BarrierStep(h), ~SetFlag(h), UNCHANGED schedVars,
         NEW g \in Running'
  PROVE  g \in Running /\ NextSite(g)' = NextSite(g)
<1>t. EotTypeOK(Labels) /\ BarrierInv /\ BarrierTypeOK
  BY DEF SchedulerInv, TypeOK
<1>1. Released(g)' <=> Released(g)
  BY <1>t, ReleasedStays DEF Running, Gone
<1>2. pc[h] \in BarrierLabels
  BY <1>t, BarrierJump DEF Inside
<1>3. PICK l \in BarrierLabels \cup {"end_test"} : pc' = [pc EXCEPT ![h] = l]
  BY <1>t, BarrierJump
<1>4. g \in Harts
  BY DEF Running
<1>5. ra' = ra
  BY DEF schedVars
<1>6. CASE g # h
  <2>1. pc'[g] = pc[g]
    BY <1>t, <1>3, <1>4, <1>6 DEF EotTypeOK
  <2> QED
    BY <1>1, <1>4, <1>5, <2>1 DEF Running, Gone, NextSite
<1>7. CASE g = h
  <2>1. pc'[g] = l
    BY <1>t, <1>3, <1>4, <1>7 DEF EotTypeOK
  <2>2. l \in BarrierLabels
    BY <1>3, <1>4, <2>1, LabelsFact DEF Running, Gone
  <2>3. g \in Running
    BY <1>2, <1>4, <1>7, LabelsFact DEF Running, Gone
  <2> QED
    BY <1>1, <1>2, <1>5, <1>7, <2>1, <2>2, <2>3 DEF NextSite
<1> QED
  BY <1>6, <1>7

\* The flag sends all harts on to the next barrier.
LEMMA FlagMovesAll ==
  ASSUME SchedulerInv, NEW h \in Harts, SetFlag(h), UNCHANGED schedVars, NEW g \in Harts
  PROVE  /\ g \in Running
         /\ NextSite(g) = ra[h] /\ ra[g] = ra[h]
         /\ NextSite(g)' = After(ra[h])
         /\ pc[g] \in BarrierLabels /\ pc'[g] \in BarrierLabels
<1>t. EotTypeOK(Labels) /\ BarrierInv
  BY DEF SchedulerInv, TypeOK
<1>1. /\ Gone = {} /\ Gone' = {}
      /\ \A x \in Harts : /\ ~Released(x) /\ Released(x)'
                          /\ pc[x] \in BarrierLabels /\ pc'[x] \in BarrierLabels
  BY <1>t, AllReleased
<1>2. \A x \in Harts : x \in Running /\ NextSite(x) = ra[x] /\ NextSite(x)' = After(ra[x])
  BY <1>1 DEF Running, NextSite, schedVars, After
<1>3. ra[g] = ra[h]
  BY <1>2 DEF SchedulerInv, RoundInv
<1> QED
  BY <1>1, <1>2, <1>3

\* A step of eot is made by a hart that has left.
LEMMA EotStepStays ==
  ASSUME SchedulerInv, NEW h \in Harts, EotStep(h), UNCHANGED <<barrierVars, schedVars>>
  PROVE  /\ h \in Gone /\ Gone' = Gone
         /\ gp' = gp /\ num_hard_fails \in Nat
         /\ \A g \in Running : pc'[g] = pc[g] /\ NextSite(g)' = NextSite(g)
<1>t. EotTypeOK(Labels)
  BY DEF SchedulerInv, TypeOK
<1>1. PICK l \in EotLabels : pc' = [pc EXCEPT ![h] = l]
  BY EotJump
<1>2. pc[h] \in EotLabels
  BY EotJump
<1>3. gp' = gp
  BY DEF EotStep, EndTest, MarkDone, TohostTryLock, TohostSwap, WaitForOthers, WaitEnded,
         Passed, Failed
<1>4. h \in Gone /\ Gone' = Gone
  BY <1>t, <1>1, <1>2 DEF Gone, EotTypeOK
<1>5. ASSUME NEW g \in Running PROVE pc'[g] = pc[g] /\ NextSite(g)' = NextSite(g)
  <2>1. pc'[g] = pc[g]
    BY <1>t, <1>1, <1>4 DEF Running, EotTypeOK
  <2> QED
    BY <2>1 DEF NextSite, Released, Departing, Running, barrierVars, schedVars
<1> QED
  BY <1>t, <1>3, <1>4, <1>5 DEF EotTypeOK

\* All harts move on to the next barrier together.
LEMMA RoundStep == SchedulerInv /\ [Next]_vars => RoundInv'
<1> SUFFICES ASSUME SchedulerInv, [Next]_vars PROVE RoundInv'
  OBVIOUS
<1>r. RoundInv
  BY DEF SchedulerInv
<1>s. ASSUME \A g \in Running' : g \in Running /\ NextSite(g)' = NextSite(g)
      PROVE  RoundInv'
  BY <1>r, <1>s DEF RoundInv
<1>1. ASSUME NEW h \in Harts, SchedStep(h) PROVE RoundInv'
  BY <1>1, <1>s, SchedStepStays
<1>2. ASSUME NEW h \in Harts, BarrierStep(h), UNCHANGED schedVars PROVE RoundInv'
  <2>1. CASE SetFlag(h)
    BY <1>2, <2>1, FlagMovesAll DEF RoundInv, Running
  <2>2. CASE ~SetFlag(h)
    BY <1>2, <2>2, <1>s, BarrierStepStays
  <2> QED
    BY <2>1, <2>2
<1>3. ASSUME NEW h \in Harts, EotStep(h), UNCHANGED <<barrierVars, schedVars>>
      PROVE  RoundInv'
  BY <1>3, <1>s, EotStepStays DEF Running
<1>4. CASE UNCHANGED vars
  BY <1>4, <1>s DEF vars, eotVars, barrierVars, schedVars, Running, Gone, NextSite, Released,
      Departing
<1> QED
  BY <1>1, <1>2, <1>3, <1>4 DEF Next, HartStep, Terminated

\* Every step keeps the copies of num_runs in agreement.
LEMMA DataStep == SchedulerInv /\ [Next]_vars => DataInv'
<1> SUFFICES ASSUME SchedulerInv, [Next]_vars PROVE DataInv'
  OBVIOUS
<1>d. DataInv /\ RoundInv
  BY DEF SchedulerInv
<1>t. /\ pc \in [Harts -> Labels] /\ ra \in [Harts -> {"init", "dispatch", "execute"}]
      /\ s10 \in [Harts -> Sequence] /\ test \in [Harts -> Sequence \cup {Setup}]
      /\ lk \in [Harts -> 0 .. 2] /\ num_runs \in Nat
  BY SimultaneousAssumption DEF SchedulerInv, TypeOK, EotTypeOK, BarrierTypeOK
<1>1. ASSUME NEW h \in Harts, SchedStep(h) PROVE DataInv'
  <2>s. \A g \in Running' : g \in Running /\ NextSite(g)' = NextSite(g)
    BY <1>1, SchedStepStays
  <2>o. \A g \in Harts \ {h} : /\ pc'[g] = pc[g] /\ ra'[g] = ra[g] /\ s10'[g] = s10[g]
                               /\ test'[g] = test[g]
    BY <1>1, OthersStay DEF SchedulerInv
  <2>h. Hart0 \in Harts /\ Running \subseteq Harts /\ Running' \subseteq Harts
    BY SimultaneousAssumption DEF Running
  <2>c. /\ pc'[h] \in {"store_num_runs", "load_test_addr"} => ra'[h] = "dispatch"
        /\ NextSite(h) = "dispatch" /\ h \in Running' =>
             /\ test'[h] = num_runs
             /\ pc'[h] \in BarrierLabels /\ ra'[h] = "dispatch" => s10'[h] = num_runs - 1
        /\ NextSite(h) = "execute" /\ h \in Running' => Target(h)' = Target(h)
        /\ NextSite(h) = "execute" /\ h = Hart0 =>
             (IF BeforeStore(h) THEN num_runs - 1 ELSE num_runs)
               = (IF BeforeStore(h) THEN num_runs - 1 ELSE num_runs)'
        /\ num_runs' # num_runs => NextSite(h) = "execute" /\ h \in Running
    <3>n. h \in Harts /\ (h \in Running /\ NextSite(h) = "dispatch" => test[h] = num_runs)
          /\ (pc[h] \in {"store_num_runs", "load_test_addr"} => ra[h] = "dispatch")
      BY <1>d DEF DataInv
    <3>r. h \in Running
      BY <1>1, SchedJump, LabelsFact DEF Running, Gone, BarrierLabels
    <3>0. Hart0 \in Running /\ NextSite(Hart0) = "execute" =>
            Target(Hart0) = IF BeforeStore(Hart0) THEN num_runs - 1 ELSE num_runs
      BY <1>d DEF DataInv
    <3>b. "complete" \in BarrierLabels /\ "check_ended" \in BarrierLabels
          /\ \A l \in SchedLabels \cup {"end_test"} : l \notin BarrierLabels
      BY DEF BarrierLabels, LockedLabels, SchedLabels
    <3> USE <1>t, <3>n, <3>r, <3>0, <3>b
        DEF Target, BeforeStore, NextSite, Released, After, SchedLabels, CallBarrier,
            EnterBarrier, Acquire, Goto, schedVars
    <3>1. CASE SchedulerInit(h)
      BY <3>1 DEF SchedulerInit
    <3>2. CASE LaunchSetup(h)
      BY <3>2 DEF LaunchSetup
    <3>3. CASE LoadNumRuns(h)
      BY <3>3 DEF LoadNumRuns, NoRunsLeft, OsEndTest
    <3>4. CASE BackInDispatch(h)
      BY <3>4 DEF BackInDispatch
    <3>5. CASE StoreNumRuns(h)
      BY <3>5 DEF StoreNumRuns
    <3>6. CASE LoadTestAddr(h)
      BY <3>6 DEF LoadTestAddr
    <3>7. CASE ExecuteTest(h)
      BY <3>7 DEF ExecuteTest
    <3>8. CASE TestPasses(h)
      BY <3>8 DEF TestPasses
    <3>9. CASE TestFails(h)
      BY <3>9 DEF TestFails, TestFailed
    <3>10. CASE TestEnds(h)
      BY <3>10 DEF TestEnds, OsEndTest
    <3>11. CASE TestHangs(h)
      BY <3>11 DEF TestHangs
    <3> QED
      BY <1>1, <3>1, <3>2, <3>3, <3>4, <3>5, <3>6, <3>7, <3>8, <3>9, <3>10, <3>11 DEF SchedStep
  <2>1. \A g \in Harts : pc'[g] \in {"store_num_runs", "load_test_addr"} => ra'[g] = "dispatch"
    BY <1>d, <2>c, <2>o DEF DataInv
  <2>2. \A g \in Running' : /\ g \in Running /\ NextSite(g)' = NextSite(g)
                            /\ num_runs' # num_runs => NextSite(g) = "execute"
    BY <1>d, <2>c, <2>s DEF RoundInv
  <2>3. ASSUME NEW g \in Running', NextSite(g)' = "init" PROVE num_runs' = Setup
    BY <1>d, <2>2, <2>3 DEF DataInv
  <2>4. ASSUME NEW g \in Running', NextSite(g)' = "dispatch"
        PROVE  /\ test'[g] = num_runs'
               /\ pc'[g] \in BarrierLabels /\ ra'[g] = "dispatch" => s10'[g] = num_runs' - 1
    BY <1>d, <2>2, <2>4, <2>c, <2>o, <2>h DEF DataInv
  <2>5. \A g \in Running' : NextSite(g)' = "execute" => Target(g)' = Target(g)
    BY <2>2, <2>c, <2>o, <2>h DEF Target
  <2>6. \A g, x \in Running' : NextSite(g)' = "execute" => Target(g)' = Target(x)'
    BY <1>d, <2>2, <2>5 DEF DataInv, RoundInv
  <2>7. ASSUME Hart0 \in Running', NextSite(Hart0)' = "execute"
        PROVE  Target(Hart0)' = (IF BeforeStore(Hart0) THEN num_runs - 1 ELSE num_runs)'
    <3>1. Target(Hart0)' = IF BeforeStore(Hart0) THEN num_runs - 1 ELSE num_runs
      BY <1>d, <2>2, <2>5, <2>7 DEF DataInv
    <3>2. CASE h = Hart0
      BY <2>2, <2>7, <2>c, <3>1, <3>2
    <3>3. CASE h # Hart0
      <4>1. num_runs' = num_runs
        BY <1>1, <3>3 DEF SchedStep, SchedulerInit, LaunchSetup, LoadNumRuns, BackInDispatch,
          StoreNumRuns, LoadTestAddr, ExecuteTest, TestPasses, TestFails, TestEnds, TestHangs,
          schedVars
      <4> QED
        BY <2>o, <2>h, <3>1, <3>3, <4>1 DEF BeforeStore
    <3> QED
      BY <3>2, <3>3
  <2> QED
    BY <2>1, <2>3, <2>4, <2>6, <2>7 DEF DataInv
<1>2. ASSUME NEW h \in Harts, BarrierStep(h), UNCHANGED schedVars PROVE DataInv'
  <2>1. CASE SetFlag(h)
    <3>1. \A g \in Harts : /\ g \in Running
                           /\ NextSite(g) = ra[h] /\ ra[g] = ra[h]
                           /\ NextSite(g)' = After(ra[h])
                           /\ pc[g] \in BarrierLabels /\ pc'[g] \in BarrierLabels
      BY <1>2, <2>1, FlagMovesAll
    <3>2. \A l \in BarrierLabels : l # "load_test_addr" /\ l # "store_num_runs"
      BY DEF BarrierLabels, LockedLabels
    <3>3. ra' = ra /\ s10' = s10 /\ test' = test /\ num_runs' = num_runs
      BY <1>2 DEF schedVars
    <3>4. Hart0 \in Harts /\ Running' \subseteq Harts
      BY SimultaneousAssumption DEF Running
    <3> USE <1>d, <1>t, <3>1, <3>2, <3>3, <3>4 DEF DataInv, Target, BeforeStore, After
    <3>5. CASE ra[h] = "init"
      BY <3>5
    <3>6. CASE ra[h] = "dispatch"
      BY <3>6
    <3>7. CASE ra[h] = "execute"
      BY <3>7
    <3> QED
      BY <3>5, <3>6, <3>7
  <2>2. CASE ~SetFlag(h)
    <3>1. \A g \in Running' : g \in Running /\ NextSite(g)' = NextSite(g)
      BY <1>2, <2>2, BarrierStepStays
    <3>2. ra' = ra /\ s10' = s10 /\ test' = test /\ num_runs' = num_runs
      BY <1>2 DEF schedVars
    <3>3. pc[h] \in BarrierLabels
      BY <1>2, BarrierJump DEF Inside, SchedulerInv, TypeOK
    <3>4. PICK l \in BarrierLabels \cup {"end_test"} : pc' = [pc EXCEPT ![h] = l]
      BY <1>2, BarrierJump DEF SchedulerInv, TypeOK
    <3>5. \A g \in Harts : \/ pc'[g] = pc[g]
                           \/ pc[g] \in BarrierLabels /\ pc'[g] \in BarrierLabels \cup {"end_test"}
      BY <1>t, <3>3, <3>4
    <3>6. \A k \in BarrierLabels \cup {"end_test"} : k # "load_test_addr" /\ k # "store_num_runs"
      BY DEF BarrierLabels, LockedLabels
    <3>7. Hart0 \in Harts /\ Running' \subseteq Harts /\ Running \subseteq Harts
      BY SimultaneousAssumption DEF Running
    <3> QED
      BY <1>d, <3>1, <3>2, <3>5, <3>6, <3>7 DEF DataInv, Target, BeforeStore
  <2> QED
    BY <2>1, <2>2
<1>3. ASSUME NEW h \in Harts, EotStep(h), UNCHANGED <<barrierVars, schedVars>>
      PROVE  DataInv'
  <2>1. Running' = Running /\ \A g \in Running : pc'[g] = pc[g] /\ NextSite(g)' = NextSite(g)
    BY <1>3, EotStepStays DEF Running
  <2>2. \A g \in Harts \ Running : pc'[g] \in EotLabels
    BY <2>1 DEF Running, Gone
  <2>3. ra' = ra /\ s10' = s10 /\ test' = test /\ num_runs' = num_runs
    BY <1>3 DEF schedVars
  <2>4. \A k \in EotLabels : k # "load_test_addr" /\ k # "store_num_runs"
    BY DEF EotLabels
  <2>5. \A g \in Harts : pc'[g] \in {"store_num_runs", "load_test_addr"} => ra'[g] = "dispatch"
    BY <1>d, <2>1, <2>2, <2>3, <2>4 DEF DataInv
  <2> QED
    BY <1>d, <2>1, <2>3, <2>5 DEF DataInv, Target, BeforeStore
<1>4. CASE UNCHANGED vars
  BY <1>4, <1>d DEF vars, eotVars, barrierVars, schedVars, Running, Gone, NextSite, Released,
      Departing, DataInv, Target, BeforeStore
<1> QED
  BY <1>1, <1>2, <1>3, <1>4 DEF Next, HartStep, Terminated

\* Every step keeps the reason why the first hart left.
LEMMA EndStep == SchedulerInv /\ [Next]_vars => EndInv'
<1> SUFFICES ASSUME SchedulerInv, [Next]_vars PROVE EndInv'
  OBVIOUS
<1>e. EndInv /\ EotInv
  BY DEF SchedulerInv
<1>t. /\ TypeOK /\ BarrierTypeOK /\ EotTypeOK(Labels)
      /\ pc \in [Harts -> Labels] /\ gp \in [Harts -> GpValues] /\ num_runs \in Nat
      /\ s10 \in [Harts -> Nat]
  BY SimultaneousAssumption DEF SchedulerInv, TypeOK, EotTypeOK, Sequence
<1>k. ASSUME NEW h \in Harts, h \notin Gone, UNCHANGED eotRest,
             NEW l, l \notin EotLabels, pc' = [pc EXCEPT ![h] = l], gp' = gp,
             num_runs = 0 => num_runs' = 0, UNCHANGED soft_end
      PROVE  EndInv'
  <2>1. Gone' = Gone /\ \A g \in Gone : pc'[g] = pc[g] /\ gp'[g] = gp[g]
    BY <1>k, <1>t DEF Gone
  <2> QED
    BY <1>k, <1>e, <2>1 DEF EndInv, eotRest
<1>l. ASSUME NEW h \in Harts, h \notin Gone, UNCHANGED <<eotRest, num_runs>>,
             pc' = [pc EXCEPT ![h] = "end_test"],
             NEW v, gp' = [gp EXCEPT ![h] = v],
             v # "pass" \/ num_runs = 0 \/ Gone # {} \/ soft_end',
             soft_end => soft_end'
      PROVE  EndInv'
  <2>1. Gone' = Gone \cup {h} /\ \A g \in Gone : pc'[g] = pc[g] /\ gp'[g] = gp[g]
    BY <1>l, <1>t DEF Gone, EotLabels
  <2>2. pc'[h] = "end_test" /\ gp'[h] = v
    BY <1>l, <1>t
  <2>3. num_hard_fails' = num_hard_fails /\ num_runs' = num_runs
    BY <1>l DEF eotRest
  <2>4. \A g \in Gone' : pc'[g] # "end_test" /\ gp'[g] # "pass" => num_hard_fails' # 0
    BY <1>e, <2>1, <2>2, <2>3 DEF EndInv
  <2>5. Gone' # {} /\ ~soft_end' /\ num_runs' # 0 => \E g \in Gone' : gp'[g] # "pass"
    BY <1>e, <1>l, <2>1, <2>2, <2>3 DEF EndInv
  <2> QED
    BY <2>4, <2>5 DEF EndInv
<1>1. ASSUME NEW h \in Harts, SchedStep(h) PROVE EndInv'
  <2>1. h \notin Gone /\ UNCHANGED eotRest
    BY <1>1, SchedJump, LabelsFact DEF Gone, BarrierLabels
  <2>0. \A l \in SchedLabels \cup {"check_ended"} : l \notin EotLabels
    BY LabelsFact DEF BarrierLabels
  <2>2. CASE SchedulerInit(h) \/ LaunchSetup(h) \/ LoadTestAddr(h)
    <3>1. /\ pc' = [pc EXCEPT ![h] = "check_ended"] /\ gp' = gp
          /\ UNCHANGED <<num_runs, soft_end>>
      BY <2>2, EnterJump DEF SchedulerInit, LaunchSetup, LoadTestAddr, CallBarrier
    <3> QED
      BY <1>k, <2>0, <2>1, <3>1
  <2>3. CASE LoadNumRuns(h)
    <3>1. CASE num_runs = 0
      <4>1. /\ pc' = [pc EXCEPT ![h] = "end_test"] /\ gp' = [gp EXCEPT ![h] = "pass"]
            /\ UNCHANGED <<num_runs, soft_end>>
        BY <2>3, <3>1 DEF LoadNumRuns, NoRunsLeft, OsEndTest, Goto
      <4> QED
        BY <1>l, <2>1, <3>1, <4>1
    <3>2. CASE num_runs # 0
      <4>1. /\ pc' = [pc EXCEPT ![h] = "check_ended"] /\ gp' = gp
            /\ UNCHANGED <<num_runs, soft_end>>
        BY <2>3, <3>2, EnterJump DEF LoadNumRuns, NoRunsLeft, CallBarrier
      <4> QED
        BY <1>k, <2>0, <2>1, <4>1
    <3> QED
      BY <3>1, <3>2
  <2>4. CASE StoreNumRuns(h)
    <3>1. num_runs = 0 => num_runs' = 0
      <4>1. CASE h = Hart0
        <5>1. ra[h] = "dispatch" /\ h \in Running /\ NextSite(h) = "execute"
          BY <2>1, <2>4 DEF SchedulerInv, DataInv, StoreNumRuns, Running, NextSite,
             BarrierLabels, LockedLabels
        <5>2. s10[h] = num_runs - 1
          BY <2>4, <4>1, <5>1 DEF SchedulerInv, DataInv, Target, BeforeStore, StoreNumRuns
        <5> QED
          BY <1>t, <5>2
      <4>2. CASE h # Hart0
        BY <2>4, <4>2 DEF StoreNumRuns
      <4> QED
        BY <4>1, <4>2
    <3>2. pc' = [pc EXCEPT ![h] = "load_test_addr"] /\ gp' = gp /\ soft_end' = soft_end
      BY <2>4 DEF StoreNumRuns, Goto
    <3>3. "load_test_addr" \in SchedLabels
      BY DEF SchedLabels
    <3> QED
      BY <1>k, <2>0, <2>1, <3>1, <3>2, <3>3
  <2>5. CASE BackInDispatch(h) \/ ExecuteTest(h) \/ TestPasses(h) \/ TestHangs(h)
    <3>1. PICK l \in SchedLabels : pc' = [pc EXCEPT ![h] = l]
      BY <2>5 DEF BackInDispatch, ExecuteTest, TestPasses, TestHangs, Goto, SchedLabels
    <3>2. gp' = gp /\ UNCHANGED <<num_runs, soft_end>>
      BY <2>5 DEF BackInDispatch, ExecuteTest, TestPasses, TestHangs, schedVars
    <3> QED
      BY <1>k, <2>0, <2>1, <3>1, <3>2
  <2>6. CASE TestFails(h)
    <3>1. /\ pc' = [pc EXCEPT ![h] = "end_test"] /\ gp' = [gp EXCEPT ![h] = "fail"]
          /\ UNCHANGED <<num_runs, soft_end>>
      BY <2>6 DEF TestFails, TestFailed, Goto, schedVars
    <3> QED
      BY <1>l, <2>1, <3>1
  <2>7. CASE TestEnds(h)
    <3>1. /\ pc' = [pc EXCEPT ![h] = "end_test"] /\ gp' = [gp EXCEPT ![h] = "pass"]
          /\ UNCHANGED num_runs /\ soft_end'
      BY <2>7 DEF TestEnds, OsEndTest, Goto
    <3> QED
      BY <1>l, <2>1, <3>1
  <2> QED
    BY <1>1, <2>2, <2>3, <2>4, <2>5, <2>6, <2>7 DEF SchedStep
<1>2. ASSUME NEW h \in Harts, BarrierStep(h), UNCHANGED schedVars PROVE EndInv'
  <2>1. h \notin Gone /\ UNCHANGED eotRest /\ UNCHANGED <<num_runs, soft_end>>
    BY <1>t, <1>2, BarrierJump, LabelsFact DEF Gone, Inside, schedVars
  <2>2. ASSUME NEW l \in BarrierLabels, pc' = [pc EXCEPT ![h] = l], gp' = gp PROVE EndInv'
    BY <1>k, <2>1, <2>2, LabelsFact
  <2>3. CASE pc' = [pc EXCEPT ![h] = "end_test"] /\ gp' = [gp EXCEPT ![h] = "fail"]
    BY <1>l, <2>1, <2>3
  <2>4. CASE /\ pc' = [pc EXCEPT ![h] = "end_test"] /\ gp' = [gp EXCEPT ![h] = "pass"]
             /\ num_harts_ended # 0
    BY <1>e, <1>l, <2>1, <2>4, SomebodyIsGone
  <2> QED
    BY <1>t, <1>2, <2>2, <2>3, <2>4, BarrierJump
<1>3. ASSUME NEW h \in Harts, EotStep(h), UNCHANGED <<barrierVars, schedVars>>
      PROVE  EndInv'
  <2>1. h \in Gone /\ Gone' = Gone /\ gp' = gp /\ num_hard_fails \in Nat
    BY <1>3, EotStepStays
  <2>2. UNCHANGED <<num_runs, soft_end>>
    BY <1>3 DEF schedVars
  <2>3. \A g \in Gone : pc'[g] # "end_test" /\ gp[g] # "pass" => num_hard_fails' # 0
    <3>1. CASE EndTest(h)
      BY <1>e, <1>t, <2>1, <3>1 DEF EndTest, EndInv, Goto
    <3>2. CASE ~EndTest(h)
      <4>1. num_hard_fails' = num_hard_fails /\ pc[h] # "end_test"
        BY <1>3, <3>2 DEF EotStep, MarkDone, TohostTryLock, TohostSwap, WaitForOthers,
           WaitEnded, Passed, Failed
      <4>2. \A g \in Gone : pc'[g] # "end_test" => pc[g] # "end_test"
        <5>1. PICK l \in EotLabels : pc' = [pc EXCEPT ![h] = l]
          BY <1>3, EotJump
        <5> QED
          BY <1>t, <4>1, <5>1 DEF Gone
      <4> QED
        BY <1>e, <4>1, <4>2 DEF EndInv
    <3> QED
      BY <3>1, <3>2
  <2> QED
    BY <1>e, <2>1, <2>2, <2>3 DEF EndInv
<1>4. CASE UNCHANGED vars
  BY <1>4, <1>e DEF vars, eotVars, eotRest, schedVars, EndInv, Gone
<1> QED
  BY <1>1, <1>2, <1>3, <1>4 DEF Next, HartStep, Terminated

-----------------------------------------------------------------------------

\* The inductive invariant holds in every reachable state.
THEOREM SchedulerInvariant == Spec => []SchedulerInv
<1>1. SchedulerInv /\ [Next]_vars => SchedulerInv'
  BY TypeOKStep, EotInvStep, BarrierInvStep, RoundStep, DataStep, EndStep DEF SchedulerInv
<1> QED
  BY InitInv, <1>1, PTL DEF Spec

\* Type correctness of the scheduler, the barrier and the end of the test.
THEOREM TypeCorrect == Spec => []TypeOK
<1>1. SchedulerInv => TypeOK
  BY DEF SchedulerInv
<1> QED
  BY SchedulerInvariant, <1>1, PTL

\* The index of the test that a hart in a test runs is the current num_runs.
LEMMA ExecutingFact ==
  ASSUME SchedulerInv, NEW h \in Harts, pc[h] = "execute"
  PROVE  test[h] = num_runs
<1>1. h \in Running /\ NextSite(h) = "dispatch"
  BY DEF Running, Gone, EotLabels, NextSite, BarrierLabels, LockedLabels
<1> QED
  BY <1>1 DEF SchedulerInv, DataInv

\* simultaneous.py: "All harts run the same test at the same time."
THEOREM AllRunTheSameTest == Spec => []SameTest
<1>1. SchedulerInv => SameTest
  BY ExecutingFact DEF SameTest
<1> QED
  BY SchedulerInvariant, <1>1, PTL

\* The test a hart executes, computed from a copy of num_runs that is two
\* barriers old, is the one that hart 0 has stored meanwhile.
THEOREM CopiesAreCurrent == Spec => []ExecutesCurrent
<1>1. SchedulerInv => ExecutesCurrent
  BY ExecutingFact DEF ExecutesCurrent
<1> QED
  BY SchedulerInvariant, <1>1, PTL

\* A run that is reported as passed, and that no test cut short, has got as far
\* as test_cleanup.
THEOREM PassRunsCleanup == Spec => []PassCoversPlan
<1>1. SchedulerInv => PassCoversPlan
  <2> SUFFICES ASSUME SchedulerInv, tohost = "pass", num_hard_fails = 0, ~soft_end
               PROVE  num_runs = 0
    BY DEF PassCoversPlan
  <2>1. Ended = Harts
    BY DEF SchedulerInv, EotInv
  <2>2. Gone = Harts /\ Gone # {} /\ \A h \in Harts : pc[h] # "end_test"
    BY <2>1, EotAssumption DEF Ended, Gone, EndedLabels, WinnerLabels, EotLabels
  <2>3. \A h \in Gone : gp[h] = "pass"
    BY <2>2 DEF SchedulerInv, EndInv
  <2> QED
    BY <2>2, <2>3 DEF SchedulerInv, EndInv
<1> QED
  BY SchedulerInvariant, <1>1, PTL

\* eot.py, "Only one hart will write to tohost", under this scheduler too.
THEOREM SingleWriter == Spec => []OneTohostWriter
<1>1. SchedulerInv => OneTohostWriter
  BY DEF SchedulerInv, EotInv
<1> QED
  BY SchedulerInvariant, <1>1, PTL

-----------------------------------------------------------------------------
(* The refinement                                                          *)

\* A step of the scheduler is invisible to the barrier, or a hart leaves.
LEMMA SchedStepRefines ==
  ASSUME SchedulerInv, NEW h \in Harts, SchedStep(h)
  PROVE  [AbstractBarrier!Next]_<<Waiting, Gone>>
<1>t. pc \in [Harts -> Labels]
  BY DEF SchedulerInv, TypeOK, EotTypeOK
<1>1. pc[h] \notin Inside \cup EotLabels
  BY SchedJump, LabelsFact DEF Inside, BarrierLabels
<1> USE DEF Waiting, Gone, Inside, BarrierLabels, LockedLabels
<1>2. CASE EnterBarrier(h)
  <2>1. "check_ended" \notin EotLabels
    BY DEF EotLabels
  <2> QED
    BY <1>t, <1>1, <1>2, <2>1, EnterJump
<1>3. CASE pc' = [pc EXCEPT ![h] = "end_test"] /\ UNCHANGED barrierVars
  <2>1. AbstractBarrier!Leave(h)
    BY <1>t, <1>1, <1>3 DEF AbstractBarrier!Leave, EotLabels, barrierVars
  <2> QED
    BY <2>1 DEF AbstractBarrier!Next
<1>4. ASSUME NEW l \in SchedLabels, pc' = [pc EXCEPT ![h] = l], UNCHANGED barrierVars
      PROVE  UNCHANGED <<Waiting, Gone>>
  <2>1. l \notin Inside /\ l \notin EotLabels
    BY LabelsFact
  <2> QED
    BY <1>t, <1>1, <1>4, <2>1 DEF barrierVars
<1> QED
  BY <1>2, <1>3, <1>4, SchedJump

\* Two counters, a flag and a lock implement the atomic barrier: nobody goes on
\* before everybody has arrived, all go on together, and nobody is let through
\* by the flag of the last round.
THEOREM RoutineImplementsBarrier == Spec => ImplementsBarrier
<1>1. Init => AbstractBarrier!Init
  <2>1. "init" \notin EotLabels
    BY DEF EotLabels
  <2> QED
    BY <2>1 DEF Init, AbstractBarrier!Init, Waiting, Gone
<1>2. SchedulerInv /\ [Next]_vars => [AbstractBarrier!Next]_<<Waiting, Gone>>
  <2> SUFFICES ASSUME SchedulerInv, [Next]_vars
               PROVE  [AbstractBarrier!Next]_<<Waiting, Gone>>
    OBVIOUS
  <2>1. ASSUME NEW h \in Harts, SchedStep(h)
        PROVE  [AbstractBarrier!Next]_<<Waiting, Gone>>
    BY <2>1, SchedStepRefines
  <2>2. ASSUME NEW h \in Harts, BarrierStep(h)
        PROVE  [AbstractBarrier!Next]_<<Waiting, Gone>>
    BY <2>2, BarrierStepRefines DEF SchedulerInv, TypeOK
  <2>3. ASSUME NEW h \in Harts, EotStep(h), UNCHANGED <<barrierVars, schedVars>>
        PROVE  UNCHANGED <<Waiting, Gone>>
    <3>1. h \in Gone /\ Gone' = Gone /\ \A g \in Running : pc'[g] = pc[g]
      BY <2>3, EotStepStays
    <3>2. \A g \in Gone : pc[g] \in EotLabels /\ pc'[g] \in EotLabels
      BY <3>1 DEF Gone
    <3>3. Waiting' = Waiting
      BY <2>3, <3>1, <3>2 DEF Waiting, Running, Gone, EotLabels, barrierVars
    <3> QED
      BY <3>1, <3>3
  <2>4. CASE UNCHANGED vars
    BY <2>4 DEF vars, eotVars, barrierVars, Waiting, Gone
  <2> QED
    BY <2>1, <2>2, <2>3, <2>4 DEF Next, HartStep, Terminated
<1> QED
  BY <1>1, <1>2, SchedulerInvariant, PTL DEF Spec, ImplementsBarrier, AbstractBarrier!Spec
=============================================================================
