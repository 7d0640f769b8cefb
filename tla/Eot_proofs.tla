----------------------------- MODULE Eot_proofs -----------------------------
(***************************************************************************)
(* Proofs about the end-of-test protocol that hold whichever scheduler     *)
(* runs before it.  A module that composes the two supplies the steps of   *)
(* the scheduler, which only move one hart outside eot, or into it.        *)
(***************************************************************************)
EXTENDS Eot, FiniteSetTheorems, TLAPS

\* Counting one more hart: the set of ended harts grows by h.
LEMMA EndedGrows ==
  ASSUME NEW L, EotTypeOK(L), NEW h \in Harts, pc[h] \notin EndedLabels,
         NEW l \in EndedLabels, pc' = [pc EXCEPT ![h] = l]
  PROVE  /\ Ended' = Ended \cup {h}
         /\ Cardinality(Ended') = Cardinality(Ended) + 1
<1>1. Ended' = Ended \cup {h}
  BY DEF Ended, EotTypeOK
<1>2. IsFiniteSet(Ended)
  BY FS_Subset, EotAssumption DEF Ended
<1>3. h \notin Ended
  BY DEF Ended
<1> QED
  BY <1>1, <1>2, <1>3, FS_AddElement

\* A hart that stays on its side of eot__mark_done leaves the set alone.
LEMMA EndedStays ==
  ASSUME NEW L, EotTypeOK(L), NEW h \in Harts, NEW l,
         pc[h] \in EndedLabels <=> l \in EndedLabels, pc' = [pc EXCEPT ![h] = l]
  PROVE  Ended' = Ended
BY DEF Ended, EotTypeOK

\* A counter equal to the number of harts means that every hart has ended.
LEMMA AllHaveEnded ==
  ASSUME num_harts_ended = Cardinality(Ended), AllEnded
  PROVE  Ended = Harts
<1>1. Ended \subseteq Harts /\ Cardinality(Ended) = Cardinality(Harts)
  BY DEF Ended, AllEnded, NumHarts
<1> QED
  BY <1>1, FS_Subset, EotAssumption

\* A step before eot moves one hart, to no label past eot__mark_done.
LEMMA OutsideStep ==
  ASSUME NEW L, EotTypeOK(L), EotInv, UNCHANGED eotRest,
         NEW h \in Harts, pc[h] \notin EndedLabels,
         NEW l, l \notin EndedLabels, pc' = [pc EXCEPT ![h] = l]
  PROVE  EotInv'
<1>1. Ended' = Ended
  BY EndedStays
<1>2. OneTohostWriter'
  BY DEF EotInv, OneTohostWriter, EotTypeOK, eotRest, EndedLabels
<1>3. \A g \in Harts : pc'[g] = "passed" => pc[g] = "passed"
  BY DEF EotTypeOK, EndedLabels, WinnerLabels
<1> QED
  BY <1>1, <1>2, <1>3 DEF EotInv, eotRest

\* A hart that has counted itself has left the scheduler.
LEMMA SomebodyIsGone ==
  ASSUME EotInv, num_harts_ended # 0
  PROVE  Gone # {}
<1>1. Ended # {}
  BY FS_EmptySet DEF EotInv
<1> QED
  BY <1>1 DEF Ended, Gone, EndedLabels, WinnerLabels, EotLabels

\* A step of eot moves a hart from a label of eot to another one.
LEMMA EotJump ==
  ASSUME NEW h \in Harts, EotStep(h)
  PROVE  /\ pc[h] \in EotLabels
         /\ \E l \in EotLabels : pc' = [pc EXCEPT ![h] = l]
BY DEF EotStep, EndTest, MarkDone, TohostTryLock, TohostSwap, WaitForOthers,
   WaitEnded, Passed, Failed, Goto, EotLabels

\* Every step of eot keeps the invariant.
LEMMA EotStepKeepsInv ==
  ASSUME NEW L, EotTypeOK(L), EotInv, NEW h \in Harts, EotStep(h)
  PROVE  EotInv'
<1> USE DEF EotTypeOK, EotInv, OneTohostWriter, WinnerLabels, Goto
<1>1. CASE EndTest(h)
  <2>1. Ended' = Ended
    BY <1>1, EndedStays DEF EndTest, EndedLabels
  <2> QED
    BY <2>1, <1>1 DEF EndTest
<1>2. CASE MarkDone(h)
  <2>1. PICK l \in {"halt", "tohost_try_lock"} : pc' = [pc EXCEPT ![h] = l]
    BY <1>2 DEF MarkDone
  <2>2. Cardinality(Ended') = Cardinality(Ended) + 1 /\ Ended' = Ended \cup {h}
    BY <1>2, <2>1, EndedGrows DEF MarkDone, EndedLabels
  <2>3. Ended # Harts
    BY <1>2 DEF MarkDone, Ended, EndedLabels
  <2>4. OneTohostWriter'
    BY <1>2, <2>1 DEF MarkDone
  <2>5. ~(tohost' = "pass" \/ \E g \in Harts : pc'[g] = "passed")
    BY <1>2, <2>1, <2>3 DEF MarkDone
  <2> QED
    BY <2>2, <2>4, <2>5, <1>2 DEF MarkDone
<1>3. CASE TohostTryLock(h)
  <2>1. PICK l \in {"halt", "tohost_swap"} : pc' = [pc EXCEPT ![h] = l]
    BY <1>3 DEF TohostTryLock
  <2>2. Ended' = Ended
    BY <1>3, <2>1, EndedStays DEF TohostTryLock, EndedLabels
  <2> QED
    BY <2>1, <2>2, <1>3 DEF TohostTryLock
<1>4. CASE TohostSwap(h)
  <2>1. PICK l \in {"halt", "wait_for_others"} : pc' = [pc EXCEPT ![h] = l]
    BY <1>4 DEF TohostSwap
  <2>2. Ended' = Ended
    BY <1>4, <2>1, EndedStays DEF TohostSwap, EndedLabels
  <2>3. OneTohostWriter'
    BY <1>4 DEF TohostSwap
  <2>4. \A g \in Harts : pc'[g] = "passed" => pc[g] = "passed"
    BY <2>1
  <2> QED
    BY <2>2, <2>3, <2>4, <1>4 DEF TohostSwap
<1>5. CASE WaitForOthers(h)
  <2>1. PICK l \in {"failed", "wait_ended"} : pc' = [pc EXCEPT ![h] = l]
    BY <1>5 DEF WaitForOthers
  <2>2. Ended' = Ended
    BY <1>5, <2>1, EndedStays DEF WaitForOthers, EndedLabels
  <2> QED
    BY <2>1, <2>2, <1>5 DEF WaitForOthers
<1>6. CASE WaitEnded(h)
  <2>1. PICK l \in {"passed", "wait_for_others"} : pc' = [pc EXCEPT ![h] = l]
    BY <1>6 DEF WaitEnded
  <2>2. Ended' = Ended
    BY <1>6, <2>1, EndedStays DEF WaitEnded, EndedLabels
  <2>3. (\E g \in Harts : pc'[g] = "passed") => Ended = Harts
    BY <1>6, AllHaveEnded DEF WaitEnded
  <2> QED
    BY <2>1, <2>2, <2>3, <1>6 DEF WaitEnded
<1>7. CASE Passed(h)
  <2>1. Ended' = Ended
    BY <1>7, EndedStays DEF Passed, EndedLabels
  <2> QED
    BY <2>1, <1>7 DEF Passed
<1>8. CASE Failed(h)
  <2>1. Ended' = Ended
    BY <1>8, EndedStays DEF Failed, EndedLabels
  <2> QED
    BY <2>1, <1>8 DEF Failed
<1> QED
  BY <1>1, <1>2, <1>3, <1>4, <1>5, <1>6, <1>7, <1>8 DEF EotStep
=============================================================================
