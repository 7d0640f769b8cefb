---------------------- MODULE ParallelScheduler_proofs ----------------------
(***************************************************************************)
(* Proofs, for any number of harts, tests and repetitions, that the        *)
(* parallel scheduler never runs one discrete test on two harts at a time, *)
(* loses no run, and that a single hart writes tohost.                     *)
(***************************************************************************)
EXTENDS ParallelScheduler, Eot_proofs

\* Every label a hart jumps to is a label of the program.
LEMMA LabelsFact ==
  /\ SelectLabels \subseteq Labels
  /\ EotLabels \subseteq Labels
  /\ {"execute", "hung", "dispatch", "check_ended", "try_lock", "swap_lock",
      "finished"} \subseteq Labels
  /\ {"next_test", "walk", "selected", "swap_mutex", "dec_num_runs",
      "store_num_runs", "dec_pending", "store_pending", "release",
      "release_and_retry", "no_tests"} \subseteq Labels
  /\ {"end_test", "mark_done", "tohost_try_lock", "tohost_swap", "wait_for_others",
      "wait_ended", "passed", "failed", "halt"} \subseteq Labels
BY DEF Labels, SchedLabels, SelectLabels, EotLabels

LEMMA TestsFact ==
  /\ Tests \subseteq Nat
  /\ 1 \in Tests
  /\ NumTests \in Tests
  /\ \A t \in Tests : t # NumTests => t + 1 \in Tests
  /\ Setup \notin Tests
  /\ Cleanup \notin Tests
  /\ 0 \notin Tests
BY ParallelAssumption DEF Tests, Setup, Cleanup

\* Initially nobody owns a lock and every run is left.
LEMMA InitInv == Init => SchedulerInv
<1> SUFFICES ASSUME Init PROVE SchedulerInv
  OBVIOUS
<1> USE ParallelAssumption DEF Init, EotInit
<1>1. TypeOK
  <2>1. pending_num_runs \in Int
    OBVIOUS
  <2>2. EotTypeOK(Labels)
    BY LabelsFact DEF EotTypeOK, GpValues
  <2>3. test \in [Harts -> Tests \cup {Setup, Cleanup}] /\ a0 \in [Harts -> Tests]
    BY TestsFact
  <2>4. num_runs \in [Tests -> Nat] /\ test_mutexes \in [Tests -> Nat]
        /\ completed \in [Tests -> Nat]
    OBVIOUS
  <2>5. t0 \in [Harts -> Int] /\ t3 \in [Harts -> Nat] /\ a4 \in [Harts -> Nat]
        /\ a5 \in [Harts -> Nat]
    OBVIOUS
  <2> QED
    BY <2>1, <2>2, <2>3, <2>4, <2>5 DEF TypeOK
<1>2. SelectLockInv
  BY DEF SelectLockInv, SelectLabels
<1>3. SelectionInv
  BY DEF SelectionInv
<1>4. MutexInv
  BY DEF MutexInv, Owns, SelectLabels, Tests, Setup
<1>5. RunAccounting
  BY DEF RunAccounting, InFlight, Tests
<1>6. PendingInv
  <2>1. RunsLeft = Tests \X (1 .. RepeatTimes)
    BY DEF RunsLeft
  <2>2. IsFiniteSet(Tests) /\ Cardinality(Tests) = NumTests
    BY FS_Interval DEF Tests
  <2>3. IsFiniteSet(1 .. RepeatTimes) /\ Cardinality(1 .. RepeatTimes) = RepeatTimes
    BY FS_Interval
  <2>4. Cardinality(RunsLeft) = NumTests * RepeatTimes
    BY <2>1, <2>2, <2>3, FS_Product
  <2>5. NumTests * RepeatTimes \in Nat
    OBVIOUS
  <2> QED
    BY <2>4, <2>5 DEF PendingInv
<1>7. FinishInv /\ EndInv
  BY DEF FinishInv, EndInv, Gone, EotLabels
<1> QED
  BY <1>1, <1>2, <1>3, <1>4, <1>5, <1>6, <1>7 DEF SchedulerInv

\* Every step of a hart keeps the types.
LEMMA TypeStep == SchedulerInv /\ [Next]_vars => TypeOK'
<1> SUFFICES ASSUME SchedulerInv, [Next]_vars PROVE TypeOK'
  OBVIOUS
<1>t. TypeOK /\ SelectLockInv /\ SelectionInv
  BY DEF SchedulerInv
<1> USE ParallelAssumption, EotAssumption, LabelsFact, TestsFact, <1>t
    DEF TypeOK, EotTypeOK, GpValues, Goto, eotRest, schedVars
<1>1. ASSUME NEW h \in Harts, TestPasses(h) PROVE TypeOK'
  BY <1>1 DEF TestPasses
<1>2. ASSUME NEW h \in Harts, TestFails(h) PROVE TypeOK'
  BY <1>2 DEF TestFails, TestFailed
<1>3. ASSUME NEW h \in Harts, TestEnds(h) PROVE TypeOK'
  BY <1>3 DEF TestEnds, OsEndTest
<1>4. ASSUME NEW h \in Harts, TestHangs(h) PROVE TypeOK'
  BY <1>4 DEF TestHangs
<1>5. ASSUME NEW h \in Harts, Dispatch(h) PROVE TypeOK'
  BY <1>5 DEF Dispatch, MutexesAfterRelease
<1>6. ASSUME NEW h \in Harts, CheckEnded(h) PROVE TypeOK'
  BY <1>6 DEF CheckEnded, AnyHartEnded, OsEndTest, TestFailed, SelectLockInv
<1>7. ASSUME NEW h \in Harts, TryLock(h) PROVE TypeOK'
  BY <1>7 DEF TryLock
<1>8. ASSUME NEW h \in Harts, SwapLock(h) PROVE TypeOK'
  BY <1>8 DEF SwapLock
<1>9. ASSUME NEW h \in Harts, NextTest(h) PROVE TypeOK'
  BY <1>9 DEF NextTest, NoTestsLeft
<1>10. ASSUME NEW h \in Harts, Walk(h) PROVE TypeOK'
  <2>1. num_runs[a0[h]] \in Nat /\ a0[h] \in Tests
    OBVIOUS
  <2>2. t3' \in [Harts -> Nat] /\ a5' \in [Harts -> Nat]
    BY <2>1, <1>10 DEF Walk
  <2>a. a0[h] # NumTests => a0[h] + 1 \in Tests
    BY <2>1
  <2>3. a0' \in [Harts -> Tests]
    BY <2>a, <1>10 DEF Walk, StopsAt
  <2>4. pc' \in [Harts -> Labels]
    BY <1>10 DEF Walk, StopsAt
  <2> QED
    BY <2>2, <2>3, <2>4, <1>10 DEF Walk
<1>11. ASSUME NEW h \in Harts, Selected(h) PROVE TypeOK'
  BY <1>11 DEF Selected, MutexTaken
<1>12. ASSUME NEW h \in Harts, SwapMutex(h) PROVE TypeOK'
  BY <1>12 DEF SwapMutex, MutexTaken
<1>13. ASSUME NEW h \in Harts, LoadNumRuns(h) PROVE TypeOK'
  <2>1. num_runs[a0[h]] \in Nat /\ a0[h] \in Tests
    OBVIOUS
  <2>2. num_runs[a0[h]] \in Int
    BY <2>1
  <2> QED
    BY <2>2, <1>13 DEF LoadNumRuns
<1>14. ASSUME NEW h \in Harts, StoreNumRuns(h) PROVE TypeOK'
  BY <1>14 DEF StoreNumRuns, SelectionInv
<1>15. ASSUME NEW h \in Harts, LoadPending(h) PROVE TypeOK'
  BY <1>15 DEF LoadPending
<1>16. ASSUME NEW h \in Harts, StorePending(h) PROVE TypeOK'
  BY <1>16 DEF StorePending
<1>17. ASSUME NEW h \in Harts, Release(h) PROVE TypeOK'
  BY <1>17 DEF Release, ForgetSelection
<1>18. ASSUME NEW h \in Harts, ReleaseAndRetry(h) PROVE TypeOK'
  BY <1>18 DEF ReleaseAndRetry, ForgetSelection
<1>19. ASSUME NEW h \in Harts, NoTests(h) PROVE TypeOK'
  BY <1>19 DEF NoTests
<1>20. ASSUME NEW h \in Harts, Finished(h) PROVE TypeOK'
  BY <1>20 DEF Finished, OsEndTest
<1>21. ASSUME NEW h \in Harts, EotStep(h), UNCHANGED schedVars PROVE TypeOK'
  BY <1>21 DEF EotStep, EndTest, MarkDone, TohostTryLock, TohostSwap, WaitForOthers,
      WaitEnded, Passed, Failed
<1>22. CASE UNCHANGED vars
  BY <1>22 DEF vars, eotVars
<1> QED
  BY <1>1, <1>2, <1>3, <1>4, <1>5, <1>6, <1>7, <1>8, <1>9, <1>10, <1>11, <1>12, <1>13,
     <1>14, <1>15, <1>16, <1>17, <1>18, <1>19, <1>20, <1>21, <1>22
     DEF Next, HartStep, SchedStep, Terminated
\* Every step keeps test_select_lock exclusive.
LEMMA SelectLockStep == SchedulerInv /\ [Next]_vars => SelectLockInv'
<1> SUFFICES ASSUME SchedulerInv, [Next]_vars PROVE SelectLockInv'
  OBVIOUS
<1>t. TypeOK /\ SelectLockInv
  BY DEF SchedulerInv
<1> USE ParallelAssumption, <1>t
    DEF TypeOK, EotTypeOK, SelectLockInv, SelectLabels, Goto, eotRest, schedVars
<1>1. ASSUME NEW h \in Harts, TestPasses(h) PROVE SelectLockInv'
  BY <1>1 DEF TestPasses
<1>2. ASSUME NEW h \in Harts, TestFails(h) PROVE SelectLockInv'
  BY <1>2 DEF TestFails, TestFailed
<1>3. ASSUME NEW h \in Harts, TestEnds(h) PROVE SelectLockInv'
  BY <1>3 DEF TestEnds, OsEndTest
<1>4. ASSUME NEW h \in Harts, TestHangs(h) PROVE SelectLockInv'
  BY <1>4 DEF TestHangs
<1>5. ASSUME NEW h \in Harts, Dispatch(h) PROVE SelectLockInv'
  BY <1>5 DEF Dispatch, MutexesAfterRelease
<1>6. ASSUME NEW h \in Harts, CheckEnded(h) PROVE SelectLockInv'
  BY <1>6 DEF CheckEnded, OsEndTest, TestFailed
<1>7. ASSUME NEW h \in Harts, TryLock(h) PROVE SelectLockInv'
  BY <1>7 DEF TryLock
<1>8. ASSUME NEW h \in Harts, SwapLock(h) PROVE SelectLockInv'
  BY <1>8 DEF SwapLock
<1>9. ASSUME NEW h \in Harts, NextTest(h) PROVE SelectLockInv'
  BY <1>9 DEF NextTest
<1>10. ASSUME NEW h \in Harts, Walk(h) PROVE SelectLockInv'
  BY <1>10 DEF Walk, StopsAt
<1>11. ASSUME NEW h \in Harts, Selected(h) PROVE SelectLockInv'
  BY <1>11 DEF Selected
<1>12. ASSUME NEW h \in Harts, SwapMutex(h) PROVE SelectLockInv'
  BY <1>12 DEF SwapMutex, MutexTaken
<1>13. ASSUME NEW h \in Harts, LoadNumRuns(h) PROVE SelectLockInv'
  BY <1>13 DEF LoadNumRuns
<1>14. ASSUME NEW h \in Harts, StoreNumRuns(h) PROVE SelectLockInv'
  BY <1>14 DEF StoreNumRuns
<1>15. ASSUME NEW h \in Harts, LoadPending(h) PROVE SelectLockInv'
  BY <1>15 DEF LoadPending
<1>16. ASSUME NEW h \in Harts, StorePending(h) PROVE SelectLockInv'
  BY <1>16 DEF StorePending
<1>17. ASSUME NEW h \in Harts, Release(h) PROVE SelectLockInv'
  BY <1>17 DEF Release, ForgetSelection
<1>18. ASSUME NEW h \in Harts, ReleaseAndRetry(h) PROVE SelectLockInv'
  BY <1>18 DEF ReleaseAndRetry, ForgetSelection
<1>19. ASSUME NEW h \in Harts, NoTests(h) PROVE SelectLockInv'
  BY <1>19 DEF NoTests
<1>20. ASSUME NEW h \in Harts, Finished(h) PROVE SelectLockInv'
  BY <1>20 DEF Finished, OsEndTest
<1>21. ASSUME NEW h \in Harts, EotStep(h), UNCHANGED schedVars PROVE SelectLockInv'
  BY <1>21 DEF EotStep, EndTest, MarkDone, TohostTryLock, TohostSwap, WaitForOthers,
      WaitEnded, Passed, Failed
<1>22. CASE UNCHANGED vars
  BY <1>22 DEF vars, eotVars
<1> QED
  BY <1>1, <1>2, <1>3, <1>4, <1>5, <1>6, <1>7, <1>8, <1>9, <1>10, <1>11, <1>12, <1>13,
     <1>14, <1>15, <1>16, <1>17, <1>18, <1>19, <1>20, <1>21, <1>22
     DEF Next, HartStep, SchedStep, Terminated

\* Every step keeps the registers of the selection up to date.
LEMMA SelectionStep == SchedulerInv /\ [Next]_vars => SelectionInv'
<1> SUFFICES ASSUME SchedulerInv, [Next]_vars PROVE SelectionInv'
  OBVIOUS
<1>t. TypeOK /\ SelectLockInv /\ SelectionInv
  BY DEF SchedulerInv
<1> USE TestsFact, <1>t
    DEF TypeOK, EotTypeOK, SelectLockInv, SelectionInv, SelectLabels, Goto, eotRest, schedVars
<1>1. ASSUME NEW h \in Harts, TestPasses(h) PROVE SelectionInv'
  BY <1>1 DEF TestPasses
<1>2. ASSUME NEW h \in Harts, TestFails(h) PROVE SelectionInv'
  BY <1>2 DEF TestFails, TestFailed
<1>3. ASSUME NEW h \in Harts, TestEnds(h) PROVE SelectionInv'
  BY <1>3 DEF TestEnds, OsEndTest
<1>4. ASSUME NEW h \in Harts, TestHangs(h) PROVE SelectionInv'
  BY <1>4 DEF TestHangs
<1>5. ASSUME NEW h \in Harts, Dispatch(h) PROVE SelectionInv'
  BY <1>5 DEF Dispatch, MutexesAfterRelease
<1>6. ASSUME NEW h \in Harts, CheckEnded(h) PROVE SelectionInv'
  BY <1>6 DEF CheckEnded, OsEndTest, TestFailed
<1>7. ASSUME NEW h \in Harts, TryLock(h) PROVE SelectionInv'
  BY <1>7 DEF TryLock
<1>8. ASSUME NEW h \in Harts, SwapLock(h) PROVE SelectionInv'
  BY <1>8 DEF SwapLock
<1>9. ASSUME NEW h \in Harts, NextTest(h) PROVE SelectionInv'
  BY <1>9 DEF NextTest
<1>10. ASSUME NEW h \in Harts, Walk(h) PROVE SelectionInv'
  <2>1. num_runs[a0[h]] \in Nat /\ a0[h] \in Tests /\ a5[h] \in Nat /\ a4[h] \in Nat
    OBVIOUS
  <2>2. ASSUME a5[h] + num_runs[a0[h]] > a4[h] PROVE SelectionInv'
    BY <2>1, <2>2, <1>10 DEF Walk, StopsAt
  <2>3. ASSUME ~(a5[h] + num_runs[a0[h]] > a4[h]) PROVE SelectionInv'
    <3>1. a5[h] + num_runs[a0[h]] <= a4[h]
      BY <2>1, <2>3
    <3>2. PICK l \in {"walk", "release_and_retry"} : pc' = [pc EXCEPT ![h] = l]
      BY <2>3, <1>10 DEF Walk, StopsAt
    <3>3. /\ a5' = [a5 EXCEPT ![h] = @ + num_runs[a0[h]]]
          /\ UNCHANGED <<num_runs, a4, t0>>
          /\ \A g \in Harts \ {h} : a0'[g] = a0[g] /\ t3'[g] = t3[g]
      BY <2>3, <1>10 DEF Walk, StopsAt
    <3> QED
      BY <3>1, <3>2, <3>3
  <2> QED
    BY <2>2, <2>3
<1>11. ASSUME NEW h \in Harts, Selected(h) PROVE SelectionInv'
  BY <1>11 DEF Selected
<1>12. ASSUME NEW h \in Harts, SwapMutex(h) PROVE SelectionInv'
  BY <1>12 DEF SwapMutex, MutexTaken
<1>13. ASSUME NEW h \in Harts, LoadNumRuns(h) PROVE SelectionInv'
  BY <1>13 DEF LoadNumRuns
<1>14. ASSUME NEW h \in Harts, StoreNumRuns(h) PROVE SelectionInv'
  BY <1>14 DEF StoreNumRuns
<1>15. ASSUME NEW h \in Harts, LoadPending(h) PROVE SelectionInv'
  BY <1>15 DEF LoadPending
<1>16. ASSUME NEW h \in Harts, StorePending(h) PROVE SelectionInv'
  BY <1>16 DEF StorePending
<1>17. ASSUME NEW h \in Harts, Release(h) PROVE SelectionInv'
  BY <1>17 DEF Release, ForgetSelection
<1>18. ASSUME NEW h \in Harts, ReleaseAndRetry(h) PROVE SelectionInv'
  BY <1>18 DEF ReleaseAndRetry, ForgetSelection
<1>19. ASSUME NEW h \in Harts, NoTests(h) PROVE SelectionInv'
  BY <1>19 DEF NoTests
<1>20. ASSUME NEW h \in Harts, Finished(h) PROVE SelectionInv'
  BY <1>20 DEF Finished, OsEndTest
<1>21. ASSUME NEW h \in Harts, EotStep(h), UNCHANGED schedVars PROVE SelectionInv'
  BY <1>21 DEF EotStep, EndTest, MarkDone, TohostTryLock, TohostSwap, WaitForOthers,
      WaitEnded, Passed, Failed
<1>22. CASE UNCHANGED vars
  BY <1>22 DEF vars, eotVars
<1> QED
  BY <1>1, <1>2, <1>3, <1>4, <1>5, <1>6, <1>7, <1>8, <1>9, <1>10, <1>11, <1>12, <1>13,
     <1>14, <1>15, <1>16, <1>17, <1>18, <1>19, <1>20, <1>21, <1>22
     DEF Next, HartStep, SchedStep, Terminated

\* Every step keeps the test mutexes exclusive.
LEMMA MutexStep == SchedulerInv /\ [Next]_vars => MutexInv'
<1> SUFFICES ASSUME SchedulerInv, [Next]_vars PROVE MutexInv'
  OBVIOUS
<1>t. TypeOK /\ SelectLockInv /\ SelectionInv /\ MutexInv
  BY DEF SchedulerInv
<1> USE TestsFact, <1>t
    DEF TypeOK, EotTypeOK, SelectLockInv, SelectionInv, MutexInv, Owns, SelectLabels,
        Goto, eotRest, schedVars
<1>1. ASSUME NEW h \in Harts, TestPasses(h) PROVE MutexInv'
  BY <1>1 DEF TestPasses
<1>2. ASSUME NEW h \in Harts, TestFails(h) PROVE MutexInv'
  BY <1>2 DEF TestFails, TestFailed
<1>3. ASSUME NEW h \in Harts, TestEnds(h) PROVE MutexInv'
  BY <1>3 DEF TestEnds, OsEndTest
<1>4. ASSUME NEW h \in Harts, TestHangs(h) PROVE MutexInv'
  BY <1>4 DEF TestHangs
<1>5. ASSUME NEW h \in Harts, Dispatch(h) PROVE MutexInv'
  BY <1>5 DEF Dispatch, MutexesAfterRelease
<1>6. ASSUME NEW h \in Harts, CheckEnded(h) PROVE MutexInv'
  <2>1. PICK l \in {"end_test", "try_lock"} : pc' = [pc EXCEPT ![h] = l]
    BY <1>6 DEF CheckEnded, OsEndTest, TestFailed
  <2> QED
    BY <2>1, <1>6 DEF CheckEnded
<1>7. ASSUME NEW h \in Harts, TryLock(h) PROVE MutexInv'
  BY <1>7 DEF TryLock
<1>8. ASSUME NEW h \in Harts, SwapLock(h) PROVE MutexInv'
  BY <1>8 DEF SwapLock
<1>9. ASSUME NEW h \in Harts, NextTest(h) PROVE MutexInv'
  <2>1. PICK l \in {"no_tests", "walk"} : pc' = [pc EXCEPT ![h] = l]
    BY <1>9 DEF NextTest
  <2>2. \A g \in Harts \ {h} : a0'[g] = a0[g]
    BY <1>9 DEF NextTest
  <2> QED
    BY <2>1, <2>2, <1>9 DEF NextTest
<1>10. ASSUME NEW h \in Harts, Walk(h) PROVE MutexInv'
  <2>1. PICK l \in {"walk", "selected", "release_and_retry"} : pc' = [pc EXCEPT ![h] = l]
    BY <1>10 DEF Walk
  <2>2. \A g \in Harts \ {h} : a0'[g] = a0[g]
    BY <1>10 DEF Walk
  <2> QED
    BY <2>1, <2>2, <1>10 DEF Walk
<1>11. ASSUME NEW h \in Harts, Selected(h) PROVE MutexInv'
  BY <1>11 DEF Selected
<1>12. ASSUME NEW h \in Harts, SwapMutex(h) PROVE MutexInv'
  BY <1>12 DEF SwapMutex, MutexTaken
<1>13. ASSUME NEW h \in Harts, LoadNumRuns(h) PROVE MutexInv'
  BY <1>13 DEF LoadNumRuns
<1>14. ASSUME NEW h \in Harts, StoreNumRuns(h) PROVE MutexInv'
  BY <1>14 DEF StoreNumRuns
<1>15. ASSUME NEW h \in Harts, LoadPending(h) PROVE MutexInv'
  BY <1>15 DEF LoadPending
<1>16. ASSUME NEW h \in Harts, StorePending(h) PROVE MutexInv'
  BY <1>16 DEF StorePending
<1>17. ASSUME NEW h \in Harts, Release(h) PROVE MutexInv'
  BY <1>17 DEF Release, ForgetSelection
<1>18. ASSUME NEW h \in Harts, ReleaseAndRetry(h) PROVE MutexInv'
  BY <1>18 DEF ReleaseAndRetry, ForgetSelection
<1>19. ASSUME NEW h \in Harts, NoTests(h) PROVE MutexInv'
  BY <1>19 DEF NoTests
<1>20. ASSUME NEW h \in Harts, Finished(h) PROVE MutexInv'
  <2>1. PICK l \in {"end_test", "execute"} :
          /\ pc' = [pc EXCEPT ![h] = l]
          /\ l = "execute" => test' = [test EXCEPT ![h] = Cleanup]
          /\ l = "end_test" => test' = test
    BY <1>20 DEF Finished, OsEndTest
  <2> QED
    BY <2>1, <1>20 DEF Finished
<1>21. ASSUME NEW h \in Harts, EotStep(h), UNCHANGED schedVars PROVE MutexInv'
  <2>1. PICK l \in EotLabels : pc' = [pc EXCEPT ![h] = l]
    BY <1>21, EotJump
  <2> QED
    BY <2>1, <1>21 DEF EotLabels
<1>22. CASE UNCHANGED vars
  BY <1>22 DEF vars, eotVars
<1> QED
  BY <1>1, <1>2, <1>3, <1>4, <1>5, <1>6, <1>7, <1>8, <1>9, <1>10, <1>11, <1>12, <1>13,
     <1>14, <1>15, <1>16, <1>17, <1>18, <1>19, <1>20, <1>21, <1>22
     DEF Next, HartStep, SchedStep, Terminated

\* Every step keeps the run counts.
LEMMA AccountingStep == SchedulerInv /\ [Next]_vars => RunAccounting'
<1> SUFFICES ASSUME SchedulerInv, [Next]_vars PROVE RunAccounting'
  OBVIOUS
<1>t. TypeOK /\ SelectLockInv /\ SelectionInv /\ MutexInv /\ RunAccounting
  BY DEF SchedulerInv
<1>n. \A t \in Tests : num_runs[t] \in Nat /\ completed[t] \in Nat
  BY <1>t DEF TypeOK
<1>s. ASSUME \A g \in Harts, t \in Tests : InFlight(g, t)' <=> InFlight(g, t),
             UNCHANGED <<num_runs, completed>>
      PROVE  RunAccounting'
  BY <1>s, <1>t DEF RunAccounting
<1> USE TestsFact, <1>t
    DEF TypeOK, EotTypeOK, MutexInv, RunAccounting, Owns, InFlight, SelectLabels,
        Goto, eotRest, schedVars
<1>1. ASSUME NEW h \in Harts, TestPasses(h) PROVE RunAccounting'
  BY <1>1 DEF TestPasses
<1>2. ASSUME NEW h \in Harts, TestFails(h) PROVE RunAccounting'
  BY <1>2 DEF TestFails, TestFailed
<1>3. ASSUME NEW h \in Harts, TestEnds(h) PROVE RunAccounting'
  BY <1>3 DEF TestEnds, OsEndTest
<1>4. ASSUME NEW h \in Harts, TestHangs(h) PROVE RunAccounting'
  BY <1>4 DEF TestHangs
<1>5. ASSUME NEW h \in Harts, Dispatch(h) PROVE RunAccounting'
  <2>1. CASE held_locks[h] = 0
    <3>1. \A g \in Harts, t \in Tests : InFlight(g, t)' <=> InFlight(g, t)
      BY <2>1, <1>5 DEF Dispatch
    <3> QED
      BY <2>1, <3>1, <1>5, <1>s DEF Dispatch
  <2>2. CASE held_locks[h] # 0
    <3>0. held_locks[h] \in Tests
      BY <2>2
    <3>1. PICK u \in Tests : u = held_locks[h]
      BY <3>0, Zenon
    <3>2. \A g \in Harts, t \in Tests : t # u => (InFlight(g, t)' <=> InFlight(g, t))
      BY <2>2, <3>1, <1>5 DEF Dispatch
    <3>3. \E g \in Harts : InFlight(g, u)
      BY <3>1
    <3>4. ASSUME NEW g \in Harts, InFlight(g, u)' PROVE FALSE
      <4>1. Owns(h, u) /\ Owns(g, u)
        BY <3>1, <3>4, <1>5 DEF Dispatch
      <4>2. g = h
        BY <4>1, <3>1
      <4> QED
        BY <4>2, <3>1, <3>4, <1>5 DEF Dispatch
    <3>5. /\ num_runs' = num_runs
          /\ completed' = [completed EXCEPT ![u] = @ + 1]
      BY <2>2, <3>1, <1>5 DEF Dispatch
    <3> HIDE DEF InFlight
    <3>6. ASSUME NEW t \in Tests, t # u
          PROVE  num_runs'[t] + completed'[t]
                   + (IF \E g \in Harts : InFlight(g, t)' THEN 1 ELSE 0) = RepeatTimes
      BY <3>1, <3>2, <3>5, <3>6
    <3>7. num_runs'[u] + completed'[u]
            + (IF \E g \in Harts : InFlight(g, u)' THEN 1 ELSE 0) = RepeatTimes
      <4>1. num_runs[u] \in Nat /\ completed[u] \in Nat
        BY <3>1
      <4>2. num_runs[u] + completed[u] + 1 = RepeatTimes
        BY <3>1, <3>3
      <4>3. num_runs'[u] = num_runs[u] /\ completed'[u] = completed[u] + 1
        BY <3>1, <3>5
      <4> QED
        BY <3>4, <4>1, <4>2, <4>3
    <3>8. ASSUME NEW t \in Tests
          PROVE  num_runs'[t] + completed'[t]
                   + (IF \E g \in Harts : InFlight(g, t)' THEN 1 ELSE 0) = RepeatTimes
      <4>1. CASE t = u
        BY <4>1, <3>7
      <4>2. CASE t # u
        BY <4>2, <3>6
      <4> QED
        BY <4>1, <4>2
    <3> QED
      BY <3>8 DEF RunAccounting
  <2> QED
    BY <2>1, <2>2
<1>6. ASSUME NEW h \in Harts, CheckEnded(h) PROVE RunAccounting'
  <2>1. PICK l \in {"end_test", "try_lock"} : pc' = [pc EXCEPT ![h] = l]
    BY <1>6 DEF CheckEnded, OsEndTest, TestFailed
  <2>2. \A g \in Harts, t \in Tests : InFlight(g, t)' <=> InFlight(g, t)
    BY <2>1, <1>6 DEF CheckEnded
  <2> QED
    BY <2>2, <1>6, <1>s DEF CheckEnded
<1>7. ASSUME NEW h \in Harts, TryLock(h) PROVE RunAccounting'
  BY <1>7 DEF TryLock
<1>8. ASSUME NEW h \in Harts, SwapLock(h) PROVE RunAccounting'
  BY <1>8 DEF SwapLock
<1>9. ASSUME NEW h \in Harts, NextTest(h) PROVE RunAccounting'
  <2>1. PICK l \in {"no_tests", "walk"} : pc' = [pc EXCEPT ![h] = l]
    BY <1>9 DEF NextTest
  <2>2. \A g \in Harts \ {h} : a0'[g] = a0[g]
    BY <1>9 DEF NextTest
  <2>3. \A g \in Harts, t \in Tests : InFlight(g, t)' <=> InFlight(g, t)
    BY <2>1, <2>2, <1>9 DEF NextTest
  <2> QED
    BY <2>3, <1>9, <1>s DEF NextTest
<1>10. ASSUME NEW h \in Harts, Walk(h) PROVE RunAccounting'
  <2>1. PICK l \in {"walk", "selected", "release_and_retry"} : pc' = [pc EXCEPT ![h] = l]
    BY <1>10 DEF Walk
  <2>2. \A g \in Harts \ {h} : a0'[g] = a0[g]
    BY <1>10 DEF Walk
  <2>3. \A g \in Harts, t \in Tests : InFlight(g, t)' <=> InFlight(g, t)
    BY <2>1, <2>2, <1>10 DEF Walk
  <2> QED
    BY <2>3, <1>10, <1>s DEF Walk
<1>11. ASSUME NEW h \in Harts, Selected(h) PROVE RunAccounting'
  BY <1>11 DEF Selected
<1>12. ASSUME NEW h \in Harts, SwapMutex(h) PROVE RunAccounting'
  BY <1>12 DEF SwapMutex, MutexTaken
<1>13. ASSUME NEW h \in Harts, LoadNumRuns(h) PROVE RunAccounting'
  BY <1>13 DEF LoadNumRuns
<1>14. ASSUME NEW h \in Harts, StoreNumRuns(h) PROVE RunAccounting'
  <2>0. a0[h] \in Tests
    OBVIOUS
  <2>a. PICK u \in Tests : u = a0[h]
    BY <2>0, Zenon
  <2>1. num_runs[u] \in Nat /\ completed[u] \in Nat
    BY <1>n
  <2>2. /\ num_runs' = [num_runs EXCEPT ![u] = num_runs[u] - 1]
        /\ completed' = completed
    BY <2>a, <1>14 DEF StoreNumRuns, SelectionInv
  <2>3. \A g \in Harts, t \in Tests : t # u => (InFlight(g, t)' <=> InFlight(g, t))
    BY <2>a, <1>14 DEF StoreNumRuns
  <2>4. ASSUME NEW g \in Harts, InFlight(g, u) PROVE FALSE
    <3>1. Owns(h, u) /\ Owns(g, u)
      BY <2>a, <2>4, <1>14 DEF StoreNumRuns
    <3>2. g = h
      BY <3>1, <2>1
    <3> QED
      BY <3>2, <2>a, <2>4, <1>14 DEF StoreNumRuns
  <2>5. \E g \in Harts : InFlight(g, u)'
    BY <2>a, <2>1, <1>14 DEF StoreNumRuns
  <2> HIDE DEF InFlight
  <2>6. ASSUME NEW t \in Tests, t # u
        PROVE  num_runs'[t] + completed'[t]
                 + (IF \E g \in Harts : InFlight(g, t)' THEN 1 ELSE 0) = RepeatTimes
    BY <2>2, <2>3, <2>6
  <2>7. num_runs'[u] + completed'[u]
          + (IF \E g \in Harts : InFlight(g, u)' THEN 1 ELSE 0) = RepeatTimes
    BY <2>1, <2>2, <2>4, <2>5
  <2>8. ASSUME NEW t \in Tests
        PROVE  num_runs'[t] + completed'[t]
                 + (IF \E g \in Harts : InFlight(g, t)' THEN 1 ELSE 0) = RepeatTimes
    <3>1. CASE t = u
      BY <3>1, <2>7
    <3>2. CASE t # u
      BY <3>2, <2>6
    <3> QED
      BY <3>1, <3>2
  <2> QED
    BY <2>8 DEF RunAccounting
<1>15. ASSUME NEW h \in Harts, LoadPending(h) PROVE RunAccounting'
  BY <1>15 DEF LoadPending
<1>16. ASSUME NEW h \in Harts, StorePending(h) PROVE RunAccounting'
  BY <1>16 DEF StorePending
<1>17. ASSUME NEW h \in Harts, Release(h) PROVE RunAccounting'
  BY <1>17 DEF Release, ForgetSelection
<1>18. ASSUME NEW h \in Harts, ReleaseAndRetry(h) PROVE RunAccounting'
  BY <1>18 DEF ReleaseAndRetry, ForgetSelection
<1>19. ASSUME NEW h \in Harts, NoTests(h) PROVE RunAccounting'
  BY <1>19 DEF NoTests
<1>20. ASSUME NEW h \in Harts, Finished(h) PROVE RunAccounting'
  <2>1. PICK l \in {"end_test", "execute"} : pc' = [pc EXCEPT ![h] = l]
    BY <1>20 DEF Finished, OsEndTest
  <2>2. \A g \in Harts, t \in Tests : InFlight(g, t)' <=> InFlight(g, t)
    BY <2>1, <1>20 DEF Finished
  <2> QED
    BY <2>2, <1>20, <1>s DEF Finished
<1>21. ASSUME NEW h \in Harts, EotStep(h), UNCHANGED schedVars PROVE RunAccounting'
  <2>1. PICK l \in EotLabels : pc' = [pc EXCEPT ![h] = l]
    BY <1>21, EotJump
  <2>2. pc[h] \in EotLabels
    BY <1>21, EotJump
  <2>3. \A g \in Harts, t \in Tests : InFlight(g, t)' <=> InFlight(g, t)
    BY <2>1, <2>2, <1>21 DEF EotLabels
  <2> QED
    BY <2>3, <1>21, <1>s
<1>22. CASE UNCHANGED vars
  BY <1>22 DEF vars, eotVars
<1> QED
  BY <1>1, <1>2, <1>3, <1>4, <1>5, <1>6, <1>7, <1>8, <1>9, <1>10, <1>11, <1>12, <1>13,
     <1>14, <1>15, <1>16, <1>17, <1>18, <1>19, <1>20, <1>21, <1>22
     DEF Next, HartStep, SchedStep, Terminated

-----------------------------------------------------------------------------
(* The end of the test                                                     *)

\* A step of the scheduler leaves the state of eot alone but for one hart,
\* which gets no further than eot__end_test.
LEMMA SchedStepIsOutside ==
  ASSUME NEW h \in Harts, SchedStep(h)
  PROVE  /\ UNCHANGED eotRest
         /\ pc[h] \notin EndedLabels
         /\ \E l : l \notin EndedLabels /\ pc' = [pc EXCEPT ![h] = l]
<1> USE DEF EndedLabels, WinnerLabels, Goto, OsEndTest, TestFailed
<1>1. CASE TestPasses(h) \/ TestFails(h) \/ TestEnds(h) \/ TestHangs(h)
  BY <1>1 DEF TestPasses, TestFails, TestEnds, TestHangs
<1>2. CASE Dispatch(h) \/ Release(h) \/ ReleaseAndRetry(h) \/ NoTests(h) \/ Finished(h)
  BY <1>2 DEF Dispatch, Release, ReleaseAndRetry, NoTests, Finished
<1>3. CASE CheckEnded(h) \/ TryLock(h) \/ SwapLock(h)
  BY <1>3 DEF CheckEnded, TryLock, SwapLock
<1>4. CASE NextTest(h) \/ Selected(h) \/ SwapMutex(h)
  BY <1>4 DEF NextTest, Selected, SwapMutex
<1>5. CASE LoadNumRuns(h) \/ StoreNumRuns(h) \/ LoadPending(h) \/ StorePending(h)
  BY <1>5 DEF LoadNumRuns, StoreNumRuns, LoadPending, StorePending
<1>6. CASE Walk(h)
  BY <1>6 DEF Walk
<1> QED
  BY <1>1, <1>2, <1>3, <1>4, <1>5, <1>6 DEF SchedStep

\* Initially nobody has ended.
LEMMA InitEotInv == Init => EotInv
<1> SUFFICES ASSUME Init PROVE EotInv
  OBVIOUS
<1>1. Ended = {}
  BY DEF Init, Ended, EndedLabels, WinnerLabels
<1>2. OneTohostWriter
  BY DEF Init, EotInit, OneTohostWriter, WinnerLabels
<1> QED
  BY <1>1, <1>2, FS_EmptySet DEF Init, EotInit, EotInv

\* Every step keeps the invariant of the end-of-test protocol.
LEMMA EotInvStep == TypeOK /\ EotInv /\ [Next]_vars => EotInv'
<1> SUFFICES ASSUME TypeOK, EotInv, [Next]_vars PROVE EotInv'
  OBVIOUS
<1>t. EotTypeOK(Labels)
  BY DEF TypeOK
<1>1. ASSUME NEW h \in Harts, SchedStep(h) PROVE EotInv'
  BY <1>1, <1>t, SchedStepIsOutside, OutsideStep
<1>2. ASSUME NEW h \in Harts, EotStep(h) PROVE EotInv'
  BY <1>2, <1>t, EotStepKeepsInv
<1>3. CASE UNCHANGED vars
  BY <1>3 DEF vars, eotVars, eotRest, EotInv, OneTohostWriter, Ended
<1> QED
  BY <1>1, <1>2, <1>3 DEF Next, HartStep, Terminated

-----------------------------------------------------------------------------
(* The pool of runs                                                        *)

\* There are finitely many runs, and num_runs counts those of each test.
LEMMA RunsFact ==
  ASSUME num_runs \in [Tests -> 0 .. RepeatTimes]
  PROVE  /\ IsFiniteSet(RunsLeft)
         /\ Cardinality(RunsLeft) \in Nat
         /\ Cardinality(RunsLeft) = 0 => NoneLeft
         /\ \A S \in SUBSET RunsLeft : IsFiniteSet(S) /\ Cardinality(S) \in Nat
         /\ \A t \in Tests : Cardinality({r \in RunsLeft : r[1] = t}) = num_runs[t]
<1>1. IsFiniteSet(Tests \X (1 .. RepeatTimes))
  <2>1. 1 \in Int /\ NumTests \in Int /\ RepeatTimes \in Int
    BY ParallelAssumption
  <2>2. IsFiniteSet(Tests) /\ IsFiniteSet(1 .. RepeatTimes)
    BY <2>1, FS_Interval DEF Tests
  <2> QED
    BY <2>2, FS_Product
<1>2. IsFiniteSet(RunsLeft) /\ Cardinality(RunsLeft) \in Nat
  BY <1>1, FS_Subset, FS_CardinalityType DEF RunsLeft
<1>3. ASSUME Cardinality(RunsLeft) = 0 PROVE NoneLeft
  <2>1. RunsLeft = {}
    BY <1>2, <1>3, FS_EmptySet
  <2>2. ASSUME NEW t \in Tests, num_runs[t] # 0 PROVE FALSE
    <3>1. <<t, 1>> \in RunsLeft
      BY <2>2, ParallelAssumption DEF RunsLeft
    <3> QED
      BY <2>1, <3>1
  <2> QED
    BY <2>2 DEF NoneLeft
<1>4. \A S \in SUBSET RunsLeft : IsFiniteSet(S) /\ Cardinality(S) \in Nat
  BY <1>2, FS_Subset, FS_CardinalityType
<1>5. ASSUME NEW t \in Tests
      PROVE  Cardinality({r \in RunsLeft : r[1] = t}) = num_runs[t]
  <2>1. PICK n \in 0 .. RepeatTimes : n = num_runs[t]
    OBVIOUS
  <2>2. {r \in RunsLeft : r[1] = t} = {t} \X (1 .. n)
    BY <2>1, ParallelAssumption DEF RunsLeft
  <2>3. Cardinality({t}) = 1 /\ IsFiniteSet({t})
    BY FS_Singleton
  <2>4. Cardinality(1 .. n) = n /\ IsFiniteSet(1 .. n)
    <3>1. n \in Int /\ 1 \in Int /\ n >= 0
      BY ParallelAssumption
    <3>2. /\ IsFiniteSet(1 .. n)
          /\ Cardinality(1 .. n) = IF 1 > n THEN 0 ELSE n - 1 + 1
      BY <3>1, FS_Interval
    <3> QED
      BY <3>1, <3>2
  <2>5. Cardinality({t} \X (1 .. n)) = Cardinality({t}) * Cardinality(1 .. n)
    BY <2>3, <2>4, FS_Product
  <2>6. n \in Nat
    BY ParallelAssumption
  <2>7. Cardinality({t} \X (1 .. n)) = n
    BY <2>3, <2>4, <2>5, <2>6
  <2> QED
    BY <2>1, <2>2, <2>7
<1> QED
  BY <1>2, <1>3, <1>4, <1>5

\* A step that leaves num_runs alone leaves the pool alone.
LEMMA RunsSame == num_runs' = num_runs => RunsLeft' = RunsLeft /\ RunsBefore' = RunsBefore
BY DEF RunsLeft, RunsBefore

\* num_runs never exceeds repeat_times.
LEMMA RunsBound ==
  ASSUME TypeOK, RunAccounting
  PROVE  num_runs \in [Tests -> 0 .. RepeatTimes]
<1>1. ASSUME NEW t \in Tests PROVE num_runs[t] \in 0 .. RepeatTimes
  <2>1. /\ num_runs[t] \in Nat /\ completed[t] \in Nat
        /\ num_runs[t] + completed[t] + (IF \E h \in Harts : InFlight(h, t) THEN 1 ELSE 0)
             = RepeatTimes
    BY DEF TypeOK, RunAccounting
  <2> QED
    BY <2>1, ParallelAssumption
<1> QED
  BY <1>1 DEF TypeOK

\* One turn of the walk adds the runs of one more test.
LEMMA WalkSum ==
  ASSUME num_runs \in [Tests -> 0 .. RepeatTimes], NEW t \in Tests, t + 1 \in Tests
  PROVE  RunsBefore[t + 1] = RunsBefore[t] + num_runs[t]
<1> DEFINE A == {r \in RunsLeft : r[1] < t}
           B == {r \in RunsLeft : r[1] = t}
           C == {r \in RunsLeft : r[1] < t + 1}
<1>1. C = A \cup B /\ A \cap B = {}
  <2>1. t \in Int /\ \A r \in RunsLeft : r[1] \in Int
    BY DEF RunsLeft, Tests
  <2>2. \A n \in Int : (n < t + 1 <=> n < t \/ n = t) /\ ~ (n < t /\ n = t)
    BY <2>1
  <2> QED
    BY <2>1, <2>2
<1>2. /\ IsFiniteSet(A) /\ Cardinality(A) \in Nat
      /\ IsFiniteSet(B) /\ Cardinality(B) = num_runs[t]
  BY RunsFact
<1>3. Cardinality(C) = Cardinality(A) + Cardinality(B)
  <2> HIDE DEF A, B, C
  <2> QED
    BY <1>1, <1>2, FS_Union, FS_EmptySet
<1>4. RunsBefore[t] = Cardinality(A) /\ RunsBefore[t + 1] = Cardinality(C)
  BY DEF RunsBefore
<1> QED
  BY <1>2, <1>3, <1>4

\* No run belongs to a test before the first one.
LEMMA WalkStart == 1 \in Tests /\ RunsBefore[1] = 0
<1>1. 1 \in Tests
  BY ParallelAssumption DEF Tests
<1>2. {r \in RunsLeft : r[1] < 1} = {}
  BY DEF RunsLeft, Tests
<1>3. RunsBefore[1] = Cardinality({r \in RunsLeft : r[1] < 1})
  BY <1>1 DEF RunsBefore
<1> QED
  BY <1>1, <1>2, <1>3, FS_EmptySet

\* What a step outside of the critical section leaves of pending_num_runs.
LEMMA PendingFrame ==
  ASSUME TypeOK, PendingInv, NEW h \in Harts,
         UNCHANGED <<num_runs, pending_num_runs, t0, a0, a4, a5>>,
         \A g \in Harts \ {h} : pc'[g] = pc[g],
         pc[h] \notin {"dec_pending", "store_pending"},
         pc'[h] \notin {"dec_pending", "store_pending", "walk"}
  PROVE  PendingInv'
BY RunsSame DEF PendingInv, TypeOK, EotTypeOK

\* Every step keeps pending_num_runs the sum of num_runs.
LEMMA PendingStep == SchedulerInv /\ [Next]_vars => PendingInv'
<1> SUFFICES ASSUME SchedulerInv, [Next]_vars PROVE PendingInv'
  OBVIOUS
<1>t. TypeOK /\ SelectLockInv /\ SelectionInv /\ PendingInv
  BY DEF SchedulerInv
<1>b. num_runs \in [Tests -> 0 .. RepeatTimes]
  BY RunsBound DEF SchedulerInv
<1>r. IsFiniteSet(RunsLeft) /\ Cardinality(RunsLeft) \in Nat
  BY <1>b, RunsFact
<1> USE TestsFact, <1>t
    DEF TypeOK, EotTypeOK, SelectLockInv, PendingInv, SelectLabels, Goto, eotRest, schedVars
<1>1. ASSUME NEW h \in Harts, TestPasses(h) PROVE PendingInv'
  BY <1>1, RunsSame DEF TestPasses
<1>2. ASSUME NEW h \in Harts, TestFails(h) PROVE PendingInv'
  BY <1>2, RunsSame DEF TestFails, TestFailed
<1>3. ASSUME NEW h \in Harts, TestEnds(h) PROVE PendingInv'
  BY <1>3, RunsSame DEF TestEnds, OsEndTest
<1>4. ASSUME NEW h \in Harts, TestHangs(h) PROVE PendingInv'
  BY <1>4, RunsSame DEF TestHangs
<1>5. ASSUME NEW h \in Harts, Dispatch(h) PROVE PendingInv'
  BY <1>5, RunsSame DEF Dispatch, MutexesAfterRelease
<1>6. ASSUME NEW h \in Harts, CheckEnded(h) PROVE PendingInv'
  <2>1. /\ \A g \in Harts \ {h} : pc'[g] = pc[g]
        /\ pc[h] = "check_ended"
        /\ pc'[h] \notin {"dec_pending", "store_pending", "walk"}
    BY <1>6 DEF CheckEnded, OsEndTest, TestFailed
  <2>2. UNCHANGED <<num_runs, pending_num_runs, t0, a0, a4, a5>>
    BY <1>6 DEF CheckEnded
  <2> QED
    BY <2>1, <2>2, PendingFrame
<1>7. ASSUME NEW h \in Harts, TryLock(h) PROVE PendingInv'
  BY <1>7, RunsSame DEF TryLock
<1>8. ASSUME NEW h \in Harts, SwapLock(h) PROVE PendingInv'
  BY <1>8, RunsSame DEF SwapLock
<1>9. ASSUME NEW h \in Harts, NextTest(h) PROVE PendingInv'
  <2>1. RunsLeft' = RunsLeft /\ RunsBefore' = RunsBefore
    BY <1>9, RunsSame DEF NextTest
  <2>2. CASE pending_num_runs = 0
    BY <2>1, <2>2, <1>9 DEF NextTest, NoTestsLeft
  <2>3. CASE pending_num_runs # 0
    <3>1. PICK r \in 0 .. pending_num_runs - 1 : a4' = [a4 EXCEPT ![h] = r]
      BY <2>3, <1>9 DEF NextTest, NoTestsLeft
    <3>2. /\ a0' = [a0 EXCEPT ![h] = 1] /\ a5' = [a5 EXCEPT ![h] = 0]
          /\ pc' = [pc EXCEPT ![h] = "walk"] /\ pc[h] = "next_test"
          /\ UNCHANGED <<pending_num_runs, t0>>
      BY <2>3, <1>9 DEF NextTest, NoTestsLeft
    <3>3. \A g \in Harts \ {h} : pc[g] \notin SelectLabels
      BY <3>2
    <3>4. /\ \A g \in Harts : pc[g] \notin {"dec_pending", "store_pending"}
          /\ \A g \in Harts : pc'[g] \notin {"dec_pending", "store_pending"}
          /\ \A g \in Harts : pc'[g] = "walk" => g = h
      BY <3>2, <3>3
    <3>5. a4'[h] < pending_num_runs' /\ a5'[h] = 0 /\ a0'[h] = 1
      BY <3>1, <3>2
    <3>6. RunsBefore'[1] = 0
      BY <2>1, WalkStart
    <3> QED
      BY <1>r, <2>1, <3>2, <3>4, <3>5, <3>6
  <2> QED
    BY <2>2, <2>3
<1>10. ASSUME NEW h \in Harts, Walk(h) PROVE PendingInv'
  <2>1. RunsLeft' = RunsLeft /\ RunsBefore' = RunsBefore
    BY <1>10, RunsSame DEF Walk
  <2>2. PICK t \in Tests : t = a0[h]
    OBVIOUS
  <2>3. a5[h] = RunsBefore[t] /\ a4[h] < pending_num_runs
    BY <2>2, <1>10 DEF Walk
  <2>4. \A g \in Harts \ {h} : pc[g] # "walk" /\ pc'[g] # "walk"
    BY <1>10 DEF Walk
  <2>5. pc'[h] = "walk" =>
          /\ t + 1 \in Tests
          /\ a0'[h] = t + 1
          /\ a5'[h] = a5[h] + num_runs[t]
          /\ a4'[h] = a4[h]
    BY <2>2, <1>10 DEF Walk, Tests
  <2>6. /\ UNCHANGED pending_num_runs /\ pc'[h] # "store_pending"
        /\ \A g \in Harts : pc[g] \notin {"dec_pending", "store_pending"}
        /\ \A g \in Harts : pc'[g] \notin {"dec_pending", "store_pending"}
    BY <1>10 DEF Walk
  <2>7. pending_num_runs' = Cardinality(RunsLeft')
    BY <1>r, <2>1, <2>6
  <2>8. ASSUME pc'[h] = "walk"
        PROVE  a4'[h] < pending_num_runs' /\ a5'[h] = RunsBefore'[a0'[h]]
    BY <1>b, <2>1, <2>3, <2>5, <2>6, <2>8, WalkSum
  <2> QED
    BY <1>r, <2>4, <2>6, <2>7, <2>8 DEF PendingInv
<1>11. ASSUME NEW h \in Harts, Selected(h) PROVE PendingInv'
  BY <1>11, RunsSame DEF Selected
<1>12. ASSUME NEW h \in Harts, SwapMutex(h) PROVE PendingInv'
  BY <1>12, RunsSame DEF SwapMutex, MutexTaken
<1>13. ASSUME NEW h \in Harts, LoadNumRuns(h) PROVE PendingInv'
  BY <1>13, RunsSame DEF LoadNumRuns
<1>14. ASSUME NEW h \in Harts, StoreNumRuns(h) PROVE PendingInv'
  <2>1. PICK u \in Tests : u = a0[h]
    OBVIOUS
  <2>2. PICK n \in 1 .. RepeatTimes : n = num_runs[u]
    BY <1>b, <2>1, <1>14 DEF StoreNumRuns, SelectionInv
  <2>3. num_runs' = [num_runs EXCEPT ![u] = n - 1]
    BY <2>1, <2>2, <1>14 DEF StoreNumRuns, SelectionInv
  <2>4. RunsLeft' = RunsLeft \ {<<u, n>>} /\ <<u, n>> \in RunsLeft
    BY <1>b, <2>2, <2>3, ParallelAssumption DEF RunsLeft
  <2>5. Cardinality(RunsLeft') = Cardinality(RunsLeft) - 1
    BY <1>r, <2>4, FS_RemoveElement
  <2>6. \A g \in Harts \ {h} : pc[g] \notin SelectLabels
    BY <1>14 DEF StoreNumRuns
  <2>7. /\ pc' = [pc EXCEPT ![h] = "dec_pending"] /\ pc[h] = "store_num_runs"
        /\ UNCHANGED pending_num_runs
    BY <1>14 DEF StoreNumRuns
  <2>a. \A g \in Harts : pc[g] # "dec_pending" /\ pc[g] # "store_pending"
    BY <2>6, <2>7
  <2>8. pending_num_runs = Cardinality(RunsLeft)
    BY <1>r, <2>a
  <2>9. /\ \E g \in Harts : pc'[g] = "dec_pending"
        /\ \A g \in Harts : pc'[g] # "store_pending" /\ pc'[g] # "walk"
    BY <2>6, <2>7
  <2> QED
    BY <1>r, <2>5, <2>7, <2>8, <2>9
<1>15. ASSUME NEW h \in Harts, LoadPending(h) PROVE PendingInv'
  BY <1>15, RunsSame DEF LoadPending
<1>16. ASSUME NEW h \in Harts, StorePending(h) PROVE PendingInv'
  <2>1. RunsLeft' = RunsLeft
    BY <1>16, RunsSame DEF StorePending
  <2>2. \A g \in Harts \ {h} : pc[g] \notin SelectLabels
    BY <1>16 DEF StorePending
  <2>3. pc' = [pc EXCEPT ![h] = "release"] /\ pc[h] = "store_pending"
        /\ pending_num_runs' = pending_num_runs - 1
    BY <1>16 DEF StorePending
  <2>4. \A g \in Harts : pc'[g] \notin {"dec_pending", "store_pending", "walk"}
    BY <2>2, <2>3
  <2> QED
    BY <1>r, <2>1, <2>3, <2>4
<1>17. ASSUME NEW h \in Harts, Release(h) PROVE PendingInv'
  BY <1>17, RunsSame DEF Release, ForgetSelection
<1>18. ASSUME NEW h \in Harts, ReleaseAndRetry(h) PROVE PendingInv'
  BY <1>18, RunsSame DEF ReleaseAndRetry, ForgetSelection
<1>19. ASSUME NEW h \in Harts, NoTests(h) PROVE PendingInv'
  BY <1>19, RunsSame DEF NoTests
<1>20. ASSUME NEW h \in Harts, Finished(h) PROVE PendingInv'
  <2>1. /\ \A g \in Harts \ {h} : pc'[g] = pc[g]
        /\ pc[h] = "finished"
        /\ pc'[h] \notin {"dec_pending", "store_pending", "walk"}
    BY <1>20 DEF Finished, OsEndTest
  <2>2. UNCHANGED <<num_runs, pending_num_runs, t0, a0, a4, a5>>
    BY <1>20 DEF Finished
  <2> QED
    BY <2>1, <2>2, PendingFrame
<1>21. ASSUME NEW h \in Harts, EotStep(h), UNCHANGED schedVars PROVE PendingInv'
  <2>1. PICK l \in EotLabels : pc' = [pc EXCEPT ![h] = l]
    BY <1>21, EotJump
  <2>2. pc[h] \in EotLabels
    BY <1>21, EotJump
  <2> QED
    BY <2>1, <2>2, <1>21, RunsSame DEF EotLabels
<1>22. CASE UNCHANGED vars
  BY <1>22, RunsSame DEF vars, eotVars
<1> QED
  BY <1>1, <1>2, <1>3, <1>4, <1>5, <1>6, <1>7, <1>8, <1>9, <1>10, <1>11, <1>12, <1>13,
     <1>14, <1>15, <1>16, <1>17, <1>18, <1>19, <1>20, <1>21, <1>22
     DEF Next, HartStep, SchedStep, Terminated

\* Once no run is left, none is ever left.
LEMMA FinishStep == SchedulerInv /\ [Next]_vars => FinishInv'
<1> SUFFICES ASSUME SchedulerInv, [Next]_vars PROVE FinishInv'
  OBVIOUS
<1>t. TypeOK /\ SelectLockInv /\ SelectionInv /\ PendingInv /\ FinishInv
  BY DEF SchedulerInv
<1>r. /\ Cardinality(RunsLeft) \in Nat
      /\ Cardinality(RunsLeft) = 0 => NoneLeft
  BY RunsBound, RunsFact DEF SchedulerInv
<1> USE TestsFact, <1>t DEF TypeOK, EotTypeOK, FinishInv, Goto, eotRest, schedVars
<1>1. ASSUME NEW h \in Harts, TestPasses(h) PROVE FinishInv'
  BY <1>1 DEF TestPasses, NoneLeft
<1>2. ASSUME NEW h \in Harts, TestFails(h) PROVE FinishInv'
  BY <1>2 DEF TestFails, TestFailed, NoneLeft
<1>3. ASSUME NEW h \in Harts, TestEnds(h) PROVE FinishInv'
  BY <1>3 DEF TestEnds, OsEndTest, NoneLeft
<1>4. ASSUME NEW h \in Harts, TestHangs(h) PROVE FinishInv'
  BY <1>4 DEF TestHangs, NoneLeft
<1>5. ASSUME NEW h \in Harts, Dispatch(h) PROVE FinishInv'
  BY <1>5 DEF Dispatch, MutexesAfterRelease, NoneLeft
<1>6. ASSUME NEW h \in Harts, CheckEnded(h) PROVE FinishInv'
  BY <1>6 DEF CheckEnded, OsEndTest, TestFailed, NoneLeft
<1>7. ASSUME NEW h \in Harts, TryLock(h) PROVE FinishInv'
  BY <1>7 DEF TryLock, NoneLeft
<1>8. ASSUME NEW h \in Harts, SwapLock(h) PROVE FinishInv'
  BY <1>8 DEF SwapLock, NoneLeft
<1>9. ASSUME NEW h \in Harts, NextTest(h) PROVE FinishInv'
  <2>1. CASE NoTestsLeft
    <3>1. \A g \in Harts : pc[g] \notin {"dec_pending", "store_pending"}
      BY <1>9 DEF NextTest, SelectLockInv, SelectLabels
    <3>2. Cardinality(RunsLeft) = 0
      BY <1>r, <2>1, <3>1 DEF NoTestsLeft, PendingInv
    <3>3. NoneLeft
      BY <1>r, <3>2
    <3> QED
      BY <3>3, <1>9 DEF NextTest, NoneLeft
  <2>2. CASE ~NoTestsLeft
    <3>1. pc' = [pc EXCEPT ![h] = "walk"] /\ UNCHANGED <<num_runs, cleanup_ran>>
      BY <2>2, <1>9 DEF NextTest
    <3> QED
      BY <3>1 DEF NoneLeft
  <2> QED
    BY <2>1, <2>2
<1>10. ASSUME NEW h \in Harts, Walk(h) PROVE FinishInv'
  <2>1. PICK l \in {"walk", "selected", "release_and_retry"} : pc' = [pc EXCEPT ![h] = l]
    BY <1>10 DEF Walk
  <2> QED
    BY <2>1, <1>10 DEF Walk, NoneLeft
<1>11. ASSUME NEW h \in Harts, Selected(h) PROVE FinishInv'
  BY <1>11 DEF Selected, NoneLeft
<1>12. ASSUME NEW h \in Harts, SwapMutex(h) PROVE FinishInv'
  BY <1>12 DEF SwapMutex, MutexTaken, NoneLeft
<1>13. ASSUME NEW h \in Harts, LoadNumRuns(h) PROVE FinishInv'
  BY <1>13 DEF LoadNumRuns, NoneLeft
<1>14. ASSUME NEW h \in Harts, StoreNumRuns(h) PROVE FinishInv'
  <2>0. PICK u \in Tests : u = a0[h]
    OBVIOUS
  <2>1. num_runs[u] > 0
    BY <2>0, <1>14 DEF StoreNumRuns, SelectionInv
  <2>2. ~NoneLeft
    BY <2>1 DEF NoneLeft
  <2>3. pc' = [pc EXCEPT ![h] = "dec_pending"] /\ UNCHANGED cleanup_ran
    BY <1>14 DEF StoreNumRuns
  <2> QED
    BY <2>2, <2>3
<1>15. ASSUME NEW h \in Harts, LoadPending(h) PROVE FinishInv'
  BY <1>15 DEF LoadPending, NoneLeft
<1>16. ASSUME NEW h \in Harts, StorePending(h) PROVE FinishInv'
  BY <1>16 DEF StorePending, NoneLeft
<1>17. ASSUME NEW h \in Harts, Release(h) PROVE FinishInv'
  BY <1>17 DEF Release, ForgetSelection, NoneLeft
<1>18. ASSUME NEW h \in Harts, ReleaseAndRetry(h) PROVE FinishInv'
  BY <1>18 DEF ReleaseAndRetry, ForgetSelection, NoneLeft
<1>19. ASSUME NEW h \in Harts, NoTests(h) PROVE FinishInv'
  BY <1>19 DEF NoTests, NoneLeft
<1>20. ASSUME NEW h \in Harts, Finished(h) PROVE FinishInv'
  <2>1. NoneLeft
    BY <1>20 DEF Finished
  <2>2. num_runs' = num_runs
    BY <1>20 DEF Finished
  <2> QED
    BY <2>1, <2>2 DEF NoneLeft
<1>21. ASSUME NEW h \in Harts, EotStep(h), UNCHANGED schedVars PROVE FinishInv'
  <2>1. PICK l \in EotLabels : pc' = [pc EXCEPT ![h] = l]
    BY <1>21, EotJump
  <2> QED
    BY <2>1, <1>21 DEF EotLabels, NoneLeft
<1>22. CASE UNCHANGED vars
  BY <1>22 DEF vars, eotVars, NoneLeft
<1> QED
  BY <1>1, <1>2, <1>3, <1>4, <1>5, <1>6, <1>7, <1>8, <1>9, <1>10, <1>11, <1>12, <1>13,
     <1>14, <1>15, <1>16, <1>17, <1>18, <1>19, <1>20, <1>21, <1>22
     DEF Next, HartStep, SchedStep, Terminated

\* The steps of the scheduler that neither leave it nor take a run.
LEMMA OthersSteps ==
  ASSUME TypeOK, NEW h \in Harts, SchedStep(h),
         ~(TestFails(h) \/ TestEnds(h) \/ CheckEnded(h) \/ Finished(h) \/ StoreNumRuns(h))
  PROVE  /\ gp' = gp /\ UNCHANGED <<num_runs, soft_end>>
         /\ \E l \in SchedLabels : pc' = [pc EXCEPT ![h] = l]
         /\ \A g \in Harts \ {h} : held_locks'[g] = held_locks[g]
<1> USE DEF SchedLabels, SelectLabels, Goto, schedVars, TypeOK
<1>1. CASE TestPasses(h) \/ TestHangs(h) \/ Dispatch(h)
  BY <1>1 DEF TestPasses, TestHangs, Dispatch
<1>2. CASE TryLock(h) \/ SwapLock(h) \/ NextTest(h)
  BY <1>2 DEF TryLock, SwapLock, NextTest
<1>3. CASE Walk(h)
  BY <1>3 DEF Walk
<1>4. CASE Selected(h) \/ SwapMutex(h) \/ LoadNumRuns(h) \/ LoadPending(h) \/ StorePending(h)
  BY <1>4 DEF Selected, SwapMutex, LoadNumRuns, LoadPending, StorePending
<1>5. CASE Release(h) \/ ReleaseAndRetry(h) \/ NoTests(h)
  BY <1>5 DEF Release, ReleaseAndRetry, NoTests
<1> QED
  BY <1>1, <1>2, <1>3, <1>4, <1>5 DEF SchedStep

\* A hart in the scheduler has not left it.
LEMMA SchedStepNotGone ==
  ASSUME NEW h \in Harts, SchedStep(h)
  PROVE  pc[h] \notin EotLabels
BY DEF SchedStep, TestPasses, TestFails, TestEnds, TestHangs, Dispatch, CheckEnded, TryLock,
   SwapLock, NextTest, Walk, Selected, SwapMutex, LoadNumRuns, StoreNumRuns, LoadPending,
   StorePending, Release, ReleaseAndRetry, NoTests, Finished, EotLabels

\* Every step keeps the reasons why harts have left.
LEMMA EndStep == SchedulerInv /\ EotInv /\ [Next]_vars => EndInv'
<1> SUFFICES ASSUME SchedulerInv, EotInv, [Next]_vars PROVE EndInv'
  OBVIOUS
<1>e. EndInv
  BY DEF SchedulerInv
<1>t. /\ TypeOK /\ EotTypeOK(Labels)
      /\ pc \in [Harts -> Labels] /\ gp \in [Harts -> GpValues]
      /\ held_locks \in [Harts -> Tests \cup {0}]
  BY DEF SchedulerInv, TypeOK, EotTypeOK
<1>k. ASSUME NEW h \in Harts, h \notin Gone, UNCHANGED <<eotRest, soft_end>>, gp' = gp,
             NEW l, l \notin EotLabels, pc' = [pc EXCEPT ![h] = l],
             NoneLeft => NoneLeft',
             \A g \in Harts \ {h} : held_locks'[g] = held_locks[g]
      PROVE  EndInv'
  <2>1. Gone' = Gone /\ \A g \in Gone : pc'[g] = pc[g] /\ held_locks'[g] = held_locks[g]
    BY <1>k, <1>t DEF Gone
  <2> QED
    BY <1>k, <1>e, <2>1 DEF EndInv, eotRest
<1>l. ASSUME NEW h \in Harts, h \notin Gone, UNCHANGED <<eotRest, num_runs, held_locks>>,
             pc' = [pc EXCEPT ![h] = "end_test"],
             NEW v, gp' = [gp EXCEPT ![h] = v],
             v # "pass" \/ NoneLeft \/ Gone # {} \/ soft_end',
             v # "pass" \/ held_locks[h] = 0 \/ soft_end',
             soft_end => soft_end'
      PROVE  EndInv'
  <2>1. Gone' = Gone \cup {h} /\ \A g \in Gone : pc'[g] = pc[g] /\ gp'[g] = gp[g]
    BY <1>l, <1>t DEF Gone, EotLabels
  <2>2. pc'[h] = "end_test" /\ gp'[h] = v
    BY <1>l, <1>t
  <2>3. num_hard_fails' = num_hard_fails /\ held_locks' = held_locks
    BY <1>l DEF eotRest
  <2>4. NoneLeft' <=> NoneLeft
    BY <1>l DEF NoneLeft
  <2>5. \A g \in Gone' : /\ ~soft_end' /\ gp'[g] = "pass" => held_locks'[g] = 0
                         /\ pc'[g] # "end_test" /\ gp'[g] # "pass" => num_hard_fails' # 0
    BY <1>e, <1>l, <2>1, <2>2, <2>3 DEF EndInv
  <2>6. Gone' # {} /\ ~soft_end' => NoneLeft' \/ \E g \in Gone' : gp'[g] # "pass"
    BY <1>e, <1>l, <2>1, <2>2, <2>4 DEF EndInv
  <2> QED
    BY <2>5, <2>6 DEF EndInv
<1>1. ASSUME NEW h \in Harts, SchedStep(h) PROVE EndInv'
  <2>1. h \notin Gone /\ UNCHANGED eotRest
    BY <1>1, SchedStepIsOutside, SchedStepNotGone DEF Gone
  <2>0. \A l \in SchedLabels : l \notin EotLabels
    BY DEF SchedLabels, SelectLabels, EotLabels
  <2>2. CASE TestFails(h)
    <3>1. /\ pc' = [pc EXCEPT ![h] = "end_test"] /\ gp' = [gp EXCEPT ![h] = "fail"]
          /\ UNCHANGED <<num_runs, held_locks, soft_end>>
      BY <2>2 DEF TestFails, TestFailed, Goto, schedVars
    <3> QED
      BY <1>l, <2>1, <3>1
  <2>3. CASE TestEnds(h)
    <3>1. /\ pc' = [pc EXCEPT ![h] = "end_test"] /\ gp' = [gp EXCEPT ![h] = "pass"]
          /\ UNCHANGED <<num_runs, held_locks>> /\ soft_end'
      BY <2>3 DEF TestEnds, OsEndTest, Goto
    <3> QED
      BY <1>l, <2>1, <3>1
  <2>4. CASE CheckEnded(h)
    <3>0. held_locks[h] = 0 /\ UNCHANGED <<num_runs, held_locks, soft_end>>
      BY <2>4 DEF CheckEnded, SchedulerInv, MutexInv
    <3>1. CASE AnyHartEnded
      <4>1. pc' = [pc EXCEPT ![h] = "end_test"] /\ gp' = [gp EXCEPT ![h] = "pass"]
        BY <2>4, <3>1 DEF CheckEnded, OsEndTest, Goto
      <4> QED
        BY <1>l, <2>1, <3>0, <3>1, <4>1, SomebodyIsGone DEF AnyHartEnded
    <3>2. CASE pc' = [pc EXCEPT ![h] = "end_test"] /\ gp' = [gp EXCEPT ![h] = "fail"]
      BY <1>l, <2>1, <3>0, <3>2
    <3>3. CASE pc' = [pc EXCEPT ![h] = "try_lock"] /\ gp' = gp
      BY <1>k, <2>0, <2>1, <3>0, <3>3 DEF SchedLabels, NoneLeft
    <3> QED
      BY <2>4, <3>1, <3>2, <3>3 DEF CheckEnded, TestFailed, Goto
  <2>5. CASE Finished(h)
    <3>0. held_locks[h] = 0 /\ NoneLeft /\ UNCHANGED <<num_runs, held_locks, soft_end>>
      BY <2>5 DEF Finished, SchedulerInv, MutexInv, FinishInv
    <3>1. CASE pc' = [pc EXCEPT ![h] = "end_test"] /\ gp' = [gp EXCEPT ![h] = "pass"]
      BY <1>l, <2>1, <3>0, <3>1
    <3>2. CASE pc' = [pc EXCEPT ![h] = "execute"] /\ gp' = gp
      BY <1>k, <2>0, <2>1, <3>0, <3>2 DEF SchedLabels, NoneLeft
    <3> QED
      BY <2>5, <3>1, <3>2 DEF Finished, OsEndTest, Goto
  <2>6. CASE StoreNumRuns(h)
    <3>1. /\ pc' = [pc EXCEPT ![h] = "dec_pending"] /\ gp' = gp
          /\ UNCHANGED <<held_locks, soft_end>>
      BY <2>6 DEF StoreNumRuns, Goto
    <3>2. ~NoneLeft
      <4>1. PICK u \in Tests : u = a0[h]
        BY <1>t DEF TypeOK
      <4>2. num_runs[u] > 0
        BY <2>6, <4>1 DEF StoreNumRuns, SchedulerInv, SelectionInv
      <4> QED
        BY <4>2 DEF NoneLeft
    <3>3. "dec_pending" \in SchedLabels
      BY DEF SchedLabels, SelectLabels
    <3> QED
      BY <1>k, <2>0, <2>1, <3>1, <3>2, <3>3
  <2>7. CASE ~(TestFails(h) \/ TestEnds(h) \/ CheckEnded(h) \/ Finished(h) \/ StoreNumRuns(h))
    <3>1. /\ gp' = gp /\ UNCHANGED <<num_runs, soft_end>>
          /\ \E l \in SchedLabels : pc' = [pc EXCEPT ![h] = l]
          /\ \A g \in Harts \ {h} : held_locks'[g] = held_locks[g]
      BY <1>1, <1>t, <2>7, OthersSteps
    <3>2. NoneLeft => NoneLeft'
      BY <3>1 DEF NoneLeft
    <3> QED
      BY <1>k, <2>0, <2>1, <3>1, <3>2
  <2> QED
    BY <2>2, <2>3, <2>4, <2>5, <2>6, <2>7
<1>2. ASSUME NEW h \in Harts, EotStep(h), UNCHANGED schedVars PROVE EndInv'
  <2>0. PICK l \in EotLabels : pc' = [pc EXCEPT ![h] = l]
    BY <1>2, EotJump
  <2>1. Gone' = Gone /\ gp' = gp
    <3>1. pc[h] \in EotLabels
      BY <1>2, EotJump
    <3>2. Gone' = Gone
      BY <1>t, <2>0, <3>1 DEF Gone
    <3> QED
      BY <1>2, <3>2 DEF EotStep, EndTest, MarkDone, TohostTryLock, TohostSwap, WaitForOthers,
         WaitEnded, Passed, Failed
  <2>2. num_runs' = num_runs /\ soft_end' = soft_end /\ held_locks' = held_locks
    BY <1>2 DEF schedVars
  <2>3. \A g \in Gone : pc'[g] # "end_test" /\ gp[g] # "pass" => num_hard_fails' # 0
    <3>1. CASE EndTest(h)
      BY <1>e, <1>t, <3>1 DEF EndTest, EndInv, Goto, Gone, EotTypeOK
    <3>2. CASE ~EndTest(h)
      <4>1. num_hard_fails' = num_hard_fails /\ pc[h] # "end_test"
        BY <1>2, <3>2 DEF EotStep, MarkDone, TohostTryLock, TohostSwap, WaitForOthers,
           WaitEnded, Passed, Failed
      <4>2. \A g \in Gone : pc'[g] # "end_test" => pc[g] # "end_test"
        BY <1>t, <2>0, <4>1 DEF Gone
      <4> QED
        BY <1>e, <4>1, <4>2 DEF EndInv
    <3> QED
      BY <3>1, <3>2
  <2>4. NoneLeft' <=> NoneLeft
    BY <2>2 DEF NoneLeft
  <2> QED
    BY <1>e, <2>1, <2>2, <2>3, <2>4 DEF EndInv
<1>3. CASE UNCHANGED vars
  BY <1>3, <1>e DEF vars, eotVars, eotRest, schedVars, EndInv, Gone, NoneLeft
<1> QED
  BY <1>1, <1>2, <1>3 DEF Next, HartStep, Terminated

-----------------------------------------------------------------------------

\* The two inductive invariants, which need each other, hold in every reachable
\* state.
LEMMA BothInvariants == Spec => [](SchedulerInv /\ EotInv)
<1>1. Init => SchedulerInv /\ EotInv
  BY InitInv, InitEotInv
<1>2. SchedulerInv /\ EotInv /\ [Next]_vars => SchedulerInv' /\ EotInv'
  <2>1. SchedulerInv => TypeOK
    BY DEF SchedulerInv
  <2> QED
    BY <2>1, TypeStep, SelectLockStep, SelectionStep, MutexStep, AccountingStep, PendingStep,
       FinishStep, EndStep, EotInvStep DEF SchedulerInv
<1> QED
  BY <1>1, <1>2, PTL DEF Spec

\* The inductive invariant of the scheduler holds in every reachable state.
THEOREM SchedulerInvariant == Spec => []SchedulerInv
BY BothInvariants, PTL

\* The invariant of the end-of-test protocol holds in every reachable state.
THEOREM EotInvariant == Spec => []EotInv
BY BothInvariants, PTL

\* Type correctness of the scheduler, for any number of harts and tests.
THEOREM TypeCorrect == Spec => []TypeOK
<1>1. SchedulerInv => TypeOK
  BY DEF SchedulerInv
<1> QED
  BY SchedulerInvariant, <1>1, PTL

\* parallel.py: "no two harts run the same test at the same time."  A hart that
\* executes a discrete test owns its mutex, and a mutex has one owner.
THEOREM ParallelExclusion == Spec => []NoSharedTest
<1>1. SchedulerInv => NoSharedTest
  <2> SUFFICES ASSUME SchedulerInv,
                      NEW g \in Harts, NEW h \in Harts,
                      pc[g] = "execute", pc[h] = "execute",
                      test[g] \in Tests, test[g] = test[h]
               PROVE  g = h
    BY DEF NoSharedTest
  <2>1. Owns(g, test[g]) /\ Owns(h, test[g])
    BY DEF SchedulerInv, MutexInv, Owns
  <2> QED
    BY <2>1 DEF SchedulerInv, MutexInv
<1> QED
  BY SchedulerInvariant, <1>1, PTL

\* No run of a discrete test is lost or handed out twice, although num_runs is
\* updated with a plain load and a plain store.
THEOREM NoLostRuns == Spec => []RunAccounting
<1>1. SchedulerInv => RunAccounting
  BY DEF SchedulerInv
<1> QED
  BY SchedulerInvariant, <1>1, PTL

\* A run that is reported as passed, and that no test cut short, has executed
\* each discrete test repeat_times times.
THEOREM PassCompletesPlan == Spec => []PassCoversPlan
<1>1. SchedulerInv /\ EotInv => PassCoversPlan
  <2> SUFFICES ASSUME SchedulerInv, EotInv, tohost = "pass", num_hard_fails = 0, ~soft_end,
                      NEW t \in Tests
               PROVE  completed[t] = RepeatTimes
    BY DEF PassCoversPlan
  <2>1. Ended = Harts
    BY DEF EotInv
  <2>2. Gone = Harts /\ Gone # {} /\ \A h \in Harts : pc[h] # "end_test"
    BY <2>1, EotAssumption DEF Ended, Gone, EndedLabels, WinnerLabels, EotLabels
  <2>3. \A h \in Gone : gp[h] = "pass" /\ held_locks[h] = 0
    BY <2>2 DEF SchedulerInv, EndInv
  <2>4. num_runs[t] = 0
    BY <2>2, <2>3 DEF SchedulerInv, EndInv, NoneLeft
  <2>5. ~ \E h \in Harts : InFlight(h, t)
    BY <2>1, <2>2, <2>3, TestsFact DEF InFlight, Gone, EotLabels
  <2>6. completed[t] \in Nat
    BY DEF SchedulerInv, TypeOK
  <2> QED
    BY <2>4, <2>5, <2>6 DEF SchedulerInv, RunAccounting
<1> QED
  BY BothInvariants, <1>1, PTL

\* The draw below pending_num_runs always finds its test: the walk of
\* scheduler__next_test ends inside the arrays.
THEOREM DrawFindsTest == Spec => []DrawIsServed
<1>1. SchedulerInv => DrawIsServed
  <2> SUFFICES ASSUME SchedulerInv, NEW h \in Harts, pc[h] = "walk"
               PROVE  a4[h] < a5[h] + Cardinality({r \in RunsLeft : r[1] >= a0[h]})
    BY DEF DrawIsServed
  <2> DEFINE A == {r \in RunsLeft : r[1] < a0[h]}
             B == {r \in RunsLeft : r[1] >= a0[h]}
  <2>1. A \in SUBSET RunsLeft /\ B \in SUBSET RunsLeft
    OBVIOUS
  <2>2. /\ IsFiniteSet(RunsLeft) /\ Cardinality(RunsLeft) \in Nat
        /\ IsFiniteSet(A) /\ Cardinality(A) \in Nat
        /\ IsFiniteSet(B) /\ Cardinality(B) \in Nat
    BY <2>1, RunsBound, RunsFact DEF SchedulerInv
  <2>3. RunsLeft = A \cup B /\ A \cap B = {}
    <3>1. a0[h] \in Int /\ \A r \in RunsLeft : r[1] \in Int
      BY DEF RunsLeft, SchedulerInv, TypeOK, Tests
    <3>2. \A n \in Int : (n < a0[h] \/ n >= a0[h]) /\ ~ (n < a0[h] /\ n >= a0[h])
      BY <3>1
    <3> QED
      BY <3>1, <3>2
  <2>4. Cardinality(RunsLeft) = Cardinality(A) + Cardinality(B)
    <3> HIDE DEF A, B
    <3>1. Cardinality(A \cup B) = Cardinality(A) + Cardinality(B) - Cardinality(A \cap B)
      BY <2>2, FS_Union
    <3>2. Cardinality(A \cap B) = 0
      BY <2>3, FS_EmptySet
    <3> QED
      BY <2>2, <2>3, <3>1, <3>2
  <2>5. \A g \in Harts : pc[g] \notin {"dec_pending", "store_pending"}
    BY DEF SchedulerInv, SelectLockInv, SelectLabels
  <2>6. /\ pending_num_runs = Cardinality(RunsLeft)
        /\ a4[h] < pending_num_runs /\ a5[h] = RunsBefore[a0[h]]
    BY <2>2, <2>5 DEF SchedulerInv, PendingInv
  <2>7. RunsBefore[a0[h]] = Cardinality(A)
    BY DEF SchedulerInv, RunsBefore, TypeOK
  <2> QED
    BY <2>2, <2>4, <2>6, <2>7
<1> QED
  BY SchedulerInvariant, <1>1, PTL

-----------------------------------------------------------------------------
(* The end of the test                                                     *)

\* eot.py: "Only one hart will write to tohost."
THEOREM SingleWriter == Spec => []OneTohostWriter
<1>1. EotInv => OneTohostWriter
  BY DEF EotInv
<1> QED
  BY EotInvariant, <1>1, PTL

\* A pass is only written when every hart has reached the end of the test.
THEOREM PassAfterAll == Spec => []PassMeansAllEnded
<1>1. EotInv => PassMeansAllEnded
  BY DEF EotInv, PassMeansAllEnded, OneTohostWriter, Ended, EndedLabels
<1> QED
  BY EotInvariant, <1>1, PTL

\* A written verdict is never overwritten.
THEOREM VerdictStands == Spec => VerdictIsFinal
<1>1. EotInv /\ [Next]_vars => [tohost = "none"]_tohost
  <2> SUFFICES ASSUME EotInv, [Next]_vars, tohost # "none" PROVE tohost' = tohost
    OBVIOUS
  <2>1. ASSUME NEW h \in Harts, SchedStep(h) PROVE tohost' = tohost
    BY <2>1, SchedStepIsOutside DEF eotRest
  <2>2. ASSUME NEW h \in Harts, EotStep(h) PROVE tohost' = tohost
    BY <2>2 DEF EotInv, OneTohostWriter, WinnerLabels, EotStep, EndTest, MarkDone,
        TohostTryLock, TohostSwap, WaitForOthers, WaitEnded, Passed, Failed
  <2>3. CASE UNCHANGED vars
    BY <2>3 DEF vars, eotVars, eotRest
  <2> QED
    BY <2>1, <2>2, <2>3 DEF Next, HartStep, Terminated
<1> QED
  BY EotInvariant, <1>1, PTL DEF Spec, VerdictIsFinal

=============================================================================
