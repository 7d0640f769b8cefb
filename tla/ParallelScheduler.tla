------------------------- MODULE ParallelScheduler -------------------------
(***************************************************************************)
(* runtime/schedulers/parallel.py composed with the end-of-test protocol.  *)
(*                                                                         *)
(* Harts draw tests from a shared pool: each discrete test has RepeatTimes *)
(* runs and a mutex.  A hart picks a test at random, weighted by the runs  *)
(* left, while it holds test_select_lock, and holds the mutex of the test  *)
(* until its next dispatch.                                                *)
(***************************************************************************)
EXTENDS Eot

CONSTANTS
  NumTests,     \* len(self.dtests)
  RepeatTimes,  \* featmgr.repeat_times
  MaxTries,     \* bound: tries of place_acquire_lock (MAX_OS_BARRIER_TRIES)
  Outcomes      \* what the code of a test may do: a subset of TestOutcomes

ASSUME ParallelAssumption ==
  /\ NumTests \in Nat \ {0}
  /\ RepeatTimes \in Nat \ {0}
  /\ MaxTries \in Nat \ {0}
  /\ Outcomes \subseteq {"pass", "fail", "end", "hang"}

VARIABLES
  test_select_lock,  \* shared lock word: 0, or the swap value of its holder
  pending_num_runs,  \* shared: runs left over all tests
  num_runs,          \* shared: runs left per test
  test_mutexes,      \* shared: one word per test
  held_locks,        \* per hart: the test whose mutex it holds, or 0
  cleanup_ran,       \* scheduler__test_cleanup_ran, per hart
  t3,                \* register: swap value and try counter, then run count
  t0,                \* register: the counter between its load and its store
  a0,                \* register: position in the test arrays
  a4,                \* register: the random draw
  a5,                \* register: cumulative run count of the walk
  test,              \* what each hart executes (register t1 at the jump)
  completed,         \* history: runs of each test that came back to dispatch
  soft_end           \* history: some test asked for the end of the test

schedVars == <<test_select_lock, pending_num_runs, num_runs, test_mutexes,
               held_locks, cleanup_ran, t0, t3, a0, a4, a5, test, completed, soft_end>>
vars == <<eotVars, schedVars>>

Tests   == 1 .. NumTests
Setup   == 0              \* test_setup
Cleanup == NumTests + 1   \* test_cleanup, the last word of os_test_sequence

\* Labels at which a hart owns test_select_lock.
SelectLabels == {"next_test", "walk", "selected", "swap_mutex", "dec_num_runs",
                 "store_num_runs", "dec_pending", "store_pending", "release", "release_and_retry", "no_tests"}

SchedLabels == SelectLabels \cup
  {"execute", "hung", "dispatch", "check_ended", "try_lock", "swap_lock", "finished"}

Labels == SchedLabels \cup EotLabels

\* The registers of the selection are dead once it is over; a dead register
\* has the value it starts with.
ForgetSelection(h) ==
  /\ t0' = [t0 EXCEPT ![h] = 0]
  /\ a0' = [a0 EXCEPT ![h] = 1]
  /\ a4' = [a4 EXCEPT ![h] = 0]
  /\ a5' = [a5 EXCEPT ![h] = 0]

-----------------------------------------------------------------------------
(* Running a test and coming back (scheduler__execute_test, opsys.py)      *)

TestPasses(h) ==
  /\ pc[h] = "execute" /\ "pass" \in Outcomes
  /\ Goto(h, "dispatch")
  /\ UNCHANGED <<gp, eotRest, schedVars>>

TestFails(h) ==
  /\ pc[h] = "execute" /\ "fail" \in Outcomes
  /\ TestFailed(h)
  /\ UNCHANGED <<eotRest, schedVars>>

TestEnds(h) ==
  /\ pc[h] = "execute" /\ "end" \in Outcomes
  /\ OsEndTest(h)
  /\ soft_end' = TRUE
  /\ UNCHANGED <<eotRest, test_select_lock, pending_num_runs, num_runs,
                 test_mutexes, held_locks, cleanup_ran, t0, t3, a0, a4, a5,
                 test, completed>>

\* The code of a test never comes back.
TestHangs(h) ==
  /\ pc[h] = "execute" /\ "hang" \in Outcomes
  /\ Goto(h, "hung")
  /\ UNCHANGED <<gp, eotRest, schedVars>>

-----------------------------------------------------------------------------
(* scheduler__dispatch: release the mutex of the previous test             *)

\* Mutant: the mutex stays taken.
MutexesAfterNoRelease(t) == test_mutexes

MutexesAfterRelease(t) == [test_mutexes EXCEPT ![t] = 0]

Dispatch(h) ==
  LET t == held_locks[h] IN
  /\ pc[h] = "dispatch"
  /\ IF t = 0
       THEN UNCHANGED <<test_mutexes, completed>>
       ELSE /\ test_mutexes' = MutexesAfterRelease(t)
            /\ completed' = [completed EXCEPT ![t] = @ + 1]
  /\ held_locks' = [held_locks EXCEPT ![h] = 0]
  /\ t3' = [t3 EXCEPT ![h] = MaxTries]
  /\ Goto(h, "check_ended")
  /\ UNCHANGED <<gp, eotRest, test_select_lock, pending_num_runs, num_runs,
                 cleanup_ran, t0, a0, a4, a5, test, soft_end>>

-----------------------------------------------------------------------------
(* place_acquire_lock on test_select_lock (routines.py)                    *)

\* Mutant: waits until everybody has ended.
EveryHartEnded == num_harts_ended = NumHarts

AnyHartEnded == num_harts_ended # 0

\* Leave when another hart has ended or the tries are used up.
CheckEnded(h) ==
  /\ pc[h] = "check_ended"
  /\ IF AnyHartEnded
       THEN OsEndTest(h) /\ t3' = [t3 EXCEPT ![h] = 0]
       ELSE /\ t3' = [t3 EXCEPT ![h] = @ - 1]
            /\ IF t3[h] - 1 <= 0
                 THEN TestFailed(h)
                 ELSE Goto(h, "try_lock") /\ UNCHANGED gp
  /\ UNCHANGED <<eotRest, test_select_lock, pending_num_runs, num_runs,
                 test_mutexes, held_locks, cleanup_ran, t0, a0, a4, a5, test,
                 completed, soft_end>>

TryLock(h) ==
  /\ pc[h] = "try_lock"
  /\ Goto(h, IF test_select_lock # 0 THEN "check_ended" ELSE "swap_lock")
  /\ UNCHANGED <<gp, eotRest, schedVars>>

\* Mutant: the value swapped out is not looked at.
SwapLockBlind(h) ==
  /\ pc[h] = "swap_lock"
  /\ test_select_lock' = t3[h]
  /\ Goto(h, "next_test")
  /\ UNCHANGED <<gp, eotRest, pending_num_runs, num_runs, test_mutexes,
                 held_locks, cleanup_ran, t0, t3, a0, a4, a5, test, completed,
                 soft_end>>

\* amoswap of the try counter: it overwrites the word even when it loses.
SwapLock(h) ==
  /\ pc[h] = "swap_lock"
  /\ test_select_lock' = t3[h]
  /\ Goto(h, IF test_select_lock # 0 THEN "check_ended" ELSE "next_test")
  /\ UNCHANGED <<gp, eotRest, pending_num_runs, num_runs, test_mutexes,
                 held_locks, cleanup_ran, t0, t3, a0, a4, a5, test, completed,
                 soft_end>>

-----------------------------------------------------------------------------
(* scheduler__next_test, in the critical section                           *)

\* Mutant: the last run is taken for none.
NoTestsLeftEarly == pending_num_runs <= 1

NoTestsLeft == pending_num_runs = 0

\* The LCG draw modulo pending_num_runs, with the seed abstracted away.
NextTest(h) ==
  /\ pc[h] = "next_test"
  /\ IF NoTestsLeft
       THEN Goto(h, "no_tests") /\ UNCHANGED <<a0, a4, a5>>
       ELSE /\ \E r \in 0 .. pending_num_runs - 1 : a4' = [a4 EXCEPT ![h] = r]
            /\ a5' = [a5 EXCEPT ![h] = 0]
            /\ a0' = [a0 EXCEPT ![h] = 1]
            /\ Goto(h, "walk")
  /\ UNCHANGED <<gp, eotRest, test_select_lock, pending_num_runs, num_runs,
                 test_mutexes, held_locks, cleanup_ran, t0, t3, test,
                 completed, soft_end>>

\* Mutant: bgeu.
StopsAtEqual(cumulative, draw) == cumulative >= draw

\* bgtu on the cumulative count and the draw.
StopsAt(cumulative, draw) == cumulative > draw

\* One turn of the walk: stop at the first test whose cumulative count
\* exceeds the draw.
Walk(h) ==
  LET runs == num_runs[a0[h]] IN
  /\ pc[h] = "walk"
  /\ t3' = [t3 EXCEPT ![h] = runs]
  /\ a5' = [a5 EXCEPT ![h] = @ + runs]
  /\ IF StopsAt(a5[h] + runs, a4[h])
       THEN Goto(h, "selected") /\ UNCHANGED a0
       ELSE IF a0[h] = NumTests
              THEN Goto(h, "release_and_retry") /\ UNCHANGED a0
              ELSE Goto(h, "walk") /\ a0' = [a0 EXCEPT ![h] = @ + 1]
  /\ UNCHANGED <<gp, eotRest, test_select_lock, pending_num_runs, num_runs,
                 test_mutexes, held_locks, cleanup_ran, t0, a4, test,
                 completed, soft_end>>

\* Mutant: dropped guard.
MutexIgnored(word) == FALSE

MutexTaken(word) == word # 0

Selected(h) ==
  /\ pc[h] = "selected"
  /\ Goto(h, IF MutexTaken(test_mutexes[a0[h]]) THEN "release_and_retry" ELSE "swap_mutex")
  /\ UNCHANGED <<gp, eotRest, schedVars>>

\* amoswap of the run count into the mutex of the test.
SwapMutex(h) ==
  /\ pc[h] = "swap_mutex"
  /\ test_mutexes' = [test_mutexes EXCEPT ![a0[h]] = t3[h]]
  /\ Goto(h, IF MutexTaken(test_mutexes[a0[h]]) THEN "release_and_retry" ELSE "dec_num_runs")
  /\ UNCHANGED <<gp, eotRest, test_select_lock, pending_num_runs, num_runs,
                 held_locks, cleanup_ran, t0, t3, a0, a4, a5, test, completed,
                 soft_end>>

\* num_runs[test]--, pending_num_runs--: plain loads and stores, which only
\* test_select_lock keeps apart from those of the other harts.
LoadNumRuns(h) ==
  /\ pc[h] = "dec_num_runs"
  /\ t0' = [t0 EXCEPT ![h] = num_runs[a0[h]]]
  /\ Goto(h, "store_num_runs")
  /\ UNCHANGED <<gp, eotRest, test_select_lock, pending_num_runs, num_runs,
                 test_mutexes, held_locks, cleanup_ran, t3, a0, a4, a5, test,
                 completed, soft_end>>

StoreNumRuns(h) ==
  /\ pc[h] = "store_num_runs"
  /\ num_runs' = [num_runs EXCEPT ![a0[h]] = t0[h] - 1]
  /\ Goto(h, "dec_pending")
  /\ UNCHANGED <<gp, eotRest, test_select_lock, pending_num_runs,
                 test_mutexes, held_locks, cleanup_ran, t0, t3, a0, a4, a5,
                 test, completed, soft_end>>

LoadPending(h) ==
  /\ pc[h] = "dec_pending"
  /\ t0' = [t0 EXCEPT ![h] = pending_num_runs]
  /\ Goto(h, "store_pending")
  /\ UNCHANGED <<gp, eotRest, test_select_lock, pending_num_runs, num_runs,
                 test_mutexes, held_locks, cleanup_ran, t3, a0, a4, a5, test,
                 completed, soft_end>>

StorePending(h) ==
  /\ pc[h] = "store_pending"
  /\ pending_num_runs' = t0[h] - 1
  /\ Goto(h, "release")
  /\ UNCHANGED <<gp, eotRest, test_select_lock, num_runs, test_mutexes,
                 held_locks, cleanup_ran, t0, t3, a0, a4, a5, test, completed,
                 soft_end>>

\* Release the selection lock, remember the mutex and jump to the test.
Release(h) ==
  /\ pc[h] = "release"
  /\ test_select_lock' = 0
  /\ held_locks' = [held_locks EXCEPT ![h] = a0[h]]
  /\ test' = [test EXCEPT ![h] = a0[h]]
  /\ t3' = [t3 EXCEPT ![h] = 0]
  /\ ForgetSelection(h)
  /\ Goto(h, "execute")
  /\ UNCHANGED <<gp, eotRest, pending_num_runs, num_runs, test_mutexes,
                 cleanup_ran, completed, soft_end>>

\* The chosen test is taken: start over with a fresh try counter.
ReleaseAndRetry(h) ==
  /\ pc[h] = "release_and_retry"
  /\ test_select_lock' = 0
  /\ t3' = [t3 EXCEPT ![h] = MaxTries]
  /\ ForgetSelection(h)
  /\ Goto(h, "check_ended")
  /\ UNCHANGED <<gp, eotRest, pending_num_runs, num_runs, test_mutexes,
                 held_locks, cleanup_ran, test, completed, soft_end>>

NoTests(h) ==
  /\ pc[h] = "no_tests"
  /\ test_select_lock' = 0
  /\ t3' = [t3 EXCEPT ![h] = 0]
  /\ Goto(h, "finished")
  /\ UNCHANGED <<gp, eotRest, pending_num_runs, num_runs, test_mutexes,
                 held_locks, cleanup_ran, t0, a0, a4, a5, test, completed,
                 soft_end>>

\* scheduler__finished: run test_cleanup once, then end with gp = 1.
Finished(h) ==
  /\ pc[h] = "finished"
  /\ IF cleanup_ran[h] # 0
       THEN OsEndTest(h) /\ UNCHANGED <<cleanup_ran, test>>
       ELSE /\ cleanup_ran' = [cleanup_ran EXCEPT ![h] = 1]
            /\ test' = [test EXCEPT ![h] = Cleanup]
            /\ Goto(h, "execute")
            /\ UNCHANGED gp
  /\ UNCHANGED <<eotRest, test_select_lock, pending_num_runs, num_runs,
                 test_mutexes, held_locks, t0, t3, a0, a4, a5, completed,
                 soft_end>>

-----------------------------------------------------------------------------

\* scheduler__init: every hart runs test_setup first, with no barrier.
Init ==
  /\ EotInit
  /\ pc = [h \in Harts |-> "execute"]
  /\ test_select_lock = 0
  /\ pending_num_runs = NumTests * RepeatTimes
  /\ num_runs = [t \in Tests |-> RepeatTimes]
  /\ test_mutexes = [t \in Tests |-> 0]
  /\ held_locks = [h \in Harts |-> 0]
  /\ cleanup_ran = [h \in Harts |-> 0]
  /\ t0 = [h \in Harts |-> 0]
  /\ t3 = [h \in Harts |-> 0]
  /\ a0 = [h \in Harts |-> 1]
  /\ a4 = [h \in Harts |-> 0]
  /\ a5 = [h \in Harts |-> 0]
  /\ test = [h \in Harts |-> Setup]
  /\ completed = [t \in Tests |-> 0]
  /\ soft_end = FALSE

SchedStep(h) ==
  \/ TestPasses(h) \/ TestFails(h) \/ TestEnds(h) \/ TestHangs(h)
  \/ Dispatch(h)
  \/ CheckEnded(h) \/ TryLock(h) \/ SwapLock(h)
  \/ NextTest(h) \/ Walk(h) \/ Selected(h) \/ SwapMutex(h)
  \/ LoadNumRuns(h) \/ StoreNumRuns(h) \/ LoadPending(h) \/ StorePending(h)
  \/ Release(h) \/ ReleaseAndRetry(h) \/ NoTests(h)
  \/ Finished(h)

HartStep(h) == SchedStep(h) \/ (EotStep(h) /\ UNCHANGED schedVars)

\* Every hart sits in the wfi loop of eot__halt, or in a test that hangs.
Terminated == (\A h \in Harts : pc[h] \in {"halt", "hung"}) /\ UNCHANGED vars

Next == (\E h \in Harts : HartStep(h)) \/ Terminated

Spec == Init /\ [][Next]_vars

\* A hart keeps executing instructions.
FairSpec == Spec /\ \A h \in Harts : WF_vars(HartStep(h))

-----------------------------------------------------------------------------
(* Properties                                                              *)

\* The type of every variable of the scheduler and of the end of the test.
TypeOK ==
  /\ EotTypeOK(Labels)
  /\ test_select_lock \in Nat
  /\ pending_num_runs \in Int
  /\ num_runs \in [Tests -> Nat]
  /\ test_mutexes \in [Tests -> Nat]
  /\ held_locks \in [Harts -> Tests \cup {0}]
  /\ cleanup_ran \in [Harts -> {0, 1}]
  /\ t0 \in [Harts -> Int]
  /\ t3 \in [Harts -> Nat]
  /\ a0 \in [Harts -> Tests]
  /\ a4 \in [Harts -> Nat]
  /\ a5 \in [Harts -> Nat]
  /\ test \in [Harts -> Tests \cup {Setup, Cleanup}]
  /\ completed \in [Tests -> Nat]
  /\ soft_end \in BOOLEAN

\* Hart h has taken the mutex of test t and has not given it back.
Owns(h, t) ==
  \/ held_locks[h] = t
  \/ a0[h] = t /\ pc[h] \in {"dec_num_runs", "store_num_runs", "dec_pending",
                              "store_pending", "release"}

\* Hart h has taken a run of test t out of num_runs and has not come back.
InFlight(h, t) ==
  \/ held_locks[h] = t
  \/ a0[h] = t /\ pc[h] \in {"dec_pending", "store_pending", "release"}

\* parallel.py: "no two harts run the same test at the same time."
NoSharedTest ==
  \A g, h \in Harts :
    pc[g] = "execute" /\ pc[h] = "execute" /\ test[g] \in Tests /\ test[g] = test[h]
      => g = h

\* No run of a test is lost or handed out twice: what is left in num_runs,
\* what came back, and the run somebody is busy with always add up to
\* repeat_times, although the counters are updated with plain loads and stores.
RunAccounting ==
  \A t \in Tests :
    num_runs[t] + completed[t] + (IF \E h \in Harts : InFlight(h, t) THEN 1 ELSE 0)
      = RepeatTimes

\* The inductive invariant behind NoSharedTest and RunAccounting.
\* test_select_lock: at most one hart is between its acquisition and its
\* release, and the word is not 0 meanwhile, because the try counter that is
\* swapped in, even by a hart that loses, is positive.
SelectLockInv ==
  /\ \A g, h \in Harts : pc[g] \in SelectLabels /\ pc[h] \in SelectLabels => g = h
  /\ (\E h \in Harts : pc[h] \in SelectLabels) => test_select_lock # 0
  /\ \A h \in Harts : pc[h] \in {"check_ended", "try_lock", "swap_lock"} => t3[h] > 0

\* The selection in progress reads what num_runs still holds: the test that is
\* chosen has a run left, so the word swapped into its mutex is not 0.
SelectionInv ==
  \A h \in Harts :
    /\ pc[h] = "walk" => a5[h] <= a4[h]
    /\ pc[h] \in {"selected", "swap_mutex", "dec_num_runs", "store_num_runs"} =>
         /\ t3[h] = num_runs[a0[h]]
         /\ t3[h] > 0
    /\ pc[h] = "store_num_runs" => t0[h] = num_runs[a0[h]]

\* A test mutex has at most one owner, is not 0 while it has one, and a hart
\* that executes a discrete test owns the mutex of that test and no other.
MutexInv ==
  /\ \A g, h \in Harts, t \in Tests : Owns(g, t) /\ Owns(h, t) => g = h
  /\ \A h \in Harts, t \in Tests : Owns(h, t) => test_mutexes[t] # 0
  /\ \A h \in Harts :
       /\ pc[h] \in SelectLabels \cup {"check_ended", "try_lock", "swap_lock", "finished"}
            => held_locks[h] = 0
       /\ pc[h] = "execute" /\ test[h] \in Tests => held_locks[h] = test[h]

\* The runs that num_runs still holds, one pair for each.
RunsLeft == {r \in Tests \X (1 .. RepeatTimes) : r[2] <= num_runs[r[1]]}

\* How many of them the tests before t have.
RunsBefore == [t \in Tests |-> Cardinality({r \in RunsLeft : r[1] < t})]

\* pending_num_runs, which is updated after num_runs, is the sum of num_runs but
\* for the run whose owner has not got there yet; a walk has added up the counts
\* it has passed, and its draw is below the sum.
PendingInv ==
  /\ pending_num_runs = Cardinality(RunsLeft)
       + (IF \E h \in Harts : pc[h] \in {"dec_pending", "store_pending"} THEN 1 ELSE 0)
  /\ \A h \in Harts :
       /\ pc[h] = "store_pending" => t0[h] = pending_num_runs
       /\ pc[h] = "walk" =>
            /\ a4[h] < pending_num_runs
            /\ a5[h] = RunsBefore[a0[h]]

\* A hart that goes for test_cleanup has seen that no run is left.
NoneLeft == \A t \in Tests : num_runs[t] = 0

FinishInv ==
  \A h \in Harts :
    pc[h] \in {"no_tests", "finished"} \/ cleanup_ran[h] # 0 => NoneLeft

\* Why harts leave: no run is left, a test asked for the end, or a failure that
\* is about to be counted; only the last two leave a test unfinished.
EndInv ==
  /\ Gone # {} /\ ~soft_end => NoneLeft \/ \E h \in Gone : gp[h] # "pass"
  /\ \A h \in Gone :
       /\ ~soft_end /\ gp[h] = "pass" => held_locks[h] = 0
       /\ pc[h] # "end_test" /\ gp[h] # "pass" => num_hard_fails # 0

\* What every step preserves: types, locks, mutexes, the run counts and the
\* reasons to leave.
SchedulerInv ==
  /\ TypeOK /\ SelectLockInv /\ SelectionInv /\ MutexInv /\ RunAccounting
  /\ PendingInv /\ FinishInv /\ EndInv

\* The random draw below pending_num_runs always falls on a test that has runs
\* left: during the walk of scheduler__next_test the run counts still ahead
\* exceed what is left of the draw, so the walk never leaves the arrays.
\* pending_num_runs is only a cached sum of num_runs, updated separately.
DrawIsServed ==
  \A h \in Harts :
    pc[h] = "walk" => a4[h] < a5[h] + Cardinality({r \in RunsLeft : r[1] >= a0[h]})

\* A test that nobody failed and nobody ended early is only reported as
\* passed when each discrete test was run repeat_times times, although every
\* hart leaves as soon as it sees num_harts_ended # 0.
PassCoversPlan ==
  tohost = "pass" /\ num_hard_fails = 0 /\ ~soft_end =>
    \A t \in Tests : completed[t] = RepeatTimes

\* One hart that ends takes every hart that still executes instructions to
\* eot__halt, and the verdict is written, even if some test hangs.
OneEndsAll ==
  num_harts_ended # 0 ~>
    tohost # "none" /\ \A h \in Harts : pc[h] \in {"halt", "hung"}

\* Unless a test hangs, tohost is written: no lock is waited for forever.
TohostIsWritten == <>(tohost # "none" \/ \E h \in Harts : pc[h] = "hung")
=============================================================================
