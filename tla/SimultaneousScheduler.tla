----------------------- MODULE SimultaneousScheduler -----------------------
(***************************************************************************)
(* runtime/schedulers/simultaneous.py, composed with the barrier and the   *)
(* end-of-test protocol: all harts run the same test at the same time.     *)
(* num_runs indexes os_test_sequence, whose word 0 is test_cleanup.  Every *)
(* hart reads num_runs before a barrier, hart 0 stores the decremented     *)
(* value after it, and a second barrier precedes the test.                 *)
(***************************************************************************)
EXTENDS BarrierRoutine

CONSTANTS
  Hart0,           \* the hart whose mhartid is 0
  SequenceLength,  \* len(self.dtests_sequence): tests times repeat_times
  Outcomes         \* what the code of a test may do

ASSUME SimultaneousAssumption ==
  /\ Hart0 \in Harts
  /\ SequenceLength \in Nat
  /\ Outcomes \subseteq {"pass", "fail", "end", "hang"}

VARIABLES
  num_runs,   \* shared: tests left, test_cleanup included
  ra,         \* register: the call site of the barrier a hart is in
  s10,        \* register: num_runs, decremented
  test,       \* register t1: the test to jump to
  soft_end    \* history: some test asked for the end of the test

schedVars == <<num_runs, ra, s10, test, soft_end>>
vars == <<eotVars, barrierVars, schedVars>>

Setup == SequenceLength + 1          \* test_setup, not in os_test_sequence
Sequence == 0 .. SequenceLength      \* indices of os_test_sequence

SchedLabels == {"init", "execute", "hung", "load_num_runs", "store_num_runs",
                "load_test_addr"}
Labels == SchedLabels \cup BarrierLabels \cup EotLabels

-----------------------------------------------------------------------------

\* call os_barrier_amo from the given place
CallBarrier(h, site) ==
  /\ ra' = [ra EXCEPT ![h] = site]
  /\ EnterBarrier(h)

\* scheduler__init
SchedulerInit(h) ==
  /\ pc[h] = "init"
  /\ CallBarrier(h, "init")
  /\ UNCHANGED <<num_runs, s10, test, soft_end>>

\* After the barrier of scheduler__init: on to scheduler__execute_test, which
\* starts with a barrier of its own.
LaunchSetup(h) ==
  /\ pc[h] = "complete" /\ ra[h] = "init"
  /\ test' = [test EXCEPT ![h] = Setup]
  /\ CallBarrier(h, "execute")
  /\ UNCHANGED <<num_runs, s10, soft_end>>

\* Mutant: test_cleanup is forgotten.
NoRunsLeftEarly == num_runs <= 1

NoRunsLeft == num_runs = 0

\* Mutant: the barrier between the loads and the store of num_runs is missing.
LoadNumRunsNoBarrier(h) ==
  /\ pc[h] = "load_num_runs"
  /\ IF NoRunsLeft
       THEN OsEndTest(h) /\ UNCHANGED s10
       ELSE /\ s10' = [s10 EXCEPT ![h] = num_runs - 1]
            /\ Goto(h, "store_num_runs") /\ UNCHANGED gp
  /\ UNCHANGED <<eotRest, barrierVars, num_runs, ra, test, soft_end>>

\* scheduler__load_num_runs; at 0, scheduler__finished.
LoadNumRuns(h) ==
  /\ pc[h] = "load_num_runs"
  /\ IF NoRunsLeft
       THEN OsEndTest(h) /\ UNCHANGED <<eotRest, barrierVars, ra, s10>>
       ELSE /\ s10' = [s10 EXCEPT ![h] = num_runs - 1]
            /\ CallBarrier(h, "dispatch")
  /\ UNCHANGED <<num_runs, test, soft_end>>

BackInDispatch(h) ==
  /\ pc[h] = "complete" /\ ra[h] = "dispatch"
  /\ Goto(h, "store_num_runs")
  /\ UNCHANGED <<gp, eotRest, barrierVars, schedVars>>

\* Only hart 0 stores the decremented value.
StoreNumRuns(h) ==
  /\ pc[h] = "store_num_runs"
  /\ num_runs' = IF h = Hart0 THEN s10[h] ELSE num_runs
  /\ Goto(h, "load_test_addr")
  /\ UNCHANGED <<gp, eotRest, barrierVars, ra, s10, test, soft_end>>

\* scheduler__load_test_addr, then scheduler__execute_test.
LoadTestAddr(h) ==
  /\ pc[h] = "load_test_addr"
  /\ test' = [test EXCEPT ![h] = s10[h]]
  /\ CallBarrier(h, "execute")
  /\ UNCHANGED <<num_runs, s10, soft_end>>

ExecuteTest(h) ==
  /\ pc[h] = "complete" /\ ra[h] = "execute"
  /\ Goto(h, "execute")
  /\ UNCHANGED <<gp, eotRest, barrierVars, schedVars>>

-----------------------------------------------------------------------------
(* The code of a test, and opsys.py                                        *)

TestPasses(h) ==
  /\ pc[h] = "execute" /\ "pass" \in Outcomes
  /\ Goto(h, "load_num_runs")
  /\ UNCHANGED <<gp, eotRest, barrierVars, schedVars>>

TestFails(h) ==
  /\ pc[h] = "execute" /\ "fail" \in Outcomes
  /\ TestFailed(h)
  /\ UNCHANGED <<eotRest, barrierVars, schedVars>>

TestEnds(h) ==
  /\ pc[h] = "execute" /\ "end" \in Outcomes
  /\ OsEndTest(h)
  /\ soft_end' = TRUE
  /\ UNCHANGED <<eotRest, barrierVars, num_runs, ra, s10, test>>

TestHangs(h) ==
  /\ pc[h] = "execute" /\ "hang" \in Outcomes
  /\ Goto(h, "hung")
  /\ UNCHANGED <<gp, eotRest, barrierVars, schedVars>>

-----------------------------------------------------------------------------

Init ==
  /\ EotInit
  /\ BarrierInit
  /\ pc = [h \in Harts |-> "init"]
  /\ num_runs = SequenceLength + 1
  /\ ra = [h \in Harts |-> "init"]
  /\ s10 = [h \in Harts |-> 0]
  /\ test = [h \in Harts |-> Setup]
  /\ soft_end = FALSE

SchedStep(h) ==
  \/ SchedulerInit(h) \/ LaunchSetup(h)
  \/ LoadNumRuns(h) \/ BackInDispatch(h) \/ StoreNumRuns(h) \/ LoadTestAddr(h)
  \/ ExecuteTest(h)
  \/ TestPasses(h) \/ TestFails(h) \/ TestEnds(h) \/ TestHangs(h)

HartStep(h) ==
  \/ SchedStep(h)
  \/ BarrierStep(h) /\ UNCHANGED schedVars
  \/ EotStep(h) /\ UNCHANGED <<barrierVars, schedVars>>

Terminated == (\A h \in Harts : pc[h] \in {"halt", "hung"}) /\ UNCHANGED vars

Next == (\E h \in Harts : HartStep(h)) \/ Terminated

Spec == Init /\ [][Next]_vars

\* A hart keeps executing instructions.
FairSpec == Spec /\ \A h \in Harts : WF_vars(HartStep(h))

-----------------------------------------------------------------------------
(* Properties                                                              *)

TypeOK ==
  /\ EotTypeOK(Labels)
  /\ BarrierTypeOK
  /\ num_runs \in 0 .. SequenceLength + 1
  /\ ra \in [Harts -> {"init", "dispatch", "execute"}]
  /\ s10 \in [Harts -> Sequence]
  /\ test \in [Harts -> Sequence \cup {Setup}]
  /\ soft_end \in BOOLEAN

\* simultaneous.py: "All harts run the same test at the same time."  A hart
\* that is still in a test never sees another one in the next.
SameTest ==
  \A g, h \in Harts : pc[g] = "execute" /\ pc[h] = "execute" => test[g] = test[h]

\* The index a hart executes, computed from a copy of num_runs it read before a
\* barrier, is the one hart 0 has stored meanwhile: nobody runs a test of
\* another round, and the store is never seen by a hart of the same round.
ExecutesCurrent ==
  \A h \in Harts : pc[h] = "execute" /\ test[h] # Setup => test[h] = num_runs

\* A test that nobody failed and nobody ended early is only reported as
\* passed when test_cleanup, the last of the sequence, has been dispatched.
PassCoversPlan ==
  tohost = "pass" /\ num_hard_fails = 0 /\ ~soft_end => num_runs = 0

\* routines.py: "Another hart may have bailed for an acceptable reason, so end
\* nominally", and eot.py: "Halt the test, all harts enter here into a wfi j
\* loop."  Once a hart has ended and as long as none fails, all get there.
NominalEndHaltsAll ==
  (num_harts_ended # 0 /\ num_hard_fails = 0) ~>
    (num_hard_fails # 0 \/ \A h \in Harts : pc[h] \in {"halt", "hung"})

\* Unless a test hangs, tohost is written.
TohostIsWritten == <>(tohost # "none" \/ \E h \in Harts : pc[h] = "hung")

-----------------------------------------------------------------------------
(* The inductive invariant behind these properties                         *)

\* The barrier that comes after the one of the given call site.
After(site) == IF site = "execute" THEN "dispatch" ELSE "execute"

\* The call site of the barrier that has not yet let hart h through.
NextSite(h) ==
  IF pc[h] \in BarrierLabels
    THEN IF Released(h) THEN After(ra[h]) ELSE ra[h]
    ELSE IF pc[h] = "init" THEN "init"
    ELSE IF pc[h] \in {"execute", "hung", "load_num_runs"} THEN "dispatch"
    ELSE "execute"

Running == Harts \ Gone

\* All harts are on the way to the same barrier: they move on together.
RoundInv == \A g, h \in Running : NextSite(g) = NextSite(h)

\* The test that a hart runs after the next barrier of scheduler__execute_test.
Target(h) ==
  IF ra[h] = "init" THEN Setup ELSE IF ra[h] = "execute" THEN test[h] ELSE s10[h]

BeforeStore(h) == ra[h] = "dispatch" /\ pc[h] # "load_test_addr"

\* Between the barriers the copies of num_runs agree with each other, and with
\* num_runs itself but for the one step that hart 0 has still to store.
DataInv ==
  /\ \A h \in Harts : pc[h] \in {"store_num_runs", "load_test_addr"} => ra[h] = "dispatch"
  /\ \A h \in Running :
       /\ NextSite(h) = "init" => num_runs = Setup
       /\ NextSite(h) = "dispatch" =>
            /\ test[h] = num_runs
            /\ pc[h] \in BarrierLabels /\ ra[h] = "dispatch" => s10[h] = num_runs - 1
  /\ \A g, h \in Running : NextSite(g) = "execute" => Target(g) = Target(h)
  /\ Hart0 \in Running /\ NextSite(Hart0) = "execute" =>
       Target(Hart0) = IF BeforeStore(Hart0) THEN num_runs - 1 ELSE num_runs

\* Why the first hart left: a failure it is about to report, the request of a
\* test, or the end of the sequence.
EndInv ==
  /\ Gone # {} /\ ~soft_end /\ num_runs # 0 => \E h \in Gone : gp[h] # "pass"
  /\ \A h \in Gone : pc[h] # "end_test" /\ gp[h] # "pass" => num_hard_fails # 0

\* What every step preserves.
SchedulerInv == TypeOK /\ EotInv /\ BarrierInv /\ RoundInv /\ DataInv /\ EndInv
=============================================================================
