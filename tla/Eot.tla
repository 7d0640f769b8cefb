-------------------------------- MODULE Eot --------------------------------
(***************************************************************************)
(* The end-of-test protocol that runtime/eot.py generates for a multi-hart *)
(* test, and the routines of runtime/opsys.py that enter it.               *)
(*                                                                         *)
(* A hart leaves the scheduler or the test with a verdict in gp and jumps  *)
(* to eot__end_test.  It counts itself in two shared counters, and the     *)
(* hart that wins tohost_mutex waits for the others and writes tohost,     *)
(* which ends the simulation.  Every action makes at most one access to    *)
(* shared memory, so the harts interleave as their instructions do.        *)
(***************************************************************************)
EXTENDS Naturals, Integers, FiniteSets

CONSTANTS
  Harts,        \* the harts of the test, featmgr.num_cpus of them
  EotTimeout    \* bound: polls of the winner before it gives up (5_000_000)

ASSUME EotAssumption ==
  /\ Harts # {}
  /\ IsFiniteSet(Harts)
  /\ EotTimeout \in Nat

VARIABLES
  pc,               \* label each hart is about to execute
  gp,               \* register gp: the verdict a hart carries into eot
  num_harts_ended,  \* shared counter
  num_hard_fails,   \* shared counter
  tohost_mutex,     \* shared mutex, never released
  t4,               \* register t4: polls left to the winner of the mutex
  tohost            \* the word the simulator watches

\* What a hart leaves alone outside eot.
eotRest == <<num_harts_ended, num_hard_fails, tohost_mutex, t4, tohost>>
eotVars == <<pc, gp, eotRest>>

NumHarts == Cardinality(Harts)

\* The values of gp the runtime tells apart: 1, 3, 0 and 0x80000000.
GpValues == {"pass", "fail", "panic", "bailed"}

EotLabels == {"end_test", "mark_done", "tohost_try_lock", "tohost_swap",
              "wait_for_others", "wait_ended", "passed", "failed", "halt"}

\* Labels after the race for tohost_mutex has been won.
WinnerLabels == {"wait_for_others", "wait_ended", "passed", "failed"}

Goto(h, label) == pc' = [pc EXCEPT ![h] = label]

-----------------------------------------------------------------------------
(* opsys.py: the ways into the end of the test                             *)

\* test_failed: gp = 3.
TestFailed(h) ==
  /\ gp' = [gp EXCEPT ![h] = "fail"]
  /\ Goto(h, "end_test")

\* os_end_test: gp = 1, whatever gp held before.
OsEndTest(h) ==
  /\ gp' = [gp EXCEPT ![h] = "pass"]
  /\ Goto(h, "end_test")

-----------------------------------------------------------------------------
(* eot.py: _mp_end_test, passed, failed                                    *)

\* eot__end_test: a gp other than 1 is a hard fail, counted with an amoadd.
EndTest(h) ==
  /\ pc[h] = "end_test"
  /\ num_hard_fails' = IF gp[h] = "pass" THEN num_hard_fails ELSE num_hard_fails + 1
  /\ Goto(h, "mark_done")
  /\ UNCHANGED <<gp, num_harts_ended, tohost_mutex, t4, tohost>>

MarkDone(h) ==
  /\ pc[h] = "mark_done"
  /\ num_harts_ended' = num_harts_ended + 1
  /\ Goto(h, IF gp[h] = "bailed" THEN "halt" ELSE "tohost_try_lock")
  /\ UNCHANGED <<gp, num_hard_fails, tohost_mutex, t4, tohost>>

\* The plain load before the swap.
TohostTryLock(h) ==
  /\ pc[h] = "tohost_try_lock"
  /\ Goto(h, IF tohost_mutex # 0 THEN "halt" ELSE "tohost_swap")
  /\ UNCHANGED <<gp, num_harts_ended, num_hard_fails, tohost_mutex, t4, tohost>>

\* Mutant: the old value is not looked at.
TohostSwapBlind(h) ==
  /\ pc[h] = "tohost_swap"
  /\ tohost_mutex' = 1
  /\ Goto(h, "wait_for_others")
  /\ t4' = [t4 EXCEPT ![h] = EotTimeout]
  /\ UNCHANGED <<gp, num_harts_ended, num_hard_fails, tohost>>

\* The amoswap: it writes 1 whether it wins or not.
TohostSwap(h) ==
  /\ pc[h] = "tohost_swap"
  /\ tohost_mutex' = 1
  /\ IF tohost_mutex # 0
       THEN Goto(h, "halt") /\ UNCHANGED t4
       ELSE Goto(h, "wait_for_others") /\ t4' = [t4 EXCEPT ![h] = EotTimeout]
  /\ UNCHANGED <<gp, num_harts_ended, num_hard_fails, tohost>>

\* Mutant: one hard fail is not enough.
SeesTwoHardFails == num_hard_fails > 1

SeesHardFail == num_hard_fails # 0

\* First half of a poll: the timeout, then the load of num_hard_fails.
WaitForOthers(h) ==
  /\ pc[h] = "wait_for_others"
  /\ IF t4[h] < 0
       THEN Goto(h, "failed") /\ UNCHANGED t4
       ELSE /\ t4' = [t4 EXCEPT ![h] = @ - 1]
            /\ Goto(h, IF SeesHardFail THEN "failed" ELSE "wait_ended")
  /\ UNCHANGED <<gp, num_harts_ended, num_hard_fails, tohost_mutex, tohost>>

\* Mutant: off by one.
AllButOneEnded == num_harts_ended >= NumHarts - 1

AllEnded == num_harts_ended = NumHarts

\* Second half of a poll: the load of num_harts_ended.
WaitEnded(h) ==
  /\ pc[h] = "wait_ended"
  /\ Goto(h, IF AllEnded THEN "passed" ELSE "wait_for_others")
  /\ UNCHANGED <<gp, num_harts_ended, num_hard_fails, tohost_mutex, t4, tohost>>

Passed(h) ==
  /\ pc[h] = "passed"
  /\ tohost' = "pass"
  /\ Goto(h, "halt")
  /\ UNCHANGED <<gp, num_harts_ended, num_hard_fails, tohost_mutex, t4>>

Failed(h) ==
  /\ pc[h] = "failed"
  /\ tohost' = "fail"
  /\ Goto(h, "halt")
  /\ UNCHANGED <<gp, num_harts_ended, num_hard_fails, tohost_mutex, t4>>

EotStep(h) ==
  \/ EndTest(h)
  \/ MarkDone(h)
  \/ TohostTryLock(h)
  \/ TohostSwap(h)
  \/ WaitForOthers(h)
  \/ WaitEnded(h)
  \/ Passed(h)
  \/ Failed(h)

EotInit ==
  /\ gp = [h \in Harts |-> "panic"]
  /\ num_harts_ended = 0
  /\ num_hard_fails = 0
  /\ tohost_mutex = 0
  /\ t4 = [h \in Harts |-> 0]
  /\ tohost = "none"

-----------------------------------------------------------------------------
(* Properties, checked in the modules that compose a scheduler with eot.   *)

\* Types of the end-of-test state; Labels are those of the whole program.
EotTypeOK(Labels) ==
  /\ pc \in [Harts -> Labels]
  /\ gp \in [Harts -> GpValues]
  /\ num_harts_ended \in Nat
  /\ num_hard_fails \in Nat
  /\ tohost_mutex \in {0, 1}
  /\ t4 \in [Harts -> Int]
  /\ tohost \in {"none", "pass", "fail"}

\* eot.py: "Only one hart will write to tohost."  At most one hart is ever
\* past the mutex, nobody is before the mutex has been taken, and once
\* tohost is written nobody is left who could write it again.
OneTohostWriter ==
  /\ \A g, h \in Harts : pc[g] \in WinnerLabels /\ pc[h] \in WinnerLabels => g = h
  /\ (\E h \in Harts : pc[h] \in WinnerLabels) => tohost_mutex = 1
  /\ tohost # "none" =>
       /\ tohost_mutex = 1
       /\ \A h \in Harts : pc[h] \notin WinnerLabels

\* A written verdict is final.
VerdictIsFinal == [][tohost = "none"]_tohost

\* A pass is only written when every hart has reached the end of the test.
PassMeansAllEnded ==
  tohost = "pass" =>
    \A h \in Harts : pc[h] \in {"tohost_try_lock", "tohost_swap", "halt"}

\* Harts that have counted themselves in num_harts_ended.
EndedLabels == WinnerLabels \cup {"tohost_try_lock", "tohost_swap", "halt"}
Ended == {h \in Harts : pc[h] \in EndedLabels}

\* Harts that have left the scheduler for the end of the test.
Gone == {h \in Harts : pc[h] \in EotLabels}

\* The inductive invariant behind the properties above: the counter is the
\* number of harts that have ended, and a hart only gets to eot__passed, or
\* past it, when all have.
EotInv ==
  /\ OneTohostWriter
  /\ num_harts_ended = Cardinality(Ended)
  /\ (tohost = "pass" \/ \E h \in Harts : pc[h] = "passed") => Ended = Harts

\* eot.py: "Write immediately if there was a hard fail".  What one may read
\* into that comment: no test is reported as passed when a hart hard-failed.
PassMeansNoHardFail == tohost = "pass" => num_hard_fails = 0

\* What the polling loop does guarantee: a hard fail that is counted while no
\* hart is between the two loads of its last poll always ends in a fail.
HardFailIsReported ==
  (/\ num_hard_fails # 0
   /\ tohost = "none"
   /\ \A h \in Harts : pc[h] \notin {"wait_ended", "passed"})
     ~> tohost = "fail"
=============================================================================
