--------------------------- MODULE BarrierRoutine ---------------------------
(***************************************************************************)
(* Routines.place_barrier and place_acquire_lock (lib/routines.py), as     *)
(* instantiated by os_barrier_amo: a reusable barrier with an arrive and a *)
(* depart counter, a flag to spin on, and a lock with a bounded number of  *)
(* tries.  A hart enters at EnterBarrier and comes out at the label        *)
(* "complete"; it leaves for the end of the test when another hart has     *)
(* ended or its tries are used up.                                         *)
(***************************************************************************)
EXTENDS Eot

CONSTANT
  MaxTries      \* bound: tries for the lock (MAX_OS_BARRIER_TRIES)

ASSUME BarrierAssumption == MaxTries \in Nat \ {0}

VARIABLES
  barrier_lock,             \* shared lock word
  barrier_arrive_counter,   \* shared
  barrier_depart_counter,   \* shared
  barrier_flag,             \* shared: what the early arrivers spin on
  lk,                       \* which of the three acquisitions a hart is in
  t0,                       \* register: try counter and swap value
  s1                        \* register: arrivals including this one

barrierVars == <<barrier_lock, barrier_arrive_counter, barrier_depart_counter,
                 barrier_flag, lk, t0, s1>>

\* Labels at which a hart owns barrier_lock.
LockedLabels == {"arrive_test", "depart_test", "release_0", "clear_flag", "arrive",
                 "release_1", "depart", "release_2"}

BarrierLabels == LockedLabels \cup
  {"check_ended", "try_lock", "swap_lock", "depart_spin", "reset_arrive",
   "reset_depart", "set_flag", "flag_ended", "flag_spin", "complete"}

\* The start of place_acquire_lock number n.
Acquire(h, n) ==
  /\ lk' = [lk EXCEPT ![h] = n]
  /\ t0' = [t0 EXCEPT ![h] = MaxTries]
  /\ Goto(h, "check_ended")

\* call os_barrier_amo
EnterBarrier(h) ==
  /\ Acquire(h, 0)
  /\ UNCHANGED <<gp, eotRest, barrier_lock, barrier_arrive_counter,
                 barrier_depart_counter, barrier_flag, s1>>

-----------------------------------------------------------------------------
(* place_acquire_lock                                                      *)

CheckEnded(h) ==
  /\ pc[h] = "check_ended"
  /\ IF num_harts_ended # 0
       THEN OsEndTest(h) /\ t0' = [t0 EXCEPT ![h] = 0]
       ELSE /\ t0' = [t0 EXCEPT ![h] = @ - 1]
            /\ IF t0[h] - 1 <= 0
                 THEN TestFailed(h)
                 ELSE Goto(h, "try_lock") /\ UNCHANGED gp
  /\ UNCHANGED <<eotRest, barrier_lock, barrier_arrive_counter,
                 barrier_depart_counter, barrier_flag, lk, s1>>

TryLock(h) ==
  /\ pc[h] = "try_lock"
  /\ Goto(h, IF barrier_lock # 0 THEN "check_ended" ELSE "swap_lock")
  /\ UNCHANGED <<gp, eotRest, barrierVars>>

\* Where a hart goes on with the lock in its hands.
AfterAcquire == <<"arrive_test", "clear_flag", "depart">>

\* The swap writes the try counter even when the lock is held.
SwapLock(h) ==
  /\ pc[h] = "swap_lock"
  /\ barrier_lock' = t0[h]
  /\ IF barrier_lock # 0
       THEN Goto(h, "check_ended") /\ UNCHANGED t0
       ELSE Goto(h, AfterAcquire[lk[h] + 1]) /\ t0' = [t0 EXCEPT ![h] = 0]
  /\ UNCHANGED <<gp, eotRest, barrier_arrive_counter, barrier_depart_counter,
                 barrier_flag, lk, s1>>

-----------------------------------------------------------------------------
(* place_barrier: arriving                                                 *)

ArriveTest(h) ==
  /\ pc[h] = "arrive_test"
  /\ Goto(h, IF barrier_arrive_counter # 0 THEN "arrive" ELSE "depart_test")
  /\ UNCHANGED <<gp, eotRest, barrierVars>>

\* Mutant: the first to arrive does not wait for the harts still departing.
DepartTestDropped(h) ==
  /\ pc[h] = "depart_test"
  /\ Goto(h, "clear_flag")
  /\ UNCHANGED <<gp, eotRest, barrierVars>>

\* The first to arrive waits until everybody has left the previous barrier.
DepartTest(h) ==
  /\ pc[h] = "depart_test"
  /\ Goto(h, IF barrier_depart_counter # NumHarts THEN "release_0" ELSE "clear_flag")
  /\ UNCHANGED <<gp, eotRest, barrierVars>>

Release0(h) ==
  /\ pc[h] = "release_0"
  /\ barrier_lock' = 0
  /\ Goto(h, "depart_spin")
  /\ UNCHANGED <<gp, eotRest, barrier_arrive_counter, barrier_depart_counter,
                 barrier_flag, lk, t0, s1>>

\* wait_while_depart_count_not_num_harts: no timeout, and num_harts_ended is
\* not looked at.
DepartSpin(h) ==
  /\ pc[h] = "depart_spin"
  /\ IF barrier_depart_counter = NumHarts
       THEN Acquire(h, 1)
       ELSE UNCHANGED <<pc, lk, t0>>
  /\ UNCHANGED <<gp, eotRest, barrier_lock, barrier_arrive_counter,
                 barrier_depart_counter, barrier_flag, s1>>

ClearFlag(h) ==
  /\ pc[h] = "clear_flag"
  /\ barrier_flag' = 0
  /\ Goto(h, "arrive")
  /\ UNCHANGED <<gp, eotRest, barrier_lock, barrier_arrive_counter,
                 barrier_depart_counter, lk, t0, s1>>

Arrive(h) ==
  /\ pc[h] = "arrive"
  /\ barrier_arrive_counter' = barrier_arrive_counter + 1
  /\ s1' = [s1 EXCEPT ![h] = barrier_arrive_counter + 1]
  /\ Goto(h, "release_1")
  /\ UNCHANGED <<gp, eotRest, barrier_lock, barrier_depart_counter, barrier_flag,
                 lk, t0>>

IsLast(h) == s1[h] = NumHarts

Release1(h) ==
  /\ pc[h] = "release_1"
  /\ barrier_lock' = 0
  /\ s1' = [s1 EXCEPT ![h] = 0]
  /\ Goto(h, IF IsLast(h) THEN "reset_arrive" ELSE "flag_ended")
  /\ UNCHANGED <<gp, eotRest, barrier_arrive_counter, barrier_depart_counter,
                 barrier_flag, lk, t0>>

-----------------------------------------------------------------------------
(* The last to arrive resets the counters and opens the barrier            *)

\* Mutant: missing reset.
ResetArriveDropped(h) ==
  /\ pc[h] = "reset_arrive"
  /\ Goto(h, "reset_depart")
  /\ UNCHANGED <<gp, eotRest, barrierVars>>

ResetArrive(h) ==
  /\ pc[h] = "reset_arrive"
  /\ barrier_arrive_counter' = 0
  /\ Goto(h, "reset_depart")
  /\ UNCHANGED <<gp, eotRest, barrier_lock, barrier_depart_counter, barrier_flag,
                 lk, t0, s1>>

\* Mutant: the last arriver, which does not pass through lock 2, is not counted.
ResetDepartToZero(h) ==
  /\ pc[h] = "reset_depart"
  /\ barrier_depart_counter' = 0
  /\ Goto(h, "set_flag")
  /\ UNCHANGED <<gp, eotRest, barrier_lock, barrier_arrive_counter, barrier_flag,
                 lk, t0, s1>>

ResetDepart(h) ==
  /\ pc[h] = "reset_depart"
  /\ barrier_depart_counter' = 1
  /\ Goto(h, "set_flag")
  /\ UNCHANGED <<gp, eotRest, barrier_lock, barrier_arrive_counter, barrier_flag,
                 lk, t0, s1>>

SetFlag(h) ==
  /\ pc[h] = "set_flag"
  /\ barrier_flag' = 1
  /\ Goto(h, "complete")
  /\ UNCHANGED <<gp, eotRest, barrier_lock, barrier_arrive_counter,
                 barrier_depart_counter, lk, t0, s1>>

-----------------------------------------------------------------------------
(* The others spin on the flag and count themselves out                    *)

\* Mutant: the spin does not look at num_harts_ended.
FlagEndedDropped(h) ==
  /\ pc[h] = "flag_ended"
  /\ Goto(h, "flag_spin")
  /\ UNCHANGED <<gp, eotRest, barrierVars>>

\* A hart that sees another one ended sets gp to 0x80000000 and calls
\* os_end_test, which sets gp to 1.
FlagEnded(h) ==
  /\ pc[h] = "flag_ended"
  /\ IF num_harts_ended # 0
       THEN OsEndTest(h)
       ELSE Goto(h, "flag_spin") /\ UNCHANGED gp
  /\ UNCHANGED <<eotRest, barrierVars>>

FlagSpin(h) ==
  /\ pc[h] = "flag_spin"
  /\ IF barrier_flag # 0
       THEN Acquire(h, 2)
       ELSE Goto(h, "flag_ended") /\ UNCHANGED <<lk, t0>>
  /\ UNCHANGED <<gp, eotRest, barrier_lock, barrier_arrive_counter,
                 barrier_depart_counter, barrier_flag, s1>>

Depart(h) ==
  /\ pc[h] = "depart"
  /\ barrier_depart_counter' = barrier_depart_counter + 1
  /\ Goto(h, "release_2")
  /\ UNCHANGED <<gp, eotRest, barrier_lock, barrier_arrive_counter, barrier_flag,
                 lk, t0, s1>>

Release2(h) ==
  /\ pc[h] = "release_2"
  /\ barrier_lock' = 0
  /\ Goto(h, "complete")
  /\ UNCHANGED <<gp, eotRest, barrier_arrive_counter, barrier_depart_counter,
                 barrier_flag, lk, t0, s1>>

BarrierStep(h) ==
  \/ CheckEnded(h) \/ TryLock(h) \/ SwapLock(h)
  \/ ArriveTest(h) \/ DepartTest(h) \/ Release0(h) \/ DepartSpin(h)
  \/ ClearFlag(h) \/ Arrive(h) \/ Release1(h)
  \/ ResetArrive(h) \/ ResetDepart(h) \/ SetFlag(h)
  \/ FlagEnded(h) \/ FlagSpin(h) \/ Depart(h) \/ Release2(h)

BarrierInit ==
  /\ barrier_lock = 0
  /\ barrier_arrive_counter = 0
  /\ barrier_depart_counter = NumHarts
  /\ barrier_flag = 0
  /\ lk = [h \in Harts |-> 0]
  /\ t0 = [h \in Harts |-> 0]
  /\ s1 = [h \in Harts |-> 0]

-----------------------------------------------------------------------------
(* Properties, checked in the module that composes the barrier with a      *)
(* scheduler.                                                              *)

BarrierTypeOK ==
  /\ barrier_lock \in Nat
  /\ barrier_arrive_counter \in 0 .. NumHarts
  /\ barrier_depart_counter \in 0 .. NumHarts
  /\ barrier_flag \in {0, 1}
  /\ lk \in [Harts -> 0 .. 2]
  /\ t0 \in [Harts -> Nat]
  /\ s1 \in [Harts -> 0 .. NumHarts]

\* The refinement mapping onto Barrier: a hart waits from its arrival until the
\* last arriver sets the flag; it is gone once it heads for eot__end_test.
Waiting ==
  {h \in Harts : \/ pc[h] \in {"release_1", "reset_arrive", "reset_depart", "set_flag"}
                 \/ pc[h] \in {"flag_ended", "flag_spin"} /\ barrier_flag = 0}

AbstractBarrier == INSTANCE Barrier WITH waiting <- Waiting, gone <- Gone

\* Two counters, a flag and a lock implement the atomic barrier: nobody
\* proceeds before everybody has arrived, all proceed together, and an early
\* hart that is back for the next round is not let through by the flag of the
\* last one.
ImplementsBarrier == AbstractBarrier!Spec

-----------------------------------------------------------------------------
(* The inductive invariant behind ImplementsBarrier                        *)

Acquiring == {"check_ended", "try_lock", "swap_lock"}
Spinning  == {"flag_ended", "flag_spin"}
Resetting == {"reset_depart", "set_flag"}

\* barrier_lock has at most one owner and is 0 exactly when it has none: the
\* try counter that is swapped in, even by a hart that loses, is positive.
LockInv ==
  /\ \A g, h \in Harts : pc[g] \in LockedLabels /\ pc[h] \in LockedLabels => g = h
  /\ (barrier_lock # 0) <=> (\E h \in Harts : pc[h] \in LockedLabels)
  /\ \A h \in Harts : pc[h] \in Acquiring => t0[h] > 0

\* Harts that the barrier let through and that still have to count themselves
\* out.
Departing ==
  {h \in Harts : \/ pc[h] \in Spinning /\ barrier_flag = 1
                 \/ pc[h] \in Acquiring /\ lk[h] = 2
                 \/ pc[h] = "depart"}

\* A hart that the barrier let through, and that is not back for the next round.
Released(h) == pc[h] \in {"release_2", "complete"} \/ h \in Departing

\* Harts that barrier_arrive_counter counts, and those it has still to count
\* before the barrier can open: all of them, once it has been reset.
Arrived ==
  {h \in Harts : \/ pc[h] \in {"release_1", "reset_arrive"}
                 \/ pc[h] \in Spinning /\ barrier_flag = 0}
Todo ==
  IF \E h \in Harts : pc[h] \in Resetting THEN Harts ELSE Harts \ (Gone \cup Arrived)

\* The counter and the harts it still waits for add up to the number of harts,
\* and never do so again once a hart has left: the barrier stays shut.
ArriveInv ==
  LET sum == barrier_arrive_counter + Cardinality(Todo)
  IN  IF Gone = {} THEN sum = NumHarts ELSE sum < NumHarts

\* Nobody is on the way out when the first to arrive clears the flag.
DepartInv ==
  /\ barrier_depart_counter + Cardinality(Departing) <= NumHarts
  /\ \A h \in Harts : pc[h] = "clear_flag" \/ (pc[h] \in Acquiring /\ lk[h] = 1)
                        => barrier_depart_counter = NumHarts

\* The flag is down from the first arrival until the last arriver raises it.
FlagInv ==
  /\ barrier_arrive_counter # 0 => barrier_flag = 0
  /\ \A h \in Harts :
       /\ pc[h] \in {"arrive", "release_1", "reset_arrive"} \cup Resetting
            => barrier_flag = 0
       /\ pc[h] = "release_1" => s1[h] = barrier_arrive_counter

\* The hart that opens the barrier finds all the others spinning.
Opens(h) ==
  \/ pc[h] \in {"reset_arrive"} \cup Resetting
  \/ pc[h] = "release_1" /\ IsLast(h)

OpenInv ==
  \A h \in Harts : Opens(h) =>
    /\ \A g \in Harts \ {h} : pc[g] \in Spinning
    /\ pc[h] \in {"release_1", "reset_arrive"} => barrier_arrive_counter = NumHarts
    /\ pc[h] \in Resetting => barrier_arrive_counter = 0
    /\ pc[h] = "set_flag" => barrier_depart_counter = 1

\* What every step of the barrier, and of what surrounds it, preserves.
BarrierInv ==
  BarrierTypeOK /\ LockInv /\ ArriveInv /\ DepartInv /\ FlagInv /\ OpenInv
=============================================================================
