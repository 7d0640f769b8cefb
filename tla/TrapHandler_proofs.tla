------------------------- MODULE TrapHandler_proofs -------------------------
(***************************************************************************)
(* Proofs, for any number of tests, addresses, causes and expectations,    *)
(* that the runtime finds its hart variables, that a test is resumed with  *)
(* its registers in place, that no interrupt meets a panic routine, and    *)
(* that an expectation is used once.                                       *)
(***************************************************************************)
EXTENDS TrapHandler, TLAPS

\* No interrupts in a machine-mode test with paging (they break
\* TranslatedAsSupervisor).
NoPagedInterrupts == \A c \in Configs : c.irq => ~c.paging

Words == {"check", "mode", "cause", "skip_pc", "pc", "tval", "return_pc", "re_execute"}

ExpInv == DOMAIN exp = Words /\ exp.return_pc \in Int

Statuses == [MIE : BOOLEAN, MPIE : BOOLEAN, MPP : {"M", "S", "U"}, MPRV : BOOLEAN,
             SPP : {"M", "S", "U"}]

\* The part of TypeOK that TrapInv refers to.
Shape ==
  /\ conf \in Configs
  /\ mode \in {"M", "S", "U"}
  /\ tp \in Pointers
  /\ scratch \in [Handlers -> Pointers]
  /\ tvec \in [Handlers -> {"trap_entry", "trap_entry_vectored", "trap_panic",
                            "scheduler__panic"}]
  /\ mstatus \in Statuses
  /\ mie \in BOOLEAN

\* The rest of it.  The count passes its limit only on the way to the end.
DataInv ==
  /\ epc \in [Handlers -> Int]
  /\ os_save_ecall_fn_epc \in Int
  /\ pending \in BOOLEAN
  /\ gp \in {0, 1, 3}
  /\ num_runs \in 0 .. NumTests + 1
  /\ excp_ignored_count \in 0 .. MaxIgnored + 1
  /\ excp_ignored_count > MaxIgnored =>
       \/ pc \in {"ecall_end", "os_end_test", "end_test", "print_failed", "halt"}
       \/ pc = "syscall_table" /\ x31 = "end"
  /\ tohost \in {"none", "pass", "fail"}
  /\ armed \subseteq {"setup", "skip"}

\* A pass is asked for, or comes after the last run.
PassInv ==
  /\ pc \in {"ecall_end", "os_end_test"} => soft_end
  /\ pc = "syscall_table" /\ x31 = "end" => soft_end
  /\ pc \in {"end_test", "print_failed", "halt"} /\ gp = 1 => soft_end \/ num_runs = 0
  /\ tohost = "pass" => pc = "halt" /\ (soft_end \/ num_runs = 0)

-----------------------------------------------------------------------------

\* What a configuration is.
LEMMA ConfFact ==
  conf \in Configs => /\ conf.priv \in {"M", "S", "U"}
                      /\ conf.paging \in BOOLEAN
                      /\ conf.irq \in BOOLEAN
                      /\ conf.irq => conf.priv = "M"
BY TrapAssumption

\* A handler of the test returns to a point of the program.
LEMMA WordsFact == \A words \in Expectations : words.return_pc \in Int
<1> SUFFICES ASSUME NEW words \in Expectations PROVE words.return_pc \in Int
  OBVIOUS
<1>1. words.return_pc \in Points
  BY TrapAssumption
<1>2. Points \subseteq Int
  <2>1. Points \subseteq Nat \ {0}
    BY TrapAssumption
  <2> QED
    BY <2>1
<1> QED
  BY <1>1, <1>2

\* Leaving the handler keeps epc the addresses it was.
LEMMA ForgetKeepsEpc ==
  ASSUME NEW x, ForgetTrap(x), epc \in [Handlers -> Int]
  PROVE  epc' \in [Handlers -> Int]
<1>1. epc' = [epc EXCEPT ![x] = 0]
  BY DEF ForgetTrap
<1>2. DOMAIN epc' = Handlers /\ epc' = [y \in Handlers |-> IF y = x THEN 0 ELSE epc[y]]
  BY <1>1
<1>3. \A y \in Handlers : epc'[y] \in Int
  BY <1>2
<1> QED
  BY <1>2, <1>3

\* The counts and addresses at reset.
LEMMA InitData == Init => DataInv
<1> SUFFICES ASSUME Init PROVE DataInv
  OBVIOUS
<1>1. NumTests \in Nat /\ MaxIgnored \in Nat
  BY TrapAssumption
<1>2. 0 \in 0 .. NumTests + 1 /\ 0 \in 0 .. MaxIgnored + 1 /\ ~(0 > MaxIgnored)
  BY <1>1
<1>3. epc \in [Handlers -> Int] /\ os_save_ecall_fn_epc \in Int
  BY DEF Init
<1>4. pending \in BOOLEAN /\ gp \in {0, 1, 3} /\ tohost \in {"none", "pass", "fail"}
  BY DEF Init
<1>5. armed \subseteq {"setup", "skip"} /\ num_runs = 0 /\ excp_ignored_count = 0
  BY DEF Init
<1> QED
  BY <1>2, <1>3, <1>4, <1>5 DEF DataInv

\* Initially everything is in place.
LEMMA InitInv == Init => ExpInv /\ Shape /\ DataInv /\ TrapInv /\ PassInv /\ SingleUse
<1> SUFFICES ASSUME Init PROVE ExpInv /\ Shape /\ DataInv /\ TrapInv /\ PassInv /\ SingleUse
  OBVIOUS
<1> USE TrapAssumption DEF Init, Handlers, Pointers
<1>1. ExpInv /\ SingleUse
  BY DEF ExpInv, SingleUse, Words
<1>2. Shape
  BY DEF Shape, Statuses
<1>3. DataInv
  BY InitData
<1>4. PassInv
  BY DEF PassInv
<1>5. TrapInv
  BY DEF TrapInv, ContextInv, StatusInv, InMachineContext, Intact,
     SupervisorIntact, Entries, MachinePaging
<1> QED
  BY <1>1, <1>2, <1>3, <1>4, <1>5

ChangesExp ==
  \/ \E words \in Expectations : SetupCheckExcp(words)
  \/ \E at \in Points : SkipCheckExcp(at)
  \/ AcceptUnchecked
  \/ \E tval \in {1, 2} : CheckExcp(tval)
  \/ ReturnToHost

\* Five actions touch the words of the expectation.
LEMMA ExpFrame == [Next]_vars => ChangesExp \/ UNCHANGED <<exp, armed>>
<1> SUFFICES ASSUME [Next]_vars, ~ChangesExp PROVE UNCHANGED <<exp, armed>>
  OBVIOUS
<1> USE DEF history
<1>1. ASSUME TestStep PROVE UNCHANGED <<exp, armed>>
  BY <1>1 DEF TestStep, ChangesExp, Exception, Ecall, JumpToRuntime, EnableInterrupt,
     SetVectored, SetMie, RaiseInterrupt
<1>2. ASSUME RuntimeStep PROVE UNCHANGED <<exp, armed>>
  BY <1>2 DEF RuntimeStep, ChangesExp, CountIgnored, EcallFromHandler, TrapExit,
     SysLeave, SysSwitch, SysTest, SysPte, SysPteFails, SysHartContext, SysOther,
     RetFromOsFnMPaging, TestPassed, LeaveTest, SchedulerInit, Dispatch, Schedule,
     Execute, Jump, EndTest, PrintFailed
<1>3. ASSUME TakeInterrupt PROVE UNCHANGED <<exp, armed>>
  BY <1>3 DEF TakeInterrupt
<1>4. ASSUME UNCHANGED vars PROVE UNCHANGED <<exp, armed>>
  BY <1>4 DEF vars
<1> QED
  BY <1>1, <1>2, <1>3, <1>4 DEF Next, Terminated

\* The words keep their shape, and each is cleared with its use.
LEMMA ExpStep == ExpInv /\ SingleUse /\ [Next]_vars => ExpInv' /\ SingleUse'
<1> SUFFICES ASSUME ExpInv, SingleUse, [Next]_vars PROVE ExpInv' /\ SingleUse'
  OBVIOUS
<1> USE TrapAssumption DEF ExpInv, SingleUse, Words
<1>1. ASSUME NEW words \in Expectations, SetupCheckExcp(words) PROVE ExpInv' /\ SingleUse'
  BY WordsFact, <1>1 DEF SetupCheckExcp
<1>2. ASSUME NEW at \in Points, SkipCheckExcp(at) PROVE ExpInv' /\ SingleUse'
  BY <1>2 DEF SkipCheckExcp
<1>3. ASSUME AcceptUnchecked PROVE ExpInv' /\ SingleUse'
  BY <1>3 DEF AcceptUnchecked
<1>4. ASSUME NEW tval \in {1, 2}, CheckExcp(tval) PROVE ExpInv' /\ SingleUse'
  BY <1>4 DEF CheckExcp, Examined, CauseMatches, ModeMatches, PcSkipped, PcCompared,
     PcMatches, TvalMatches
<1>5. ASSUME ReturnToHost PROVE ExpInv' /\ SingleUse'
  BY <1>5 DEF ReturnToHost, history
<1>6. ASSUME UNCHANGED <<exp, armed>> PROVE ExpInv' /\ SingleUse'
  BY <1>6
<1> QED
  BY <1>1, <1>2, <1>3, <1>4, <1>5, <1>6, ExpFrame DEF ChangesExp

\* Every step keeps the shape of the registers.
LEMMA ShapeStep == Shape /\ TrapInv /\ [Next]_vars => Shape'
<1> SUFFICES ASSUME Shape, TrapInv, [Next]_vars PROVE Shape'
  OBVIOUS
<1> USE TrapAssumption, ConfFact DEF Shape, Statuses, Pointers, Handlers,
   Entries, TrapInv, ContextInv, StatusInv, InMachineContext, Intact,
   SupervisorIntact, trapVars, irqVars, schedVars, history
<1>1. ASSUME NEW code \in Causes, NEW at \in Points, Exception(code, at) PROVE Shape'
  BY <1>1 DEF Exception, EnterTrap, HandlerOf, SwapContext, SetTvec
<1>2. ASSUME NEW fn \in SysCallNumbers, NEW at \in Points, Ecall(fn, at) PROVE Shape'
  BY <1>2 DEF Ecall, EnterTrap, EcallCode, SwapContext, SetTvec
<1>3. ASSUME NEW words \in Expectations, SetupCheckExcp(words) PROVE Shape'
  BY <1>3 DEF SetupCheckExcp
<1>4. ASSUME NEW at \in Points, SkipCheckExcp(at) PROVE Shape'
  BY <1>4 DEF SkipCheckExcp
<1>5. ASSUME NEW label \in {"test_passed", "test_failed", "os_end_test"},
               JumpToRuntime(label) PROVE Shape'
  BY <1>5 DEF JumpToRuntime
<1>6. ASSUME EnableInterrupt PROVE Shape'
  BY <1>6 DEF EnableInterrupt
<1>7. ASSUME NEW label \in Entries, SetVectored(label) PROVE Shape'
  BY <1>7 DEF SetVectored, SetTvec
<1>8. ASSUME NEW on \in BOOLEAN, SetMie(on) PROVE Shape'
  BY <1>8 DEF SetMie
<1>9. ASSUME RaiseInterrupt PROVE Shape'
  BY <1>9 DEF RaiseInterrupt
<1>10. ASSUME AcceptUnchecked PROVE Shape'
  BY <1>10 DEF AcceptUnchecked
<1>11. ASSUME NEW tval \in {1, 2}, CheckExcp(tval) PROVE Shape'
  BY <1>11 DEF CheckExcp
<1>12. ASSUME ReturnToHost PROVE Shape'
  BY <1>12 DEF ReturnToHost
<1>13. ASSUME CountIgnored PROVE Shape'
  BY <1>13 DEF CountIgnored
<1>14. ASSUME EcallFromHandler PROVE Shape'
  BY <1>14 DEF EcallFromHandler, EnterTrap, HandlerSysCall, SwapContext,
     SetTvec
<1>15. ASSUME TrapExit PROVE Shape'
  <2>1. mode \in Handlers => /\ AfterMret(mstatus) \in Statuses
                           /\ AfterManualMret(mstatus) \in Statuses
    BY DEF AfterMret, AfterManualMret
  <2>2. mstatus' \in Statuses /\ mode' \in {"M", "S", "U"}
    BY <2>1, <1>15 DEF TrapExit
  <2> QED
    BY <2>2, <1>15 DEF TrapExit, RestoreTrapHandler, SetTvec, SwapContext
<1>16. ASSUME NEW fn, NEW label,
               <<fn, label>> \in {<<"schedule", "dispatch">>, <<"fail", "test_failed">>,
                                 <<"end", "os_end_test">>},
               SysLeave(fn, label) PROVE Shape'
  BY <1>16 DEF SysLeave, SysCall, InSysCall, RestoreTrapHandler, SetTvec,
     ForgetTrap
<1>17. ASSUME NEW fn, NEW to \in {"M", "S", "U"}, fn \notin {"fail", "end"},
               SysSwitch(fn, to) PROVE Shape'
  BY ZenonT(60), <1>17 DEF SysSwitch, SysCall, InSysCall, RetFromOsFn
<1>18. ASSUME SysTest PROVE Shape'
  <2>1. [InSysCall EXCEPT !.MPP = conf.priv] \in Statuses
    BY DEF InSysCall
  <2>2. AfterMret([InSysCall EXCEPT !.MPP = conf.priv]) \in Statuses
    BY <2>1 DEF AfterMret
  <2> QED
    BY <2>1, <2>2, <1>18 DEF SysTest, ReturnFromSysCall, RetFromOsFn
<1>19. ASSUME SysPte PROVE Shape'
  <2>1. [InSysCall EXCEPT !.MPP = conf.priv] \in Statuses
    BY DEF InSysCall
  <2>2. AfterMret([InSysCall EXCEPT !.MPP = conf.priv]) \in Statuses
    BY <2>1 DEF AfterMret
  <2> QED
    BY <2>1, <2>2, <1>19 DEF SysPte, ReturnFromSysCall, RetFromOsFn
<1>20. ASSUME SysPteFails PROVE Shape'
  BY <1>20 DEF SysPteFails, SysCall, InSysCall
<1>21. ASSUME SysHartContext PROVE Shape'
  BY ZenonT(60), <1>21 DEF SysHartContext, SysCall, InSysCall,
     ReturnFromSysCall, RetFromOsFn, AfterMret
<1>22. ASSUME SysOther PROVE Shape'
  BY <1>22 DEF SysOther, SysCall, InSysCall
<1>23. ASSUME RetFromOsFnMPaging PROVE Shape'
  BY <1>23 DEF RetFromOsFnMPaging, RestoreTrapHandler, SetTvec, SwapContext,
     ForgetTrap
<1>24. ASSUME TestPassed PROVE Shape'
  BY <1>24 DEF TestPassed, ClearMprv, SwapContext
<1>25. ASSUME NEW label, NEW verdict,
               <<label, verdict>> \in {<<"test_failed", 3>>, <<"os_end_test", 1>>},
               LeaveTest(label, verdict) PROVE Shape'
  BY <1>25 DEF LeaveTest, ClearMprv, SwapContext
<1>26. ASSUME SchedulerInit PROVE Shape'
  BY <1>26 DEF SchedulerInit, SetTvec
<1>27. ASSUME Dispatch PROVE Shape'
  BY <1>27 DEF Dispatch, InterruptsOff, SetTvec
<1>28. ASSUME Schedule PROVE Shape'
  BY <1>28 DEF Schedule
<1>29. ASSUME Execute PROVE Shape'
  <2>1. CASE conf.priv = "M"
    <3>1. mstatus' \in Statuses
      BY ZenonT(60), <2>1, <1>29 DEF Execute
    <3> QED
      BY <2>1, <3>1, <1>29 DEF Execute, SetTvec
  <2>2. CASE conf.priv # "M"
    <3>1. mstatus' \in Statuses
      BY ZenonT(60), <2>2, <1>29 DEF Execute
    <3>2. mode' = conf.priv
      BY <2>2, <1>29 DEF Execute
    <3> QED
      BY <2>2, <3>1, <3>2, <1>29 DEF Execute, SetTvec
  <2> QED
    BY <2>1, <2>2
<1>30. ASSUME Jump PROVE Shape'
  BY <1>30 DEF Jump
<1>31. ASSUME EndTest PROVE Shape'
  BY <1>31 DEF EndTest
<1>32. ASSUME PrintFailed PROVE Shape'
  BY <1>32 DEF PrintFailed
<1>33. ASSUME TakeInterrupt PROVE Shape'
  BY ZenonT(60), <1>33 DEF TakeInterrupt, Interruptible
<1>34. ASSUME UNCHANGED vars PROVE Shape'
  BY <1>34 DEF vars
<1> QED
  BY <1>1, <1>2, <1>3, <1>4, <1>5, <1>6, <1>7, <1>8, <1>9, <1>10, <1>11,
     <1>12, <1>13, <1>14, <1>15, <1>16, <1>17, <1>18, <1>19, <1>20, <1>21,
     <1>22, <1>23, <1>24, <1>25, <1>26, <1>27, <1>28, <1>29, <1>30, <1>31,
     <1>32, <1>33, <1>34 DEF Next, TestStep, RuntimeStep, Terminated

\* Every step keeps the hart context where the next label expects it.
LEMMA TrapStep == NoPagedInterrupts /\ Shape /\ TrapInv /\ [Next]_vars => TrapInv'
<1> SUFFICES ASSUME NoPagedInterrupts, Shape, TrapInv, [Next]_vars PROVE TrapInv'
  OBVIOUS
<1> USE TrapAssumption, ConfFact DEF Shape, Statuses, Pointers, Handlers,
   Entries, TrapInv, ContextInv, StatusInv, InMachineContext, Intact,
   SupervisorIntact, MachinePaging, NoPagedInterrupts, trapVars, irqVars,
   schedVars, history
<1>1. ASSUME NEW code \in Causes, NEW at \in Points, Exception(code, at) PROVE TrapInv'
  BY <1>1 DEF Exception, EnterTrap, HandlerOf, SwapContext, SetTvec
<1>2. ASSUME NEW fn \in SysCallNumbers, NEW at \in Points, Ecall(fn, at) PROVE TrapInv'
  BY <1>2 DEF Ecall, EnterTrap, EcallCode, SwapContext, SetTvec
<1>3. ASSUME NEW words \in Expectations, SetupCheckExcp(words) PROVE TrapInv'
  BY <1>3 DEF SetupCheckExcp
<1>4. ASSUME NEW at \in Points, SkipCheckExcp(at) PROVE TrapInv'
  BY <1>4 DEF SkipCheckExcp
<1>5. ASSUME NEW label \in {"test_passed", "test_failed", "os_end_test"},
               JumpToRuntime(label) PROVE TrapInv'
  BY <1>5 DEF JumpToRuntime
<1>6. ASSUME EnableInterrupt PROVE TrapInv'
  BY <1>6 DEF EnableInterrupt
<1>7. ASSUME NEW label \in Entries, SetVectored(label) PROVE TrapInv'
  BY <1>7 DEF SetVectored, SetTvec
<1>8. ASSUME NEW on \in BOOLEAN, SetMie(on) PROVE TrapInv'
  BY <1>8 DEF SetMie
<1>9. ASSUME RaiseInterrupt PROVE TrapInv'
  BY <1>9 DEF RaiseInterrupt
<1>10. ASSUME AcceptUnchecked PROVE TrapInv'
  BY <1>10 DEF AcceptUnchecked
<1>11. ASSUME NEW tval \in {1, 2}, CheckExcp(tval) PROVE TrapInv'
  BY <1>11 DEF CheckExcp
<1>12. ASSUME ReturnToHost PROVE TrapInv'
  BY <1>12 DEF ReturnToHost
<1>13. ASSUME CountIgnored PROVE TrapInv'
  BY <1>13 DEF CountIgnored
<1>14. ASSUME EcallFromHandler PROVE TrapInv'
  BY <1>14 DEF EcallFromHandler, EnterTrap, HandlerSysCall, SwapContext,
     SetTvec
<1>15. ASSUME TrapExit PROVE TrapInv'
  <2>1. CASE mode = "S"
    BY ZenonT(60), <2>1, <1>15 DEF TrapExit, RestoreTrapHandler, SetTvec, SwapContext, ForgetTrap
  <2>2. CASE mode # "S"
    BY ZenonT(60), <2>2, <1>15 DEF TrapExit, RestoreTrapHandler, SetTvec, SwapContext, ForgetTrap,
       AfterMret, AfterManualMret
  <2> QED
    BY <2>1, <2>2
<1>16. ASSUME NEW fn, NEW label,
               <<fn, label>> \in {<<"schedule", "dispatch">>, <<"fail", "test_failed">>,
                                 <<"end", "os_end_test">>},
               SysLeave(fn, label) PROVE TrapInv'
  BY <1>16 DEF SysLeave, SysCall, InSysCall, RestoreTrapHandler, SetTvec,
     ForgetTrap
<1>17. ASSUME NEW fn, NEW to \in {"M", "S", "U"}, fn \notin {"fail", "end"},
               SysSwitch(fn, to) PROVE TrapInv'
  BY ZenonT(60), <1>17 DEF SysSwitch, SysCall, InSysCall, RetFromOsFn
<1>18. ASSUME SysTest PROVE TrapInv'
  <2>1. CASE MachinePaging
    BY ZenonT(60), <2>1, <1>18
    DEF SysTest, SysCall, InSysCall, ReturnFromSysCall, RetFromOsFn, AfterMret
  <2>2. CASE ~MachinePaging
    BY ZenonT(60), <2>2, <1>18
    DEF SysTest, SysCall, InSysCall, ReturnFromSysCall, RetFromOsFn, AfterMret
  <2> QED
    BY <2>1, <2>2
<1>19. ASSUME SysPte PROVE TrapInv'
  <2>1. CASE MachinePaging
    BY ZenonT(60), <2>1, <1>19
    DEF SysPte, SysCall, InSysCall, ReturnFromSysCall, RetFromOsFn, AfterMret
  <2>2. CASE ~MachinePaging
    BY ZenonT(60), <2>2, <1>19
    DEF SysPte, SysCall, InSysCall, ReturnFromSysCall, RetFromOsFn, AfterMret
  <2> QED
    BY <2>1, <2>2
<1>20. ASSUME SysPteFails PROVE TrapInv'
  BY <1>20 DEF SysPteFails, SysCall, InSysCall
<1>21. ASSUME SysHartContext PROVE TrapInv'
  <2>1. CASE MachinePaging
    BY ZenonT(60), <2>1, <1>21
    DEF SysHartContext, SysCall, InSysCall, ReturnFromSysCall, RetFromOsFn,
       AfterMret
  <2>2. CASE ~MachinePaging
    BY ZenonT(60), <2>2, <1>21
    DEF SysHartContext, SysCall, InSysCall, ReturnFromSysCall, RetFromOsFn,
       AfterMret
  <2> QED
    BY <2>1, <2>2
<1>22. ASSUME SysOther PROVE TrapInv'
  BY <1>22 DEF SysOther, SysCall, InSysCall
<1>23. ASSUME RetFromOsFnMPaging PROVE TrapInv'
  BY <1>23 DEF RetFromOsFnMPaging, RestoreTrapHandler, SetTvec, SwapContext,
     ForgetTrap
<1>24. ASSUME TestPassed PROVE TrapInv'
  BY <1>24 DEF TestPassed, ClearMprv, SwapContext
<1>25. ASSUME NEW label, NEW verdict,
               <<label, verdict>> \in {<<"test_failed", 3>>, <<"os_end_test", 1>>},
               LeaveTest(label, verdict) PROVE TrapInv'
  BY <1>25 DEF LeaveTest, ClearMprv, SwapContext
<1>26. ASSUME SchedulerInit PROVE TrapInv'
  BY <1>26 DEF SchedulerInit, SetTvec
<1>27. ASSUME Dispatch PROVE TrapInv'
  BY <1>27 DEF Dispatch, InterruptsOff, SetTvec
<1>28. ASSUME Schedule PROVE TrapInv'
  BY <1>28 DEF Schedule
<1>29. ASSUME Execute PROVE TrapInv'
  BY ZenonT(60), <1>29 DEF Execute, SetTvec
<1>30. ASSUME Jump PROVE TrapInv'
  BY <1>30 DEF Jump
<1>31. ASSUME EndTest PROVE TrapInv'
  BY <1>31 DEF EndTest
<1>32. ASSUME PrintFailed PROVE TrapInv'
  BY <1>32 DEF PrintFailed
<1>33. ASSUME TakeInterrupt PROVE TrapInv'
  BY ZenonT(60), <1>33 DEF TakeInterrupt, Interruptible
<1>34. ASSUME UNCHANGED vars PROVE TrapInv'
  BY <1>34 DEF vars
<1> HIDE DEF TrapInv
<1> QED
  BY <1>1, <1>2, <1>3, <1>4, <1>5, <1>6, <1>7, <1>8, <1>9, <1>10, <1>11,
     <1>12, <1>13, <1>14, <1>15, <1>16, <1>17, <1>18, <1>19, <1>20, <1>21,
     <1>22, <1>23, <1>24, <1>25, <1>26, <1>27, <1>28, <1>29, <1>30, <1>31,
     <1>32, <1>33, <1>34 DEF Next, TestStep, RuntimeStep, Terminated

\* Every step keeps the other types; the count of ignored exceptions is bounded.
LEMMA DataStep == ExpInv /\ DataInv /\ [Next]_vars => DataInv'
<1> SUFFICES ASSUME ExpInv, DataInv, [Next]_vars PROVE DataInv'
  OBVIOUS
<1> USE TrapAssumption DEF DataInv, ExpInv, Handlers, trapVars, irqVars,
   schedVars, history
<1>1. ASSUME NEW code \in Causes, NEW at \in Points, Exception(code, at) PROVE DataInv'
  <2>1. at \in Int
    OBVIOUS
  <2>2. epc' \in [Handlers -> Int]
    BY <2>1, <1>1 DEF Exception, EnterTrap
  <2> QED
    BY <2>2, <1>1 DEF Exception
<1>2. ASSUME NEW fn \in SysCallNumbers, NEW at \in Points, Ecall(fn, at) PROVE DataInv'
  BY <1>2 DEF Ecall, EnterTrap
<1>3. ASSUME NEW words \in Expectations, SetupCheckExcp(words) PROVE DataInv'
  BY <1>3 DEF SetupCheckExcp
<1>4. ASSUME NEW at \in Points, SkipCheckExcp(at) PROVE DataInv'
  BY <1>4 DEF SkipCheckExcp
<1>5. ASSUME NEW label \in {"test_passed", "test_failed", "os_end_test"},
               JumpToRuntime(label) PROVE DataInv'
  BY <1>5 DEF JumpToRuntime
<1>6. ASSUME EnableInterrupt PROVE DataInv'
  BY <1>6 DEF EnableInterrupt
<1>7. ASSUME NEW label \in Entries, SetVectored(label) PROVE DataInv'
  BY <1>7 DEF SetVectored
<1>8. ASSUME NEW on \in BOOLEAN, SetMie(on) PROVE DataInv'
  BY <1>8 DEF SetMie
<1>9. ASSUME RaiseInterrupt PROVE DataInv'
  BY <1>9 DEF RaiseInterrupt
<1>10. ASSUME AcceptUnchecked PROVE DataInv'
  BY <1>10 DEF AcceptUnchecked
<1>11. ASSUME NEW tval \in {1, 2}, CheckExcp(tval) PROVE DataInv'
  BY <1>11 DEF CheckExcp
<1>12. ASSUME ReturnToHost PROVE DataInv'
  BY <1>12 DEF ReturnToHost
<1>13. ASSUME CountIgnored PROVE DataInv'
  <2>1. \A at \in Int : Following(at) \in Int
    BY DEF Following
  <2>2. epc' \in [Handlers -> Int]
    BY <2>1, <1>13 DEF CountIgnored
  <2> QED
    BY <2>2, <1>13 DEF CountIgnored, TooManyIgnored
<1>14. ASSUME EcallFromHandler PROVE DataInv'
  BY <1>14 DEF EcallFromHandler, EnterTrap, HandlerSysCall, Page
<1>15. ASSUME TrapExit PROVE DataInv'
  <2>1. epc' \in [Handlers -> Int]
    BY ForgetKeepsEpc, <1>15 DEF TrapExit
  <2> QED
    BY <2>1, <1>15 DEF TrapExit
<1>16. ASSUME NEW fn, NEW label,
               <<fn, label>> \in {<<"schedule", "dispatch">>, <<"fail", "test_failed">>,
                                 <<"end", "os_end_test">>},
               SysLeave(fn, label) PROVE DataInv'
  BY <1>16 DEF SysLeave, SysCall, ForgetTrap
<1>17. ASSUME NEW fn, NEW to \in {"M", "S", "U"}, fn \notin {"fail", "end"},
               SysSwitch(fn, to) PROVE DataInv'
  BY <1>17 DEF SysSwitch, SysCall, RetFromOsFn, Following, Page
<1>18. ASSUME SysTest PROVE DataInv'
  BY <1>18 DEF SysTest, SysCall, ReturnFromSysCall, RetFromOsFn, Following
<1>19. ASSUME SysPte PROVE DataInv'
  BY <1>19 DEF SysPte, SysCall, ReturnFromSysCall, RetFromOsFn, Following
<1>20. ASSUME SysPteFails PROVE DataInv'
  BY <1>20 DEF SysPteFails, SysCall
<1>21. ASSUME SysHartContext PROVE DataInv'
  BY <1>21 DEF SysHartContext, SysCall, ReturnFromSysCall, RetFromOsFn,
     Following
<1>22. ASSUME SysOther PROVE DataInv'
  BY <1>22 DEF SysOther, SysCall
<1>23. ASSUME RetFromOsFnMPaging PROVE DataInv'
  BY <1>23 DEF RetFromOsFnMPaging, ForgetTrap
<1>24. ASSUME TestPassed PROVE DataInv'
  BY <1>24 DEF TestPassed
<1>25. ASSUME NEW label, NEW verdict,
               <<label, verdict>> \in {<<"test_failed", 3>>, <<"os_end_test", 1>>},
               LeaveTest(label, verdict) PROVE DataInv'
  BY <1>25 DEF LeaveTest
<1>26. ASSUME SchedulerInit PROVE DataInv'
  BY <1>26 DEF SchedulerInit
<1>27. ASSUME Dispatch PROVE DataInv'
  BY <1>27 DEF Dispatch
<1>28. ASSUME Schedule PROVE DataInv'
  BY <1>28 DEF Schedule, NoRunsLeft
<1>29. ASSUME Execute PROVE DataInv'
  BY <1>29 DEF Execute
<1>30. ASSUME Jump PROVE DataInv'
  BY <1>30 DEF Jump
<1>31. ASSUME EndTest PROVE DataInv'
  BY <1>31 DEF EndTest
<1>32. ASSUME PrintFailed PROVE DataInv'
  BY <1>32 DEF PrintFailed
<1>33. ASSUME TakeInterrupt PROVE DataInv'
  BY <1>33 DEF TakeInterrupt, Interruptible
<1>34. ASSUME UNCHANGED vars PROVE DataInv'
  BY <1>34 DEF vars
<1> QED
  BY <1>1, <1>2, <1>3, <1>4, <1>5, <1>6, <1>7, <1>8, <1>9, <1>10, <1>11,
     <1>12, <1>13, <1>14, <1>15, <1>16, <1>17, <1>18, <1>19, <1>20, <1>21,
     <1>22, <1>23, <1>24, <1>25, <1>26, <1>27, <1>28, <1>29, <1>30, <1>31,
     <1>32, <1>33, <1>34 DEF Next, TestStep, RuntimeStep, Terminated

\* Every step keeps the reason for a pass.
LEMMA PassStep == PassInv /\ [Next]_vars => PassInv'
<1> SUFFICES ASSUME PassInv, [Next]_vars PROVE PassInv'
  OBVIOUS
<1> USE DEF PassInv, trapVars, irqVars, schedVars, history
<1>1. ASSUME NEW code \in Causes, NEW at \in Points, Exception(code, at) PROVE PassInv'
  BY <1>1 DEF Exception
<1>2. ASSUME NEW fn \in SysCallNumbers, NEW at \in Points, Ecall(fn, at) PROVE PassInv'
  BY <1>2 DEF Ecall
<1>3. ASSUME NEW words \in Expectations, SetupCheckExcp(words) PROVE PassInv'
  BY <1>3 DEF SetupCheckExcp
<1>4. ASSUME NEW at \in Points, SkipCheckExcp(at) PROVE PassInv'
  BY <1>4 DEF SkipCheckExcp
<1>5. ASSUME NEW label \in {"test_passed", "test_failed", "os_end_test"},
               JumpToRuntime(label) PROVE PassInv'
  BY <1>5 DEF JumpToRuntime
<1>6. ASSUME EnableInterrupt PROVE PassInv'
  BY <1>6 DEF EnableInterrupt
<1>7. ASSUME NEW label \in Entries, SetVectored(label) PROVE PassInv'
  BY <1>7 DEF SetVectored
<1>8. ASSUME NEW on \in BOOLEAN, SetMie(on) PROVE PassInv'
  BY <1>8 DEF SetMie
<1>9. ASSUME RaiseInterrupt PROVE PassInv'
  BY <1>9 DEF RaiseInterrupt
<1>10. ASSUME AcceptUnchecked PROVE PassInv'
  BY <1>10 DEF AcceptUnchecked
<1>11. ASSUME NEW tval \in {1, 2}, CheckExcp(tval) PROVE PassInv'
  BY <1>11 DEF CheckExcp
<1>12. ASSUME ReturnToHost PROVE PassInv'
  BY <1>12 DEF ReturnToHost
<1>13. ASSUME CountIgnored PROVE PassInv'
  BY <1>13 DEF CountIgnored, TooManyIgnored
<1>14. ASSUME EcallFromHandler PROVE PassInv'
  BY <1>14 DEF EcallFromHandler, HandlerSysCall
<1>15. ASSUME TrapExit PROVE PassInv'
  BY <1>15 DEF TrapExit
<1>16. ASSUME NEW fn, NEW label,
               <<fn, label>> \in {<<"schedule", "dispatch">>, <<"fail", "test_failed">>,
                                 <<"end", "os_end_test">>},
               SysLeave(fn, label) PROVE PassInv'
  BY <1>16 DEF SysLeave, SysCall
<1>17. ASSUME NEW fn, NEW to \in {"M", "S", "U"}, fn \notin {"fail", "end"},
               SysSwitch(fn, to) PROVE PassInv'
  BY <1>17 DEF SysSwitch, SysCall, RetFromOsFn
<1>18. ASSUME SysTest PROVE PassInv'
  BY <1>18 DEF SysTest, SysCall, ReturnFromSysCall, RetFromOsFn
<1>19. ASSUME SysPte PROVE PassInv'
  BY <1>19 DEF SysPte, SysCall, ReturnFromSysCall, RetFromOsFn
<1>20. ASSUME SysPteFails PROVE PassInv'
  BY <1>20 DEF SysPteFails, SysCall
<1>21. ASSUME SysHartContext PROVE PassInv'
  BY <1>21 DEF SysHartContext, SysCall, ReturnFromSysCall, RetFromOsFn
<1>22. ASSUME SysOther PROVE PassInv'
  BY <1>22 DEF SysOther, SysCall
<1>23. ASSUME RetFromOsFnMPaging PROVE PassInv'
  BY <1>23 DEF RetFromOsFnMPaging
<1>24. ASSUME TestPassed PROVE PassInv'
  BY <1>24 DEF TestPassed
<1>25. ASSUME NEW label, NEW verdict,
               <<label, verdict>> \in {<<"test_failed", 3>>, <<"os_end_test", 1>>},
               LeaveTest(label, verdict) PROVE PassInv'
  BY <1>25 DEF LeaveTest
<1>26. ASSUME SchedulerInit PROVE PassInv'
  BY <1>26 DEF SchedulerInit
<1>27. ASSUME Dispatch PROVE PassInv'
  BY <1>27 DEF Dispatch
<1>28. ASSUME Schedule PROVE PassInv'
  BY <1>28 DEF Schedule, NoRunsLeft
<1>29. ASSUME Execute PROVE PassInv'
  BY <1>29 DEF Execute
<1>30. ASSUME Jump PROVE PassInv'
  BY <1>30 DEF Jump
<1>31. ASSUME EndTest PROVE PassInv'
  BY <1>31 DEF EndTest
<1>32. ASSUME PrintFailed PROVE PassInv'
  BY <1>32 DEF PrintFailed
<1>33. ASSUME TakeInterrupt PROVE PassInv'
  <2>1. CASE tvec["M"] \in Entries
    BY <2>1, <1>33 DEF TakeInterrupt
  <2>2. CASE tvec["M"] \notin Entries
    BY <2>2, <1>33 DEF TakeInterrupt
  <2> QED
    BY <2>1, <2>2
<1>34. ASSUME UNCHANGED vars PROVE PassInv'
  BY <1>34 DEF vars
<1> QED
  BY <1>1, <1>2, <1>3, <1>4, <1>5, <1>6, <1>7, <1>8, <1>9, <1>10, <1>11,
     <1>12, <1>13, <1>14, <1>15, <1>16, <1>17, <1>18, <1>19, <1>20, <1>21,
     <1>22, <1>23, <1>24, <1>25, <1>26, <1>27, <1>28, <1>29, <1>30, <1>31,
     <1>32, <1>33, <1>34 DEF Next, TestStep, RuntimeStep, Terminated

-----------------------------------------------------------------------------

\* An expectation armed with OS_SETUP_CHECK_EXCP or OS_SKIP_CHECK_EXCP lets one
\* exception pass: a word that could accept another one is outstanding.
THEOREM ExpectationUsedOnce == Spec => []SingleUse
<1>1. Init => ExpInv /\ SingleUse
  BY InitInv
<1> QED
  BY <1>1, ExpStep, PTL DEF Spec

\* Whoever starts, resumes or ends a test does it with the hart context where the
\* next label expects it, unless interrupts meet machine-mode paging.
THEOREM TrapInvariant == NoPagedInterrupts => (Spec => [](Shape /\ TrapInv))
<1> SUFFICES ASSUME NoPagedInterrupts PROVE Spec => [](Shape /\ TrapInv)
  OBVIOUS
<1>1. Init => Shape /\ TrapInv
  BY InitInv
<1>2. Shape /\ TrapInv /\ [Next]_vars => Shape' /\ TrapInv'
  BY ShapeStep, TrapStep
<1> QED
  BY <1>1, <1>2, PTL DEF Spec

\* Every variable keeps its type; the count of ignored exceptions stops at its limit.
THEOREM TypeCorrect == NoPagedInterrupts => (Spec => []TypeOK)
<1> SUFFICES ASSUME NoPagedInterrupts PROVE Spec => []TypeOK
  OBVIOUS
<1>1. Init => ExpInv /\ SingleUse /\ DataInv
  BY InitInv
<1>2. ExpInv /\ SingleUse /\ DataInv /\ [Next]_vars => ExpInv' /\ SingleUse' /\ DataInv'
  BY ExpStep, DataStep
<1>3. Shape /\ DataInv => TypeOK
  BY DEF Shape, Statuses, DataInv, TypeOK
<1> QED
  BY <1>1, <1>2, <1>3, TrapInvariant, PTL DEF Spec

\* The handlers, the system calls and the scheduler find the hart context in tp,
\* through all nested swaps, at an address that their accesses can use.
THEOREM ContextFound == NoPagedInterrupts => (Spec => []RuntimeContext)
<1> SUFFICES ASSUME NoPagedInterrupts PROVE Spec => []RuntimeContext
  OBVIOUS
<1>1. TrapInv => RuntimeContext
  BY DEF TrapInv, ContextInv, InMachineContext, RuntimeContext, ContextUsable
<1> QED
  BY <1>1, TrapInvariant, PTL

\* A test runs with its trap vectors, its scratch registers and, in machine mode
\* with paging, its translation in place, however it was started or resumed.
THEOREM TestUndisturbed == NoPagedInterrupts => (Spec => []TestContext)
<1> SUFFICES ASSUME NoPagedInterrupts PROVE Spec => []TestContext
  OBVIOUS
<1>1. TrapInv => TestContext
  BY DEF TrapInv, ContextInv, Intact, SupervisorIntact, TestContext,
     TranslatedAsSupervisor
<1> QED
  BY <1>1, TrapInvariant, PTL

\* No interrupt is taken while mtvec is on a panic routine of the scheduler or of
\* the handlers.
THEOREM NeverInterrupted == NoPagedInterrupts => (Spec => []NoPanic)
<1> SUFFICES ASSUME NoPagedInterrupts PROVE Spec => []NoPanic
  OBVIOUS
<1>1. TrapInv => NoPanic
  BY DEF TrapInv, StatusInv, NoPanic, Interruptible
<1> QED
  BY <1>1, TrapInvariant, PTL

\* tohost gets a pass only after test_cleanup was dispatched, or when the end of
\* the test was asked for.
THEOREM PassIsEarned == Spec => []PassCoversPlan
<1>1. Init => PassInv
  BY InitInv
<1>2. PassInv => PassCoversPlan
  BY DEF PassInv, PassCoversPlan
<1> QED
  BY <1>1, <1>2, PassStep, PTL DEF Spec
=============================================================================
