---------------------------- MODULE TrapHandler ----------------------------
(***************************************************************************)
(* One hart of the runtime: trap_handler.py (machine and supervisor mode), *)
(* syscalls.py, the entry points of opsys.py, scheduler.py with the        *)
(* default scheduler, and the single-hart end of test.                     *)
(*                                                                         *)
(* A test runs in the privilege mode conf.priv.  It leaves its code by an  *)
(* exception, a system call, a jump into the runtime or an interrupt.  The *)
(* handlers and the scheduler find their variables through tp, which they  *)
(* swap with the scratch register of their mode, and keep tvec on a panic  *)
(* routine while they run.                                                 *)
(***************************************************************************)
EXTENDS Naturals, Integers

CONSTANTS
  Configs,     \* the configurations to consider: a set of records
  NumTests,    \* len(self.dtests_sequence)
  MaxIgnored,  \* bound: IGNORED_EXCP_MAX_COUNT
  Causes,      \* exception codes of a test, ECALLs excluded
  Points,      \* addresses in the code of a test, 1 and above
  Expectations \* the arguments the test gives to OS_SETUP_CHECK_EXCP

ASSUME TrapAssumption ==
  /\ Configs \subseteq [priv : {"M", "S", "U"},  \* featmgr.priv_mode
                        paging : BOOLEAN,        \* paging_mode # DISABLE
                        deleg : BOOLEAN,         \* medeleg: exceptions go to S
                        skip : BOOLEAN,          \* skip_instruction_for_unexpected
                        irq : BOOLEAN,           \* the test uses interrupts
                        rvcp : BOOLEAN]          \* print_rvcp_failed
  /\ \A c \in Configs : c.irq => c.priv = "M"
  /\ NumTests \in Nat
  /\ MaxIgnored \in Nat
  /\ Causes \subseteq 0 .. 7
  /\ Points \subseteq Nat \ {0}
  /\ Points # {}
  /\ Expectations \subseteq [mode : {0, 1, 3}, cause : 0 .. 15, skip_pc : {0, 1},
                             pc : Points, tval : Nat, return_pc : Points,
                             re_execute : {0, 1}]

VARIABLES
  conf,        \* the configuration, fixed
  pc,          \* label
  mode,        \* privilege mode of the hart
  tp,          \* register: "pa" and "va" are the hart context, "test" is not
  t1,          \* register: exception code, or the test to jump to
  gp,          \* register: the verdict
  x31,         \* register: the number of the system call
  scratch,     \* mscratch and sscratch
  tvec,        \* mtvec and stvec
  epc,         \* mepc and sepc
  mstatus,     \* the fields MIE, MPIE, MPP, MPRV and SPP
  mie,         \* the test has enabled an interrupt in mie
  pending,     \* that interrupt is pending
  exp,         \* hart variables check_excp*
  excp_ignored_count,
  os_save_ecall_fn_epc,
  saved_stvec, \* scheduler__saved_stvec
  num_runs,
  tohost,
  armed,       \* history: expectations set up and not yet used
  soft_end,    \* history: the end of the test was asked for
  failed       \* history: the test has failed

trapVars  == <<mode, epc, mstatus>>
irqVars   == <<mie, pending>>
schedVars == <<saved_stvec, num_runs>>
history   == <<armed, soft_end, failed>>
vars == <<conf, pc, tp, t1, gp, x31, scratch, tvec, exp, excp_ignored_count,
          os_save_ecall_fn_epc, tohost, trapVars, irqVars, schedVars, history>>

Handlers == {"M", "S"}
Setup == NumTests + 1        \* test_setup; 0 is test_cleanup
TrapEntryAddr == -1          \* what an interrupt leaves in t1
NoCause == 255               \* initial check_excp_expected_cause
MppMask == 6144              \* (1 << 12) | (1 << 11)
Page == 1000                 \* the page a privilege switch jumps to

\* A machine-mode test with paging: its data accesses are made with MPRV = 1.
MachinePaging == conf.priv = "M" /\ conf.paging

\* csrrw tp, scratch, tp: enter_hart_context and exit_hart_context.
SwapContext(x) ==
  /\ tp' = scratch[x]
  /\ scratch' = [scratch EXCEPT ![x] = tp]

\* Dead once the hart leaves the handler: the exception code and the address.
ForgetTrap(x) ==
  /\ t1' = 0
  /\ epc' = [epc EXCEPT ![x] = 0]

SetTvec(x, label) == tvec' = [tvec EXCEPT ![x] = label]

-----------------------------------------------------------------------------
(* Trap entry                                                              *)

\* The hardware takes a trap to mode x; default_trap_handler and save_context.
EnterTrap(x, code, at) ==
  /\ epc' = [epc EXCEPT ![x] = at]
  /\ mode' = x
  /\ mstatus' = IF x = "M"
                  THEN [mstatus EXCEPT !.MPP = mode, !.MPIE = mstatus.MIE, !.MIE = FALSE]
                  ELSE [mstatus EXCEPT !.SPP = mode]
  /\ t1' = code
  /\ SwapContext(x)
  /\ SetTvec(x, "trap_panic")

\* The mode that handles an exception of the running code (medeleg).
HandlerOf(m) == IF m = "M" \/ ~conf.deleg THEN "M" ELSE "S"

\* An exception other than an ECALL.
Exception(code, at) ==
  /\ pc = "test"
  /\ EnterTrap(HandlerOf(mode), code, at)
  /\ pc' = "check_exception"
  /\ UNCHANGED <<conf, gp, x31, exp, excp_ignored_count, os_save_ecall_fn_epc,
                 tohost, irqVars, schedVars, history>>

EcallCode(m) == CASE m = "U" -> 8 [] m = "S" -> 9 [] m = "M" -> 11

SysCallNumbers == {"schedule", "fail", "end", "to_M", "to_S", "to_U", "to_test",
                   "pte", "hart_context", "other"}

\* ECALLs are never delegated.
Ecall(fn, at) ==
  /\ pc = "test"
  /\ EnterTrap("M", EcallCode(mode), at)
  /\ x31' = fn
  /\ failed' = (failed \/ fn = "fail")
  /\ soft_end' = (soft_end \/ fn = "end")
  /\ pc' = "syscall_table"
  /\ UNCHANGED <<conf, gp, exp, excp_ignored_count, os_save_ecall_fn_epc,
                 tohost, irqVars, schedVars, armed>>

-----------------------------------------------------------------------------
(* The expected exception: macros OS_SETUP_CHECK_EXCP, OS_SKIP_CHECK_EXCP  *)

\* All words but check_excp.  The macro leaves the hart context in tp.
SetupCheckExcp(words) ==
  /\ pc = "test"
  /\ exp' = [w \in DOMAIN exp |-> IF w = "check" THEN exp.check ELSE words[w]]
  /\ tp' = "va"
  /\ armed' = armed \cup {"setup"}
  /\ UNCHANGED <<conf, pc, t1, gp, x31, scratch, tvec, excp_ignored_count,
                 os_save_ecall_fn_epc, tohost, trapVars, irqVars, schedVars,
                 soft_end, failed>>

SkipCheckExcp(return_pc) ==
  /\ pc = "test"
  /\ exp' = [exp EXCEPT !.check = 0, !.return_pc = return_pc]
  /\ tp' = "va"
  /\ armed' = armed \cup {"skip"}
  /\ UNCHANGED <<conf, pc, t1, gp, x31, scratch, tvec, excp_ignored_count,
                 os_save_ecall_fn_epc, tohost, trapVars, irqVars, schedVars,
                 soft_end, failed>>

-----------------------------------------------------------------------------
(* check_excp                                                              *)

\* CHECK_EXCP_MODE_MACHINE and CHECK_EXCP_MODE_VS.
ModeNumber == IF mode = "M" THEN 1 ELSE 3

ModeMatches  == exp.mode \in {0, ModeNumber}
CauseMatches == ModeMatches /\ exp.cause = t1
PcSkipped    == CauseMatches /\ exp.skip_pc # 0
PcCompared   == CauseMatches /\ exp.skip_pc = 0
PcMatches    == PcCompared /\ exp.pc = epc[mode]
TvalMatches(tval) == PcMatches /\ exp.tval \in {0, tval}

\* Mutant: check_excp_expected_cause is loaded and not cleared.
ExaminedKeepsCause ==
  {"mode"} \cup (IF CauseMatches THEN {"skip_pc"} ELSE {})
           \cup (IF PcCompared THEN {"pc"} ELSE {})
           \cup (IF PcMatches THEN {"tval"} ELSE {})

\* The words that load_and_clear consumes before the check is decided.
Examined ==
  {"mode"} \cup (IF ModeMatches THEN {"cause"} ELSE {})
           \cup (IF CauseMatches THEN {"skip_pc"} ELSE {})
           \cup (IF PcCompared THEN {"pc"} ELSE {})
           \cup (IF PcMatches THEN {"tval"} ELSE {})

\* OS_SKIP_CHECK_EXCP: any exception will do, once.
AcceptUnchecked ==
  /\ pc = "check_exception" /\ exp.check = 0
  /\ exp' = [exp EXCEPT !.check = 1]
  /\ armed' = armed \ {"skip"}
  /\ pc' = "return_to_host"
  /\ UNCHANGED <<conf, tp, t1, gp, x31, scratch, tvec, excp_ignored_count,
                 os_save_ecall_fn_epc, tohost, trapVars, irqVars, schedVars,
                 soft_end, failed>>

\* The words are compared one after the other and cleared on the way.
CheckExcp(tval) ==
  LET accepted == PcSkipped \/ TvalMatches(tval) IN
  /\ pc = "check_exception" /\ exp.check # 0
  /\ exp' = [w \in DOMAIN exp |-> IF w \in Examined THEN 0 ELSE exp[w]]
  /\ armed' = IF accepted THEN armed \ {"setup"} ELSE armed
  /\ failed' = (failed \/ (~accepted /\ ~conf.skip))
  /\ pc' = CASE accepted -> "return_to_host"
             [] ~accepted /\ conf.skip -> "count_ignored_excp"
             [] ~accepted /\ ~conf.skip -> IF mode = "M" THEN "test_failed" ELSE "ecall_fail"
  /\ UNCHANGED <<conf, tp, t1, gp, x31, scratch, tvec, excp_ignored_count,
                 os_save_ecall_fn_epc, tohost, trapVars, irqVars, schedVars,
                 soft_end>>

\* return_to_host: resume at the return address, or where the trap came from.
ReturnToHost ==
  /\ pc = "return_to_host"
  /\ epc' = [epc EXCEPT ![mode] = IF exp.re_execute # 0 THEN @ ELSE exp.return_pc]
  /\ exp' = [exp EXCEPT !.return_pc = 0, !.re_execute = 0]
  /\ pc' = "trap_exit"
  /\ UNCHANGED <<conf, mode, mstatus, tp, t1, gp, x31, scratch, tvec,
                 excp_ignored_count, os_save_ecall_fn_epc, tohost, irqVars,
                 schedVars, history>>

\* The next instruction; the last point stands for the rest of the test.
Following(at) == IF at + 1 \in Points THEN at + 1 ELSE at

\* Mutant: off by one.
TooManyIgnoredLate == excp_ignored_count > MaxIgnored

TooManyIgnored == excp_ignored_count >= MaxIgnored

\* Step over the instruction, until too many exceptions were ignored.
CountIgnored ==
  /\ pc = "count_ignored_excp"
  /\ epc' = [epc EXCEPT ![mode] = Following(@)]
  /\ excp_ignored_count' = excp_ignored_count + 1
  /\ IF TooManyIgnored
       THEN /\ soft_end' = TRUE
            /\ pc' = IF mode = "M" THEN "os_end_test" ELSE "ecall_end"
       ELSE pc' = "trap_exit" /\ UNCHANGED soft_end
  /\ UNCHANGED <<conf, mode, mstatus, tp, t1, gp, x31, scratch, tvec, exp,
                 os_save_ecall_fn_epc, tohost, irqVars, schedVars, armed, failed>>

\* Mutant: both ways out use the number of the end of the test.
HandlerSysCallEnds == "end"

HandlerSysCall == IF pc = "ecall_fail" THEN "fail" ELSE "end"

\* The supervisor's handler ends the test with a system call of its own.
EcallFromHandler ==
  /\ pc \in {"ecall_fail", "ecall_end"}
  /\ EnterTrap("M", EcallCode(mode), Page)
  /\ x31' = HandlerSysCall
  /\ pc' = "syscall_table"
  /\ UNCHANGED <<conf, gp, exp, excp_ignored_count, os_save_ecall_fn_epc,
                 tohost, irqVars, schedVars, history>>

-----------------------------------------------------------------------------
(* trap_exit                                                               *)

\* Mutant: tvec is not restored.
RestoreTrapHandlerDropped(x) == UNCHANGED tvec

RestoreTrapHandler(x) == SetTvec(x, "trap_entry")

\* mret; a return to a lower mode clears MPRV.
AfterMret(s) ==
  [s EXCEPT !.MIE = s.MPIE, !.MPIE = TRUE, !.MPP = "U", !.MPRV = @ /\ s.MPP = "M"]

\* Mutant: the emulated mret forgets to set MPP to S.
AfterManualMretKeepsMpp(s) == [s EXCEPT !.MIE = s.MPIE, !.MPIE = TRUE, !.MPRV = TRUE]

\* The emulated mret of a machine-mode test with paging.
AfterManualMret(s) ==
  [s EXCEPT !.MIE = s.MPIE, !.MPIE = TRUE, !.MPP = "S", !.MPRV = TRUE]

TrapExit ==
  /\ pc = "trap_exit"
  /\ RestoreTrapHandler(mode)
  /\ SwapContext(mode)
  /\ IF mode = "S"
       THEN /\ mode' = mstatus.SPP
            /\ mstatus' = [mstatus EXCEPT !.SPP = "U"]
       ELSE /\ mode' = mstatus.MPP
            /\ mstatus' = IF MachinePaging /\ mstatus.MPP = "M"
                            THEN AfterManualMret(mstatus) ELSE AfterMret(mstatus)
  /\ ForgetTrap(mode)
  /\ pc' = "test"
  /\ UNCHANGED <<conf, gp, x31, exp, excp_ignored_count, os_save_ecall_fn_epc,
                 tohost, irqVars, schedVars, history>>

-----------------------------------------------------------------------------
(* syscalls.py                                                             *)

\* mstatus after the prologue of syscall_table: with machine-mode paging, MPRV
\* is cleared and MPP is set to M.
InSysCall == IF MachinePaging THEN [mstatus EXCEPT !.MPRV = FALSE, !.MPP = "M"]
                              ELSE mstatus

SysCall(fn) == pc = "syscall_table" /\ x31 = fn

\* f0000001 to f0000003: back to the trap entry, then into opsys.py.  The hart
\* context stays in tp; enter_scheduler does not swap.
SysLeave(fn, label) ==
  /\ SysCall(fn)
  /\ mstatus' = InSysCall
  /\ RestoreTrapHandler("M")
  /\ ForgetTrap("M")
  /\ x31' = "none"
  /\ pc' = label
  /\ UNCHANGED <<conf, mode, tp, gp, scratch, exp, excp_ignored_count,
                 os_save_ecall_fn_epc, tohost, irqVars, schedVars, history>>

\* ret_from_os_fn: remember where the ECALL came from and resume at target.
RetFromOsFn(s, target) ==
  /\ mstatus' = s
  /\ os_save_ecall_fn_epc' = Following(epc["M"])
  /\ epc' = [epc EXCEPT !["M"] = target]
  /\ x31' = "none"
  /\ pc' = "trap_exit"
  /\ UNCHANGED mode

\* return_from_syscall: with machine-mode paging, an mret of its own to
\* ret_from_os_fn_m_paging, still in the hart context and with tvec on panic;
\* os_save_ecall_fn_epc is then what the call itself has made it, saved.
ReturnFromSysCall(s, target, saved) ==
  IF MachinePaging
    THEN /\ mode' = s.MPP
         /\ mstatus' = AfterMret(s)
         /\ x31' = "none"
         /\ pc' = "ret_from_os_fn_m_paging"
         /\ os_save_ecall_fn_epc' = saved
         /\ UNCHANGED epc
    ELSE RetFromOsFn(s, target)

\* f0001001 to f0001003, and the CSR pages of f0001005 and f0001006.  A switch
\* to the mode of the test leaves MPP alone.
SysSwitch(fn, to) ==
  /\ SysCall(fn)
  /\ RetFromOsFn(IF conf.priv = to THEN InSysCall ELSE [InSysCall EXCEPT !.MPP = to], Page)
  /\ UNCHANGED <<conf, tp, t1, gp, scratch, tvec, exp, excp_ignored_count, tohost,
                 irqVars, schedVars, history>>

\* f0001004: back to the code and the mode of the test.
SysTest ==
  /\ SysCall("to_test")
  /\ ReturnFromSysCall([InSysCall EXCEPT !.MPP = conf.priv],
                       os_save_ecall_fn_epc, os_save_ecall_fn_epc)
  /\ UNCHANGED <<conf, tp, t1, gp, scratch, tvec, exp, excp_ignored_count, tohost,
                 irqVars, schedVars, history>>

\* f0001007 and f0001008: walk the page tables, then continue as f0001004.
SysPte ==
  /\ SysCall("pte")
  /\ ReturnFromSysCall([InSysCall EXCEPT !.MPP = conf.priv],
                       Following(epc["M"]), Following(epc["M"]))
  /\ UNCHANGED <<conf, tp, t1, gp, scratch, tvec, exp, excp_ignored_count, tohost,
                 irqVars, schedVars, history>>

\* The walk meets an invalid entry.
SysPteFails ==
  /\ SysCall("pte")
  /\ mstatus' = InSysCall
  /\ failed' = TRUE
  /\ pc' = "test_failed"
  /\ UNCHANGED <<conf, mode, epc, tp, t1, gp, x31, scratch, tvec, exp,
                 excp_ignored_count, os_save_ecall_fn_epc, tohost, irqVars,
                 schedVars, armed, soft_end>>

\* f0002001: the hart context pointer in a0.
SysHartContext ==
  /\ SysCall("hart_context")
  /\ ReturnFromSysCall(InSysCall, Following(epc["M"]), os_save_ecall_fn_epc)
  /\ UNCHANGED <<conf, tp, t1, gp, scratch, tvec, exp, excp_ignored_count, tohost,
                 irqVars, schedVars, history>>

\* Not a system call: an exception like any other.  With machine-mode paging
\* the prologue has overwritten the code in t1.
SysOther ==
  /\ SysCall("other")
  /\ mstatus' = InSysCall
  /\ t1' = IF MachinePaging THEN MppMask ELSE t1
  /\ x31' = "none"
  /\ pc' = "check_exception"
  /\ UNCHANGED <<conf, mode, epc, tp, gp, scratch, tvec, exp, excp_ignored_count,
                 os_save_ecall_fn_epc, tohost, irqVars, schedVars, history>>

\* Turn MPRV and MPP back on, restore tvec and tp, and jump to the test.
RetFromOsFnMPaging ==
  /\ pc = "ret_from_os_fn_m_paging"
  /\ mstatus' = [mstatus EXCEPT !.MPRV = TRUE, !.MPP = "S"]
  /\ RestoreTrapHandler("M")
  /\ SwapContext("M")
  /\ ForgetTrap("M")
  /\ pc' = "test"
  /\ UNCHANGED <<conf, mode, gp, x31, exp, excp_ignored_count,
                 os_save_ecall_fn_epc, tohost, irqVars, schedVars, history>>

-----------------------------------------------------------------------------
(* opsys.py: a machine-mode test jumps into the runtime                    *)

JumpToRuntime(label) ==
  /\ pc = "test" /\ conf.priv = "M" /\ mode = "M"
  /\ pc' = label
  /\ failed' = (failed \/ label = "test_failed")
  /\ soft_end' = (soft_end \/ label = "os_end_test")
  /\ UNCHANGED <<conf, tp, t1, gp, x31, scratch, tvec, exp, excp_ignored_count,
                 os_save_ecall_fn_epc, tohost, trapVars, irqVars, schedVars, armed>>

ClearMprv == mstatus' = [mstatus EXCEPT !.MPRV = @ /\ ~MachinePaging]

\* Mutant: the hart context is not entered.
TestPassedNoSwap ==
  /\ pc = "test_passed"
  /\ ClearMprv
  /\ pc' = "dispatch"
  /\ UNCHANGED <<conf, mode, epc, tp, t1, gp, x31, scratch, tvec, exp,
                 excp_ignored_count, os_save_ecall_fn_epc, tohost, irqVars,
                 schedVars, history>>

TestPassed ==
  /\ pc = "test_passed"
  /\ ClearMprv
  /\ SwapContext("M")
  /\ pc' = "dispatch"
  /\ UNCHANGED <<conf, mode, epc, t1, gp, x31, tvec, exp, excp_ignored_count,
                 os_save_ecall_fn_epc, tohost, irqVars, schedVars, history>>

\* test_failed and os_end_test swap too, whoever jumps to them.
LeaveTest(label, verdict) ==
  /\ pc = label
  /\ ClearMprv
  /\ SwapContext("M")
  /\ gp' = verdict
  /\ pc' = "end_test"
  /\ UNCHANGED <<conf, mode, epc, t1, x31, tvec, exp, excp_ignored_count,
                 os_save_ecall_fn_epc, tohost, irqVars, schedVars, history>>

-----------------------------------------------------------------------------
(* scheduler.py with default.py                                            *)

SchedulerInit ==
  /\ pc = "init"
  /\ saved_stvec' = tvec["M"]
  /\ SetTvec("M", "scheduler__panic")
  /\ num_runs' = NumTests + 1
  /\ t1' = Setup
  /\ pc' = "execute"
  /\ UNCHANGED <<conf, tp, gp, x31, scratch, exp, excp_ignored_count,
                 os_save_ecall_fn_epc, tohost, trapVars, irqVars, history>>

\* Mutant: the interrupts stay on in the scheduler.
InterruptsStayOn == mstatus

\* A machine-mode test comes back with MIE on: it is moved to MPIE.
InterruptsOff ==
  IF conf.priv = "M" THEN [mstatus EXCEPT !.MIE = FALSE, !.MPIE = @ \/ mstatus.MIE]
                     ELSE mstatus

\* _dispatch_setup
Dispatch ==
  /\ pc = "dispatch"
  /\ mstatus' = InterruptsOff
  /\ saved_stvec' = tvec["M"]
  /\ SetTvec("M", "scheduler__panic")
  /\ pc' = "schedule"
  /\ UNCHANGED <<conf, mode, epc, tp, t1, gp, x31, scratch, exp, excp_ignored_count,
                 os_save_ecall_fn_epc, tohost, irqVars, num_runs, history>>

\* Mutant: the last word of os_test_sequence, test_cleanup, is not run.
NoRunsLeftEarly == num_runs <= 1

NoRunsLeft == num_runs = 0

\* scheduler__load_num_runs, or scheduler__finished.
Schedule ==
  /\ pc = "schedule"
  /\ IF NoRunsLeft
       THEN gp' = 1 /\ pc' = "end_test" /\ UNCHANGED <<num_runs, t1>>
       ELSE /\ num_runs' = num_runs - 1
            /\ t1' = num_runs - 1
            /\ pc' = "execute"
            /\ UNCHANGED gp
  /\ UNCHANGED <<conf, tp, x31, scratch, tvec, exp, excp_ignored_count,
                 os_save_ecall_fn_epc, tohost, trapVars, irqVars, saved_stvec, history>>

\* save_hart_context, and execute_test up to the jump: a machine-mode test gets
\* MIE back from MPIE, any other one is entered with sret.
Execute ==
  /\ pc = "execute"
  /\ SetTvec("M", saved_stvec)
  /\ scratch' = [scratch EXCEPT !["M"] = tp]
  /\ tp' = "test"
  /\ IF conf.priv = "M"
       THEN /\ mstatus' = [mstatus EXCEPT !.MIE = @ \/ mstatus.MPIE,
                                         !.MPRV = @ \/ conf.paging,
                                         !.MPP = IF conf.paging THEN "S" ELSE @]
            /\ pc' = "jump"
            /\ UNCHANGED <<mode, t1>>
       ELSE /\ mstatus' = [mstatus EXCEPT !.MPRV = FALSE, !.SPP = "U"]
            /\ mode' = conf.priv
            /\ t1' = 0
            /\ pc' = "test"
  /\ UNCHANGED <<conf, epc, gp, x31, exp, excp_ignored_count, os_save_ecall_fn_epc,
                 tohost, irqVars, schedVars, history>>

\* jr t1
Jump ==
  /\ pc = "jump"
  /\ pc' = IF t1 = TrapEntryAddr THEN "lost" ELSE "test"
  /\ t1' = 0
  /\ UNCHANGED <<conf, tp, gp, x31, scratch, tvec, exp, excp_ignored_count,
                 os_save_ecall_fn_epc, tohost, trapVars, irqVars, schedVars, history>>

-----------------------------------------------------------------------------
(* Interrupts, not delegated, of a machine-mode test                       *)

\* The test writes mie, mtvec (SET_VECTORED_INTERRUPTS and its opposite) or
\* mstatus.MIE.
EnableInterrupt ==
  /\ pc = "test" /\ conf.irq /\ mode = "M"
  /\ mie' = TRUE
  /\ UNCHANGED <<conf, pc, tp, t1, gp, x31, scratch, tvec, exp, excp_ignored_count,
                 os_save_ecall_fn_epc, tohost, trapVars, pending, schedVars, history>>

SetVectored(label) ==
  /\ pc = "test" /\ conf.irq /\ mode = "M"
  /\ SetTvec("M", label)
  /\ UNCHANGED <<conf, pc, tp, t1, gp, x31, scratch, exp, excp_ignored_count,
                 os_save_ecall_fn_epc, tohost, trapVars, irqVars, schedVars, history>>

SetMie(on) ==
  /\ pc = "test" /\ conf.irq /\ mode = "M"
  /\ mstatus' = [mstatus EXCEPT !.MIE = on]
  /\ UNCHANGED <<conf, pc, mode, epc, tp, t1, gp, x31, scratch, tvec, exp,
                 excp_ignored_count, os_save_ecall_fn_epc, tohost, irqVars,
                 schedVars, history>>

\* A device asks for attention, at any time.
RaiseInterrupt ==
  /\ conf.irq /\ mie /\ ~pending /\ pc \notin {"halt", "lost"}
  /\ pending' = TRUE
  /\ UNCHANGED <<conf, pc, tp, t1, gp, x31, scratch, tvec, exp, excp_ignored_count,
                 os_save_ecall_fn_epc, tohost, trapVars, mie, schedVars, history>>

\* Where the runtime still needs what is in t1.
T1Live == pc \in {"jump", "check_exception"}

\* trap_entry, in direct and in vectored mode.
Entries == {"trap_entry", "trap_entry_vectored"}

Interruptible == pending /\ mie /\ (mode # "M" \/ mstatus.MIE)

\* The default service routine clears the bit and returns at once; no context
\* is saved.  In direct mode the dispatch overwrites t1.  On a panic routine,
\* kernel_panic ends the run.
TakeInterrupt ==
  /\ Interruptible
  /\ pc \notin {"halt", "lost"}
  /\ IF tvec["M"] \in Entries
       THEN /\ pending' = FALSE
            /\ mstatus' = [mstatus EXCEPT !.MPIE = TRUE, !.MPP = "U"]
            /\ t1' = IF tvec["M"] = "trap_entry" /\ T1Live THEN TrapEntryAddr ELSE t1
            /\ UNCHANGED <<pc, mode, gp>>
       ELSE /\ mstatus' = [mstatus EXCEPT !.MPIE = mstatus.MIE, !.MIE = FALSE, !.MPP = mode]
            /\ mode' = "M"
            /\ gp' = 0
            /\ pc' = "end_test"
            /\ UNCHANGED <<t1, pending>>
  /\ UNCHANGED <<conf, epc, tp, x31, scratch, tvec, exp, excp_ignored_count,
                 os_save_ecall_fn_epc, tohost, mie, schedVars, history>>

-----------------------------------------------------------------------------
(* eot.py for one hart                                                     *)

\* eot__failed first prints the name of the test (rvcp_print_test_result), with
\* a load from the hart context.
EndTest ==
  /\ pc = "end_test"
  /\ IF gp = 1 THEN tohost' = "pass" /\ pc' = "halt"
     ELSE IF conf.rvcp THEN pc' = "print_failed" /\ UNCHANGED tohost
     ELSE tohost' = "fail" /\ pc' = "halt"
  /\ UNCHANGED <<conf, tp, t1, gp, x31, scratch, tvec, exp, excp_ignored_count,
                 os_save_ecall_fn_epc, trapVars, irqVars, schedVars, history>>

\* As if the load had returned something that can be printed.
PrintFailed ==
  /\ pc = "print_failed"
  /\ tohost' = "fail" /\ pc' = "halt"
  /\ UNCHANGED <<conf, tp, t1, gp, x31, scratch, tvec, exp, excp_ignored_count,
                 os_save_ecall_fn_epc, trapVars, irqVars, schedVars, history>>

-----------------------------------------------------------------------------

\* What loader.py leaves to the scheduler.
Init ==
  /\ conf \in Configs
  /\ pc = "init"
  /\ mode = "M"
  /\ tp = "pa"
  /\ t1 = 0
  /\ gp = 0
  /\ x31 = "none"
  /\ scratch = [x \in Handlers |-> IF x = "M" THEN "pa" ELSE "va"]
  /\ tvec = [x \in Handlers |-> "trap_entry"]
  /\ epc = [x \in Handlers |-> 0]
  /\ mstatus = [MIE |-> TRUE, MPIE |-> FALSE, MPP |-> "U", MPRV |-> FALSE, SPP |-> "U"]
  /\ mie = FALSE
  /\ pending = FALSE
  /\ exp = [check |-> 1, mode |-> 0, cause |-> NoCause, skip_pc |-> 0, pc |-> -1,
            tval |-> 0, return_pc |-> -1, re_execute |-> 0]
  /\ excp_ignored_count = 0
  /\ os_save_ecall_fn_epc = -1
  /\ saved_stvec = "none"
  /\ num_runs = 0
  /\ tohost = "none"
  /\ armed = {}
  /\ soft_end = FALSE
  /\ failed = FALSE

\* What the code of a test, or a device, may do; nothing obliges them to.
TestStep ==
  \/ \E code \in Causes, at \in Points : Exception(code, at)
  \/ \E fn \in SysCallNumbers, at \in Points : Ecall(fn, at)
  \/ \E words \in Expectations : SetupCheckExcp(words)
  \/ \E at \in Points : SkipCheckExcp(at)
  \/ \E label \in {"test_passed", "test_failed", "os_end_test"} : JumpToRuntime(label)
  \/ EnableInterrupt
  \/ \E label \in Entries : SetVectored(label)
  \/ \E on \in BOOLEAN : SetMie(on)
  \/ RaiseInterrupt

RuntimeStep ==
  \/ AcceptUnchecked \/ (\E tval \in {1, 2} : CheckExcp(tval))
  \/ ReturnToHost \/ CountIgnored \/ EcallFromHandler \/ TrapExit
  \/ SysLeave("schedule", "dispatch")
  \/ SysLeave("fail", "test_failed")
  \/ SysLeave("end", "os_end_test")
  \/ SysSwitch("to_M", "M") \/ SysSwitch("to_S", "S") \/ SysSwitch("to_U", "U")
  \/ SysTest \/ SysPte \/ SysPteFails \/ SysHartContext \/ SysOther
  \/ RetFromOsFnMPaging
  \/ TestPassed
  \/ LeaveTest("test_failed", 3)
  \/ LeaveTest("os_end_test", 1)
  \/ SchedulerInit \/ Dispatch \/ Schedule \/ Execute \/ Jump
  \/ EndTest \/ PrintFailed

Terminated == pc \in {"halt", "lost"} /\ UNCHANGED vars

Next == TestStep \/ RuntimeStep \/ TakeInterrupt \/ Terminated

Spec == Init /\ [][Next]_vars

\* The hart keeps executing the instructions of the runtime.
FairSpec == Spec /\ WF_vars(RuntimeStep)

-----------------------------------------------------------------------------
(* Properties                                                              *)

Pointers == {"pa", "va", "test"}

TypeOK ==
  /\ conf \in Configs
  /\ mode \in {"M", "S", "U"}
  /\ tp \in Pointers
  /\ scratch \in [Handlers -> Pointers]
  /\ tvec \in [Handlers -> {"trap_entry", "trap_entry_vectored", "trap_panic",
                            "scheduler__panic"}]
  /\ epc \in [Handlers -> Int]
  /\ mstatus \in [MIE : BOOLEAN, MPIE : BOOLEAN, MPP : {"M", "S", "U"},
                  MPRV : BOOLEAN, SPP : {"M", "S", "U"}]
  /\ mie \in BOOLEAN /\ pending \in BOOLEAN
  /\ gp \in {0, 1, 3}
  /\ num_runs \in 0 .. NumTests + 1
  /\ excp_ignored_count \in 0 .. MaxIgnored + 1
  /\ tohost \in {"none", "pass", "fail"}
  /\ armed \subseteq {"setup", "skip"}

\* The runtime can read hart variables: tp holds a pointer to the hart context
\* that is valid for the accesses the hart makes.
ContextUsable ==
  /\ mode = "M" => /\ tp = "pa" \/ (~conf.paging /\ tp = "va")
                   /\ mstatus.MPRV => mstatus.MPP = "M"
  /\ mode # "M" => tp = "va" \/ (~conf.paging /\ tp = "pa")

\* variable.py: "Assumes that hart context pointer is loaded into tp register."
\* The assumption holds at every label of the handlers, the system calls and
\* the scheduler where a hart variable is used, through all nested swaps.
RuntimeContext ==
  pc \in {"check_exception", "return_to_host", "trap_exit", "syscall_table",
          "dispatch", "schedule", "execute"} => ContextUsable

\* trap_handler.py: "MPRV=1 + MPP=S before returning to test code so data
\* accesses use S-mode translation."  A machine-mode test with paging always has
\* its data accesses translated as those of supervisor mode.
TranslatedAsSupervisor ==
  pc = "test" /\ MachinePaging /\ mode = "M" => mstatus.MPRV /\ mstatus.MPP = "S"

\* A test always runs with both trap vectors on trap_entry and both scratch
\* registers on the hart context, whatever way it was started or resumed, and
\* with its data accesses translated as they should be.
TestContext ==
  pc \in {"test", "jump"} =>
    /\ tvec["M"] \in Entries
    /\ tvec["S"] = "trap_entry"
    /\ scratch["M"] = "pa" /\ scratch["S"] = "va"
    /\ TranslatedAsSupervisor

\* Where the hart context is found, label by label; RuntimeContext, TestContext
\* and NoPanic follow.  The supervisor's registers are in place in the machine's
\* handlers but when the supervisor's handler made the system call itself, and
\* then the hart does not come back.
SupervisorIntact == scratch["S"] = "va" /\ tvec["S"] = "trap_entry"

Intact == tvec["M"] \in Entries /\ scratch["M"] = "pa" /\ SupervisorIntact

InMachineContext == mode = "M" /\ tp = "pa" /\ (mstatus.MPRV => mstatus.MPP = "M")

ContextInv ==
  /\ pc = "init" => InMachineContext /\ Intact /\ ~mie
  /\ pc \in {"test", "jump", "test_passed"} => Intact
  /\ pc \in {"test", "jump"} /\ MachinePaging /\ mode = "M" =>
       mstatus.MPRV /\ mstatus.MPP = "S"
  /\ pc \in {"jump", "test_passed"} => mode = "M"
  /\ pc \in {"check_exception", "return_to_host", "count_ignored_excp", "trap_exit"} =>
       \/ InMachineContext /\ SupervisorIntact
       \/ mode = "S" /\ tp = "va" /\ scratch["M"] = "pa" /\ tvec["M"] \in Entries
  /\ pc \in {"ecall_fail", "ecall_end"} => mode = "S" /\ scratch["M"] = "pa"
  /\ pc = "syscall_table" =>
       InMachineContext /\ (x31 \notin {"fail", "end"} => SupervisorIntact)
  /\ pc = "ret_from_os_fn_m_paging" => InMachineContext /\ SupervisorIntact /\ MachinePaging
  /\ pc = "dispatch" => InMachineContext /\ SupervisorIntact /\ tvec["M"] \in Entries
  /\ pc \in {"schedule", "execute"} =>
       InMachineContext /\ SupervisorIntact /\ saved_stvec \in Entries

\* The fields of mstatus that decide where accesses go and when interrupts are taken.
StatusInv ==
  /\ mstatus.MPRV => MachinePaging /\ mode = "M"
  /\ pc \in {"init", "dispatch", "schedule", "execute"} => ~mstatus.MPRV
  /\ mstatus.SPP # "M"
  /\ tvec["M"] \notin Entries => mode = "M" /\ (mie => ~mstatus.MIE)
  /\ mie => conf.irq

TrapInv == ContextInv /\ StatusInv

\* trap_handler.py: "so every OS_SETUP_CHECK_EXCP is single-use."  The words in
\* memory can only let an exception pass while a use of one of the two macros
\* is outstanding.  Cause 0 is left out: a cleared word reads as that cause.
SingleUse ==
  /\ exp.check = 0 => "skip" \in armed
  /\ exp.cause \notin {0, NoCause} => "setup" \in armed

\* No trap is taken while tvec is on a panic routine: the scheduler and the
\* handlers are never interrupted.
NoPanic == Interruptible => tvec["M"] \in Entries

\* A pass is only written after test_cleanup, the last of the sequence, was
\* dispatched, unless the end of the test was asked for.
PassCoversPlan == tohost = "pass" /\ ~soft_end => num_runs = 0

\* A failure noticed by the test, the supervisor's or the machine's handler ends
\* in a fail, although the supervisor's handler has to take the way through the
\* machine's, with another swap of the context.
FailIsReported == failed ~> tohost = "fail"

\* scheduler.py: "Interrupts are disabled during scheduling and resumed when the
\* scheduler is fininished."  The test that was scheduled is the one that runs.
JumpsToTest == pc = "jump" => t1 # TrapEntryAddr

\* opsys.py: rvcp_print_test_result "is called from enter_scheduler (pass) and
\* eot (fail) to print RVCP-formatted messages"; it loads current_test_index.
PrintContext == pc = "print_failed" => ContextUsable
=============================================================================
