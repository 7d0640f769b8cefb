# TLA+ models of RiESCUE

RiESCUE generates bare-metal RISC-V tests: Python code reads a test written by
hand or produced from an instruction list, chooses addresses, page tables and a
configuration, and emits assembly made of the test and of a small *runtime*: a
loader, a trap handler, system calls, a scheduler and an end-of-test protocol.
The Python side is sequential.  The runtime it emits is concurrent: several harts
share locks, counters, a barrier and the word `tohost` that ends a simulation.

This directory models both sides.  Of the runtime: instruction by instruction
where harts share memory, and one hart through its trap handlers, system calls and
scheduler.  Of the generator: the placement of everything a test needs in its two
address spaces with the page tables that map it, and, for compliance tests, the
legalization of their code and the allocation of its registers.  The models are
checked with TLC, and their main invariants are proved with TLAPS.

Paths below are relative to `src/riescue/`.

## 1. Inventory

### The runtime (`dtest_framework/runtime/`, `dtest_framework/lib/routines.py`)

| Component | State | Operations | Correct when |
|---|---|---|---|
| End of test (`eot.py`, `opsys.py`) | `num_harts_ended`, `num_hard_fails`, `tohost_mutex` (shared), `tohost`; verdict in `gp` | `eot__end_test`, `mark_done`, race for the mutex, polling loop with timeout, `eot__passed`, `eot__failed`, `eot__halt` | one hart writes `tohost`, once; a pass only when every hart has ended; a hard fail is reported; all harts halt |
| Parallel scheduler (`schedulers/parallel.py`) | `test_select_lock`, `pending_num_runs`, `num_runs[]`, `test_mutexes[]` (shared), `held_locks`, `cleanup_ran` (per hart) | dispatch, acquire, weighted random walk, take the mutex of a test, decrement the counters, release, finish | no test runs on two harts; no run is lost or given out twice; everybody gets to the end |
| Lock and barrier (`lib/routines.py`) | `barrier_lock`, `barrier_arrive_counter`, `barrier_depart_counter`, `barrier_flag` (shared) | `place_acquire_lock`, `place_release_lock`, `place_barrier` | nobody proceeds before all have arrived, in every reuse; a hart that ends takes the waiting ones with it |
| Simultaneous scheduler (`schedulers/simultaneous.py`) | `num_runs` (shared) | dispatch, two barriers, store by hart 0, execute | all harts run the same test in the same round |
| Default and Linux schedulers (`schedulers/default.py`, `linux.py`) | `num_runs` (per hart) | walk through the sequence | each test of the sequence is run in its order, then cleanup |
| Trap handler (`trap_handler.py`) | `tp` and `mscratch`/`sscratch`, trap vectors, the words of an expected exception, the count of ignored exceptions | trap entry, context switch, check of the expectation, return, panic, interrupts | only an armed exception is accepted, each once; test code always has the test's `tp` |
| System calls (`syscalls.py`) | `os_save_ecall_fn_epc`, `mtvec` during a call | privilege changes, CSR access, page-table walk, mapping | the caller goes on in the mode it asked for |
| Loader (`loader.py`) | CSRs, stack, hart context | boot sequence | the state the trap handler and scheduler assume |
| Variables (`variable/`) | placement of shared and per-hart words | allocate, emit loads, stores and AMOs | - |
| Self-checking (`selfcheck.py`) | saved registers and memory per test | save, compare | - |
| Execution log (`test_execution_logger`) | ring of 128 entries per hart | append | - |

### The generator

| Component | State | Hard part |
|---|---|---|
| Address generator (`dtest_framework/lib/addrgen/`) | per space: clusters (powers of two), segments per qualifier, ranges handed out or reserved | never hand out overlapping ranges; ranges that cross clusters; ranges at the limits |
| Generation pipeline (`dtest_framework/generator/generator.py`) | the test's declarations and sizes, which grow while it is read; the two address spaces; the lists of pages | what is placed early is not overwritten by what is placed late; pages of a section stay together |
| Page maps and page tables (`lib/page_map.py`, `lib/pagetables.py`) | per map: pages and the pages that tables add, tables, entries | one translation per page whatever was entered before; frames of tables; both stages |
| PMP and PMA (`lib/pmp.py`, `lib/pma.py`) | list of regions, merged in place each time it is read | consolidation into a bounded number of entries; a region that several addresses share |
| Legalizer (`compliance/test_plan/transformer/legalizer.py`) | the instructions, rewritten in two passes | labels stay with their instruction while loads and casts are inserted |
| Register allocation (`.../transformer/allocator/linear_scan.py`) | active intervals, free registers, spill slots | no two live values in one register; clobbers; order of spill code |
| Elaboration, canonicalization, parser, pool, configuration | lists and records | sequential text and data processing |
| Compliance bring-up, toolchain | files | calls of external assemblers and simulators |
| Instruction setups, randomisation | tables, a seed | - |

### How the parts interact

The loader jumps to `scheduler__init`; the scheduler runs `test_setup`, then the
discrete tests, then `test_cleanup`, each by a jump in the privilege mode of the
test.  A test comes back through a system call or a jump (`test_passed`,
`test_failed`, `os_end_test` in `opsys.py`).  `test_passed` re-enters the
scheduler at `scheduler__dispatch`; the other two set `gp` and jump to
`eot__end_test`.  Locks and barriers look at `num_harts_ended` while they wait and
leave for `os_end_test` once another hart has ended; when they use up their tries
they go to `test_failed`.  Traps are taken by the trap handler, which returns
to the test, to the scheduler or to `test_failed`.

In the generator nothing is concurrent; its parts interact through the order of their
calls.  `Generator.generate` places the sections, the roots of the page maps, the
reserved memory, the mappings and at last the named addresses, each by a draw from,
or a reservation in, what the earlier calls have left of the two address spaces.  A
mapping is handled before its names are placed: it changes the sizes that the names
will ask for.  The tables are built when the assembly is written, behind all of that,
and draw more memory: for the tables, for the second stage's pages that cover them,
and for the pages through which a test reaches its own tables.  In the compliance
framework a test is legalized in two passes over its instructions, live intervals
are computed from the result, and the allocator rewrites it.

### What is hard here

* Every access of one hart to shared memory interleaves with those of all others;
  most counters are updated with plain loads and stores under a lock.
* `place_acquire_lock` swaps the *try counter* into the lock word, also when it
  loses; a lock is correct only because that counter is never 0.
* A test mutex is taken by swapping in the *run count* of the test; it is a lock
  only because a test that is drawn has a run left.
* `pending_num_runs` caches the sum of `num_runs`.
* The barrier is reused at once; a fast hart meets slow ones still leaving.
* A hart may end, fail or hang at any time, while others hold or wait for locks.
* The verdict depends on two counters that are read one after the other.
* The generator keeps the memory it has given away in pieces, one list for each power
  of two; a piece that is forgotten or cut wrongly is handed out twice.
* A page may find the tables it needs already there, made for other pages, of other
  sizes, in another order.
* The allocator takes registers away from values that are alive, and instructions
  clobber registers without naming a value.

The complete list, with the source lines, is `"hazards"` in `PROJECT.json`.

## 2. Modules

| Module | Models |
|---|---|
| `Eot` | `eot.py` for several harts, and `test_failed`, `os_end_test` of `opsys.py` |
| `ParallelScheduler` | `parallel.py`, the lock of `routines.py`, composed with `Eot` (EXTENDS) |
| `BarrierRoutine` | `place_barrier` and `place_acquire_lock` as `os_barrier_amo` uses them, on top of `Eot` |
| `Barrier` | the atomic barrier that `BarrierRoutine` implements |
| `SimultaneousScheduler` | `simultaneous.py`, composed with `BarrierRoutine` and `Eot` |
| `TrapHandler` | one hart: `trap_handler.py`, `syscalls.py`, the entry points of `opsys.py`, `scheduler.py` with `default.py`, the single-hart part of `eot.py` |
| `AddrGen` | one address space: `address_space.py`, `address_cluster.py`, `address_range.py` and the part of `address_generator.py` that sets up segments and reserves; operators only |
| `PageTables` | `page_map.py`, `pagetables.py`, and the hart's walk as an operator; on top of `AddrGen` |
| `Generator` | `Generator.generate`: every handler that places something, then the tables; on top of `PageTables` |
| `Legalizer` | `legalizer.py`, both passes |
| `LinearScan` | `linear_scan.py`, `register_pool.py`, and the execution of the rewritten code; on top of `Legalizer` |
| `MCParallelScheduler`, `MCSimultaneousScheduler`, `MCTrapHandler`, `MCGenerator`, `MCLinearScan` | instances for TLC: symmetry, the configurations of the trap handler, the tests of the generator and of the allocator |
| `Eot_proofs`, `ParallelScheduler_proofs`, `SimultaneousScheduler_proofs` (with the barrier routine), `TrapHandler_proofs`, `AddrGen_proofs`, `Generator_proofs`, `TwoStages_proofs`, `LinearScan_proofs` | theorems |

**Correspondence.**  `pc[h]` is the label hart `h` is about to execute, with the
label names of the generated assembly.  Each action is one handful of
instructions with *at most one access to a shared word*, so that TLC interleaves
harts as the hardware may (sequential consistency is assumed: the code uses
`.aq`/`.rl` AMOs and fences around its locks).  Shared words are variables with
the source's names; registers that live across two accesses are functions of the
hart (`t0`, `t3`, `a0`, `a4`, `a5`, `s1`, `s10`); a register that is dead goes back
to its initial value, which only merges equal states.  `gp` takes the four values
the runtime tells apart: `pass` (1), `fail` (3), `panic` (0) and `bailed`
(0x80000000).

A test's own code is an action per outcome: it passes, fails, asks for the end
of the test (`os_end_test`), or hangs.  `Outcomes` selects among these per run.  The
linear congruential generator of the parallel scheduler is a choice of any value
below `pending_num_runs`.

`TrapHandler` works at another grain.  No memory is shared, so what counts are the
registers through which the pieces of the runtime find each other: `tp`, the
scratch registers, `tvec`, `epc`, the fields of `mstatus`, `t1`, `gp` and `x31`.  An
action is the code from one label to the next.  `tp` is `pa` or `va` when it points to
the hart context, by its physical or its virtual address, and `test` when it is the
test's; `ContextUsable` says which of them a load in the current mode can use.  The
code of a test is a choice at each step: an exception, a system call, one of the two
macros that arm an expectation, a jump into the runtime (machine-mode tests), or a
write to the interrupt controls.  Between two such steps a device may raise its
interrupt, and it is taken wherever the hart may take it, in the runtime too.  The
system calls are numbered by name; those that switch to a page share
`SysSwitch`, as the CSR pages do.  Addresses in a test are two points, and
the one after the last stands for the rest of it.

In `AddrGen` a space is a record: for each qualifier and cluster the pieces of its
segments, for each cluster the ranges recorded in it, the ranges that were cut over
clusters when they were reserved, and the list of all grants (a history).
`Candidates` is the set of addresses a request can be given, the union over the two ways
the code draws (near a recorded range, or anywhere in a free piece); an allocation
takes any of them.  In `MCGenerator` the constant `Draw` lets TLC follow the lowest
or the highest only; the theorems are about any `Draw`.

`Generator` has an action per call of a handler.  `Calls` lists what `generate` does
for a test; the list is consumed by the actions, each of which makes all the draws
and reservations of its handler, or fails as the code raises.  A parsed test is a
constant, a record of its options, sections, reserved memory, mappings and
addresses.  The names of things are tuples, so that the names that the code derives
with suffixes (`..._phys`, `..._pt_level0`, `..._gnonleaf`) are derived here with tags.
Then `cursor` goes through the pages of each map, level by level, as the loop of
`create_pagetables` does: `FollowEntry` when an entry is there, `CreateTable` when it is
not, `CreateLeaf` at the level of the page.  `pte` is the memory of all tables,
and `Translate` is what the hart reads in it.

In `LinearScan` an instruction keeps what the passes look at: its id, the register it
defines, the names it reads, their types, what it clobbers.  `PlaceInterval` is one
turn of the loop in `_linear_scan`: `Grant` with any register the pool may draw, or
`Spill`; `FailToPlace` is a turn that raises.  `active` is a set, as the code sorts
it by its ends before each use, and `IsLast` finds the interval that ends last.  The rewritten
code is then executed by `Execute`, where a register holds the id of the instruction
that defined its value, so that a property can say which value an instruction reads.

Variables called *history* (`completed`, `soft_end`, `armed`, `failed`) record what
happened for the properties and are read by no guard.

## 3. Runs

| Run | Instance | Shows |
|---|---|---|
| `parallel_safety` | 3 harts, 2 tests, 2 runs each, all outcomes; 1.9 million states | one hart per test (`NoSharedTest`), no run lost or doubled (`RunAccounting`), a draw always falls on a test with a run left (`DrawIsServed`), a pass covers the plan (`PassCoversPlan`), one writer of `tohost` (`OneTohostWriter`), after all have ended (`PassMeansAllEnded`), never rewritten (`VerdictIsFinal`); the inductive invariants `SchedulerInv` and `EotInv` that the proofs use |
| `parallel_liveness` | 2 harts, 2 tests, 2 runs each, all outcomes | the verdict is written unless a test hangs (`TohostIsWritten`); one hart that ends brings all others to the halt loop, a hung one excepted (`OneEndsAll`); a hard fail counted outside the window of the last poll is reported (`HardFailIsReported`) |
| `parallel_eot_race` | 2 harts, 1 test | **violation** of `PassMeansNoHardFail`, finding 1 |
| `simultaneous_safety` | 3 harts, setup, 1 test, cleanup: six barriers; 2.3 million states | the routine implements the atomic barrier (`ImplementsBarrier`), all harts run the same test (`SameTest`), the one `num_runs` points at (`ExecutesCurrent`), a pass covers the plan (`PassCoversPlan`); the inductive invariant `SchedulerInv` that the proofs use |
| `simultaneous_liveness` | 2 harts, 2 tests | the verdict is written (`TohostIsWritten`); a nominal early end brings the other hart out of the spin on the flag (`NominalEndHaltsAll`).  Two harts cannot strand one in the depart spin; the next run has three |
| `simultaneous_stranded` | 3 harts, setup and cleanup | **violation** of `NominalEndHaltsAll`, finding 2 |
| `trap_handler` | 1 hart, 6 configurations, setup, 1 test, cleanup; 0.7 million states | `tp` can be used wherever the runtime reads a hart variable (`RuntimeContext`); a test always runs with its vectors, scratch registers and translation in place (`TestContext`); an expectation accepts one exception (`SingleUse`); no interrupt meets a panic routine (`NoPanic`); a pass comes after cleanup (`PassCoversPlan`); a failure noticed anywhere is reported as one (`FailIsReported`, under fairness); the inductive invariant `TrapInv` that the proofs use |
| `trap_interrupt` | a machine-mode test with interrupts | **violation** of `JumpsToTest`, finding 3 |
| `trap_paging` | the same with paging | **violation** of `TranslatedAsSupervisor`, finding 4 |
| `trap_print` | printing of failed tests, machine and supervisor mode | **violation** of `PrintContext`, finding 5 |
| `generator` | 35 tests, pages of 2 bytes, tables of 8 entries, 2 levels, 128 bytes in each space; 33 691 states | drawn ranges are disjoint (`GrantsDisjoint`) and never lie on what was reserved before (`GrantsAvoidReserved`); sections stay in one piece (`SectionsAreContiguous`); the tables translate each page to its frame and map nothing else (`TranslationCorrect`), lie in frames of their own (`TableFramesPrivate`), keep entries private that the test changes (`NonLeafEntryIsPrivate`); the second stage maps all that the first one reads in `map_os` (`TwoStageComplete`) |
| `linear_scan` | 205 tests of up to 7 instructions, 3 general-purpose and 2 floating-point registers; 95 664 states | labels stay with their instructions and types fit (`LegalizedCode`); live values never share a register (`NoInterference`); what an instruction reads by the name of a value, one that is not spilled, is that value, across clobbers (`ValuesArrive`; section 6 says what it leaves out) |

**Bounds.**  Three harts are the least number for which a hart can interfere with
two others that interfere with each other (two racing for a lock while a third
holds it; one leaving the barrier, one inside it, one back at the next).  Two tests
with two runs each make a draw choose, make the run count of a test reach 0
while the pool is not empty, and let a retried test be held by another hart.
`MaxTries` stands for MAX_OS_BARRIER_TRIES and `EotTimeout` for the 5 000 000 polls of the
winner: small values make both exhaustion and success happen.

The six configurations of `trap_handler` are those that take different ways
through the code: machine-mode tests with and without paging (with it, `MPRV` and the
emulated `mret`), supervisor and user tests, exceptions handled in either
mode, unexpected ones failed or skipped, interrupts on, failures printed.  Two exception causes, two
addresses and three expectations let each comparison of `check_excp` match and
fail, with stale words of an earlier one left over.  One ignored exception is allowed, so the limit
is met.

The tests of `generator` are chosen by what they make happen: sections before and behind
the code, machine mode, two names for one frame, memory reserved late, a second map,
mappings that change non-leaf entries (with a page of the largest size too, which has
none above it) or get their tables mapped, given addresses,
linked pages, superpages over pages and pages over superpages, no paging, two
stages, and memory that runs out at each possible draw.  Two levels are the least
with a superpage and a table that several pages share; with 8 entries of 2 bytes each
table has room for pages that collide and for some that do not.  128 bytes are seven
clusters, and ranges cross up to four of them.  Drawing the lowest or the highest address
leads to neighbours and to pieces cut at their ends, where the arithmetic of ranges
can go wrong; small tests draw both ways everywhere, larger ones in one space.  In
`linear_scan`, five registers are few enough that three or four values force spills, a
value that takes over the register of another, a pool exhausted by clobbers, a
refused hard-coded register, and a cast that reads one by its own name.

**Fairness.**  The generator and the allocator are sequential programs that end: their
specifications need no fairness, and their runs check deadlock, so that each test
comes to its end or to an exception of the code.  In the trap handler's `FairSpec` the hart keeps executing the code of the
runtime (weak fairness of `RuntimeStep`); a test owes nothing and a device owes no
interrupt.  In the schedulers, `FairSpec` asks only that each hart keeps executing instructions
(weak fairness of `HartStep(h)` for each hart).  Nothing is assumed of locks or
of the random draw: all waiting loops of the code are bounded by a try counter or
leave when another hart has ended - except the depart spin, finding 2.

**Mutants.**  Each property has a mutant, an operator next to the one it
replaces that makes a plausible error (a dropped guard, an off-by-one, a missing
reset): TLC finds the property violated with it.

## 4. Findings

1. *A hard fail can be reported as a pass* (`dtest_framework/runtime/eot.py:143`).  The winner
   of `tohost_mutex` reads `num_hard_fails`, then `num_harts_ended`.  A hart that
   fails between the two loads bumps the first and then the second; the winner
   has read 0 failures, now reads a full count, and writes a pass.  The comment
   there says "Write immediately if there was a hard fail".
   `HardFailIsReported` states what the loop does guarantee.
2. *A nominal early end can strand a hart* (`dtest_framework/lib/routines.py:163`).  The spin of a
   hart that waits for the previous barrier to empty has no timeout and does not
   look at `num_harts_ended`.  A hart that leaves the third lock because another has
   ended never increments `barrier_depart_counter`; the spinner never halts and
   the winner reports a failure after its timeout, although no hart failed.
3. *A scheduled test may not start* (`dtest_framework/runtime/schedulers/scheduler.py:228`).
   `execute_test` turns interrupts on with `csrs mstatus, t0` and then jumps through `t1`.
   A pending interrupt is taken between the two; the dispatch of
   `default_trap_handler` overwrites `t1` with `trap_entry`, and no context is saved.
   The hart jumps to the interrupt vector table.
4. *Interrupts undo machine-mode paging* (`dtest_framework/runtime/trap_handler.py:841`).  A
   machine-mode test with paging relies on `MPRV = 1` and `MPP = S`.  `trap_exit`
   restores both after an exception; an interrupt returns with a plain `mret`,
   which leaves `MPP = U`.
5. *A failure seen by a handler is printed through the wrong pointer*
   (`dtest_framework/runtime/opsys.py:161`).  `test_failed` swaps `tp` with the scratch
   register, also when the handler or the system call that jumps to it has done so;
   `rvcp_print_test_result` then loads the index of the test through the test's `tp`.

## 5. Proofs

### Scheduler and end of test

For any finite non-empty set of harts, any number of tests and runs, any
bounds, from the assumptions `EotAssumption` and `ParallelAssumption`.

`NoSharedTest` is not inductive.  That two harts do not run the same test rests
on the mutex of the test, which rests on the run count swapped into it not being
0, which rests on nobody else changing `num_runs` during the selection, that is on
`test_select_lock`, which rests on the try counters swapped into *it* being
positive.  `SchedulerInv` says just that, in this order: `SelectLockInv`,
`SelectionInv`, `MutexInv`, with `TypeOK` and `RunAccounting`.
`ParallelScheduler_proofs` proves each action preserves it, one step per action.

That a draw falls on a test that has a run left (`DrawIsServed`) needs what the cached
counter means.  `PendingInv` says that `pending_num_runs` is the number of runs left,
one more between the two stores that take a run away, and that the sum a walk has
formed in `a5` is the number of runs of the tests it has passed.  A run left is a pair of
a test and a number (`RunsLeft`), so that the sum over the tests is the size of a
finite set.  A draw is below the counter: a walk that has passed every test would have
a sum that is at least the counter, and so has stopped before.

That a pass covers the plan (`PassCoversPlan`) needs why harts stop.  A hart that
finishes has seen the counter at 0, and no run ever comes back (`FinishInv`).  A hart that
has ended with a pass holds no test (`EndInv`), and if it left a lock because another
had ended, there was a first one that did not.

`EotInv` says that `num_harts_ended` is the number of harts past `mark_done` and
that `eot__passed` is reached only when that is all harts.  The lemmas of
`Eot_proofs` prove it of every step of the protocol (`EotStepKeepsInv`) and of any
step outside it (`OutsideStep`), so a scheduler only has to show that its steps are of
the second kind.

| Theorem | States |
|---|---|
| `TypeCorrect` | `Spec => []TypeOK` |
| `SchedulerInvariant` | `Spec => []SchedulerInv` |
| `ParallelExclusion` | `Spec => []NoSharedTest` |
| `NoLostRuns` | `Spec => []RunAccounting` |
| `EotInvariant` | `Spec => []EotInv` |
| `SingleWriter` | `Spec => []OneTohostWriter` |
| `PassAfterAll` | `Spec => []PassMeansAllEnded` |
| `VerdictStands` | `Spec => VerdictIsFinal` |
| `DrawFindsTest` | `Spec => []DrawIsServed` |
| `PassCompletesPlan` | `Spec => []PassCoversPlan` |

Only model-checked: liveness, which needs fairness and ENABLED.

### Barrier and simultaneous scheduler

For any finite non-empty set of harts, any number of tests, any number of tries, any
outcomes of the tests.

The barrier is safe because of what its two counters count while harts are at
twelve different instructions of it.  `BarrierInv` says so, label by label:

* `ArriveInv`: the arrive counter and the harts still to come make up all harts as
  long as nobody has left for the end of the test, and fewer than all afterwards, so
  that a barrier some hart will never reach stays shut;
* `OpenInv`: a hart that is about to set the flag finds all others in the spin that
  waits for it;
* `DepartInv`: the depart counter and the harts on their way out are at most all harts,
  so that nobody is leaving when the flag is cleared for the next use;
* the lock around the counters is held by one hart at a time, with the try counters in
  it positive, as in the parallel scheduler.

The routine implements the atomic `Barrier` step by step
(`BarrierStepRefines`): the increment of the arrive counter is `Arrive`, the store
of the flag is `Open`, each way out to the end of the test is `Leave`, and every other
instruction is a stutter.

`SchedulerInv` adds which round a hart is in.  `RoundInv` says that all harts head for
the same barrier; only the store of the flag changes this, for all at once.  `DataInv` says that the copies of
`num_runs` in registers agree with the word, but for the one store that hart 0 still has
to make.  `EndInv` gives the reason why the first hart left.  Then `SameTest` is a
consequence: two harts that execute are in one round and have read one word.

| Theorem | States |
|---|---|
| `BarrierStepKeepsInv`, `BarrierStepRefines` | each instruction of the routine keeps `BarrierInv`; it is a step of `Barrier`, or a stutter |
| `SchedulerInvariant` | `Spec => []SchedulerInv` |
| `TypeCorrect` | `Spec => []TypeOK` |
| `AllRunTheSameTest` | `Spec => []SameTest` |
| `CopiesAreCurrent` | `Spec => []ExecutesCurrent` |
| `PassRunsCleanup` | `Spec => []PassCoversPlan` |
| `SingleWriter` | `Spec => []OneTohostWriter` |
| `RoutineImplementsBarrier` | `Spec => ImplementsBarrier` |

Only model-checked: liveness.

### Trap handler

For any set of configurations, tests, causes, addresses and expectations, any
limit on ignored exceptions, from `TrapAssumption`.

`RuntimeContext` is not inductive: a handler that is about to read a hart variable
finds the context in `tp` because the swap before it found it in the scratch register,
because the last exit swapped it back there, in the other privilege mode, perhaps
through a system call of the supervisor's handler.  `TrapInv` follows the context
through all of that.  `ContextInv` says label by label which register holds it and
where the trap vectors are.  `StatusInv` says which fields of `mstatus` the next `mret`
may rely on: `MPRV` is set only in a machine-mode test with paging, `SPP` never names
machine mode, and while `mtvec` is on a panic routine no interrupt can be taken.
One step per action shows that it is preserved (`TrapStep`), with the types of the
registers it speaks of (`Shape`).

These theorems have the hypothesis `NoPagedInterrupts`: no configuration has
both interrupts and paging with the test in machine mode.  It cannot be dropped,
since finding 4 is a counterexample to `TestContext` without it.  That one
expectation accepts one exception, and that a pass comes after the last run, hold in
all configurations; they have invariants of their own (`ExpInv`, `PassInv`).

| Theorem | States |
|---|---|
| `TrapInvariant` | `NoPagedInterrupts => (Spec => [](Shape /\ TrapInv))` |
| `TypeCorrect` | `NoPagedInterrupts => (Spec => []TypeOK)` |
| `ContextFound` | `NoPagedInterrupts => (Spec => []RuntimeContext)` |
| `TestUndisturbed` | `NoPagedInterrupts => (Spec => []TestContext)` |
| `NeverInterrupted` | `NoPagedInterrupts => (Spec => []NoPanic)` |
| `ExpectationUsedOnce` | `Spec => []SingleUse` |
| `PassIsEarned` | `Spec => []PassCoversPlan` |

Only model-checked: `FailIsReported`, which needs fairness.

### Placement of memory

For any clusters with starts that grow from 0, any ways of drawing, page and table
sizes, any tests of the shape that `GeneratorAssumption` states.

The argument has two layers.  `AddrGen_proofs` is about one space: `SpaceInv` says that
what a cluster keeps free lies inside the cluster, that each grant and each reserved
range is recorded in every cluster it touches, and that grants are pairwise
disjoint.  It holds of a new space (`NewSpaceInv`), and reserving any range
(`ReserveKeeps`) or taking any candidate (`AllocateKeeps`) keeps it.  The heart is
that a candidate avoids every recorded range (`CandidatesAreFree`): a free piece is
what remains of a segment between recorded ranges, an address is rounded down inside
it, and a range that does not fit in one cluster is checked in the ones it reaches into.

`Generator_proofs` lifts this to the pipeline.  That each call of `generate` only
reserves or takes candidates is clear only where the sizes it asks for are
positive, which it learns from calls made before: the page of a mapping asks for what
`randomize_pagesize` chose, a linked page for the frame of another.  So `IInv` says
that what is still to do is in the order of `generate` (`CallsInv`), that the results of
earlier calls are there and are sizes and addresses (`NamesInv`), that pages have
levels (`PagesInv`), and that the page whose tables are being built exists
(`CursorInv`).  Each handler is a lemma; `GrantsAvoidReserved`, a property of
steps, follows from the same lemmas, as each says that the space has `Grown`.

**Sections.**  `SectionsAreContiguous` relates pages that calls far apart have placed.
`CallsInTurn` shows for any test what the list of calls looks like: those for one
section come in the order of their pages, next to each other, and each but the first
continues the one before (`Follows`): it passes both addresses behind it, or one of
them where the call before has put its page at one address in both spaces.
`SectionsInv` keeps that of the calls still to make (`Ahead`), and says that
`behind` holds what the next one needs (`ChainInv`), so that a page lands right behind the
last one (`PlacedWhere`), and that no other handler files an address under the name of
a section's page (`PlacingSpares`, `TableSpares`: names are the test's own, or are derived
with other tags).  `selfcheck_data` is the exception it is in the property.

**Page tables.**  `TranslationCorrect` speaks of what the loops over maps, pages and levels have
written when all are over: a page that is alone is translated to its frame
(`PagesAreMapped`), and what an address is translated to is the frame of a page that has
it (`OnlyPagesAreMapped`).  `WalkInv` says what they have written so far:

- `TreeInv`: the tables form one tree for each map.  The witness is a place for each
  table: its map, its level and a linear address it serves; an entry leads to the
  table of the place below it, and an address never has two places.  An entry was
  written for a page that is walked through it (`LeafFits`, `TableFits`), and carries the
  name of one whose tables are begun (`WrittenFor`).
- `PathInv`: the table at hand is the one that a walk for the page at hand reaches.
- `WalkedInv`: a page that is done and alone, which is that no other page of the map
  has one of its addresses, is reached by its walk.

An entry that is written changes what is reached only below it, and what was there
was written for a page walked through it.  If a later page replaced the leaf of
one that is alone, or a leaf stood in its way, the two would have an address in common
(`Overwritten`, `Blocked`), since an entry that both walk through covers all
addresses with the same indices (`SameBlock`, `BlocksNested`).  A new table is empty
and a frame of its own: no root or table lies there, as all of them are granted.  When the
last page is done, `WalkFollows` reads off a walk of the hardware what `WalkedInv` says, for
each address of the page; the other way around, an address that is translated at all reaches a
leaf (`TranslateHit`), and a leaf was written for a page that has the address
(`LeavesArePages`).  `TablesAreApart` comes from the same trees, and so does `EntryIsOwn`,
that a non-leaf entry which a mapping changes was written for it or for a page that is
walked through it.

**Frames.**  That no page lies in the frame of a table (`TablesHoldNoPages`) relates what
the pipeline recorded of a page, long before it was entered in a map, with all
tables that any page of any map needs later.  `FramesInv` says how it comes about:

- `TablesGranted`: roots and tables lie in frames that were granted, and a grant overlaps
  nothing that is recorded (`TableIsFresh`).
- `PagesHeld`: a page that owns its frame lies in memory that is *held*, which is
  recorded and free of tables.  Nothing forgets a record, and a new table avoids all
  of them, so what is held stays so (`HeldWithTable`).
- `SizesKept`: the frame of a normal mapping is held over the whole size that
  `handle_normal_page_mappings` chose for its page, or, before it is drawn, what its name
  asks for is no less.  Another mapping of the frame may only make that grow, or make it
  4 KiB where all their pages have 4 KiB; that needs the mappings to be over before the first
  address is drawn, which is the order of the calls (`InOrder`, from `CallsInOrder`).
- A section is placed before the first root (`OnlyFrom`), so its page may also be given its
  address without a draw; a page of tohost is recorded by its first bytes only, and no
  table starts inside of it because tables and `IoAddr` are aligned to pages.

**Two stages** (`TwoStages_proofs`).  `TwoStageComplete` relates what is written for `map_os` to tables of `map_hyp`
that are built when all other maps are done.  `StagesInv` carries it over that time:

- `OnceInv`, `FreshInv`: an entry of `map_os` gets an identity page in `map_hyp` unless the name
  derived from page and level is there already.  It is never there: the pages of `map_os`
  differ by name, so that only the page at hand has derived that name, and for higher
  levels only (`FreshNames`).
- `IdentityInv`, `CoveredInv`: what an entry on a walk of `map_os` points to lies in such a page,
  and the pages that are added to `map_hyp` are identities.  Tables of later maps are
  not on these walks, since the maps share none.
- `HypDoneInv`: an added page that is done is mapped by a leaf at its level, or by one of
  another added page at a higher level whose block holds it.  Added pages overlap, so
  `WalkedInv`, which is about pages that are alone, says nothing of them.  A leaf that stands in
  the way is that of an identity page, or of a page that was entered in `map_hyp` directly; the
  latter have level 0 and stand in nobody's way.

When all is done, a walk of `map_os` is a path whose tables and leaf are covered
(`WalkIsPath`), and an address that an identity page covers is translated to itself.

`WalkTables` and `FlattenSeq` are recursive; what they return for any input is shown with
the least level or index at which it would fail (`Downward`, `Upward`).

**Assumptions.**  `PageTablesAssumption`: sizes and numbers of entries are positive, an
entry covers `Entries` times the memory of one a level below, a root is a page at least.  `GeneratorAssumption`: what the parser and
`generate` see to, that a test's names are its own (`TestName`), each part of
`generate` makes the calls it is about and handles a section once (`PartsTyped`), a page comes
behind the calls that its size and its addresses come from (`PagesComeLater`), and every map
is initialized (`MapsInitialized`).  A root is aligned to a page.  The two theorems about
frames have the hypothesis `FramesAreOwned`: the frame of a normal mapping is
declared, has no name of another kind of mapping, of a linear address or of a map
(the pool rejects a second declaration, `pool.py:147`), and mappings that
share a linear name share the frame (the pool keeps one for a name and map, `pool.py:170`);
tohost begins a page.  With `all_4kb_pages` it also wants of the mappings that share a
frame that either all have linked pages or none has: `handle_normal_page_mappings` sets the size
of the frame to 4 KiB for one that has none, also where the page of another, which is
larger, was to lie in it (`generator.py:1919`).  The two theorems about two stages have the
hypothesis `PagesAreNamedOnce`, about tests with two stages: no two calls enter a page of
the same name, as a map keeps its pages by name (`page_map.py:496`; random mappings may
share theirs), and no mapping is entered in `map_hyp` itself (the generator does that only where
the first stage is off, `generator.py:2026`, which is not modelled), so that what is entered
there directly are pages of the smallest size.  TLC evaluates all four on the tests of
`generator`.

| Theorem | States |
|---|---|
| `AllocateKeeps`, `ReserveKeeps`, `NewSpaceInv` | the operations of a space keep `SpaceInv`, whatever is drawn |
| `InductiveInvariant` | `Spec => []IInv` |
| `GrantsAreDisjoint` | `Spec => []GrantsDisjoint` |
| `GrantsAvoidWhatIsReserved` | `Spec => GrantsAvoidReserved` |
| `SectionsInvariant` | `Spec => []SectionsInv` |
| `SectionsStayInOnePiece` | `Spec => []SectionsAreContiguous` |
| `WalkInvariant` | `Spec => []WalkInv` |
| `TranslationIsCorrect` | `Spec => []TranslationCorrect` |
| `TablesAreApart` | `Spec => []TablesApart` |
| `NonLeafEntriesAreOwn` | `Spec => []EntryIsOwn`, the second half of `NonLeafEntryIsPrivate` |
| `FramesInvariant` | `FramesAreOwned => (Spec => []FramesInv)` |
| `TableFramesArePrivate` | `FramesAreOwned => (Spec => []TableFramesPrivate)` |
| `StagesInvariant` | `PagesAreNamedOnce => (Spec => []StagesInv)` |
| `TwoStagesAreComplete` | `PagesAreNamedOnce => (Spec => []TwoStageComplete)` |

Only model-checked:

* `TypeOK` of the generator.  That an address lies in its space is a matter of the addresses
  that a test gives, and of the memory behind the runtime and the code.
* `EntryIsAlone`, the first half of `NonLeafEntryIsPrivate`.  It needs the range of the linear
  space that each single page was recorded in, for every kind of page, where the proofs about
  frames need those of the physical space that tables must avoid.

### Register allocation

For any tests that are sequences of instructions (`TestsAssumption`) in which an
instruction reads what comes before it, or what nobody defines, labels have no operands
and no id is one that `new_value_id` gives to a cast (`ElaborationAssumption`: "all IDs
should be set before they appear as a source register", `legalizer.py:49`); for any
registers of the two types that do not include those the spill code goes through
(`RegTypeAssumption`: `RegisterPool` leaves them out), and any choice of registers.

**The legalizer.**  `LegalizedCode` speaks of what the loops of two passes have built when
both are over.  Its inductive invariant `LegalizerInv` (in `Legalizer`; TLC finds it true
of the instance of `linear_scan` as well) says what each has made of the first `p` instructions:

- `Resolved(out, p)`, first pass: what is there is one of those instructions, or a load
  that somebody behind it reads; ids of the test occur once; what is read is defined
  before, or was dropped behind a label; a fault label stands right before its
  instruction.
- `Casted(out, p)`, second pass: what is there has the id, destination and type of an
  instruction of the first pass, or is a cast with a new id; what is read is defined
  before *in the type it is read in*; a value of the test is defined once, and a load
  still has its reader, here or among the instructions to come.
- `Legal(code)` is what is left of both when the allocator begins.

A pass that grows its output keeps the order of what was there: `ResolvedGrows` and
`CastedGrows` carry the argument for one instruction with all its loads or casts, and
with the label that is taken back or held back.

**The scan.**  `NoInterference` is not inductive: it does not say what becomes of a
register next.  `PlacedInv` says that a name in a register is dead before anybody else
gets it (`DeadBefore`), which it needs for registers that are free and for registers that
another active interval holds.  A register that is granted was free, or was held by an
interval that has expired, and intervals come in the order of their starts, so its
former owners are all dead (`GrantStep`).  A register that is taken from an active
interval goes to one that begins later and ends earlier: the former owners were dead when
the loser began, what is clobbered inside the new life was clobbered inside the old
one, and since the new owner is not active the register never comes back
(`SpillStep`).  That the list holds each interval once, by start, follows from
counting the intervals before each (`AllSorted`).

**The types.**  That the pool and the names that hold registers share *all* registers is
`PlacesInv`: a register leaves the pool for a name and goes back when the name expires,
or goes from one name to another, and a name that is still in the queue holds none.  It
holds also where the scan raises, whose handler leaves everything in place.  A name that a
test writes to a register of its own may be placed in one the pool does not have
(`HardRegisters`).

**The execution.**  `ValuesKept` says that a value between its definition and its last use
is in its register.  An instruction writes the register of the name it defines or what it
clobbers; the first belongs to a name whose life does not overlap, the second was kept
from the pool (`ExecuteStep`).  This needs of the legalizer that a definition precedes
the uses, which `LegalizerLeavesAProgram` gives; that its passes build sequences of
instructions, and take back only a label they have put, is part of the
invariant (`CodeInv`).

| Theorem | States |
|---|---|
| `ResolvedGrows`, `CastedGrows` | an instruction with its loads, or with its casts, keeps what the pass has made |
| `LegalizerInvariant` | `Spec => []LegalizerInv` |
| `LegalizerLeavesAProgram` | `Spec => []LegalizedCode` |
| `AllSorted` | the list of `_linear_scan` holds every interval once, by start |
| `SpillStep` | spilling and taking over keep the invariant of the scan |
| `ScanInvariant` | `Spec => []IInv` |
| `NoTwoValuesShareARegister` | `Spec => []NoInterference` |
| `ValuesReachTheirUses` | `Spec => []ValuesArrive`: reads by name of values that are not spilled, while hard-coded registers are kept |
| `TypeCorrect` | `Spec => []TypeOK` |

## 6. Not modelled

* Weak memory ordering, the placement of variables in memory, address
  translation of the lock words.
* The text that is printed (RVCP and C-style messages), the `fe_tb` variant of
  the end of the test.
* In the trap handler: APLIC interrupts, overrides and hooks, virtualised tests,
  `save_restore_gprs`, the walk that disables triggers.  The comparisons of tval, htval
  and gva are one.  Interrupts are those of machine-mode tests and use the default
  service routine; they are taken between actions, so not inside the emulated
  `mret` of `trap_exit`, nor inside the macros of a test.
* In the generator: attribute bits of page-table entries (with `modify_leaf_pt` and
  `modify_nonleaf_pt` beyond the memory they reserve), Svnapot, secure memory, custom
  and PMA regions, or-masks, `MEMORY` requests, a first stage that is off under a
  second one, private maps, sections of C code; the parsing of a test and the
  writing of its text.
* What the properties of the generator leave out, because the code does not promise it:
  frames that the test gives or links to another page may be shared, and addresses
  that the test gives are recorded after the roots and the sections are placed
  (`GrantsAvoidReserved` is about what was reserved *before* a draw); `PagesAreMapped`
  is about pages whose linear addresses no other page of their map has.
  `TwoStageComplete` is about `map_os`: for a second map of the virtual machine it does
  not hold, as the same page gets new tables there, of the same names, without g-stage
  pages (`pagetables.py:629`).  `NonLeafEntryIsPrivate` leaves out normal mappings with
  `all_4kb_pages`, whose reservation shrinks to a page again (`generator.py:1916`), and
  `SectionsAreContiguous` leaves out `selfcheck_data`, whose later pages are given their
  linear addresses as the physical ones (`generator.py:2706`).
* In the allocator: what spilled values hold.  The store of a spilled destination is
  emitted before the instruction that defines it and all loads of one type go through one
  temporary register, so `ValuesArrive` is about values that stay in registers.  It
  also supposes that no hard-coded register was refused: the rewritten code writes
  it all the same.  And it is about operands that name a value.  The cast of a value
  that is defined in a hard-coded register names the register instead
  (`legalizer.py:254`); `_analyze` counts uses of values only (`linear_scan.py:173`), so
  the register may be granted to another value before the cast.  The model does
  that (the tests `ByRegister` of `MCLinearScan`: the cast of `a` reads `b`), and no
  line of the repository says that it cannot happen.  Nor does a property
  catch a clobber that is listed under another name than the pool's: `csr.py:460` and 488,
  `assert_exception.py:352` and `assert_fetch_exception.py:197` list `x31`, which the pool
  calls `t6` (the comment at `csr.py:405` warns of it); in the model a register has
  one name.  `LegalizedCode` excepts values whose definition was dropped: the
  first pass drops an instruction that follows an ordinary label and needs a load.
* PMP and PMA.  Read, with two places a model should start from: an `in_pma` address
  that joins an existing region moves that region to itself (`pool.py:371` sets
  the address of the object that `generator.py:337` shares), so the addresses that
  joined it earlier lose their attributes; and `consolidated_entries` (`pma.py:152`)
  changes the entries it reads.
* The components listed as `not_modelled` in `PROJECT.json`, each with a reason.

## 7. Plan

1. PMP and PMA: the shared regions, consolidation against the set of addresses the
   regions cover, the limit on entries.
2. Proofs for any test that no page is reached through the non-leaf entry of another
   (`EntryIsAlone`), from the walk invariant and the linear ranges that were recorded for each page.
3. A finer model of interrupts in machine-mode paging (the emulated `mret`).
4. Self-checking, and spilled values of the allocator once the order of their
   stores is settled.
