----------------------------- MODULE LinearScan -----------------------------
(***************************************************************************)
(* Register allocation of a compliance test (transformer/allocator): live  *)
(* intervals over the legalized code, a linear scan that grants registers  *)
(* from a pool or spills, and the rewritten code.  The rewritten code is   *)
(* executed, one instruction at a time, on a machine whose registers hold  *)
(* the id of the instruction that defined them.                            *)
(***************************************************************************)
EXTENDS Legalizer

CONSTANTS
    RegType         \* allocatable register -> its type

TypesOfRegisters == {"gpr", "fpr"}
ASSUME RegTypeAssumption ==
    \A r \in DOMAIN RegType : RegType[r] \in TypesOfRegisters /\ r \notin {NoRegister, "t0", "ft0"}

VARIABLES
    queue,          \* intervals that are still to be placed, by their start
    active,         \* intervals that hold a register
    free,           \* RegisterPool.free_regs
    allocated,      \* RegisterPool.allocated: name -> register
    register_map,   \* name -> its place: a register, or a slot of the stack
    slots,          \* slots of the stack given out
    regs,           \* machine: register -> id of the value it holds
    stack,          \* machine: slot -> id of the value it holds
    reads           \* machine: what the last instruction read, use by use

scanVars == <<queue, active, free, allocated, register_map, slots>>
machineVars == <<regs, stack, reads>>
vars == <<legalizerVars, scanVars, machineVars>>

Registers == DOMAIN RegType
Junk == <<"junk">>

\* The register that spill code goes through; the pool never grants it.
TempOf(type) == IF type = "fpr" THEN "ft0" ELSE "t0"

-----------------------------------------------------------------------------
(***************************************************************************)
(* _analyze: an interval begins at the first definition and ends at the    *)
(* last use; a value that is read and never defined begins where it is     *)
(* read first.                                                             *)
(***************************************************************************)
Defines(instr) == instr.dest # "none"
Definitions(n) == {k \in DOMAIN code : Defines(code[k]) /\ code[k].id = n}
Uses(n) == {k \in DOMAIN code : \E u \in DOMAIN code[k].uses : code[k].uses[u].name = n}

LiveNames == {code[k].id : k \in {j \in DOMAIN code : Defines(code[j])}}
               \cup ({u.name : u \in UNION {ToSet(code[k].uses) : k \in DOMAIN code}} \ {NoName})

\* Where, in its first instruction, a name that is never defined is read.
FirstUse(n) == LET instr == code[Min(Uses(n))]
               IN  Min({u \in DOMAIN instr.uses : instr.uses[u].name = n})

Interval(n) ==
    LET defs == Definitions(n)
        start == IF defs # {} THEN Min(defs) ELSE Min(Uses(n))
    IN  [ name |-> n, start |-> start, end |-> Max(Uses(n) \cup {start}),
          type |-> IF defs # {} THEN code[start].type ELSE code[start].uses[FirstUse(n)].type ]

\* sorted by start, stably: the value an instruction defines comes before those
\* it reads
Position(n) == IF Definitions(n) # {} THEN 0 ELSE FirstUse(n)
Before(i, j) == i.start < j.start \/ (i.start = j.start /\ Position(i.name) < Position(j.name))

SortedIntervals ==
    LET all == {Interval(n) : n \in LiveNames}
    IN  [k \in 1 .. Cardinality(all) |->
            CHOOSE i \in all : Cardinality({j \in all : Before(j, i)}) = k - 1]

\* _analyze_hardcoded
HardCoded == {k \in DOMAIN code : code[k].dest = "hard"}
IsHardCoded(n) == \E k \in HardCoded : code[k].id = n
HardRegister(n) == code[Max({k \in HardCoded : code[k].id = n})].reg
HardRegisters == {code[k].reg : k \in HardCoded}

InRegister(r) == [reg |-> r, slot |-> 0]
OnStack(s) == [reg |-> NoRegister, slot |-> s]

\* insert_casts is done: LinearScan(...) and the start of _linear_scan
StartScan ==
    /\ stage = "casts" /\ NextPass("scan")
    /\ UNCHANGED <<test, resolved, pending, queue, active, free, allocated, register_map, slots, machineVars>>

Analyze ==
    /\ stage = "scan" /\ pc = 1
    /\ queue' = SortedIntervals
    /\ register_map' = [n \in {code[k].id : k \in HardCoded} |-> InRegister(HardRegister(n))]
    /\ pc' = 2
    /\ UNCHANGED <<test, code, out, resolved, pending, stage, active, free, allocated, slots, machineVars>>

\* _build_privilege_block_ranges: the instructions strictly between a start
\* marker and the end marker behind it
InPrivilegeBlock(k) ==
    \E s, e \in DOMAIN code :
        /\ s < k /\ k < e
        /\ code[s].kind = "start" /\ code[e].kind = "end"
        /\ \A j \in s + 1 .. e - 1 : code[j].kind \notin {"start", "end"}

\* Mutant: a clobber right behind the definition is missed.
ClobberedLaterIn(i) == UNION {code[k].clobbers : k \in i.start + 2 .. i.end - 1}

\* _clobber_map: what is clobbered strictly inside an interval
ClobberedIn(i) == UNION {code[k].clobbers : k \in i.start + 1 .. i.end - 1}

\* Mutant: a register comes back one instruction before its value is read.
ExpiredEarly(i) == {a \in active : a.end <= i.start + 1}

\* The active intervals that are over when i begins.
Expired(i) == {a \in active : a.end <= i.start}

\* Mutant: they stay in the list.
LiveAll(i) == active

Live(i) == active \ Expired(i)

\* The last of the active intervals, which are sorted by their end, stably.
IsLast(a, S) == \A b \in S \ {a} : b.end < a.end \/ (b.end = a.end /\ Before(b, a))

(***************************************************************************)
(* _linear_scan: one interval.  Expired intervals give their registers     *)
(* back.  An interval is granted a register while fewer intervals are      *)
(* active, of any type, than registers are left for it; else it is         *)
(* spilled, or it takes the register of the active interval of its type    *)
(* that ends last, which is spilled instead.  An interval that takes a     *)
(* register is not active: the register never comes back to the pool.      *)
(***************************************************************************)
PoolAt(i) == free \cup {allocated[a.name] : a \in Expired(i)}
Held(i) == [n \in DOMAIN allocated \ {a.name : a \in Expired(i)} |-> allocated[n]]
Candidates(i) == {r \in PoolAt(i) : RegType[r] = i.type /\ r \notin ClobberedIn(i)}
Short(i) == Cardinality(Live(i)) >= Cardinality(Candidates(i))

\* a hard-coded register that is not in the pool any more raises
Granted(i) == IF IsHardCoded(i.name) THEN Candidates(i) \cap {HardRegister(i.name)} ELSE Candidates(i)

\* The dictionary f with key k set to v.
Put(f, k, v) == [x \in {k} \cup DOMAIN f |-> IF x = k THEN v ELSE f[x]]

Grant(i) ==
    /\ ~ Short(i)
    /\ \E r \in Granted(i) :
          /\ free' = PoolAt(i) \ {r}
          /\ allocated' = Put(Held(i), i.name, r)
          /\ register_map' = Put(register_map, i.name, InRegister(r))
    /\ active' = Live(i) \cup {i}
    /\ UNCHANGED slots

SameType(i) == {a \in Live(i) : a.type = i.type}
Loser(i, last) == IF last.end > i.end THEN last ELSE i
Blocked(i) == \E k \in i.start .. i.end : InPrivilegeBlock(k)

Spill(i) ==
    /\ Short(i)
    /\ \E last \in SameType(i) :
          /\ IsLast(last, SameType(i)) /\ ~ Blocked(Loser(i, last))
          /\ \/ /\ Loser(i, last) = i
                /\ register_map' = Put(register_map, i.name, OnStack(slots + 1))
                /\ active' = Live(i)
             \/ /\ Loser(i, last) # i
                /\ register_map' = Put(Put(register_map, last.name, OnStack(slots + 1)),
                                         i.name, register_map[last.name])
                /\ active' = Live(i) \ {last}
    /\ slots' = slots + 1
    /\ free' = PoolAt(i) /\ allocated' = Held(i)

Raises(i) ==
    \/ ~ Short(i) /\ Granted(i) = {}
    \/ Short(i) /\ \A last \in SameType(i) : IsLast(last, SameType(i)) => Blocked(Loser(i, last))

Scanning == stage = "scan" /\ pc = 2 /\ queue # << >>

PlaceInterval ==
    /\ Scanning
    /\ Grant(Head(queue)) \/ Spill(Head(queue))
    /\ queue' = Tail(queue)
    /\ UNCHANGED <<legalizerVars, machineVars>>

FailToPlace ==
    /\ Scanning /\ Raises(Head(queue))
    /\ stage' = "failed"
    /\ UNCHANGED <<test, code, out, pc, resolved, pending, scanVars, machineVars>>

FinishScan ==
    /\ stage = "scan" /\ pc = 2 /\ queue = << >>
    /\ stage' = "run" /\ pc' = 1
    /\ UNCHANGED <<test, code, out, resolved, pending, scanVars, machineVars>>

-----------------------------------------------------------------------------
(***************************************************************************)
(* _apply_linear_scan, and what its output does when it runs: the store of *)
(* a spilled destination and the loads of spilled sources are emitted      *)
(* before the instruction, in that order, and all go through the           *)
(* temporary register of their type.                                       *)
(***************************************************************************)
Spilled(n) == register_map[n].reg = NoRegister
SpilledUse(u) == u.name # NoName /\ Spilled(u.name)

TargetOf(instr) == IF instr.dest = "hard" THEN instr.reg
                   ELSE IF Spilled(instr.id) THEN TempOf(instr.type)
                   ELSE register_map[instr.id].reg

Execute ==
    LET instr  == code[pc]
        \* _push_stack
        stored == IF instr.dest = "virtual" /\ Spilled(instr.id)
                  THEN [stack EXCEPT ![register_map[instr.id].slot] = regs[TempOf(instr.type)]]
                  ELSE stack
        \* _pop_stack, for each spilled use
        loadsInto(r) == {u \in DOMAIN instr.uses : SpilledUse(instr.uses[u]) /\ TempOf(instr.uses[u].type) = r}
        loaded == [r \in DOMAIN regs |->
                     IF loadsInto(r) = {} THEN regs[r]
                     ELSE stored[register_map[instr.uses[Max(loadsInto(r))].name].slot]]
        operand(u) == IF u.name = NoName THEN u.reg
                      ELSE IF SpilledUse(u) THEN TempOf(u.type) ELSE register_map[u.name].reg
    IN  /\ stage = "run" /\ ~ AtEnd
        /\ reads' = [u \in DOMAIN instr.uses |-> loaded[operand(instr.uses[u])]]
        /\ regs' = [r \in DOMAIN regs |->
                      IF Defines(instr) /\ r = TargetOf(instr) THEN instr.id
                      ELSE IF r \in instr.clobbers THEN Junk ELSE loaded[r]]
        /\ stack' = stored
        /\ pc' = pc + 1
        /\ UNCHANGED <<test, code, out, resolved, pending, stage, scanVars>>

Stop == (stage = "failed" \/ (stage = "run" /\ AtEnd)) /\ UNCHANGED vars

Init ==
    /\ LegalizerInit
    /\ queue = << >> /\ active = {}
    /\ free = Registers /\ allocated = << >>
    /\ register_map = << >> /\ slots = 0
    /\ regs = [r \in Registers \cup {"t0", "ft0"} |-> Junk]
    /\ stack = [s \in 1 .. Len(test) * 4 |-> Junk]
    /\ reads = << >>

Legalize == (ResolveImmediates \/ StartCasts \/ InsertCasts) /\ UNCHANGED <<scanVars, machineVars>>

Next == Legalize \/ StartScan \/ Analyze \/ PlaceInterval \/ FailToPlace \/ FinishScan \/ Execute \/ Stop

Spec == Init /\ [][Next]_vars

-----------------------------------------------------------------------------
(***************************************************************************)
(* Type invariant: the pool and the names it granted registers to share    *)
(* the registers out between them, every active interval has one, and a    *)
(* name is in a register, one that code names perhaps, or has a slot.      *)
(***************************************************************************)
TypeOK ==
    /\ test \in Tests
    /\ stage \in {"immediates", "casts", "scan", "run", "failed"}
    /\ pc \in 1 .. Len(code) + 2
    /\ \A n, o \in DOMAIN allocated : n # o => allocated[n] # allocated[o]
    /\ free \cap Range(allocated) = {} /\ free \cup Range(allocated) = Registers
    /\ \A a \in active : a.name \in DOMAIN allocated
    /\ slots \in Nat
    /\ \A n \in DOMAIN register_map :
          \/ register_map[n].reg \in Registers \cup HardRegisters
          \/ register_map[n].slot \in 1 .. slots

(***************************************************************************)
(* The legalizer leaves a program: whatever an instruction reads was       *)
(* defined before it, with the type it is read in (or by an instruction    *)
(* that was dropped behind a label); no name is defined behind its last    *)
(* use, unless it is defined there first; and a fault label that stood     *)
(* right before an instruction still does, whatever was inserted for it.   *)
(***************************************************************************)
Dropped(n) == \A k \in DOMAIN code : code[k].id # n

LegalizedCode ==
    stage \in {"scan", "run"} =>
        /\ \A k \in DOMAIN code : \A u \in ToSet(code[k].uses) :
              u.name # NoName => \/ Dropped(u.name)
                             \/ \E d \in Definitions(u.name) : d < k /\ code[d].type = u.type
        /\ \A k \in DOMAIN code : Defines(code[k]) => k <= Interval(code[k].id).end
        /\ \A j \in 1 .. Len(test) - 1 :
              test[j].kind = "fault_label" /\ ~ IsLabel(test[j + 1]) =>
                  \E k \in 1 .. Len(code) - 1 : /\ code[k].id = test[j].id
                                                /\ code[k + 1].id = test[j + 1].id

(***************************************************************************)
(* Two values that are alive at the same time are never in one register,   *)
(* one that took its register from a spilled value included.               *)
(***************************************************************************)
Placed == DOMAIN register_map \ {queue[k].name : k \in DOMAIN queue}

NoInterference ==
    stage \in {"scan", "run"} /\ pc # 1 =>
        \A n, o \in Placed :
            n # o /\ register_map[n].reg = register_map[o].reg /\ ~ Spilled(n) =>
                \/ Interval(n).end <= Interval(o).start
                \/ Interval(o).end <= Interval(n).start

(***************************************************************************)
(* An instruction that reads a value by its name, one that stays in a      *)
(* register, reads what it read before the allocation, across calls and    *)
(* macros that clobber registers, one that took its register from a        *)
(* spilled value included: it lives inside that one's life, so nothing     *)
(* clobbers the register.  Left out are values that are spilled, whatever  *)
(* is read once a hard-coded register was refused to the instruction that  *)
(* nevertheless writes it, and what a cast reads by the name of a register *)
(* (the value of an instruction with a hard-coded one): _analyze does not  *)
(* count that read, and the register may be granted again before the cast. *)
(***************************************************************************)
HardCodedKept == \A k \in HardCoded : register_map[code[k].id].reg = code[k].reg

ValuesArrive ==
    stage = "run" /\ pc > 1 /\ HardCodedKept =>
        \A u \in DOMAIN reads :
            LET n == code[pc - 1].uses[u].name
            IN  n # NoName /\ Definitions(n) # {} /\ ~ Spilled(n) => reads[u] = n
=============================================================================
