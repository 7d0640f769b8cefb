----------------------------- MODULE Legalizer -----------------------------
(***************************************************************************)
(* Legalization of a compliance test (test_plan/transformer/legalizer.py). *)
(* A test is a list of instructions over virtual registers.  A first pass  *)
(* gives every register that is read and that no instruction before        *)
(* defined a load immediate, a second pass inserts a cast where the type   *)
(* that is read is not the type that was defined; a fault label has to     *)
(* stay right before the instruction that faults.                          *)
(*                                                                         *)
(* An instruction is a record: kind "op", "label" (a place in the test),   *)
(* "fault_label" (instruction_pointer is set and the name says so), or     *)
(* "start" and "end" of a privilege block; its id; dest "none", "virtual"  *)
(* (named like the id) or "hard" (the register reg); the type it defines;  *)
(* uses, the registers it reads, each by name or, with an empty name, as   *)
(* the register reg; and the registers it clobbers.  Immediates, symbols   *)
(* and literal register names are not modelled.                            *)
(***************************************************************************)
EXTENDS Integers, SequencesExt

CONSTANT Tests      \* the elaborated tests: sequences of instructions

IsSequence(s) == s \in Seq(ToSet(s))
IsInstruction(i) ==
    /\ DOMAIN i = {"kind", "id", "dest", "reg", "type", "uses", "clobbers"}
    /\ IsSequence(i.uses) /\ \A u \in DOMAIN i.uses : DOMAIN i.uses[u] = {"name", "reg", "type"}
IsCode(c) == IsSequence(c) /\ \A k \in DOMAIN c : IsInstruction(c[k])
ASSUME TestsAssumption == \A t \in Tests : IsCode(t)

IsLabel(instr) == instr.kind \in {"label", "fault_label"}
Reads(instr, n) == \E u \in DOMAIN instr.uses : instr.uses[u].name = n

\* The ids that new_value_id gives to casts, new ones.
CastIds == {"cast"} \X Nat \X Nat

(***************************************************************************)
(* What the passes are given, by the elaborator: "all IDs should be set    *)
(* before they appear as a source register" (legalizer.py, line 49), so an *)
(* instruction reads what comes before it, or what nobody defines; a label *)
(* has no operands.                                                        *)
(***************************************************************************)
Elaborated(t) ==
    /\ \A j, k \in DOMAIN t : Reads(t[j], t[k].id) => \E l \in 1 .. j - 1 : t[l].id = t[k].id
    /\ \A k \in DOMAIN t :
         /\ IsLabel(t[k]) => t[k].dest = "none" /\ t[k].uses = << >>
         /\ t[k].id \notin CastIds /\ \A u \in DOMAIN t[k].uses : t[k].uses[u].name \notin CastIds
ASSUME ElaborationAssumption == \A t \in Tests : Elaborated(t)

VARIABLES
    test,       \* the test that is transformed
    code,       \* its instructions, as the last pass left them
    out,        \* what the current pass has emitted
    pc,         \* the instruction the current pass is at
    resolved,   \* ids of the instructions that the first pass has seen
    pending,    \* the fault label that the second pass holds back
    stage       \* "immediates", "casts", then the allocator's; or "failed"

legalizerVars == <<test, code, out, pc, resolved, pending, stage>>

NoRegister == ""
NoName == << >>

\* li: its destination is a general-purpose register named like the source.
LoadImmediate(use) ==
    [kind |-> "op", id |-> use.name, dest |-> "virtual", reg |-> NoRegister, type |-> "gpr",
     uses |-> << >>, clobbers |-> {}]

AtEnd == pc = Len(code) + 1

\* The k-th smallest number of a set.
Nth(S, k) == CHOOSE i \in S : Cardinality({j \in S : j < i}) = k - 1

(***************************************************************************)
(* resolve_li_immediates: one instruction.  After a fault label the loads  *)
(* are put before the label.  After any other label an instruction that    *)
(* needs loads is dropped (the loop goes on to the next one).              *)
(***************************************************************************)
ResolveImmediates ==
    LET instr   == code[pc]
        known   == resolved \cup {instr.id}
        missing == {u \in DOMAIN instr.uses : instr.uses[u].name \notin known \cup {NoName}}
        loads   == [k \in 1 .. Cardinality(missing) |-> LoadImmediate(instr.uses[Nth(missing, k)])]
        moves   == pc > 1 /\ IsLabel(code[pc - 1]) /\ missing # {}
    IN  /\ stage = "immediates" /\ ~ AtEnd
        /\ UNCHANGED <<test, code, pending>>
        /\ \/ /\ instr.id \in resolved
              /\ stage' = "failed"
              /\ UNCHANGED <<out, pc, resolved>>
           \/ /\ instr.id \notin resolved
              /\ resolved' = known
              /\ out' = IF ~ moves THEN out \o loads \o <<instr>>
                        ELSE IF code[pc - 1].kind = "fault_label"
                        THEN Front(out) \o loads \o <<Last(out), instr>>
                        ELSE out
              /\ pc' = pc + 1
              /\ UNCHANGED stage

NextPass(next) ==
    /\ AtEnd
    /\ code' = out /\ out' = << >> /\ pc' = 1
    /\ stage' = next

StartCasts == /\ stage = "immediates" /\ NextPass("casts")
              /\ UNCHANGED <<test, resolved, pending>>

\* The instruction whose value a name stands for: the last one with that id.
Producer(name) == code[Max({k \in DOMAIN code : code[k].id = name})]
Produced(use) == use.name # NoName /\ \E k \in DOMAIN code : code[k].id = use.name
NeedsCast(use) == Produced(use) /\ Producer(use.name).type # use.type

(***************************************************************************)
(* _resolve_casts and _rewire_cast_instruction: the casts of one           *)
(* instruction, and the instruction reading their results.  The cast of a  *)
(* value that is defined in a hard-coded register reads that register.     *)
(***************************************************************************)
CastId(k) == <<"cast", pc, k>>
Cast(k) ==
    LET use == code[pc].uses[k]
        p   == Producer(use.name)
    IN  [kind |-> "op", id |-> CastId(k), dest |-> "virtual", reg |-> NoRegister, type |-> use.type,
         uses |-> <<[name |-> IF p.dest = "hard" THEN NoName ELSE p.id, reg |-> p.reg, type |-> p.type]>>,
         clobbers |-> {}]

CastsOf(instr) ==
    LET ks == {k \in DOMAIN instr.uses : NeedsCast(instr.uses[k])}
    IN  [i \in 1 .. Cardinality(ks) |-> Cast(Nth(ks, i))]

\* Mutant: the instruction goes on reading the value that was cast.
NotRewired(instr) == instr

Rewired(instr) ==
    [instr EXCEPT !.uses = [k \in DOMAIN instr.uses |->
        IF NeedsCast(instr.uses[k]) THEN [instr.uses[k] EXCEPT !.name = CastId(k)] ELSE instr.uses[k]]]

\* insert_casts: one instruction.  A fault label waits for the instruction
\* behind it; one that waits when the next comes, or the end, is lost.
InsertCasts ==
    LET instr == code[pc]
    IN  /\ stage = "casts" /\ ~ AtEnd
        /\ UNCHANGED <<test, code, resolved>>
        /\ \/ /\ instr.kind = "fault_label"
              /\ pending' = <<instr>>
              /\ pc' = pc + 1
              /\ UNCHANGED <<out, stage>>
           \/ /\ instr.kind # "fault_label"
              /\ \A k \in DOMAIN instr.uses :
                    Produced(instr.uses[k]) => Producer(instr.uses[k].name).dest # "none"
              /\ out' = out \o CastsOf(instr) \o pending \o <<Rewired(instr)>>
              /\ pending' = << >>
              /\ pc' = pc + 1
              /\ UNCHANGED stage
           \/ /\ \E k \in DOMAIN instr.uses :
                    Produced(instr.uses[k]) /\ Producer(instr.uses[k].name).dest = "none"
              /\ stage' = "failed"
              /\ UNCHANGED <<out, pc, pending>>

LegalizerInit ==
    /\ test \in Tests
    /\ code = test /\ out = << >> /\ pc = 1
    /\ resolved = {} /\ pending = << >>
    /\ stage = "immediates"

-----------------------------------------------------------------------------
(* The inductive invariant behind LegalizedCode                            *)

TestIds == {test[k].id : k \in DOMAIN test}
IsLoad(instr) == instr = LoadImmediate([name |-> instr.id])

\* What the first pass has made, s, of the first p instructions: these, some of
\* them dropped, and loads of values that nobody defines, each before somebody
\* who reads it.
Resolved(s, p) ==
    /\ \A j, k \in 1 .. p : test[j].id = test[k].id => j = k
    /\ \A k \in DOMAIN s :
         \/ \E j \in 1 .. p : s[k] = test[j]
         \/ /\ IsLoad(s[k]) /\ s[k].id \notin TestIds \cup CastIds
            /\ \E l \in DOMAIN s : l > k /\ Reads(s[l], s[k].id)
    /\ \A k, l \in DOMAIN s : s[k].id = s[l].id /\ s[k].id \in TestIds => k = l
    /\ \A k \in DOMAIN s : \A u \in DOMAIN s[k].uses :
         LET n == s[k].uses[u].name
         IN  n # NoName => \/ \E d \in 1 .. k - 1 : s[d].id = n
                           \/ /\ \E j \in 1 .. p : test[j].id = n
                              /\ \A d \in DOMAIN s : s[d].id # n
    /\ \A j \in 1 .. p - 1 :
         test[j].kind = "fault_label" /\ ~ IsLabel(test[j + 1]) =>
             \E k \in 1 .. Len(s) - 1 : s[k] = test[j] /\ s[k + 1] = test[j + 1]
    /\ p > 0 /\ IsLabel(test[p]) => s # << >> /\ Last(s) = test[p]

Same(a, b) == a.id = b.id /\ a.dest = b.dest /\ a.type = b.type
DefinedBefore(s, k, use) ==
    \E d \in 1 .. k - 1 : s[d].id = use.name /\ s[d].dest # "none" /\ s[d].type = use.type
Once(s, k) == \A l \in DOMAIN s : s[l].id = s[k].id => l = k
ReadLater(s, k) == \E l \in DOMAIN s : l > k /\ Reads(s[l], s[k].id)

\* What the second pass has made, s, of the first p instructions of the code.
Casted(s, p) ==
    /\ \A k \in DOMAIN s : \/ \E j \in 1 .. p : Same(s[k], code[j])
                            \/ s[k].id \in {"cast"} \X (1 .. p) \X Nat
    /\ \A j \in 1 .. p : code[j].kind # "fault_label" => \E k \in DOMAIN s : Same(s[k], code[j])
    /\ \A k \in DOMAIN s : \A u \in DOMAIN s[k].uses :
         LET use == s[k].uses[u]
         IN  use.name # NoName => \/ DefinedBefore(s, k, use)
                                  \/ /\ use.name \notin CastIds
                                     /\ \A j \in DOMAIN code : code[j].id # use.name
    /\ \A k \in DOMAIN s :
         IF s[k].id \in TestIds \cup CastIds THEN Once(s, k)
         ELSE ReadLater(s, k) \/ \E j \in p + 1 .. Len(code) : Reads(code[j], s[k].id)
    /\ \A j \in 1 .. p - 1 :
         code[j].kind = "fault_label" /\ ~ IsLabel(code[j + 1]) =>
             \E k \in 1 .. Len(s) - 1 : s[k].id = code[j].id /\ s[k + 1].id = code[j + 1].id

\* What both have made of the test.
Legal(s) ==
    /\ \A k \in DOMAIN s : \A u \in DOMAIN s[k].uses :
         LET use == s[k].uses[u]
         IN  use.name # NoName => DefinedBefore(s, k, use) \/ \A d \in DOMAIN s : s[d].id # use.name
    /\ \A k \in DOMAIN s : Once(s, k) \/ ReadLater(s, k)
    /\ \A j \in 1 .. Len(test) - 1 :
         test[j].kind = "fault_label" /\ ~ IsLabel(test[j + 1]) =>
             \E k \in 1 .. Len(s) - 1 : s[k].id = test[j].id /\ s[k + 1].id = test[j + 1].id

LegalizerInv ==
    /\ test \in Tests
    /\ stage = "immediates" =>
         /\ code = test /\ pending = << >> /\ Resolved(out, pc - 1)
         /\ resolved = {test[k].id : k \in 1 .. pc - 1}
    /\ stage = "casts" =>
         /\ Resolved(code, Len(test)) /\ Casted(out, pc - 1 - Len(pending))
         /\ pending = IF pc > 1 /\ code[pc - 1].kind = "fault_label" THEN <<code[pc - 1]>> ELSE << >>
    /\ stage \in {"scan", "run"} => Legal(code)
=============================================================================
