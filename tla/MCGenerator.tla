---------------------------- MODULE MCGenerator ----------------------------
(***************************************************************************)
(* Small instance: pages of 2 bytes, tables of 8 entries, two levels, both *)
(* address spaces of 128 bytes.  A superpage has 16 bytes.  Of the         *)
(* addresses that fit, a draw takes the lowest or the highest.             *)
(***************************************************************************)
EXTENDS Generator

MCClusterStart == [i \in 0 .. 6 |-> 2 ^ i]
MCDraw(t, c, S) == {x \in S : \/ "low" \in t.draw[c.qualifier] /\ \A y \in S : x <= y
                              \/ "high" \in t.draw[c.qualifier] /\ \A y \in S : y <= x}
Low == {"low"}
High == {"high"}
Both == {"low", "high"}
MCSectionPages == [runtime |-> 2, runtime_s |-> 1, code |-> 2, code_super |-> 1, code_machine |-> 1,
                   data |-> 2, io_htif |-> 1, selfcheck_data |-> 2, test_execution_data |-> 2]

N(b) == Base(b)
Named(b, isLinear) == [do |-> "addr", name |-> N(b), linear |-> isLinear, size |-> PageBytes, align |-> PageBytes]
Lin(b) == Named(b, TRUE)
Phys(b) == Named(b, FALSE)

Normal(l, p) == [do |-> "mapping", kind |-> "normal", name |-> N(l), phys |-> N(p), levels |-> {},
                 glevels |-> {}, own |-> "none", maps |-> {}, lin |-> None, pa |-> None, linked |-> << >>]
RandomMapping(l) == [Normal(l, "&random") EXCEPT !.kind = "random"]
Fixed(l, lin, p, pa) == [Normal(l, p) EXCEPT !.kind = "fixed", !.lin = lin, !.pa = pa]
Link(l, offset, levels) == [name |-> N(l), offset |-> offset, levels |-> levels]
ResMem(isLinear, start, size) == [do |-> "res_mem", linear |-> isLinear, start |-> start, size |-> size]

Plain == [paging |-> TRUE, two_stage |-> FALSE, all4k |-> FALSE, machine |-> FALSE, random_code |-> FALSE,
          maps |-> << >>, sections |-> << >>, res_mems |-> << >>, mappings |-> << >>, addrs |-> << >>,
          dram |-> {<<16, 127>>}, reserved |-> {},
          draw |-> [linear |-> Both, dram |-> Low]]
Drawing(ts, l, d) == {[t EXCEPT !.draw = [linear |-> l, dram |-> d]] : t \in ts}

\* Sections around the code and the last identity section, and one mapping.
Sectioned ==
    [Plain EXCEPT !.sections = <<"runtime", "code", "io_htif">>,
                  !.mappings = <<RandomMapping("a")>>, !.addrs = <<Lin("a")>>]

\* Machine mode with code at random addresses, data that is saved and logged.
MachineMode ==
    [Plain EXCEPT !.machine = TRUE, !.random_code = TRUE,
                  !.sections = <<"runtime", "code", "selfcheck_data", "test_execution_data">>]

\* Two names for one frame, one of them before and one behind it, memory that
\* is reserved late, a second map.
Aliases ==
    [Plain EXCEPT !.maps = <<"map_user">>,
                  !.res_mems = <<ResMem(TRUE, 60, 8), ResMem(FALSE, 12, 16)>>,
                  !.mappings = <<[Normal("a", "p") EXCEPT !.maps = {"map_user"}],
                                 [Normal("b", "p") EXCEPT !.levels = {0}],
                                 RandomMapping("c"), [RandomMapping("c") EXCEPT !.maps = {"map_user"}]>>,
                  !.addrs = <<Lin("a"), Phys("p"), Lin("b"), Lin("c")>>]

\* Mappings that need non-leaf entries of their own.
OwnersOf(own) ==
    [Plain EXCEPT !.sections = <<"data">>,
                  !.mappings = <<[Normal("a", "p") EXCEPT !.own = own], RandomMapping("b")>>,
                  !.addrs = <<Lin("a"), Phys("p"), Lin("b")>>]
OwnerInTwoMaps ==
    [Plain EXCEPT !.maps = <<"map_user">>,
                  !.mappings = <<[RandomMapping("a") EXCEPT !.own = "modify_pt", !.maps = {"map_user"}]>>,
                  !.addrs = <<Lin("a")>>]
OwnerAtTop ==
    [Plain EXCEPT !.mappings = <<[Normal("a", "p") EXCEPT !.own = "nonleaf", !.levels = {TopLevel}],
                                 RandomMapping("b")>>,
                  !.addrs = <<Lin("a"), Phys("p"), Lin("b")>>]
Owners == {OwnersOf("nonleaf"), OwnersOf("modify_pt"), OwnerInTwoMaps, OwnerAtTop}

\* Given addresses, and pages linked to another.
Given ==
    [Plain EXCEPT !.all4k = TRUE,
                  !.mappings = <<Fixed("a", 6, "&random", None), Fixed("b", 64, "pb", 96),
                                 Fixed("c", None, "pc", 48),
                                 [Normal("d", "p") EXCEPT !.linked = <<Link("d+", 2, {})>>]>>,
                  !.addrs = <<Lin("d"), Phys("p")>>]

\* Given superpages that cover, or are covered by, smaller ones.
Covered ==
    [Plain EXCEPT !.mappings = <<[Fixed("a", 64, "&random", None) EXCEPT !.levels = {1}],
                                 [Fixed("b", 66, "pb", 96) EXCEPT !.levels = {0}],
                                 [Fixed("c", 98, "pc", 98) EXCEPT !.levels = {0}],
                                 [Fixed("d", 96, "pd", 96) EXCEPT !.levels = {1}],
                                 [Normal("e", "p") EXCEPT !.linked = <<Link("e+", 16, {0, 1})>>]>>,
                  !.addrs = <<Lin("e"), Phys("p")>>]

\* The last page of a map is covered, and there is another map.
CoveredLast ==
    [Plain EXCEPT !.maps = <<"map_user">>,
                  !.mappings = <<[Fixed("a", 64, "pa", 96) EXCEPT !.levels = {1}],
                                 [Fixed("b", 66, "pb", 66) EXCEPT !.levels = {0}, !.maps = {"map_user"}]>>]

\* No paging.
Bare ==
    [Plain EXCEPT !.paging = FALSE,
                  !.sections = <<"runtime", "code", "data">>,
                  !.mappings = <<Normal("a", "p"), RandomMapping("b"), Fixed("c", 10, "&random", None)>>,
                  !.addrs = <<Lin("a"), Phys("p"), Lin("b")>>]

\* Two stages, with g-stage pages larger and smaller than the VS-stage's.
TwoStage ==
    [Plain EXCEPT !.two_stage = TRUE,
                  !.mappings = <<[Normal("a", "p") EXCEPT !.glevels = {0, 1}],
                                 [RandomMapping("b") EXCEPT !.levels = {0}]>>,
                  !.addrs = <<Phys("p"), Lin("a"), Lin("b")>>]

TwoStageOwner ==
    [Plain EXCEPT !.two_stage = TRUE, !.all4k = TRUE,
                  !.mappings = <<[RandomMapping("b") EXCEPT !.own = "modify_pt"]>>,
                  !.addrs = <<Lin("b")>>]

\* Too little memory, in either space.
Scarce ==
    {[Plain EXCEPT !.dram = {<<16, hi>>}, !.sections = <<"data">>,
                   !.mappings = <<RandomMapping("a"), Fixed("b", 6, "&random", None)>>,
                   !.addrs = <<Lin("a"), Phys("p")>>] : hi \in {18, 20, 23, 25, 28, 31}}
      \cup {[Plain EXCEPT !.reserved = {<<lo, 127>>}, !.dram = {<<8, 63>>}, !.sections = <<"data">>,
                   !.mappings = <<[RandomMapping("a") EXCEPT !.own = "modify_pt"]>>,
                   !.addrs = <<Lin("a")>>] : lo \in {3, 17, 32, 48}}

\* Small tests draw both ways in both spaces, the others in one of them.
Small == {Bare} \cup Scarce
Medium == {Sectioned, MachineMode, Aliases, Given, Covered, CoveredLast} \cup Owners
MCTests == Drawing(Small, Both, Both)
             \cup Drawing(Medium, Both, Low) \cup Drawing(Medium, High, Both)
             \cup Drawing({TwoStage, TwoStageOwner}, Low, Low)
             \cup Drawing({TwoStage, TwoStageOwner}, Both, High)

\* The frames of these tests are their own, and with two stages the names of their
\* pages, which the proofs assume.
ASSUME MCFramesAreOwned == FramesAreOwned
ASSUME MCPagesAreNamedOnce == PagesAreNamedOnce
=============================================================================
