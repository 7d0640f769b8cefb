----------------------------- MODULE Generator -----------------------------
(***************************************************************************)
(* The generator of a test (generator/generator.py): the addresses of the  *)
(* sections, of the page maps' roots, of the reserved memory, of the page  *)
(* mappings and of the named addresses are placed one after the other in   *)
(* the two address spaces, the pages that result are collected, and then   *)
(* the page tables are built (PageTables).  Every handler is an action; a  *)
(* random draw of the code is a choice of the action.                      *)
(*                                                                         *)
(* Not modelled: two-stage translation with the VS stage off, secure       *)
(* memory, custom and PMA regions, private maps, wysiwyg tests, the C      *)
(* sections, modify_leaf_pt and modify_nonleaf_pt; canonical addresses are *)
(* kept in their short form.                                               *)
(***************************************************************************)
EXTENDS PageTables

CONSTANTS
    Tests,          \* the parsed tests, each with the options and the memory it is
                    \* generated with
    ResetPc,        \* where the runtime starts
    IoAddr,         \* where tohost lies
    SectionPages    \* section -> number of its pages

VARIABLES
    todo,       \* the calls that generate() still makes, in their order
    behind,     \* section -> the addresses right behind its last page placed
    geometry,   \* linear name -> page sizes and reservation of its mapping
    parsed      \* name -> size and alignment its random_addr asks for

vars == <<tableVars, todo, behind, geometry, parsed>>
placeVars == <<cfg, pt_pages, root, pte, cursor>>

Sections == DOMAIN SectionPages
MaxOf(a, b) == IF a < b THEN b ELSE a

-----------------------------------------------------------------------------
(***************************************************************************)
(* handle_sections: one call of add_section_handler places the section,    *)
(* one more each of its pages but the first.  A place says which of the    *)
(* two addresses a call passes:                                            *)
(*   "random"       none                                                   *)
(*   "reset", "io"  a fixed physical address                               *)
(*   "after"        both addresses behind the page before                  *)
(*   "after_pa"     the physical address behind the page before            *)
(*   "after_lin"    the linear address behind it, as the physical one      *)
(*   "runtime_end"  the linear address behind the runtime                  *)
(***************************************************************************)
SectionCall(s, i, bytes, place, identity, skip) ==
    [do |-> "section", section |-> s, page |-> i, bytes |-> bytes,
     place |-> place, identity |-> identity, skip |-> skip]

\* Mutant: the later pages are only told their physical address.
SectionCallsPhysical(s, bytes, place, rest, identity, skip) ==
    [i \in 1 .. SectionPages[s] |->
        IF i = 1 THEN SectionCall(s, 1, bytes, place, identity, skip)
                 ELSE SectionCall(s, i, PageBytes, "after_pa", FALSE, skip)]

SectionCalls(s, bytes, place, rest, identity, skip) ==
    [i \in 1 .. SectionPages[s] |->
        IF i = 1 THEN SectionCall(s, 1, bytes, place, identity, skip)
                 ELSE SectionCall(s, i, PageBytes, rest, FALSE, skip)]

BytesOf(S) == PageBytes * MapThenSumSet(LAMBDA s : SectionPages[s], S)
CodeSections == {"code", "code_super", "code_machine"}

\* The runtime's own pages and those of its supervisor part behind them; the
\* first call records the memory of all, and of the code unless that is placed
\* by itself.
RuntimeCalls(t) ==
    LET covered == {"runtime", "runtime_s"} \cup IF t.random_code THEN {} ELSE CodeSections
    IN  SectionCalls("runtime", BytesOf(covered), "reset", "after_pa", FALSE, TRUE)
          \o SectionCalls("runtime_s", BytesOf({"runtime_s"}), "after", "after", FALSE, FALSE)

\* The code, and behind it the supervisor and the machine code.
CodeCalls(t) ==
    SectionCalls("code", BytesOf(CodeSections), IF t.random_code THEN "random" ELSE "runtime_end",
                 IF t.machine THEN "after_lin" ELSE "after", FALSE, t.machine)
      \o SectionCalls("code_super", PageBytes, "after", "after", FALSE, FALSE)
      \o SectionCalls("code_machine", PageBytes, "after", "after", FALSE, TRUE)

HandleSection(t, s) ==
    CASE s = "runtime"  -> RuntimeCalls(t)
      [] s = "code"     -> CodeCalls(t)
      [] s = "io_htif"  -> SectionCalls(s, 1, "io", "io", TRUE, FALSE)
      [] s = "selfcheck_data" -> SectionCalls(s, BytesOf({s}), "random", "after_lin", FALSE, FALSE)
      [] s = "test_execution_data" -> SectionCalls(s, BytesOf({s}), "random", "after_lin", FALSE, TRUE)
      [] OTHER -> SectionCalls(s, BytesOf({s}), "random", "after", FALSE, FALSE)

\* The pages of the sections that follow the runtime or the code belong to
\* one run of consecutive addresses.
Group(s) == IF s = "runtime_s" THEN "runtime"
            ELSE IF s \in CodeSections THEN "code" ELSE s

\* address_mask_from_size: the largest power of two in the size
AlignOf(bytes) == Max({2 ^ k : k \in {j \in 0 .. PhysicalBits : 2 ^ j <= bytes}})

StartAddr(c) ==
    LET b == behind[Group(c.section)]
    IN  [random |-> None, reset |-> ResetPc, io |-> IoAddr, after |-> b[2],
         after_pa |-> b[2], after_lin |-> b[1], runtime_end |-> None][c.place]

StartLin(c) ==
    [random |-> None, reset |-> None, io |-> None, after |-> behind[Group(c.section)][1],
     after_pa |-> None, after_lin |-> None, runtime_end |-> behind["runtime"][1]][c.place]

AddSection ==
    LET c == Head(todo)
        identity == c.identity \/ ~ cfg.paging
        skip == c.skip \/ ~ cfg.paging
        pa == IF identity /\ StartAddr(c) = None THEN StartLin(c) ELSE StartAddr(c)
        va == IF identity THEN None ELSE StartLin(c)
        fixed == IF pa = None /\ skip THEN va ELSE pa
        pc == Request(c.bytes, AlignOf(c.bytes), PhysicalBits, "dram")
        lc == Request(c.bytes, AlignOf(c.bytes), LinearBits, "linear")
        linear_drawn == va = None /\ ~ skip /\ ~ identity
        linear_left  == va = None /\ pa = None /\ skip /\ ~ identity
        name == <<c.section, c.page, << >> >>
    IN  /\ stage = "addresses" /\ todo # << >> /\ c.do = "section"
        /\ UNCHANGED <<placeVars, geometry, parsed>>
        /\ \/ \E phys \in IF fixed = None THEN Grantable(physical, pc) ELSE {fixed} :
                 \E lin \in IF linear_drawn THEN Grantable(linear, lc)
                            ELSE IF va = None THEN {phys} ELSE {va} :
                    /\ physical' = IF fixed = None THEN Allocate(physical, pc, phys)
                                                   ELSE Reserve(physical, phys, c.bytes)
                    /\ linear' = IF linear_drawn THEN Allocate(linear, lc, lin)
                                 ELSE IF linear_left THEN linear
                                 ELSE Reserve(linear, lin, c.bytes)
                    /\ pages' = IF skip THEN pages
                                ELSE AddPages(DOMAIN pages, <<Page4K(name, lin, phys, c.section)>>)
                    /\ addr' = Put(Put(addr, Derived(name, "phys", 0), phys), name, lin)
                    /\ behind' = [behind EXCEPT ![Group(c.section)] =
                                    <<lin + PageBytes, phys + PageBytes>>]
                    /\ todo' = Tail(todo)
                    /\ UNCHANGED stage
           \/ /\ \/ fixed = None /\ CanFail(physical, pc)
                 \/ linear_drawn /\ CanFail(linear, lc)
              /\ stage' = "failed"
              /\ UNCHANGED <<linear, physical, pages, addr, behind, todo>>

-----------------------------------------------------------------------------
\* initialize_page_maps
InitializePageMap ==
    /\ stage = "addresses" /\ todo # << >> /\ Head(todo).do = "map"
    /\ todo' = Tail(todo)
    /\ InitializeMap(Head(todo).map)
    /\ UNCHANGED <<cfg, pt_pages, pte, cursor, behind, geometry, parsed>>

\* handle_res_mem: reserved whatever has been placed there before
HandleResMem ==
    /\ stage = "addresses" /\ todo # << >> /\ Head(todo).do = "res_mem"
    /\ LET r == Head(todo)
       IN  /\ linear' = IF r.linear THEN Reserve(linear, r.start, r.size) ELSE linear
           /\ physical' = IF r.linear THEN physical ELSE Reserve(physical, r.start, r.size)
    /\ todo' = Tail(todo)
    /\ UNCHANGED <<placeVars, addr, pages, stage, behind, geometry, parsed>>

-----------------------------------------------------------------------------
(***************************************************************************)
(* The page sizes of a mapping.                                            *)
(***************************************************************************)
\* pick_pagesize: the sizes the mapping names, even one it excludes, else all
\* valid ones; with all_4kb_pages the smallest, unless pages are linked to it.
PickPagesize(m, named, exclude_largest) ==
    IF cfg.all4k /\ m.linked = << >> THEN {0}
    ELSE IF named # {} THEN named
    ELSE 0 .. (IF exclude_largest THEN TopLevel - 1 ELSE TopLevel)

\* Mutant: a changed non-leaf entry reserves no more than the page.
OwnSizeOfPage(m, level) ==
    CASE ~ cfg.paging         -> PageBytes
      [] m.own = "modify_pt"  -> LevelSize(TopLevel)
      [] OTHER                -> LevelSize(level)

\* What the mapping reserves in the linear space: a page, or the memory behind
\* the entry of its walk that must be its own (pt_attrs_helper, modify_pt).  A page
\* of the largest size has no entry above it and keeps its own size.
OwnSize(m, level) ==
    CASE ~ cfg.paging         -> PageBytes
      [] m.own = "modify_pt"  -> LevelSize(TopLevel)
      [] m.own = "nonleaf"    -> LevelSize(IF level < TopLevel THEN level + 1 ELSE level)
      [] OTHER                -> LevelSize(level)

\* randomize_pagesize, for the levels drawn for the mapping, for its frame and
\* for the frames of its tables
SizesAt(m, l, drawn_gl, n) ==
    LET size == OwnSize(m, l)
        gl   == IF ~ cfg.two_stage THEN 0 ELSE IF m.glevels = {} THEN l ELSE drawn_gl
    IN  [ level |-> l, gleaf |-> gl, gnonleaf |-> n,
          size |-> IF cfg.two_stage THEN MaxOf(size, LevelSize(gl)) ELSE size,
          phys |-> IF m.own = "modify_pt" THEN LevelSize(l) ELSE size ]

Leaves(m)    == IF cfg.paging THEN PickPagesize(m, m.levels, m.own = "nonleaf") ELSE {0}
GLeaves(m)   == IF cfg.two_stage /\ m.glevels # {} THEN PickPagesize(m, m.glevels, FALSE) ELSE {0}
GNonleaves(m) == IF cfg.two_stage THEN PickPagesize(m, {}, FALSE) ELSE {0}

RandomizePagesize(m) ==
    {SizesAt(m, l, gl, n) : l \in Leaves(m), gl \in GLeaves(m), n \in GNonleaves(m)}

\* The frame of a page: as large and as aligned as both stages' pages.
FrameSize(g) == MaxOf(LevelSize(g.level), LevelSize(g.gleaf))

MappedPage(m, g, va, pa) ==
    [name |-> m.name, lin |-> va, phys |-> pa, origin |-> m.kind, level |-> g.level,
     gleaf |-> g.gleaf, gnonleaf |-> g.gnonleaf, own |-> m.own]

Grow(p, size, align) == [size |-> MaxOf(p.size, size), align |-> MaxOf(p.align, align)]

Mapping(kind) == /\ stage = "addresses" /\ todo # << >>
                 /\ Head(todo).do = "mapping" /\ Head(todo).kind = kind

(***************************************************************************)
(* handle_normal_page_mappings: both names are random addresses, placed    *)
(* later; their parsed sizes grow to what the mapping needs.  With         *)
(* all_4kb_pages they shrink to a page again.                              *)
(***************************************************************************)
HandleNormalPageMapping ==
    /\ Mapping("normal")
    /\ LET m == Head(todo)
           small == cfg.all4k /\ m.linked = << >>
       IN  \E g \in RandomizePagesize(m) :
             LET size == IF small THEN PageBytes ELSE g.size
             IN  /\ geometry' = Put(geometry, m.name, [g EXCEPT !.size = size])
                 /\ parsed' = [n \in DOMAIN parsed |->
                       IF n = m.phys
                       THEN LET p == Grow(parsed[n], g.phys, g.phys)
                            IN  [p EXCEPT !.size = IF small THEN PageBytes ELSE @]
                       ELSE IF n = m.name
                       THEN [parsed[n] EXCEPT !.size = IF small THEN PageBytes ELSE MaxOf(@, size)]
                       ELSE parsed[n]]
    /\ todo' = Tail(todo)
    /\ UNCHANGED <<placeVars, linear, physical, addr, pages, stage, behind>>

(***************************************************************************)
(* handle_random_page_mappings: the linear name is a random address, the   *)
(* frame has none.                                                         *)
(***************************************************************************)
HandleRandomPageMapping ==
    LET m == Head(todo)
        p == parsed[m.name]
        lc(g) == Request(MaxOf(g.size, p.size), MaxOf(g.size, p.align), LinearBits, "linear")
        pc(g) == IF cfg.paging THEN Request(FrameSize(g), FrameSize(g), PhysicalBits, "dram")
                 ELSE Request(MaxOf(g.phys, p.size), MaxOf(g.phys, p.align), PhysicalBits, "dram")
        auto == Derived(m.name, "phys", 0)
    IN  /\ Mapping("random")
        /\ UNCHANGED <<placeVars, behind, parsed>>
        /\ \/ /\ m.name \in DOMAIN addr
              /\ todo' = Tail(todo)
              /\ UNCHANGED <<linear, physical, addr, pages, stage, geometry>>
           \/ /\ m.name \notin DOMAIN addr
              /\ \E g \in RandomizePagesize(m) :
                 \E v \in Grantable(linear, lc(g)), a \in Grantable(physical, pc(g)) :
                    LET granted == Allocate(linear, lc(g), v)
                        lin     == IF cfg.paging THEN v ELSE a
                    IN  /\ linear' = IF cfg.paging THEN granted ELSE Reserve(granted, a, lc(g).size)
                        /\ physical' = Allocate(physical, pc(g), a)
                        /\ addr' = Put(Put(addr, auto, a), m.name, lin)
                        /\ pages' = AddPages({"map_os"} \cup m.maps, <<MappedPage(m, g, lin, a)>>)
                        /\ geometry' = Put(geometry, m.name, g)
              /\ todo' = Tail(todo)
              /\ UNCHANGED stage
           \/ /\ m.name \notin DOMAIN addr
              /\ \E g \in RandomizePagesize(m) : CanFail(linear, lc(g)) \/ CanFail(physical, pc(g))
              /\ stage' = "failed"
              /\ UNCHANGED <<linear, physical, addr, pages, todo, geometry>>

(***************************************************************************)
(* handle_fixed_page_mappings: an address that the test gives is taken as  *)
(* it is, and not recorded in its space.  Only the frame of a mapping      *)
(* whose linear address alone is given is drawn; with two stages a page    *)
(* of it is recorded, whatever the size of the mapping.  Without paging    *)
(* such a frame lies at the linear address and is reserved twice.          *)
(***************************************************************************)
HandleFixedPageMapping ==
    LET m == Head(todo)
        drawn == m.pa = None /\ cfg.paging
        pc(g) == Request(IF cfg.two_stage THEN PageBytes ELSE LevelSize(g.level), FrameSize(g),
                         PhysicalBits, "dram")
    IN  /\ Mapping("fixed")
        /\ UNCHANGED <<placeVars, behind, parsed>>
        /\ \/ \E g \in RandomizePagesize(m) :
              \E a \in IF drawn THEN Grantable(physical, pc(g)) ELSE {IF m.pa = None THEN m.lin ELSE m.pa} :
                 LET lin   == IF m.lin = None THEN a ELSE m.lin
                     frame == IF cfg.paging THEN a ELSE lin
                 IN  /\ physical' = IF drawn THEN Allocate(physical, pc(g), a)
                                    ELSE IF cfg.paging THEN physical
                                    ELSE Reserve(IF m.pa = None THEN Reserve(physical, frame, g.size)
                                                 ELSE physical, frame, g.size)
                     /\ linear' = IF m.lin = None THEN Reserve(linear, lin, g.size) ELSE linear
                     \* the frame is filed under the linear name
                     /\ addr' = IF m.pa = None THEN Put(addr, m.name, a)
                                ELSE IF m.lin = None THEN Put(Put(addr, m.phys, a), m.name, lin)
                                ELSE Put(addr, m.phys, a)
                     /\ pages' = AddPages({"map_os"} \cup m.maps, <<MappedPage(m, g, lin, frame)>>)
                     /\ geometry' = Put(geometry, m.name, g)
              /\ todo' = Tail(todo)
              /\ UNCHANGED stage
           \/ /\ drawn /\ \E g \in RandomizePagesize(m) : CanFail(physical, pc(g))
              /\ stage' = "failed"
              /\ UNCHANGED <<linear, physical, addr, pages, todo, geometry>>

-----------------------------------------------------------------------------
(***************************************************************************)
(* handle_random_addr, in the order in which the test declares the names.  *)
(* A linear name that a mapping uses takes the alignment of its mapping    *)
(* and raises what the name of its frame asks for.                         *)
(***************************************************************************)
HandleRandomAddr ==
    LET n == Head(todo).name
        isLinear == Head(todo).linear
        mapped == cfg.paging /\ n \in DOMAIN geometry
        ms == {m \in ToSet(cfg.mappings) : m.name = n /\ m.kind = "normal"}
        c == IF isLinear
             THEN Request(parsed[n].size, IF mapped THEN geometry[n].size ELSE parsed[n].align,
                          LinearBits, "linear")
             ELSE Request(parsed[n].size, parsed[n].align, PhysicalBits, "dram")
    IN  /\ stage = "addresses" /\ todo # << >> /\ Head(todo).do = "addr"
        /\ UNCHANGED <<placeVars, pages, behind, geometry>>
        /\ \/ /\ n \in DOMAIN addr
              /\ todo' = Tail(todo)
              /\ UNCHANGED <<linear, physical, addr, stage, parsed>>
           \/ /\ n \notin DOMAIN addr
              /\ \E a \in Grantable(IF isLinear THEN linear ELSE physical, c) :
                    LET granted == Allocate(physical, c, a)
                    IN  /\ addr' = Put(addr, n, a)
                        /\ linear' = IF isLinear THEN Allocate(linear, c, a)
                                     ELSE IF cfg.paging THEN linear ELSE Reserve(linear, a, c.size)
                        /\ physical' = IF isLinear THEN physical
                                       ELSE IF cfg.paging THEN granted
                                       ELSE Reserve(granted, a, c.size)
              /\ parsed' = IF ~ isLinear \/ ~ mapped THEN parsed
                           ELSE [x \in DOMAIN parsed |->
                                   IF \E m \in ms : m.phys = x
                                   THEN Grow(parsed[x], FrameSize(geometry[n]), FrameSize(geometry[n]))
                                   ELSE parsed[x]]
              /\ todo' = Tail(todo)
              /\ UNCHANGED stage
           \/ /\ n \notin DOMAIN addr
              /\ CanFail(IF isLinear THEN linear ELSE physical, c)
              /\ stage' = "failed"
              /\ UNCHANGED <<linear, physical, addr, todo, parsed>>

(***************************************************************************)
(* handle_page_mappings: the pages of the normal mappings, and those that  *)
(* are linked to one: at an offset from it, in memory nobody reserved for  *)
(* them (the check compares with the wrong relation).                      *)
(***************************************************************************)
HandlePageMapping ==
    /\ stage = "addresses" /\ todo # << >> /\ Head(todo).do = "page"
    /\ LET m   == Head(todo).mapping
           pa  == addr[m.phys]
           lin == IF cfg.paging THEN addr[m.name] ELSE pa
           g   == geometry[m.name]
           linkedPage(k, h) == [MappedPage(m, h, lin + k.offset, pa + k.offset) EXCEPT
                                  !.name = k.name, !.origin = "linked", !.own = "none"]
           sizes(k) == RandomizePagesize([m EXCEPT !.levels = k.levels, !.glevels = {},
                                            !.linked = << >>, !.own = "none"])
       IN  /\ \E hs \in [DOMAIN m.linked -> UNION {sizes(k) : k \in ToSet(m.linked)}] :
                 /\ \A i \in DOMAIN hs : hs[i] \in sizes(m.linked[i])
                 /\ pages' = AddPages({"map_os"} \cup m.maps,
                                      <<MappedPage(m, g, lin, pa)>>
                                        \o [i \in DOMAIN m.linked |-> linkedPage(m.linked[i], hs[i])])
           /\ physical' = IF cfg.paging THEN physical ELSE Reserve(physical, pa, g.size)
           /\ linear' = IF cfg.paging THEN linear ELSE Reserve(linear, pa, g.size)
           /\ addr' = [addr EXCEPT ![m.name] = lin]
    /\ todo' = Tail(todo)
    /\ UNCHANGED <<placeVars, stage, behind, geometry, parsed>>

\* _generate_pagetable_assembly: all addresses are placed, the tables follow.
StartTables ==
    /\ stage = "addresses" /\ todo = << >>
    /\ UNCHANGED <<cfg, linear, physical, addr, pages, pt_pages, root, pte, todo, behind, geometry, parsed>>
    /\ ToFirstPage(TableMaps)

-----------------------------------------------------------------------------
SectionPart(t) == FlattenSeq([i \in DOMAIN t.sections |-> HandleSection(t, t.sections[i])])
NormalMappings(t) == SelectSeq(t.mappings, LAMBDA m : m.kind = "normal")
NormalsOf(t) == {m \in ToSet(t.mappings) : m.kind = "normal"}

\* What generate() does for a test, call by call.
Calls(t) ==
    SectionPart(t)
      \o <<[do |-> "map", map |-> "map_os"]>>
      \o (IF t.two_stage THEN <<[do |-> "map", map |-> "map_hyp"]>> ELSE << >>)
      \o [i \in DOMAIN t.maps |-> [do |-> "map", map |-> t.maps[i]]]
      \o t.res_mems
      \o t.mappings
      \o t.addrs
      \o [i \in DOMAIN NormalMappings(t) |-> [do |-> "page", mapping |-> NormalMappings(t)[i]]]

(***************************************************************************)
(* What the parser guarantees of a test: page sizes that the walk has,     *)
(* memory that is not empty, and mappings whose names are declared, each   *)
(* handled before it is needed.                                            *)
(***************************************************************************)
\* The test's own names; the generator derives others from them.
TestName(n) == n = Base(n[1])

MappingTyped(m) ==
    /\ TestName(m.name) /\ TestName(m.phys)
    /\ m \in [do : {"mapping"}, kind : {"normal", "random", "fixed"}, name : {m.name}, phys : {m.phys},
              levels : SUBSET (0 .. TopLevel), glevels : SUBSET (0 .. TopLevel),
              own : {"none", "nonleaf", "modify_pt"}, maps : {m.maps}, lin : Int, pa : Int,
              linked : {m.linked}]
    /\ m.linked \in Seq(ToSet(m.linked))
    /\ \A k \in DOMAIN m.linked : /\ m.linked[k].levels \subseteq 0 .. TopLevel
                                  /\ m.linked[k].offset \in Int
                                  /\ TestName(m.linked[k].name)

Declared(t) == {t.addrs[k].name : k \in DOMAIN t.addrs}

CallTyped(t, c) ==
    /\ c.do = "section" =>
          /\ Group(c.section) \in Sections /\ c.bytes \in Nat \ {0}
          /\ PageBytes <= c.bytes \/ c.place = "io"
          /\ c.place \in {"random", "reset", "io", "after", "after_pa", "after_lin", "runtime_end"}
    /\ c.do = "res_mem" => c.start \in Int /\ c.size \in Int
    /\ c.do = "mapping" => /\ MappingTyped(c)
                           /\ c.kind = "random" => c.name \in Declared(t)
    /\ c.do = "addr" => c.name \in Declared(t) /\ TestName(c.name)
    /\ c.do = "page" => MappingTyped(c.mapping)

\* A page is entered behind the call that chose its size and the ones that
\* placed its frame and its linear address.
PagesComeLater(calls) ==
    \A k \in DOMAIN calls :
        calls[k].do = "page" =>
            /\ \E j \in 1 .. k - 1 : /\ calls[j].do = "mapping" /\ calls[j].kind = "normal"
                                    /\ calls[j].name = calls[k].mapping.name
            /\ \A n \in {calls[k].mapping.phys, calls[k].mapping.name} :
                  \E j \in 1 .. k - 1 : calls[j].do = "addr" /\ calls[j].name = n

MapNames(t) == {"map_os"} \cup ToSet(t.maps) \cup IF t.two_stage THEN {"map_hyp"} ELSE {}

\* Every map is initialized, and named once.
MapsInitialized(t) ==
    /\ \A m \in MapNames(t) : \E k \in DOMAIN Calls(t) : Calls(t)[k].do = "map" /\ Calls(t)[k].map = m
    /\ \A i, j \in DOMAIN t.maps : t.maps[i] = t.maps[j] => i = j
    /\ ToSet(t.maps) \cap {"map_os", "map_hyp"} = {}

\* Sections that are placed by the call for another one.
Followers == {"runtime_s", "code_super", "code_machine"}

\* The parts of generate() make the calls that they are about, and a section is
\* handled once.
PartsTyped(t) ==
    /\ t.sections \in Seq(Sections \ Followers)
    /\ \A i, j \in DOMAIN t.sections : t.sections[i] = t.sections[j] => i = j
    /\ t.res_mems \in Seq([do : {"res_mem"}, linear : BOOLEAN, start : Int, size : Int])
    /\ t.mappings \in Seq(ToSet(t.mappings)) /\ \A k \in DOMAIN t.mappings : t.mappings[k].do = "mapping"
    /\ t.addrs \in Seq(ToSet(t.addrs)) /\ \A k \in DOMAIN t.addrs : t.addrs[k].do = "addr"
    /\ NormalMappings(t) \in Seq(NormalsOf(t))

ASSUME GeneratorAssumption ==
    /\ 2 ^ LinearBits \in Nat \ {0}
    /\ ResetPc \in Nat /\ IoAddr \in Nat
    /\ SectionPages \in [Sections -> Nat \ {0}] /\ {"runtime", "code"} \cup Followers \subseteq Sections
    /\ "io_htif" \in Sections => SectionPages["io_htif"] = 1
    /\ \A t \in Tests :
          /\ PartsTyped(t)
          /\ \A r \in t.reserved \cup t.dram : r \in AddressRange
          /\ \A k \in DOMAIN t.addrs : t.addrs[k].size \in Nat \ {0} /\ t.addrs[k].align \in Int
          /\ t.maps \in Seq(ToSet(t.maps))
          /\ Calls(t) \in Seq(ToSet(Calls(t)))
          /\ \A k \in DOMAIN Calls(t) : CallTyped(t, Calls(t)[k])
          /\ PagesComeLater(Calls(t)) /\ MapsInitialized(t)

InitOf(t) ==
    /\ cfg = t
    /\ linear = NewSpace([linear |-> {<<0, 2 ^ LinearBits - 1>>}], t.reserved)
    /\ physical = NewSpace([dram |-> t.dram], t.reserved)
    /\ addr = << >>
    /\ pages = [m \in MapNames(t) |-> << >>]
    /\ pt_pages = [m \in MapNames(t) |-> << >>]
    /\ root = << >>
    /\ pte = << >>
    /\ cursor = [map |-> "map_os", item |-> 0, level |-> TopLevel, table |-> None]
    /\ stage = "addresses"
    /\ todo = Calls(t)
    /\ behind = [s \in Sections |-> <<None, None>>]
    /\ geometry = << >>
    /\ parsed = [n \in {r.name : r \in ToSet(t.addrs)} |->
                   LET r == CHOOSE x \in ToSet(t.addrs) : x.name = n
                   IN  [size |-> r.size, align |-> r.align]]

Init == \E t \in Tests : InitOf(t)

Table == (FollowEntry \/ CreateTable \/ CreateLeaf) /\ UNCHANGED <<todo, behind, geometry, parsed>>

Stop == stage \in {"finished", "failed"} /\ UNCHANGED vars

Next == \/ AddSection \/ InitializePageMap \/ HandleResMem
        \/ HandleNormalPageMapping \/ HandleRandomPageMapping \/ HandleFixedPageMapping
        \/ HandleRandomAddr \/ HandlePageMapping
        \/ StartTables \/ Table
        \/ Stop

Spec == Init /\ [][Next]_vars

-----------------------------------------------------------------------------
(***************************************************************************)
(* What the properties of frames assume of a test, and the parser gives:   *)
(* the name of the frame of a normal mapping is one that the pool keeps    *)
(* for such mappings, and no map's; a name of a page has one mapping; and  *)
(* tohost lies where a page begins.  With all_4kb_pages a frame that a     *)
(* mapping with linked pages shares is not shrunk for another mapping.     *)
(***************************************************************************)
OwnFrames(t) ==
    LET frames == {m.phys : m \in NormalsOf(t)}
    IN  /\ frames \subseteq Declared(t)
        /\ \A r \in ToSet(t.addrs) : r.name \in frames => ~ r.linear
        /\ \A m \in ToSet(t.mappings) :
              /\ m.name \notin frames
              /\ m.kind # "normal" =>
                    m.phys \notin frames /\ \A n \in NormalsOf(t) : m.name # n.name
        /\ \A m \in MapNames(t) : Base(m) \notin frames
        /\ \A m, n \in NormalsOf(t) : m.name = n.name => m.phys = n.phys
        /\ t.all4k => \A m, n \in NormalsOf(t) :
                         m.phys = n.phys => (m.linked = << >> <=> n.linked = << >>)

FramesAreOwned == IoAddr % PageBytes = 0 /\ \A t \in Tests : OwnFrames(t)

(***************************************************************************)
(* What two stages assume of a test.  A map keeps its pages by their names *)
(* and a name derived from one is its page's only as long as no other call *)
(* adds a page of that name; random mappings may share theirs, the first   *)
(* of them alone adds the page.  No mapping puts its page into map_hyp.    *)
(***************************************************************************)
IsRandom(c) == c.do = "mapping" /\ c.kind = "random"

PageNames(c) ==
    CASE c.do = "section" -> {<<c.section, c.page, << >> >>}
      [] c.do = "map"     -> {Base(c.map)}
      [] c.do = "mapping" -> IF c.kind = "normal" THEN {} ELSE {c.name}
      [] c.do = "page"    -> {c.mapping.name} \cup {k.name : k \in ToSet(c.mapping.linked)}
      [] OTHER            -> {}

Apart(c, d) == PageNames(c) \cap PageNames(d) = {} \/ (IsRandom(c) /\ IsRandom(d))

SparesMapHyp(m) == "map_hyp" \notin m.maps
NamedOnce(c) ==
    /\ c.do = "mapping" => SparesMapHyp(c)
    /\ c.do = "page" =>
          /\ SparesMapHyp(c.mapping)
          /\ \A k \in DOMAIN c.mapping.linked :
                /\ c.mapping.linked[k].name # c.mapping.name
                /\ \A j \in DOMAIN c.mapping.linked :
                      c.mapping.linked[j].name = c.mapping.linked[k].name => j = k

PagesAreNamedOnce ==
    \A t \in Tests : t.two_stage =>
        /\ \A j, k \in DOMAIN Calls(t) : j # k => Apart(Calls(t)[j], Calls(t)[k])
        /\ \A c \in ToSet(Calls(t)) : NamedOnce(c)

-----------------------------------------------------------------------------
Names == DOMAIN addr
AllPages == UNION {ToSet(Work(m)) : m \in DOMAIN pages}

\* Type invariant: addresses lie in their spaces, pages have levels the walk
\* has, and every entry names a table of the walk it belongs to or a frame.
TypeOK ==
    /\ cfg \in Tests
    /\ stage \in {"addresses", "tables", "finished", "failed"}
    /\ \A n \in Names : addr[n] \in 0 .. 2 ^ MaxOf(LinearBits, PhysicalBits) - 1
    /\ \A p \in AllPages : /\ p.level \in 0 .. TopLevel /\ p.gleaf \in 0 .. TopLevel
                            /\ p.gnonleaf \in 0 .. TopLevel
                            /\ p.lin >= 0 /\ p.phys >= 0
    /\ \A s \in DOMAIN pte : s[1] >= 0 /\ s[2] \in 0 .. Entries - 1 /\ pte[s].next >= 0
    /\ \A m \in DOMAIN root : root[m] % RootAlign = 0

(***************************************************************************)
(* Two addresses that the generator draws never share memory, in neither   *)
(* space, whoever asked for them and whatever was reserved in between.     *)
(***************************************************************************)
GrantsDisjoint == Disjoint(linear) /\ Disjoint(physical)

\* An address that a step draws overlaps no range that was reserved before,
\* however many clusters that range is cut into.
GrantsAvoidReserved == [][Avoids(linear, linear') /\ Avoids(physical, physical')]_vars

(***************************************************************************)
(* The linker lays a section out from the addresses of its first page: the *)
(* pages mapped behind it have to follow in both spaces.  (selfcheck_data  *)
(* is left out: its later pages are placed at their linear address.)       *)
(***************************************************************************)
PlacedPages(s) == {i \in 1 .. SectionPages[s] : <<s, i, << >> >> \in Names}
SectionsAreContiguous ==
    \A s \in Sections \ {"selfcheck_data"} : \A i \in PlacedPages(s) :
        LET first == <<s, 1, << >> >>
            page  == <<s, i, << >> >>
        IN  /\ addr[page] - addr[first] = (i - 1) * PageBytes
            /\ addr[Derived(page, "phys", 0)] - addr[Derived(first, "phys", 0)] = (i - 1) * PageBytes

(***************************************************************************)
(* When the tables are built: a page whose linear addresses no other page  *)
(* of the map has is translated to its frame, over its whole size, and     *)
(* whatever pages were entered before and after it; and what an address is *)
(* translated to is the frame of a page that has it, so that nothing is    *)
(* mapped but the pages, and nowhere but where they were placed.           *)
(***************************************************************************)
\* The linear addresses of a page, in the bits that a walk looks at.
BlockStart(va, l) == (va % LevelSize(Levels)) - (va % LevelSize(l))
VaRange(p) == LET lo == BlockStart(p.lin, p.level)
              IN  <<lo, lo + LevelSize(p.level) - 1>>
Alone(m, i) == \A j \in DOMAIN Work(m) \ {i} : ~ Overlaps(VaRange(Work(m)[i]), VaRange(Work(m)[j]))
PageStarts(r) == {a \in r[1] .. r[2] : a % PageBytes = 0}
InFrameOf(p, va) == p.phys + (va % LevelSize(p.level))

PagesAreMapped ==
    stage = "finished" /\ cfg.paging =>
        \A m \in ToSet(StageOneMaps) : \A i \in DOMAIN Work(m) :
            LET p == Work(m)[i]
            IN  Alone(m, i) => \A va \in PageStarts(VaRange(p)) : Translate(m, va) = InFrameOf(p, va)

OnlyPagesAreMapped ==
    stage = "finished" =>
        \A m \in ToSet(TableMaps) : \A va \in PageStarts(<<0, LevelSize(Levels) - 1>>) :
            Translate(m, va) # None =>
                \E p \in ToSet(Work(m)) : /\ VaRange(p)[1] <= va /\ va <= VaRange(p)[2]
                                          /\ Translate(m, va) = InFrameOf(p, va)

TranslationCorrect == PagesAreMapped /\ OnlyPagesAreMapped

(***************************************************************************)
(* The frame of a table holds nothing else: no other table of any map, and *)
(* no page whose frame the generator recorded.                             *)
(***************************************************************************)
OwnsFrame(p) == p.origin \notin {"fixed", "linked", "sptbr", "identity", "table"}
PageAt(a) == <<a, a + PageBytes - 1>>
Frame(p) == <<p.phys, p.phys + LevelSize(p.level) - 1>>

TablesApart ==
    stage = "finished" =>
        \A m \in ToSet(TableMaps) : \A n \in ToSet(TableMaps) \ {m} :
            \A t \in TablesOf(m) : \A u \in TablesOf(n) : ~ Overlaps(PageAt(t), PageAt(u))

TablesHoldNoPages ==
    stage = "finished" =>
        \A m \in ToSet(TableMaps) : \A t \in TablesOf(m) :
            \A p \in AllPages : OwnsFrame(p) => ~ Overlaps(PageAt(t), Frame(p))

TableFramesPrivate == TablesApart /\ TablesHoldNoPages

(***************************************************************************)
(* A mapping that changes attributes of a non-leaf entry, or lets the test *)
(* rewrite its tables, has that entry for itself, if there is one at its   *)
(* level and the walk comes to it: no page that was placed by the generator*)
(* is reached through it (EntryIsAlone), and it carries the attributes of  *)
(* the mapping, or of a given page that is reached through it              *)
(* (EntryIsOwn).  (With all_4kb_pages the reservation of a normal mapping  *)
(* is taken back, and this is not so.)                                     *)
(***************************************************************************)
OwnLevel(p) == IF p.own = "modify_pt" THEN TopLevel ELSE p.level + 1
Placed(p) == p.origin \notin {"fixed", "linked", "sptbr", "selfcheck_data", "io_htif"}
IsOwner(p) == /\ p.own # "none"
              /\ p.origin = "random" \/ (p.origin = "normal" /\ ~ cfg.all4k)

OwnSlot(m, p) == WalkSlot(m, p.lin, OwnLevel(p))
ComesToOwnSlot(m, p) == OwnLevel(p) <= TopLevel /\ OwnSlot(m, p)[1] # None
Through(m, p, j) == WalkSlot(m, Work(m)[j].lin, OwnLevel(p)) = OwnSlot(m, p)

EntryIsAlone ==
    stage = "finished" /\ cfg.paging =>
        \A m \in ToSet(StageOneMaps) : \A i \in DOMAIN Work(m) :
            LET p == Work(m)[i]
            IN  IsOwner(p) /\ ComesToOwnSlot(m, p) =>
                  \A j \in DOMAIN Work(m) \ {i} : Placed(Work(m)[j]) => ~ Through(m, p, j)

EntryIsOwn ==
    stage = "finished" /\ cfg.paging =>
        \A m \in ToSet(StageOneMaps) : \A i \in DOMAIN Work(m) :
            LET p == Work(m)[i]
            IN  IsOwner(p) /\ ComesToOwnSlot(m, p) /\ OwnSlot(m, p) \in DOMAIN pte =>
                  \/ pte[OwnSlot(m, p)].by = p.name
                  \/ \E j \in DOMAIN Work(m) \ {i} :
                        Through(m, p, j) /\ pte[OwnSlot(m, p)].by = Work(m)[j].name

NonLeafEntryIsPrivate == EntryIsAlone /\ EntryIsOwn

(***************************************************************************)
(* With two stages the hardware translates the address of every table it   *)
(* reads, and of the frame it finds, once more: map_hyp maps both to       *)
(* themselves, whatever pages it got before and however large they are, as *)
(* long as its walk tells the addresses apart that it is given.  (Only for *)
(* map_os: the tables that the same page needs in a second map are         *)
(* forgotten.)                                                             *)
(***************************************************************************)
MapsToItself(a) == Translate("map_hyp", a) = a
WalkReaches == \A p \in ToSet(pt_pages["map_hyp"]) : p.lin \in 0 .. LevelSize(Levels) - 1

TwoStageComplete ==
    stage = "finished" /\ cfg.paging /\ cfg.two_stage /\ WalkReaches =>
        /\ \A t \in TablesOf("map_os") \ {root["map_os"]} : MapsToItself(t)
        /\ \A i \in DOMAIN Work("map_os") :
              LET p == Work("map_os")[i]
              IN  Alone("map_os", i) => MapsToItself(p.phys)
=============================================================================
