----------------------------- MODULE PageTables -----------------------------
(***************************************************************************)
(* Page maps and page tables (lib/page_map.py, lib/pagetables.py): every   *)
(* map owns a root table and a list of pages; for each page the tables on  *)
(* its walk are created one level at a time, each in a frame granted by    *)
(* the address generator, and a leaf entry is written.  With two-stage     *)
(* translation every table and every frame of a VS map also gets an        *)
(* identity page in map_hyp, whose tables are created last.                *)
(*                                                                         *)
(* Attributes of entries, Svnapot pages and secure frames are not          *)
(* modelled.  A name is a triple <<base, number, tags>>; tags tells the    *)
(* pages apart that are derived from one page.                             *)
(***************************************************************************)
EXTENDS AddrGen, SequencesExt

CONSTANTS
    PageBytes,      \* bytes of the smallest page
    Entries,        \* entries of a table
    Levels,         \* levels of both translation stages
    LinearBits,     \* width of a linear address
    PhysicalBits,   \* width of a physical address
    RootBytes, RootAlign,       \* memory asked for the root of a map ...
    HypRootBytes, HypRootAlign, \* ... and of the g-stage map
    RootLinearBits, \* width of the linear address asked for, and unused, with a root
    Draw(_, _, _)   \* in a test, for a request, out of a set: the addresses that the
                    \* random number generator may pick

VARIABLES
    cfg,        \* the parsed test and the options it is generated with
    linear,     \* AddrGen: the linear address space
    physical,   \* AddrGen: the physical address space
    addr,       \* pool.random_addrs: name -> address
    pages,      \* map -> the pages added to it, in order
    pt_pages,   \* map -> the pages that make tables themselves accessible
    root,       \* map -> frame of its base table
    pte,        \* <<table, index>> -> entry
    cursor,     \* the page and level whose entry is created next
    stage       \* "addresses", "tables", "finished", or "failed" by an exception

tableVars == <<cfg, linear, physical, addr, pages, pt_pages, root, pte, cursor, stage>>

TopLevel == Levels - 1
LevelSize(l) == PageBytes * Entries ^ l

\* The sizes of pages are powers, in a form that the provers can use; a root is
\* a table, at least, and begins where a page does.
ASSUME PageTablesAssumption ==
    /\ Levels \in Nat \ {0} /\ Entries \in Nat \ {0}
    /\ \A l \in 0 .. Levels : LevelSize(l) \in Nat \ {0}
    /\ LevelSize(0) = PageBytes
    /\ \A l \in 0 .. TopLevel : LevelSize(l + 1) = Entries * LevelSize(l)
    /\ {PageBytes, RootBytes, HypRootBytes} \subseteq Nat \ {0}
    /\ PageBytes <= RootBytes /\ PageBytes <= HypRootBytes
    /\ {RootAlign, HypRootAlign} \subseteq Nat \ {0}
    /\ RootAlign % PageBytes = 0 /\ HypRootAlign % PageBytes = 0

\* Mutant: the index is not masked to the width of a table's.
IndexUnmasked(va, l) == va \div LevelSize(l)

Index(va, l) == (va \div LevelSize(l)) % Entries
None == -1

\* The maps in the order in which their tables are built: the g-stage last.
StageOneMaps == <<"map_os">> \o cfg.maps
TableMaps == IF ~ cfg.paging THEN << >>
             ELSE IF cfg.two_stage THEN Append(StageOneMaps, "map_hyp") ELSE StageOneMaps

\* The dictionary f with key k set to v.
Put(f, k, v) == [x \in {k} \cup DOMAIN f |-> IF x = k THEN v ELSE f[x]]

Base(b) == <<b, 0, << >> >>
Derived(n, tag, l) == <<n[1], n[2], Append(n[3], <<tag, l>>)>>

\* A page of 4 KiB (level 0) unless its mapping says more.
Page4K(n, va, pa, origin) ==
    [name |-> n, lin |-> va, phys |-> pa, origin |-> origin, level |-> 0,
     gleaf |-> 0, gnonleaf |-> 0, own |-> "none"]

\* pool.add_page
AddPages(ms, ps) == [m \in DOMAIN pages |-> IF m \in ms THEN pages[m] \o ps ELSE pages[m]]

Request(bytes, align, bits, q) ==
    [size |-> bytes, align |-> align, bits |-> bits, qualifier |-> q]

\* The addresses that a request may be given.
Grantable(space, c) == Candidates(space, c) \cap Draw(cfg, c, Candidates(space, c))

(***************************************************************************)
(* PageMap.initialize: a linear address that is never used, a frame for    *)
(* the root table, and the page that maps the frame to itself in map_os    *)
(* without recording it in the linear space.                               *)
(***************************************************************************)
InitializeMap(m) ==
    LET lc == Request(LevelSize(1), LevelSize(1), RootLinearBits, "linear")
        pc == IF m = "map_hyp" THEN Request(HypRootBytes, HypRootAlign, PhysicalBits, "dram")
                               ELSE Request(RootBytes, RootAlign, PhysicalBits, "dram")
    IN  \/ \E v \in Grantable(linear, lc), a \in Grantable(physical, pc) :
              /\ linear' = Allocate(linear, lc, v)
              /\ physical' = Allocate(physical, pc, a)
              /\ root' = Put(root, m, a)
              /\ pages' = AddPages({"map_os"}, <<Page4K(Base(m), a, a, "sptbr")>>)
              /\ addr' = Put(addr, Base(m), a)
              /\ UNCHANGED stage
        \/ /\ CanFail(linear, lc) \/ CanFail(physical, pc)
           /\ stage' = "failed"
           /\ UNCHANGED <<linear, physical, root, pages, addr>>

-----------------------------------------------------------------------------
(***************************************************************************)
(* create_pagetables                                                       *)
(***************************************************************************)
Work(m) == pages[m] \o pt_pages[m]
Current == Work(cursor.map)[cursor.item]
Slot == <<cursor.table, Index(Current.lin, cursor.level)>>
InStageOne == cursor.map # "map_hyp"

\* Mutant: the walk of the next page starts at the table of the last one.
StartOfLast(m, i) ==
    [map |-> m, item |-> i, level |-> TopLevel,
     table |-> IF cursor.table = None THEN root[m] ELSE cursor.table]

StartOf(m, i) == [map |-> m, item |-> i, level |-> TopLevel, table |-> root[m]]

\* Go on with the first page of the next of the maps that has one.  The pages
\* that this step adds count: pt_pages' is assigned before.
ToFirstPage(maps) ==
    LET left == {i \in DOMAIN maps : pages[maps[i]] \o pt_pages'[maps[i]] # << >>}
    IN  IF left = {} THEN stage' = "finished" /\ UNCHANGED cursor
                     ELSE stage' = "tables" /\ cursor' = StartOf(maps[Min(left)], 1)

MapsBehind(m) ==
    SubSeq(TableMaps, SelectInSeq(TableMaps, LAMBDA x : x = m) + 1, Len(TableMaps))

ToNextPage ==
    LET m == cursor.map
    IN  IF cursor.item < Len(pages[m]) + Len(pt_pages'[m])
        THEN cursor' = StartOf(m, cursor.item + 1) /\ UNCHANGED stage
        ELSE ToFirstPage(MapsBehind(m))

\* Mutant: a table and the leaf below it ask for a page of the same name.
GStagePageOneName(tag, a, level) ==
    LET n == Derived(Current.name, "vs", 0)
        base == a - (a % LevelSize(level))
    IN  IF cfg.two_stage /\ InStageOne /\ n \notin DOMAIN addr
        THEN <<[Page4K(n, base, base, "identity") EXCEPT !.level = level]>>
        ELSE << >>

\* With two stages: the identity page that map_hyp gets for the frame at a,
\* unless a page of that name was made before, for another map.
GStagePage(tag, a, level) ==
    LET n == Derived(Current.name, tag, cursor.level)
        base == a - (a % LevelSize(level))
    IN  IF cfg.two_stage /\ InStageOne /\ n \notin DOMAIN addr
        THEN <<[Page4K(n, base, base, "identity") EXCEPT !.level = level]>>
        ELSE << >>

\* With modify_pt: the page through which the test reaches the table at hand.
TablePage(v) ==
    LET n == Derived(Current.name, "pt_level", cursor.level)
    IN  IF v = None THEN << >> ELSE <<Page4K(n, v, cursor.table, "table")>>

ViewRequest == Request(PageBytes, PageBytes, LinearBits - 1, "linear")
NeedsView == Current.own = "modify_pt" /\ InStageOne
ViewChoices == IF NeedsView THEN Grantable(linear, ViewRequest) ELSE {None}
ViewFails == NeedsView /\ \/ CanFail(linear, ViewRequest)
                          \/ Derived(Current.name, "pt_level", cursor.level) \in DOMAIN addr

\* add_raw_pt_page, for the pages gp of map_hyp and tp of the current map
AddRawPages(gp, tp) ==
    /\ pt_pages' = [m \in DOMAIN pt_pages |->
                      pt_pages[m] \o (IF m = "map_hyp" THEN gp ELSE << >>)
                                  \o (IF m = cursor.map THEN tp ELSE << >>)]
    /\ addr' = [n \in DOMAIN addr \cup {p.name : p \in ToSet(gp \o tp)} |->
                  IF \E p \in ToSet(gp \o tp) : p.name = n
                  THEN (CHOOSE p \in ToSet(gp \o tp) : p.name = n).lin ELSE addr[n]]

\* _create_pt_non_leaf, when the entry is there: go down, or give the page up
\* when a larger page covers it.
FollowEntry ==
    /\ stage = "tables"
    /\ cursor.level > Current.level
    /\ Slot \in DOMAIN pte
    /\ UNCHANGED <<cfg, linear, physical, addr, pages, pt_pages, root, pte>>
    /\ IF pte[Slot].leaf
       THEN ToNextPage
       ELSE /\ cursor' = [cursor EXCEPT !.level = @ - 1, !.table = pte[Slot].next]
            /\ UNCHANGED stage

\* _create_pt_non_leaf, when it is not: a new table.
CreateTable ==
    LET size == IF cfg.two_stage THEN LevelSize(Current.gnonleaf) ELSE PageBytes
        c    == Request(size, size, PhysicalBits, "dram")
    IN  /\ stage = "tables"
        /\ cursor.level > Current.level
        /\ Slot \notin DOMAIN pte
        /\ UNCHANGED <<cfg, pages, root>>
        /\ \/ \E a \in Grantable(physical, c), v \in ViewChoices :
                 /\ NeedsView => Derived(Current.name, "pt_level", cursor.level) \notin DOMAIN addr
                 /\ physical' = Allocate(physical, c, a)
                 /\ linear' = IF v = None THEN linear ELSE Allocate(linear, ViewRequest, v)
                 /\ AddRawPages(GStagePage("vslevel", a, Current.gnonleaf), TablePage(v))
                 /\ pte' = Put(pte, Slot, [next |-> a, leaf |-> FALSE, by |-> Current.name])
                 /\ cursor' = [cursor EXCEPT !.level = @ - 1, !.table = a]
                 /\ UNCHANGED stage
           \/ /\ CanFail(physical, c) \/ ViewFails
              /\ stage' = "failed"
              /\ UNCHANGED <<linear, physical, addr, pt_pages, pte, cursor>>

\* _create_pt_leaf: whatever entry is there is replaced.
CreateLeaf ==
    /\ stage = "tables"
    /\ cursor.level = Current.level
    /\ UNCHANGED <<cfg, physical, pages, root>>
    /\ \/ \E v \in ViewChoices :
             /\ NeedsView => Derived(Current.name, "pt_level", cursor.level) \notin DOMAIN addr
             /\ linear' = IF v = None THEN linear ELSE Allocate(linear, ViewRequest, v)
             /\ AddRawPages(GStagePage("vsleaf", Current.phys, Current.gleaf), TablePage(v))
             /\ pte' = Put(pte, Slot, [next |-> Current.phys, leaf |-> TRUE, by |-> Current.name])
             /\ ToNextPage
       \/ /\ ViewFails
          /\ stage' = "failed"
          /\ UNCHANGED <<linear, addr, pt_pages, pte, cursor>>

-----------------------------------------------------------------------------
(***************************************************************************)
(* What the hardware does with the tables (RISC-V privileged                *)
(* specification): the table consulted at each level of a walk, and the    *)
(* address the walk ends in, or None when it faults.                       *)
(***************************************************************************)
WalkTables(m, va) ==
    LET table[l \in 0 .. TopLevel] ==
          IF l = TopLevel THEN root[m]
          ELSE LET above == <<table[l + 1], Index(va, l + 1)>>
               IN  IF above \in DOMAIN pte /\ ~ pte[above].leaf THEN pte[above].next ELSE None
    IN  table

WalkSlot(m, va, l) == <<WalkTables(m, va)[l], Index(va, l)>>

Translate(m, va) ==
    LET hits == {l \in 0 .. TopLevel : /\ WalkSlot(m, va, l) \in DOMAIN pte
                                       /\ pte[WalkSlot(m, va, l)].leaf}
    IN  IF hits = {} THEN None
        ELSE LET l == Min(hits)
             IN  pte[WalkSlot(m, va, l)].next + (va % LevelSize(l))

\* The tables of a map: its root and what the non-leaf entries of its walks name.
TablesOf(m) ==
    {root[m]} \cup {t \in UNION {Range(WalkTables(m, p.lin)) : p \in ToSet(Work(m))} : t # None}
=============================================================================
