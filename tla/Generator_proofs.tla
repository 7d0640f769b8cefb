-------------------------- MODULE Generator_proofs --------------------------
(***************************************************************************)
(* Theorems about the generator.                                           *)
(*                                                                         *)
(* Addresses that it draws share memory neither with each other nor with   *)
(* what was reserved before.  Both come from the invariant of the two      *)
(* address spaces (AddrGen_proofs), which holds as long as every request   *)
(* is for at least one byte and every reservation is a range of numbers;   *)
(* the rest of the inductive invariant is what that takes: the calls still *)
(* to make come in their order, sizes and levels are what                  *)
(* randomize_pagesize can return, every map has a root in a frame of its   *)
(* own before its tables are built, and the page whose tables are built    *)
(* exists.                                                                 *)
(*                                                                         *)
(* The tables translate every page that shares its linear addresses with   *)
(* no other page of its map, they map nothing but pages, and the tables of *)
(* two maps share no memory.  All come from a second invariant, that the   *)
(* tables form trees whose entries were all written for pages that are     *)
(* walked through them.                                                    *)
(*                                                                         *)
(* The pages of a section follow each other in both spaces: a third        *)
(* invariant says how the calls for them continue each other.              *)
(*                                                                         *)
(* And no page that the generator recorded lies in the frame of a table,   *)
(* as long as the frames of the normal mappings are their own              *)
(* (FramesAreOwned): a fourth invariant says that what is placed stays     *)
(* recorded, and that no table lies in it.                                 *)
(***************************************************************************)
EXTENDS Generator, AddrGen_proofs, SequenceTheorems

\* The addresses of the extents that a table fits in.
Frames(sp) == {sp.grants[k][1] : k \in {j \in DOMAIN sp.grants : PageBytes <= Size(sp.grants[j])}}

\* Both address spaces are in order.
SpacesInv == SpaceInv(linear, {"linear"}) /\ SpaceInv(physical, {"dram"})

\* A page is entered after the calls that choose its size and place its frame:
\* they are done, or still to come before it.
OrderKept ==
    \A k \in DOMAIN todo :
        todo[k].do = "page" =>
            /\ \/ todo[k].mapping.name \in DOMAIN geometry
               \/ \E j \in 1 .. k - 1 : /\ todo[j].do = "mapping" /\ todo[j].kind = "normal"
                                       /\ todo[j].name = todo[k].mapping.name
            /\ \A n \in {todo[k].mapping.phys, todo[k].mapping.name} :
                  n \in DOMAIN addr \/ \E j \in 1 .. k - 1 : todo[j].do = "addr" /\ todo[j].name = n

CallsInv == cfg \in Tests /\ todo \in Seq(ToSet(Calls(cfg))) /\ OrderKept

\* What randomize_pagesize returns.
PageSizes == [level : 0 .. TopLevel, gleaf : 0 .. TopLevel, gnonleaf : 0 .. TopLevel,
              size : Nat \ {0}, phys : Nat \ {0}]

NamesInv ==
    /\ behind \in [Sections -> Bounds]
    /\ stage = "addresses" => \A n \in DOMAIN addr : addr[n] \in Int
    /\ \A n \in DOMAIN geometry : geometry[n] \in PageSizes
    /\ parsed \in [Declared(cfg) -> [size : Nat \ {0}, align : Int]]

\* A list, of whatever there is in it.
IsSeq(s) == \E S : s \in Seq(S)

\* A page with a name that others can be derived from, addresses that are numbers
\* and levels of the walk.
GoodPage(p) ==
    /\ IsSeq(p.name[3])
    /\ p.lin \in Int /\ p.phys \in Int
    /\ p.level \in 0 .. TopLevel /\ p.gleaf \in 0 .. TopLevel /\ p.gnonleaf \in 0 .. TopLevel

GoodPages(s) == \E S : s \in Seq(S) /\ \A p \in S : GoodPage(p)

PagesInv ==
    /\ DOMAIN pages = MapNames(cfg) /\ DOMAIN pt_pages = MapNames(cfg)
    /\ \A m \in MapNames(cfg) : GoodPages(pages[m]) /\ GoodPages(pt_pages[m])

\* The root of a map is a frame of its own; every map has one, or a call still
\* to make that gives it one.
RootThere(m) == m \in DOMAIN root \/ \E k \in DOMAIN todo : todo[k].do = "map" /\ todo[k].map = m

RootsInv ==
    /\ \A m \in DOMAIN root : root[m] \in Nat /\ root[m] \in Frames(physical)
    /\ \A m, n \in DOMAIN root : root[m] = root[n] => m = n
    /\ stage # "failed" => \A m \in MapNames(cfg) : RootThere(m)

\* Entries are written when every address is placed, and name frames.
EntriesInv ==
    /\ stage = "addresses" => DOMAIN pte = {}
    /\ stage \in {"tables", "finished"} => todo = << >>
    /\ \A s \in DOMAIN pte : pte[s].next \in Int

\* The page whose tables are built is one of its map.
CursorInv ==
    stage = "tables" =>
        /\ cursor \in [map : MapNames(cfg), item : {cursor.item}, level : {cursor.level}, table : Int]
        /\ cursor.item \in 1 .. Len(pages[cursor.map]) + Len(pt_pages[cursor.map])

IInv == SpacesInv /\ CallsInv /\ NamesInv /\ PagesInv /\ RootsInv /\ EntriesInv /\ CursorInv

-----------------------------------------------------------------------------
\* What a space may become in a step.
Grown(sp, new, Q) == SpaceInv(new, Q) /\ Avoids(sp, new) /\ Frames(sp) \subseteq Frames(new)

\* A space that stays as it is.
LEMMA GrownSame ==
  ASSUME NEW Q, NEW sp, SpaceInv(sp, Q)
  PROVE  Grown(sp, sp, Q)
BY DEF Grown, Avoids

\* A range is marked in a space, after or without a grant in the same step.
LEMMA GrownReserve ==
  ASSUME NEW Q, NEW sp, NEW new, Grown(sp, new, Q), NEW lo \in Int, NEW size \in Int
  PROVE  Grown(sp, Reserve(new, lo, size), Q)
<1>1. /\ SpaceInv(Reserve(new, lo, size), Q)
      /\ Reserve(new, lo, size).grants = new.grants
  BY ReserveKeeps DEF Grown
<1> QED BY <1>1 DEF Grown, Avoids, Frames

\* An address is granted out of a space; none of its extents began there.
LEMMA GrownAllocate ==
  ASSUME NEW q, NEW sp, SpaceInv(sp, {q}), NEW bytes \in Nat \ {0}, NEW align, NEW bits,
         NEW a \in Grantable(sp, Request(bytes, align, bits, q))
  PROVE  LET new == Allocate(sp, Request(bytes, align, bits, q), a)
         IN  /\ a \in Nat /\ Grown(sp, new, {q})
             /\ a \notin Frames(sp)
             /\ PageBytes <= bytes => a \in Frames(new)
<1> DEFINE c == Request(bytes, align, bits, q)
           e == Extent(a, c)
           new == Allocate(sp, c, a)
<1>1. c.size = bytes /\ c.qualifier = q /\ a \in Candidates(sp, c)
  BY DEF Request, Grantable
<1> HIDE DEF c
<1>2. SpaceShape(sp, {q}) /\ c.qualifier \in {q} /\ c.size \in Nat \ {0}
  BY <1>1 DEF SpaceInv
<1>3. a \in Nat /\ e[1] = a /\ a <= e[2] /\ e[2] \in Int
  BY <1>1, <1>2, CandidatesAreFree DEF Bounds
<1>4. SpaceInv(new, {q}) /\ Avoids(sp, new)
  BY <1>1, <1>2, AllocateKeeps
<1>5. new.grants = Append(sp.grants, e) /\ sp.grants \in Seq(Bounds)
  <2> HIDE DEF e
  <2> QED BY <1>2 DEF SpaceShape, Allocate, e
<1>6. Size(e) = bytes
  BY <1>1, <1>3 DEF Size, Extent
<1> HIDE DEF e, new
<1> DEFINE n == Len(sp.grants)
<1>7. /\ n + 1 \in DOMAIN new.grants /\ new.grants[n + 1] = e
      /\ \A k \in DOMAIN sp.grants : k \in DOMAIN new.grants /\ k < n + 1 /\ new.grants[k] = sp.grants[k]
  BY <1>5
<1> HIDE DEF n
<1>8. a \notin Frames(sp)
  <2> SUFFICES ASSUME NEW k \in DOMAIN sp.grants, sp.grants[k][1] = a  PROVE FALSE
    BY DEF Frames
  <2>1. sp.grants[k][1] <= sp.grants[k][2] /\ sp.grants[k] \in Bounds
    BY <1>5 DEF SpaceInv, GrantsRecorded
  <2>2. ~ Overlaps(sp.grants[k], e)
    BY <1>4, <1>7 DEF SpaceInv, Disjoint
  <2> QED BY <1>3, <2>1, <2>2 DEF Overlaps, Bounds
<1>9. Frames(sp) \subseteq Frames(new)
  BY <1>7 DEF Frames
<1>10. PageBytes <= bytes => a \in Frames(new)
  BY <1>3, <1>6, <1>7 DEF Frames
<1> QED BY <1>3, <1>4, <1>8, <1>9, <1>10 DEF Grown, c, new

\* What Put returns.
LEMMA PutType ==
  ASSUME NEW f, NEW k, NEW v
  PROVE  /\ DOMAIN Put(f, k, v) = {k} \cup DOMAIN f
         /\ \A x \in {k} \cup DOMAIN f : Put(f, k, v)[x] = IF x = k THEN v ELSE f[x]
BY DEF Put

\* Put keeps the values of a dictionary in a set.
LEMMA PutIn ==
  ASSUME NEW f, NEW k, NEW S, NEW v \in S, \A n \in DOMAIN f : f[n] \in S
  PROVE  \A n \in DOMAIN Put(f, k, v) : Put(f, k, v)[n] \in S
BY DEF Put

\* Put forgets no key.
LEMMA PutGrows ==
  \A f, k, v : DOMAIN f \subseteq DOMAIN Put(f, k, v) /\ k \in DOMAIN Put(f, k, v)
BY DEF Put

\* Nor do two of them.
LEMMA PutTwiceGrows ==
  \A f, k, v, l, w : DOMAIN f \subseteq DOMAIN Put(Put(f, k, v), l, w)
BY PutGrows, Zenon

\* The sizes of pages, in the form that is used below.
LEMMA LevelSizes ==
  /\ TopLevel \in Nat /\ TopLevel + 1 = Levels
  /\ \A l \in 0 .. Levels : LevelSize(l) \in Nat \ {0}
  /\ {PageBytes, RootBytes, HypRootBytes} \subseteq Nat \ {0}
BY PageTablesAssumption DEF TopLevel

\* The next call is one of the test, and typed.
LEMMA HeadTyped ==
  ASSUME CallsInv, todo # << >>
  PROVE  /\ CallTyped(cfg, Head(todo))
         /\ Head(todo) = todo[1] /\ 1 \in DOMAIN todo
         /\ Tail(todo) \in Seq(ToSet(Calls(cfg)))
         /\ \A k \in DOMAIN Tail(todo) : k + 1 \in DOMAIN todo /\ Tail(todo)[k] = todo[k + 1] /\ k \in Nat \ {0}
<1>1. todo \in Seq(ToSet(Calls(cfg))) /\ cfg \in Tests
  BY DEF CallsInv
<1> DEFINE S == ToSet(Calls(cfg))
<1>2. \A c \in S : CallTyped(cfg, c)
  BY <1>1, GeneratorAssumption DEF ToSet
<1> HIDE DEF S
<1>3. todo \in Seq(S)
  BY <1>1 DEF S
<1>4. /\ Head(todo) \in S /\ Head(todo) = todo[1] /\ 1 \in DOMAIN todo
      /\ Tail(todo) \in Seq(S)
      /\ \A k \in DOMAIN Tail(todo) : k + 1 \in DOMAIN todo /\ Tail(todo)[k] = todo[k + 1] /\ k \in Nat \ {0}
  BY <1>3
<1> QED BY <1>2, <1>4 DEF S

\* randomize_pagesize returns levels of the walk and sizes that are not 0.
LEMMA PagesizeTyped ==
  ASSUME NEW m, MappingTyped(m), NEW g \in RandomizePagesize(m)
  PROVE  g \in PageSizes /\ FrameSize(g) \in Nat \ {0}
<1>1. ASSUME NEW named \in SUBSET (0 .. TopLevel), NEW excl \in BOOLEAN
      PROVE  PickPagesize(m, named, excl) \subseteq 0 .. TopLevel
  BY LevelSizes DEF PickPagesize
<1>2. ASSUME NEW l \in 0 .. TopLevel  PROVE OwnSize(m, l) \in Nat \ {0}
  BY LevelSizes DEF OwnSize
<1>3. \A l \in 0 .. TopLevel : LevelSize(l) \in Nat \ {0}
  BY LevelSizes
<1>4. \A a, b \in Nat \ {0} : MaxOf(a, b) \in Nat \ {0}
  BY DEF MaxOf
<1>5. m.levels \in SUBSET (0 .. TopLevel) /\ m.glevels \in SUBSET (0 .. TopLevel)
  BY DEF MappingTyped
<1>6. PICK l \in 0 .. TopLevel, x \in 0 .. TopLevel, n \in 0 .. TopLevel : g = SizesAt(m, l, x, n)
  <2>1. {0} \subseteq 0 .. TopLevel
    BY LevelSizes
  <2>2. Leaves(m) \subseteq 0 .. TopLevel
    BY <1>1, <1>5, <2>1, Zenon DEF Leaves
  <2>3. GLeaves(m) \subseteq 0 .. TopLevel
    BY <1>1, <1>5, <2>1, Zenon DEF GLeaves
  <2>4. GNonleaves(m) \subseteq 0 .. TopLevel
    BY <1>1, <2>1, Zenon DEF GNonleaves
  <2> QED BY <2>2, <2>3, <2>4 DEF RandomizePagesize
<1> DEFINE gl == IF ~ cfg.two_stage THEN 0 ELSE IF m.glevels = {} THEN l ELSE x
<1>7. gl \in 0 .. TopLevel
  BY LevelSizes
<1>8. g \in PageSizes
  <2>1. LevelSize(gl) \in Nat \ {0} /\ LevelSize(l) \in Nat \ {0} /\ OwnSize(m, l) \in Nat \ {0}
    BY <1>2, <1>3, <1>7
  <2>2. MaxOf(OwnSize(m, l), LevelSize(gl)) \in Nat \ {0}
    BY <1>4, <2>1
  <2>3. g = [ level |-> l, gleaf |-> gl, gnonleaf |-> n,
              size |-> IF cfg.two_stage THEN MaxOf(OwnSize(m, l), LevelSize(gl)) ELSE OwnSize(m, l),
              phys |-> IF m.own = "modify_pt" THEN LevelSize(l) ELSE OwnSize(m, l) ]
    BY <1>6 DEF SizesAt
  <2> HIDE DEF gl
  <2> QED BY <1>7, <2>1, <2>2, <2>3 DEF PageSizes
<1>9. FrameSize(g) \in Nat \ {0}
  BY <1>3, <1>4, <1>8 DEF FrameSize, PageSizes
<1> QED BY <1>8, <1>9

-----------------------------------------------------------------------------
\* The definition of a good list, with its witness.
LEMMA GoodSeq ==
  ASSUME NEW s, NEW S, s \in Seq(S), \A p \in S : GoodPage(p)
  PROVE  GoodPages(s)
BY Zenon DEF GoodPages

\* The empty list and one page.
LEMMA GoodOne ==
  /\ GoodPages(<< >>)
  /\ \A p : GoodPage(p) => GoodPages(<<p>>)
<1>1. << >> \in Seq({}) /\ \A p : <<p>> \in Seq({p})
  OBVIOUS
<1>2. GoodPages(<< >>)
  <2> DEFINE S == {}
             s == << >>
  <2>1. s \in Seq(S) /\ \A x \in S : GoodPage(x)
    BY <1>1
  <2>2. GoodPages(s)
    <3> HIDE DEF s, S
    <3> QED BY <2>1, GoodSeq
  <2> QED BY <2>2
<1>3. ASSUME NEW p, GoodPage(p)  PROVE GoodPages(<<p>>)
  <2> DEFINE S == {p}
             s == <<p>>
  <2>1. s \in Seq(S) /\ \A x \in S : GoodPage(x)
    BY <1>1, <1>3
  <2>2. GoodPages(s)
    <3> HIDE DEF s, S
    <3> QED BY <2>1, GoodSeq
  <2> QED BY <2>2
<1> QED BY <1>2, <1>3

\* A list that is not empty has a length that is not 0.
LEMMA NotEmpty ==
  ASSUME NEW s, GoodPages(s), s # << >>
  PROVE  Len(s) \in Nat \ {0}
<1>1. PICK S : s \in Seq(S)
  BY DEF GoodPages
<1>2. Len(s) = 0 => s = << >>
  BY <1>1, EmptySeq
<1> QED BY <1>1, <1>2

\* Good lists of pages can be joined.
LEMMA GoodConcat ==
  ASSUME NEW s, NEW t, GoodPages(s), GoodPages(t)
  PROVE  /\ GoodPages(s \o t) /\ Len(s \o t) = Len(s) + Len(t)
         /\ Len(s) \in Nat /\ Len(t) \in Nat
<1>1. PICK S : s \in Seq(S) /\ \A p \in S : GoodPage(p)
  BY DEF GoodPages
<1>2. PICK T : t \in Seq(T) /\ \A p \in T : GoodPage(p)
  BY DEF GoodPages
<1>3. s \in Seq(S \cup T) /\ t \in Seq(S \cup T)
  BY <1>1, <1>2
<1>4. /\ s \o t \in Seq(S \cup T) /\ Len(s \o t) = Len(s) + Len(t)
      /\ Len(s) \in Nat /\ Len(t) \in Nat
  BY <1>3
<1> QED BY <1>1, <1>2, <1>4 DEF GoodPages

\* Names that the test gives, and names derived from others.
LEMMA NamesGood ==
  /\ IsSeq(<< >>)
  /\ \A n : TestName(n) => IsSeq(n[3])
  /\ \A n, tag, l : IsSeq(n[3]) => IsSeq(Derived(n, tag, l)[3])
<1>1. << >> \in Seq({})
  OBVIOUS
<1>2. IsSeq(<< >>)
  BY <1>1, Zenon DEF IsSeq
<1>3. ASSUME NEW n, TestName(n)  PROVE IsSeq(n[3])
  <2>1. n[3] = << >>
    BY <1>3 DEF TestName, Base
  <2> QED BY <1>2, <2>1
<1>4. ASSUME NEW n, NEW tag, NEW l, IsSeq(n[3])  PROVE IsSeq(Derived(n, tag, l)[3])
  <2>1. PICK S : n[3] \in Seq(S)
    BY <1>4 DEF IsSeq
  <2> DEFINE T == S \cup {<<tag, l>>}
  <2>2. Append(n[3], <<tag, l>>) \in Seq(T)
    BY <2>1
  <2> QED BY <2>2 DEF IsSeq, Derived
<1> QED BY <1>2, <1>3, <1>4

\* A page of 4 KiB, and one that is made larger.
LEMMA Page4KGood ==
  ASSUME NEW n, IsSeq(n[3]), NEW va \in Int, NEW pa \in Int, NEW origin
  PROVE  /\ GoodPages(<<Page4K(n, va, pa, origin)>>)
         /\ \A level \in 0 .. TopLevel :
               GoodPages(<<[Page4K(n, va, pa, origin) EXCEPT !.level = level]>>)
<1>1. /\ GoodPage(Page4K(n, va, pa, origin))
      /\ \A level \in 0 .. TopLevel : GoodPage([Page4K(n, va, pa, origin) EXCEPT !.level = level])
  BY LevelSizes DEF Page4K, GoodPage
<1> QED BY <1>1, GoodOne

\* The page of a mapping.
LEMMA MappedPageGood ==
  ASSUME NEW m, TestName(m.name), NEW g \in PageSizes, NEW va \in Int, NEW pa \in Int
  PROVE  GoodPages(<<MappedPage(m, g, va, pa)>>)
<1>1. GoodPage(MappedPage(m, g, va, pa))
  BY NamesGood DEF MappedPage, PageSizes, GoodPage
<1> QED BY <1>1, GoodOne

-----------------------------------------------------------------------------
\* What a step does to the two spaces, and to the lists of pages.
SpacesGrow == Grown(linear, linear', {"linear"}) /\ Grown(physical, physical', {"dram"})
PagesGrow == UNCHANGED pages \/ \E ms, ps : GoodPages(ps) /\ pages' = AddPages(ms, ps)
RootsGrow ==
    \/ UNCHANGED root
    \/ \E a \in Nat \ Frames(physical) : a \in Frames(physical') /\ root' = Put(root, Head(todo).map, a)

\* The addresses that a section's call passes are numbers.
LEMMA StartsTyped ==
  ASSUME NamesInv, NEW c, CallTyped(cfg, c), c.do = "section"
  PROVE  StartAddr(c) \in Int /\ StartLin(c) \in Int
<1>1. /\ behind[Group(c.section)][1] \in Int /\ behind[Group(c.section)][2] \in Int
      /\ behind["runtime"][1] \in Int
  BY GeneratorAssumption DEF NamesInv, CallTyped, Bounds
<1>2. None \in Int /\ ResetPc \in Int /\ IoAddr \in Int
  BY GeneratorAssumption DEF None
<1>3. c.place \in {"random", "reset", "io", "after", "after_pa", "after_lin", "runtime_end"}
  BY DEF CallTyped
<1>4. StartAddr(c) \in Int
  BY <1>1, <1>2, <1>3 DEF StartAddr
<1>5. StartLin(c) \in Int
  BY <1>1, <1>2, <1>3 DEF StartLin
<1> QED BY <1>4, <1>5

\* add_section_handler.
LEMMA SectionStep ==
  ASSUME SpacesInv, CallsInv, NamesInv, AddSection
  PROVE  SpacesGrow /\ NamesInv' /\ PagesGrow
<1> DEFINE c == Head(todo)
           identity == c.identity \/ ~ cfg.paging
           skip == c.skip \/ ~ cfg.paging
           pa == IF identity /\ StartAddr(c) = None THEN StartLin(c) ELSE StartAddr(c)
           va == IF identity THEN None ELSE StartLin(c)
           fixed == IF pa = None /\ skip THEN va ELSE pa
           pc == Request(c.bytes, AlignOf(c.bytes), PhysicalBits, "dram")
           lc == Request(c.bytes, AlignOf(c.bytes), LinearBits, "linear")
           linear_drawn == va = None /\ ~ skip /\ ~ identity
           linear_left  == va = None /\ pa = None /\ skip /\ ~ identity
           name == <<c.section, c.page, << >> >>
<1>1. /\ stage = "addresses" /\ todo # << >> /\ c.do = "section"
      /\ UNCHANGED <<cfg, geometry, parsed>>
  BY Zenon DEF AddSection, placeVars
<1>2. /\ CallTyped(cfg, c) /\ c.bytes \in Nat \ {0} /\ Group(c.section) \in Sections
      /\ fixed \in Int /\ va \in Int
  <2>1. CallTyped(cfg, c)
    BY <1>1, HeadTyped
  <2>2. StartAddr(c) \in Int /\ StartLin(c) \in Int
    BY <1>1, <2>1, StartsTyped
  <2> HIDE DEF c
  <2>3. c.bytes \in Nat \ {0} /\ Group(c.section) \in Sections
    BY <1>1, <2>1 DEF CallTyped
  <2>4. fixed \in Int /\ va \in Int
    BY <2>2 DEF None
  <2> QED BY <2>1, <2>3, <2>4
<1>3. ASSUME UNCHANGED <<linear, physical, addr, pages, behind>>, stage' = "failed"
      PROVE  SpacesGrow /\ NamesInv' /\ PagesGrow
  BY <1>1, <1>3, GrownSame DEF SpacesInv, SpacesGrow, NamesInv, PagesGrow
<1>4. ASSUME NEW phys \in IF fixed = None THEN Grantable(physical, pc) ELSE {fixed},
             NEW lin \in IF linear_drawn THEN Grantable(linear, lc)
                         ELSE IF va = None THEN {phys} ELSE {va},
             physical' = (IF fixed = None THEN Allocate(physical, pc, phys)
                                          ELSE Reserve(physical, phys, c.bytes)),
             linear' = (IF linear_drawn THEN Allocate(linear, lc, lin)
                        ELSE IF linear_left THEN linear
                        ELSE Reserve(linear, lin, c.bytes)),
             pages' = (IF skip THEN pages
                       ELSE AddPages(DOMAIN pages, <<Page4K(name, lin, phys, c.section)>>)),
             addr' = Put(Put(addr, Derived(name, "phys", 0), phys), name, lin),
             behind' = [behind EXCEPT ![Group(c.section)] = <<lin + PageBytes, phys + PageBytes>>],
             UNCHANGED stage
      PROVE  SpacesGrow /\ NamesInv' /\ PagesGrow
  <2> HIDE DEF c, fixed, va, skip, linear_drawn, linear_left, name
  <2>1. phys \in Int /\ Grown(physical, physical', {"dram"})
    <3>1. CASE fixed = None
      BY <1>2, <1>4, <3>1, GrownAllocate DEF SpacesInv
    <3>2. CASE fixed # None
      BY <1>2, <1>4, <3>2, GrownSame, GrownReserve DEF SpacesInv
    <3> QED BY <3>1, <3>2
  <2>2. lin \in Int /\ Grown(linear, linear', {"linear"})
    <3>1. CASE linear_drawn
      BY <1>2, <1>4, <3>1, GrownAllocate DEF SpacesInv
    <3>2. CASE ~ linear_drawn
      <4>1. lin \in Int
        BY <1>2, <1>4, <2>1, <3>2
      <4> QED BY <1>2, <1>4, <3>2, <4>1, GrownSame, GrownReserve DEF SpacesInv
    <3> QED BY <3>1, <3>2
  <2>3. NamesInv'
    <3>1. <<lin + PageBytes, phys + PageBytes>> \in Bounds
      BY <2>1, <2>2, LevelSizes DEF Bounds
    <3>2. behind' \in [Sections -> Bounds]
      BY <1>2, <1>4, <3>1 DEF NamesInv
    <3>3. \A n \in DOMAIN addr' : addr'[n] \in Int
      <4>1. \A n \in DOMAIN addr : addr[n] \in Int
        BY <1>1 DEF NamesInv
      <4>2. \A f, k : (\A n \in DOMAIN f : f[n] \in Int) =>
                \A v \in Int : \A n \in DOMAIN Put(f, k, v) : Put(f, k, v)[n] \in Int
        BY PutIn
      <4> QED BY <1>4, <2>1, <2>2, <4>1, <4>2, Zenon
    <3> QED BY <1>1, <3>2, <3>3 DEF NamesInv
  <2>4. PagesGrow
    <3>1. GoodPages(<<Page4K(name, lin, phys, c.section)>>)
      <4>1. name[3] = << >>
        BY DEF name
      <4> QED BY <2>1, <2>2, <4>1, NamesGood, Page4KGood
    <3> QED BY <1>4, <3>1, Zenon DEF PagesGrow
  <2> QED BY <2>1, <2>2, <2>3, <2>4 DEF SpacesGrow
<1> QED BY <1>3, <1>4, ZenonT(60) DEF AddSection

\* PageMap.initialize.
LEMMA MapStep ==
  ASSUME SpacesInv, CallsInv, NamesInv, InitializePageMap
  PROVE  SpacesGrow /\ NamesInv' /\ PagesGrow /\ RootsGrow
<1> DEFINE m == Head(todo).map
           lc == Request(LevelSize(1), LevelSize(1), RootLinearBits, "linear")
           pc == IF m = "map_hyp" THEN Request(HypRootBytes, HypRootAlign, PhysicalBits, "dram")
                                  ELSE Request(RootBytes, RootAlign, PhysicalBits, "dram")
<1>1. stage = "addresses" /\ UNCHANGED <<cfg, behind, geometry, parsed>> /\ InitializeMap(m)
  BY Zenon DEF InitializePageMap
<1>2. /\ LevelSize(1) \in Nat \ {0} /\ RootBytes \in Nat \ {0} /\ HypRootBytes \in Nat \ {0}
      /\ PageBytes <= RootBytes /\ PageBytes <= HypRootBytes
  BY LevelSizes, PageTablesAssumption
<1>3. ASSUME UNCHANGED <<linear, physical, root, pages, addr>>, stage' = "failed"
      PROVE  SpacesGrow /\ NamesInv' /\ PagesGrow /\ RootsGrow
  BY <1>1, <1>3, GrownSame DEF SpacesInv, SpacesGrow, NamesInv, PagesGrow, RootsGrow
<1>4. ASSUME NEW v \in Grantable(linear, lc), NEW a \in Grantable(physical, pc),
             linear' = Allocate(linear, lc, v), physical' = Allocate(physical, pc, a),
             root' = Put(root, m, a), pages' = AddPages({"map_os"}, <<Page4K(Base(m), a, a, "sptbr")>>),
             addr' = Put(addr, Base(m), a), UNCHANGED stage
      PROVE  SpacesGrow /\ NamesInv' /\ PagesGrow /\ RootsGrow
  <2>1. Grown(linear, linear', {"linear"})
    BY <1>2, <1>4, GrownAllocate DEF SpacesInv
  <2>2. /\ a \in Nat /\ Grown(physical, physical', {"dram"})
        /\ a \notin Frames(physical) /\ a \in Frames(physical')
    <3>1. CASE m = "map_hyp"
      BY <1>2, <1>4, <3>1, GrownAllocate DEF SpacesInv
    <3>2. CASE m # "map_hyp"
      BY <1>2, <1>4, <3>2, GrownAllocate DEF SpacesInv
    <3> QED BY <3>1, <3>2
  <2>3. \A n \in DOMAIN addr' : addr'[n] \in Int
    BY <1>1, <1>4, <2>2, PutIn DEF NamesInv
  <2>4. GoodPages(<<Page4K(Base(m), a, a, "sptbr")>>)
    BY <2>2, NamesGood, Page4KGood DEF TestName, Base
  <2>5. PagesGrow
    BY <1>4, <2>4, Zenon DEF PagesGrow
  <2>6. RootsGrow
    BY <1>4, <2>2, Zenon DEF RootsGrow
  <2> QED BY <1>1, <1>4, <2>1, <2>2, <2>3, <2>5, <2>6 DEF SpacesGrow, NamesInv
<1> QED BY <1>1, <1>3, <1>4, Zenon DEF InitializeMap

\* handle_res_mem.
LEMMA ResMemStep ==
  ASSUME SpacesInv, CallsInv, NamesInv, HandleResMem
  PROVE  SpacesGrow /\ NamesInv' /\ UNCHANGED pages
<1> DEFINE r == Head(todo)
<1>1. /\ r.do = "res_mem" /\ todo # << >>
      /\ linear' = IF r.linear THEN Reserve(linear, r.start, r.size) ELSE linear
      /\ physical' = IF r.linear THEN physical ELSE Reserve(physical, r.start, r.size)
      /\ UNCHANGED <<cfg, addr, pages, stage, behind, geometry, parsed>>
  BY Zenon DEF HandleResMem, placeVars
<1>2. r.start \in Int /\ r.size \in Int
  <2>1. CallTyped(cfg, r)
    BY <1>1, HeadTyped
  <2> QED BY <1>1, <2>1 DEF CallTyped
<1> HIDE DEF r
<1>3. SpacesGrow
  BY <1>1, <1>2, GrownSame, GrownReserve DEF SpacesInv, SpacesGrow
<1> QED BY <1>1, <1>3 DEF NamesInv

\* handle_normal_page_mappings: no space changes, the sizes asked for only grow.
LEMMA NormalStep ==
  ASSUME SpacesInv, CallsInv, NamesInv, HandleNormalPageMapping
  PROVE  SpacesGrow /\ NamesInv' /\ UNCHANGED pages
<1> DEFINE m == Head(todo)
           small == cfg.all4k /\ m.linked = << >>
<1>1. /\ m.do = "mapping" /\ todo # << >>
      /\ UNCHANGED <<cfg, linear, physical, addr, pages, stage, behind>>
  BY Zenon DEF HandleNormalPageMapping, Mapping, placeVars
<1>2. PICK g \in RandomizePagesize(m) :
         LET size == IF small THEN PageBytes ELSE g.size
         IN  /\ geometry' = Put(geometry, m.name, [g EXCEPT !.size = size])
             /\ parsed' = [n \in DOMAIN parsed |->
                   IF n = m.phys
                   THEN LET p == Grow(parsed[n], g.phys, g.phys)
                        IN  [p EXCEPT !.size = IF small THEN PageBytes ELSE @]
                   ELSE IF n = m.name
                   THEN [parsed[n] EXCEPT !.size = IF small THEN PageBytes ELSE MaxOf(@, size)]
                   ELSE parsed[n]]
  BY Zenon DEF HandleNormalPageMapping
<1>3. g \in PageSizes
  <2>1. CallTyped(cfg, m)
    BY <1>1, HeadTyped
  <2>2. MappingTyped(m)
    BY <1>1, <2>1 DEF CallTyped
  <2> QED BY <2>2, PagesizeTyped
<1> DEFINE size == IF small THEN PageBytes ELSE g.size
           P == [size : Nat \ {0}, align : Int]
<1>4. size \in Nat \ {0} /\ PageBytes \in Nat \ {0}
  BY <1>3, LevelSizes DEF PageSizes
<1>5. \A n \in DOMAIN geometry' : geometry'[n] \in PageSizes
  <2>1. [g EXCEPT !.size = size] \in PageSizes
    BY <1>3, <1>4 DEF PageSizes
  <2>2. geometry' = Put(geometry, m.name, [g EXCEPT !.size = size])
    BY <1>2
  <2> QED BY <2>1, <2>2, PutIn DEF NamesInv
<1>6. parsed' \in [Declared(cfg) -> P]
  <2>1. \A p \in P : Grow(p, g.phys, g.phys) \in P
    BY <1>3 DEF Grow, MaxOf, PageSizes
  <2>2. \A p \in P : \A b \in Nat \ {0} : [p EXCEPT !.size = b] \in P /\ MaxOf(p.size, b) \in Nat \ {0}
    BY DEF MaxOf
  <2>3. \A p \in P : p.size \in Nat \ {0}
    OBVIOUS
  <2>4. DOMAIN parsed = Declared(cfg) /\ \A n \in Declared(cfg) : parsed[n] \in P
    BY DEF NamesInv
  <2> HIDE DEF P, size, m
  <2>5. ASSUME NEW n \in Declared(cfg)
        PROVE  /\ [Grow(parsed[n], g.phys, g.phys) EXCEPT
                       !.size = IF small THEN PageBytes ELSE Grow(parsed[n], g.phys, g.phys).size] \in P
               /\ [parsed[n] EXCEPT !.size = IF small THEN PageBytes ELSE MaxOf(parsed[n].size, size)] \in P
    <3> DEFINE p == Grow(parsed[n], g.phys, g.phys)
               b == IF small THEN PageBytes ELSE p.size
               d == IF small THEN PageBytes ELSE MaxOf(parsed[n].size, size)
    <3>1. p \in P /\ parsed[n] \in P
      BY <2>1, <2>4
    <3>2. b \in Nat \ {0} /\ d \in Nat \ {0}
      BY <1>4, <2>2, <2>3, <3>1
    <3>3. [p EXCEPT !.size = b] \in P /\ [parsed[n] EXCEPT !.size = d] \in P
      <4> HIDE DEF b, d, p
      <4> QED BY <2>2, <3>1, <3>2
    <3> QED BY <3>3
  <2>6. parsed' = [n \in Declared(cfg) |->
                    IF n = m.phys
                    THEN [Grow(parsed[n], g.phys, g.phys) EXCEPT
                            !.size = IF small THEN PageBytes ELSE Grow(parsed[n], g.phys, g.phys).size]
                    ELSE IF n = m.name
                    THEN [parsed[n] EXCEPT !.size = IF small THEN PageBytes ELSE MaxOf(parsed[n].size, size)]
                    ELSE parsed[n]]
    BY <1>2, <2>4, Zenon DEF size
  <2> QED BY <2>4, <2>5, <2>6
<1> HIDE DEF m, size
<1>7. SpacesGrow
  BY <1>1, GrownSame DEF SpacesInv, SpacesGrow
<1> QED BY <1>1, <1>5, <1>6, <1>7 DEF NamesInv, Declared

\* handle_random_page_mappings: both spaces are asked, and without paging the
\* frame is marked in the linear space.
LEMMA RandomStep ==
  ASSUME SpacesInv, CallsInv, NamesInv, HandleRandomPageMapping
  PROVE  SpacesGrow /\ NamesInv' /\ PagesGrow
<1> DEFINE m == Head(todo)
           p == parsed[m.name]
           lc(g) == Request(MaxOf(g.size, p.size), MaxOf(g.size, p.align), LinearBits, "linear")
           pc(g) == IF cfg.paging THEN Request(FrameSize(g), FrameSize(g), PhysicalBits, "dram")
                    ELSE Request(MaxOf(g.phys, p.size), MaxOf(g.phys, p.align), PhysicalBits, "dram")
           auto == Derived(m.name, "phys", 0)
<1>1. /\ m.do = "mapping" /\ m.kind = "random" /\ todo # << >> /\ stage = "addresses"
      /\ UNCHANGED <<cfg, behind, parsed>>
  BY Zenon DEF HandleRandomPageMapping, Mapping, placeVars
<1>2. MappingTyped(m) /\ m.name \in Declared(cfg)
  <2>1. CallTyped(cfg, m)
    BY <1>1, HeadTyped
  <2> QED BY <1>1, <2>1 DEF CallTyped
<1>3. p.size \in Nat \ {0}
  BY <1>2 DEF NamesInv
<1>4. ASSUME UNCHANGED <<linear, physical, addr, pages, geometry>>
      PROVE  SpacesGrow /\ NamesInv' /\ PagesGrow
  <2>1. SpacesGrow
    BY <1>4, GrownSame DEF SpacesInv, SpacesGrow
  <2>2. NamesInv'
    BY <1>1, <1>4 DEF NamesInv
  <2> QED BY <1>4, <2>1, <2>2 DEF PagesGrow
<1>5. ASSUME NEW g \in RandomizePagesize(m),
             NEW v \in Grantable(linear, lc(g)), NEW a \in Grantable(physical, pc(g)),
             LET granted == Allocate(linear, lc(g), v)
                 lin     == IF cfg.paging THEN v ELSE a
             IN  /\ linear' = IF cfg.paging THEN granted ELSE Reserve(granted, a, lc(g).size)
                 /\ physical' = Allocate(physical, pc(g), a)
                 /\ addr' = Put(Put(addr, auto, a), m.name, lin)
                 /\ pages' = AddPages({"map_os"} \cup m.maps, <<MappedPage(m, g, lin, a)>>)
                 /\ geometry' = Put(geometry, m.name, g)
      PROVE  SpacesGrow /\ NamesInv' /\ PagesGrow
  <2>1. g \in PageSizes /\ FrameSize(g) \in Nat \ {0}
    BY <1>2, PagesizeTyped
  <2>2. g.size \in Nat \ {0} /\ g.phys \in Nat \ {0}
    BY <2>1 DEF PageSizes
  <2>3. MaxOf(g.size, p.size) \in Nat \ {0} /\ MaxOf(g.phys, p.size) \in Nat \ {0}
    BY <1>3, <2>2 DEF MaxOf
  <2> HIDE DEF m, p, auto
  <2>4. v \in Int /\ Grown(linear, Allocate(linear, lc(g), v), {"linear"})
    BY <2>3, GrownAllocate DEF SpacesInv
  <2>5. a \in Int /\ Grown(physical, physical', {"dram"})
    <3>1. CASE cfg.paging
      BY <1>5, <2>1, <3>1, GrownAllocate DEF SpacesInv
    <3>2. CASE ~ cfg.paging
      BY <1>5, <2>3, <3>2, GrownAllocate DEF SpacesInv
    <3> QED BY <3>1, <3>2
  <2>6. Grown(linear, linear', {"linear"})
    <3> DEFINE granted == Allocate(linear, lc(g), v)
    <3>1. /\ Grown(linear, granted, {"linear"})
          /\ linear' = IF cfg.paging THEN granted ELSE Reserve(granted, a, lc(g).size)
      BY <1>5, <2>4
    <3>2. lc(g).size \in Int
      BY <2>3 DEF Request
    <3> HIDE DEF granted, lc
    <3> QED BY <2>5, <3>1, <3>2, GrownReserve
  <2>7. \A n \in DOMAIN addr' : addr'[n] \in Int
    <3> DEFINE lin == IF cfg.paging THEN v ELSE a
    <3>1. lin \in Int /\ addr' = Put(Put(addr, auto, a), m.name, lin)
      BY <1>5, <2>4, <2>5
    <3> HIDE DEF lin
    <3>2. \A n \in DOMAIN addr : addr[n] \in Int
      BY <1>1 DEF NamesInv
    <3>3. \A n \in DOMAIN Put(addr, auto, a) : Put(addr, auto, a)[n] \in Int
      BY <2>5, <3>2, PutIn
    <3> QED BY <3>1, <3>3, PutIn
  <2>8. \A n \in DOMAIN geometry' : geometry'[n] \in PageSizes
    BY <1>5, <2>1, PutIn DEF NamesInv
  <2> HIDE DEF lc, pc
  <2>9. NamesInv'
    BY <1>1, <2>7, <2>8 DEF NamesInv
  <2>10. PagesGrow
    <3> DEFINE lin == IF cfg.paging THEN v ELSE a
    <3>1. lin \in Int /\ pages' = AddPages({"map_os"} \cup m.maps, <<MappedPage(m, g, lin, a)>>)
      BY <1>5, <2>4, <2>5
    <3> HIDE DEF lin
    <3>2. GoodPages(<<MappedPage(m, g, lin, a)>>)
      BY <1>2, <2>1, <2>5, <3>1, MappedPageGood DEF MappingTyped
    <3> QED BY <3>1, <3>2, Zenon DEF PagesGrow
  <2> QED BY <2>5, <2>6, <2>9, <2>10 DEF SpacesGrow
<1> QED BY <1>4, <1>5, ZenonT(60) DEF HandleRandomPageMapping

\* handle_fixed_page_mappings: at most a frame is drawn.
LEMMA FixedStep ==
  ASSUME SpacesInv, CallsInv, NamesInv, HandleFixedPageMapping
  PROVE  SpacesGrow /\ NamesInv' /\ PagesGrow
<1> DEFINE m == Head(todo)
           drawn == m.pa = None /\ cfg.paging
           pc(g) == Request(IF cfg.two_stage THEN PageBytes ELSE LevelSize(g.level), FrameSize(g),
                            PhysicalBits, "dram")
<1>1. /\ m.do = "mapping" /\ todo # << >> /\ stage = "addresses"
      /\ UNCHANGED <<cfg, behind, parsed>>
  BY Zenon DEF HandleFixedPageMapping, Mapping, placeVars
<1>2. MappingTyped(m) /\ m.lin \in Int /\ m.pa \in Int
  <2>1. CallTyped(cfg, m)
    BY <1>1, HeadTyped
  <2> QED BY <1>1, <2>1 DEF CallTyped, MappingTyped
<1>3. ASSUME UNCHANGED <<linear, physical, addr, pages, geometry>>
      PROVE  SpacesGrow /\ NamesInv' /\ PagesGrow
  <2>1. SpacesGrow
    BY <1>3, GrownSame DEF SpacesInv, SpacesGrow
  <2>2. NamesInv'
    BY <1>1, <1>3 DEF NamesInv
  <2> QED BY <1>3, <2>1, <2>2 DEF PagesGrow
<1>4. ASSUME NEW g \in RandomizePagesize(m),
             NEW a \in IF drawn THEN Grantable(physical, pc(g)) ELSE {IF m.pa = None THEN m.lin ELSE m.pa},
             LET lin   == IF m.lin = None THEN a ELSE m.lin
                 frame == IF cfg.paging THEN a ELSE lin
             IN  /\ physical' = IF drawn THEN Allocate(physical, pc(g), a)
                                ELSE IF cfg.paging THEN physical
                                ELSE Reserve(IF m.pa = None THEN Reserve(physical, frame, g.size)
                                             ELSE physical, frame, g.size)
                 /\ linear' = IF m.lin = None THEN Reserve(linear, lin, g.size) ELSE linear
                 /\ addr' = IF m.pa = None THEN Put(addr, m.name, a)
                            ELSE IF m.lin = None THEN Put(Put(addr, m.phys, a), m.name, lin)
                            ELSE Put(addr, m.phys, a)
                 /\ pages' = AddPages({"map_os"} \cup m.maps, <<MappedPage(m, g, lin, frame)>>)
                 /\ geometry' = Put(geometry, m.name, g)
      PROVE  SpacesGrow /\ NamesInv' /\ PagesGrow
  <2>1. g \in PageSizes
    BY <1>2, PagesizeTyped
  <2>2. g.size \in Nat \ {0} /\ LevelSize(g.level) \in Nat \ {0} /\ PageBytes \in Nat \ {0}
    BY <2>1, LevelSizes DEF PageSizes
  <2> DEFINE lin   == IF m.lin = None THEN a ELSE m.lin
             frame == IF cfg.paging THEN a ELSE lin
  <2> HIDE DEF m
  <2>3. a \in Int /\ (drawn => Grown(physical, Allocate(physical, pc(g), a), {"dram"}))
    <3>1. CASE drawn
      <4> DEFINE bytes == IF cfg.two_stage THEN PageBytes ELSE LevelSize(g.level)
      <4>1. bytes \in Nat \ {0}
        BY <2>2
      <4>2. a \in Grantable(physical, Request(bytes, FrameSize(g), PhysicalBits, "dram"))
        BY <1>4, <3>1, Zenon
      <4> HIDE DEF bytes
      <4>3. a \in Int /\ Grown(physical, Allocate(physical, Request(bytes, FrameSize(g), PhysicalBits, "dram"), a), {"dram"})
        BY <4>1, <4>2, GrownAllocate DEF SpacesInv
      <4> QED BY <4>3 DEF bytes
    <3>2. CASE ~ drawn
      BY <1>2, <1>4, <3>2
    <3> QED BY <3>1, <3>2
  <2>4. lin \in Int /\ frame \in Int
    BY <1>2, <2>3
  <2>5. Grown(physical, physical', {"dram"})
    <3> DEFINE once == IF m.pa = None THEN Reserve(physical, frame, g.size) ELSE physical
    <3>1. physical' = IF drawn THEN Allocate(physical, pc(g), a)
                      ELSE IF cfg.paging THEN physical ELSE Reserve(once, frame, g.size)
      BY <1>4
    <3>2. Grown(physical, physical, {"dram"})
      BY GrownSame DEF SpacesInv
    <3>3. g.size \in Int
      BY <2>2
    <3> HIDE DEF lin, frame, drawn, pc
    <3>4. Grown(physical, once, {"dram"})
      BY <2>4, <3>2, <3>3, GrownReserve
    <3> HIDE DEF once
    <3>5. Grown(physical, Reserve(once, frame, g.size), {"dram"})
      BY <2>4, <3>3, <3>4, GrownReserve
    <3> QED BY <2>3, <3>1, <3>2, <3>5
  <2>6. Grown(linear, linear', {"linear"})
    <3>1. linear' = IF m.lin = None THEN Reserve(linear, lin, g.size) ELSE linear
      BY <1>4
    <3> HIDE DEF lin
    <3> QED BY <2>2, <2>4, <3>1, GrownSame, GrownReserve DEF SpacesInv
  <2>7. \A n \in DOMAIN addr' : addr'[n] \in Int
    <3>1. \/ addr' = Put(addr, m.name, a)
          \/ addr' = Put(Put(addr, m.phys, a), m.name, lin)
          \/ addr' = Put(addr, m.phys, a)
      BY <1>4
    <3> HIDE DEF lin
    <3>2. \A n \in DOMAIN addr : addr[n] \in Int
      BY <1>1 DEF NamesInv
    <3>3. \A k : \A n \in DOMAIN Put(addr, k, a) : Put(addr, k, a)[n] \in Int
      BY <2>3, <3>2, PutIn
    <3>4. \A n \in DOMAIN Put(Put(addr, m.phys, a), m.name, lin) : Put(Put(addr, m.phys, a), m.name, lin)[n] \in Int
      BY <2>4, <3>3, PutIn
    <3> QED BY <3>1, <3>3, <3>4
  <2>8. \A n \in DOMAIN geometry' : geometry'[n] \in PageSizes
    <3>1. geometry' = Put(geometry, m.name, g)
      BY <1>4
    <3> QED BY <2>1, <3>1, PutIn DEF NamesInv
  <2>9. PagesGrow
    <3>1. pages' = AddPages({"map_os"} \cup m.maps, <<MappedPage(m, g, lin, frame)>>)
      BY <1>4, Zenon
    <3> HIDE DEF lin, frame
    <3>2. GoodPages(<<MappedPage(m, g, lin, frame)>>)
      BY <1>2, <2>1, <2>4, MappedPageGood DEF MappingTyped
    <3> QED BY <3>1, <3>2, Zenon DEF PagesGrow
  <2> QED BY <1>1, <2>5, <2>6, <2>7, <2>8, <2>9 DEF SpacesGrow, NamesInv
<1> QED BY <1>3, <1>4, ZenonT(60) DEF HandleFixedPageMapping

\* handle_random_addr: one space is asked, and without paging the range is
\* marked in both.
LEMMA RandomAddrStep ==
  ASSUME SpacesInv, CallsInv, NamesInv, HandleRandomAddr
  PROVE  SpacesGrow /\ NamesInv' /\ UNCHANGED pages
<1> DEFINE n == Head(todo).name
           isLinear == Head(todo).linear
           mapped == cfg.paging /\ n \in DOMAIN geometry
           ms == {m \in ToSet(cfg.mappings) : m.name = n /\ m.kind = "normal"}
           align == IF isLinear THEN IF mapped THEN geometry[n].size ELSE parsed[n].align
                                ELSE parsed[n].align
           c == IF isLinear
                THEN Request(parsed[n].size, IF mapped THEN geometry[n].size ELSE parsed[n].align,
                             LinearBits, "linear")
                ELSE Request(parsed[n].size, parsed[n].align, PhysicalBits, "dram")
<1>1. /\ Head(todo).do = "addr" /\ todo # << >> /\ stage = "addresses"
      /\ UNCHANGED <<cfg, pages, behind, geometry>>
  BY Zenon DEF HandleRandomAddr, placeVars
<1>2. n \in Declared(cfg)
  <2>1. CallTyped(cfg, Head(todo))
    BY <1>1, HeadTyped
  <2> QED BY <1>1, <2>1 DEF CallTyped
<1>3. parsed[n].size \in Nat \ {0} /\ c.size = parsed[n].size
  BY <1>2 DEF NamesInv, Request
<1>4. ASSUME UNCHANGED <<linear, physical, addr, parsed>>
      PROVE  SpacesGrow /\ NamesInv' /\ UNCHANGED pages
  <2>1. SpacesGrow
    BY <1>4, GrownSame DEF SpacesInv, SpacesGrow
  <2>2. NamesInv'
    BY <1>1, <1>4 DEF NamesInv
  <2> QED BY <1>1, <2>1, <2>2
<1>5. ASSUME NEW a \in Grantable(IF isLinear THEN linear ELSE physical, c),
             LET granted == Allocate(physical, c, a)
             IN  /\ addr' = Put(addr, n, a)
                 /\ linear' = IF isLinear THEN Allocate(linear, c, a)
                              ELSE IF cfg.paging THEN linear ELSE Reserve(linear, a, c.size)
                 /\ physical' = IF isLinear THEN physical
                                ELSE IF cfg.paging THEN granted
                                ELSE Reserve(granted, a, c.size),
             parsed' = IF ~ isLinear \/ ~ mapped THEN parsed
                       ELSE [x \in DOMAIN parsed |->
                               IF \E m \in ms : m.phys = x
                               THEN Grow(parsed[x], FrameSize(geometry[n]), FrameSize(geometry[n]))
                               ELSE parsed[x]]
      PROVE  SpacesGrow /\ NamesInv' /\ UNCHANGED pages
  <2> HIDE DEF n
  <2>1. a \in Int /\ SpacesGrow
    <3>1. CASE isLinear
      <4>1. a \in Int /\ Grown(linear, Allocate(linear, c, a), {"linear"})
        BY <1>3, <1>5, <3>1, GrownAllocate DEF SpacesInv
      <4> HIDE DEF c
      <4> QED BY <1>5, <3>1, <4>1, GrownSame DEF SpacesInv, SpacesGrow
    <3>2. CASE ~ isLinear
      <4>1. a \in Int /\ Grown(physical, Allocate(physical, c, a), {"dram"})
        BY <1>3, <1>5, <3>2, GrownAllocate DEF SpacesInv
      <4> HIDE DEF c
      <4>2. c.size \in Int
        BY <1>3
      <4>3. CASE cfg.paging
        BY <1>5, <3>2, <4>1, <4>3, GrownSame DEF SpacesInv, SpacesGrow
      <4>4. CASE ~ cfg.paging
        <5>1. Grown(linear, linear', {"linear"})
          BY <1>5, <3>2, <4>1, <4>2, <4>4, GrownSame, GrownReserve DEF SpacesInv
        <5>2. Grown(physical, physical', {"dram"})
          BY <1>5, <3>2, <4>1, <4>2, <4>4, GrownReserve DEF SpacesInv
        <5> QED BY <4>1, <5>1, <5>2 DEF SpacesGrow
      <4> QED BY <4>3, <4>4
    <3> QED BY <3>1, <3>2
  <2>2. \A x \in DOMAIN addr' : addr'[x] \in Int
    BY <1>1, <1>5, <2>1, PutIn DEF NamesInv
  <2>3. parsed' \in [Declared(cfg) -> [size : Nat \ {0}, align : Int]]
    <3>1. CASE ~ isLinear \/ ~ mapped
      BY <1>5, <3>1 DEF NamesInv
    <3>2. CASE isLinear /\ mapped
      <4> DEFINE f == FrameSize(geometry[n])
                 P == [size : Nat \ {0}, align : Int]
      <4>1. f \in Nat \ {0}
        <5>1. geometry[n] \in PageSizes
          BY <3>2 DEF NamesInv
        <5>2. LevelSize(geometry[n].level) \in Nat \ {0} /\ LevelSize(geometry[n].gleaf) \in Nat \ {0}
          BY <5>1, LevelSizes DEF PageSizes
        <5> QED BY <5>2 DEF FrameSize, MaxOf
      <4>2. parsed' = [x \in DOMAIN parsed |-> IF \E m \in ms : m.phys = x THEN Grow(parsed[x], f, f)
                                               ELSE parsed[x]]
        BY <1>5, <3>2
      <4> HIDE DEF f, ms
      <4>3. \A p \in P : Grow(p, f, f) \in P
        BY <4>1 DEF Grow, MaxOf
      <4>4. parsed \in [Declared(cfg) -> P]
        BY DEF NamesInv
      <4> HIDE DEF P
      <4>5. parsed' \in [Declared(cfg) -> P]
        BY <4>2, <4>3, <4>4
      <4> QED BY <4>5 DEF P
    <3> QED BY <3>1, <3>2
  <2> QED BY <1>1, <2>1, <2>2, <2>3 DEF NamesInv, Declared
<1> QED BY <1>4, <1>5, Zenon DEF HandleRandomAddr

\* Pages whose frames are not recorded for them.
OwnNone(s) == \A k \in DOMAIN s : ~ OwnsFrame(s[k])

\* A page is added, and behind it pages that own no frame.
AddsPage(p) ==
    \E ms, linked : /\ GoodPages(<<p>>) /\ GoodPages(linked) /\ OwnNone(linked)
                    /\ pages' = AddPages(ms, <<p>> \o linked)

\* The pages that handle_page_mappings adds are good, and own no frame but the first.
LEMMA LinkedPagesGood ==
  ASSUME NamesInv, CallsInv, HandlePageMapping
  PROVE  LET m   == Head(todo).mapping
             pa  == addr[m.phys]
             lin == IF cfg.paging THEN addr[m.name] ELSE pa
         IN  PagesGrow /\ AddsPage(MappedPage(m, geometry[m.name], lin, pa))
<1> DEFINE m == Head(todo).mapping
           pa == addr[m.phys]
           lin == IF cfg.paging THEN addr[m.name] ELSE pa
           g == geometry[m.name]
           linkedPage(k, h) == [MappedPage(m, h, lin + k.offset, pa + k.offset) EXCEPT
                                  !.name = k.name, !.origin = "linked", !.own = "none"]
           bare(k) == [m EXCEPT !.levels = k.levels, !.glevels = {}, !.linked = << >>, !.own = "none"]
           sizes(k) == RandomizePagesize(bare(k))
<1>1. Head(todo).do = "page" /\ todo # << >> /\ stage = "addresses"
  BY Zenon DEF HandlePageMapping
<1>2. MappingTyped(m) /\ g \in PageSizes /\ lin \in Int /\ pa \in Int
  <2>1. CallTyped(cfg, Head(todo)) /\ Head(todo) = todo[1] /\ 1 \in DOMAIN todo
    BY <1>1, HeadTyped
  <2>2. MappingTyped(m)
    BY <1>1, <2>1 DEF CallTyped
  <2>3. m.name \in DOMAIN geometry /\ m.name \in DOMAIN addr /\ m.phys \in DOMAIN addr
    BY <1>1, <2>1 DEF CallsInv, OrderKept
  <2> QED BY <1>1, <2>2, <2>3 DEF NamesInv
<1>3. PICK hs : /\ \A i \in DOMAIN hs : hs[i] \in sizes(m.linked[i])
                /\ DOMAIN hs = DOMAIN m.linked
                /\ pages' = AddPages({"map_os"} \cup m.maps,
                                     <<MappedPage(m, g, lin, pa)>>
                                       \o [i \in DOMAIN m.linked |-> linkedPage(m.linked[i], hs[i])])
  <2>1. PICK hs \in [DOMAIN m.linked -> UNION {sizes(k) : k \in ToSet(m.linked)}] :
                /\ \A i \in DOMAIN hs : hs[i] \in sizes(m.linked[i])
                /\ pages' = AddPages({"map_os"} \cup m.maps,
                                     <<MappedPage(m, g, lin, pa)>>
                                       \o [i \in DOMAIN m.linked |-> linkedPage(m.linked[i], hs[i])])
    BY Zenon DEF HandlePageMapping
  <2>2. DOMAIN hs = DOMAIN m.linked
    BY <2>1, Zenon
  <2> QED BY <2>1, <2>2, Zenon
<1>4. ASSUME NEW i \in DOMAIN m.linked
      PROVE  GoodPage(linkedPage(m.linked[i], hs[i]))
  <2>1. /\ m.linked[i].levels \subseteq 0 .. TopLevel /\ m.linked[i].offset \in Int
        /\ TestName(m.linked[i].name)
    BY <1>2, <1>4 DEF MappingTyped
  <2>2. MappingTyped(bare(m.linked[i]))
    <3> DEFINE levels == m.linked[i].levels
    <3>1. levels \in SUBSET (0 .. TopLevel) /\ {} \in SUBSET (0 .. TopLevel)
      BY <2>1
    <3> HIDE DEF levels, m
    <3> DEFINE b == [m EXCEPT !.levels = levels, !.glevels = {}, !.linked = << >>, !.own = "none"]
    <3>2. TestName(b.name) /\ TestName(b.phys)
      BY <1>2 DEF MappingTyped
    <3>6. b \in [do : {"mapping"}, kind : {"normal", "random", "fixed"}, name : {b.name}, phys : {b.phys},
                 levels : SUBSET (0 .. TopLevel), glevels : SUBSET (0 .. TopLevel),
                 own : {"none", "nonleaf", "modify_pt"}, maps : {b.maps}, lin : Int, pa : Int,
                 linked : {b.linked}]
      BY <1>2, <3>1 DEF MappingTyped
    <3>3. b.linked = << >>
      BY <1>2 DEF MappingTyped
    <3>4. b.linked \in Seq(ToSet(b.linked)) /\ DOMAIN b.linked = {}
      BY <3>3
    <3>5. MappingTyped(b)
      <4> HIDE DEF b
      <4> QED BY <3>2, <3>4, <3>6, Zenon DEF MappingTyped
    <3> QED BY <3>5 DEF levels
  <2>3. hs[i] \in PageSizes
    BY <1>3, <1>4, <2>2, PagesizeTyped
  <2>4. lin + m.linked[i].offset \in Int /\ pa + m.linked[i].offset \in Int
    BY <1>2, <2>1
  <2> DEFINE va == lin + m.linked[i].offset
             fa == pa + m.linked[i].offset
             p  == [MappedPage(m, hs[i], va, fa) EXCEPT
                      !.name = m.linked[i].name, !.origin = "linked", !.own = "none"]
  <2>5. GoodPage(p)
    <3> HIDE DEF m, va, fa
    <3>1. IsSeq(m.linked[i].name[3])
      BY <2>1, NamesGood
    <3> QED BY <2>3, <2>4, <3>1 DEF MappedPage, PageSizes, GoodPage, va, fa
  <2> QED BY <2>5
<1> DEFINE tail == [i \in DOMAIN m.linked |-> linkedPage(m.linked[i], hs[i])]
           head == <<MappedPage(m, g, lin, pa)>>
<1>6. GoodPages(tail)
  <2> DEFINE S == {tail[i] : i \in DOMAIN m.linked}
  <2>1. \A p \in S : GoodPage(p)
    BY <1>4
  <2>2. tail \in Seq(S)
    <3>1. PICK n \in Nat : DOMAIN m.linked = 1 .. n
      BY <1>2 DEF MappingTyped
    <3>2. DOMAIN tail = 1 .. n /\ \A i \in 1 .. n : tail[i] \in S
      BY <3>1
    <3>3. tail = [i \in 1 .. n |-> tail[i]]
      BY <3>1
    <3> HIDE DEF tail, S
    <3> QED BY <3>2, <3>3
  <2> HIDE DEF tail, S
  <2> QED BY <2>1, <2>2, GoodSeq
<1>5. OwnNone(tail)
  <2>1. \A k, h : linkedPage(k, h).origin = "linked"
    BY DEF MappedPage
  <2>2. DOMAIN tail = DOMAIN m.linked /\ \A i \in DOMAIN m.linked : tail[i] = linkedPage(m.linked[i], hs[i])
    OBVIOUS
  <2> HIDE DEF tail, linkedPage
  <2> QED BY <2>1, <2>2 DEF OwnNone, OwnsFrame
<1>9. GoodPages(head)
  BY <1>2, MappedPageGood DEF MappingTyped
<1>7. GoodPages(head \o tail)
  <2> HIDE DEF head, tail
  <2> QED BY <1>6, <1>9, GoodConcat
<1>8. pages' = AddPages({"map_os"} \cup m.maps, head \o tail)
  BY <1>3, Zenon
<1>10. PagesGrow
  BY <1>7, <1>8, Zenon DEF PagesGrow
<1> HIDE DEF tail
<1>11. AddsPage(MappedPage(m, g, lin, pa))
  BY <1>5, <1>6, <1>8, <1>9, Zenon DEF AddsPage
<1> QED BY <1>10, <1>11

\* handle_page_mappings: the address of the frame and the sizes are there, since
\* the calls that make them come first.
LEMMA PageStep ==
  ASSUME SpacesInv, CallsInv, NamesInv, HandlePageMapping
  PROVE  SpacesGrow /\ NamesInv' /\ PagesGrow
<1> DEFINE m == Head(todo).mapping
           pa == addr[m.phys]
           lin == IF cfg.paging THEN addr[m.name] ELSE pa
           g == geometry[m.name]
<1>1. /\ Head(todo).do = "page" /\ todo # << >> /\ stage = "addresses"
      /\ UNCHANGED <<cfg, stage, behind, geometry, parsed>>
      /\ physical' = IF cfg.paging THEN physical ELSE Reserve(physical, pa, g.size)
      /\ linear' = IF cfg.paging THEN linear ELSE Reserve(linear, pa, g.size)
      /\ addr' = [addr EXCEPT ![m.name] = lin]
  BY Zenon DEF HandlePageMapping, placeVars
<1>2. m.name \in DOMAIN geometry /\ m.phys \in DOMAIN addr
  <2>1. Head(todo) = todo[1] /\ 1 \in DOMAIN todo
    BY <1>1, HeadTyped
  <2> QED BY <1>1, <2>1 DEF CallsInv, OrderKept
<1>3. pa \in Int /\ g.size \in Int
  BY <1>1, <1>2 DEF NamesInv, PageSizes
<1> HIDE DEF m
<1>4. \A n \in DOMAIN addr' : addr'[n] \in Int
  <2>1. m.name \in DOMAIN addr => lin \in Int
    BY <1>1, <1>3 DEF NamesInv
  <2> HIDE DEF lin
  <2> QED BY <1>1, <2>1 DEF NamesInv
<1> HIDE DEF pa, g
<1>5. SpacesGrow
  BY <1>1, <1>3, GrownSame, GrownReserve DEF SpacesInv, SpacesGrow
<1> QED BY <1>1, <1>4, <1>5, LinkedPagesGood DEF NamesInv

-----------------------------------------------------------------------------
\* The page whose tables are built is a good one.
LEMMA CurrentTyped ==
  ASSUME PagesInv, CursorInv, stage = "tables"
  PROVE  GoodPage(Current)
<1>1. GoodPages(pages[cursor.map]) /\ GoodPages(pt_pages[cursor.map])
  BY DEF PagesInv, CursorInv
<1>2. GoodPages(Work(cursor.map)) /\ cursor.item \in 1 .. Len(Work(cursor.map))
  BY <1>1, GoodConcat DEF Work, CursorInv
<1> QED BY <1>2 DEF Current, GoodPages

\* While tables are built no address is placed any more.
LEMMA LaterStages ==
  ASSUME NEW maps, ToFirstPage(maps)
  PROVE  stage' \in {"finished", "tables"}
BY DEF ToFirstPage

\* Going on with the next page keeps the stage or ends it.
LEMMA NextStage ==
  ASSUME stage = "tables", ToNextPage
  PROVE  stage' \in {"finished", "tables"}
<1>1. UNCHANGED stage \/ ToFirstPage(MapsBehind(cursor.map))
  BY Zenon DEF ToNextPage
<1> QED BY <1>1, LaterStages

\* What is known of the names stays known behind the first stage.
LEMMA NamesKept ==
  ASSUME NamesInv, UNCHANGED <<cfg, behind, geometry, parsed>>, stage' # "addresses"
  PROVE  NamesInv'
BY DEF NamesInv

\* The linear address through which a test reaches a table is granted like any
\* other.
LEMMA ViewTyped ==
  ASSUME SpacesInv, NEW v \in ViewChoices,
         linear' = IF v = None THEN linear ELSE Allocate(linear, ViewRequest, v)
  PROVE  v \in Int /\ Grown(linear, linear', {"linear"})
<1>1. CASE v = None
  BY <1>1, GrownSame DEF SpacesInv, None
<1>2. CASE v # None
  <2>1. v \in Grantable(linear, ViewRequest)
    BY <1>2 DEF ViewChoices
  <2> QED BY <1>2, <2>1, GrownAllocate, LevelSizes DEF ViewRequest, SpacesInv
<1> QED BY <1>1, <1>2

\* The steps that build tables.
LEMMA TableStep ==
  ASSUME SpacesInv, NamesInv, PagesInv, CursorInv, Table
  PROVE  SpacesGrow /\ NamesInv'
<1>1. stage = "tables" /\ UNCHANGED <<cfg, todo, behind, geometry, parsed>>
  BY Zenon DEF Table, FollowEntry, CreateTable, CreateLeaf
<1>2. CASE FollowEntry
  <2>1. UNCHANGED <<linear, physical>>
    BY <1>2, Zenon DEF FollowEntry
  <2>2. SpacesGrow
    BY <2>1, GrownSame DEF SpacesInv, SpacesGrow
  <2>3. ToNextPage \/ UNCHANGED stage
    BY <1>2, Zenon DEF FollowEntry
  <2>4. stage' # "addresses"
    BY <1>1, <2>3, NextStage
  <2> QED BY <1>1, <2>2, <2>4, NamesKept
<1>3. CASE CreateTable
  <2> DEFINE size == IF cfg.two_stage THEN LevelSize(Current.gnonleaf) ELSE PageBytes
             c    == Request(size, size, PhysicalBits, "dram")
  <2>1. size \in Nat \ {0}
    <3>1. Current.gnonleaf \in 0 .. Levels
      BY <1>1, CurrentTyped, LevelSizes DEF GoodPage
    <3> QED BY <3>1, LevelSizes
  <2>2. ASSUME NEW a \in Grantable(physical, c), NEW v \in ViewChoices,
               physical' = Allocate(physical, c, a),
               linear' = IF v = None THEN linear ELSE Allocate(linear, ViewRequest, v),
               UNCHANGED stage
        PROVE  SpacesGrow /\ NamesInv'
    <3> HIDE DEF size
    <3>1. Grown(physical, physical', {"dram"})
      BY <2>1, <2>2, GrownAllocate DEF SpacesInv
    <3>2. Grown(linear, linear', {"linear"})
      BY <2>2, ViewTyped
    <3>3. NamesInv'
      BY <1>1, <2>2, NamesKept
    <3> QED BY <3>1, <3>2, <3>3 DEF SpacesGrow
  <2>3. ASSUME stage' = "failed", UNCHANGED <<linear, physical>>
        PROVE  SpacesGrow /\ NamesInv'
    BY <1>1, <2>3, GrownSame, NamesKept DEF SpacesInv, SpacesGrow
  <2> QED BY <1>3, <2>2, <2>3, Zenon DEF CreateTable
<1>4. CASE CreateLeaf
  <2>1. UNCHANGED physical
    BY <1>4, Zenon DEF CreateLeaf
  <2>2. ASSUME NEW v \in ViewChoices,
               linear' = IF v = None THEN linear ELSE Allocate(linear, ViewRequest, v),
               ToNextPage
        PROVE  SpacesGrow /\ NamesInv'
    <3>1. Grown(linear, linear', {"linear"})
      BY <2>2, ViewTyped
    <3>2. stage' # "addresses"
      BY <1>1, <2>2, NextStage
    <3>3. NamesInv'
      BY <1>1, <3>2, NamesKept
    <3> QED BY <2>1, <3>1, <3>3, GrownSame DEF SpacesGrow, SpacesInv
  <2>3. ASSUME stage' = "failed", UNCHANGED linear
        PROVE  SpacesGrow /\ NamesInv'
    BY <1>1, <2>1, <2>3, GrownSame, NamesKept DEF SpacesInv, SpacesGrow
  <2> QED BY <1>4, <2>2, <2>3, Zenon DEF CreateLeaf
<1> QED BY <1>2, <1>3, <1>4 DEF Table

\* The calls that place addresses.
Placing ==
    \/ AddSection \/ InitializePageMap \/ HandleResMem
    \/ HandleNormalPageMapping \/ HandleRandomPageMapping \/ HandleFixedPageMapping
    \/ HandleRandomAddr \/ HandlePageMapping

\* Such a call makes no tables, and only the one for a map makes a root.
LEMMA PlacingChanges ==
  ASSUME Placing
  PROVE  /\ stage = "addresses" /\ stage' \in {"addresses", "failed"} /\ todo # << >>
         /\ UNCHANGED <<cfg, pt_pages, pte, cursor>>
         /\ stage' = "failed" \/ todo' = Tail(todo)
         /\ Head(todo).do # "map" => UNCHANGED root
         /\ Head(todo).do = "map" =>
               stage' = "failed" \/ \E a : root' = Put(root, Head(todo).map, a)
<1>1. CASE AddSection
  BY <1>1, ZenonT(30) DEF AddSection, placeVars
<1>2. CASE InitializePageMap
  BY <1>2, ZenonT(30) DEF InitializePageMap, InitializeMap
<1>3. CASE HandleResMem
  BY <1>3, ZenonT(30) DEF HandleResMem, placeVars
<1>4. CASE HandleNormalPageMapping
  BY <1>4, ZenonT(30) DEF HandleNormalPageMapping, Mapping, placeVars
<1>5. CASE HandleRandomPageMapping
  BY <1>5, ZenonT(30) DEF HandleRandomPageMapping, Mapping, placeVars
<1>6. CASE HandleFixedPageMapping
  BY <1>6, ZenonT(30) DEF HandleFixedPageMapping, Mapping, placeVars
<1>7. CASE HandleRandomAddr
  BY <1>7, ZenonT(30) DEF HandleRandomAddr, placeVars
<1>8. CASE HandlePageMapping
  BY <1>8, ZenonT(30) DEF HandlePageMapping, placeVars
<1> QED BY <1>1, <1>2, <1>3, <1>4, <1>5, <1>6, <1>7, <1>8, Zenon DEF Placing

\* It keeps both spaces in order, and adds good pages only.
LEMMA PlacingStep ==
  ASSUME SpacesInv, CallsInv, NamesInv, Placing
  PROVE  SpacesGrow /\ NamesInv' /\ PagesGrow /\ RootsGrow
<1>1. CASE AddSection
  <2>1. UNCHANGED root
    BY <1>1, Zenon DEF AddSection, placeVars
  <2> QED BY <1>1, <2>1, SectionStep DEF RootsGrow
<1>2. CASE InitializePageMap
  BY <1>2, MapStep
<1>3. CASE HandleResMem
  <2>1. UNCHANGED root
    BY <1>3, Zenon DEF HandleResMem, placeVars
  <2> QED BY <1>3, <2>1, ResMemStep DEF RootsGrow, PagesGrow
<1>4. CASE HandleNormalPageMapping
  <2>1. UNCHANGED root
    BY <1>4, ZenonT(30) DEF HandleNormalPageMapping, placeVars
  <2> QED BY <1>4, <2>1, NormalStep DEF RootsGrow, PagesGrow
<1>5. CASE HandleRandomPageMapping
  <2>1. UNCHANGED root
    BY <1>5, ZenonT(30) DEF HandleRandomPageMapping, placeVars
  <2> QED BY <1>5, <2>1, RandomStep DEF RootsGrow
<1>6. CASE HandleFixedPageMapping
  <2>1. UNCHANGED root
    BY <1>6, ZenonT(30) DEF HandleFixedPageMapping, placeVars
  <2> QED BY <1>6, <2>1, FixedStep DEF RootsGrow
<1>7. CASE HandleRandomAddr
  <2>1. UNCHANGED root
    BY <1>7, Zenon DEF HandleRandomAddr, placeVars
  <2> QED BY <1>7, <2>1, RandomAddrStep DEF RootsGrow, PagesGrow
<1>8. CASE HandlePageMapping
  <2>1. UNCHANGED root
    BY <1>8, Zenon DEF HandlePageMapping, placeVars
  <2> QED BY <1>8, <2>1, PageStep DEF RootsGrow
<1> QED BY <1>1, <1>2, <1>3, <1>4, <1>5, <1>6, <1>7, <1>8, Zenon DEF Placing

\* Every step keeps both spaces in order, and the names typed.
LEMMA SpacesStep ==
  ASSUME IInv, [Next]_vars
  PROVE  SpacesGrow /\ NamesInv'
<1> USE DEF IInv
<1>1. CASE Placing
  BY <1>1, PlacingStep
<1>2. CASE StartTables
  <2>1. UNCHANGED <<cfg, linear, physical, behind, geometry, parsed>> /\ ToFirstPage(TableMaps)
    BY <1>2, Zenon DEF StartTables
  <2>2. stage' # "addresses"
    BY <2>1, LaterStages
  <2> QED BY <2>1, <2>2, GrownSame, NamesKept DEF SpacesInv, SpacesGrow
<1>3. CASE Table
  BY <1>3, TableStep
<1>4. CASE UNCHANGED vars
  <2>1. UNCHANGED <<cfg, linear, physical, addr, stage, behind, geometry, parsed>>
    BY <1>4, Zenon DEF vars, tableVars
  <2>2. SpacesGrow
    BY <2>1, GrownSame DEF SpacesInv, SpacesGrow
  <2> QED BY <2>1, <2>2 DEF NamesInv
<1> QED BY <1>1, <1>2, <1>3, <1>4, Zenon DEF Next, Stop, Placing

-----------------------------------------------------------------------------
\* What a step must do for the order of the calls to be kept.
NothingForgotten ==
    cfg' = cfg /\ DOMAIN addr \subseteq DOMAIN addr' /\ DOMAIN geometry \subseteq DOMAIN geometry'

\* The next call was made, and what the others need of it is there.
HeadIsDone ==
    /\ todo # << >> /\ todo' = Tail(todo)
    /\ Head(todo).do = "mapping" /\ Head(todo).kind = "normal" => Head(todo).name \in DOMAIN geometry'
    /\ Head(todo).do = "addr" => Head(todo).name \in DOMAIN addr'

\* A call that is done has done what the calls behind it rely on.
LEMMA OrderStep ==
  ASSUME CallsInv, NothingForgotten, HeadIsDone \/ UNCHANGED todo
  PROVE  CallsInv'
<1>1. CASE UNCHANGED todo
  BY <1>1 DEF CallsInv, OrderKept, NothingForgotten
<1>2. CASE HeadIsDone
  <2>1. /\ todo' \in Seq(ToSet(Calls(cfg)))
        /\ Head(todo) = todo[1]
        /\ \A k \in DOMAIN todo' : k + 1 \in DOMAIN todo /\ todo'[k] = todo[k + 1] /\ k \in Nat \ {0}
    BY <1>2, HeadTyped DEF HeadIsDone
  <2>2. OrderKept'
    <3> SUFFICES ASSUME NEW k \in DOMAIN todo', todo'[k].do = "page"
                 PROVE  /\ \/ todo'[k].mapping.name \in DOMAIN geometry'
                           \/ \E j \in 1 .. k - 1 : /\ todo'[j].do = "mapping" /\ todo'[j].kind = "normal"
                                                   /\ todo'[j].name = todo'[k].mapping.name
                        /\ \A n \in {todo'[k].mapping.phys, todo'[k].mapping.name} :
                              \/ n \in DOMAIN addr'
                              \/ \E j \in 1 .. k - 1 : todo'[j].do = "addr" /\ todo'[j].name = n
      BY DEF OrderKept
    <3>1. k + 1 \in DOMAIN todo /\ todo'[k] = todo[k + 1] /\ k \in Nat \ {0}
      BY <2>1
    <3>2. \A j \in 1 .. (k + 1) - 1 : j = 1 \/ (j - 1 \in 1 .. k - 1 /\ todo[j] = todo'[j - 1])
      <4> SUFFICES ASSUME NEW j \in 1 .. (k + 1) - 1, j # 1
                   PROVE  j - 1 \in 1 .. k - 1 /\ todo[j] = todo'[j - 1]
        OBVIOUS
      <4>1. j - 1 \in 1 .. k - 1 /\ (j - 1) + 1 = j
        BY <3>1
      <4>2. j - 1 \in DOMAIN todo'
        BY <2>1, <4>1
      <4> QED BY <2>1, <4>1, <4>2
    <3>3. \/ todo'[k].mapping.name \in DOMAIN geometry'
          \/ \E j \in 1 .. k - 1 : /\ todo'[j].do = "mapping" /\ todo'[j].kind = "normal"
                                  /\ todo'[j].name = todo'[k].mapping.name
      <4>1. \/ todo[k + 1].mapping.name \in DOMAIN geometry
            \/ \E j \in 1 .. (k + 1) - 1 : /\ todo[j].do = "mapping" /\ todo[j].kind = "normal"
                                          /\ todo[j].name = todo[k + 1].mapping.name
        BY <3>1 DEF CallsInv, OrderKept
      <4>2. CASE todo[k + 1].mapping.name \in DOMAIN geometry
        BY <3>1, <4>2 DEF NothingForgotten
      <4>3. ASSUME NEW j \in 1 .. (k + 1) - 1, todo[j].do = "mapping", todo[j].kind = "normal",
                   todo[j].name = todo[k + 1].mapping.name
            PROVE  \/ todo'[k].mapping.name \in DOMAIN geometry'
                   \/ \E i \in 1 .. k - 1 : /\ todo'[i].do = "mapping" /\ todo'[i].kind = "normal"
                                           /\ todo'[i].name = todo'[k].mapping.name
        <5>1. CASE j = 1
          BY <1>2, <2>1, <3>1, <4>3, <5>1, Zenon DEF HeadIsDone
        <5>2. CASE j # 1
          BY <3>1, <3>2, <4>3, <5>2, Zenon
        <5> QED BY <5>1, <5>2
      <4> QED BY <4>1, <4>2, <4>3
    <3>4. ASSUME NEW n \in {todo'[k].mapping.phys, todo'[k].mapping.name}
          PROVE  \/ n \in DOMAIN addr'
                 \/ \E j \in 1 .. k - 1 : todo'[j].do = "addr" /\ todo'[j].name = n
      <4>1. \/ n \in DOMAIN addr
            \/ \E j \in 1 .. (k + 1) - 1 : todo[j].do = "addr" /\ todo[j].name = n
        BY <3>1 DEF CallsInv, OrderKept
      <4>2. CASE n \in DOMAIN addr
        BY <4>2 DEF NothingForgotten
      <4>3. ASSUME NEW j \in 1 .. (k + 1) - 1, todo[j].do = "addr", todo[j].name = n
            PROVE  n \in DOMAIN addr' \/ \E i \in 1 .. k - 1 : todo'[i].do = "addr" /\ todo'[i].name = n
        <5>1. CASE j = 1
          BY <1>2, <2>1, <4>3, <5>1, Zenon DEF HeadIsDone
        <5>2. CASE j # 1
          BY <3>2, <4>3, <5>2, Zenon
        <5> QED BY <5>1, <5>2
      <4> QED BY <4>1, <4>2, <4>3
    <3> QED BY <3>3, <3>4
  <2> QED BY <2>1, <2>2 DEF CallsInv, NothingForgotten
<1> QED BY <1>1, <1>2

\* The steps that build tables keep all names.
LEMMA TableForgetsNothing ==
  ASSUME Table
  PROVE  NothingForgotten /\ UNCHANGED todo
<1>1. ASSUME NEW gp, NEW tp, AddRawPages(gp, tp)
      PROVE  DOMAIN addr \subseteq DOMAIN addr'
  BY <1>1 DEF AddRawPages
<1>2. DOMAIN addr \subseteq DOMAIN addr'
  <2>1. CASE FollowEntry
    BY <2>1 DEF FollowEntry
  <2>2. CASE CreateTable
    BY <1>1, <2>2, Zenon DEF CreateTable
  <2>3. CASE CreateLeaf
    BY <1>1, <2>3, Zenon DEF CreateLeaf
  <2> QED BY <2>1, <2>2, <2>3 DEF Table
<1>3. UNCHANGED <<cfg, todo, geometry>>
  BY Zenon DEF Table, FollowEntry, CreateTable, CreateLeaf
<1> QED BY <1>2, <1>3 DEF NothingForgotten

\* Every step keeps the order of the calls, and all names.
LEMMA CallsStep ==
  ASSUME CallsInv, [Next]_vars
  PROVE  CallsInv' /\ NothingForgotten
<1> DEFINE done == HeadIsDone \/ UNCHANGED todo
<1>1. CASE AddSection
  <2> DEFINE name == <<Head(todo).section, Head(todo).page, << >> >>
  <2>1. /\ Head(todo).do = "section" /\ todo # << >> /\ UNCHANGED <<cfg, geometry>>
        /\ UNCHANGED todo \/ todo' = Tail(todo)
    BY <1>1, Zenon DEF AddSection, placeVars
  <2>2. UNCHANGED addr \/ \E lin, phys : addr' = Put(Put(addr, Derived(name, "phys", 0), phys), name, lin)
    BY <1>1, Zenon DEF AddSection
  <2> HIDE DEF name
  <2>3. NothingForgotten
    BY <2>1, <2>2, PutGrows, PutTwiceGrows, Zenon DEF NothingForgotten
  <2> QED BY <2>1, <2>3, OrderStep DEF HeadIsDone
<1>2. CASE InitializePageMap
  <2>1. /\ Head(todo).do = "map" /\ todo # << >> /\ UNCHANGED <<cfg, geometry>> /\ todo' = Tail(todo)
        /\ InitializeMap(Head(todo).map)
    BY <1>2, Zenon DEF InitializePageMap
  <2>2. UNCHANGED addr \/ \E a : addr' = Put(addr, Base(Head(todo).map), a)
    BY <2>1, Zenon DEF InitializeMap
  <2>3. NothingForgotten
    BY <2>1, <2>2, PutGrows, PutTwiceGrows, Zenon DEF NothingForgotten
  <2> QED BY <2>1, <2>3, OrderStep DEF HeadIsDone
<1>3. CASE HandleResMem
  <2>1. Head(todo).do = "res_mem" /\ todo # << >> /\ UNCHANGED <<cfg, addr, geometry>> /\ todo' = Tail(todo)
    BY <1>3, Zenon DEF HandleResMem, placeVars
  <2> QED BY <2>1, OrderStep DEF HeadIsDone, NothingForgotten
<1>4. CASE HandleNormalPageMapping
  <2>1. Head(todo).do = "mapping" /\ todo # << >> /\ UNCHANGED <<cfg, addr>> /\ todo' = Tail(todo)
    BY <1>4, Zenon DEF HandleNormalPageMapping, Mapping, placeVars
  <2>2. \E v : geometry' = Put(geometry, Head(todo).name, v)
    BY <1>4, Zenon DEF HandleNormalPageMapping
  <2>3. Head(todo).name \in DOMAIN geometry' /\ DOMAIN geometry \subseteq DOMAIN geometry'
    BY <2>2, PutGrows, Zenon
  <2> QED BY <2>1, <2>3, OrderStep DEF HeadIsDone, NothingForgotten
<1>5. CASE HandleRandomPageMapping
  <2> DEFINE n == Head(todo).name
  <2>1. /\ Head(todo).do = "mapping" /\ Head(todo).kind = "random" /\ todo # << >> /\ UNCHANGED cfg
        /\ UNCHANGED todo \/ todo' = Tail(todo)
    BY <1>5, Zenon DEF HandleRandomPageMapping, Mapping, placeVars
  <2>2. UNCHANGED geometry \/ \E v : geometry' = Put(geometry, n, v)
    BY <1>5, ZenonT(30) DEF HandleRandomPageMapping
  <2>3. UNCHANGED addr \/ \E a, lin : addr' = Put(Put(addr, Derived(n, "phys", 0), a), n, lin)
    BY <1>5, ZenonT(30) DEF HandleRandomPageMapping
  <2> HIDE DEF n
  <2>4. NothingForgotten
    BY <2>1, <2>2, <2>3, PutGrows, PutTwiceGrows, Zenon DEF NothingForgotten
  <2> QED BY <2>1, <2>4, OrderStep DEF HeadIsDone
<1>6. CASE HandleFixedPageMapping
  <2> DEFINE m == Head(todo)
  <2>1. /\ m.do = "mapping" /\ m.kind = "fixed" /\ todo # << >> /\ UNCHANGED cfg
        /\ UNCHANGED todo \/ todo' = Tail(todo)
    BY <1>6, Zenon DEF HandleFixedPageMapping, Mapping, placeVars
  <2>2. UNCHANGED geometry \/ \E v : geometry' = Put(geometry, m.name, v)
    BY <1>6, Zenon DEF HandleFixedPageMapping
  <2>3. UNCHANGED addr \/ \E a, lin : addr' = IF m.pa = None THEN Put(addr, m.name, a)
                                  ELSE IF m.lin = None THEN Put(Put(addr, m.phys, a), m.name, lin)
                                  ELSE Put(addr, m.phys, a)
    BY <1>6, Zenon DEF HandleFixedPageMapping
  <2> HIDE DEF m
  <2>4. DOMAIN addr \subseteq DOMAIN addr'
    <3>1. \A a, lin : /\ DOMAIN addr \subseteq DOMAIN Put(addr, m.name, a)
                      /\ DOMAIN addr \subseteq DOMAIN Put(addr, m.phys, a)
                      /\ DOMAIN addr \subseteq DOMAIN Put(Put(addr, m.phys, a), m.name, lin)
      BY PutGrows, PutTwiceGrows, Zenon
    <3> QED BY <2>3, <3>1
  <2>5. NothingForgotten
    BY <2>1, <2>2, <2>4, PutGrows, Zenon DEF NothingForgotten
  <2> QED BY <2>1, <2>5, OrderStep DEF HeadIsDone, m
<1>7. CASE HandleRandomAddr
  <2> DEFINE n == Head(todo).name
  <2>1. Head(todo).do = "addr" /\ todo # << >> /\ UNCHANGED <<cfg, geometry>>
    BY <1>7, Zenon DEF HandleRandomAddr, placeVars
  <2>2. \/ n \in DOMAIN addr /\ todo' = Tail(todo) /\ UNCHANGED addr
        \/ todo' = Tail(todo) /\ \E a : addr' = Put(addr, n, a)
        \/ UNCHANGED <<addr, todo>>
    BY <1>7, Zenon DEF HandleRandomAddr
  <2>3. NothingForgotten
    BY <2>1, <2>2, PutGrows, PutTwiceGrows, Zenon DEF NothingForgotten
  <2>4. UNCHANGED todo \/ (todo' = Tail(todo) /\ n \in DOMAIN addr')
    BY <2>2, PutGrows, Zenon
  <2> QED BY <2>1, <2>3, <2>4, OrderStep DEF HeadIsDone
<1>8. CASE HandlePageMapping
  <2>1. /\ Head(todo).do = "page" /\ todo # << >> /\ UNCHANGED <<cfg, geometry>> /\ todo' = Tail(todo)
        /\ \E n, v : addr' = [addr EXCEPT ![n] = v]
    BY <1>8, Zenon DEF HandlePageMapping, placeVars
  <2> QED BY <2>1, OrderStep DEF HeadIsDone, NothingForgotten
<1>9. CASE StartTables
  BY <1>9, OrderStep DEF StartTables, NothingForgotten
<1>10. CASE Table
  BY <1>10, TableForgetsNothing, OrderStep
<1>11. CASE UNCHANGED vars
  BY <1>11, OrderStep DEF vars, tableVars, NothingForgotten
<1> QED BY <1>1, <1>2, <1>3, <1>4, <1>5, <1>6, <1>7, <1>8, <1>9, <1>10, <1>11, Zenon DEF Next, Stop

-----------------------------------------------------------------------------
\* add_page.
LEMMA PagesAdded ==
  ASSUME PagesInv, UNCHANGED <<cfg, pt_pages>>, NEW ms, NEW ps, GoodPages(ps), pages' = AddPages(ms, ps)
  PROVE  PagesInv'
<1>1. DOMAIN pages' = MapNames(cfg) /\ MapNames(cfg)' = MapNames(cfg)
  BY DEF PagesInv, AddPages, MapNames
<1>2. ASSUME NEW m \in MapNames(cfg)  PROVE GoodPages(pages'[m])
  <2>1. pages'[m] = pages[m] \/ pages'[m] = pages[m] \o ps
    BY <1>2 DEF PagesInv, AddPages
  <2> QED BY <1>2, <2>1, GoodConcat DEF PagesInv
<1> QED BY <1>1, <1>2 DEF PagesInv

\* No page is added.
LEMMA PagesSame ==
  ASSUME PagesInv, UNCHANGED <<cfg, pages, pt_pages>>
  PROVE  PagesInv'
BY DEF PagesInv, MapNames, GoodPages

\* add_raw_pt_page: the lists only get longer.
LEMMA RawPagesAdded ==
  ASSUME PagesInv, UNCHANGED <<cfg, pages>>, NEW gp, NEW tp, GoodPages(gp), GoodPages(tp), AddRawPages(gp, tp)
  PROVE  /\ PagesInv'
         /\ \A m \in MapNames(cfg) : Len(pt_pages[m]) <= Len(pt_pages'[m])
<1>1. MapNames(cfg)' = MapNames(cfg) /\ DOMAIN pt_pages' = MapNames(cfg)
  BY DEF PagesInv, AddRawPages, MapNames
<1>2. ASSUME NEW m \in MapNames(cfg)
      PROVE  GoodPages(pt_pages'[m]) /\ Len(pt_pages[m]) <= Len(pt_pages'[m])
  <2> DEFINE g == IF m = "map_hyp" THEN gp ELSE << >>
             t == IF m = cursor.map THEN tp ELSE << >>
  <2>1. pt_pages'[m] = pt_pages[m] \o g \o t
    BY <1>2 DEF PagesInv, AddRawPages
  <2>2. GoodPages(g) /\ GoodPages(t) /\ GoodPages(pt_pages[m])
    BY <1>2, GoodOne DEF PagesInv
  <2> HIDE DEF g, t
  <2>3. GoodPages(pt_pages[m] \o g) /\ Len(pt_pages[m]) <= Len(pt_pages[m] \o g)
    BY <2>2, GoodConcat
  <2>4. /\ GoodPages(pt_pages[m] \o g \o t)
        /\ Len(pt_pages[m] \o g \o t) = Len(pt_pages[m] \o g) + Len(t)
        /\ Len(pt_pages[m] \o g) \in Nat /\ Len(t) \in Nat
    BY <2>2, <2>3, GoodConcat
  <2>5. Len(pt_pages[m]) \in Nat
    BY <2>2, GoodConcat
  <2> QED BY <2>1, <2>3, <2>4, <2>5
<1> QED BY <1>1, <1>2 DEF PagesInv

\* The identity pages of map_hyp and the pages of a table for the test.
LEMMA StagePagesGood ==
  ASSUME NEW a \in Int, NEW level \in 0 .. TopLevel, NEW v \in Int, cursor.table \in Int,
         IsSeq(Current.name[3])
  PROVE  /\ \A tag : GoodPages(GStagePage(tag, a, level))
         /\ GoodPages(TablePage(v))
<1>1. PICK b \in Int : b = a - (a % LevelSize(level))
  BY LevelSizes
<1>2. \A n : IsSeq(n[3]) => GoodPages(<<[Page4K(n, b, b, "identity") EXCEPT !.level = level]>>)
  BY Page4KGood
<1>3. ASSUME NEW tag  PROVE GoodPages(GStagePage(tag, a, level))
  BY <1>1, <1>2, GoodOne, NamesGood, Zenon DEF GStagePage
<1>4. \A n : IsSeq(n[3]) => GoodPages(<<Page4K(n, v, cursor.table, "table")>>)
  BY Page4KGood
<1>5. GoodPages(TablePage(v))
  BY <1>4, GoodOne, NamesGood, Zenon DEF TablePage
<1> QED BY <1>3, <1>5

\* Behind the first stage every map has a root.
LEMMA RootsExist ==
  ASSUME RootsInv, EntriesInv, todo = << >>, stage # "failed", NEW m \in MapNames(cfg)
  PROVE  m \in DOMAIN root /\ root[m] \in Nat
BY DEF RootsInv, RootThere

\* The tables are built for maps that exist.
LEMMA TableMapsExist ==
  ASSUME CallsInv
  PROVE  TableMaps \in Seq(MapNames(cfg))
<1>1. cfg.maps \in Seq(ToSet(cfg.maps))
  BY GeneratorAssumption DEF CallsInv
<1>2. ToSet(cfg.maps) \subseteq MapNames(cfg) /\ "map_os" \in MapNames(cfg)
      /\ (cfg.two_stage => "map_hyp" \in MapNames(cfg))
  BY DEF MapNames
<1> DEFINE M == MapNames(cfg)
           T == ToSet(cfg.maps)
<1> HIDE DEF M, T
<1>3. cfg.maps \in Seq(M)
  BY <1>1, <1>2 DEF M, T
<1>4. StageOneMaps \in Seq(M)
  BY <1>2, <1>3 DEF StageOneMaps, M
<1>5. cfg.two_stage => Append(StageOneMaps, "map_hyp") \in Seq(M)
  BY <1>2, <1>4 DEF M
<1>6. << >> \in Seq(M)
  OBVIOUS
<1> QED BY <1>4, <1>5, <1>6, Zenon DEF TableMaps, M

\* The first map that has a page has one to start with.
LEMMA FirstPageExists ==
  ASSUME NEW maps \in Seq(MapNames(cfg)), UNCHANGED <<cfg, pages>>, PagesInv, PagesInv', ToFirstPage(maps),
         \A m \in MapNames(cfg) : root[m] \in Int
  PROVE  CursorInv'
<1> DEFINE left == {i \in DOMAIN maps : pages[maps[i]] \o pt_pages'[maps[i]] # << >>}
<1>1. CASE left = {}
  BY <1>1, Zenon DEF ToFirstPage, CursorInv
<1>2. CASE left # {}
  <2>1. left \in SUBSET Nat
    OBVIOUS
  <2>2. Min(left) \in left
    <3> HIDE DEF left
    <3>1. PICK x \in left : \A y \in left : x <= y
      BY <1>2, <2>1, LeastNatural
    <3> QED BY <3>1 DEF Min
  <2> DEFINE m == maps[Min(left)]
  <2>3. m \in MapNames(cfg) /\ pages[m] \o pt_pages'[m] # << >>
    BY <2>2
  <2>4. cursor' = StartOf(m, 1)
    BY <1>2, Zenon DEF ToFirstPage
  <2> HIDE DEF m, left
  <2>5. GoodPages(pages[m]) /\ GoodPages(pt_pages'[m])
    BY <2>3 DEF PagesInv, MapNames
  <2>6. /\ Len(pages[m] \o pt_pages'[m]) = Len(pages[m]) + Len(pt_pages'[m])
        /\ Len(pages[m]) \in Nat /\ Len(pt_pages'[m]) \in Nat
    BY <2>5, GoodConcat
  <2>7. Len(pages[m] \o pt_pages'[m]) \in Nat \ {0}
    BY <2>3, <2>5, GoodConcat, NotEmpty
  <2>8. cursor'.map = m /\ cursor'.item = 1
        /\ cursor' \in [map : {m}, item : {cursor'.item}, level : {cursor'.level}, table : Int]
    BY <2>3, <2>4 DEF StartOf
  <2>9. 1 \in 1 .. Len(pages[m]) + Len(pt_pages'[m])
    <3>1. \A k \in Nat \ {0} : 1 \in 1 .. k
      OBVIOUS
    <3>2. Len(pages[m]) + Len(pt_pages'[m]) \in Nat \ {0}
      BY <2>6, <2>7, Zenon
    <3> QED BY <3>1, <3>2, Zenon
  <2>10. MapNames(cfg)' = MapNames(cfg) /\ pages' = pages
    BY DEF MapNames
  <2> QED BY <2>3, <2>8, <2>9, <2>10 DEF CursorInv
<1> QED BY <1>1, <1>2

\* The maps behind another one exist.
LEMMA LaterMaps ==
  ASSUME CallsInv, NEW m
  PROVE  MapsBehind(m) \in Seq(MapNames(cfg))
<1> DEFINE I == {i \in 1 .. Len(TableMaps) : TableMaps[i] = m}
           k == SelectInSeq(TableMaps, LAMBDA x : x = m)
<1>1. TableMaps \in Seq(MapNames(cfg))
  BY TableMapsExist
<1>2. k = IF I # {} THEN Min(I) ELSE 0
  BY DEF SelectInSeq
<1>3. k \in Nat
  <2>1. I \in SUBSET Nat
    OBVIOUS
  <2> HIDE DEF I, k
  <2>2. CASE I # {}
    <3>1. PICK x \in I : \A y \in I : x <= y
      BY <2>1, <2>2, LeastNatural
    <3>2. Min(I) \in I
      BY <3>1 DEF Min
    <3> QED BY <1>2, <2>1, <2>2, <3>2
  <2> QED BY <1>2, <2>2
<1> HIDE DEF k
<1>4. SubSeq(TableMaps, k + 1, Len(TableMaps)) \in Seq(MapNames(cfg))
  BY <1>1, <1>3
<1> QED BY <1>4 DEF k, MapsBehind

\* The next page exists, in the same or in a later map.
LEMMA NextPageExists ==
  ASSUME CallsInv, PagesInv, PagesInv', CursorInv, stage = "tables", UNCHANGED <<cfg, pages>>,
         \A m \in MapNames(cfg) : Len(pt_pages[m]) <= Len(pt_pages'[m]), ToNextPage,
         \A m \in MapNames(cfg) : root[m] \in Int
  PROVE  CursorInv'
<1> DEFINE m == cursor.map
           n == Len(pages[m]) + Len(pt_pages'[m])
<1>1. m \in MapNames(cfg) /\ cursor.item \in Nat \ {0} /\ MapNames(cfg)' = MapNames(cfg)
  BY DEF CursorInv, MapNames
<1>2. n \in Nat
  <2>1. GoodPages(pages[m]) /\ GoodPages(pt_pages'[m])
    BY <1>1 DEF PagesInv
  <2>2. Len(pages[m]) \in Nat /\ Len(pt_pages'[m]) \in Nat
    BY <2>1, GoodConcat
  <2>3. \A a, b \in Nat : a + b \in Nat
    OBVIOUS
  <2> QED BY <2>2, <2>3, Zenon
<1>3. CASE cursor.item < n /\ cursor' = StartOf(m, cursor.item + 1) /\ UNCHANGED stage
  <2> HIDE DEF m, n
  <2>1. cursor.item + 1 \in 1 .. n
    BY <1>1, <1>2, <1>3
  <2>2. /\ cursor'.map = m /\ cursor'.item = cursor.item + 1
        /\ cursor' \in [map : {m}, item : {cursor'.item}, level : {cursor'.level}, table : Int]
    BY <1>1, <1>3 DEF StartOf
  <2> QED BY <1>1, <2>1, <2>2 DEF CursorInv, n
<1>4. CASE ToFirstPage(MapsBehind(m))
  <2>1. MapsBehind(m) \in Seq(MapNames(cfg))
    BY LaterMaps
  <2> QED BY <1>4, <2>1, FirstPageExists
<1> QED BY <1>3, <1>4, Zenon DEF ToNextPage

\* Going down a level stays with the page.
LEMMA CursorDown ==
  ASSUME PagesInv, PagesInv', CursorInv, stage = "tables", UNCHANGED <<cfg, pages>>,
         \A m \in MapNames(cfg) : Len(pt_pages[m]) <= Len(pt_pages'[m]),
         NEW t \in Int, cursor' = [cursor EXCEPT !.level = @ - 1, !.table = t]
  PROVE  CursorInv'
<1>1. /\ cursor'.map = cursor.map /\ cursor'.item = cursor.item
      /\ cursor' \in [map : MapNames(cfg), item : {cursor'.item}, level : {cursor'.level}, table : Int]
  BY DEF CursorInv
<1>2. cursor.map \in MapNames(cfg) /\ MapNames(cfg)' = MapNames(cfg)
  BY DEF CursorInv, MapNames
<1>3. GoodPages(pages[cursor.map]) /\ GoodPages(pt_pages[cursor.map]) /\ GoodPages(pt_pages'[cursor.map])
  BY <1>2 DEF PagesInv
<1> DEFINE p == Len(pages[cursor.map])
           q == Len(pt_pages[cursor.map])
           r == Len(pt_pages'[cursor.map])
<1>4. p \in Nat /\ q \in Nat /\ r \in Nat /\ q <= r
  BY <1>2, <1>3, GoodConcat
<1>5. cursor.item \in 1 .. p + q
  BY DEF CursorInv
<1>6. cursor.item \in 1 .. p + r
  <2> HIDE DEF p, q, r
  <2> QED BY <1>4, <1>5
<1> QED BY <1>1, <1>2, <1>6 DEF CursorInv

\* The steps that build tables stay inside the lists of pages.
LEMMA TablePages ==
  ASSUME SpacesInv, CallsInv, PagesInv, RootsInv, EntriesInv, CursorInv, Table
  PROVE  PagesInv' /\ CursorInv'
<1>1. stage = "tables" /\ UNCHANGED <<cfg, pages>>
  BY Zenon DEF Table, FollowEntry, CreateTable, CreateLeaf
<1> DEFINE TablesTyped == \A m \in MapNames(cfg) : root[m] \in Int
<1>7. TablesTyped
  BY <1>1, RootsExist DEF EntriesInv
<1>8. GoodPage(Current) /\ cursor.table \in Int
  BY <1>1, CurrentTyped DEF CursorInv
<1>9. Current.phys \in Int /\ Current.gleaf \in 0 .. TopLevel /\ Current.gnonleaf \in 0 .. TopLevel
  BY <1>8 DEF GoodPage
<1>2. ASSUME UNCHANGED pt_pages
      PROVE  PagesInv' /\ \A m \in MapNames(cfg) : Len(pt_pages[m]) <= Len(pt_pages'[m])
  <2>1. PagesInv'
    BY <1>1, <1>2, PagesSame
  <2>2. ASSUME NEW m \in MapNames(cfg)  PROVE Len(pt_pages[m]) \in Nat
    BY <2>2, GoodConcat DEF PagesInv
  <2> QED BY <1>2, <2>1, <2>2
<1>3. CASE FollowEntry
  <2>1. /\ UNCHANGED pt_pages /\ Slot \in DOMAIN pte
        /\ ToNextPage \/ cursor' = [cursor EXCEPT !.level = @ - 1, !.table = pte[Slot].next]
    BY <1>3, Zenon DEF FollowEntry
  <2>2. pte[Slot].next \in Int
    BY <2>1 DEF EntriesInv
  <2>3. PagesInv' /\ \A m \in MapNames(cfg) : Len(pt_pages[m]) <= Len(pt_pages'[m])
    BY <1>2, <2>1
  <2> QED BY <1>1, <1>7, <2>1, <2>2, <2>3, NextPageExists, CursorDown
<1>4. ASSUME NEW tag, NEW a \in Int, NEW level \in 0 .. TopLevel, NEW v \in Int,
             AddRawPages(GStagePage(tag, a, level), TablePage(v))
      PROVE  PagesInv' /\ \A m \in MapNames(cfg) : Len(pt_pages[m]) <= Len(pt_pages'[m])
  <2>1. GoodPages(GStagePage(tag, a, level)) /\ GoodPages(TablePage(v))
    BY <1>8, StagePagesGood DEF GoodPage
  <2> DEFINE gp == GStagePage(tag, a, level)
             tp == TablePage(v)
  <2> HIDE DEF gp, tp
  <2>2. GoodPages(gp) /\ GoodPages(tp) /\ AddRawPages(gp, tp)
    BY <1>4, <2>1 DEF gp, tp
  <2> QED BY <1>1, <2>2, RawPagesAdded
<1>5. CASE CreateTable
  <2> DEFINE size == IF cfg.two_stage THEN LevelSize(Current.gnonleaf) ELSE PageBytes
             c    == Request(size, size, PhysicalBits, "dram")
  <2>1. \/ \E a \in Grantable(physical, c), v \in ViewChoices :
              /\ linear' = IF v = None THEN linear ELSE Allocate(linear, ViewRequest, v)
              /\ AddRawPages(GStagePage("vslevel", a, Current.gnonleaf), TablePage(v))
              /\ cursor' = [cursor EXCEPT !.level = @ - 1, !.table = a]
        \/ stage' = "failed" /\ UNCHANGED pt_pages
    BY <1>5, Zenon DEF CreateTable
  <2>4. size \in Nat \ {0}
    BY <1>9, LevelSizes
  <2> HIDE DEF size
  <2>2. CASE stage' = "failed" /\ UNCHANGED pt_pages
    BY <1>2, <2>2 DEF CursorInv
  <2>3. ASSUME NEW a \in Grantable(physical, c), NEW v \in ViewChoices,
               linear' = IF v = None THEN linear ELSE Allocate(linear, ViewRequest, v),
               AddRawPages(GStagePage("vslevel", a, Current.gnonleaf), TablePage(v)),
               cursor' = [cursor EXCEPT !.level = @ - 1, !.table = a]
        PROVE  PagesInv' /\ CursorInv'
    <3>2. a \in Int /\ v \in Int
      BY <2>3, <2>4, GrownAllocate, ViewTyped DEF SpacesInv
    <3>1. PagesInv' /\ \A m \in MapNames(cfg) : Len(pt_pages[m]) <= Len(pt_pages'[m])
      BY <1>4, <1>9, <2>3, <3>2
    <3> QED BY <1>1, <2>3, <3>1, <3>2, CursorDown
  <2> QED BY <2>1, <2>2, <2>3
<1>6. CASE CreateLeaf
  <2>1. \/ \E v \in ViewChoices :
              /\ linear' = IF v = None THEN linear ELSE Allocate(linear, ViewRequest, v)
              /\ AddRawPages(GStagePage("vsleaf", Current.phys, Current.gleaf), TablePage(v))
              /\ ToNextPage
        \/ stage' = "failed" /\ UNCHANGED pt_pages
    BY <1>6, Zenon DEF CreateLeaf
  <2>2. CASE stage' = "failed" /\ UNCHANGED pt_pages
    BY <1>2, <2>2 DEF CursorInv
  <2>3. ASSUME NEW v \in ViewChoices,
               linear' = IF v = None THEN linear ELSE Allocate(linear, ViewRequest, v),
               AddRawPages(GStagePage("vsleaf", Current.phys, Current.gleaf), TablePage(v)), ToNextPage
        PROVE  PagesInv' /\ CursorInv'
    <3>1. v \in Int
      BY <2>3, ViewTyped
    <3>2. PagesInv' /\ \A m \in MapNames(cfg) : Len(pt_pages[m]) <= Len(pt_pages'[m])
      BY <1>4, <1>9, <2>3, <3>1
    <3> QED BY <1>1, <1>7, <2>3, <3>2, NextPageExists
  <2> QED BY <2>1, <2>2, <2>3
<1> QED BY <1>3, <1>4, <1>5, <1>6 DEF Table

\* Every step keeps the lists of pages and the place in them.
LEMMA PagesStep ==
  ASSUME IInv, [Next]_vars
  PROVE  PagesInv' /\ CursorInv'
<1> USE DEF IInv
<1>1. CASE Placing
  <2>1. UNCHANGED <<cfg, pt_pages>> /\ stage' # "tables" /\ PagesGrow
    BY <1>1, PlacingChanges, PlacingStep
  <2>2. CursorInv'
    BY <2>1 DEF CursorInv
  <2>3. CASE UNCHANGED pages
    BY <2>1, <2>2, <2>3, PagesSame
  <2>4. CASE ~ UNCHANGED pages
    <3>1. PICK ms, ps : GoodPages(ps) /\ pages' = AddPages(ms, ps)
      BY <2>1, <2>4 DEF PagesGrow
    <3> QED BY <2>1, <2>2, <3>1, PagesAdded
  <2> QED BY <2>3, <2>4
<1>2. CASE StartTables
  <2>1. UNCHANGED <<cfg, pages, pt_pages>> /\ ToFirstPage(TableMaps) /\ todo = << >> /\ stage = "addresses"
    BY <1>2, Zenon DEF StartTables
  <2>2. PagesInv'
    BY <2>1, PagesSame
  <2>3. \A m \in MapNames(cfg) : root[m] \in Int
    BY <2>1, RootsExist
  <2> QED BY <2>1, <2>2, <2>3, TableMapsExist, FirstPageExists
<1>3. CASE Table
  BY <1>3, TablePages
<1>4. CASE UNCHANGED vars
  <2>1. UNCHANGED <<cfg, pages, pt_pages, cursor, stage>>
    BY <1>4, Zenon DEF vars, tableVars
  <2>2. PagesInv'
    BY <2>1, PagesSame
  <2>3. CursorInv'
    <3>1. MapNames(cfg)' = MapNames(cfg)
      BY <2>1 DEF MapNames
    <3> QED BY <2>1, <3>1 DEF CursorInv
  <2> QED BY <2>2, <2>3
<1> QED BY <1>1, <1>2, <1>3, <1>4, Zenon DEF Next, Stop, Placing

-----------------------------------------------------------------------------
\* The first call is taken away.
LEMMA TailOfCalls ==
  ASSUME CallsInv, todo # << >>, NEW k \in DOMAIN todo
  PROVE  todo[k] = Head(todo) \/ \E j \in DOMAIN Tail(todo) : Tail(todo)[j] = todo[k]
<1>1. PICK S : todo \in Seq(S)
  BY DEF CallsInv
<1>2. CASE k = 1
  BY <1>1, <1>2
<1>3. CASE k # 1
  <2>1. k - 1 \in 1 .. Len(todo) - 1 /\ (k - 1) + 1 = k
    BY <1>1, <1>3
  <2>2. k - 1 \in DOMAIN Tail(todo) /\ Tail(todo)[k - 1] = todo[k]
    BY <1>1, <2>1
  <2> QED BY <2>2
<1> QED BY <1>2, <1>3

\* Every step keeps the roots.
LEMMA RootsStep ==
  ASSUME IInv, [Next]_vars
  PROVE  RootsInv'
<1> USE DEF IInv
<1>1. Frames(physical) \subseteq Frames(physical')
  BY SpacesStep DEF SpacesGrow, Grown
<1>2. ASSUME UNCHANGED <<cfg, root, todo>>, stage # "failed" \/ stage' = "failed"
      PROVE  RootsInv'
  <2>1. MapNames(cfg)' = MapNames(cfg) /\ \A m : RootThere(m)' = RootThere(m)
    BY <1>2 DEF MapNames, RootThere
  <2> QED BY <1>1, <1>2, <2>1 DEF RootsInv
<1>3. CASE Placing
  <2>1. /\ UNCHANGED cfg /\ stage = "addresses" /\ todo # << >>
        /\ stage' = "failed" \/ todo' = Tail(todo)
        /\ Head(todo).do # "map" => UNCHANGED root
        /\ Head(todo).do = "map" =>
              stage' = "failed" \/ \E a : root' = Put(root, Head(todo).map, a)
    BY <1>3, PlacingChanges
  <2>2. RootsGrow
    BY <1>3, PlacingStep
  <2>3. /\ \A m \in DOMAIN root' : root'[m] \in Nat /\ root'[m] \in Frames(physical')
        /\ \A m, n \in DOMAIN root' : root'[m] = root'[n] => m = n
    <3>1. CASE UNCHANGED root
      BY <1>1, <3>1 DEF RootsInv
    <3>2. CASE ~ UNCHANGED root
      <4>1. PICK a \in Nat \ Frames(physical) : a \in Frames(physical') /\ root' = Put(root, Head(todo).map, a)
        BY <2>2, <3>2 DEF RootsGrow
      <4> DEFINE h == Head(todo).map
      <4>2. DOMAIN root' = {h} \cup DOMAIN root /\ root'[h] = a /\ \A m \in DOMAIN root \ {h} : root'[m] = root[m]
        BY <4>1 DEF Put
      <4> HIDE DEF h
      <4>3. \A m \in DOMAIN root : root[m] \in Nat /\ root[m] \in Frames(physical) /\ root[m] # a
        BY <4>1 DEF RootsInv
      <4>4. \A m \in DOMAIN root' : root'[m] \in Nat /\ root'[m] \in Frames(physical')
        BY <1>1, <4>1, <4>2, <4>3
      <4>5. \A m, n \in DOMAIN root' : root'[m] = root'[n] => m = n
        BY <4>2, <4>3 DEF RootsInv
      <4> QED BY <4>4, <4>5
    <3> QED BY <3>1, <3>2
  <2>4. ASSUME stage' # "failed", NEW m \in MapNames(cfg)  PROVE RootThere(m)'
    <3>1. CASE m \in DOMAIN root
      <4>1. UNCHANGED root \/ \E n, a : root' = Put(root, n, a)
        BY <2>2 DEF RootsGrow
      <4>2. m \in DOMAIN root'
        BY <3>1, <4>1, PutGrows
      <4> QED BY <4>2 DEF RootThere
    <3>2. CASE m \notin DOMAIN root
      <4>1. PICK k \in DOMAIN todo : todo[k].do = "map" /\ todo[k].map = m
        BY <2>1, <2>4, <3>2 DEF RootsInv, RootThere
      <4>2. CASE todo[k] = Head(todo)
        <5>1. PICK a : root' = Put(root, m, a)
          BY <2>1, <2>4, <4>1, <4>2
        <5>2. m \in DOMAIN root'
          BY <5>1, PutGrows
        <5> QED BY <5>2 DEF RootThere
      <4>3. CASE todo[k] # Head(todo)
        <5>1. \E j \in DOMAIN Tail(todo) : Tail(todo)[j] = todo[k]
          BY <2>1, <4>3, TailOfCalls
        <5> QED BY <2>1, <2>4, <4>1, <5>1 DEF RootThere
      <4> QED BY <4>2, <4>3
    <3> QED BY <3>1, <3>2
  <2>5. MapNames(cfg)' = MapNames(cfg)
    BY <2>1 DEF MapNames
  <2> QED BY <2>3, <2>4, <2>5 DEF RootsInv
<1>4. CASE StartTables
  BY <1>2, <1>4, Zenon DEF StartTables
<1>5. CASE Table
  <2>1. UNCHANGED <<cfg, root, todo>> /\ stage = "tables"
    BY <1>5, Zenon DEF Table, FollowEntry, CreateTable, CreateLeaf
  <2> QED BY <1>2, <2>1
<1>6. CASE UNCHANGED vars
  <2>1. UNCHANGED <<cfg, root, todo, stage>>
    BY <1>6, Zenon DEF vars, tableVars
  <2> QED BY <1>2, <2>1
<1> QED BY <1>3, <1>4, <1>5, <1>6, Zenon DEF Next, Stop, Placing

\* Every step keeps the entries typed, and none is written too early.
LEMMA EntriesStep ==
  ASSUME IInv, [Next]_vars
  PROVE  EntriesInv'
<1> USE DEF IInv
<1>1. CASE Placing
  <2>1. UNCHANGED pte /\ stage' \in {"addresses", "failed"} /\ stage = "addresses"
    BY <1>1, PlacingChanges
  <2> QED BY <2>1 DEF EntriesInv
<1>2. CASE StartTables
  <2>1. UNCHANGED <<pte, todo>> /\ todo = << >> /\ ToFirstPage(TableMaps)
    BY <1>2, Zenon DEF StartTables
  <2> QED BY <2>1, LaterStages DEF EntriesInv
<1>3. CASE Table
  <2>1. stage = "tables" /\ UNCHANGED todo
    BY <1>3, Zenon DEF Table, FollowEntry, CreateTable, CreateLeaf
  <2>2. stage' # "addresses"
    <3>1. UNCHANGED stage \/ ToNextPage \/ stage' = "failed"
      BY <1>3, Zenon DEF Table, FollowEntry, CreateTable, CreateLeaf
    <3> QED BY <2>1, <3>1, NextStage
  <2>3. UNCHANGED pte \/ \E e : e.next \in Int /\ pte' = Put(pte, Slot, e)
    <3>1. CASE FollowEntry
      BY <3>1, Zenon DEF FollowEntry
    <3>2. CASE CreateTable
      <4> DEFINE size == IF cfg.two_stage THEN LevelSize(Current.gnonleaf) ELSE PageBytes
                 c    == Request(size, size, PhysicalBits, "dram")
                 entry(a) == [next |-> a, leaf |-> FALSE, by |-> Current.name]
      <4>1. UNCHANGED pte \/ \E a \in Grantable(physical, c) : pte' = Put(pte, Slot, entry(a))
        BY <3>2, Zenon DEF CreateTable
      <4>2. size \in Nat \ {0}
        BY <2>1, CurrentTyped, LevelSizes DEF GoodPage
      <4> HIDE DEF size
      <4>3. ASSUME NEW a \in Grantable(physical, c)  PROVE a \in Int
        <5>1. SpaceInv(physical, {"dram"})
          BY DEF SpacesInv
        <5>2. a \in Grantable(physical, Request(size, size, PhysicalBits, "dram"))
          BY <4>3
        <5>3. a \in Nat
          BY ONLY <4>2, <5>1, <5>2, GrownAllocate
        <5> QED BY <5>3
      <4>4. \A a : entry(a).next = a
        OBVIOUS
      <4> HIDE DEF entry
      <4> QED BY <4>1, <4>3, <4>4, Zenon
    <3>3. CASE CreateLeaf
      <4> DEFINE entry == [next |-> Current.phys, leaf |-> TRUE, by |-> Current.name]
      <4>1. UNCHANGED pte \/ pte' = Put(pte, Slot, entry)
        BY <3>3, Zenon DEF CreateLeaf
      <4>2. entry.next \in Int
        BY <2>1, CurrentTyped DEF GoodPage
      <4> HIDE DEF entry
      <4> QED BY <4>1, <4>2, Zenon
    <3> QED BY <1>3, <3>1, <3>2, <3>3 DEF Table
  <2>4. \A s \in DOMAIN pte' : pte'[s].next \in Int
    <3>1. CASE UNCHANGED pte
      BY <3>1 DEF EntriesInv
    <3>2. CASE ~ UNCHANGED pte
      <4>1. PICK e : e.next \in Int /\ pte' = Put(pte, Slot, e)
        BY <2>3, <3>2
      <4>2. \A s \in DOMAIN pte' : pte'[s] = e \/ (s \in DOMAIN pte /\ pte'[s] = pte[s])
        BY <4>1 DEF Put
      <4> QED BY <4>1, <4>2 DEF EntriesInv
    <3> QED BY <3>1, <3>2
  <2> QED BY <2>1, <2>2, <2>4 DEF EntriesInv
<1>4. CASE UNCHANGED vars
  <2>1. UNCHANGED <<pte, todo, stage>>
    BY <1>4, Zenon DEF vars, tableVars
  <2> QED BY <2>1 DEF EntriesInv
<1> QED BY <1>1, <1>2, <1>3, <1>4, Zenon DEF Next, Stop, Placing

-----------------------------------------------------------------------------
\* The invariant holds when the generator starts.
LEMMA InitInv == Init => IInv
<1> SUFFICES ASSUME NEW t \in Tests, InitOf(t)  PROVE IInv
  BY DEF Init
<1>1. SpacesInv
  <2>1. \A r \in t.reserved \cup t.dram : r \in AddressRange
    BY GeneratorAssumption
  <2>2. t.reserved \in SUBSET AddressRange /\ t.dram \in SUBSET AddressRange
    BY <2>1
  <2>3. <<0, 2 ^ LinearBits - 1>> \in AddressRange
    BY GeneratorAssumption DEF AddressRange
  <2> DEFINE lseg == [linear |-> {<<0, 2 ^ LinearBits - 1>>}]
             pseg == [dram |-> t.dram]
  <2>4. DOMAIN lseg = {"linear"} /\ \A q \in DOMAIN lseg : lseg[q] \in SUBSET AddressRange
    BY <2>3
  <2>5. DOMAIN pseg = {"dram"} /\ \A q \in DOMAIN pseg : pseg[q] \in SUBSET AddressRange
    BY <2>2
  <2>6. linear = NewSpace(lseg, t.reserved) /\ physical = NewSpace(pseg, t.reserved)
    BY Zenon DEF InitOf
  <2> HIDE DEF lseg, pseg
  <2> QED BY <2>2, <2>4, <2>5, <2>6, NewSpaceInv DEF SpacesInv
<1>2. cfg = t /\ todo = Calls(t) /\ geometry = << >> /\ addr = << >> /\ stage = "addresses"
  BY DEF InitOf
<1>3. CallsInv
  <2>1. Calls(t) \in Seq(ToSet(Calls(t))) /\ PagesComeLater(Calls(t))
    BY GeneratorAssumption
  <2> QED BY <1>2, <2>1 DEF CallsInv, OrderKept, PagesComeLater
<1>4. NamesInv
  <2>1. behind \in [Sections -> Bounds]
    BY DEF InitOf, Bounds, None
  <2>2. parsed \in [Declared(cfg) -> [size : Nat \ {0}, align : Int]]
    <3> DEFINE R(n) == CHOOSE x \in ToSet(t.addrs) : x.name = n
    <3>1. parsed = [n \in {r.name : r \in ToSet(t.addrs)} |-> [size |-> R(n).size, align |-> R(n).align]]
      BY DEF InitOf
    <3>2. {r.name : r \in ToSet(t.addrs)} = Declared(t)
      BY DEF ToSet, Declared
    <3>3. ASSUME NEW n \in Declared(t)  PROVE R(n) \in ToSet(t.addrs)
      <4>1. \E x \in ToSet(t.addrs) : x.name = n
        BY <3>3 DEF ToSet, Declared
      <4> QED BY <4>1
    <3>4. \A x \in ToSet(t.addrs) : x.size \in Nat \ {0} /\ x.align \in Int
      BY GeneratorAssumption DEF ToSet
    <3> HIDE DEF R
    <3> QED BY <1>2, <3>1, <3>2, <3>3, <3>4
  <2> QED BY <1>2, <2>1, <2>2 DEF NamesInv
<1>5. PagesInv
  BY <1>2, GoodOne DEF InitOf, PagesInv
<1>6. CursorInv
  BY <1>2 DEF CursorInv
<1>7. RootsInv
  <2>1. MapsInitialized(t)
    BY GeneratorAssumption
  <2>2. DOMAIN root = {}
    BY DEF InitOf
  <2> QED BY <1>2, <2>1, <2>2 DEF RootsInv, RootThere, MapsInitialized
<1>8. EntriesInv
  <2>1. DOMAIN pte = {}
    BY DEF InitOf
  <2> QED BY <1>2, <2>1 DEF EntriesInv
<1> QED BY <1>1, <1>3, <1>4, <1>5, <1>6, <1>7, <1>8 DEF IInv

\* The invariant holds in every state of a run of the generator.
THEOREM InductiveInvariant == Spec => []IInv
<1>1. IInv /\ [Next]_vars => IInv'
  <2> SUFFICES ASSUME IInv, [Next]_vars  PROVE IInv'
    OBVIOUS
  <2>1. SpacesGrow /\ NamesInv'
    BY SpacesStep
  <2>2. CallsInv'
    BY CallsStep DEF IInv
  <2>3. PagesInv' /\ CursorInv'
    BY PagesStep
  <2>4. RootsInv' /\ EntriesInv'
    BY RootsStep, EntriesStep
  <2> QED BY <2>1, <2>2, <2>3, <2>4 DEF IInv, SpacesGrow, Grown, SpacesInv
<1> QED BY <1>1, InitInv, PTL DEF Spec

\* Whatever the tests, the sizes of pages and spaces and the draws are: two
\* addresses that the generator draws for sections, roots, mappings, names or
\* tables never share memory.
THEOREM GrantsAreDisjoint == Spec => []GrantsDisjoint
<1>1. IInv => GrantsDisjoint
  BY DEF IInv, SpacesInv, SpaceInv, GrantsDisjoint
<1> QED BY <1>1, InductiveInvariant, PTL

\* And no address that is drawn overlaps memory reserved before, however many
\* clusters the reservation is cut into.
THEOREM GrantsAvoidWhatIsReserved == Spec => GrantsAvoidReserved
<1>1. IInv /\ [Next]_vars => [Avoids(linear, linear') /\ Avoids(physical, physical')]_vars
  BY SpacesStep DEF SpacesGrow, Grown
<1> QED BY <1>1, InductiveInvariant, PTL DEF Spec, GrantsAvoidReserved

-----------------------------------------------------------------------------
(***************************************************************************)
(* The geometry of a walk.  The index of an address at a level is a digit  *)
(* of it in the base Entries; the block of a level is what the addresses   *)
(* share that have the same digits from there on upwards.                  *)
(***************************************************************************)
\* A set that is closed downwards.
LEMMA Downward ==
  ASSUME NEW n \in Nat, NEW l \in 0 .. n, NEW S, n \in S, \A j \in l + 1 .. n : j \in S => j - 1 \in S
  PROVE  l .. n \subseteq S
<1> SUFFICES ASSUME ~ (l .. n \subseteq S)  PROVE FALSE
  OBVIOUS
<1> DEFINE T == {k \in 0 .. n - l : n - k \notin S}
<1>1. T \in SUBSET Nat
  OBVIOUS
<1>2. T # {}
  <2>1. PICK j \in l .. n : j \notin S
    OBVIOUS
  <2>2. n - j \in 0 .. n - l /\ n - (n - j) = j
    BY <2>1
  <2> QED BY <2>1, <2>2
<1>3. PICK k \in T : \A y \in T : k <= y
  <2> HIDE DEF T
  <2> QED BY <1>1, <1>2, LeastNatural
<1>4. k \in 0 .. n - l /\ n - k \notin S
  BY <1>3
<1>5. k # 0
  BY <1>4
<1>6. k - 1 \in 0 .. n - l /\ k - 1 \notin T
  BY <1>3, <1>4, <1>5
<1>7. n - (k - 1) \in S /\ n - (k - 1) \in l + 1 .. n /\ n - (k - 1) - 1 = n - k
  BY <1>4, <1>5, <1>6
<1> QED BY <1>4, <1>7

\* Division with remainder.
LEMMA Division ==
  ASSUME NEW x \in Int, NEW n \in Nat \ {0}
  PROVE  \E q, r \in Int : q = x \div n /\ r = x % n /\ 0 <= r /\ r < n /\ x = n * q + r
<1>1. PICK q \in Int : q = x \div n
  OBVIOUS
<1>2. PICK r \in Int : r = x % n /\ 0 <= r /\ r < n
  OBVIOUS
<1>3. x % n = x - n * (x \div n)
  OBVIOUS
<1>4. r = x - n * q
  BY <1>1, <1>2, <1>3
<1>5. x = n * q + r
  BY <1>4
<1> QED BY <1>1, <1>2, <1>5

\* Quotient and remainder are unique.
LEMMA QuotientUnique ==
  ASSUME NEW n \in Nat \ {0}, NEW p \in Int, NEW q \in Int, NEW r \in Int, NEW s \in Int,
         0 <= r, r < n, 0 <= s, s < n, n * p + r = n * q + s
  PROVE  p = q /\ r = s
<1>1. n * (p - q) = s - r
  OBVIOUS
<1>2. ~ (p - q >= 1)
  <2>1. p - q >= 1 => n * (p - q) >= n
    OBVIOUS
  <2> QED BY <1>1, <2>1
<1>3. ~ (q - p >= 1)
  <2>1. q - p >= 1 => n * (q - p) >= n
    OBVIOUS
  <2>2. n * (q - p) = r - s
    OBVIOUS
  <2> QED BY <2>1, <2>2
<1> QED BY <1>2, <1>3

\* The index at a level is what the remainders of its size and of the next differ by.
LEMMA RemainderChain ==
  ASSUME NEW x \in Int, NEW n \in Nat \ {0}, NEW e \in Nat \ {0}
  PROVE  \E i, r \in Int : i = (x \div n) % e /\ r = x % n /\ 0 <= i /\ i < e /\ x % (e * n) = n * i + r
<1>1. PICK q \in Int, r \in Int : q = x \div n /\ r = x % n /\ 0 <= r /\ r < n /\ x = n * q + r
  BY Division
<1>2. PICK d \in Int, i \in Int : d = q \div e /\ i = q % e /\ 0 <= i /\ i < e /\ q = e * d + i
  BY Division
<1> DEFINE w == e * n
           y == n * i + r
<1>3. n * q = w * d + n * i
  <2>1. n * (e * d + i) = n * (e * d) + n * i
    OBVIOUS
  <2>2. n * (e * d) = (e * n) * d
    OBVIOUS
  <2> QED BY <1>2, <2>1, <2>2
<1>4. 0 <= y /\ y < w /\ y \in Int
  <2>1. 0 <= n * i
    BY <1>2
  <2>2. n * i + n <= w
    <3>1. i + 1 <= e /\ i + 1 \in Int
      BY <1>2
    <3>2. \A a, b \in Int : a <= b => n * a <= n * b
      OBVIOUS
    <3>3. n * (i + 1) <= n * e
      BY <3>1, <3>2
    <3>4. n * (i + 1) = n * i + n /\ n * e = e * n
      OBVIOUS
    <3> QED BY <3>3, <3>4
  <2>3. n * i \in Int
    OBVIOUS
  <2> QED BY <1>1, <2>1, <2>2, <2>3
<1>5. x = w * d + y
  <2>1. n * i \in Int /\ w * d \in Int
    OBVIOUS
  <2> QED BY <1>1, <1>3, <2>1
<1>6. w \in Nat \ {0}
  OBVIOUS
<1> HIDE DEF w, y
<1>7. PICK k \in Int, z \in Int : z = x % w /\ 0 <= z /\ z < w /\ x = w * k + z
  <2>1. PICK k \in Int : k = x \div w
    BY <1>6
  <2>2. PICK z \in Int : z = x % w /\ 0 <= z /\ z < w
    BY <1>6
  <2>3. x % w = x - w * (x \div w)
    BY ONLY <1>6, x \in Int
  <2>4. z = x - w * k
    BY ONLY <2>1, <2>2, <2>3
  <2>5. x = w * k + z
    BY ONLY <1>6, <2>4, x \in Int, k \in Int
  <2> QED BY <2>2, <2>5, Zenon
<1>8. x % w = y
  <2>1. w * k + z = w * d + y
    BY <1>5, <1>7
  <2>2. 0 <= z /\ z < w /\ 0 <= y /\ y < w /\ y \in Int /\ k \in Int /\ z \in Int
    BY <1>4, <1>7
  <2>3. z = y
    BY ONLY <1>6, <2>1, <2>2, QuotientUnique, d \in Int
  <2> QED BY <1>7, <2>3
<1>9. i = (x \div n) % e /\ r = x % n
  BY <1>1, <1>2
<1>10. x % (e * n) = n * i + r
  BY <1>8 DEF w, y
<1> QED BY <1>2, <1>9, <1>10, Zenon

\* One level of a walk: the block of the next level, its index, and the rest.
LEMMA IndexStep ==
  ASSUME NEW x \in Int, NEW l \in 0 .. TopLevel
  PROVE  \E i, r, s, n \in Int :
           /\ i = Index(x, l) /\ 0 <= i /\ i < Entries
           /\ n = LevelSize(l) /\ 0 < n
           /\ r = x % LevelSize(l) /\ 0 <= r /\ r < n
           /\ s = x % LevelSize(l + 1) /\ s = n * i + r
           /\ n * i + n <= LevelSize(l + 1) /\ 0 <= n * i
<1>1. /\ LevelSize(l) \in Nat \ {0} /\ LevelSize(l + 1) = Entries * LevelSize(l) /\ Entries \in Nat \ {0}
  <2>1. TopLevel \in Int /\ Levels \in Nat \ {0} /\ l \in 0 .. Levels
    BY PageTablesAssumption DEF TopLevel
  <2> QED BY <2>1, PageTablesAssumption
<1>2. PICK n \in Nat \ {0} : n = LevelSize(l)
  BY <1>1
<1>3. PICK i \in Int, r \in Int :
         i = (x \div n) % Entries /\ r = x % n /\ 0 <= i /\ i < Entries /\ x % (Entries * n) = n * i + r
  BY <1>1, RemainderChain
<1>4. i = Index(x, l) /\ r = x % LevelSize(l)
  BY <1>2, <1>3 DEF Index
<1>5. 0 <= r /\ r < n
  BY <1>3
<1>6. n * i + n <= Entries * n /\ 0 <= n * i
  <2>1. 0 <= n * i
    BY <1>3
  <2>2. i + 1 <= Entries /\ i + 1 \in Int /\ Entries \in Int
    BY <1>1, <1>3
  <2>3. \A a, b \in Int : a <= b => n * a <= n * b
    OBVIOUS
  <2>4. n * (i + 1) <= n * Entries
    BY <2>2, <2>3
  <2>5. n * (i + 1) = n * i + n /\ n * Entries = Entries * n
    BY <1>1
  <2> QED BY <2>1, <2>4, <2>5
<1>7. LevelSize(l + 1) = Entries * n
  BY <1>1, <1>2
<1>8. PICK s \in Int : s = x % LevelSize(l + 1) /\ s = n * i + r
  BY <1>3, <1>7
<1>9. n * i + n <= LevelSize(l + 1)
  BY <1>6, <1>7, Zenon
<1>10. n \in Int /\ 0 < n
  OBVIOUS
<1> QED BY <1>2, <1>3, <1>4, <1>5, <1>6, <1>8, <1>9, <1>10, Zenon

\* The type of a block, and the blocks of the next level: of addresses with the
\* same index in the same block of that level.
LEMMA BlockStep ==
  ASSUME NEW x \in Int, NEW l \in 0 .. TopLevel
  PROVE  \E i, n, b, c, u \in Int :
           /\ i = Index(x, l) /\ n = LevelSize(l) /\ b = BlockStart(x, l) /\ c = BlockStart(x, l + 1)
           /\ u = LevelSize(l + 1) /\ 0 < n /\ b = c + n * i /\ c <= b /\ b + n <= c + u
           /\ x % n = (x % u) - n * i
<1>1. PICK i \in Int, r \in Int, s \in Int, n \in Int :
           /\ i = Index(x, l) /\ 0 <= i /\ i < Entries
           /\ n = LevelSize(l) /\ 0 < n
           /\ r = x % LevelSize(l) /\ 0 <= r /\ r < n
           /\ s = x % LevelSize(l + 1) /\ s = n * i + r
           /\ n * i + n <= LevelSize(l + 1) /\ 0 <= n * i
  BY IndexStep
<1>2. /\ LevelSize(Levels) \in Nat \ {0} /\ LevelSize(l + 1) \in Nat \ {0}
  <2>1. TopLevel \in Int /\ Levels \in Nat \ {0} /\ l + 1 \in 0 .. Levels
    BY PageTablesAssumption DEF TopLevel
  <2> QED BY <2>1, PageTablesAssumption
<1>3. PICK w \in Int, u \in Int : w = x % LevelSize(Levels) /\ u = LevelSize(l + 1)
  BY <1>2
<1>4. PICK y \in Int : y = n * i
  BY <1>1
<1>5. PICK b \in Int, c \in Int : b = w - r /\ c = w - s
  BY <1>1
<1>6. b = BlockStart(x, l) /\ c = BlockStart(x, l + 1)
  BY <1>1, <1>3, <1>5, Zenon DEF BlockStart
<1>7. s = y + r /\ y + n <= u /\ 0 <= y
  BY <1>1, <1>3, <1>4, Zenon
<1>8. b = c + y /\ c <= b /\ b + n <= c + u /\ r = s - y
  BY <1>5, <1>7
<1>9. x % n = (x % u) - n * i
  BY <1>1, <1>3, <1>4, <1>8, Zenon
<1> QED BY <1>1, <1>3, <1>4, <1>6, <1>8, <1>9, Zenon

\* The blocks of an address lie in each other.
LEMMA BlocksNested ==
  ASSUME NEW x \in Int, NEW l \in 0 .. Levels, NEW k \in 0 .. l
  PROVE  /\ BlockStart(x, k) \in Int /\ BlockStart(x, l) \in Int
         /\ LevelSize(k) \in Nat \ {0} /\ LevelSize(l) \in Nat \ {0}
         /\ BlockStart(x, l) <= BlockStart(x, k)
         /\ BlockStart(x, k) + LevelSize(k) <= BlockStart(x, l) + LevelSize(l)
<1>1. Levels \in Nat \ {0} /\ TopLevel \in Nat /\ TopLevel + 1 = Levels
  BY PageTablesAssumption DEF TopLevel
<1>2. ASSUME NEW j \in 0 .. Levels  PROVE BlockStart(x, j) \in Int /\ LevelSize(j) \in Nat \ {0}
  <2>1. LevelSize(j) \in Nat \ {0} /\ LevelSize(Levels) \in Nat \ {0}
    BY <1>1, PageTablesAssumption
  <2> QED BY <2>1 DEF BlockStart
<1> DEFINE S == {j \in 0 .. l : /\ BlockStart(x, l) <= BlockStart(x, j)
                                /\ BlockStart(x, j) + LevelSize(j) <= BlockStart(x, l) + LevelSize(l)}
<1>3. l \in S
  BY <1>2
<1>4. ASSUME NEW j \in k + 1 .. l, j \in S  PROVE j - 1 \in S
  <2>1. j - 1 \in 0 .. TopLevel /\ j - 1 \in 0 .. l /\ (j - 1) + 1 = j /\ j \in 0 .. Levels /\ j - 1 \in 0 .. Levels
    BY <1>1
  <2>2. PICK n \in Int, b \in Int, c \in Int, u \in Int :
           /\ n = LevelSize(j - 1) /\ b = BlockStart(x, j - 1) /\ c = BlockStart(x, j)
           /\ u = LevelSize(j) /\ c <= b /\ b + n <= c + u
    <3> DEFINE h == j - 1
    <3>1. h \in 0 .. TopLevel /\ h + 1 = j
      BY <2>1
    <3> HIDE DEF h
    <3>2. \E n, b, c, u \in Int :
           /\ n = LevelSize(h) /\ b = BlockStart(x, h) /\ c = BlockStart(x, h + 1)
           /\ u = LevelSize(h + 1) /\ c <= b /\ b + n <= c + u
      BY ONLY <3>1, x \in Int, BlockStep, Zenon
    <3> QED BY <3>1, <3>2, Zenon DEF h
  <2>3. BlockStart(x, l) \in Int /\ LevelSize(l) \in Int
    BY <1>2
  <2>4. BlockStart(x, l) <= c /\ c + u <= BlockStart(x, l) + LevelSize(l)
    BY <1>4, <2>2, Zenon
  <2>5. BlockStart(x, l) <= b /\ b + n <= BlockStart(x, l) + LevelSize(l)
    BY <2>2, <2>3, <2>4
  <2> QED BY <2>1, <2>2, <2>5, Zenon
<1>5. k .. l \subseteq S
  <2> HIDE DEF S
  <2> QED BY <1>3, <1>4, Downward
<1>6. k \in S
  BY <1>5
<1> QED BY <1>1, <1>2, <1>6

\* Two addresses go through the same entries at level l and above.
SameWalk(x, y, l) == \A j \in l .. TopLevel : Index(x, j) = Index(y, j)

\* Then they lie in the same block.
LEMMA SameBlock ==
  ASSUME NEW x \in Int, NEW y \in Int, NEW l \in 0 .. Levels, SameWalk(x, y, l)
  PROVE  BlockStart(x, l) = BlockStart(y, l)
<1>1. Levels \in Nat \ {0} /\ TopLevel \in Nat /\ TopLevel + 1 = Levels /\ LevelSize(Levels) \in Nat \ {0}
  BY PageTablesAssumption DEF TopLevel
<1> DEFINE S == {j \in l .. Levels : BlockStart(x, j) = BlockStart(y, j)}
<1>2. Levels \in S
  <2>1. x % LevelSize(Levels) \in Int /\ y % LevelSize(Levels) \in Int
    BY <1>1
  <2>2. BlockStart(x, Levels) = 0 /\ BlockStart(y, Levels) = 0
    BY <2>1 DEF BlockStart
  <2> QED BY <1>1, <2>2
<1>3. ASSUME NEW j \in l + 1 .. Levels, j \in S  PROVE j - 1 \in S
  <2> DEFINE h == j - 1
  <2>1. h \in 0 .. TopLevel /\ h + 1 = j /\ h \in l .. Levels /\ h \in l .. TopLevel
    BY <1>1
  <2> HIDE DEF h
  <2>2. PICK i1 \in Int, n1 \in Int, b1 \in Int, c1 \in Int :
          i1 = Index(x, h) /\ n1 = LevelSize(h) /\ b1 = BlockStart(x, h) /\ c1 = BlockStart(x, h + 1) /\ b1 = c1 + n1 * i1
    <3>1. \E i, n, b, c, u \in Int :
           /\ i = Index(x, h) /\ n = LevelSize(h) /\ b = BlockStart(x, h) /\ c = BlockStart(x, h + 1)
           /\ u = LevelSize(h + 1) /\ 0 < n /\ b = c + n * i /\ c <= b /\ b + n <= c + u
           /\ x % n = (x % u) - n * i
      BY ONLY <2>1, x \in Int, BlockStep, Zenon
    <3> QED BY <3>1, Zenon
  <2>3. PICK i2 \in Int, n2 \in Int, b2 \in Int, c2 \in Int :
          i2 = Index(y, h) /\ n2 = LevelSize(h) /\ b2 = BlockStart(y, h) /\ c2 = BlockStart(y, h + 1) /\ b2 = c2 + n2 * i2
    <3>1. \E i, n, b, c, u \in Int :
           /\ i = Index(y, h) /\ n = LevelSize(h) /\ b = BlockStart(y, h) /\ c = BlockStart(y, h + 1)
           /\ u = LevelSize(h + 1) /\ 0 < n /\ b = c + n * i /\ c <= b /\ b + n <= c + u
           /\ y % n = (y % u) - n * i
      BY ONLY <2>1, y \in Int, BlockStep, Zenon
    <3> QED BY <3>1, Zenon
  <2>4. i1 = i2 /\ n1 = n2 /\ c1 = c2
    BY <1>3, <2>1, <2>2, <2>3, Zenon DEF SameWalk
  <2>5. b1 = b2
    BY <2>2, <2>3, <2>4, Zenon
  <2>6. h \in S
    BY <2>1, <2>2, <2>3, <2>5
  <2> QED BY <2>6 DEF h
<1>4. l .. Levels \subseteq S
  <2> HIDE DEF S
  <2> QED BY <1>1, <1>2, <1>3, Downward
<1> QED BY <1>1, <1>4

\* And the other way round.
LEMMA SameIndices ==
  ASSUME NEW x \in Int, NEW v \in Int, NEW l \in 0 .. Levels,
         BlockStart(x, l) <= v, v <= BlockStart(x, l) + LevelSize(l) - 1
  PROVE  SameWalk(v, x, l)
<1>1. Levels \in Nat \ {0} /\ TopLevel \in Nat /\ TopLevel + 1 = Levels /\ LevelSize(Levels) \in Nat \ {0}
  BY PageTablesAssumption DEF TopLevel
<1>2. ASSUME NEW j \in l .. Levels
      PROVE  /\ BlockStart(x, j) \in Int /\ LevelSize(j) \in Nat \ {0}
             /\ BlockStart(x, j) <= v /\ v <= BlockStart(x, j) + LevelSize(j) - 1
  <2>1. j \in 0 .. Levels /\ l \in 0 .. j
    BY <1>1
  <2>2. /\ BlockStart(x, l) \in Int /\ BlockStart(x, j) \in Int
        /\ LevelSize(l) \in Nat \ {0} /\ LevelSize(j) \in Nat \ {0}
        /\ BlockStart(x, j) <= BlockStart(x, l)
        /\ BlockStart(x, l) + LevelSize(l) <= BlockStart(x, j) + LevelSize(j)
    BY <2>1, BlocksNested
  <2> QED BY <2>2
<1> DEFINE S == {j \in l .. Levels : v % LevelSize(j) = v - BlockStart(x, j) /\ SameWalk(v, x, j)}
<1>3. Levels \in S
  <2>1. BlockStart(x, Levels) = 0
    <3>1. x % LevelSize(Levels) \in Int
      BY <1>1
    <3> QED BY <3>1 DEF BlockStart
  <2>2. Levels \in l .. Levels /\ 0 <= v /\ v <= LevelSize(Levels) - 1
    <3>1. Levels \in l .. Levels
      BY <1>1
    <3>2. BlockStart(x, Levels) <= v /\ v <= BlockStart(x, Levels) + LevelSize(Levels) - 1
      BY <1>2, <3>1
    <3> QED BY <1>1, <2>1, <3>1, <3>2
  <2>3. v % LevelSize(Levels) = v
    BY <1>1, <2>2
  <2>4. SameWalk(v, x, Levels)
    BY <1>1 DEF SameWalk
  <2> QED BY <2>1, <2>2, <2>3, <2>4
<1>4. ASSUME NEW j \in l + 1 .. Levels, j \in S  PROVE j - 1 \in S
  <2> DEFINE h == j - 1
  <2>1. h \in 0 .. TopLevel /\ h + 1 = j /\ h \in l .. Levels /\ h \in l .. TopLevel
    BY <1>1
  <2>2. \A g \in h .. TopLevel : g = h \/ g \in j .. TopLevel
    BY <1>1
  <2> HIDE DEF h
  <2>3. PICK i \in Int, n \in Int, b \in Int, c \in Int :
          i = Index(x, h) /\ n = LevelSize(h) /\ b = BlockStart(x, h) /\ c = BlockStart(x, h + 1) /\ b = c + n * i
    <3>1. \E i, n, b, c, u \in Int :
           /\ i = Index(x, h) /\ n = LevelSize(h) /\ b = BlockStart(x, h) /\ c = BlockStart(x, h + 1)
           /\ u = LevelSize(h + 1) /\ 0 < n /\ b = c + n * i /\ c <= b /\ b + n <= c + u
           /\ x % n = (x % u) - n * i
      BY ONLY <2>1, x \in Int, BlockStep, Zenon
    <3> QED BY <3>1, Zenon
  <2>4. PICK k \in Int, r \in Int, s \in Int, n2 \in Int :
          /\ k = Index(v, h) /\ n2 = LevelSize(h) /\ r = v % LevelSize(h) /\ 0 <= r /\ r < n2
          /\ s = v % LevelSize(h + 1) /\ s = n2 * k + r
    <3>1. \E e, r, s, w \in Int :
           /\ e = Index(v, h) /\ 0 <= e /\ e < Entries
           /\ w = LevelSize(h) /\ 0 < w
           /\ r = v % LevelSize(h) /\ 0 <= r /\ r < w
           /\ s = v % LevelSize(h + 1) /\ s = w * e + r
           /\ w * e + w <= LevelSize(h + 1) /\ 0 <= w * e
      BY ONLY <2>1, v \in Int, IndexStep, Zenon
    <3> QED BY <3>1, Zenon
  <2>5. n2 = n /\ n \in Nat \ {0} /\ s = v - c /\ b <= v /\ v <= b + n - 1
    BY <1>2, <1>4, <2>1, <2>3, <2>4
  <2>6. n * k + r = n * i + (v - b)
    <3>1. PICK y \in Int : y = n * i
      BY <2>3
    <3>2. PICK z \in Int : z = n * k
      BY <2>4
    <3>3. z + r = v - c /\ b = c + y
      BY <2>3, <2>4, <2>5, <3>1, <3>2, Zenon
    <3>4. z + r = y + (v - b)
      BY <3>3
    <3> QED BY <3>1, <3>2, <3>4
  <2>7. 0 <= v - b /\ v - b < n /\ v - b \in Int
    BY <2>5
  <2>8. k = i /\ r = v - b
    <3>1. PICK d \in Int : d = v - b
      BY <2>7
    <3>2. n * k + r = n * i + d /\ 0 <= d /\ d < n
      BY <2>6, <2>7, <3>1, Zenon
    <3>3. 0 <= r /\ r < n
      BY <2>4, <2>5, Zenon
    <3>4. k = i /\ r = d
      BY ONLY <2>5, <3>2, <3>3, QuotientUnique, k \in Int, i \in Int, r \in Int, d \in Int
    <3> QED BY <3>1, <3>4
  <2>9. SameWalk(v, x, h)
    BY <1>4, <2>2, <2>3, <2>4, <2>8, Zenon DEF SameWalk
  <2>10. h \in S
    BY <2>1, <2>3, <2>4, <2>8, <2>9, Zenon
  <2> QED BY <2>10 DEF h
<1>5. l .. Levels \subseteq S
  <2> HIDE DEF S
  <2> QED BY <1>1, <1>3, <1>4, Downward
<1>6. l \in S
  BY <1>1, <1>5
<1> QED BY <1>6

-----------------------------------------------------------------------------
(***************************************************************************)
(* Walks and the tree of the tables.  The tables that a run builds are a   *)
(* forest below the roots: a table has one place, which is its map, its    *)
(* level and a linear address that is walked through it.  The place of every*)
(* table is a witness of the proof, not a state of the generator.          *)
(***************************************************************************)
\* A walk for va through the entries pt, from the table base down to level l:
\* tb names the table of every level.
Path(pt, base, va, l, tb) ==
    /\ tb[TopLevel] = base
    /\ \A k \in l + 1 .. TopLevel :
          /\ <<tb[k], Index(va, k)>> \in DOMAIN pt
          /\ ~ pt[<<tb[k], Index(va, k)>>].leaf
          /\ pt[<<tb[k], Index(va, k)>>].next = tb[k - 1]

\* A leaf entry of a table at place x is the one of a page of its map.
LeafFits(x, i, wk) ==
    /\ x.map \in DOMAIN wk
    /\ \E j \in DOMAIN wk[x.map] :
          LET p == wk[x.map][j]
          IN  p.level = x.level /\ SameWalk(p.lin, x.va, x.level + 1) /\ Index(p.lin, x.level) = i

\* Any entry e is written for a page of its map whose walk comes to it; a leaf
\* holds that page's frame.
WrittenFor(x, i, e, wk) ==
    /\ x.map \in DOMAIN wk
    /\ \E j \in DOMAIN wk[x.map] :
          LET p == wk[x.map][j]
          IN  /\ p.name = e.by /\ SameWalk(p.lin, x.va, x.level + 1) /\ Index(p.lin, x.level) = i
              /\ e.leaf => p.level = x.level /\ p.phys = e.next

\* The table at place y is the one that entry i of the table at place x names.
TableFits(x, i, y) ==
    /\ x.level > 0 /\ y.level = x.level - 1 /\ y.map = x.map
    /\ SameWalk(y.va, x.va, x.level + 1) /\ Index(y.va, x.level) = i

(***************************************************************************)
(* The tables form a tree: each has one place, which is a map, a level and *)
(* a linear address that is walked through it, and is a frame of its own;  *)
(* the roots are at the top, and every entry leads one level down.  It     *)
(* names the page that it was written for.                                 *)
(***************************************************************************)
Tree(at, pt, rt, wk, fr) ==
    /\ \A t \in DOMAIN at : t \in Nat /\ t \in fr /\ at[t].level \in 0 .. TopLevel
    /\ \A m \in DOMAIN rt : rt[m] \in DOMAIN at /\ at[rt[m]].map = m /\ at[rt[m]].level = TopLevel
    /\ \A s \in DOMAIN pt :
          /\ s[1] \in DOMAIN at
          /\ WrittenFor(at[s[1]], s[2], pt[s], wk)
          /\ pt[s].leaf => LeafFits(at[s[1]], s[2], wk)
          /\ ~ pt[s].leaf => pt[s].next \in DOMAIN at /\ TableFits(at[s[1]], s[2], at[pt[s].next])

\* The tables of a walk lie where the walk passes.
LEMMA PathPlaces ==
  ASSUME NEW at, NEW pt, NEW rt, NEW wk, NEW fr, Tree(at, pt, rt, wk, fr), NEW m \in DOMAIN rt,
         NEW va, NEW l \in 0 .. TopLevel, NEW tb, Path(pt, rt[m], va, l, tb)
  PROVE  \A k \in l .. TopLevel :
            /\ tb[k] \in DOMAIN at /\ at[tb[k]].map = m /\ at[tb[k]].level = k
            /\ SameWalk(at[tb[k]].va, va, k + 1)
<1> DEFINE S == {k \in l .. TopLevel : /\ tb[k] \in DOMAIN at /\ at[tb[k]].map = m /\ at[tb[k]].level = k
                                       /\ SameWalk(at[tb[k]].va, va, k + 1)}
<1>1. TopLevel \in Nat
  BY LevelSizes
<1>2. TopLevel \in S
  <2>1. \A x, y : SameWalk(x, y, TopLevel + 1)
    BY <1>1 DEF SameWalk
  <2>2. tb[TopLevel] = rt[m] /\ rt[m] \in DOMAIN at /\ at[rt[m]].map = m /\ at[rt[m]].level = TopLevel
    BY DEF Tree, Path
  <2>3. TopLevel \in l .. TopLevel
    BY <1>1
  <2> QED BY <2>1, <2>2, <2>3
<1>3. ASSUME NEW k \in l + 1 .. TopLevel, k \in S  PROVE k - 1 \in S
  <2> DEFINE s == <<tb[k], Index(va, k)>>
  <2>1. s \in DOMAIN pt /\ ~ pt[s].leaf /\ pt[s].next = tb[k - 1] /\ s[1] = tb[k] /\ s[2] = Index(va, k)
    BY DEF Path
  <2>2. tb[k - 1] \in DOMAIN at /\ TableFits(at[tb[k]], Index(va, k), at[tb[k - 1]])
    <3> HIDE DEF s
    <3> QED BY <2>1, Zenon DEF Tree
  <2>3. at[tb[k]].map = m /\ at[tb[k]].level = k /\ SameWalk(at[tb[k]].va, va, k + 1)
    BY <1>3
  <2>4. k - 1 \in l .. TopLevel /\ k \in Int /\ (k - 1) + 1 = k
    BY <1>1
  <2> DEFINE y == at[tb[k - 1]]
  <2> HIDE DEF y
  <2>5. y.map = m /\ y.level = k - 1 /\ SameWalk(y.va, at[tb[k]].va, k + 1) /\ Index(y.va, k) = Index(va, k)
    BY <2>2, <2>3, Zenon DEF TableFits, y
  <2>6. \A j \in k .. TopLevel : j = k \/ j \in k + 1 .. TopLevel
    BY <1>1
  <2>7. SameWalk(y.va, va, k)
    BY <2>3, <2>5, <2>6, Zenon DEF SameWalk
  <2>8. SameWalk(y.va, va, (k - 1) + 1)
    BY <2>4, <2>7
  <2> QED BY <2>2, <2>4, <2>5, <2>8 DEF y
<1>4. l .. TopLevel \subseteq S
  <2> HIDE DEF S
  <2> QED BY <1>1, <1>2, <1>3, Downward
<1> QED BY <1>4

\* The walk of another address that has the same indices.
LEMMA PathMoves ==
  ASSUME NEW pt, NEW base, NEW va, NEW v, NEW l, NEW tb, Path(pt, base, va, l, tb), SameWalk(v, va, l + 1)
  PROVE  Path(pt, base, v, l, tb)
BY Zenon DEF Path, SameWalk


\* What a walk finds below a table.
Below(t, va, l) ==
    IF <<t, Index(va, l)>> \in DOMAIN pte /\ ~ pte[<<t, Index(va, l)>>].leaf
    THEN pte[<<t, Index(va, l)>>].next ELSE None

\* The tables of a walk, one after the other.
LEMMA WalkTablesAre ==
  ASSUME NEW m, NEW va
  PROVE  /\ DOMAIN WalkTables(m, va) = 0 .. TopLevel
         /\ WalkTables(m, va)[TopLevel] = root[m]
         /\ \A l \in 0 .. TopLevel - 1 : WalkTables(m, va)[l] = Below(WalkTables(m, va)[l + 1], va, l + 1)
<1>1. TopLevel \in Nat
  BY LevelSizes
<1> DEFINE Walk(f, k) == f[TopLevel] = root[m] /\ \A j \in k .. TopLevel - 1 : f[j] = Below(f[j + 1], va, j + 1)
           S == {k \in 0 .. TopLevel : \E f : Walk(f, k)}
<1>2. TopLevel \in S
  <2> DEFINE f == [x \in {TopLevel} |-> root[m]]
  <2>1. f[TopLevel] = root[m]
    OBVIOUS
  <2>2. Walk(f, TopLevel)
    BY <1>1, <2>1
  <2> QED BY <1>1, <2>2
<1>3. ASSUME NEW k \in 0 + 1 .. TopLevel, k \in S  PROVE k - 1 \in S
  <2>1. PICK f : Walk(f, k)
    BY <1>3
  <2> DEFINE h == k - 1
             g == [x \in 0 .. TopLevel |-> IF x = h THEN Below(f[k], va, k) ELSE f[x]]
  <2>2. h \in 0 .. TopLevel /\ h + 1 = k /\ h # TopLevel /\ k \in 0 .. TopLevel /\ k # h
    BY <1>1
  <2> HIDE DEF h
  <2>3. g[TopLevel] = root[m]
    BY <1>1, <2>1, <2>2
  <2>4. ASSUME NEW j \in h .. TopLevel - 1  PROVE g[j] = Below(g[j + 1], va, j + 1)
    <3>1. j \in 0 .. TopLevel /\ j + 1 \in 0 .. TopLevel /\ j + 1 # h
      BY <1>1, <2>2
    <3>2. g[j + 1] = f[j + 1]
      BY <3>1
    <3>3. CASE j = h
      BY <2>2, <3>1, <3>2, <3>3
    <3>4. CASE j # h
      <4>1. j \in k .. TopLevel - 1
        BY <1>1, <2>2, <3>4
      <4>2. g[j] = f[j]
        BY <3>1, <3>4
      <4> QED BY <2>1, <3>2, <4>1, <4>2
    <3> QED BY <3>3, <3>4
  <2>5. Walk(g, h)
    <3> HIDE DEF g
    <3> QED BY <2>3, <2>4
  <2>6. h \in S
    BY <2>2, <2>5
  <2> QED BY <2>6 DEF h
<1>4. 0 .. TopLevel \subseteq S
  <2> HIDE DEF S
  <2> QED BY <1>1, <1>2, <1>3, Downward
<1>5. PICK f : Walk(f, 0)
  BY <1>1, <1>4
<1> DEFINE body(g, l) == IF l = TopLevel THEN root[m]
                         ELSE LET above == <<g[l + 1], Index(va, l + 1)>>
                              IN  IF above \in DOMAIN pte /\ ~ pte[above].leaf THEN pte[above].next ELSE None
           w == [l \in 0 .. TopLevel |-> f[l]]
<1>6. \A g, l : body(g, l) = IF l = TopLevel THEN root[m] ELSE Below(g[l + 1], va, l + 1)
  BY DEF Below
<1>7. w = [l \in 0 .. TopLevel |-> body(w, l)]
  <2>1. ASSUME NEW l \in 0 .. TopLevel  PROVE w[l] = body(w, l)
    <3>1. CASE l = TopLevel
      BY <1>1, <1>5, <1>6, <3>1
    <3>2. CASE l # TopLevel
      <4>1. l \in 0 .. TopLevel - 1 /\ l + 1 \in 0 .. TopLevel
        BY <1>1, <3>2
      <4>2. f[l] = Below(f[l + 1], va, l + 1)
        BY <1>5, <4>1
      <4>3. w[l] = f[l] /\ w[l + 1] = f[l + 1]
        BY <4>1
      <4> HIDE DEF w, body
      <4> QED BY <1>6, <3>2, <4>2, <4>3
    <3> QED BY <3>1, <3>2
  <2> HIDE DEF body
  <2> QED BY <2>1
<1> DEFINE table == CHOOSE t : t = [l \in 0 .. TopLevel |-> body(t, l)]
<1>8. table = [l \in 0 .. TopLevel |-> body(table, l)]
  <2> HIDE DEF body, w
  <2> QED BY <1>7
<1>9. WalkTables(m, va) = table
  BY DEF WalkTables
<1> HIDE DEF table, body
<1>10. DOMAIN table = 0 .. TopLevel
  BY <1>8
<1>11. table[TopLevel] = root[m]
  BY <1>1, <1>6, <1>8
<1>12. ASSUME NEW l \in 0 .. TopLevel - 1  PROVE table[l] = Below(table[l + 1], va, l + 1)
  <2>1. l \in 0 .. TopLevel /\ l # TopLevel
    BY <1>1
  <2>2. table[l] = body(table, l)
    BY <1>8, <2>1
  <2> QED BY <1>6, <2>1, <2>2
<1> QED BY <1>9, <1>10, <1>11, <1>12

\* The lists wk2 go on where the lists wk end.
Extends(wk, wk2) ==
    \A m \in DOMAIN wk :
        m \in DOMAIN wk2 /\ \A j \in DOMAIN wk[m] : j \in DOMAIN wk2[m] /\ wk2[m][j] = wk[m][j]

\* A leaf entry still fits when pages are added.
LEMMA LeafStillFits ==
  ASSUME NEW x, NEW i, NEW wk, NEW wk2, LeafFits(x, i, wk), Extends(wk, wk2)
  PROVE  LeafFits(x, i, wk2)
<1>1. PICK j \in DOMAIN wk[x.map] :
         /\ wk[x.map][j].level = x.level /\ SameWalk(wk[x.map][j].lin, x.va, x.level + 1)
         /\ Index(wk[x.map][j].lin, x.level) = i
  BY Zenon DEF LeafFits
<1>2. x.map \in DOMAIN wk
  BY Zenon DEF LeafFits
<1>3. x.map \in DOMAIN wk2 /\ j \in DOMAIN wk2[x.map] /\ wk2[x.map][j] = wk[x.map][j]
  BY <1>1, <1>2, Zenon DEF Extends
<1> QED BY <1>1, <1>3, Zenon DEF LeafFits

\* So does any entry.
LEMMA StillWritten ==
  ASSUME NEW x, NEW i, NEW e, NEW wk, NEW wk2, WrittenFor(x, i, e, wk), Extends(wk, wk2)
  PROVE  WrittenFor(x, i, e, wk2)
<1>1. PICK j \in DOMAIN wk[x.map] :
         /\ wk[x.map][j].name = e.by /\ SameWalk(wk[x.map][j].lin, x.va, x.level + 1)
         /\ Index(wk[x.map][j].lin, x.level) = i
         /\ e.leaf => wk[x.map][j].level = x.level /\ wk[x.map][j].phys = e.next
  BY Zenon DEF WrittenFor
<1>2. x.map \in DOMAIN wk
  BY Zenon DEF WrittenFor
<1>3. x.map \in DOMAIN wk2 /\ j \in DOMAIN wk2[x.map] /\ wk2[x.map][j] = wk[x.map][j]
  BY <1>1, <1>2, Zenon DEF Extends
<1> QED BY <1>1, <1>3, Zenon DEF WrittenFor

\* The tables stay a tree when pages and frames are added ...
LEMMA TreeKept ==
  ASSUME NEW at, NEW pt, NEW rt, NEW wk, NEW fr, Tree(at, pt, rt, wk, fr), NEW wk2, Extends(wk, wk2),
         NEW fr2, fr \subseteq fr2
  PROVE  Tree(at, pt, rt, wk2, fr2)
<1>1. \A s \in DOMAIN pt : pt[s].leaf => LeafFits(at[s[1]], s[2], wk2)
  BY LeafStillFits, Zenon DEF Tree
<1>2. \A s \in DOMAIN pt : WrittenFor(at[s[1]], s[2], pt[s], wk2)
  BY StillWritten, Zenon DEF Tree
<1> QED BY <1>1, <1>2, Zenon DEF Tree

\* ... when a leaf entry is written that is the one of a page ...
LEMMA TreeLeaf ==
  ASSUME NEW at, NEW pt, NEW rt, NEW wk, NEW fr, Tree(at, pt, rt, wk, fr), NEW s, s[1] \in DOMAIN at,
         NEW e, e.leaf, LeafFits(at[s[1]], s[2], wk), WrittenFor(at[s[1]], s[2], e, wk)
  PROVE  Tree(at, Put(pt, s, e), rt, wk, fr)
<1> DEFINE q == Put(pt, s, e)
<1>1. q[s] = e /\ \A x \in DOMAIN q : x = s \/ (x \in DOMAIN pt /\ q[x] = pt[x])
  BY Zenon DEF Put
<1> HIDE DEF q
<1>2. ASSUME NEW x \in DOMAIN q
      PROVE  /\ x[1] \in DOMAIN at
             /\ WrittenFor(at[x[1]], x[2], q[x], wk)
             /\ q[x].leaf => LeafFits(at[x[1]], x[2], wk)
             /\ ~ q[x].leaf => q[x].next \in DOMAIN at /\ TableFits(at[x[1]], x[2], at[q[x].next])
  <2>1. CASE x = s
    BY <1>1, <2>1, Zenon
  <2>2. CASE x \in DOMAIN pt /\ q[x] = pt[x]
    BY <2>2, Zenon DEF Tree
  <2> QED BY <1>1, <2>1, <2>2, Zenon
<1>3. Tree(at, q, rt, wk, fr)
  BY <1>2, Zenon DEF Tree
<1> QED BY <1>3 DEF q

\* ... and when an entry is written for a table in a frame of its own.
LEMMA TreeTable ==
  ASSUME NEW at, NEW pt, NEW rt, NEW wk, NEW fr, Tree(at, pt, rt, wk, fr), NEW s, s[1] \in DOMAIN at,
         NEW e, ~ e.leaf, WrittenFor(at[s[1]], s[2], e, wk), NEW y, TableFits(at[s[1]], s[2], y), y.level \in 0 .. TopLevel,
         e.next \in Nat, e.next \notin DOMAIN at, e.next \in fr
  PROVE  Tree(Put(at, e.next, y), Put(pt, s, e), rt, wk, fr)
<1> DEFINE q == Put(pt, s, e)
           b == Put(at, e.next, y)
<1>1. q[s] = e /\ \A x \in DOMAIN q : x = s \/ (x \in DOMAIN pt /\ q[x] = pt[x])
  BY Zenon DEF Put
<1>2. /\ b[e.next] = y /\ e.next \in DOMAIN b
      /\ \A t \in DOMAIN at : t \in DOMAIN b /\ b[t] = at[t]
      /\ \A t \in DOMAIN b : t = e.next \/ t \in DOMAIN at
  <2>1. \A t \in DOMAIN at : t # e.next
    OBVIOUS
  <2> QED BY <2>1, Zenon DEF Put
<1> HIDE DEF q, b
<1>3. ASSUME NEW x \in DOMAIN q
      PROVE  /\ x[1] \in DOMAIN b
             /\ WrittenFor(b[x[1]], x[2], q[x], wk)
             /\ q[x].leaf => LeafFits(b[x[1]], x[2], wk)
             /\ ~ q[x].leaf => q[x].next \in DOMAIN b /\ TableFits(b[x[1]], x[2], b[q[x].next])
  <2>1. CASE x = s
    BY <1>1, <1>2, <2>1, Zenon
  <2>2. CASE x \in DOMAIN pt /\ q[x] = pt[x]
    <3>1. /\ x[1] \in DOMAIN at
          /\ WrittenFor(at[x[1]], x[2], pt[x], wk)
          /\ pt[x].leaf => LeafFits(at[x[1]], x[2], wk)
          /\ ~ pt[x].leaf => pt[x].next \in DOMAIN at /\ TableFits(at[x[1]], x[2], at[pt[x].next])
      BY <2>2, Zenon DEF Tree
    <3> QED BY <1>2, <2>2, <3>1, Zenon
  <2> QED BY <1>1, <2>1, <2>2, Zenon
<1>4. \A t \in DOMAIN b : t \in Nat /\ t \in fr /\ b[t].level \in 0 .. TopLevel
  <2>1. \A t \in DOMAIN at : t \in Nat /\ t \in fr /\ at[t].level \in 0 .. TopLevel
    BY Zenon DEF Tree
  <2> QED BY <1>2, <2>1, Zenon
<1>5. ASSUME NEW m \in DOMAIN rt
      PROVE  rt[m] \in DOMAIN b /\ b[rt[m]].map = m /\ b[rt[m]].level = TopLevel
  <2>1. rt[m] \in DOMAIN at /\ at[rt[m]].map = m /\ at[rt[m]].level = TopLevel
    BY Zenon DEF Tree
  <2>2. rt[m] \in DOMAIN b /\ b[rt[m]] = at[rt[m]]
    BY <1>2, <2>1, Zenon
  <2> QED BY <2>1, <2>2
<1>6. Tree(b, q, rt, wk, fr)
  BY <1>3, <1>4, <1>5, Zenon DEF Tree
<1> QED BY <1>6 DEF q, b

\* A path does not see entries that it does not use.
LEMMA PathKept ==
  ASSUME NEW pt, NEW base, NEW va, NEW l, NEW tb, Path(pt, base, va, l, tb), NEW s, NEW e,
         \A k \in l + 1 .. TopLevel : <<tb[k], Index(va, k)>> # s
  PROVE  Path(Put(pt, s, e), base, va, l, tb)
<1>1. \A x \in DOMAIN pt : x # s => x \in DOMAIN Put(pt, s, e) /\ Put(pt, s, e)[x] = pt[x]
  BY Zenon DEF Put
<1>2. ASSUME NEW k \in l + 1 .. TopLevel
      PROVE  /\ <<tb[k], Index(va, k)>> \in DOMAIN Put(pt, s, e)
             /\ Put(pt, s, e)[<<tb[k], Index(va, k)>>] = pt[<<tb[k], Index(va, k)>>]
  BY <1>1, Zenon DEF Path
<1> QED BY <1>2, Zenon DEF Path

\* A path goes on through an entry that names a table.
LEMMA PathDown ==
  ASSUME NEW pt, NEW base, NEW va, NEW l \in 1 .. TopLevel, NEW tb, Path(pt, base, va, l, tb), NEW t,
         <<tb[l], Index(va, l)>> \in DOMAIN pt, ~ pt[<<tb[l], Index(va, l)>>].leaf,
         pt[<<tb[l], Index(va, l)>>].next = t
  PROVE  \E tc : Path(pt, base, va, l - 1, tc) /\ tc[l - 1] = t
<1> DEFINE h == l - 1
           tc == [k \in h .. TopLevel |-> IF k = h THEN t ELSE tb[k]]
<1>1. TopLevel \in Nat /\ l \in Int
  BY LevelSizes
<1>2. tc[h] = t
  BY <1>1
<1>3. \A k \in l .. TopLevel : tc[k] = tb[k]
  BY <1>1
<1>4. TopLevel \in l .. TopLevel /\ h + 1 = l
  BY <1>1
<1>5. ASSUME NEW k \in l .. TopLevel
      PROVE  /\ <<tb[k], Index(va, k)>> \in DOMAIN pt
             /\ ~ pt[<<tb[k], Index(va, k)>>].leaf
             /\ pt[<<tb[k], Index(va, k)>>].next = tc[k - 1]
  <2>1. CASE k = l
    BY <1>2, <2>1
  <2>2. CASE k # l
    <3>1. k \in l + 1 .. TopLevel /\ k - 1 \in l .. TopLevel
      BY <1>1, <2>2
    <3> HIDE DEF tc
    <3> QED BY <1>3, <3>1 DEF Path
  <2> QED BY <2>1, <2>2
<1> HIDE DEF tc, h
<1>6. Path(pt, base, va, h, tc)
  BY <1>3, <1>4, <1>5 DEF Path
<1> QED BY <1>2, <1>6 DEF h

\* A page that is reached through the slot of a leaf of a larger page, or of one
\* of the same size, shares linear addresses with it.
LEMMA CoverOverlaps ==
  ASSUME NEW p, NEW q, GoodPage(p), GoodPage(q), NEW l \in 0 .. TopLevel, q.level = l, NEW k \in 0 .. l, p.level = k,
         SameWalk(q.lin, p.lin, l)
  PROVE  Overlaps(VaRange(p), VaRange(q)) /\ Overlaps(VaRange(q), VaRange(p))
<1>1. l \in 0 .. Levels /\ p.lin \in Int /\ q.lin \in Int
  BY LevelSizes DEF GoodPage
<1>2. BlockStart(q.lin, l) = BlockStart(p.lin, l)
  BY <1>1, SameBlock
<1>3. /\ BlockStart(p.lin, k) \in Int /\ BlockStart(p.lin, l) \in Int
      /\ LevelSize(k) \in Nat \ {0} /\ LevelSize(l) \in Nat \ {0}
      /\ BlockStart(p.lin, l) <= BlockStart(p.lin, k)
      /\ BlockStart(p.lin, k) + LevelSize(k) <= BlockStart(p.lin, l) + LevelSize(l)
  BY <1>1, BlocksNested
<1>4. /\ VaRange(p)[1] = BlockStart(p.lin, k) /\ VaRange(p)[2] = BlockStart(p.lin, k) + LevelSize(k) - 1
      /\ VaRange(q)[1] = BlockStart(p.lin, l) /\ VaRange(q)[2] = BlockStart(p.lin, l) + LevelSize(l) - 1
  BY <1>2 DEF VaRange
<1> DEFINE a == BlockStart(p.lin, k)
           b == BlockStart(p.lin, l)
           u == LevelSize(k)
           v == LevelSize(l)
<1>5. a <= b + v - 1 /\ b <= a + u - 1
  <2>1. a \in Int /\ b \in Int /\ u \in Nat \ {0} /\ v \in Nat \ {0} /\ b <= a /\ a + u <= b + v
    BY <1>3
  <2> HIDE DEF a, b, u, v
  <2> QED BY <2>1
<1> QED BY <1>4, <1>5 DEF Overlaps

\* The lists of a map hold good pages.
AllGood(wk) == \A m \in DOMAIN wk : \A j \in DOMAIN wk[m] : GoodPage(wk[m][j])

AloneIn(w, i) == \A j \in DOMAIN w \ {i} : ~ Overlaps(VaRange(w[i]), VaRange(w[j]))

\* A page whose walk ends in the leaf of a larger one is not alone.
LEMMA Blocked ==
  ASSUME NEW at, NEW pt, NEW rt, NEW wk, NEW fr, Tree(at, pt, rt, wk, fr), AllGood(wk),
         NEW m \in DOMAIN rt, m \in DOMAIN wk, NEW i \in DOMAIN wk[m], NEW l \in 0 .. TopLevel,
         wk[m][i].level \in 0 .. l - 1,
         NEW tb, Path(pt, rt[m], wk[m][i].lin, l, tb),
         <<tb[l], Index(wk[m][i].lin, l)>> \in DOMAIN pt, pt[<<tb[l], Index(wk[m][i].lin, l)>>].leaf
  PROVE  ~ AloneIn(wk[m], i)
<1> DEFINE p == wk[m][i]
           x == at[tb[l]]
<1>1. l \in l .. TopLevel /\ l \in Int
  BY LevelSizes
<1>2. x.map = m /\ x.level = l /\ SameWalk(x.va, p.lin, l + 1)
  BY <1>1, PathPlaces
<1>3. LeafFits(x, Index(p.lin, l), wk)
  <2> DEFINE s == <<tb[l], Index(p.lin, l)>>
  <2>1. s \in DOMAIN pt /\ pt[s].leaf /\ s[1] = tb[l] /\ s[2] = Index(p.lin, l)
    OBVIOUS
  <2> HIDE DEF s, p, x
  <2> QED BY <2>1, Zenon DEF Tree, x
<1> HIDE DEF p, x
<1>4. PICK j \in DOMAIN wk[m] :
         wk[m][j].level = l /\ SameWalk(wk[m][j].lin, x.va, l + 1) /\ Index(wk[m][j].lin, l) = Index(p.lin, l)
  BY <1>2, <1>3, Zenon DEF LeafFits
<1> DEFINE q == wk[m][j]
<1>5. SameWalk(q.lin, p.lin, l)
  <2>1. \A k \in l .. TopLevel : k = l \/ k \in l + 1 .. TopLevel
    BY <1>1
  <2> QED BY <1>2, <1>4, <2>1, Zenon DEF SameWalk
<1>6. p.level \in 0 .. l /\ p.level # l
  BY <1>1 DEF p
<1>7. GoodPage(p) /\ GoodPage(q)
  BY Zenon DEF AllGood, p
<1>8. Overlaps(VaRange(p), VaRange(q))
  <2>1. q.level = l
    BY <1>4
  <2> HIDE DEF q
  <2> QED BY <1>5, <1>6, <1>7, <2>1, CoverOverlaps
<1>9. j # i
  BY <1>4, <1>6 DEF p
<1> QED BY <1>8, <1>9 DEF AloneIn, p

\* Nor is a page whose walk goes through the slot of another one's leaf.
LEMMA Overwritten ==
  ASSUME NEW at, NEW pt, NEW rt, NEW wk, NEW fr, Tree(at, pt, rt, wk, fr), AllGood(wk),
         NEW m \in DOMAIN rt, m \in DOMAIN wk, NEW i \in DOMAIN wk[m], NEW tb,
         Path(pt, rt[m], wk[m][i].lin, wk[m][i].level, tb),
         NEW n \in DOMAIN rt, n \in DOMAIN wk, NEW j \in DOMAIN wk[n], NEW tc,
         Path(pt, rt[n], wk[n][j].lin, wk[n][j].level, tc),
         NEW k \in wk[m][i].level .. TopLevel,
         <<tb[k], Index(wk[m][i].lin, k)>> = <<tc[wk[n][j].level], Index(wk[n][j].lin, wk[n][j].level)>>,
         <<m, i>> # <<n, j>>
  PROVE  ~ AloneIn(wk[m], i)
<1> DEFINE p == wk[m][i]
           q == wk[n][j]
           l == q.level
<1>1. GoodPage(p) /\ GoodPage(q)
  BY Zenon DEF AllGood
<1>2. p.level \in 0 .. TopLevel /\ l \in 0 .. TopLevel
  BY <1>1 DEF GoodPage
<1>3. at[tb[k]].map = m /\ at[tb[k]].level = k /\ SameWalk(at[tb[k]].va, p.lin, k + 1)
  <2>1. Path(pt, rt[m], p.lin, p.level, tb) /\ k \in p.level .. TopLevel
    OBVIOUS
  <2> HIDE DEF p, q
  <2> DEFINE h == p.level
  <2>2. h \in 0 .. TopLevel /\ Path(pt, rt[m], p.lin, h, tb) /\ k \in h .. TopLevel
    BY <1>2, <2>1
  <2> HIDE DEF h
  <2>3. \A g \in h .. TopLevel :
            /\ tb[g] \in DOMAIN at /\ at[tb[g]].map = m /\ at[tb[g]].level = g
            /\ SameWalk(at[tb[g]].va, p.lin, g + 1)
    BY <2>2, PathPlaces
  <2> QED BY <2>2, <2>3
<1>4. l \in l .. TopLevel
  BY <1>2
<1>5. at[tc[l]].map = n /\ at[tc[l]].level = l /\ SameWalk(at[tc[l]].va, q.lin, l + 1)
  <2>1. Path(pt, rt[n], q.lin, l, tc)
    OBVIOUS
  <2> HIDE DEF p, q, l
  <2> QED BY <1>2, <1>4, <2>1, PathPlaces
<1>6. tb[k] = tc[l] /\ Index(p.lin, k) = Index(q.lin, l)
  OBVIOUS
<1>7. m = n /\ k = l
  BY <1>3, <1>5, <1>6
<1>8. SameWalk(q.lin, p.lin, l)
  <2>1. \A h \in l .. TopLevel : h = l \/ h \in l + 1 .. TopLevel
    BY <1>2
  <2> HIDE DEF p, q, l
  <2> QED BY <1>3, <1>5, <1>6, <1>7, <2>1 DEF SameWalk
<1>9. p.level \in 0 .. l
  BY <1>2, <1>7
<1>10. Overlaps(VaRange(p), VaRange(q))
  <2> HIDE DEF p, q
  <2> QED BY <1>1, <1>2, <1>8, <1>9, CoverOverlaps
<1>11. j # i /\ j \in DOMAIN wk[m] /\ q = wk[m][j]
  BY <1>7
<1> QED BY <1>10, <1>11 DEF AloneIn

\* The hardware's walk follows a path of entries.
LEMMA WalkFollows ==
  ASSUME NEW m, NEW va, NEW l \in 0 .. TopLevel, NEW tb, Path(pte, root[m], va, l, tb)
  PROVE  \A k \in l .. TopLevel : WalkTables(m, va)[k] = tb[k]
<1> DEFINE w == WalkTables(m, va)
           S == {k \in l .. TopLevel : w[k] = tb[k]}
<1>1. TopLevel \in Nat
  BY LevelSizes
<1>2. w[TopLevel] = root[m] /\ \A k \in 0 .. TopLevel - 1 : w[k] = Below(w[k + 1], va, k + 1)
  BY WalkTablesAre
<1> HIDE DEF w
<1>3. TopLevel \in S
  BY <1>1, <1>2 DEF Path
<1>4. ASSUME NEW k \in l + 1 .. TopLevel, k \in S  PROVE k - 1 \in S
  <2> DEFINE h == k - 1
  <2>1. h \in 0 .. TopLevel - 1 /\ h \in l .. TopLevel /\ h + 1 = k
    BY <1>1
  <2>2. w[k] = tb[k]
    BY <1>4
  <2>3. Below(tb[k], va, k) = tb[h]
    BY DEF Path, Below
  <2> HIDE DEF h
  <2>4. w[h] = Below(w[k], va, k)
    BY <1>2, <2>1
  <2>5. h \in S
    BY <2>1, <2>2, <2>3, <2>4
  <2> QED BY <2>5 DEF h
<1>5. l .. TopLevel \subseteq S
  <2> HIDE DEF S
  <2> QED BY <1>1, <1>3, <1>4, Downward
<1> QED BY <1>5 DEF w

\* It ends where a leaf is found.
LEMMA WalkEnds ==
  ASSUME NEW m, NEW va, NEW l \in 0 .. TopLevel, \A s \in DOMAIN pte : s[1] # None,
         <<WalkTables(m, va)[l], Index(va, l)>> \in DOMAIN pte,
         pte[<<WalkTables(m, va)[l], Index(va, l)>>].leaf
  PROVE  \A k \in 0 .. l - 1 : WalkTables(m, va)[k] = None
<1> DEFINE w == WalkTables(m, va)
           n == l - 1
           S == {k \in 0 .. n : w[k] = None}
<1>1. TopLevel \in Nat /\ l \in Nat
  BY LevelSizes
<1>2. \A k \in 0 .. TopLevel - 1 : w[k] = Below(w[k + 1], va, k + 1)
  BY WalkTablesAre
<1>3. Below(w[l], va, l) = None
  BY DEF Below
<1> HIDE DEF w
<1>4. CASE l = 0
  BY <1>4
<1>5. CASE l # 0
  <2>1. n \in Nat /\ n \in 0 .. TopLevel - 1 /\ n + 1 = l /\ 0 \in 0 .. n /\ n \in 0 .. n
    BY <1>1, <1>5
  <2> HIDE DEF n
  <2>2. n \in S
    BY <1>2, <1>3, <2>1
  <2>3. ASSUME NEW j \in 0 + 1 .. n, j \in S  PROVE j - 1 \in S
    <3> DEFINE h == j - 1
    <3>1. h \in 0 .. n /\ h + 1 = j /\ h \in 0 .. TopLevel - 1
      BY <1>1, <2>1
    <3>2. w[j] = None
      BY <2>3
    <3> HIDE DEF h
    <3>3. <<w[j], Index(va, j)>> \notin DOMAIN pte
      <4> DEFINE s == <<w[j], Index(va, j)>>
      <4>1. s[1] = None
        BY <3>2
      <4> HIDE DEF s
      <4>2. s \notin DOMAIN pte
        BY <4>1
      <4> QED BY <4>2 DEF s
    <3>4. w[h] = Below(w[j], va, j)
      BY <1>2, <3>1
    <3>5. w[h] = None
      BY <3>3, <3>4 DEF Below
    <3>6. h \in S
      BY <3>1, <3>5
    <3> QED BY <3>6 DEF h
  <2>4. 0 .. n \subseteq S
    <3> HIDE DEF S
    <3> QED BY <2>1, <2>2, <2>3, Downward
  <2> QED BY <2>4 DEF w, n
<1> QED BY <1>4, <1>5 DEF w

\* What an address is translated to by the leaf that its walk finds.
LEMMA TranslateLeaf ==
  ASSUME NEW m, NEW va, NEW l \in 0 .. TopLevel, NEW tb, Path(pte, root[m], va, l, tb),
         \A s \in DOMAIN pte : s[1] # None,
         <<tb[l], Index(va, l)>> \in DOMAIN pte, pte[<<tb[l], Index(va, l)>>].leaf
  PROVE  Translate(m, va) = pte[<<tb[l], Index(va, l)>>].next + (va % LevelSize(l))
<1> DEFINE hits == {k \in 0 .. TopLevel : /\ WalkSlot(m, va, k) \in DOMAIN pte
                                          /\ pte[WalkSlot(m, va, k)].leaf}
<1>1. TopLevel \in Nat /\ l \in Int
  BY LevelSizes
<1>2. \A k \in l .. TopLevel : WalkTables(m, va)[k] = tb[k]
  BY WalkFollows
<1>3. WalkSlot(m, va, l) = <<tb[l], Index(va, l)>>
  BY <1>1, <1>2 DEF WalkSlot
<1>4. \A k \in 0 .. l - 1 : WalkTables(m, va)[k] = None
  <2>1. WalkTables(m, va)[l] = tb[l]
    BY <1>1, <1>2
  <2> QED BY <2>1, WalkEnds
<1>5. hits = {l}
  <2>1. l \in hits
    BY <1>3
  <2>2. ASSUME NEW k \in hits  PROVE k = l
    <3>1. WalkSlot(m, va, k) \in DOMAIN pte /\ pte[WalkSlot(m, va, k)].leaf /\ k \in 0 .. TopLevel
      OBVIOUS
    <3> HIDE DEF hits
    <3>2. CASE k \in 0 .. l - 1
      <4> DEFINE s == WalkSlot(m, va, k)
      <4>1. s[1] = None
        BY <1>4, <3>2 DEF WalkSlot
      <4> HIDE DEF s
      <4>2. s \notin DOMAIN pte
        BY <4>1
      <4> QED BY <3>1, <4>2 DEF s
    <3>3. CASE k \in l + 1 .. TopLevel
      <4>1. k \in l .. TopLevel
        BY <1>1, <3>3
      <4>2. WalkSlot(m, va, k) = <<tb[k], Index(va, k)>>
        BY <1>2, <4>1 DEF WalkSlot
      <4>3. ~ pte[<<tb[k], Index(va, k)>>].leaf
        BY <3>3 DEF Path
      <4> QED BY <3>1, <4>2, <4>3
    <3> QED BY <1>1, <3>1, <3>2, <3>3
  <2> HIDE DEF hits
  <2> QED BY <2>1, <2>2
<1>6. Min({l}) = l
  BY <1>1 DEF Min
<1> QED BY <1>3, <1>5, <1>6 DEF Translate

-----------------------------------------------------------------------------
(***************************************************************************)
(* The invariant of the walks: while tables are built and behind that, the *)
(* trees are there, the table at hand is on the walk of the page at hand,  *)
(* and every page that is done, and shares its addresses with no other, is *)
(* reached by its walk.                                                    *)
(***************************************************************************)
\* The lists of pages, and what is said of a map and a page whose tables are done.
Works == [m \in MapNames(cfg) |-> Work(m)]

\* Map c comes before map m.
Before(c, m) == \E a, b \in DOMAIN TableMaps : a < b /\ TableMaps[a] = c /\ TableMaps[b] = m

Done(m, i) ==
    \/ stage = "finished"
    \/ stage = "tables" /\ (Before(m, cursor.map) \/ (m = cursor.map /\ i < cursor.item))

\* The walk of a page leads to its leaf entry.
Reached(pt, base, p) ==
    \E tb : /\ Path(pt, base, p.lin, p.level, tb)
            /\ <<tb[p.level], Index(p.lin, p.level)>> \in DOMAIN pt
            /\ pt[<<tb[p.level], Index(p.lin, p.level)>>].leaf
            /\ pt[<<tb[p.level], Index(p.lin, p.level)>>].next = p.phys

\* There are entries only behind the first stage, and they form trees.
TreeInv ==
    stage \in {"tables", "finished"} => \E at : Tree(at, pte, root, Works, Frames(physical))

\* The table at hand lies on the walk of the page at hand.
PathInv ==
    stage = "tables" =>
        /\ \E c \in DOMAIN TableMaps : TableMaps[c] = cursor.map
        /\ cursor.level \in Current.level .. TopLevel
        /\ \E tb : /\ Path(pte, root[cursor.map], Current.lin, cursor.level, tb)
                   /\ tb[cursor.level] = cursor.table

\* A page that is alone and done is found by its walk, and stays so.
WalkedInv ==
    stage \in {"tables", "finished"} /\ cfg.paging =>
        \A m \in ToSet(StageOneMaps) : \A i \in DOMAIN Work(m) :
            Done(m, i) /\ Alone(m, i) => Reached(pte, root[m], Work(m)[i])

WalkInv == TreeInv /\ PathInv /\ WalkedInv


\* A list of good pages: its places, and where it stays when it gets longer.
LEMMA GoodPlaces ==
  ASSUME NEW s, NEW t, GoodPages(s), GoodPages(t)
  PROVE  /\ DOMAIN s = 1 .. Len(s) /\ Len(s) \in Nat
         /\ \A j \in DOMAIN s : GoodPage(s[j]) /\ j \in DOMAIN (s \o t) /\ (s \o t)[j] = s[j]
         /\ s \o << >> = s
<1>1. PICK S : s \in Seq(S) /\ \A p \in S : GoodPage(p)
  BY DEF GoodPages
<1>2. PICK T : t \in Seq(T) /\ \A p \in T : GoodPage(p)
  BY DEF GoodPages
<1>3. DOMAIN s = 1 .. Len(s) /\ Len(s) \in Nat /\ s \o << >> = s /\ Len(t) \in Nat
  BY <1>1, <1>2
<1>4. ASSUME NEW j \in DOMAIN s  PROVE GoodPage(s[j]) /\ j \in DOMAIN (s \o t) /\ (s \o t)[j] = s[j]
  <2>1. s[j] \in S
    BY <1>1
  <2>2. s \in Seq(S \cup T) /\ t \in Seq(S \cup T)
    BY <1>1, <1>2
  <2>3. DOMAIN (s \o t) = 1 .. Len(s) + Len(t) /\ \A k \in 1 .. Len(s) : (s \o t)[k] = s[k]
    BY <2>2
  <2>4. j \in 1 .. Len(s) + Len(t)
    BY <1>3
  <2> QED BY <1>1, <1>3, <2>1, <2>3, <2>4
<1> QED BY <1>3, <1>4

\* The lists of work hold good pages.
LEMMA WorksGood ==
  ASSUME PagesInv
  PROVE  /\ AllGood(Works) /\ DOMAIN Works = MapNames(cfg)
         /\ \A m \in MapNames(cfg) : /\ GoodPages(Work(m)) /\ Works[m] = Work(m)
                                     /\ DOMAIN Work(m) = 1 .. Len(pages[m]) + Len(pt_pages[m])
<1>1. DOMAIN Works = MapNames(cfg) /\ \A m \in MapNames(cfg) : Works[m] = Work(m)
  BY DEF Works
<1>2. ASSUME NEW m \in MapNames(cfg)
      PROVE  GoodPages(Work(m)) /\ DOMAIN Work(m) = 1 .. Len(pages[m]) + Len(pt_pages[m])
  <2>1. GoodPages(Work(m)) /\ Len(Work(m)) = Len(pages[m]) + Len(pt_pages[m])
    BY GoodConcat DEF PagesInv, Work
  <2>2. DOMAIN Work(m) = 1 .. Len(Work(m))
    BY <2>1, GoodPlaces
  <2> QED BY <2>1, <2>2
<1>3. ASSUME NEW m \in MapNames(cfg), NEW j \in DOMAIN Work(m)  PROVE GoodPage(Work(m)[j])
  BY <1>2, GoodPlaces
<1> QED BY <1>1, <1>2, <1>3 DEF AllGood

\* The pages that the step adds come last, and go to two maps only.
WorkGrows ==
    \A m \in MapNames(cfg) :
        /\ \A j \in DOMAIN Work(m) : j \in DOMAIN Work(m)' /\ Work(m)'[j] = Work(m)[j]
        /\ m \notin {"map_hyp", cursor.map} => pt_pages'[m] = pt_pages[m]

\* The steps that build tables add pages to the lists, or none.
LEMMA TableAdds ==
  ASSUME SpacesInv, PagesInv, CursorInv, Table
  PROVE  \/ UNCHANGED pt_pages
         \/ \E gp, tp : GoodPages(gp) /\ GoodPages(tp) /\ AddRawPages(gp, tp)
<1>1. stage = "tables"
  BY Zenon DEF Table, FollowEntry, CreateTable, CreateLeaf
<1>2. GoodPage(Current) /\ cursor.table \in Int
  BY <1>1, CurrentTyped DEF CursorInv
<1>3. Current.phys \in Int /\ Current.gleaf \in 0 .. TopLevel /\ Current.gnonleaf \in 0 .. TopLevel
  BY <1>2 DEF GoodPage
<1>4. CASE FollowEntry
  BY <1>4, Zenon DEF FollowEntry
<1>5. CASE CreateTable
  <2> DEFINE size == IF cfg.two_stage THEN LevelSize(Current.gnonleaf) ELSE PageBytes
             c    == Request(size, size, PhysicalBits, "dram")
  <2>1. \/ \E a \in Grantable(physical, c), v \in ViewChoices :
              /\ linear' = IF v = None THEN linear ELSE Allocate(linear, ViewRequest, v)
              /\ AddRawPages(GStagePage("vslevel", a, Current.gnonleaf), TablePage(v))
        \/ UNCHANGED pt_pages
    BY <1>5, Zenon DEF CreateTable
  <2>2. size \in Nat \ {0}
    BY <1>3, LevelSizes
  <2> HIDE DEF size
  <2>3. ASSUME NEW a \in Grantable(physical, c), NEW v \in ViewChoices,
               linear' = IF v = None THEN linear ELSE Allocate(linear, ViewRequest, v)
        PROVE  GoodPages(GStagePage("vslevel", a, Current.gnonleaf)) /\ GoodPages(TablePage(v))
    <3>1. a \in Int /\ v \in Int
      <4>1. SpaceInv(physical, {"dram"})
        BY DEF SpacesInv
      <4>2. a \in Nat
        BY <2>2, <4>1, GrownAllocate
      <4>3. v \in Int
        BY <2>3, ViewTyped
      <4> QED BY <4>2, <4>3
    <3> QED BY <1>2, <1>3, <3>1, StagePagesGood DEF GoodPage
  <2> QED BY <2>1, <2>3
<1>6. CASE CreateLeaf
  <2>1. \/ \E v \in ViewChoices :
              /\ linear' = IF v = None THEN linear ELSE Allocate(linear, ViewRequest, v)
              /\ AddRawPages(GStagePage("vsleaf", Current.phys, Current.gleaf), TablePage(v))
        \/ UNCHANGED pt_pages
    BY <1>6, Zenon DEF CreateLeaf
  <2>2. ASSUME NEW v \in ViewChoices,
               linear' = IF v = None THEN linear ELSE Allocate(linear, ViewRequest, v)
        PROVE  GoodPages(GStagePage("vsleaf", Current.phys, Current.gleaf)) /\ GoodPages(TablePage(v))
    <3>1. v \in Int
      BY <2>2, ViewTyped
    <3> QED BY <1>2, <1>3, <3>1, StagePagesGood DEF GoodPage
  <2> QED BY <2>1, <2>2
<1> QED BY <1>4, <1>5, <1>6, Zenon DEF Table

\* So they change the lists at their ends, and of two maps only.
LEMMA TableWorks ==
  ASSUME SpacesInv, PagesInv, CursorInv, Table
  PROVE  WorkGrows /\ UNCHANGED <<cfg, pages>>
<1>1. UNCHANGED <<cfg, pages>>
  BY Zenon DEF Table, FollowEntry, CreateTable, CreateLeaf
<1>2. ASSUME NEW m \in MapNames(cfg)
      PROVE  /\ \A j \in DOMAIN Work(m) : j \in DOMAIN Work(m)' /\ Work(m)'[j] = Work(m)[j]
             /\ m \notin {"map_hyp", cursor.map} => pt_pages'[m] = pt_pages[m]
  <2>1. CASE UNCHANGED pt_pages
    BY <1>1, <2>1 DEF Work
  <2>2. CASE ~ UNCHANGED pt_pages
    <3>1. PICK gp, tp : GoodPages(gp) /\ GoodPages(tp) /\ AddRawPages(gp, tp)
      BY <2>2, TableAdds
    <3> DEFINE g == IF m = "map_hyp" THEN gp ELSE << >>
               t == IF m = cursor.map THEN tp ELSE << >>
               s == pages[m]
               w == pt_pages[m]
    <3>2. pt_pages'[m] = w \o g \o t
      BY <1>2, <3>1 DEF PagesInv, AddRawPages
    <3>3. m \notin {"map_hyp", cursor.map} => g = << >> /\ t = << >>
      OBVIOUS
    <3>4. GoodPages(g) /\ GoodPages(t) /\ GoodPages(w) /\ GoodPages(s)
      BY <1>2, <3>1, GoodOne DEF PagesInv
    <3>5. Work(m) = s \o w /\ Work(m)' = s \o (w \o g \o t)
      BY <1>1, <3>2 DEF Work
    <3> HIDE DEF g, t, w, s
    <3>6. GoodPages(w \o g) /\ GoodPages(s \o w) /\ GoodPages((s \o w) \o g)
      BY <3>4, GoodConcat
    <3>7. s \o (w \o g \o t) = ((s \o w) \o g) \o t
      <4>1. PICK S : s \in Seq(S)
        BY <3>4 DEF GoodPages
      <4>2. PICK W : w \in Seq(W)
        BY <3>4 DEF GoodPages
      <4>3. PICK G : g \in Seq(G)
        BY <3>4 DEF GoodPages
      <4>4. PICK T : t \in Seq(T)
        BY <3>4 DEF GoodPages
      <4> DEFINE U == S \cup W \cup G \cup T
      <4>5. s \in Seq(U) /\ w \in Seq(U) /\ g \in Seq(U) /\ t \in Seq(U)
        BY <4>1, <4>2, <4>3, <4>4
      <4> HIDE DEF U
      <4> DEFINE x == s \o w
                 y == g \o t
      <4>6. x \in Seq(U) /\ y \in Seq(U)
        BY <4>5
      <4>7. (w \o g) \o t = w \o y
        BY <4>5
      <4>8. s \o (w \o y) = x \o y
        <5> HIDE DEF y
        <5> QED BY <4>5, <4>6
      <4>9. x \o y = (x \o g) \o t
        <5> HIDE DEF x
        <5> QED BY <4>5, <4>6
      <4> QED BY <4>7, <4>8, <4>9, Zenon
    <3>8. \A j \in DOMAIN (s \o w) :
             j \in DOMAIN ((s \o w) \o g) /\ ((s \o w) \o g)[j] = (s \o w)[j]
      BY <3>4, <3>6, GoodPlaces
    <3>9. \A j \in DOMAIN ((s \o w) \o g) :
             j \in DOMAIN (((s \o w) \o g) \o t) /\ (((s \o w) \o g) \o t)[j] = ((s \o w) \o g)[j]
      BY <3>4, <3>6, GoodPlaces
    <3>10. w \o << >> = w
      BY <3>4, GoodPlaces
    <3>11. m \notin {"map_hyp", cursor.map} => w \o g \o t = w
      BY <3>3, <3>10
    <3> QED BY <3>2, <3>5, <3>7, <3>8, <3>9, <3>11 DEF w
  <2> QED BY <2>1, <2>2
<1> QED BY <1>1, <1>2 DEF WorkGrows

-----------------------------------------------------------------------------
(***************************************************************************)
(* The order of the maps and of their pages.                               *)
(***************************************************************************)
\* The least of some numbers.
LEMMA LeastOf ==
  ASSUME NEW S \in SUBSET Nat, S # {}
  PROVE  Min(S) \in S /\ \A y \in S : Min(S) <= y
<1>1. PICK x \in S : \A y \in S : x <= y
  BY LeastNatural
<1> QED BY <1>1 DEF Min

\* The tables of every map are built in one place of the order.
LEMMA MapsApart ==
  ASSUME CallsInv, cfg.paging
  PROVE  /\ \A a, b \in DOMAIN TableMaps : TableMaps[a] = TableMaps[b] => a = b
         /\ \A m \in ToSet(StageOneMaps) :
               m # "map_hyp" /\ m \in MapNames(cfg) /\ \E a \in DOMAIN TableMaps : TableMaps[a] = m
<1> DEFINE s == cfg.maps
           n == Len(s)
           one == StageOneMaps
<1>1. /\ s \in Seq(ToSet(s)) /\ \A i, j \in DOMAIN s : s[i] = s[j] => i = j
      /\ ToSet(s) \cap {"map_os", "map_hyp"} = {}
  BY GeneratorAssumption DEF CallsInv, MapsInitialized
<1>2. n \in Nat /\ DOMAIN s = 1 .. n /\ \A i \in 1 .. n : s[i] \in ToSet(s)
  BY <1>1 DEF ToSet
<1>3. Len(one) = n + 1 /\ DOMAIN one = 1 .. n + 1 /\ one[1] = "map_os" /\ \A i \in 1 .. n : one[i + 1] = s[i]
  BY <1>1, <1>2 DEF StageOneMaps
<1>4. \A i \in 2 .. n + 1 : i - 1 \in 1 .. n /\ one[i] = s[i - 1] /\ one[i] \in ToSet(s)
  <2> HIDE DEF s, n, one
  <2>1. ASSUME NEW i \in 2 .. n + 1  PROVE i - 1 \in 1 .. n /\ (i - 1) + 1 = i
    BY <1>2
  <2>2. ASSUME NEW i \in 2 .. n + 1  PROVE one[i] = s[i - 1]
    <3>1. one[(i - 1) + 1] = s[i - 1]
      BY <1>3, <2>1
    <3> QED BY <2>1, <3>1
  <2> QED BY <1>2, <2>1, <2>2
<1>5. one \in Seq({"map_os"} \cup ToSet(s))
  BY <1>1 DEF StageOneMaps
<1> DEFINE tm == TableMaps
<1>6. tm = one \/ (tm = Append(one, "map_hyp") /\ cfg.two_stage)
  BY DEF TableMaps
<1>7. tm = Append(one, "map_hyp") => /\ DOMAIN tm = 1 .. n + 2 /\ tm[n + 2] = "map_hyp"
                                     /\ \A i \in 1 .. n + 1 : tm[i] = one[i]
  <2> HIDE DEF n, one, tm
  <2>1. /\ Len(Append(one, "map_hyp")) = n + 2 /\ DOMAIN Append(one, "map_hyp") = 1 .. n + 2
        /\ Append(one, "map_hyp")[n + 2] = "map_hyp"
        /\ \A i \in 1 .. n + 1 : Append(one, "map_hyp")[i] = one[i]
    BY <1>2, <1>3, <1>5
  <2> QED BY <2>1
<1> HIDE DEF n, one, tm
<1>8. ASSUME NEW i \in 1 .. n + 1, NEW j \in 1 .. n + 1, one[i] = one[j]  PROVE i = j
  <2> HIDE DEF s
  <2>1. CASE i = 1 /\ j = 1
    BY <2>1
  <2>2. CASE i = 1 /\ j # 1
    <3>1. j \in 2 .. n + 1
      BY <1>2, <2>2
    <3> QED BY <1>1, <1>3, <1>4, <1>8, <2>2, <3>1
  <2>3. CASE i # 1 /\ j = 1
    <3>1. i \in 2 .. n + 1
      BY <1>2, <2>3
    <3> QED BY <1>1, <1>3, <1>4, <1>8, <2>3, <3>1
  <2>4. CASE i # 1 /\ j # 1
    <3>1. i \in 2 .. n + 1 /\ j \in 2 .. n + 1
      BY <1>2, <2>4
    <3>2. i - 1 \in DOMAIN s /\ j - 1 \in DOMAIN s /\ s[i - 1] = s[j - 1]
      BY <1>2, <1>4, <1>8, <3>1
    <3>3. i - 1 = j - 1
      BY <1>1, <3>2
    <3> QED BY <1>2, <3>1, <3>3
  <2> QED BY <2>1, <2>2, <2>3, <2>4
<1>9. \A i \in 1 .. n + 1 : one[i] # "map_hyp"
  <2> HIDE DEF s
  <2>1. ASSUME NEW i \in 1 .. n + 1  PROVE one[i] # "map_hyp"
    <3>1. i = 1 \/ i \in 2 .. n + 1
      BY <1>2
    <3> QED BY <1>1, <1>3, <1>4, <3>1
  <2> QED BY <2>1
<1>10. ASSUME NEW a \in DOMAIN tm, NEW b \in DOMAIN tm, tm[a] = tm[b]  PROVE a = b
  <2>1. CASE tm = one
    BY <1>3, <1>8, <1>10, <2>1
  <2>2. CASE tm = Append(one, "map_hyp")
    <3>1. (a \in 1 .. n + 1 \/ a = n + 2) /\ (b \in 1 .. n + 1 \/ b = n + 2)
      BY <1>2, <1>7, <2>2
    <3> QED BY <1>7, <1>8, <1>9, <1>10, <2>2, <3>1
  <2> QED BY <1>6, <2>1, <2>2
<1>11. ASSUME NEW m \in ToSet(one)
       PROVE  m # "map_hyp" /\ m \in MapNames(cfg) /\ \E a \in DOMAIN tm : tm[a] = m
  <2>1. PICK a \in 1 .. n + 1 : one[a] = m
    BY <1>3, <1>11 DEF ToSet
  <2>2. m # "map_hyp"
    BY <1>9, <2>1
  <2>3. m \in MapNames(cfg)
    <3>1. a = 1 \/ a \in 2 .. n + 1
      BY <1>2
    <3> QED BY <1>3, <1>4, <2>1, <3>1 DEF MapNames, s
  <2>4. a \in DOMAIN tm /\ tm[a] = m
    <3>1. CASE tm = one
      BY <1>3, <2>1, <3>1
    <3>2. CASE tm = Append(one, "map_hyp")
      <4>1. a \in 1 .. n + 2
        BY <1>2
      <4> QED BY <1>7, <2>1, <3>2, <4>1
    <3> QED BY <1>6, <3>1, <3>2
  <2> QED BY <2>2, <2>3, <2>4
<1> QED BY <1>10, <1>11 DEF tm, one

\* The maps behind one are those that follow it in the order.
LEMMA BehindAre ==
  ASSUME CallsInv, cfg.paging, NEW c \in DOMAIN TableMaps
  PROVE  /\ c \in 1 .. Len(TableMaps) /\ Len(TableMaps) \in Nat /\ DOMAIN TableMaps = 1 .. Len(TableMaps)
         /\ DOMAIN MapsBehind(TableMaps[c]) = 1 .. Len(TableMaps) - c
         /\ \A k \in 1 .. Len(TableMaps) - c : MapsBehind(TableMaps[c])[k] = TableMaps[c + k]
<1> DEFINE tm == TableMaps
           I == {i \in 1 .. Len(tm) : tm[i] = tm[c]}
           k == SelectInSeq(tm, LAMBDA x : x = tm[c])
<1>1. tm \in Seq(MapNames(cfg))
  BY TableMapsExist
<1>2. Len(tm) \in Nat /\ DOMAIN tm = 1 .. Len(tm) /\ c \in 1 .. Len(tm)
  BY <1>1
<1>3. I = {c}
  BY <1>2, MapsApart
<1>4. k = c
  <2>1. k = IF I # {} THEN Min(I) ELSE 0
    BY DEF SelectInSeq
  <2>2. Min({c}) = c
    BY <1>2 DEF Min
  <2> HIDE DEF I, k
  <2> QED BY <1>3, <2>1, <2>2
<1>5. MapsBehind(tm[c]) = SubSeq(tm, c + 1, Len(tm))
  <2>1. MapsBehind(tm[c]) = SubSeq(tm, k + 1, Len(tm))
    BY DEF MapsBehind
  <2> HIDE DEF k
  <2> QED BY <1>4, <2>1
<1> HIDE DEF tm
<1>6. /\ DOMAIN SubSeq(tm, c + 1, Len(tm)) = 1 .. Len(tm) - c
      /\ \A j \in 1 .. Len(tm) - c : SubSeq(tm, c + 1, Len(tm))[j] = tm[c + j]
  <2> DEFINE s == SubSeq(tm, c + 1, Len(tm))
             n == Len(tm)
  <2>1. c \in 1 .. n /\ n \in Nat
    BY <1>2
  <2>2. \A i \in c + 1 .. n : tm[i] \in MapNames(cfg)
    <3>1. \A i \in c + 1 .. n : i \in 1 .. n
      BY <2>1
    <3> QED BY <1>1, <1>2, <3>1
  <2>3. c + 1 \in Int /\ n \in Int
    BY <2>1
  <2>4. /\ s \in Seq(MapNames(cfg)) /\ Len(s) = IF c + 1 <= n THEN n - (c + 1) + 1 ELSE 0
        /\ \A i \in 1 .. n - (c + 1) + 1 : s[i] = tm[c + 1 + i - 1]
    <3> HIDE DEF n
    <3> QED BY <2>2, <2>3, SubSeqProperties DEF n
  <2> HIDE DEF s, n
  <2>5. Len(s) = n - c /\ n - (c + 1) + 1 = n - c /\ \A i \in 1 .. n - c : c + 1 + i - 1 = c + i
    BY <2>1, <2>4
  <2>6. DOMAIN s = 1 .. n - c
    BY <2>4, <2>5
  <2>7. \A i \in 1 .. n - c : s[i] = tm[c + i]
    BY <2>4, <2>5
  <2> QED BY <2>6, <2>7 DEF s, n
<1> QED BY <1>2, <1>5, <1>6 DEF tm

\* Going on with the first map that has pages.
LEMMA FirstStart ==
  ASSUME NEW maps \in Seq(MapNames(cfg)), ToFirstPage(maps)
  PROVE  \/ /\ stage' = "finished"
            /\ \A k \in DOMAIN maps : pages[maps[k]] \o pt_pages'[maps[k]] = << >>
         \/ \E k \in DOMAIN maps :
               /\ stage' = "tables" /\ cursor' = StartOf(maps[k], 1)
               /\ \A j \in 1 .. k - 1 : pages[maps[j]] \o pt_pages'[maps[j]] = << >>
<1> DEFINE left == {i \in DOMAIN maps : pages[maps[i]] \o pt_pages'[maps[i]] # << >>}
<1>1. CASE left = {}
  BY <1>1, Zenon DEF ToFirstPage
<1>2. CASE left # {}
  <2> DEFINE k == Min(left)
  <2>1. left \in SUBSET Nat /\ DOMAIN maps = 1 .. Len(maps) /\ Len(maps) \in Nat
    OBVIOUS
  <2>2. k \in left /\ \A y \in left : k <= y
    <3> HIDE DEF left
    <3> QED BY <1>2, <2>1, LeastOf
  <2>3. stage' = "tables" /\ cursor' = StartOf(maps[k], 1)
    BY <1>2, Zenon DEF ToFirstPage
  <2> HIDE DEF k
  <2>4. k \in DOMAIN maps
    BY <2>2
  <2>5. ASSUME NEW j \in 1 .. k - 1  PROVE pages[maps[j]] \o pt_pages'[maps[j]] = << >>
    <3>1. j \in DOMAIN maps /\ ~ (k <= j)
      BY <2>1, <2>4
    <3> QED BY <2>2, <3>1
  <2> QED BY <2>3, <2>4, <2>5
<1> QED BY <1>1, <1>2

\* A map without pages.
NoPlace(m) == pages[m] \o pt_pages'[m] = << >>

\* What a step that goes on with another page needs.
AtNext ==
    /\ CallsInv /\ PagesInv /\ PagesInv' /\ CursorInv /\ PathInv /\ stage = "tables"
    /\ UNCHANGED <<cfg, pages>> /\ WorkGrows /\ ToNextPage

\* The place of the map at hand, and the ways to go on.
LEMMA NextStart ==
  ASSUME AtNext
  PROVE  /\ cfg.paging
         /\ \E c \in DOMAIN TableMaps :
               /\ TableMaps[c] = cursor.map
               /\ \/ /\ cursor' = StartOf(cursor.map, cursor.item + 1) /\ stage' = "tables"
                  \/ /\ cursor.item >= Len(pages[cursor.map]) + Len(pt_pages'[cursor.map]) /\ stage' = "finished"
                     /\ \A b \in DOMAIN TableMaps : c < b => NoPlace(TableMaps[b])
                  \/ /\ cursor.item >= Len(pages[cursor.map]) + Len(pt_pages'[cursor.map]) /\ stage' = "tables"
                     /\ \E d \in DOMAIN TableMaps :
                          /\ c < d /\ cursor' = StartOf(TableMaps[d], 1)
                          /\ \A b \in DOMAIN TableMaps : c < b /\ b < d => NoPlace(TableMaps[b])
<1> USE DEF AtNext
<1>1. PICK c \in DOMAIN TableMaps : TableMaps[c] = cursor.map
  BY DEF PathInv
<1>2. cfg.paging
  BY <1>1 DEF TableMaps
<1> DEFINE tm == TableMaps
           n == Len(tm)
           mb == MapsBehind(cursor.map)
           total == Len(pages[cursor.map]) + Len(pt_pages'[cursor.map])
<1>3. /\ c \in 1 .. n /\ n \in Nat /\ DOMAIN tm = 1 .. n
      /\ DOMAIN mb = 1 .. n - c /\ \A k \in 1 .. n - c : mb[k] = tm[c + k]
  BY <1>1, <1>2, BehindAre
<1>4. cursor.item \in Int /\ total \in Int
  <2>1. cursor.map \in MapNames(cfg) /\ MapNames(cfg)' = MapNames(cfg)
    BY DEF CursorInv, MapNames
  <2>2. GoodPages(pages[cursor.map]) /\ GoodPages(pt_pages'[cursor.map])
    BY <2>1 DEF PagesInv
  <2>3. Len(pages[cursor.map]) \in Nat /\ Len(pt_pages'[cursor.map]) \in Nat
    BY <2>2, GoodConcat
  <2>4. cursor.item \in Int
    BY DEF CursorInv
  <2> QED BY <2>3, <2>4
<1>5. CASE cursor.item < total /\ cursor' = StartOf(cursor.map, cursor.item + 1) /\ UNCHANGED stage
  BY <1>1, <1>2, <1>5
<1>6. CASE ~ (cursor.item < total) /\ ToFirstPage(mb)
  <2>1. cursor.item >= total
    <3> HIDE DEF total
    <3> QED BY <1>4, <1>6
  <2>2. \/ stage' = "finished" /\ \A k \in DOMAIN mb : NoPlace(mb[k])
        \/ \E k \in DOMAIN mb : /\ stage' = "tables" /\ cursor' = StartOf(mb[k], 1)
                                /\ \A j \in 1 .. k - 1 : NoPlace(mb[j])
    <3>1. mb \in Seq(MapNames(cfg))
      BY LaterMaps
    <3> HIDE DEF mb
    <3> QED BY <1>6, <3>1, FirstStart DEF NoPlace
  <2>3. \A b \in DOMAIN tm : c < b => b - c \in 1 .. n - c /\ mb[b - c] = tm[b]
    <3>1. ASSUME NEW b \in DOMAIN tm, c < b  PROVE b - c \in 1 .. n - c /\ c + (b - c) = b
      BY <1>3, <3>1
    <3> HIDE DEF tm, mb, n
    <3>2. ASSUME NEW b \in DOMAIN tm, c < b  PROVE mb[b - c] = tm[b]
      <4>1. mb[b - c] = tm[c + (b - c)]
        BY <1>3, <3>1, <3>2
      <4> QED BY <3>1, <3>2, <4>1
    <3> QED BY <3>1, <3>2
  <2>4. CASE stage' = "finished" /\ \A k \in DOMAIN mb : NoPlace(mb[k])
    <3>1. \A b \in DOMAIN tm : c < b => NoPlace(tm[b])
      <4> HIDE DEF tm, mb, n
      <4> QED BY <1>3, <2>3, <2>4
    <3> QED BY <1>1, <1>2, <2>1, <2>4, <3>1
  <2>5. CASE \E k \in DOMAIN mb : /\ stage' = "tables" /\ cursor' = StartOf(mb[k], 1)
                                  /\ \A j \in 1 .. k - 1 : NoPlace(mb[j])
    <3>1. PICK k \in DOMAIN mb : /\ stage' = "tables" /\ cursor' = StartOf(mb[k], 1)
                                 /\ \A j \in 1 .. k - 1 : NoPlace(mb[j])
      BY <2>5
    <3> DEFINE d == c + k
    <3>2. k \in 1 .. n - c
      BY <1>3
    <3>3. mb[k] = tm[d]
      BY <1>3, <3>2
    <3>4. d \in DOMAIN tm /\ c < d /\ d \in Int /\ d - c = k
      <4> HIDE DEF tm, mb, n
      <4> QED BY <1>3, <3>2
    <3> HIDE DEF d
    <3>5. ASSUME NEW b \in DOMAIN tm, c < b, b < d  PROVE NoPlace(tm[b])
      <4>1. b - c \in 1 .. k - 1
        <5> HIDE DEF tm, mb, n
        <5> QED BY <1>3, <3>2, <3>4, <3>5
      <4> HIDE DEF tm, mb, n
      <4> QED BY <2>3, <3>1, <3>5, <4>1
    <3>6. cursor' = StartOf(tm[d], 1)
      BY <3>1, <3>3
    <3> QED BY <1>1, <1>2, <2>1, <3>1, <3>4, <3>5, <3>6
  <2> QED BY <2>2, <2>4, <2>5
<1>7. \/ cursor.item < total /\ cursor' = StartOf(cursor.map, cursor.item + 1) /\ UNCHANGED stage
      \/ ~ (cursor.item < total) /\ ToFirstPage(mb)
  <2>1. IF cursor.item < total
        THEN cursor' = StartOf(cursor.map, cursor.item + 1) /\ UNCHANGED stage
        ELSE ToFirstPage(mb)
    BY Zenon DEF ToNextPage
  <2> QED BY <2>1
<1> QED BY <1>5, <1>6, <1>7

\* Going on finishes the page at hand, and no other that has one.
LEMMA NextDone ==
  ASSUME AtNext, NEW m \in ToSet(StageOneMaps), NEW i \in DOMAIN (pages[m] \o pt_pages'[m]), Done(m, i)'
  PROVE  i \in DOMAIN Work(m) /\ (Done(m, i) \/ (m = cursor.map /\ i = cursor.item))
<1> DEFINE tm == TableMaps
           item == cursor.item
           old == Len(pages[m]) + Len(pt_pages[m])
           new == Len(pages[m]) + Len(pt_pages'[m])
<1>1. CallsInv /\ PagesInv /\ PagesInv' /\ UNCHANGED <<cfg, pages>> /\ WorkGrows /\ CursorInv /\ stage = "tables"
  BY DEF AtNext
<1>2. PICK c \in DOMAIN tm :
         /\ tm[c] = cursor.map
         /\ \/ cursor' = StartOf(cursor.map, item + 1) /\ stage' = "tables"
            \/ /\ item >= Len(pages[cursor.map]) + Len(pt_pages'[cursor.map]) /\ stage' = "finished"
               /\ \A b \in DOMAIN tm : c < b => NoPlace(tm[b])
            \/ /\ item >= Len(pages[cursor.map]) + Len(pt_pages'[cursor.map]) /\ stage' = "tables"
               /\ \E d \in DOMAIN tm :
                    /\ c < d /\ cursor' = StartOf(tm[d], 1)
                    /\ \A b \in DOMAIN tm : c < b /\ b < d => NoPlace(tm[b])
  BY NextStart
<1>3. cfg.paging
  BY NextStart
<1>4. /\ \A a, b \in DOMAIN tm : tm[a] = tm[b] => a = b
      /\ m # "map_hyp" /\ m \in MapNames(cfg) /\ \E a \in DOMAIN tm : tm[a] = m
  BY <1>1, <1>3, MapsApart
<1>5. PICK b \in DOMAIN tm : tm[b] = m
  BY <1>4
<1>6. DOMAIN tm \subseteq Int
  BY <1>1, <1>3, <1>5, BehindAre
<1>7. tm' = tm
  BY <1>1 DEF TableMaps, StageOneMaps
<1>8. /\ \/ stage' = "finished"
         \/ stage' = "tables" /\ \/ \E x, y \in DOMAIN tm : x < y /\ tm[x] = m /\ tm[y] = cursor'.map
                                 \/ m = cursor'.map /\ i < cursor'.item
  BY <1>7 DEF Done, Before
<1>9. /\ DOMAIN Work(m) = 1 .. old /\ old \in Int
      /\ i \in 1 .. new /\ new \in Int
  <2>1. GoodPages(pages[m]) /\ GoodPages(pt_pages'[m]) /\ GoodPages(pt_pages[m])
    <3>1. MapNames(cfg)' = MapNames(cfg)
      BY <1>1 DEF MapNames
    <3> QED BY <1>1, <1>4, <3>1 DEF PagesInv
  <2>2. GoodPages(pages[m] \o pt_pages'[m]) /\ Len(pages[m] \o pt_pages'[m]) = new /\ new \in Int /\ old \in Int
    <3>1. /\ GoodPages(pages[m] \o pt_pages'[m]) /\ Len(pages[m] \o pt_pages'[m]) = new
          /\ Len(pages[m]) \in Nat /\ Len(pt_pages'[m]) \in Nat /\ Len(pt_pages[m]) \in Nat
      BY <2>1, GoodConcat
    <3> QED BY <3>1
  <2>3. DOMAIN (pages[m] \o pt_pages'[m]) = 1 .. new
    BY <2>2, GoodPlaces
  <2>4. DOMAIN Work(m) = 1 .. old
    BY <1>1, <1>4, WorksGood
  <2> QED BY <2>2, <2>3, <2>4
<1>10. ASSUME m # cursor.map  PROVE i \in DOMAIN Work(m)
  <2>1. pt_pages'[m] = pt_pages[m]
    BY <1>1, <1>4, <1>10 DEF WorkGrows
  <2> QED BY <1>9, <2>1
<1>11. item \in Int /\ (m = cursor.map => item \in 1 .. old)
  <2>1. item \in 1 .. Len(pages[cursor.map]) + Len(pt_pages[cursor.map])
    BY <1>1, Zenon DEF CursorInv
  <2>2. \A k : item \in 1 .. k => item \in Int
    OBVIOUS
  <2> HIDE DEF item
  <2> QED BY <2>1, <2>2, Zenon
<1>12. CASE b < c
  <2>1. m # cursor.map
    BY <1>2, <1>4, <1>5, <1>6, <1>12
  <2>2. Done(m, i)
    BY <1>1, <1>2, <1>5, <1>12 DEF Done, Before
  <2> QED BY <1>10, <2>1, <2>2
<1>13. CASE b = c
  <2>1. m = cursor.map
    BY <1>2, <1>5, <1>13
  <2>2. i <= item
    <3>1. CASE cursor' = StartOf(cursor.map, item + 1) /\ stage' = "tables"
      <4>1. cursor'.map = m /\ cursor'.item = item + 1
        BY <2>1, <3>1 DEF StartOf
      <4>2. ~ \E x, y \in DOMAIN tm : x < y /\ tm[x] = m /\ tm[y] = m
        BY <1>4, <1>6
      <4>3. i < item + 1
        BY <1>8, <3>1, <4>1, <4>2
      <4> HIDE DEF item
      <4> QED BY <1>9, <1>11, <4>3
    <3>2. CASE item >= Len(pages[cursor.map]) + Len(pt_pages'[cursor.map])
      <4>1. item >= new
        BY <2>1, <3>2
      <4> HIDE DEF item, new
      <4> QED BY <1>9, <1>11, <4>1
    <3> QED BY <1>2, <3>1, <3>2
  <2>3. i \in 1 .. old /\ (i < item \/ i = item)
    <3> HIDE DEF item, old, new
    <3> QED BY <1>9, <1>11, <2>1, <2>2
  <2> QED BY <1>1, <1>9, <2>1, <2>3 DEF Done
<1>14. CASE c < b
  <2>1. m # cursor.map
    BY <1>2, <1>4, <1>5, <1>6, <1>14
  <2>2. ~ NoPlace(m)
    <3>1. NoPlace(m) => DOMAIN (pages[m] \o pt_pages'[m]) = {}
      BY DEF NoPlace
    <3> QED BY <3>1
  <2>3. CASE cursor' = StartOf(cursor.map, item + 1) /\ stage' = "tables"
    <3>1. cursor'.map = cursor.map
      BY <2>3 DEF StartOf
    <3>2. PICK x, y \in DOMAIN tm : x < y /\ tm[x] = m /\ tm[y] = cursor.map
      BY <1>8, <2>1, <2>3, <3>1
    <3>3. x = b /\ y = c
      BY <1>2, <1>4, <1>5, <3>2
    <3> QED BY <1>6, <1>14, <3>2, <3>3
  <2>4. CASE \A e \in DOMAIN tm : c < e => NoPlace(tm[e])
    BY <1>5, <1>14, <2>2, <2>4
  <2>5. CASE stage' = "tables" /\ \E d \in DOMAIN tm :
                    /\ c < d /\ cursor' = StartOf(tm[d], 1)
                    /\ \A e \in DOMAIN tm : c < e /\ e < d => NoPlace(tm[e])
    <3>1. PICK d \in DOMAIN tm :
                    /\ c < d /\ cursor' = StartOf(tm[d], 1)
                    /\ \A e \in DOMAIN tm : c < e /\ e < d => NoPlace(tm[e])
      BY <2>5
    <3>2. cursor'.map = tm[d] /\ cursor'.item = 1
      BY <3>1 DEF StartOf
    <3>3. ~ (i < 1)
      BY <1>9
    <3>4. PICK x, y \in DOMAIN tm : x < y /\ tm[x] = m /\ tm[y] = tm[d]
      BY <1>8, <2>5, <3>2, <3>3
    <3>5. x = b /\ y = d
      BY <1>4, <1>5, <3>4
    <3> QED BY <1>5, <1>14, <2>2, <3>1, <3>4, <3>5
  <2> QED BY <1>2, <2>3, <2>4, <2>5
<1>15. b < c \/ b = c \/ c < b
  <2>1. b \in Int /\ c \in Int
    BY <1>6
  <2> QED BY <2>1
<1> QED BY <1>12, <1>13, <1>14, <1>15

\* A walk starts at the root.
LEMMA StartPath ==
  ASSUME NEW pt, NEW base, NEW va
  PROVE  \E tb : Path(pt, base, va, TopLevel, tb) /\ tb[TopLevel] = base
<1> DEFINE tb == [x \in {TopLevel} |-> base]
<1>1. tb[TopLevel] = base
  OBVIOUS
<1>2. TopLevel + 1 .. TopLevel = {}
  BY LevelSizes
<1> HIDE DEF tb
<1>3. Path(pt, base, va, TopLevel, tb)
  BY <1>1, <1>2 DEF Path
<1> QED BY <1>1, <1>3

\* The page that comes next is at the root of its map.
LEMMA PathStarts ==
  ASSUME CursorInv', PagesInv', UNCHANGED <<cfg, root>>,
         NEW c \in DOMAIN TableMaps, NEW i, cursor' = StartOf(TableMaps[c], i)
  PROVE  PathInv'
<1>1. CASE stage' = "tables"
  <2>1. cursor'.map = TableMaps[c] /\ cursor'.level = TopLevel /\ cursor'.table = root'[cursor'.map]
    BY DEF StartOf
  <2>2. GoodPage(Current)'
    <3>1. /\ cursor'.map \in MapNames(cfg) /\ MapNames(cfg)' = MapNames(cfg)
          /\ cursor'.item \in 1 .. Len(pages'[cursor'.map]) + Len(pt_pages'[cursor'.map])
      BY <1>1 DEF CursorInv, MapNames
    <3>2. GoodPages(pages'[cursor'.map]) /\ GoodPages(pt_pages'[cursor'.map])
      BY <3>1 DEF PagesInv
    <3> DEFINE s == pages'[cursor'.map]
               t == pt_pages'[cursor'.map]
    <3>3. cursor'.item \in 1 .. Len(s) + Len(t) /\ GoodPages(s) /\ GoodPages(t)
      BY <3>1, <3>2
    <3>4. Current' = (s \o t)[cursor'.item]
      BY DEF Current, Work
    <3> HIDE DEF s, t
    <3>5. GoodPages(s \o t) /\ Len(s \o t) = Len(s) + Len(t)
      BY <3>3, GoodConcat
    <3>6. cursor'.item \in DOMAIN (s \o t)
      BY <3>3, <3>5, GoodPlaces
    <3> QED BY <3>4, <3>5, <3>6, GoodPlaces DEF GoodPage
  <2>3. cursor'.level \in Current'.level .. TopLevel
    BY <2>1, <2>2, LevelSizes DEF GoodPage
  <2>4. TableMaps' = TableMaps
    BY DEF TableMaps, StageOneMaps
  <2>5. \E tb : /\ Path(pte', root'[cursor'.map], Current'.lin, cursor'.level, tb)
                /\ tb[cursor'.level] = cursor'.table
    BY <2>1, StartPath
  <2>6. \E d \in DOMAIN TableMaps : TableMaps[d] = cursor'.map
    BY <2>1
  <2> QED BY <2>3, <2>4, <2>5, <2>6, Zenon DEF PathInv, Path, Index, TopLevel
<1>2. CASE stage' # "tables"
  BY <1>2 DEF PathInv
<1> QED BY <1>1, <1>2

-----------------------------------------------------------------------------
(***************************************************************************)
(* The steps that build tables.                                            *)
(***************************************************************************)
\* What is known while tables are built: the trees, and the walk to the table at hand.
Here(at, tb) ==
    /\ Tree(at, pte, root, Works, Frames(physical)) /\ AllGood(Works)
    /\ cursor.map \in DOMAIN root /\ cursor.map \in MapNames(cfg) /\ cursor.map \in DOMAIN Works
    /\ cursor.item \in DOMAIN Works[cursor.map] /\ Works[cursor.map][cursor.item] = Current
    /\ cursor.level \in 0 .. TopLevel /\ Current.level \in 0 .. cursor.level /\ Current.lin \in Int
    /\ Path(pte, root[cursor.map], Current.lin, cursor.level, tb) /\ tb[cursor.level] = cursor.table

\* It follows from the invariants.
LEMMA HereWeAre ==
  ASSUME IInv, WalkInv, stage = "tables"
  PROVE  \E at, tb : Here(at, tb)
<1> USE DEF IInv, WalkInv
<1>1. PICK at : Tree(at, pte, root, Works, Frames(physical))
  BY DEF TreeInv
<1>2. PICK tb : Path(pte, root[cursor.map], Current.lin, cursor.level, tb) /\ tb[cursor.level] = cursor.table
  BY DEF PathInv
<1>3. AllGood(Works) /\ DOMAIN Works = MapNames(cfg)
  BY WorksGood
<1>4. cursor.map \in MapNames(cfg)
  BY DEF CursorInv
<1>5. cursor.map \in DOMAIN root
  BY <1>4, RootsExist DEF EntriesInv
<1>6. Works[cursor.map] = Work(cursor.map) /\ cursor.item \in DOMAIN Work(cursor.map)
  BY <1>4, WorksGood DEF CursorInv
<1>7. GoodPage(Current)
  BY CurrentTyped
<1>8. cursor.level \in 0 .. TopLevel /\ Current.level \in 0 .. cursor.level /\ Current.lin \in Int
  BY <1>7, LevelSizes DEF GoodPage, PathInv
<1>9. Here(at, tb)
  BY <1>1, <1>2, <1>3, <1>4, <1>5, <1>6, <1>8 DEF Here, Current
<1> QED BY <1>9

\* The place of the table at hand.
LEMMA HerePlace ==
  ASSUME NEW at, NEW tb, Here(at, tb)
  PROVE  /\ cursor.table \in DOMAIN at /\ at[cursor.table].map = cursor.map
         /\ at[cursor.table].level = cursor.level
         /\ SameWalk(at[cursor.table].va, Current.lin, cursor.level + 1)
         /\ \A k \in cursor.level + 1 .. TopLevel : tb[k] # cursor.table
<1> DEFINE l == cursor.level
           va == Current.lin
           m == cursor.map
<1>1. /\ Tree(at, pte, root, Works, Frames(physical)) /\ m \in DOMAIN root /\ l \in 0 .. TopLevel
      /\ Path(pte, root[m], va, l, tb) /\ tb[l] = cursor.table
  BY Zenon DEF Here
<1> HIDE DEF l, va, m
<1>2. \A k \in l .. TopLevel :
            /\ tb[k] \in DOMAIN at /\ at[tb[k]].map = m /\ at[tb[k]].level = k
            /\ SameWalk(at[tb[k]].va, va, k + 1)
  BY <1>1, PathPlaces
<1>3. l \in l .. TopLevel /\ \A k \in l + 1 .. TopLevel : k \in l .. TopLevel /\ k # l
  BY <1>1
<1>4. \A k \in l + 1 .. TopLevel : tb[k] # tb[l]
  BY <1>2, <1>3
<1> QED BY <1>1, <1>2, <1>3, <1>4 DEF l, va, m

\* The lists go on where they ended.
LEMMA WorksExtend ==
  ASSUME WorkGrows, UNCHANGED cfg
  PROVE  Extends(Works, Works') /\ DOMAIN Works' = MapNames(cfg)
<1>1. MapNames(cfg)' = MapNames(cfg)
  BY DEF MapNames
<1>2. DOMAIN Works' = MapNames(cfg) /\ \A m \in MapNames(cfg) : Works'[m] = Work(m)'
  BY <1>1 DEF Works
<1>3. DOMAIN Works = MapNames(cfg) /\ \A m \in MapNames(cfg) : Works[m] = Work(m)
  BY DEF Works
<1>4. ASSUME NEW m \in MapNames(cfg), NEW j \in DOMAIN Work(m)
      PROVE  j \in DOMAIN Work(m)' /\ Work(m)'[j] = Work(m)[j]
  BY DEF WorkGrows
<1> QED BY <1>2, <1>3, <1>4 DEF Extends

\* A page that is alone among more pages is alone.
LEMMA AloneBefore ==
  ASSUME WorkGrows, NEW m \in MapNames(cfg), NEW i \in DOMAIN Work(m), Alone(m, i)'
  PROVE  Alone(m, i) /\ AloneIn(Work(m), i)
<1>1. \A j \in DOMAIN Work(m)' \ {i} : ~ Overlaps(VaRange(Work(m)'[i]), VaRange(Work(m)'[j]))
  BY Zenon DEF Alone, Overlaps, VaRange, BlockStart, LevelSize
<1>2. \A j \in DOMAIN Work(m) : j \in DOMAIN Work(m)' /\ Work(m)'[j] = Work(m)[j]
  BY DEF WorkGrows
<1> QED BY <1>1, <1>2, Zenon DEF Alone, AloneIn

\* Entries that the walk of a page does not use may be written.
LEMMA ReachedKept ==
  ASSUME NEW pt, NEW base, NEW p, NEW tb, NEW s, NEW e,
         /\ Path(pt, base, p.lin, p.level, tb)
         /\ <<tb[p.level], Index(p.lin, p.level)>> \in DOMAIN pt
         /\ pt[<<tb[p.level], Index(p.lin, p.level)>>].leaf
         /\ pt[<<tb[p.level], Index(p.lin, p.level)>>].next = p.phys,
         \A k \in p.level + 1 .. TopLevel : <<tb[k], Index(p.lin, k)>> # s,
         <<tb[p.level], Index(p.lin, p.level)>> # s
  PROVE  Reached(Put(pt, s, e), base, p)
<1> DEFINE x == <<tb[p.level], Index(p.lin, p.level)>>
           l == p.level
           va == p.lin
<1>1. Path(pt, base, va, l, tb) /\ \A k \in l + 1 .. TopLevel : <<tb[k], Index(va, k)>> # s
  OBVIOUS
<1>2. Path(Put(pt, s, e), base, va, l, tb)
  <2> HIDE DEF l, va
  <2> QED BY <1>1, PathKept
<1>3. x \in DOMAIN pt /\ pt[x].leaf /\ pt[x].next = p.phys /\ x # s
  OBVIOUS
<1>4. x \in DOMAIN Put(pt, s, e) /\ Put(pt, s, e)[x] = pt[x]
  <2> HIDE DEF x
  <2> QED BY <1>3, Zenon DEF Put
<1> QED BY <1>2, <1>3, <1>4 DEF Reached

\* A step that stays with the page finishes none.
LEMMA StayDone ==
  ASSUME CallsInv, PagesInv, PagesInv', CursorInv, PathInv, stage = "tables", stage' = "tables",
         UNCHANGED <<cfg, pages>>, WorkGrows, cursor'.map = cursor.map, cursor'.item = cursor.item,
         NEW m \in ToSet(StageOneMaps), NEW i \in DOMAIN (pages[m] \o pt_pages'[m]), Done(m, i)'
  PROVE  i \in DOMAIN Work(m) /\ Done(m, i)
<1>1. cfg.paging /\ TableMaps' = TableMaps
  BY DEF PathInv, TableMaps, StageOneMaps
<1>2. Done(m, i)
  BY <1>1 DEF Done, Before
<1>3. m # "map_hyp" /\ m \in MapNames(cfg)
  BY <1>1, MapsApart
<1>4. i \in DOMAIN Work(m)
  <2>1. CASE m # cursor.map
    <3>1. pt_pages'[m] = pt_pages[m]
      BY <1>3, <2>1 DEF WorkGrows
    <3> QED BY <3>1 DEF Work
  <2>2. CASE m = cursor.map
    <3>1. i < cursor.item
      <4>1. \A a, b \in DOMAIN TableMaps : TableMaps[a] = TableMaps[b] => a = b
        BY <1>1, MapsApart
      <4>2. DOMAIN TableMaps \subseteq Int
        <5>1. \A c \in DOMAIN TableMaps : DOMAIN TableMaps = 1 .. Len(TableMaps)
          BY <1>1, BehindAre
        <5> QED BY <5>1
      <4>3. ~ Before(m, m)
        BY <4>1, <4>2 DEF Before
      <4> QED BY <1>2, <2>2, <4>3 DEF Done
    <3> DEFINE old == Len(pages[m]) + Len(pt_pages[m])
               item == cursor.item
    <3>2. DOMAIN Work(m) = 1 .. old
      BY <1>3, WorksGood
    <3>3. item \in 1 .. old /\ i < item
      BY <2>2, <3>1 DEF CursorInv
    <3>4. i \in Nat \ {0}
      <4>1. GoodPages(pages[m]) /\ GoodPages(pt_pages'[m])
        <5>1. MapNames(cfg)' = MapNames(cfg)
          BY DEF MapNames
        <5> QED BY <1>3, <5>1 DEF PagesInv
      <4> DEFINE s == pages[m] \o pt_pages'[m]
      <4>2. GoodPages(s)
        BY <4>1, GoodConcat
      <4>3. i \in DOMAIN s
        OBVIOUS
      <4> HIDE DEF s
      <4>4. DOMAIN s = 1 .. Len(s) /\ Len(s) \in Nat
        BY <4>2, GoodPlaces
      <4> QED BY <4>3, <4>4
    <3>5. old \in Int
      <4>1. GoodPages(pages[m]) /\ GoodPages(pt_pages[m])
        BY <1>3 DEF PagesInv
      <4>2. Len(pages[m]) \in Nat /\ Len(pt_pages[m]) \in Nat
        BY <4>1, GoodConcat
      <4> QED BY <4>2
    <3> HIDE DEF old, item
    <3>6. i \in 1 .. old
      BY <3>3, <3>4, <3>5
    <3> QED BY <3>2, <3>6
  <2> QED BY <2>1, <2>2
<1> QED BY <1>2, <1>4

\* The page at hand is not done yet.
LEMMA CurrentNotDone ==
  ASSUME CallsInv, CursorInv, PathInv, stage = "tables", NEW m, NEW i, Done(m, i)
  PROVE  m # cursor.map \/ i # cursor.item
<1>1. cfg.paging
  BY DEF PathInv, TableMaps
<1>2. \A a, b \in DOMAIN TableMaps : TableMaps[a] = TableMaps[b] => a = b
  BY <1>1, MapsApart
<1>3. DOMAIN TableMaps \subseteq Int
  <2>1. \A c \in DOMAIN TableMaps : DOMAIN TableMaps = 1 .. Len(TableMaps)
    BY <1>1, BehindAre
  <2> QED BY <2>1
<1>4. ~ Before(cursor.map, cursor.map)
  BY <1>2, <1>3 DEF Before
<1>5. cursor.item \in Int
  BY DEF CursorInv
<1> QED BY <1>4, <1>5 DEF Done

\* What a step of the tables must show: the pages that it finishes are reached, and
\* those that were reached before still are.
StillReached ==
    \A m \in ToSet(StageOneMaps) : \A i \in DOMAIN Work(m) :
        Done(m, i) /\ Alone(m, i) /\ Reached(pte, root[m], Work(m)[i])
            => Reached(pte', root[m], Work(m)[i])

FinishedReached ==
    \A m \in ToSet(StageOneMaps) : \A i \in DOMAIN (pages[m] \o pt_pages'[m]) :
        Done(m, i)' => /\ i \in DOMAIN Work(m)
                       /\ \/ Done(m, i)
                          \/ Alone(m, i) => Reached(pte', root[m], Work(m)[i])

\* Then pages that are done are reached behind the step as well.
LEMMA WalkedStep ==
  ASSUME CallsInv, WalkedInv, stage = "tables", UNCHANGED <<cfg, root, pages>>, WorkGrows,
         StillReached, FinishedReached
  PROVE  WalkedInv'
<1>1. StageOneMaps' = StageOneMaps
  BY DEF StageOneMaps
<1>2. ASSUME cfg.paging, NEW m \in ToSet(StageOneMaps), NEW i \in DOMAIN (pages[m] \o pt_pages'[m]),
             Done(m, i)', Alone(m, i)'
      PROVE  Reached(pte', root'[m], Work(m)'[i])
  <2>1. m \in MapNames(cfg)
    BY <1>2, MapsApart
  <2>2. i \in DOMAIN Work(m) /\ (Done(m, i) \/ (Alone(m, i) => Reached(pte', root[m], Work(m)[i])))
    BY <1>2 DEF FinishedReached
  <2>3. Alone(m, i)
    BY <1>2, <2>1, <2>2, AloneBefore
  <2>4. Reached(pte', root[m], Work(m)[i])
    <3>1. CASE Done(m, i)
      <4>1. Reached(pte, root[m], Work(m)[i])
        BY <1>2, <2>2, <2>3, <3>1 DEF WalkedInv
      <4> QED BY <2>2, <2>3, <3>1, <4>1 DEF StillReached
    <3> QED BY <2>2, <2>3, <3>1
  <2>5. Work(m)'[i] = Work(m)[i]
    BY <2>1, <2>2 DEF WorkGrows
  <2> QED BY <2>4, <2>5
<1>3. \A m : Work(m)' = pages[m] \o pt_pages'[m]
  BY DEF Work
<1>4. cfg'.paging =>
        \A m \in ToSet(StageOneMaps)' : \A i \in DOMAIN Work(m)' :
            Done(m, i)' /\ Alone(m, i)' => Reached(pte', root'[m], Work(m)'[i])
  <2>1. ToSet(StageOneMaps)' = ToSet(StageOneMaps)
    BY <1>1
  <2> QED BY <1>2, <1>3, <2>1
<1> QED BY <1>4, Zenon DEF WalkedInv, Reached, Path, Index, LevelSize, TopLevel

\* The next page starts at the root of its map.
LEMMA NextPath ==
  ASSUME AtNext, CursorInv', UNCHANGED root
  PROVE  PathInv'
<1>1. UNCHANGED cfg /\ PagesInv'
  BY DEF AtNext
<1>2. PICK c \in DOMAIN TableMaps :
         /\ TableMaps[c] = cursor.map
         /\ \/ cursor' = StartOf(cursor.map, cursor.item + 1) /\ stage' = "tables"
            \/ stage' = "finished"
            \/ \E d \in DOMAIN TableMaps : cursor' = StartOf(TableMaps[d], 1)
  BY NextStart
<1>3. CASE cursor' = StartOf(cursor.map, cursor.item + 1)
  <2>1. cursor' = StartOf(TableMaps[c], cursor.item + 1)
    BY <1>2, <1>3
  <2> QED BY <1>1, <2>1, PathStarts
<1>4. CASE stage' = "finished"
  BY <1>4 DEF PathInv
<1>5. CASE \E d \in DOMAIN TableMaps : cursor' = StartOf(TableMaps[d], 1)
  BY <1>1, <1>5, PathStarts
<1> QED BY <1>2, <1>3, <1>4, <1>5

\* The page at hand is still the same.
LEMMA SameCurrent ==
  ASSUME PagesInv, CursorInv, stage = "tables", WorkGrows, cursor'.map = cursor.map, cursor'.item = cursor.item
  PROVE  Current' = Current
<1>1. cursor.map \in MapNames(cfg) /\ cursor.item \in DOMAIN Work(cursor.map)
  BY WorksGood DEF CursorInv
<1>2. Work(cursor.map)'[cursor.item] = Work(cursor.map)[cursor.item]
  BY <1>1 DEF WorkGrows
<1>3. Current' = Work(cursor.map)'[cursor.item]
  BY DEF Current, Work
<1> QED BY <1>2, <1>3 DEF Current

\* Going one level down keeps the walk to the table at hand.
LEMMA DownPath ==
  ASSUME CallsInv, PagesInv, CursorInv, PathInv, stage = "tables", stage' = "tables", UNCHANGED <<cfg, root>>, WorkGrows,
         NEW t, cursor' = [cursor EXCEPT !.level = @ - 1, !.table = t],
         cursor.level > Current.level, Current.level \in 0 .. TopLevel,
         NEW tc, Path(pte', root[cursor.map], Current.lin, cursor.level - 1, tc), tc[cursor.level - 1] = t
  PROVE  PathInv'
<1>1. /\ cursor'.map = cursor.map /\ cursor'.item = cursor.item
      /\ cursor'.level = cursor.level - 1 /\ cursor'.table = t
  BY DEF CursorInv
<1>2. Current' = Current
  BY <1>1, SameCurrent
<1>3. \E c \in DOMAIN TableMaps : TableMaps[c] = cursor.map
  BY DEF PathInv
<1>4. cursor.level - 1 \in Current.level .. TopLevel
  <2> DEFINE l == cursor.level
             k == Current.level
  <2>1. l \in k .. TopLevel /\ l > k /\ k \in 0 .. TopLevel
    BY DEF PathInv
  <2> HIDE DEF l, k
  <2>2. l - 1 \in k .. TopLevel
    BY <2>1, LevelSizes
  <2> QED BY <2>2 DEF l, k
<1>5. TableMaps' = TableMaps
  BY DEF TableMaps, StageOneMaps
<1>6. /\ Path(pte', root'[cursor'.map], Current'.lin, cursor'.level, tc) /\ tc[cursor'.level] = cursor'.table
      /\ cursor'.level \in Current'.level .. TopLevel
      /\ \E c \in DOMAIN TableMaps' : TableMaps'[c] = cursor'.map
  BY <1>1, <1>2, <1>3, <1>4, <1>5
<1> QED BY <1>6, Zenon DEF PathInv, Path, Index, LevelSize, TopLevel

\* An entry that is there is followed, or the page is given up to a larger one.
LEMMA FollowStep ==
  ASSUME IInv, IInv', WalkInv, Table, FollowEntry
  PROVE  WalkInv'
<1> USE DEF IInv, WalkInv
<1>1. /\ stage = "tables" /\ cursor.level > Current.level /\ Slot \in DOMAIN pte
      /\ UNCHANGED <<cfg, linear, physical, addr, pages, pt_pages, root, pte>>
      /\ IF pte[Slot].leaf
         THEN ToNextPage
         ELSE /\ cursor' = [cursor EXCEPT !.level = @ - 1, !.table = pte[Slot].next]
              /\ UNCHANGED stage
  BY Zenon DEF FollowEntry
<1>2. WorkGrows
  BY TableWorks
<1>3. PICK at, tb : Here(at, tb)
  BY <1>1, HereWeAre
<1>4. StillReached
  BY <1>1 DEF StillReached
<1>5. TreeInv'
  <2>1. Works' = Works
    BY <1>1 DEF Works, Work, MapNames
  <2> QED BY <1>1, <2>1 DEF TreeInv
<1>6. CASE ~ pte[Slot].leaf
  <2>1. /\ cursor' = [cursor EXCEPT !.level = @ - 1, !.table = pte[Slot].next]
        /\ stage' = "tables" /\ cursor'.map = cursor.map /\ cursor'.item = cursor.item
    BY <1>1, <1>6 DEF CursorInv
  <2>2. FinishedReached
    BY <1>1, <1>2, <2>1, StayDone DEF FinishedReached
  <2>3. WalkedInv'
    BY <1>1, <1>2, <1>4, <2>2, WalkedStep
  <2>4. PathInv'
    <3> DEFINE l == cursor.level
               va == Current.lin
               s == <<tb[l], Index(va, l)>>
    <3>1. Slot = s
      BY <1>3 DEF Here, Slot
    <3>2. l \in 1 .. TopLevel /\ Path(pte, root[cursor.map], va, l, tb) /\ Current.level \in 0 .. TopLevel
      <4>1. l \in 0 .. TopLevel /\ Current.level \in 0 .. l /\ l > Current.level
        BY <1>1, <1>3, Zenon DEF Here
      <4> QED BY <1>3, <4>1, LevelSizes DEF Here
    <3>3. s \in DOMAIN pte /\ ~ pte[s].leaf /\ pte[s].next = pte[Slot].next
      BY <1>1, <1>6, <3>1
    <3>4. PICK tc : Path(pte, root[cursor.map], va, l - 1, tc) /\ tc[l - 1] = pte[Slot].next
      <4> DEFINE t == pte[Slot].next
                 base == root[cursor.map]
      <4>1. s \in DOMAIN pte /\ ~ pte[s].leaf /\ pte[s].next = t /\ Path(pte, base, va, l, tb)
        BY <3>2, <3>3
      <4> HIDE DEF l, va, t, base
      <4> QED BY <3>2, <4>1, PathDown DEF t, base
    <3> QED BY <1>1, <1>2, <2>1, <3>2, <3>4, DownPath
  <2> QED BY <1>5, <2>3, <2>4
<1>7. CASE pte[Slot].leaf
  <2>1. AtNext
    BY <1>1, <1>2, <1>7 DEF AtNext
  <2>2. PathInv'
    BY <1>1, <2>1, NextPath
  <2>3. ~ Alone(cursor.map, cursor.item)
    <3> DEFINE l == cursor.level
               va == Current.lin
               s == <<tb[l], Index(va, l)>>
               m == cursor.map
               i == cursor.item
    <3>1. Slot = s
      BY <1>3 DEF Here, Slot
    <3>2. l \in 0 .. TopLevel /\ Path(pte, root[m], va, l, tb) /\ s \in DOMAIN pte /\ pte[s].leaf
      BY <1>1, <1>3, <1>7, <3>1 DEF Here
    <3>3. Current.level \in 0 .. l - 1
      <4>1. l \in 0 .. TopLevel /\ Current.level \in 0 .. l /\ l > Current.level
        BY <1>1, <1>3, Zenon DEF Here
      <4> DEFINE k == Current.level
      <4> HIDE DEF l, k
      <4>2. k \in 0 .. l - 1
        BY <4>1 DEF k
      <4> QED BY <4>2 DEF k
    <3>4. /\ Tree(at, pte, root, Works, Frames(physical)) /\ AllGood(Works) /\ m \in DOMAIN root /\ m \in DOMAIN Works
          /\ i \in DOMAIN Works[m] /\ Works[m][i] = Current
      BY <1>3, Zenon DEF Here
    <3>5. /\ Works[m][i].level \in 0 .. l - 1 /\ Path(pte, root[m], Works[m][i].lin, l, tb)
          /\ <<tb[l], Index(Works[m][i].lin, l)>> \in DOMAIN pte
          /\ pte[<<tb[l], Index(Works[m][i].lin, l)>>].leaf
      BY <3>2, <3>3, <3>4
    <3>6. ~ AloneIn(Works[m], i)
      <4> HIDE DEF l, va, s, m, i
      <4> QED BY <3>2, <3>4, <3>5, Blocked
    <3>7. Works[m] = Work(m)
      BY <1>3, WorksGood DEF Here
    <3> QED BY <3>6, <3>7 DEF Alone, AloneIn
  <2>4. FinishedReached
    BY <2>1, <2>3, NextDone DEF FinishedReached
  <2>5. WalkedInv'
    BY <1>1, <1>2, <1>4, <2>4, WalkedStep
  <2> QED BY <1>5, <2>2, <2>5
<1> QED BY <1>6, <1>7

\* The smallest pages are the smallest.
LEMMA SmallestPage ==
  ASSUME NEW l \in 0 .. TopLevel
  PROVE  PageBytes <= LevelSize(l)
<1>1. l \in 0 .. Levels /\ 0 \in 0 .. l /\ 0 \in Int
  BY LevelSizes
<1>2. /\ BlockStart(0, 0) \in Int /\ BlockStart(0, l) \in Int
      /\ LevelSize(0) \in Nat \ {0} /\ LevelSize(l) \in Nat \ {0}
      /\ BlockStart(0, l) <= BlockStart(0, 0)
      /\ BlockStart(0, 0) + LevelSize(0) <= BlockStart(0, l) + LevelSize(l)
  BY ONLY <1>1, BlocksNested
<1> DEFINE a == BlockStart(0, 0)
           b == BlockStart(0, l)
           u == LevelSize(0)
           v == LevelSize(l)
<1>3. u <= v
  <2> HIDE DEF a, b, u, v
  <2> QED BY <1>2 DEF a, b, u, v
<1>4. LevelSize(0) = PageBytes
  BY PageTablesAssumption
<1> QED BY <1>3, <1>4

\* The slot at hand, where there is no entry yet, is on no walk.
LEMMA SlotUnused ==
  ASSUME Slot \notin DOMAIN pte, NEW e
  PROVE  \A base, p : Reached(pte, base, p) => Reached(Put(pte, Slot, e), base, p)
<1>1. ASSUME NEW base, NEW p, Reached(pte, base, p)  PROVE Reached(Put(pte, Slot, e), base, p)
  <2>1. PICK tb : /\ Path(pte, base, p.lin, p.level, tb)
                  /\ <<tb[p.level], Index(p.lin, p.level)>> \in DOMAIN pte
                  /\ pte[<<tb[p.level], Index(p.lin, p.level)>>].leaf
                  /\ pte[<<tb[p.level], Index(p.lin, p.level)>>].next = p.phys
    BY <1>1, Zenon DEF Reached
  <2>2. /\ \A k \in p.level + 1 .. TopLevel : <<tb[k], Index(p.lin, k)>> # Slot
        /\ <<tb[p.level], Index(p.lin, p.level)>> # Slot
    BY <2>1, Zenon DEF Path
  <2> QED BY <2>1, <2>2, ReachedKept
<1> QED BY <1>1

\* A new table gets a frame of its own, and a place below the table at hand.
LEMMA CreateTableStep ==
  ASSUME IInv, IInv', [Next]_vars, WalkInv, Table, CreateTable, stage' # "failed"
  PROVE  WalkInv'
<1> USE DEF IInv, WalkInv
<1> DEFINE size == IF cfg.two_stage THEN LevelSize(Current.gnonleaf) ELSE PageBytes
           c    == Request(size, size, PhysicalBits, "dram")
           l    == cursor.level
           va   == Current.lin
           m    == cursor.map
<1>1. /\ stage = "tables" /\ cursor.level > Current.level /\ Slot \notin DOMAIN pte
      /\ UNCHANGED <<cfg, pages, root, stage>>
  BY Zenon DEF CreateTable
<1>2. PICK a \in Grantable(physical, c) :
         /\ physical' = Allocate(physical, c, a)
         /\ pte' = Put(pte, Slot, [next |-> a, leaf |-> FALSE, by |-> Current.name])
         /\ cursor' = [cursor EXCEPT !.level = @ - 1, !.table = a]
  BY Zenon DEF CreateTable
<1>3. WorkGrows
  BY TableWorks
<1>4. PICK at, tb : Here(at, tb)
  BY <1>1, HereWeAre
<1>5. /\ a \in Nat /\ a \notin Frames(physical) /\ a \in Frames(physical')
      /\ Frames(physical) \subseteq Frames(physical')
  <2>1. GoodPage(Current)
    BY <1>1, CurrentTyped
  <2>2. Current.gnonleaf \in 0 .. TopLevel
    BY <2>1 DEF GoodPage
  <2>3. size \in Nat \ {0} /\ PageBytes <= size
    BY <2>2, LevelSizes, SmallestPage
  <2>4. SpaceInv(physical, {"dram"})
    BY DEF SpacesInv
  <2> HIDE DEF size
  <2>5. LET new == Allocate(physical, c, a)
        IN  /\ a \in Nat /\ Grown(physical, new, {"dram"})
            /\ a \notin Frames(physical)
            /\ PageBytes <= size => a \in Frames(new)
    BY <2>3, <2>4, GrownAllocate
  <2> QED BY <1>2, <2>3, <2>5 DEF Grown
<1>6. l \in 1 .. TopLevel /\ Current.level \in 0 .. TopLevel
  <2>1. l \in 0 .. TopLevel /\ Current.level \in 0 .. l
    BY <1>4, Zenon DEF Here
  <2> HIDE DEF l
  <2> QED BY <1>1, <2>1, LevelSizes DEF l
<1> DEFINE e == [next |-> a, leaf |-> FALSE, by |-> Current.name]
           s == <<cursor.table, Index(va, l)>>
           y == [map |-> m, level |-> l - 1, va |-> va]
<1>7. Slot = s /\ ~ e.leaf /\ e.next = a
  BY DEF Slot
<1>8. cursor'.map = m /\ cursor'.item = cursor.item
  BY <1>2 DEF CursorInv
<1>9. TreeInv'
  <2>1. Tree(at, pte, root, Works, Frames(physical))
    BY <1>4, Zenon DEF Here
  <2>2. Extends(Works, Works')
    BY <1>1, <1>3, WorksExtend
  <2>3. Tree(at, pte, root, Works', Frames(physical'))
    BY <1>5, <2>1, <2>2, TreeKept
  <2>4. a \notin DOMAIN at
    BY <1>5, <2>1, Zenon DEF Tree
  <2>5. /\ cursor.table \in DOMAIN at /\ at[cursor.table].map = m
        /\ at[cursor.table].level = l
        /\ SameWalk(at[cursor.table].va, va, l + 1)
    BY <1>4, HerePlace
  <2>6. y.level \in 0 .. TopLevel /\ y.level = l - 1 /\ y.map = m /\ y.va = va
    <3>1. y.level = l - 1 /\ y.map = m /\ y.va = va
      OBVIOUS
    <3> HIDE DEF y, l
    <3>2. l - 1 \in 0 .. TopLevel
      BY <1>6, LevelSizes
    <3> QED BY <3>1, <3>2
  <2>7. TableFits(at[s[1]], s[2], y)
    <3>1. s[1] = cursor.table /\ s[2] = Index(va, l) /\ l > 0
      BY <1>6
    <3>2. SameWalk(va, at[cursor.table].va, l + 1)
      BY <2>5, Zenon DEF SameWalk
    <3> HIDE DEF y, s, l, va, m
    <3> QED BY <2>5, <2>6, <3>1, <3>2, Zenon DEF TableFits
  <2>8. s[1] \in DOMAIN at
    BY <2>5
  <2>11. WrittenFor(at[s[1]], s[2], e, Works')
    <3>1. SameWalk(va, at[cursor.table].va, l + 1)
      BY <2>5, Zenon DEF SameWalk
    <3>2. m \in DOMAIN Works /\ cursor.item \in DOMAIN Works[m] /\ Works[m][cursor.item] = Current
      BY <1>4, Zenon DEF Here
    <3>3. s[1] = cursor.table /\ s[2] = Index(va, l) /\ e.by = Current.name /\ ~ e.leaf
      OBVIOUS
    <3> HIDE DEF e
    <3>4. WrittenFor(at[cursor.table], Index(va, l), e, Works)
      BY <2>5, <3>1, <3>2, <3>3, Zenon DEF WrittenFor
    <3> HIDE DEF e, s
    <3> QED BY <2>2, <3>3, <3>4, StillWritten
  <2>9. Tree(Put(at, e.next, y), Put(pte, s, e), root, Works', Frames(physical'))
    <3>1. e.next \in Nat /\ e.next \notin DOMAIN at /\ e.next \in Frames(physical')
      BY <1>5, <1>7, <2>4
    <3> HIDE DEF e, y, s, l, va, m, c
    <3> QED BY <1>7, <2>3, <2>6, <2>7, <2>8, <2>11, <3>1, TreeTable
  <2>10. Tree(Put(at, e.next, y), pte', root', Works', Frames(physical'))
    BY <1>1, <1>2, <1>7, <2>9
  <2> HIDE DEF e, y
  <2> QED BY <2>10, ZenonT(200) DEF TreeInv, Tree, WrittenFor, LeafFits, TableFits, SameWalk, Index, TopLevel, Frames, Size
<1>10. PathInv'
  <2>1. Path(pte, root[m], va, l, tb) /\ tb[l] = cursor.table
    BY <1>4, Zenon DEF Here
  <2>2. \A k \in l + 1 .. TopLevel : <<tb[k], Index(va, k)>> # s
    BY <1>1, <1>7, <2>1, Zenon DEF Path
  <2>3. Path(pte', root[m], va, l, tb)
    <3>1. Path(Put(pte, s, e), root[m], va, l, tb)
      <4> HIDE DEF e, s, l, va, m
      <4> QED BY <2>1, <2>2, PathKept
    <3> QED BY <1>2, <1>7, <3>1
  <2>4. <<tb[l], Index(va, l)>> \in DOMAIN pte' /\ pte'[<<tb[l], Index(va, l)>>] = e
    <3>1. s \in DOMAIN Put(pte, s, e) /\ Put(pte, s, e)[s] = e
      BY Zenon DEF Put
    <3> QED BY <1>2, <1>7, <2>1, <3>1
  <2>5. PICK tc : Path(pte', root[m], va, l - 1, tc) /\ tc[l - 1] = a
    <3> DEFINE pt == pte'
               base == root[m]
    <3>1. /\ Path(pt, base, va, l, tb) /\ <<tb[l], Index(va, l)>> \in DOMAIN pt
          /\ ~ pt[<<tb[l], Index(va, l)>>].leaf /\ pt[<<tb[l], Index(va, l)>>].next = a
      BY <1>7, <2>3, <2>4
    <3> HIDE DEF pt, base, l, va, m, e, c
    <3>2. \E tc : Path(pt, base, va, l - 1, tc) /\ tc[l - 1] = a
      BY <1>6, <3>1, PathDown
    <3> QED BY <3>2 DEF pt, base
  <2>6. stage' = "tables"
    BY <1>1
  <2> QED BY <1>1, <1>2, <1>3, <1>6, <2>5, <2>6, DownPath
<1>11. StillReached
  BY <1>1, <1>2, SlotUnused DEF StillReached
<1>12. FinishedReached
  BY <1>1, <1>3, <1>8, StayDone DEF FinishedReached
<1>13. WalkedInv'
  BY <1>1, <1>3, <1>11, <1>12, WalkedStep
<1> QED BY <1>9, <1>10, <1>13

\* A leaf entry replaces no entry on the walk of another page that is alone.
LEMMA LeafSpares ==
  ASSUME IInv, WalkInv, stage = "tables", cursor.level = Current.level, NEW at, NEW tb, Here(at, tb),
         NEW m \in ToSet(StageOneMaps), NEW i \in DOMAIN Work(m), Done(m, i), Alone(m, i),
         Reached(pte, root[m], Work(m)[i]), NEW e
  PROVE  Reached(Put(pte, Slot, e), root[m], Work(m)[i])
<1> USE DEF IInv, WalkInv
<1>1. cfg.paging
  BY DEF PathInv, TableMaps
<1>2. m \in MapNames(cfg) /\ m \in DOMAIN root
  <2>1. m \in MapNames(cfg)
    BY <1>1, MapsApart
  <2> QED BY <2>1, RootsExist DEF EntriesInv
<1>3. <<m, i>> # <<cursor.map, cursor.item>>
  BY CurrentNotDone
<1> DEFINE p == Work(m)[i]
           n == cursor.map
           j == cursor.item
           l == cursor.level
<1>4. Works[m] = Work(m) /\ m \in DOMAIN Works /\ i \in DOMAIN Works[m] /\ Works[m][i] = p
  BY <1>2, WorksGood
<1>5. /\ Tree(at, pte, root, Works, Frames(physical)) /\ AllGood(Works)
      /\ n \in DOMAIN root /\ n \in DOMAIN Works /\ j \in DOMAIN Works[n] /\ Works[n][j] = Current
      /\ Path(pte, root[n], Current.lin, l, tb) /\ tb[l] = cursor.table
  BY Zenon DEF Here
<1>6. PICK tc : /\ Path(pte, root[m], p.lin, p.level, tc)
                /\ <<tc[p.level], Index(p.lin, p.level)>> \in DOMAIN pte
                /\ pte[<<tc[p.level], Index(p.lin, p.level)>>].leaf
                /\ pte[<<tc[p.level], Index(p.lin, p.level)>>].next = p.phys
  BY Zenon DEF Reached
<1>7. AloneIn(Works[m], i)
  BY <1>4 DEF Alone, AloneIn
<1>8. Slot = <<tb[l], Index(Current.lin, l)>>
  BY <1>5 DEF Slot
<1>9. ASSUME NEW k \in p.level .. TopLevel  PROVE <<tc[k], Index(p.lin, k)>> # Slot
  <2>1. SUFFICES ASSUME <<tc[k], Index(p.lin, k)>> = Slot  PROVE FALSE
    OBVIOUS
  <2>2. /\ Path(pte, root[n], Works[n][j].lin, Works[n][j].level, tb)
        /\ <<tc[k], Index(p.lin, k)>> = <<tb[Works[n][j].level], Index(Works[n][j].lin, Works[n][j].level)>>
    BY <1>5, <1>8, <2>1
  <2>3. /\ Path(pte, root[m], Works[m][i].lin, Works[m][i].level, tc)
        /\ k \in Works[m][i].level .. TopLevel
        /\ <<tc[k], Index(Works[m][i].lin, k)>>
             = <<tb[Works[n][j].level], Index(Works[n][j].lin, Works[n][j].level)>>
    BY <1>4, <1>6, <1>9, <2>2
  <2>4. <<m, i>> # <<n, j>>
    BY <1>3
  <2>5. ~ AloneIn(Works[m], i)
    <3> HIDE DEF p, n, j, l
    <3> QED BY <1>2, <1>4, <1>5, <2>2, <2>3, <2>4, Overwritten
  <2> QED BY <1>7, <2>5
<1>10. p.level \in p.level .. TopLevel /\ \A k \in p.level + 1 .. TopLevel : k \in p.level .. TopLevel
  <2>1. GoodPage(p)
    BY <1>4, <1>5, Zenon DEF AllGood
  <2> DEFINE h == p.level
  <2>2. h \in 0 .. TopLevel
    BY <2>1 DEF GoodPage
  <2> HIDE DEF h
  <2>3. h \in h .. TopLevel /\ \A k \in h + 1 .. TopLevel : k \in h .. TopLevel
    BY <2>2, LevelSizes
  <2> QED BY <2>3 DEF h
<1> HIDE DEF p
<1>11. Reached(Put(pte, Slot, e), root[m], p)
  BY <1>6, <1>9, <1>10, ReachedKept
<1> QED BY <1>11 DEF p

\* The leaf of the page at hand ends its walk.
LEMMA CreateLeafStep ==
  ASSUME IInv, IInv', WalkInv, Table, CreateLeaf, stage' # "failed"
  PROVE  WalkInv'
<1> USE DEF IInv, WalkInv
<1> DEFINE l  == cursor.level
           va == Current.lin
           m  == cursor.map
           e  == [next |-> Current.phys, leaf |-> TRUE, by |-> Current.name]
           s  == <<cursor.table, Index(va, l)>>
<1>1. /\ stage = "tables" /\ l = Current.level
      /\ UNCHANGED <<cfg, physical, pages, root>>
      /\ pte' = Put(pte, Slot, e) /\ ToNextPage
  BY Zenon DEF CreateLeaf
<1>2. WorkGrows
  BY TableWorks
<1>3. PICK at, tb : Here(at, tb)
  BY <1>1, HereWeAre
<1>4. AtNext
  BY <1>1, <1>2 DEF AtNext
<1>5. PathInv'
  BY <1>1, <1>4, NextPath
<1>6. Slot = s /\ e.leaf /\ e.next = Current.phys
  BY DEF Slot
<1>7. /\ Tree(at, pte, root, Works, Frames(physical))
      /\ m \in DOMAIN Works /\ cursor.item \in DOMAIN Works[m] /\ Works[m][cursor.item] = Current
      /\ Path(pte, root[m], va, l, tb) /\ tb[l] = cursor.table
  BY <1>3, Zenon DEF Here
<1>8. /\ cursor.table \in DOMAIN at /\ at[cursor.table].map = m
      /\ at[cursor.table].level = l
      /\ SameWalk(at[cursor.table].va, va, l + 1)
      /\ \A k \in l + 1 .. TopLevel : tb[k] # cursor.table
  BY <1>3, HerePlace
<1>9. TreeInv'
  <2>1. Extends(Works, Works')
    BY <1>1, <1>2, WorksExtend
  <2>2. Tree(at, pte, root, Works', Frames(physical'))
    BY <1>1, <1>7, <2>1, TreeKept
  <2>3. LeafFits(at[cursor.table], Index(va, l), Works)
    <3>1. SameWalk(va, at[cursor.table].va, l + 1)
      BY <1>8, Zenon DEF SameWalk
    <3> QED BY <1>1, <1>7, <1>8, <3>1, Zenon DEF LeafFits
  <2>4. LeafFits(at[cursor.table], Index(va, l), Works')
    BY <2>1, <2>3, LeafStillFits
  <2>5. s[1] \in DOMAIN at /\ LeafFits(at[s[1]], s[2], Works')
    BY <1>8, <2>4
  <2>8. WrittenFor(at[s[1]], s[2], e, Works')
    <3>1. SameWalk(va, at[cursor.table].va, l + 1)
      BY <1>8, Zenon DEF SameWalk
    <3>2. s[1] = cursor.table /\ s[2] = Index(va, l) /\ e.by = Current.name /\ e.next = Current.phys
      OBVIOUS
    <3> HIDE DEF e
    <3>3. WrittenFor(at[cursor.table], Index(va, l), e, Works)
      BY <1>1, <1>7, <1>8, <3>1, <3>2, Zenon DEF WrittenFor
    <3> HIDE DEF s
    <3> QED BY <2>1, <3>2, <3>3, StillWritten
  <2>6. Tree(at, Put(pte, s, e), root, Works', Frames(physical'))
    <3> HIDE DEF e, s, l, va, m
    <3> QED BY <1>6, <2>2, <2>5, <2>8, TreeLeaf
  <2>7. Tree(at, pte', root', Works', Frames(physical'))
    BY <1>1, <1>6, <2>6
  <2> QED BY <2>7, ZenonT(200) DEF TreeInv, Tree, WrittenFor, LeafFits, TableFits, SameWalk, Index, TopLevel, Frames, Size
<1>10. StillReached
  <2>1. ASSUME NEW n \in ToSet(StageOneMaps), NEW i \in DOMAIN Work(n), Done(n, i), Alone(n, i),
               Reached(pte, root[n], Work(n)[i])
        PROVE  Reached(pte', root[n], Work(n)[i])
    BY <1>1, <1>3, <2>1, LeafSpares
  <2> QED BY <2>1 DEF StillReached
<1>11. Reached(pte', root[m], Current)
  <2>1. \A k \in l + 1 .. TopLevel : <<tb[k], Index(va, k)>> # s
    BY <1>8
  <2>2. Path(Put(pte, s, e), root[m], va, l, tb)
    <3> HIDE DEF e, s, l, va, m
    <3> QED BY <1>7, <2>1, PathKept
  <2>3. s \in DOMAIN Put(pte, s, e) /\ Put(pte, s, e)[s] = e
    BY Zenon DEF Put
  <2>4. /\ Path(pte', root[m], Current.lin, Current.level, tb)
        /\ <<tb[Current.level], Index(Current.lin, Current.level)>> \in DOMAIN pte'
        /\ pte'[<<tb[Current.level], Index(Current.lin, Current.level)>>] = e
    BY <1>1, <1>6, <1>7, <2>2, <2>3
  <2> HIDE DEF e
  <2> QED BY <1>6, <2>4 DEF Reached
<1>12. FinishedReached
  <2>1. Current = Work(m)[cursor.item]
    BY DEF Current
  <2> QED BY <1>4, <1>11, <2>1, NextDone DEF FinishedReached
<1>13. WalkedInv'
  BY <1>1, <1>2, <1>10, <1>12, WalkedStep
<1> QED BY <1>5, <1>9, <1>13

-----------------------------------------------------------------------------
(***************************************************************************)
(* The invariant of the walks holds, and with it what the hardware finds.  *)
(***************************************************************************)
\* With no entry every root is a tree of its own.
LEMMA RootsAreTrees ==
  ASSUME NEW pt, DOMAIN pt = {}, NEW rt, NEW wk, NEW fr,
         \A m \in DOMAIN rt : rt[m] \in Nat /\ rt[m] \in fr,
         \A m, n \in DOMAIN rt : rt[m] = rt[n] => m = n
  PROVE  \E at : Tree(at, pt, rt, wk, fr)
<1> DEFINE T == {rt[m] : m \in DOMAIN rt}
           owner(t) == CHOOSE m \in DOMAIN rt : rt[m] = t
           at == [t \in T |-> [map |-> owner(t), level |-> TopLevel, va |-> 0]]
<1>1. \A m \in DOMAIN rt : rt[m] \in T /\ owner(rt[m]) = m
  OBVIOUS
<1>2. DOMAIN at = T /\ \A t \in T : at[t].map = owner(t) /\ at[t].level = TopLevel
  OBVIOUS
<1>3. \A t \in T : t \in Nat /\ t \in fr
  OBVIOUS
<1>4. TopLevel \in 0 .. TopLevel
  BY LevelSizes
<1> HIDE DEF at, owner, T
<1>5. Tree(at, pt, rt, wk, fr)
  BY <1>1, <1>2, <1>3, <1>4 DEF Tree
<1> QED BY <1>5

\* The tables start with the roots, and no page is done.
LEMMA StartTablesStep ==
  ASSUME IInv, IInv', StartTables
  PROVE  WalkInv'
<1> USE DEF IInv
<1>1. /\ stage = "addresses" /\ todo = << >> /\ UNCHANGED <<cfg, physical, pages, pt_pages, root, pte>>
      /\ ToFirstPage(TableMaps)
  BY Zenon DEF StartTables
<1>2. TableMaps \in Seq(MapNames(cfg))
  BY TableMapsExist
<1> DEFINE tm == TableMaps
<1>3. \/ stage' = "finished" /\ \A k \in DOMAIN tm : NoPlace(tm[k])
      \/ \E k \in DOMAIN tm : /\ stage' = "tables" /\ cursor' = StartOf(tm[k], 1)
                              /\ \A j \in 1 .. k - 1 : NoPlace(tm[j])
  BY <1>1, <1>2, FirstStart DEF NoPlace
<1>4. TreeInv'
  <2>1. DOMAIN pte = {}
    BY <1>1 DEF EntriesInv
  <2>2. \E at : Tree(at, pte, root, Works, Frames(physical))
    BY <2>1, RootsAreTrees DEF RootsInv
  <2>3. Works' = Works
    BY <1>1 DEF Works, Work, MapNames
  <2> QED BY <1>1, <2>2, <2>3 DEF TreeInv
<1>5. PathInv'
  BY <1>1, <1>3, PathStarts DEF PathInv
<1>6. WalkedInv'
  <2>1. StageOneMaps' = StageOneMaps /\ tm' = tm /\ \A m : Work(m)' = Work(m)
    BY <1>1 DEF StageOneMaps, TableMaps, Work
  <2>2. ASSUME cfg.paging, NEW m \in ToSet(StageOneMaps), NEW i \in DOMAIN Work(m)  PROVE ~ Done(m, i)'
    <3>1. /\ \A a, b \in DOMAIN tm : tm[a] = tm[b] => a = b
          /\ m \in MapNames(cfg) /\ \E a \in DOMAIN tm : tm[a] = m
      BY <2>2, MapsApart
    <3>2. ~ NoPlace(m)
      <4>1. NoPlace(m) => Work(m) = << >>
        BY <1>1 DEF NoPlace, Work
      <4>2. Work(m) = << >> => DOMAIN Work(m) = {}
        OBVIOUS
      <4> QED BY <4>1, <4>2
    <3>3. \E k \in DOMAIN tm : /\ stage' = "tables" /\ cursor' = StartOf(tm[k], 1)
                               /\ \A j \in 1 .. k - 1 : NoPlace(tm[j])
      BY <1>3, <3>1, <3>2
    <3>4. PICK k \in DOMAIN tm : /\ stage' = "tables" /\ cursor' = StartOf(tm[k], 1)
                                 /\ \A j \in 1 .. k - 1 : NoPlace(tm[j])
      BY <3>3
    <3>5. cursor'.map = tm[k] /\ cursor'.item = 1
      BY <3>4 DEF StartOf
    <3>6. ~ (i < 1)
      <4>1. DOMAIN Work(m) = 1 .. Len(Work(m)) /\ Len(Work(m)) \in Nat
        BY <3>1, WorksGood, GoodPlaces
      <4> QED BY <4>1
    <3>7. DOMAIN tm = 1 .. Len(tm) /\ Len(tm) \in Nat
      BY <2>2, <3>4, BehindAre
    <3>8. ASSUME NEW x \in DOMAIN tm, NEW y \in DOMAIN tm, x < y, tm[x] = m, tm[y] = tm[k]  PROVE FALSE
      <4>1. y = k
        BY <3>1, <3>8
      <4>2. x \in 1 .. k - 1
        <5> HIDE DEF tm
        <5> QED BY <3>7, <3>8, <4>1
      <4> QED BY <3>2, <3>4, <3>8, <4>2
    <3> QED BY <2>1, <3>4, <3>5, <3>6, <3>8 DEF Done, Before
  <2>3. ToSet(StageOneMaps)' = ToSet(StageOneMaps)
    BY <2>1
  <2>4. cfg'.paging = cfg.paging
    BY <1>1
  <2> QED BY <2>1, <2>2, <2>3, <2>4 DEF WalkedInv
<1> QED BY <1>4, <1>5, <1>6 DEF WalkInv

\* The invariant of the walks is kept by every step.
LEMMA WalkStep ==
  ASSUME IInv, IInv', [Next]_vars, WalkInv
  PROVE  WalkInv'
<1>1. ASSUME stage' \notin {"tables", "finished"}  PROVE WalkInv'
  BY <1>1 DEF WalkInv, TreeInv, PathInv, WalkedInv
<1>2. CASE Placing
  BY <1>1, <1>2, PlacingChanges
<1>3. CASE StartTables
  BY <1>3, StartTablesStep
<1>4. CASE Table
  <2>1. CASE stage' = "failed"
    BY <1>1, <2>1
  <2>2. CASE FollowEntry
    BY <1>4, <2>2, FollowStep
  <2>3. CASE CreateTable /\ stage' # "failed"
    BY <1>4, <2>3, CreateTableStep
  <2>4. CASE CreateLeaf /\ stage' # "failed"
    BY <1>4, <2>4, CreateLeafStep
  <2> QED BY <1>4, <2>1, <2>2, <2>3, <2>4, Zenon DEF Table
<1>5. CASE UNCHANGED vars
  <2>1. UNCHANGED <<cfg, physical, pages, pt_pages, root, pte, cursor, stage>>
    BY <1>5, Zenon DEF vars, tableVars
  <2>2. /\ Works' = Works /\ \A m : Work(m)' = Work(m)
        /\ StageOneMaps' = StageOneMaps /\ TableMaps' = TableMaps
    BY <2>1 DEF Works, Work, MapNames, StageOneMaps, TableMaps
  <2>3. TreeInv'
    BY <2>1, <2>2 DEF WalkInv, TreeInv
  <2>4. PathInv'
    <3>1. Current' = Current
      BY <2>1, <2>2 DEF Current
    <3> QED BY <2>1, <2>2, <3>1 DEF WalkInv, PathInv
  <2>5. WalkedInv'
    <3>1. \A m, i : Done(m, i)' = Done(m, i) /\ Alone(m, i)' = Alone(m, i)
      BY <2>1, <2>2 DEF Done, Before, Alone
    <3> QED BY <2>1, <2>2, <3>1 DEF WalkInv, WalkedInv
  <2> QED BY <2>3, <2>4, <2>5 DEF WalkInv
<1> QED BY <1>2, <1>3, <1>4, <1>5, Zenon DEF Next, Stop, Placing

\* In every state of a run the tables form trees, the table at hand is on the walk
\* of the page at hand, and every page that is done and alone is reached by its walk.
THEOREM WalkInvariant == Spec => []WalkInv
<1>1. Init => WalkInv
  BY DEF Init, InitOf, WalkInv, TreeInv, PathInv, WalkedInv
<1>2. IInv /\ IInv' /\ [Next]_vars /\ WalkInv => WalkInv'
  BY WalkStep
<1> QED BY <1>1, <1>2, InductiveInvariant, PTL DEF Spec

\* What the invariant says of a walk when all tables are built.
LEMMA LeavesTranslate ==
  ASSUME IInv, WalkInv
  PROVE  PagesAreMapped
<1> SUFFICES ASSUME stage = "finished", cfg.paging, NEW m \in ToSet(StageOneMaps), NEW i \in DOMAIN Work(m),
                    Alone(m, i), NEW va \in PageStarts(VaRange(Work(m)[i]))
             PROVE  Translate(m, va) = Work(m)[i].phys + (va % LevelSize(Work(m)[i].level))
  BY DEF PagesAreMapped, InFrameOf
<1> DEFINE p == Work(m)[i]
           l == p.level
<1>1. m \in MapNames(cfg)
  BY MapsApart DEF IInv
<1>2. GoodPage(p)
  BY <1>1, WorksGood, GoodPlaces DEF IInv
<1>3. p.lin \in Int /\ l \in 0 .. TopLevel /\ l \in 0 .. Levels
  BY <1>2, LevelSizes DEF GoodPage
<1>4. va \in Int /\ BlockStart(p.lin, l) <= va /\ va <= BlockStart(p.lin, l) + LevelSize(l) - 1
  <2> DEFINE a == BlockStart(p.lin, l)
             b == a + LevelSize(l) - 1
  <2>1. a \in Int /\ LevelSize(l) \in Nat \ {0}
    <3> HIDE DEF p, l
    <3>1. l \in 0 .. l
      BY <1>3, LevelSizes
    <3> QED BY <1>3, <3>1, BlocksNested
  <2>2. va \in a .. b
    BY DEF PageStarts, VaRange
  <2> HIDE DEF a
  <2>3. b \in Int
    BY <2>1
  <2> HIDE DEF b
  <2>4. va \in Int /\ a <= va /\ va <= b
    BY <2>1, <2>2, <2>3
  <2> QED BY <2>4 DEF a, b
<1> HIDE DEF l, p
<1>5. SameWalk(va, p.lin, l)
  BY <1>3, <1>4, SameIndices
<1>6. PICK tb : /\ Path(pte, root[m], p.lin, l, tb)
                /\ <<tb[l], Index(p.lin, l)>> \in DOMAIN pte
                /\ pte[<<tb[l], Index(p.lin, l)>>].leaf
                /\ pte[<<tb[l], Index(p.lin, l)>>].next = p.phys
  <2>1. Reached(pte, root[m], p)
    BY DEF WalkInv, WalkedInv, Done, p
  <2> QED BY <2>1, Zenon DEF Reached, l
<1>7. SameWalk(va, p.lin, l + 1) /\ Index(va, l) = Index(p.lin, l)
  <2>1. l \in l .. TopLevel /\ \A k \in l + 1 .. TopLevel : k \in l .. TopLevel
    BY <1>3, LevelSizes
  <2> QED BY <1>5, <2>1, Zenon DEF SameWalk
<1>8. Path(pte, root[m], va, l, tb)
  BY <1>6, <1>7, PathMoves
<1>9. \A s \in DOMAIN pte : s[1] # None
  <2>1. PICK at : Tree(at, pte, root, Works, Frames(physical))
    BY DEF WalkInv, TreeInv
  <2>2. \A s \in DOMAIN pte : s[1] \in Nat
    BY <2>1, Zenon DEF Tree
  <2> QED BY <2>2 DEF None
<1>10. Translate(m, va) = pte[<<tb[l], Index(va, l)>>].next + (va % LevelSize(l))
  BY <1>3, <1>6, <1>7, <1>8, <1>9, TranslateLeaf
<1> QED BY <1>6, <1>7, <1>10 DEF p, l

\* Every table that a walk of a map consults has its place in that map.
LEMMA WalkStaysInMap ==
  ASSUME NEW at, Tree(at, pte, root, Works, Frames(physical)), NEW m \in DOMAIN root, NEW va
  PROVE  \A k \in 0 .. TopLevel :
            LET t == WalkTables(m, va)[k]
            IN  t = None \/ /\ t \in DOMAIN at /\ at[t].map = m /\ at[t].level = k
                            /\ SameWalk(at[t].va, va, k + 1)
<1> DEFINE w == WalkTables(m, va)
           In(t, k) == t = None \/ /\ t \in DOMAIN at /\ at[t].map = m /\ at[t].level = k
                                   /\ SameWalk(at[t].va, va, k + 1)
           S == {k \in 0 .. TopLevel : In(w[k], k)}
<1>1. TopLevel \in Nat
  BY LevelSizes
<1>2. w[TopLevel] = root[m] /\ \A k \in 0 .. TopLevel - 1 : w[k] = Below(w[k + 1], va, k + 1)
  BY WalkTablesAre
<1> HIDE DEF w
<1>3. TopLevel \in S
  <2>1. SameWalk(at[root[m]].va, va, TopLevel + 1)
    BY <1>1 DEF SameWalk
  <2> QED BY <1>1, <1>2, <2>1 DEF Tree
<1>4. ASSUME NEW k \in 0 + 1 .. TopLevel, k \in S  PROVE k - 1 \in S
  <2> DEFINE h == k - 1
             t == w[k]
             s == <<t, Index(va, k)>>
  <2>1. h \in 0 .. TopLevel - 1 /\ h \in 0 .. TopLevel /\ h + 1 = k
    BY <1>1
  <2>2. In(t, k)
    BY <1>4
  <2> HIDE DEF h, t
  <2>3. w[h] = Below(t, va, k)
    BY <1>2, <2>1 DEF t
  <2>4. In(Below(t, va, k), h)
    <3>1. CASE s \in DOMAIN pte /\ ~ pte[s].leaf
      <4>1. s[1] = t /\ s[2] = Index(va, k)
        OBVIOUS
      <4>2. Below(t, va, k) = pte[s].next
        BY <3>1 DEF Below
      <4> HIDE DEF s
      <4>3. t \in DOMAIN at /\ pte[s].next \in DOMAIN at /\ TableFits(at[t], s[2], at[pte[s].next])
        <5>1. /\ s[1] \in DOMAIN at /\ pte[s].next \in DOMAIN at
              /\ TableFits(at[s[1]], s[2], at[pte[s].next])
          BY <3>1, Zenon DEF Tree
        <5>2. s[1] = t
          BY <4>1
        <5> QED BY <5>1, <5>2
      <4>4. t \in Nat
        BY <4>3, Zenon DEF Tree
      <4>5. at[t].map = m /\ at[t].level = k /\ SameWalk(at[t].va, va, k + 1)
        BY <2>2, <4>4 DEF None
      <4> DEFINE y == at[pte[s].next]
      <4> HIDE DEF y
      <4>6. /\ y.map = m /\ y.level = k - 1 /\ SameWalk(y.va, at[t].va, k + 1)
            /\ Index(y.va, k) = Index(va, k)
        BY <4>1, <4>3, <4>5, Zenon DEF TableFits, y
      <4>7. \A j \in h + 1 .. TopLevel : j = k \/ j \in k + 1 .. TopLevel
        BY <1>1, <2>1
      <4>8. SameWalk(y.va, va, h + 1)
        BY <4>5, <4>6, <4>7, Zenon DEF SameWalk
      <4>9. y.level = h
        BY <4>6 DEF h
      <4> QED BY <4>2, <4>3, <4>6, <4>8, <4>9 DEF y
    <3>2. CASE ~ (s \in DOMAIN pte /\ ~ pte[s].leaf)
      BY <3>2 DEF Below
    <3> QED BY <3>1, <3>2
  <2>5. h \in S
    <3> HIDE DEF In
    <3> QED BY <2>1, <2>3, <2>4
  <2> QED BY <2>5 DEF h
<1>5. 0 .. TopLevel \subseteq S
  <2>1. TopLevel \in Nat /\ 0 \in 0 .. TopLevel
    BY <1>1
  <2> HIDE DEF S
  <2> QED BY <1>3, <1>4, <2>1, Downward
<1> QED BY <1>5 DEF w

\* Addresses that agree in the levels above k are walked through the same
\* tables down to k.
LEMMA SameTables ==
  ASSUME NEW m, NEW x, NEW y, NEW k \in 0 .. TopLevel, SameWalk(x, y, k + 1)
  PROVE  WalkTables(m, x)[k] = WalkTables(m, y)[k]
<1> DEFINE v == WalkTables(m, x)
           w == WalkTables(m, y)
           S == {j \in k .. TopLevel : v[j] = w[j]}
<1>1. TopLevel \in Nat
  BY LevelSizes
<1>2. /\ v[TopLevel] = root[m] /\ \A j \in 0 .. TopLevel - 1 : v[j] = Below(v[j + 1], x, j + 1)
      /\ w[TopLevel] = root[m] /\ \A j \in 0 .. TopLevel - 1 : w[j] = Below(w[j + 1], y, j + 1)
  BY WalkTablesAre
<1> HIDE DEF v, w
<1>3. TopLevel \in S
  BY <1>1, <1>2
<1>4. ASSUME NEW j \in k + 1 .. TopLevel, j \in S  PROVE j - 1 \in S
  <2>1. Index(x, j) = Index(y, j)
    BY DEF SameWalk
  <2>2. Below(v[j], x, j) = Below(w[j], y, j)
    BY <1>4, <2>1 DEF Below
  <2> DEFINE h == j - 1
  <2>3. h \in 0 .. TopLevel - 1 /\ h \in k .. TopLevel /\ h + 1 = j
    BY <1>1
  <2> HIDE DEF h
  <2>4. v[h] = w[h]
    BY <1>2, <2>2, <2>3
  <2>5. h \in S
    BY <2>3, <2>4
  <2> QED BY <2>5 DEF h
<1>5. k .. TopLevel \subseteq S
  <2> HIDE DEF S
  <2> QED BY <1>1, <1>3, <1>4, Downward
<1>6. k \in k .. TopLevel
  BY <1>1
<1> QED BY <1>5, <1>6 DEF v, w

\* An entry that a walk comes to was written for a page of the map whose own
\* walk comes to it; if it is a leaf, it holds the frame of that page.
LEMMA WalkedEntries ==
  ASSUME IInv, WalkInv, stage = "finished", NEW m \in MapNames(cfg), NEW va, NEW k \in 0 .. TopLevel,
         WalkSlot(m, va, k) \in DOMAIN pte
  PROVE  \E j \in DOMAIN Work(m) :
            LET p == Work(m)[j]
                e == pte[WalkSlot(m, va, k)]
            IN  /\ p.name = e.by /\ SameWalk(p.lin, va, k) /\ WalkSlot(m, p.lin, k) = WalkSlot(m, va, k)
                /\ e.leaf => p.level = k /\ p.phys = e.next
<1>1. PICK at : Tree(at, pte, root, Works, Frames(physical))
  BY DEF WalkInv, TreeInv
<1> DEFINE t == WalkTables(m, va)[k]
           s == WalkSlot(m, va, k)
<1>2. m \in DOMAIN root
  BY RootsExist DEF IInv, EntriesInv
<1>3. s[1] = t /\ s[2] = Index(va, k) /\ s \in DOMAIN pte /\ s = <<t, Index(va, k)>>
  BY DEF WalkSlot
<1>4. t = None \/ (t \in DOMAIN at /\ at[t].map = m /\ at[t].level = k /\ SameWalk(at[t].va, va, k + 1))
  BY <1>1, <1>2, WalkStaysInMap
<1> HIDE DEF t, s
<1>5. s[1] \in DOMAIN at /\ WrittenFor(at[s[1]], s[2], pte[s], Works)
  BY <1>1, <1>3, Zenon DEF Tree
<1>6. t \in Nat
  BY <1>1, <1>3, <1>5, Zenon DEF Tree
<1>7. at[t].map = m /\ at[t].level = k /\ SameWalk(at[t].va, va, k + 1)
  BY <1>4, <1>6 DEF None
<1>8. Works[m] = Work(m)
  BY WorksGood DEF IInv
<1>9. PICK j \in DOMAIN Work(m) :
         /\ Work(m)[j].name = pte[s].by /\ SameWalk(Work(m)[j].lin, at[t].va, k + 1)
         /\ Index(Work(m)[j].lin, k) = Index(va, k)
         /\ pte[s].leaf => Work(m)[j].level = k /\ Work(m)[j].phys = pte[s].next
  BY <1>3, <1>5, <1>7, <1>8, Zenon DEF WrittenFor
<1> DEFINE p == Work(m)[j]
<1>10. SameWalk(p.lin, va, k + 1)
  BY <1>7, <1>9, Zenon DEF SameWalk
<1>11. \A i \in k .. TopLevel : i = k \/ i \in k + 1 .. TopLevel
  BY LevelSizes
<1>12. SameWalk(p.lin, va, k)
  BY <1>9, <1>10, <1>11, Zenon DEF SameWalk
<1>13. WalkTables(m, p.lin)[k] = t
  BY <1>10, SameTables DEF t
<1>14. WalkSlot(m, p.lin, k) = s
  BY <1>3, <1>9, <1>13 DEF WalkSlot
<1> QED BY <1>9, <1>12, <1>14 DEF s

\* A walk has at most one leaf, so what it finds is in it.
LEMMA TranslateHit ==
  ASSUME NEW m, NEW va, \A s \in DOMAIN pte : s[1] # None, Translate(m, va) # None
  PROVE  \E l \in 0 .. TopLevel :
            /\ WalkSlot(m, va, l) \in DOMAIN pte /\ pte[WalkSlot(m, va, l)].leaf
            /\ Translate(m, va) = pte[WalkSlot(m, va, l)].next + (va % LevelSize(l))
<1> DEFINE Hit(l) == WalkSlot(m, va, l) \in DOMAIN pte /\ pte[WalkSlot(m, va, l)].leaf
           hits == {l \in 0 .. TopLevel : Hit(l)}
<1>1. TopLevel \in Nat
  BY LevelSizes
<1>2. ASSUME NEW a \in hits, NEW b \in hits  PROVE ~ (a < b)
  <2>1. SUFFICES ASSUME a < b  PROVE FALSE
    OBVIOUS
  <2>2. a \in 0 .. TopLevel /\ b \in 0 .. TopLevel /\ Hit(a) /\ Hit(b)
    BY <1>2
  <2>3. a \in 0 .. b - 1
    BY <1>1, <2>1, <2>2
  <2>4. WalkTables(m, va)[a] = None
    BY <2>2, <2>3, WalkEnds DEF WalkSlot
  <2> DEFINE s == WalkSlot(m, va, a)
  <2>5. s[1] = None
    BY <2>4 DEF WalkSlot
  <2> HIDE DEF s
  <2>6. s \notin DOMAIN pte
    BY <2>5
  <2> QED BY <2>2, <2>6 DEF s
<1>3. hits # {}
  BY DEF Translate
<1>4. PICK l : l \in hits
  BY <1>3
<1>5. l \in 0 .. TopLevel /\ Hit(l)
  BY <1>4
<1>6. hits = {l}
  <2>1. hits \subseteq 0 .. TopLevel
    OBVIOUS
  <2> HIDE DEF hits
  <2>2. \A a \in hits : a \in Int /\ ~ (a < l) /\ ~ (l < a)
    BY <1>1, <1>2, <1>4, <2>1
  <2>3. \A a \in hits : a = l
    BY <1>1, <1>5, <2>2
  <2> QED BY <1>4, <2>3
<1>7. Min({l}) = l
  BY <1>1, <1>5 DEF Min
<1>8. Translate(m, va) = pte[WalkSlot(m, va, l)].next + (va % LevelSize(l))
  BY <1>3, <1>6, <1>7 DEF Translate
<1> QED BY <1>5, <1>8

\* And what it finds is the frame of a page that has the address.
LEMMA LeavesArePages ==
  ASSUME IInv, WalkInv
  PROVE  OnlyPagesAreMapped
<1> SUFFICES ASSUME stage = "finished", NEW m \in ToSet(TableMaps),
                    NEW va \in PageStarts(<<0, LevelSize(Levels) - 1>>), Translate(m, va) # None
             PROVE  \E p \in ToSet(Work(m)) : /\ VaRange(p)[1] <= va /\ va <= VaRange(p)[2]
                                               /\ Translate(m, va) = InFrameOf(p, va)
  BY DEF OnlyPagesAreMapped
<1>1. m \in MapNames(cfg)
  BY TableMapsExist DEF IInv, ToSet
<1>2. \A s \in DOMAIN pte : s[1] # None
  <2>1. PICK at : Tree(at, pte, root, Works, Frames(physical))
    BY DEF WalkInv, TreeInv
  <2>2. \A s \in DOMAIN pte : s[1] \in Nat
    BY <2>1, Zenon DEF Tree
  <2> QED BY <2>2 DEF None
<1>3. PICK l \in 0 .. TopLevel :
         /\ WalkSlot(m, va, l) \in DOMAIN pte /\ pte[WalkSlot(m, va, l)].leaf
         /\ Translate(m, va) = pte[WalkSlot(m, va, l)].next + (va % LevelSize(l))
  BY <1>2, TranslateHit
<1>4. PICK j \in DOMAIN Work(m) :
         /\ SameWalk(Work(m)[j].lin, va, l)
         /\ Work(m)[j].level = l /\ Work(m)[j].phys = pte[WalkSlot(m, va, l)].next
  BY <1>1, <1>3, WalkedEntries
<1> DEFINE p == Work(m)[j]
<1>5. p \in ToSet(Work(m)) /\ GoodPage(p)
  <2>1. GoodPage(p)
    BY <1>1, WorksGood, GoodPlaces DEF IInv
  <2>2. p \in ToSet(Work(m))
    BY DEF ToSet
  <2> QED BY <2>1, <2>2
<1>6. p.lin \in Int
  BY <1>5 DEF GoodPage
<1> HIDE DEF p
<1>7. va \in Int /\ 0 <= va /\ va < LevelSize(Levels)
  <2> DEFINE n == LevelSize(Levels)
  <2>1. n \in Nat
    BY LevelSizes, PageTablesAssumption
  <2>2. va \in 0 .. n - 1
    BY DEF PageStarts
  <2> HIDE DEF n
  <2>3. va \in Int /\ 0 <= va /\ va < n
    BY <2>1, <2>2
  <2> QED BY <2>3 DEF n
<1>8. l \in 0 .. Levels /\ LevelSize(l) \in Nat \ {0} /\ LevelSize(Levels) \in Nat \ {0}
  BY LevelSizes, PageTablesAssumption
<1>9. BlockStart(p.lin, l) = BlockStart(va, l)
  BY <1>4, <1>6, <1>7, <1>8, SameBlock DEF p
<1>10. BlockStart(va, l) <= va /\ va <= BlockStart(va, l) + LevelSize(l) - 1
  <2> DEFINE n == LevelSize(Levels)
             d == LevelSize(l)
  <2>1. BlockStart(va, l) = (va % n) - (va % d)
    BY DEF BlockStart
  <2> HIDE DEF n, d
  <2>2. n \in Nat \ {0} /\ d \in Nat \ {0} /\ 0 <= va /\ va < n
    BY <1>7, <1>8 DEF n, d
  <2>3. va % n = va
    BY <1>7, <2>2
  <2>4. va % d \in 0 .. d - 1
    BY <1>7, <2>2
  <2>5. BlockStart(va, l) <= va /\ va <= BlockStart(va, l) + d - 1
    BY <1>7, <2>1, <2>2, <2>3, <2>4
  <2> QED BY <2>5 DEF d
<1>11. VaRange(p) = <<BlockStart(va, l), BlockStart(va, l) + LevelSize(l) - 1>>
  BY <1>4, <1>9 DEF VaRange, p
<1>12. Translate(m, va) = InFrameOf(p, va)
  BY <1>3, <1>4 DEF InFrameOf, p
<1> QED BY <1>5, <1>10, <1>11, <1>12

\* Whatever the tests, the sizes and the draws are: when create_pagetables is
\* done, every address of a page that shares none with another page of its map
\* is translated to the page's frame, whatever pages were entered before or after;
\* and nothing is translated to anything but the frame of a page that has it.
THEOREM TranslationIsCorrect == Spec => []TranslationCorrect
<1>1. IInv /\ WalkInv => TranslationCorrect
  BY LeavesTranslate, LeavesArePages DEF TranslationCorrect
<1> QED BY <1>1, InductiveInvariant, WalkInvariant, PTL

\* An entry at the level that a mapping asked to have for itself carries the
\* attributes of that mapping, or of another page that is reached through it:
\* the second half of NonLeafEntryIsPrivate.
THEOREM NonLeafEntriesAreOwn == Spec => []EntryIsOwn
<1>1. ASSUME IInv, WalkInv  PROVE EntryIsOwn
  <2> SUFFICES ASSUME stage = "finished", cfg.paging, NEW m \in ToSet(StageOneMaps), NEW i \in DOMAIN Work(m),
                      ComesToOwnSlot(m, Work(m)[i]), OwnSlot(m, Work(m)[i]) \in DOMAIN pte
               PROVE  \/ pte[OwnSlot(m, Work(m)[i])].by = Work(m)[i].name
                      \/ \E j \in DOMAIN Work(m) \ {i} :
                            /\ Through(m, Work(m)[i], j)
                            /\ pte[OwnSlot(m, Work(m)[i])].by = Work(m)[j].name
    BY DEF EntryIsOwn
  <2> DEFINE p == Work(m)[i]
             k == OwnLevel(p)
  <2>1. m \in MapNames(cfg)
    BY <1>1, MapsApart DEF IInv
  <2>2. GoodPage(p)
    BY <1>1, <2>1, WorksGood, GoodPlaces DEF IInv
  <2>3. k \in 0 .. TopLevel
    <3>1. p.level \in 0 .. TopLevel /\ k <= TopLevel
      BY <2>2 DEF GoodPage, ComesToOwnSlot
    <3>2. k = TopLevel \/ k = p.level + 1
      BY DEF OwnLevel
    <3> HIDE DEF k, p
    <3> QED BY <3>1, <3>2, LevelSizes
  <2>4. OwnSlot(m, p) = WalkSlot(m, p.lin, k)
    BY DEF OwnSlot
  <2> HIDE DEF p, k
  <2>5. WalkSlot(m, p.lin, k) \in DOMAIN pte
    BY <2>4 DEF p
  <2>6. PICK j \in DOMAIN Work(m) :
           /\ Work(m)[j].name = pte[WalkSlot(m, p.lin, k)].by
           /\ WalkSlot(m, Work(m)[j].lin, k) = WalkSlot(m, p.lin, k)
    BY <1>1, <2>1, <2>3, <2>5, WalkedEntries
  <2>7. Through(m, p, j)
    BY <2>4, <2>6 DEF Through, k
  <2>8. j = i \/ j \in DOMAIN Work(m) \ {i}
    OBVIOUS
  <2> QED BY <2>4, <2>6, <2>7, <2>8 DEF p
<1> QED BY <1>1, InductiveInvariant, WalkInvariant, PTL

\* Two tables in frames of their own share no memory.
LEMMA FramesApart ==
  ASSUME SpaceInv(physical, {"dram"}), NEW t \in Frames(physical), NEW u \in Frames(physical), t # u
  PROVE  ~ Overlaps(PageAt(t), PageAt(u))
<1> DEFINE G == physical.grants
<1>1. PICK k \in DOMAIN G : PageBytes <= Size(G[k]) /\ t = G[k][1]
  BY DEF Frames
<1>2. PICK j \in DOMAIN G : PageBytes <= Size(G[j]) /\ u = G[j][1]
  BY DEF Frames
<1>3. G \in Seq(Bounds)
  BY DEF SpaceInv, SpaceShape
<1>4. k \in Int /\ j \in Int /\ G[k] \in Bounds /\ G[j] \in Bounds
  BY <1>3
<1>5. ~ Overlaps(G[k], G[j]) /\ ~ Overlaps(G[j], G[k])
  <2>1. k < j \/ j < k
    BY <1>1, <1>2, <1>4
  <2>2. \A x, y \in DOMAIN G : x < y => ~ Overlaps(G[x], G[y])
    BY DEF SpaceInv, Disjoint
  <2>3. \A r, s : Overlaps(r, s) => Overlaps(s, r)
    BY DEF Overlaps
  <2> HIDE DEF G
  <2> QED BY <2>1, <2>2, <2>3
<1>6. \A a, b, c, d, n \in Int :
         /\ n <= b - a + 1 /\ n <= d - c + 1 /\ a <= c + n - 1 /\ c <= a + n - 1 => a <= d /\ c <= b
  OBVIOUS
<1>7. /\ G[k][1] \in Int /\ G[k][2] \in Int /\ G[j][1] \in Int /\ G[j][2] \in Int
      /\ PageBytes \in Int
  BY <1>4, LevelSizes DEF Bounds
<1>8. /\ PageBytes <= G[k][2] - G[k][1] + 1 /\ PageBytes <= G[j][2] - G[j][1] + 1
  BY <1>1, <1>2 DEF Size
<1> HIDE DEF G
<1>9. Overlaps(PageAt(t), PageAt(u)) => Overlaps(G[k], G[j])
  <2>1. Overlaps(PageAt(t), PageAt(u)) =>
           G[k][1] <= G[j][1] + PageBytes - 1 /\ G[j][1] <= G[k][1] + PageBytes - 1
    BY <1>1, <1>2 DEF Overlaps, PageAt
  <2>2. G[k][1] <= G[j][1] + PageBytes - 1 /\ G[j][1] <= G[k][1] + PageBytes - 1
           => G[k][1] <= G[j][2] /\ G[j][1] <= G[k][2]
    BY <1>6, <1>7, <1>8
  <2> QED BY <2>1, <2>2 DEF Overlaps
<1> QED BY <1>5, <1>9

\* The tables of a map are in frames, and have their place in it.
LEMMA TablesInMap ==
  ASSUME NEW at, Tree(at, pte, root, Works, Frames(physical)), NEW m \in DOMAIN root, NEW t \in TablesOf(m)
  PROVE  t \in DOMAIN at /\ at[t].map = m /\ t \in Frames(physical)
<1>1. root[m] \in DOMAIN at /\ at[root[m]].map = m
  BY Zenon DEF Tree
<1>2. ASSUME t # root[m]  PROVE t \in DOMAIN at /\ at[t].map = m
  <2>1. PICK p \in ToSet(Work(m)) : t \in Range(WalkTables(m, p.lin)) /\ t # None
    BY <1>2 DEF TablesOf
  <2> DEFINE w == WalkTables(m, p.lin)
  <2>2. DOMAIN w = 0 .. TopLevel
    BY WalkTablesAre
  <2>3. PICK k \in 0 .. TopLevel : t = w[k]
    <3> HIDE DEF w
    <3> QED BY <2>1, <2>2 DEF Range, w
  <2>4. w[k] = None \/ (w[k] \in DOMAIN at /\ at[w[k]].map = m)
    BY WalkStaysInMap
  <2> QED BY <2>1, <2>3, <2>4
<1>3. t \in DOMAIN at /\ at[t].map = m
  BY <1>1, <1>2
<1> QED BY <1>3, Zenon DEF Tree

\* So no table of a map shares memory with one of another map.
LEMMA MapsShareNoTable ==
  ASSUME IInv, WalkInv
  PROVE  TablesApart
<1> SUFFICES ASSUME stage = "finished", NEW m \in ToSet(TableMaps), NEW n \in ToSet(TableMaps) \ {m},
                    NEW t \in TablesOf(m), NEW u \in TablesOf(n)
             PROVE  ~ Overlaps(PageAt(t), PageAt(u))
  BY DEF TablesApart
<1>1. m \in DOMAIN root /\ n \in DOMAIN root
  <2>1. \A x \in ToSet(TableMaps) : x \in MapNames(cfg)
    BY TableMapsExist DEF IInv, ToSet
  <2> QED BY <2>1, RootsExist DEF IInv, EntriesInv
<1>2. PICK at : Tree(at, pte, root, Works, Frames(physical))
  BY DEF WalkInv, TreeInv
<1>3. /\ t \in DOMAIN at /\ at[t].map = m /\ t \in Frames(physical)
      /\ u \in DOMAIN at /\ at[u].map = n /\ u \in Frames(physical)
  BY <1>1, <1>2, TablesInMap
<1>4. t # u
  BY <1>3
<1> QED BY <1>3, <1>4, FramesApart DEF IInv, SpacesInv

\* And the tables of two maps lie in different memory.
THEOREM TablesAreApart == Spec => []TablesApart
<1>1. IInv /\ WalkInv => TablesApart
  BY MapsShareNoTable
<1> QED BY <1>1, InductiveInvariant, WalkInvariant, PTL

-----------------------------------------------------------------------------
(***************************************************************************)
(* Sections: the calls for the pages of one follow each other, and each    *)
(* passes on what the one before it has placed.                            *)
(***************************************************************************)
\* A call that puts its page behind what was placed before: in both spaces, or at
\* one address in both.
Chained(c) == /\ ~ c.identity
              /\ \/ c.place = "after"
                 \/ c.place \in {"after_pa", "after_lin"} /\ c.skip

Follows(b, c) ==
    /\ b.do = "section" /\ b.section = c.section /\ b.page = c.page - 1
    /\ c.section # "selfcheck_data" => Chained(c) /\ (c.place # "after" => b.skip /\ b.place # "after")

\* The calls for sections, all of S, come in the order of their pages.
InTurn(calls, S) ==
    \A k \in DOMAIN calls :
        calls[k].do = "section" =>
            /\ calls[k].section \in S /\ calls[k].page \in 1 .. SectionPages[calls[k].section]
            /\ \A j \in 1 .. k - 1 :
                  calls[j].do = "section" /\ calls[j].section = calls[k].section
                     => calls[j].page < calls[k].page
            /\ calls[k].page > 1 => k > 1 /\ Follows(calls[k - 1], calls[k])

\* Calls for different sections, one after the other.
LEMMA InTurnConcat ==
  ASSUME NEW a, NEW b, NEW S, NEW T, IsSeq(a), IsSeq(b), InTurn(a, S), InTurn(b, T), S \cap T = {}
  PROVE  IsSeq(a \o b) /\ InTurn(a \o b, S \cup T)
<1>1. PICK A : a \in Seq(A)
  BY DEF IsSeq
<1>2. PICK B : b \in Seq(B)
  BY DEF IsSeq
<1> DEFINE c == a \o b
           n == Len(a)
<1>3. /\ c \in Seq(A \cup B) /\ Len(c) = n + Len(b) /\ n \in Nat /\ Len(b) \in Nat
      /\ \A k \in 1 .. n : c[k] = a[k]
      /\ \A k \in n + 1 .. n + Len(b) : c[k] = b[k - n]
      /\ DOMAIN a = 1 .. n /\ DOMAIN b = 1 .. Len(b) /\ DOMAIN c = 1 .. Len(c)
  BY <1>1, <1>2
<1> HIDE DEF c, n
<1>4. ASSUME NEW k \in DOMAIN c, c[k].do = "section"
      PROVE  /\ c[k].section \in S \cup T /\ c[k].page \in 1 .. SectionPages[c[k].section]
             /\ \A j \in 1 .. k - 1 :
                   c[j].do = "section" /\ c[j].section = c[k].section => c[j].page < c[k].page
             /\ c[k].page > 1 => k > 1 /\ Follows(c[k - 1], c[k])
  <2>1. CASE k \in 1 .. n
    <3>1. \A j \in 1 .. k - 1 : j \in 1 .. n /\ c[j] = a[j]
      BY <1>3, <2>1
    <3>2. k > 1 => k - 1 \in 1 .. k - 1
      BY <1>3, <2>1
    <3> QED BY <1>3, <1>4, <2>1, <3>1, <3>2 DEF InTurn
  <2>2. CASE k \in n + 1 .. n + Len(b)
    <3> DEFINE m == k - n
    <3>1. m \in DOMAIN b /\ m \in Nat \ {0} /\ c[k] = b[m] /\ b[m].do = "section"
      BY <1>3, <1>4, <2>2
    <3>2. /\ c[k].section \in T /\ c[k].page \in 1 .. SectionPages[c[k].section]
          /\ \A j \in 1 .. m - 1 :
                b[j].do = "section" /\ b[j].section = b[m].section => b[j].page < b[m].page
          /\ b[m].page > 1 => m > 1 /\ Follows(b[m - 1], b[m])
      <4> HIDE DEF m
      <4> QED BY <3>1 DEF InTurn
    <3>3. ASSUME NEW j \in 1 .. k - 1, c[j].do = "section", c[j].section = c[k].section
          PROVE  c[j].page < c[k].page
      <4>1. CASE j \in 1 .. n
        <5>1. c[j].section \in S
          BY <1>3, <3>3, <4>1 DEF InTurn
        <5> QED BY <3>2, <3>3, <5>1
      <4>2. CASE j \notin 1 .. n
        <5>1. j \in n + 1 .. n + Len(b) /\ j - n \in 1 .. m - 1 /\ c[j] = b[j - n]
          BY <1>3, <2>2, <3>3, <4>2
        <5> QED BY <3>1, <3>2, <3>3, <5>1
      <4> QED BY <4>1, <4>2
    <3>4. m > 1 => k > 1 /\ c[k - 1] = b[m - 1]
      BY <1>3, <2>2
    <3> QED BY <3>1, <3>2, <3>3, <3>4
  <2> QED BY <1>3, <2>1, <2>2
<1>5. IsSeq(c)
  BY <1>3 DEF IsSeq
<1> QED BY <1>4, <1>5 DEF InTurn, c

\* The calls for one section.
LEMMA SectionCallsInTurn ==
  ASSUME NEW s \in Sections, NEW bytes, NEW place, NEW rest, NEW identity, NEW skip,
         \/ SectionPages[s] = 1 \/ s = "selfcheck_data" \/ rest = "after"
         \/ rest \in {"after_pa", "after_lin"} /\ skip /\ place # "after"
  PROVE  /\ IsSeq(SectionCalls(s, bytes, place, rest, identity, skip))
         /\ InTurn(SectionCalls(s, bytes, place, rest, identity, skip), {s})
<1> DEFINE c == SectionCalls(s, bytes, place, rest, identity, skip)
           n == SectionPages[s]
           S == {c[i] : i \in 1 .. n}
<1>1. n \in Nat \ {0}
  BY GeneratorAssumption
<1>2. DOMAIN c = 1 .. n /\ c \in Seq(S)
  <2>1. DOMAIN c = 1 .. n /\ c = [i \in 1 .. n |-> c[i]]
    BY DEF SectionCalls
  <2> HIDE DEF c
  <2> QED BY <1>1, <2>1
<1>3. \A i \in 1 .. n : c[i] = IF i = 1 THEN SectionCall(s, 1, bytes, place, identity, skip)
                                       ELSE SectionCall(s, i, PageBytes, rest, FALSE, skip)
  BY DEF SectionCalls
<1> HIDE DEF c, n, S
<1>4. \A i \in 1 .. n : /\ c[i].do = "section" /\ c[i].section = s /\ c[i].page = i
                        /\ c[i].skip = skip
                        /\ c[i].place = IF i = 1 THEN place ELSE rest
                        /\ i # 1 => c[i].identity = FALSE
  <2> SUFFICES ASSUME NEW i \in 1 .. n
               PROVE  /\ c[i].do = "section" /\ c[i].section = s /\ c[i].page = i
                      /\ c[i].skip = skip
                      /\ c[i].place = IF i = 1 THEN place ELSE rest
                      /\ i # 1 => c[i].identity = FALSE
    OBVIOUS
  <2>1. CASE i = 1
    <3>1. c[i] = SectionCall(s, 1, bytes, place, identity, skip)
      BY <1>3, <2>1
    <3> QED BY <2>1, <3>1 DEF SectionCall
  <2>2. CASE i # 1
    <3>1. c[i] = SectionCall(s, i, PageBytes, rest, FALSE, skip)
      BY <1>3, <2>2
    <3> QED BY <2>2, <3>1 DEF SectionCall
  <2> QED BY <2>1, <2>2
<1>5. ASSUME NEW k \in 1 .. n, k > 1  PROVE Follows(c[k - 1], c[k])
  <2>1. k - 1 \in 1 .. n /\ n # 1
    BY <1>1, <1>5
  <2>2. /\ c[k - 1].do = "section" /\ c[k - 1].section = c[k].section /\ c[k - 1].page = c[k].page - 1
        /\ c[k].identity = FALSE /\ c[k].place = rest /\ c[k].skip = skip /\ c[k].section = s
        /\ c[k - 1].skip = skip /\ c[k - 1].place \in {place, rest}
    BY <1>1, <1>4, <1>5, <2>1
  <2> QED BY <2>1, <2>2 DEF Follows, Chained, n
<1>6. InTurn(c, {s})
  <2>1. \A k \in 1 .. n : \A j \in 1 .. k - 1 : j \in 1 .. n /\ j < k
    BY <1>1
  <2>2. ASSUME NEW k \in 1 .. n
        PROVE  /\ c[k].section \in {s} /\ c[k].page \in 1 .. SectionPages[c[k].section]
               /\ \A j \in 1 .. k - 1 :
                     c[j].do = "section" /\ c[j].section = c[k].section => c[j].page < c[k].page
               /\ c[k].page > 1 => k > 1 /\ Follows(c[k - 1], c[k])
    <3>1. c[k].section = s /\ c[k].page = k /\ SectionPages[s] = n
      BY <1>4 DEF n
    <3> QED BY <1>1, <1>4, <1>5, <2>1, <3>1
  <2> QED BY <1>2, <2>2 DEF InTurn
<1> QED BY <1>2, <1>6 DEF IsSeq, c

\* The sections that a call of handle_sections places.
PlacedBy(s) == IF s = "runtime" THEN {"runtime", "runtime_s"}
               ELSE IF s = "code" THEN CodeSections ELSE {s}

\* The calls for a section and its followers are in turn.
LEMMA HandleSectionInTurn ==
  ASSUME NEW t, NEW s \in Sections \ Followers
  PROVE  IsSeq(HandleSection(t, s)) /\ InTurn(HandleSection(t, s), PlacedBy(s))
<1>1. {"runtime", "code"} \cup Followers \subseteq Sections
  BY GeneratorAssumption
<1>2. CASE s = "runtime"
  <2>1. HandleSection(t, s) = RuntimeCalls(t) /\ PlacedBy(s) = {"runtime"} \cup {"runtime_s"}
    BY <1>2 DEF HandleSection, PlacedBy
  <2> DEFINE covered == {"runtime", "runtime_s"} \cup IF t.random_code THEN {} ELSE CodeSections
             a == SectionCalls("runtime", BytesOf(covered), "reset", "after_pa", FALSE, TRUE)
             b == SectionCalls("runtime_s", BytesOf({"runtime_s"}), "after", "after", FALSE, FALSE)
  <2>2. RuntimeCalls(t) = a \o b
    BY DEF RuntimeCalls
  <2>3. "runtime" \in Sections /\ "runtime_s" \in Sections
    BY <1>1 DEF Followers
  <2>4. IsSeq(a) /\ InTurn(a, {"runtime"})
    BY <2>3, SectionCallsInTurn
  <2>5. IsSeq(b) /\ InTurn(b, {"runtime_s"})
    BY <2>3, SectionCallsInTurn
  <2> HIDE DEF a, b
  <2>6. IsSeq(a \o b) /\ InTurn(a \o b, {"runtime"} \cup {"runtime_s"})
    BY <2>4, <2>5, InTurnConcat
  <2> QED BY <2>1, <2>2, <2>6
<1>3. CASE s = "code"
  <2>1. HandleSection(t, s) = CodeCalls(t) /\ PlacedBy(s) = ({"code"} \cup {"code_super"}) \cup {"code_machine"}
    BY <1>3 DEF HandleSection, PlacedBy, CodeSections
  <2> DEFINE place == IF t.random_code THEN "random" ELSE "runtime_end"
             rest  == IF t.machine THEN "after_lin" ELSE "after"
             a == SectionCalls("code", BytesOf(CodeSections), place, rest, FALSE, t.machine)
             b == SectionCalls("code_super", PageBytes, "after", "after", FALSE, FALSE)
             c == SectionCalls("code_machine", PageBytes, "after", "after", FALSE, TRUE)
  <2>2. CodeCalls(t) = (a \o b) \o c
    BY Zenon DEF CodeCalls
  <2>3. "code" \in Sections /\ "code_super" \in Sections /\ "code_machine" \in Sections
    BY <1>1 DEF Followers
  <2>4. IsSeq(a) /\ InTurn(a, {"code"})
    <3>1. place # "after" /\ (rest = "after" \/ (rest \in {"after_pa", "after_lin"} /\ t.machine))
      OBVIOUS
    <3> HIDE DEF place, rest
    <3> QED BY <2>3, <3>1, SectionCallsInTurn
  <2>5. IsSeq(b) /\ InTurn(b, {"code_super"})
    BY <2>3, SectionCallsInTurn
  <2>6. IsSeq(c) /\ InTurn(c, {"code_machine"})
    BY <2>3, SectionCallsInTurn
  <2> HIDE DEF a, b, c
  <2>7. IsSeq(a \o b) /\ InTurn(a \o b, {"code"} \cup {"code_super"})
    BY <2>4, <2>5, InTurnConcat
  <2> DEFINE d == a \o b
             S == {"code"} \cup {"code_super"}
  <2>8. IsSeq(d) /\ InTurn(d, S) /\ S \cap {"code_machine"} = {}
    BY <2>7
  <2> HIDE DEF d
  <2>9. IsSeq(d \o c) /\ InTurn(d \o c, S \cup {"code_machine"})
    BY <2>6, <2>8, InTurnConcat
  <2> QED BY <2>1, <2>2, <2>9 DEF d
<1>4. CASE s \notin {"runtime", "code"}
  <2> DEFINE bytes == IF s = "io_htif" THEN 1 ELSE BytesOf({s})
             place == IF s = "io_htif" THEN "io" ELSE "random"
             rest  == CASE s = "io_htif" -> "io"
                        [] s \in {"selfcheck_data", "test_execution_data"} -> "after_lin"
                        [] OTHER -> "after"
             c == SectionCalls(s, bytes, place, rest, s = "io_htif", s = "test_execution_data")
  <2>1. PlacedBy(s) = {s} /\ HandleSection(t, s) = c
    BY <1>4 DEF HandleSection, PlacedBy
  <2>2. \/ SectionPages[s] = 1 \/ s = "selfcheck_data" \/ rest = "after"
        \/ rest \in {"after_pa", "after_lin"} /\ s = "test_execution_data" /\ place # "after"
    BY GeneratorAssumption
  <2>3. IsSeq(c) /\ InTurn(c, {s})
    <3> HIDE DEF bytes, place, rest
    <3> DEFINE identity == s = "io_htif"
               skip == s = "test_execution_data"
    <3>1. \/ SectionPages[s] = 1 \/ s = "selfcheck_data" \/ rest = "after"
          \/ rest \in {"after_pa", "after_lin"} /\ skip /\ place # "after"
      BY <2>2
    <3> HIDE DEF identity, skip
    <3>2. /\ IsSeq(SectionCalls(s, bytes, place, rest, identity, skip))
          /\ InTurn(SectionCalls(s, bytes, place, rest, identity, skip), {s})
      BY <3>1, SectionCallsInTurn
    <3> QED BY <3>2 DEF identity, skip
  <2> HIDE DEF c
  <2> QED BY <2>1, <2>3
<1> QED BY <1>2, <1>3, <1>4

\* What holds of 1, and of a number after the one before, holds up to n.
LEMMA Upward ==
  ASSUME NEW n \in Nat, NEW S, 1 \in S, \A k \in 1 .. n - 1 : k \in S => k + 1 \in S
  PROVE  1 .. n \subseteq S
<1> DEFINE T == {k \in 1 .. n : k \notin S}
<1>1. SUFFICES ASSUME T # {}  PROVE FALSE
  OBVIOUS
<1>2. PICK k \in T : \A j \in T : k <= j
  <2>1. T \in SUBSET Nat
    OBVIOUS
  <2> HIDE DEF T
  <2> QED BY <1>1, <2>1, LeastNatural
<1>3. k \in 1 .. n /\ k \notin S /\ k # 1
  OBVIOUS
<1>4. k - 1 \in 1 .. n - 1 /\ (k - 1) + 1 = k
  BY <1>3
<1>5. k - 1 \in S
  <2>1. k - 1 \notin T
    BY <1>2, <1>4
  <2> QED BY <1>4, <2>1
<1> QED BY <1>3, <1>4, <1>5

\* The first lists of ss put into one, for every number of them.
Joins(f, ss, n) == f[1] = ss[1] /\ \A i \in 2 .. n : f[i] = f[i - 1] \o ss[i]

\* FlattenSeq joins all of them.
LEMMA FlattenIs ==
  ASSUME NEW ss, NEW n \in Nat \ {0}, Len(ss) = n
  PROVE  \E f : Joins(f, ss, n) /\ FlattenSeq(ss) = f[n]
<1> DEFINE Piece(f, k) == Joins(f, ss, k)
           S == {k \in 1 .. n : \E f : Piece(f, k)}
<1>1. 1 \in S
  <2> DEFINE f == [i \in {1} |-> ss[1]]
  <2>1. f[1] = ss[1] /\ 2 .. 1 = {}
    OBVIOUS
  <2> HIDE DEF f
  <2>2. Joins(f, ss, 1)
    BY <2>1 DEF Joins
  <2> QED BY <2>2
<1>2. ASSUME NEW k \in 1 .. n - 1, k \in S  PROVE k + 1 \in S
  <2>1. PICK f : Piece(f, k)
    BY <1>2
  <2> DEFINE y == f[k] \o ss[k + 1]
             g == [i \in 1 .. k + 1 |-> IF i = k + 1 THEN y ELSE f[i]]
  <2>2. \A i \in 1 .. k : g[i] = f[i]
    OBVIOUS
  <2>3. g[k + 1] = g[k] \o ss[k + 1]
    <3>1. k + 1 \in 1 .. k + 1 /\ k \in 1 .. k
      OBVIOUS
    <3>2. g[k + 1] = y
      <4> HIDE DEF y
      <4> QED BY <3>1
    <3>3. g[k] = f[k]
      BY <2>2, <3>1
    <3> HIDE DEF g
    <3> QED BY <3>2, <3>3, Zenon
  <2>4. ASSUME NEW i \in 2 .. k + 1  PROVE g[i] = g[i - 1] \o ss[i]
    <3>1. i - 1 \in 1 .. k
      OBVIOUS
    <3>2. CASE i = k + 1
      <4>1. i - 1 = k
        BY <3>2
      <4> HIDE DEF g
      <4> QED BY <2>3, <3>2, <4>1
    <3>3. CASE i # k + 1
      <4>1. i \in 2 .. k /\ i \in 1 .. k
        BY <3>3
      <4> HIDE DEF g
      <4> QED BY <2>1, <2>2, <3>1, <4>1 DEF Joins
    <3> QED BY <3>2, <3>3
  <2>5. Piece(g, k + 1)
    <3>1. g[1] = ss[1]
      BY <2>1, <2>2 DEF Joins
    <3> HIDE DEF g
    <3> QED BY <2>4, <3>1 DEF Joins
  <2> HIDE DEF Piece
  <2> QED BY <2>5
<1>3. PICK f : Piece(f, n)
  <2>1. n \in S
    <3> HIDE DEF S
    <3>1. 1 .. n \subseteq S
      BY <1>1, <1>2, Upward
    <3> QED BY <3>1
  <2> QED BY <2>1
<1> DEFINE body(h, i) == IF i = 1 THEN ss[i] ELSE h[i - 1] \o ss[i]
           w == [i \in 1 .. n |-> f[i]]
<1>4. w = [i \in 1 .. n |-> body(w, i)]
  <2>1. ASSUME NEW i \in 1 .. n  PROVE w[i] = body(w, i)
    <3>1. CASE i = 1
      BY <1>3, <3>1 DEF Joins
    <3>2. CASE i # 1
      <4>1. i \in 2 .. n /\ i - 1 \in 1 .. n
        BY <3>2
      <4>2. w[i] = f[i] /\ w[i - 1] = f[i - 1]
        BY <4>1
      <4> HIDE DEF w
      <4> QED BY <1>3, <3>2, <4>1, <4>2 DEF Joins
    <3> QED BY <3>1, <3>2
  <2> HIDE DEF body
  <2> QED BY <2>1
<1> DEFINE flatten == CHOOSE t : t = [i \in 1 .. n |-> body(t, i)]
<1>5. flatten = [i \in 1 .. n |-> body(flatten, i)]
  <2> HIDE DEF body, w
  <2> QED BY <1>4
<1>6. FlattenSeq(ss) = flatten[n]
  BY DEF FlattenSeq
<1> HIDE DEF flatten
<1>7. \A i \in 1 .. n : flatten[i] = body(flatten, i)
  <2> HIDE DEF body
  <2> QED BY <1>5
<1>8. flatten[1] = ss[1]
  BY <1>7
<1>9. ASSUME NEW i \in 2 .. n  PROVE flatten[i] = flatten[i - 1] \o ss[i]
  <2>1. i \in 1 .. n /\ i # 1
    OBVIOUS
  <2> QED BY <1>7, <2>1
<1> QED BY <1>6, <1>8, <1>9 DEF Joins

\* handle_sections is called for one section after the other.
LEMMA SectionPartInTurn ==
  ASSUME NEW t \in Tests
  PROVE  IsSeq(SectionPart(t)) /\ InTurn(SectionPart(t), Sections)
<1> DEFINE n == Len(t.sections)
           ss == [i \in DOMAIN t.sections |-> HandleSection(t, t.sections[i])]
           Upto(k) == UNION {PlacedBy(t.sections[i]) : i \in 1 .. k}
<1>1. /\ n \in Nat /\ DOMAIN t.sections = 1 .. n
      /\ \A i \in 1 .. n : t.sections[i] \in Sections \ Followers
      /\ \A i, j \in 1 .. n : t.sections[i] = t.sections[j] => i = j
  <2>1. PartsTyped(t)
    BY GeneratorAssumption
  <2>2. t.sections \in Seq(Sections \ Followers)
    BY <2>1 DEF PartsTyped
  <2>3. \A i, j \in DOMAIN t.sections : t.sections[i] = t.sections[j] => i = j
    BY <2>1 DEF PartsTyped
  <2> QED BY <2>2, <2>3
<1> DEFINE Q == {ss[i] : i \in 1 .. n}
<1>2. ss \in Seq(Q) /\ Len(ss) = n /\ \A i \in 1 .. n : ss[i] = HandleSection(t, t.sections[i])
  <2>1. DOMAIN ss = 1 .. n /\ ss = [i \in 1 .. n |-> ss[i]]
    BY <1>1
  <2>2. \A i \in 1 .. n : ss[i] = HandleSection(t, t.sections[i])
    BY <1>1
  <2>3. \A i \in 1 .. n : ss[i] \in Q
    OBVIOUS
  <2> HIDE DEF ss, Q, n
  <2>4. ss \in Seq(Q) /\ Len(ss) = n
    BY <1>1, <2>1, <2>3
  <2> QED BY <2>2, <2>4
<1>3. SectionPart(t) = FlattenSeq(ss)
  BY DEF SectionPart
<1> HIDE DEF ss, n, Q
<1>4. CASE n = 0
  <2>1. ss = << >> /\ Len(ss) = 0
    BY <1>2, <1>4, EmptySeq
  <2>2. SectionPart(t) = << >>
    BY <1>3, <2>1 DEF FlattenSeq
  <2>3. InTurn(<< >>, Sections)
    BY DEF InTurn
  <2> QED BY <2>2, <2>3, NamesGood
<1>5. CASE n # 0
  <2>1. PICK f : Joins(f, ss, n) /\ FlattenSeq(ss) = f[n]
    BY <1>1, <1>2, <1>5, FlattenIs
  <2> DEFINE S == {k \in 1 .. n : IsSeq(f[k]) /\ InTurn(f[k], Upto(k))}
  <2>2. \A i \in 1 .. n : IsSeq(ss[i]) /\ InTurn(ss[i], PlacedBy(t.sections[i]))
    BY <1>1, <1>2, HandleSectionInTurn
  <2>3. 1 \in S
    <3>1. Upto(1) = PlacedBy(t.sections[1]) /\ 1 \in 1 .. n
      BY <1>1, <1>5
    <3> HIDE DEF Upto
    <3> QED BY <2>1, <2>2, <3>1 DEF Joins
  <2>4. ASSUME NEW k \in 1 .. n - 1, k \in S  PROVE k + 1 \in S
    <3>1. k + 1 \in 1 .. n /\ k + 1 \in 2 .. n /\ (k + 1) - 1 = k /\ k \in 1 .. n
      BY <1>1
    <3>2. f[k + 1] = f[k] \o ss[k + 1]
      BY <2>1, <3>1 DEF Joins
    <3>3. Upto(k) \cap PlacedBy(t.sections[k + 1]) = {}
      <4>1. ASSUME NEW i \in 1 .. k
            PROVE  PlacedBy(t.sections[i]) \cap PlacedBy(t.sections[k + 1]) = {}
        <5>1. i \in 1 .. n /\ i # k + 1
          BY <1>1, <3>1
        <5>2. t.sections[i] # t.sections[k + 1]
          BY <1>1, <3>1, <5>1
        <5>3. t.sections[i] \notin Followers /\ t.sections[k + 1] \notin Followers
          BY <1>1, <3>1, <5>1
        <5> QED BY <5>2, <5>3 DEF PlacedBy, CodeSections, Followers
      <4> QED BY <4>1
    <3>4. Upto(k) \cup PlacedBy(t.sections[k + 1]) = Upto(k + 1)
      <4>1. 1 .. k + 1 = (1 .. k) \cup {k + 1}
        BY <3>1
      <4> QED BY <4>1
    <3> DEFINE a == f[k]
               b == ss[k + 1]
               A == Upto(k)
               B == PlacedBy(t.sections[k + 1])
    <3>5. IsSeq(a) /\ IsSeq(b) /\ InTurn(a, A) /\ InTurn(b, B) /\ A \cap B = {}
      <4> HIDE DEF Upto
      <4> QED BY <2>2, <2>4, <3>1, <3>3
    <3>6. IsSeq(a \o b) /\ InTurn(a \o b, A \cup B)
      <4> HIDE DEF a, b, A, B
      <4> QED BY <3>5, InTurnConcat
    <3> HIDE DEF Upto
    <3> QED BY <3>1, <3>2, <3>4, <3>6
  <2>5. n \in S
    <3> HIDE DEF S
    <3>1. 1 .. n \subseteq S
      BY <1>1, <2>3, <2>4, Upward
    <3> QED BY <1>1, <1>5, <3>1
  <2>6. Upto(n) \subseteq Sections
    <3>1. \A s \in Sections : PlacedBy(s) \subseteq Sections
      BY GeneratorAssumption DEF PlacedBy, CodeSections, Followers
    <3> QED BY <1>1, <3>1
  <2>7. IsSeq(f[n]) /\ InTurn(f[n], Upto(n))
    <3> HIDE DEF Upto
    <3> QED BY <2>5
  <2> HIDE DEF Upto
  <2>8. InTurn(f[n], Sections)
    BY <2>6, <2>7 DEF InTurn
  <2> QED BY <1>3, <2>1, <2>7, <2>8
<1> QED BY <1>4, <1>5

\* Calls that are not for sections change nothing of this.
LEMMA InTurnBefore ==
  ASSUME NEW a, NEW b, NEW S, IsSeq(a), IsSeq(b), InTurn(a, S), \A k \in DOMAIN b : b[k].do # "section"
  PROVE  IsSeq(a \o b) /\ InTurn(a \o b, S)
<1>1. InTurn(b, {}) /\ S \cap {} = {}
  BY DEF InTurn
<1>2. IsSeq(a \o b) /\ InTurn(a \o b, S \cup {})
  BY <1>1, InTurnConcat
<1>3. S \cup {} = S
  OBVIOUS
<1> QED BY <1>2, <1>3

\* So are all the calls of generate().
LEMMA CallsInTurn ==
  ASSUME NEW t \in Tests
  PROVE  InTurn(Calls(t), Sections)
<1> DEFINE m1 == <<[do |-> "map", map |-> "map_os"]>>
           m2 == IF t.two_stage THEN <<[do |-> "map", map |-> "map_hyp"]>> ELSE << >>
           m3 == [i \in DOMAIN t.maps |-> [do |-> "map", map |-> t.maps[i]]]
           normal == NormalMappings(t)
           p == [i \in DOMAIN normal |-> [do |-> "page", mapping |-> normal[i]]]
           Other(b) == IsSeq(b) /\ \A k \in DOMAIN b : b[k].do # "section"
           Good(a) == IsSeq(a) /\ InTurn(a, Sections)
<1>1. \A a, b : Good(a) /\ Other(b) => Good(a \o b)
  BY InTurnBefore
<1>2. PartsTyped(t) /\ t.maps \in Seq(ToSet(t.maps))
  BY GeneratorAssumption
<1>3. ASSUME NEW f, NEW n \in Nat, DOMAIN f = 1 .. n, f = [i \in 1 .. n |-> f[i]]  PROVE IsSeq(f)
  <2> DEFINE S == {f[i] : i \in 1 .. n}
  <2>1. \A i \in 1 .. n : f[i] \in S
    OBVIOUS
  <2> HIDE DEF S
  <2>2. f \in Seq(S)
    BY <1>3, <2>1
  <2> QED BY <2>2 DEF IsSeq
<1>4. Other(m1)
  <2>1. m1 \in Seq({m1[1]}) /\ DOMAIN m1 = {1} /\ m1[1].do = "map"
    OBVIOUS
  <2> HIDE DEF m1
  <2> QED BY <2>1 DEF IsSeq
<1>5. Other(m2)
  <2>1. CASE t.two_stage
    <3> DEFINE x == <<[do |-> "map", map |-> "map_hyp"]>>
    <3>1. x \in Seq({x[1]}) /\ DOMAIN x = {1} /\ x[1].do = "map"
      OBVIOUS
    <3> HIDE DEF x
    <3> QED BY <2>1, <3>1 DEF IsSeq, x
  <2>2. CASE ~ t.two_stage
    <3>1. m2 = << >> /\ DOMAIN << >> = {}
      BY <2>2
    <3> HIDE DEF m2
    <3> QED BY <3>1, NamesGood
  <2> QED BY <2>1, <2>2
<1>6. Other(m3)
  <2>1. PICK n \in Nat : DOMAIN t.maps = 1 .. n
    BY <1>2
  <2>2. DOMAIN m3 = 1 .. n /\ m3 = [i \in 1 .. n |-> m3[i]] /\ \A i \in 1 .. n : m3[i].do = "map"
    BY <2>1
  <2> HIDE DEF m3
  <2> QED BY <1>3, <2>2
<1>7. Other(p)
  <2>0. normal \in Seq(NormalsOf(t))
    BY <1>2, Zenon DEF PartsTyped
  <2>1. PICK n \in Nat : DOMAIN normal = 1 .. n
    <3> HIDE DEF normal
    <3> QED BY <2>0
  <2>2. DOMAIN p = 1 .. n /\ p = [i \in 1 .. n |-> p[i]] /\ \A i \in 1 .. n : p[i].do = "page"
    BY <2>1
  <2> HIDE DEF p
  <2> QED BY <1>3, <2>2
<1>8. Other(t.res_mems) /\ Other(t.mappings) /\ Other(t.addrs)
  <2>1. /\ t.res_mems \in Seq([do : {"res_mem"}, linear : BOOLEAN, start : Int, size : Int])
        /\ t.mappings \in Seq(ToSet(t.mappings)) /\ \A k \in DOMAIN t.mappings : t.mappings[k].do = "mapping"
        /\ t.addrs \in Seq(ToSet(t.addrs)) /\ \A k \in DOMAIN t.addrs : t.addrs[k].do = "addr"
    BY <1>2, Zenon DEF PartsTyped
  <2>2. \A k \in DOMAIN t.res_mems : t.res_mems[k].do = "res_mem"
    <3> DEFINE R == [do : {"res_mem"}, linear : BOOLEAN, start : Int, size : Int]
    <3>1. \A r \in R : r.do = "res_mem"
      OBVIOUS
    <3>2. t.res_mems \in Seq(R)
      BY <2>1
    <3> HIDE DEF R
    <3>3. \A k \in DOMAIN t.res_mems : t.res_mems[k] \in R
      BY <3>2
    <3> QED BY <3>1, <3>3
  <2>3. IsSeq(t.res_mems) /\ IsSeq(t.mappings) /\ IsSeq(t.addrs)
    BY <2>1, Zenon DEF IsSeq
  <2> QED BY <2>1, <2>2, <2>3
<1>9. Good(SectionPart(t))
  BY SectionPartInTurn
<1> DEFINE a1 == SectionPart(t) \o m1
           a2 == a1 \o m2
           a3 == a2 \o m3
           a4 == a3 \o t.res_mems
           a5 == a4 \o t.mappings
           a6 == a5 \o t.addrs
           a7 == a6 \o p
<1> HIDE DEF m1, m2, m3, p, Good, Other
<1>10. Good(a1) /\ Good(a2) /\ Good(a3) /\ Good(a4)
  BY <1>1, <1>4, <1>5, <1>6, <1>8, <1>9
<1>11. Good(a5) /\ Good(a6) /\ Good(a7)
  BY <1>1, <1>7, <1>8, <1>10
<1>12. Calls(t) = a7
  BY Zenon DEF Calls, m1, m2, m3, p
<1> QED BY <1>11, <1>12 DEF Good

SectionPage(s, i) == <<s, i, << >> >>
FrameName(s, i) == Derived(SectionPage(s, i), "phys", 0)

\* The calls still to make for sections; the first of them follows one that was made.
Ahead(calls) ==
    \A k \in DOMAIN calls :
        calls[k].do = "section" =>
            /\ calls[k].section \in Sections /\ calls[k].page \in 1 .. SectionPages[calls[k].section]
            /\ \A j \in 1 .. k - 1 :
                  calls[j].do = "section" /\ calls[j].section = calls[k].section
                     => calls[j].page < calls[k].page
            /\ calls[k].page > 1 /\ k > 1 => Follows(calls[k - 1], calls[k])

\* Behind the last page of each group; without paging both addresses are one.
MaybeAddress == {None} \cup Nat
BehindInv ==
    \A s \in Sections : /\ behind[s][1] \in MaybeAddress /\ behind[s][2] \in MaybeAddress
                        /\ ~ cfg.paging => behind[s][1] = behind[s][2]

\* A page that was placed lies behind the first one of its section.
PlacedPage(s, i) ==
    /\ FrameName(s, i) \in DOMAIN addr
    /\ addr[SectionPage(s, i)] \in Nat /\ addr[FrameName(s, i)] \in Nat
    /\ s # "selfcheck_data" =>
         /\ SectionPage(s, 1) \in DOMAIN addr /\ FrameName(s, 1) \in DOMAIN addr
         /\ addr[SectionPage(s, i)] = addr[SectionPage(s, 1)] + (i - 1) * PageBytes
         /\ addr[FrameName(s, i)] = addr[FrameName(s, 1)] + (i - 1) * PageBytes

PlacedInv ==
    \A s \in Sections : \A i \in 1 .. SectionPages[s] :
        SectionPage(s, i) \in DOMAIN addr =>
            /\ PlacedPage(s, i)
            /\ \A k \in DOMAIN todo : todo[k].do = "section" /\ todo[k].section = s => i < todo[k].page

\* The next call is for the page behind the one placed last.
ChainInv ==
    stage = "addresses" /\ todo # << >> =>
        LET c == Head(todo)
            s == c.section
            i == c.page - 1
        IN  c.do = "section" /\ c.page > 1 /\ s # "selfcheck_data" =>
              /\ SectionPage(s, i) \in DOMAIN addr /\ Chained(c)
              /\ behind[Group(s)] = <<addr[SectionPage(s, i)] + PageBytes, addr[FrameName(s, i)] + PageBytes>>
              /\ c.place # "after" => addr[SectionPage(s, i)] = addr[FrameName(s, i)]

SectionsInv == Ahead(todo) /\ BehindInv /\ PlacedInv /\ ChainInv

\* Names that are not those of the pages of sections.
OtherName(n) == \A s : \A i \in Nat \ {0} : n # SectionPage(s, i) /\ n # FrameName(s, i)

\* What the names of a section's pages stand for stays the same.
SameSections(f, g) ==
    \A s : \A i \in Nat \ {0} : \A p \in {SectionPage(s, i), FrameName(s, i)} :
        (p \in DOMAIN f <=> p \in DOMAIN g) /\ (p \in DOMAIN f => f[p] = g[p])

\* The names of pages and frames of sections tell them apart.
LEMMA SectionNames ==
  /\ \A s, i, t, j : SectionPage(s, i) # FrameName(t, j)
  /\ \A s, i, t, j : SectionPage(s, i) = SectionPage(t, j) => s = t /\ i = j
  /\ \A s, i, t, j : FrameName(s, i) = FrameName(t, j) => s = t /\ i = j
<1>1. Append(<< >>, <<"phys", 0>>) # << >>
  OBVIOUS
<1> QED BY <1>1 DEF SectionPage, FrameName, Derived

\* What a test names, and what is derived from it, is no section's.
LEMMA OtherNames ==
  /\ \A n : TestName(n) => OtherName(n)
  /\ \A n : TestName(n) => \A tag, l : OtherName(Derived(n, tag, l))
  /\ \A n, l : IsSeq(n[3]) => \A tag \in {"vslevel", "vsleaf", "pt_level"} : OtherName(Derived(n, tag, l))
<1>1. ASSUME NEW n, TestName(n), NEW tag, NEW l  PROVE OtherName(n) /\ OtherName(Derived(n, tag, l))
  <2>1. n[2] = 0 /\ Derived(n, tag, l)[2] = 0
    BY <1>1 DEF TestName, Base, Derived
  <2>2. \A s : \A i \in Nat \ {0} : SectionPage(s, i)[2] = i /\ FrameName(s, i)[2] = i
    BY DEF SectionPage, FrameName, Derived
  <2> QED BY <2>1, <2>2, Zenon DEF OtherName
<1>2. ASSUME NEW n, NEW l, IsSeq(n[3]), NEW tag \in {"vslevel", "vsleaf", "pt_level"}
      PROVE  OtherName(Derived(n, tag, l))
  <2>1. PICK S : n[3] \in Seq(S)
    BY <1>2 DEF IsSeq
  <2> DEFINE x == Append(n[3], <<tag, l>>)
             y == Append(<< >>, <<"phys", 0>>)
  <2>2. Len(x) = Len(n[3]) + 1 /\ x[Len(n[3]) + 1] = <<tag, l>> /\ Len(n[3]) \in Nat
    BY <2>1
  <2>3. Len(y) = 1 /\ y[1] = <<"phys", 0>> /\ Len(<< >>) = 0
    OBVIOUS
  <2>4. x # << >> /\ x # y
    <3> HIDE DEF x, y
    <3>1. x # << >>
      BY <2>2, <2>3
    <3>2. ASSUME x = y  PROVE FALSE
      <4>1. <<tag, l>> = <<"phys", 0>>
        BY <2>2, <2>3, <3>2
      <4> QED BY <4>1
    <3> QED BY <3>1, <3>2
  <2>5. Derived(n, tag, l)[3] = x /\ \A s, i : SectionPage(s, i)[3] = << >> /\ FrameName(s, i)[3] = y
    BY DEF Derived, SectionPage, FrameName
  <2> HIDE DEF x, y
  <2> QED BY <2>4, <2>5, Zenon DEF OtherName
<1> QED BY <1>1, <1>2

\* A name that is not a section page's is filed.
LEMMA PutOther ==
  ASSUME NEW f, NEW n, NEW v, OtherName(n)
  PROVE  SameSections(f, Put(f, n, v)) /\ \A g : SameSections(g, f) => SameSections(g, Put(f, n, v))
<1>1. \A s : \A i \in Nat \ {0} : \A p \in {SectionPage(s, i), FrameName(s, i)} : p # n
  BY DEF OtherName
<1>2. \A p : p # n => (p \in DOMAIN Put(f, n, v) <=> p \in DOMAIN f) /\ (p \in DOMAIN f => Put(f, n, v)[p] = f[p])
  BY DEF Put
<1> QED BY <1>1, <1>2, Zenon DEF SameSections

\* What stays as it is keeps its sections.
LEMMA SameItself == \A f : SameSections(f, f)
BY DEF SameSections

\* The calls behind the first one.
LEMMA AheadTail ==
  ASSUME CallsInv, todo # << >>, Ahead(todo)
  PROVE  /\ Ahead(Tail(todo))
         /\ \A k \in DOMAIN Tail(todo) : k + 1 \in DOMAIN todo /\ Tail(todo)[k] = todo[k + 1] /\ k \in Nat \ {0}
<1>1. /\ \A k \in DOMAIN Tail(todo) : k + 1 \in DOMAIN todo /\ Tail(todo)[k] = todo[k + 1] /\ k \in Nat \ {0}
      /\ Tail(todo) \in Seq(ToSet(Calls(cfg)))
  BY HeadTyped
<1>2. ASSUME NEW k \in DOMAIN Tail(todo), Tail(todo)[k].do = "section"
      PROVE  LET t == Tail(todo)
             IN  /\ t[k].section \in Sections /\ t[k].page \in 1 .. SectionPages[t[k].section]
                 /\ \A j \in 1 .. k - 1 :
                       t[j].do = "section" /\ t[j].section = t[k].section => t[j].page < t[k].page
                 /\ t[k].page > 1 /\ k > 1 => Follows(t[k - 1], t[k])
  <2> DEFINE t == Tail(todo)
  <2>1. t[k] = todo[k + 1] /\ k + 1 \in DOMAIN todo /\ todo[k + 1].do = "section" /\ k \in Nat \ {0}
    BY <1>1, <1>2
  <2>2. /\ todo[k + 1].section \in Sections /\ todo[k + 1].page \in 1 .. SectionPages[todo[k + 1].section]
        /\ \A j \in 1 .. (k + 1) - 1 :
              todo[j].do = "section" /\ todo[j].section = todo[k + 1].section => todo[j].page < todo[k + 1].page
        /\ todo[k + 1].page > 1 /\ k + 1 > 1 => Follows(todo[(k + 1) - 1], todo[k + 1])
    BY <2>1 DEF Ahead
  <2>3. DOMAIN t = 1 .. Len(t) /\ Len(t) \in Nat /\ k \in DOMAIN t
    BY <1>1
  <2>4. \A j \in 1 .. k - 1 : t[j] = todo[j + 1] /\ j + 1 \in 1 .. (k + 1) - 1
    <3> HIDE DEF t
    <3>1. \A j \in 1 .. k - 1 : j \in DOMAIN t /\ j + 1 \in 1 .. (k + 1) - 1
      BY <2>3
    <3> QED BY <1>1, <3>1 DEF t
  <2>5. k > 1 => t[k - 1] = todo[k] /\ (k + 1) - 1 = k
    <3> HIDE DEF t
    <3>1. k > 1 => k - 1 \in DOMAIN t /\ (k - 1) + 1 = k /\ (k + 1) - 1 = k
      BY <2>3
    <3> QED BY <1>1, <3>1 DEF t
  <2> HIDE DEF t
  <2> QED BY <2>1, <2>2, <2>4, <2>5 DEF t
<1> QED BY <1>1, <1>2, Zenon DEF Ahead

\* What a call for a section passes, by its place.
LEMMA StartsAre ==
  ASSUME BehindInv, NEW c, CallTyped(cfg, c), c.do = "section"
  PROVE  /\ StartAddr(c) \in MaybeAddress /\ StartLin(c) \in MaybeAddress
         /\ c.place = "after" => StartAddr(c) = behind[Group(c.section)][2] /\ StartLin(c) = behind[Group(c.section)][1]
         /\ c.place = "after_pa" => StartAddr(c) = behind[Group(c.section)][2] /\ StartLin(c) = None
         /\ c.place = "after_lin" => StartAddr(c) = behind[Group(c.section)][1] /\ StartLin(c) = None
         /\ c.place # "after" => StartLin(c) = None \/ StartAddr(c) = None
<1>1. c.place \in {"random", "reset", "io", "after", "after_pa", "after_lin", "runtime_end"}
  BY DEF CallTyped
<1>2. /\ {None, ResetPc, IoAddr} \subseteq MaybeAddress
      /\ behind[Group(c.section)][1] \in MaybeAddress /\ behind[Group(c.section)][2] \in MaybeAddress
      /\ behind["runtime"][1] \in MaybeAddress
  BY GeneratorAssumption DEF BehindInv, CallTyped, MaybeAddress
<1>3. /\ c.place \in {"random", "runtime_end"} => StartAddr(c) = None
      /\ c.place = "reset" => StartAddr(c) = ResetPc
      /\ c.place = "io" => StartAddr(c) = IoAddr
      /\ c.place \in {"after", "after_pa"} => StartAddr(c) = behind[Group(c.section)][2]
      /\ c.place = "after_lin" => StartAddr(c) = behind[Group(c.section)][1]
  BY DEF StartAddr
<1>4. /\ c.place \in {"random", "reset", "io", "after_pa", "after_lin"} => StartLin(c) = None
      /\ c.place = "after" => StartLin(c) = behind[Group(c.section)][1]
      /\ c.place = "runtime_end" => StartLin(c) = behind["runtime"][1]
  BY DEF StartLin
<1> QED BY <1>1, <1>2, <1>3, <1>4

\* The addresses that add_section_handler gives a page.
PlacesAt(c, lin, phys) ==
    /\ lin \in Nat /\ phys \in Nat
    /\ ~ cfg.paging => lin = phys
    /\ c.skip /\ c.place # "after" => lin = phys
    /\ c.page > 1 /\ c.section # "selfcheck_data" => <<lin, phys>> = behind[Group(c.section)]

\* A call that succeeds puts its page where PlacesAt says.
LEMMA PlacedWhere ==
  ASSUME SpacesInv, CallsInv, SectionsInv, AddSection, stage' # "failed"
  PROVE  LET c == Head(todo)
         IN  \E lin, phys :
                /\ PlacesAt(c, lin, phys)
                /\ addr' = Put(Put(addr, FrameName(c.section, c.page), phys), SectionPage(c.section, c.page), lin)
                /\ behind' = [behind EXCEPT ![Group(c.section)] = <<lin + PageBytes, phys + PageBytes>>]
                /\ todo' = Tail(todo)
<1> DEFINE c == Head(todo)
           identity == c.identity \/ ~ cfg.paging
           skip == c.skip \/ ~ cfg.paging
           pa == IF identity /\ StartAddr(c) = None THEN StartLin(c) ELSE StartAddr(c)
           va == IF identity THEN None ELSE StartLin(c)
           fixed == IF pa = None /\ skip THEN va ELSE pa
           pc == Request(c.bytes, AlignOf(c.bytes), PhysicalBits, "dram")
           lc == Request(c.bytes, AlignOf(c.bytes), LinearBits, "linear")
           linear_drawn == va = None /\ ~ skip /\ ~ identity
           name == SectionPage(c.section, c.page)
<1>1. stage = "addresses" /\ todo # << >> /\ c.do = "section"
  BY Zenon DEF AddSection
<1>2. CallTyped(cfg, c) /\ c.bytes \in Nat \ {0} /\ Group(c.section) \in Sections
  <2>1. CallTyped(cfg, c)
    BY <1>1, HeadTyped
  <2> HIDE DEF c
  <2> QED BY <1>1, <2>1 DEF CallTyped
<1>3. PICK phys, lin :
        /\ phys \in IF fixed = None THEN Grantable(physical, pc) ELSE {fixed}
        /\ lin \in IF linear_drawn THEN Grantable(linear, lc) ELSE IF va = None THEN {phys} ELSE {va}
        /\ addr' = Put(Put(addr, FrameName(c.section, c.page), phys), name, lin)
        /\ behind' = [behind EXCEPT ![Group(c.section)] = <<lin + PageBytes, phys + PageBytes>>]
        /\ todo' = Tail(todo)
  BY ZenonT(60) DEF AddSection, FrameName, SectionPage
<1> DEFINE x == behind[Group(c.section)][1]
           y == behind[Group(c.section)][2]
<1>4. /\ StartAddr(c) \in MaybeAddress /\ StartLin(c) \in MaybeAddress
      /\ c.place = "after" => StartAddr(c) = y /\ StartLin(c) = x
      /\ c.place = "after_pa" => StartAddr(c) = y /\ StartLin(c) = None
      /\ c.place = "after_lin" => StartAddr(c) = x /\ StartLin(c) = None
      /\ c.place # "after" => StartLin(c) = None \/ StartAddr(c) = None
  BY <1>1, <1>2, StartsAre DEF SectionsInv
<1>5. ~ cfg.paging => x = y
  BY <1>2 DEF SectionsInv, BehindInv
<1>6. c.page > 1 /\ c.section # "selfcheck_data" =>
          /\ Chained(c) /\ behind[Group(c.section)] = <<x, y>> /\ x \in Nat /\ y \in Nat
          /\ c.place # "after" => x = y
  <2> SUFFICES ASSUME c.page > 1, c.section # "selfcheck_data"
               PROVE  /\ Chained(c) /\ behind[Group(c.section)] = <<x, y>> /\ x \in Nat /\ y \in Nat
                      /\ c.place # "after" => x = y
    OBVIOUS
  <2> DEFINE s == c.section
             i == c.page - 1
             u == addr[SectionPage(s, i)]
             w == addr[FrameName(s, i)]
  <2>1. /\ SectionPage(s, i) \in DOMAIN addr /\ Chained(c)
        /\ behind[Group(s)] = <<u + PageBytes, w + PageBytes>>
        /\ c.place # "after" => u = w
    BY <1>1 DEF SectionsInv, ChainInv
  <2>2. s \in Sections /\ c.page \in 1 .. SectionPages[s] /\ i \in 1 .. SectionPages[s]
    <3>1. c = todo[1] /\ 1 \in DOMAIN todo
      BY <1>1, HeadTyped
    <3>2. s \in Sections /\ c.page \in 1 .. SectionPages[s]
      BY <1>1, <3>1 DEF SectionsInv, Ahead
    <3>3. SectionPages[s] \in Nat
      BY <3>2, GeneratorAssumption
    <3> HIDE DEF c, s
    <3> QED BY <3>2, <3>3
  <2>3. u \in Nat /\ w \in Nat
    BY <2>1, <2>2 DEF SectionsInv, PlacedInv, PlacedPage
  <2> HIDE DEF c, u, w
  <2>4. x = u + PageBytes /\ y = w + PageBytes
    BY <2>1
  <2> QED BY <2>1, <2>3, <2>4, LevelSizes
<1>7. /\ fixed = None => phys \in Nat
      /\ fixed # None => phys = fixed
      /\ linear_drawn => lin \in Nat
      /\ ~ linear_drawn /\ va = None => lin = phys
      /\ ~ linear_drawn /\ va # None => lin = va
  <2> HIDE DEF c, fixed, va, skip, linear_drawn, name, x, y
  <2>1. fixed = None => phys \in Nat
    BY <1>2, <1>3, GrownAllocate DEF SpacesInv
  <2>2. linear_drawn => lin \in Nat
    BY <1>2, <1>3, GrownAllocate DEF SpacesInv
  <2> QED BY <1>3, <2>1, <2>2
<1>8. PlacesAt(c, lin, phys)
  <2> HIDE DEF c, x, y, pc, lc, name
  <2>1. None \notin Nat
    BY DEF None
  <2>2. fixed \in MaybeAddress /\ va \in MaybeAddress
    BY <1>4 DEF MaybeAddress
  <2>3. lin \in Nat /\ phys \in Nat
    <3> HIDE DEF fixed, va, linear_drawn
    <3> QED BY <1>7, <2>1, <2>2 DEF MaybeAddress
  <2>4. ~ cfg.paging => lin = phys
    BY <1>7
  <2>5. c.skip /\ c.place # "after" => lin = phys
    BY <1>4, <1>7
  <2>6. c.page > 1 /\ c.section # "selfcheck_data" => lin = x /\ phys = y
    <3> SUFFICES ASSUME c.page > 1, c.section # "selfcheck_data"  PROVE lin = x /\ phys = y
      OBVIOUS
    <3>1. ~ c.identity /\ (c.place = "after" \/ (c.place \in {"after_pa", "after_lin"} /\ c.skip))
      BY <1>6 DEF Chained
    <3>2. x # None /\ y # None /\ (c.place # "after" => x = y)
      BY <1>6, <2>1
    <3>3. CASE cfg.paging
      <4>1. CASE c.place = "after"
        BY <1>4, <1>7, <3>1, <3>2, <3>3, <4>1
      <4>2. CASE c.place = "after_pa"
        BY <1>4, <1>7, <3>1, <3>2, <3>3, <4>2
      <4>3. CASE c.place = "after_lin"
        BY <1>4, <1>7, <3>1, <3>2, <3>3, <4>3
      <4> QED BY <3>1, <4>1, <4>2, <4>3
    <3>4. CASE ~ cfg.paging
      BY <1>4, <1>5, <1>7, <3>1, <3>2, <3>4
    <3> QED BY <3>3, <3>4
  <2> QED BY <1>6, <2>3, <2>4, <2>5, <2>6 DEF PlacesAt
<1> QED BY <1>3, <1>8

\* What lies behind the first page stays behind it, a page further on.
LEMMA NextPlace ==
  ASSUME NEW i \in Nat, NEW a \in Int, NEW b \in Int, a = b + ((i - 1) - 1) * PageBytes
  PROVE  a + PageBytes = b + (i - 1) * PageBytes
<1> DEFINE P == PageBytes
<1>1. P \in Nat
  BY LevelSizes
<1> HIDE DEF P
<1>2. ((i - 1) - 1) * P + P = (i - 1) * P
  BY <1>1
<1> QED BY <1>1, <1>2 DEF P

\* A page of a section is placed.
LEMMA SectionAdded ==
  ASSUME SpacesInv, CallsInv, NamesInv, SectionsInv, AddSection, stage' # "failed"
  PROVE  SectionsInv'
<1> DEFINE c == Head(todo)
           s == c.section
           n == SectionPage(s, c.page)
           f == FrameName(s, c.page)
<1>1. PICK lin, phys :
        /\ PlacesAt(c, lin, phys)
        /\ addr' = Put(Put(addr, f, phys), n, lin)
        /\ behind' = [behind EXCEPT ![Group(s)] = <<lin + PageBytes, phys + PageBytes>>]
        /\ todo' = Tail(todo)
  BY PlacedWhere
<1>2. /\ stage = "addresses" /\ todo # << >> /\ c.do = "section" /\ UNCHANGED cfg
      /\ c = todo[1] /\ 1 \in DOMAIN todo
  BY HeadTyped, Zenon DEF AddSection, placeVars
<1>3. s \in Sections /\ c.page \in 1 .. SectionPages[s] /\ SectionPages[s] \in Nat \ {0}
  <2>1. s \in Sections /\ c.page \in 1 .. SectionPages[s]
    BY <1>2 DEF SectionsInv, Ahead
  <2> QED BY <2>1, GeneratorAssumption
<1>4. /\ Ahead(todo')
      /\ \A k \in DOMAIN todo' : k + 1 \in DOMAIN todo /\ todo'[k] = todo[k + 1] /\ k \in Nat \ {0}
  BY <1>1, <1>2, AheadTail DEF SectionsInv
<1>5. n # f /\ lin \in Nat /\ phys \in Nat /\ PageBytes \in Nat
  BY <1>1, SectionNames, LevelSizes DEF PlacesAt
<1>6. /\ DOMAIN addr' = DOMAIN addr \cup {f, n}
      /\ addr'[f] = phys /\ addr'[n] = lin
      /\ \A x \in DOMAIN addr : x # f /\ x # n => addr'[x] = addr[x]
  <2>1. addr' = Put(Put(addr, f, phys), n, lin) /\ f # n
    BY <1>1, <1>5
  <2> HIDE DEF f, n, c, s
  <2> QED BY <2>1 DEF Put
<1>7. BehindInv'
  <2>1. ASSUME NEW x \in Sections
        PROVE  /\ behind'[x][1] \in MaybeAddress /\ behind'[x][2] \in MaybeAddress
               /\ ~ cfg.paging => behind'[x][1] = behind'[x][2]
    <3>1. behind'[x] = <<lin + PageBytes, phys + PageBytes>> \/ behind'[x] = behind[x]
      BY <1>1
    <3>2. lin + PageBytes \in Nat /\ phys + PageBytes \in Nat
      BY <1>5
    <3> QED BY <1>1, <3>1, <3>2 DEF SectionsInv, BehindInv, MaybeAddress, PlacesAt
  <2> QED BY <1>2, <2>1 DEF BehindInv
<1>8. \A k \in DOMAIN todo' : todo'[k].do = "section" /\ todo'[k].section = s => c.page < todo'[k].page
  <2> SUFFICES ASSUME NEW k \in DOMAIN todo', todo'[k].do = "section", todo'[k].section = s
               PROVE  c.page < todo'[k].page
    OBVIOUS
  <2>1. k + 1 \in DOMAIN todo /\ todo'[k] = todo[k + 1] /\ 1 \in 1 .. (k + 1) - 1
    BY <1>4
  <2>2. \A j \in 1 .. (k + 1) - 1 :
          todo[j].do = "section" /\ todo[j].section = todo[k + 1].section => todo[j].page < todo[k + 1].page
    BY <2>1 DEF SectionsInv, Ahead
  <2> QED BY <1>2, <2>1, <2>2
<1>9. ASSUME NEW x \in Sections, NEW i \in 1 .. SectionPages[x], SectionPage(x, i) \in DOMAIN addr'
      PROVE  /\ PlacedPage(x, i)'
             /\ \A k \in DOMAIN todo' : todo'[k].do = "section" /\ todo'[k].section = x => i < todo'[k].page
  <2>1. SectionPages[x] \in Nat \ {0} /\ i \in Nat \ {0} /\ 1 \in 1 .. SectionPages[x]
    BY GeneratorAssumption
  <2>2. CASE x = s /\ i = c.page
    <3>1. SectionPage(x, i) = n /\ FrameName(x, i) = f
      BY <2>2
    <3>2. ASSUME s # "selfcheck_data"
          PROVE  /\ SectionPage(s, 1) \in DOMAIN addr' /\ FrameName(s, 1) \in DOMAIN addr'
                 /\ lin = addr'[SectionPage(s, 1)] + (i - 1) * PageBytes
                 /\ phys = addr'[FrameName(s, 1)] + (i - 1) * PageBytes
      <4>1. CASE i = 1
        <5>1. (i - 1) * PageBytes = 0
          BY <1>5, <4>1
        <5> QED BY <1>5, <1>6, <2>2, <4>1, <5>1
      <4>2. CASE i # 1
        <5> DEFINE j == i - 1
                   u == addr[SectionPage(s, j)]
                   w == addr[FrameName(s, j)]
        <5>1. j \in 1 .. SectionPages[s] /\ c.page > 1
          BY <1>3, <2>1, <2>2, <4>2
        <5>2. SectionPage(s, j) \in DOMAIN addr /\ behind[Group(s)] = <<u + PageBytes, w + PageBytes>>
          BY <1>2, <2>2, <3>2, <5>1 DEF SectionsInv, ChainInv
        <5> HIDE DEF j
        <5>3. PlacedPage(s, j)
          BY <1>3, <5>1, <5>2 DEF SectionsInv, PlacedInv
        <5>4. <<lin, phys>> = behind[Group(s)]
          BY <1>1, <3>2, <5>1 DEF PlacesAt
        <5> HIDE DEF u, w
        <5>5. lin = u + PageBytes /\ phys = w + PageBytes
          BY <5>2, <5>4
        <5>6. /\ SectionPage(s, 1) \in DOMAIN addr /\ FrameName(s, 1) \in DOMAIN addr
              /\ u = addr[SectionPage(s, 1)] + (j - 1) * PageBytes
              /\ w = addr[FrameName(s, 1)] + (j - 1) * PageBytes
              /\ u \in Nat /\ w \in Nat
          BY <3>2, <5>3 DEF PlacedPage, u, w
        <5>7. addr[SectionPage(s, 1)] \in Nat /\ addr[FrameName(s, 1)] \in Nat
          <6>1. PlacedPage(s, 1)
            BY <1>3, <2>1, <2>2, <5>6 DEF SectionsInv, PlacedInv
          <6> QED BY <6>1 DEF PlacedPage
        <5>8. /\ addr'[SectionPage(s, 1)] = addr[SectionPage(s, 1)]
              /\ addr'[FrameName(s, 1)] = addr[FrameName(s, 1)]
          <6>1. /\ SectionPage(s, 1) # n /\ SectionPage(s, 1) # f
                /\ FrameName(s, 1) # n /\ FrameName(s, 1) # f
            BY <2>2, <4>2, SectionNames
          <6> QED BY <1>6, <5>6, <6>1
        <5>9. /\ u + PageBytes = addr[SectionPage(s, 1)] + (i - 1) * PageBytes
              /\ w + PageBytes = addr[FrameName(s, 1)] + (i - 1) * PageBytes
          BY <2>1, <5>6, <5>7, NextPlace DEF j
        <5> QED BY <1>6, <5>5, <5>6, <5>8, <5>9
      <4> QED BY <4>1, <4>2
    <3> QED BY <1>5, <1>6, <1>8, <2>2, <3>1, <3>2 DEF PlacedPage
  <2>3. CASE ~ (x = s /\ i = c.page)
    <3>1. /\ SectionPage(x, i) # n /\ SectionPage(x, i) # f
          /\ FrameName(x, i) # n /\ FrameName(x, i) # f
      BY <2>3, SectionNames
    <3>2. SectionPage(x, i) \in DOMAIN addr
      <4> HIDE DEF n, f, s, c
      <4> QED BY <1>6, <1>9, <3>1
    <3>3. /\ PlacedPage(x, i)
          /\ \A k \in DOMAIN todo : todo[k].do = "section" /\ todo[k].section = x => i < todo[k].page
      BY <3>2 DEF SectionsInv, PlacedInv
    <3>4. \A k \in DOMAIN todo' : todo'[k].do = "section" /\ todo'[k].section = x => i < todo'[k].page
      BY <1>4, <3>3
    <3>5. ASSUME x # "selfcheck_data"
          PROVE  /\ SectionPage(x, 1) \in DOMAIN addr /\ FrameName(x, 1) \in DOMAIN addr
                 /\ addr'[SectionPage(x, 1)] = addr[SectionPage(x, 1)]
                 /\ addr'[FrameName(x, 1)] = addr[FrameName(x, 1)]
      <4>1. SectionPage(x, 1) \in DOMAIN addr /\ FrameName(x, 1) \in DOMAIN addr
        BY <3>3, <3>5 DEF PlacedPage
      <4>2. ~ (x = s /\ 1 = c.page)
        BY <1>2, <2>1, <3>3
      <4>3. /\ SectionPage(x, 1) # n /\ SectionPage(x, 1) # f
            /\ FrameName(x, 1) # n /\ FrameName(x, 1) # f
        BY <4>2, SectionNames
      <4> QED BY <1>6, <4>1, <4>3
    <3>6. /\ FrameName(x, i) \in DOMAIN addr
          /\ addr'[SectionPage(x, i)] = addr[SectionPage(x, i)]
          /\ addr'[FrameName(x, i)] = addr[FrameName(x, i)]
      BY <1>6, <3>1, <3>2, <3>3 DEF PlacedPage
    <3>7. PlacedPage(x, i)'
      <4> HIDE DEF n, f, s, c
      <4> QED BY <1>6, <3>3, <3>5, <3>6 DEF PlacedPage
    <3> QED BY <3>4, <3>7
  <2> QED BY <2>2, <2>3
<1>10. PlacedInv'
  BY <1>9, Zenon DEF PlacedInv
<1>11. ChainInv'
  <2> DEFINE d == Head(todo')
             i == d.page - 1
  <2> SUFFICES ASSUME todo' # << >>, d.do = "section", d.page > 1, d.section # "selfcheck_data"
               PROVE  /\ SectionPage(d.section, i) \in DOMAIN addr' /\ Chained(d)
                      /\ behind'[Group(d.section)] = <<addr'[SectionPage(d.section, i)] + PageBytes,
                                                       addr'[FrameName(d.section, i)] + PageBytes>>
                      /\ d.place # "after" => addr'[SectionPage(d.section, i)] = addr'[FrameName(d.section, i)]
    BY Zenon DEF ChainInv
  <2>1. 2 \in DOMAIN todo /\ d = todo[2]
    <3>1. todo' \in Seq(ToSet(Calls(cfg)))
      BY <1>1, <1>2, HeadTyped
    <3>2. 1 \in DOMAIN todo' /\ d = todo'[1]
      BY <3>1
    <3> QED BY <1>4, <3>2
  <2>2. Follows(c, d)
    <3>1. 2 - 1 = 1 /\ 2 > 1
      OBVIOUS
    <3>2. Follows(todo[2 - 1], todo[2])
      <4> HIDE DEF d
      <4> QED BY <2>1, <3>1 DEF SectionsInv, Ahead
    <3> QED BY <1>2, <2>1, <3>1, <3>2
  <2>3. /\ d.section = s /\ i = c.page
        /\ Chained(d) /\ (d.place # "after" => c.skip /\ c.place # "after")
    <3>1. c.section = d.section /\ c.page = d.page - 1
      BY <2>2 DEF Follows
    <3>2. Chained(d) /\ (d.place # "after" => c.skip /\ c.place # "after")
      <4> HIDE DEF c, d
      <4> QED BY <2>2, Zenon DEF Follows
    <3> QED BY <3>1, <3>2
  <2>4. d.place # "after" => lin = phys
    BY <1>1, <2>3 DEF PlacesAt
  <2>5. behind'[Group(s)] = <<lin + PageBytes, phys + PageBytes>>
    <3>1. Group(s) \in DOMAIN behind
      <4>1. CallTyped(cfg, c)
        BY <1>2, HeadTyped
      <4> HIDE DEF c
      <4> QED BY <1>2, <4>1 DEF CallTyped, NamesInv
    <3> QED BY <1>1, <3>1
  <2> HIDE DEF d, c
  <2> QED BY <1>6, <2>3, <2>4, <2>5
<1> QED BY <1>4, <1>7, <1>10, <1>11 DEF SectionsInv

\* What was placed stays, and the calls to come are calls that were to come.
LEMMA PlacedKept ==
  ASSUME PlacedInv, SameSections(addr, addr'), \A k \in DOMAIN todo' : \E j \in DOMAIN todo : todo'[k] = todo[j]
  PROVE  PlacedInv'
<1> SUFFICES ASSUME NEW s \in Sections, NEW i \in 1 .. SectionPages[s], SectionPage(s, i) \in DOMAIN addr'
             PROVE  /\ PlacedPage(s, i)'
                    /\ \A k \in DOMAIN todo' : todo'[k].do = "section" /\ todo'[k].section = s => i < todo'[k].page
  BY Zenon DEF PlacedInv
<1>1. i \in Nat \ {0} /\ 1 \in Nat \ {0}
  BY GeneratorAssumption
<1>2. \A j \in {1, i} : \A p \in {SectionPage(s, j), FrameName(s, j)} :
        (p \in DOMAIN addr <=> p \in DOMAIN addr') /\ (p \in DOMAIN addr => addr[p] = addr'[p])
  BY <1>1 DEF SameSections
<1>3. /\ PlacedPage(s, i)
      /\ \A k \in DOMAIN todo : todo[k].do = "section" /\ todo[k].section = s => i < todo[k].page
  BY <1>2 DEF PlacedInv
<1>4. PlacedPage(s, i)'
  BY <1>2, <1>3 DEF PlacedPage
<1> QED BY <1>3, <1>4

\* What is known of the ends of the sections, while they stay.
LEMMA BehindKept ==
  ASSUME BehindInv, UNCHANGED <<cfg, behind>>
  PROVE  BehindInv'
BY DEF BehindInv

\* What other calls, and the steps that build tables, keep.
LEMMA SectionsKept ==
  ASSUME CallsInv, SectionsInv, SameSections(addr, addr'), UNCHANGED <<cfg, behind>>,
         \/ UNCHANGED todo /\ (stage' # "addresses" \/ todo = << >>)
         \/ todo # << >> /\ Head(todo).do # "section" /\ todo' = Tail(todo)
  PROVE  SectionsInv'
<1>1. CASE todo # << >> /\ Head(todo).do # "section" /\ todo' = Tail(todo)
  <2>1. /\ Ahead(todo')
        /\ \A k \in DOMAIN todo' : k + 1 \in DOMAIN todo /\ todo'[k] = todo[k + 1] /\ k \in Nat \ {0}
    BY <1>1, AheadTail DEF SectionsInv
  <2>2. Head(todo) = todo[1] /\ todo' \in Seq(ToSet(Calls(cfg)))
    BY <1>1, HeadTyped
  <2>3. ASSUME todo' # << >>, Head(todo').do = "section", Head(todo').page > 1  PROVE FALSE
    <3>1. Head(todo') = todo'[1] /\ 1 \in DOMAIN todo'
      BY <2>2, <2>3
    <3>2. 1 + 1 \in DOMAIN todo /\ todo'[1] = todo[1 + 1]
      BY <2>1, <3>1
    <3>3. Follows(todo[(1 + 1) - 1], todo[1 + 1]) /\ (1 + 1) - 1 = 1
      BY <2>3, <3>1, <3>2 DEF SectionsInv, Ahead
    <3>4. todo[1].do = "section"
      BY <3>3 DEF Follows
    <3> QED BY <1>1, <2>2, <3>4
  <2>4. ChainInv'
    BY <2>3 DEF ChainInv
  <2>5. \A k \in DOMAIN todo' : \E j \in DOMAIN todo : todo'[k] = todo[j]
    BY <2>1
  <2> QED BY <2>1, <2>4, <2>5, PlacedKept, BehindKept DEF SectionsInv
<1>2. CASE UNCHANGED todo /\ (stage' # "addresses" \/ todo = << >>)
  <2>1. Ahead(todo') /\ ChainInv'
    BY <1>2 DEF SectionsInv, Ahead, ChainInv
  <2>2. \A k \in DOMAIN todo' : \E j \in DOMAIN todo : todo'[k] = todo[j]
    BY <1>2
  <2> QED BY <2>1, <2>2, PlacedKept, BehindKept DEF SectionsInv
<1> QED BY <1>1, <1>2

\* A name that exists gets another value.
LEMMA ExceptOther ==
  ASSUME NEW f, NEW n, NEW v, OtherName(n)
  PROVE  SameSections(f, [f EXCEPT ![n] = v])
<1>1. \A s : \A i \in Nat \ {0} : \A p \in {SectionPage(s, i), FrameName(s, i)} : p # n
  BY DEF OtherName
<1>2. /\ DOMAIN [f EXCEPT ![n] = v] = DOMAIN f
      /\ \A p \in DOMAIN f : p # n => [f EXCEPT ![n] = v][p] = f[p]
  OBVIOUS
<1> QED BY <1>1, <1>2, Zenon DEF SameSections

\* The pages that are added while tables are built have other names.
LEMMA RawPagesOther ==
  ASSUME NEW gp, NEW tp, AddRawPages(gp, tp), \A p \in ToSet(gp \o tp) : OtherName(p.name)
  PROVE  SameSections(addr, addr')
<1> DEFINE Q == ToSet(gp \o tp)
<1>1. \A s : \A i \in Nat \ {0} : \A n \in {SectionPage(s, i), FrameName(s, i)} :
        ~ \E p \in Q : p.name = n
  BY DEF OtherName
<1>2. \A n : (~ \E p \in Q : p.name = n) =>
          (n \in DOMAIN addr <=> n \in DOMAIN addr') /\ (n \in DOMAIN addr => addr[n] = addr'[n])
  <2>1. addr' = [n \in DOMAIN addr \cup {p.name : p \in Q} |->
                  IF \E p \in Q : p.name = n
                  THEN (CHOOSE p \in Q : p.name = n).lin ELSE addr[n]]
    BY Zenon DEF AddRawPages
  <2> HIDE DEF Q
  <2> QED BY <2>1
<1> HIDE DEF Q
<1> QED BY <1>1, <1>2, Zenon DEF SameSections

\* A list of pages that have other names.
OnlyOthers(s) == IsSeq(s) /\ \A k \in DOMAIN s : OtherName(s[k].name)

\* Lists of pages that are no section's, joined.
LEMMA OthersJoined ==
  ASSUME NEW gp, NEW tp, OnlyOthers(gp), OnlyOthers(tp)
  PROVE  \A p \in ToSet(gp \o tp) : OtherName(p.name)
<1>1. PICK A : gp \in Seq(A)
  BY DEF IsSeq, OnlyOthers
<1>2. PICK B : tp \in Seq(B)
  BY DEF IsSeq, OnlyOthers
<1> DEFINE n == Len(gp)
           c == gp \o tp
<1>3. /\ Len(c) = n + Len(tp) /\ n \in Nat /\ Len(tp) \in Nat
      /\ \A k \in 1 .. n : c[k] = gp[k]
      /\ \A k \in n + 1 .. n + Len(tp) : c[k] = tp[k - n]
      /\ DOMAIN gp = 1 .. n /\ DOMAIN tp = 1 .. Len(tp) /\ DOMAIN c = 1 .. Len(c)
  BY <1>1, <1>2
<1> HIDE DEF n, c
<1>4. \A k \in DOMAIN c : OtherName(c[k].name)
  <2> SUFFICES ASSUME NEW k \in DOMAIN c  PROVE OtherName(c[k].name)
    OBVIOUS
  <2>1. CASE k \in 1 .. n
    BY <1>3, <2>1 DEF OnlyOthers
  <2>2. CASE k \in n + 1 .. n + Len(tp)
    <3>1. k - n \in DOMAIN tp /\ c[k] = tp[k - n]
      BY <1>3, <2>2
    <3> QED BY <3>1 DEF OnlyOthers
  <2> QED BY <1>3, <2>1, <2>2
<1> QED BY <1>4 DEF ToSet, c

\* A list of one page at most.
LEMMA OneOther ==
  /\ OnlyOthers(<< >>)
  /\ \A p : OtherName(p.name) => OnlyOthers(<<p>>)
<1>1. ASSUME NEW p, OtherName(p.name)  PROVE OnlyOthers(<<p>>)
  <2> DEFINE s == <<p>>
  <2>1. s \in Seq({p}) /\ \A k \in DOMAIN s : s[k] = p
    OBVIOUS
  <2> HIDE DEF s
  <2>2. IsSeq(s)
    BY <2>1 DEF IsSeq
  <2>3. OnlyOthers(s)
    BY <1>1, <2>1, <2>2 DEF OnlyOthers
  <2> QED BY <2>3 DEF s
<1>2. IsSeq(<< >>)
  BY NamesGood
<1> QED BY <1>1, <1>2 DEF OnlyOthers

\* The steps that build tables.
LEMMA TableSpares ==
  ASSUME PagesInv, CursorInv, Table
  PROVE  SameSections(addr, addr')
<1>1. stage = "tables"
  BY Zenon DEF Table, FollowEntry, CreateTable, CreateLeaf
<1>2. IsSeq(Current.name[3])
  BY <1>1, CurrentTyped DEF GoodPage
<1>3. \A tag \in {"vslevel", "vsleaf", "pt_level"} : OtherName(Derived(Current.name, tag, cursor.level))
  BY <1>2, OtherNames
<1>4. ASSUME NEW tag \in {"vslevel", "vsleaf"}, NEW a, NEW level  PROVE OnlyOthers(GStagePage(tag, a, level))
  <2> DEFINE n == Derived(Current.name, tag, cursor.level)
             b == a - (a % LevelSize(level))
             p == [Page4K(n, b, b, "identity") EXCEPT !.level = level]
  <2>1. p.name = n
    BY DEF Page4K
  <2>2. GStagePage(tag, a, level) \in {<< >>, <<p>>}
    BY DEF GStagePage
  <2> HIDE DEF p
  <2>3. OtherName(n)
    BY <1>3
  <2> HIDE DEF n
  <2> QED BY <2>1, <2>2, <2>3, OneOther
<1>5. ASSUME NEW v  PROVE OnlyOthers(TablePage(v))
  <2> DEFINE n == Derived(Current.name, "pt_level", cursor.level)
             p == Page4K(n, v, cursor.table, "table")
  <2>1. p.name = n
    BY DEF Page4K
  <2>2. TablePage(v) \in {<< >>, <<p>>}
    BY DEF TablePage
  <2> HIDE DEF p
  <2>3. OtherName(n)
    BY <1>3
  <2> HIDE DEF n
  <2> QED BY <2>1, <2>2, <2>3, OneOther
<1>6. \/ UNCHANGED addr
      \/ \E tag \in {"vslevel", "vsleaf"} : \E a, level, v : AddRawPages(GStagePage(tag, a, level), TablePage(v))
  <2>1. CASE FollowEntry
    BY <2>1, Zenon DEF FollowEntry
  <2>2. CASE CreateTable
    <3>1. UNCHANGED addr \/ \E a, v : AddRawPages(GStagePage("vslevel", a, Current.gnonleaf), TablePage(v))
      BY <2>2, Zenon DEF CreateTable
    <3> QED BY <3>1, Zenon
  <2>3. CASE CreateLeaf
    <3>1. UNCHANGED addr \/ \E v : AddRawPages(GStagePage("vsleaf", Current.phys, Current.gleaf), TablePage(v))
      BY <2>3, Zenon DEF CreateLeaf
    <3> QED BY <3>1, Zenon
  <2> QED BY <2>1, <2>2, <2>3 DEF Table
<1>7. ASSUME NEW tag \in {"vslevel", "vsleaf"}, NEW a, NEW level, NEW v,
             AddRawPages(GStagePage(tag, a, level), TablePage(v))
      PROVE  SameSections(addr, addr')
  <2> DEFINE gp == GStagePage(tag, a, level)
             tp == TablePage(v)
  <2>1. OnlyOthers(gp) /\ OnlyOthers(tp) /\ AddRawPages(gp, tp)
    BY <1>4, <1>5, <1>7
  <2> HIDE DEF gp, tp
  <2>2. \A p \in ToSet(gp \o tp) : OtherName(p.name)
    BY <2>1, OthersJoined
  <2> QED BY <2>1, <2>2, RawPagesOther
<1>8. UNCHANGED addr => SameSections(addr, addr')
  BY SameItself
<1> QED BY <1>6, <1>7, <1>8, Zenon

\* The names that other calls file are the test's own, or those of its frames.
LEMMA PlacingSpares ==
  ASSUME CallsInv, Placing, ~ AddSection
  PROVE  /\ SameSections(addr, addr') /\ UNCHANGED behind
         /\ Head(todo).do # "section"
<1> DEFINE c == Head(todo)
<1>1. CallTyped(cfg, c)
  BY PlacingChanges, HeadTyped
<1>2. \A n : TestName(n) => \A f, v : SameSections(f, Put(f, n, v)) /\ SameSections(f, [f EXCEPT ![n] = v])
  BY OtherNames, PutOther, ExceptOther
<1>3. \A n, m : OtherName(n) /\ OtherName(m) => \A f, v, w : SameSections(f, Put(Put(f, m, v), n, w))
  BY PutOther
<1>4. \A n : TestName(n) => OtherName(n) /\ OtherName(Derived(n, "phys", 0))
  BY OtherNames
<1>5. UNCHANGED addr => SameSections(addr, addr')
  BY SameItself
<1>6. CASE InitializePageMap
  <2>1. /\ c.do = "map" /\ UNCHANGED behind
        /\ UNCHANGED addr \/ \E a : addr' = Put(addr, Base(c.map), a)
    BY <1>6, Zenon DEF InitializePageMap, InitializeMap
  <2>2. TestName(Base(c.map))
    BY DEF TestName, Base
  <2> HIDE DEF c
  <2>3. SameSections(addr, addr')
    <3>1. CASE UNCHANGED addr
      BY <1>5, <3>1
    <3>2. CASE ~ UNCHANGED addr
      <4>1. PICK a : addr' = Put(addr, Base(c.map), a)
        BY <2>1, <3>2
      <4> QED BY <1>2, <2>2, <4>1, Zenon
    <3> QED BY <3>1, <3>2
  <2> QED BY <2>1, <2>3 DEF c
<1>7. CASE HandleResMem
  <2>1. c.do = "res_mem" /\ UNCHANGED <<behind, addr>>
    BY <1>7, Zenon DEF HandleResMem
  <2> QED BY <1>5, <2>1
<1>8. CASE HandleNormalPageMapping
  <2>1. c.do = "mapping" /\ UNCHANGED <<behind, addr>>
    BY <1>8, Zenon DEF HandleNormalPageMapping, Mapping
  <2> QED BY <1>5, <2>1
<1>9. CASE HandleRandomPageMapping
  <2>1. /\ c.do = "mapping" /\ UNCHANGED behind
        /\ UNCHANGED addr \/ \E a, lin : addr' = Put(Put(addr, Derived(c.name, "phys", 0), a), c.name, lin)
    BY <1>9, ZenonT(30) DEF HandleRandomPageMapping, Mapping
  <2>2. TestName(c.name)
    BY <1>1, <2>1 DEF CallTyped, MappingTyped
  <2> HIDE DEF c
  <2>3. SameSections(addr, addr')
    BY <1>3, <1>4, <1>5, <2>1, <2>2, Zenon
  <2> QED BY <2>1, <2>3 DEF c
<1>10. CASE HandleFixedPageMapping
  <2>1. /\ c.do = "mapping" /\ UNCHANGED behind
        /\ UNCHANGED addr \/ \E a, lin : addr' = IF c.pa = None THEN Put(addr, c.name, a)
                                  ELSE IF c.lin = None THEN Put(Put(addr, c.phys, a), c.name, lin)
                                  ELSE Put(addr, c.phys, a)
    BY <1>10, Zenon DEF HandleFixedPageMapping, Mapping
  <2>2. TestName(c.name) /\ TestName(c.phys)
    BY <1>1, <2>1 DEF CallTyped, MappingTyped
  <2> HIDE DEF c
  <2>3. \/ UNCHANGED addr
        \/ \E a : addr' = Put(addr, c.name, a)
        \/ \E a : addr' = Put(addr, c.phys, a)
        \/ \E a, lin : addr' = Put(Put(addr, c.phys, a), c.name, lin)
    BY <2>1
  <2>4. SameSections(addr, addr')
    <3>1. ASSUME NEW n, TestName(n), NEW a, addr' = Put(addr, n, a)  PROVE SameSections(addr, addr')
      BY <1>2, <3>1, Zenon
    <3>2. ASSUME NEW a, NEW lin, addr' = Put(Put(addr, c.phys, a), c.name, lin)
          PROVE  SameSections(addr, addr')
      BY <1>3, <1>4, <2>2, <3>2, Zenon
    <3> QED BY <1>5, <2>2, <2>3, <3>1, <3>2
  <2> QED BY <2>1, <2>4 DEF c
<1>11. CASE HandleRandomAddr
  <2>1. /\ c.do = "addr" /\ UNCHANGED behind
        /\ UNCHANGED addr \/ \E a : addr' = Put(addr, c.name, a)
    BY <1>11, Zenon DEF HandleRandomAddr
  <2>2. TestName(c.name)
    BY <1>1, <2>1 DEF CallTyped
  <2> HIDE DEF c
  <2>3. SameSections(addr, addr')
    <3>1. CASE UNCHANGED addr
      BY <1>5, <3>1
    <3>2. CASE ~ UNCHANGED addr
      <4>1. PICK a : addr' = Put(addr, c.name, a)
        BY <2>1, <3>2
      <4> QED BY <1>2, <2>2, <4>1, Zenon
    <3> QED BY <3>1, <3>2
  <2> QED BY <2>1, <2>3 DEF c
<1>12. CASE HandlePageMapping
  <2>1. /\ c.do = "page" /\ UNCHANGED behind
        /\ \E v : addr' = [addr EXCEPT ![c.mapping.name] = v]
    BY <1>12, Zenon DEF HandlePageMapping
  <2>2. TestName(c.mapping.name)
    BY <1>1, <2>1 DEF CallTyped, MappingTyped
  <2> HIDE DEF c
  <2>3. SameSections(addr, addr')
    <3>1. PICK v : addr' = [addr EXCEPT ![c.mapping.name] = v]
      BY <2>1
    <3> QED BY <1>2, <2>2, <3>1, Zenon
  <2> QED BY <2>1, <2>3 DEF c
<1> QED BY <1>6, <1>7, <1>8, <1>9, <1>10, <1>11, <1>12, Zenon DEF Placing

\* One call at most is made in a step.
LEMMA OneCall ==
  ASSUME Placing
  PROVE  UNCHANGED todo \/ todo' = Tail(todo)
BY ZenonT(60) DEF Placing, AddSection, InitializePageMap, HandleResMem, HandleNormalPageMapping,
   HandleRandomPageMapping, HandleFixedPageMapping, HandleRandomAddr, HandlePageMapping

\* Every step keeps the sections in one piece.
LEMMA SectionsStep ==
  ASSUME IInv, SectionsInv, [Next]_vars
  PROVE  SectionsInv'
<1>1. CASE AddSection
  <2>1. CASE stage' = "failed"
    <3>1. UNCHANGED <<cfg, addr, behind, todo>>
      <4>1. stage = "addresses"
        BY <1>1, Zenon DEF AddSection
      <4> QED BY <1>1, <2>1, <4>1, ZenonT(30) DEF AddSection, placeVars
    <3> QED BY <2>1, <3>1, SameItself, SectionsKept DEF IInv
  <2>2. CASE stage' # "failed"
    BY <1>1, <2>2, SectionAdded DEF IInv
  <2> QED BY <2>1, <2>2
<1>2. CASE Placing /\ ~ AddSection
  <2>1. SameSections(addr, addr') /\ UNCHANGED behind /\ Head(todo).do # "section"
    BY <1>2, PlacingSpares DEF IInv
  <2>2. /\ todo # << >> /\ UNCHANGED cfg
        /\ todo' = Tail(todo) \/ (UNCHANGED todo /\ stage' = "failed")
    BY <1>2, OneCall, PlacingChanges
  <2> QED BY <2>1, <2>2, SectionsKept DEF IInv
<1>3. CASE StartTables
  <2>1. UNCHANGED <<cfg, addr, behind, todo>> /\ todo = << >>
    BY <1>3, Zenon DEF StartTables
  <2> QED BY <2>1, SameItself, SectionsKept DEF IInv
<1>4. CASE Table
  <2>1. UNCHANGED <<cfg, behind, todo>> /\ stage = "tables"
    BY <1>4, Zenon DEF Table, FollowEntry, CreateTable, CreateLeaf
  <2>2. todo = << >>
    BY <2>1 DEF IInv, EntriesInv
  <2>3. SameSections(addr, addr')
    BY <1>4, TableSpares DEF IInv
  <2> QED BY <2>1, <2>2, <2>3, SectionsKept DEF IInv
<1>5. CASE UNCHANGED vars
  <2>1. UNCHANGED <<cfg, addr, behind, todo, stage>>
    BY <1>5, Zenon DEF vars, tableVars
  <2>2. Ahead(todo') /\ BehindInv' /\ PlacedInv'
    BY <2>1, SameItself, PlacedKept, BehindKept DEF SectionsInv
  <2>3. ChainInv'
    BY <2>1 DEF SectionsInv, ChainInv
  <2> QED BY <2>2, <2>3 DEF SectionsInv
<1> QED BY <1>1, <1>2, <1>3, <1>4, <1>5, Zenon DEF Next, Stop, Placing

\* In every state of a run the pages that were placed lie behind the first of their
\* section, and the next call continues where the last one ended.
THEOREM SectionsInvariant == Spec => []SectionsInv
<1>1. Init => SectionsInv
  <2> SUFFICES ASSUME NEW t \in Tests, InitOf(t)  PROVE SectionsInv
    BY DEF Init
  <2>1. cfg = t /\ todo = Calls(t) /\ DOMAIN addr = {} /\ behind = [s \in Sections |-> <<None, None>>]
    BY DEF InitOf
  <2>2. InTurn(todo, Sections)
    BY <2>1, CallsInTurn
  <2>3. Ahead(todo)
    BY <2>2 DEF InTurn, Ahead
  <2>4. BehindInv
    BY <2>1 DEF BehindInv, MaybeAddress
  <2>5. PlacedInv
    BY <2>1 DEF PlacedInv
  <2>6. ChainInv
    <3> SUFFICES ASSUME todo # << >>, Head(todo).do = "section", Head(todo).page > 1  PROVE FALSE
      BY DEF ChainInv
    <3>1. Calls(t) \in Seq(ToSet(Calls(t)))
      BY GeneratorAssumption
    <3>2. Head(todo) = todo[1] /\ 1 \in DOMAIN todo
      <4> DEFINE s == Calls(t)
      <4> HIDE DEF s
      <4> QED BY <2>1, <3>1 DEF s
    <3>3. 1 > 1
      BY <2>2, <3>2 DEF InTurn
    <3> QED BY <3>3
  <2> QED BY <2>3, <2>4, <2>5, <2>6 DEF SectionsInv
<1>2. IInv /\ SectionsInv /\ [Next]_vars => SectionsInv'
  BY SectionsStep
<1> QED BY <1>1, <1>2, InductiveInvariant, PTL DEF Spec

\* The pages of a section follow each other in both spaces.
THEOREM SectionsStayInOnePiece == Spec => []SectionsAreContiguous
<1>1. SectionsInv => SectionsAreContiguous
  <2> SUFFICES ASSUME SectionsInv, NEW s \in Sections \ {"selfcheck_data"}, NEW i \in PlacedPages(s)
               PROVE  /\ addr[SectionPage(s, i)] - addr[SectionPage(s, 1)] = (i - 1) * PageBytes
                      /\ addr[FrameName(s, i)] - addr[FrameName(s, 1)] = (i - 1) * PageBytes
    BY DEF SectionsAreContiguous, SectionPage, FrameName
  <2>1. i \in 1 .. SectionPages[s] /\ SectionPage(s, i) \in DOMAIN addr /\ SectionPages[s] \in Nat \ {0}
    BY GeneratorAssumption DEF PlacedPages, SectionPage, Names
  <2>2. PlacedPage(s, i)
    BY <2>1 DEF SectionsInv, PlacedInv
  <2>3. SectionPage(s, 1) \in DOMAIN addr /\ 1 \in 1 .. SectionPages[s]
    BY <2>1, <2>2 DEF PlacedPage
  <2>4. PlacedPage(s, 1)
    BY <2>3 DEF SectionsInv, PlacedInv
  <2> DEFINE d == (i - 1) * PageBytes
  <2>5. d \in Int
    BY <2>1, LevelSizes
  <2>6. /\ addr[SectionPage(s, i)] = addr[SectionPage(s, 1)] + d /\ addr[SectionPage(s, 1)] \in Nat
        /\ addr[FrameName(s, i)] = addr[FrameName(s, 1)] + d /\ addr[FrameName(s, 1)] \in Nat
    BY <2>2, <2>4 DEF PlacedPage
  <2> HIDE DEF d
  <2>7. /\ addr[SectionPage(s, i)] - addr[SectionPage(s, 1)] = d
        /\ addr[FrameName(s, i)] - addr[FrameName(s, 1)] = d
    BY <2>5, <2>6
  <2> QED BY <2>7 DEF d
<1> QED BY <1>1, SectionsInvariant, PTL

-----------------------------------------------------------------------------
(***************************************************************************)
(* Frames: the memory of a table holds no page.  What the generator places *)
(* is recorded in the physical space, where a table is only put into       *)
(* memory that nothing is recorded in; and pages come behind their frames. *)
(***************************************************************************)
\* What a space has marked or granted.
Ranges(sp) == sp.reserved \cup ToSet(sp.grants)

\* The frames of the tables that there are: the roots, and what entries name.
Tables == {root[m] : m \in DOMAIN root} \cup {pte[s].next : s \in {x \in DOMAIN pte : ~ pte[x].leaf}}

\* The page of tohost is held by its first bytes.
IoRecorded(sp) == \E r \in Ranges(sp) : r[1] = IoAddr /\ r[1] <= r[2]
Recorded(sp, f) == (\E r \in Ranges(sp) : Within(f, r)) \/ (f = PageAt(IoAddr) /\ IoRecorded(sp))

\* The memory f is recorded, and no table of ts lies in it.
HeldIn(sp, ts, f) == f \in Bounds /\ Recorded(sp, f) /\ \A t \in ts : ~ Overlaps(PageAt(t), f)
Held(f) == HeldIn(physical, Tables, f)
StillHeld(f) == HeldIn(physical', Tables', f)
HeldStays == \A f : Held(f) => StillHeld(f)
FrameOf(a, l) == <<a, a + LevelSize(l) - 1>>

\* The order of what generate() calls.
Rank == [section |-> 0, map |-> 1, res_mem |-> 2, mapping |-> 3, addr |-> 4, page |-> 5]
InOrder(calls) == \A i, j \in DOMAIN calls : i <= j => Rank[calls[i].do] <= Rank[calls[j].do]
OnlyFrom(k) == \A i \in DOMAIN todo : Rank[todo[i].do] >= k

\* A call for what the test declares.
AsTold(t, c) ==
    /\ c.do \in DOMAIN Rank
    /\ c.do = "map" => c.map \in MapNames(t)
    /\ c.do = "mapping" => c \in ToSet(t.mappings)
    /\ c.do = "addr" => c \in ToSet(t.addrs)
    /\ c.do = "page" => c.mapping \in NormalsOf(t)

\* The frame of a normal mapping is held as far as the page will reach; before it
\* is placed, that much is asked for.
SizeKept(m) ==
    LET l == geometry[m.name].level
    IN  /\ cfg.all4k /\ m.linked = << >> => l = 0
        /\ IF m.phys \in DOMAIN addr THEN Held(FrameOf(addr[m.phys], l))
                                     ELSE LevelSize(l) <= parsed[m.phys].size

\* Mappings are handled before any address of theirs is placed.
SizesKept == \A m \in NormalsOf(cfg) :
    /\ m.phys \in DOMAIN addr => OnlyFrom(4)
    /\ m.name \in DOMAIN geometry => SizeKept(m)

\* Tables are in frames that were granted; pages that own their frame, in memory
\* that is held; and what map_hyp and the tables add owns none.
TablesGranted == \A t \in Tables : t \in Nat /\ t \in Frames(physical)
PagesHeld == \A m \in MapNames(cfg) :
    /\ \A k \in DOMAIN pages[m] : OwnsFrame(pages[m][k]) => Held(Frame(pages[m][k]))
    /\ \A k \in DOMAIN pt_pages[m] : ~ OwnsFrame(pt_pages[m][k])

FramesInv ==
  cfg.paging /\ stage # "failed" =>
    /\ InOrder(todo)
    /\ DOMAIN root # {} => OnlyFrom(1)
    /\ TablesGranted
    /\ PagesHeld
    /\ stage = "addresses" => SizesKept

\* A multiple of n, and of a number that n divides.
LEMMA Multiples ==
  ASSUME NEW n \in Nat \ {0}, NEW k \in Int
  PROVE  (n * k) % n = 0
<1>1. PICK q \in Int, r \in Int : r = (n * k) % n /\ 0 <= r /\ r < n /\ n * k = n * q + r
  <2>1. n * k \in Int
    OBVIOUS
  <2> QED BY <2>1, Division
<1>2. n * k + 0 = n * q + r
  <2>1. n * k \in Int
    OBVIOUS
  <2> QED BY <1>1, <2>1
<1>3. 0 = r
  <2>1. 0 < n /\ 0 \in Int
    OBVIOUS
  <2> QED BY ONLY n \in Nat \ {0}, k \in Int, q \in Int, r \in Int, <1>1, <1>2, <2>1, QuotientUnique
<1> QED BY <1>1, <1>3

\* What a number divides is a multiple of it.
LEMMA MultipleOf ==
  ASSUME NEW n \in Nat \ {0}, NEW x \in Int, x % n = 0
  PROVE  \E k \in Int : x = n * k
<1>1. PICK q \in Int, r \in Int : q = x \div n /\ r = x % n /\ 0 <= r /\ r < n /\ x = n * q + r
  BY Division
<1>2. n * q \in Int /\ r = 0
  BY <1>1
<1>3. x = n * q
  BY <1>1, <1>2
<1> QED BY <1>3

\* Multiples of multiples.
LEMMA MultipleChain ==
  ASSUME NEW n \in Nat \ {0}, NEW w \in Nat \ {0}, NEW x \in Int, x % w = 0, w % n = 0
  PROVE  x % n = 0
<1>1. PICK k \in Int : x = w * k
  BY MultipleOf
<1>2. PICK j \in Int : w = n * j
  BY MultipleOf
<1>3. x = n * (j * k) /\ j * k \in Int
  <2>1. (n * j) * k = n * (j * k)
    OBVIOUS
  <2> QED BY <1>1, <1>2, <2>1
<1> QED BY <1>3, Multiples

\* A number rounded down to a multiple.
LEMMA RoundedDown ==
  ASSUME NEW n \in Nat \ {0}, NEW x \in Int
  PROVE  (x - (x % n)) % n = 0
<1>1. PICK q \in Int, r \in Int : r = x % n /\ x = n * q + r
  BY Division
<1>2. x - r = n * q
  <2>1. n * q \in Int
    OBVIOUS
  <2> QED BY <1>1, <2>1
<1> QED BY <1>1, <1>2, Multiples

\* The sizes of pages are multiples of the smallest.
LEMMA LevelsAreAligned ==
  ASSUME NEW l \in 0 .. TopLevel
  PROVE  LevelSize(l) % PageBytes = 0
<1> DEFINE S == {k \in 0 .. TopLevel : LevelSize(k) % PageBytes = 0}
<1>0. PageBytes \in Nat \ {0} /\ TopLevel \in Nat /\ TopLevel + 1 = Levels /\ Entries \in Nat \ {0}
  BY LevelSizes, PageTablesAssumption
<1>1. 0 \in S
  <2>0. LevelSize(0) = PageBytes /\ 0 \in 0 .. TopLevel
    BY <1>0, PageTablesAssumption
  <2>1. (PageBytes * 1) % PageBytes = 0 /\ PageBytes * 1 = PageBytes
    BY <1>0, Multiples
  <2> QED BY <2>0, <2>1
<1>2. ASSUME NEW k \in 0 .. TopLevel - 1, k \in S  PROVE k + 1 \in S
  <2>1. k \in 0 .. TopLevel /\ k \in 0 .. Levels /\ k + 1 \in 0 .. TopLevel /\ k + 1 \in 0 .. Levels
    BY <1>0
  <2>2. LevelSize(k + 1) = Entries * LevelSize(k) /\ LevelSize(k) \in Nat \ {0}
    BY <2>1, PageTablesAssumption
  <2>3. LevelSize(k) % PageBytes = 0
    BY <1>2
  <2>4. PICK j \in Int : LevelSize(k) = PageBytes * j
    <3>1. LevelSize(k) \in Int
      BY <2>2
    <3>2. PageBytes \in Nat \ {0}
      BY <1>0
    <3> QED BY ONLY <2>3, <3>1, <3>2, MultipleOf
  <2>5. Entries * LevelSize(k) = PageBytes * (Entries * j) /\ Entries * j \in Int
    <3>1. Entries * (PageBytes * j) = PageBytes * (Entries * j)
      BY <1>0
    <3> QED BY <1>0, <2>4, <3>1
  <2>6. LevelSize(k + 1) % PageBytes = 0
    BY <1>0, <2>2, <2>5, Multiples
  <2> QED BY <2>1, <2>6
<1> HIDE DEF S
<1>3. 0 .. TopLevel \subseteq S
  <2> DEFINE R == {k \in Nat \ {0} : k - 1 \in S}
  <2>1. 1 \in R
    BY <1>1
  <2>2. ASSUME NEW k \in 1 .. Levels - 1, k \in R  PROVE k + 1 \in R
    <3>1. k - 1 \in 0 .. TopLevel - 1 /\ k - 1 \in S /\ (k - 1) + 1 = k /\ (k + 1) - 1 = k
      BY <1>0, <2>2
    <3>2. k \in S
      BY <1>2, <3>1
    <3> QED BY <3>1, <3>2
  <2> HIDE DEF R
  <2>3. 1 .. Levels \subseteq R
    BY <1>0, <2>1, <2>2, Upward
  <2>4. ASSUME NEW k \in 0 .. TopLevel  PROVE k \in S
    <3>1. k + 1 \in R /\ (k + 1) - 1 = k
      BY <1>0, <2>3
    <3> QED BY <3>1 DEF R
  <2> QED BY <2>4
<1> QED BY <1>3 DEF S

\* The ranges of a space have bounds.
LEMMA RangesBounded ==
  ASSUME NEW Q, NEW sp, SpaceInv(sp, Q)
  PROVE  \A r \in Ranges(sp) : r \in Bounds
BY DEF SpaceInv, SpaceShape, Ranges, ToSet

\* A range that is marked joins the others.
LEMMA RangesReserve ==
  ASSUME NEW Q, NEW sp, SpaceInv(sp, Q), NEW lo \in Int, NEW size \in Int
  PROVE  Ranges(Reserve(sp, lo, size)) = Ranges(sp) \cup {<<lo, lo + size - 1>>}
<1>1. Reserve(sp, lo, size).grants = sp.grants
  BY ReserveKeeps
<1>2. Reserve(sp, lo, size).reserved = sp.reserved \cup {<<lo, lo + size - 1>>}
  <2>1. sp \in [super_cluster : {sp.super_cluster}, qualifier_size : {sp.qualifier_size},
               allocated : [Clusters -> SUBSET Bounds], grants : Seq(Bounds),
               reserved : SUBSET Bounds, available : {sp.available}]
    BY DEF SpaceInv, SpaceShape
  <2> QED BY <2>1 DEF Reserve
<1> QED BY <1>1, <1>2 DEF Ranges

\* An address that is granted is aligned.
LEMMA CandidatesAreAligned ==
  ASSUME NEW Q, NEW sp, SpaceShape(sp, Q), NEW c, c.qualifier \in Q, c.align \in Nat \ {0},
         c.size \in Nat \ {0}, NEW a \in Candidates(sp, c)
  PROVE  a % c.align = 0
<1>1. PICK i \in FindClusters(sp, c) : a \in Anywhere(sp, c, i) \cup Near(sp, c, i)
  BY DEF Candidates
<1>2. i \in Clusters
  BY <1>1 DEF FindClusters
<1>3. CASE a \in Anywhere(sp, c, i)
  BY <1>3 DEF Anywhere
<1>4. CASE a \in Near(sp, c, i)
  <2>1. PICK h \in sp.allocated[i] : a = AlignDown(h[1] - c.size, c) \/ a = AlignDown(h[2] + 1, c)
    BY <1>4 DEF Near
  <2>2. h[1] \in Int /\ h[2] \in Int
    BY <1>2 DEF SpaceShape, Bounds
  <2>3. h[1] - c.size \in Int /\ h[2] + 1 \in Int
    BY <2>2
  <2> QED BY <2>1, <2>3, RoundedDown DEF AlignDown
<1> QED BY <1>1, <1>3, <1>4

\* The frames of a space overlap no extent but their own.
LEMMA GrantMade ==
  ASSUME NEW q, NEW sp, SpaceInv(sp, {q}), NEW bytes \in Nat \ {0}, NEW align, NEW bits,
         NEW a \in Grantable(sp, Request(bytes, align, bits, q))
  PROVE  LET e == <<a, a + bytes - 1>>
         IN  /\ a \in Nat
             /\ Ranges(Allocate(sp, Request(bytes, align, bits, q), a)) = Ranges(sp) \cup {e}
             /\ \A r \in Ranges(sp) : ~ Overlaps(e, r)
             /\ \A t \in Frames(sp) : ~ Overlaps(PageAt(t), e)
             /\ align \in Nat \ {0} => a % align = 0
<1> DEFINE c == Request(bytes, align, bits, q)
           e == Extent(a, c)
           new == Allocate(sp, c, a)
<1>1. c.size = bytes /\ c.qualifier = q /\ c.align = align /\ a \in Candidates(sp, c)
  BY DEF Request, Grantable
<1>0. e = <<a, a + bytes - 1>>
  BY <1>1 DEF Extent
<1> HIDE DEF c
<1>2. SpaceShape(sp, {q}) /\ c.qualifier \in {q} /\ c.size \in Nat \ {0}
  BY <1>1 DEF SpaceInv
<1>3. /\ a \in Nat /\ e \in Bounds /\ e[1] = a /\ a <= e[2] /\ e[2] \in Int
      /\ ClusterOf(e[2]) = ClusterOf(a)
      /\ \A h \in sp.allocated[ClusterOf(a)] : ~ Overlaps(h, e)
  BY <1>1, <1>2, CandidatesAreFree DEF Bounds
<1>4. align \in Nat \ {0} => a % align = 0
  BY <1>1, <1>2, CandidatesAreAligned
<1>5. /\ new.grants = Append(sp.grants, e) /\ sp.grants \in Seq(Bounds)
      /\ new.reserved = sp.reserved
  <2> HIDE DEF e
  <2> QED BY <1>2 DEF SpaceShape, Allocate, e
<1> HIDE DEF e, new
<1>6. Ranges(new) = Ranges(sp) \cup {e}
  <2>1. ToSet(Append(sp.grants, e)) = ToSet(sp.grants) \cup {e}
    <3> DEFINE s == sp.grants
    <3>1. s \in Seq(Bounds)
      BY <1>5
    <3> HIDE DEF s
    <3>2. /\ DOMAIN Append(s, e) = DOMAIN s \cup {Len(s) + 1} /\ Append(s, e)[Len(s) + 1] = e
          /\ \A k \in DOMAIN s : Append(s, e)[k] = s[k]
      BY <3>1
    <3>3. ToSet(Append(s, e)) = ToSet(s) \cup {e}
      <4> HIDE DEF e
      <4> QED BY <3>2, Zenon DEF ToSet
    <3> QED BY <3>3 DEF s
  <2> QED BY <1>5, <2>1 DEF Ranges
<1>7. /\ \A k \in DOMAIN sp.grants : ~ Overlaps(sp.grants[k], e)
      /\ \A r \in sp.reserved : ~ Overlaps(e, r)
  BY <1>3, FreeOfGrants
<1>8. ASSUME NEW r \in Ranges(sp)  PROVE ~ Overlaps(e, r)
  <2>1. CASE r \in sp.reserved
    BY <1>7, <2>1
  <2>2. CASE r \in ToSet(sp.grants)
    <3>1. PICK k \in DOMAIN sp.grants : r = sp.grants[k]
      BY <2>2 DEF ToSet
    <3> QED BY <1>7, <3>1 DEF Overlaps
  <2> QED BY <2>1, <2>2 DEF Ranges
<1>9. ASSUME NEW t \in Frames(sp)  PROVE ~ Overlaps(PageAt(t), e)
  <2>1. PICK k \in DOMAIN sp.grants : PageBytes <= Size(sp.grants[k]) /\ t = sp.grants[k][1]
    BY DEF Frames
  <2>2. ~ Overlaps(sp.grants[k], e) /\ sp.grants[k][1] \in Int /\ sp.grants[k][2] \in Int
    BY <1>5, <1>7 DEF Bounds
  <2>3. e[1] \in Int /\ e[2] \in Int
    BY <1>3
  <2> QED BY <2>1, <2>2, <2>3, LevelSizes DEF Overlaps, PageAt, Size
<1> QED BY <1>0, <1>3, <1>4, <1>6, <1>8, <1>9 DEF new, c

\* More ranges record more.
LEMMA RecordedKept ==
  ASSUME NEW sp, NEW new, Ranges(sp) \subseteq Ranges(new), NEW f, Recorded(sp, f)
  PROVE  Recorded(new, f)
BY DEF Recorded, IoRecorded

\* A table in memory that nothing is recorded in holds no recorded page.
LEMMA TableIsFresh ==
  ASSUME NEW sp, \A r \in Ranges(sp) : r \in Bounds,
         NEW a \in Nat, NEW bytes \in Nat, PageBytes <= bytes, a % PageBytes = 0, IoAddr % PageBytes = 0,
         \A r \in Ranges(sp) : ~ Overlaps(<<a, a + bytes - 1>>, r),
         NEW f \in Bounds, Recorded(sp, f)
  PROVE  ~ Overlaps(PageAt(a), f)
<1>0. PageBytes \in Nat \ {0} /\ IoAddr \in Nat /\ f[1] \in Int /\ f[2] \in Int
  BY LevelSizes, GeneratorAssumption DEF Bounds
<1>1. CASE \E r \in Ranges(sp) : Within(f, r)
  <2>1. PICK r \in Ranges(sp) : Within(f, r)
    BY <1>1
  <2>2. r[1] \in Int /\ r[2] \in Int
    BY DEF Bounds
  <2>3. ~ Overlaps(<<a, a + bytes - 1>>, r)
    OBVIOUS
  <2> QED BY <1>0, <2>1, <2>2, <2>3 DEF Overlaps, Within, PageAt
<1>2. CASE f = PageAt(IoAddr) /\ IoRecorded(sp)
  <2>1. PICK r \in Ranges(sp) : r[1] = IoAddr /\ r[1] <= r[2]
    BY <1>2 DEF IoRecorded
  <2>2. r[1] \in Int /\ r[2] \in Int /\ ~ Overlaps(<<a, a + bytes - 1>>, r)
    BY DEF Bounds
  <2>3. a # IoAddr
    BY <1>0, <2>1, <2>2 DEF Overlaps
  <2> DEFINE n == PageBytes
             io == IoAddr
  <2>a. n \in Nat \ {0} /\ a \in Int /\ io \in Int /\ a % n = 0 /\ io % n = 0
    BY <1>0
  <2> HIDE DEF n, io
  <2>4. PICK k \in Int : a = n * k
    BY ONLY <2>a, MultipleOf
  <2>5. PICK j \in Int : io = n * j
    BY ONLY <2>a, MultipleOf
  <2> USE DEF n, io
  <2>6. a + PageBytes <= IoAddr \/ IoAddr + PageBytes <= a
    <3>1. k # j
      BY <2>3, <2>4, <2>5
    <3>2. CASE k < j
      <4>1. k + 1 <= j
        BY <3>2
      <4>2. PageBytes * (k + 1) <= PageBytes * j
        <5>1. \A x, y \in Int : x <= y => PageBytes * x <= PageBytes * y
          BY <1>0
        <5> QED BY <4>1, <5>1
      <4>3. PageBytes * (k + 1) = PageBytes * k + PageBytes
        BY <1>0
      <4> QED BY <2>4, <2>5, <4>2, <4>3
    <3>3. CASE j < k
      <4>1. j + 1 <= k
        BY <3>3
      <4>2. PageBytes * (j + 1) <= PageBytes * k
        <5>1. \A x, y \in Int : x <= y => PageBytes * x <= PageBytes * y
          BY <1>0
        <5> QED BY <4>1, <5>1
      <4>3. PageBytes * (j + 1) = PageBytes * j + PageBytes
        BY <1>0
      <4> QED BY <2>4, <2>5, <4>2, <4>3
    <3> QED BY <3>1, <3>2, <3>3
  <2>7. ASSUME Overlaps(PageAt(a), PageAt(IoAddr))  PROVE FALSE
    BY <1>0, <2>6, <2>7 DEF Overlaps, PageAt
  <2> QED BY <1>2, <2>7
<1> QED BY <1>1, <1>2 DEF Recorded

\* Calls of one kind, and calls in order up to a rank.
AllOf(calls, t, kind) == IsSeq(calls) /\ \A k \in DOMAIN calls : calls[k].do = kind /\ AsTold(t, calls[k])
UpTo(calls, t, hi) == /\ IsSeq(calls) /\ InOrder(calls)
                      /\ \A k \in DOMAIN calls : Rank[calls[k].do] <= hi /\ AsTold(t, calls[k])

\* Lists of n and m members, and the two joined.
Lengths(a, b, n, m) ==
    /\ DOMAIN a = 1 .. n /\ DOMAIN b = 1 .. m /\ DOMAIN (a \o b) = 1 .. n + m
    /\ \A k \in 1 .. n : (a \o b)[k] = a[k]
    /\ \A k \in n + 1 .. n + m : k - n \in 1 .. m /\ (a \o b)[k] = b[k - n]

\* Where the calls of a joined list come from.
LEMMA JoinedLists ==
  ASSUME NEW a, NEW b, IsSeq(a), IsSeq(b)
  PROVE  /\ IsSeq(a \o b)
         /\ \E n, m \in Nat : Lengths(a, b, n, m)
<1>1. PICK A : a \in Seq(A)
  BY DEF IsSeq
<1>2. PICK B : b \in Seq(B)
  BY DEF IsSeq
<1> DEFINE c == a \o b
           n == Len(a)
           m == Len(b)
<1>3. /\ c \in Seq(A \cup B) /\ DOMAIN c = 1 .. n + m /\ n \in Nat /\ m \in Nat
      /\ \A k \in 1 .. n : c[k] = a[k]
      /\ \A k \in n + 1 .. n + m : k - n \in 1 .. m /\ c[k] = b[k - n]
      /\ DOMAIN a = 1 .. n /\ DOMAIN b = 1 .. m
  BY <1>1, <1>2
<1> HIDE DEF c, n, m
<1>4. IsSeq(c)
  BY <1>3 DEF IsSeq
<1> QED BY <1>3, <1>4 DEF c, Lengths

\* Calls of one kind, joined.
LEMMA AllOfJoined ==
  ASSUME NEW a, NEW b, NEW t, NEW kind, AllOf(a, t, kind), AllOf(b, t, kind)
  PROVE  AllOf(a \o b, t, kind)
<1>1. PICK n, m \in Nat : Lengths(a, b, n, m)
  <2>1. IsSeq(a) /\ IsSeq(b)
    BY DEF AllOf
  <2> QED BY <2>1, JoinedLists, Zenon
<1>2. IsSeq(a \o b)
  BY JoinedLists DEF AllOf
<1> DEFINE c == a \o b
<1> HIDE DEF c
<1>3. ASSUME NEW k \in DOMAIN c  PROVE c[k].do = kind /\ AsTold(t, c[k])
  <2>1. k \in 1 .. n \/ k \in n + 1 .. n + m
    BY <1>1 DEF c, Lengths
  <2>2. CASE k \in 1 .. n
    BY <1>1, <2>2 DEF AllOf, c, Lengths
  <2>3. CASE k \in n + 1 .. n + m
    BY <1>1, <2>3 DEF AllOf, c, Lengths
  <2> QED BY <2>1, <2>2, <2>3
<1> QED BY <1>2, <1>3 DEF AllOf, c

\* Calls in order, and calls of the next kind behind them.
LEMMA UpToJoined ==
  ASSUME NEW a, NEW b, NEW t, NEW kind \in DOMAIN Rank, NEW hi \in Int, hi <= Rank[kind], UpTo(a, t, hi), AllOf(b, t, kind)
  PROVE  UpTo(a \o b, t, Rank[kind])
<1>1. PICK n, m \in Nat : Lengths(a, b, n, m)
  <2>1. IsSeq(a) /\ IsSeq(b)
    BY DEF AllOf, UpTo
  <2> QED BY <2>1, JoinedLists, Zenon
<1>2. IsSeq(a \o b)
  BY JoinedLists DEF AllOf, UpTo
<1> DEFINE c == a \o b
           r == Rank[kind]
<1>3. DOMAIN c = 1 .. n + m
  BY <1>1 DEF Lengths
<1> HIDE DEF c
<1>4. \A d \in DOMAIN Rank : Rank[d] \in Int
  BY DEF Rank
<1> HIDE DEF r
<1>5. ASSUME NEW k \in 1 .. n  PROVE c[k] = a[k] /\ AsTold(t, c[k]) /\ Rank[c[k].do] <= r /\ Rank[c[k].do] \in Int
  <2>1. c[k] = a[k] /\ Rank[c[k].do] <= hi /\ AsTold(t, c[k])
    BY <1>1 DEF UpTo, c, Lengths
  <2>2. Rank[c[k].do] \in Int /\ r \in Int /\ hi <= r
    BY <1>4, <2>1 DEF AsTold, r
  <2> QED BY <2>1, <2>2
<1>6. ASSUME NEW k \in n + 1 .. n + m  PROVE AsTold(t, c[k]) /\ Rank[c[k].do] = r
  <2>1. k - n \in DOMAIN b /\ c[k] = b[k - n]
    BY <1>1 DEF c, Lengths
  <2>2. b[k - n].do = kind /\ AsTold(t, b[k - n])
    BY <2>1 DEF AllOf
  <2> QED BY <2>1, <2>2 DEF r
<1>7. \A k \in 1 .. n + m : k \in 1 .. n \/ k \in n + 1 .. n + m
  OBVIOUS
<1>8. r \in Int
  BY <1>4 DEF r
<1>9. ASSUME NEW i \in DOMAIN c, NEW j \in DOMAIN c, i <= j  PROVE Rank[c[i].do] <= Rank[c[j].do]
  <2>1. CASE j \in 1 .. n
    <3>1. i \in 1 .. n
      BY <1>3, <1>9, <2>1
    <3>2. Rank[a[i].do] <= Rank[a[j].do]
      BY <1>1, <1>9, <2>1, <3>1 DEF UpTo, InOrder, Lengths
    <3> QED BY <1>5, <2>1, <3>1, <3>2
  <2>2. CASE j \in n + 1 .. n + m
    <3>1. Rank[c[j].do] = r
      BY <1>6, <2>2
    <3>2. Rank[c[i].do] <= r
      BY <1>3, <1>5, <1>6, <1>7, <1>8
    <3> QED BY <3>1, <3>2
  <2> QED BY <1>3, <1>7, <2>1, <2>2
<1>10. ASSUME NEW k \in DOMAIN c  PROVE Rank[c[k].do] <= r /\ AsTold(t, c[k])
  BY <1>3, <1>5, <1>6, <1>7, <1>8
<1> QED BY <1>2, <1>9, <1>10 DEF UpTo, InOrder, c, r

\* A list given by a function.
LEMMA ListOf ==
  ASSUME NEW n \in Nat, NEW f, DOMAIN f = 1 .. n, f = [i \in 1 .. n |-> f[i]]
  PROVE  IsSeq(f)
<1> DEFINE S == {f[i] : i \in 1 .. n}
<1>1. \A i \in 1 .. n : f[i] \in S
  OBVIOUS
<1> HIDE DEF S
<1>2. f \in Seq(S)
  BY <1>1
<1> QED BY <1>2 DEF IsSeq

\* The calls for sections.
LEMMA SectionCallsOnly ==
  ASSUME NEW t, NEW s \in Sections, NEW bytes, NEW place, NEW rest, NEW identity, NEW skip
  PROVE  AllOf(SectionCalls(s, bytes, place, rest, identity, skip), t, "section")
<1> DEFINE c == SectionCalls(s, bytes, place, rest, identity, skip)
           n == SectionPages[s]
<1>1. n \in Nat
  BY GeneratorAssumption
<1>2. DOMAIN c = 1 .. n /\ c = [i \in 1 .. n |-> c[i]]
  BY DEF SectionCalls
<1>3. \A i \in 1 .. n : c[i].do = "section"
  BY DEF SectionCalls, SectionCall
<1>4. "section" \in DOMAIN Rank
  BY DEF Rank
<1> HIDE DEF c, n
<1>5. IsSeq(c)
  BY <1>1, <1>2, ListOf
<1> QED BY <1>2, <1>3, <1>4, <1>5 DEF AllOf, AsTold, c

\* Those for a section and the ones that follow it.
LEMMA HandleSectionOnly ==
  ASSUME NEW t, NEW s \in Sections \ Followers
  PROVE  AllOf(HandleSection(t, s), t, "section")
<1>1. {"runtime", "code"} \cup Followers \subseteq Sections
  BY GeneratorAssumption
<1> DEFINE Good(c) == AllOf(c, t, "section")
<1>2. \A a, b : Good(a) /\ Good(b) => Good(a \o b)
  BY AllOfJoined
<1>3. \A x \in Sections : \A bytes, place, rest, identity, skip :
         Good(SectionCalls(x, bytes, place, rest, identity, skip))
  BY SectionCallsOnly
<1> HIDE DEF Good
<1>4. Good(RuntimeCalls(t))
  BY <1>1, <1>2, <1>3, Zenon DEF RuntimeCalls, Followers
<1>5. Good(CodeCalls(t))
  <2>1. "code" \in Sections /\ "code_super" \in Sections /\ "code_machine" \in Sections
    BY <1>1 DEF Followers
  <2> QED BY <1>2, <1>3, <2>1, Zenon DEF CodeCalls
<1>6. Good(HandleSection(t, s))
  BY <1>3, <1>4, <1>5 DEF HandleSection
<1> QED BY <1>6 DEF Good

\* And those for all sections.
LEMMA SectionPartOnly ==
  ASSUME NEW t \in Tests
  PROVE  AllOf(SectionPart(t), t, "section")
<1> DEFINE n == Len(t.sections)
           ss == [i \in DOMAIN t.sections |-> HandleSection(t, t.sections[i])]
<1>1. t.sections \in Seq(Sections \ Followers) /\ n \in Nat /\ DOMAIN t.sections = 1 .. n
  <2>1. PartsTyped(t)
    BY GeneratorAssumption
  <2>2. t.sections \in Seq(Sections \ Followers)
    BY <2>1 DEF PartsTyped
  <2> QED BY <2>2
<1>2. ASSUME NEW i \in 1 .. n  PROVE ss[i] = HandleSection(t, t.sections[i]) /\ AllOf(ss[i], t, "section")
  <2>1. t.sections[i] \in Sections \ Followers /\ ss[i] = HandleSection(t, t.sections[i])
    BY <1>1
  <2> HIDE DEF ss
  <2> QED BY <2>1, HandleSectionOnly
<1> DEFINE Q == {ss[i] : i \in 1 .. n}
<1>3. ss \in Seq(Q) /\ Len(ss) = n
  <2>1. DOMAIN ss = 1 .. n /\ ss = [i \in 1 .. n |-> ss[i]]
    BY <1>1
  <2>2. \A i \in 1 .. n : ss[i] \in Q
    OBVIOUS
  <2> HIDE DEF ss, Q, n
  <2> QED BY <1>1, <2>1, <2>2
<1>4. SectionPart(t) = FlattenSeq(ss)
  BY DEF SectionPart
<1> HIDE DEF ss, n, Q
<1>5. CASE n = 0
  <2>1. ss = << >> /\ Len(ss) = 0
    BY <1>3, <1>5, EmptySeq
  <2>2. SectionPart(t) = << >>
    BY <1>4, <2>1 DEF FlattenSeq
  <2>3. DOMAIN << >> = {}
    OBVIOUS
  <2> QED BY <2>2, <2>3, NamesGood DEF AllOf
<1>6. CASE n # 0
  <2>1. PICK f : Joins(f, ss, n) /\ FlattenSeq(ss) = f[n]
    BY <1>1, <1>3, <1>6, FlattenIs
  <2> DEFINE S == {k \in 1 .. n : AllOf(f[k], t, "section")}
  <2>2. 1 \in S
    BY <1>1, <1>2, <1>6, <2>1 DEF Joins
  <2>3. ASSUME NEW k \in 1 .. n - 1, k \in S  PROVE k + 1 \in S
    <3>1. k + 1 \in 1 .. n /\ k + 1 \in 2 .. n /\ (k + 1) - 1 = k
      BY <1>1
    <3>2. f[k + 1] = f[k] \o ss[k + 1]
      BY <2>1, <3>1 DEF Joins
    <3>3. AllOf(f[k], t, "section") /\ AllOf(ss[k + 1], t, "section")
      BY <1>2, <2>3, <3>1
    <3>4. AllOf(f[k] \o ss[k + 1], t, "section")
      BY <3>3, AllOfJoined
    <3> QED BY <3>1, <3>2, <3>4
  <2>4. n \in S
    <3> HIDE DEF S
    <3>1. 1 .. n \subseteq S
      BY <1>1, <2>2, <2>3, Upward
    <3> QED BY <1>1, <1>6, <3>1
  <2> QED BY <1>4, <2>1, <2>4
<1> QED BY <1>5, <1>6

\* A joined list has the members of both.
LEMMA JoinedIn ==
  ASSUME NEW a, NEW b, IsSeq(a), IsSeq(b)
  PROVE  ToSet(a) \subseteq ToSet(a \o b) /\ ToSet(b) \subseteq ToSet(a \o b)
<1>1. PICK n, m \in Nat : Lengths(a, b, n, m)
  BY JoinedLists, Zenon
<1> DEFINE c == a \o b
<1>2. \A k \in DOMAIN a : k \in DOMAIN c /\ c[k] = a[k]
  BY <1>1 DEF Lengths
<1>3. ASSUME NEW k \in DOMAIN b  PROVE k + n \in DOMAIN c /\ c[k + n] = b[k]
  <2>1. k \in 1 .. m /\ k + n \in n + 1 .. n + m /\ (k + n) - n = k /\ k + n \in 1 .. n + m
    BY <1>1 DEF Lengths
  <2> QED BY <1>1, <2>1 DEF Lengths
<1> HIDE DEF c
<1> QED BY <1>2, <1>3 DEF ToSet, c

\* generate() makes its calls in the order of their ranks, for what is declared.
LEMMA CallsInOrder ==
  ASSUME NEW t \in Tests
  PROVE  /\ InOrder(Calls(t)) /\ \A c \in ToSet(Calls(t)) : AsTold(t, c)
         /\ ToSet(t.mappings) \subseteq ToSet(Calls(t))
<1> DEFINE m1 == <<[do |-> "map", map |-> "map_os"]>>
           m2 == IF t.two_stage THEN <<[do |-> "map", map |-> "map_hyp"]>> ELSE << >>
           m3 == [i \in DOMAIN t.maps |-> [do |-> "map", map |-> t.maps[i]]]
           normal == NormalMappings(t)
           p == [i \in DOMAIN normal |-> [do |-> "page", mapping |-> normal[i]]]
           r == t.res_mems
           m == t.mappings
           s == t.addrs
<1>1. PartsTyped(t) /\ t.maps \in Seq(ToSet(t.maps))
  BY GeneratorAssumption
<1>2. \A c : AsTold(t, c) <=>
         /\ c.do \in {"section", "map", "res_mem", "mapping", "addr", "page"}
         /\ c.do = "map" => c.map \in MapNames(t)
         /\ c.do = "mapping" => c \in ToSet(t.mappings)
         /\ c.do = "addr" => c \in ToSet(t.addrs)
         /\ c.do = "page" => c.mapping \in NormalsOf(t)
  BY DEF AsTold, Rank
<1>3. AllOf(m1, t, "map")
  <2>1. m1 \in Seq({m1[1]}) /\ DOMAIN m1 = {1} /\ m1[1].do = "map" /\ m1[1].map = "map_os"
    OBVIOUS
  <2>2. "map_os" \in MapNames(t)
    BY DEF MapNames
  <2> HIDE DEF m1
  <2> QED BY <1>2, <2>1, <2>2 DEF IsSeq, AllOf
<1>4. AllOf(m2, t, "map")
  <2>1. CASE t.two_stage
    <3> DEFINE x == <<[do |-> "map", map |-> "map_hyp"]>>
    <3>1. x \in Seq({x[1]}) /\ DOMAIN x = {1} /\ x[1].do = "map" /\ x[1].map = "map_hyp"
      OBVIOUS
    <3>2. "map_hyp" \in MapNames(t)
      BY <2>1 DEF MapNames
    <3>3. m2 = x
      BY <2>1
    <3> HIDE DEF x, m2
    <3> QED BY <1>2, <3>1, <3>2, <3>3 DEF IsSeq, AllOf
  <2>2. CASE ~ t.two_stage
    <3>1. m2 = << >> /\ DOMAIN << >> = {}
      BY <2>2
    <3> HIDE DEF m2
    <3> QED BY <3>1, NamesGood DEF AllOf
  <2> QED BY <2>1, <2>2
<1>5. AllOf(m3, t, "map")
  <2>1. PICK n \in Nat : DOMAIN t.maps = 1 .. n
    BY <1>1
  <2>2. /\ DOMAIN m3 = 1 .. n /\ m3 = [i \in 1 .. n |-> m3[i]]
        /\ \A i \in 1 .. n : m3[i].do = "map" /\ m3[i].map = t.maps[i]
    BY <2>1
  <2>3. \A i \in 1 .. n : t.maps[i] \in MapNames(t)
    BY <2>1 DEF MapNames, ToSet
  <2> HIDE DEF m3
  <2>4. IsSeq(m3)
    BY <2>2, ListOf
  <2> QED BY <1>2, <2>2, <2>3, <2>4 DEF AllOf
<1>6. AllOf(r, t, "res_mem")
  <2> DEFINE R == [do : {"res_mem"}, linear : BOOLEAN, start : Int, size : Int]
  <2>1. \A x \in R : x.do = "res_mem"
    OBVIOUS
  <2>2. r \in Seq(R)
    BY <1>1 DEF PartsTyped
  <2> HIDE DEF R, r
  <2>3. \A k \in DOMAIN r : r[k] \in R
    BY <2>2
  <2> QED BY <1>2, <2>1, <2>2, <2>3 DEF AllOf, IsSeq
<1>7. AllOf(m, t, "mapping")
  <2>1. m \in Seq(ToSet(m)) /\ \A k \in DOMAIN m : m[k].do = "mapping"
    BY <1>1 DEF PartsTyped
  <2>2. \A k \in DOMAIN m : m[k] \in ToSet(t.mappings)
    BY DEF ToSet
  <2> HIDE DEF m
  <2>3. IsSeq(m)
    BY <2>1, Zenon DEF IsSeq
  <2> QED BY <1>2, <2>1, <2>2, <2>3 DEF AllOf
<1>8. AllOf(s, t, "addr")
  <2>1. s \in Seq(ToSet(s)) /\ \A k \in DOMAIN s : s[k].do = "addr"
    BY <1>1 DEF PartsTyped
  <2>2. \A k \in DOMAIN s : s[k] \in ToSet(t.addrs)
    BY DEF ToSet
  <2> HIDE DEF s
  <2>3. IsSeq(s)
    BY <2>1, Zenon DEF IsSeq
  <2> QED BY <1>2, <2>1, <2>2, <2>3 DEF AllOf
<1>9. AllOf(p, t, "page")
  <2>1. normal \in Seq(NormalsOf(t))
    BY <1>1 DEF PartsTyped
  <2>2. PICK n \in Nat : DOMAIN normal = 1 .. n
    BY <2>1
  <2>3. /\ DOMAIN p = 1 .. n /\ p = [i \in 1 .. n |-> p[i]]
        /\ \A i \in 1 .. n : p[i].do = "page" /\ p[i].mapping = normal[i]
    BY <2>2
  <2>4. \A i \in 1 .. n : normal[i] \in NormalsOf(t)
    BY <2>1, <2>2
  <2> HIDE DEF p, normal
  <2>5. IsSeq(p)
    BY <2>3, ListOf
  <2> QED BY <1>2, <2>3, <2>4, <2>5 DEF AllOf
<1> DEFINE a0 == SectionPart(t)
           a1 == a0 \o m1
           a2 == a1 \o m2
           a3 == a2 \o m3
           a4 == a3 \o r
           a5 == a4 \o m
           a6 == a5 \o s
           a7 == a6 \o p
<1> HIDE DEF m1, m2, m3, p, r, m, s
<1>10. UpTo(a0, t, 0)
  <2>1. AllOf(a0, t, "section")
    BY SectionPartOnly
  <2> QED BY <2>1 DEF AllOf, UpTo, Rank, InOrder
<1>11. /\ {"section", "map", "res_mem", "mapping", "addr", "page"} = DOMAIN Rank
       /\ Rank["section"] = 0 /\ Rank["map"] = 1 /\ Rank["res_mem"] = 2 /\ Rank["mapping"] = 3
       /\ Rank["addr"] = 4 /\ Rank["page"] = 5
  BY DEF Rank
<1>12. UpTo(a1, t, 1) /\ UpTo(a2, t, 1) /\ UpTo(a3, t, 1)
  <2>1. \A a, b : \A h \in {0, 1} : UpTo(a, t, h) /\ AllOf(b, t, "map") => UpTo(a \o b, t, 1)
    <3> SUFFICES ASSUME NEW a, NEW b, NEW h \in {0, 1}, UpTo(a, t, h), AllOf(b, t, "map")
                 PROVE  UpTo(a \o b, t, 1)
      OBVIOUS
    <3> DEFINE kind == "map"
    <3>1. kind \in DOMAIN Rank /\ h \in Int /\ h <= Rank[kind] /\ AllOf(b, t, kind) /\ Rank[kind] = 1
      BY <1>11
    <3> HIDE DEF kind
    <3>2. UpTo(a \o b, t, Rank[kind])
      BY <3>1, UpToJoined
    <3> QED BY <3>1, <3>2
  <2> HIDE DEF a0
  <2> QED BY <1>3, <1>4, <1>5, <1>10, <2>1
<1> HIDE DEF a3
<1>13. UpTo(a4, t, 2)
  <2> DEFINE kind == "res_mem"
             h == 1
  <2>1. kind \in DOMAIN Rank /\ h \in Int /\ h <= Rank[kind] /\ AllOf(r, t, kind) /\ UpTo(a3, t, h) /\ Rank[kind] = 2
    BY <1>6, <1>11, <1>12
  <2> HIDE DEF kind, h
  <2>2. UpTo(a3 \o r, t, Rank[kind])
    BY <2>1, UpToJoined
  <2> QED BY <2>1, <2>2
<1> HIDE DEF a4
<1>14. UpTo(a5, t, 3)
  <2> DEFINE kind == "mapping"
             h == 2
  <2>1. kind \in DOMAIN Rank /\ h \in Int /\ h <= Rank[kind] /\ AllOf(m, t, kind) /\ UpTo(a4, t, h) /\ Rank[kind] = 3
    BY <1>7, <1>11, <1>13
  <2> HIDE DEF kind, h
  <2>2. UpTo(a4 \o m, t, Rank[kind])
    BY <2>1, UpToJoined
  <2> QED BY <2>1, <2>2
<1> HIDE DEF a5
<1>15. UpTo(a6, t, 4)
  <2> DEFINE kind == "addr"
             h == 3
  <2>1. kind \in DOMAIN Rank /\ h \in Int /\ h <= Rank[kind] /\ AllOf(s, t, kind) /\ UpTo(a5, t, h) /\ Rank[kind] = 4
    BY <1>8, <1>11, <1>14
  <2> HIDE DEF kind, h
  <2>2. UpTo(a5 \o s, t, Rank[kind])
    BY <2>1, UpToJoined
  <2> QED BY <2>1, <2>2
<1> HIDE DEF a6
<1>16. UpTo(a7, t, 5)
  <2> DEFINE kind == "page"
             h == 4
  <2>1. kind \in DOMAIN Rank /\ h \in Int /\ h <= Rank[kind] /\ AllOf(p, t, kind) /\ UpTo(a6, t, h) /\ Rank[kind] = 5
    BY <1>9, <1>11, <1>15
  <2> HIDE DEF kind, h
  <2>2. UpTo(a6 \o p, t, Rank[kind])
    BY <2>1, UpToJoined
  <2> QED BY <2>1, <2>2
<1>17. Calls(t) = a7
  BY Zenon DEF Calls, m1, m2, m3, p, r, m, s, a3, a4, a5, a6
<1>18. ToSet(m) \subseteq ToSet(a7)
  <2>1. IsSeq(a4) /\ IsSeq(a5) /\ IsSeq(a6) /\ IsSeq(m) /\ IsSeq(s) /\ IsSeq(p)
    BY <1>7, <1>8, <1>9, <1>13, <1>14, <1>15 DEF UpTo, AllOf
  <2>2. ToSet(m) \subseteq ToSet(a5)
    BY <2>1, JoinedIn DEF a5
  <2>3. ToSet(a5) \subseteq ToSet(a6)
    BY <2>1, JoinedIn DEF a6
  <2>4. ToSet(a6) \subseteq ToSet(a7)
    BY <2>1, JoinedIn
  <2> QED BY <2>2, <2>3, <2>4
<1> HIDE DEF a7
<1> QED BY <1>16, <1>17, <1>18 DEF UpTo, ToSet, m

\* What the order of the calls says of the next one and of those behind it.
LEMMA NextInOrder ==
  ASSUME CallsInv, InOrder(todo), todo # << >>
  PROVE  /\ AsTold(cfg, Head(todo)) /\ Rank[Head(todo).do] \in Int
         /\ OnlyFrom(Rank[Head(todo).do])
         /\ todo' = Tail(todo) => /\ InOrder(todo)'
                                  /\ \A k : OnlyFrom(k) => OnlyFrom(k)'
<1>1. /\ Head(todo) = todo[1] /\ 1 \in DOMAIN todo
      /\ \A k \in DOMAIN Tail(todo) : k + 1 \in DOMAIN todo /\ Tail(todo)[k] = todo[k + 1] /\ k \in Nat \ {0}
  BY HeadTyped
<1>2. AsTold(cfg, Head(todo))
  <2>1. todo[1] \in ToSet(Calls(cfg)) /\ cfg \in Tests
    BY <1>1 DEF CallsInv
  <2> QED BY <1>1, <2>1, CallsInOrder
<1>3. Rank[Head(todo).do] \in Int
  BY <1>2 DEF AsTold, Rank
<1>4. OnlyFrom(Rank[Head(todo).do])
  <2>1. \A i \in DOMAIN todo : 1 <= i
    BY DEF CallsInv
  <2> QED BY <1>1, <2>1 DEF InOrder, OnlyFrom
<1>5. ASSUME todo' = Tail(todo)
      PROVE  InOrder(todo)' /\ \A k : OnlyFrom(k) => OnlyFrom(k)'
  <2>1. \A k \in DOMAIN todo' : k + 1 \in DOMAIN todo /\ todo'[k] = todo[k + 1] /\ k \in Nat \ {0}
    BY <1>1, <1>5
  <2>2. ASSUME NEW i \in DOMAIN todo', NEW j \in DOMAIN todo', i <= j
        PROVE  Rank[todo'[i].do] <= Rank[todo'[j].do]
    <3>1. i + 1 <= j + 1 /\ i + 1 \in DOMAIN todo /\ j + 1 \in DOMAIN todo
      BY <2>1, <2>2
    <3> QED BY <2>1, <3>1 DEF InOrder
  <2>3. ASSUME NEW k, OnlyFrom(k)  PROVE OnlyFrom(k)'
    BY <2>1, <2>3 DEF OnlyFrom
  <2> QED BY <2>2, <2>3 DEF InOrder
<1> QED BY <1>2, <1>3, <1>4, <1>5

\* Memory that is held stays so when nothing but ranges is added.
LEMMA HeldWithRanges ==
  ASSUME TablesGranted, Ranges(physical) \subseteq Ranges(physical)',
         Frames(physical) \subseteq Frames(physical)', Tables' \subseteq Tables
  PROVE  HeldStays /\ TablesGranted'
<1>1. ASSUME NEW f, Held(f)  PROVE StillHeld(f)
  <2>1. Recorded(physical', f)
    BY <1>1, RecordedKept DEF Held, HeldIn
  <2> QED BY <1>1, <2>1 DEF Held, StillHeld, HeldIn
<1>2. TablesGranted'
  BY DEF TablesGranted
<1> QED BY <1>1, <1>2 DEF HeldStays

\* And when a table is put into memory that nothing is recorded in.
LEMMA HeldWithTable ==
  ASSUME TablesGranted, SpacesInv, FramesAreOwned, NEW bytes \in Nat \ {0}, NEW align \in Nat \ {0}, NEW bits,
         PageBytes <= bytes, align % PageBytes = 0,
         NEW a \in Grantable(physical, Request(bytes, align, bits, "dram")),
         physical' = Allocate(physical, Request(bytes, align, bits, "dram"), a),
         Tables' \subseteq Tables \cup {a}
  PROVE  HeldStays /\ TablesGranted'
<1> DEFINE e == <<a, a + bytes - 1>>
<1>1. /\ a \in Nat /\ Ranges(physical') = Ranges(physical) \cup {e}
      /\ \A r \in Ranges(physical) : ~ Overlaps(e, r)
      /\ a % align = 0
  <2>1. SpaceInv(physical, {"dram"})
    BY DEF SpacesInv
  <2>2. LET x == <<a, a + bytes - 1>>
        IN  /\ a \in Nat
            /\ Ranges(Allocate(physical, Request(bytes, align, bits, "dram"), a)) = Ranges(physical) \cup {x}
            /\ \A r \in Ranges(physical) : ~ Overlaps(x, r)
            /\ \A t \in Frames(physical) : ~ Overlaps(PageAt(t), x)
            /\ align \in Nat \ {0} => a % align = 0
    BY ONLY <2>1, GrantMade, a \in Grantable(physical, Request(bytes, align, bits, "dram")), bytes \in Nat \ {0}
  <2> QED BY <2>2
<1>2. a \in Frames(physical') /\ Frames(physical) \subseteq Frames(physical')
  BY GrownAllocate DEF SpacesInv, Grown
<1>3. a % PageBytes = 0
  BY <1>1, LevelSizes, MultipleChain
<1>4. \A r \in Ranges(physical) : r \in Bounds
  BY RangesBounded DEF SpacesInv
<1>5. ASSUME NEW f, Held(f)  PROVE StillHeld(f)
  <2>1. f \in Bounds /\ Recorded(physical, f) /\ \A t \in Tables : ~ Overlaps(PageAt(t), f)
    BY <1>5 DEF Held, HeldIn
  <2>2. ~ Overlaps(PageAt(a), f)
    <3>1. IoAddr % PageBytes = 0
      BY DEF FramesAreOwned
    <3> QED BY <1>1, <1>3, <1>4, <2>1, <3>1, TableIsFresh
  <2>3. Recorded(physical', f)
    <3>1. Ranges(physical) \subseteq Ranges(physical')
      BY <1>1
    <3> QED BY <2>1, <3>1, RecordedKept
  <2> QED BY <2>1, <2>2, <2>3 DEF Held, StillHeld, HeldIn
<1>6. TablesGranted'
  BY <1>1, <1>2 DEF TablesGranted
<1> QED BY <1>5, <1>6 DEF HeldStays

\* What lies in an extent that is granted now is held, tables being elsewhere.
LEMMA GrantHeld ==
  ASSUME TablesGranted, SpacesInv, NEW bytes \in Nat \ {0}, NEW align, NEW bits,
         NEW a \in Grantable(physical, Request(bytes, align, bits, "dram")),
         physical' = Allocate(physical, Request(bytes, align, bits, "dram"), a),
         Tables' \subseteq Tables
  PROVE  /\ HeldStays /\ TablesGranted' /\ a \in Nat
         /\ \A n \in Nat \ {0} : n <= bytes => StillHeld(<<a, a + n - 1>>)
<1> DEFINE e == <<a, a + bytes - 1>>
<1>1. /\ a \in Nat /\ Ranges(physical') = Ranges(physical) \cup {e}
      /\ \A t \in Frames(physical) : ~ Overlaps(PageAt(t), e)
  <2>1. SpaceInv(physical, {"dram"})
    BY DEF SpacesInv
  <2>2. LET x == <<a, a + bytes - 1>>
        IN  /\ a \in Nat
            /\ Ranges(Allocate(physical, Request(bytes, align, bits, "dram"), a)) = Ranges(physical) \cup {x}
            /\ \A r \in Ranges(physical) : ~ Overlaps(x, r)
            /\ \A t \in Frames(physical) : ~ Overlaps(PageAt(t), x)
            /\ align \in Nat \ {0} => a % align = 0
    BY ONLY <2>1, GrantMade, a \in Grantable(physical, Request(bytes, align, bits, "dram")), bytes \in Nat \ {0}
  <2> QED BY <2>2
<1>2. Frames(physical) \subseteq Frames(physical')
  BY GrownAllocate DEF SpacesInv, Grown
<1>3. HeldStays /\ TablesGranted'
  <2>1. Ranges(physical) \subseteq Ranges(physical')
    BY <1>1
  <2> QED BY <1>2, <2>1, HeldWithRanges
<1>4. ASSUME NEW n \in Nat \ {0}, n <= bytes  PROVE StillHeld(<<a, a + n - 1>>)
  <2> DEFINE f == <<a, a + n - 1>>
  <2>1. f \in Bounds /\ Within(f, e)
    BY <1>1, <1>4 DEF Bounds, Within
  <2>2. Recorded(physical', f)
    BY <1>1, <2>1 DEF Recorded
  <2>3. ASSUME NEW t \in Tables  PROVE ~ Overlaps(PageAt(t), f)
    <3>1. t \in Nat /\ ~ Overlaps(PageAt(t), e)
      BY <1>1 DEF TablesGranted
    <3>2. PageAt(t)[1] \in Int /\ PageAt(t)[2] \in Int
      BY <3>1, LevelSizes DEF PageAt
    <3> QED BY <1>1, <1>4, <3>1, <3>2 DEF Overlaps
  <2> HIDE DEF f
  <2>5. StillHeld(f)
    BY <2>1, <2>2, <2>3 DEF StillHeld, HeldIn
  <2> QED BY <2>5 DEF f
<1> QED BY <1>1, <1>3, <1>4

\* A range that is marked holds pages when there are no tables yet.
LEMMA ReserveHeld ==
  ASSUME SpacesInv, NEW lo \in Int, NEW size \in Int,
         physical' = Reserve(physical, lo, size), Tables' = {}
  PROVE  /\ \A n \in Nat \ {0} : n <= size => StillHeld(<<lo, lo + n - 1>>)
         /\ lo = IoAddr /\ size \in Nat \ {0} => StillHeld(PageAt(lo))
<1>1. Ranges(physical') = Ranges(physical) \cup {<<lo, lo + size - 1>>}
  BY RangesReserve DEF SpacesInv
<1>3. ASSUME NEW n \in Nat \ {0}, n <= size  PROVE StillHeld(<<lo, lo + n - 1>>)
  <2> DEFINE f == <<lo, lo + n - 1>>
  <2>1. f \in Bounds /\ Within(f, <<lo, lo + size - 1>>)
    BY <1>3 DEF Bounds, Within
  <2>2. Recorded(physical', f)
    BY <1>1, <2>1 DEF Recorded
  <2> HIDE DEF f
  <2>3. StillHeld(f)
    BY <2>1, <2>2 DEF StillHeld, HeldIn
  <2> QED BY <2>3 DEF f
<1>4. ASSUME lo = IoAddr, size \in Nat \ {0}  PROVE StillHeld(PageAt(lo))
  <2>1. IoRecorded(physical')
    <3> DEFINE r == <<lo, lo + size - 1>>
    <3>1. r[1] = IoAddr /\ r[1] <= r[2]
      BY <1>4
    <3>2. r \in Ranges(physical')
      BY <1>1
    <3> HIDE DEF r
    <3> QED BY <3>1, <3>2, Zenon DEF IoRecorded
  <2>2. PageAt(lo) \in Bounds
    BY LevelSizes DEF PageAt, Bounds
  <2>3. Recorded(physical', PageAt(lo))
    BY <1>4, <2>1 DEF Recorded
  <2> QED BY <2>2, <2>3 DEF StillHeld, HeldIn
<1> QED BY <1>3, <1>4

\* Members of a list that is joined of two.
LEMMA JoinedMembers ==
  ASSUME NEW a, NEW b, GoodPages(a), GoodPages(b)
  PROVE  \A k \in DOMAIN (a \o b) : \/ \E i \in DOMAIN a : (a \o b)[k] = a[i]
                                    \/ \E i \in DOMAIN b : (a \o b)[k] = b[i]
<1>1. IsSeq(a) /\ IsSeq(b)
  BY Zenon DEF GoodPages, IsSeq
<1>2. PICK n, m \in Nat : Lengths(a, b, n, m)
  BY <1>1, JoinedLists, Zenon
<1> SUFFICES ASSUME NEW k \in DOMAIN (a \o b)
             PROVE  \/ \E i \in DOMAIN a : (a \o b)[k] = a[i]
                    \/ \E i \in DOMAIN b : (a \o b)[k] = b[i]
  OBVIOUS
<1>3. k \in 1 .. n \/ k \in n + 1 .. n + m
  BY <1>2 DEF Lengths
<1>4. CASE k \in 1 .. n
  BY <1>2, <1>4 DEF Lengths
<1>5. CASE k \in n + 1 .. n + m
  BY <1>2, <1>5 DEF Lengths
<1> QED BY <1>3, <1>4, <1>5

\* Lists of pages whose frames are held, now and after a step, or that own none.
HeldPages(s) == \A k \in DOMAIN s : OwnsFrame(s[k]) => Held(Frame(s[k]))
StillHeldPages(s) == \A k \in DOMAIN s : OwnsFrame(s[k]) => StillHeld(Frame(s[k]))

\* Such lists joined.
LEMMA HeldJoined ==
  ASSUME NEW a, NEW b, GoodPages(a), GoodPages(b)
  PROVE  /\ StillHeldPages(a) /\ StillHeldPages(b) => StillHeldPages(a \o b)
         /\ OwnNone(a) /\ OwnNone(b) => OwnNone(a \o b)
<1> DEFINE c == a \o b
<1>1. \A k \in DOMAIN c : (\E i \in DOMAIN a : c[k] = a[i]) \/ (\E i \in DOMAIN b : c[k] = b[i])
  BY ONLY GoodPages(a), GoodPages(b), JoinedMembers
<1> HIDE DEF c
<1>2. ASSUME StillHeldPages(a), StillHeldPages(b)  PROVE StillHeldPages(c)
  BY <1>1, <1>2, Zenon DEF StillHeldPages
<1>3. ASSUME OwnNone(a), OwnNone(b)  PROVE OwnNone(c)
  BY <1>1, <1>3, Zenon DEF OwnNone
<1> QED BY <1>2, <1>3 DEF c

\* Pages that are held stay so.
LEMMA HeldPagesStay ==
  ASSUME HeldStays, NEW s, HeldPages(s)
  PROVE  StillHeldPages(s)
BY Zenon DEF HeldStays, HeldPages, StillHeldPages

\* The invariant, list by list.
LEMMA PagesHeldLists ==
  /\ PagesHeld <=> \A m \in MapNames(cfg) : HeldPages(pages[m]) /\ OwnNone(pt_pages[m])
  /\ UNCHANGED cfg =>
        ((\A m \in MapNames(cfg) : StillHeldPages(pages'[m]) /\ OwnNone(pt_pages'[m])) => PagesHeld')
<1>1. PagesHeld <=> \A m \in MapNames(cfg) : HeldPages(pages[m]) /\ OwnNone(pt_pages[m])
  BY Zenon DEF PagesHeld, HeldPages, OwnNone
<1>2. ASSUME UNCHANGED cfg,
             \A m \in MapNames(cfg) : StillHeldPages(pages'[m]) /\ OwnNone(pt_pages'[m])
      PROVE  PagesHeld'
  <2>1. MapNames(cfg)' = MapNames(cfg)
    BY <1>2 DEF MapNames
  <2>2. \A m \in MapNames(cfg) : (HeldPages(pages[m]) /\ OwnNone(pt_pages[m]))'
    BY <1>2 DEF HeldPages, StillHeldPages, Held, StillHeld, Frame, OwnsFrame, OwnNone
  <2> QED BY <2>1, <2>2 DEF PagesHeld, HeldPages, OwnNone
<1> QED BY <1>1, <1>2

\* Pages are added whose frames are held.
LEMMA PagesHeldAdded ==
  ASSUME PagesInv, PagesHeld, HeldStays, UNCHANGED <<cfg, pt_pages>>,
         NEW ms, NEW ps, GoodPages(ps), pages' = AddPages(ms, ps), StillHeldPages(ps)
  PROVE  PagesHeld'
<1>1. DOMAIN pages = MapNames(cfg) /\ pt_pages' = pt_pages /\ cfg' = cfg
  BY DEF PagesInv
<1>2. ASSUME NEW m \in MapNames(cfg)  PROVE StillHeldPages(pages'[m]) /\ OwnNone(pt_pages'[m])
  <2>1. pages'[m] = pages[m] \/ pages'[m] = pages[m] \o ps
    BY <1>1 DEF AddPages
  <2>2. GoodPages(pages[m]) /\ HeldPages(pages[m]) /\ OwnNone(pt_pages[m])
    BY PagesHeldLists DEF PagesInv
  <2>3. StillHeldPages(pages[m])
    BY <2>2, HeldPagesStay
  <2>4. StillHeldPages(pages[m] \o ps)
    <3> DEFINE a == pages[m]
    <3>1. GoodPages(a) /\ StillHeldPages(a)
      BY <2>2, <2>3
    <3> HIDE DEF a
    <3>2. StillHeldPages(a \o ps)
      BY <3>1, HeldJoined
    <3> QED BY <3>2 DEF a
  <2> QED BY <1>1, <2>1, <2>2, <2>3, <2>4
<1> QED BY <1>1, <1>2, PagesHeldLists

\* No page is added.
LEMMA PagesHeldSame ==
  ASSUME PagesHeld, HeldStays, UNCHANGED <<cfg, pages, pt_pages>>
  PROVE  PagesHeld'
<1>1. pages' = pages /\ pt_pages' = pt_pages /\ cfg' = cfg
  OBVIOUS
<1>2. \A m \in MapNames(cfg) : StillHeldPages(pages[m]) /\ OwnNone(pt_pages[m])
  BY PagesHeldLists, HeldPagesStay
<1> QED BY <1>1, <1>2, PagesHeldLists

\* Pages are added that own no frame.
LEMMA PagesHeldRaw ==
  ASSUME PagesInv, PagesHeld, HeldStays, UNCHANGED <<cfg, pages>>,
         NEW gp, NEW tp, GoodPages(gp), GoodPages(tp), AddRawPages(gp, tp), OwnNone(gp), OwnNone(tp)
  PROVE  PagesHeld'
<1>1. DOMAIN pt_pages = MapNames(cfg) /\ pages' = pages /\ cfg' = cfg
  BY DEF PagesInv
<1>2. ASSUME NEW m \in MapNames(cfg)  PROVE StillHeldPages(pages'[m]) /\ OwnNone(pt_pages'[m])
  <2> DEFINE g == IF m = "map_hyp" THEN gp ELSE << >>
             t == IF m = cursor.map THEN tp ELSE << >>
             a == pt_pages[m]
             b == a \o g
  <2>1. pt_pages'[m] = b \o t
    BY <1>1 DEF AddRawPages
  <2>2. GoodPages(a) /\ OwnNone(a) /\ StillHeldPages(pages[m])
    BY PagesHeldLists, HeldPagesStay DEF PagesInv
  <2>3. GoodPages(<< >>) /\ OwnNone(<< >>)
    BY GoodOne DEF OwnNone
  <2>4. GoodPages(g) /\ OwnNone(g)
    BY <2>3
  <2>5. GoodPages(t) /\ OwnNone(t)
    BY <2>3
  <2> HIDE DEF a, g, t
  <2>6. GoodPages(b) /\ OwnNone(b)
    BY <2>2, <2>4, GoodConcat, HeldJoined
  <2> HIDE DEF b
  <2>7. OwnNone(b \o t)
    BY <2>5, <2>6, HeldJoined
  <2> QED BY <1>1, <2>1, <2>2, <2>7
<1> QED BY <1>1, <1>2, PagesHeldLists

\* A list of one page.
LEMMA OnePageHeld ==
  ASSUME NEW p
  PROVE  /\ (OwnsFrame(p) => StillHeld(Frame(p))) => StillHeldPages(<<p>>)
         /\ ~ OwnsFrame(p) => OwnNone(<<p>>)
         /\ OwnNone(<< >>)
<1>1. DOMAIN <<p>> = {1} /\ <<p>>[1] = p /\ DOMAIN << >> = {}
  OBVIOUS
<1>2. ASSUME OwnsFrame(p) => StillHeld(Frame(p))  PROVE StillHeldPages(<<p>>)
  <2> DEFINE s == <<p>>
  <2>1. DOMAIN s = {1} /\ s[1] = p
    BY <1>1
  <2> HIDE DEF s
  <2>2. StillHeldPages(s)
    BY <1>2, <2>1 DEF StillHeldPages
  <2> QED BY <2>2 DEF s
<1> QED BY <1>1, <1>2 DEF OwnNone

\* The pages of map_hyp and of tables own no frame.
LEMMA StagePagesOwnNone ==
  /\ \A tag, a, level : OwnNone(GStagePage(tag, a, level))
  /\ \A v : OwnNone(TablePage(v))
<1>1. \A n, va, pa, level : /\ ~ OwnsFrame([Page4K(n, va, pa, "identity") EXCEPT !.level = level])
                            /\ ~ OwnsFrame(Page4K(n, va, pa, "table"))
  BY DEF OwnsFrame, Page4K
<1>2. OwnNone(<< >>)
  BY OnePageHeld
<1>3. ASSUME NEW tag, NEW a, NEW level  PROVE OwnNone(GStagePage(tag, a, level))
  <2> DEFINE n == Derived(Current.name, tag, cursor.level)
             b == a - (a % LevelSize(level))
             p == [Page4K(n, b, b, "identity") EXCEPT !.level = level]
  <2>1. GStagePage(tag, a, level) = << >> \/ GStagePage(tag, a, level) = <<p>>
    BY Zenon DEF GStagePage
  <2>2. ~ OwnsFrame(p)
    BY <1>1
  <2> HIDE DEF p
  <2> QED BY <1>2, <2>1, <2>2, OnePageHeld
<1>4. ASSUME NEW v  PROVE OwnNone(TablePage(v))
  <2> DEFINE p == Page4K(Derived(Current.name, "pt_level", cursor.level), v, cursor.table, "table")
  <2>1. TablePage(v) = << >> \/ TablePage(v) = <<p>>
    BY Zenon DEF TablePage
  <2>2. ~ OwnsFrame(p)
    BY <1>1
  <2> HIDE DEF p
  <2> QED BY <1>2, <2>1, <2>2, OnePageHeld
<1> QED BY <1>3, <1>4

\* The sizes stay enough when nothing is done to the names of the normal mappings.
LEMMA SizesSame ==
  ASSUME SizesKept, HeldStays, UNCHANGED cfg,
         \A k : OnlyFrom(k) => OnlyFrom(k)',
         \A m \in NormalsOf(cfg) :
            /\ (m.phys \in DOMAIN addr' <=> m.phys \in DOMAIN addr)
            /\ m.phys \in DOMAIN addr => addr'[m.phys] = addr[m.phys]
            /\ m.name \in DOMAIN geometry' => (m.name \in DOMAIN geometry /\ geometry'[m.name] = geometry[m.name])
            /\ parsed'[m.phys] = parsed[m.phys]
  PROVE  SizesKept'
<1>1. NormalsOf(cfg)' = NormalsOf(cfg)
  BY DEF NormalsOf, ToSet
<1>2. ASSUME NEW m \in NormalsOf(cfg)  PROVE m.phys \in DOMAIN addr' => OnlyFrom(4)'
  BY DEF SizesKept
<1>3. ASSUME NEW m \in NormalsOf(cfg), m.name \in DOMAIN geometry'  PROVE SizeKept(m)'
  <2>1. SizeKept(m) /\ geometry'[m.name] = geometry[m.name]
    BY <1>3 DEF SizesKept
  <2> DEFINE l == geometry[m.name].level
             f == FrameOf(addr[m.phys], l)
  <2>2. m.phys \in DOMAIN addr => StillHeld(f)
    <3>1. m.phys \in DOMAIN addr => Held(f)
      BY <2>1 DEF SizeKept
    <3> HIDE DEF f
    <3> QED BY <3>1 DEF HeldStays
  <2>3. m.phys \in DOMAIN addr' => HeldIn(physical', Tables', FrameOf(addr'[m.phys], geometry'[m.name].level))
    BY <2>1, <2>2 DEF StillHeld
  <2>4. cfg'.all4k /\ m.linked = << >> => geometry'[m.name].level = 0
    BY <2>1 DEF SizeKept
  <2>5. m.phys \notin DOMAIN addr' => LevelSize(geometry'[m.name].level) <= parsed'[m.phys].size
    BY <2>1 DEF SizeKept
  <2> HIDE DEF f, l
  <2> QED BY <2>3, <2>4, <2>5 DEF SizeKept, Held, FrameOf, LevelSize
<1> QED BY <1>1, <1>2, <1>3 DEF SizesKept

\* What a step may rely on, and what it must keep.
Framing == cfg.paging /\ stage # "failed" /\ FramesAreOwned /\ IInv /\ SectionsInv /\ FramesInv
Framed == HeldStays /\ TablesGranted' /\ PagesHeld' /\ (stage' = "addresses" => SizesKept')

\* The names of the normal mappings are the test's own.
LEMMA NormalNames ==
  ASSUME NEW t \in Tests, NEW m \in ToSet(t.mappings)
  PROVE  CallTyped(t, m) /\ MappingTyped(m) /\ TestName(m.phys) /\ TestName(m.name)
<1>1. m \in ToSet(Calls(t))
  BY CallsInOrder
<1>2. CallTyped(t, m)
  BY <1>1, GeneratorAssumption DEF ToSet
<1>3. m.do = "mapping"
  <2>1. PartsTyped(t)
    BY GeneratorAssumption
  <2> QED BY <2>1 DEF PartsTyped, ToSet
<1>4. MappingTyped(m)
  BY <1>2, <1>3 DEF CallTyped
<1> QED BY <1>2, <1>4 DEF MappingTyped

\* Names that no test gives.
LEMMA GivenNames ==
  ASSUME NEW n, TestName(n)
  PROVE  /\ \A s : \A i \in Nat \ {0} : n # <<s, i, << >> >>
         /\ \A x, tag, l : IsSeq(x[3]) => n # Derived(x, tag, l)
<1>1. n[2] = 0 /\ n[3] = << >>
  BY DEF TestName, Base
<1>2. \A s, i : <<s, i, << >> >>[2] = i
  OBVIOUS
<1>3. ASSUME NEW x, NEW tag, NEW l, IsSeq(x[3])  PROVE n # Derived(x, tag, l)
  <2>1. PICK S : x[3] \in Seq(S)
    BY <1>3 DEF IsSeq
  <2>2. Append(x[3], <<tag, l>>) # << >>
    BY <2>1
  <2>3. Derived(x, tag, l)[3] = Append(x[3], <<tag, l>>)
    BY DEF Derived
  <2> QED BY <1>1, <2>2, <2>3
<1> QED BY <1>1, <1>2, <1>3

\* What every call that places something finds and leaves.
LEMMA PlacingFrames ==
  ASSUME Framing, Placing, stage' # "failed"
  PROVE  /\ stage = "addresses" /\ todo # << >> /\ stage' = "addresses"
         /\ UNCHANGED <<cfg, pt_pages, pte, cursor>> /\ DOMAIN pte = {}
         /\ cfg \in Tests /\ OwnFrames(cfg)
         /\ AsTold(cfg, Head(todo)) /\ CallTyped(cfg, Head(todo))
         /\ TablesGranted /\ PagesHeld /\ SizesKept
         /\ \A k : OnlyFrom(k) => OnlyFrom(k)'
         /\ OnlyFrom(Rank[Head(todo).do])
         /\ InOrder(todo)' /\ (DOMAIN root' # {} => OnlyFrom(1)')
         /\ Head(todo).do # "map" => Tables' = Tables
         /\ Head(todo).do = "section" => Tables' = {} /\ Tables = {}
         /\ Head(todo).do \in {"section", "map", "res_mem", "mapping"} =>
               \A m \in NormalsOf(cfg) : m.phys \notin DOMAIN addr
<1>1. /\ stage = "addresses" /\ stage' = "addresses" /\ todo # << >>
      /\ UNCHANGED <<cfg, pt_pages, pte, cursor>>
      /\ todo' = Tail(todo)
      /\ Head(todo).do # "map" => UNCHANGED root
  BY PlacingChanges
<1>2. /\ cfg \in Tests /\ OwnFrames(cfg) /\ DOMAIN pte = {} /\ CallsInv
      /\ InOrder(todo) /\ TablesGranted /\ PagesHeld /\ SizesKept
      /\ DOMAIN root # {} => OnlyFrom(1)
  BY <1>1 DEF Framing, FramesInv, FramesAreOwned, IInv, CallsInv, EntriesInv
<1>3. /\ AsTold(cfg, Head(todo)) /\ Rank[Head(todo).do] \in Int
      /\ OnlyFrom(Rank[Head(todo).do])
      /\ InOrder(todo)' /\ \A k : OnlyFrom(k) => OnlyFrom(k)'
  BY <1>1, <1>2, NextInOrder
<1>4. CallTyped(cfg, Head(todo)) /\ Head(todo) = todo[1] /\ 1 \in DOMAIN todo
  BY <1>1, <1>2, HeadTyped
<1>5. Head(todo).do \in DOMAIN Rank
  BY <1>3 DEF AsTold
<1>6. ASSUME DOMAIN root' # {}  PROVE OnlyFrom(1)'
  <2>1. CASE Head(todo).do = "map"
    BY <1>3, <2>1 DEF Rank
  <2>2. CASE Head(todo).do # "map"
    BY <1>1, <1>2, <1>3, <1>6, <2>2
  <2> QED BY <2>1, <2>2
<1>7. Head(todo).do # "map" => Tables' = Tables
  BY <1>1 DEF Tables
<1>8. ASSUME Head(todo).do = "section"  PROVE Tables' = {} /\ Tables = {}
  <2>1. ~ OnlyFrom(1)
    BY <1>4, <1>8 DEF OnlyFrom, Rank
  <2>2. DOMAIN root = {} /\ DOMAIN pte = {}
    BY <1>2, <2>1
  <2>3. Tables = {}
    BY <2>2 DEF Tables
  <2> QED BY <1>7, <1>8, <2>3
<1>9. ASSUME Head(todo).do \in {"section", "map", "res_mem", "mapping"}, NEW m \in NormalsOf(cfg)
      PROVE  m.phys \notin DOMAIN addr
  <2>1. ~ OnlyFrom(4)
    BY <1>4, <1>9 DEF OnlyFrom, Rank
  <2> QED BY <1>2, <2>1 DEF SizesKept
<1> QED BY <1>1, <1>2, <1>3, <1>4, <1>6, <1>7, <1>8, <1>9

\* handle_res_mem.
LEMMA ResMemFrames ==
  ASSUME Framing, HandleResMem, stage' # "failed"
  PROVE  Framed
<1> DEFINE r == Head(todo)
<1>1. /\ r.do = "res_mem" /\ Placing
      /\ physical' = IF r.linear THEN physical ELSE Reserve(physical, r.start, r.size)
      /\ UNCHANGED <<cfg, addr, pages, pt_pages, geometry, parsed>>
  BY Zenon DEF HandleResMem, placeVars, Placing
<1>2. CallTyped(cfg, r) /\ TablesGranted /\ PagesHeld /\ SizesKept /\ Tables' = Tables /\ \A k : OnlyFrom(k) => OnlyFrom(k)'
  BY <1>1, PlacingFrames
<1>3. r.start \in Int /\ r.size \in Int
  BY <1>1, <1>2 DEF CallTyped
<1> HIDE DEF r
<1>4. Ranges(physical) \subseteq Ranges(physical')
  BY <1>1, <1>3, RangesReserve DEF Framing, IInv, SpacesInv
<1>5. Frames(physical) \subseteq Frames(physical')
  BY SpacesStep, <1>1 DEF Framing, SpacesGrow, Grown, Next, Placing
<1>6. HeldStays /\ TablesGranted'
  BY <1>2, <1>4, <1>5, HeldWithRanges
<1>7. PagesHeld'
  BY <1>1, <1>2, <1>6, PagesHeldSame
<1>8. SizesKept'
  BY <1>1, <1>2, <1>6, SizesSame
<1> QED BY <1>6, <1>7, <1>8 DEF Framed

\* PageMap.initialize: the root is put into memory that nothing is recorded in.
LEMMA MapFrames ==
  ASSUME Framing, InitializePageMap, stage' # "failed"
  PROVE  Framed
<1> DEFINE m == Head(todo).map
           lc == Request(LevelSize(1), LevelSize(1), RootLinearBits, "linear")
           bytes == IF m = "map_hyp" THEN HypRootBytes ELSE RootBytes
           align == IF m = "map_hyp" THEN HypRootAlign ELSE RootAlign
           pc == IF m = "map_hyp" THEN Request(HypRootBytes, HypRootAlign, PhysicalBits, "dram")
                                  ELSE Request(RootBytes, RootAlign, PhysicalBits, "dram")
<1>1. /\ Head(todo).do = "map" /\ Placing /\ UNCHANGED <<cfg, pt_pages, pte, geometry, parsed>> /\ InitializeMap(m)
  BY Zenon DEF InitializePageMap, Placing
<1>2. /\ AsTold(cfg, Head(todo)) /\ TablesGranted /\ PagesHeld /\ SizesKept /\ OwnFrames(cfg)
      /\ \A k : OnlyFrom(k) => OnlyFrom(k)'
  BY <1>1, PlacingFrames
<1>3. PICK v \in Grantable(linear, lc), a \in Grantable(physical, pc) :
         /\ physical' = Allocate(physical, pc, a) /\ root' = Put(root, m, a)
         /\ pages' = AddPages({"map_os"}, <<Page4K(Base(m), a, a, "sptbr")>>)
         /\ addr' = Put(addr, Base(m), a)
  BY <1>1, Zenon DEF InitializeMap
<1>4. /\ bytes \in Nat \ {0} /\ align \in Nat \ {0} /\ PageBytes <= bytes /\ align % PageBytes = 0
      /\ pc = Request(bytes, align, PhysicalBits, "dram")
  BY PageTablesAssumption
<1> HIDE DEF bytes, align, pc, lc
<1>5. Tables' \subseteq Tables \cup {a}
  <2>1. \A n \in DOMAIN root' : root'[n] = a \/ (n \in DOMAIN root /\ root'[n] = root[n])
    BY <1>3 DEF Put
  <2> QED BY <1>1, <2>1 DEF Tables
<1>6. HeldStays /\ TablesGranted'
  BY <1>2, <1>3, <1>4, <1>5, HeldWithTable DEF Framing, IInv
<1>7. PagesHeld'
  <2> DEFINE p == Page4K(Base(m), a, a, "sptbr")
  <2>1. a \in Nat
    BY <1>3, <1>4, GrownAllocate DEF Framing, IInv, SpacesInv
  <2>2. GoodPages(<<p>>)
    BY <2>1, NamesGood, Page4KGood DEF TestName, Base
  <2>3. ~ OwnsFrame(p)
    BY DEF OwnsFrame, Page4K
  <2>4. pages' = AddPages({"map_os"}, <<p>>)
    BY <1>3
  <2> HIDE DEF p
  <2>5. StillHeldPages(<<p>>)
    BY <2>3, OnePageHeld
  <2> QED BY <1>1, <1>2, <1>6, <2>2, <2>4, <2>5, PagesHeldAdded DEF Framing, IInv
<1>8. SizesKept'
  <2>1. ASSUME NEW n \in NormalsOf(cfg)  PROVE n.phys # Base(m)
    <3>1. m \in MapNames(cfg)
      BY <1>1, <1>2 DEF AsTold
    <3> QED BY <1>2, <3>1 DEF OwnFrames
  <2>2. \A x : x # Base(m) => (x \in DOMAIN addr' <=> x \in DOMAIN addr) /\ (x \in DOMAIN addr => addr'[x] = addr[x])
    BY <1>3 DEF Put
  <2> QED BY <1>1, <1>2, <1>6, <2>1, <2>2, SizesSame
<1> QED BY <1>6, <1>7, <1>8 DEF Framed

\* The frames only grow.
LEMMA FramesGrow ==
  ASSUME IInv, [Next]_vars
  PROVE  Frames(physical) \subseteq Frames(physical')
BY SpacesStep DEF SpacesGrow, Grown

\* A page of 4 KiB.
LEMMA Page4KFrame ==
  ASSUME NEW n, NEW va, NEW pa, NEW origin
  PROVE  Frame(Page4K(n, va, pa, origin)) = PageAt(pa)
BY PageTablesAssumption DEF Frame, Page4K, PageAt

\* add_section_handler: its memory is granted or marked while there are no tables.
LEMMA SectionFrames ==
  ASSUME Framing, AddSection, stage' # "failed"
  PROVE  Framed
<1> DEFINE c == Head(todo)
           identity == c.identity \/ ~ cfg.paging
           skip == c.skip \/ ~ cfg.paging
           pa == IF identity /\ StartAddr(c) = None THEN StartLin(c) ELSE StartAddr(c)
           va == IF identity THEN None ELSE StartLin(c)
           fixed == IF pa = None /\ skip THEN va ELSE pa
           pc == Request(c.bytes, AlignOf(c.bytes), PhysicalBits, "dram")
           lc == Request(c.bytes, AlignOf(c.bytes), LinearBits, "linear")
           linear_drawn == va = None /\ ~ skip /\ ~ identity
           name == <<c.section, c.page, << >> >>
           auto == Derived(name, "phys", 0)
<1>1. /\ c.do = "section" /\ Placing /\ UNCHANGED <<cfg, pt_pages, geometry, parsed>> /\ stage = "addresses"
  BY Zenon DEF AddSection, placeVars, Placing
<1>2. PICK phys, lin :
         /\ phys \in IF fixed = None THEN Grantable(physical, pc) ELSE {fixed}
         /\ lin \in IF linear_drawn THEN Grantable(linear, lc) ELSE IF va = None THEN {phys} ELSE {va}
         /\ physical' = IF fixed = None THEN Allocate(physical, pc, phys) ELSE Reserve(physical, phys, c.bytes)
         /\ pages' = IF skip THEN pages
                     ELSE AddPages(DOMAIN pages, <<Page4K(name, lin, phys, c.section)>>)
         /\ addr' = Put(Put(addr, auto, phys), name, lin)
  BY ZenonT(60) DEF AddSection
<1>3. /\ CallTyped(cfg, c) /\ TablesGranted /\ PagesHeld /\ SizesKept /\ OwnFrames(cfg) /\ Tables' = {} /\ Tables = {}
      /\ \A k : OnlyFrom(k) => OnlyFrom(k)'
      /\ todo # << >> /\ cfg \in Tests
  BY <1>1, PlacingFrames
<1>4. /\ c.bytes \in Nat \ {0} /\ (PageBytes <= c.bytes \/ c.place = "io")
      /\ StartAddr(c) \in Int /\ StartLin(c) \in Int
  <2>1. StartAddr(c) \in Int /\ StartLin(c) \in Int
    BY <1>1, <1>3, StartsTyped DEF Framing, IInv
  <2> HIDE DEF c
  <2> QED BY <1>1, <1>3, <2>1 DEF CallTyped
<1>5. c.page \in Nat \ {0}
  <2>1. c = todo[1] /\ 1 \in DOMAIN todo
    BY <1>3, HeadTyped DEF Framing, IInv
  <2>2. c.section \in Sections /\ c.page \in 1 .. SectionPages[c.section]
    BY <1>1, <2>1 DEF Framing, SectionsInv, Ahead
  <2> QED BY <2>2
<1>6. fixed \in Int /\ va \in Int /\ (c.place = "io" => fixed = IoAddr /\ fixed # None)
  <2>1. None \in Int /\ None = -1
    BY DEF None
  <2>2. c.place = "io" => StartAddr(c) = IoAddr
    BY DEF StartAddr
  <2>3. IoAddr \in Nat
    BY GeneratorAssumption
  <2> HIDE DEF c
  <2> QED BY <1>4, <2>1, <2>2, <2>3
<1> HIDE DEF c, fixed, va, skip, linear_drawn, name, auto
<1>7. phys \in Int /\ StillHeld(PageAt(phys)) /\ HeldStays /\ TablesGranted'
  <2>0. PageBytes \in Nat \ {0}
    BY LevelSizes
  <2>1. CASE fixed = None
    <3>1. PageBytes <= c.bytes
      BY <1>4, <1>6, <2>1
    <3>2. /\ phys \in Grantable(physical, Request(c.bytes, AlignOf(c.bytes), PhysicalBits, "dram"))
          /\ physical' = Allocate(physical, Request(c.bytes, AlignOf(c.bytes), PhysicalBits, "dram"), phys)
          /\ SpacesInv /\ Tables' \subseteq Tables
      BY <1>2, <1>3, <2>1 DEF Framing, IInv
    <3>3. /\ HeldStays /\ TablesGranted' /\ phys \in Nat
          /\ \A n \in Nat \ {0} : n <= c.bytes => StillHeld(<<phys, phys + n - 1>>)
      BY <1>3, <1>4, <3>2, GrantHeld
    <3> QED BY <2>0, <3>1, <3>3 DEF PageAt
  <2>2. CASE fixed # None
    <3>1. phys = fixed /\ physical' = Reserve(physical, phys, c.bytes)
      BY <1>2, <2>2
    <3>2. /\ \A n \in Nat \ {0} : n <= c.bytes => StillHeld(<<phys, phys + n - 1>>)
          /\ phys = IoAddr /\ c.bytes \in Nat \ {0} => StillHeld(PageAt(phys))
      <4>1. SpacesInv /\ phys \in Int /\ c.bytes \in Int
        BY <1>4, <1>6, <3>1 DEF Framing, IInv
      <4> QED BY <1>3, <3>1, <4>1, ReserveHeld
    <3>3. StillHeld(PageAt(phys))
      BY <1>4, <1>6, <2>0, <3>1, <3>2 DEF PageAt
    <3>4. Ranges(physical) \subseteq Ranges(physical')
      BY <1>4, <1>6, <3>1, RangesReserve DEF Framing, IInv, SpacesInv
    <3>5. Frames(physical) \subseteq Frames(physical')
      BY <1>1, FramesGrow DEF Framing, Next, Placing
    <3>6. HeldStays /\ TablesGranted'
      BY <1>3, <3>4, <3>5, HeldWithRanges
    <3> QED BY <1>6, <3>1, <3>3, <3>6
  <2> QED BY <2>1, <2>2
<1>8. PagesHeld'
  <2>1. CASE skip
    BY <1>1, <1>2, <1>3, <1>7, <2>1, PagesHeldSame
  <2>2. CASE ~ skip
    <3> DEFINE p == Page4K(name, lin, phys, c.section)
    <3>1. lin \in Int
      <4>1. CASE linear_drawn
        <5>1. lin \in Grantable(linear, Request(c.bytes, AlignOf(c.bytes), LinearBits, "linear"))
          BY <1>2, <4>1
        <5>2. SpaceInv(linear, {"linear"}) /\ c.bytes \in Nat \ {0}
          BY <1>4 DEF Framing, IInv, SpacesInv
        <5>3. lin \in Nat
          BY ONLY <5>1, <5>2, GrownAllocate
        <5> QED BY <5>3
      <4>2. CASE ~ linear_drawn
        BY <1>2, <1>6, <1>7, <4>2
      <4> QED BY <4>1, <4>2
    <3>2. GoodPages(<<p>>)
      <4>1. name[3] = << >>
        BY DEF name
      <4> QED BY <1>7, <3>1, <4>1, NamesGood, Page4KGood
    <3>3. StillHeld(Frame(p))
      BY <1>7, Page4KFrame
    <3>4. pages' = AddPages(DOMAIN pages, <<p>>)
      BY <1>2, <2>2
    <3> HIDE DEF p
    <3>5. StillHeldPages(<<p>>)
      BY <3>3, OnePageHeld
    <3> QED BY <1>1, <1>3, <1>7, <3>2, <3>4, <3>5, PagesHeldAdded DEF Framing, IInv
  <2> QED BY <2>1, <2>2
<1>9. SizesKept'
  <2>1. ASSUME NEW m \in NormalsOf(cfg)  PROVE m.phys # auto /\ m.phys # name
    <3>1. TestName(m.phys)
      BY <1>3, NormalNames DEF NormalsOf
    <3>2. IsSeq(name[3])
      BY NamesGood DEF name
    <3> QED BY <1>5, <3>1, <3>2, GivenNames DEF name, auto
  <2>2. \A x : x # auto /\ x # name => (x \in DOMAIN addr' <=> x \in DOMAIN addr) /\ (x \in DOMAIN addr => addr'[x] = addr[x])
    BY <1>2 DEF Put
  <2> QED BY <1>1, <1>3, <1>7, <2>1, <2>2, SizesSame
<1> QED BY <1>7, <1>8, <1>9 DEF Framed

\* The levels and sizes that are drawn for a mapping fit each other.
LEMMA SizesFit ==
  ASSUME cfg.paging, NEW m, MappingTyped(m), NEW g \in RandomizePagesize(m)
  PROVE  /\ g \in PageSizes /\ LevelSize(g.level) \in Nat \ {0} /\ FrameSize(g) \in Nat \ {0}
         /\ LevelSize(g.level) <= g.phys
         /\ LevelSize(g.level) <= FrameSize(g)
         /\ cfg.all4k /\ m.linked = << >> => g.level = 0
<1>1. g \in PageSizes /\ FrameSize(g) \in Nat \ {0}
  BY PagesizeTyped
<1>2. \A l \in 0 .. Levels : LevelSize(l) \in Nat \ {0}
  BY LevelSizes
<1>3. g.level \in 0 .. TopLevel /\ g.gleaf \in 0 .. TopLevel /\ g.level \in 0 .. Levels /\ g.gleaf \in 0 .. Levels
  BY <1>1, LevelSizes DEF PageSizes
<1>4. LevelSize(g.level) <= FrameSize(g)
  BY <1>2, <1>3 DEF FrameSize, MaxOf
<1>5. PICK l, x, n : l \in Leaves(m) /\ g = SizesAt(m, l, x, n)
  BY DEF RandomizePagesize
<1>6. g.level = l /\ g.phys = IF m.own = "modify_pt" THEN LevelSize(l) ELSE OwnSize(m, l)
  BY <1>5 DEF SizesAt
<1>7. LevelSize(g.level) <= g.phys
  <2>1. LevelSize(l) \in Nat \ {0} /\ l \in 0 .. TopLevel
    BY <1>2, <1>3, <1>6
  <2>2. LevelSize(l + 1) = Entries * LevelSize(l) /\ Entries \in Nat \ {0}
    BY <2>1, PageTablesAssumption
  <2>3. LevelSize(l) <= LevelSize(l + 1)
    <3> DEFINE s == LevelSize(l)
    <3>1. s \in Nat /\ s <= Entries * s
      <4> HIDE DEF s
      <4>1. s \in Nat /\ Entries \in Nat \ {0} => s <= Entries * s
        OBVIOUS
      <4> QED BY <2>1, <2>2, <4>1 DEF s
    <3> QED BY <2>2, <3>1
  <2>4. g.phys \in {LevelSize(l), LevelSize(l + 1)}
    BY <1>6 DEF OwnSize
  <2> QED BY <1>6, <2>1, <2>3, <2>4
<1>8. ASSUME cfg.all4k, m.linked = << >>  PROVE g.level = 0
  <2>1. Leaves(m) = {0}
    BY <1>8 DEF Leaves, PickPagesize
  <2> QED BY <1>5, <1>6, <2>1
<1> QED BY <1>1, <1>2, <1>3, <1>4, <1>7, <1>8

\* Nothing is placed.
LEMMA NothingPlaced ==
  ASSUME TablesGranted, UNCHANGED physical, Tables' = Tables
  PROVE  HeldStays /\ TablesGranted'
BY HeldWithRanges

\* handle_normal_page_mappings: what the frame's name asks for grows to what the
\* mapping needs, or shrinks to a page when all who share it have pages of that size.
LEMMA NormalFrames ==
  ASSUME Framing, HandleNormalPageMapping, stage' # "failed"
  PROVE  Framed
<1> DEFINE m == Head(todo)
           small == cfg.all4k /\ m.linked = << >>
<1>1. /\ m.do = "mapping" /\ m.kind = "normal" /\ Placing /\ todo # << >>
      /\ UNCHANGED <<cfg, physical, addr, pages, pt_pages>>
  BY Zenon DEF HandleNormalPageMapping, Mapping, placeVars, Placing
<1>2. PICK g \in RandomizePagesize(m) :
         LET size == IF small THEN PageBytes ELSE g.size
         IN  /\ geometry' = Put(geometry, m.name, [g EXCEPT !.size = size])
             /\ parsed' = [n \in DOMAIN parsed |->
                   IF n = m.phys
                   THEN LET p == Grow(parsed[n], g.phys, g.phys)
                        IN  [p EXCEPT !.size = IF small THEN PageBytes ELSE @]
                   ELSE IF n = m.name
                   THEN [parsed[n] EXCEPT !.size = IF small THEN PageBytes ELSE MaxOf(@, size)]
                   ELSE parsed[n]]
  BY Zenon DEF HandleNormalPageMapping
<1>3. /\ AsTold(cfg, m) /\ CallTyped(cfg, m) /\ TablesGranted /\ PagesHeld /\ SizesKept /\ Tables' = Tables
      /\ OwnFrames(cfg) /\ \A n \in NormalsOf(cfg) : n.phys \notin DOMAIN addr
  BY <1>1, PlacingFrames
<1>4. m \in NormalsOf(cfg) /\ MappingTyped(m)
  BY <1>1, <1>3 DEF AsTold, NormalsOf, CallTyped
<1>5. HeldStays /\ TablesGranted' /\ PagesHeld'
  BY <1>1, <1>3, NothingPlaced, PagesHeldSame
<1>6. /\ g \in PageSizes /\ LevelSize(g.level) \in Nat \ {0} /\ LevelSize(g.level) <= g.phys
      /\ small => g.level = 0
  BY <1>2, <1>4, SizesFit DEF Framing
<1>7. LevelSize(0) = PageBytes /\ PageBytes \in Nat \ {0} /\ g.phys \in Nat \ {0}
  BY <1>6, PageTablesAssumption DEF PageSizes
<1>8. \A n \in DOMAIN parsed : n \in Declared(cfg) /\ parsed[n].size \in Nat
  BY DEF Framing, IInv, NamesInv
<1>9. \A n \in NormalsOf(cfg) : n.phys \in DOMAIN parsed /\ m.name # n.phys
  BY <1>3, <1>4 DEF OwnFrames, NormalsOf, Framing, IInv, NamesInv
<1> HIDE DEF m
<1>10. /\ m.phys \in DOMAIN parsed
       /\ parsed'[m.phys].size = IF small THEN PageBytes ELSE MaxOf(parsed[m.phys].size, g.phys)
  <2>1. m.phys \in DOMAIN parsed
    BY <1>4, <1>9
  <2> DEFINE p == Grow(parsed[m.phys], g.phys, g.phys)
             b == IF small THEN PageBytes ELSE p.size
  <2>2. parsed'[m.phys] = [p EXCEPT !.size = b]
    BY <1>2, <2>1
  <2>3. p.size = MaxOf(parsed[m.phys].size, g.phys) /\ [p EXCEPT !.size = b].size = b
    BY DEF Grow
  <2> QED BY <2>1, <2>2, <2>3
<1>11. ASSUME NEW n \in NormalsOf(cfg), n.phys # m.phys  PROVE parsed'[n.phys] = parsed[n.phys]
  BY <1>2, <1>9, <1>11
<1>12. /\ geometry'[m.name].level = g.level
       /\ \A x : x # m.name => (x \in DOMAIN geometry' <=> x \in DOMAIN geometry)
                               /\ (x \in DOMAIN geometry => geometry'[x] = geometry[x])
  <2> DEFINE new == [g EXCEPT !.size = IF small THEN PageBytes ELSE g.size]
  <2>1. geometry' = Put(geometry, m.name, new)
    BY <1>2
  <2>2. new.level = g.level
    BY <1>6 DEF PageSizes
  <2> HIDE DEF new
  <2> QED BY <2>1, <2>2 DEF Put
<1>13. ASSUME NEW n \in NormalsOf(cfg), n.name \in DOMAIN geometry', n.phys = m.phys
       PROVE  SizeKept(n)'
  <2> DEFINE l == geometry'[n.name].level
             smalln == cfg.all4k /\ n.linked = << >>
  <2>1. smalln <=> small
    BY <1>3, <1>4, <1>13 DEF OwnFrames
  <2>2. (smalln => l = 0) /\ (small \/ LevelSize(l) <= parsed'[m.phys].size)
    <3>1. CASE n.name = m.name
      <4>1. l = g.level
        BY <1>12, <3>1
      <4>2. small \/ LevelSize(g.level) <= parsed'[m.phys].size
        BY <1>4, <1>6, <1>7, <1>8, <1>9, <1>10 DEF MaxOf
      <4> QED BY <1>6, <2>1, <4>1, <4>2
    <3>2. CASE n.name # m.name
      <4>1. SizeKept(n) /\ l = geometry[n.name].level /\ n.name \in DOMAIN geometry
        BY <1>3, <1>12, <1>13, <3>2 DEF SizesKept
      <4>2. (smalln => l = 0) /\ LevelSize(l) <= parsed[m.phys].size
        BY <1>3, <1>13, <4>1 DEF SizeKept
      <4>3. LevelSize(l) \in Nat
        <5>1. l \in 0 .. Levels
          BY <4>1, LevelSizes DEF Framing, IInv, NamesInv, PageSizes
        <5> QED BY <5>1, LevelSizes
      <4>4. small \/ LevelSize(l) <= parsed'[m.phys].size
        <5> HIDE DEF l
        <5> QED BY <1>7, <1>8, <1>10, <4>2, <4>3 DEF MaxOf
      <4> QED BY <4>2, <4>4
    <3> QED BY <3>1, <3>2
  <2>3. LevelSize(l) <= parsed'[n.phys].size
    <3>1. CASE small
      <4>1. LevelSize(l) = PageBytes /\ parsed'[n.phys].size = PageBytes
        BY <1>7, <1>10, <1>13, <2>1, <2>2, <3>1
      <4> QED BY <1>7, <4>1
    <3>2. CASE ~ small
      BY <1>13, <2>2, <3>2
    <3> QED BY <3>1, <3>2
  <2>4. n.phys \notin DOMAIN addr' /\ cfg' = cfg
    BY <1>1, <1>3
  <2>5. cfg'.all4k /\ n.linked = << >> => l = 0
    BY <2>2, <2>4
  <2> HIDE DEF smalln, l, small
  <2> QED BY <2>3, <2>4, <2>5 DEF SizeKept, l, LevelSize
<1>14. ASSUME NEW n \in NormalsOf(cfg), n.name \in DOMAIN geometry', n.phys # m.phys
       PROVE  SizeKept(n)'
  <2>1. n.name # m.name
    BY <1>3, <1>4, <1>14 DEF OwnFrames
  <2>2. SizeKept(n) /\ geometry'[n.name] = geometry[n.name] /\ parsed'[n.phys] = parsed[n.phys]
    BY <1>3, <1>11, <1>12, <1>14, <2>1 DEF SizesKept
  <2>3. n.phys \notin DOMAIN addr /\ addr' = addr /\ cfg' = cfg
    BY <1>1, <1>3
  <2> QED BY <2>2, <2>3 DEF SizeKept, LevelSize
<1>15. SizesKept'
  <2>1. NormalsOf(cfg)' = NormalsOf(cfg)
    BY <1>1 DEF NormalsOf, ToSet
  <2> QED BY <1>1, <1>3, <1>13, <1>14, <2>1 DEF SizesKept
<1> QED BY <1>5, <1>15 DEF Framed

\* handle_random_page_mappings.
LEMMA RandomFrames ==
  ASSUME Framing, HandleRandomPageMapping, stage' # "failed"
  PROVE  Framed
<1> DEFINE m == Head(todo)
           p == parsed[m.name]
           lc(g) == Request(MaxOf(g.size, p.size), MaxOf(g.size, p.align), LinearBits, "linear")
           pc(g) == IF cfg.paging THEN Request(FrameSize(g), FrameSize(g), PhysicalBits, "dram")
                    ELSE Request(MaxOf(g.phys, p.size), MaxOf(g.phys, p.align), PhysicalBits, "dram")
           auto == Derived(m.name, "phys", 0)
<1>1. /\ m.do = "mapping" /\ m.kind = "random" /\ Placing /\ todo # << >> /\ cfg.paging
      /\ UNCHANGED <<cfg, pt_pages, parsed>>
  BY Zenon DEF HandleRandomPageMapping, Mapping, placeVars, Placing, Framing
<1>2. /\ AsTold(cfg, m) /\ CallTyped(cfg, m) /\ TablesGranted /\ PagesHeld /\ SizesKept /\ Tables' = Tables
      /\ OwnFrames(cfg) /\ \A k : OnlyFrom(k) => OnlyFrom(k)'
  BY <1>1, PlacingFrames
<1>3. MappingTyped(m) /\ m \in ToSet(cfg.mappings) /\ m.name \in Declared(cfg) /\ cfg \in Tests
  BY <1>1, <1>2, PlacingFrames DEF CallTyped, AsTold
<1>4. ASSUME NEW n \in NormalsOf(cfg)
      PROVE  n.name # m.name /\ n.phys # m.name /\ n.phys # auto
  <2>1. n.name # m.name /\ n.phys # m.name
    BY <1>1, <1>2, <1>3 DEF OwnFrames
  <2>2. TestName(n.phys) /\ TestName(m.name)
    BY <1>3, NormalNames DEF NormalsOf
  <2>3. n.phys # auto
    BY <2>2, NamesGood, GivenNames
  <2> QED BY <2>1, <2>3
<1>5. ASSUME UNCHANGED <<physical, addr, pages, geometry>>
      PROVE  Framed
  <2>1. HeldStays /\ TablesGranted' /\ PagesHeld'
    BY <1>1, <1>2, <1>5, NothingPlaced, PagesHeldSame
  <2> QED BY <1>1, <1>2, <1>5, <2>1, SizesSame DEF Framed
<1>6. ASSUME NEW g \in RandomizePagesize(m),
             NEW v \in Grantable(linear, lc(g)), NEW a \in Grantable(physical, pc(g)),
             LET granted == Allocate(linear, lc(g), v)
                 lin     == IF cfg.paging THEN v ELSE a
             IN  /\ physical' = Allocate(physical, pc(g), a)
                 /\ addr' = Put(Put(addr, auto, a), m.name, lin)
                 /\ pages' = AddPages({"map_os"} \cup m.maps, <<MappedPage(m, g, lin, a)>>)
                 /\ geometry' = Put(geometry, m.name, g)
      PROVE  Framed
  <2>1. /\ g \in PageSizes /\ LevelSize(g.level) \in Nat \ {0} /\ FrameSize(g) \in Nat \ {0}
        /\ LevelSize(g.level) <= FrameSize(g)
    BY <1>1, <1>3, SizesFit
  <2>2. /\ HeldStays /\ TablesGranted' /\ a \in Nat
        /\ \A n \in Nat \ {0} : n <= FrameSize(g) => StillHeld(<<a, a + n - 1>>)
    <3>1. /\ a \in Grantable(physical, Request(FrameSize(g), FrameSize(g), PhysicalBits, "dram"))
          /\ physical' = Allocate(physical, Request(FrameSize(g), FrameSize(g), PhysicalBits, "dram"), a)
          /\ SpacesInv /\ Tables' \subseteq Tables
      BY <1>1, <1>2, <1>6 DEF Framing, IInv
    <3> QED BY <1>2, <2>1, <3>1, GrantHeld
  <2>3. v \in Int
    <3> DEFINE bytes == MaxOf(g.size, p.size)
    <3>1. bytes \in Nat \ {0}
      BY <1>3, <2>1 DEF MaxOf, PageSizes, Framing, IInv, NamesInv
    <3>2. v \in Grantable(linear, Request(bytes, MaxOf(g.size, p.align), LinearBits, "linear"))
      OBVIOUS
    <3>3. SpaceInv(linear, {"linear"})
      BY DEF Framing, IInv, SpacesInv
    <3> HIDE DEF bytes
    <3>4. v \in Nat
      BY ONLY <3>1, <3>2, <3>3, GrownAllocate
    <3> QED BY <3>4
  <2> DEFINE q == MappedPage(m, g, v, a)
  <2>4. pages' = AddPages({"map_os"} \cup m.maps, <<q>>)
    BY <1>1, <1>6
  <2>5. GoodPages(<<q>>)
    BY <1>3, <2>1, <2>2, <2>3, MappedPageGood DEF MappingTyped
  <2>6. StillHeld(Frame(q))
    <3>1. Frame(q) = <<a, a + LevelSize(g.level) - 1>>
      BY DEF Frame, MappedPage
    <3> QED BY <2>1, <2>2, <3>1
  <2> HIDE DEF q
  <2>7. StillHeldPages(<<q>>)
    BY <2>6, OnePageHeld
  <2>8. PagesHeld'
    BY <1>1, <1>2, <2>2, <2>4, <2>5, <2>7, PagesHeldAdded DEF Framing, IInv
  <2>9. SizesKept'
    <3>1. \A x : x # auto /\ x # m.name =>
             (x \in DOMAIN addr' <=> x \in DOMAIN addr) /\ (x \in DOMAIN addr => addr'[x] = addr[x])
      BY <1>6 DEF Put
    <3>2. \A x : x # m.name => (x \in DOMAIN geometry' => x \in DOMAIN geometry /\ geometry'[x] = geometry[x])
      BY <1>6 DEF Put
    <3> HIDE DEF m, auto
    <3> QED BY <1>1, <1>2, <1>4, <2>2, <3>1, <3>2, SizesSame
  <2> QED BY <2>2, <2>8, <2>9 DEF Framed
<1>7. stage = "addresses"
  BY <1>1, PlacingFrames
<1> QED BY <1>5, <1>6, <1>7, ZenonT(60) DEF HandleRandomPageMapping

\* handle_fixed_page_mappings: the pages own no frame.
LEMMA FixedFrames ==
  ASSUME Framing, HandleFixedPageMapping, stage' # "failed"
  PROVE  Framed
<1> DEFINE m == Head(todo)
           drawn == m.pa = None /\ cfg.paging
           bytes(g) == IF cfg.two_stage THEN PageBytes ELSE LevelSize(g.level)
           pc(g) == Request(IF cfg.two_stage THEN PageBytes ELSE LevelSize(g.level), FrameSize(g),
                            PhysicalBits, "dram")
<1>1. /\ m.do = "mapping" /\ m.kind = "fixed" /\ Placing /\ todo # << >> /\ cfg.paging
      /\ UNCHANGED <<cfg, pt_pages, parsed>>
  BY Zenon DEF HandleFixedPageMapping, Mapping, placeVars, Placing, Framing
<1>2. /\ AsTold(cfg, m) /\ CallTyped(cfg, m) /\ TablesGranted /\ PagesHeld /\ SizesKept /\ Tables' = Tables
      /\ OwnFrames(cfg) /\ \A k : OnlyFrom(k) => OnlyFrom(k)'
  BY <1>1, PlacingFrames
<1>3. MappingTyped(m) /\ m \in ToSet(cfg.mappings) /\ m.lin \in Int /\ m.pa \in Int
  BY <1>1, <1>2 DEF CallTyped, AsTold, MappingTyped
<1>4. ASSUME NEW n \in NormalsOf(cfg)
      PROVE  n.name # m.name /\ n.phys # m.name /\ n.phys # m.phys
  <2>1. m.phys # n.phys /\ m.name # n.name /\ n.phys # m.name
    BY <1>1, <1>2, <1>3 DEF OwnFrames
  <2> QED BY <2>1
<1>5. PICK g, a :
          /\ g \in RandomizePagesize(m)
          /\ a \in IF drawn THEN Grantable(physical, pc(g)) ELSE {IF m.pa = None THEN m.lin ELSE m.pa}
          /\ LET lin   == IF m.lin = None THEN a ELSE m.lin
                 frame == IF cfg.paging THEN a ELSE lin
             IN  /\ physical' = IF drawn THEN Allocate(physical, pc(g), a)
                                ELSE IF cfg.paging THEN physical
                                ELSE Reserve(IF m.pa = None THEN Reserve(physical, frame, g.size)
                                             ELSE physical, frame, g.size)
                 /\ addr' = IF m.pa = None THEN Put(addr, m.name, a)
                            ELSE IF m.lin = None THEN Put(Put(addr, m.phys, a), m.name, lin)
                            ELSE Put(addr, m.phys, a)
                 /\ pages' = AddPages({"map_os"} \cup m.maps, <<MappedPage(m, g, lin, frame)>>)
                 /\ geometry' = Put(geometry, m.name, g)
  BY ZenonT(60) DEF HandleFixedPageMapping
<1>6. g \in PageSizes /\ bytes(g) \in Nat \ {0}
  BY <1>1, <1>3, <1>5, SizesFit, LevelSizes
<1>7. HeldStays /\ TablesGranted' /\ a \in Int
  <2>1. CASE drawn
    <3> DEFINE b == bytes(g)
    <3>1. /\ a \in Grantable(physical, Request(b, FrameSize(g), PhysicalBits, "dram"))
          /\ physical' = Allocate(physical, Request(b, FrameSize(g), PhysicalBits, "dram"), a)
      BY <1>5, <2>1, Zenon
    <3>2. SpacesInv /\ Tables' \subseteq Tables /\ b \in Nat \ {0}
      BY <1>2, <1>6 DEF Framing, IInv
    <3> HIDE DEF b
    <3> QED BY <1>2, <3>1, <3>2, GrantHeld
  <2>2. CASE ~ drawn
    <3>1. physical' = physical /\ a \in Int
      BY <1>1, <1>3, <1>5, <2>2
    <3> QED BY <1>2, <3>1, NothingPlaced
  <2> QED BY <2>1, <2>2
<1> HIDE DEF m, drawn, pc
<1>8. PagesHeld'
  <2> DEFINE lin == IF m.lin = None THEN a ELSE m.lin
             q == MappedPage(m, g, lin, a)
  <2>1. pages' = AddPages({"map_os"} \cup m.maps, <<q>>) /\ lin \in Int
    BY <1>1, <1>3, <1>5, <1>7
  <2> HIDE DEF lin
  <2>2. GoodPages(<<q>>)
    BY <1>3, <1>6, <1>7, <2>1, MappedPageGood DEF MappingTyped
  <2>3. ~ OwnsFrame(q)
    BY <1>1 DEF OwnsFrame, MappedPage
  <2> HIDE DEF q
  <2>4. StillHeldPages(<<q>>)
    BY <2>3, OnePageHeld
  <2> QED BY <1>1, <1>2, <1>7, <2>1, <2>2, <2>4, PagesHeldAdded DEF Framing, IInv
<1>9. SizesKept'
  <2> DEFINE lin == IF m.lin = None THEN a ELSE m.lin
  <2>1. \/ addr' = Put(addr, m.name, a)
        \/ addr' = Put(Put(addr, m.phys, a), m.name, lin)
        \/ addr' = Put(addr, m.phys, a)
    BY <1>5
  <2> HIDE DEF lin
  <2>2. \A x : x # m.phys /\ x # m.name =>
           (x \in DOMAIN addr' <=> x \in DOMAIN addr) /\ (x \in DOMAIN addr => addr'[x] = addr[x])
    BY <2>1 DEF Put
  <2>3. \A x : x # m.name => (x \in DOMAIN geometry' => x \in DOMAIN geometry /\ geometry'[x] = geometry[x])
    BY <1>5 DEF Put
  <2> QED BY <1>1, <1>2, <1>4, <1>7, <2>2, <2>3, SizesSame
<1> QED BY <1>7, <1>8, <1>9 DEF Framed

\* handle_random_addr: the frame of a normal mapping is granted with the size that was
\* collected for its name.
LEMMA RandomAddrFrames ==
  ASSUME Framing, HandleRandomAddr, stage' # "failed"
  PROVE  Framed
<1> DEFINE r == Head(todo)
           n == Head(todo).name
           isLinear == Head(todo).linear
           mapped == cfg.paging /\ n \in DOMAIN geometry
           ms == {m \in ToSet(cfg.mappings) : m.name = n /\ m.kind = "normal"}
           size == FrameSize(geometry[n])
           c == IF isLinear
                THEN Request(parsed[n].size, IF mapped THEN geometry[n].size ELSE parsed[n].align,
                             LinearBits, "linear")
                ELSE Request(parsed[n].size, parsed[n].align, PhysicalBits, "dram")
<1>1. /\ r.do = "addr" /\ Placing /\ todo # << >> /\ cfg.paging /\ stage = "addresses"
      /\ UNCHANGED <<cfg, pages, pt_pages, geometry>>
  BY Zenon DEF HandleRandomAddr, placeVars, Placing, Framing
<1>2. /\ AsTold(cfg, r) /\ CallTyped(cfg, r) /\ TablesGranted /\ PagesHeld /\ SizesKept /\ Tables' = Tables
      /\ OwnFrames(cfg) /\ (\A k : OnlyFrom(k) => OnlyFrom(k)')
      /\ OnlyFrom(Rank[r.do])
  BY <1>1, PlacingFrames
<1>3. OnlyFrom(4)'
  BY <1>1, <1>2 DEF Rank
<1>4. r \in ToSet(cfg.addrs) /\ n \in Declared(cfg)
  BY <1>1, <1>2 DEF AsTold, CallTyped
<1>5. parsed[n].size \in Nat \ {0}
  BY <1>4 DEF Framing, IInv, NamesInv
<1>6. \A m \in NormalsOf(cfg) : isLinear => m.phys # n
  BY <1>2, <1>4 DEF OwnFrames
<1>7. ASSUME UNCHANGED <<physical, addr, parsed>>  PROVE Framed
  <2>1. HeldStays /\ TablesGranted' /\ PagesHeld'
    BY <1>1, <1>2, <1>7, NothingPlaced, PagesHeldSame
  <2> QED BY <1>1, <1>2, <1>7, <2>1, SizesSame DEF Framed
<1>8. ASSUME n \notin DOMAIN addr, NEW a \in Grantable(IF isLinear THEN linear ELSE physical, c),
             addr' = Put(addr, n, a),
             physical' = (IF isLinear THEN physical
                          ELSE IF cfg.paging THEN Allocate(physical, c, a)
                          ELSE Reserve(Allocate(physical, c, a), a, c.size)),
             parsed' = IF ~ isLinear \/ ~ mapped THEN parsed
                       ELSE [x \in DOMAIN parsed |->
                               IF \E m \in ms : m.phys = x THEN Grow(parsed[x], size, size) ELSE parsed[x]]
      PROVE  Framed
  <2>1. \A m \in NormalsOf(cfg) : m.phys \in DOMAIN parsed /\ parsed[m.phys].size \in Nat
    BY <1>2 DEF OwnFrames, Framing, IInv, NamesInv
  <2>2. \A m \in NormalsOf(cfg) : parsed[m.phys].size <= parsed'[m.phys].size /\ parsed'[m.phys].size \in Int
    <3>1. CASE ~ isLinear \/ ~ mapped
      BY <1>8, <2>1, <3>1
    <3>2. CASE isLinear /\ mapped
      <4>1. size \in Int
        <5>1. geometry[n].level \in 0 .. Levels /\ geometry[n].gleaf \in 0 .. Levels
          BY <3>2, LevelSizes DEF Framing, IInv, NamesInv, PageSizes
        <5>2. LevelSize(geometry[n].level) \in Nat /\ LevelSize(geometry[n].gleaf) \in Nat
          BY <5>1, LevelSizes
        <5> QED BY <5>2 DEF FrameSize, MaxOf
      <4>2. \A m \in NormalsOf(cfg) : parsed'[m.phys] = Grow(parsed[m.phys], size, size) \/ parsed'[m.phys] = parsed[m.phys]
        BY <1>8, <2>1, <3>2
      <4> HIDE DEF size
      <4>3. ASSUME NEW p, p.size \in Nat  PROVE p.size <= Grow(p, size, size).size /\ Grow(p, size, size).size \in Int
        BY <4>1, <4>3 DEF Grow, MaxOf
      <4>4. \A m \in NormalsOf(cfg) : parsed[m.phys].size \in Nat
        BY <2>1
      <4>5. \A i \in Nat : i <= i /\ i \in Int
        OBVIOUS
      <4> QED BY <4>2, <4>3, <4>4, <4>5, Zenon
    <3> QED BY <3>1, <3>2
  <2> HIDE DEF r, ms, mapped, size
  <2>3. HeldStays /\ TablesGranted' /\
        (~ isLinear => \A k \in Nat \ {0} : k <= parsed[n].size => StillHeld(<<a, a + k - 1>>))
    <3>1. CASE isLinear
      <4>1. UNCHANGED physical
        BY <1>8, <3>1
      <4> QED BY <1>2, <3>1, <4>1, NothingPlaced
    <3>2. CASE ~ isLinear
      <4>1. /\ a \in Grantable(physical, Request(parsed[n].size, parsed[n].align, PhysicalBits, "dram"))
            /\ physical' = Allocate(physical, Request(parsed[n].size, parsed[n].align, PhysicalBits, "dram"), a)
            /\ SpacesInv /\ Tables' \subseteq Tables
        BY <1>1, <1>2, <1>8, <3>2 DEF Framing, IInv
      <4> QED BY <1>2, <1>5, <4>1, GrantHeld
    <3> QED BY <3>1, <3>2
  <2>4. PagesHeld'
    BY <1>1, <1>2, <2>3, PagesHeldSame
  <2>5. ASSUME NEW m \in NormalsOf(cfg), m.name \in DOMAIN geometry'  PROVE SizeKept(m)'
    <3> DEFINE l == geometry[m.name].level
    <3>1. SizeKept(m) /\ geometry' = geometry /\ cfg' = cfg /\ m.name \in DOMAIN geometry
      BY <1>1, <1>2, <2>5 DEF SizesKept
    <3>2. LevelSize(l) \in Nat \ {0}
      <4>1. l \in 0 .. Levels
        BY <3>1, LevelSizes DEF Framing, IInv, NamesInv, PageSizes
      <4> QED BY <4>1, LevelSizes
    <3>3. CASE m.phys = n
      <4>1. ~ isLinear /\ parsed' = parsed
        BY <1>6, <1>8, <3>3
      <4>2. LevelSize(l) <= parsed[n].size
        BY <1>8, <3>1, <3>3 DEF SizeKept
      <4>3. StillHeld(<<a, a + LevelSize(l) - 1>>)
        BY <2>3, <3>2, <4>1, <4>2
      <4>4. addr'[m.phys] = a
        BY <1>8, <3>3 DEF Put
      <4>5. HeldIn(physical', Tables', FrameOf(addr'[m.phys], geometry'[m.name].level))
        BY <3>1, <4>3, <4>4 DEF StillHeld, FrameOf
      <4>6. m.phys \in DOMAIN addr'
        BY <1>8, <3>3 DEF Put
      <4>7. cfg'.all4k /\ m.linked = << >> => geometry'[m.name].level = 0
        BY <3>1 DEF SizeKept
      <4> HIDE DEF l
      <4> QED BY <4>5, <4>6, <4>7 DEF SizeKept, Held, FrameOf, LevelSize
    <3>4. CASE m.phys # n
      <4>1. (m.phys \in DOMAIN addr' <=> m.phys \in DOMAIN addr) /\ (m.phys \in DOMAIN addr => addr'[m.phys] = addr[m.phys])
        BY <1>8, <3>4 DEF Put
      <4>2. m.phys \in DOMAIN addr' => HeldIn(physical', Tables', FrameOf(addr'[m.phys], geometry'[m.name].level))
        <5> DEFINE f == FrameOf(addr[m.phys], l)
        <5>1. m.phys \in DOMAIN addr => Held(f)
          BY <3>1 DEF SizeKept
        <5> HIDE DEF f
        <5>2. m.phys \in DOMAIN addr => StillHeld(f)
          BY <2>3, <5>1 DEF HeldStays
        <5> QED BY <3>1, <4>1, <5>2 DEF StillHeld, f
      <4>3. m.phys \notin DOMAIN addr' => LevelSize(geometry'[m.name].level) <= parsed'[m.phys].size
        <5>1. m.phys \notin DOMAIN addr' => LevelSize(l) <= parsed[m.phys].size
          BY <3>1, <4>1 DEF SizeKept
        <5> HIDE DEF l
        <5>2. m.phys \notin DOMAIN addr' => LevelSize(l) <= parsed'[m.phys].size
          BY <2>1, <2>2, <3>2, <5>1
        <5> QED BY <3>1, <5>2 DEF l
      <4>4. cfg'.all4k /\ m.linked = << >> => geometry'[m.name].level = 0
        BY <3>1 DEF SizeKept
      <4> HIDE DEF l
      <4> QED BY <4>2, <4>3, <4>4 DEF SizeKept, Held, FrameOf, LevelSize
    <3> QED BY <3>3, <3>4
  <2>6. SizesKept'
    <3>1. NormalsOf(cfg)' = NormalsOf(cfg)
      BY <1>1 DEF NormalsOf, ToSet
    <3> QED BY <1>3, <2>5, <3>1 DEF SizesKept
  <2> QED BY <2>3, <2>4, <2>6 DEF Framed
<1> QED BY <1>1, <1>7, <1>8, ZenonT(60) DEF HandleRandomAddr

\* handle_page_mappings: the frame was granted with the size that the page needs.
LEMMA PageFrames ==
  ASSUME Framing, HandlePageMapping, stage' # "failed"
  PROVE  Framed
<1> DEFINE m == Head(todo).mapping
           pa == addr[m.phys]
           lin == IF cfg.paging THEN addr[m.name] ELSE pa
           g == geometry[m.name]
           p == MappedPage(m, g, lin, pa)
<1>1. /\ Head(todo).do = "page" /\ Placing /\ todo # << >> /\ cfg.paging /\ stage = "addresses"
      /\ UNCHANGED <<cfg, pt_pages, geometry, parsed>>
      /\ physical' = IF cfg.paging THEN physical ELSE Reserve(physical, pa, g.size)
      /\ addr' = [addr EXCEPT ![m.name] = lin]
  BY Zenon DEF HandlePageMapping, placeVars, Placing, Framing
<1>2. /\ AsTold(cfg, Head(todo)) /\ TablesGranted /\ PagesHeld /\ SizesKept /\ Tables' = Tables
      /\ OwnFrames(cfg) /\ (\A k : OnlyFrom(k) => OnlyFrom(k)')
  BY <1>1, PlacingFrames
<1>3. m \in NormalsOf(cfg) /\ physical' = physical
  BY <1>1, <1>2 DEF AsTold
<1>4. m.name \in DOMAIN geometry /\ m.phys \in DOMAIN addr
  <2>1. Head(todo) = todo[1] /\ 1 \in DOMAIN todo
    BY <1>1, HeadTyped DEF Framing, IInv
  <2> QED BY <1>1, <2>1 DEF Framing, IInv, CallsInv, OrderKept
<1>5. HeldStays /\ TablesGranted'
  BY <1>2, <1>3, NothingPlaced
<1>6. Held(Frame(p))
  <2>1. SizeKept(m)
    BY <1>2, <1>3, <1>4 DEF SizesKept
  <2>2. Held(FrameOf(pa, g.level))
    BY <1>4, <2>1 DEF SizeKept
  <2>3. Frame(p) = FrameOf(pa, g.level)
    BY DEF Frame, MappedPage, FrameOf
  <2> QED BY <2>2, <2>3
<1>7. AddsPage(p)
  BY <1>1, LinkedPagesGood DEF Framing, IInv
<1> HIDE DEF p
<1>8. PagesHeld'
  <2>1. PICK ms, linked : /\ GoodPages(<<p>>) /\ GoodPages(linked) /\ OwnNone(linked)
                          /\ pages' = AddPages(ms, <<p>> \o linked)
    BY <1>7 DEF AddsPage
  <2>2. StillHeld(Frame(p))
    BY <1>5, <1>6 DEF HeldStays
  <2>3. StillHeldPages(<<p>>)
    BY <2>2, OnePageHeld
  <2>4. StillHeldPages(linked)
    BY <2>1 DEF OwnNone, StillHeldPages
  <2> DEFINE ps == <<p>> \o linked
  <2>5. GoodPages(ps) /\ StillHeldPages(ps)
    <3> DEFINE one == <<p>>
    <3>1. GoodPages(one) /\ StillHeldPages(one)
      BY <2>1, <2>3
    <3> HIDE DEF one
    <3>2. GoodPages(one \o linked) /\ StillHeldPages(one \o linked)
      BY <2>1, <2>4, <3>1, GoodConcat, HeldJoined
    <3> QED BY <3>2 DEF one
  <2>6. pages' = AddPages(ms, ps)
    BY <2>1
  <2> HIDE DEF ps
  <2> QED BY <1>1, <1>2, <1>5, <2>5, <2>6, PagesHeldAdded DEF Framing, IInv
<1>9. SizesKept'
  <2>1. \A n \in NormalsOf(cfg) : n.phys # m.name
    BY <1>2, <1>3 DEF OwnFrames, NormalsOf
  <2>2. \A x : x # m.name => (x \in DOMAIN addr' <=> x \in DOMAIN addr) /\ (x \in DOMAIN addr => addr'[x] = addr[x])
    BY <1>1
  <2> HIDE DEF m
  <2> QED BY <1>1, <1>2, <1>5, <2>1, <2>2, SizesSame
<1> QED BY <1>5, <1>8, <1>9 DEF Framed

\* A table is put into memory that nothing is recorded in.
LEMMA CreateTableFrames ==
  ASSUME Framing, CreateTable, stage' # "failed"
  PROVE  HeldStays /\ TablesGranted' /\ PagesHeld'
<1> DEFINE size == IF cfg.two_stage THEN LevelSize(Current.gnonleaf) ELSE PageBytes
           c    == Request(size, size, PhysicalBits, "dram")
           entry(a) == [next |-> a, leaf |-> FALSE, by |-> Current.name]
<1>1. stage = "tables" /\ UNCHANGED <<cfg, pages, root>>
  BY Zenon DEF CreateTable
<1>2. TablesGranted /\ PagesHeld /\ FramesAreOwned /\ SpacesInv /\ PagesInv /\ CursorInv
  BY DEF Framing, FramesInv, IInv
<1>3. GoodPage(Current)
  BY <1>1, <1>2, CurrentTyped
<1>4. size \in Nat \ {0} /\ PageBytes <= size /\ size % PageBytes = 0
  <2>1. Current.gnonleaf \in 0 .. TopLevel
    BY <1>3 DEF GoodPage
  <2>2. \A l \in 0 .. TopLevel : LevelSize(l) \in Nat \ {0} /\ PageBytes <= LevelSize(l) /\ LevelSize(l) % PageBytes = 0
    BY LevelsAreAligned, LevelSizes
  <2>3. PageBytes \in Nat \ {0} /\ PageBytes % PageBytes = 0 /\ PageBytes <= PageBytes
    BY LevelSizes
  <2> QED BY <2>1, <2>2, <2>3
<1>5. PICK a, v : /\ a \in Grantable(physical, c) /\ v \in ViewChoices
                  /\ physical' = Allocate(physical, c, a)
                  /\ linear' = IF v = None THEN linear ELSE Allocate(linear, ViewRequest, v)
                  /\ AddRawPages(GStagePage("vslevel", a, Current.gnonleaf), TablePage(v))
                  /\ pte' = Put(pte, Slot, entry(a))
  BY Zenon DEF CreateTable
<1> HIDE DEF size
<1>6. Tables' \subseteq Tables \cup {a}
  <2>1. \A s \in DOMAIN pte' : pte'[s] = entry(a) \/ (s \in DOMAIN pte /\ pte'[s] = pte[s])
    BY <1>5 DEF Put
  <2>2. entry(a).next = a
    OBVIOUS
  <2> HIDE DEF entry
  <2> QED BY <1>1, <2>1, <2>2 DEF Tables
<1>7. PICK n : /\ n \in Nat \ {0} /\ PageBytes <= n /\ n % PageBytes = 0
               /\ a \in Grantable(physical, Request(n, n, PhysicalBits, "dram"))
               /\ physical' = Allocate(physical, Request(n, n, PhysicalBits, "dram"), a)
  <2>1. a \in Grantable(physical, Request(size, size, PhysicalBits, "dram"))
        /\ physical' = Allocate(physical, Request(size, size, PhysicalBits, "dram"), a)
    BY <1>5 DEF c
  <2> QED BY <1>4, <2>1
<1>9. HeldStays /\ TablesGranted'
  BY ONLY <1>2, <1>6, <1>7, HeldWithTable
<1>8. PagesHeld'
  <2>0. SpaceInv(physical, {"dram"})
    BY <1>2 DEF SpacesInv
  <2>1. a \in Int /\ v \in Int
    <3>1. a \in Nat
      BY ONLY <1>7, <2>0, GrownAllocate
    <3>2. v \in Int
      BY <1>2, <1>5, ViewTyped
    <3> QED BY <3>1, <3>2
  <2>2. GoodPages(GStagePage("vslevel", a, Current.gnonleaf)) /\ GoodPages(TablePage(v))
    <3>1. IsSeq(Current.name[3]) /\ Current.gnonleaf \in 0 .. TopLevel /\ cursor.table \in Int
      BY <1>1, <1>2, <1>3 DEF GoodPage, CursorInv
    <3> QED BY <2>1, <3>1, StagePagesGood
  <2>3. OwnNone(GStagePage("vslevel", a, Current.gnonleaf)) /\ OwnNone(TablePage(v))
    BY StagePagesOwnNone
  <2> DEFINE gp == GStagePage("vslevel", a, Current.gnonleaf)
             tp == TablePage(v)
  <2>4. GoodPages(gp) /\ GoodPages(tp) /\ OwnNone(gp) /\ OwnNone(tp) /\ AddRawPages(gp, tp)
    BY <1>5, <2>2, <2>3
  <2> HIDE DEF gp, tp
  <2> QED BY <1>1, <1>2, <1>9, <2>4, PagesHeldRaw
<1> QED BY <1>8, <1>9

\* A leaf makes no table, but may end one.
LEMMA CreateLeafFrames ==
  ASSUME Framing, CreateLeaf, stage' # "failed"
  PROVE  HeldStays /\ TablesGranted' /\ PagesHeld'
<1> DEFINE entry == [next |-> Current.phys, leaf |-> TRUE, by |-> Current.name]
<1>1. stage = "tables" /\ UNCHANGED <<cfg, physical, pages, root>>
  BY Zenon DEF CreateLeaf
<1>2. TablesGranted /\ PagesHeld /\ SpacesInv /\ PagesInv /\ CursorInv
  BY DEF Framing, FramesInv, IInv
<1>3. GoodPage(Current)
  BY <1>1, <1>2, CurrentTyped
<1>5. PICK v : /\ v \in ViewChoices
               /\ linear' = IF v = None THEN linear ELSE Allocate(linear, ViewRequest, v)
               /\ AddRawPages(GStagePage("vsleaf", Current.phys, Current.gleaf), TablePage(v))
               /\ pte' = Put(pte, Slot, entry)
  BY Zenon DEF CreateLeaf
<1>6. Tables' \subseteq Tables
  <2>1. \A s \in DOMAIN pte' : pte'[s] = entry \/ (s \in DOMAIN pte /\ pte'[s] = pte[s])
    BY <1>5 DEF Put
  <2>2. entry.leaf
    OBVIOUS
  <2> HIDE DEF entry
  <2> QED BY <1>1, <2>1, <2>2 DEF Tables
<1>7. HeldStays /\ TablesGranted'
  BY <1>1, <1>2, <1>6, HeldWithRanges
<1>8. PagesHeld'
  <2>1. v \in Int
    BY <1>2, <1>5, ViewTyped
  <2> DEFINE gp == GStagePage("vsleaf", Current.phys, Current.gleaf)
             tp == TablePage(v)
  <2>2. GoodPages(gp) /\ GoodPages(tp)
    <3>1. /\ IsSeq(Current.name[3]) /\ Current.gleaf \in 0 .. TopLevel /\ cursor.table \in Int
          /\ Current.phys \in Int
      BY <1>1, <1>2, <1>3 DEF GoodPage, CursorInv
    <3> QED BY <2>1, <3>1, StagePagesGood
  <2>4. OwnNone(gp) /\ OwnNone(tp) /\ AddRawPages(gp, tp)
    BY <1>5, StagePagesOwnNone
  <2> HIDE DEF gp, tp
  <2> QED BY <1>1, <1>2, <1>7, <2>2, <2>4, PagesHeldRaw
<1> QED BY <1>7, <1>8

\* Every call that places something.
LEMMA PlacedFrames ==
  ASSUME Framing, Placing, stage' # "failed"
  PROVE  Framed
<1>1. CASE AddSection
  BY <1>1, SectionFrames
<1>2. CASE InitializePageMap
  BY <1>2, MapFrames
<1>3. CASE HandleResMem
  BY <1>3, ResMemFrames
<1>4. CASE HandleNormalPageMapping
  BY <1>4, NormalFrames
<1>5. CASE HandleRandomPageMapping
  BY <1>5, RandomFrames
<1>6. CASE HandleFixedPageMapping
  BY <1>6, FixedFrames
<1>7. CASE HandleRandomAddr
  BY <1>7, RandomAddrFrames
<1>8. CASE HandlePageMapping
  BY <1>8, PageFrames
<1> QED BY <1>1, <1>2, <1>3, <1>4, <1>5, <1>6, <1>7, <1>8, Zenon DEF Placing

\* Every step that builds tables.
LEMMA TableFrames ==
  ASSUME Framing, Table, stage' # "failed"
  PROVE  /\ HeldStays /\ TablesGranted' /\ PagesHeld' /\ stage' # "addresses"
         /\ UNCHANGED <<root, todo>>
<1>1. stage = "tables" /\ UNCHANGED <<cfg, root, todo>>
  BY Zenon DEF Table, FollowEntry, CreateTable, CreateLeaf
<1>2. PagesInv /\ CursorInv /\ TablesGranted /\ PagesHeld
  BY DEF Framing, IInv, FramesInv
<1>3. stage' # "addresses"
  <2>1. ToNextPage \/ UNCHANGED stage \/ stage' = "failed"
    BY ZenonT(60) DEF Table, FollowEntry, CreateTable, CreateLeaf
  <2> QED BY <1>1, <1>2, <2>1, NextStage
<1>4. CASE FollowEntry
  <2>1. UNCHANGED <<physical, pages, pt_pages, pte>>
    BY <1>4, Zenon DEF FollowEntry
  <2>2. Tables' = Tables
    BY <1>1, <2>1 DEF Tables
  <2>3. HeldStays /\ TablesGranted'
    BY <1>2, <2>1, <2>2, NothingPlaced
  <2> QED BY <1>1, <1>2, <1>3, <2>1, <2>3, PagesHeldSame
<1>5. CASE CreateTable
  BY <1>1, <1>3, <1>5, CreateTableFrames
<1>6. CASE CreateLeaf
  BY <1>1, <1>3, <1>6, CreateLeafFrames
<1> QED BY <1>4, <1>5, <1>6, Zenon DEF Table

\* So every step keeps the frames.
LEMMA FramesStep ==
  ASSUME FramesAreOwned, IInv, SectionsInv, FramesInv, [Next]_vars
  PROVE  FramesInv'
<1>1. CASE Placing
  <2>1. cfg' = cfg /\ stage = "addresses"
    BY <1>1, PlacingChanges
  <2> SUFFICES ASSUME cfg'.paging, stage' # "failed"
               PROVE  FramesInv'
    BY DEF FramesInv
  <2>2. Framing
    BY <2>1 DEF Framing
  <2>3. InOrder(todo)' /\ (DOMAIN root' # {} => OnlyFrom(1)')
    BY <1>1, <2>2, PlacingFrames
  <2>4. Framed
    BY <1>1, <2>2, PlacedFrames
  <2> QED BY <2>3, <2>4 DEF Framed, FramesInv
<1>2. CASE StartTables
  <2>1. /\ stage = "addresses" /\ todo = << >>
        /\ UNCHANGED <<cfg, physical, pages, pt_pages, root, pte, todo>> /\ ToFirstPage(TableMaps)
    BY <1>2, Zenon DEF StartTables
  <2> SUFFICES ASSUME cfg'.paging, stage' # "failed"
               PROVE  FramesInv'
    BY DEF FramesInv
  <2>2. InOrder(todo) /\ (DOMAIN root # {} => OnlyFrom(1)) /\ TablesGranted /\ PagesHeld
    BY <2>1 DEF FramesInv
  <2>3. Tables' = Tables
    BY <2>1 DEF Tables
  <2>4. HeldStays /\ TablesGranted'
    BY <2>1, <2>2, <2>3, NothingPlaced
  <2>5. PagesHeld'
    BY <2>1, <2>2, <2>4, PagesHeldSame
  <2>6. stage' # "addresses"
    <3>1. TableMaps \in Seq(MapNames(cfg))
      BY TableMapsExist DEF IInv
    <3> QED BY <2>1, <3>1, FirstStart
  <2>7. InOrder(todo)' /\ (DOMAIN root' # {} => OnlyFrom(1)')
    BY <2>1, <2>2 DEF InOrder, OnlyFrom
  <2> QED BY <2>4, <2>5, <2>6, <2>7 DEF FramesInv
<1>3. CASE Table
  <2>1. cfg' = cfg /\ stage = "tables"
    BY <1>3, Zenon DEF Table, FollowEntry, CreateTable, CreateLeaf
  <2> SUFFICES ASSUME cfg'.paging, stage' # "failed"
               PROVE  FramesInv'
    BY DEF FramesInv
  <2>2. Framing
    BY <2>1 DEF Framing
  <2>3. /\ HeldStays /\ TablesGranted' /\ PagesHeld' /\ stage' # "addresses"
        /\ UNCHANGED <<root, todo>>
    BY <1>3, <2>2, TableFrames
  <2>4. InOrder(todo)' /\ (DOMAIN root' # {} => OnlyFrom(1)')
    BY <2>2, <2>3 DEF InOrder, OnlyFrom, Framing, FramesInv
  <2> QED BY <2>3, <2>4 DEF FramesInv
<1>4. CASE UNCHANGED vars
  <2>1. UNCHANGED <<cfg, physical, addr, pages, pt_pages, root, pte, stage, todo, geometry, parsed>>
    BY <1>4, Zenon DEF vars, tableVars
  <2> SUFFICES ASSUME cfg'.paging, stage' # "failed"
               PROVE  FramesInv'
    BY DEF FramesInv
  <2>2. /\ InOrder(todo) /\ (DOMAIN root # {} => OnlyFrom(1)) /\ TablesGranted /\ PagesHeld
        /\ stage = "addresses" => SizesKept
    BY <2>1 DEF FramesInv
  <2>3. Tables' = Tables
    BY <2>1 DEF Tables
  <2>4. HeldStays /\ TablesGranted'
    BY <2>1, <2>2, <2>3, NothingPlaced
  <2>5. PagesHeld'
    BY <2>1, <2>2, <2>4, PagesHeldSame
  <2>6. InOrder(todo)' /\ (DOMAIN root' # {} => OnlyFrom(1)') /\ \A k : OnlyFrom(k) => OnlyFrom(k)'
    BY <2>1, <2>2 DEF InOrder, OnlyFrom
  <2>7. stage' = "addresses" => SizesKept'
    BY <2>1, <2>2, <2>4, <2>6, SizesSame
  <2> QED BY <2>4, <2>5, <2>6, <2>7 DEF FramesInv
<1> QED BY <1>1, <1>2, <1>3, <1>4, Zenon DEF Next, Stop, Placing

\* Nothing is placed in the beginning, and the calls come in order.
LEMMA FramesInit == Init => FramesInv
<1> SUFFICES ASSUME NEW t \in Tests, InitOf(t)  PROVE FramesInv
  BY DEF Init
<1>1. /\ cfg = t /\ todo = Calls(t) /\ DOMAIN addr = {} /\ DOMAIN root = {} /\ DOMAIN pte = {}
      /\ DOMAIN geometry = {}
      /\ \A m \in MapNames(cfg) : DOMAIN pages[m] = {} /\ DOMAIN pt_pages[m] = {}
  BY DEF InitOf
<1>2. InOrder(todo)
  BY <1>1, CallsInOrder
<1>3. TablesGranted
  BY <1>1 DEF TablesGranted, Tables
<1>4. PagesHeld
  BY <1>1 DEF PagesHeld
<1>5. SizesKept
  BY <1>1 DEF SizesKept
<1> QED BY <1>1, <1>2, <1>3, <1>4, <1>5 DEF FramesInv

\* In every state of a run that has not failed, what lies in memory was recorded, and
\* no table lies in it.
THEOREM FramesInvariant == FramesAreOwned => (Spec => []FramesInv)
<1> SUFFICES ASSUME FramesAreOwned  PROVE Spec => []FramesInv
  OBVIOUS
<1>1. Init => FramesInv
  BY FramesInit
<1>2. IInv /\ SectionsInv /\ FramesInv /\ [Next]_vars => FramesInv'
  BY FramesStep
<1> QED BY <1>1, <1>2, InductiveInvariant, SectionsInvariant, PTL DEF Spec

\* The tables of a map are the roots and what the entries name.
LEMMA TablesAreKnown ==
  ASSUME NEW m \in DOMAIN root, NEW t \in TablesOf(m)
  PROVE  t \in Tables
<1>1. CASE t = root[m]
  BY <1>1 DEF Tables
<1>2. CASE t # root[m]
  <2>1. PICK p \in ToSet(Work(m)) : t \in Range(WalkTables(m, p.lin)) /\ t # None
    BY <1>2 DEF TablesOf
  <2> DEFINE w == WalkTables(m, p.lin)
  <2>2. /\ DOMAIN w = 0 .. TopLevel /\ w[TopLevel] = root[m]
        /\ \A k \in 0 .. TopLevel - 1 : w[k] = Below(w[k + 1], p.lin, k + 1)
    BY WalkTablesAre
  <2>3. PICK k \in 0 .. TopLevel : t = w[k]
    <3> HIDE DEF w
    <3> QED BY <2>1, <2>2 DEF Range, w
  <2> HIDE DEF w
  <2>4. k \in 0 .. TopLevel - 1
    BY <1>2, <2>2, <2>3, LevelSizes
  <2>5. t = Below(w[k + 1], p.lin, k + 1) /\ t # None
    BY <2>1, <2>2, <2>3, <2>4
  <2> QED BY <2>5 DEF Below, Tables
<1> QED BY <1>1, <1>2

\* A page's frame that is held has no table in it.
LEMMA HeldFramesArePrivate ==
  ASSUME IInv, FramesInv
  PROVE  TablesHoldNoPages
<1> SUFFICES ASSUME stage = "finished", NEW m \in ToSet(TableMaps), NEW t \in TablesOf(m),
                    NEW p \in AllPages, OwnsFrame(p)
             PROVE  ~ Overlaps(PageAt(t), Frame(p))
  BY DEF TablesHoldNoPages
<1>1. cfg.paging
  <2>1. ~ cfg.paging => TableMaps = << >>
    BY DEF TableMaps
  <2> QED BY <2>1 DEF ToSet
<1>2. m \in DOMAIN root
  <2>1. \A x \in ToSet(TableMaps) : x \in MapNames(cfg)
    BY TableMapsExist DEF IInv, ToSet
  <2> QED BY <2>1, RootsExist DEF IInv, EntriesInv
<1>3. t \in Tables
  BY <1>2, TablesAreKnown
<1>4. PICK n \in DOMAIN pages : p \in ToSet(Work(n))
  BY DEF AllPages
<1>5. n \in MapNames(cfg) /\ GoodPages(pages[n]) /\ GoodPages(pt_pages[n])
  BY <1>4 DEF IInv, PagesInv
<1>6. PICK k \in DOMAIN (pages[n] \o pt_pages[n]) : p = (pages[n] \o pt_pages[n])[k]
  BY <1>4 DEF ToSet, Work
<1>7. \/ \E i \in DOMAIN pages[n] : p = pages[n][i]
      \/ \E i \in DOMAIN pt_pages[n] : p = pt_pages[n][i]
  <2> DEFINE a == pages[n]
             b == pt_pages[n]
  <2>1. GoodPages(a) /\ GoodPages(b)
    BY <1>5
  <2>2. k \in DOMAIN (a \o b) /\ p = (a \o b)[k]
    BY <1>6
  <2> HIDE DEF a, b
  <2>3. (\E i \in DOMAIN a : p = a[i]) \/ (\E i \in DOMAIN b : p = b[i])
    BY ONLY <2>1, <2>2, JoinedMembers
  <2> QED BY <2>3 DEF a, b
<1>8. Held(Frame(p))
  BY <1>1, <1>5, <1>7 DEF FramesInv, PagesHeld
<1> QED BY <1>3, <1>8 DEF Held, HeldIn

\* The frame of a table holds no page that the generator recorded, and no other table.
THEOREM TableFramesArePrivate == FramesAreOwned => (Spec => []TableFramesPrivate)
<1>1. IInv /\ FramesInv => TablesHoldNoPages
  BY HeldFramesArePrivate
<1>2. TablesApart /\ TablesHoldNoPages => TableFramesPrivate
  BY DEF TableFramesPrivate
<1> QED BY <1>1, <1>2, InductiveInvariant, FramesInvariant, TablesAreApart, PTL
=============================================================================
