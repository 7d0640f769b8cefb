------------------------- MODULE TwoStages_proofs ---------------------------
(***************************************************************************)
(* Theorems about the generator when a test has two stages: map_hyp        *)
(* translates every table of map_os, and every frame that is found through *)
(* it, to itself, as long as no page is entered twice (PagesAreNamedOnce). *)
(* The invariant says that every entry that is written for map_os has an   *)
(* identity page in map_hyp, and that those whose tables are built are     *)
(* mapped.                                                                 *)
(***************************************************************************)
EXTENDS Generator_proofs

(***************************************************************************)
(* First the names: every page of map_os has its own, so that the names    *)
(* derived from it are new when the tables are built.                      *)
(***************************************************************************)
\* Names as the generator makes them: of a page that a call adds, and whatever is
\* filed before the tables are built.
PageName(n) == n = <<n[1], n[2], << >> >>
Phys == Append(<< >>, <<"phys", 0>>)
FiledName(n) == n[3] = << >> \/ n[3] = Phys

\* What a call may add to the lists of pages: pages of its names, each once, and
\* only small ones to map_hyp; a random mapping adds its page once.
Entered(ms, ps) ==
    /\ pages' = AddPages(ms, ps) /\ IsSeq(ps)
    /\ \A k \in DOMAIN ps : ps[k].name \in PageNames(Head(todo))
    /\ \A j, k \in DOMAIN ps : ps[j].name = ps[k].name => j = k
    /\ "map_hyp" \in ms => \A k \in DOMAIN ps : ps[k].level = 0
    /\ IsRandom(Head(todo)) => Head(todo).name \notin DOMAIN addr /\ Head(todo).name \in DOMAIN addr'

EntersPages == UNCHANGED pages \/ \E ms, ps : Entered(ms, ps)

\* One page.
LEMMA OneEntered ==
  ASSUME NEW ms, NEW p, pages' = AddPages(ms, <<p>>), p.name \in PageNames(Head(todo)),
         "map_hyp" \in ms => p.level = 0,
         IsRandom(Head(todo)) => Head(todo).name \notin DOMAIN addr /\ Head(todo).name \in DOMAIN addr'
  PROVE  EntersPages
<1> DEFINE ps == <<p>>
<1>1. DOMAIN ps = {1} /\ ps[1] = p
  OBVIOUS
<1>2. pages' = AddPages(ms, ps) /\ ps \in Seq({p})
  OBVIOUS
<1> HIDE DEF ps
<1>4. IsSeq(ps)
  BY <1>2 DEF IsSeq
<1>3. Entered(ms, ps)
  BY <1>1, <1>2, <1>4 DEF Entered
<1> QED BY <1>3, Zenon DEF EntersPages

\* The names of the pages that calls add.
LEMMA PageNamesAre ==
  ASSUME CallsInv, NEW k \in DOMAIN todo, NEW n \in PageNames(todo[k])
  PROVE  PageName(n)
<1> DEFINE c == todo[k]
<1>1. CallTyped(cfg, c)
  <2>1. todo \in Seq(ToSet(Calls(cfg))) /\ cfg \in Tests
    BY DEF CallsInv
  <2>2. todo[k] \in ToSet(Calls(cfg))
    BY <2>1
  <2> QED BY <2>1, <2>2, GeneratorAssumption DEF ToSet
<1>2. \A x : TestName(x) => PageName(x)
  <2> SUFFICES ASSUME NEW x, TestName(x)  PROVE PageName(x)
    OBVIOUS
  <2>1. x = <<x[1], 0, << >> >>
    BY DEF TestName, Base
  <2> QED BY <2>1 DEF PageName
<1>3. \A x : TestName(Base(x))
  BY DEF TestName, Base
<1> HIDE DEF c
<1>4. n \in PageNames(c)
  BY DEF c
<1>5. CASE c.do = "section"
  BY <1>4, <1>5 DEF PageNames, PageName
<1>6. CASE c.do = "map"
  BY <1>2, <1>3, <1>4, <1>6 DEF PageNames
<1>7. CASE c.do = "mapping"
  <2>1. TestName(c.name)
    BY <1>1, <1>7 DEF CallTyped, MappingTyped
  <2> QED BY <1>2, <1>4, <1>7, <2>1 DEF PageNames
<1>8. CASE c.do = "page"
  <2>1. /\ TestName(c.mapping.name)
        /\ \A j \in DOMAIN c.mapping.linked : TestName(c.mapping.linked[j].name)
    BY <1>1, <1>8 DEF CallTyped, MappingTyped
  <2>2. n = c.mapping.name \/ \E x \in ToSet(c.mapping.linked) : n = x.name
    BY <1>4, <1>8 DEF PageNames
  <2> QED BY <1>2, <2>1, <2>2 DEF ToSet
<1>9. c.do \notin {"section", "map", "mapping", "page"} => PageNames(c) = {}
  BY DEF PageNames
<1> QED BY <1>4, <1>5, <1>6, <1>7, <1>8, <1>9

\* What a call files.
LEMMA FiledPut ==
  /\ \A n : TestName(n) => FiledName(n) /\ FiledName(Derived(n, "phys", 0))
  /\ \A f, n, v : FiledName(n) => \A x \in DOMAIN Put(f, n, v) : x \in DOMAIN f \/ FiledName(x)
<1>1. ASSUME NEW n, TestName(n)  PROVE FiledName(n) /\ FiledName(Derived(n, "phys", 0))
  <2>1. n[3] = << >>
    BY <1>1 DEF TestName, Base
  <2> QED BY <2>1 DEF FiledName, Derived, Phys
<1> QED BY <1>1 DEF Put

\* A section's call.
LEMMA SectionNamesNew ==
  ASSUME CallsInv, AddSection
  PROVE  EntersPages /\ \A n \in DOMAIN addr' : n \in DOMAIN addr \/ FiledName(n)
<1> DEFINE c == Head(todo)
           name == <<c.section, c.page, << >> >>
<1>1. /\ c.do = "section"
      /\ UNCHANGED pages \/ \E lin, phys : pages' = AddPages(DOMAIN pages, <<Page4K(name, lin, phys, c.section)>>)
      /\ UNCHANGED addr \/ \E lin, phys : addr' = Put(Put(addr, Derived(name, "phys", 0), phys), name, lin)
  BY ZenonT(30) DEF AddSection
<1>2. FiledName(name) /\ FiledName(Derived(name, "phys", 0))
  BY DEF FiledName, Derived, Phys
<1>3. name \in PageNames(Head(todo)) /\ ~ IsRandom(Head(todo))
  BY <1>1 DEF PageNames, IsRandom
<1> HIDE DEF name
<1>4. \A n \in DOMAIN addr' : n \in DOMAIN addr \/ FiledName(n)
  BY <1>1, <1>2, FiledPut, Zenon
<1>5. EntersPages
  <2>1. CASE UNCHANGED pages
    BY <2>1 DEF EntersPages
  <2>2. CASE ~ UNCHANGED pages
    <3>1. PICK lin, phys : pages' = AddPages(DOMAIN pages, <<Page4K(name, lin, phys, c.section)>>)
      BY <1>1, <2>2
    <3> DEFINE p == Page4K(name, lin, phys, c.section)
    <3>2. p.name = name /\ p.level = 0
      BY DEF Page4K
    <3> HIDE DEF p, c
    <3>3. pages' = AddPages(DOMAIN pages, <<p>>)
      BY <3>1 DEF p
    <3> QED BY <1>3, <3>2, <3>3, OneEntered
  <2> QED BY <2>1, <2>2
<1> QED BY <1>4, <1>5

\* A mapping of a page of its own.
LEMMA MappingNamesNew ==
  ASSUME CallsInv, HandleRandomPageMapping \/ HandleFixedPageMapping, NamedOnce(Head(todo))
  PROVE  EntersPages /\ \A n \in DOMAIN addr' : n \in DOMAIN addr \/ FiledName(n)
<1> DEFINE c == Head(todo)
<1>1. /\ c.do = "mapping" /\ c.kind \in {"random", "fixed"}
      /\ todo # << >>
      /\ UNCHANGED pages \/ \E g, lin, a : pages' = AddPages({"map_os"} \cup c.maps, <<MappedPage(c, g, lin, a)>>)
      /\ \/ UNCHANGED addr
         \/ \E a : addr' = Put(addr, c.name, a)
         \/ \E a : addr' = Put(addr, c.phys, a)
         \/ \E a, lin : addr' = Put(Put(addr, c.phys, a), c.name, lin)
         \/ \E a, lin : addr' = Put(Put(addr, Derived(c.name, "phys", 0), a), c.name, lin)
  <2>1. CASE HandleRandomPageMapping
    BY <2>1, ZenonT(30) DEF HandleRandomPageMapping, Mapping
  <2>2. CASE HandleFixedPageMapping
    <3>1. /\ c.do = "mapping" /\ c.kind = "fixed" /\ todo # << >>
          /\ UNCHANGED pages \/ \E g, lin, a : pages' = AddPages({"map_os"} \cup c.maps, <<MappedPage(c, g, lin, a)>>)
          /\ UNCHANGED addr \/ \E a, lin : addr' = IF c.pa = None THEN Put(addr, c.name, a)
                                    ELSE IF c.lin = None THEN Put(Put(addr, c.phys, a), c.name, lin)
                                    ELSE Put(addr, c.phys, a)
      BY <2>2, ZenonT(30) DEF HandleFixedPageMapping, Mapping
    <3> HIDE DEF c
    <3> QED BY <3>1
  <2> QED BY <2>1, <2>2
<1>2. IsRandom(c) => \/ UNCHANGED pages
                     \/ c.name \notin DOMAIN addr /\ \E a, lin : addr' = Put(Put(addr, Derived(c.name, "phys", 0), a), c.name, lin)
  <2>1. CASE HandleRandomPageMapping
    BY <2>1, ZenonT(30) DEF HandleRandomPageMapping
  <2>2. CASE HandleFixedPageMapping
    <3>1. c.kind = "fixed"
      BY <2>2, Zenon DEF HandleFixedPageMapping, Mapping
    <3> QED BY <3>1 DEF IsRandom
  <2> QED BY <2>1, <2>2
<1>3. TestName(c.name) /\ TestName(c.phys) /\ "map_hyp" \notin {"map_os"} \cup c.maps
  <2>1. CallTyped(cfg, c)
    BY <1>1, HeadTyped
  <2> QED BY <1>1, <2>1 DEF CallTyped, MappingTyped, NamedOnce, SparesMapHyp
<1>4. c.name \in PageNames(c)
  BY <1>1 DEF PageNames
<1>5. \A n \in DOMAIN addr' : n \in DOMAIN addr \/ FiledName(n)
  <2> HIDE DEF c
  <2>1. FiledName(c.name) /\ FiledName(c.phys) /\ FiledName(Derived(c.name, "phys", 0))
    BY <1>3, FiledPut
  <2>2. ASSUME NEW n, NEW k, NEW a, NEW b, FiledName(n), FiledName(k), addr' = Put(Put(addr, n, a), k, b)
        PROVE  \A x \in DOMAIN addr' : x \in DOMAIN addr \/ FiledName(x)
    BY <2>2, FiledPut, Zenon
  <2>3. ASSUME NEW n, NEW a, FiledName(n), addr' = Put(addr, n, a)
        PROVE  \A x \in DOMAIN addr' : x \in DOMAIN addr \/ FiledName(x)
    BY <2>3, FiledPut, Zenon
  <2> QED BY <1>1, <2>1, <2>2, <2>3, Zenon
<1>6. EntersPages
  <2>1. CASE UNCHANGED pages
    BY <2>1 DEF EntersPages
  <2>2. CASE ~ UNCHANGED pages
    <3>1. PICK g, lin, a : pages' = AddPages({"map_os"} \cup c.maps, <<MappedPage(c, g, lin, a)>>)
      BY <1>1, <2>2
    <3> DEFINE p == MappedPage(c, g, lin, a)
               ms == {"map_os"} \cup c.maps
    <3>2. p.name = c.name
      BY DEF MappedPage
    <3>3. IsRandom(c) => c.name \notin DOMAIN addr /\ c.name \in DOMAIN addr'
      BY <1>2, <2>2 DEF Put
    <3>4. IsRandom(c) => c.name = p.name
      BY <3>2
    <3> HIDE DEF p
    <3>5. pages' = AddPages(ms, <<p>>) /\ "map_hyp" \notin ms
      BY <1>3, <3>1 DEF p
    <3> HIDE DEF ms
    <3> QED BY <1>4, <3>2, <3>3, <3>5, OneEntered
  <2> QED BY <2>1, <2>2
<1> QED BY <1>5, <1>6

\* The page of a normal mapping, and those linked to it.
LEMMA PageNamesNew ==
  ASSUME CallsInv, HandlePageMapping, NamedOnce(Head(todo))
  PROVE  EntersPages /\ \A n \in DOMAIN addr' : n \in DOMAIN addr \/ FiledName(n)
<1> DEFINE c == Head(todo)
           m == c.mapping
           pa == addr[m.phys]
           lin == IF cfg.paging THEN addr[m.name] ELSE pa
           g == geometry[m.name]
           linkedPage(k, h) == [MappedPage(m, h, lin + k.offset, pa + k.offset) EXCEPT
                                  !.name = k.name, !.origin = "linked", !.own = "none"]
<1>1. /\ c.do = "page" /\ todo # << >>
      /\ \E v : addr' = [addr EXCEPT ![m.name] = v]
      /\ \E hs : pages' = AddPages({"map_os"} \cup m.maps,
                                     <<MappedPage(m, g, lin, pa)>>
                                       \o [i \in DOMAIN m.linked |-> linkedPage(m.linked[i], hs[i])])
  BY Zenon DEF HandlePageMapping
<1>2. PICK hs : pages' = AddPages({"map_os"} \cup m.maps,
                                     <<MappedPage(m, g, lin, pa)>>
                                       \o [i \in DOMAIN m.linked |-> linkedPage(m.linked[i], hs[i])])
  BY <1>1
<1>3. MappingTyped(m)
  <2>1. CallTyped(cfg, c)
    BY <1>1, HeadTyped
  <2> QED BY <1>1, <2>1 DEF CallTyped
<1> DEFINE ms == {"map_os"} \cup m.maps
           head == MappedPage(m, g, lin, pa)
           tail == [i \in DOMAIN m.linked |-> linkedPage(m.linked[i], hs[i])]
           ps == <<head>> \o tail
<1>4. "map_hyp" \notin ms
  BY <1>1 DEF NamedOnce, SparesMapHyp
<1>5. head.name = m.name
  BY DEF MappedPage
<1>6. PICK n \in Nat : m.linked \in Seq(ToSet(m.linked)) /\ DOMAIN m.linked = 1 .. n
  BY <1>3 DEF MappingTyped
<1>7. \A k, h : linkedPage(k, h).name = k.name
  BY DEF MappedPage
<1>8. /\ DOMAIN tail = 1 .. n /\ tail \in Seq({tail[i] : i \in 1 .. n})
      /\ \A i \in 1 .. n : tail[i].name = m.linked[i].name
  <2>1. DOMAIN tail = 1 .. n /\ \A i \in 1 .. n : tail[i] = linkedPage(m.linked[i], hs[i])
    BY <1>6
  <2>2. tail = [i \in 1 .. n |-> tail[i]]
    BY <1>6
  <2> HIDE DEF tail, linkedPage
  <2>3. tail \in Seq({tail[i] : i \in 1 .. n})
    BY <2>1, <2>2
  <2> QED BY <1>7, <2>1, <2>3
<1> HIDE DEF head, tail
<1>9. /\ ps \in Seq({head} \cup {tail[i] : i \in 1 .. n}) /\ DOMAIN ps = 1 .. n + 1
      /\ ps[1] = head /\ \A i \in 2 .. n + 1 : ps[i] = tail[i - 1]
  <2> DEFINE T == {head} \cup {tail[i] : i \in 1 .. n}
  <2>1. tail \in Seq(T) /\ <<head>> \in Seq(T) /\ Len(tail) = n
    BY <1>8
  <2>2. head \in T
    OBVIOUS
  <2> HIDE DEF T
  <2> QED BY <2>1, <2>2 DEF T
<1>10. pages' = AddPages(ms, ps)
  BY <1>2, Zenon DEF head, tail
<1> HIDE DEF ps, ms
<1>11. IsSeq(ps)
  BY <1>9 DEF IsSeq
<1>12. \A k \in DOMAIN ps : ps[k].name = IF k = 1 THEN m.name ELSE m.linked[k - 1].name
  BY <1>5, <1>6, <1>8, <1>9
<1>13. \A k \in DOMAIN ps : ps[k].name \in PageNames(c)
  <2>1. PageNames(c) = {m.name} \cup {k.name : k \in ToSet(m.linked)}
    BY <1>1 DEF PageNames
  <2>2. \A i \in 1 .. n : m.linked[i].name \in {k.name : k \in ToSet(m.linked)}
    BY <1>6 DEF ToSet
  <2>3. \A k \in 1 .. n + 1 : k = 1 \/ k - 1 \in 1 .. n
    OBVIOUS
  <2> HIDE DEF m, c
  <2> QED BY <1>9, <1>12, <2>1, <2>2, <2>3
<1>14. \A j, k \in DOMAIN ps : ps[j].name = ps[k].name => j = k
  <2>1. /\ \A i \in 1 .. n : m.linked[i].name # m.name
        /\ \A i, j \in 1 .. n : m.linked[j].name = m.linked[i].name => j = i
    BY <1>1, <1>6 DEF NamedOnce
  <2>2. \A k \in 1 .. n + 1 : k = 1 \/ k - 1 \in 1 .. n
    OBVIOUS
  <2>3. \A j, k \in 1 .. n + 1 : j - 1 = k - 1 => j = k
    OBVIOUS
  <2> HIDE DEF m
  <2> SUFFICES ASSUME NEW j \in 1 .. n + 1, NEW k \in 1 .. n + 1, ps[j].name = ps[k].name  PROVE j = k
    BY <1>9
  <2>4. /\ ps[j].name = IF j = 1 THEN m.name ELSE m.linked[j - 1].name
        /\ ps[k].name = IF k = 1 THEN m.name ELSE m.linked[k - 1].name
    BY <1>9, <1>12
  <2>5. CASE j = 1 \/ k = 1
    BY <2>1, <2>2, <2>4, <2>5
  <2>6. CASE j # 1 /\ k # 1
    <3>1. m.linked[j - 1].name = m.linked[k - 1].name /\ j - 1 \in 1 .. n /\ k - 1 \in 1 .. n
      BY <2>2, <2>4, <2>6
    <3> QED BY <2>1, <2>3, <3>1
  <2> QED BY <2>5, <2>6
<1>15. ~ IsRandom(c)
  BY <1>1 DEF IsRandom
<1>16. Entered(ms, ps)
  BY <1>4, <1>10, <1>11, <1>13, <1>14, <1>15 DEF Entered
<1>17. \A x \in DOMAIN addr' : x \in DOMAIN addr
  BY <1>1
<1> QED BY <1>16, <1>17, Zenon DEF EntersPages

\* Every call before the tables.
LEMMA PlacingNames ==
  ASSUME CallsInv, Placing, NamedOnce(Head(todo))
  PROVE  EntersPages /\ \A n \in DOMAIN addr' : n \in DOMAIN addr \/ FiledName(n)
<1> DEFINE c == Head(todo)
<1>1. CallTyped(cfg, c)
  BY PlacingChanges, HeadTyped
<1>2. UNCHANGED addr => \A n \in DOMAIN addr' : n \in DOMAIN addr \/ FiledName(n)
  OBVIOUS
<1>3. ASSUME NEW x, TestName(x), NEW a, addr' = Put(addr, x, a)
      PROVE  \A n \in DOMAIN addr' : n \in DOMAIN addr \/ FiledName(n)
  BY <1>3, FiledPut
<1>4. CASE AddSection
  BY <1>4, SectionNamesNew
<1>5. CASE InitializePageMap
  <2>1. /\ c.do = "map"
        /\ UNCHANGED pages \/ \E a : pages' = AddPages({"map_os"}, <<Page4K(Base(c.map), a, a, "sptbr")>>)
        /\ UNCHANGED addr \/ \E a : addr' = Put(addr, Base(c.map), a)
    BY <1>5, Zenon DEF InitializePageMap, InitializeMap
  <2>2. TestName(Base(c.map))
    BY DEF TestName, Base
  <2>3. Base(c.map) \in PageNames(c) /\ ~ IsRandom(c)
    BY <2>1 DEF PageNames, IsRandom
  <2>4. EntersPages
    <3>1. CASE UNCHANGED pages
      BY <3>1 DEF EntersPages
    <3>2. CASE ~ UNCHANGED pages
      <4>1. PICK a : pages' = AddPages({"map_os"}, <<Page4K(Base(c.map), a, a, "sptbr")>>)
        BY <2>1, <3>2
      <4> DEFINE p == Page4K(Base(c.map), a, a, "sptbr")
      <4>2. p.name = Base(c.map) /\ p.level = 0
        BY DEF Page4K
      <4> HIDE DEF p
      <4>3. pages' = AddPages({"map_os"}, <<p>>)
        BY <4>1 DEF p
      <4> QED BY <2>3, <4>2, <4>3, OneEntered
    <3> QED BY <3>1, <3>2
  <2> HIDE DEF c
  <2> QED BY <1>2, <1>3, <2>1, <2>2, <2>4
<1>6. CASE HandleResMem
  <2>1. UNCHANGED <<pages, addr>>
    BY <1>6, Zenon DEF HandleResMem
  <2> QED BY <1>2, <2>1 DEF EntersPages
<1>7. CASE HandleNormalPageMapping
  <2>1. UNCHANGED <<pages, addr>>
    BY <1>7, Zenon DEF HandleNormalPageMapping
  <2> QED BY <1>2, <2>1 DEF EntersPages
<1>8. CASE HandleRandomPageMapping \/ HandleFixedPageMapping
  BY <1>8, MappingNamesNew
<1>9. CASE HandleRandomAddr
  <2>1. /\ c.do = "addr" /\ UNCHANGED pages
        /\ UNCHANGED addr \/ \E a : addr' = Put(addr, c.name, a)
    BY <1>9, Zenon DEF HandleRandomAddr
  <2>2. TestName(c.name)
    BY <1>1, <2>1 DEF CallTyped
  <2> HIDE DEF c
  <2> QED BY <1>2, <1>3, <2>1, <2>2 DEF EntersPages
<1>10. CASE HandlePageMapping
  BY <1>10, PageNamesNew
<1> QED BY <1>4, <1>5, <1>6, <1>7, <1>8, <1>9, <1>10, Zenon DEF Placing

\* Before the tables are built nothing is derived from the pages but the names of
\* frames; the names of the pages of map_os differ, and the calls to come add no page
\* of a name that is there, unless it is a random mapping's, whose name is known then.
NamesApart(s) == \A j, k \in DOMAIN s : s[j].name = s[k].name => j = k
StillNew(p, c, names) == p.name \in PageNames(c) => IsRandom(c) /\ p.name \in names

OnceInv ==
    cfg.two_stage =>
        /\ stage = "addresses" => /\ \A n \in DOMAIN addr : FiledName(n)
                                  /\ \A m \in MapNames(cfg) : pt_pages[m] = << >>
        /\ NamesApart(pages["map_os"])
        /\ \A k \in DOMAIN pages["map_os"] : PageName(pages["map_os"][k].name)
        /\ \A k \in DOMAIN pages["map_hyp"] : pages["map_hyp"][k].level = 0
        /\ \A j, k \in DOMAIN todo : j # k => Apart(todo[j], todo[k])
        /\ \A k \in DOMAIN todo : NamedOnce(todo[k])
        /\ \A j \in DOMAIN pages["map_os"], k \in DOMAIN todo : StillNew(pages["map_os"][j], todo[k], DOMAIN addr)

\* The call is made, or fails and adds nothing.
LEMMA OneCallAdds ==
  ASSUME Placing
  PROVE  todo' = Tail(todo) \/ UNCHANGED <<todo, pages>>
<1>1. CASE AddSection
  BY <1>1, ZenonT(30) DEF AddSection
<1>2. CASE InitializePageMap
  BY <1>2, Zenon DEF InitializePageMap
<1>3. CASE HandleResMem
  BY <1>3, Zenon DEF HandleResMem
<1>4. CASE HandleNormalPageMapping
  BY <1>4, Zenon DEF HandleNormalPageMapping
<1>5. CASE HandleRandomPageMapping
  BY <1>5, ZenonT(30) DEF HandleRandomPageMapping
<1>6. CASE HandleFixedPageMapping
  BY <1>6, ZenonT(30) DEF HandleFixedPageMapping
<1>7. CASE HandleRandomAddr
  BY <1>7, ZenonT(30) DEF HandleRandomAddr
<1>8. CASE HandlePageMapping
  BY <1>8, Zenon DEF HandlePageMapping
<1> QED BY <1>1, <1>2, <1>3, <1>4, <1>5, <1>6, <1>7, <1>8, Zenon DEF Placing

\* Pages of new names behind others.
LEMMA NamesJoined ==
  ASSUME NEW a, NEW b, IsSeq(a), IsSeq(b), NamesApart(a), NamesApart(b),
         \A j \in DOMAIN a, k \in DOMAIN b : a[j].name # b[k].name
  PROVE  NamesApart(a \o b)
<1> DEFINE c == a \o b
<1>1. PICK n, m \in Nat : Lengths(a, b, n, m)
  BY JoinedLists, Zenon
<1>2. /\ DOMAIN a = 1 .. n /\ DOMAIN b = 1 .. m /\ DOMAIN c = 1 .. n + m
      /\ \A k \in 1 .. n : c[k] = a[k]
      /\ \A k \in n + 1 .. n + m : k - n \in 1 .. m /\ c[k] = b[k - n]
  BY <1>1 DEF Lengths
<1> HIDE DEF c
<1>3. \A k \in DOMAIN c : k \in 1 .. n \/ k \in n + 1 .. n + m
  BY <1>2
<1>4. ASSUME NEW j \in DOMAIN c, NEW k \in DOMAIN c, c[j].name = c[k].name  PROVE j = k
  <2>1. CASE j \in 1 .. n /\ k \in 1 .. n
    BY <1>2, <1>4, <2>1 DEF NamesApart
  <2>2. CASE j \in n + 1 .. n + m /\ k \in n + 1 .. n + m
    <3>1. j - n \in DOMAIN b /\ k - n \in DOMAIN b /\ c[j] = b[j - n] /\ c[k] = b[k - n]
      BY <1>2, <2>2
    <3>2. j - n = k - n
      BY <1>4, <3>1, Zenon DEF NamesApart
    <3> QED BY <2>2, <3>2
  <2>3. CASE j \in 1 .. n /\ k \in n + 1 .. n + m
    BY <1>2, <1>4, <2>3
  <2>4. CASE k \in 1 .. n /\ j \in n + 1 .. n + m
    BY <1>2, <1>4, <2>4
  <2> QED BY <1>3, <2>1, <2>2, <2>3, <2>4
<1>5. NamesApart(c)
  BY <1>4, Zenon DEF NamesApart
<1> QED BY <1>5 DEF c

\* Members of a joined list.
LEMMA MembersJoined ==
  ASSUME NEW a, NEW b, IsSeq(a), IsSeq(b)
  PROVE  \A k \in DOMAIN (a \o b) : \/ \E i \in DOMAIN a : (a \o b)[k] = a[i]
                                    \/ \E i \in DOMAIN b : (a \o b)[k] = b[i]
<1> DEFINE c == a \o b
<1>1. PICK n, m \in Nat : Lengths(a, b, n, m)
  BY JoinedLists, Zenon
<1>2. /\ DOMAIN a = 1 .. n /\ DOMAIN b = 1 .. m /\ DOMAIN c = 1 .. n + m
      /\ \A k \in 1 .. n : c[k] = a[k]
      /\ \A k \in n + 1 .. n + m : k - n \in 1 .. m /\ c[k] = b[k - n]
  BY <1>1 DEF Lengths
<1> HIDE DEF c
<1>3. \A k \in DOMAIN c : k \in 1 .. n \/ k \in n + 1 .. n + m
  BY <1>2
<1>5. \A k \in DOMAIN c : (\E i \in DOMAIN a : c[k] = a[i]) \/ (\E i \in DOMAIN b : c[k] = b[i])
  BY <1>2, <1>3
<1> QED BY <1>5 DEF c

\* A call keeps the names apart.
LEMMA OncePlacing ==
  ASSUME IInv, OnceInv, cfg.two_stage, Placing
  PROVE  OnceInv'
<1>1. /\ stage = "addresses" /\ todo # << >> /\ UNCHANGED <<cfg, pt_pages>>
      /\ MapNames(cfg)' = MapNames(cfg)
  BY PlacingChanges DEF MapNames
<1>2. /\ Head(todo) = todo[1] /\ 1 \in DOMAIN todo
      /\ \A k \in DOMAIN Tail(todo) : k + 1 \in DOMAIN todo /\ Tail(todo)[k] = todo[k + 1] /\ k \in Nat \ {0}
  BY <1>1, HeadTyped DEF IInv
<1>3. DOMAIN addr \subseteq DOMAIN addr'
  <2>1. Next
    BY Zenon DEF Next, Placing
  <2> QED BY <2>1, CallsStep DEF IInv, NothingForgotten
<1> DEFINE os == pages["map_os"]
           hyp == pages["map_hyp"]
           c == Head(todo)
<1>4. /\ \A n \in DOMAIN addr : FiledName(n)
      /\ \A m \in MapNames(cfg) : pt_pages[m] = << >>
      /\ NamesApart(os)
      /\ \A k \in DOMAIN os : PageName(os[k].name)
      /\ \A k \in DOMAIN hyp : hyp[k].level = 0
      /\ \A j, k \in DOMAIN todo : j # k => Apart(todo[j], todo[k])
      /\ \A k \in DOMAIN todo : NamedOnce(todo[k])
      /\ \A j \in DOMAIN os, k \in DOMAIN todo : StillNew(os[j], todo[k], DOMAIN addr)
  BY <1>1 DEF OnceInv
<1>5. EntersPages /\ \A n \in DOMAIN addr' : n \in DOMAIN addr \/ FiledName(n)
  BY <1>2, <1>4, PlacingNames DEF IInv
<1>6. \A n \in DOMAIN addr' : FiledName(n)
  BY <1>4, <1>5
<1>7. \A m \in MapNames(cfg)' : pt_pages'[m] = << >>
  BY <1>1, <1>4
<1>8. {"map_os", "map_hyp"} \subseteq DOMAIN pages /\ GoodPages(os) /\ GoodPages(hyp)
  BY DEF IInv, PagesInv, MapNames
<1>9. \A p, d : StillNew(p, d, DOMAIN addr) => StillNew(p, d, DOMAIN addr')
  BY <1>3 DEF StillNew
<1>10. CASE UNCHANGED <<todo, pages>>
  BY <1>1, <1>4, <1>6, <1>7, <1>9, <1>10 DEF OnceInv
<1>11. CASE todo' = Tail(todo)
  <2>1. /\ \A j, k \in DOMAIN todo' : j # k => Apart(todo'[j], todo'[k])
        /\ \A k \in DOMAIN todo' : NamedOnce(todo'[k]) /\ Apart(c, todo'[k])
    BY <1>2, <1>4, <1>11
  <2>2. \A j \in DOMAIN os, k \in DOMAIN todo' : StillNew(os[j], todo'[k], DOMAIN addr')
    BY <1>2, <1>4, <1>9, <1>11
  <2>3. CASE UNCHANGED pages
    BY <1>1, <1>4, <1>6, <1>7, <2>1, <2>2, <2>3 DEF OnceInv
  <2>4. CASE ~ UNCHANGED pages
    <3>1. PICK ms, ps : Entered(ms, ps)
      BY <1>5, <2>4 DEF EntersPages
    <3>2. /\ pages' = AddPages(ms, ps) /\ IsSeq(ps)
          /\ \A k \in DOMAIN ps : ps[k].name \in PageNames(c)
          /\ NamesApart(ps)
          /\ "map_hyp" \in ms => \A k \in DOMAIN ps : ps[k].level = 0
          /\ IsRandom(c) => c.name \notin DOMAIN addr /\ c.name \in DOMAIN addr'
      BY <3>1 DEF Entered, NamesApart
    <3>3. /\ pages'["map_os"] = os \/ pages'["map_os"] = os \o ps
          /\ pages'["map_hyp"] = hyp \/ ("map_hyp" \in ms /\ pages'["map_hyp"] = hyp \o ps)
      BY <1>8, <3>2 DEF AddPages
    <3>4. IsSeq(os) /\ IsSeq(hyp)
      BY <1>8 DEF GoodPages, IsSeq
    <3>5. IsRandom(c) => PageNames(c) = {c.name}
      BY DEF IsRandom, PageNames
    <3> HIDE DEF os, hyp
    <3>6. \A j \in DOMAIN os, k \in DOMAIN ps : os[j].name # ps[k].name
      <4> SUFFICES ASSUME NEW j \in DOMAIN os, NEW k \in DOMAIN ps, os[j].name = ps[k].name
                   PROVE  FALSE
        OBVIOUS
      <4>1. os[j].name \in PageNames(c)
        BY <3>2
      <4>2. IsRandom(c) /\ os[j].name \in DOMAIN addr
        BY <1>2, <1>4, <4>1 DEF StillNew
      <4> QED BY <3>2, <3>5, <4>1, <4>2
    <3>7. NamesApart(os \o ps)
      BY <1>4, <3>2, <3>4, <3>6, NamesJoined
    <3>8. /\ \A k \in DOMAIN (os \o ps) : \/ \E i \in DOMAIN os : (os \o ps)[k] = os[i]
                                          \/ \E i \in DOMAIN ps : (os \o ps)[k] = ps[i]
          /\ \A k \in DOMAIN (hyp \o ps) : \/ \E i \in DOMAIN hyp : (hyp \o ps)[k] = hyp[i]
                                           \/ \E i \in DOMAIN ps : (hyp \o ps)[k] = ps[i]
      BY <3>2, <3>4, MembersJoined
    <3>9. \A k \in DOMAIN pages'["map_hyp"] : pages'["map_hyp"][k].level = 0
      <4>1. CASE pages'["map_hyp"] = hyp
        BY <1>4, <4>1
      <4>2. CASE "map_hyp" \in ms /\ pages'["map_hyp"] = hyp \o ps
        BY <1>4, <3>2, <3>8, <4>2
      <4> QED BY <3>3, <4>1, <4>2
    <3>10. \A k \in DOMAIN ps : PageName(ps[k].name)
      BY <1>2, <3>2, PageNamesAre DEF IInv
    <3>11. \A k \in DOMAIN pages'["map_os"] : PageName(pages'["map_os"][k].name)
      BY <1>4, <3>3, <3>8, <3>10
    <3>12. \A i \in DOMAIN ps, k \in DOMAIN todo' : StillNew(ps[i], todo'[k], DOMAIN addr')
      <4> SUFFICES ASSUME NEW i \in DOMAIN ps, NEW k \in DOMAIN todo', ps[i].name \in PageNames(todo'[k])
                   PROVE  IsRandom(todo'[k]) /\ ps[i].name \in DOMAIN addr'
        BY DEF StillNew
      <4>1. ps[i].name \in PageNames(c) /\ Apart(c, todo'[k])
        BY <2>1, <3>2
      <4>2. IsRandom(c) /\ IsRandom(todo'[k])
        BY <4>1 DEF Apart
      <4> QED BY <3>2, <3>5, <4>1, <4>2
    <3>13. \A j \in DOMAIN pages'["map_os"], k \in DOMAIN todo' : StillNew(pages'["map_os"][j], todo'[k], DOMAIN addr')
      BY <2>2, <3>3, <3>8, <3>12
    <3>14. NamesApart(pages'["map_os"])
      BY <1>4, <3>3, <3>7
    <3> QED BY <1>1, <1>6, <1>7, <2>1, <3>9, <3>11, <3>13, <3>14
            DEF OnceInv
  <2> QED BY <2>3, <2>4
<1> QED BY <1>10, <1>11, OneCallAdds

\* Nor do the steps that build tables change the names, and there is no call left.
LEMMA OnceStep ==
  ASSUME IInv, IInv', OnceInv, [Next]_vars
  PROVE  OnceInv'
<1> SUFFICES ASSUME cfg'.two_stage  PROVE OnceInv'
  BY DEF OnceInv
<1>1. CASE Placing
  <2>1. cfg' = cfg
    BY <1>1, PlacingChanges
  <2> QED BY <1>1, <2>1, OncePlacing
<1>2. ASSUME UNCHANGED <<cfg, pages>>, stage' # "addresses", todo' = << >>  PROVE OnceInv'
  BY <1>2 DEF OnceInv
<1>3. CASE StartTables
  <2>1. UNCHANGED <<cfg, pages, todo>> /\ todo = << >> /\ ToFirstPage(TableMaps)
    BY <1>3, Zenon DEF StartTables
  <2> QED BY <1>2, <2>1, LaterStages
<1>4. CASE Table
  <2>1. stage = "tables" /\ UNCHANGED <<cfg, pages, todo>>
    BY <1>4, Zenon DEF Table, FollowEntry, CreateTable, CreateLeaf
  <2>2. todo = << >>
    BY <2>1 DEF IInv, EntriesInv
  <2>3. stage' # "addresses"
    BY <1>4, <2>1, LaterStages, Zenon DEF Table, FollowEntry, CreateTable, CreateLeaf, ToNextPage
  <2> QED BY <1>2, <2>1, <2>2, <2>3
<1>5. CASE UNCHANGED vars
  <2>1. UNCHANGED <<cfg, addr, pages, pt_pages, todo, stage>>
    BY <1>5, Zenon DEF vars, tableVars
  <2>2. MapNames(cfg)' = MapNames(cfg)
    BY <2>1 DEF MapNames
  <2> QED BY <2>1, <2>2 DEF OnceInv
<1> QED BY <1>1, <1>3, <1>4, <1>5, Zenon DEF Next, Stop, Placing

\* There is no page before the first call.
LEMMA OnceInit ==
  ASSUME PagesAreNamedOnce, Init
  PROVE  OnceInv
<1> SUFFICES ASSUME NEW t \in Tests, InitOf(t), t.two_stage  PROVE OnceInv
  BY DEF Init, OnceInv, InitOf
<1>1. /\ cfg = t /\ todo = Calls(t) /\ DOMAIN addr = {}
      /\ pages = [m \in MapNames(t) |-> << >>] /\ pt_pages = [m \in MapNames(t) |-> << >>]
  BY DEF InitOf
<1>2. /\ \A j, k \in DOMAIN Calls(t) : j # k => Apart(Calls(t)[j], Calls(t)[k])
      /\ \A k \in DOMAIN Calls(t) : NamedOnce(Calls(t)[k])
  BY DEF PagesAreNamedOnce, ToSet
<1>3. pages["map_os"] = << >> /\ pages["map_hyp"] = << >>
  BY <1>1 DEF MapNames
<1> QED BY <1>1, <1>2, <1>3 DEF OnceInv, NamesApart

-----------------------------------------------------------------------------
\* A name that others are derived from, and which is derived from one such only.
IsTriple(n) == n = <<n[1], n[2], n[3]>> /\ IsSeq(n[3])

LEMMA DerivedApart ==
  /\ \A x, y, tag, t, l, k : IsTriple(x) /\ IsTriple(y) /\ Derived(x, tag, l) = Derived(y, t, k)
                               => x = y /\ tag = t /\ l = k
  /\ \A x, tag, l : IsTriple(x) => /\ Derived(x, tag, l)[3] # << >> /\ IsTriple(Derived(x, tag, l))
                                   /\ FiledName(Derived(x, tag, l)) => tag = "phys"
<1>1. ASSUME NEW a, NEW b, NEW e, NEW f, IsSeq(a), IsSeq(b), Append(a, e) = Append(b, f)
      PROVE  a = b /\ e = f
  <2>1. PICK A : a \in Seq(A)
    BY <1>1 DEF IsSeq
  <2>2. PICK B : b \in Seq(B)
    BY <1>1 DEF IsSeq
  <2> DEFINE S == A \cup B \cup {e, f}
  <2>3. a \in Seq(S) /\ b \in Seq(S) /\ e \in S /\ f \in S
    BY <2>1, <2>2
  <2> HIDE DEF S
  <2>4. Len(a) = Len(b) /\ e = f
    <3>1. Len(Append(a, e)) = Len(a) + 1 /\ Len(Append(b, f)) = Len(b) + 1
      BY <2>3
    <3>2. Append(a, e)[Len(a) + 1] = e /\ Append(b, f)[Len(b) + 1] = f
      BY <2>3
    <3> QED BY <1>1, <2>3, <3>1, <3>2
  <2>5. \A i \in 1 .. Len(a) : a[i] = b[i]
    <3>1. \A i \in 1 .. Len(a) : Append(a, e)[i] = a[i] /\ Append(b, f)[i] = b[i]
      BY <2>3, <2>4
    <3> QED BY <1>1, <3>1
  <2> QED BY <2>3, <2>4, <2>5
<1>2. ASSUME NEW a, NEW e, IsSeq(a)
      PROVE  Append(a, e) # << >> /\ IsSeq(Append(a, e))
  <2>1. PICK A : a \in Seq(A)
    BY <1>2 DEF IsSeq
  <2>2. Append(a, e) \in Seq(A \cup {e}) /\ Len(Append(a, e)) = Len(a) + 1 /\ Len(a) \in Nat
    BY <2>1
  <2>3. Append(a, e) # << >>
    BY <2>2
  <2> QED BY <2>2, <2>3 DEF IsSeq
<1>3. IsSeq(<< >>)
  BY NamesGood
<1>4. ASSUME NEW x, NEW y, NEW tag, NEW t, NEW l, NEW k, IsTriple(x), IsTriple(y), Derived(x, tag, l) = Derived(y, t, k)
      PROVE  x = y /\ tag = t /\ l = k
  <2>1. x[1] = y[1] /\ x[2] = y[2] /\ Append(x[3], <<tag, l>>) = Append(y[3], <<t, k>>)
    BY <1>4 DEF Derived
  <2>2. x[3] = y[3] /\ <<tag, l>> = <<t, k>>
    BY <1>1, <1>4, <2>1 DEF IsTriple
  <2>3. x = <<x[1], x[2], x[3]>> /\ y = <<y[1], y[2], y[3]>>
    BY <1>4 DEF IsTriple
  <2> QED BY <2>1, <2>2, <2>3
<1>5. ASSUME NEW x, NEW tag, NEW l, IsTriple(x)
      PROVE  /\ Derived(x, tag, l)[3] # << >> /\ IsTriple(Derived(x, tag, l))
             /\ FiledName(Derived(x, tag, l)) => tag = "phys"
  <2> DEFINE s == Append(x[3], <<tag, l>>)
  <2>1. s # << >> /\ IsSeq(s)
    BY <1>2, <1>5 DEF IsTriple
  <2>2. s = Phys => tag = "phys"
    <3>1. s = Append(<< >>, <<"phys", 0>>) => <<tag, l>> = <<"phys", 0>>
      BY <1>1, <1>3, <1>5 DEF IsTriple
    <3> QED BY <3>1 DEF Phys
  <2> HIDE DEF s
  <2>3. Derived(x, tag, l) = <<x[1], x[2], s>>
    BY DEF Derived, s
  <2> QED BY <2>1, <2>2, <2>3 DEF IsTriple, FiledName
<1> QED BY <1>4, <1>5

-----------------------------------------------------------------------------
\* What a step that writes an entry adds: the identity page of map_hyp for what the
\* entry names, and the page for the table at hand, if the test is to reach it.
StageTags == {"vslevel", "vsleaf"}

Writes(tag, a, level, v, e) ==
    /\ AddRawPages(GStagePage(tag, a, level), TablePage(v))
    /\ v # None => NeedsView /\ Derived(Current.name, "pt_level", cursor.level) \notin DOMAIN addr
    /\ pte' = Put(pte, Slot, e) /\ e.next = a

Written == \E tag \in StageTags, a \in Int, level \in 0 .. TopLevel, v \in Int : \E e : Writes(tag, a, level, v, e)

LEMMA TableWrites ==
  ASSUME SpacesInv, PagesInv, CursorInv, Table
  PROVE  \/ UNCHANGED <<addr, pt_pages, pte>>
         \/ Written /\ (CreateTable \/ CreateLeaf)
<1>1. stage = "tables"
  BY Zenon DEF Table, FollowEntry, CreateTable, CreateLeaf
<1>2. GoodPage(Current)
  BY <1>1, CurrentTyped DEF CursorInv
<1>3. Current.phys \in Int /\ Current.gleaf \in 0 .. TopLevel /\ Current.gnonleaf \in 0 .. TopLevel
  BY <1>2 DEF GoodPage
<1>4. CASE FollowEntry
  BY <1>4, Zenon DEF FollowEntry
<1>0. ASSUME NEW v \in ViewChoices, v # None  PROVE NeedsView
  BY <1>0 DEF ViewChoices
<1>5. CASE CreateTable
  <2> DEFINE size == IF cfg.two_stage THEN LevelSize(Current.gnonleaf) ELSE PageBytes
             c    == Request(size, size, PhysicalBits, "dram")
             e(a) == [next |-> a, leaf |-> FALSE, by |-> Current.name]
  <2>1. \/ \E a \in Grantable(physical, c), v \in ViewChoices :
              /\ NeedsView => Derived(Current.name, "pt_level", cursor.level) \notin DOMAIN addr
              /\ linear' = IF v = None THEN linear ELSE Allocate(linear, ViewRequest, v)
              /\ AddRawPages(GStagePage("vslevel", a, Current.gnonleaf), TablePage(v))
              /\ pte' = Put(pte, Slot, e(a))
        \/ UNCHANGED <<addr, pt_pages, pte>>
    BY <1>5, Zenon DEF CreateTable
  <2>2. size \in Nat \ {0}
    BY <1>3, LevelSizes
  <2>5. \A a : e(a).next = a
    OBVIOUS
  <2> HIDE DEF size, e
  <2>3. ASSUME NEW a \in Grantable(physical, c), NEW v \in ViewChoices,
               NeedsView => Derived(Current.name, "pt_level", cursor.level) \notin DOMAIN addr,
               linear' = IF v = None THEN linear ELSE Allocate(linear, ViewRequest, v),
               AddRawPages(GStagePage("vslevel", a, Current.gnonleaf), TablePage(v)),
               pte' = Put(pte, Slot, e(a))
        PROVE  Written
    <3>1. a \in Int /\ v \in Int
      <4>1. SpaceInv(physical, {"dram"})
        BY DEF SpacesInv
      <4>2. a \in Nat
        BY <2>2, <4>1, GrownAllocate
      <4>3. v \in Int
        BY <2>3, ViewTyped
      <4> QED BY <4>2, <4>3
    <3>2. Writes("vslevel", a, Current.gnonleaf, v, e(a))
      BY <1>0, <2>3, <2>5, Zenon DEF Writes
    <3>3. "vslevel" \in StageTags
      BY DEF StageTags
    <3> QED BY <1>3, <3>1, <3>2, <3>3, Zenon DEF Written
  <2> QED BY <1>5, <2>1, <2>3
<1>6. CASE CreateLeaf
  <2> DEFINE e == [next |-> Current.phys, leaf |-> TRUE, by |-> Current.name]
  <2>1. \/ \E v \in ViewChoices :
              /\ NeedsView => Derived(Current.name, "pt_level", cursor.level) \notin DOMAIN addr
              /\ linear' = IF v = None THEN linear ELSE Allocate(linear, ViewRequest, v)
              /\ AddRawPages(GStagePage("vsleaf", Current.phys, Current.gleaf), TablePage(v))
              /\ pte' = Put(pte, Slot, e)
        \/ UNCHANGED <<addr, pt_pages, pte>>
    BY <1>6, Zenon DEF CreateLeaf
  <2>5. e.next = Current.phys
    OBVIOUS
  <2> HIDE DEF e
  <2>2. ASSUME NEW v \in ViewChoices,
               NeedsView => Derived(Current.name, "pt_level", cursor.level) \notin DOMAIN addr,
               linear' = IF v = None THEN linear ELSE Allocate(linear, ViewRequest, v),
               AddRawPages(GStagePage("vsleaf", Current.phys, Current.gleaf), TablePage(v)),
               pte' = Put(pte, Slot, e)
        PROVE  Written
    <3>1. v \in Int
      BY <2>2, ViewTyped
    <3>2. Writes("vsleaf", Current.phys, Current.gleaf, v, e)
      BY <1>0, <2>2, <2>5, Zenon DEF Writes
    <3>3. "vsleaf" \in StageTags
      BY DEF StageTags
    <3> QED BY <1>3, <3>1, <3>2, <3>3, Zenon DEF Written
  <2> QED BY <1>6, <2>1, <2>2
<1> QED BY <1>4, <1>5, <1>6, Zenon DEF Table

\* The lists of work behind such a step.
LEMMA WorkAdds ==
  ASSUME PagesInv, NEW gp, NEW tp, GoodPages(gp), GoodPages(tp), AddRawPages(gp, tp), UNCHANGED pages,
         NEW m \in MapNames(cfg)
  PROVE  /\ m # "map_hyp" /\ m = cursor.map => Work(m)' = Work(m) \o tp
         /\ m = "map_hyp" /\ m # cursor.map => pt_pages'[m] = pt_pages[m] \o gp /\ Work(m)' = Work(m) \o gp
         /\ m = "map_hyp" /\ m = cursor.map /\ gp = << >> /\ tp = << >> => pt_pages'[m] = pt_pages[m]
<1> DEFINE g == IF m = "map_hyp" THEN gp ELSE << >>
           t == IF m = cursor.map THEN tp ELSE << >>
           s == pages[m]
           w == pt_pages[m]
<1>1. pt_pages'[m] = w \o g \o t
  BY DEF PagesInv, AddRawPages
<1>2. Work(m) = s \o w /\ Work(m)' = s \o pt_pages'[m] /\ GoodPages(s) /\ GoodPages(w)
  BY DEF Work, PagesInv
<1> HIDE DEF s, w
<1>3. ASSUME NEW x, NEW y, GoodPages(x), GoodPages(y)  PROVE x \o << >> = x /\ (x \o << >>) \o y = x \o y
  BY <1>3, GoodPlaces
<1>4. ASSUME NEW x, GoodPages(x)  PROVE s \o (w \o x) = (s \o w) \o x
  <2>1. PICK S : s \in Seq(S)
    BY <1>2 DEF GoodPages
  <2>2. PICK W : w \in Seq(W)
    BY <1>2 DEF GoodPages
  <2>3. PICK X : x \in Seq(X)
    BY <1>4 DEF GoodPages
  <2> DEFINE U == S \cup W \cup X
  <2>4. s \in Seq(U) /\ w \in Seq(U) /\ x \in Seq(U)
    BY <2>1, <2>2, <2>3
  <2> HIDE DEF U
  <2> QED BY <2>4
<1>5. CASE m # "map_hyp" /\ m = cursor.map
  <2>1. pt_pages'[m] = w \o tp
    BY <1>1, <1>2, <1>3, <1>5
  <2> QED BY <1>2, <1>4, <1>5, <2>1
<1>6. CASE m = "map_hyp" /\ m # cursor.map
  <2>1. GoodPages(w \o gp)
    BY <1>2, GoodConcat
  <2>2. pt_pages'[m] = w \o gp
    BY <1>1, <1>3, <1>6, <2>1
  <2> QED BY <1>2, <1>4, <1>6, <2>2 DEF w
<1>7. CASE m = "map_hyp" /\ m = cursor.map /\ gp = << >> /\ tp = << >>
  BY <1>1, <1>2, <1>3, <1>7 DEF w
<1> QED BY <1>5, <1>6, <1>7

Rounded(a, l) == a - (a % LevelSize(l))

\* The two lists, one page each at most.
LEMMA AddedPages ==
  ASSUME PagesInv, CursorInv, stage = "tables", NEW tag, NEW a \in Int, NEW level \in 0 .. TopLevel, NEW v \in Int
  PROVE  /\ GoodPages(GStagePage(tag, a, level)) /\ GoodPages(TablePage(v))
         /\ GStagePage(tag, a, level) # << >>
              <=> cfg.two_stage /\ InStageOne /\ Derived(Current.name, tag, cursor.level) \notin DOMAIN addr
         /\ GStagePage(tag, a, level) # << >> =>
              \E p : /\ GStagePage(tag, a, level) = <<p>> /\ p.name = Derived(Current.name, tag, cursor.level)
                     /\ p.level = level /\ p.lin = Rounded(a, level) /\ p.phys = p.lin
         /\ TablePage(v) # << >> => v # None
         /\ TablePage(v) # << >> => \E p : /\ TablePage(v) = <<p>>
                                           /\ p.name = Derived(Current.name, "pt_level", cursor.level)
<1>1. GoodPage(Current) /\ cursor.table \in Int
  BY CurrentTyped DEF CursorInv
<1>2. GoodPages(GStagePage(tag, a, level)) /\ GoodPages(TablePage(v))
  BY <1>1, StagePagesGood DEF GoodPage
<1> DEFINE n == Derived(Current.name, tag, cursor.level)
           b == Rounded(a, level)
           p == [Page4K(n, b, b, "identity") EXCEPT !.level = level]
           q == Page4K(Derived(Current.name, "pt_level", cursor.level), v, cursor.table, "table")
<1>3. \A x : <<x>> # << >>
  OBVIOUS
<1>4. p.name = n /\ p.level = level /\ p.lin = b /\ p.phys = b
  BY DEF Page4K
<1>5. q.name = Derived(Current.name, "pt_level", cursor.level)
  BY DEF Page4K
<1>6. GStagePage(tag, a, level) = IF cfg.two_stage /\ InStageOne /\ n \notin DOMAIN addr THEN <<p>> ELSE << >>
  BY DEF GStagePage, Rounded
<1>7. TablePage(v) = IF v = None THEN << >> ELSE <<q>>
  BY DEF TablePage
<1> HIDE DEF p, q
<1> QED BY <1>2, <1>3, <1>4, <1>5, <1>6, <1>7

\* The ways to go on: down with the page at hand, to the next page, or to another
\* map, never map_os.
GoesDown == cursor'.map = cursor.map /\ cursor'.item = cursor.item /\ cursor'.level = cursor.level - 1
GoesOn   == cursor' = StartOf(cursor.map, cursor.item + 1)
GoesAway == cursor'.map \in MapNames(cfg) /\ cursor'.map # cursor.map /\ cursor'.map # "map_os"

LEMMA TableGoes ==
  ASSUME IInv, IInv', WalkInv, Table, stage' = "tables"
  PROVE  GoesDown \/ (AtNext /\ (GoesOn \/ GoesAway))
<1> USE DEF IInv, WalkInv
<1>1. stage = "tables"
  BY Zenon DEF Table, FollowEntry, CreateTable, CreateLeaf
<1>2. \/ \E t : cursor' = [cursor EXCEPT !.level = @ - 1, !.table = t]
      \/ ToNextPage
  <2>1. FollowEntry => (\E t : cursor' = [cursor EXCEPT !.level = @ - 1, !.table = t]) \/ ToNextPage
    BY Zenon DEF FollowEntry
  <2>2. CreateTable => \/ \E t : cursor' = [cursor EXCEPT !.level = @ - 1, !.table = t]
                       \/ stage' = "failed"
    BY Zenon DEF CreateTable
  <2>3. CreateLeaf => ToNextPage \/ stage' = "failed"
    BY Zenon DEF CreateLeaf
  <2> QED BY <2>1, <2>2, <2>3 DEF Table
<1>3. CASE \E t : cursor' = [cursor EXCEPT !.level = @ - 1, !.table = t]
  BY <1>1, <1>3 DEF CursorInv, GoesDown
<1>4. CASE ToNextPage
  <2>1. AtNext
    BY <1>1, <1>4, TableWorks DEF AtNext
  <2>2. cfg.paging
    BY <2>1, NextStart
  <2>3. PICK c \in DOMAIN TableMaps :
         /\ TableMaps[c] = cursor.map
         /\ \/ GoesOn
            \/ stage' = "finished"
            \/ \E d \in DOMAIN TableMaps : c < d /\ cursor' = StartOf(TableMaps[d], 1)
    BY <2>1, NextStart DEF GoesOn
  <2>4. ASSUME NEW d \in DOMAIN TableMaps, c < d, cursor' = StartOf(TableMaps[d], 1)  PROVE GoesAway
    <3>1. /\ \A a, b \in DOMAIN TableMaps : TableMaps[a] = TableMaps[b] => a = b
          /\ DOMAIN TableMaps = 1 .. Len(TableMaps) /\ Len(TableMaps) \in Nat
      BY <2>2, MapsApart, BehindAre
    <3>2. TableMaps[1] = "map_os"
      <4>1. cfg.maps \in Seq(ToSet(cfg.maps))
        BY GeneratorAssumption DEF CallsInv
      <4>2. StageOneMaps[1] = "map_os" /\ StageOneMaps \in Seq({"map_os"} \cup ToSet(cfg.maps)) /\ Len(StageOneMaps) \in Nat \ {0}
        BY <4>1 DEF StageOneMaps
      <4> HIDE DEF StageOneMaps
      <4>3. Append(StageOneMaps, "map_hyp")[1] = "map_os"
        BY <4>2
      <4> QED BY <2>2, <4>2, <4>3 DEF TableMaps
    <3>3. 1 \in DOMAIN TableMaps /\ d # 1 /\ d # c
      BY <2>4, <3>1
    <3>4. cursor'.map = TableMaps[d]
      BY <2>4 DEF StartOf
    <3>5. TableMaps[d] \in MapNames(cfg)
      BY TableMapsExist
    <3> QED BY <2>3, <3>1, <3>2, <3>3, <3>4, <3>5 DEF GoesAway
  <2> QED BY <2>1, <2>3, <2>4
<1> QED BY <1>2, <1>3, <1>4

(***************************************************************************)
(* While the tables of map_os are built, a name that the build has derived *)
(* is a page's whose walk has come to that level.                          *)
(***************************************************************************)
Past(j, k, i, l) == j < i \/ (j = i /\ k > l)

FreshIn(w, names, i, l) ==
    /\ NamesApart(w)
    /\ \A j \in DOMAIN w : IsTriple(w[j].name) /\ (w[j].name \in names \/ w[j].name[3] = << >>)
    /\ \A x : \A tag \in StageTags, k \in 0 .. TopLevel :
          IsTriple(x) /\ Derived(x, tag, k) \in names => \E j \in DOMAIN w : w[j].name = x /\ Past(j, k, i, l)

FreshInv ==
    cfg.two_stage /\ stage = "tables" /\ cursor.map = "map_os" =>
        FreshIn(Work("map_os"), DOMAIN addr, cursor.item, cursor.level)

\* So the names that the table at hand derives are new.
LEMMA FreshNames ==
  ASSUME NEW w, NEW N, NEW i \in Int, NEW l \in Int, FreshIn(w, N, i, l), i \in DOMAIN w, l \in 0 .. TopLevel
  PROVE  \A tag \in StageTags : Derived(w[i].name, tag, l) \notin N
<1> SUFFICES ASSUME NEW tag \in StageTags, Derived(w[i].name, tag, l) \in N  PROVE FALSE
  OBVIOUS
<1>1. PICK j \in DOMAIN w : w[j].name = w[i].name /\ Past(j, l, i, l)
  BY DEF FreshIn
<1>2. j = i
  BY <1>1 DEF FreshIn, NamesApart
<1> QED BY <1>1, <1>2 DEF Past

\* And what a step does to them.
LEMMA FreshGrows ==
  ASSUME NEW w, NEW N, NEW i \in Int, NEW l \in Int, FreshIn(w, N, i, l), i \in DOMAIN w, IsSeq(w),
         NEW t, IsSeq(t), NEW M, NEW i2, NEW l2, (i2 = i /\ l2 = l - 1) \/ i2 = i + 1,
         NEW n, n = Derived(w[i].name, "pt_level", l),
         t = << >> \/ (n \notin N /\ n \in M /\ \E p : t = <<p>> /\ p.name = n),
         N \subseteq M,
         \A x \in M : x \in N \/ x = n \/ \E tag \in StageTags : x = Derived(w[i].name, tag, l)
  PROVE  FreshIn(w \o t, M, i2, l2)
<1> DEFINE v == w \o t
<1>1. PICK a, b \in Nat : Lengths(w, t, a, b)
  BY JoinedLists, Zenon
<1>2. /\ \A j \in DOMAIN w : j \in DOMAIN v /\ v[j] = w[j] /\ j \in Int
      /\ \A k \in DOMAIN v : k \notin DOMAIN w => \E h \in DOMAIN t : v[k] = t[h]
  <2>1. /\ DOMAIN w = 1 .. a /\ DOMAIN t = 1 .. b /\ DOMAIN v = 1 .. a + b
        /\ \A k \in 1 .. a : v[k] = w[k]
        /\ \A k \in a + 1 .. a + b : k - a \in 1 .. b /\ v[k] = t[k - a]
    BY <1>1 DEF Lengths
  <2> HIDE DEF v
  <2>2. \A k \in DOMAIN v : k \in 1 .. a \/ k \in a + 1 .. a + b
    BY <2>1
  <2> QED BY <2>1, <2>2
<1>3. IsTriple(w[i].name)
  BY DEF FreshIn
<1>4. IsTriple(n) /\ n[3] # << >>
  BY <1>3, DerivedApart
<1>5. \A h \in DOMAIN t : t[h].name = n /\ n \notin N /\ n \in M
  <2>1. CASE t = << >>
    BY <2>1
  <2>2. CASE n \notin N /\ n \in M /\ \E p : t = <<p>> /\ p.name = n
    BY <2>2
  <2> QED BY <2>1, <2>2
<1>6. NamesApart(t)
  <2>1. CASE t = << >>
    BY <2>1 DEF NamesApart
  <2>2. CASE \E p : t = <<p>>
    BY <2>2 DEF NamesApart
  <2> QED BY <2>1, <2>2
<1>7. \A j \in DOMAIN w, h \in DOMAIN t : w[j].name # t[h].name
  BY <1>4, <1>5 DEF FreshIn
<1>8. NamesApart(v)
  BY <1>6, <1>7, NamesJoined DEF FreshIn
<1>9. ASSUME NEW j \in DOMAIN v  PROVE IsTriple(v[j].name) /\ (v[j].name \in M \/ v[j].name[3] = << >>)
  <2>1. CASE j \in DOMAIN w
    BY <1>2, <2>1 DEF FreshIn
  <2>2. CASE j \notin DOMAIN w
    BY <1>2, <1>4, <1>5, <2>2
  <2> QED BY <2>1, <2>2
<1> HIDE DEF v
<1>10. ASSUME NEW x, NEW tag \in StageTags, NEW k \in 0 .. TopLevel, IsTriple(x), Derived(x, tag, k) \in M
       PROVE  \E j \in DOMAIN v : v[j].name = x /\ Past(j, k, i2, l2)
  <2>1. CASE Derived(x, tag, k) \in N
    <3>1. PICK j \in DOMAIN w : w[j].name = x /\ Past(j, k, i, l)
      BY <1>10, <2>1 DEF FreshIn
    <3>2. k \in Int /\ j \in Int
      BY <1>2
    <3>3. Past(j, k, i2, l2)
      BY <3>1, <3>2 DEF Past
    <3> QED BY <1>2, <3>1, <3>3
  <2>2. CASE Derived(x, tag, k) = n
    <3>1. tag = "pt_level"
      BY <1>3, <1>10, <2>2, DerivedApart
    <3> QED BY <3>1 DEF StageTags
  <2>3. CASE \E g \in StageTags : Derived(x, tag, k) = Derived(w[i].name, g, l)
    <3>1. x = w[i].name /\ k = l
      BY <1>3, <1>10, <2>3, DerivedApart
    <3>2. Past(i, k, i2, l2)
      BY <3>1 DEF Past
    <3> QED BY <1>2, <3>1, <3>2
  <2> QED BY <1>10, <2>1, <2>2, <2>3
<1>11. FreshIn(v, M, i2, l2)
  BY <1>8, <1>9, <1>10 DEF FreshIn
<1> QED BY <1>11 DEF v

\* What a step that writes an entry files: the names of the pages that it adds.
LEMMA NamesWritten ==
  ASSUME PagesInv, CursorInv, stage = "tables", NEW tag \in StageTags, NEW a \in Int, NEW level \in 0 .. TopLevel,
         NEW v \in Int, NEW e, Writes(tag, a, level, v, e)
  PROVE  LET n == Derived(Current.name, "pt_level", cursor.level)
             t == TablePage(v)
         IN  /\ t = << >> \/ (n \notin DOMAIN addr /\ n \in DOMAIN addr' /\ \E p : t = <<p>> /\ p.name = n)
             /\ DOMAIN addr \subseteq DOMAIN addr'
             /\ \A x \in DOMAIN addr' : \/ x \in DOMAIN addr \/ x = n
                                        \/ \E g \in StageTags : x = Derived(Current.name, g, cursor.level)
<1> DEFINE n == Derived(Current.name, "pt_level", cursor.level)
           m == Derived(Current.name, tag, cursor.level)
           t == TablePage(v)
           g == GStagePage(tag, a, level)
<1>1. /\ GoodPages(g) /\ GoodPages(t)
      /\ g # << >> => \E p : g = <<p>> /\ p.name = m
      /\ t # << >> => v # None /\ \E p : t = <<p>> /\ p.name = n
  BY AddedPages
<1>2. AddRawPages(g, t) /\ (v # None => n \notin DOMAIN addr)
  BY DEF Writes
<1>3. DOMAIN addr' = DOMAIN addr \cup {p.name : p \in ToSet(g \o t)}
  BY <1>2, Zenon DEF AddRawPages
<1> HIDE DEF g, t, n, m
<1>4. \A k \in DOMAIN (g \o t) : \/ \E i \in DOMAIN g : (g \o t)[k] = g[i]
                                 \/ \E i \in DOMAIN t : (g \o t)[k] = t[i]
  BY <1>1, JoinedMembers
<1>5. /\ \A i \in DOMAIN g : g[i].name = m
      /\ \A i \in DOMAIN t : t[i].name = n
  <2>1. \A i \in DOMAIN g : g[i].name = m
    <3>1. CASE g = << >>
      BY <3>1
    <3>2. CASE \E p : g = <<p>> /\ p.name = m
      BY <3>2
    <3> QED BY <1>1, <3>1, <3>2
  <2>2. \A i \in DOMAIN t : t[i].name = n
    <3>1. CASE t = << >>
      BY <3>1
    <3>2. CASE \E p : t = <<p>> /\ p.name = n
      BY <3>2
    <3> QED BY <1>1, <3>1, <3>2
  <2> QED BY <2>1, <2>2
<1>6. \A p \in ToSet(g \o t) : p.name = m \/ p.name = n
  BY <1>4, <1>5 DEF ToSet
<1>7. t # << >> => n \in DOMAIN addr'
  <2> SUFFICES ASSUME t # << >>  PROVE n \in DOMAIN addr'
    OBVIOUS
  <2>1. PICK p : t = <<p>> /\ p.name = n
    BY <1>1
  <2>2. PICK G : g \in Seq(G)
    BY <1>1 DEF GoodPages
  <2>3. p \in ToSet(g \o <<p>>)
    <3>1. g \in Seq(G \cup {p}) /\ <<p>> \in Seq(G \cup {p})
      BY <2>2
    <3>2. Len(g) + 1 \in DOMAIN (g \o <<p>>) /\ (g \o <<p>>)[Len(g) + 1] = p
      BY <3>1
    <3> QED BY <3>2 DEF ToSet
  <2> QED BY <1>3, <2>1, <2>3
<1>8. \A x \in DOMAIN addr' : x \in DOMAIN addr \/ x = n \/ \E h \in StageTags : x = Derived(Current.name, h, cursor.level)
  BY <1>3, <1>6 DEF m
<1> QED BY <1>1, <1>2, <1>3, <1>7, <1>8 DEF n, t

\* The names stay new.
LEMMA FreshStep ==
  ASSUME IInv, IInv', WalkInv, OnceInv, FreshInv, [Next]_vars
  PROVE  FreshInv'
<1> SUFFICES ASSUME cfg'.two_stage, stage' = "tables", cursor'.map = "map_os"
             PROVE  FreshIn(Work("map_os")', DOMAIN addr', cursor'.item, cursor'.level)
  BY Zenon DEF FreshInv, FreshIn, NamesApart, Past, TopLevel
<1> USE DEF IInv
<1>1. CASE Placing
  BY <1>1, PlacingChanges
<1>2. CASE StartTables
  <2>1. stage = "addresses" /\ UNCHANGED <<cfg, addr, pages, pt_pages>>
    BY <1>2, Zenon DEF StartTables
  <2> DEFINE os == pages["map_os"]
  <2>2. /\ \A n \in DOMAIN addr : FiledName(n)
        /\ pt_pages["map_os"] = << >>
        /\ NamesApart(os) /\ \A k \in DOMAIN os : PageName(os[k].name)
    BY <2>1 DEF OnceInv, MapNames
  <2>3. GoodPages(os)
    BY DEF PagesInv, MapNames
  <2>4. Work("map_os")' = os
    BY <2>1, <2>2, <2>3, GoodPlaces DEF Work
  <2> HIDE DEF os
  <2>5. ASSUME NEW x, PageName(x)  PROVE IsTriple(x) /\ x[3] = << >>
    <3>1. x[3] = << >> /\ x = <<x[1], x[2], x[3]>>
      BY <2>5 DEF PageName
    <3>2. IsSeq(<< >>)
      BY NamesGood
    <3> QED BY <3>1, <3>2 DEF IsTriple
  <2>6. ASSUME NEW x, NEW tag \in StageTags, NEW k, IsTriple(x), Derived(x, tag, k) \in DOMAIN addr'  PROVE FALSE
    <3>1. tag = "phys"
      BY <2>1, <2>2, <2>6, DerivedApart
    <3> QED BY <3>1 DEF StageTags
  <2> QED BY <2>2, <2>4, <2>5, <2>6 DEF FreshIn
<1>3. CASE Table
  <2>1. stage = "tables" /\ UNCHANGED <<cfg, pages>>
    BY <1>3, Zenon DEF Table, FollowEntry, CreateTable, CreateLeaf
  <2> DEFINE w == Work("map_os")
             i == cursor.item
             l == cursor.level
             n == Derived(w[i].name, "pt_level", l)
  <2>2. /\ cursor.map = "map_os"
        /\ \/ cursor'.item = i /\ cursor'.level = l - 1
           \/ cursor'.item = i + 1
    BY <1>3, TableGoes DEF GoesDown, GoesOn, GoesAway, StartOf
  <2>3. /\ FreshIn(w, DOMAIN addr, i, l) /\ "map_os" \in MapNames(cfg) /\ Current = w[i]
    BY <2>1, <2>2 DEF FreshInv, MapNames, Current
  <2>4. i \in DOMAIN w /\ i \in Int /\ l \in Int /\ GoodPages(w) /\ IsSeq(w)
    <3>1. GoodPages(w) /\ DOMAIN w = 1 .. Len(pages["map_os"]) + Len(pt_pages["map_os"])
      BY <2>3, WorksGood
    <3>2. IsSeq(w)
      BY <3>1, Zenon DEF GoodPages, IsSeq
    <3>3. i \in 1 .. Len(pages["map_os"]) + Len(pt_pages["map_os"])
      BY <2>1, <2>2 DEF CursorInv
    <3>4. l \in 0 .. TopLevel
      <4>1. \E at, tb : Here(at, tb)
        BY <2>1, HereWeAre
      <4> QED BY <4>1, Zenon DEF Here
    <3>5. i \in Int
      BY <3>3
    <3>6. l \in Int
      <4> HIDE DEF l
      <4> QED BY <3>4
    <3> QED BY <3>1, <3>2, <3>3, <3>5, <3>6
  <2> HIDE DEF w, i, l
  <2>5. CASE UNCHANGED <<addr, pt_pages, pte>>
    <3>1. Work("map_os")' = w \o << >> /\ IsSeq(<< >>)
      <4>1. Work("map_os")' = w
        BY <2>1, <2>5 DEF Work, w
      <4> QED BY <2>4, <4>1, GoodPlaces, NamesGood
    <3>2. FreshIn(w \o << >>, DOMAIN addr', cursor'.item, cursor'.level)
      BY <2>2, <2>3, <2>4, <2>5, <3>1, FreshGrows
    <3> QED BY <3>1, <3>2
  <2>6. CASE Written
    <3>0. PICK tag \in StageTags, a \in Int, level \in 0 .. TopLevel, v \in Int : \E e : Writes(tag, a, level, v, e)
      BY <2>6, Zenon DEF Written
    <3>1. PICK e : Writes(tag, a, level, v, e)
      BY <3>0
    <3> DEFINE t == TablePage(v)
               g == GStagePage(tag, a, level)
    <3>2. /\ t = << >> \/ (n \notin DOMAIN addr /\ n \in DOMAIN addr' /\ \E p : t = <<p>> /\ p.name = n)
          /\ DOMAIN addr \subseteq DOMAIN addr'
          /\ \A x \in DOMAIN addr' : x \in DOMAIN addr \/ x = n \/ \E h \in StageTags : x = Derived(w[i].name, h, l)
      BY <2>1, <2>3, <3>1, NamesWritten DEF l
    <3>3. AddRawPages(g, t) /\ GoodPages(g) /\ GoodPages(t)
      BY <2>1, <3>1, AddedPages DEF Writes
    <3> HIDE DEF t, g, n
    <3>4. Work("map_os")' = w \o t
      BY <2>1, <2>2, <2>3, <3>3, WorkAdds DEF w
    <3>5. IsSeq(t)
      BY <3>3, Zenon DEF GoodPages, IsSeq
    <3>6. FreshIn(w \o t, DOMAIN addr', cursor'.item, cursor'.level)
      BY <2>2, <2>3, <2>4, <3>2, <3>5, FreshGrows DEF n
    <3> QED BY <3>4, <3>6
  <2> QED BY <1>3, <2>5, <2>6, TableWrites
<1>4. CASE UNCHANGED vars
  <2>1. UNCHANGED <<cfg, addr, pages, pt_pages, stage, cursor>>
    BY <1>4, Zenon DEF vars, tableVars
  <2>2. Work("map_os")' = Work("map_os")
    BY <2>1 DEF Work
  <2> QED BY <2>1, <2>2 DEF FreshInv
<1> QED BY <1>1, <1>2, <1>3, <1>4, Zenon DEF Next, Stop, Placing

-----------------------------------------------------------------------------
(***************************************************************************)
(* Whatever the walks of map_os come to lies in an identity page that      *)
(* map_hyp was given: those of the tables of map_os are added with them,   *)
(* and later maps have tables of their own.                                *)
(***************************************************************************)
Covers(q, a) == q.lin <= a /\ a <= q.lin + LevelSize(q.level) - 1
CoveredBy(s, a) == \E j \in DOMAIN s : Covers(s[j], a)

IdentityPage(q) == q.lin = q.phys /\ q.phys % LevelSize(q.level) = 0

WalkCovered(pt, base, s) ==
    \A va, tb : \A l \in 0 .. TopLevel :
        Path(pt, base, va, l, tb) /\ <<tb[l], Index(va, l)>> \in DOMAIN pt
            => CoveredBy(s, pt[<<tb[l], Index(va, l)>>].next)

AllCovered(pt, s) == \A x \in DOMAIN pt : CoveredBy(s, pt[x].next)

IdentityInv == cfg.two_stage => \A k \in DOMAIN pt_pages["map_hyp"] : IdentityPage(pt_pages["map_hyp"][k])

CoveredInv ==
    cfg.two_stage /\ stage \in {"tables", "finished"} =>
        /\ WalkCovered(pte, root["map_os"], pt_pages["map_hyp"])
        /\ stage = "tables" /\ cursor.map = "map_os" => AllCovered(pte, pt_pages["map_hyp"])

\* The identity page for an address.
LEMMA RoundedPage ==
  ASSUME NEW a \in Int, NEW l \in 0 .. TopLevel, NEW q, q.level = l, q.lin = Rounded(a, l), q.phys = q.lin
  PROVE  IdentityPage(q) /\ Covers(q, a)
<1>1. LevelSize(l) \in Nat \ {0}
  BY LevelSizes
<1> DEFINE u == LevelSize(l)
<1>2. (a - (a % u)) % u = 0
  BY <1>1, RoundedDown
<1> HIDE DEF u
<1>3. a % u \in 0 .. u - 1
  BY <1>1 DEF u
<1>4. a - (a % u) <= a /\ a <= a - (a % u) + u - 1
  BY <1>1, <1>3 DEF u
<1> QED BY <1>2, <1>4 DEF IdentityPage, Covers, Rounded, u

\* A walk does not see entries of a table of another map.
LEMMA PathSpared ==
  ASSUME NEW at, NEW pt, NEW rt, NEW wk, NEW fr, Tree(at, pt, rt, wk, fr), NEW m \in DOMAIN rt,
         NEW s, NEW e, s[1] \in DOMAIN at, at[s[1]].map # m,
         NEW va, NEW l \in 0 .. TopLevel, NEW tb, Path(Put(pt, s, e), rt[m], va, l, tb)
  PROVE  Path(pt, rt[m], va, l, tb) /\ \A k \in l .. TopLevel : <<tb[k], Index(va, k)>> # s
<1> DEFINE S == {k \in l .. TopLevel : tb[k] \in DOMAIN at /\ at[tb[k]].map = m}
           q == Put(pt, s, e)
<1>1. TopLevel \in Nat
  BY LevelSizes
<1>2. TopLevel \in S
  <2>1. tb[TopLevel] = rt[m] /\ rt[m] \in DOMAIN at /\ at[rt[m]].map = m
    BY DEF Tree, Path
  <2> QED BY <1>1, <2>1
<1>3. \A x \in DOMAIN q : x # s => x \in DOMAIN pt /\ q[x] = pt[x]
  BY Zenon DEF Put
<1> HIDE DEF q
<1>4. ASSUME NEW k \in l .. TopLevel, k \in S  PROVE <<tb[k], Index(va, k)>> # s
  <2>1. at[tb[k]].map = m
    BY <1>4
  <2> QED BY <2>1
<1>5. ASSUME NEW k \in l + 1 .. TopLevel, k \in S
      PROVE  /\ <<tb[k], Index(va, k)>> \in DOMAIN pt /\ ~ pt[<<tb[k], Index(va, k)>>].leaf
             /\ pt[<<tb[k], Index(va, k)>>].next = tb[k - 1]
  <2>1. k \in l .. TopLevel
    BY <1>1
  <2>2. <<tb[k], Index(va, k)>> # s
    BY <1>4, <1>5, <2>1
  <2>3. /\ <<tb[k], Index(va, k)>> \in DOMAIN q /\ ~ q[<<tb[k], Index(va, k)>>].leaf
        /\ q[<<tb[k], Index(va, k)>>].next = tb[k - 1]
    BY DEF Path, q
  <2> QED BY <1>3, <2>2, <2>3
<1>6. ASSUME NEW k \in l + 1 .. TopLevel, k \in S  PROVE k - 1 \in S
  <2> DEFINE x == <<tb[k], Index(va, k)>>
  <2>1. x \in DOMAIN pt /\ ~ pt[x].leaf /\ pt[x].next = tb[k - 1] /\ x[1] = tb[k] /\ x[2] = Index(va, k)
    BY <1>5, <1>6
  <2>2. tb[k - 1] \in DOMAIN at /\ TableFits(at[tb[k]], Index(va, k), at[tb[k - 1]])
    <3> HIDE DEF x
    <3> QED BY <2>1, Zenon DEF Tree
  <2>3. at[tb[k]].map = m
    BY <1>6
  <2>4. k - 1 \in l .. TopLevel
    BY <1>1
  <2>5. at[tb[k - 1]].map = m
    BY <2>2, <2>3, Zenon DEF TableFits
  <2> QED BY <2>2, <2>4, <2>5
<1>7. l .. TopLevel \subseteq S
  <2> HIDE DEF S
  <2> QED BY <1>1, <1>2, <1>6, Downward
<1>8. \A k \in l + 1 .. TopLevel : k \in l .. TopLevel
  BY <1>1
<1>9. Path(pt, rt[m], va, l, tb)
  <2>1. tb[TopLevel] = rt[m]
    BY DEF Path
  <2> HIDE DEF S
  <2> QED BY <1>5, <1>7, <1>8, <2>1, Zenon DEF Path
<1> QED BY <1>4, <1>7, <1>9

LEMMA StagePageIs ==
  ASSUME NEW tag, NEW a, NEW level, GStagePage(tag, a, level) # << >>
  PROVE  \E p : /\ GStagePage(tag, a, level) = <<p>> /\ p.name = Derived(Current.name, tag, cursor.level)
                /\ p.level = level /\ p.lin = Rounded(a, level) /\ p.phys = p.lin
<1> DEFINE n == Derived(Current.name, tag, cursor.level)
           b == Rounded(a, level)
           p == [Page4K(n, b, b, "identity") EXCEPT !.level = level]
<1>1. p.name = n /\ p.level = level /\ p.lin = b /\ p.phys = b
  BY DEF Page4K
<1>2. GStagePage(tag, a, level) = <<p>>
  BY DEF GStagePage, Rounded
<1> QED BY <1>1, <1>2

\* What the step adds to map_hyp: its page, unless the tables of map_hyp are built.
LEMMA HypGrows ==
  ASSUME PagesInv, CursorInv, cfg.two_stage, stage = "tables", UNCHANGED pages,
         NEW tag \in StageTags, NEW a \in Int, NEW level \in 0 .. TopLevel,
         NEW v \in Int, NEW e, Writes(tag, a, level, v, e)
  PROVE  LET hyp == pt_pages["map_hyp"]
             gp  == GStagePage(tag, a, level)
         IN  /\ GoodPages(hyp) /\ GoodPages(gp)
             /\ cursor.map = "map_hyp" => pt_pages'["map_hyp"] = hyp
             /\ cursor.map # "map_hyp" => pt_pages'["map_hyp"] = hyp \o gp
             /\ \A k \in DOMAIN gp : IdentityPage(gp[k]) /\ Covers(gp[k], a)
<1> DEFINE hyp == pt_pages["map_hyp"]
           gp  == GStagePage(tag, a, level)
           tp  == TablePage(v)
<1>1. "map_hyp" \in MapNames(cfg)
  BY DEF MapNames
<1>2. GoodPages(hyp)
  BY <1>1 DEF PagesInv
<1>3. AddRawPages(gp, tp) /\ GoodPages(gp) /\ GoodPages(tp)
  BY AddedPages DEF Writes
<1>4. cursor.map = "map_hyp" => gp = << >> /\ tp = << >>
  <2>1. cursor.map = "map_hyp" => gp = << >>
    BY AddedPages DEF InStageOne
  <2>2. cursor.map = "map_hyp" => tp = << >>
    BY AddedPages DEF Writes, NeedsView, InStageOne
  <2> QED BY <2>1, <2>2
<1>5. GStagePage(tag, a, level) # << >> =>
          \E p : /\ GStagePage(tag, a, level) = <<p>> /\ p.name = Derived(Current.name, tag, cursor.level)
                 /\ p.level = level /\ p.lin = Rounded(a, level) /\ p.phys = p.lin
  BY StagePageIs
<1> HIDE DEF gp, tp
<1>6. cursor.map = "map_hyp" => pt_pages'["map_hyp"] = hyp
  BY <1>1, <1>3, <1>4, WorkAdds
<1>7. cursor.map # "map_hyp" => pt_pages'["map_hyp"] = hyp \o gp
  BY <1>1, <1>3, WorkAdds
<1>8. \A k \in DOMAIN gp : IdentityPage(gp[k]) /\ Covers(gp[k], a)
  <2>1. CASE gp = << >>
    BY <2>1
  <2>2. CASE gp # << >>
    <3>1. PICK p : gp = <<p>> /\ p.level = level /\ p.lin = Rounded(a, level) /\ p.phys = p.lin
      BY <1>5, <2>2 DEF gp
    <3>2. IdentityPage(p) /\ Covers(p, a)
      BY <3>1, RoundedPage
    <3> QED BY <3>1, <3>2
  <2> QED BY <2>1, <2>2
<1> QED BY <1>2, <1>3, <1>6, <1>7, <1>8 DEF gp

\* What was covered stays covered.
LEMMA StaysCovered ==
  ASSUME NEW s, NEW t, GoodPages(s), GoodPages(t)
  PROVE  /\ \A a : CoveredBy(s, a) => CoveredBy(s \o t, a)
         /\ \A a : t # << >> /\ (\A k \in DOMAIN t : Covers(t[k], a)) => CoveredBy(s \o t, a)
<1>1. IsSeq(s) /\ IsSeq(t)
  BY Zenon DEF GoodPages, IsSeq
<1>2. PICK a, b \in Nat : Lengths(s, t, a, b)
  BY <1>1, JoinedLists, Zenon
<1> DEFINE c == s \o t
<1>3. /\ DOMAIN s = 1 .. a /\ DOMAIN t = 1 .. b /\ DOMAIN c = 1 .. a + b
      /\ \A k \in 1 .. a : c[k] = s[k]
      /\ \A k \in a + 1 .. a + b : k - a \in 1 .. b /\ c[k] = t[k - a]
  BY <1>2 DEF Lengths
<1>4. t # << >> => b # 0
  <2>1. t # << >> => Len(t) \in Nat \ {0}
    BY NotEmpty
  <2>2. DOMAIN t = 1 .. Len(t) /\ Len(t) \in Nat
    BY GoodPlaces
  <2> QED BY <1>3, <2>1, <2>2
<1> HIDE DEF c
<1>5. ASSUME NEW x, CoveredBy(s, x)  PROVE CoveredBy(c, x)
  <2>1. PICK j \in 1 .. a : Covers(s[j], x)
    BY <1>3, <1>5 DEF CoveredBy
  <2>2. j \in DOMAIN c /\ c[j] = s[j]
    BY <1>3
  <2> QED BY <2>1, <2>2 DEF CoveredBy
<1>6. ASSUME NEW x, t # << >>, \A k \in DOMAIN t : Covers(t[k], x)  PROVE CoveredBy(c, x)
  <2>1. a + 1 \in DOMAIN c /\ a + 1 \in a + 1 .. a + b
    BY <1>3, <1>4, <1>6
  <2>2. Covers(c[a + 1], x)
    BY <1>3, <1>6, <2>1
  <2> QED BY <2>1, <2>2 DEF CoveredBy
<1> QED BY <1>5, <1>6 DEF c

\* The pages that map_hyp was given are identity pages.
LEMMA IdentityStep ==
  ASSUME IInv, WalkInv, IdentityInv, [Next]_vars
  PROVE  IdentityInv'
<1> SUFFICES ASSUME cfg'.two_stage, NEW k \in DOMAIN pt_pages'["map_hyp"]
             PROVE  IdentityPage(pt_pages'["map_hyp"][k])
  BY Zenon DEF IdentityInv, IdentityPage, LevelSize
<1>1. ASSUME UNCHANGED <<cfg, pt_pages>>  PROVE IdentityPage(pt_pages'["map_hyp"][k])
  BY <1>1 DEF IdentityInv
<1>2. CASE Table
  <2>1. stage = "tables" /\ UNCHANGED <<cfg, pages>>
    BY <1>2, Zenon DEF Table, FollowEntry, CreateTable, CreateLeaf
  <2>2. CASE Written
    <3>0. PICK tag \in StageTags, a \in Int, level \in 0 .. TopLevel, v \in Int : \E e : Writes(tag, a, level, v, e)
      BY <2>2, Zenon DEF Written
    <3>1. PICK e : Writes(tag, a, level, v, e)
      BY <3>0
    <3> DEFINE hyp == pt_pages["map_hyp"]
               gp  == GStagePage(tag, a, level)
    <3>2. /\ GoodPages(hyp) /\ GoodPages(gp)
          /\ pt_pages'["map_hyp"] = hyp \/ pt_pages'["map_hyp"] = hyp \o gp
          /\ \A j \in DOMAIN gp : IdentityPage(gp[j])
      BY <2>1, <3>1, HypGrows DEF IInv
    <3>3. \A j \in DOMAIN hyp : IdentityPage(hyp[j])
      BY <2>1 DEF IdentityInv
    <3> HIDE DEF hyp, gp
    <3>4. CASE pt_pages'["map_hyp"] = hyp
      BY <3>3, <3>4
    <3>5. CASE pt_pages'["map_hyp"] = hyp \o gp
      <4>1. \/ \E i \in DOMAIN hyp : (hyp \o gp)[k] = hyp[i]
            \/ \E i \in DOMAIN gp : (hyp \o gp)[k] = gp[i]
        BY <3>2, <3>5, JoinedMembers
      <4> QED BY <3>2, <3>3, <3>5, <4>1
    <3> QED BY <3>2, <3>4, <3>5
  <2> QED BY <1>1, <1>2, <2>1, <2>2, TableWrites DEF IInv
<1>3. CASE Placing
  BY <1>1, <1>3, PlacingChanges
<1>4. CASE StartTables
  BY <1>1, <1>4, Zenon DEF StartTables
<1>5. CASE UNCHANGED vars
  BY <1>1, <1>5, Zenon DEF vars, tableVars
<1> QED BY <1>2, <1>3, <1>4, <1>5, Zenon DEF Next, Stop, Placing

\* While the tables of map_os are built, an identity page is added with every entry.
LEMMA OsStaysCovered ==
  ASSUME IInv, WalkInv, FreshInv, cfg.two_stage, stage = "tables", cursor.map = "map_os", UNCHANGED pages,
         AllCovered(pte, pt_pages["map_hyp"]),
         NEW tag \in StageTags, NEW a \in Int, NEW level \in 0 .. TopLevel,
         NEW v \in Int, NEW e, Writes(tag, a, level, v, e)
  PROVE  AllCovered(pte', pt_pages'["map_hyp"])
<1> DEFINE hyp == pt_pages["map_hyp"]
           gp  == GStagePage(tag, a, level)
           w   == Work("map_os")
<1>1. /\ GoodPages(hyp) /\ GoodPages(gp)
      /\ pt_pages'["map_hyp"] = hyp \o gp
      /\ \A j \in DOMAIN gp : Covers(gp[j], a)
  BY HypGrows DEF IInv
<1>2. gp # << >>
  <2>1. PICK at, tb : Here(at, tb)
    BY HereWeAre
  <2>2. cursor.level \in 0 .. TopLevel /\ cursor.item \in DOMAIN Works[cursor.map] /\ cursor.map \in MapNames(cfg)
    BY <2>1, Zenon DEF Here
  <2>3. cursor.item \in DOMAIN w /\ Current = w[cursor.item]
    BY <2>2, WorksGood DEF IInv, Current
  <2>4. FreshIn(w, DOMAIN addr, cursor.item, cursor.level)
    BY DEF FreshInv
  <2>5. cursor.item \in Int /\ cursor.level \in Int
    <3>1. cursor.item \in Int
      BY DEF IInv, CursorInv
    <3> QED BY <2>2, <3>1
  <2> DEFINE i == cursor.item
             l == cursor.level
  <2> HIDE DEF w, i, l
  <2>6. Derived(w[i].name, tag, l) \notin DOMAIN addr
    BY <2>2, <2>3, <2>4, <2>5, FreshNames DEF i, l
  <2>7. Derived(Current.name, tag, cursor.level) \notin DOMAIN addr
    BY <2>3, <2>6 DEF i, l
  <2>8. InStageOne
    BY DEF InStageOne
  <2> QED BY <2>7, <2>8, AddedPages DEF IInv
<1>3. /\ \A x : CoveredBy(hyp, x) => CoveredBy(hyp \o gp, x)
      /\ CoveredBy(hyp \o gp, a)
  <2> HIDE DEF hyp, gp
  <2> QED BY <1>1, <1>2, StaysCovered
<1>4. pte' = Put(pte, Slot, e) /\ e.next = a
  BY DEF Writes
<1> HIDE DEF gp
<1>5. \A x \in DOMAIN Put(pte, Slot, e) : \/ Put(pte, Slot, e)[x] = e
                                          \/ x \in DOMAIN pte /\ Put(pte, Slot, e)[x] = pte[x]
  BY Zenon DEF Put
<1>6. \A x \in DOMAIN pte : CoveredBy(hyp \o gp, pte[x].next)
  BY <1>3 DEF AllCovered
<1> HIDE DEF hyp
<1> QED BY <1>1, <1>3, <1>4, <1>5, <1>6 DEF AllCovered

\* While those of another map are, the walks of map_os see no difference.
LEMMA OtherStaysCovered ==
  ASSUME IInv, WalkInv, cfg.two_stage, stage = "tables", cursor.map # "map_os", UNCHANGED pages,
         WalkCovered(pte, root["map_os"], pt_pages["map_hyp"]),
         NEW tag \in StageTags, NEW a \in Int, NEW level \in 0 .. TopLevel,
         NEW v \in Int, NEW e, Writes(tag, a, level, v, e)
  PROVE  WalkCovered(pte', root["map_os"], pt_pages'["map_hyp"])
<1> DEFINE hyp == pt_pages["map_hyp"]
           gp  == GStagePage(tag, a, level)
           new == pt_pages'["map_hyp"]
<1>1. /\ GoodPages(hyp) /\ GoodPages(gp)
      /\ new = hyp \/ new = hyp \o gp
  BY HypGrows DEF IInv
<1>2. \A x : CoveredBy(hyp, x) => CoveredBy(new, x)
  <2> HIDE DEF hyp, gp, new
  <2>1. \A x : CoveredBy(hyp, x) => CoveredBy(hyp \o gp, x)
    BY <1>1, StaysCovered
  <2> QED BY <1>1, <2>1
<1>3. pte' = Put(pte, Slot, e)
  BY DEF Writes
<1>4. PICK at, tb : Here(at, tb)
  BY HereWeAre
<1>5. Tree(at, pte, root, Works, Frames(physical))
  BY <1>4, Zenon DEF Here
<1>6. Slot[1] \in DOMAIN at /\ at[Slot[1]].map # "map_os"
  BY <1>4, HerePlace DEF Slot
<1>7. "map_os" \in DOMAIN root
  <2>1. "map_os" \in MapNames(cfg)
    BY DEF MapNames
  <2>2. RootsInv /\ EntriesInv /\ todo = << >> /\ stage # "failed"
    BY DEF IInv, EntriesInv
  <2> QED BY <2>1, <2>2, RootsExist
<1> HIDE DEF gp, hyp, new
<1>8. ASSUME NEW va, NEW tc, NEW l \in 0 .. TopLevel,
             Path(Put(pte, Slot, e), root["map_os"], va, l, tc),
             <<tc[l], Index(va, l)>> \in DOMAIN Put(pte, Slot, e)
      PROVE  CoveredBy(new, Put(pte, Slot, e)[<<tc[l], Index(va, l)>>].next)
  <2> DEFINE x == <<tc[l], Index(va, l)>>
  <2>1. Path(pte, root["map_os"], va, l, tc) /\ \A k \in l .. TopLevel : <<tc[k], Index(va, k)>> # Slot
    BY <1>5, <1>6, <1>7, <1>8, PathSpared
  <2>2. x # Slot
    <3>1. l \in l .. TopLevel
      BY LevelSizes
    <3> QED BY <2>1, <3>1
  <2>3. x \in DOMAIN pte /\ Put(pte, Slot, e)[x] = pte[x]
    <3> HIDE DEF x
    <3>1. x \in DOMAIN Put(pte, Slot, e)
      BY <1>8 DEF x
    <3> QED BY <2>2, <3>1, Zenon DEF Put
  <2>4. CoveredBy(hyp, pte[x].next)
    BY <2>1, <2>3 DEF WalkCovered, hyp
  <2> QED BY <1>2, <2>3, <2>4
<1> QED BY <1>3, <1>8, Zenon DEF WalkCovered, new

\* So whatever the walks of map_os come to is covered.
LEMMA CoveredStep ==
  ASSUME IInv, IInv', WalkInv, FreshInv, CoveredInv, [Next]_vars
  PROVE  CoveredInv'
<1> DEFINE new == pt_pages'["map_hyp"]
           pt  == pte'
           base == root'["map_os"]
<1> SUFFICES ASSUME cfg'.two_stage, stage' \in {"tables", "finished"}
             PROVE  /\ WalkCovered(pt, base, new)
                    /\ stage' = "tables" /\ cursor'.map = "map_os" => AllCovered(pt, new)
  BY Zenon DEF CoveredInv, WalkCovered, AllCovered, CoveredBy, Covers, Path, Index, LevelSize, TopLevel
<1>1. \A b, s : AllCovered(pt, s) => WalkCovered(pt, b, s)
  BY DEF AllCovered, WalkCovered
<1>2. CASE Table
  <2>1. stage = "tables" /\ UNCHANGED <<cfg, pages, root>>
    BY <1>2, Zenon DEF Table, FollowEntry, CreateTable, CreateLeaf
  <2>2. stage' = "tables" /\ cursor'.map = "map_os" => cursor.map = "map_os"
    BY <1>2, TableGoes DEF GoesDown, GoesOn, GoesAway, StartOf
  <2>3. /\ WalkCovered(pte, root["map_os"], pt_pages["map_hyp"])
        /\ cursor.map = "map_os" => AllCovered(pte, pt_pages["map_hyp"])
    BY <2>1 DEF CoveredInv
  <2>4. CASE UNCHANGED <<addr, pt_pages, pte>>
    BY <2>1, <2>2, <2>3, <2>4
  <2>5. CASE Written
    <3>0. PICK tag \in StageTags, a \in Int, level \in 0 .. TopLevel, v \in Int : \E e : Writes(tag, a, level, v, e)
      BY <2>5, Zenon DEF Written
    <3>1. PICK e : Writes(tag, a, level, v, e)
      BY <3>0
    <3>2. CASE cursor.map = "map_os"
      BY <1>1, <2>1, <2>3, <3>1, <3>2, OsStaysCovered
    <3>3. CASE cursor.map # "map_os"
      BY <2>1, <2>2, <2>3, <3>1, <3>3, OtherStaysCovered
    <3> QED BY <3>2, <3>3
  <2> QED BY <1>2, <2>4, <2>5, TableWrites DEF IInv
<1>3. CASE Placing
  BY <1>3, PlacingChanges
<1>4. CASE StartTables
  <2>1. stage = "addresses" /\ pte' = pte
    BY <1>4, Zenon DEF StartTables
  <2>2. DOMAIN pt = {}
    BY <2>1 DEF IInv, EntriesInv
  <2>3. AllCovered(pt, new)
    BY <2>2 DEF AllCovered
  <2> QED BY <1>1, <2>3
<1>5. CASE UNCHANGED vars
  <2>1. UNCHANGED <<cfg, pt_pages, root, pte, stage, cursor>>
    BY <1>5, Zenon DEF vars, tableVars
  <2> QED BY <2>1 DEF CoveredInv
<1> QED BY <1>2, <1>3, <1>4, <1>5, Zenon DEF Next, Stop, Placing

-----------------------------------------------------------------------------
(***************************************************************************)
(* The tables of map_hyp: every page that was added to it with the tables  *)
(* of the other maps is mapped when it is done, by its own leaf entry or   *)
(* by that of a page of those which is as large, or larger.                *)
(***************************************************************************)
MappedAt(pt, base, Q, p, k, tb) ==
    /\ Path(pt, base, p.lin, k, tb) /\ <<tb[k], Index(p.lin, k)>> \in DOMAIN pt
    /\ pt[<<tb[k], Index(p.lin, k)>>].leaf
    /\ \E j \in DOMAIN Q : /\ Q[j].level = k /\ Q[j].phys = pt[<<tb[k], Index(p.lin, k)>>].next
                           /\ SameWalk(Q[j].lin, p.lin, k)

Mapped(pt, base, Q, p) == \E k \in p.level .. TopLevel : \E tb : MappedAt(pt, base, Q, p, k, tb)

HypDoneInv ==
    cfg.two_stage /\ cfg.paging /\ stage \in {"tables", "finished"} =>
        \A i \in DOMAIN Work("map_hyp") :
            i > Len(pages["map_hyp"]) /\ Done("map_hyp", i)
                => Mapped(pte, root["map_hyp"], pt_pages["map_hyp"], Work("map_hyp")[i])

\* An entry that no such walk uses may be written.
LEMMA MappedKept ==
  ASSUME NEW pt, NEW base, NEW Q, NEW p, NEW k \in p.level .. TopLevel, NEW tb, MappedAt(pt, base, Q, p, k, tb),
         NEW s, NEW e, \A h \in k + 1 .. TopLevel : <<tb[h], Index(p.lin, h)>> # s,
         <<tb[k], Index(p.lin, k)>> # s
  PROVE  Mapped(Put(pt, s, e), base, Q, p)
<1> DEFINE x == <<tb[k], Index(p.lin, k)>>
           va == p.lin
<1>1. Path(pt, base, va, k, tb) /\ \A h \in k + 1 .. TopLevel : <<tb[h], Index(va, h)>> # s
  BY Zenon DEF MappedAt
<1>2. Path(Put(pt, s, e), base, va, k, tb)
  <2> HIDE DEF va
  <2> QED BY <1>1, PathKept
<1>3. x \in DOMAIN pt /\ x # s
  BY Zenon DEF MappedAt
<1>4. x \in DOMAIN Put(pt, s, e) /\ Put(pt, s, e)[x] = pt[x]
  <2> HIDE DEF x
  <2> QED BY <1>3, Zenon DEF Put
<1>5. MappedAt(Put(pt, s, e), base, Q, p, k, tb)
  BY <1>2, <1>4, Zenon DEF MappedAt
<1> QED BY <1>5 DEF Mapped

\* The slot at hand, where there is no entry yet, is on no such walk.
LEMMA MappedUnused ==
  ASSUME Slot \notin DOMAIN pte, NEW e, NEW base, NEW Q, NEW p, Mapped(pte, base, Q, p)
  PROVE  Mapped(Put(pte, Slot, e), base, Q, p)
<1>0. PICK k \in p.level .. TopLevel : \E tb : MappedAt(pte, base, Q, p, k, tb)
  BY DEF Mapped
<1>1. PICK tb : MappedAt(pte, base, Q, p, k, tb)
  BY <1>0
<1>2. /\ \A h \in k + 1 .. TopLevel : <<tb[h], Index(p.lin, h)>> # Slot
      /\ <<tb[k], Index(p.lin, k)>> # Slot
  BY <1>1, Zenon DEF MappedAt, Path
<1> QED BY <1>1, <1>2, MappedKept

\* A walk that comes to the slot at hand finds the new leaf.
LEMMA LeafFound ==
  ASSUME NEW at, NEW tb, Here(at, tb), NEW p, cursor.level \in p.level .. TopLevel,
         NEW tc, Path(pte, root[cursor.map], p.lin, cursor.level, tc),
         <<tc[cursor.level], Index(p.lin, cursor.level)>> = Slot,
         NEW Q, NEW j \in DOMAIN Q, Q[j].level = cursor.level, Q[j].lin = Current.lin,
         NEW e, e.leaf, e.next = Q[j].phys
  PROVE  Mapped(Put(pte, Slot, e), root[cursor.map], Q, p)
<1> DEFINE l == cursor.level
           m == cursor.map
           va == p.lin
<1>1. /\ Tree(at, pte, root, Works, Frames(physical)) /\ m \in DOMAIN root /\ l \in 0 .. TopLevel
  BY Zenon DEF Here
<1>2. Path(pte, root[m], va, l, tc)
  OBVIOUS
<1> HIDE DEF l, m, va
<1>3. \A k \in l .. TopLevel : /\ tc[k] \in DOMAIN at /\ at[tc[k]].map = m /\ at[tc[k]].level = k
                               /\ SameWalk(at[tc[k]].va, va, k + 1)
  BY <1>1, <1>2, PathPlaces
<1>4. l \in l .. TopLevel /\ \A k \in l + 1 .. TopLevel : k \in l .. TopLevel /\ k # l
  BY <1>1
<1>5. tc[l] = cursor.table /\ Index(va, l) = Index(Current.lin, l)
  BY DEF Slot, l, va
<1>6. \A k \in l + 1 .. TopLevel : <<tc[k], Index(va, k)>> # Slot
  <2>1. \A k \in l + 1 .. TopLevel : tc[k] # tc[l]
    BY <1>3, <1>4
  <2> QED BY <1>5, <2>1 DEF Slot
<1>7. Path(Put(pte, Slot, e), root[m], va, l, tc)
  BY <1>2, <1>6, PathKept
<1>8. SameWalk(Current.lin, va, l)
  <2>1. SameWalk(at[cursor.table].va, Current.lin, l + 1)
    BY HerePlace DEF l
  <2>2. SameWalk(at[cursor.table].va, va, l + 1)
    BY <1>3, <1>4, <1>5
  <2>3. \A k \in l .. TopLevel : k = l \/ k \in l + 1 .. TopLevel
    BY <1>1
  <2> QED BY <1>5, <2>1, <2>2, <2>3, Zenon DEF SameWalk
<1>9. Slot \in DOMAIN Put(pte, Slot, e) /\ Put(pte, Slot, e)[Slot] = e
  BY Zenon DEF Put
<1>10. <<tc[l], Index(va, l)>> = Slot
  BY DEF l, va
<1>11. Q[j].level = l /\ SameWalk(Q[j].lin, va, l)
  BY <1>8 DEF l
<1>12. MappedAt(Put(pte, Slot, e), root[m], Q, p, l, tc)
  BY <1>7, <1>9, <1>10, <1>11 DEF MappedAt, va
<1>13. l \in p.level .. TopLevel
  BY DEF l
<1> QED BY <1>12, <1>13 DEF Mapped, m

\* So a leaf entry for one of the pages leaves the others of them mapped ...
LEMMA LeafMaps ==
  ASSUME NEW at, NEW tb, Here(at, tb), cursor.level = Current.level,
         NEW p, p.level \in 0 .. TopLevel, NEW Q, NEW j \in DOMAIN Q, Q[j] = Current,
         NEW e, e.leaf, e.next = Current.phys, Mapped(pte, root[cursor.map], Q, p)
  PROVE  Mapped(Put(pte, Slot, e), root[cursor.map], Q, p)
<1>0. PICK k \in p.level .. TopLevel : \E tc : MappedAt(pte, root[cursor.map], Q, p, k, tc)
  BY DEF Mapped
<1>1. PICK tc : MappedAt(pte, root[cursor.map], Q, p, k, tc)
  BY <1>0
<1> DEFINE l == cursor.level
           m == cursor.map
           va == p.lin
           low == p.level
<1>2. k \in low .. TopLevel /\ low \in 0 .. TopLevel /\ TopLevel \in Nat
  BY LevelSizes
<1>3. Path(pte, root[m], va, k, tc)
  BY <1>1, Zenon DEF MappedAt
<1>4. /\ Tree(at, pte, root, Works, Frames(physical)) /\ m \in DOMAIN root /\ l \in 0 .. TopLevel
  BY Zenon DEF Here
<1>5. at[cursor.table].level = l
  BY HerePlace
<1>6. CASE \A h \in k .. TopLevel : <<tc[h], Index(va, h)>> # Slot
  <2>1. k \in k .. TopLevel /\ \A h \in k + 1 .. TopLevel : h \in k .. TopLevel
    <3> HIDE DEF low
    <3> QED BY <1>2
  <2> QED BY <1>1, <1>6, <2>1, MappedKept
<1>7. CASE \E h \in k .. TopLevel : <<tc[h], Index(va, h)>> = Slot
  <2>1. PICK h \in k .. TopLevel : <<tc[h], Index(va, h)>> = Slot
    BY <1>7
  <2>2. tc[h] = cursor.table
    BY <2>1 DEF Slot
  <2>3. k \in 0 .. TopLevel
    <3> HIDE DEF low
    <3> QED BY <1>2
  <2>4. at[tc[h]].level = h
    <3> HIDE DEF va, m, l
    <3> QED BY <1>3, <1>4, <2>3, PathPlaces
  <2>5. h = l
    BY <1>5, <2>2, <2>4
  <2>6. l \in low .. TopLevel /\ \A g \in l + 1 .. TopLevel : g \in k + 1 .. TopLevel
    <3>1. h \in k .. TopLevel
      OBVIOUS
    <3> HIDE DEF low, l
    <3> QED BY <1>2, <2>5, <3>1
  <2>7. Path(pte, root[m], va, l, tc)
    <3> HIDE DEF va, m, l
    <3> QED BY <1>3, <2>6, Zenon DEF Path
  <2>8. /\ cursor.level \in p.level .. TopLevel
        /\ Path(pte, root[cursor.map], p.lin, cursor.level, tc)
        /\ <<tc[cursor.level], Index(p.lin, cursor.level)>> = Slot
        /\ Q[j].level = cursor.level /\ Q[j].lin = Current.lin /\ e.next = Q[j].phys
    BY <2>1, <2>5, <2>6, <2>7
  <2> QED BY <2>8, LeafFound
<1> QED BY <1>6, <1>7

\* ... and maps its page.
LEMMA LeafMapsOwn ==
  ASSUME NEW at, NEW tb, Here(at, tb), cursor.level = Current.level,
         NEW Q, NEW j \in DOMAIN Q, Q[j] = Current,
         NEW e, e.leaf, e.next = Current.phys
  PROVE  Mapped(Put(pte, Slot, e), root[cursor.map], Q, Current)
<1>1. /\ cursor.level \in 0 .. TopLevel
      /\ Path(pte, root[cursor.map], Current.lin, cursor.level, tb) /\ tb[cursor.level] = cursor.table
  BY Zenon DEF Here
<1>2. cursor.level \in Current.level .. TopLevel
  <2> DEFINE l == cursor.level
  <2>1. l \in 0 .. TopLevel
    BY <1>1
  <2> HIDE DEF l
  <2>2. l \in l .. TopLevel
    BY <2>1, LevelSizes
  <2> QED BY <2>2 DEF l
<1>3. <<tb[cursor.level], Index(Current.lin, cursor.level)>> = Slot
  BY <1>1 DEF Slot
<1>4. Q[j].level = cursor.level /\ Q[j].lin = Current.lin /\ e.next = Q[j].phys
  OBVIOUS
<1> QED BY <1>1, <1>2, <1>3, <1>4, LeafFound

\* An item behind the first pages of map_hyp is one that was added with tables.
LEMMA HypItems ==
  ASSUME PagesInv, cfg.two_stage, NEW i \in DOMAIN Work("map_hyp")
  PROVE  /\ i \in Int /\ i >= 1
         /\ i > Len(pages["map_hyp"]) => \E j \in DOMAIN pt_pages["map_hyp"] : pt_pages["map_hyp"][j] = Work("map_hyp")[i]
<1> DEFINE s == pages["map_hyp"]
           w == pt_pages["map_hyp"]
<1>1. GoodPages(s) /\ GoodPages(w)
  BY DEF PagesInv, MapNames
<1>2. Work("map_hyp") = s \o w
  BY DEF Work
<1> HIDE DEF s, w
<1>3. IsSeq(s) /\ IsSeq(w)
  BY <1>1, Zenon DEF GoodPages, IsSeq
<1>4. PICK n, m \in Nat : Lengths(s, w, n, m)
  BY <1>3, JoinedLists, Zenon
<1>5. DOMAIN s = 1 .. Len(s) /\ Len(s) \in Nat
  BY <1>1, GoodPlaces
<1> DEFINE c == s \o w
<1>6. /\ DOMAIN s = 1 .. n /\ DOMAIN w = 1 .. m /\ DOMAIN c = 1 .. n + m
      /\ \A k \in n + 1 .. n + m : k - n \in 1 .. m /\ c[k] = w[k - n]
  BY <1>4 DEF Lengths
<1> HIDE DEF c
<1>7. i \in 1 .. n + m
  BY <1>2, <1>6 DEF c
<1>8. Len(s) = n
  <2> DEFINE k == Len(s)
  <2>1. 1 .. k = 1 .. n /\ k \in Nat
    BY <1>5, <1>6
  <2> HIDE DEF k
  <2>2. k = n
    BY <2>1
  <2> QED BY <2>2 DEF k
<1>9. ASSUME i > n  PROVE \E j \in DOMAIN w : w[j] = c[i]
  <2>1. i \in n + 1 .. n + m
    BY <1>7, <1>9
  <2> QED BY <1>6, <2>1
<1>10. i \in Int /\ i >= 1
  BY <1>7
<1>11. i > Len(s) => \E j \in DOMAIN w : w[j] = c[i]
  BY <1>8, <1>9
<1> QED BY <1>2, <1>10, <1>11 DEF s, w, c

\* A page that is given up to a larger one is mapped by it: the first pages of map_hyp
\* are not larger.
LEMMA HypBlocked ==
  ASSUME IInv, WalkInv, OnceInv, cfg.two_stage, stage = "tables", cursor.map = "map_hyp",
         cursor.level > Current.level, Slot \in DOMAIN pte, pte[Slot].leaf
  PROVE  Mapped(pte, root["map_hyp"], pt_pages["map_hyp"], Current)
<1>1. PICK at, tb : Here(at, tb)
  BY HereWeAre
<1> DEFINE l == cursor.level
           va == Current.lin
           low == Current.level
           s == pages["map_hyp"]
           w == pt_pages["map_hyp"]
           x == at[cursor.table]
<1>2. /\ Tree(at, pte, root, Works, Frames(physical))
      /\ l \in 0 .. TopLevel /\ low \in 0 .. l /\ l > low
      /\ Path(pte, root["map_hyp"], va, l, tb) /\ tb[l] = cursor.table
  BY <1>1, Zenon DEF Here
<1>3. x.map = "map_hyp" /\ x.level = l /\ SameWalk(x.va, va, l + 1)
  BY <1>1, HerePlace
<1>4. Slot[1] = cursor.table /\ Slot[2] = Index(va, l) /\ Slot = <<tb[l], Index(va, l)>>
  BY <1>2 DEF Slot
<1> HIDE DEF x
<1>5. WrittenFor(x, Index(va, l), pte[Slot], Works)
  <2>1. WrittenFor(at[Slot[1]], Slot[2], pte[Slot], Works)
    BY <1>2, Zenon DEF Tree
  <2> QED BY <1>4, <2>1 DEF x
<1>6. PICK j \in DOMAIN Works["map_hyp"] :
         /\ SameWalk(Works["map_hyp"][j].lin, x.va, l + 1) /\ Index(Works["map_hyp"][j].lin, l) = Index(va, l)
         /\ Works["map_hyp"][j].level = l /\ Works["map_hyp"][j].phys = pte[Slot].next
  BY <1>3, <1>5, Zenon DEF WrittenFor
<1>7. "map_hyp" \in MapNames(cfg)
  BY DEF MapNames
<1>8. Works["map_hyp"] = s \o w /\ GoodPages(s) /\ GoodPages(w)
  BY <1>7, WorksGood DEF IInv, PagesInv, Work
<1>9. PICK p : /\ (\E i \in DOMAIN s : p = s[i]) \/ (\E i \in DOMAIN w : p = w[i])
               /\ SameWalk(p.lin, x.va, l + 1) /\ Index(p.lin, l) = Index(va, l)
               /\ p.level = l /\ p.phys = pte[Slot].next
  <2> HIDE DEF s, w
  <2>1. \/ \E i \in DOMAIN s : Works["map_hyp"][j] = s[i]
        \/ \E i \in DOMAIN w : Works["map_hyp"][j] = w[i]
    BY <1>8, JoinedMembers
  <2> QED BY <1>6, <2>1
<1>10. l # 0 /\ l \in low .. TopLevel
  <2> HIDE DEF l, low
  <2> QED BY <1>2
<1>11. PICK i \in DOMAIN w : p = w[i]
  <2>1. \A i \in DOMAIN s : s[i].level = 0
    BY DEF OnceInv
  <2> QED BY <1>9, <1>10, <2>1
<1>12. SameWalk(p.lin, va, l)
  <2>1. \A k \in l .. TopLevel : k = l \/ k \in l + 1 .. TopLevel
    <3> HIDE DEF l, low
    <3> QED BY <1>2
  <2> QED BY <1>3, <1>9, <2>1, Zenon DEF SameWalk
<1> HIDE DEF l, va, w
<1>13. MappedAt(pte, root["map_hyp"], w, Current, l, tb)
  BY <1>2, <1>4, <1>9, <1>11, <1>12 DEF MappedAt, va
<1> QED BY <1>10, <1>13 DEF Mapped, w

-----------------------------------------------------------------------------
\* The tables of map_hyp are built last.
LEMMA HypLast ==
  ASSUME CallsInv, cfg.paging, cfg.two_stage
  PROVE  /\ DOMAIN TableMaps \subseteq Int
         /\ \E z \in DOMAIN TableMaps : /\ TableMaps[z] = "map_hyp" /\ \A a \in DOMAIN TableMaps : a <= z
                                        /\ \A a \in DOMAIN TableMaps : TableMaps[a] = "map_hyp" => a = z
<1> DEFINE one == StageOneMaps
           tm == TableMaps
<1>1. cfg.maps \in Seq(ToSet(cfg.maps))
  BY GeneratorAssumption DEF CallsInv
<1>2. one \in Seq({"map_os"} \cup ToSet(cfg.maps))
  BY <1>1 DEF StageOneMaps
<1>3. tm = Append(one, "map_hyp")
  BY DEF TableMaps
<1>4. \A a, b \in DOMAIN tm : tm[a] = tm[b] => a = b
  BY MapsApart
<1> HIDE DEF one, tm
<1>5. Len(one) \in Nat /\ DOMAIN tm = 1 .. Len(one) + 1 /\ tm[Len(one) + 1] = "map_hyp"
  BY <1>2, <1>3
<1>6. Len(one) + 1 \in DOMAIN tm /\ (\A a \in DOMAIN tm : a <= Len(one) + 1) /\ DOMAIN tm \subseteq Int
  BY <1>5
<1> QED BY <1>4, <1>5, <1>6 DEF tm

\* So none of its pages is done while those of another map are built, and a step that
\* goes on finishes the page at hand alone.
LEMMA HypNotDone ==
  ASSUME CallsInv, cfg.paging, cfg.two_stage, stage = "tables", NEW i, Done("map_hyp", i)
  PROVE  cursor.map = "map_hyp" /\ i < cursor.item
<1>1. ~ Before("map_hyp", cursor.map)
  BY HypLast DEF Before
<1> QED BY <1>1 DEF Done

LEMMA HypNextDone ==
  ASSUME IInv, IInv', AtNext, cfg.two_stage, NEW i \in DOMAIN Work("map_hyp")', Done("map_hyp", i)'
  PROVE  cursor.map = "map_hyp" /\ (Done("map_hyp", i) \/ i = cursor.item)
<1> DEFINE tm == TableMaps
           item == cursor.item
           hyp == "map_hyp"
           new == Len(pages[hyp]) + Len(pt_pages'[hyp])
<1>1. CallsInv /\ PagesInv /\ PagesInv' /\ UNCHANGED <<cfg, pages>> /\ CursorInv /\ stage = "tables"
  BY DEF AtNext
<1>2. PICK c \in DOMAIN tm :
         /\ tm[c] = cursor.map
         /\ \/ cursor' = StartOf(cursor.map, item + 1) /\ stage' = "tables"
            \/ /\ item >= Len(pages[cursor.map]) + Len(pt_pages'[cursor.map]) /\ stage' = "finished"
               /\ \A b \in DOMAIN tm : c < b => NoPlace(tm[b])
            \/ /\ item >= Len(pages[cursor.map]) + Len(pt_pages'[cursor.map]) /\ stage' = "tables"
               /\ \E d \in DOMAIN tm :
                    /\ c < d /\ cursor' = StartOf(tm[d], 1)
                    /\ \A b \in DOMAIN tm : c < b /\ b < d => NoPlace(tm[b])
  BY NextStart
<1>3. cfg.paging
  BY NextStart
<1>4. PICK z \in DOMAIN tm : /\ tm[z] = hyp /\ \A a \in DOMAIN tm : a <= z
                             /\ \A a \in DOMAIN tm : tm[a] = hyp => a = z
  BY <1>1, <1>3, HypLast
<1>5. DOMAIN tm \subseteq Int
  BY <1>1, <1>3, HypLast
<1>6. stage' = "tables" => cursor'.map = hyp /\ i < cursor'.item
  <2>1. CallsInv' /\ cfg'.paging /\ cfg'.two_stage
    BY <1>1, <1>3 DEF IInv
  <2>2. tm' = tm
    BY <1>1 DEF TableMaps, StageOneMaps
  <2>3. stage' = "tables" => ~ Before(hyp, cursor.map)'
    BY <1>4, <1>5, <2>2 DEF Before
  <2>4. stage' = "tables" => Before(hyp, cursor.map)' \/ (hyp = cursor'.map /\ i < cursor'.item)
    BY DEF Done
  <2> QED BY <2>3, <2>4
<1>7. i \in 1 .. new /\ new \in Int
  <2>1. GoodPages(pages[hyp]) /\ GoodPages(pt_pages'[hyp])
    <3>1. MapNames(cfg)' = MapNames(cfg) /\ hyp \in MapNames(cfg)
      BY <1>1 DEF MapNames
    <3> QED BY <1>1, <3>1 DEF PagesInv
  <2>2. GoodPages(pages[hyp] \o pt_pages'[hyp]) /\ Len(pages[hyp] \o pt_pages'[hyp]) = new /\ new \in Int
    <3>1. /\ GoodPages(pages[hyp] \o pt_pages'[hyp]) /\ Len(pages[hyp] \o pt_pages'[hyp]) = new
          /\ Len(pages[hyp]) \in Nat /\ Len(pt_pages'[hyp]) \in Nat
      BY <2>1, GoodConcat
    <3> QED BY <3>1
  <2>3. DOMAIN (pages[hyp] \o pt_pages'[hyp]) = 1 .. new
    BY <2>2, GoodPlaces
  <2>4. Work(hyp)' = pages[hyp] \o pt_pages'[hyp]
    BY <1>1 DEF Work
  <2> QED BY <2>2, <2>3, <2>4
<1>8. item \in Int
  BY <1>1 DEF CursorInv
<1>9. CASE c = z
  <2>1. cursor.map = hyp
    BY <1>2, <1>4, <1>9
  <2>2. i <= item
    <3>1. CASE cursor' = StartOf(cursor.map, item + 1) /\ stage' = "tables"
      <4>1. i < item + 1
        BY <1>6, <3>1 DEF StartOf
      <4> HIDE DEF item, new
      <4> QED BY <1>7, <1>8, <4>1
    <3>2. CASE item >= Len(pages[cursor.map]) + Len(pt_pages'[cursor.map])
      <4>1. item >= new
        BY <2>1, <3>2
      <4> HIDE DEF item, new
      <4> QED BY <1>7, <1>8, <4>1
    <3> QED BY <1>2, <3>1, <3>2
  <2>3. i < item \/ i = item
    <3> HIDE DEF item, new
    <3> QED BY <1>7, <1>8, <2>2
  <2> QED BY <1>1, <2>1, <2>3 DEF Done
<1>10. CASE c # z
  <2>1. c < z
    <3> HIDE DEF tm
    <3> QED BY <1>4, <1>5, <1>10
  <2>2. ~ NoPlace(hyp)
    <3>1. NoPlace(hyp) => Work(hyp)' = << >>
      BY <1>1 DEF NoPlace, Work
    <3> QED BY <3>1
  <2>3. tm[c] # hyp
    BY <1>4, <1>10
  <2>4. CASE cursor' = StartOf(cursor.map, item + 1) /\ stage' = "tables"
    BY <1>2, <1>6, <2>3, <2>4 DEF StartOf
  <2>5. CASE \A b \in DOMAIN tm : c < b => NoPlace(tm[b])
    BY <1>4, <2>1, <2>2, <2>5
  <2>6. CASE stage' = "tables" /\ \E d \in DOMAIN tm : c < d /\ cursor' = StartOf(tm[d], 1)
    <3>1. cursor'.item = 1
      BY <2>6 DEF StartOf
    <3>2. ~ (i < 1)
      BY <1>7
    <3> QED BY <1>6, <2>6, <3>1, <3>2
  <2> QED BY <1>2, <2>4, <2>5, <2>6
<1> QED BY <1>9, <1>10

\* The pages of map_hyp that are done are mapped, and stay so.
LEMMA HypDoneTable ==
  ASSUME IInv, IInv', WalkInv, OnceInv, HypDoneInv, Table, cfg.two_stage, cfg.paging, stage' # "failed",
         NEW i \in DOMAIN Work("map_hyp")', i > Len(pages["map_hyp"]), Done("map_hyp", i)'
  PROVE  Mapped(pte', root["map_hyp"], pt_pages'["map_hyp"], Work("map_hyp")'[i])
<1>1. stage = "tables" /\ UNCHANGED <<cfg, pages, root>> /\ CallsInv
  BY Zenon DEF Table, FollowEntry, CreateTable, CreateLeaf, IInv
<1>2. WorkGrows
  BY TableWorks DEF IInv
<1>3. ASSUME ToNextPage  PROVE cursor.map = "map_hyp" /\ (Done("map_hyp", i) \/ i = cursor.item)
  <2>1. AtNext
    BY <1>1, <1>2, <1>3 DEF AtNext, IInv, WalkInv
  <2> QED BY <2>1, HypNextDone
<1>4. ASSUME cursor'.map = cursor.map, cursor'.item = cursor.item, stage' = stage
      PROVE  cursor.map = "map_hyp" /\ Done("map_hyp", i)
  <2>1. CallsInv' /\ cfg'.paging /\ cfg'.two_stage
    BY <1>1 DEF IInv
  <2>2. TableMaps' = TableMaps
    BY <1>1 DEF TableMaps, StageOneMaps
  <2>3. Done("map_hyp", i)
    BY <1>1, <1>4, <2>2 DEF Done, Before
  <2> QED BY <1>1, <2>3, HypNotDone
<1>5. ASSUME cursor.map = "map_hyp"
      PROVE  pt_pages'["map_hyp"] = pt_pages["map_hyp"] /\ Work("map_hyp")' = Work("map_hyp")
  <2>1. pt_pages'["map_hyp"] = pt_pages["map_hyp"]
    <3>1. CASE Written
      <4>0. PICK tag \in StageTags, a \in Int, level \in 0 .. TopLevel, v \in Int : \E e : Writes(tag, a, level, v, e)
        BY <3>1, Zenon DEF Written
      <4>1. PICK e : Writes(tag, a, level, v, e)
        BY <4>0
      <4> QED BY <1>1, <1>5, <4>1, HypGrows DEF IInv
    <3> QED BY <3>1, TableWrites DEF IInv
  <2> QED BY <1>1, <2>1 DEF Work
<1> DEFINE Q == pt_pages["map_hyp"]
           p == Work("map_hyp")[i]
           base == root["map_hyp"]
<1>6. ASSUME cursor.map = "map_hyp"
      PROVE  /\ i \in DOMAIN Work("map_hyp")
             /\ Done("map_hyp", i) => Mapped(pte, base, Q, p)
             /\ \E j \in DOMAIN Q : Q[j] = p
  <2>1. i \in DOMAIN Work("map_hyp")
    BY <1>5, <1>6
  <2> QED BY <1>1, <2>1, HypItems DEF HypDoneInv, IInv
<1>7. p.level \in 0 .. TopLevel \/ cursor.map # "map_hyp"
  <2> SUFFICES ASSUME cursor.map = "map_hyp"  PROVE p.level \in 0 .. TopLevel
    OBVIOUS
  <2>1. i \in DOMAIN Work("map_hyp") /\ "map_hyp" \in MapNames(cfg)
    BY <1>6 DEF MapNames
  <2>2. GoodPage(p)
    BY <2>1, WorksGood, GoodPlaces DEF IInv
  <2> HIDE DEF p
  <2> QED BY <2>2 DEF GoodPage
<1>8. cursor.map = "map_hyp" /\ i = cursor.item => Current = p
  BY DEF Current
<1> HIDE DEF Q, p
<1>9. cursor.map = "map_hyp" /\ Mapped(pte', base, Q, p)
  <2>1. CASE FollowEntry
    <3>1. pte' = pte /\ cursor.level > Current.level /\ Slot \in DOMAIN pte
      BY <2>1, Zenon DEF FollowEntry
    <3>2. \/ pte[Slot].leaf /\ ToNextPage
          \/ cursor' = [cursor EXCEPT !.level = @ - 1, !.table = pte[Slot].next] /\ UNCHANGED stage
      BY <2>1, Zenon DEF FollowEntry
    <3>3. CASE pte[Slot].leaf /\ ToNextPage
      <4>1. cursor.map = "map_hyp" /\ (Done("map_hyp", i) \/ i = cursor.item)
        BY <1>3, <3>3
      <4>2. CASE Done("map_hyp", i)
        BY <1>6, <3>1, <4>1, <4>2
      <4>3. CASE i = cursor.item
        <5>1. Mapped(pte, base, Q, Current)
          BY <1>1, <3>1, <3>3, <4>1, HypBlocked DEF Q
        <5> QED BY <1>8, <3>1, <4>1, <4>3, <5>1
      <4> QED BY <4>1, <4>2, <4>3
    <3>4. CASE cursor' = [cursor EXCEPT !.level = @ - 1, !.table = pte[Slot].next] /\ UNCHANGED stage
      <4>1. cursor'.map = cursor.map /\ cursor'.item = cursor.item
        BY <1>1, <3>4 DEF IInv, CursorInv
      <4>2. cursor.map = "map_hyp" /\ Done("map_hyp", i)
        BY <1>4, <3>4, <4>1
      <4> QED BY <1>6, <3>1, <4>2
    <3> QED BY <3>2, <3>3, <3>4
  <2>2. CASE CreateTable
    <3>1. PICK a, e : /\ pte' = Put(pte, Slot, e) /\ Slot \notin DOMAIN pte
                      /\ cursor' = [cursor EXCEPT !.level = @ - 1, !.table = a] /\ UNCHANGED stage
      BY <2>2, Zenon DEF CreateTable
    <3>2. cursor'.map = cursor.map /\ cursor'.item = cursor.item
      BY <1>1, <3>1 DEF IInv, CursorInv
    <3>3. cursor.map = "map_hyp" /\ Done("map_hyp", i)
      BY <1>4, <3>1, <3>2
    <3>4. Mapped(pte, base, Q, p)
      BY <1>6, <3>3
    <3> HIDE DEF base
    <3> QED BY <3>1, <3>3, <3>4, MappedUnused
  <2>3. CASE CreateLeaf
    <3> DEFINE e == [next |-> Current.phys, leaf |-> TRUE, by |-> Current.name]
    <3>1. pte' = Put(pte, Slot, e) /\ ToNextPage /\ cursor.level = Current.level
      BY <2>3, Zenon DEF CreateLeaf
    <3>2. cursor.map = "map_hyp" /\ (Done("map_hyp", i) \/ i = cursor.item)
      BY <1>3, <3>1
    <3>3. PICK at, tb : Here(at, tb)
      BY <1>1, HereWeAre
    <3>4. e.leaf /\ e.next = Current.phys
      OBVIOUS
    <3> HIDE DEF e
    <3>5. CASE i = cursor.item
      <4>1. PICK j \in DOMAIN Q : Q[j] = Current
        BY <1>6, <1>8, <3>2, <3>5
      <4>2. Mapped(Put(pte, Slot, e), root[cursor.map], Q, Current)
        BY <3>1, <3>3, <3>4, <4>1, LeafMapsOwn
      <4> QED BY <1>8, <3>1, <3>2, <3>5, <4>2
    <3>6. CASE Done("map_hyp", i)
      <4>1. Mapped(pte, root[cursor.map], Q, p) /\ p.level \in 0 .. TopLevel
        BY <1>6, <1>7, <3>2, <3>6
      <4>2. \E j \in DOMAIN Q : Q[j] = Current
        <5>1. cursor.item \in DOMAIN Work("map_hyp") /\ cursor.item \in Int
          <6>1. cursor.map \in MapNames(cfg) /\ cursor.item \in DOMAIN Works[cursor.map]
            BY <3>3, Zenon DEF Here
          <6>2. cursor.item \in Int
            BY <1>1 DEF IInv, CursorInv
          <6> QED BY <3>2, <6>1, <6>2, WorksGood DEF IInv
        <5>2. i < cursor.item
          BY <1>1, <3>6, HypNotDone
        <5>3. i \in Int /\ Len(pages["map_hyp"]) \in Int
          <6>1. GoodPages(pages["map_hyp"])
            BY DEF IInv, PagesInv, MapNames
          <6>2. i \in Int
            BY <1>6, <3>2, HypItems DEF IInv
          <6>3. Len(pages["map_hyp"]) \in Nat
            BY <6>1, GoodPlaces
          <6> QED BY <6>2, <6>3
        <5> DEFINE n == Len(pages["map_hyp"])
                   k == cursor.item
        <5>4. k > n
          <6>1. i < k /\ i > n /\ i \in Int /\ n \in Int /\ k \in Int
            BY <5>1, <5>2, <5>3
          <6> HIDE DEF n, k
          <6> QED BY <6>1
        <5>5. \E j \in DOMAIN Q : Q[j] = Work("map_hyp")[cursor.item]
          BY <5>1, <5>4, HypItems DEF IInv, Q
        <5> QED BY <3>2, <5>5 DEF Current
      <4>3. Mapped(Put(pte, Slot, e), root[cursor.map], Q, p)
        BY <3>1, <3>3, <3>4, <4>1, <4>2, LeafMaps
      <4> QED BY <3>1, <3>2, <4>3
    <3> QED BY <3>2, <3>5, <3>6
  <2> QED BY <2>1, <2>2, <2>3, Zenon DEF Table
<1> QED BY <1>5, <1>9 DEF Q, p

LEMMA HypDoneStep ==
  ASSUME IInv, IInv', WalkInv, OnceInv, HypDoneInv, [Next]_vars
  PROVE  HypDoneInv'
<1> SUFFICES ASSUME cfg'.two_stage, cfg'.paging, stage' \in {"tables", "finished"},
                    NEW i \in DOMAIN Work("map_hyp")', i > Len(pages'["map_hyp"]), Done("map_hyp", i)'
             PROVE  Mapped(pte', root'["map_hyp"], pt_pages'["map_hyp"], Work("map_hyp")'[i])
  BY Zenon DEF HypDoneInv, Mapped, MappedAt, Path, Index, LevelSize, TopLevel, SameWalk
<1>1. CASE Table
  <2>1. UNCHANGED <<cfg, pages, root>>
    BY <1>1, Zenon DEF Table, FollowEntry, CreateTable, CreateLeaf
  <2> QED BY <1>1, <2>1, HypDoneTable
<1>2. CASE Placing
  BY <1>2, PlacingChanges
<1>3. CASE StartTables
  <2>1. UNCHANGED <<cfg, pages, pt_pages>> /\ ToFirstPage(TableMaps)
    BY <1>3, Zenon DEF StartTables
  <2> DEFINE tm == TableMaps
             hyp == "map_hyp"
  <2>2. PICK z \in DOMAIN tm : tm[z] = hyp /\ \A a \in DOMAIN tm : a <= z
    BY <2>1, HypLast DEF IInv
  <2>3. DOMAIN tm \subseteq Int /\ tm' = tm /\ tm \in Seq(MapNames(cfg))
    BY <2>1, HypLast, TableMapsExist DEF IInv, TableMaps, StageOneMaps
  <2>4. ~ NoPlace(hyp) /\ i \in Int /\ i >= 1
    <3>1. NoPlace(hyp) => Work(hyp) = << >>
      BY <2>1 DEF NoPlace, Work
    <3>2. Work(hyp)' = Work(hyp)
      BY <2>1 DEF Work
    <3>3. i \in DOMAIN Work(hyp) /\ cfg.two_stage
      BY <2>1, <3>2
    <3>4. i \in Int /\ i >= 1
      BY <3>3, HypItems DEF IInv
    <3> QED BY <3>1, <3>3, <3>4
  <2> HIDE DEF tm
  <2>5. \/ stage' = "finished" /\ \A k \in DOMAIN tm : NoPlace(tm[k])
        \/ \E k \in DOMAIN tm : stage' = "tables" /\ cursor' = StartOf(tm[k], 1)
    <3>1. ToFirstPage(tm)
      BY <2>1 DEF tm
    <3> QED BY <2>3, <3>1, FirstStart DEF NoPlace
  <2>6. CASE stage' = "finished" /\ \A k \in DOMAIN tm : NoPlace(tm[k])
    BY <2>2, <2>4, <2>6
  <2>7. CASE \E k \in DOMAIN tm : stage' = "tables" /\ cursor' = StartOf(tm[k], 1)
    <3>1. PICK k \in DOMAIN tm : stage' = "tables" /\ cursor' = StartOf(tm[k], 1)
      BY <2>7
    <3>2. CallsInv' /\ cfg'.paging /\ cfg'.two_stage
      BY DEF IInv
    <3>3. i < cursor'.item /\ cursor'.item = 1
      <4>1. ~ Before(hyp, cursor.map)'
        BY <2>1, <2>2, <2>3, HypLast DEF Before, tm, IInv
      <4> QED BY <3>1, <4>1 DEF Done, StartOf
    <3> QED BY <2>4, <3>3
  <2> QED BY <2>5, <2>6, <2>7
<1>4. CASE UNCHANGED vars
  <2>1. UNCHANGED <<cfg, pages, pt_pages, root, pte, stage, cursor>>
    BY <1>4, Zenon DEF vars, tableVars
  <2>2. Work("map_hyp")' = Work("map_hyp") /\ (Done("map_hyp", i)' <=> Done("map_hyp", i))
    BY <2>1 DEF Work, Done, Before, TableMaps, StageOneMaps
  <2> QED BY <2>1, <2>2 DEF HypDoneInv
<1> QED BY <1>1, <1>2, <1>3, <1>4, Zenon DEF Next, Stop, Placing

-----------------------------------------------------------------------------
(***************************************************************************)
(* What the invariants say when all tables are built.                      *)
(***************************************************************************)
\* An address that a walk tells apart, and that a page of its level may have.
LEMMA AlignedStart ==
  ASSUME NEW x \in 0 .. LevelSize(Levels) - 1, NEW l \in 0 .. Levels, x % LevelSize(l) = 0
  PROVE  BlockStart(x, l) = x /\ x \in Int
<1> DEFINE n == LevelSize(Levels)
           r == x % LevelSize(l)
<1>1. n \in Nat \ {0}
  BY PageTablesAssumption
<1>2. x % n = x /\ x \in Int
  <2> HIDE DEF n
  <2>1. x \in Int /\ 0 <= x /\ x <= n - 1
    BY <1>1 DEF n
  <2> QED BY <1>1, <2>1
<1>3. BlockStart(x, l) = (x % n) - r
  BY DEF BlockStart
<1> HIDE DEF n, r
<1>4. r = 0
  BY DEF r
<1> QED BY <1>2, <1>3, <1>4

\* What lies in such a page.
LEMMA CoveredBlock ==
  ASSUME NEW x \in 0 .. LevelSize(Levels) - 1, NEW l \in 0 .. TopLevel, x % LevelSize(l) = 0,
         NEW a \in Int, x <= a, a <= x + LevelSize(l) - 1
  PROVE  /\ SameWalk(a, x, l) /\ a \in 0 .. LevelSize(Levels) - 1
<1>1. l \in 0 .. Levels /\ Levels \in 0 .. Levels
  BY LevelSizes, PageTablesAssumption DEF TopLevel
<1>2. BlockStart(x, l) = x /\ x \in Int
  BY <1>1, AlignedStart
<1>3. SameWalk(a, x, l)
  BY <1>1, <1>2, SameIndices
<1> DEFINE n == LevelSize(Levels)
           u == LevelSize(l)
           b == BlockStart(x, Levels)
<1>4. b \in Int /\ n \in Nat \ {0} /\ u \in Nat \ {0} /\ x + u <= b + n
  BY <1>1, <1>2, BlocksNested
<1>5. b = 0
  <2>1. x % n \in Int
    BY <1>2, <1>4
  <2> QED BY <2>1 DEF BlockStart
<1> HIDE DEF n, u, b
<1>6. 0 <= x /\ x <= a /\ a <= x + u - 1
  BY <1>4 DEF n, u
<1>7. a \in 0 .. n - 1
  BY <1>2, <1>4, <1>5, <1>6
<1> QED BY <1>3, <1>7 DEF n

\* The offset of an address in the block that it shares with an aligned one.
LEMMA BlockOffset ==
  ASSUME NEW x \in 0 .. LevelSize(Levels) - 1, NEW l \in 0 .. TopLevel, x % LevelSize(l) = 0,
         NEW a \in 0 .. LevelSize(Levels) - 1, SameWalk(x, a, l)
  PROVE  x + (a % LevelSize(l)) = a
<1> DEFINE n == LevelSize(Levels)
           u == LevelSize(l)
<1>1. l \in 0 .. Levels /\ n \in Nat \ {0} /\ u \in Nat \ {0}
  BY LevelSizes, PageTablesAssumption DEF TopLevel
<1>2. BlockStart(x, l) = x /\ x \in Int
  BY <1>1, AlignedStart
<1>3. a \in Int /\ 0 <= a /\ a <= n - 1
  <2> HIDE DEF n
  <2> QED BY <1>1 DEF n
<1>4. BlockStart(a, l) = x
  BY <1>1, <1>2, <1>3, SameBlock
<1>5. (a % n) - (a % u) = x
  BY <1>4 DEF BlockStart
<1> HIDE DEF n, u
<1>6. a % n = a /\ a % u \in Int
  BY <1>1, <1>3
<1>7. x + (a % u) = a
  BY <1>2, <1>3, <1>5, <1>6
<1> QED BY <1>7 DEF u

\* Where the pages that were added with tables are in the list of map_hyp.
LEMMA HypPlaces ==
  ASSUME PagesInv, cfg.two_stage, NEW j \in DOMAIN pt_pages["map_hyp"]
  PROVE  \E i \in DOMAIN Work("map_hyp") : i > Len(pages["map_hyp"]) /\ Work("map_hyp")[i] = pt_pages["map_hyp"][j]
<1> DEFINE s == pages["map_hyp"]
           w == pt_pages["map_hyp"]
<1>1. GoodPages(s) /\ GoodPages(w)
  BY DEF PagesInv, MapNames
<1>2. PICK S : s \in Seq(S)
  BY <1>1 DEF GoodPages
<1>3. PICK W : w \in Seq(W)
  BY <1>1 DEF GoodPages
<1>4. Work("map_hyp") = s \o w
  BY DEF Work
<1>5. j \in DOMAIN w
  OBVIOUS
<1> HIDE DEF s, w
<1>6. s \in Seq(S \cup W) /\ w \in Seq(S \cup W)
  BY <1>2, <1>3
<1> DEFINE n == Len(s)
<1>7. n \in Nat /\ DOMAIN w = 1 .. Len(w) /\ Len(w) \in Nat
  BY <1>6
<1>8. n + j \in DOMAIN (s \o w) /\ (s \o w)[n + j] = w[j] /\ n + j > n
  BY <1>5, <1>6, <1>7
<1> QED BY <1>4, <1>8 DEF s, w

\* An address in an identity page of map_hyp is translated to itself.
LEMMA CoveredMaps ==
  ASSUME IInv, WalkInv, IdentityInv, HypDoneInv, stage = "finished", cfg.paging, cfg.two_stage, WalkReaches,
         NEW a \in Int, CoveredBy(pt_pages["map_hyp"], a)
  PROVE  MapsToItself(a)
<1> DEFINE Q == pt_pages["map_hyp"]
           base == root["map_hyp"]
<1>1. PICK j \in DOMAIN Q : Covers(Q[j], a)
  BY DEF CoveredBy
<1>2. /\ \A i \in DOMAIN Q : /\ IdentityPage(Q[i]) /\ Q[i].lin \in 0 .. LevelSize(Levels) - 1
                             /\ Q[i].level \in 0 .. TopLevel
  <2>1. "map_hyp" \in MapNames(cfg)
    BY DEF MapNames
  <2>2. \A i \in DOMAIN Q : GoodPage(Q[i])
    BY <2>1, GoodPlaces DEF IInv, PagesInv
  <2>3. \A i \in DOMAIN Q : Q[i].level \in 0 .. TopLevel
    BY <2>2, Zenon DEF GoodPage
  <2>4. \A i \in DOMAIN Q : IdentityPage(Q[i])
    BY DEF IdentityInv
  <2>5. \A i \in DOMAIN Q : Q[i].lin \in 0 .. LevelSize(Levels) - 1
    BY Zenon DEF WalkReaches, ToSet
  <2> QED BY <2>3, <2>4, <2>5
<1> DEFINE q == Q[j]
<1>3. Mapped(pte, base, Q, q)
  <2>1. PICK i \in DOMAIN Work("map_hyp") : i > Len(pages["map_hyp"]) /\ Work("map_hyp")[i] = q
    BY HypPlaces DEF IInv
  <2>2. Done("map_hyp", i)
    BY DEF Done
  <2> QED BY <2>1, <2>2 DEF HypDoneInv
<1>3a. PICK k \in q.level .. TopLevel : \E tb : MappedAt(pte, base, Q, q, k, tb)
  BY <1>3, Zenon DEF Mapped
<1>4. PICK tb : MappedAt(pte, base, Q, q, k, tb)
  BY <1>3a
<1> DEFINE s == <<tb[k], Index(q.lin, k)>>
<1>5. PICK h \in DOMAIN Q : Q[h].level = k /\ Q[h].phys = pte[s].next /\ SameWalk(Q[h].lin, q.lin, k)
  BY <1>4, Zenon DEF MappedAt
<1> DEFINE r == Q[h]
           low == q.level
<1>6. /\ q.lin \in 0 .. LevelSize(Levels) - 1 /\ low \in 0 .. TopLevel
      /\ q.lin % LevelSize(low) = 0 /\ q.lin <= a /\ a <= q.lin + LevelSize(low) - 1
      /\ r.lin \in 0 .. LevelSize(Levels) - 1 /\ r.lin % LevelSize(k) = 0 /\ r.phys = r.lin
  BY <1>1, <1>2, <1>5 DEF IdentityPage, Covers
<1>7. k \in low .. TopLevel
  OBVIOUS
<1>8. Path(pte, base, q.lin, k, tb) /\ s \in DOMAIN pte /\ pte[s].leaf
  BY <1>4, Zenon DEF MappedAt
<1> HIDE DEF q, r, Q
<1>9. SameWalk(a, q.lin, low) /\ a \in 0 .. LevelSize(Levels) - 1
  <2> DEFINE x == q.lin
  <2>1. x \in 0 .. LevelSize(Levels) - 1 /\ x % LevelSize(low) = 0 /\ x <= a /\ a <= x + LevelSize(low) - 1
    BY <1>6
  <2> HIDE DEF x, low
  <2>2. SameWalk(a, x, low) /\ a \in 0 .. LevelSize(Levels) - 1
    BY <1>6, <2>1, CoveredBlock
  <2> QED BY <2>2 DEF x, low
<1> HIDE DEF low
<1>10. k \in 0 .. TopLevel /\ \A i \in k .. TopLevel : i \in low .. TopLevel
  BY <1>6, <1>7
<1>11. SameWalk(a, q.lin, k)
  BY <1>9, <1>10 DEF SameWalk
<1>12. SameWalk(a, q.lin, k + 1) /\ Index(a, k) = Index(q.lin, k)
  <2>1. k \in k .. TopLevel /\ \A i \in k + 1 .. TopLevel : i \in k .. TopLevel
    BY <1>10
  <2> QED BY <1>11, <2>1, Zenon DEF SameWalk
<1>13. Path(pte, base, a, k, tb)
  BY <1>8, <1>12, PathMoves
<1>14. \A x \in DOMAIN pte : x[1] # None
  <2>1. PICK at : Tree(at, pte, root, Works, Frames(physical))
    BY DEF WalkInv, TreeInv
  <2>2. \A x \in DOMAIN pte : x[1] \in Nat
    BY <2>1, Zenon DEF Tree
  <2> QED BY <2>2 DEF None
<1>15. <<tb[k], Index(a, k)>> = s
  BY <1>12
<1>16. Translate("map_hyp", a) = pte[s].next + (a % LevelSize(k))
  BY <1>8, <1>10, <1>13, <1>14, <1>15, TranslateLeaf
<1>17. SameWalk(r.lin, a, k)
  BY <1>5, <1>11 DEF SameWalk, r
<1>18. r.lin + (a % LevelSize(k)) = a
  <2> DEFINE x == r.lin
  <2>1. x \in 0 .. LevelSize(Levels) - 1 /\ x % LevelSize(k) = 0 /\ SameWalk(x, a, k)
    BY <1>6, <1>17
  <2> HIDE DEF x
  <2>2. x + (a % LevelSize(k)) = a
    BY <1>9, <1>10, <2>1, BlockOffset
  <2> QED BY <2>2 DEF x
<1>19. pte[s].next = r.lin
  BY <1>5, <1>6 DEF r
<1> QED BY <1>16, <1>18, <1>19 DEF MapsToItself

\* The tables that a walk consults are those of a path, as far as it comes.
LEMMA WalkIsPath ==
  ASSUME NEW m, NEW va, \A s \in DOMAIN pte : s[1] # None
  PROVE  \A k \in 0 .. TopLevel :
            LET t == WalkTables(m, va)[k]
            IN  t = None \/ \E tb : Path(pte, root[m], va, k, tb) /\ tb[k] = t
<1> DEFINE w == WalkTables(m, va)
           base == root[m]
           S == {k \in 0 .. TopLevel : w[k] = None \/ \E tb : Path(pte, base, va, k, tb) /\ tb[k] = w[k]}
<1>1. w[TopLevel] = base /\ \A k \in 0 .. TopLevel - 1 : w[k] = Below(w[k + 1], va, k + 1)
  BY WalkTablesAre
<1> HIDE DEF w, base
<1>2. TopLevel \in Nat
  BY LevelSizes
<1>3. TopLevel \in S
  BY <1>1, <1>2, StartPath
<1>4. ASSUME NEW k \in 0 + 1 .. TopLevel, k \in S  PROVE k - 1 \in S
  <2> DEFINE x == <<w[k], Index(va, k)>>
  <2>1. k \in 1 .. TopLevel /\ k - 1 \in 0 .. TopLevel - 1 /\ k - 1 \in 0 .. TopLevel /\ (k - 1) + 1 = k
    BY <1>2
  <2>2. w[k - 1] = Below(w[k], va, k)
    BY <1>1, <2>1
  <2>3. CASE x \in DOMAIN pte /\ ~ pte[x].leaf
    <3>1. w[k] # None
      BY <2>3
    <3>2. PICK tb : Path(pte, base, va, k, tb) /\ tb[k] = w[k]
      BY <1>4, <3>1
    <3>3. <<tb[k], Index(va, k)>> = x /\ w[k - 1] = pte[x].next
      BY <2>2, <2>3, <3>2 DEF Below
    <3>4. \E tc : Path(pte, base, va, k - 1, tc) /\ tc[k - 1] = pte[x].next
      <4> DEFINE t == pte[x].next
      <4>1. /\ <<tb[k], Index(va, k)>> \in DOMAIN pte /\ ~ pte[<<tb[k], Index(va, k)>>].leaf
            /\ pte[<<tb[k], Index(va, k)>>].next = t
        BY <2>3, <3>3
      <4> HIDE DEF t, x
      <4> QED BY <2>1, <3>2, <4>1, PathDown DEF t
    <3> QED BY <2>1, <3>3, <3>4
  <2>4. CASE ~ (x \in DOMAIN pte /\ ~ pte[x].leaf)
    <3>1. w[k - 1] = None
      BY <2>2, <2>4 DEF Below
    <3> QED BY <2>1, <3>1
  <2> QED BY <2>3, <2>4
<1>5. 0 .. TopLevel \subseteq S
  <2> HIDE DEF S
  <2>1. 0 \in 0 .. TopLevel
    BY <1>2
  <2> QED BY <1>2, <1>3, <1>4, <2>1, Downward
<1> QED BY <1>5 DEF w, base

\* The tables of map_os lie in identity pages of map_hyp ...
LEMMA TablesAreCovered ==
  ASSUME IInv, WalkInv, CoveredInv, stage = "finished", cfg.two_stage,
         NEW t \in TablesOf("map_os") \ {root["map_os"]}
  PROVE  t \in Int /\ CoveredBy(pt_pages["map_hyp"], t)
<1>1. PICK p \in ToSet(Work("map_os")) : t \in Range(WalkTables("map_os", p.lin)) /\ t # None
  BY DEF TablesOf
<1> DEFINE va == p.lin
           w == WalkTables("map_os", va)
           base == root["map_os"]
<1>2. /\ DOMAIN w = 0 .. TopLevel /\ w[TopLevel] = base
      /\ \A k \in 0 .. TopLevel - 1 : w[k] = Below(w[k + 1], va, k + 1)
  BY WalkTablesAre
<1>3. \A s \in DOMAIN pte : s[1] # None
  <2>1. PICK at : Tree(at, pte, root, Works, Frames(physical))
    BY DEF WalkInv, TreeInv
  <2>2. \A s \in DOMAIN pte : s[1] \in Nat
    BY <2>1, Zenon DEF Tree
  <2> QED BY <2>2 DEF None
<1>4. \A k \in 0 .. TopLevel : w[k] = None \/ \E tb : Path(pte, base, va, k, tb) /\ tb[k] = w[k]
  BY <1>3, WalkIsPath
<1>5. PICK k \in 0 .. TopLevel : t = w[k]
  <2> HIDE DEF w
  <2> QED BY <1>1, <1>2 DEF Range, w
<1> HIDE DEF w
<1>6. k \in 0 .. TopLevel - 1 /\ k + 1 \in 0 .. TopLevel
  BY <1>2, <1>5, LevelSizes
<1> DEFINE x == <<w[k + 1], Index(va, k + 1)>>
<1>7. x \in DOMAIN pte /\ pte[x].next = t
  BY <1>1, <1>2, <1>5, <1>6 DEF Below
<1>8. w[k + 1] # None
  BY <1>3, <1>7
<1>9. PICK tb : Path(pte, base, va, k + 1, tb) /\ tb[k + 1] = w[k + 1]
  BY <1>4, <1>6, <1>8
<1>10. <<tb[k + 1], Index(va, k + 1)>> = x
  BY <1>9
<1>11. WalkCovered(pte, base, pt_pages["map_hyp"])
  BY DEF CoveredInv
<1> HIDE DEF x
<1>12. CoveredBy(pt_pages["map_hyp"], t)
  BY <1>6, <1>7, <1>9, <1>10, <1>11 DEF WalkCovered
<1>13. t \in Int
  BY <1>7 DEF IInv, EntriesInv
<1> QED BY <1>12, <1>13

\* ... and so do the frames of its pages.
LEMMA FramesAreCovered ==
  ASSUME IInv, WalkInv, CoveredInv, stage = "finished", cfg.two_stage, cfg.paging,
         NEW i \in DOMAIN Work("map_os"), Alone("map_os", i)
  PROVE  Work("map_os")[i].phys \in Int /\ CoveredBy(pt_pages["map_hyp"], Work("map_os")[i].phys)
<1> DEFINE p == Work("map_os")[i]
           l == p.level
           base == root["map_os"]
<1>1. "map_os" \in ToSet(StageOneMaps)
  <2>1. cfg.maps \in Seq(ToSet(cfg.maps))
    BY GeneratorAssumption DEF IInv, CallsInv
  <2>2. 1 \in DOMAIN StageOneMaps /\ StageOneMaps[1] = "map_os"
    BY <2>1 DEF StageOneMaps
  <2> QED BY <2>2 DEF ToSet
<1>2. Reached(pte, base, p)
  BY <1>1 DEF WalkInv, WalkedInv, Done
<1>3. GoodPage(p)
  BY <1>1, MapsApart, WorksGood, GoodPlaces DEF IInv
<1> HIDE DEF p
<1>4. l \in 0 .. TopLevel /\ p.phys \in Int
  BY <1>3 DEF GoodPage
<1>5. PICK tb : /\ Path(pte, base, p.lin, l, tb) /\ <<tb[l], Index(p.lin, l)>> \in DOMAIN pte
                /\ pte[<<tb[l], Index(p.lin, l)>>].next = p.phys
  BY <1>2, Zenon DEF Reached
<1>6. WalkCovered(pte, base, pt_pages["map_hyp"])
  BY DEF CoveredInv
<1> HIDE DEF l
<1>7. CoveredBy(pt_pages["map_hyp"], p.phys)
  BY <1>4, <1>5, <1>6 DEF WalkCovered
<1> QED BY <1>4, <1>7 DEF p

\* The invariant of two stages.
StagesInv == OnceInv /\ FreshInv /\ IdentityInv /\ CoveredInv /\ HypDoneInv

\* In every state of a run the names that the tables derive are new, what the walks of
\* map_os come to has its identity page, and those that are done are mapped.
THEOREM StagesInvariant == PagesAreNamedOnce => (Spec => []StagesInv)
<1> SUFFICES ASSUME PagesAreNamedOnce  PROVE Spec => []StagesInv
  OBVIOUS
<1>1. Init => StagesInv
  <2> SUFFICES ASSUME Init  PROVE StagesInv
    OBVIOUS
  <2>1. OnceInv
    BY OnceInit
  <2>2. PICK t \in Tests : InitOf(t)
    BY DEF Init
  <2>3. stage = "addresses" /\ cfg = t /\ pt_pages = [m \in MapNames(t) |-> << >>]
    BY <2>2 DEF InitOf
  <2>4. FreshInv /\ CoveredInv /\ HypDoneInv
    BY <2>3 DEF FreshInv, CoveredInv, HypDoneInv
  <2>5. IdentityInv
    BY <2>3 DEF IdentityInv, MapNames
  <2> QED BY <2>1, <2>4, <2>5 DEF StagesInv
<1>2. IInv /\ IInv' /\ WalkInv /\ StagesInv /\ [Next]_vars => StagesInv'
  <2> SUFFICES ASSUME IInv, IInv', WalkInv, StagesInv, [Next]_vars  PROVE StagesInv'
    OBVIOUS
  <2>1. OnceInv /\ FreshInv /\ IdentityInv /\ CoveredInv /\ HypDoneInv
    BY DEF StagesInv
  <2> QED BY <2>1, OnceStep, FreshStep, IdentityStep, CoveredStep, HypDoneStep, Zenon DEF StagesInv
<1> QED BY <1>1, <1>2, InductiveInvariant, WalkInvariant, PTL DEF Spec

\* With two stages map_hyp maps every table of map_os, and the frame of every page of it
\* that is alone, to itself.
THEOREM TwoStagesAreComplete == PagesAreNamedOnce => (Spec => []TwoStageComplete)
<1> SUFFICES ASSUME PagesAreNamedOnce  PROVE Spec => []TwoStageComplete
  OBVIOUS
<1>1. IInv /\ WalkInv /\ StagesInv => TwoStageComplete
  <2> SUFFICES ASSUME IInv, WalkInv, StagesInv, stage = "finished", cfg.paging, cfg.two_stage, WalkReaches
               PROVE  /\ \A t \in TablesOf("map_os") \ {root["map_os"]} : MapsToItself(t)
                      /\ \A i \in DOMAIN Work("map_os") :
                            Alone("map_os", i) => MapsToItself(Work("map_os")[i].phys)
    BY Zenon DEF TwoStageComplete
  <2>1. CoveredInv /\ IdentityInv /\ HypDoneInv
    BY DEF StagesInv
  <2>2. \A t \in TablesOf("map_os") \ {root["map_os"]} : MapsToItself(t)
    BY <2>1, TablesAreCovered, CoveredMaps
  <2>3. \A i \in DOMAIN Work("map_os") : Alone("map_os", i) => MapsToItself(Work("map_os")[i].phys)
    BY <2>1, FramesAreCovered, CoveredMaps
  <2> QED BY <2>2, <2>3
<1> QED BY <1>1, InductiveInvariant, WalkInvariant, StagesInvariant, PTL
=============================================================================
