---------------------------- MODULE MCLinearScan ----------------------------
(***************************************************************************)
(* Small instance: three general-purpose registers and two for floating    *)
(* point.  The tests are lists of up to four instructions; an instruction  *)
(* reads values of those before it, or values nobody defines.              *)
(***************************************************************************)
EXTENDS LinearScan

MCRegType == [r \in {"t1", "t2", "a0"} |-> "gpr"] @@ [r \in {"fa0", "fa1"} |-> "fpr"]

\* Ids are tuples: casts get theirs from the legalizer.
Use(n, type) == [name |-> <<n>>, reg |-> NoRegister, type |-> type]
Op(id, dest, reg, type, uses, clobbers) ==
    [kind |-> "op", id |-> <<id>>, dest |-> dest, reg |-> reg, type |-> type, uses |-> uses, clobbers |-> clobbers]
Mark(kind, id) == [Op(id, "none", NoRegister, "gpr", << >>, {}) EXCEPT !.kind = kind]
Value(id, uses) == Op(id, "virtual", NoRegister, "gpr", uses, {})
Float(id, uses) == Op(id, "virtual", NoRegister, "fpr", uses, {})
Hard(id, r, uses) == Op(id, "hard", r, "gpr", uses, {})
Macro(id, uses, clobbers) == Op(id, "none", NoRegister, "gpr", uses, clobbers)
G(n) == Use(n, "gpr")
F(n) == Use(n, "fpr")

\* Two values, a call or a third, and reads of them in every combination.
Straight ==
    { <<first, Value("b", << >>), third, Value("d", u4), Macro("e", u5, {})>> :
        first \in {Value("a", << >>), Hard("a", "a0", << >>)},
        third \in {Value("c", <<G("a")>>), Hard("c", "t2", << >>), Hard("c", "a0", <<G("b")>>),
                   Macro("c", << >>, {"t1", "a0"}), Macro("c", <<G("b")>>, {"t1"})},
        u4 \in {<< >>, <<G("a")>>, <<G("b")>>},
        u5 \in {<<G("a"), G("b")>>, <<G("a"), G("d")>>, <<G("b"), G("d")>>, <<G("b")>>} }

\* Values that nobody defines, and values read in the other type.
Mixed ==
    { <<Value("a", u1), Float("b", << >>), Value("c", u3), Macro("d", u4, cl), Value("e", u5)>> :
        u1 \in {<< >>, <<F("x"), G("x")>>},
        u3 \in {<<F("a")>>, <<G("b"), F("b")>>, <<G("y")>>},
        u4 \in {<< >>, <<F("c"), F("b")>>},
        cl \in {{"t1"}, {"t1", "t2", "fa0"}},
        u5 \in {<<G("a"), F("b")>>, <<G("c"), G("y")>>} }

\* A hard-coded value that is read in the other type, by a cast that names its
\* register: its interval may end before the cast.
ByRegister ==
    { <<Hard("a", "a0", << >>), Value("b", << >>), Macro("c", <<F("a"), G("b")>>, {}), Macro("d", u4, {})>> :
        u4 \in {<< >>, <<G("a")>>, <<F("a"), F("b")>>} }

\* Labels: a fault label before an instruction that needs loads and casts, a
\* place in the test, two fault labels in a row, an id that is there twice.
Labelled ==
    { <<Value("a", << >>), Mark(k1, "l"), i2, i3, Macro("d", <<G("a"), G("b")>>, {})>> :
        k1 \in {"label", "fault_label"},
        i2 \in {Value("b", <<F("a"), G("x")>>), Value("b", <<F("a")>>), Mark("fault_label", "m"), Mark("label", "a")},
        i3 \in {Value("c", <<G("y"), F("a")>>), Mark("label", "c"), Float("c", <<F("a")>>)} }
      \cup { <<Macro("a", << >>, {}), Value("b", <<G("a")>>)>> }

\* A value that lives into, or through, a privilege block.
Privileged ==
    { <<Value("a", << >>), Value("b", << >>), Value("c", << >>), Mark("start", "s"), i5, 
        [Mark("end", "t") EXCEPT !.clobbers = {"t1"}], Macro("f", u7, {})>> :
        i5 \in {Value("d", <<G("c")>>), Macro("d", <<G("b")>>, {}), Hard("d", "a0", <<G("a")>>)},
        u7 \in {<<G("a"), G("b")>>, <<G("a")>>, <<G("d")>>} }

MCTests == Straight \cup Mixed \cup ByRegister \cup Labelled \cup Privileged
=============================================================================
