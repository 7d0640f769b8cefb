-------------------------- MODULE AddrGen_proofs --------------------------
(***************************************************************************)
(* Theorems about the address generator: the invariant SpaceInv of an      *)
(* address space, which its two operations keep.  The lists of the         *)
(* clusters are what the generator looks at; the invariant says that they  *)
(* hold everything that was granted or reserved, cluster by cluster, and   *)
(* that a piece of a cluster's segment reaches into no other cluster.      *)
(***************************************************************************)
EXTENDS AddrGen, WellFoundedInduction, TLAPS

\* A set of natural numbers that is not empty has a least element.
LEMMA LeastNatural ==
  ASSUME NEW T \in SUBSET Nat, T # {}
  PROVE  \E x \in T : \A y \in T : x <= y
<1> DEFINE R == OpToRel(<, Nat)
<1>1. PICK x \in T : \A y \in T : ~ (<<y, x>> \in R)
  <2> HIDE DEF R
  <2>1. IsWellFoundedOn(R, Nat)
    BY NatLessThanWellFounded DEF R
  <2> QED BY <2>1, WFMin
<1>2. \A y \in T : x \in Nat /\ y \in Nat /\ ~ (y < x)
  BY <1>1 DEF OpToRel
<1> HIDE DEF R
<1> QED BY <1>2

ClusterIs(a, i) == /\ i = 0 \/ ClusterStart[i] <= a
                   /\ \A j \in Clusters : i < j => a < ClusterStart[j]

\* Every address has a cluster, the last one that starts at or below it.
LEMMA ClusterOfIsDefined ==
  ASSUME NEW a \in Int
  PROVE  ClusterOf(a) \in Clusters /\ ClusterIs(a, ClusterOf(a))
<1> DEFINE below == {i \in Clusters : i = 0 \/ ClusterStart[i] <= a}
           rest  == {TopCluster - i : i \in below}
<1>1. rest \in SUBSET Nat /\ rest # {}
  <2>1. 0 \in below /\ \A i \in below : TopCluster - i \in Nat
    BY ClusterAssumption DEF Clusters
  <2> QED BY <2>1
<1>2. PICK x \in rest : \A y \in rest : x <= y
  <2> HIDE DEF rest
  <2> QED BY <1>1, LeastNatural
<1>3. PICK i \in below : x = TopCluster - i
  BY <1>2
<1>4. \A j \in below : TopCluster - i <= TopCluster - j
  BY <1>2, <1>3
<1>5. ClusterIs(a, i)
  <2>1. ASSUME NEW j \in Clusters, i < j  PROVE a < ClusterStart[j]
    <3>1. j \notin below
      BY <1>4, <2>1, ClusterAssumption DEF Clusters
    <3> QED BY <3>1, ClusterAssumption DEF Clusters
  <2> QED BY <2>1 DEF ClusterIs
<1> HIDE DEF below, rest
<1>6. i \in Clusters
  BY DEF below
<1> QED BY <1>5, <1>6 DEF ClusterOf, ClusterIs

\* Clusters are in the order of their addresses.
LEMMA ClusterOfIsMonotonic ==
  ASSUME NEW a \in Int, NEW b \in Int, a <= b
  PROVE  ClusterOf(a) <= ClusterOf(b)
<1>1. ClusterIs(a, ClusterOf(a)) /\ ClusterIs(b, ClusterOf(b))
      /\ ClusterOf(a) \in Clusters /\ ClusterOf(b) \in Clusters
  BY ClusterOfIsDefined
<1> QED BY <1>1, ClusterAssumption DEF ClusterIs, Clusters

-----------------------------------------------------------------------------
(***************************************************************************)
(* The invariant of an address space with the segments Q.  Every slice of  *)
(* a segment lies in its cluster.  Every extent that was granted lies in   *)
(* one cluster, which has it in its list; of every range that was reserved *)
(* each cluster it touches has its slice.                                  *)
(***************************************************************************)
Bounds == Int \X Int

SpaceShape(sp, Q) ==
    /\ sp \in [super_cluster : {sp.super_cluster}, qualifier_size : {sp.qualifier_size},
               allocated : [Clusters -> SUBSET Bounds], grants : Seq(Bounds),
               reserved : SUBSET Bounds, available : {sp.available}]
    /\ \A q \in Q : \A i \in Clusters : \A s \in sp.super_cluster[q][i] :
          s \in Bounds /\ 0 <= s[1] /\ ClusterOf(s[1]) = i /\ ClusterOf(s[2]) = i

GrantsRecorded(sp) ==
    \A k \in DOMAIN sp.grants :
        LET g == sp.grants[k]
        IN  /\ g[1] <= g[2]
            /\ ClusterOf(g[1]) = ClusterOf(g[2])
            /\ g \in sp.allocated[ClusterOf(g[1])]

ReservedRecorded(sp) ==
    \A r \in sp.reserved : \A i \in Clusters : Touches(r, i) => Slice(r, i) \in sp.allocated[i]

SpaceInv(sp, Q) ==
    SpaceShape(sp, Q) /\ GrantsRecorded(sp) /\ ReservedRecorded(sp) /\ Disjoint(sp)

\* Four fields of a space are replaced.
LEMMA SpaceUpdate ==
  ASSUME NEW sp, NEW A, NEW C, NEW G, NEW R, NEW S, NEW U, NEW f, NEW g, NEW h, NEW k,
         sp \in [super_cluster : C, qualifier_size : S, allocated : A, grants : G,
                reserved : R, available : U]
  PROVE  LET new == [sp EXCEPT !.allocated = f, !.grants = g, !.available = h, !.qualifier_size = k]
         IN  /\ new.super_cluster = sp.super_cluster /\ new.qualifier_size = k
             /\ new.allocated = f /\ new.grants = g
             /\ new.reserved = sp.reserved /\ new.available = h
             /\ new \in [super_cluster : {new.super_cluster}, qualifier_size : {new.qualifier_size},
                         allocated : {new.allocated}, grants : {new.grants},
                         reserved : {new.reserved}, available : {new.available}]
OBVIOUS

\* A slice of a range, empty or not, has bounds.
LEMMA SliceType ==
  ASSUME NEW r \in Bounds, NEW i \in Clusters, Touches(r, i)
  PROVE  Slice(r, i) \in Bounds
<1>1. ClusterOf(r[2]) \in Clusters
  BY ClusterOfIsDefined DEF Bounds
<1>2. i # ClusterOf(r[2]) => i + 1 \in Clusters
  BY <1>1, ClusterAssumption DEF Touches, Clusters
<1>3. ClusterStart[i] \in Int /\ (i # ClusterOf(r[2]) => ClusterStart[i + 1] \in Int)
  BY <1>2, ClusterAssumption
<1> QED BY <1>3 DEF Slice, Bounds

\* A range in one cluster that overlaps a range overlaps its slice there.
LEMMA SliceIsEnough ==
  ASSUME NEW e \in Bounds, NEW r \in Bounds, NEW i \in Clusters,
         e[1] <= e[2], ClusterOf(e[1]) = i, ClusterOf(e[2]) = i,
         Overlaps(e, r)
  PROVE  Touches(r, i) /\ Overlaps(Slice(r, i), e)
<1>1. e[1] \in Int /\ e[2] \in Int /\ r[1] \in Int /\ r[2] \in Int
  BY DEF Bounds
<1>2. e[1] <= r[2] /\ r[1] <= e[2]
  BY DEF Overlaps
<1>3. Touches(r, i)
  <2>1. ClusterOf(r[1]) <= ClusterOf(e[2]) /\ ClusterOf(e[1]) <= ClusterOf(r[2])
    BY <1>1, <1>2, ClusterOfIsMonotonic
  <2> QED BY <2>1 DEF Touches
<1>4. Slice(r, i)[1] <= e[2]
  <2>1. CASE i = ClusterOf(r[1])
    BY <1>1, <1>2, <2>1 DEF Slice
  <2>2. CASE i # ClusterOf(r[1])
    <3>1. ClusterOf(r[1]) \in Clusters /\ ClusterIs(e[1], i)
      BY <1>1, ClusterOfIsDefined
    <3>2. ClusterStart[i] <= e[1] /\ ClusterStart[i] \in Int
      BY <1>3, <2>2, <3>1, ClusterAssumption DEF Touches, ClusterIs, Clusters
    <3> QED BY <1>1, <2>2, <3>2 DEF Slice
  <2> QED BY <2>1, <2>2
<1>5. e[1] <= Slice(r, i)[2]
  <2>1. CASE i = ClusterOf(r[2])
    BY <1>1, <1>2, <2>1 DEF Slice
  <2>2. CASE i # ClusterOf(r[2])
    <3>1. ClusterOf(r[2]) \in Clusters /\ ClusterIs(e[2], i)
      BY <1>1, ClusterOfIsDefined
    <3>2. i + 1 \in Clusters /\ i < i + 1
      BY <1>3, <2>2, <3>1, ClusterAssumption DEF Touches, Clusters
    <3>3. e[2] < ClusterStart[i + 1] /\ ClusterStart[i + 1] \in Int
      BY <3>1, <3>2, ClusterAssumption DEF ClusterIs
    <3> QED BY <1>1, <2>2, <3>3 DEF Slice
  <2> QED BY <2>1, <2>2
<1> QED BY <1>3, <1>4, <1>5 DEF Overlaps

\* find_ucluster returns pieces of a slice that nothing in the list touches.
LEMMA FreePiecesAreFree ==
  ASSUME NEW Q, NEW sp, SpaceShape(sp, Q), NEW c, c.qualifier \in Q,
         NEW i \in Clusters, NEW p \in FreePieces(sp, c, i)
  PROVE  /\ p \in Bounds
         /\ \E s \in sp.super_cluster[c.qualifier][i] : Within(p, s)
         /\ \A h \in sp.allocated[i] : ~ Overlaps(h, p)
<1> DEFINE hits(s)   == {h \in sp.allocated[i] : Overlaps(h, s)}
           starts(s) == {s[1]} \cup {h[2] + 1 : h \in hits(s)}
           ends(s)   == {s[2]} \cup {h[1] - 1 : h \in hits(s)}
<1>1. PICK s \in sp.super_cluster[c.qualifier][i] :
         /\ p \in starts(s) \X ends(s)
         /\ Within(p, s)
         /\ \A h \in hits(s) : ~ Overlaps(h, p)
  BY DEF FreePieces
<1>2. s \in Bounds /\ sp.allocated[i] \in SUBSET Bounds
  BY DEF SpaceShape
<1>3. p \in Bounds
  <2>1. \A x \in starts(s) \cup ends(s) : x \in Int
    BY <1>2 DEF Bounds
  <2> HIDE DEF starts, ends
  <2> QED BY <1>1, <2>1 DEF Bounds
<1>4. ASSUME NEW h \in sp.allocated[i]  PROVE ~ Overlaps(h, p)
  <2>1. h \in Bounds
    BY <1>2
  <2>2. Overlaps(h, p) => h \in hits(s)
    BY <1>1, <1>2, <1>3, <2>1 DEF Overlaps, Within, Bounds
  <2> QED BY <1>1, <2>2
<1> QED BY <1>1, <1>3, <1>4

\* An address that generate_address may return begins an extent in one
\* cluster, which nothing in the cluster's list touches.
LEMMA CandidatesAreFree ==
  ASSUME NEW Q, NEW sp, SpaceShape(sp, Q), NEW c, c.qualifier \in Q,
         c.size \in Nat \ {0}, NEW a \in Candidates(sp, c)
  PROVE  /\ a \in Nat
         /\ Extent(a, c) \in Bounds
         /\ Extent(a, c)[1] = a /\ a <= Extent(a, c)[2]
         /\ ClusterOf(a) \in Clusters
         /\ ClusterOf(Extent(a, c)[2]) = ClusterOf(a)
         /\ \A h \in sp.allocated[ClusterOf(a)] : ~ Overlaps(h, Extent(a, c))
<1>1. PICK i \in FindClusters(sp, c) : a \in Anywhere(sp, c, i) \cup Near(sp, c, i)
  BY DEF Candidates
<1>2. i \in Clusters
  BY <1>1 DEF FindClusters
<1>3. PICK p \in FreePieces(sp, c, i) : a \in Int /\ Within(Extent(a, c), p)
  <2>1. CASE a \in Anywhere(sp, c, i)
    <3>1. PICK p \in FreePieces(sp, c, i) : a \in p[1] .. (p[2] - c.size + 1)
      BY <2>1 DEF Anywhere
    <3>2. p[1] \in Int /\ p[2] \in Int
      BY <1>2, <3>1, FreePiecesAreFree DEF Bounds
    <3> QED BY <3>1, <3>2 DEF Within, Extent
  <2>2. CASE a \in Near(sp, c, i)
    BY <2>2 DEF Near, Fits
  <2> QED BY <1>1, <2>1, <2>2
<1>4. /\ p \in Bounds
      /\ \A h \in sp.allocated[i] : ~ Overlaps(h, p)
  BY <1>2, FreePiecesAreFree
<1>5. PICK s \in sp.super_cluster[c.qualifier][i] : Within(p, s)
  BY <1>2, FreePiecesAreFree
<1>6. s \in Bounds /\ 0 <= s[1] /\ ClusterOf(s[1]) = i /\ ClusterOf(s[2]) = i
  BY <1>2, <1>5 DEF SpaceShape
<1> DEFINE e == Extent(a, c)
<1>7. e \in Bounds /\ e[1] = a /\ a <= e[2] /\ p[1] <= a /\ e[2] <= p[2]
  BY <1>3 DEF Extent, Within, Bounds
<1>8. s[1] <= e[1] /\ e[2] <= s[2] /\ e[1] <= s[2] /\ s[1] <= e[2]
  BY <1>4, <1>5, <1>6, <1>7 DEF Within, Bounds
<1>9. ClusterOf(e[1]) = i /\ ClusterOf(e[2]) = i
  <2>1. e[1] \in Int /\ e[2] \in Int /\ s[1] \in Int /\ s[2] \in Int
    BY <1>6, <1>7 DEF Bounds
  <2> HIDE DEF e
  <2>2. ClusterOf(e[1]) \in Clusters /\ ClusterOf(e[2]) \in Clusters
    BY <2>1, ClusterOfIsDefined
  <2>3. /\ ClusterOf(s[1]) <= ClusterOf(e[1]) /\ ClusterOf(e[1]) <= ClusterOf(s[2])
        /\ ClusterOf(s[1]) <= ClusterOf(e[2]) /\ ClusterOf(e[2]) <= ClusterOf(s[2])
    BY <1>8, <2>1, ClusterOfIsMonotonic
  <2>4. i <= ClusterOf(e[1]) /\ ClusterOf(e[1]) <= i /\ i <= ClusterOf(e[2]) /\ ClusterOf(e[2]) <= i
    BY <1>6, <2>3
  <2>5. Clusters \subseteq Int
    BY ClusterAssumption DEF Clusters
  <2>6. \A x, y \in Int : x <= y /\ y <= x => x = y
    OBVIOUS
  <2>7. i \in Int /\ ClusterOf(e[1]) \in Int /\ ClusterOf(e[2]) \in Int
    BY <1>2, <2>2, <2>5
  <2> QED BY <2>4, <2>6, <2>7, Zenon
<1>10. ASSUME NEW h \in sp.allocated[i]  PROVE ~ Overlaps(h, e)
  <2>1. h \in Bounds
    BY <1>2 DEF SpaceShape
  <2> HIDE DEF e
  <2> QED BY <1>4, <1>7, <2>1 DEF Overlaps, Bounds
<1> HIDE DEF e
<1>11. /\ a \in Nat /\ e \in Bounds /\ e[1] = a /\ a <= e[2]
       /\ ClusterOf(a) = i /\ ClusterOf(e[2]) = ClusterOf(a)
  <2>1. 0 <= a
    BY <1>6, <1>7, <1>8 DEF Bounds
  <2> QED BY <1>3, <1>7, <1>9, <2>1
<1> QED BY <1>2, <1>10, <1>11 DEF e

\* What is allocated overlaps neither what was granted nor what was reserved.
LEMMA FreeOfGrants ==
  ASSUME NEW Q, NEW sp, SpaceInv(sp, Q), NEW e \in Bounds, e[1] <= e[2],
         ClusterOf(e[1]) = ClusterOf(e[2]),
         \A h \in sp.allocated[ClusterOf(e[1])] : ~ Overlaps(h, e)
  PROVE  /\ \A k \in DOMAIN sp.grants : ~ Overlaps(sp.grants[k], e)
         /\ \A r \in sp.reserved : ~ Overlaps(e, r)
<1>1. e[1] \in Int /\ e[2] \in Int /\ ClusterOf(e[1]) \in Clusters
  BY ClusterOfIsDefined DEF Bounds
<1>2. ASSUME NEW k \in DOMAIN sp.grants, Overlaps(sp.grants[k], e)  PROVE FALSE
  <2> DEFINE g == sp.grants[k]
  <2>1. /\ g \in Bounds
        /\ g[1] <= g[2] /\ ClusterOf(g[1]) = ClusterOf(g[2])
        /\ g \in sp.allocated[ClusterOf(g[1])]
        /\ Overlaps(g, e)
    BY <1>2 DEF SpaceInv, SpaceShape, GrantsRecorded
  <2> HIDE DEF g
  <2>2. /\ g[1] \in Int /\ g[2] \in Int /\ g[1] <= e[2] /\ e[1] <= g[2]
        /\ ClusterOf(g[1]) \in Clusters
    BY <1>1, <2>1, ClusterOfIsDefined DEF Overlaps, Bounds
  <2>3. ClusterOf(g[1]) <= ClusterOf(e[2]) /\ ClusterOf(e[1]) <= ClusterOf(g[2])
    BY <1>1, <2>2, ClusterOfIsMonotonic
  <2>4. ClusterOf(g[1]) = ClusterOf(e[1])
    BY <1>1, <2>1, <2>2, <2>3, ClusterAssumption DEF Clusters
  <2> QED BY <2>1, <2>4
<1>3. ASSUME NEW r \in sp.reserved, Overlaps(e, r)  PROVE FALSE
  <2>1. r \in Bounds
    BY DEF SpaceInv, SpaceShape
  <2>2. Touches(r, ClusterOf(e[1])) /\ Overlaps(Slice(r, ClusterOf(e[1])), e)
    BY <1>1, <1>3, <2>1, SliceIsEnough
  <2> QED BY <1>1, <2>2 DEF SpaceInv, ReservedRecorded
<1> QED BY <1>2, <1>3

\* generate_address keeps a space in order: the extent it returns, whichever of
\* its candidates that is, overlaps nothing granted and nothing reserved.
THEOREM AllocateKeeps ==
  ASSUME NEW Q, NEW sp, SpaceInv(sp, Q), NEW c, c.qualifier \in Q,
         c.size \in Nat \ {0}, NEW a \in Candidates(sp, c)
  PROVE  SpaceInv(Allocate(sp, c, a), Q) /\ Avoids(sp, Allocate(sp, c, a))
<1> DEFINE e == Extent(a, c)
           i == ClusterOf(a)
           new == Allocate(sp, c, a)
<1>1. SpaceShape(sp, Q)
  BY DEF SpaceInv
<1>2. /\ a \in Int /\ e \in Bounds /\ e[1] = a /\ a <= e[2]
      /\ i \in Clusters /\ ClusterOf(e[2]) = i
      /\ \A h \in sp.allocated[i] : ~ Overlaps(h, e)
  BY <1>1, CandidatesAreFree
<1>3. /\ \A k \in DOMAIN sp.grants : ~ Overlaps(sp.grants[k], e)
      /\ \A r \in sp.reserved : ~ Overlaps(e, r)
  <2> HIDE DEF e
  <2> QED BY <1>2, FreeOfGrants
<1>4. /\ new.super_cluster = sp.super_cluster
      /\ new.allocated = [sp.allocated EXCEPT ![i] = @ \cup {e}]
      /\ new.grants = Append(sp.grants, e)
      /\ new.reserved = sp.reserved
      /\ new \in [super_cluster : {new.super_cluster}, qualifier_size : {new.qualifier_size},
                  allocated : {new.allocated}, grants : {new.grants},
                  reserved : {new.reserved}, available : {new.available}]
  <2>1. PICK h, k : new = [sp EXCEPT !.allocated = [sp.allocated EXCEPT ![i] = @ \cup {e}],
                                     !.grants = Append(sp.grants, e), !.available = h, !.qualifier_size = k]
    BY Zenon DEF Allocate
  <2> HIDE DEF new, e, i
  <2> QED BY <1>1, <2>1, SpaceUpdate DEF SpaceShape
<1> HIDE DEF e, i, new
<1>5. SpaceShape(new, Q)
  <2>1. /\ sp.allocated \in [Clusters -> SUBSET Bounds] /\ sp.grants \in Seq(Bounds)
        /\ sp.reserved \in SUBSET Bounds
    BY <1>1 DEF SpaceShape
  <2>2. /\ new.allocated \in [Clusters -> SUBSET Bounds] /\ new.grants \in Seq(Bounds)
        /\ new.reserved \in SUBSET Bounds
    BY <1>2, <1>4, <2>1
  <2>3. new \in [super_cluster : {new.super_cluster}, qualifier_size : {new.qualifier_size},
                 allocated : [Clusters -> SUBSET Bounds], grants : Seq(Bounds),
                 reserved : SUBSET Bounds, available : {new.available}]
    BY <1>4, <2>2
  <2> QED BY <1>1, <1>4, <2>3 DEF SpaceShape
<1>6. GrantsRecorded(new)
  <2> SUFFICES ASSUME NEW k \in DOMAIN new.grants
               PROVE  LET g == new.grants[k]
                      IN  /\ g[1] <= g[2]
                          /\ ClusterOf(g[1]) = ClusterOf(g[2])
                          /\ g \in new.allocated[ClusterOf(g[1])]
    BY DEF GrantsRecorded
  <2>1. CASE k \in DOMAIN sp.grants
    <3>1. new.grants[k] = sp.grants[k]
      BY <1>1, <1>2, <1>4, <2>1 DEF SpaceShape
    <3>2. LET g == sp.grants[k]
          IN  /\ g \in Bounds /\ g[1] <= g[2]
              /\ ClusterOf(g[1]) = ClusterOf(g[2])
              /\ g \in sp.allocated[ClusterOf(g[1])]
      BY <1>1, <2>1 DEF SpaceShape, SpaceInv, GrantsRecorded
    <3>3. ClusterOf(sp.grants[k][1]) \in Clusters
      BY <3>2, ClusterOfIsDefined DEF Bounds
    <3> QED BY <1>1, <1>2, <1>4, <3>1, <3>2, <3>3 DEF SpaceShape
  <2>2. CASE k \notin DOMAIN sp.grants
    <3>1. new.grants[k] = e
      BY <1>1, <1>2, <1>4, <2>2 DEF SpaceShape
    <3> QED BY <1>1, <1>2, <1>4, <3>1 DEF SpaceShape, i
  <2> QED BY <2>1, <2>2
<1>7. ReservedRecorded(new)
  BY <1>1, <1>2, <1>4 DEF SpaceShape, SpaceInv, ReservedRecorded
<1>8. Disjoint(new)
  <2> SUFFICES ASSUME NEW k \in DOMAIN new.grants, NEW l \in DOMAIN new.grants, k < l
               PROVE  ~ Overlaps(new.grants[k], new.grants[l])
    BY DEF Disjoint
  <2>1. k \in DOMAIN sp.grants /\ new.grants[k] = sp.grants[k]
    BY <1>1, <1>2, <1>4 DEF SpaceShape
  <2>2. CASE l \in DOMAIN sp.grants
    <3>1. new.grants[l] = sp.grants[l]
      BY <1>1, <1>2, <1>4, <2>2 DEF SpaceShape
    <3> QED BY <2>1, <2>2, <3>1 DEF SpaceInv, Disjoint
  <2>3. CASE l \notin DOMAIN sp.grants
    <3>1. new.grants[l] = e
      BY <1>1, <1>2, <1>4, <2>3 DEF SpaceShape
    <3> QED BY <1>3, <2>1, <3>1
  <2> QED BY <2>2, <2>3
<1>9. Avoids(sp, new)
  <2>1. \A k \in DOMAIN new.grants \ DOMAIN sp.grants : new.grants[k] = e
    BY <1>1, <1>2, <1>4 DEF SpaceShape
  <2> QED BY <1>3, <2>1 DEF Avoids
<1> QED BY <1>5, <1>6, <1>7, <1>8, <1>9 DEF SpaceInv, new

\* reserve_memory keeps a space in order, whatever it is told to mark.
THEOREM ReserveKeeps ==
  ASSUME NEW Q, NEW sp, SpaceInv(sp, Q), NEW lo \in Int, NEW size \in Int
  PROVE  /\ SpaceInv(Reserve(sp, lo, size), Q)
         /\ Reserve(sp, lo, size).grants = sp.grants
<1> DEFINE r == <<lo, lo + size - 1>>
           new == Reserve(sp, lo, size)
<1>1. SpaceShape(sp, Q) /\ r \in Bounds
  BY DEF SpaceInv, Bounds
<1>2. /\ new.super_cluster = sp.super_cluster
      /\ new.allocated = [i \in Clusters |-> IF Touches(r, i)
                                            THEN sp.allocated[i] \cup {Slice(r, i)}
                                            ELSE sp.allocated[i]]
      /\ new.grants = sp.grants
      /\ new.reserved = sp.reserved \cup {r}
      /\ new \in [super_cluster : {new.super_cluster}, qualifier_size : {new.qualifier_size},
                  allocated : {new.allocated}, grants : {new.grants},
                  reserved : {new.reserved}, available : {new.available}]
  BY <1>1 DEF SpaceShape, Reserve
<1> HIDE DEF new, r
<1>3. \A i \in Clusters : Touches(r, i) => Slice(r, i) \in Bounds
  BY <1>1, SliceType
<1>4. SpaceShape(new, Q)
  <2>1. \A i \in Clusters : new.allocated[i] \in SUBSET Bounds
    BY <1>1, <1>2, <1>3 DEF SpaceShape
  <2>2. new.allocated \in [Clusters -> SUBSET Bounds]
    BY <1>2, <2>1
  <2> QED BY <1>1, <1>2, <2>2 DEF SpaceShape
<1>5. \A i \in Clusters : sp.allocated[i] \subseteq new.allocated[i]
  BY <1>2
<1>6. GrantsRecorded(new)
  <2> SUFFICES ASSUME NEW k \in DOMAIN sp.grants
               PROVE  LET g == sp.grants[k]
                      IN  /\ g[1] <= g[2]
                          /\ ClusterOf(g[1]) = ClusterOf(g[2])
                          /\ g \in new.allocated[ClusterOf(g[1])]
    BY <1>2 DEF GrantsRecorded
  <2>1. LET g == sp.grants[k]
        IN  /\ g \in Bounds /\ g[1] <= g[2]
            /\ ClusterOf(g[1]) = ClusterOf(g[2])
            /\ g \in sp.allocated[ClusterOf(g[1])]
    BY <1>1 DEF SpaceShape, SpaceInv, GrantsRecorded
  <2>2. ClusterOf(sp.grants[k][1]) \in Clusters
    BY <2>1, ClusterOfIsDefined DEF Bounds
  <2> QED BY <1>5, <2>1, <2>2
<1>7. ReservedRecorded(new)
  BY <1>2, <1>5 DEF SpaceInv, ReservedRecorded
<1>8. Disjoint(new)
  BY <1>2 DEF SpaceInv, Disjoint
<1> QED BY <1>2, <1>4, <1>6, <1>7, <1>8 DEF SpaceInv, new

\* A space is in order when its segments have been defined over it.
THEOREM NewSpaceInv ==
  ASSUME NEW seg, NEW reserved \in SUBSET AddressRange,
         \A q \in DOMAIN seg : seg[q] \in SUBSET AddressRange
  PROVE  SpaceInv(NewSpace(seg, reserved), DOMAIN seg)
<1> DEFINE sp == NewSpace(seg, reserved)
<1>1. AddressRange \subseteq Bounds
  BY DEF AddressRange, Bounds
<1>2. ASSUME NEW rs \in SUBSET AddressRange, NEW i \in Clusters
      PROVE  \A s \in Slices(rs, i) : s \in Bounds /\ 0 <= s[1] /\ ClusterOf(s[1]) = i /\ ClusterOf(s[2]) = i
  <2> SUFFICES ASSUME NEW r \in rs, Touches(r, i)
               PROVE  /\ Slice(r, i) \in Bounds /\ 0 <= Slice(r, i)[1]
                      /\ ClusterOf(Slice(r, i)[1]) = i /\ ClusterOf(Slice(r, i)[2]) = i
    BY DEF Slices
  <2>1. r \in Bounds /\ r[1] \in Nat /\ r[2] \in Nat
    BY <1>1 DEF AddressRange
  <2>2. Slice(r, i) \in Bounds
    BY <1>1, <2>1, SliceType
  <2>3. ClusterOf(Slice(r, i)[1]) = i
    <3>1. CASE i = ClusterOf(r[1])
      BY <3>1 DEF Slice
    <3>2. CASE i # ClusterOf(r[1])
      <4>1. ClusterOf(ClusterStart[i]) \in Clusters /\ ClusterIs(ClusterStart[i], ClusterOf(ClusterStart[i]))
        BY ClusterOfIsDefined, ClusterAssumption
      <4>2. ClusterOf(ClusterStart[i]) = i
        BY <4>1, ClusterAssumption DEF ClusterIs, Clusters
      <4> QED BY <3>2, <4>2 DEF Slice
    <3> QED BY <3>1, <3>2
  <2>4. ClusterOf(Slice(r, i)[2]) = i
    <3>1. CASE i = ClusterOf(r[2])
      BY <3>1 DEF Slice
    <3>2. CASE i # ClusterOf(r[2])
      <4>1. ClusterOf(r[2]) \in Clusters
        BY <2>1, ClusterOfIsDefined
      <4>2. i + 1 \in Clusters /\ i < ClusterOf(r[2]) /\ i \in Nat
        BY <3>2, <4>1, ClusterAssumption DEF Touches, Clusters
      <4> DEFINE x == ClusterStart[i + 1] - 1
      <4>3. x \in Int /\ ClusterStart[i] <= x /\ x < ClusterStart[i + 1]
        BY <4>2, ClusterAssumption
      <4> HIDE DEF x
      <4>4. ClusterOf(x) \in Clusters /\ ClusterIs(x, ClusterOf(x))
        BY <4>3, ClusterOfIsDefined
      <4>5. ~ (i < ClusterOf(x))
        <5>1. ASSUME i < ClusterOf(x)  PROVE ClusterStart[i + 1] <= ClusterStart[ClusterOf(x)]
          <6>1. ClusterOf(x) \in Int /\ i + 1 \in Int
            BY <4>2, <4>4 DEF Clusters
          <6>2. i + 1 = ClusterOf(x) \/ i + 1 < ClusterOf(x)
            BY <4>2, <5>1, <6>1
          <6>3. \A j \in Clusters : ClusterStart[j] \in Int
            BY ClusterAssumption
          <6>4. i + 1 < ClusterOf(x) => ClusterStart[i + 1] < ClusterStart[ClusterOf(x)]
            BY <4>2, <4>4, ClusterAssumption, Zenon
          <6>5. ClusterStart[i + 1] \in Int /\ ClusterStart[ClusterOf(x)] \in Int
            BY <4>2, <4>4, <6>3
          <6>6. CASE i + 1 = ClusterOf(x)
            BY <6>5, <6>6
          <6>7. CASE i + 1 < ClusterOf(x)
            BY <6>4, <6>5, <6>7
          <6> QED BY <6>2, <6>6, <6>7
        <5> QED BY <4>2, <4>3, <4>4, <5>1, ClusterAssumption DEF ClusterIs, Clusters
      <4>6. ~ (ClusterOf(x) < i)
        BY <4>3, <4>4, ClusterAssumption DEF ClusterIs
      <4>7. ClusterOf(x) = i
        BY <4>4, <4>5, <4>6, ClusterAssumption DEF Clusters
      <4> QED BY <3>2, <4>7 DEF Slice, x
    <3> QED BY <3>1, <3>2
  <2>5. 0 <= Slice(r, i)[1]
    BY <2>1, ClusterAssumption DEF Slice
  <2> QED BY <2>2, <2>3, <2>4, <2>5
<1>3. SpaceShape(sp, DOMAIN seg)
  <2>1. \A i \in Clusters : Slices(reserved, i) \in SUBSET Bounds
    BY <1>2
  <2>2. \A q \in DOMAIN seg : \A i \in Clusters : \A s \in Slices(seg[q], i) :
          s \in Bounds /\ 0 <= s[1] /\ ClusterOf(s[1]) = i /\ ClusterOf(s[2]) = i
    BY <1>2
  <2>3. reserved \in SUBSET Bounds
    BY <1>1
  <2> QED BY <2>1, <2>2, <2>3 DEF NewSpace, SpaceShape
<1>4. GrantsRecorded(sp) /\ Disjoint(sp)
  BY DEF NewSpace, GrantsRecorded, Disjoint
<1>5. ReservedRecorded(sp)
  BY DEF NewSpace, ReservedRecorded, Slices
<1> QED BY <1>3, <1>4, <1>5 DEF SpaceInv
=============================================================================
