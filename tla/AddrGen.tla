------------------------------ MODULE AddrGen ------------------------------
(***************************************************************************)
(* The address generator (lib/addrgen): an address space is cut into       *)
(* clusters at the powers of two; every cluster keeps the closed ranges    *)
(* that were handed out or reserved in it, how much memory it believes to  *)
(* have left, and the slices of the segments (DRAM, MMIO, the linear       *)
(* space) that were defined over it.  A space is a value here: the         *)
(* generator's actions apply the operators below to its two spaces.        *)
(*                                                                         *)
(* A range is a pair <<lo, hi>> of closed bounds.  A constraint is a       *)
(* record [size, align, bits, qualifier]: the and-mask of the code is a    *)
(* power-of-two alignment, the qualifier set has one member (as in every   *)
(* caller), or-masks and custom regions are not modelled.                  *)
(***************************************************************************)
EXTENDS Integers, Sequences, FiniteSetsExt

CONSTANTS
    TopCluster,     \* clusters are numbered 0 .. TopCluster
    ClusterStart    \* first address of each cluster (1 << i in the code)

Clusters == 0 .. TopCluster

ASSUME ClusterAssumption ==
    /\ TopCluster \in Nat
    /\ ClusterStart \in [Clusters -> Nat]
    /\ \A i, j \in Clusters : i < j => ClusterStart[i] < ClusterStart[j]

AddressRange == {r \in Nat \X Nat : r[1] <= r[2]}

Size(r) == r[2] - r[1] + 1
Overlaps(r, s) == r[1] <= s[2] /\ s[1] <= r[2]
Within(r, s) == s[1] <= r[1] /\ r[2] <= s[2]

\* _address_to_cluster: bit_length() - 1, and cluster 0 for address 0.
ClusterOf(a) ==
    CHOOSE i \in Clusters : /\ i = 0 \/ ClusterStart[i] <= a
                            /\ \A j \in Clusters : i < j => a < ClusterStart[j]

\* The part of a range that falls into cluster i, as reserve_memory and
\* define_segment cut it: the first slice keeps the range's start, the last
\* one its end, the others are whole clusters.
Slice(r, i) ==
    << IF i = ClusterOf(r[1]) THEN r[1] ELSE ClusterStart[i],
       IF i = ClusterOf(r[2]) THEN r[2] ELSE ClusterStart[i + 1] - 1 >>

Touches(r, i) == ClusterOf(r[1]) <= i /\ i <= ClusterOf(r[2])

Slices(rs, i) == {Slice(r, i) : r \in {x \in rs : Touches(x, i)}}

TotalSize(rs) == MapThenSumSet(Size, rs)

\* The whole memory of cluster i; the last cluster ends where the next power
\* of two would begin.
ClusterSize(i) == IF i < TopCluster THEN ClusterStart[i + 1] - ClusterStart[i]
                                    ELSE ClusterStart[i]

\* A space over which the segments seg (a function from qualifiers to sets of
\* ranges) are defined and in which the ranges of reserved are marked.  The
\* fields grants and reserved are a history, for the properties only: the
\* extents returned, in order, and the ranges that were marked.
NewSpace(seg, reserved) ==
    [ super_cluster  |-> [q \in DOMAIN seg |-> [i \in Clusters |-> Slices(seg[q], i)]],
      qualifier_size |-> [q \in DOMAIN seg |-> [i \in Clusters |-> TotalSize(Slices(seg[q], i))]],
      allocated |-> [i \in Clusters |-> Slices(reserved, i)],
      grants    |-> << >>,
      reserved  |-> reserved,
      available |-> [i \in Clusters |-> ClusterSize(i) - TotalSize(Slices(reserved, i))] ]

\* Mutant: only the first cluster a reservation touches records it.
ReserveFirstCluster(space, lo, size) ==
    LET r == <<lo, lo + size - 1>>
        i == ClusterOf(lo)
    IN  [space EXCEPT !.reserved = @ \cup {r},
                      !.allocated = [space.allocated EXCEPT ![i] = @ \cup {Slice(r, i)}],
                      !.available = [space.available EXCEPT ![i] = @ - Size(Slice(r, i))]]

(***************************************************************************)
(* reserve_memory: record [lo, lo + size - 1] without asking whether it    *)
(* is free.  The available memory of a cluster shrinks by the slice even   *)
(* when the slice was recorded before.                                     *)
(***************************************************************************)
Reserve(space, lo, size) ==
    LET r == <<lo, lo + size - 1>>
    IN  [space EXCEPT
          !.reserved = @ \cup {r},
          !.allocated = [i \in Clusters |-> IF Touches(r, i)
                                            THEN space.allocated[i] \cup {Slice(r, i)}
                                            ELSE space.allocated[i]],
          !.available = [i \in Clusters |-> IF Touches(r, i)
                                            THEN space.available[i] - Size(Slice(r, i))
                                            ELSE space.available[i]]]

(***************************************************************************)
(* find_clusters: the clusters whose bit is in the mask and below the bits *)
(* asked for, that have a slice of the segment and whose two counters are  *)
(* large enough.                                                           *)
(***************************************************************************)
FindClusters(space, c) ==
    {i \in Clusters : /\ ClusterStart[i] >= c.align
                      /\ i < c.bits
                      /\ space.super_cluster[c.qualifier][i] # {}
                      /\ space.available[i] >= c.size
                      /\ space.qualifier_size[c.qualifier][i] >= c.size}

(***************************************************************************)
(* find_ucluster: the free pieces of the segment's slices in cluster i     *)
(* that are large enough.  A piece starts where its slice starts or a      *)
(* recorded range ends; what remains behind the last recorded range is     *)
(* kept only when it is longer than one byte (the comparison is strict).   *)
(***************************************************************************)
FreePieces(space, c, i) ==
    UNION { LET hits   == {h \in space.allocated[i] : Overlaps(h, s)}
                starts == {s[1]} \cup {h[2] + 1 : h \in hits}
                ends   == {s[2]} \cup {h[1] - 1 : h \in hits}
            IN  {p \in starts \X ends :
                    /\ p[1] <= p[2]
                    /\ Within(p, s)
                    /\ \A h \in hits : ~ Overlaps(h, p)
                    /\ hits # {} /\ p[2] = s[2] => p[1] < p[2]
                    /\ Size(p) >= c.size}
          : s \in space.super_cluster[c.qualifier][i] }

AlignDown(a, c) == a - (a % c.align)
Extent(a, c) == <<a, a + c.size - 1>>

\* Mutant: only the first byte of the extent has to lie in a free piece.
FitsAtStart(space, c, i, a) == \E p \in FreePieces(space, c, i) : p[1] <= a /\ a <= p[2]

Fits(space, c, i, a) == \E p \in FreePieces(space, c, i) : Within(Extent(a, c), p)

\* _allocate_anywhere: the multiples of the alignment inside one piece.
Anywhere(space, c, i) ==
    UNION { {a \in p[1] .. (p[2] - c.size + 1) : a % c.align = 0}
          : p \in FreePieces(space, c, i) }

\* _allocate_near: right before or right behind a recorded range.
Near(space, c, i) ==
    {a \in {AlignDown(h[1] - c.size, c) : h \in space.allocated[i]}
             \cup {AlignDown(h[2] + 1, c) : h \in space.allocated[i]} :
        a \in Nat /\ Fits(space, c, i, a)}

\* The addresses generate_address can return.
Candidates(space, c) ==
    UNION {Anywhere(space, c, i) \cup Near(space, c, i) : i \in FindClusters(space, c)}

\* It raises AddrGenError when no cluster has a piece, or when every address it
\* tries in every piece is rounded down to one that does not fit.
CanFail(space, c) ==
    \A i \in FindClusters(space, c) :
        \A p \in FreePieces(space, c, i) :
            \E a \in p[1] .. (p[2] - c.size + 1) : ~ Fits(space, c, i, AlignDown(a, c))

\* Mutant: the extent is not recorded in its cluster.
AllocateUnrecorded(space, c, a) ==
    [space EXCEPT !.grants = Append(@, Extent(a, c)),
                  !.available = [space.available EXCEPT ![ClusterOf(a)] = @ - c.size]]

\* allocate_address: what the space is after it returned address a.
Allocate(space, c, a) ==
    LET i == ClusterOf(a)
    IN  [space EXCEPT
          !.allocated = [space.allocated EXCEPT ![i] = @ \cup {Extent(a, c)}],
          !.grants = Append(@, Extent(a, c)),
          !.available = [space.available EXCEPT ![i] = @ - c.size],
          !.qualifier_size =
              [space.qualifier_size EXCEPT
                ![c.qualifier] = [space.qualifier_size[c.qualifier] EXCEPT ![i] = @ - c.size]]]

-----------------------------------------------------------------------------
(***************************************************************************)
(* What a space promises: the extents it returned do not overlap, and one  *)
(* that it returns next overlaps nothing that was reserved before.         *)
(***************************************************************************)
Disjoint(space) ==
    \A i, j \in DOMAIN space.grants : i < j => ~ Overlaps(space.grants[i], space.grants[j])

Avoids(space, next) ==
    \A i \in DOMAIN next.grants \ DOMAIN space.grants :
        \A r \in space.reserved : ~ Overlaps(next.grants[i], r)
=============================================================================
