-------------------------- MODULE AreaGroupsProofs --------------------------
(***************************************************************************)
(* No two area groups overlap, and no two pblocks, for every chip, every   *)
(* set of constraint files and reports, and every number of groups.  The   *)
(* argument: the groups that are placed stay where they are and keep their *)
(* shape while the next batch is placed (Settled), the groups that wait    *)
(* are others than these (Queue), and the two binary variables of a pair   *)
(* leave each problem of the solver only solutions in which it is apart.   *)
(*                                                                         *)
(* And the annealing returns a tour of all the groups, the best of those   *)
(* it evaluated: a section that is reversed keeps every group, because it  *)
(* is a permutation of the places (Turned), and lengths can be compared,   *)
(* because the sum of the legs is a number (Summed).                       *)
(*                                                                         *)
(* And the shapes follow the areas: what is placed began with an           *)
(* elaboration of this build or with a shape stored in the one before,     *)
(* which is then one change of less than a hundredth further away (Drift). *)
(***************************************************************************)
EXTENDS AreaGroups, QueueLemmas, FiniteSetTheorems, TLAPS

Solo(g) == Len(g.dims) = 1

(* The groups that wait to be placed: each once, and none that is placed.  *)
Queue ==
  /\ unplaced \in Seq(DOMAIN wanted)
  /\ IsInjective(unplaced)
  /\ Range(unplaced) \cap DOMAIN placed = {}

(* setSpecialPosition has one shape for the cache, left of the memory      *)
(* controller.                                                             *)
Beside(groups, pinned, user) ==
  Cache \in pinned \ user =>
    /\ {Cache, Memory} \subseteq Located(groups)
    /\ Memory \in user
    /\ groups[Cache].loc \in Pair /\ groups[Memory].loc \in Pair
    /\ Solo(groups[Cache])
    /\ groups[Cache].loc[1] + W(groups[Cache]) <= groups[Memory].loc[1]

(* Only the groups placed before the first batch may have a shape to       *)
(* choose.                                                                 *)
Settled ==
  \/ DOMAIN placed \subseteq Located(wanted)
  \/ \A n \in DOMAIN placed : Solo(placed[n])

Tables ==
  /\ file \in Files
  /\ GroupTable(original) /\ GroupTable(wanted) /\ GroupTable(placed)
  /\ \A n \in DOMAIN stored : stored[n].dims \in Dims
  /\ batch \in Nat
  /\ \A n \in DOMAIN placed : placed[n].loc \in Pair

IInv ==
  /\ Tables
  /\ Queue
  /\ Located(wanted) \subseteq UserPlaced \cup {Cache}
  /\ Beside(wanted, Located(wanted), UserPlaced)
  /\ Beside(placed, Located(wanted), UserPlaced)
  /\ Settled
  /\ NoOverlap
-----------------------------------------------------------------------------
(* Two numbers name a pair of groups differently. *)
LEMMA IndexInDiffers ==
  ASSUME NEW m \in Range(Alphabet), NEW n \in Range(Alphabet), m # n
  PROVE  /\ IndexIn(Alphabet, m) \in Nat /\ IndexIn(Alphabet, n) \in Nat
         /\ IndexIn(Alphabet, m) # IndexIn(Alphabet, n)
<1>1. \A x \in Range(Alphabet) :
        IndexIn(Alphabet, x) \in DOMAIN Alphabet /\ Alphabet[IndexIn(Alphabet, x)] = x
  BY DEF Range, IndexIn
<1>2. DOMAIN Alphabet \subseteq Nat
  BY AlphabetAssumption
<1> QED
  BY <1>1, <1>2

LEMMA FieldTypes ==
  ASSUME NEW g \in Group
  PROVE  /\ g.dims \in Seq(Size) /\ Len(g.dims) \in {1, 4} /\ 1 \in DOMAIN g.dims
         /\ W(g) \in Nat \ {0} /\ H(g) \in Nat \ {0}
         /\ g.loc # NoLoc => g.loc \in Pair /\ g.loc[1] \in Int /\ g.loc[2] \in Int
<1>1. g.dims \in Seq(Size) /\ Len(g.dims) \in {1, 4}
  BY DEF Group, Dims
<1>2. 1 \in DOMAIN g.dims /\ g.dims[1] \in Size
  BY <1>1
<1> QED
  BY <1>1, <1>2 DEF Group, W, H, Size, Pair

(* What the solver is told of a pair of groups, whatever it chooses for    *)
(* the two binary variables, sets one beside or above the other.           *)
THEOREM RosenApart ==
  ASSUME NEW a \in Group, NEW b \in Group, a.loc \in Pair, b.loc \in Pair,
         NEW i \in {0, 1}, NEW j \in {0, 1}, Rosen(a, b, i, j)
  PROVE  Apart(a, b)
<1>1. /\ W(a) \in Int /\ H(a) \in Int /\ W(b) \in Int /\ H(b) \in Int
      /\ a.loc[1] \in Int /\ a.loc[2] \in Int /\ b.loc[1] \in Int /\ b.loc[2] \in Int
  BY FieldTypes DEF Pair
<1>2. ChipX \in Int /\ ChipY \in Int
  BY ChipAssumption
<1>3. CASE i = 0 /\ j = 0
  BY <1>1, <1>2, <1>3 DEF Rosen, Apart
<1>4. CASE i = 1 /\ j = 0
  BY <1>1, <1>2, <1>4 DEF Rosen, Apart
<1>5. CASE i = 0 /\ j = 1
  BY <1>1, <1>2, <1>5 DEF Rosen, Apart
<1>6. CASE i = 1 /\ j = 1
  BY <1>1, <1>2, <1>6 DEF Rosen, Apart
<1> QED
  BY <1>3, <1>4, <1>5, <1>6

(* Dropping the half of a length keeps the order. *)
LEMMA TruncatedOrder ==
  ASSUME NEW x \in Int, NEW y \in Int, x <= y
  PROVE  Truncated(x) \in Int /\ Truncated(y) \in Int /\ Truncated(x) <= Truncated(y)
  BY DEF Truncated

(* The pblocks of two groups that are apart have no slice in common.       *)
THEOREM PblockApart ==
  ASSUME NEW a \in Group, NEW b \in Group, a.loc \in Pair, b.loc \in Pair, Apart(a, b)
  PROVE  Pblock(a).x \cap Pblock(b).x = {} \/ Pblock(a).y \cap Pblock(b).y = {}
<1> DEFINE low(x) == ((Truncated(x) + Halo) \div 2) * 2
           high(x) == ((Truncated(x) - Halo) \div 2) * 2 + 1
<1>1. \A x, y \in Int : x <= y => low(x) \in Int /\ high(x) \in Int /\ high(x) < low(y)
  BY TruncatedOrder DEF Halo
<1>2. \A p, q, r, s \in Int : q < r => (p..q) \cap (r..s) = {} /\ (r..s) \cap (p..q) = {}
  OBVIOUS
<1>3. /\ W(a) \in Int /\ H(a) \in Int /\ W(b) \in Int /\ H(b) \in Int
      /\ a.loc[1] \in Int /\ a.loc[2] \in Int /\ b.loc[1] \in Int /\ b.loc[2] \in Int
  BY FieldTypes DEF Pair
<1>0. /\ a.loc[1] + W(a) \in Int /\ a.loc[2] + H(a) \in Int
      /\ b.loc[1] + W(b) \in Int /\ b.loc[2] + H(b) \in Int
  BY <1>3
<1>4. \A g : /\ Pblock(g).x = low(g.loc[1])..high(g.loc[1] + W(g))
             /\ Pblock(g).y = low(g.loc[2])..high(g.loc[2] + H(g))
  BY DEF Pblock
<1>5. \A x \in Int : low(x) \in Int /\ high(x) \in Int
  BY <1>1
<1> HIDE DEF low, high, Pblock
<1>6. CASE a.loc[1] + W(a) <= b.loc[1]
  <2>1. high(a.loc[1] + W(a)) < low(b.loc[1])
    BY <1>0, <1>1, <1>3, <1>6
  <2>2. /\ low(a.loc[1]) \in Int /\ high(a.loc[1] + W(a)) \in Int
        /\ low(b.loc[1]) \in Int /\ high(b.loc[1] + W(b)) \in Int
    BY <1>0, <1>3, <1>5
  <2>3. Pblock(a).x \cap Pblock(b).x = {}
    BY <2>1, <2>2, <1>2, <1>4
  <2> QED
    BY <2>3
<1>7. CASE b.loc[1] + W(b) <= a.loc[1]
  <2>1. high(b.loc[1] + W(b)) < low(a.loc[1])
    BY <1>0, <1>1, <1>3, <1>7
  <2>2. /\ low(b.loc[1]) \in Int /\ high(b.loc[1] + W(b)) \in Int
        /\ low(a.loc[1]) \in Int /\ high(a.loc[1] + W(a)) \in Int
    BY <1>0, <1>3, <1>5
  <2>3. Pblock(a).x \cap Pblock(b).x = {}
    BY <2>1, <2>2, <1>2, <1>4
  <2> QED
    BY <2>3
<1>8. CASE a.loc[2] + H(a) <= b.loc[2]
  <2>1. high(a.loc[2] + H(a)) < low(b.loc[2])
    BY <1>0, <1>1, <1>3, <1>8
  <2>2. /\ low(a.loc[2]) \in Int /\ high(a.loc[2] + H(a)) \in Int
        /\ low(b.loc[2]) \in Int /\ high(b.loc[2] + H(b)) \in Int
    BY <1>0, <1>3, <1>5
  <2>3. Pblock(a).y \cap Pblock(b).y = {}
    BY <2>1, <2>2, <1>2, <1>4
  <2> QED
    BY <2>3
<1>9. CASE b.loc[2] + H(b) <= a.loc[2]
  <2>1. high(b.loc[2] + H(b)) < low(a.loc[2])
    BY <1>0, <1>1, <1>3, <1>9
  <2>2. /\ low(b.loc[2]) \in Int /\ high(b.loc[2] + H(b)) \in Int
        /\ low(a.loc[2]) \in Int /\ high(a.loc[2] + H(a)) \in Int
    BY <1>0, <1>3, <1>5
  <2>3. Pblock(a).y \cap Pblock(b).y = {}
    BY <2>1, <2>2, <1>2, <1>4
  <2> QED
    BY <2>3
<1> QED
  BY <1>6, <1>7, <1>8, <1>9 DEF Apart
-----------------------------------------------------------------------------
LEMMA EmptyTable == DOMAIN << >> = {} /\ Range(<< >>) = {} /\ IsInjective(<< >>)
  BY DEF Range, IsInjective

LEMMA NoGroups ==
  GroupTable(<< >>) /\ Located(<< >>) = {}
  BY EmptyTable DEF GroupTable, Located

(* A tour of the groups in names: each of them once. *)
Visits(t, names) ==
  /\ t \in [1..Cardinality(names) -> names]
  /\ IsInjective(t)
  /\ Range(t) = names

LEMMA NamesFinite ==
  ASSUME NEW names \in SUBSET Range(Alphabet)
  PROVE  IsFiniteSet(names) /\ Cardinality(names) \in Nat
<1>1. IsFiniteSet(1..Len(Alphabet))
  BY FS_Interval, AlphabetAssumption
<1>2. Alphabet \in Surjection(1..Len(Alphabet), Range(Alphabet))
  BY AlphabetAssumption DEF Surjection, Range
<1>3. IsFiniteSet(Range(Alphabet))
  BY <1>1, <1>2, FS_Surjection
<1> QED
  BY <1>3, FS_Subset, FS_CardinalityType

(* Whatever it is sorted by, a sequence of as many groups as there are     *)
(* that has them all has each once. *)
LEMMA EachOnce ==
  ASSUME NEW names \in SUBSET Range(Alphabet),
         NEW s \in [1..Cardinality(names) -> names], Range(s) = names
  PROVE  Visits(s, names)
<1>1. IsFiniteSet(names) /\ Cardinality(names) \in Nat
  BY NamesFinite
<1>2. s \in Surjection(1..Cardinality(names), names)
  BY DEF Surjection, Range
<1>3. IsFiniteSet(1..Cardinality(names)) /\ Cardinality(1..Cardinality(names)) = Cardinality(names)
  BY <1>1, FS_Interval
<1>4. s \in Injection(1..Cardinality(names), names)
  BY <1>1, <1>2, <1>3, FS_SurjSameCardinalityImpliesInj
<1> QED
  BY <1>4 DEF Injection, Visits

LEMMA TourSeq ==
  ASSUME NEW names \in SUBSET Range(Alphabet), NEW t, Visits(t, names)
  PROVE  /\ t \in Seq(names) /\ Len(t) = Cardinality(names) /\ Len(t) \in Nat
         /\ DOMAIN t = 1..Len(t)
         /\ \A i \in 1..Len(t) : t[i] \in names
<1>1. Cardinality(names) \in Nat
  BY NamesFinite
<1> QED
  BY <1>1 DEF Visits

(* The order of the waiting groups has each of them once. *)
LEMMA ByAreaQueue ==
  ASSUME NEW groups, NEW names \in SUBSET Range(Alphabet), NEW s \in ByArea(groups, names)
  PROVE  s \in Seq(names) /\ IsInjective(s) /\ Range(s) = names
<1>1. Visits(s, names)
  BY EachOnce DEF ByArea
<1> QED
  BY <1>1, TourSeq DEF Visits

(* setSpecialPosition keeps the groups and moves none but the cache, to    *)
(* the left of the memory controller.                                      *)
LEMMA SpecialKeeps ==
  ASSUME NEW groups, GroupTable(groups)
  PROVE  /\ GroupTable(SpecialPosition(groups))
         /\ DOMAIN SpecialPosition(groups) = DOMAIN groups
         /\ Located(SpecialPosition(groups)) \subseteq Located(groups) \cup {Cache}
         /\ \/ SpecialPosition(groups) = groups
            \/ /\ {Cache, Memory} \subseteq DOMAIN groups
               /\ Memory \in Located(groups)
               /\ SpecialPosition(groups)[Cache].loc \in Pair
               /\ SpecialPosition(groups)[Memory] = groups[Memory]
               /\ groups[Memory].loc \in Pair
               /\ Solo(SpecialPosition(groups)[Cache])
               /\ SpecialPosition(groups)[Cache].loc[1] + W(SpecialPosition(groups)[Cache])
                    <= groups[Memory].loc[1]
<1>1. CASE SpecialPosition(groups) = groups
  BY <1>1
<1>2. CASE SpecialPosition(groups) # groups
  <2> DEFINE c == groups[Cache]
             m == groups[Memory]
             w == CacheWidth(groups)
             new == [[c EXCEPT !.loc = <<CacheX(groups), m.loc[2]>>]
                        EXCEPT !.dims = <<<<w, m.dims[1][2]>>>>]
  <2>1. /\ {Cache, Memory} \subseteq DOMAIN groups
        /\ HasX(m) /\ CacheX(groups) >= 0
        /\ SpecialPosition(groups) = [[groups EXCEPT ![Cache].loc = <<CacheX(groups), m.loc[2]>>]
              EXCEPT ![Cache].dims = <<<<w, m.dims[1][2]>>>>]
    BY <1>2 DEF SpecialPosition
  <2>2. c \in Group /\ m \in Group /\ m.loc \in Pair
    BY <2>1, FieldTypes DEF GroupTable, HasX
  <2>3. Cache # Memory
    BY DEF Cache, Memory
  <2>4. m.dims[1][2] \in Nat \ {0} /\ c.area \in Nat /\ m.loc[1] \in Int /\ m.loc[2] \in Int
    <3>1. H(m) \in Nat \ {0}
      BY <2>2, FieldTypes
    <3> QED
      BY <2>2, <3>1 DEF H, Group, Pair
  <2>5. w \in Nat \ {0}
    <3> DEFINE a == WithExtraArea(c.area)
               h == m.dims[1][2]
               q == CeilDiv(2 * a, h)
    <3>1. 2 * a \in Nat \ {0}
      BY <2>4 DEF WithExtraArea
    <3>2. \A x, y \in Nat \ {0} : (x + y - 1) \div y \in Nat \ {0}
      OBVIOUS
    <3>3. q \in Nat \ {0}
      BY <2>4, <3>1, <3>2 DEF CeilDiv
    <3> QED
      BY <3>3 DEF CacheWidth
  <2>6. CacheX(groups) \in Int /\ CacheX(groups) + w <= m.loc[1]
    BY <2>4, <2>5 DEF CacheX, Odd
  <2>7. new \in Group /\ Solo(new)
    <3>1. <<CacheX(groups), m.loc[2]>> \in Pair
      BY <2>4, <2>6 DEF Pair
    <3>2. <<<<w, m.dims[1][2]>>>> \in Dims /\ Len(<<<<w, m.dims[1][2]>>>>) = 1
      BY <2>4, <2>5 DEF Dims, Size
    <3> QED
      BY <2>2, <3>1, <3>2 DEF Group, Solo
  <2>8. SpecialPosition(groups) = [groups EXCEPT ![Cache] = new]
    <3>1. new = [c EXCEPT !.loc = <<CacheX(groups), m.loc[2]>>, !.dims = <<<<w, m.dims[1][2]>>>>]
      OBVIOUS
    <3> QED
      BY <2>1, <3>1
  <2> HIDE DEF new
  <2>9. /\ DOMAIN SpecialPosition(groups) = DOMAIN groups
        /\ SpecialPosition(groups)[Cache] = new
        /\ \A n \in DOMAIN groups \ {Cache} : SpecialPosition(groups)[n] = groups[n]
    BY <2>1, <2>8
  <2>10. GroupTable(SpecialPosition(groups))
    BY <2>7, <2>9 DEF GroupTable
  <2>11. Located(SpecialPosition(groups)) \subseteq Located(groups) \cup {Cache}
    BY <2>9 DEF Located
  <2>12. new.loc = <<CacheX(groups), m.loc[2]>> /\ W(new) = w
    BY <2>2 DEF new, W, Group
  <2>13. new.loc \in Pair /\ new.loc[1] + W(new) <= m.loc[1]
    BY <2>4, <2>6, <2>12 DEF Pair
  <2>14. Memory \in Located(groups)
    BY <2>1 DEF Located, HasX
  <2> QED
    BY <2>1, <2>2, <2>3, <2>7, <2>9, <2>10, <2>11, <2>13, <2>14
<1> QED
  BY <1>1, <1>2

LEMMA SpecialKeepsOthers ==
  ASSUME NEW groups, NEW n \in DOMAIN groups, n # Cache
  PROVE  SpecialPosition(groups)[n] = groups[n]
  BY DEF SpecialPosition
-----------------------------------------------------------------------------
(* Of two groups that have a place from the start, both are the user's, or *)
(* one is the cache, which is beside the memory controller at least. *)
LEMMA PinnedPair ==
  ASSUME NEW groups, NEW pinned, NEW user, pinned \subseteq user \cup {Cache},
         Beside(groups, pinned, user), NEW m \in pinned, NEW n \in pinned, m # n
  PROVE  \/ {m, n} \subseteq user
         \/ {m, n} \subseteq user \cup (pinned \cap {Cache}) /\ {m, n} # {Cache, Memory}
         \/ Apart(groups[m], groups[n])
<1>1. CASE {m, n} \subseteq user
  BY <1>1
<1>2. CASE Cache \in {m, n} /\ Cache \notin user
  <2>1. groups[Cache].loc[1] + W(groups[Cache]) <= groups[Memory].loc[1]
    BY <1>2 DEF Beside
  <2>2. {m, n} = {Cache, Memory} => Apart(groups[m], groups[n])
    BY <2>1, <1>2 DEF Apart
  <2> QED
    BY <1>2, <2>2
<1> QED
  BY <1>1, <1>2

LEMMA StartBatchesInv ==
  ASSUME NEW groups, GroupTable(groups), NEW first, NEW k \in Nat,
         StartBatches(groups, first, k),
         Located(groups) \subseteq UserPlaced' \cup {Cache},
         Beside(groups, Located(groups), UserPlaced')
  PROVE  /\ GroupTable(wanted') /\ GroupTable(placed') /\ batch' \in Nat
         /\ \A n \in DOMAIN placed' : placed'[n].loc \in Pair
         /\ Queue'
         /\ Located(wanted') \subseteq UserPlaced' \cup {Cache}
         /\ Beside(wanted', Located(wanted'), UserPlaced')
         /\ Beside(placed', Located(wanted'), UserPlaced')
         /\ Settled' /\ NoOverlap'
<1> DEFINE special == SpecialPosition(groups)
<1>1. /\ wanted' = special /\ batch' = k
      /\ placed' = [n \in Located(special) |-> special[n]]
      /\ unplaced' \in ByArea(special, DOMAIN special \ Located(special))
  BY DEF StartBatches
<1>2. /\ GroupTable(special) /\ DOMAIN special = DOMAIN groups
      /\ Located(special) \subseteq Located(groups) \cup {Cache}
  BY SpecialKeeps
<1>3. \A n \in Located(special) : special[n] \in Group /\ special[n].loc \in Pair
  BY <1>2, FieldTypes DEF Located, GroupTable
<1>4. GroupTable(wanted') /\ GroupTable(placed') /\ batch' \in Nat
  BY <1>1, <1>2 DEF GroupTable, Located
<1>5. \A n \in DOMAIN placed' : placed'[n].loc \in Pair
  BY <1>1, <1>3
<1>6. Queue'
  <2>1. DOMAIN special \ Located(special) \in SUBSET Range(Alphabet)
    BY <1>2 DEF GroupTable
  <2>2. /\ unplaced' \in Seq(DOMAIN special \ Located(special))
        /\ IsInjective(unplaced')
        /\ Range(unplaced') = DOMAIN special \ Located(special)
    BY <1>1, <2>1, ByAreaQueue
  <2>3. unplaced' \in Seq(DOMAIN special)
    BY <2>2
  <2> QED
    BY <1>1, <2>2, <2>3 DEF Queue
<1>7. Located(special) \subseteq UserPlaced' \cup {Cache}
  BY <1>2
<1>8. Beside(special, Located(special), UserPlaced')
  <2>1. CASE special = groups
    BY <2>1
  <2>2. CASE special # groups
    <3>1. /\ {Cache, Memory} \subseteq DOMAIN groups
          /\ Memory \in Located(groups)
          /\ special[Cache].loc \in Pair
          /\ special[Memory] = groups[Memory]
          /\ groups[Memory].loc \in Pair
          /\ Solo(special[Cache])
          /\ special[Cache].loc[1] + W(special[Cache]) <= groups[Memory].loc[1]
      BY <2>2, SpecialKeeps
    <3>2. Memory \in UserPlaced' /\ Memory \in Located(special)
      BY <1>2, <3>1 DEF Cache, Memory, Located
    <3> QED
      BY <1>2, <3>1, <3>2 DEF Beside, Located
  <2> QED
    BY <2>1, <2>2
<1>9. Beside(placed', Located(wanted'), UserPlaced')
  <2>1. \A n \in Located(special) : placed'[n] = special[n]
    BY <1>1
  <2>2. {Cache, Memory} \subseteq Located(special) => {Cache, Memory} \subseteq Located(placed')
    BY <1>1, <2>1 DEF Located
  <2> QED
    BY <1>1, <1>8, <2>1, <2>2 DEF Beside
<1>10. Settled'
  BY <1>1 DEF Settled
<1>11. NoOverlap'
  <2>1. SUFFICES ASSUME NEW m \in DOMAIN placed', NEW n \in DOMAIN placed', m # n
                 PROVE  Excused(m, n)' \/ Apart(placed'[m], placed'[n])
    BY DEF NoOverlap
  <2>2. DOMAIN placed' = Located(special)
    BY <1>1
  <2>3. \/ {m, n} \subseteq UserPlaced'
        \/ /\ {m, n} \subseteq UserPlaced' \cup (Located(special) \cap {Cache})
           /\ {m, n} # {Cache, Memory}
        \/ Apart(special[m], special[n])
    BY <1>7, <1>8, <2>1, <2>2, PinnedPair
  <2> QED
    BY <1>1, <2>1, <2>2, <2>3 DEF Excused
<1> QED
  BY <1>1, <1>4, <1>5, <1>6, <1>7, <1>8, <1>9, <1>10, <1>11

(* A reused shape is one of a group that was placed. *)
LEMMA ReusedKeeps ==
  ASSUME Tables, NEW groups, GroupTable(groups)
  PROVE  GroupTable(Reused(groups)) /\ Located(Reused(groups)) = Located(groups)
<1>1. DOMAIN Reused(groups) = DOMAIN groups
  BY DEF Reused
<1>2. ASSUME NEW n \in DOMAIN groups
      PROVE  Reused(groups)[n] \in Group /\ Reused(groups)[n].loc = groups[n].loc
  <2>1. groups[n] \in Group
    BY DEF GroupTable
  <2>2. n \in DOMAIN stored => [groups[n] EXCEPT !.dims = stored[n].dims] \in Group
    BY <2>1 DEF Tables, Group
  <2> QED
    BY <2>1, <2>2 DEF Reused, Group
<1> QED
  BY <1>1, <1>2 DEF GroupTable, Located
-----------------------------------------------------------------------------
(* Taking the last groups off a queue leaves the others, and none twice. *)
LEMMA TakeLast ==
  ASSUME NEW S, NEW q \in Seq(S), IsInjective(q), NEW k \in Nat
  PROVE  /\ SubSeq(q, 1, Len(q) - k) \in Seq(S)
         /\ IsInjective(SubSeq(q, 1, Len(q) - k))
         /\ \A x \in Range(SubSeq(q, 1, Len(q) - k)) :
              /\ x \in Range(q)
              /\ \A j \in DOMAIN q : j > Len(q) - k => q[j] # x
<1> DEFINE rest == SubSeq(q, 1, Len(q) - k)
<1>1. rest \in Seq(S)
  OBVIOUS
<1>2. \A i \in DOMAIN rest : i \in DOMAIN q /\ i <= Len(q) - k /\ rest[i] = q[i]
  OBVIOUS
<1>3. \A i, j \in DOMAIN q : q[i] = q[j] => i = j
  BY DEF IsInjective
<1>4. IsInjective(rest)
  BY <1>2, <1>3 DEF IsInjective
<1>5. DOMAIN q \subseteq Nat
  OBVIOUS
<1>6. ASSUME NEW i \in DOMAIN rest
      PROVE  rest[i] \in Range(q) /\ \A j \in DOMAIN q : j > Len(q) - k => q[j] # rest[i]
  <2>1. i \in DOMAIN q /\ i <= Len(q) - k /\ rest[i] = q[i]
    BY <1>2
  <2>2. \A j \in DOMAIN q : j > Len(q) - k => q[j] # q[i]
    BY <1>3, <1>5, <2>1
  <2> QED
    BY <2>1, <2>2 DEF Range
<1> QED
  BY <1>1, <1>4, <1>6 DEF Range

LEMMA SeqElement ==
  ASSUME NEW S, NEW q \in Seq(S), NEW i \in 1..Len(q)
  PROVE  q[i] \in S
  OBVIOUS

LEMMA BatchWaits ==
  ASSUME IInv
  PROVE  /\ Batch \subseteq DOMAIN wanted /\ Batch \cap DOMAIN placed = {}
         /\ DOMAIN Given = DOMAIN placed \cup Batch
         /\ GroupTable(Given)
<1>1. Queue /\ Tables
  BY DEF IInv
<1>2. Batch \subseteq Range(unplaced) /\ Range(unplaced) \subseteq DOMAIN wanted
  BY <1>1 DEF Queue, Batch, Range
<1>3. DOMAIN Given = DOMAIN placed \cup Batch
  BY DEF Given
<1>4. GroupTable(Given)
  BY <1>1, <1>2, <1>3 DEF Given, Tables, GroupTable
<1> QED
  BY <1>1, <1>2, <1>3, <1>4 DEF Queue

(* A solution changes the places of the batch, and gives every group one   *)
(* shape. *)
LEMMA SolutionKeeps ==
  ASSUME IInv, NEW at \in Corner, NEW shape \in Shape, NEW n \in DOMAIN Given
  PROVE  LET t == Solution(at, shape)[n]
         IN  /\ t \in Group /\ Solo(t) /\ t.loc \in Pair
             /\ t.attrs = Given[n].attrs
             /\ n \in DOMAIN placed => t.loc = placed[n].loc /\ t.attrs = placed[n].attrs
             /\ n \in DOMAIN placed /\ Solo(placed[n]) => W(t) = W(placed[n]) /\ H(t) = H(placed[n])
<1> DEFINE g == Given[n]
           open == {m \in DOMAIN Given : Len(Given[m].dims) > 1}
           t == Solution(at, shape)[n]
           x == IF n \in Batch THEN at[n] ELSE g.loc
           d == IF n \in DOMAIN shape THEN <<g.dims[shape[n]]>> ELSE g.dims
<1>1. /\ g \in Group
      /\ n \in DOMAIN placed => n \notin Batch /\ g = placed[n]
      /\ n \notin DOMAIN placed => n \in Batch
  BY BatchWaits DEF GroupTable, Given
<1>2. t = [[g EXCEPT !.loc = x] EXCEPT !.dims = d]
  BY <1>1 DEF Solution, Group
<1>3. x \in Pair
  <2>1. CASE n \in Batch
    BY <2>1, GridAssumption DEF Corner, Pair
  <2>2. CASE n \notin Batch
    BY <2>2, <1>1 DEF IInv, Tables
  <2> QED
    BY <2>1, <2>2
<1>4. g.dims \in Seq(Size) /\ Len(g.dims) \in {1, 4}
  BY <1>1, FieldTypes
<1>5. DOMAIN shape = open /\ (n \in open => shape[n] \in 1..4)
  BY DEF Shape
<1>6. d \in Dims /\ Len(d) = 1 /\ (Len(g.dims) = 1 => d = g.dims)
  <2>1. CASE n \in open
    <3>0. Len(g.dims) = 4
      <4>1. Len(g.dims) > 1
        BY <2>1
      <4>2. \A k \in {1, 4} : k > 1 => k = 4
        OBVIOUS
      <4> HIDE DEF g
      <4> QED
        BY <4>1, <4>2, <1>4
    <3>4. g.dims[shape[n]] \in Size
      BY <1>4, <1>5, <2>1, <3>0, SeqElement
    <3>2. \A z \in Size : <<z>> \in Seq(Size) /\ Len(<<z>>) = 1
      OBVIOUS
    <3>3. d = <<g.dims[shape[n]]>>
      BY <2>1, <1>5
    <3> QED
      BY <3>0, <3>2, <3>3, <3>4 DEF Dims
  <2>2. CASE n \notin open
    BY <2>2, <1>4, <1>5 DEF Dims
  <2> QED
    BY <2>1, <2>2
<1> HIDE DEF x, d, open
<1>7. t \in Group /\ t.loc = x /\ t.dims = d /\ t.attrs = g.attrs
  BY <1>1, <1>2, <1>3, <1>6 DEF Group
<1>8. n \in DOMAIN placed => x = placed[n].loc
  BY <1>1 DEF x
<1>9. n \in DOMAIN placed /\ Solo(placed[n]) => d = placed[n].dims
  BY <1>1, <1>6 DEF Solo
<1> HIDE DEF t
<1> QED
  BY <1>1, <1>3, <1>6, <1>7, <1>8, <1>9 DEF Solo, W, H, t
-----------------------------------------------------------------------------
LEMMA SolveBatchInv ==
  ASSUME IInv, SolveBatch
  PROVE  IInv'
<1>1. PICK at \in Corner, shape \in Shape :
        Solves(Solution(at, shape), DOMAIN placed) /\ placed' = Solution(at, shape)
  BY DEF SolveBatch
<1>2. /\ unplaced' = SubSeq(unplaced, 1, Len(unplaced) - batch)
      /\ UNCHANGED <<file, stored, wanted, original, batch>>
  BY DEF SolveBatch
<1> DEFINE s == Solution(at, shape)
<1>3. /\ Batch \subseteq DOMAIN wanted /\ Batch \cap DOMAIN placed = {}
      /\ DOMAIN Given = DOMAIN placed \cup Batch
      /\ DOMAIN Given \subseteq Range(Alphabet)
  BY BatchWaits DEF GroupTable
<1>4. DOMAIN placed' = DOMAIN Given
  BY <1>1 DEF Solution
<1>5. ASSUME NEW n \in DOMAIN placed'
      PROVE  /\ placed'[n] \in Group /\ Solo(placed'[n]) /\ placed'[n].loc \in Pair
             /\ n \in DOMAIN placed =>
                  placed'[n].loc = placed[n].loc /\ placed'[n].attrs = placed[n].attrs
             /\ n \in DOMAIN placed /\ Solo(placed[n]) =>
                  W(placed'[n]) = W(placed[n]) /\ H(placed'[n]) = H(placed[n])
  BY <1>1, <1>4, SolutionKeeps
<1>6. Tables'
  BY <1>2, <1>3, <1>4, <1>5 DEF IInv, Tables, GroupTable
<1>7. Queue'
  <2>1. /\ unplaced \in Seq(DOMAIN wanted) /\ IsInjective(unplaced) /\ batch \in Nat
        /\ Range(unplaced) \cap DOMAIN placed = {}
    BY DEF IInv, Queue, Tables
  <2>2. /\ unplaced' \in Seq(DOMAIN wanted) /\ IsInjective(unplaced')
        /\ Range(unplaced') \subseteq Range(unplaced) \ Batch
    <3> HIDE DEF s
    <3>1. /\ unplaced' \in Seq(DOMAIN wanted) /\ IsInjective(unplaced')
          /\ \A x \in Range(unplaced') :
               /\ x \in Range(unplaced)
               /\ \A j \in DOMAIN unplaced : j > Len(unplaced) - batch => unplaced[j] # x
      BY <1>2, <2>1, TakeLast
    <3> QED
      BY <3>1 DEF Batch
  <2>3. Range(unplaced') \cap DOMAIN placed' = {}
    BY <1>3, <1>4, <2>1, <2>2
  <2> QED
    BY <1>2, <2>2, <2>3 DEF Queue
<1>8. UserPlaced' = UserPlaced /\ Located(wanted') = Located(wanted)
  BY <1>2 DEF UserPlaced
<1>9. Beside(placed', Located(wanted'), UserPlaced')
  <2>1. SUFFICES ASSUME Cache \in Located(wanted) \ UserPlaced
                 PROVE  /\ {Cache, Memory} \subseteq Located(placed')
                        /\ Memory \in UserPlaced
                        /\ placed'[Cache].loc \in Pair /\ placed'[Memory].loc \in Pair
                        /\ Solo(placed'[Cache])
                        /\ placed'[Cache].loc[1] + W(placed'[Cache]) <= placed'[Memory].loc[1]
    BY <1>8 DEF Beside
  <2>2. /\ {Cache, Memory} \subseteq Located(placed) /\ Memory \in UserPlaced
        /\ Solo(placed[Cache])
        /\ placed[Cache].loc[1] + W(placed[Cache]) <= placed[Memory].loc[1]
    BY <2>1 DEF IInv, Beside
  <2>3. {Cache, Memory} \subseteq DOMAIN placed /\ {Cache, Memory} \subseteq DOMAIN placed'
    BY <1>3, <1>4, <2>2 DEF Located
  <2>4. /\ placed'[Cache].loc = placed[Cache].loc /\ placed'[Memory].loc = placed[Memory].loc
        /\ W(placed'[Cache]) = W(placed[Cache])
        /\ Solo(placed'[Cache]) /\ placed'[Cache].loc \in Pair /\ placed'[Memory].loc \in Pair
    BY <1>5, <2>2, <2>3
  <2> QED
    BY <2>2, <2>3, <2>4 DEF Located
<1>10. Settled'
  BY <1>5 DEF Settled
<1>11. \A m, n \in DOMAIN placed :
         m = n \/ Excused(m, n)' \/ Apart(placed'[m], placed'[n])
  <2>1. SUFFICES ASSUME NEW m \in DOMAIN placed, NEW n \in DOMAIN placed, m # n
                 PROVE  Excused(m, n)' \/ Apart(placed'[m], placed'[n])
    OBVIOUS
  <2>2. m \in DOMAIN placed' /\ n \in DOMAIN placed'
    BY <1>3, <1>4
  <2>3. Excused(m, n) => Excused(m, n)'
    BY <1>5, <1>8, <2>2 DEF Excused
  <2>4. CASE DOMAIN placed \subseteq Located(wanted)
    <3>1. \/ {m, n} \subseteq UserPlaced
          \/ /\ {m, n} \subseteq UserPlaced \cup (Located(wanted) \cap {Cache})
             /\ {m, n} # {Cache, Memory}
          \/ Apart(placed'[m], placed'[n])
      BY <1>8, <1>9, <2>1, <2>4, PinnedPair DEF IInv
    <3> QED
      BY <1>8, <3>1 DEF Excused
  <2>5. CASE \A k \in DOMAIN placed : Solo(placed[k])
    <3>1. /\ placed'[m].loc = placed[m].loc /\ placed'[n].loc = placed[n].loc
          /\ W(placed'[m]) = W(placed[m]) /\ H(placed'[m]) = H(placed[m])
          /\ W(placed'[n]) = W(placed[n]) /\ H(placed'[n]) = H(placed[n])
      BY <1>5, <2>2, <2>5
    <3>2. Excused(m, n) \/ Apart(placed[m], placed[n])
      BY <2>1 DEF IInv, NoOverlap
    <3> QED
      BY <2>3, <3>1, <3>2 DEF Apart
  <2> QED
    BY <2>4, <2>5 DEF IInv, Settled
<1>12. ASSUME NEW m \in DOMAIN placed', NEW n \in DOMAIN placed',
              IndexIn(Alphabet, m) < IndexIn(Alphabet, n), ~({m, n} \subseteq DOMAIN placed)
       PROVE  Excused(m, n)' \/ Apart(placed'[m], placed'[n])
  <2>1. Related(DOMAIN placed, placed'[m], placed'[n], m, n)
    BY <1>1, <1>12 DEF Solves
  <2>2. CASE "EMPTYBOX" \in placed'[m].attrs /\ "EMPTYBOX" \in placed'[n].attrs
    BY <2>2 DEF Excused
  <2>3. CASE \E i, j \in {0, 1} : Rosen(placed'[m], placed'[n], i, j)
    BY <1>5, <2>3, RosenApart
  <2> QED
    BY <1>12, <2>1, <2>2, <2>3 DEF Related
<1>13. NoOverlap'
  <2>1. SUFFICES ASSUME NEW m \in DOMAIN placed', NEW n \in DOMAIN placed', m # n
                 PROVE  Excused(m, n)' \/ Apart(placed'[m], placed'[n])
    BY DEF NoOverlap
  <2>2. CASE {m, n} \subseteq DOMAIN placed
    BY <1>11, <2>1, <2>2
  <2>3. CASE ~({m, n} \subseteq DOMAIN placed)
    <3>1. \/ IndexIn(Alphabet, m) < IndexIn(Alphabet, n)
          \/ IndexIn(Alphabet, n) < IndexIn(Alphabet, m)
      <4>1. m \in Range(Alphabet) /\ n \in Range(Alphabet)
        BY <1>3, <1>4
      <4> QED
        BY <2>1, <4>1, IndexInDiffers
    <3>2. {n, m} = {m, n}
      OBVIOUS
    <3>3. \/ Excused(m, n)' \/ Apart(placed'[m], placed'[n])
          \/ Excused(n, m)' \/ Apart(placed'[n], placed'[m])
      BY <1>12, <2>3, <3>1, <3>2
    <3>4. Apart(placed'[n], placed'[m]) => Apart(placed'[m], placed'[n])
      BY DEF Apart
    <3>5. Excused(n, m)' => Excused(m, n)'
      BY <3>2 DEF Excused
    <3> QED
      BY <3>3, <3>4, <3>5
  <2> QED
    BY <2>2, <2>3
<1> QED
  BY <1>2, <1>6, <1>7, <1>8, <1>9, <1>10, <1>13 DEF IInv

LEMMA PlaceUnchanged ==
  ASSUME IInv, UNCHANGED <<file, stored, original, placeVars>>
  PROVE  IInv'
<1>1. UNCHANGED <<file, stored, original, wanted, batch, placed, unplaced>>
  BY DEF placeVars
<1>2. Tables' /\ Queue' /\ Settled'
  BY <1>1 DEF IInv, Tables, Queue, Settled
<1>3. UserPlaced' = UserPlaced
  BY <1>1 DEF UserPlaced
<1>4. NoOverlap'
  BY <1>1, <1>3 DEF IInv, NoOverlap, Excused
<1> QED
  BY <1>1, <1>2, <1>3, <1>4 DEF IInv

(* A table of groups in which only the user's groups have a place suits a  *)
(* new start. *)
LEMMA RestartInv ==
  ASSUME IInv, NEW groups, GroupTable(groups), GroupTable(original'),
         NEW first, NEW k \in Nat, StartBatches(groups, first, k),
         Located(groups) \subseteq UserPlaced' \cup {Cache},
         Beside(groups, Located(groups), UserPlaced'),
         file' = file, stored' = stored
  PROVE  IInv'
<1>1. Tables
  BY DEF IInv
<1>2. /\ GroupTable(wanted') /\ GroupTable(placed') /\ batch' \in Nat
      /\ \A n \in DOMAIN placed' : placed'[n].loc \in Pair
  BY StartBatchesInv
<1>3. Tables'
  BY <1>1, <1>2 DEF Tables
<1>4. /\ Queue' /\ Located(wanted') \subseteq UserPlaced' \cup {Cache}
      /\ Beside(wanted', Located(wanted'), UserPlaced')
      /\ Beside(placed', Located(wanted'), UserPlaced')
      /\ Settled' /\ NoOverlap'
  BY StartBatchesInv
<1> QED
  BY <1>3, <1>4 DEF IInv

(* A build starts with the elaborated groups, with or without the shapes   *)
(* of the last build. *)
LEMMA StartBuildInv ==
  ASSUME IInv, StartBuild
  PROVE  IInv'
<1>1. stored' = stored /\ file' = file /\ file \in Files
  BY DEF StartBuild, IInv, Tables
<1>2. PICK report \in Reports :
        IF ~Legal(Elaborated(file, report))
        THEN UNCHANGED <<original, placeVars>>
        ELSE /\ original' = AreaGroups(Elaborated(file, report), EmitPlatform)
             /\ \/ StartBatches(original', FALSE, 1)
                \/ StartBatches(Reused(original'), TRUE, 1)
  BY DEF StartBuild
<1>3. CASE ~Legal(Elaborated(file, report))
  BY <1>1, <1>2, <1>3, PlaceUnchanged
<1>4. CASE Legal(Elaborated(file, report))
  <2>1. GroupTable(original')
    BY <1>1, <1>2, <1>4, GroupsAssumption
  <2>2. UserPlaced' = Located(original')
    BY DEF UserPlaced
  <2>3. CASE StartBatches(original', FALSE, 1)
    <3>1. Beside(original', Located(original'), UserPlaced')
      BY <2>2 DEF Beside
    <3> QED
      BY <1>1, <2>1, <2>2, <2>3, <3>1, RestartInv
  <2>4. CASE StartBatches(Reused(original'), TRUE, 1)
    <3>1. GroupTable(Reused(original')) /\ Located(Reused(original')) = Located(original')
      BY <2>1, ReusedKeeps DEF IInv
    <3>2. Beside(Reused(original'), Located(original'), UserPlaced')
      BY <2>2 DEF Beside
    <3> QED
      BY <1>1, <2>1, <2>2, <2>4, <3>1, <3>2, RestartInv
  <2> QED
    BY <1>2, <1>4, <2>3, <2>4
<1> QED
  BY <1>3, <1>4

(* Larger batches, or the groups' own shapes, start from the groups that   *)
(* have a place from the start. *)
LEMMA SolveFailsInv ==
  ASSUME IInv, SolveFails
  PROVE  IInv'
<1>1. /\ UNCHANGED <<file, stored, original>>
      /\ \/ StartBatches(wanted, reuse, batch + 1)
         \/ StartBatches(original, FALSE, 1)
         \/ UNCHANGED placeVars
  BY DEF SolveFails
<1>2. UserPlaced' = UserPlaced /\ UserPlaced = Located(original) /\ GroupTable(original')
  BY <1>1 DEF UserPlaced, IInv, Tables
<1>3. CASE StartBatches(wanted, reuse, batch + 1)
  <2>1. batch + 1 \in Nat /\ GroupTable(wanted)
    BY DEF IInv, Tables
  <2>2. /\ Located(wanted) \subseteq UserPlaced' \cup {Cache}
        /\ Beside(wanted, Located(wanted), UserPlaced')
    BY <1>2 DEF IInv
  <2> QED
    BY <1>1, <1>2, <1>3, <2>1, <2>2, RestartInv
<1>4. CASE StartBatches(original, FALSE, 1)
  <2>1. GroupTable(original) /\ Beside(original, Located(original), UserPlaced')
    BY <1>2 DEF IInv, Tables, Beside
  <2> QED
    BY <1>1, <1>2, <1>4, <2>1, RestartInv
<1>5. CASE UNCHANGED placeVars
  BY <1>1, <1>5, PlaceUnchanged
<1> QED
  BY <1>1, <1>3, <1>4, <1>5

(* Before the first build, and between two, there is no group. *)
Blank ==
  /\ file \in Files /\ \A n \in DOMAIN stored : stored[n].dims \in Dims
  /\ original = << >> /\ wanted = << >> /\ placed = << >> /\ unplaced = << >> /\ batch = 0

LEMMA NothingPlaced == Blank => IInv
<1> SUFFICES ASSUME Blank PROVE IInv
  OBVIOUS
<1> USE DEF Blank
<1>1. Tables
  BY NoGroups, EmptyTable DEF Tables
<1>2. Queue
  BY EmptyTable DEF Queue
<1>3. Settled /\ NoOverlap
  BY EmptyTable DEF Settled, NoOverlap
<1>4. Located(wanted) = {}
  BY NoGroups
<1> QED
  BY <1>1, <1>2, <1>3, <1>4 DEF IInv, Beside

LEMMA IInvInit == Init => IInv
  BY NothingPlaced, EmptyTable DEF Init, Blank

LEMMA IInvStep == IInv /\ [Next]_vars => IInv'
<1> SUFFICES ASSUME IInv, [Next]_vars
             PROVE  IInv'
  OBVIOUS
<1>1. CASE StartBuild
  BY <1>1, StartBuildInv
<1>2. CASE SolveBatch
  BY <1>2, SolveBatchInv
<1>3. CASE SolveFails
  BY <1>3, SolveFailsInv
<1>4. CASE StartTour
  BY <1>4, PlaceUnchanged DEF StartTour
<1>5. CASE Evaluate
  BY <1>5, PlaceUnchanged DEF Evaluate
<1>6. CASE FinishTour
  BY <1>6, PlaceUnchanged DEF FinishTour
<1>7. CASE StoreAreaConstraints
  <2>1. Blank'
    BY <1>7 DEF Blank, StoreAreaConstraints, IInv, Tables, GroupTable, Group
  <2>2. Blank' => IInv'
    BY NothingPlaced, PTL
  <2> QED
    BY <2>1, <2>2
<1>8. CASE UNCHANGED vars
  BY <1>8, PlaceUnchanged DEF vars, placeVars
<1> QED
  BY <1>1, <1>2, <1>3, <1>4, <1>5, <1>6, <1>7, <1>8 DEF Next

(* The invariant the next two theorems rest on. *)
THEOREM PlacementInvariant == Spec => []IInv
  BY IInvInit, IInvStep, PTL DEF Spec

(* No two area groups overlap in any phase of the placement, except those  *)
(* the user placed, the cache beside one of them and two empty boxes       *)
(* (area_group_tool.py:486). *)
THEOREM GroupsDoNotOverlap == Spec => []NoOverlap
<1>1. IInv => NoOverlap
  BY DEF IInv
<1> QED
  BY <1>1, PlacementInvariant, PTL

(* Nor do the pblocks written for Vivado (area_group_tool.py:193). *)
THEOREM PblocksDoNotOverlap == Spec => []PblocksDisjoint
<1>1. IInv => PblocksDisjoint
  BY PblockApart DEF IInv, NoOverlap, PblocksDisjoint, Tables, GroupTable
<1> QED
  BY <1>1, PlacementInvariant, PTL
-----------------------------------------------------------------------------
(* The tours there are, and the order the groups were numbered in. *)
Toured ==
  /\ phase \in {"tour", "done"} =>
       /\ Visits(tour, DOMAIN placed) /\ Visits(best, DOMAIN placed)
       /\ TourLength(best) <= TourLength(tour)
  /\ phase = "done" => Range(sortIdx) = 1..Cardinality(DOMAIN placed)
(* Every number has a square root, rounded down. *)
LEMMA RootType ==
  ASSUME NEW n \in Nat
  PROVE  Root(n) \in Nat /\ n < (Root(n) + 1) * (Root(n) + 1)
<1> DEFINE IsRoot(r, m) == r * r <= m /\ m < (r + 1) * (r + 1)
           T == {m \in Nat : \E r \in 0..m : IsRoot(r, m)}
<1>1. 0 \in T
  <2>1. 0 \in 0..0 /\ IsRoot(0, 0)
    OBVIOUS
  <2> QED
    BY <2>1
<1>2. ASSUME NEW m \in Nat, m \in T PROVE m + 1 \in T
  <2>1. PICK r \in 0..m : IsRoot(r, m)
    BY <1>2
  <2>2. CASE m + 1 < (r + 1) * (r + 1)
    <3>1. IsRoot(r, m + 1) /\ r \in 0..(m + 1)
      BY <2>1, <2>2
    <3> QED
      BY <3>1
  <2>3. CASE ~(m + 1 < (r + 1) * (r + 1))
    <3>1. r \in Nat /\ m + 1 = (r + 1) * (r + 1)
      BY <2>1, <2>3
    <3>2. (r + 1 + 1) * (r + 1 + 1) = (r + 1) * (r + 1) + 2 * r + 3
      BY <3>1
    <3>3. IsRoot(r + 1, m + 1) /\ r + 1 \in 0..(m + 1)
      BY <2>1, <3>1, <3>2
    <3> HIDE DEF IsRoot
    <3> QED
      BY <3>3
  <2> QED
    BY <2>2, <2>3
<1> HIDE DEF T
<1>3. n \in T
  BY <1>1, <1>2, SetInduction
<1>4. \E r \in 0..n : IsRoot(r, n)
  BY <1>3 DEF T
<1>5. Root(n) \in 0..n /\ IsRoot(Root(n), n)
  BY <1>4 DEF Root
<1> QED
  BY <1>5

LEMMA DistType ==
  ASSUME NEW a \in Group, NEW b \in Group, a.loc \in Pair, b.loc \in Pair
  PROVE  Dist(a, b) \in Nat
<1> DEFINE dx == 2 * a.loc[1] + W(a) - 2 * b.loc[1] - W(b)
           dy == 2 * a.loc[2] + H(a) - 2 * b.loc[2] - H(b)
<1>1. /\ W(a) \in Int /\ H(a) \in Int /\ W(b) \in Int /\ H(b) \in Int
      /\ a.loc[1] \in Int /\ a.loc[2] \in Int /\ b.loc[1] \in Int /\ b.loc[2] \in Int
  BY FieldTypes DEF Pair
<1>2. dx \in Int /\ dy \in Int
  BY <1>1
<1>3. \A x \in Int : x * x \in Nat
  OBVIOUS
<1>4. Dist(a, b) = Root(dx * dx + dy * dy)
  BY DEF Dist
<1> HIDE DEF dx, dy
<1>5. dx * dx + dy * dy \in Nat
  BY <1>2, <1>3
<1> QED
  BY <1>4, <1>5, RootType

LEMMA LegType ==
  ASSUME Tables, NEW t, Visits(t, DOMAIN placed), NEW i \in 1..Len(t)
  PROVE  Leg(t, i) \in Nat
<1>1. DOMAIN placed \in SUBSET Range(Alphabet)
  BY DEF Tables, GroupTable
<1>2. Len(t) \in Nat /\ \A k \in 1..Len(t) : t[k] \in DOMAIN placed
  BY <1>1, TourSeq
<1>3. (i % Len(t)) + 1 \in 1..Len(t)
  BY <1>2
<1>4. ASSUME NEW n \in DOMAIN placed PROVE placed[n] \in Group /\ placed[n].loc \in Pair
  BY DEF Tables, GroupTable
<1>5. t[i] \in DOMAIN placed /\ t[(i % Len(t)) + 1] \in DOMAIN placed
  BY <1>2, <1>3
<1> QED
  BY <1>4, <1>5, DistType DEF Leg

(* The sum over the legs of a tour, up to the k-th. *)
Summed(g, t, k) == g = [i \in 0..k |-> IF i = 0 THEN 0 ELSE g[i - 1] + Leg(t, i)]

LEMMA SummedNext ==
  ASSUME NEW t, NEW k \in Nat, NEW g, Summed(g, t, k),
         NEW h, h = [i \in 0..(k + 1) |-> IF i <= k THEN g[i] ELSE g[k] + Leg(t, i)]
  PROVE  Summed(h, t, k + 1)
<1>1. \A i \in 0..k : g[i] = IF i = 0 THEN 0 ELSE g[i - 1] + Leg(t, i)
  BY DEF Summed
<1>2. /\ \A i \in 0..k : h[i] = g[i]
      /\ h[k + 1] = g[k] + Leg(t, k + 1)
  OBVIOUS
<1>3. ASSUME NEW i \in 0..(k + 1)
      PROVE  h[i] = IF i = 0 THEN 0 ELSE h[i - 1] + Leg(t, i)
  <2>1. CASE i = 0
    BY <1>1, <1>2, <2>1
  <2>2. CASE i # 0 /\ i = k + 1
    BY <1>2, <2>2
  <2>3. CASE i # 0 /\ i # k + 1
    <3>1. i \in 0..k /\ i - 1 \in 0..k
      BY <2>3
    <3>2. h[i] = g[i] /\ h[i - 1] = g[i - 1] /\ g[i] = g[i - 1] + Leg(t, i)
      BY <1>1, <1>2, <2>3, <3>1
    <3> QED
      BY <2>3, <3>2
  <2> QED
    BY <2>1, <2>2, <2>3
<1>4. h = [i \in 0..(k + 1) |-> h[i]]
  OBVIOUS
<1>5. h = [i \in 0..(k + 1) |-> IF i = 0 THEN 0 ELSE h[i - 1] + Leg(t, i)]
  BY ONLY <1>3, <1>4
<1> QED
  BY <1>5 DEF Summed

LEMMA SummedExists ==
  ASSUME NEW t, NEW n \in Nat
  PROVE  \E g : Summed(g, t, n)
<1> DEFINE T == {k \in Nat : \E g : Summed(g, t, k)}
<1>1. 0 \in T
  <2>1. Summed([i \in 0..0 |-> 0], t, 0)
    BY DEF Summed
  <2> QED
    BY <2>1
<1>2. ASSUME NEW k \in Nat, k \in T PROVE k + 1 \in T
  <2>1. PICK g : Summed(g, t, k)
    BY <1>2
  <2>2. Summed([i \in 0..(k + 1) |-> IF i <= k THEN g[i] ELSE g[k] + Leg(t, i)], t, k + 1)
    BY <2>1, SummedNext
  <2> QED
    BY <2>2
<1> HIDE DEF T
<1>3. n \in T
  BY <1>1, <1>2, SetInduction
<1> QED
  BY <1>3 DEF T

LEMMA SummedType ==
  ASSUME NEW t, NEW n \in Nat, NEW g, Summed(g, t, n), \A i \in 1..n : Leg(t, i) \in Nat
  PROVE  g[n] \in Nat
<1> DEFINE T == {k \in Nat : k <= n => g[k] \in Nat}
<1>1. \A i \in 0..n : g[i] = IF i = 0 THEN 0 ELSE g[i - 1] + Leg(t, i)
  BY DEF Summed
<1>2. 0 \in T
  BY <1>1
<1>3. ASSUME NEW k \in Nat, k \in T PROVE k + 1 \in T
  <2>1. SUFFICES ASSUME k + 1 <= n PROVE g[k + 1] \in Nat
    OBVIOUS
  <2>2. g[k] \in Nat
    BY <1>3, <2>1
  <2>3. g[k + 1] = g[k] + Leg(t, k + 1) /\ Leg(t, k + 1) \in Nat
    BY <1>1, <2>1
  <2> QED
    BY <2>2, <2>3
<1> HIDE DEF T
<1>4. n \in T
  BY <1>2, <1>3, SetInduction
<1> QED
  BY <1>4 DEF T

(* The length of a tour is a number, so that of two tours one is no longer *)
(* than the other. *)
LEMMA LengthType ==
  ASSUME Tables, NEW t, Visits(t, DOMAIN placed)
  PROVE  TourLength(t) \in Nat
<1>1. DOMAIN placed \in SUBSET Range(Alphabet)
  BY DEF Tables, GroupTable
<1>2. Len(t) \in Nat
  BY <1>1, TourSeq
<1> DEFINE g == CHOOSE u : Summed(u, t, Len(t))
<1>3. TourLength(t) = g[Len(t)]
  BY DEF TourLength, Summed
<1>4. Summed(g, t, Len(t))
  BY <1>2, SummedExists
<1> HIDE DEF g
<1>5. \A i \in 1..Len(t) : Leg(t, i) \in Nat
  BY LegType
<1> QED
  BY <1>2, <1>3, <1>4, <1>5, SummedType

-----------------------------------------------------------------------------
(* Where the k-th stop of a tour of n stops was before the section from i  *)
(* to j was reversed. *)
Turned(n, i, j, k) ==
  IF i <= j
  THEN IF i <= k /\ k <= j THEN i + j - k ELSE k
  ELSE IF n - i < k /\ k <= n - j + 1 THEN k + i + j - n - 1 ELSE n + 1 - k

(* The stop that is at the k-th place afterwards. *)
Now(n, i, j, k) ==
  IF i <= j THEN Turned(n, i, j, k)
  ELSE IF j <= k /\ k <= i THEN k + n + 1 - i - j ELSE n + 1 - k

LEMMA TurnedBijection ==
  ASSUME NEW n \in Nat, NEW i \in 1..n, NEW j \in 1..n
  PROVE  /\ \A k \in 1..n : Turned(n, i, j, k) \in 1..n /\ Now(n, i, j, k) \in 1..n
         /\ \A k \in 1..n : Turned(n, i, j, Now(n, i, j, k)) = k
         /\ \A k \in 1..n : Now(n, i, j, Turned(n, i, j, k)) = k
<1>1. CASE i <= j
  BY <1>1 DEF Turned, Now
<1>2. CASE i > j
  BY <1>2 DEF Turned, Now
<1> QED
  BY <1>1, <1>2

LEMMA ReverseSlots ==
  ASSUME NEW S, NEW s \in Seq(S)
  PROVE  /\ Reverse(s) \in Seq(S) /\ Len(Reverse(s)) = Len(s)
         /\ \A k \in 1..Len(s) : Reverse(s)[k] = s[Len(s) - k + 1]
<1> DEFINE n == Len(s)
           r == Reverse(s)
<1>1. r = [k \in 1..n |-> s[(n - k) + 1]]
  BY DEF Reverse
<1>2. n \in Nat /\ \A k \in 1..n : s[k] \in S
  OBVIOUS
<1> HIDE DEF n, r
<1>3. \A k \in 1..n : (n - k) + 1 \in 1..n
  BY <1>2
<1>4. r \in [1..n -> S] /\ \A k \in 1..n : r[k] = s[n - k + 1]
  BY <1>1, <1>2, <1>3
<1>5. r \in Seq(S) /\ Len(r) = n
  BY <1>2, <1>4
<1> QED
  BY <1>4, <1>5 DEF n, r

LEMMA SubSeqSlots ==
  ASSUME NEW S, NEW s \in Seq(S), NEW i \in Int, NEW j \in Int,
         1 <= i, i <= j + 1, j <= Len(s)
  PROVE  /\ SubSeq(s, i, j) \in Seq(S) /\ Len(SubSeq(s, i, j)) = j - i + 1
         /\ \A k \in 1..(j - i + 1) : SubSeq(s, i, j)[k] = s[i + k - 1]
  OBVIOUS

(* The k-th of two sequences, one behind the other, and of three. *)
SecondOf(a, b, k) ==
  (a \o b)[k] = IF k <= Len(a) THEN a[k] ELSE b[k - Len(a)]
ThirdOf(a, b, c, k) ==
  (a \o b \o c)[k] = IF k <= Len(a) THEN a[k]
                     ELSE IF k <= Len(a) + Len(b) THEN b[k - Len(a)]
                     ELSE c[k - Len(a) - Len(b)]

LEMMA TwoSlots ==
  ASSUME NEW S, NEW a \in Seq(S), NEW b \in Seq(S)
  PROVE  /\ a \o b \in Seq(S) /\ Len(a \o b) = Len(a) + Len(b)
         /\ \A k \in 1..Len(a \o b) : SecondOf(a, b, k)
<1>1. a \o b \in Seq(S) /\ Len(a \o b) = Len(a) + Len(b)
  OBVIOUS
<1>2. ASSUME NEW k \in 1..Len(a \o b) PROVE SecondOf(a, b, k)
  BY DEF SecondOf
<1> QED
  BY <1>1, <1>2

LEMMA ThreeSlots ==
  ASSUME NEW S, NEW a \in Seq(S), NEW b \in Seq(S), NEW c \in Seq(S)
  PROVE  /\ a \o b \o c \in Seq(S) /\ Len(a \o b \o c) = Len(a) + Len(b) + Len(c)
         /\ \A k \in 1..Len(a \o b \o c) : ThirdOf(a, b, c, k)
<1> DEFINE ab == a \o b
           abc == ab \o c
<1>1. /\ ab \in Seq(S) /\ Len(ab) = Len(a) + Len(b)
      /\ \A k \in 1..Len(ab) : SecondOf(a, b, k)
  BY TwoSlots
<1>2. abc \in Seq(S) /\ Len(abc) = Len(ab) + Len(c)
  BY <1>1, TwoSlots
<1>3. \A k \in 1..Len(abc) : SecondOf(ab, c, k)
  BY ONLY <1>1, TwoSlots, c \in Seq(S)
<1>4. ASSUME NEW k \in 1..Len(abc) PROVE ThirdOf(a, b, c, k)
  <2>1. Len(a) \in Nat /\ Len(b) \in Nat /\ Len(c) \in Nat
    OBVIOUS
  <2> HIDE DEF abc, ab
  <2>2. abc[k] = IF k <= Len(ab) THEN ab[k] ELSE c[k - Len(ab)]
    BY <1>3 DEF SecondOf, abc
  <2>3. k <= Len(ab) => ab[k] = IF k <= Len(a) THEN a[k] ELSE b[k - Len(a)]
    <3>1. k <= Len(ab) => k \in 1..Len(ab)
      BY <1>1, <1>2, <2>1
    <3> QED
      BY <1>1, <3>1 DEF SecondOf, ab
  <2>4. k - Len(ab) = k - Len(a) - Len(b)
    BY <1>1, <1>2, <2>1
  <2>5. abc[k] = IF k <= Len(a) THEN a[k]
                 ELSE IF k <= Len(a) + Len(b) THEN b[k - Len(a)]
                 ELSE c[k - Len(a) - Len(b)]
    BY <1>1, <1>2, <2>1, <2>2, <2>3, <2>4
  <2> QED
    BY <2>5 DEF ThirdOf, abc, ab
<1> QED
  BY <1>1, <1>2, <1>4

(* reversed_sections gives each place of the tour the group of another. *)
LEMMA SectionSlots ==
  ASSUME NEW S, NEW t \in Seq(S), NEW i \in 1..Len(t), NEW j \in 1..Len(t)
  PROVE  /\ Section(t, i, j) \in Seq(S) /\ Len(Section(t, i, j)) = Len(t)
         /\ \A k \in 1..Len(t) : Section(t, i, j)[k] = t[Turned(Len(t), i, j, k)]
<1>1. CASE i <= j
  <2> DEFINE a == SubSeq(t, 1, i - 1)
             m == SubSeq(t, i, j)
             b == Reverse(m)
             c == SubSeq(t, j + 1, Len(t))
             n == Len(t)
  <2>0. n \in Nat
    OBVIOUS
  <2>1. /\ a \in Seq(S) /\ Len(a) = i - 1
        /\ \A k \in 1..(i - 1) : a[k] = t[k]
    BY SubSeqSlots
  <2>2. /\ m \in Seq(S) /\ Len(m) = j - i + 1
        /\ \A k \in 1..(j - i + 1) : m[k] = t[i + k - 1]
    BY <1>1, SubSeqSlots
  <2>3. /\ c \in Seq(S) /\ Len(c) = n - j
        /\ \A k \in 1..(n - j) : c[k] = t[j + k]
    BY SubSeqSlots
  <2> HIDE DEF a, m, c
  <2>4. b \in Seq(S) /\ Len(b) = j - i + 1
    BY <2>2, ReverseSlots
  <2>5. ASSUME NEW k \in 1..(j - i + 1) PROVE b[k] = t[j - k + 1]
    <3>1. b[k] = m[Len(m) - k + 1]
      BY <2>2, ReverseSlots
    <3>2. Len(m) - k + 1 \in 1..(j - i + 1) /\ i + (Len(m) - k + 1) - 1 = j - k + 1
      BY <2>2
    <3> QED
      BY <2>2, <3>1, <3>2
  <2>6. Section(t, i, j) = a \o b \o c
    BY <1>1 DEF Section, a, m, c
  <2> HIDE DEF b
  <2>7. Section(t, i, j) \in Seq(S) /\ Len(Section(t, i, j)) = n
    <3>1. a \in Seq(S) /\ b \in Seq(S) /\ c \in Seq(S)
      BY <2>1, <2>3, <2>4
    <3>2. a \o b \o c \in Seq(S) /\ Len(a \o b \o c) = Len(a) + Len(b) + Len(c)
      BY <3>1, ThreeSlots
    <3>3. Len(a) + Len(b) + Len(c) = n
      BY <2>0, <2>1, <2>3, <2>4
    <3> QED
      BY <2>6, <3>2, <3>3
  <2>8. ASSUME NEW k \in 1..n
        PROVE  Section(t, i, j)[k] = t[Turned(n, i, j, k)]
    <3>1. k \in 1..Len(a \o b \o c)
      BY <2>6, <2>7
    <3>2. Section(t, i, j)[k] = IF k <= i - 1 THEN a[k]
                                ELSE IF k <= j THEN b[k - (i - 1)]
                                ELSE c[k - j]
      <4>1. (a \o b \o c)[k] = IF k <= Len(a) THEN a[k]
                               ELSE IF k <= Len(a) + Len(b) THEN b[k - Len(a)]
                               ELSE c[k - Len(a) - Len(b)]
        <5>1. a \in Seq(S) /\ b \in Seq(S) /\ c \in Seq(S)
          BY <2>1, <2>3, <2>4
        <5>2. ThirdOf(a, b, c, k)
          BY <3>1, <5>1, ThreeSlots
        <5> QED
          BY <5>2 DEF ThirdOf
      <4>2. Len(a) = i - 1 /\ Len(a) + Len(b) = j /\ k - Len(a) - Len(b) = k - j
        BY <2>0, <2>1, <2>4
      <4> QED
        BY <2>6, <4>1, <4>2
    <3> HIDE DEF n
    <3>3. CASE k <= i - 1
      BY <1>1, <2>0, <2>1, <3>2, <3>3 DEF Turned
    <3>4. CASE i <= k /\ k <= j
      <4>1. k - (i - 1) \in 1..(j - i + 1) /\ j - (k - (i - 1)) + 1 = i + j - k
        BY <3>4
      <4> QED
        BY <1>1, <2>0, <2>5, <3>2, <3>4, <4>1 DEF Turned
    <3>5. CASE k > j
      <4>1. k - j \in 1..(n - j) /\ j + (k - j) = k
        BY <2>0, <3>5
      <4> QED
        BY <1>1, <2>0, <2>3, <3>2, <3>5, <4>1 DEF Turned
    <3> QED
      BY <3>3, <3>4, <3>5
  <2> QED
    BY <2>7, <2>8
<1>2. CASE i > j
  <2> DEFINE n == Len(t)
             x == SubSeq(t, i + 1, Len(t))
             y == SubSeq(t, 1, j - 1)
             a == Reverse(x)
             b == SubSeq(t, j, i)
             c == Reverse(y)
  <2>0. n \in Nat
    OBVIOUS
  <2>1. /\ x \in Seq(S) /\ Len(x) = n - i
        /\ \A k \in 1..(n - i) : x[k] = t[i + k]
    BY SubSeqSlots
  <2>2. /\ b \in Seq(S) /\ Len(b) = i - j + 1
        /\ \A k \in 1..(i - j + 1) : b[k] = t[j + k - 1]
    BY <1>2, SubSeqSlots
  <2>3. /\ y \in Seq(S) /\ Len(y) = j - 1
        /\ \A k \in 1..(j - 1) : y[k] = t[k]
    BY SubSeqSlots
  <2> HIDE DEF x, y, b
  <2>4. a \in Seq(S) /\ Len(a) = n - i
    BY <2>1, ReverseSlots
  <2>5. c \in Seq(S) /\ Len(c) = j - 1
    BY <2>3, ReverseSlots
  <2>9. ASSUME NEW k \in 1..(n - i) PROVE a[k] = t[n + 1 - k]
    <3>1. a[k] = x[Len(x) - k + 1]
      BY <2>1, ReverseSlots
    <3>2. Len(x) - k + 1 \in 1..(n - i) /\ i + (Len(x) - k + 1) = n + 1 - k
      BY <2>0, <2>1
    <3> QED
      BY <2>1, <3>1, <3>2
  <2>10. ASSUME NEW k \in 1..(j - 1) PROVE c[k] = t[j - k]
    <3>1. c[k] = y[Len(y) - k + 1]
      BY <2>3, ReverseSlots
    <3>2. Len(y) - k + 1 \in 1..(j - 1) /\ Len(y) - k + 1 = j - k
      BY <2>3
    <3> QED
      BY <2>3, <3>1, <3>2
  <2>6. Section(t, i, j) = a \o b \o c
    <3>1. ~(i <= j)
      BY <1>2
    <3> QED
      BY <3>1 DEF Section, x, y, b
  <2> HIDE DEF a, c
  <2>7. Section(t, i, j) \in Seq(S) /\ Len(Section(t, i, j)) = n
    <3>1. a \in Seq(S) /\ b \in Seq(S) /\ c \in Seq(S)
      BY <2>2, <2>4, <2>5
    <3>2. a \o b \o c \in Seq(S) /\ Len(a \o b \o c) = Len(a) + Len(b) + Len(c)
      BY <3>1, ThreeSlots
    <3>3. Len(a) + Len(b) + Len(c) = n
      BY <2>0, <2>2, <2>4, <2>5
    <3> QED
      BY <2>6, <3>2, <3>3
  <2>8. ASSUME NEW k \in 1..n
        PROVE  Section(t, i, j)[k] = t[Turned(n, i, j, k)]
    <3>1. k \in 1..Len(a \o b \o c)
      BY <2>6, <2>7
    <3>2. Section(t, i, j)[k] = IF k <= n - i THEN a[k]
                                ELSE IF k <= n - j + 1 THEN b[k - (n - i)]
                                ELSE c[k - (n - j + 1)]
      <4>1. (a \o b \o c)[k] = IF k <= Len(a) THEN a[k]
                               ELSE IF k <= Len(a) + Len(b) THEN b[k - Len(a)]
                               ELSE c[k - Len(a) - Len(b)]
        <5>1. a \in Seq(S) /\ b \in Seq(S) /\ c \in Seq(S)
          BY <2>2, <2>4, <2>5
        <5>2. ThirdOf(a, b, c, k)
          BY <3>1, <5>1, ThreeSlots
        <5> QED
          BY <5>2 DEF ThirdOf
      <4>2. /\ Len(a) = n - i /\ Len(a) + Len(b) = n - j + 1
            /\ k - Len(a) - Len(b) = k - (n - j + 1)
        BY <2>0, <2>2, <2>4
      <4> QED
        BY <2>6, <4>1, <4>2
    <3> HIDE DEF n
    <3>3. CASE k <= n - i
      <4>1. k \in 1..(n - i)
        BY <2>0, <3>3
      <4>2. a[k] = t[n + 1 - k]
        BY <2>9, <4>1
      <4> QED
        BY <1>2, <2>0, <3>2, <3>3, <4>2 DEF Turned
    <3>4. CASE n - i < k /\ k <= n - j + 1
      <4>1. /\ k - (n - i) \in 1..(i - j + 1)
            /\ j + (k - (n - i)) - 1 = k + i + j - n - 1
            /\ ~(k <= n - i)
        BY <1>2, <2>0, <3>4
      <4>2. b[k - (n - i)] = t[k + i + j - n - 1]
        BY <2>2, <4>1
      <4> QED
        BY <1>2, <2>0, <3>2, <3>4, <4>1, <4>2 DEF Turned
    <3>5. CASE k > n - j + 1
      <4> DEFINE l == k - (n - j + 1)
      <4>1. /\ l \in 1..(j - 1) /\ j - l = n + 1 - k
            /\ ~(k <= n - i) /\ ~(k <= n - j + 1)
        BY <1>2, <2>0, <3>5
      <4> HIDE DEF l
      <4>2. c[l] = t[n + 1 - k]
        BY <2>10, <4>1
      <4>3. Turned(n, i, j, k) = n + 1 - k
        BY <1>2, <2>0, <3>5, <4>1 DEF Turned
      <4>4. Section(t, i, j)[k] = c[l]
        BY <3>2, <4>1 DEF l
      <4> QED
        BY <4>2, <4>3, <4>4
    <3> QED
      BY <2>0, <3>3, <3>4, <3>5
  <2> QED
    BY <2>7, <2>8
<1> QED
  BY <1>1, <1>2

(* So it is a tour of the same groups. *)
LEMMA SectionVisits ==
  ASSUME NEW names \in SUBSET Range(Alphabet), NEW t, Visits(t, names),
         NEW i \in DOMAIN t, NEW j \in DOMAIN t
  PROVE  Visits(Section(t, i, j), names)
<1> DEFINE n == Len(t)
           s == Section(t, i, j)
<1>1. /\ t \in Seq(names) /\ n = Cardinality(names) /\ n \in Nat
      /\ DOMAIN t = 1..n
  BY TourSeq
<1>2. i \in 1..n /\ j \in 1..n
  BY <1>1
<1>3. /\ s \in Seq(names) /\ Len(s) = n
      /\ \A k \in 1..n : s[k] = t[Turned(n, i, j, k)]
  BY <1>1, <1>2, SectionSlots
<1> HIDE DEF n, s
<1>4. /\ \A k \in 1..n : Turned(n, i, j, k) \in 1..n /\ Now(n, i, j, k) \in 1..n
      /\ \A k \in 1..n : Turned(n, i, j, Now(n, i, j, k)) = k
  BY <1>1, <1>2, TurnedBijection
<1>5. s \in [1..Cardinality(names) -> names]
  BY <1>1, <1>3
<1>6. names \subseteq Range(s)
  <2>1. SUFFICES ASSUME NEW x \in names PROVE x \in Range(s)
    OBVIOUS
  <2>2. PICK k \in 1..n : t[k] = x
    BY <1>1 DEF Visits, Range
  <2>3. s[Now(n, i, j, k)] = x /\ Now(n, i, j, k) \in 1..n
    BY <1>3, <1>4, <2>2
  <2> QED
    BY <1>1, <1>5, <2>3 DEF Range
<1>7. Range(s) = names
  BY <1>5, <1>6 DEF Range
<1> QED
  BY <1>5, <1>7, EachOnce DEF s

(* The number of a group in an order of all groups. *)
LEMMA NumberOf ==
  ASSUME NEW names \in SUBSET Range(Alphabet), NEW t, Visits(t, names), NEW x \in names
  PROVE  IndexIn(t, x) \in 1..Cardinality(names) /\ t[IndexIn(t, x)] = x
<1>1. \E k \in DOMAIN t : t[k] = x
  BY DEF Visits, Range
<1>2. IndexIn(t, x) \in DOMAIN t /\ t[IndexIn(t, x)] = x
  BY <1>1 DEF IndexIn
<1> QED
  BY <1>2 DEF Visits

LEMMA NumberIs ==
  ASSUME NEW names \in SUBSET Range(Alphabet), NEW t, Visits(t, names),
         NEW k \in 1..Cardinality(names)
  PROVE  t[k] \in names /\ IndexIn(t, t[k]) = k
<1>1. t[k] \in names
  BY DEF Visits
<1>2. IndexIn(t, t[k]) \in 1..Cardinality(names) /\ t[IndexIn(t, t[k])] = t[k]
  BY <1>1, NumberOf
<1> QED
  BY <1>1, <1>2 DEF Visits, IsInjective

(* sort_area_groups numbers the groups without gaps, whatever order the    *)
(* dictionary has them in. *)
LEMMA SortIsOnto ==
  ASSUME NEW names \in SUBSET Range(Alphabet), NEW keys, Visits(keys, names),
         NEW path, Visits(path, names),
         NEW idx, idx = [n \in names |-> IndexIn(keys, path[IndexIn(keys, n)])]
  PROVE  Range(idx) = 1..Cardinality(names)
<1>1. ASSUME NEW n \in names
      PROVE  idx[n] \in 1..Cardinality(names)
  <2>1. IndexIn(keys, n) \in 1..Cardinality(names)
    BY NumberOf
  <2>2. path[IndexIn(keys, n)] \in names
    BY <2>1, NumberIs
  <2> QED
    BY <2>2, NumberOf
<1>2. ASSUME NEW k \in 1..Cardinality(names)
      PROVE  \E n \in names : idx[n] = k
  <2>1. keys[k] \in names /\ IndexIn(keys, keys[k]) = k
    BY NumberIs
  <2> DEFINE i == IndexIn(path, keys[k])
  <2>2. i \in 1..Cardinality(names) /\ path[i] = keys[k]
    BY <2>1, NumberOf
  <2> HIDE DEF i
  <2>3. keys[i] \in names /\ IndexIn(keys, keys[i]) = i
    BY <2>2, NumberIs
  <2>4. idx[keys[i]] = k
    BY <2>1, <2>2, <2>3
  <2> QED
    BY <2>3, <2>4
<1>3. DOMAIN idx = names
  OBVIOUS
<1> QED
  BY <1>1, <1>2, <1>3 DEF Range
-----------------------------------------------------------------------------
LEMMA InOrderVisits ==
  ASSUME NEW names \in SUBSET Range(Alphabet), NEW order, NEW s \in InOrder(order, names)
  PROVE  Visits(s, names)
  BY EachOnce DEF InOrder

LEMMA SameLength ==
  ASSUME placed' = placed, NEW t, best' = t
  PROVE  TourLength(best)' = TourLength(t)
  BY DEF TourLength, Leg

LEMMA SameLengthTour ==
  ASSUME placed' = placed, NEW t, tour' = t
  PROVE  TourLength(tour)' = TourLength(t)
  BY DEF TourLength, Leg

(* The annealing starts with the first tour for the best. *)
LEMMA StartTourToured ==
  ASSUME IInv, StartTour
  PROVE  Toured'
<1>1. Tables /\ DOMAIN placed \in SUBSET Range(Alphabet)
  BY DEF IInv, Tables, GroupTable
<1>2. placed' = placed /\ best' = tour' /\ phase' = "tour"
  BY DEF StartTour, placeVars
<1>3. Visits(tour', DOMAIN placed)
  BY <1>1, InOrderVisits DEF StartTour
<1>4. TourLength(tour') \in Nat
  BY <1>1, <1>3, LengthType
<1>5. TourLength(tour)' = TourLength(tour') /\ TourLength(best)' = TourLength(tour')
  BY <1>2, SameLength, SameLengthTour
<1>6. TourLength(best)' <= TourLength(tour)'
  BY <1>4, <1>5
<1> QED
  BY <1>2, <1>3, <1>6 DEF Toured

(* An evaluated tour that is shorter than the best replaces it; the one    *)
(* the annealing is at was evaluated. *)
LEMMA EvaluateToured ==
  ASSUME IInv, Toured, Evaluate
  PROVE  Toured'
<1>1. Tables /\ DOMAIN placed \in SUBSET Range(Alphabet)
  BY DEF IInv, Tables, GroupTable
<1>2. placed' = placed /\ phase' = "tour" /\ phase = "tour"
  BY DEF Evaluate, placeVars
<1>3. /\ Visits(tour, DOMAIN placed) /\ Visits(best, DOMAIN placed)
      /\ TourLength(best) <= TourLength(tour)
  BY <1>2 DEF Toured
<1>4. PICK next \in Moves(tour) :
        /\ best' = IF Better(next, best) THEN next ELSE best
        /\ tour' = next \/ (TourLength(next) > TourLength(tour) /\ tour' = tour)
  BY DEF Evaluate
<1>5. Visits(next, DOMAIN placed)
  BY <1>1, <1>3, SectionVisits DEF Moves
<1>6. /\ TourLength(next) \in Nat /\ TourLength(best) \in Nat /\ TourLength(tour) \in Nat
  BY <1>1, <1>3, <1>5, LengthType
<1>7. Visits(tour', DOMAIN placed) /\ Visits(best', DOMAIN placed)
  BY <1>3, <1>4, <1>5
<1>8. TourLength(best)' <= TourLength(next) /\ TourLength(best)' <= TourLength(best)
  <2>1. CASE Better(next, best)
    <3>1. TourLength(best)' = TourLength(next)
      BY <1>2, <1>4, <2>1, SameLength
    <3> QED
      BY <1>6, <2>1, <3>1 DEF Better
  <2>2. CASE ~Better(next, best)
    <3>1. TourLength(best)' = TourLength(best)
      BY <1>2, <1>4, <2>2, SameLength
    <3> QED
      BY <1>6, <2>2, <3>1 DEF Better
  <2> QED
    BY <2>1, <2>2
<1>9. TourLength(best)' \in Nat
  BY <1>2, <1>4, <1>6, SameLength
<1>10. TourLength(best)' <= TourLength(tour)'
  <2>1. TourLength(tour)' \in {TourLength(next), TourLength(tour)}
    BY <1>2, <1>4, SameLengthTour
  <2> QED
    BY <1>3, <1>6, <1>8, <1>9, <2>1
<1> QED
  BY <1>2, <1>7, <1>10 DEF Toured

LEMMA FinishTourToured ==
  ASSUME IInv, Toured, FinishTour
  PROVE  Toured'
<1>1. DOMAIN placed \in SUBSET Range(Alphabet)
  BY DEF IInv, Tables, GroupTable
<1>2. placed' = placed /\ best' = best /\ tour' = tour /\ phase = "tour"
  BY DEF FinishTour, placeVars
<1>3. /\ Visits(tour, DOMAIN placed) /\ Visits(best, DOMAIN placed)
      /\ TourLength(best) <= TourLength(tour)
  BY <1>2 DEF Toured
<1>4. PICK order \in DictOrders :
        \E keys \in InOrder(order, DOMAIN placed) :
          sortIdx' = [n \in DOMAIN placed |-> IndexIn(keys, best[IndexIn(keys, n)])]
  BY DEF FinishTour
<1>5. Range(sortIdx') = 1..Cardinality(DOMAIN placed)
  <2>1. PICK keys \in InOrder(order, DOMAIN placed) :
          sortIdx' = [n \in DOMAIN placed |-> IndexIn(keys, best[IndexIn(keys, n)])]
    BY <1>4
  <2>2. Visits(keys, DOMAIN placed)
    BY <1>1, InOrderVisits
  <2> QED
    BY <1>1, <1>3, <2>1, <2>2, SortIsOnto
<1>6. TourLength(best)' = TourLength(best) /\ TourLength(tour)' = TourLength(tour)
  BY <1>2, SameLength, SameLengthTour
<1> QED
  BY <1>2, <1>3, <1>5, <1>6 DEF Toured

LEMMA TouredInit == Init => Toured
  BY DEF Init, Toured

LEMMA TouredStep == IInv /\ Toured /\ [Next]_vars => Toured'
<1> SUFFICES ASSUME IInv, Toured, [Next]_vars
             PROVE  Toured'
  OBVIOUS
<1>1. CASE StartBuild \/ SolveBatch \/ SolveFails \/ StoreAreaConstraints
  <2>1. phase' \notin {"tour", "done"}
    BY <1>1 DEF StartBuild, SolveBatch, SolveFails, StoreAreaConstraints
  <2> QED
    BY <2>1 DEF Toured
<1>2. CASE StartTour
  BY <1>2, StartTourToured
<1>3. CASE Evaluate
  BY <1>3, EvaluateToured
<1>4. CASE FinishTour
  BY <1>4, FinishTourToured
<1>5. CASE UNCHANGED vars
  <2>1. UNCHANGED <<phase, placed, tour, best, sortIdx>>
    BY <1>5 DEF vars
  <2>2. TourLength(best)' = TourLength(best) /\ TourLength(tour)' = TourLength(tour)
    BY <2>1, SameLength, SameLengthTour
  <2> QED
    BY <2>1, <2>2 DEF Toured
<1> QED
  BY <1>1, <1>2, <1>3, <1>4, <1>5 DEF Next

(* The annealing returns a tour of all the groups that is no longer than   *)
(* the one it is at, and the groups are numbered from 1 without gaps       *)
(* (tsp.py:58, area_group_tool.py:391). *)
THEOREM TheTourIsBest == Spec => []TourIsBest
<1>1. IInv /\ Toured => TourIsBest
  <2>1. SUFFICES ASSUME IInv, Toured, phase \in {"tour", "done"}
                 PROVE  Range(best) = DOMAIN placed /\ Len(best) = Cardinality(DOMAIN placed)
    BY DEF TourIsBest, Toured
  <2>2. DOMAIN placed \in SUBSET Range(Alphabet) /\ Visits(best, DOMAIN placed)
    BY <2>1 DEF IInv, Tables, GroupTable, Toured
  <2> QED
    BY <2>2, TourSeq DEF Visits
<1> QED
  BY <1>1, TouredInit, TouredStep, PlacementInvariant, PTL DEF Spec
-----------------------------------------------------------------------------
(* The powers of b, up to the k-th.                                        *)
Powered(g, b, k) == g = [i \in 0..k |-> IF i = 0 THEN 1 ELSE b * g[i - 1]]

LEMMA PoweredNext ==
  ASSUME NEW b, NEW k \in Nat, NEW g, Powered(g, b, k),
         NEW h, h = [i \in 0..(k + 1) |-> IF i <= k THEN g[i] ELSE b * g[k]]
  PROVE  Powered(h, b, k + 1)
<1>1. \A i \in 0..k : g[i] = IF i = 0 THEN 1 ELSE b * g[i - 1]
  BY DEF Powered
<1>2. /\ \A i \in 0..k : h[i] = g[i]
      /\ h[k + 1] = b * g[k]
  OBVIOUS
<1>3. ASSUME NEW i \in 0..(k + 1)
      PROVE  h[i] = IF i = 0 THEN 1 ELSE b * h[i - 1]
  <2>1. CASE i = 0
    BY <1>1, <1>2, <2>1
  <2>2. CASE i # 0 /\ i = k + 1
    BY <1>2, <2>2
  <2>3. CASE i # 0 /\ i # k + 1
    <3>1. i \in 0..k /\ i - 1 \in 0..k
      BY <2>3
    <3>2. h[i] = g[i] /\ h[i - 1] = g[i - 1] /\ g[i] = b * g[i - 1]
      BY <1>1, <1>2, <2>3, <3>1
    <3> QED
      BY <2>3, <3>2
  <2> QED
    BY <2>1, <2>2, <2>3
<1>4. h = [i \in 0..(k + 1) |-> h[i]]
  OBVIOUS
<1>5. h = [i \in 0..(k + 1) |-> IF i = 0 THEN 1 ELSE b * h[i - 1]]
  BY ONLY <1>3, <1>4
<1> QED
  BY <1>5 DEF Powered

LEMMA PoweredExists ==
  ASSUME NEW b, NEW n \in Nat
  PROVE  \E g : Powered(g, b, n)
<1> DEFINE T == {k \in Nat : \E g : Powered(g, b, k)}
<1>1. 0 \in T
  <2>1. Powered([i \in 0..0 |-> 1], b, 0)
    BY DEF Powered
  <2> QED
    BY <2>1
<1>2. ASSUME NEW k \in Nat, k \in T PROVE k + 1 \in T
  <2>1. PICK g : Powered(g, b, k)
    BY <1>2
  <2>2. Powered([i \in 0..(k + 1) |-> IF i <= k THEN g[i] ELSE b * g[k]], b, k + 1)
    BY <2>1, PoweredNext
  <2> QED
    BY <2>2
<1> HIDE DEF T
<1>3. n \in T
  BY <1>1, <1>2, SetInduction
<1> QED
  BY <1>3 DEF T

LEMMA PoweredAgree ==
  ASSUME NEW b, NEW m \in Nat, NEW g, Powered(g, b, m), NEW h, Powered(h, b, m + 1)
  PROVE  g[m] = h[m]
<1> DEFINE T == {k \in Nat : k <= m => g[k] = h[k]}
<1>1. /\ \A i \in 0..m : g[i] = IF i = 0 THEN 1 ELSE b * g[i - 1]
      /\ \A i \in 0..(m + 1) : h[i] = IF i = 0 THEN 1 ELSE b * h[i - 1]
  BY DEF Powered
<1>2. 0 \in T
  BY <1>1
<1>3. ASSUME NEW k \in Nat, k \in T PROVE k + 1 \in T
  <2>1. SUFFICES ASSUME k + 1 <= m PROVE g[k + 1] = h[k + 1]
    OBVIOUS
  <2>2. g[k] = h[k]
    BY <1>3, <2>1
  <2>3. g[k + 1] = b * g[k] /\ h[k + 1] = b * h[k]
    BY <1>1, <2>1
  <2> QED
    BY <2>2, <2>3
<1> HIDE DEF T
<1>4. m \in T
  BY <1>2, <1>3, SetInduction
<1> QED
  BY <1>4 DEF T

LEMMA PowerNext ==
  ASSUME NEW b, NEW k \in Nat
  PROVE  Power(b, 0) = 1 /\ Power(b, k + 1) = b * Power(b, k)
<1> DEFINE p(n) == CHOOSE g : Powered(g, b, n)
<1>1. \A n : Power(b, n) = p(n)[n]
  BY DEF Power, Powered
<1>2. \A n \in Nat : Powered(p(n), b, n)
  BY PoweredExists
<1> HIDE DEF p
<1>3. Power(b, 0) = 1
  <2>1. p(0)[0] = 1
    BY <1>2 DEF Powered
  <2> QED
    BY <1>1, <2>1
<1>4. p(k + 1)[k + 1] = b * p(k + 1)[k]
  <2>1. Powered(p(k + 1), b, k + 1)
    BY <1>2
  <2>2. \A g : Powered(g, b, k + 1) => g[k + 1] = b * g[k]
    BY DEF Powered
  <2> QED
    BY <2>1, <2>2
<1>5. p(k)[k] = p(k + 1)[k]
  <2>1. Powered(p(k), b, k) /\ Powered(p(k + 1), b, k + 1)
    BY <1>2
  <2> QED
    BY <2>1, PoweredAgree
<1> QED
  BY <1>1, <1>3, <1>4, <1>5

LEMMA PowerType ==
  ASSUME NEW b \in Nat, NEW n \in Nat
  PROVE  Power(b, n) \in Nat
<1> DEFINE T == {k \in Nat : Power(b, k) \in Nat}
<1>1. 0 \in T
  BY PowerNext
<1>2. ASSUME NEW k \in Nat, k \in T PROVE k + 1 \in T
  <2>1. Power(b, k + 1) = b * Power(b, k) /\ Power(b, k) \in Nat
    BY <1>2, PowerNext
  <2> QED
    BY <2>1
<1> HIDE DEF T
<1>3. n \in T
  BY <1>1, <1>2, SetInduction
<1> QED
  BY <1>3 DEF T

LEMMA Scaled == \A x, y, z \in Nat : x <= y => z * x <= z * y
  OBVIOUS

LEMMA PowersGrow ==
  ASSUME NEW n \in Nat
  PROVE  Power(100, n) <= Power(101, n)
<1> DEFINE T == {k \in Nat : Power(100, k) <= Power(101, k)}
<1>1. 0 \in T
  BY PowerNext
<1>2. ASSUME NEW k \in Nat, k \in T PROVE k + 1 \in T
  <2>1. /\ Power(100, k + 1) = 100 * Power(100, k) /\ Power(101, k + 1) = 101 * Power(101, k)
        /\ Power(100, k) \in Nat /\ Power(101, k) \in Nat /\ Power(100, k) <= Power(101, k)
    BY <1>2, PowerNext, PowerType
  <2> QED
    BY <2>1
<1> HIDE DEF T
<1>3. n \in T
  BY <1>1, <1>2, SetInduction
<1> QED
  BY <1>3 DEF T

(* An area is as near to itself as can be. *)
LEMMA NearSelf ==
  ASSUME NEW a \in Nat, NEW k \in Nat
  PROVE  Near(a, a, k)
<1> DEFINE p == Power(100, k)
           q == Power(101, k)
<1>1. p \in Nat /\ q \in Nat /\ p <= q
  BY PowerType, PowersGrow
<1> HIDE DEF p, q
<1>2. p * a <= q * a
  <2>1. a * p <= a * q
    BY <1>1, Scaled
  <2>2. a * p = p * a /\ a * q = q * a
    BY <1>1
  <2> QED
    BY <2>1, <2>2
<1> QED
  BY <1>2 DEF Near, p, q

(* One more change of less than a hundredth. *)
LEMMA NearStep ==
  ASSUME NEW a \in Nat, NEW s \in Nat, NEW r \in Nat, NEW k \in Nat,
         Near(s, r, k), Unchanged(a, s)
  PROVE  Near(a, r, k + 1)
<1> DEFINE p == Power(100, k)
           q == Power(101, k)
<1>1. /\ p \in Nat /\ q \in Nat /\ p * s <= q * r /\ p * r <= q * s
      /\ Power(100, k + 1) = 100 * p /\ Power(101, k + 1) = 101 * q
  BY PowerType, PowerNext DEF Near
<1> HIDE DEF p, q
<1>2. 100 * a <= 101 * s /\ 100 * s <= 101 * a
  BY DEF Unchanged
<1>3. p * (100 * a) <= p * (101 * s) /\ q * (100 * s) <= q * (101 * a)
  <2>1. 100 * a \in Nat /\ 101 * s \in Nat /\ 100 * s \in Nat /\ 101 * a \in Nat
    OBVIOUS
  <2> QED
    BY <1>1, <1>2, <2>1, Scaled
<1> DEFINE pa == p * a
           ps == p * s
           pr == p * r
           qa == q * a
           qs == q * s
           qr == q * r
<1>4. /\ p * (100 * a) = 100 * pa /\ p * (101 * s) = 101 * ps
      /\ q * (100 * s) = 100 * qs /\ q * (101 * a) = 101 * qa
      /\ (100 * p) * a = 100 * pa /\ (101 * q) * r = 101 * qr
      /\ (100 * p) * r = 100 * pr /\ (101 * q) * a = 101 * qa
      /\ pa \in Nat /\ ps \in Nat /\ pr \in Nat /\ qa \in Nat /\ qs \in Nat /\ qr \in Nat
  BY <1>1
<1>5. ps <= qr /\ pr <= qs
  BY <1>1
<1> HIDE DEF pa, ps, pr, qa, qs, qr
<1>6. (100 * p) * a <= (101 * q) * r /\ (100 * p) * r <= (101 * q) * a
  BY <1>3, <1>4, <1>5
<1> QED
  BY <1>1, <1>6 DEF Near
-----------------------------------------------------------------------------
(* The shapes of a group, whether one is chosen or not, are among those    *)
(* that some elaboration gives it, for an area k changes away.             *)
Tracks(made, group, n, k) ==
  \E t \in made : /\ n \in DOMAIN t
                  /\ Range(group.dims) \subseteq Range(t[n].dims)
                  /\ Near(group.area, t[n].area, k)
AllTrack(made, groups, k) == \A n \in DOMAIN groups \ {Cache} : Tracks(made, groups[n], n, k)

(* What is placed began with an elaboration of this build or with a shape  *)
(* stored in the one before.                                               *)
Drift ==
  /\ builds \in Nat
  /\ builds = 0 => DOMAIN stored = {}
  /\ \A n \in DOMAIN stored : stored[n].area \in Nat
  /\ phase = "start" /\ builds >= 1 => AllTrack(Elaborations[file], stored, builds - 1)
  /\ phase \in {"place", "tour", "done"} =>
       /\ builds >= 1
       /\ original \in Elaborations[file]
       /\ AllTrack(Elaborations[file], wanted, builds - 1)
       /\ AllTrack(Elaborations[file], placed, builds - 1)

LEMMA FreshTracks ==
  ASSUME NEW made, NEW groups \in made, GroupTable(groups), NEW k \in Nat
  PROVE  AllTrack(made, groups, k)
<1>1. SUFFICES ASSUME NEW n \in DOMAIN groups
               PROVE  Tracks(made, groups[n], n, k)
  BY DEF AllTrack
<1>2. groups[n].area \in Nat
  BY DEF GroupTable, Group
<1>3. Near(groups[n].area, groups[n].area, k)
  BY <1>2, NearSelf
<1> QED
  BY <1>3 DEF Tracks

(* Every start of the placement leaves all groups but the cache as they    *)
(* are. *)
LEMMA StartBatchesTrack ==
  ASSUME NEW made, NEW k, NEW groups, GroupTable(groups), AllTrack(made, groups, k),
         NEW first, NEW size, StartBatches(groups, first, size)
  PROVE  AllTrack(made, wanted', k) /\ AllTrack(made, placed', k)
<1> DEFINE special == SpecialPosition(groups)
<1>1. DOMAIN special = DOMAIN groups /\ \A n \in DOMAIN groups \ {Cache} : special[n] = groups[n]
  BY SpecialKeeps, SpecialKeepsOthers
<1>2. wanted' = special /\ placed' = [n \in Located(special) |-> special[n]]
  BY DEF StartBatches
<1> HIDE DEF special
<1>3. AllTrack(made, special, k)
  BY <1>1 DEF AllTrack
<1>4. AllTrack(made, placed', k)
  BY <1>2, <1>3 DEF AllTrack, Located
<1> QED
  BY <1>2, <1>3, <1>4

(* A shape that is reused is one change further from its elaboration.      *)
LEMMA ReusedTracks ==
  ASSUME \A n \in DOMAIN stored : stored[n].area \in Nat,
         NEW made, \A t \in made : GroupTable(t), NEW groups \in made,
         NEW k \in Nat, AllTrack(made, stored, k)
  PROVE  AllTrack(made, Reused(groups), k + 1)
<1>1. SUFFICES ASSUME NEW n \in DOMAIN groups, n # Cache
               PROVE  Tracks(made, Reused(groups)[n], n, k + 1)
  BY DEF AllTrack, Reused
<1> DEFINE g == groups[n]
           r == Reused(groups)[n]
<1>2. g \in Group /\ g.area \in Nat
  BY DEF GroupTable, Group
<1>3. CASE n \in DOMAIN stored /\ Unchanged(g.area, stored[n].area)
  <2>1. r.dims = stored[n].dims /\ r.area = g.area
    BY <1>2, <1>3 DEF Reused, Group
  <2>2. Tracks(made, stored[n], n, k)
    BY <1>1, <1>3 DEF AllTrack
  <2>3. PICK t \in made : /\ n \in DOMAIN t
                          /\ Range(stored[n].dims) \subseteq Range(t[n].dims)
                          /\ Near(stored[n].area, t[n].area, k)
    BY <2>2 DEF Tracks
  <2>4. t[n].area \in Nat /\ stored[n].area \in Nat
    BY <1>3, <2>3 DEF GroupTable, Group
  <2> HIDE DEF g, r
  <2>5. Near(r.area, t[n].area, k + 1)
    BY <1>2, <1>3, <2>1, <2>3, <2>4, NearStep
  <2> QED
    BY <2>1, <2>3, <2>5 DEF Tracks, r
<1>4. CASE ~(n \in DOMAIN stored /\ Unchanged(g.area, stored[n].area))
  <2>1. r = g
    BY <1>4 DEF Reused
  <2>2. AllTrack(made, groups, k + 1)
    BY FreshTracks
  <2> QED
    BY <1>1, <2>1, <2>2 DEF AllTrack
<1> QED
  BY <1>3, <1>4

LEMMA ElaborationTables ==
  ASSUME NEW f \in Files, NEW t \in Elaborations[f]
  PROVE  GroupTable(t)
<1>1. PICK report \in Reports :
        Legal(Elaborated(f, report)) /\ t = AreaGroups(Elaborated(f, report), EmitPlatform)
  BY DEF Elaborations
<1> QED
  BY <1>1, GroupsAssumption

LEMMA StartBuildDrift ==
  ASSUME IInv, Drift, StartBuild
  PROVE  Drift'
<1> DEFINE made == Elaborations[file]
           b == builds
<1>1. /\ b \in Nat /\ builds' = b + 1 /\ stored' = stored /\ file' = file /\ file \in Files
      /\ phase = "start"
  BY DEF StartBuild, Drift, IInv, Tables
<1>2. \A t \in made : GroupTable(t)
  BY <1>1, ElaborationTables
<1>3. PICK report \in Reports :
        IF ~Legal(Elaborated(file, report)) THEN phase' = "failed"
        ELSE /\ original' = AreaGroups(Elaborated(file, report), EmitPlatform)
             /\ phase' = "place"
             /\ IF stored = <<>> THEN StartBatches(original', FALSE, 1)
                ELSE StartBatches(Reused(original'), TRUE, 1)
  BY DEF StartBuild
<1>4. CASE phase' = "failed"
  BY <1>1, <1>4 DEF Drift
<1>5. CASE Legal(Elaborated(file, report))
  <2> DEFINE groups == AreaGroups(Elaborated(file, report), EmitPlatform)
  <2>1. groups \in made
    BY <1>1, <1>5 DEF Elaborations
  <2>2. /\ original' = groups /\ phase' = "place"
        /\ IF stored = <<>> THEN StartBatches(groups, FALSE, 1)
           ELSE StartBatches(Reused(groups), TRUE, 1)
    BY <1>3, <1>5
  <2> HIDE DEF groups
  <2>3. GroupTable(groups) /\ AllTrack(made, groups, b)
    BY <1>1, <1>2, <2>1, FreshTracks
  <2>4. AllTrack(made, Reused(groups), b)
    <3>1. CASE b = 0
      <4>1. DOMAIN stored = {}
        BY <3>1 DEF Drift
      <4>2. \A n \in DOMAIN groups : Reused(groups)[n] = groups[n]
        BY <4>1 DEF Reused
      <4>3. DOMAIN Reused(groups) = DOMAIN groups
        BY DEF Reused
      <4> QED
        BY <2>3, <4>2, <4>3 DEF AllTrack
    <3>2. CASE b >= 1
      <4>1. b - 1 \in Nat /\ AllTrack(made, stored, b - 1)
        BY <1>1, <3>2 DEF Drift
      <4>2. AllTrack(made, Reused(groups), (b - 1) + 1)
        BY <1>2, <2>1, <4>1, ReusedTracks DEF Drift
      <4>3. (b - 1) + 1 = b
        BY <1>1
      <4> QED
        BY <4>2, <4>3
    <3> QED
      BY <1>1, <3>1, <3>2
  <2>5. GroupTable(Reused(groups))
    BY <2>3, ReusedKeeps DEF IInv
  <2> HIDE DEF made, b
  <2>6. AllTrack(made, wanted', b) /\ AllTrack(made, placed', b)
    BY <2>2, <2>3, <2>4, <2>5, StartBatchesTrack
  <2>7. builds' - 1 = b /\ builds' \in Nat /\ builds' >= 1 /\ phase' # "start"
    BY <1>1, <2>2
  <2> QED
    BY <1>1, <2>1, <2>2, <2>6, <2>7 DEF Drift, made
<1> QED
  BY <1>3, <1>4, <1>5

(* A solution has one of the shapes of every group. *)
LEMMA SolutionTracks ==
  ASSUME IInv, NEW at \in Corner, NEW shape \in Shape, NEW n \in DOMAIN Given
  PROVE  LET t == Solution(at, shape)[n]
         IN  t.area = Given[n].area /\ Range(t.dims) \subseteq Range(Given[n].dims)
<1> DEFINE g == Given[n]
           open == {m \in DOMAIN Given : Len(Given[m].dims) > 1}
           t == Solution(at, shape)[n]
           x == IF n \in Batch THEN at[n] ELSE g.loc
           d == IF n \in DOMAIN shape THEN <<g.dims[shape[n]]>> ELSE g.dims
<1>1. g \in Group
  BY BatchWaits DEF GroupTable
<1>2. t = [[g EXCEPT !.loc = x] EXCEPT !.dims = d]
  BY <1>1 DEF Solution, Group
<1>3. g.dims \in Seq(Size) /\ Len(g.dims) \in {1, 4}
  BY <1>1, FieldTypes
<1>4. DOMAIN shape = open /\ (n \in open => shape[n] \in 1..4)
  BY DEF Shape
<1>5. t.dims = d /\ t.area = g.area
  BY <1>1, <1>2 DEF Group
<1>6. Range(d) \subseteq Range(g.dims)
  <2>1. CASE n \in open
    <3>1. Len(g.dims) = 4
      <4>1. Len(g.dims) > 1
        BY <2>1
      <4>2. \A k \in {1, 4} : k > 1 => k = 4
        OBVIOUS
      <4> HIDE DEF g
      <4> QED
        BY <4>1, <4>2, <1>3
    <3>2. shape[n] \in DOMAIN g.dims
      BY <1>3, <1>4, <2>1, <3>1
    <3>3. d = <<g.dims[shape[n]]>>
      BY <2>1, <1>4
    <3>4. \A e : Range(<<e>>) = {e}
      BY DEF Range
    <3> HIDE DEF d
    <3> QED
      BY <3>2, <3>3, <3>4 DEF Range
  <2>2. CASE n \notin open
    BY <1>4, <2>2
  <2> QED
    BY <2>1, <2>2
<1> HIDE DEF t, d, g
<1> QED
  BY <1>5, <1>6 DEF t, g

LEMMA SolveBatchDrift ==
  ASSUME IInv, Drift, SolveBatch
  PROVE  Drift'
<1> DEFINE made == Elaborations[file]
           k == builds - 1
<1>1. PICK at \in Corner, shape \in Shape : placed' = Solution(at, shape)
  BY DEF SolveBatch
<1>2. UNCHANGED <<file, phase, builds, stored, wanted, original>> /\ phase = "place"
  BY DEF SolveBatch
<1>3. DOMAIN Given = DOMAIN placed \cup Batch /\ Batch \subseteq DOMAIN wanted
  BY BatchWaits
<1>4. AllTrack(made, wanted, k) /\ AllTrack(made, placed, k)
  BY <1>2 DEF Drift
<1> HIDE DEF made, k
<1>5. ASSUME NEW n \in DOMAIN Given, n # Cache
      PROVE  Tracks(made, Given[n], n, k)
  BY <1>3, <1>4, <1>5 DEF Given, AllTrack
<1>6. DOMAIN placed' = DOMAIN Given
  BY <1>1 DEF Solution
<1>7. ASSUME NEW n \in DOMAIN placed', n # Cache
      PROVE  Tracks(made, placed'[n], n, k)
  <2>1. Tracks(made, Given[n], n, k)
    BY <1>5, <1>6, <1>7
  <2>2. placed'[n].area = Given[n].area /\ Range(placed'[n].dims) \subseteq Range(Given[n].dims)
    BY <1>1, <1>6, SolutionTracks
  <2> QED
    BY <2>1, <2>2 DEF Tracks
<1>8. AllTrack(made, placed', k)
  BY <1>7 DEF AllTrack
<1> QED
  BY <1>2, <1>8 DEF Drift, made, k

LEMMA SolveFailsDrift ==
  ASSUME IInv, Drift, SolveFails
  PROVE  Drift'
<1> DEFINE made == Elaborations[file]
           k == builds - 1
<1>1. UNCHANGED <<file, builds, stored, original>> /\ phase = "place"
  BY DEF SolveFails
<1>2. \/ phase' = "failed"
      \/ phase' = "place" /\ \/ StartBatches(wanted, reuse, batch + 1)
                             \/ StartBatches(original, FALSE, 1)
  BY DEF SolveFails
<1>3. /\ AllTrack(made, wanted, k) /\ original \in made /\ builds \in Nat /\ builds >= 1
      /\ GroupTable(wanted) /\ GroupTable(original)
  BY <1>1 DEF Drift, IInv, Tables
<1>4. k \in Nat
  BY <1>3
<1> HIDE DEF made, k
<1>5. CASE phase' = "failed"
  BY <1>1, <1>5 DEF Drift
<1>6. CASE phase' = "place" /\ StartBatches(wanted, reuse, batch + 1)
  <2>1. AllTrack(made, wanted', k) /\ AllTrack(made, placed', k)
    BY <1>3, <1>6, StartBatchesTrack
  <2> QED
    BY <1>1, <1>3, <1>6, <2>1 DEF Drift, made, k
<1>7. CASE phase' = "place" /\ StartBatches(original, FALSE, 1)
  <2>1. AllTrack(made, original, k)
    BY <1>3, <1>4, FreshTracks
  <2>2. AllTrack(made, wanted', k) /\ AllTrack(made, placed', k)
    BY <1>3, <1>7, <2>1, StartBatchesTrack
  <2> QED
    BY <1>1, <1>3, <1>7, <2>2 DEF Drift, made, k
<1> QED
  BY <1>2, <1>5, <1>6, <1>7

LEMMA StoreDrift ==
  ASSUME IInv, Drift, StoreAreaConstraints
  PROVE  Drift'
<1>1. /\ file' = file /\ builds' = builds /\ phase' = "start" /\ phase = "done"
      /\ stored' = [n \in DOMAIN placed |-> [area |-> placed[n].area, dims |-> placed[n].dims]]
  BY DEF StoreAreaConstraints
<1>2. \A n \in DOMAIN stored' : stored'[n].area \in Nat
  BY <1>1 DEF IInv, Tables, GroupTable, Group
<1>3. AllTrack(Elaborations[file], stored', builds - 1)
  BY <1>1 DEF Drift, AllTrack, Tracks
<1> QED
  BY <1>1, <1>2, <1>3 DEF Drift

LEMMA SameDrift ==
  ASSUME Drift, UNCHANGED <<file, builds, stored, original, placed, wanted>>,
         phase' = phase \/ {phase, phase'} \subseteq {"place", "tour", "done"}
  PROVE  Drift'
  BY DEF Drift

LEMMA DriftInit == Init => Drift
  BY EmptyTable DEF Init, Drift

LEMMA DriftStep == IInv /\ Drift /\ [Next]_vars => Drift'
<1> SUFFICES ASSUME IInv, Drift, [Next]_vars
             PROVE  Drift'
  OBVIOUS
<1>1. CASE StartBuild
  BY <1>1, StartBuildDrift
<1>2. CASE SolveBatch
  BY <1>2, SolveBatchDrift
<1>3. CASE SolveFails
  BY <1>3, SolveFailsDrift
<1>4. CASE StartTour
  BY <1>4, SameDrift DEF StartTour, placeVars
<1>5. CASE Evaluate
  BY <1>5, SameDrift DEF Evaluate, placeVars
<1>6. CASE FinishTour
  BY <1>6, SameDrift DEF FinishTour, placeVars
<1>7. CASE StoreAreaConstraints
  BY <1>7, StoreDrift
<1>8. CASE UNCHANGED vars
  BY <1>8, SameDrift DEF vars
<1> QED
  BY <1>1, <1>2, <1>3, <1>4, <1>5, <1>6, <1>7, <1>8 DEF Next

(* However many builds a shape has been reused for, it is one that         *)
(* elaboration gives the group for an area that is within a hundredth per  *)
(* build of the area the group has now (area_group_tool.py:331-343): a     *)
(* restart with larger batches, and one without reuse, compare with the    *)
(* right areas. *)
THEOREM ShapesStayNear == Spec => []ShapesFollowAreas
<1>1. ASSUME IInv, Drift PROVE ShapesFollowAreas
  <2>1. SUFFICES ASSUME phase \in {"tour", "done"}, NEW n \in DOMAIN placed \ {Cache}
                 PROVE  \E t \in Elaborations[file] :
                          /\ n \in DOMAIN t /\ placed[n].dims[1] \in Range(t[n].dims)
                          /\ Near(placed[n].area, t[n].area, builds - 1)
    BY DEF ShapesFollowAreas
  <2>2. Tracks(Elaborations[file], placed[n], n, builds - 1)
    BY <1>1, <2>1 DEF Drift, AllTrack
  <2>3. placed[n].dims[1] \in Range(placed[n].dims)
    <3>1. placed[n] \in Group
      BY <1>1 DEF IInv, Tables, GroupTable
    <3>2. 1 \in DOMAIN placed[n].dims
      BY <3>1, FieldTypes
    <3> QED
      BY <3>2 DEF Range
  <2> QED
    BY <2>2, <2>3 DEF Tracks
<1> QED
  BY <1>1, DriftInit, DriftStep, PlacementInvariant, PTL DEF Spec
=============================================================================
