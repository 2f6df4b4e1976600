-------------------------- MODULE SynthTreeProofs --------------------------
(***************************************************************************)
(* The tree of wrappers is right for every program, both cuts, both passes *)
(* and every order of the area groups: there is a name for each node, each *)
(* end of a connection is wired or handed to the platform, and each chain  *)
(* is one ring, in the order of the area groups, with its buffers counted  *)
(* between the right root modules.                                         *)
(*                                                                         *)
(* The argument.  CutInv: every cut leaves two parts that are not empty,   *)
(* so a call on k modules takes k - 1 names, and the calls and the slots   *)
(* of the tree partition the modules.  EmitInv: emitWrappersRecurse is on  *)
(* one path of that tree, and every node gets its wrapper after its        *)
(* children and once.  JoinInv: of the modules whose parent has no wrapper *)
(* yet, `open' ones, one holds each end that is not wired; a reference     *)
(* leads from a wrapper to a child's connection with the same root.        *)
(* ThreadInv: the hops written for a chain make one line of the modules    *)
(* below each open module on it, from its input's root to its output's.    *)
(* OrderInv: the first half of every node precedes the second, so a hop,   *)
(* from the first to the second, goes up in the order.                     *)
(***************************************************************************)
EXTENDS SynthTree, QueueLemmas, FiniteSetTheorems, TLAPS

-----------------------------------------------------------------------------
(***************************************************************************)
(* Cuts.                                                                   *)
(***************************************************************************)
(* A side of a cut: some of the nodes, and not all.                        *)
Sides(nodes) == (SUBSET nodes) \ {{}, nodes}

LEMMA LeastIn ==
  ASSUME NEW S, S \subseteq Nat, S # {}
  PROVE  Min(S) \in S /\ \A y \in S : Min(S) <= y
  BY LeastNat DEF Min

LEMMA LeastIs ==
  ASSUME NEW S, S \subseteq Nat, NEW x \in S, \A y \in S : x <= y
  PROVE  Min(S) = x
  <1>1. Min(S) \in S /\ \A y \in S : Min(S) <= y
    BY LeastIn
  <1>2. Min(S) <= x /\ x <= Min(S) /\ Min(S) \in Nat /\ x \in Nat
    BY <1>1
  <1>3. QED
    BY <1>2

(* Some member of a set has the least value of a function.                 *)
LEMMA LeastOf ==
  ASSUME NEW S, NEW f, S # {}, \A x \in S : f[x] \in Nat
  PROVE  \E x \in S : \A y \in S : f[x] <= f[y]
  <1> DEFINE V == {f[x] : x \in S}
  <1>1. V \subseteq Nat /\ V # {}
    OBVIOUS
  <1> HIDE DEF V
  <1>2. PICK v \in V : \A w \in V : v <= w
    BY <1>1, LeastNat
  <1>3. QED
    BY <1>2 DEF V

CutEdges(edges, X) == {e \in edges : e[1] \in X /\ e[2] \notin X}

LEMMA CutValueType ==
  ASSUME NEW edges, IsFiniteSet(edges), NEW X
  PROVE  /\ IsFiniteSet(CutEdges(edges, X))
         /\ CutValue(edges, X) = Cardinality(CutEdges(edges, X))
         /\ CutValue(edges, X) \in Nat
  <1>1. CutEdges(edges, X) \in SUBSET edges
    BY DEF CutEdges
  <1>2. IsFiniteSet(CutEdges(edges, X))
    BY <1>1, FS_Subset
  <1>3. CutValue(edges, X) = Cardinality(CutEdges(edges, X))
    BY DEF CutValue, CutEdges
  <1>4. QED
    BY <1>2, <1>3, FS_CardinalityType

(* Two sides cost no less than what they have in common and together.      *)
LEMMA CutValues ==
  ASSUME NEW edges, IsFiniteSet(edges), NEW X, NEW Y
  PROVE  CutValue(edges, X \cap Y) + CutValue(edges, X \cup Y)
           <= CutValue(edges, X) + CutValue(edges, Y)
  <1> DEFINE A == CutEdges(edges, X \cap Y)
             B == CutEdges(edges, X \cup Y)
             C == CutEdges(edges, X)
             D == CutEdges(edges, Y)
  <1>1. IsFiniteSet(A) /\ IsFiniteSet(B) /\ IsFiniteSet(C) /\ IsFiniteSet(D)
    BY CutValueType
  <1>2. A \cup B \in SUBSET (C \cup D) /\ A \cap B \in SUBSET (C \cap D)
    BY DEF CutEdges
  <1>3. /\ CutValue(edges, X \cap Y) = Cardinality(A) /\ CutValue(edges, X \cup Y) = Cardinality(B)
        /\ CutValue(edges, X) = Cardinality(C) /\ CutValue(edges, Y) = Cardinality(D)
    BY CutValueType
  <1> HIDE DEF A, B, C, D
  <1>4. /\ IsFiniteSet(C \cup D)
        /\ Cardinality(A \cup B) = Cardinality(A) + Cardinality(B) - Cardinality(A \cap B)
        /\ Cardinality(C \cup D) = Cardinality(C) + Cardinality(D) - Cardinality(C \cap D)
    BY <1>1, FS_Union
  <1>5. IsFiniteSet(A \cap B) /\ IsFiniteSet(C \cap D)
    BY <1>1, FS_Intersection
  <1>6. IsFiniteSet(A \cup B)
    BY <1>1, FS_Union
  <1>7. Cardinality(A \cup B) <= Cardinality(C \cup D)
    BY <1>2, <1>4, FS_Subset
  <1>8. Cardinality(A \cap B) <= Cardinality(C \cap D)
    BY <1>2, <1>5, FS_Subset
  <1>9. /\ Cardinality(A) \in Nat /\ Cardinality(B) \in Nat /\ Cardinality(C) \in Nat
        /\ Cardinality(D) \in Nat /\ Cardinality(A \cap B) \in Nat /\ Cardinality(C \cap D) \in Nat
    BY <1>1, <1>5, FS_CardinalityType
  <1>10. QED
    BY <1>3, <1>4, <1>7, <1>8, <1>9

LEMMA FirstPairType ==
  ASSUME NEW nodes, nodes \subseteq Nat, NEW X \in Sides(nodes)
  PROVE  /\ Min(X) \in X /\ \A x \in X : Min(X) <= x
         /\ Min(nodes \ X) \in nodes \ X /\ \A x \in nodes \ X : Min(nodes \ X) <= x
         /\ Min(X) \in Nat /\ Min(nodes \ X) \in Nat
  <1>1. X \subseteq Nat /\ X # {} /\ nodes \ X \subseteq Nat /\ nodes \ X # {}
    BY DEF Sides
  <1>2. QED
    BY <1>1, LeastIn

Meet(X, Y) == X \cap Y
Cheapest(nodes, edges, X) ==
  /\ nodes \subseteq Nat /\ IsFiniteSet(edges) /\ X \in Sides(nodes)
  /\ \A W \in Sides(nodes) : CutValue(edges, X) <= CutValue(edges, W)

(* Among the cheapest sides of the same first pair there is a least one:   *)
(* what two of them have in common is another.                             *)
LEMMA CheapestMeet ==
  ASSUME NEW nodes, NEW edges, NEW X, Cheapest(nodes, edges, X),
         NEW Y \in Sides(nodes), CutValue(edges, Y) = CutValue(edges, X),
         FirstPair(nodes, X) = FirstPair(nodes, Y), NEW Z, Z = Meet(X, Y)
  PROVE  /\ Z \in Sides(nodes)
         /\ CutValue(edges, Z) = CutValue(edges, X)
         /\ FirstPair(nodes, Z) = FirstPair(nodes, X)
  <1> DEFINE p == Min(X)
             q == Min(nodes \ X)
  <1> USE DEF Meet
  <1>0. /\ nodes \subseteq Nat /\ IsFiniteSet(edges) /\ X \in Sides(nodes)
        /\ \A W \in Sides(nodes) : CutValue(edges, X) <= CutValue(edges, W)
    BY DEF Cheapest
  <1>1. Min(Y) = p /\ Min(nodes \ Y) = q
    BY DEF FirstPair
  <1>2. /\ p \in X /\ \A x \in X : p <= x
        /\ q \in nodes \ X /\ \A x \in nodes \ X : q <= x
    BY <1>0, FirstPairType
  <1>3. /\ p \in Y /\ \A x \in Y : p <= x
        /\ q \in nodes \ Y /\ \A x \in nodes \ Y : q <= x
    BY <1>0, <1>1, FirstPairType
  <1> HIDE DEF p, q
  <1>4. Z \in Sides(nodes) /\ X \cup Y \in Sides(nodes)
    BY <1>0, <1>2, <1>3 DEF Sides
  <1>5. CutValue(edges, X) <= CutValue(edges, Z) /\ CutValue(edges, X) <= CutValue(edges, X \cup Y)
    BY <1>0, <1>4
  <1>6. CutValue(edges, Z) + CutValue(edges, X \cup Y) <= CutValue(edges, X) + CutValue(edges, Y)
    BY <1>0, CutValues
  <1>7. /\ CutValue(edges, Z) \in Nat /\ CutValue(edges, X \cup Y) \in Nat
        /\ CutValue(edges, X) \in Nat /\ CutValue(edges, Y) \in Nat
    BY <1>0, CutValueType
  <1>8. CutValue(edges, Z) = CutValue(edges, X)
    BY <1>5, <1>6, <1>7
  <1>9. Min(Z) = p
    <2>1. Z \subseteq Nat
      BY <1>0 DEF Sides
    <2>2. QED
      BY <1>2, <1>3, <2>1, LeastIs
  <1>10. Min(nodes \ Z) = q
    <2>1. nodes \ Z \subseteq Nat
      BY <1>0
    <2>2. q \in nodes \ Z /\ \A x \in nodes \ Z : q <= x
      BY <1>2, <1>3
    <2>3. QED
      BY <2>1, <2>2, LeastIs
  <1>11. FirstPair(nodes, Z) = FirstPair(nodes, X)
    BY <1>9, <1>10 DEF FirstPair, p, q
  <1>12. QED
    BY <1>4, <1>8, <1>11

(* min_cut: some side is preferred to all others, so what it returns is a  *)
(* side: neither of the two parts is empty.                                *)
LEMMA MinCutProper ==
  ASSUME NEW nodes, nodes \subseteq Nat, IsFiniteSet(nodes), NEW edges, IsFiniteSet(edges),
         Cardinality(nodes) >= 2
  PROVE  MinCut(nodes, edges) \in Sides(nodes)
  <1> DEFINE F == Sides(nodes)
             Value == [X \in F |-> CutValue(edges, X)]
  <1>1. F # {}
    <2>1. nodes # {}
      BY FS_EmptySet
    <2>2. PICK x \in nodes : TRUE
      BY <2>1
    <2>3. {x} # nodes
      <3>1. Cardinality({x}) = 1
        BY FS_Singleton
      <3>2. QED
        BY <3>1
    <2>4. QED
      BY <2>2, <2>3 DEF Sides
  <1>2. \A X \in F : CutValue(edges, X) \in Nat
    BY CutValueType
  <1>3. PICK X0 \in F : \A Y \in F : Value[X0] <= Value[Y]
    <2>1. \A X \in F : Value[X] \in Nat
      BY <1>2
    <2> HIDE DEF F, Value
    <2>2. QED
      BY <1>1, <2>1, LeastOf
  <1> DEFINE v == CutValue(edges, X0)
             G == {X \in F : CutValue(edges, X) = v}
  <1>4. \A Y \in F : v <= CutValue(edges, Y)
    BY <1>3
  <1>5. G # {} /\ \A X \in G : Min(X) \in Nat /\ Min(nodes \ X) \in Nat
    <2>1. X0 \in G
      BY <1>3
    <2>2. QED
      BY <2>1, FirstPairType
  <1>6. PICK X1 \in G : \A Y \in G : Min(X1) <= Min(Y)
    <2> DEFINE f == [X \in G |-> Min(X)]
    <2>1. \A X \in G : f[X] \in Nat
      BY <1>5
    <2>2. PICK X \in G : \A Y \in G : f[X] <= f[Y]
      <3> HIDE DEF f, G
      <3>1. QED
        BY <1>5, <2>1, LeastOf
    <2>3. \A Y \in G : f[Y] = Min(Y)
      OBVIOUS
    <2>4. QED
      BY <2>2, <2>3
  <1> DEFINE p == Min(X1)
             H == {X \in G : Min(X) = p}
  <1>7. PICK X2 \in H : \A Y \in H : Min(nodes \ X2) <= Min(nodes \ Y)
    <2> DEFINE f == [X \in H |-> Min(nodes \ X)]
    <2>1. \A X \in H : f[X] \in Nat
      BY <1>5
    <2>2. H # {}
      BY <1>6
    <2>3. PICK X \in H : \A Y \in H : f[X] <= f[Y]
      <3> HIDE DEF f, H
      <3>1. QED
        BY <2>1, <2>2, LeastOf
    <2>4. \A Y \in H : f[Y] = Min(nodes \ Y)
      OBVIOUS
    <2>5. QED
      BY <2>3, <2>4
  <1> DEFINE q == Min(nodes \ X2)
             K == {X \in H : Min(nodes \ X) = q}
  <1>8. PICK X3 \in K : \A Y \in K : Cardinality(X3) <= Cardinality(Y)
    <2> DEFINE f == [X \in K |-> Cardinality(X)]
    <2>1. \A X \in K : f[X] \in Nat
      <3>1. \A X \in K : IsFiniteSet(X)
        BY FS_Subset DEF Sides
      <3>2. QED
        BY <3>1, FS_CardinalityType
    <2>2. K # {}
      BY <1>7
    <2>3. PICK X \in K : \A Y \in K : f[X] <= f[Y]
      <3> HIDE DEF f, K
      <3>1. QED
        BY <2>1, <2>2, LeastOf
    <2>4. \A Y \in K : f[Y] = Cardinality(Y)
      OBVIOUS
    <2>5. QED
      BY <2>3, <2>4
  <1>9. X3 \in F /\ CutValue(edges, X3) = v /\ Min(X3) = p /\ Min(nodes \ X3) = q
    BY <1>8
  <1>10. ASSUME NEW Y \in F PROVE Prefer(nodes, edges, X3, Y)
    <2>1. CASE CutValue(edges, Y) # v
      <3>1. v <= CutValue(edges, Y) /\ v \in Nat /\ CutValue(edges, Y) \in Nat
        BY <1>4, <1>2, <1>3
      <3>2. CutValue(edges, X3) < CutValue(edges, Y)
        BY <1>9, <2>1, <3>1
      <3>3. QED
        BY <3>2 DEF Prefer
    <2>2. CASE Y \in G /\ Min(Y) # p
      <3>1. p <= Min(Y) /\ p \in Nat /\ Min(Y) \in Nat
        BY <2>2, <1>6, <1>5
      <3>2. Earlier(FirstPair(nodes, X3), FirstPair(nodes, Y))
        BY <1>9, <2>2, <3>1 DEF Earlier, FirstPair
      <3>3. QED
        BY <1>9, <2>2, <3>2 DEF Prefer
    <2>3. CASE Y \in H /\ Min(nodes \ Y) # q
      <3>1. q <= Min(nodes \ Y) /\ q \in Nat /\ Min(nodes \ Y) \in Nat
        BY <2>3, <1>7, <1>5
      <3>2. Earlier(FirstPair(nodes, X3), FirstPair(nodes, Y))
        BY <1>9, <2>3, <3>1 DEF Earlier, FirstPair
      <3>3. QED
        BY <1>9, <2>3, <3>2 DEF Prefer
    <2>4. CASE Y \in K
      <3>1. CutValue(edges, Y) = v /\ Min(Y) = p /\ Min(nodes \ Y) = q
        BY <2>4
      <3>2. FirstPair(nodes, X3) = FirstPair(nodes, Y)
        BY <1>9, <3>1 DEF FirstPair
      <3>3. Cheapest(nodes, edges, X3)
        BY <1>4, <1>9 DEF Cheapest
      <3>4. PICK Z : Z = Meet(X3, Y)
        OBVIOUS
      <3>5. Z \in K
        <4>1. X3 \in Sides(nodes) /\ Y \in Sides(nodes) /\ CutValue(edges, Y) = CutValue(edges, X3)
          BY <1>9, <3>1
        <4>2. /\ Z \in Sides(nodes)
              /\ CutValue(edges, Z) = CutValue(edges, X3)
              /\ FirstPair(nodes, Z) = FirstPair(nodes, X3)
          BY <3>2, <3>3, <3>4, <4>1, CheapestMeet
        <4>3. QED
          BY <4>2, <1>9 DEF FirstPair
      <3>6. Cardinality(X3) <= Cardinality(Z)
        BY <3>5, <1>8
      <3>7. IsFiniteSet(X3)
        BY <1>9, FS_Subset DEF Sides
      <3>8. Cardinality(Z) = Cardinality(X3)
        <4>1. Cardinality(Z) <= Cardinality(X3) /\ IsFiniteSet(Z)
          BY <3>4, <3>7, FS_Intersection DEF Meet
        <4>2. Cardinality(Z) \in Nat /\ Cardinality(X3) \in Nat
          BY <3>7, <4>1, FS_CardinalityType
        <4>3. QED
          BY <3>6, <4>1, <4>2
      <3>9. Z = X3
        <4>1. Z \in SUBSET X3
          BY <3>4 DEF Meet
        <4>2. QED
          BY <3>7, <3>8, <4>1, FS_Subset
      <3>10. X3 \subseteq Y
        BY <3>4, <3>9 DEF Meet
      <3>11. QED
        BY <1>9, <3>1, <3>2, <3>10 DEF Prefer
    <2>5. QED
      BY <2>1, <2>2, <2>3, <2>4
  <1>11. MinCut(nodes, edges) = CHOOSE X \in F : \A Y \in F : Prefer(nodes, edges, X, Y)
    BY <1>1 DEF MinCut, Sides
  <1>12. QED
    BY <1>9, <1>10, <1>11

LEMMA FewerIn ==
  ASSUME NEW A, NEW B, IsFiniteSet(B), A \subseteq B, NEW x \in B, x \notin A
  PROVE  IsFiniteSet(A) /\ Cardinality(A) < Cardinality(B) /\ Cardinality(A) \in Nat /\ Cardinality(B) \in Nat
  <1>1. A \in SUBSET B /\ A # B
    OBVIOUS
  <1>2. IsFiniteSet(A) /\ Cardinality(A) <= Cardinality(B) /\ Cardinality(A) # Cardinality(B)
    BY <1>1, FS_Subset
  <1>3. Cardinality(A) \in Nat /\ Cardinality(B) \in Nat
    BY <1>2, FS_CardinalityType
  <1>4. QED
    BY <1>2, <1>3

(* placement_cut: the first module in the order is on one side, the last   *)
(* on the other.                                                           *)
LEMMA PlacementCutProper ==
  ASSUME NEW M, NEW ord \in [M -> Int], IsInjective(ord),
         NEW nodes, nodes \subseteq M, IsFiniteSet(nodes), Cardinality(nodes) >= 2
  PROVE  PlacementCut(nodes, ord) \in Sides(nodes)
  <1> DEFINE Less(m) == {n \in nodes : ord[n] < ord[m]}
             size == Cardinality(nodes)
             low == [m \in nodes |-> Cardinality(Less(m))]
             high == [m \in nodes |-> size - Cardinality(Less(m))]
  <1>1. \A m \in nodes : ord[m] \in Int
    OBVIOUS
  <1>2. size \in Nat
    BY FS_CardinalityType
  <1>3. \A m \in nodes : IsFiniteSet(Less(m)) /\ Cardinality(Less(m)) \in Nat /\ Cardinality(Less(m)) <= size
    <2>1. TAKE m \in nodes
    <2>2. Less(m) \in SUBSET nodes
      OBVIOUS
    <2>3. IsFiniteSet(Less(m)) /\ Cardinality(Less(m)) <= size
      BY <2>2, FS_Subset
    <2>4. QED
      BY <2>3, FS_CardinalityType
  <1>4. nodes # {}
    BY FS_EmptySet
  <1>5. \A m, x \in nodes : ord[x] < ord[m] => Cardinality(Less(x)) < Cardinality(Less(m))
    <2>1. TAKE m, x \in nodes
    <2>2. HAVE ord[x] < ord[m]
    <2>3. Less(x) \subseteq Less(m) /\ x \in Less(m) /\ x \notin Less(x)
      BY <1>1, <2>2
    <2> HIDE DEF Less
    <2>4. QED
      BY <1>3, <2>3, FewerIn
  <1>6. PICK lo \in nodes : \A m \in nodes : Cardinality(Less(lo)) <= Cardinality(Less(m))
    <2>1. \A m \in nodes : low[m] \in Nat
      BY <1>3
    <2>2. PICK lo \in nodes : \A m \in nodes : low[lo] <= low[m]
      <3> HIDE DEF low
      <3>1. QED
        BY <1>4, <2>1, LeastOf
    <2>3. QED
      BY <2>2
  <1>7. PICK hi \in nodes : \A m \in nodes : Cardinality(Less(m)) <= Cardinality(Less(hi))
    <2>1. \A m \in nodes : high[m] \in Nat
      BY <1>2, <1>3
    <2>2. PICK hi \in nodes : \A m \in nodes : high[hi] <= high[m]
      <3> HIDE DEF high
      <3>1. QED
        BY <1>4, <2>1, LeastOf
    <2>3. \A m \in nodes : size - Cardinality(Less(hi)) <= size - Cardinality(Less(m))
      BY <2>2
    <2>4. \A m \in nodes : Cardinality(Less(m)) \in Nat
      BY <1>3
    <2> HIDE DEF Less, size
    <2>5. QED
      BY <1>2, <2>3, <2>4
  <1>8. Cardinality(Less(lo)) = 0
    <2>1. ASSUME NEW x \in Less(lo) PROVE FALSE
      <3>1. x \in nodes /\ ord[x] < ord[lo]
        OBVIOUS
      <3>2. Cardinality(Less(x)) < Cardinality(Less(lo)) /\ Cardinality(Less(lo)) <= Cardinality(Less(x))
        BY <1>5, <1>6, <3>1
      <3>3. Cardinality(Less(x)) \in Nat /\ Cardinality(Less(lo)) \in Nat
        BY <1>3, <3>1
      <3>4. QED
        BY <3>2, <3>3
    <2>2. Less(lo) = {}
      BY <2>1
    <2>3. QED
      BY <2>2, FS_EmptySet
  <1>9. Cardinality(Less(hi)) = size - 1
    <2>1. ASSUME NEW x \in nodes, x # hi PROVE ord[x] < ord[hi]
      <3>1. ord[x] # ord[hi]
        BY <2>1 DEF IsInjective
      <3>2. ~(ord[hi] < ord[x])
        <4>1. SUFFICES ASSUME ord[hi] < ord[x] PROVE FALSE
          OBVIOUS
        <4>2. Cardinality(Less(hi)) < Cardinality(Less(x)) /\ Cardinality(Less(x)) <= Cardinality(Less(hi))
          BY <1>5, <1>7, <4>1
        <4>3. Cardinality(Less(x)) \in Nat /\ Cardinality(Less(hi)) \in Nat
          BY <1>3
        <4>4. QED
          BY <4>2, <4>3
      <3>3. QED
        BY <1>1, <3>1, <3>2
    <2>2. Less(hi) = nodes \ {hi}
      BY <1>1, <2>1
    <2>3. QED
      BY <2>2, FS_RemoveElement
  <1>10. lo \in PlacementCut(nodes, ord)
    BY <1>2, <1>8 DEF PlacementCut
  <1>11. hi \notin PlacementCut(nodes, ord)
    BY <1>2, <1>9 DEF PlacementCut
  <1>12. PlacementCut(nodes, ord) \subseteq nodes
    BY DEF PlacementCut
  <1>13. QED
    BY <1>10, <1>11, <1>12 DEF Sides

-----------------------------------------------------------------------------
(***************************************************************************)
(* Stacks: the calls of the two recursions.                                *)
(***************************************************************************)
LEMMA Popped ==
  ASSUME NEW X, NEW q \in Seq(X), q # << >>
  PROVE  /\ Len(q) \in Nat /\ Len(q) >= 1
         /\ Last(q) = q[Len(q)] /\ Last(q) \in X
         /\ Front(q) \in Seq(X) /\ Len(Front(q)) = Len(q) - 1
         /\ \A i \in 1 .. (Len(q) - 1) : Front(q)[i] = q[i]
  <1>1. Len(q) \in Nat /\ Len(q) >= 1
    OBVIOUS
  <1>2. Last(q) = q[Len(q)] /\ Front(q) = SubSeq(q, 1, Len(q) - 1)
    BY DEF Last, Front
  <1>3. PICK k \in Nat : k = Len(q) - 1
    BY <1>1
  <1>4. \A i \in 1 .. k : q[i] \in X
    BY <1>1, <1>3
  <1>5. /\ SubSeq(q, 1, k) \in Seq(X)
        /\ Len(SubSeq(q, 1, k)) = IF 1 <= k THEN k - 1 + 1 ELSE 0
        /\ \A i \in 1 .. (k - 1 + 1) : SubSeq(q, 1, k)[i] = q[1 + i - 1]
    BY <1>4, SubSeqProperties
  <1>6. k - 1 + 1 = k /\ (IF 1 <= k THEN k ELSE 0) = k /\ \A i \in 1 .. k : 1 + i - 1 = i
    OBVIOUS
  <1>7. QED
    BY <1>1, <1>2, <1>3, <1>5, <1>6

(* Every entry is on the stack once.                                       *)
Once(q) == \A i, j \in 1 .. Len(q) : q[i] = q[j] => i = j
Entries(q) == {q[i] : i \in 1 .. Len(q)}

LEMMA NoEntries ==
  ASSUME NEW X, NEW q \in Seq(X)
  PROVE  q = << >> <=> Entries(q) = {}
  <1>1. q = << >> => Entries(q) = {}
    BY DEF Entries
  <1>2. ASSUME q # << >> PROVE q[1] \in Entries(q)
    <2>1. 1 \in 1 .. Len(q)
      BY <1>2
    <2>2. QED
      BY <2>1 DEF Entries
  <1>3. QED
    BY <1>1, <1>2

LEMMA PoppedOnce ==
  ASSUME NEW X, NEW q \in Seq(X), q # << >>, Once(q)
  PROVE  /\ Once(Front(q)) /\ Last(q) \in Entries(q)
         /\ Entries(Front(q)) = Entries(q) \ {Last(q)}
  <1> DEFINE f == Front(q)
             n == Len(q)
  <1>1. n \in Nat /\ n >= 1 /\ Last(q) = q[n] /\ Len(f) = n - 1
        /\ \A i \in 1 .. (n - 1) : f[i] = q[i]
    BY Popped
  <1>2. \A i, j \in 1 .. n : q[i] = q[j] => i = j
    BY DEF Once
  <1> HIDE DEF f, n
  <1>3. Once(f)
    <2>1. \A i \in 1 .. (n - 1) : i \in 1 .. n
      BY <1>1
    <2>2. QED
      BY <1>1, <1>2, <2>1 DEF Once
  <1>4. Last(q) \in Entries(q)
    BY <1>1 DEF Entries, n
  <1>5. ASSUME NEW x PROVE x \in Entries(f) <=> x \in Entries(q) \ {Last(q)}
    <2>1. ASSUME x \in Entries(f) PROVE x \in Entries(q) \ {Last(q)}
      <3>1. PICK i \in 1 .. (n - 1) : x = q[i]
        BY <1>1, <2>1 DEF Entries
      <3>2. i \in 1 .. n /\ n \in 1 .. n /\ i # n
        BY <1>1
      <3>3. x # q[n]
        BY <1>2, <3>1, <3>2
      <3>4. QED
        BY <1>1, <3>1, <3>2, <3>3 DEF Entries, n
    <2>2. ASSUME x \in Entries(q), x # Last(q) PROVE x \in Entries(f)
      <3>1. PICK i \in 1 .. n : x = q[i]
        BY <2>2 DEF Entries, n
      <3>2. i \in 1 .. (n - 1)
        BY <1>1, <2>2, <3>1
      <3>3. QED
        BY <1>1, <3>1, <3>2 DEF Entries
    <2>3. QED
      BY <2>1, <2>2
  <1>6. QED
    BY <1>3, <1>4, <1>5 DEF f

Onto(q, s) == q \o s
Push(q, x) == q \o << x >>

LEMMA PushedOnce ==
  ASSUME NEW X, NEW q \in Seq(X), Once(q), NEW x \in X, x \notin Entries(q),
         NEW r, r = Push(q, x)
  PROVE  /\ r \in Seq(X) /\ Once(r) /\ Entries(r) = Entries(q) \cup {x}
         /\ Len(r) = Len(q) + 1
         /\ \A i \in 1 .. Len(q) : r[i] = q[i]
         /\ r[Len(r)] = x
  <1> DEFINE n == Len(q)
  <1>1. /\ r \in Seq(X) /\ Len(r) = n + 1 /\ n \in Nat
        /\ \A i \in 1 .. n : r[i] = q[i]
        /\ r[n + 1] = x
    BY DEF Push
  <1>2. \A i \in 1 .. n : q[i] # x
    BY DEF Entries
  <1>3. \A i, j \in 1 .. n : q[i] = q[j] => i = j
    BY DEF Once
  <1>4. \A i \in 1 .. (n + 1) : i \in 1 .. n \/ i = n + 1
    BY <1>1
  <1>5. Once(r)
    <2> HIDE DEF n
    <2>1. SUFFICES ASSUME NEW i \in 1 .. (n + 1), NEW j \in 1 .. (n + 1), r[i] = r[j] PROVE i = j
      BY <1>1 DEF Once
    <2>2. CASE i \in 1 .. n /\ j \in 1 .. n
      BY <1>1, <1>3, <2>1, <2>2
    <2>3. CASE i = n + 1 /\ j \in 1 .. n
      BY <1>1, <1>2, <2>1, <2>3
    <2>4. CASE i \in 1 .. n /\ j = n + 1
      BY <1>1, <1>2, <2>1, <2>4
    <2>5. QED
      BY <1>4, <2>2, <2>3, <2>4
  <1>6. Entries(r) = Entries(q) \cup {x}
    <2>1. Entries(r) = {r[i] : i \in 1 .. (n + 1)}
      BY <1>1 DEF Entries
    <2>2. Entries(q) = {q[i] : i \in 1 .. n}
      BY DEF Entries
    <2>3. n + 1 \in 1 .. (n + 1) /\ \A i \in 1 .. n : i \in 1 .. (n + 1)
      BY <1>1
    <2> HIDE DEF n
    <2>4. QED
      BY <1>1, <1>4, <2>1, <2>2, <2>3
  <1>7. QED
    BY <1>1, <1>5, <1>6

-----------------------------------------------------------------------------
(***************************************************************************)
(* Names.                                                                  *)
(***************************************************************************)
Ids == {TreeNode(i) : i \in Nat}

LEMMA Kinds ==
  /\ \A i, j : TreeNode(i) = TreeNode(j) => i = j
  /\ \A i, j : Leaf(i) = Leaf(j) => i = j
  /\ \A i, j : Empty(i) = Empty(j) => i = j
  /\ \A i, j : TreeNode(i) # Leaf(j) /\ TreeNode(i) # Empty(j) /\ Leaf(i) # Empty(j)
  /\ \A i : TreeNode(i) # Unset /\ Leaf(i) # Unset /\ Empty(i) # Unset
  BY DEF TreeNode, Leaf, Empty, Unset

LEMMA NodesType ==
  ASSUME NEW p
  PROVE  /\ Nodes(p) \subseteq Modules /\ IsFiniteSet(Nodes(p)) /\ IsFiniteSet(Modules)
         /\ Cardinality(Nodes(p)) \in Nat /\ Cardinality(Nodes(p)) <= N
         /\ Modules \subseteq Nat /\ 0 \notin Modules /\ N \in Nat
  <1>1. N \in Nat
    BY GraphAssumption
  <1>2. IsFiniteSet(Modules) /\ Cardinality(Modules) = N
    BY <1>1, FS_Interval DEF Modules
  <1>3. Nodes(p) \in SUBSET Modules
    BY DEF Nodes
  <1>4. IsFiniteSet(Nodes(p)) /\ Cardinality(Nodes(p)) <= N
    BY <1>2, <1>3, FS_Subset
  <1>5. QED
    BY <1>1, <1>2, <1>3, <1>4, FS_CardinalityType DEF Modules

(* A name's place in the list: build_tree's comes last and is used first.  *)
Place(p, l, n) == IF n = Root THEN Len(TreeNames(p, l)) ELSE n[2]

(* The list of names: the tree's own is the last, every name is there      *)
(* once, and there is one less than there are modules.                     *)
LEMMA NamesType ==
  ASSUME NEW p, NEW l \in BOOLEAN
  PROVE  /\ TreeNames(p, l) \in Seq(Ids) /\ Once(TreeNames(p, l))
         /\ Len(TreeNames(p, l)) \in Nat /\ Len(TreeNames(p, l)) >= 1
         /\ TreeNames(p, l)[Len(TreeNames(p, l))] = Root
         /\ \A i \in 1 .. Len(TreeNames(p, l)) :
              /\ TreeNames(p, l)[i] \in Ids
              /\ Place(p, l, TreeNames(p, l)[i]) = i
         /\ Len(TreeNames(p, l)) >= Cardinality(Nodes(p)) - 1
  <1> DEFINE T == TreeNames(p, l)
             W == WrapperCount(p, l)
             c == Cardinality(Nodes(p))
             A == [i \in 1 .. W |-> TreeNode(i)]
  <1>1. c \in Nat /\ c <= N /\ N \in Nat
    BY NodesType
  <1>2. W \in Int /\ W >= c - 2
    <2>1. W = IF l THEN c + 1 - 2 ELSE N - 2
      BY DEF WrapperCount
    <2>2. QED
      BY <1>1, <2>1
  <1>3. T = A \o << Root >>
    BY DEF TreeNames
  <1> HIDE DEF T, W, c
  <1>4. PICK k \in Nat : k = (IF W > 0 THEN W ELSE 0)
    BY <1>2
  <1>5. 1 .. W = 1 .. k
    BY <1>2, <1>4
  <1>6. A \in Seq(Ids) /\ Len(A) = k /\ \A i \in 1 .. k : A[i] = TreeNode(i)
    <2>1. A = [i \in 1 .. k |-> TreeNode(i)]
      BY <1>5
    <2>2. \A i \in 1 .. k : TreeNode(i) \in Ids
      BY DEF Ids
    <2> HIDE DEF A
    <2>3. QED
      BY <2>1, <2>2
  <1>7. Root \in Ids
    BY DEF Root, Ids
  <1> HIDE DEF A
  <1>8. /\ T \in Seq(Ids) /\ Len(T) = k + 1
        /\ \A i \in 1 .. k : T[i] = TreeNode(i)
        /\ T[k + 1] = Root
    BY <1>3, <1>6, <1>7
  <1>9. \A i \in 1 .. (k + 1) : i \in 1 .. k \/ i = k + 1
    OBVIOUS
  <1>10. Once(T)
    <2>1. SUFFICES ASSUME NEW i \in 1 .. (k + 1), NEW j \in 1 .. (k + 1), T[i] = T[j] PROVE i = j
      BY <1>8 DEF Once
    <2>2. \A x \in 1 .. k : T[x] # Root
      BY <1>8, Kinds DEF Root
    <2>3. CASE i \in 1 .. k /\ j \in 1 .. k
      BY <1>8, <2>1, <2>3, Kinds
    <2>4. QED
      BY <1>8, <1>9, <2>1, <2>2, <2>3
  <1>11. \A i \in 1 .. (k + 1) : T[i] \in Ids /\ Place(p, l, T[i]) = i
    <2>1. TAKE i \in 1 .. (k + 1)
    <2>2. T[i] \in Ids
      BY <1>8, <1>9, <1>7 DEF Ids
    <2>3. CASE i \in 1 .. k
      <3>1. T[i] = TreeNode(i) /\ T[i] # Root
        BY <1>8, <2>3, Kinds DEF Root
      <3>2. TreeNode(i)[2] = i
        BY DEF TreeNode
      <3>3. QED
        BY <2>2, <3>1, <3>2 DEF Place
    <2>4. CASE i = k + 1
      BY <1>8, <2>2, <2>4 DEF Place, T
    <2>5. QED
      BY <1>9, <2>3, <2>4
  <1>12. Len(T) >= c - 1
    BY <1>1, <1>2, <1>4, <1>8
  <1>13. QED
    BY <1>8, <1>10, <1>11, <1>12 DEF T, c

(* One more entry of a table, of a name it did not have.                   *)
LEMMA Added ==
  ASSUME NEW f, NEW n, NEW v, NEW r, r = With(f, n, v)
  PROVE  /\ DOMAIN r = DOMAIN f \cup {n}
         /\ r = [x \in DOMAIN f \cup {n} |-> IF x = n THEN v ELSE f[x]]
         /\ r[n] = v /\ \A x \in DOMAIN f : x # n => r[x] = f[x]
  BY DEF With

-----------------------------------------------------------------------------
(***************************************************************************)
(* cutRecurse: the tree as it grows.                                       *)
(***************************************************************************)
AllNames == TreeNames(prog, lim)
Total == Len(AllNames)
Rank(n) == Place(prog, lim, n)
Pending == Entries(calls)

(* What stands in the tree's slots.                                        *)
Kind == {Unset} \cup Ids \cup {Leaf(m) : m \in Modules} \cup {Empty(e) : e \in Nat}
Call == [nodes : SUBSET (0 .. N), of : Ids \cup {Unset}, side : {0, 1, 2}]

Setting ==
  /\ prog \in Programs /\ lim \in BOOLEAN
  /\ sortIdx = NoArea \/ (sortIdx \in [Modules -> Int] /\ IsInjective(sortIdx))
  /\ sortIdx # NoArea => Cardinality(Nodes(prog)) # 1

(* The names that are left are the first of the list; the others are in    *)
(* the tree.                                                               *)
NamesLeft ==
  /\ names \in Seq(Ids) /\ Len(names) <= Total
  /\ \A i \in 1 .. Len(names) : names[i] = AllNames[i]
  /\ DOMAIN tree = {AllNames[i] : i \in (Len(names) + 1) .. Total}

Shape == Root \in DOMAIN tree /\ tree \in [DOMAIN tree -> Kind \X Kind] /\ empties \in Nat

(* A slot is open, as long as a call is to fill it, or has a module, an    *)
(* empty one or a node of a name used later.                               *)
SlotsFilled ==
  \A n \in DOMAIN tree, s \in {1, 2} :
    \/ tree[n][s] = Unset /\ \E f \in Pending : f.of = n /\ f.side = s
    \/ \E m \in Nodes(prog) : tree[n][s] = Leaf(m)
    \/ tree[n][s] \in DOMAIN tree /\ Rank(tree[n][s]) < Rank(n)
    \/ \E e \in Nat : e < empties /\ tree[n][s] = Empty(e)

(* Nothing is in two slots.                                                *)
OneParent ==
  \A n, x \in DOMAIN tree, s, t \in {1, 2} :
    tree[n][s] = tree[x][t] /\ tree[n][s] # Unset => n = x /\ s = t

(* Every node but build_tree is in a slot, and every module is in a slot   *)
(* or among those that a call is to cut.                                   *)
HasParent ==
  \A n \in DOMAIN tree : n # Root => \E x \in DOMAIN tree, s \in {1, 2} : tree[x][s] = n
LeafPlaced ==
  \A m \in Nodes(prog) :
    IF \E f \in Pending : m \in f.nodes
    THEN \A x \in DOMAIN tree, s \in {1, 2} : tree[x][s] # Leaf(m)
    ELSE \E x \in DOMAIN tree, s \in {1, 2} : tree[x][s] = Leaf(m)

Framed ==
  /\ calls \in Seq(Call) /\ Once(calls)
  /\ \A f \in Pending : /\ f.of \in DOMAIN tree /\ f.side \in {1, 2} /\ tree[f.of][f.side] = Unset
                        /\ f.nodes \subseteq Nodes(prog) /\ Cardinality(f.nodes) # 1
  /\ \A f, g \in Pending : f # g => f.nodes \cap g.nodes = {} /\ ~(f.of = g.of /\ f.side = g.side)

(* A call on k modules needs k - 1 names: one for each but the first.      *)
Later(nodes) == {m \in nodes : \E x \in nodes : x < m}
Waiting == {m \in Nodes(prog) : \E f \in Pending : m \in Later(f.nodes)}
Budget == Cardinality(Waiting) <= Len(names)

Grown == /\ NamesLeft /\ Shape /\ SlotsFilled /\ OneParent /\ HasParent /\ LeafPlaced
         /\ Framed /\ Budget

Started ==
  /\ calls = <<[nodes |-> StartNodes(prog), of |-> Unset, side |-> 0]>>
  /\ tree = << >> /\ names = AllNames /\ empties = 0

CutInv ==
  /\ Setting
  /\ Grown \/ (phase = "cut" /\ Started)
  /\ phase = "cut" <=> calls # << >>

(* The two halves of a cut.                                                *)
Halved(nodes, h) ==
  h[1] \cup h[2] = nodes /\ h[1] \cap h[2] = {} /\ h[1] # {} /\ h[2] # {}

(* Both cuts, of two modules or more, leave two parts that are not empty.  *)
LEMMA CutHalves ==
  ASSUME Setting, NEW nodes, nodes \subseteq Nodes(prog), Cardinality(nodes) >= 2,
         NEW side, side = Cut(nodes, Edges(prog, nodes)), NEW h, h = Halves(nodes, side)
  PROVE  Halved(nodes, h)
  <1>1. /\ Nodes(prog) \subseteq Modules /\ IsFiniteSet(Nodes(prog)) /\ Modules \subseteq Nat
        /\ 0 \notin Modules
    BY NodesType
  <1>2. nodes \in SUBSET Nodes(prog)
    OBVIOUS
  <1>3. IsFiniteSet(nodes)
    BY <1>1, <1>2, FS_Subset
  <1>4. IsFiniteSet(Edges(prog, nodes))
    <2>1. IsFiniteSet(nodes \X nodes)
      BY <1>3, FS_Product
    <2>2. Edges(prog, nodes) \in SUBSET (nodes \X nodes)
      BY DEF Edges
    <2>3. QED
      BY <2>1, <2>2, FS_Subset
  <1>5. side \in Sides(nodes)
    <2>1. CASE sortIdx = NoArea
      <3>1. side = MinCut(nodes, Edges(prog, nodes))
        BY <2>1 DEF Cut
      <3>2. nodes \subseteq Nat
        BY <1>1
      <3> DEFINE E == Edges(prog, nodes)
      <3>3. IsFiniteSet(E) /\ side = MinCut(nodes, E)
        BY <1>4, <3>1
      <3> HIDE DEF E
      <3>4. QED
        BY <1>3, <3>2, <3>3, MinCutProper
    <2>2. CASE sortIdx # NoArea
      <3>1. side = PlacementCut(nodes, sortIdx)
        BY <2>2 DEF Cut
      <3>2. sortIdx \in [Modules -> Int] /\ IsInjective(sortIdx) /\ nodes \subseteq Modules
        BY <2>2, <1>1 DEF Setting
      <3>3. QED
        BY <1>3, <3>1, <3>2, PlacementCutProper
    <2>3. QED
      BY <2>1, <2>2
  <1>6. side \subseteq nodes /\ side # {} /\ side # nodes
    BY <1>5 DEF Sides
  <1>7. h = <<side \ {0}, (nodes \ side) \ {0}>> /\ 0 \notin nodes
    BY <1>1 DEF Halves, Vestigial
  <1>8. h[1] = side /\ h[2] = nodes \ side
    BY <1>6, <1>7
  <1>9. QED
    BY <1>6, <1>8 DEF Halved

(* What the calls for the two parts of a node leave to cut.                *)
Sub(n, part, s) == [nodes |-> part, of |-> n, side |-> s]
Calls(n, h) == {g \in {Sub(n, h[1], 1), Sub(n, h[2], 2)} : Cardinality(g.nodes) # 1}

LEMMA SubcallsPushed ==
  ASSUME NEW X, NEW q \in Seq(X), Once(q), NEW n, \A g \in Entries(q) : g.of # n,
         NEW h, Sub(n, h[1], 1) \in X, Sub(n, h[2], 2) \in X,
         NEW r, r = Onto(q, Subcalls(n, h))
  PROVE  /\ r \in Seq(X) /\ Once(r) /\ Entries(r) = Entries(q) \cup Calls(n, h)
         /\ r = << >> <=> Entries(r) = {}
  <1>0. PICK g1 : g1 = Sub(n, h[1], 1)
    OBVIOUS
  <1>01. PICK g2 : g2 = Sub(n, h[2], 2)
    OBVIOUS
  <1>1. g1 \in X /\ g2 \in X /\ g1 # g2 /\ g1 \notin Entries(q) /\ g2 \notin Entries(q)
    <2>1. g1.of = n /\ g2.of = n /\ g1.side = 1 /\ g2.side = 2
      BY <1>0, <1>01 DEF Sub
    <2>2. QED
      BY <1>0, <1>01, <2>1
  <1>2. Calls(n, h) = (IF Cardinality(h[1]) = 1 THEN {} ELSE {g1}) \cup (IF Cardinality(h[2]) = 1 THEN {} ELSE {g2})
    <2>1. g1.nodes = h[1] /\ g2.nodes = h[2]
      BY <1>0, <1>01 DEF Sub
    <2>2. Calls(n, h) = {g \in {g1, g2} : Cardinality(g.nodes) # 1}
      BY <1>0, <1>01 DEF Calls
    <2>3. QED
      BY <2>1, <2>2
  <1>3. PICK s1 : s1 = Subcall(n, h[1], 1)
    OBVIOUS
  <1>03. PICK s2 : s2 = Subcall(n, h[2], 2)
    OBVIOUS
  <1>4. /\ s1 = IF Cardinality(h[1]) = 1 THEN << >> ELSE <<g1>>
        /\ s2 = IF Cardinality(h[2]) = 1 THEN << >> ELSE <<g2>>
    BY <1>0, <1>01, <1>3, <1>03 DEF Subcall, Sub
  <1>5. PICK q2 : q2 = q \o s2
    OBVIOUS
  <1>6. /\ q2 \in Seq(X) /\ Once(q2)
        /\ Entries(q2) = Entries(q) \cup (IF Cardinality(h[2]) = 1 THEN {} ELSE {g2})
    <2>1. CASE Cardinality(h[2]) = 1
      <3>1. q2 = q
        BY <1>4, <1>5, <2>1
      <3>2. QED
        BY <2>1, <3>1
    <2>2. CASE Cardinality(h[2]) # 1
      <3>1. q2 = Push(q, g2)
        BY <1>4, <1>5, <2>2 DEF Push
      <3>2. q2 \in Seq(X) /\ Once(q2) /\ Entries(q2) = Entries(q) \cup {g2}
        BY <1>1, <3>1, PushedOnce
      <3>3. QED
        BY <2>2, <3>2
    <2>3. QED
      BY <2>1, <2>2
  <1>7. g1 \notin Entries(q2)
    BY <1>1, <1>6
  <1>8. r = q2 \o s1
    <2>1. s1 \in Seq(X) /\ s2 \in Seq(X)
      <3>1. << >> \in Seq(X) /\ <<g1>> \in Seq(X) /\ <<g2>> \in Seq(X)
        BY <1>1
      <3>2. QED
        BY <1>4, <3>1
    <2>2. r = q \o (s2 \o s1)
      BY <1>3, <1>03 DEF Subcalls, Onto
    <2>3. QED
      BY <1>5, <2>1, <2>2
  <1>9. /\ r \in Seq(X) /\ Once(r)
        /\ Entries(r) = Entries(q2) \cup (IF Cardinality(h[1]) = 1 THEN {} ELSE {g1})
    <2>1. CASE Cardinality(h[1]) = 1
      <3>1. r = q2
        BY <1>4, <1>6, <1>8, <2>1
      <3>2. QED
        BY <1>6, <2>1, <3>1
    <2>2. CASE Cardinality(h[1]) # 1
      <3>1. r = Push(q2, g1)
        BY <1>4, <1>8, <2>2 DEF Push
      <3>2. r \in Seq(X) /\ Once(r) /\ Entries(r) = Entries(q2) \cup {g1}
        <4>1. q2 \in Seq(X) /\ Once(q2)
          BY <1>6
        <4>2. QED
          BY <1>1, <1>7, <3>1, <4>1, PushedOnce
      <3>3. QED
        BY <2>2, <3>2
    <2>3. QED
      BY <2>1, <2>2
  <1>10. r = << >> <=> Entries(r) = {}
    BY <1>9, NoEntries
  <1>11. QED
    BY <1>2, <1>6, <1>9, <1>10

(* One call of cutRecurse that names a node.                               *)
Cutting(f, n, h) ==
  /\ f \in Pending /\ n \in Ids /\ n \notin DOMAIN tree /\ DOMAIN tree \subseteq Ids
  /\ \A x \in DOMAIN tree : Rank(n) < Rank(x)
  /\ \/ n = Root /\ f.of = Unset
     \/ n # Root /\ f.of \in DOMAIN tree /\ f.side \in {1, 2} /\ tree[f.of][f.side] = Unset
  /\ f.nodes \cap Nodes(prog) = h[1] \cup h[2] /\ h[1] \cap h[2] = {}
  /\ DOMAIN tree' = DOMAIN tree \cup {n}
  /\ \A x \in DOMAIN tree, s \in {1, 2} :
       tree'[x][s] = IF x = f.of /\ s = f.side THEN n ELSE tree[x][s]
  /\ \A s \in {1, 2} : tree'[n][s] = Child(h[s])
  /\ Pending' = (Pending \ {f}) \cup Calls(n, h)
  /\ empties' = empties /\ prog' = prog /\ lim' = lim

(* The part of the invariant that the first call has, too.                 *)
Slots == SlotsFilled /\ OneParent /\ HasParent /\ LeafPlaced
Separate ==
  /\ \A f, g \in Pending : f # g => f.nodes \cap g.nodes = {} /\ ~(f.of = g.of /\ f.side = g.side)
  /\ \A f \in Pending : f.of \in DOMAIN tree \cup {Unset}

LEMMA ChildIs ==
  ASSUME NEW part, IsFiniteSet(part)
  PROVE  \/ Cardinality(part) # 1 /\ Child(part) = Unset
         \/ Cardinality(part) = 1 /\ \E m \in part : part = {m} /\ Child(part) = Leaf(m)
  <1>1. CASE Cardinality(part) = 1
    <2>1. PICK m : part = {m}
      BY <1>1, FS_Singleton
    <2>2. (CHOOSE x \in part : TRUE) = m
      BY <2>1
    <2>3. Child(part) = Leaf(m)
      BY <1>1, <2>2 DEF Child
    <2>4. QED
      BY <1>1, <2>1, <2>3
  <1>2. QED
    BY <1>1 DEF Child

(* The slots of the new node, and who is in them.                          *)
LEMMA NewSlots ==
  ASSUME NEW f, NEW n, NEW h, Cutting(f, n, h), NEW s \in {1, 2}
  PROVE  \/ /\ Cardinality(h[s]) # 1 /\ tree'[n][s] = Unset
            /\ Sub(n, h[s], s) \in Pending'
         \/ \E m \in Nodes(prog) : h[s] = {m} /\ tree'[n][s] = Leaf(m) /\ m \in f.nodes
  <1>1. h[s] \subseteq f.nodes \cap Nodes(prog) /\ tree'[n][s] = Child(h[s])
    BY DEF Cutting
  <1>2. IsFiniteSet(h[s])
    <2>1. IsFiniteSet(Nodes(prog)) /\ h[s] \in SUBSET Nodes(prog)
      BY <1>1, NodesType
    <2>2. QED
      BY <2>1, FS_Subset
  <1>3. CASE Cardinality(h[s]) # 1
    <2>1. Sub(n, h[s], s) \in Calls(n, h)
      <3>1. Sub(n, h[s], s).nodes = h[s]
        BY DEF Sub
      <3>2. Sub(n, h[s], s) \in {Sub(n, h[1], 1), Sub(n, h[2], 2)}
        OBVIOUS
      <3>3. QED
        BY <1>3, <3>1, <3>2 DEF Calls
    <2>2. QED
      BY <1>1, <1>2, <1>3, <2>1, ChildIs DEF Cutting
  <1>4. CASE Cardinality(h[s]) = 1
    <2>1. PICK m \in h[s] : h[s] = {m} /\ Child(h[s]) = Leaf(m)
      BY <1>2, <1>4, ChildIs
    <2>2. QED
      BY <1>1, <2>1
  <1>5. QED
    BY <1>3, <1>4

(* The other slots: the call's own gets the node.                          *)
LEMMA OldSlots ==
  ASSUME NEW f, NEW n, NEW h, Cutting(f, n, h), NEW x \in DOMAIN tree, NEW s \in {1, 2}
  PROVE  /\ x # n /\ x \in DOMAIN tree'
         /\ \/ x = f.of /\ s = f.side /\ tree[x][s] = Unset /\ tree'[x][s] = n /\ n # Root
            \/ ~(x = f.of /\ s = f.side) /\ tree'[x][s] = tree[x][s]
  <1>1. x \in Ids /\ x # Unset
    BY Kinds DEF Cutting, Ids
  <1>2. QED
    BY <1>1 DEF Cutting

LEMMA NewPending ==
  ASSUME NEW f, NEW n, NEW h, Cutting(f, n, h), NEW g \in Pending'
  PROVE  \/ g \in Pending /\ g # f
         \/ \E s \in {1, 2} : /\ g.of = n /\ g.side = s /\ g.nodes = h[s]
                              /\ Cardinality(h[s]) # 1
  <1>1. (g \in Pending /\ g # f) \/ g \in Calls(n, h)
    BY DEF Cutting
  <1>2. ASSUME g \in Calls(n, h)
        PROVE  \E s \in {1, 2} : /\ g.of = n /\ g.side = s /\ g.nodes = h[s]
                                 /\ Cardinality(h[s]) # 1
    <2>1. Cardinality(g.nodes) # 1 /\ \E s \in {1, 2} : g = Sub(n, h[s], s)
      BY <1>2 DEF Calls
    <2>2. PICK s \in {1, 2} : g = Sub(n, h[s], s)
      BY <2>1
    <2>3. g.of = n /\ g.side = s /\ g.nodes = h[s]
      BY <2>2 DEF Sub
    <2>4. QED
      BY <2>1, <2>3
  <1>3. QED
    BY <1>1, <1>2

LEMMA CutFillsSlots ==
  ASSUME NEW f, NEW n, NEW h, Cutting(f, n, h), Slots, Separate
  PROVE  SlotsFilled'
  <1>1. SUFFICES ASSUME NEW x \in DOMAIN tree', NEW s \in {1, 2}
                 PROVE  \/ tree'[x][s] = Unset /\ \E g \in Pending' : g.of = x /\ g.side = s
                        \/ \E m \in Nodes(prog') : tree'[x][s] = Leaf(m)
                        \/ tree'[x][s] \in DOMAIN tree' /\ Place(prog', lim', tree'[x][s]) < Place(prog', lim', x)
                        \/ \E e \in Nat : e < empties' /\ tree'[x][s] = Empty(e)
    BY DEF SlotsFilled, Rank
  <1>2. /\ DOMAIN tree' = DOMAIN tree \cup {n} /\ prog' = prog /\ lim' = lim /\ empties' = empties
        /\ \A y \in DOMAIN tree : Rank(n) < Rank(y)
    BY DEF Cutting
  <1>3. CASE x = n
    <2>1. CASE tree'[n][s] = Unset /\ Sub(n, h[s], s) \in Pending'
      <3>1. Sub(n, h[s], s).of = n /\ Sub(n, h[s], s).side = s
        BY DEF Sub
      <3>2. QED
        BY <1>3, <2>1, <3>1
    <2>2. CASE \E m \in Nodes(prog) : tree'[n][s] = Leaf(m)
      BY <1>2, <1>3, <2>2
    <2>3. QED
      BY <2>1, <2>2, NewSlots
  <1>4. CASE x \in DOMAIN tree
    <2>1. CASE x = f.of /\ s = f.side /\ tree[x][s] = Unset /\ tree'[x][s] = n
      <3>1. Rank(n) < Rank(x)
        BY <1>2, <1>4
      <3>2. QED
        BY <1>2, <2>1, <3>1 DEF Rank
    <2>2. CASE ~(x = f.of /\ s = f.side) /\ tree'[x][s] = tree[x][s]
      <3>1. \/ tree[x][s] = Unset /\ \E g \in Pending : g.of = x /\ g.side = s
            \/ \E m \in Nodes(prog) : tree[x][s] = Leaf(m)
            \/ tree[x][s] \in DOMAIN tree /\ Rank(tree[x][s]) < Rank(x)
            \/ \E e \in Nat : e < empties /\ tree[x][s] = Empty(e)
        BY <1>4 DEF Slots, SlotsFilled
      <3>2. CASE \E g \in Pending : g.of = x /\ g.side = s
        <4>1. PICK g \in Pending : g.of = x /\ g.side = s
          BY <3>2
        <4>2. g \in Pending'
          BY <2>2, <4>1 DEF Cutting
        <4>3. QED
          BY <2>2, <3>1, <4>1, <4>2, <1>2 DEF Rank
      <3>3. QED
        BY <1>2, <2>2, <3>1, <3>2 DEF Rank
    <2>3. QED
      BY <1>4, <2>1, <2>2, OldSlots
  <1>5. QED
    BY <1>1, <1>2, <1>3, <1>4

(* What a slot holds is none of the nodes yet to come.                     *)
LEMMA SlotKinds ==
  ASSUME SlotsFilled, DOMAIN tree \subseteq Ids, NEW n \in Ids, n \notin DOMAIN tree,
         NEW x \in DOMAIN tree, NEW s \in {1, 2}
  PROVE  tree[x][s] # n
  <1>1. \/ tree[x][s] = Unset
        \/ \E m \in Nodes(prog) : tree[x][s] = Leaf(m)
        \/ tree[x][s] \in DOMAIN tree
        \/ \E e \in Nat : tree[x][s] = Empty(e)
    BY DEF SlotsFilled
  <1>2. PICK i \in Nat : n = TreeNode(i)
    BY DEF Ids
  <1>3. QED
    BY <1>1, <1>2, Kinds

LEMMA CutOneParent ==
  ASSUME NEW f, NEW n, NEW h, Cutting(f, n, h), Slots, Separate
  PROVE  OneParent'
  <1>1. SUFFICES ASSUME NEW x \in DOMAIN tree', NEW s \in {1, 2},
                        NEW y \in DOMAIN tree', NEW t \in {1, 2},
                        tree'[x][s] = tree'[y][t], tree'[x][s] # Unset
                 PROVE  x = y /\ s = t
    BY DEF OneParent
  <1>2. /\ DOMAIN tree' = DOMAIN tree \cup {n} /\ n \in Ids /\ n \notin DOMAIN tree
        /\ DOMAIN tree \subseteq Ids /\ f \in Pending /\ h[1] \cap h[2] = {}
    BY DEF Cutting
  (* What the new node has in its slots was nowhere.                       *)
  <1>3. ASSUME NEW u \in {1, 2}, NEW z \in DOMAIN tree, NEW v \in {1, 2},
               tree'[n][u] # Unset
        PROVE  tree'[z][v] # tree'[n][u]
    <2>1. PICK m \in Nodes(prog) : tree'[n][u] = Leaf(m) /\ m \in f.nodes
      BY <1>3, NewSlots
    <2>2. tree[z][v] # Leaf(m)
      BY <1>2, <2>1 DEF Slots, LeafPlaced
    <2>3. n # Leaf(m)
      BY <1>2, Kinds DEF Ids
    <2>4. QED
      BY <2>1, <2>2, <2>3, OldSlots
  <1>4. CASE x = n /\ y = n
    <2>1. PICK m \in Nodes(prog) : h[s] = {m} /\ tree'[n][s] = Leaf(m)
      BY <1>1, <1>4, NewSlots
    <2>2. PICK k \in Nodes(prog) : h[t] = {k} /\ tree'[n][t] = Leaf(k)
      BY <1>1, <1>4, NewSlots
    <2>3. m = k
      BY <1>1, <1>4, <2>1, <2>2, Kinds
    <2>4. s = t
      BY <1>2, <2>1, <2>2, <2>3
    <2>5. QED
      BY <1>4, <2>4
  <1>5. CASE x \in DOMAIN tree /\ y \in DOMAIN tree
    <2>1. tree[x][s] # n /\ tree[y][t] # n
      BY <1>2, <1>5, SlotKinds DEF Slots
    <2>2. CASE x = f.of /\ s = f.side /\ tree'[x][s] = n
      <3>1. y = f.of /\ t = f.side
        BY <1>1, <1>5, <2>1, <2>2, OldSlots
      <3>2. QED
        BY <2>2, <3>1
    <2>3. CASE tree'[x][s] = tree[x][s]
      <3>1. tree'[y][t] = n \/ tree'[y][t] = tree[y][t]
        BY <1>5, OldSlots
      <3>2. tree[x][s] = tree[y][t] /\ tree[x][s] # Unset
        BY <1>1, <2>1, <2>3, <3>1
      <3>3. OneParent
        BY DEF Slots
      <3>4. QED
        BY <1>5, <3>2, <3>3 DEF OneParent
    <2>4. QED
      BY <1>5, <2>2, <2>3, OldSlots
  <1>6. QED
    BY <1>1, <1>2, <1>3, <1>4, <1>5

LEMMA CutHasParent ==
  ASSUME NEW f, NEW n, NEW h, Cutting(f, n, h), Slots, Separate
  PROVE  HasParent'
  <1>1. SUFFICES ASSUME NEW y \in DOMAIN tree', y # Root
                 PROVE  \E x \in DOMAIN tree', s \in {1, 2} : tree'[x][s] = y
    BY DEF HasParent
  <1>2. DOMAIN tree' = DOMAIN tree \cup {n} /\ DOMAIN tree \subseteq Ids
    BY DEF Cutting
  <1>3. CASE y = n
    <2>1. f.of \in DOMAIN tree /\ f.side \in {1, 2} /\ tree'[f.of][f.side] = n
      BY <1>1, <1>3 DEF Cutting
    <2>2. QED
      BY <1>2, <1>3, <2>1
  <1>4. CASE y \in DOMAIN tree
    <2>1. PICK x \in DOMAIN tree, s \in {1, 2} : tree[x][s] = y
      BY <1>1, <1>4 DEF Slots, HasParent
    <2>2. y # Unset
      BY <1>2, <1>4, Kinds DEF Ids
    <2>3. tree'[x][s] = y
      BY <2>1, <2>2, OldSlots
    <2>4. QED
      BY <1>2, <2>1, <2>3
  <1>5. QED
    BY <1>2, <1>3, <1>4

LEMMA CutLeafPlaced ==
  ASSUME NEW f, NEW n, NEW h, Cutting(f, n, h), Slots, Separate
  PROVE  LeafPlaced'
  <1>1. SUFFICES ASSUME NEW m \in Nodes(prog)
                 PROVE  IF \E g \in Pending' : m \in g.nodes
                        THEN \A x \in DOMAIN tree', s \in {1, 2} : tree'[x][s] # Leaf(m)
                        ELSE \E x \in DOMAIN tree', s \in {1, 2} : tree'[x][s] = Leaf(m)
    BY DEF LeafPlaced, Cutting
  <1>2. /\ DOMAIN tree' = DOMAIN tree \cup {n} /\ n \in Ids /\ f \in Pending
        /\ f.nodes \cap Nodes(prog) = h[1] \cup h[2] /\ h[1] \cap h[2] = {}
        /\ Pending' = (Pending \ {f}) \cup Calls(n, h)
    BY DEF Cutting
  <1>3. n # Leaf(m) /\ Leaf(m) # Unset
    BY <1>2, Kinds DEF Ids
  <1>4. ASSUME NEW g \in Pending', m \in g.nodes,
               NEW x \in DOMAIN tree', NEW s \in {1, 2}
        PROVE  tree'[x][s] # Leaf(m)
    <2>1. \E k \in Pending : m \in k.nodes
      BY <1>2, <1>4, NewPending
    <2>2. CASE x \in DOMAIN tree
      <3>1. tree[x][s] # Leaf(m)
        BY <2>1, <2>2 DEF Slots, LeafPlaced
      <3>2. QED
        BY <1>3, <2>2, <3>1, OldSlots
    <2>3. CASE x = n
      <3>1. SUFFICES ASSUME tree'[n][s] = Leaf(m) PROVE FALSE
        BY <2>3
      <3>2. h[s] = {m} /\ m \in f.nodes
        BY <1>3, <3>1, NewSlots, Kinds
      <3>3. ~(g \in Pending /\ g # f)
        BY <1>2, <1>4, <3>2 DEF Separate
      <3>4. PICK t \in {1, 2} : g.nodes = h[t] /\ Cardinality(h[t]) # 1
        BY <1>4, <3>3, NewPending
      <3>5. s = t
        BY <1>2, <1>4, <3>2, <3>4
      <3>6. QED
        BY <3>2, <3>4, <3>5, FS_Singleton
    <2>4. QED
      BY <1>2, <2>2, <2>3
  <1>5. ASSUME \A g \in Pending' : m \notin g.nodes
        PROVE  \E x \in DOMAIN tree', s \in {1, 2} : tree'[x][s] = Leaf(m)
    <2>1. CASE m \in f.nodes
      <3>1. PICK s \in {1, 2} : m \in h[s]
        BY <1>2, <2>1
      <3>2. Sub(n, h[s], s).nodes = h[s]
        BY DEF Sub
      <3>3. Sub(n, h[s], s) \notin Pending'
        BY <1>5, <3>1, <3>2
      <3>4. h[s] = {m} /\ tree'[n][s] = Leaf(m)
        BY <3>1, <3>3, NewSlots
      <3>5. QED
        BY <1>2, <3>4
    <2>2. CASE m \notin f.nodes
      <3>1. \A g \in Pending : m \notin g.nodes
        BY <1>2, <1>5, <2>2
      <3>2. PICK x \in DOMAIN tree, s \in {1, 2} : tree[x][s] = Leaf(m)
        BY <3>1 DEF Slots, LeafPlaced
      <3>3. tree'[x][s] = Leaf(m)
        BY <1>3, <3>2, OldSlots
      <3>4. QED
        BY <1>2, <3>2, <3>3
    <2>3. QED
      BY <2>1, <2>2
  <1>6. QED
    BY <1>4, <1>5

LEMMA CutSeparate ==
  ASSUME NEW f, NEW n, NEW h, Cutting(f, n, h), Slots, Separate
  PROVE  /\ Separate'
         /\ \A g \in Pending' : (g \in Pending /\ g # f) \/ tree'[g.of][g.side] = Unset
  <1>1. /\ DOMAIN tree' = DOMAIN tree \cup {n} /\ n \in Ids /\ n \notin DOMAIN tree /\ f \in Pending
        /\ f.nodes \cap Nodes(prog) = h[1] \cup h[2] /\ h[1] \cap h[2] = {}
    BY DEF Cutting
  <1>2. n # Unset
    BY <1>1, Kinds DEF Ids
  <1>3. ASSUME NEW g \in Pending', NEW k \in Pending', g # k
        PROVE  g.nodes \cap k.nodes = {} /\ ~(g.of = k.of /\ g.side = k.side)
    <2>1. CASE g \in Pending /\ k \in Pending
      BY <1>3, <2>1 DEF Separate
    <2>2. ASSUME NEW a \in Pending, a # f, NEW b, NEW s \in {1, 2}, b.of = n, b.nodes = h[s]
          PROVE  a.nodes \cap b.nodes = {} /\ a.of # b.of
      <3>1. a.nodes \cap f.nodes = {} /\ a.of # n
        BY <1>1, <1>2, <2>2 DEF Separate
      <3>2. b.nodes \subseteq f.nodes
        BY <1>1, <2>2
      <3>3. QED
        BY <2>2, <3>1, <3>2
    <2>3. ASSUME NEW s \in {1, 2}, NEW t \in {1, 2}, g = Sub(n, h[s], s), k = Sub(n, h[t], t)
          PROVE  g.nodes \cap k.nodes = {} /\ ~(g.of = k.of /\ g.side = k.side)
      <3>1. s # t
        BY <1>3, <2>3
      <3>2. h[s] \cap h[t] = {}
        BY <1>1, <3>1
      <3>3. g.nodes = h[s] /\ k.nodes = h[t] /\ g.side = s /\ k.side = t
        BY <2>3 DEF Sub
      <3>4. QED
        BY <3>1, <3>2, <3>3
    <2>4. ASSUME NEW b \in Pending' 
          PROVE  (b \in Pending /\ b # f) \/ \E s \in {1, 2} : b = Sub(n, h[s], s) /\ b.of = n /\ b.nodes = h[s]
      <3>1. (b \in Pending /\ b # f) \/ b \in Calls(n, h)
        BY <2>4 DEF Cutting
      <3>2. b \in Calls(n, h) => \E s \in {1, 2} : b = Sub(n, h[s], s)
        BY DEF Calls
      <3>3. \A s : Sub(n, h[s], s).of = n /\ Sub(n, h[s], s).nodes = h[s]
        BY DEF Sub
      <3>4. QED
        BY <3>1, <3>2, <3>3
    <2>5. /\ (g \in Pending /\ g # f) \/ \E s \in {1, 2} : g = Sub(n, h[s], s) /\ g.of = n /\ g.nodes = h[s]
          /\ (k \in Pending /\ k # f) \/ \E s \in {1, 2} : k = Sub(n, h[s], s) /\ k.of = n /\ k.nodes = h[s]
      BY <2>4
    <2>6. QED
      BY <2>1, <2>2, <2>3, <2>5
  <1>4. ASSUME NEW g \in Pending' PROVE g.of \in DOMAIN tree' \cup {Unset}
    BY <1>1, <1>4, NewPending DEF Separate
  <1>5. ASSUME NEW g \in Pending' PROVE (g \in Pending /\ g # f) \/ tree'[g.of][g.side] = Unset
    <2>1. ASSUME NEW s \in {1, 2}, g.of = n, g.side = s, Cardinality(h[s]) # 1
          PROVE  tree'[g.of][g.side] = Unset
      <3>0. \A m : h[s] # {m}
        BY <2>1, FS_Singleton
      <3>1. tree'[n][s] = Unset
        BY <3>0, NewSlots
      <3>2. QED
        BY <2>1, <3>1
    <2>2. QED
      BY <2>1, <1>5, NewPending
  <1>6. QED
    BY <1>3, <1>4, <1>5 DEF Separate

LEMMA PairSet ==
  ASSUME NEW K, NEW t \in K \X K, NEW s \in {1, 2}, NEW v \in K,
         NEW r, r = [t EXCEPT ![s] = v]
  PROVE  /\ r \in K \X K /\ r[s] = v
         /\ \A u \in {1, 2} : u # s => r[u] = t[u]
  <1>1. PICK a \in K, b \in K : t = <<a, b>>
    OBVIOUS
  <1>2. CASE s = 1
    <2>1. r = <<v, b>>
      BY <1>1, <1>2
    <2>2. QED
      BY <1>1, <1>2, <2>1
  <1>3. CASE s = 2
    <2>1. r = <<a, v>>
      BY <1>1, <1>3
    <2>2. QED
      BY <1>1, <1>3, <2>1
  <1>4. QED
    BY <1>2, <1>3

(* The slot of a call gets what the call comes to.                         *)
LEMMA SlotSet ==
  ASSUME Shape, NEW f, f.of \in DOMAIN tree, f.of # Unset, f.side \in {1, 2}, NEW v \in Kind,
         NEW r, r = SetChild(tree, f, v)
  PROVE  /\ r \in [DOMAIN tree -> Kind \X Kind]
         /\ \A x \in DOMAIN tree, s \in {1, 2} :
              r[x][s] = IF x = f.of /\ s = f.side THEN v ELSE tree[x][s]
  <1> DEFINE D == DOMAIN tree
             t == tree[f.of]
             w == [t EXCEPT ![f.side] = v]
  <1>1. CASE f.of # Unset
    <2>1. tree \in [D -> Kind \X Kind] /\ f.of \in D
      BY DEF Shape
    <2>2. t \in Kind \X Kind
      BY <2>1
    <2>3. r = [tree EXCEPT ![f.of] = w]
      BY <1>1 DEF SetChild
    <2>4. /\ w \in Kind \X Kind /\ w[f.side] = v
          /\ \A u \in {1, 2} : u # f.side => w[u] = t[u]
      <3> HIDE DEF t
      <3>1. QED
        BY <2>2, PairSet
    <2> HIDE DEF w
    <2>5. r \in [D -> Kind \X Kind] /\ r[f.of] = w /\ \A x \in D : x # f.of => r[x] = tree[x]
      BY <2>1, <2>3, <2>4
    <2>6. QED
      BY <2>4, <2>5
  <1>2. QED
    BY <1>1

(* The parts the first call leaves: of no module or one, nothing is cut.   *)
LEMMA FirstHalves ==
  ASSUME Setting, NEW side, side = Cut(StartNodes(prog), Edges(prog, StartNodes(prog))),
         NEW h, h = Halves(StartNodes(prog), side)
  PROVE  /\ h[1] \cup h[2] = Nodes(prog) /\ h[1] \cap h[2] = {}
         /\ Cardinality(Nodes(prog)) >= 2 => Halved(Nodes(prog), h)
  <1> DEFINE M == Nodes(prog)
             S == StartNodes(prog)
             c == Cardinality(M)
  <1>1. M \subseteq Modules /\ IsFiniteSet(M) /\ c \in Nat /\ Modules \subseteq Nat /\ 0 \notin Modules
    BY NodesType
  <1>2. CASE c >= 2
    <2>1. S = M
      BY <1>2 DEF StartNodes
    <2>2. Halved(M, h)
      <3>1. side = Cut(M, Edges(prog, M)) /\ h = Halves(M, side)
        BY <2>1
      <3>2. QED
        BY <1>2, <3>1, CutHalves
    <2>3. QED
      BY <1>2, <2>2 DEF Halved
  <1>3. CASE c = 1
    <2>1. PICK m : M = {m}
      BY <1>1, <1>3, FS_Singleton
    <2>2. m \in Modules /\ m # 0
      BY <1>1, <2>1
    <2>3. S = {m, 0}
      BY <1>3, <2>1 DEF StartNodes, Vestigial
    <2>4. S \subseteq Nat /\ IsFiniteSet(S) /\ Cardinality(S) = 2
      <3>1. IsFiniteSet({m}) /\ Cardinality({m}) = 1
        BY FS_Singleton
      <3>2. S = {m} \cup {0} /\ 0 \notin {m}
        BY <2>2, <2>3
      <3>3. IsFiniteSet(S) /\ Cardinality(S) = Cardinality({m}) + 1
        BY <3>1, <3>2, FS_AddElement
      <3>4. S \subseteq Nat
        BY <1>1, <2>2, <2>3
      <3>5. QED
        BY <3>1, <3>3, <3>4
    <2> DEFINE E == Edges(prog, S)
    <2>5. IsFiniteSet(E)
      <3>1. IsFiniteSet(S \X S)
        BY <2>4, FS_Product
      <3>2. E \in SUBSET (S \X S)
        BY DEF Edges
      <3>3. QED
        BY <3>1, <3>2, FS_Subset
    <2>6. side = MinCut(S, E)
      BY <1>3 DEF Cut, Setting
    <2> HIDE DEF E
    <2>7. side \in Sides(S)
      <3>1. PICK T, G : T = S /\ G = E
        OBVIOUS
      <3>2. T \subseteq Nat /\ IsFiniteSet(T) /\ Cardinality(T) >= 2 /\ IsFiniteSet(G)
        BY <2>4, <2>5, <3>1
      <3>3. MinCut(T, G) \in Sides(T)
        BY ONLY <3>2, MinCutProper
      <3>4. QED
        BY <2>6, <3>1, <3>3
    <2>8. side = {m} \/ side = {0}
      BY <2>3, <2>7 DEF Sides
    <2>9. h = <<side \ {0}, (S \ side) \ {0}>>
      BY DEF Halves, Vestigial
    <2>10. h[1] = side \ {0} /\ h[2] = (S \ side) \ {0}
      BY <2>9
    <2>11. h[1] \cup h[2] = {m} /\ h[1] \cap h[2] = {}
      BY <2>2, <2>3, <2>8, <2>10
    <2>12. QED
      BY <1>3, <2>1, <2>11
  <1>4. CASE c = 0
    <2>1. M = {}
      BY <1>1, <1>4, FS_EmptySet
    <2>2. S = {}
      BY <1>4, <2>1 DEF StartNodes
    <2>3. h = <<side \ {0}, ({} \ side) \ {0}>>
      BY <2>2 DEF Halves, Vestigial
    <2>4. side = {}
      <3>1. MinCut({}, Edges(prog, S)) = {}
        BY DEF MinCut
      <3>2. PlacementCut({}, sortIdx) = {}
        BY DEF PlacementCut
      <3>3. QED
        BY <2>2, <3>1, <3>2 DEF Cut
    <2>5. h[1] = {} /\ h[2] = {}
      BY <2>3, <2>4
    <2>6. QED
      BY <1>4, <2>1, <2>5
  <1>5. QED
    BY <1>1, <1>2, <1>3, <1>4

(* What a step that names a node does.                                     *)
Named(f, n, h) ==
  /\ Cutting(f, n, h)
  /\ names # << >> /\ n = AllNames[Len(names)] /\ names' = Front(names)
  /\ h = Halves(f.nodes, Cut(f.nodes, Edges(prog, f.nodes)))
  /\ calls' \in Seq(Call) /\ Once(calls') /\ (calls' = << >> <=> Pending' = {})
  /\ tree' \in [DOMAIN tree' -> Kind \X Kind]
  /\ Grown => f.nodes \subseteq Nodes(prog) /\ Halved(f.nodes, h)
  /\ Started => /\ h[1] \cup h[2] = Nodes(prog) /\ n = Root /\ Pending = {f}
                /\ Cardinality(Nodes(prog)) >= 2 => Halved(Nodes(prog), h)

LEMMA AllNamesType ==
  ASSUME lim \in BOOLEAN
  PROVE  /\ AllNames \in Seq(Ids) /\ Total \in Nat /\ Total >= 1 /\ AllNames[Total] = Root
         /\ Total >= Cardinality(Nodes(prog)) - 1
         /\ \A i \in 1 .. Total : AllNames[i] \in Ids /\ Rank(AllNames[i]) = i
  BY NamesType DEF AllNames, Total, Rank

(* The name taken next is of a lower rank than those in the tree.          *)
LEMMA NameNext ==
  ASSUME lim \in BOOLEAN, NamesLeft, names # << >>
  PROVE  /\ Len(names) \in 1 .. Total /\ Last(names) = AllNames[Len(names)] /\ Last(names) \in Ids
         /\ Last(names) \notin DOMAIN tree /\ DOMAIN tree \subseteq Ids
         /\ \A x \in DOMAIN tree : Rank(Last(names)) < Rank(x)
         /\ Front(names) \in Seq(Ids) /\ Len(Front(names)) = Len(names) - 1
         /\ \A i \in 1 .. Len(Front(names)) : Front(names)[i] = AllNames[i]
         /\ DOMAIN tree \cup {Last(names)} = {AllNames[i] : i \in (Len(Front(names)) + 1) .. Total}
  <1> DEFINE k == Len(names)
             n == Last(names)
  <1>1. /\ names \in Seq(Ids) /\ k <= Total
        /\ \A i \in 1 .. k : names[i] = AllNames[i]
        /\ DOMAIN tree = {AllNames[i] : i \in (k + 1) .. Total}
    BY DEF NamesLeft
  <1>2. /\ k \in Nat /\ k >= 1 /\ n = names[k] /\ n \in Ids
        /\ Front(names) \in Seq(Ids) /\ Len(Front(names)) = k - 1
        /\ \A i \in 1 .. (k - 1) : Front(names)[i] = names[i]
    BY <1>1, Popped
  <1> HIDE DEF k, n
  <1>3. Total \in Nat /\ \A i \in 1 .. Total : AllNames[i] \in Ids /\ Rank(AllNames[i]) = i
    BY AllNamesType
  <1>4. k \in 1 .. Total /\ n = AllNames[k] /\ Rank(n) = k
    BY <1>1, <1>2, <1>3
  <1>5. \A x \in DOMAIN tree : x \in Ids /\ k < Rank(x)
    <2>1. TAKE x \in DOMAIN tree
    <2>2. PICK i \in (k + 1) .. Total : x = AllNames[i]
      BY <1>1
    <2>3. i \in 1 .. Total /\ k < i
      BY <1>2, <1>3
    <2>4. QED
      BY <1>3, <2>2, <2>3
  <1>6. n \notin DOMAIN tree
    BY <1>2, <1>4, <1>5
  <1>7. DOMAIN tree \cup {n} = {AllNames[i] : i \in ((k - 1) + 1) .. Total}
    <2>1. ((k - 1) + 1) .. Total = ((k + 1) .. Total) \cup {k}
      BY <1>2, <1>3, <1>4
    <2>2. QED
      BY <1>1, <1>4, <2>1
  <1>8. QED
    BY <1>1, <1>2, <1>4, <1>5, <1>6, <1>7 DEF k, n

LEMMA ChildKind ==
  ASSUME NEW part, part \subseteq Modules
  PROVE  Child(part) \in Kind
  <1>1. part \in SUBSET Modules /\ IsFiniteSet(Modules)
    BY NodesType
  <1>2. IsFiniteSet(part)
    BY <1>1, FS_Subset
  <1>3. QED
    BY <1>2, ChildIs DEF Kind

LEMMA NoSlot ==
  ASSUME Unset \notin DOMAIN tree, NEW f, f.of = Unset, NEW v
  PROVE  SetChild(tree, f, v) = tree
  BY DEF SetChild

LEMMA StartedIs ==
  ASSUME Setting, Started
  PROVE  /\ NamesLeft /\ names # << >> /\ Last(names) = Root /\ DOMAIN tree = {}
         /\ SlotsFilled /\ OneParent /\ HasParent /\ LeafPlaced /\ Separate
         /\ calls \in Seq(Call) /\ Once(calls) /\ calls # << >>
         /\ Frame \in Call /\ Frame.nodes = StartNodes(prog) /\ Frame.of = Unset /\ Frame.side = 0
         /\ Pending = {Frame}
  <1> DEFINE f == [nodes |-> StartNodes(prog), of |-> Unset, side |-> 0]
  <1>1. calls = <<f>> /\ tree = << >> /\ names = AllNames /\ lim \in BOOLEAN
    BY DEF Started, Setting
  <1>2. /\ AllNames \in Seq(Ids) /\ Total \in Nat /\ Total >= 1 /\ AllNames[Total] = Root
        /\ Len(AllNames) = Total
    BY <1>1, AllNamesType DEF Total
  <1>3. DOMAIN tree = {}
    BY <1>1
  <1>4. NamesLeft /\ names # << >> /\ Last(names) = Root
    <2>0. names \in Seq(Ids) /\ Len(names) = Total /\ names[Total] = Root
      BY <1>1, <1>2
    <2>01. names # << >>
      BY <1>2, <2>0
    <2>1. names # << >> /\ Last(names) = Root
      BY <2>0, <2>01, Popped
    <2>2. (Total + 1) .. Total = {}
      BY <1>2
    <2>3. {AllNames[i] : i \in (Total + 1) .. Total} = {}
      BY <2>2
    <2>4. QED
      BY <1>1, <1>2, <1>3, <2>1, <2>3 DEF NamesLeft
  <1>5. StartNodes(prog) \subseteq 0 .. N
    BY NodesType DEF StartNodes, Vestigial, Modules
  <1>6. f \in Call
    <2>1. PICK S : S = StartNodes(prog)
      OBVIOUS
    <2>2. S \in SUBSET (0 .. N) /\ f = [nodes |-> S, of |-> Unset, side |-> 0]
      BY <1>5, <2>1
    <2>3. QED
      BY <2>2 DEF Call
  <1>7. f.nodes = StartNodes(prog) /\ f.of = Unset /\ f.side = 0
    OBVIOUS
  <1> HIDE DEF f
  <1>8. calls \in Seq(Call) /\ Once(calls) /\ calls # << >> /\ Frame = f /\ Pending = {f}
    <2>1. Len(calls) = 1 /\ calls[1] = f
      BY <1>1
    <2>2. calls \in Seq(Call) /\ calls # << >>
      BY <1>1, <1>6
    <2>3. Frame = f
      BY <2>1, <2>2, Popped DEF Frame
    <2>4. QED
      BY <2>1, <2>2, <2>3 DEF Once, Pending, Entries
  <1>9. SlotsFilled /\ OneParent /\ HasParent
    BY <1>3 DEF SlotsFilled, OneParent, HasParent
  <1>10. LeafPlaced
    <2>1. \A m \in Nodes(prog) : m \in f.nodes
      BY <1>7 DEF StartNodes
    <2>2. QED
      BY <1>3, <1>8, <2>1 DEF LeafPlaced
  <1>11. Separate
    BY <1>7, <1>8 DEF Separate
  <1>12. QED
    BY <1>3, <1>4, <1>6, <1>7, <1>8, <1>9, <1>10, <1>11

LEMMA AddedType ==
  ASSUME NEW K, NEW t, NEW D, t \in [D -> K], NEW n, n \notin D, NEW v \in K,
         NEW r, r = With(t, n, v)
  PROVE  r \in [D \cup {n} -> K]
  <1>1. DOMAIN t = D /\ \A x \in D : t[x] \in K
    OBVIOUS
  <1>2. r = [x \in D \cup {n} |-> IF x = n THEN v ELSE t[x]]
    BY <1>1 DEF With
  <1>3. QED
    BY <1>1, <1>2

LEMMA CutNodeIs ==
  ASSUME CutInv, CutNode
  PROVE  \E f, n, h : Named(f, n, h)
  <1>1. PICK f, n : f = Frame /\ n = Last(names)
    OBVIOUS
  <1>2. PICK side : /\ side = Cut(f.nodes, Edges(prog, f.nodes))
                    /\ names' = Front(names)
                    /\ tree' = With(SetChild(tree, f, n), n,
                                    <<Child(Halves(f.nodes, side)[1]), Child(Halves(f.nodes, side)[2])>>)
                    /\ calls' = Front(calls) \o Subcalls(n, Halves(f.nodes, side))
    BY <1>1 DEF CutNode
  <1>3. PICK h : h = Halves(f.nodes, side)
    OBVIOUS
  <1>4. /\ phase = "cut" /\ (f.nodes # {} \/ f.of = Unset) /\ names # << >>
        /\ prog' = prog /\ lim' = lim /\ empties' = empties
    BY <1>1 DEF CutNode
  <1>5. Setting /\ (Grown \/ Started) /\ calls # << >> /\ lim \in BOOLEAN
    BY <1>4 DEF CutInv, Setting
  <1>6. NamesLeft /\ Separate /\ calls \in Seq(Call) /\ Once(calls)
    <2>1. CASE Started
      BY <1>5, <2>1, StartedIs
    <2>2. CASE Grown
      BY <2>2 DEF Grown, Framed, Separate
    <2>3. QED
      BY <1>5, <2>1, <2>2
  <1>7. /\ Len(names) \in 1 .. Total /\ n = AllNames[Len(names)] /\ n \in Ids
        /\ n \notin DOMAIN tree /\ DOMAIN tree \subseteq Ids
        /\ \A x \in DOMAIN tree : Rank(n) < Rank(x)
    BY <1>1, <1>4, <1>5, <1>6, NameNext
  <1>8. f \in Call /\ f \in Pending /\ Front(calls) \in Seq(Call) /\ Once(Front(calls))
        /\ Entries(Front(calls)) = Pending \ {f}
    BY <1>1, <1>5, <1>6, Popped, PoppedOnce DEF Frame, Pending
  <1>9. \A x \in DOMAIN tree : x # Unset
    BY <1>7, Kinds DEF Ids
  <1>10. /\ \/ n = Root /\ f.of = Unset
            \/ n # Root /\ f.of \in DOMAIN tree /\ f.side \in {1, 2} /\ tree[f.of][f.side] = Unset
         /\ f.nodes \cap Nodes(prog) = h[1] \cup h[2] /\ h[1] \cap h[2] = {}
         /\ Grown => f.nodes \subseteq Nodes(prog) /\ Halved(f.nodes, h)
         /\ Started => /\ h[1] \cup h[2] = Nodes(prog) /\ n = Root /\ Pending = {f}
                       /\ Cardinality(Nodes(prog)) >= 2 => Halved(Nodes(prog), h)
    <2>1. CASE Grown
      <3>1. /\ f.of \in DOMAIN tree /\ f.side \in {1, 2} /\ tree[f.of][f.side] = Unset
            /\ f.nodes \subseteq Nodes(prog) /\ Cardinality(f.nodes) # 1 /\ Root \in DOMAIN tree
        BY <2>1, <1>8 DEF Grown, Framed, Shape
      <3>2. n # Root /\ f.of # Unset /\ f.nodes # {}
        BY <1>4, <1>7, <1>9, <3>1
      <3>3. Cardinality(f.nodes) >= 2
        <4>1. IsFiniteSet(Nodes(prog)) /\ f.nodes \in SUBSET Nodes(prog)
          BY <3>1, NodesType
        <4>2. IsFiniteSet(f.nodes)
          BY <4>1, FS_Subset
        <4>3. Cardinality(f.nodes) \in Nat /\ Cardinality(f.nodes) # 0
          BY <3>2, <4>2, FS_CardinalityType, FS_EmptySet
        <4>4. QED
          BY <3>1, <4>3
      <3>4. Halved(f.nodes, h)
        BY <1>2, <1>3, <1>5, <3>1, <3>3, CutHalves
      <3>5. ~Started
        BY <3>1 DEF Started
      <3>6. QED
        BY <3>1, <3>2, <3>4, <3>5 DEF Halved
    <2>2. CASE Started
      <3>1. /\ f.nodes = StartNodes(prog) /\ f.of = Unset /\ n = Root /\ Pending = {f}
            /\ DOMAIN tree = {}
        BY <1>1, <1>5, <2>2, StartedIs
      <3>2. /\ h[1] \cup h[2] = Nodes(prog) /\ h[1] \cap h[2] = {}
            /\ Cardinality(Nodes(prog)) >= 2 => Halved(Nodes(prog), h)
        BY <1>2, <1>3, <1>5, <3>1, FirstHalves
      <3>3. f.nodes \cap Nodes(prog) = Nodes(prog)
        BY <3>1 DEF StartNodes
      <3>4. ~Grown
        BY <3>1 DEF Grown, Shape
      <3>5. QED
        BY <3>1, <3>2, <3>3, <3>4
    <2>3. QED
      BY <1>5, <2>1, <2>2
  <1>11. h[1] \subseteq Modules /\ h[2] \subseteq Modules
    BY <1>10, NodesType
  <1>12. PICK t : t = SetChild(tree, f, n)
    OBVIOUS
  <1>13. /\ t \in [DOMAIN tree -> Kind \X Kind]
         /\ \A x \in DOMAIN tree, s \in {1, 2} :
              t[x][s] = IF x = f.of /\ s = f.side THEN n ELSE tree[x][s]
    <2>1. n \in Kind
      BY <1>7 DEF Kind
    <2>2. CASE Grown
      <3>1. Shape /\ f.of \in DOMAIN tree /\ f.of # Unset /\ f.side \in {1, 2}
        BY <1>8, <1>9, <2>2 DEF Grown, Framed
      <3>2. QED
        BY <1>12, <2>1, <3>1, SlotSet
    <2>3. CASE Started
      <3>1. tree = << >> /\ f.of = Unset /\ DOMAIN tree = {}
        BY <1>1, <1>5, <2>3, StartedIs DEF Started
      <3>2. t = tree
        BY <1>12, <3>1 DEF SetChild
      <3>3. << >> \in [{} -> Kind \X Kind]
        OBVIOUS
      <3>4. QED
        BY <3>1, <3>2, <3>3
    <2>4. QED
      BY <1>5, <2>2, <2>3
  <1>14. /\ DOMAIN tree' = DOMAIN tree \cup {n} /\ tree' \in [DOMAIN tree' -> Kind \X Kind]
         /\ \A x \in DOMAIN tree, s \in {1, 2} :
              tree'[x][s] = IF x = f.of /\ s = f.side THEN n ELSE tree[x][s]
         /\ \A s \in {1, 2} : tree'[n][s] = Child(h[s])
    <2>1. tree' = With(t, n, <<Child(h[1]), Child(h[2])>>)
      BY <1>2, <1>3, <1>12
    <2>2. Child(h[1]) \in Kind /\ Child(h[2]) \in Kind
      BY <1>11, ChildKind
    <2>3. PICK v, K : v = <<Child(h[1]), Child(h[2])>> /\ K = Kind \X Kind
      OBVIOUS
    <2>4. v \in K /\ v[1] = Child(h[1]) /\ v[2] = Child(h[2]) /\ t \in [DOMAIN tree -> K]
      <3>1. t \in [DOMAIN tree -> K]
        BY <1>13, <2>3
      <3>2. PICK a, b : a = Child(h[1]) /\ b = Child(h[2])
        OBVIOUS
      <3>3. v = <<a, b>> /\ a \in Kind /\ b \in Kind
        BY <2>2, <2>3, <3>2
      <3>4. v \in K /\ v[1] = a /\ v[2] = b
        BY <2>3, <3>3
      <3>5. QED
        BY <3>1, <3>2, <3>4
    <2>5. tree' = With(t, n, v)
      BY <2>1, <2>3
    <2>6. /\ DOMAIN tree' = DOMAIN tree \cup {n} /\ tree' \in [DOMAIN tree \cup {n} -> K]
          /\ tree'[n] = v /\ \A x \in DOMAIN tree : tree'[x] = t[x]
      <3>1. PICK D, r : D = DOMAIN tree /\ r = tree'
        OBVIOUS
      <3>2. n \notin D /\ t \in [D -> K] /\ v \in K /\ r = With(t, n, v)
        BY <1>7, <2>4, <2>5, <3>1
      <3>3. DOMAIN t = D
        BY <3>2
      <3>4. DOMAIN r = D \cup {n} /\ r[n] = v /\ \A x \in D : r[x] = t[x]
        <4>1. r = [y \in D \cup {n} |-> IF y = n THEN v ELSE t[y]]
          BY <3>2, <3>3 DEF With
        <4>2. QED
          BY <3>2, <4>1
      <3>5. r \in [D \cup {n} -> K]
        BY <3>2, AddedType
      <3>6. QED
        BY <3>1, <3>4, <3>5
    <2>7. tree'[n][1] = Child(h[1]) /\ tree'[n][2] = Child(h[2])
      BY <2>4, <2>6
    <2>8. tree' \in [DOMAIN tree' -> Kind \X Kind]
      BY <2>3, <2>6
    <2>9. \A s \in {1, 2} : tree'[n][s] = Child(h[s])
      BY <2>7
    <2>10. QED
      BY <1>13, <2>6, <2>8, <2>9
  <1>15. /\ calls' \in Seq(Call) /\ Once(calls') /\ (calls' = << >> <=> Pending' = {})
         /\ Pending' = (Pending \ {f}) \cup Calls(n, h)
    <2>1. \A g \in Entries(Front(calls)) : g.of # n
      BY <1>6, <1>7, <1>8, <1>9, Kinds DEF Separate, Ids
    <2>2. Sub(n, h[1], 1) \in Call /\ Sub(n, h[2], 2) \in Call
      <3>1. h[1] \in SUBSET (0 .. N) /\ h[2] \in SUBSET (0 .. N)
        BY <1>11, GraphAssumption DEF Modules
      <3>2. QED
        BY <1>7, <3>1 DEF Sub, Call
    <2>3. calls' = Onto(Front(calls), Subcalls(n, h))
      BY <1>2, <1>3 DEF Onto
    <2>4. /\ calls' \in Seq(Call) /\ Once(calls')
          /\ Entries(calls') = Entries(Front(calls)) \cup Calls(n, h)
          /\ calls' = << >> <=> Entries(calls') = {}
      BY <1>8, <2>1, <2>2, <2>3, SubcallsPushed
    <2>5. Pending' = Entries(calls')
      BY DEF Pending
    <2>6. QED
      BY <1>8, <2>4, <2>5
  <1>16. Cutting(f, n, h)
    BY <1>4, <1>7, <1>8, <1>10, <1>14, <1>15 DEF Cutting
  <1>17. Named(f, n, h)
    BY <1>2, <1>3, <1>4, <1>7, <1>10, <1>14, <1>15, <1>16 DEF Named
  <1>18. QED
    BY <1>17

(* The least module of each part has nothing to wait for: one module fewer *)
(* waits.                                                                  *)
LEMMA FewerWait ==
  ASSUME NEW f, NEW n, NEW h, Cutting(f, n, h), Separate,
         f.nodes \subseteq Nodes(prog), Halved(f.nodes, h)
  PROVE  \E c \in Waiting : c \notin Waiting' /\ Waiting' \subseteq Waiting
  <1> DEFINE a == Min(h[1])
             b == Min(h[2])
  <1>1. /\ h[1] \cup h[2] = f.nodes /\ h[1] \cap h[2] = {} /\ h[1] # {} /\ h[2] # {}
        /\ f \in Pending /\ prog' = prog
    BY DEF Halved, Cutting
  <1>2. h[1] \subseteq Nat /\ h[2] \subseteq Nat
    BY <1>1, NodesType
  <1>3. /\ a \in h[1] /\ \A y \in h[1] : a <= y
        /\ b \in h[2] /\ \A y \in h[2] : b <= y
    BY <1>1, <1>2, LeastIn
  <1> HIDE DEF a, b
  <1>4. \A m \in Later(f.nodes) : m \in Waiting
    BY <1>1 DEF Waiting, Later
  <1>5. ASSUME NEW m \in Waiting'
        PROVE  /\ m \in Nodes(prog)
               /\ \/ \E g \in Pending : g # f /\ m \in Later(g.nodes)
                  \/ \E s \in {1, 2} : m \in Later(h[s])
    BY <1>1, <1>5, NewPending DEF Waiting
  <1>6. Waiting' \subseteq Waiting
    <2>1. SUFFICES ASSUME NEW m \in Waiting' PROVE m \in Waiting
      OBVIOUS
    <2>2. ASSUME NEW s \in {1, 2}, m \in Later(h[s]) PROVE m \in Later(f.nodes)
      BY <1>1, <2>2 DEF Later
    <2>3. QED
      BY <1>4, <1>5, <2>2 DEF Waiting
  <1>7. ASSUME NEW c \in {a, b} PROVE c \notin Waiting'
    <2>1. SUFFICES ASSUME c \in Waiting' PROVE FALSE
      OBVIOUS
    <2>2. c \in f.nodes
      BY <1>1, <1>3, <1>7
    <2>3. CASE \E g \in Pending : g # f /\ c \in Later(g.nodes)
      BY <1>1, <2>2, <2>3 DEF Separate, Later
    <2>4. CASE \E s \in {1, 2} : c \in Later(h[s])
      <3>1. PICK s \in {1, 2} : c \in Later(h[s])
        BY <2>4
      <3>2. PICK x \in h[s] : x < c /\ c \in h[s]
        BY <3>1 DEF Later
      <3>3. c <= x
        BY <1>1, <1>3, <1>7, <3>2
      <3>4. c \in Nat /\ x \in Nat
        BY <1>2, <3>2
      <3>5. QED
        BY <3>2, <3>3, <3>4
    <2>5. QED
      BY <1>5, <2>1, <2>3, <2>4
  <1>8. a \in Later(f.nodes) \/ b \in Later(f.nodes)
    <2>1. a < b \/ b < a
      <3>1. a \in Nat /\ b \in Nat /\ a # b
        BY <1>1, <1>2, <1>3
      <3>2. QED
        BY <3>1
    <2>2. a \in f.nodes /\ b \in f.nodes
      BY <1>1, <1>3
    <2>3. QED
      BY <2>1, <2>2 DEF Later
  <1>9. QED
    BY <1>4, <1>6, <1>7, <1>8

LEMMA FirstWait ==
  ASSUME Setting, NEW f, NEW n, NEW h, Cutting(f, n, h), Pending = {f},
         h[1] \cup h[2] = Nodes(prog), Cardinality(Nodes(prog)) >= 2 => Halved(Nodes(prog), h)
  PROVE  IsFiniteSet(Waiting') /\ Cardinality(Waiting') \in Nat /\ Cardinality(Waiting') <= Total - 1
  <1> DEFINE M == Nodes(prog)
             c == Cardinality(M)
  <1>1. M \subseteq Modules /\ IsFiniteSet(M) /\ c \in Nat /\ Modules \subseteq Nat
    BY NodesType
  <1>2. Total \in Nat /\ Total >= 1 /\ Total >= c - 1
    BY AllNamesType DEF Setting
  <1>3. prog' = prog
    BY DEF Cutting
  <1>4. ASSUME NEW m \in Waiting'
        PROVE  m \in M /\ \E s \in {1, 2} : m \in Later(h[s])
    BY <1>3, <1>4, NewPending DEF Waiting
  <1>5. Waiting' \in SUBSET M
    BY <1>4
  <1>6. IsFiniteSet(Waiting') /\ Cardinality(Waiting') \in Nat
    BY <1>1, <1>5, FS_Subset, FS_CardinalityType
  <1>7. CASE c >= 2
    <2> DEFINE a == Min(h[1])
               b == Min(h[2])
    <2>1. h[1] \cap h[2] = {} /\ h[1] # {} /\ h[2] # {}
      BY <1>7 DEF Halved
    <2>2. h[1] \subseteq Nat /\ h[2] \subseteq Nat
      BY <1>1
    <2>3. /\ a \in h[1] /\ \A y \in h[1] : a <= y
          /\ b \in h[2] /\ \A y \in h[2] : b <= y
      BY <2>1, <2>2, LeastIn
    <2> HIDE DEF a, b
    <2>4. ASSUME NEW m \in {a, b} PROVE m \notin Waiting'
      <3>1. SUFFICES ASSUME m \in Waiting' PROVE FALSE
        OBVIOUS
      <3>2. PICK s \in {1, 2} : m \in Later(h[s])
        BY <1>4, <3>1
      <3>3. PICK x \in h[s] : x < m /\ m \in h[s]
        BY <3>2 DEF Later
      <3>4. m <= x
        BY <2>1, <2>3, <2>4, <3>3
      <3>5. m \in Nat /\ x \in Nat
        BY <2>2, <3>3
      <3>6. QED
        BY <3>3, <3>4, <3>5
    <2>5. a \in M /\ b \in M /\ a # b
      BY <2>1, <2>3
    <2>6. /\ IsFiniteSet(M \ {a}) /\ Cardinality(M \ {a}) = c - 1
          /\ IsFiniteSet((M \ {a}) \ {b}) /\ Cardinality((M \ {a}) \ {b}) = c - 1 - 1
      <3>1. b \in M \ {a}
        BY <2>5
      <3> DEFINE A == M \ {a}
      <3>2. IsFiniteSet(A) /\ Cardinality(A) = c - 1
        BY <1>1, <2>5, FS_RemoveElement
      <3> HIDE DEF A
      <3>3. IsFiniteSet(A \ {b}) /\ Cardinality(A \ {b}) = Cardinality(A) - 1
        BY <3>1, <3>2, FS_RemoveElement DEF A
      <3>4. QED
        BY <3>2, <3>3 DEF A
    <2>7. Waiting' \in SUBSET ((M \ {a}) \ {b})
      BY <1>5, <2>4
    <2>8. Cardinality(Waiting') <= Cardinality((M \ {a}) \ {b})
      BY <2>6, <2>7, FS_Subset
    <2>9. QED
      BY <1>1, <1>2, <1>6, <2>6, <2>8
  <1>8. CASE c < 2
    <2>1. ASSUME NEW m \in Waiting' PROVE FALSE
      <3>1. PICK s \in {1, 2} : m \in Later(h[s])
        BY <1>4, <2>1
      <3>2. PICK x \in h[s] : x < m /\ m \in h[s]
        BY <3>1 DEF Later
      <3>3. x \in M /\ m \in M /\ x # m
        <4>1. x \in M /\ m \in M
          BY <3>2
        <4>2. x \in Nat /\ m \in Nat
          BY <1>1, <4>1
        <4>3. QED
          BY <3>2, <4>1, <4>2
      <3>4. {x, m} \in SUBSET M /\ Cardinality({x, m}) = 2
        <4>1. IsFiniteSet({x}) /\ Cardinality({x}) = 1
          BY FS_Singleton
        <4>2. {x, m} = {x} \cup {m} /\ m \notin {x}
          BY <3>3
        <4>3. Cardinality({x, m}) = Cardinality({x}) + 1
          BY <4>1, <4>2, FS_AddElement
        <4>4. QED
          BY <3>3, <4>1, <4>3
      <3>5. 2 <= c
        BY <1>1, <3>4, FS_Subset
      <3>6. QED
        BY <1>1, <1>8, <3>5
    <2>2. Waiting' = {}
      BY <2>1
    <2>3. Cardinality(Waiting') = 0
      BY <2>2, FS_EmptySet
    <2>4. QED
      BY <1>2, <1>6, <2>3
  <1>9. QED
    BY <1>1, <1>7, <1>8

LEMMA NodeStep ==
  ASSUME CutInv, CutNode
  PROVE  CutInv'
  <1>1. PICK f, n, h : Named(f, n, h)
    BY CutNodeIs
  <1>2. /\ phase = "cut" /\ names # << >> /\ prog' = prog /\ lim' = lim /\ sortIdx' = sortIdx
        /\ empties' = empties /\ phase' = IF calls' = << >> THEN "emit" ELSE "cut"
    BY DEF CutNode, EndCut
  <1>3. Setting /\ (Grown \/ Started) /\ lim \in BOOLEAN
    BY <1>2 DEF CutInv, Setting
  <1>4. Setting'
    BY <1>2, <1>3 DEF Setting
  <1>5. /\ Cutting(f, n, h) /\ n = AllNames[Len(names)] /\ names' = Front(names)
        /\ calls' \in Seq(Call) /\ Once(calls') /\ (calls' = << >> <=> Pending' = {})
        /\ tree' \in [DOMAIN tree' -> Kind \X Kind]
        /\ Grown => f.nodes \subseteq Nodes(prog) /\ Halved(f.nodes, h)
        /\ Started => /\ h[1] \cup h[2] = Nodes(prog) /\ n = Root /\ Pending = {f}
                      /\ Cardinality(Nodes(prog)) >= 2 => Halved(Nodes(prog), h)
    BY <1>1 DEF Named
  <1>6. phase' = "cut" <=> calls' # << >>
    BY <1>2
  <1>7. NamesLeft /\ Slots /\ Separate
    <2>1. CASE Started
      BY <1>3, <2>1, StartedIs DEF Slots
    <2>2. CASE Grown
      BY <2>2 DEF Grown, Framed, Separate, Slots
    <2>3. QED
      BY <1>3, <2>1, <2>2
  <1>8. AllNames' = AllNames /\ Total' = Total
    BY <1>2 DEF AllNames, Total
  <1>9. /\ DOMAIN tree' = DOMAIN tree \cup {n} /\ f \in Pending
        /\ f.nodes \cap Nodes(prog) = h[1] \cup h[2]
    BY <1>5 DEF Cutting
  <1>10. /\ Len(names) \in 1 .. Total /\ n = Last(names)
         /\ names' \in Seq(Ids) /\ Len(names') = Len(names) - 1
         /\ \A i \in 1 .. Len(names') : names'[i] = AllNames[i]
         /\ DOMAIN tree' = {AllNames[i] : i \in (Len(names') + 1) .. Total}
    BY <1>2, <1>3, <1>5, <1>7, <1>9, NameNext
  <1>11. Total \in Nat
    BY <1>3, AllNamesType
  <1>12. NamesLeft'
    <2>1. Len(names') <= Total
      BY <1>10, <1>11
    <2>2. QED
      BY <1>8, <1>10, <2>1 DEF NamesLeft
  <1>13. Shape'
    <2>1. Root \in DOMAIN tree' /\ empties \in Nat
      <3>1. CASE Grown
        BY <1>9, <3>1 DEF Grown, Shape
      <3>2. CASE Started
        BY <1>5, <1>9, <3>2 DEF Started
      <3>3. QED
        BY <1>3, <3>1, <3>2
    <2>2. QED
      BY <1>2, <1>5, <2>1 DEF Shape
  <1>14. SlotsFilled' /\ OneParent' /\ HasParent' /\ LeafPlaced'
    BY <1>5, <1>7, CutFillsSlots, CutOneParent, CutHasParent, CutLeafPlaced
  <1>15. /\ Separate'
         /\ \A g \in Pending' : (g \in Pending /\ g # f) \/ tree'[g.of][g.side] = Unset
    BY <1>5, <1>7, CutSeparate
  <1>16. Framed'
    <2>1. ASSUME NEW g \in Pending'
          PROVE  /\ g.of \in DOMAIN tree' /\ g.side \in {1, 2} /\ tree'[g.of][g.side] = Unset
                 /\ g.nodes \subseteq Nodes(prog) /\ Cardinality(g.nodes) # 1
      <3>1. CASE g \in Pending /\ g # f
        <4>1. Grown
          BY <1>3, <1>5, <3>1
        <4>2. /\ g.of \in DOMAIN tree /\ g.side \in {1, 2} /\ tree[g.of][g.side] = Unset
              /\ g.nodes \subseteq Nodes(prog) /\ Cardinality(g.nodes) # 1
              /\ ~(g.of = f.of /\ g.side = f.side)
          BY <1>9, <3>1, <4>1 DEF Grown, Framed
        <4>3. tree'[g.of][g.side] = tree[g.of][g.side]
          BY <1>5, <4>2, OldSlots
        <4>4. QED
          BY <1>9, <4>2, <4>3
      <3>2. CASE \E s \in {1, 2} : g.of = n /\ g.side = s /\ g.nodes = h[s] /\ Cardinality(h[s]) # 1
        <4>1. ~(g \in Pending /\ g # f)
          <5>1. n \notin DOMAIN tree /\ n # Unset
            BY <1>5, Kinds DEF Cutting, Ids
          <5>2. QED
            BY <1>7, <3>2, <5>1 DEF Separate
        <4>2. QED
          BY <1>9, <1>15, <3>2, <4>1
      <3>3. QED
        BY <1>5, <3>1, <3>2, NewPending
    <2>2. \A g, k \in Pending' : g # k => g.nodes \cap k.nodes = {} /\ ~(g.of = k.of /\ g.side = k.side)
      BY <1>15 DEF Separate
    <2>3. QED
      BY <1>2, <1>5, <2>1, <2>2 DEF Framed
  <1>17. Budget'
    <2>1. CASE Started
      <3>1. Cardinality(Waiting') \in Nat /\ Cardinality(Waiting') <= Total - 1
        BY <1>3, <1>5, <2>1, FirstWait
      <3>2. Len(names) = Total
        BY <2>1 DEF Started, Total
      <3>3. QED
        BY <1>10, <1>11, <3>1, <3>2 DEF Budget
    <2>2. CASE Grown
      <3>1. PICK c \in Waiting : c \notin Waiting' /\ Waiting' \subseteq Waiting
        BY <1>5, <1>7, <2>2, FewerWait
      <3>2. IsFiniteSet(Waiting)
        <4>1. Waiting \in SUBSET Nodes(prog) /\ IsFiniteSet(Nodes(prog))
          BY NodesType DEF Waiting
        <4>2. QED
          BY <4>1, FS_Subset
      <3>3. /\ Cardinality(Waiting') < Cardinality(Waiting)
            /\ Cardinality(Waiting') \in Nat /\ Cardinality(Waiting) \in Nat
        <4>1. PICK A, B : A = Waiting' /\ B = Waiting
          OBVIOUS
        <4>2. Cardinality(A) < Cardinality(B) /\ Cardinality(A) \in Nat /\ Cardinality(B) \in Nat
          BY <3>1, <3>2, <4>1, FewerIn
        <4>3. QED
          BY <4>1, <4>2
      <3>4. Cardinality(Waiting) <= Len(names)
        BY <2>2 DEF Grown, Budget
      <3>5. QED
        BY <1>10, <1>11, <3>3, <3>4 DEF Budget
    <2>3. QED
      BY <1>3, <2>1, <2>2
  <1>18. QED
    BY <1>4, <1>6, <1>12, <1>13, <1>14, <1>16, <1>17 DEF CutInv, Grown

(* A call with two modules or more to cut has a name for the node.         *)
LEMMA NameThere ==
  ASSUME CutInv, phase = "cut", Frame.nodes # {} \/ Frame.of = Unset
  PROVE  names # << >>
  <1>1. Setting /\ (Grown \/ Started) /\ calls # << >>
    BY DEF CutInv
  <1>2. CASE Started
    BY <1>1, <1>2, StartedIs
  <1>3. CASE Grown
    <2>1. PICK f : f = Frame
      OBVIOUS
    <2>2. f \in Pending
      BY <1>1, <1>3, <2>1, PoppedOnce DEF Grown, Framed, Frame, Pending
    <2>3. /\ f.of \in DOMAIN tree /\ f.nodes \subseteq Nodes(prog) /\ Cardinality(f.nodes) # 1
          /\ NamesLeft /\ Cardinality(Waiting) <= Len(names)
      BY <1>3, <2>2 DEF Grown, Framed, Budget
    <2>4. DOMAIN tree \subseteq Ids
      <3>1. /\ names \in Seq(Ids) /\ Len(names) \in Nat
            /\ DOMAIN tree = {AllNames[i] : i \in (Len(names) + 1) .. Total}
        BY <2>3 DEF NamesLeft
      <3>2. Total \in Nat /\ \A i \in 1 .. Total : AllNames[i] \in Ids
        BY <1>1, AllNamesType DEF Setting
      <3>3. \A i \in (Len(names) + 1) .. Total : i \in 1 .. Total
        BY <3>1, <3>2
      <3>4. QED
        BY <3>1, <3>2, <3>3
    <2>5. f.nodes # {}
      BY <2>1, <2>3, <2>4, Kinds DEF Ids
    <2>6. f.nodes \subseteq Nat /\ IsFiniteSet(Nodes(prog))
      BY <2>3, NodesType
    <2>7. PICK x \in f.nodes : \A y \in f.nodes : x <= y
      BY <2>5, <2>6, LeastNat
    <2>8. PICK m \in f.nodes : m # x
      <3>1. SUFFICES ASSUME f.nodes = {x} PROVE FALSE
        BY <2>7
      <3>2. QED
        BY <2>3, <3>1, FS_Singleton
    <2>9. x < m
      BY <2>6, <2>7, <2>8
    <2>10. m \in Waiting
      BY <2>2, <2>3, <2>7, <2>8, <2>9 DEF Waiting, Later
    <2>11. Waiting \in SUBSET Nodes(prog)
      BY DEF Waiting
    <2>12. IsFiniteSet(Waiting)
      BY <2>6, <2>11, FS_Subset
    <2>13. Cardinality(Waiting) \in Nat /\ Cardinality(Waiting) # 0
      BY <2>10, <2>12, FS_CardinalityType, FS_EmptySet
    <2>14. QED
      BY <2>3, <2>13
  <1>4. QED
    BY <1>1, <1>2, <1>3

(* What a step that makes an empty module does.                            *)
Emptying(f, v) ==
  /\ phase = "cut" /\ f.nodes = {} /\ v = Empty(empties) /\ empties' = empties + 1
  /\ prog' = prog /\ lim' = lim /\ sortIdx' = sortIdx /\ names' = names
  /\ phase' = IF calls' = << >> THEN "emit" ELSE "cut"
  /\ Grown /\ empties \in Nat /\ v \in Kind /\ v # Unset
  /\ f \in Pending /\ calls' \in Seq(Call) /\ Once(calls') /\ Pending' = Pending \ {f}
  /\ tree' \in [DOMAIN tree -> Kind \X Kind] /\ DOMAIN tree' = DOMAIN tree
  /\ \A x \in DOMAIN tree, s \in {1, 2} :
       tree'[x][s] = IF x = f.of /\ s = f.side THEN v ELSE tree[x][s]
  /\ f.of \in DOMAIN tree /\ f.side \in {1, 2} /\ tree[f.of][f.side] = Unset

LEMMA EmptyIs ==
  ASSUME CutInv, CutEmpty
  PROVE  \E f, v : Emptying(f, v)
  <1>1. PICK f, v : f = Frame /\ v = Empty(empties)
    OBVIOUS
  <1>2. /\ phase = "cut" /\ f.nodes = {} /\ f.of # Unset
        /\ calls' = Front(calls) /\ tree' = SetChild(tree, f, v) /\ empties' = empties + 1
        /\ prog' = prog /\ lim' = lim /\ sortIdx' = sortIdx /\ names' = names
        /\ phase' = IF calls' = << >> THEN "emit" ELSE "cut"
    BY <1>1 DEF CutEmpty, EndCut
  <1>3. Setting /\ (Grown \/ Started) /\ calls # << >>
    BY <1>2 DEF CutInv
  <1>4. Grown
    BY <1>1, <1>2, <1>3, StartedIs
  <1>6. /\ calls \in Seq(Call) /\ Once(calls) /\ Shape /\ empties \in Nat
        /\ \A g \in Pending : /\ g.of \in DOMAIN tree /\ g.side \in {1, 2} /\ tree[g.of][g.side] = Unset
                              /\ g.nodes \subseteq Nodes(prog) /\ Cardinality(g.nodes) # 1
        /\ \A g, k \in Pending : g # k => g.nodes \cap k.nodes = {} /\ ~(g.of = k.of /\ g.side = k.side)
    BY <1>4 DEF Grown, Framed, Shape
  <1>7. /\ f \in Pending /\ calls' \in Seq(Call) /\ Once(calls') /\ Pending' = Pending \ {f}
    BY <1>1, <1>2, <1>3, <1>6, Popped, PoppedOnce DEF Frame, Pending
  <1>8. v \in Kind /\ v # Unset
    BY <1>1, <1>6, Kinds DEF Kind
  <1>9. /\ tree' \in [DOMAIN tree -> Kind \X Kind]
        /\ \A x \in DOMAIN tree, s \in {1, 2} :
             tree'[x][s] = IF x = f.of /\ s = f.side THEN v ELSE tree[x][s]
    BY <1>2, <1>6, <1>7, <1>8, SlotSet
  <1>10. DOMAIN tree' = DOMAIN tree /\ f.of \in DOMAIN tree /\ f.side \in {1, 2} /\ tree[f.of][f.side] = Unset
    BY <1>6, <1>7, <1>9
  <1>11. Emptying(f, v)
    BY <1>1, <1>2, <1>4, <1>6, <1>7, <1>8, <1>9, <1>10 DEF Emptying
  <1>12. QED
    BY <1>11

LEMMA EmptyStep ==
  ASSUME CutInv, CutEmpty
  PROVE  CutInv'
  <1>1. PICK f, v : Emptying(f, v)
    BY EmptyIs
  <1>2. /\ phase = "cut" /\ f.nodes = {} /\ v = Empty(empties) /\ empties' = empties + 1
        /\ prog' = prog /\ lim' = lim /\ sortIdx' = sortIdx /\ names' = names
        /\ phase' = IF calls' = << >> THEN "emit" ELSE "cut"
    BY <1>1 DEF Emptying
  <1>3. Setting
    BY DEF CutInv
  <1>4. Grown
    BY <1>1 DEF Emptying
  <1>5. Setting'
    BY <1>2, <1>3 DEF Setting
  <1>6. /\ calls \in Seq(Call) /\ Once(calls) /\ Shape /\ empties \in Nat
        /\ \A g \in Pending : /\ g.of \in DOMAIN tree /\ g.side \in {1, 2} /\ tree[g.of][g.side] = Unset
                              /\ g.nodes \subseteq Nodes(prog) /\ Cardinality(g.nodes) # 1
        /\ \A g, k \in Pending : g # k => g.nodes \cap k.nodes = {} /\ ~(g.of = k.of /\ g.side = k.side)
    BY <1>4 DEF Grown, Framed, Shape
  <1>7. f \in Pending /\ calls' \in Seq(Call) /\ Once(calls') /\ Pending' = Pending \ {f}
    BY <1>1 DEF Emptying
  <1>8. v \in Kind /\ v # Unset
    BY <1>1 DEF Emptying
  <1>9. /\ tree' \in [DOMAIN tree -> Kind \X Kind]
        /\ \A x \in DOMAIN tree, s \in {1, 2} :
             tree'[x][s] = IF x = f.of /\ s = f.side THEN v ELSE tree[x][s]
    BY <1>1 DEF Emptying
  <1>10. DOMAIN tree' = DOMAIN tree /\ f.of \in DOMAIN tree /\ f.side \in {1, 2} /\ tree[f.of][f.side] = Unset
    BY <1>1 DEF Emptying
  <1>11. AllNames' = AllNames /\ Total' = Total
    BY <1>2 DEF AllNames, Total
  <1>12. NamesLeft'
    BY <1>2, <1>4, <1>10, <1>11 DEF Grown, NamesLeft
  <1>13. Shape'
    <2>1. tree' \in [DOMAIN tree' -> Kind \X Kind]
      BY <1>9, <1>10
    <2>2. QED
      BY <1>2, <1>6, <1>10, <2>1 DEF Shape
  <1>14. DOMAIN tree \subseteq Ids
    <2>1. NamesLeft /\ Setting
      BY <1>3, <1>4 DEF Grown
    <2>2. /\ names \in Seq(Ids) /\ Len(names) \in Nat
          /\ DOMAIN tree = {AllNames[i] : i \in (Len(names) + 1) .. Total}
      BY <2>1 DEF NamesLeft
    <2>3. Total \in Nat /\ \A i \in 1 .. Total : AllNames[i] \in Ids
      BY <2>1, AllNamesType DEF Setting
    <2>4. \A i \in (Len(names) + 1) .. Total : i \in 1 .. Total
      BY <2>2, <2>3
    <2>5. QED
      BY <2>2, <2>3, <2>4
  (* The empty module is new: no slot has it, and it is none of the rest.  *)
  <1>15. ASSUME NEW x \in DOMAIN tree, NEW s \in {1, 2} PROVE tree[x][s] # v
    <2>1. \/ tree[x][s] = Unset \/ \E m \in Nodes(prog) : tree[x][s] = Leaf(m)
          \/ tree[x][s] \in Ids \/ \E e \in Nat : e < empties /\ tree[x][s] = Empty(e)
      BY <1>4, <1>14, <1>15 DEF Grown, SlotsFilled
    <2>2. \A e \in Nat : e < empties => Empty(e) # v
      BY <1>2, <1>6, Kinds
    <2>3. QED
      BY <1>2, <1>8, <2>1, <2>2, Kinds DEF Ids
  <1>16. ASSUME NEW x \in DOMAIN tree, NEW s \in {1, 2}
         PROVE  \/ x = f.of /\ s = f.side /\ tree[x][s] = Unset /\ tree'[x][s] = v
                \/ ~(x = f.of /\ s = f.side) /\ tree'[x][s] = tree[x][s]
    BY <1>9, <1>10, <1>16
  <1>17. SlotsFilled'
    <2>1. SUFFICES ASSUME NEW x \in DOMAIN tree, NEW s \in {1, 2}
                   PROVE  \/ tree'[x][s] = Unset /\ \E g \in Pending' : g.of = x /\ g.side = s
                          \/ \E m \in Nodes(prog) : tree'[x][s] = Leaf(m)
                          \/ tree'[x][s] \in DOMAIN tree /\ Place(prog, lim, tree'[x][s]) < Place(prog, lim, x)
                          \/ \E e \in Nat : e < empties' /\ tree'[x][s] = Empty(e)
      BY <1>2, <1>10 DEF SlotsFilled, Rank
    <2>2. CASE x = f.of /\ s = f.side /\ tree'[x][s] = v
      <3>1. empties \in Nat /\ empties < empties' /\ tree'[x][s] = Empty(empties)
        BY <1>2, <1>6, <2>2
      <3>2. QED
        BY <3>1
    <2>3. CASE ~(x = f.of /\ s = f.side) /\ tree'[x][s] = tree[x][s]
      <3>1. \/ tree[x][s] = Unset /\ \E g \in Pending : g.of = x /\ g.side = s
            \/ \E m \in Nodes(prog) : tree[x][s] = Leaf(m)
            \/ tree[x][s] \in DOMAIN tree /\ Rank(tree[x][s]) < Rank(x)
            \/ \E e \in Nat : e < empties /\ tree[x][s] = Empty(e)
        BY <1>4, <2>1 DEF Grown, SlotsFilled
      <3>2. CASE tree[x][s] = Unset /\ \E g \in Pending : g.of = x /\ g.side = s
        BY <1>7, <2>3, <3>2
      <3>3. CASE \E e \in Nat : e < empties /\ tree[x][s] = Empty(e)
        <4>1. PICK e \in Nat : e < empties /\ tree[x][s] = Empty(e)
          BY <3>3
        <4>2. e < empties'
          BY <1>2, <1>6, <4>1
        <4>3. QED
          BY <2>3, <4>1, <4>2
      <3>4. QED
        BY <2>3, <3>1, <3>2, <3>3 DEF Rank
    <2>4. QED
      BY <1>16, <2>2, <2>3
  <1>18. OneParent'
    <2>1. SUFFICES ASSUME NEW x \in DOMAIN tree, NEW s \in {1, 2}, NEW y \in DOMAIN tree, NEW t \in {1, 2},
                          tree'[x][s] = tree'[y][t], tree'[x][s] # Unset
                   PROVE  x = y /\ s = t
      BY <1>10 DEF OneParent
    <2>2. tree[x][s] # v /\ tree[y][t] # v
      BY <1>15
    <2>3. CASE x = f.of /\ s = f.side /\ tree'[x][s] = v
      BY <1>16, <2>1, <2>2, <2>3
    <2>4. CASE tree'[x][s] = tree[x][s]
      <3>1. tree'[y][t] = tree[y][t]
        BY <1>16, <2>1, <2>2, <2>4
      <3>2. QED
        <4>1. tree[x][s] = tree[y][t] /\ tree[x][s] # Unset
          BY <2>1, <2>4, <3>1
        <4>2. OneParent
          BY <1>4 DEF Grown
        <4>3. QED
          BY <4>1, <4>2 DEF OneParent
    <2>5. QED
      BY <1>16, <2>3, <2>4
  <1>19. HasParent'
    <2>1. SUFFICES ASSUME NEW y \in DOMAIN tree, y # Root
                   PROVE  \E x \in DOMAIN tree, s \in {1, 2} : tree'[x][s] = y
      BY <1>10 DEF HasParent
    <2>2. PICK x \in DOMAIN tree, s \in {1, 2} : tree[x][s] = y
      BY <1>4, <2>1 DEF Grown, HasParent
    <2>3. y # Unset
      BY <1>14, <2>1, Kinds DEF Ids
    <2>4. tree'[x][s] = y
      BY <1>16, <2>2, <2>3
    <2>5. QED
      BY <2>2, <2>4
  <1>20. LeafPlaced'
    <2>1. SUFFICES ASSUME NEW m \in Nodes(prog)
                   PROVE  IF \E g \in Pending' : m \in g.nodes
                          THEN \A x \in DOMAIN tree, s \in {1, 2} : tree'[x][s] # Leaf(m)
                          ELSE \E x \in DOMAIN tree, s \in {1, 2} : tree'[x][s] = Leaf(m)
      BY <1>2, <1>10 DEF LeafPlaced
    <2>2. (\E g \in Pending' : m \in g.nodes) <=> (\E g \in Pending : m \in g.nodes)
      BY <1>2, <1>7
    <2>3. v # Leaf(m) /\ Leaf(m) # Unset
      BY <1>2, Kinds
    <2>4. \A x \in DOMAIN tree, s \in {1, 2} : tree'[x][s] = Leaf(m) <=> tree[x][s] = Leaf(m)
      BY <1>16, <2>3
    <2>5. LeafPlaced
      BY <1>4 DEF Grown
    <2>6. QED
      BY <2>2, <2>4, <2>5 DEF LeafPlaced
  <1>21. Framed'
    <2>1. ASSUME NEW g \in Pending'
          PROVE  /\ g.of \in DOMAIN tree' /\ g.side \in {1, 2} /\ tree'[g.of][g.side] = Unset
                 /\ g.nodes \subseteq Nodes(prog) /\ Cardinality(g.nodes) # 1
      <3>1. /\ g \in Pending /\ g # f /\ g.of \in DOMAIN tree /\ g.side \in {1, 2}
            /\ tree[g.of][g.side] = Unset /\ ~(g.of = f.of /\ g.side = f.side)
            /\ g.nodes \subseteq Nodes(prog) /\ Cardinality(g.nodes) # 1
        BY <1>6, <1>7, <2>1
      <3>2. QED
        BY <1>10, <1>16, <3>1
    <2>2. \A g, k \in Pending' : g # k => g.nodes \cap k.nodes = {} /\ ~(g.of = k.of /\ g.side = k.side)
      BY <1>6, <1>7
    <2>3. QED
      BY <1>2, <1>7, <2>1, <2>2 DEF Framed
  <1>22. Budget'
    <2>1. Waiting' = Waiting
      <3>1. Later(f.nodes) = {}
        BY <1>2 DEF Later
      <3>2. \A m : (\E g \in Pending' : m \in Later(g.nodes)) <=> (\E g \in Pending : m \in Later(g.nodes))
        BY <1>7, <3>1
      <3>3. Waiting' = {m \in Nodes(prog) : \E g \in Pending' : m \in Later(g.nodes)}
        BY <1>2 DEF Waiting, Later
      <3>4. QED
        BY <3>2, <3>3 DEF Waiting
    <2>2. QED
      BY <1>2, <1>4, <2>1 DEF Grown, Budget
  <1>23. phase' = "cut" <=> calls' # << >>
    BY <1>2
  <1>24. QED
    BY <1>5, <1>12, <1>13, <1>17, <1>18, <1>19, <1>20, <1>21, <1>22, <1>23 DEF CutInv, Grown

LEMMA CutInit ==
  ASSUME Init
  PROVE  CutInv
  <1>1. Started /\ phase = "cut"
    BY DEF Init, Started, AllNames
  <1>2. Setting
    BY TreeAssumption DEF Init, Setting
  <1>3. calls # << >>
    BY <1>1, <1>2, StartedIs
  <1>4. QED
    BY <1>1, <1>2, <1>3 DEF CutInv

LEMMA CutKept ==
  ASSUME CutInv, UNCHANGED <<prog, sortIdx, lim, names, calls, tree, empties>>,
         (phase # "cut" /\ phase' # "cut") \/ phase' = phase
  PROVE  CutInv'
  <1>1. /\ Pending' = Pending /\ AllNames' = AllNames /\ Total' = Total /\ Waiting' = Waiting
    BY DEF Pending, AllNames, Total, Waiting
  <1>2. (phase' = "cut") <=> (phase = "cut")
    OBVIOUS
  <1>3. Setting' <=> Setting
    BY DEF Setting
  <1>4. Started' <=> Started
    BY <1>1 DEF Started
  <1>5. Grown' <=> Grown
    <2>1. NamesLeft' <=> NamesLeft
      BY <1>1 DEF NamesLeft
    <2>2. Shape' <=> Shape
      BY DEF Shape
    <2>3. SlotsFilled' <=> SlotsFilled
      BY <1>1 DEF SlotsFilled, Rank
    <2>4. (OneParent' <=> OneParent) /\ (HasParent' <=> HasParent)
      BY DEF OneParent, HasParent
    <2>5. LeafPlaced' <=> LeafPlaced
      BY <1>1 DEF LeafPlaced
    <2>6. Framed' <=> Framed
      BY <1>1 DEF Framed
    <2>7. Budget' <=> Budget
      BY <1>1 DEF Budget
    <2>8. QED
      BY <2>1, <2>2, <2>3, <2>4, <2>5, <2>6, <2>7 DEF Grown
  <1>6. QED
    BY <1>2, <1>3, <1>4, <1>5 DEF CutInv

LEMMA CutStep ==
  ASSUME CutInv, [Next]_vars
  PROVE  CutInv'
  <1>1. CASE CutEmpty
    BY <1>1, EmptyStep
  <1>2. CASE CutNode
    BY <1>2, NodeStep
  <1>3. CASE EnterNode
    BY <1>3, CutKept DEF EnterNode, cutVars
  <1>4. CASE EmitNode
    <2>1. /\ UNCHANGED <<prog, sortIdx, lim, names, calls, tree, empties>>
          /\ phase = "emit" /\ phase' # "cut"
      BY <1>4 DEF EmitNode, cutVars
    <2>2. QED
      BY <2>1, CutKept
  <1>5. CASE FinishFiles
    BY <1>5, CutKept DEF FinishFiles, cutVars
  <1>6. CASE UNCHANGED vars
    BY <1>6, CutKept DEF vars
  <1>7. QED
    BY <1>1, <1>2, <1>3, <1>4, <1>5, <1>6 DEF Next

-----------------------------------------------------------------------------
(***************************************************************************)
(* emitWrappersRecurse: the wrappers as they are written.                  *)
(***************************************************************************)
(* The tree once it is cut: every slot is filled, by what has a lower rank *)
(* or is no node, and everything is in one slot.                           *)
Whole ==
  /\ Root \in DOMAIN tree /\ empties \in Nat
  /\ \A n \in DOMAIN tree : n \in Ids /\ Rank(n) \in 1 .. Total
  /\ \A n \in DOMAIN tree, s \in {1, 2} :
       \/ \E m \in Nodes(prog) : tree[n][s] = Leaf(m)
       \/ tree[n][s] \in DOMAIN tree /\ Rank(tree[n][s]) < Rank(n)
       \/ \E e \in Nat : e < empties /\ tree[n][s] = Empty(e)
  /\ \A n, x \in DOMAIN tree, s, t \in {1, 2} : tree[n][s] = tree[x][t] => n = x /\ s = t
  /\ \A n \in DOMAIN tree : n # Root => \E x \in DOMAIN tree, s \in {1, 2} : tree[x][s] = n
  /\ \A m \in Nodes(prog) : \E x \in DOMAIN tree, s \in {1, 2} : tree[x][s] = Leaf(m)
  /\ Rank(Root) = Total /\ Total \in Nat

LEMMA TreeRanks ==
  ASSUME lim \in BOOLEAN, NamesLeft
  PROVE  \A n \in DOMAIN tree : n \in Ids /\ Rank(n) \in 1 .. Total
  <1>1. /\ names \in Seq(Ids) /\ Len(names) \in Nat
        /\ DOMAIN tree = {AllNames[i] : i \in (Len(names) + 1) .. Total}
    BY DEF NamesLeft
  <1>2. Total \in Nat /\ \A i \in 1 .. Total : AllNames[i] \in Ids /\ Rank(AllNames[i]) = i
    BY AllNamesType
  <1>3. \A i \in (Len(names) + 1) .. Total : i \in 1 .. Total
    BY <1>1, <1>2
  <1>4. QED
    BY <1>1, <1>2, <1>3

LEMMA WholeTree ==
  ASSUME CutInv, phase # "cut"
  PROVE  Whole
  <1>1. Setting /\ Grown /\ calls = << >> /\ lim \in BOOLEAN
    BY DEF CutInv, Setting
  <1>2. Pending = {}
    BY <1>1 DEF Pending, Entries
  <1>3. \A n \in DOMAIN tree : n \in Ids /\ Rank(n) \in 1 .. Total
    BY <1>1, TreeRanks DEF Grown
  <1>4. Total \in Nat /\ Total >= 1 /\ AllNames[Total] = Root /\ Rank(AllNames[Total]) = Total
    BY <1>1, AllNamesType
  <1>5. ASSUME NEW n \in DOMAIN tree, NEW s \in {1, 2}
        PROVE  /\ \/ \E m \in Nodes(prog) : tree[n][s] = Leaf(m)
                  \/ tree[n][s] \in DOMAIN tree /\ Rank(tree[n][s]) < Rank(n)
                  \/ \E e \in Nat : e < empties /\ tree[n][s] = Empty(e)
               /\ tree[n][s] # Unset
    <2>1. \/ \E m \in Nodes(prog) : tree[n][s] = Leaf(m)
          \/ tree[n][s] \in DOMAIN tree /\ Rank(tree[n][s]) < Rank(n)
          \/ \E e \in Nat : e < empties /\ tree[n][s] = Empty(e)
      BY <1>1, <1>2, <1>5 DEF Grown, SlotsFilled
    <2>2. QED
      BY <1>3, <2>1, Kinds DEF Ids
  <1>6. \A n, x \in DOMAIN tree, s, t \in {1, 2} : tree[n][s] = tree[x][t] => n = x /\ s = t
    BY <1>1, <1>5 DEF Grown, OneParent
  <1>7. \A m \in Nodes(prog) : \E x \in DOMAIN tree, s \in {1, 2} : tree[x][s] = Leaf(m)
    BY <1>1, <1>2 DEF Grown, LeafPlaced
  <1>8. QED
    BY <1>1, <1>3, <1>4, <1>5, <1>6, <1>7 DEF Whole, Grown, Shape, HasParent

Emitted == {n \in Ids : n \in DOMAIN conns}
OnStack(n) == \E i \in 1 .. Len(emits) : emits[i].node = n

Stack ==
  /\ emits \in Seq([node : Ids, enter : BOOLEAN])
  /\ \A i \in 1 .. Len(emits) : emits[i].node \in DOMAIN tree /\ emits[i].node \notin Emitted
  /\ \A i, j \in 1 .. Len(emits) : emits[i].node = emits[j].node => i = j

(* A node is reached through its parent only.                              *)
Above ==
  \A n \in DOMAIN tree, s \in {1, 2} :
    tree[n][s] \in Emitted \/ OnStack(tree[n][s])
      => n \in Emitted \/ \E i \in 1 .. Len(emits) : emits[i].node = n /\ ~emits[i].enter

(* Below a node that has its wrapper all have theirs, and below one that   *)
(* is entered they have it or are further up the stack.                    *)
Below ==
  \A n \in Emitted : n \in DOMAIN tree /\ \A s \in {1, 2} : tree[n][s] \in DOMAIN tree => tree[n][s] \in Emitted
Inside ==
  \A i \in 1 .. Len(emits), s \in {1, 2} :
    LET c == tree[emits[i].node][s]
    IN  ~emits[i].enter /\ c \in DOMAIN tree
          => c \in Emitted \/ \E j \in (i + 1) .. Len(emits) : emits[j].node = c

Written ==
  IF phase = "done" THEN Range(files) = Range(AllNames) /\ Len(files) = Total
  ELSE files \in Seq(Ids) /\ Once(files) /\ Entries(files) = Emitted

(* The modules whose connections are known.                                *)
Known == /\ \A m \in Nodes(prog) : Leaf(m) \in DOMAIN conns
         /\ \A e \in Nat : e < empties => Empty(e) \in DOMAIN conns

Phases ==
  /\ phase \in {"cut", "emit", "top", "done"}
  /\ phase = "emit" <=> emits # << >>
  /\ phase = "cut" => Emitted = {}
  /\ phase # "cut" => Root \in Emitted \/ OnStack(Root)

EmitInv == Stack /\ Above /\ Below /\ Inside /\ Written /\ Known /\ Phases

Over(X, q) == q \in Seq(X)

LEMMA Pushed ==
  ASSUME NEW X, NEW q, Over(X, q), NEW x \in X, NEW r, r = Push(q, x)
  PROVE  /\ Over(X, r) /\ Len(r) = Len(q) + 1 /\ Len(q) \in Nat
         /\ \A i \in 1 .. Len(q) : r[i] = q[i]
         /\ r[Len(r)] = x
  BY DEF Push, Over

(* The two times a node is on the stack: before its children, and after.   *)
FirstTurn(n) == [node |-> n, enter |-> TRUE]
LastTurn(n) == [node |-> n, enter |-> FALSE]

(* A call for a child, if it is a node.                                    *)
LEMMA Visited ==
  ASSUME NEW X, NEW q, Over(X, q), NEW c, FirstTurn(c) \in X,
         NEW r, r = Onto(q, Visit(c))
  PROVE  /\ Over(X, r) /\ Len(r) \in Nat /\ Len(q) \in Nat
         /\ \A i \in 1 .. Len(q) : r[i] = q[i]
         /\ IF c \in DOMAIN tree THEN /\ Len(r) = Len(q) + 1
                                      /\ r[Len(r)] = FirstTurn(c)
            ELSE Len(r) = Len(q)
  <1>1. CASE c \in DOMAIN tree
    <2>1. PICK w : w = FirstTurn(c)
      OBVIOUS
    <2>2. r = Push(q, w)
      BY <1>1, <2>1 DEF Onto, Push, Visit, FirstTurn
    <2>3. QED
      BY <1>1, <2>1, <2>2, Pushed
  <1>2. CASE c \notin DOMAIN tree
    <2>1. r = q
      BY <1>2 DEF Onto, Visit, Over
    <2>2. QED
      BY <1>2, <2>1 DEF Over
  <1>3. QED
    BY <1>1, <1>2

(* The stack when a node is entered: its own call, then its children's.    *)
Entering(q, r, n, a, b) ==
  /\ Len(r) \in Nat /\ Len(q) \in Nat /\ Len(q) >= 1 /\ Len(r) >= Len(q)
  /\ \A i \in 1 .. (Len(q) - 1) : r[i] = q[i]
  /\ r[Len(q)].node = n /\ ~r[Len(q)].enter
  /\ \A i \in (Len(q) + 1) .. Len(r) :
       r[i].enter /\ r[i].node \in {a, b} /\ r[i].node \in DOMAIN tree
  /\ a \in DOMAIN tree => \E i \in (Len(q) + 1) .. Len(r) : r[i].node = a
  /\ b \in DOMAIN tree => \E i \in (Len(q) + 1) .. Len(r) : r[i].node = b
  /\ a # b => \A i, j \in (Len(q) + 1) .. Len(r) : r[i].node = r[j].node => i = j

LEMMA Entered ==
  ASSUME NEW X, NEW q, Over(X, q), q # << >>, NEW n, NEW a, NEW b,
         LastTurn(n) \in X, FirstTurn(a) \in X,
         FirstTurn(b) \in X,
         NEW r, r = Onto(Onto(Push(Front(q), LastTurn(n)), Visit(a)), Visit(b))
  PROVE  Over(X, r) /\ Entering(q, r, n, a, b)
  <1> DEFINE k == Len(q)
  <1>1. PICK v, wa, wb : v = LastTurn(n) /\ wa = FirstTurn(a)
                         /\ wb = FirstTurn(b)
    OBVIOUS
  <1>2. PICK f : f = Front(q)
    OBVIOUS
  <1>3. Over(X, f) /\ Len(f) = k - 1 /\ k \in Nat /\ k >= 1 /\ \A i \in 1 .. (k - 1) : f[i] = q[i]
    BY <1>2, Popped DEF Over
  <1>4. PICK q1 : q1 = Push(f, v)
    OBVIOUS
  <1>5. Over(X, q1) /\ Len(q1) = Len(f) + 1 /\ (\A i \in 1 .. Len(f) : q1[i] = f[i]) /\ q1[Len(q1)] = v
    <2>1. Over(X, f) /\ v \in X
      BY <1>1, <1>3
    <2>2. QED
      BY ONLY <1>4, <2>1, Pushed
  <1>6. PICK q2 : q2 = Onto(q1, Visit(a))
    OBVIOUS
  <1>7. /\ Over(X, q2) /\ Len(q2) \in Nat /\ Len(q1) \in Nat
        /\ \A i \in 1 .. Len(q1) : q2[i] = q1[i]
        /\ IF a \in DOMAIN tree THEN Len(q2) = Len(q1) + 1 /\ q2[Len(q2)] = wa ELSE Len(q2) = Len(q1)
    <2>1. Over(X, q1) /\ FirstTurn(a) \in X
      BY <1>5
    <2>2. QED
      BY ONLY <1>1, <1>6, <2>1, Visited
  <1>8. r = Onto(q2, Visit(b))
    BY <1>1, <1>2, <1>4, <1>6
  <1>9. /\ Over(X, r) /\ Len(r) \in Nat
        /\ \A i \in 1 .. Len(q2) : r[i] = q2[i]
        /\ IF b \in DOMAIN tree THEN Len(r) = Len(q2) + 1 /\ r[Len(r)] = wb ELSE Len(r) = Len(q2)
    <2>1. Over(X, q2) /\ FirstTurn(b) \in X
      BY <1>7
    <2>2. QED
      BY ONLY <1>1, <1>8, <2>1, Visited
  <1> HIDE DEF k
  <1>10. PICK la, lb \in {0, 1} : la = (IF a \in DOMAIN tree THEN 1 ELSE 0) /\ lb = (IF b \in DOMAIN tree THEN 1 ELSE 0)
    OBVIOUS
  <1>11. Len(q1) = k /\ Len(q2) = k + la /\ Len(r) = k + la + lb
    BY <1>3, <1>5, <1>7, <1>9, <1>10
  <1>12. \A i \in 1 .. (k - 1) : r[i] = q[i]
    <2>1. TAKE i \in 1 .. (k - 1)
    <2>2. i \in 1 .. Len(f) /\ i \in 1 .. Len(q1) /\ i \in 1 .. Len(q2)
      BY <1>3, <1>11
    <2>3. QED
      BY <1>3, <1>5, <1>7, <1>9, <2>2
  <1>13. r[k] = v
    <2>1. k \in 1 .. Len(q1) /\ k \in 1 .. Len(q2)
      BY <1>3, <1>11
    <2>2. QED
      BY <1>5, <1>7, <1>9, <1>11, <2>1
  <1>14. la = 1 => r[k + 1] = wa
    <2>1. la = 1 => k + 1 \in 1 .. Len(q2)
      BY <1>3, <1>11
    <2>2. QED
      BY <1>7, <1>9, <1>10, <1>11, <2>1
  <1>15. lb = 1 => r[k + la + 1] = wb
    BY <1>9, <1>10, <1>11
  <1>16. \A i \in (k + 1) .. Len(r) : (i = k + 1 /\ la = 1) \/ (i = k + la + 1 /\ lb = 1)
    BY <1>3, <1>10, <1>11
  <1>17. /\ la = 1 => k + 1 \in (k + 1) .. Len(r)
         /\ lb = 1 => k + la + 1 \in (k + 1) .. Len(r)
    BY <1>3, <1>10, <1>11
  <1>18. wa.node = a /\ wb.node = b /\ wa.enter /\ wb.enter /\ v.node = n /\ ~v.enter
    BY <1>1 DEF FirstTurn, LastTurn
  <1>19. \A i \in (k + 1) .. Len(r) : r[i].enter /\ r[i].node \in {a, b} /\ r[i].node \in DOMAIN tree
    BY <1>10, <1>14, <1>15, <1>16, <1>18
  <1>20. /\ a \in DOMAIN tree => \E i \in (k + 1) .. Len(r) : r[i].node = a
         /\ b \in DOMAIN tree => \E i \in (k + 1) .. Len(r) : r[i].node = b
    BY <1>10, <1>14, <1>15, <1>17, <1>18
  <1>21. a # b => \A i, j \in (k + 1) .. Len(r) : r[i].node = r[j].node => i = j
    BY <1>14, <1>15, <1>16, <1>18
  <1>22. Len(r) >= k
    BY <1>3, <1>10, <1>11
  <1>23. QED
    BY <1>3, <1>9, <1>12, <1>13, <1>18, <1>19, <1>20, <1>21, <1>22 DEF Entering, k

(* The call at the top of the stack.                                       *)
LEMMA TopCall ==
  ASSUME Stack, emits # << >>
  PROVE  /\ Len(emits) \in Nat /\ Len(emits) >= 1 /\ Emitting = emits[Len(emits)]
         /\ Emitting \in [node : Ids, enter : BOOLEAN]
         /\ Emitting.node \in DOMAIN tree /\ Emitting.node \notin Emitted
         /\ Front(emits) \in Seq([node : Ids, enter : BOOLEAN])
         /\ Len(Front(emits)) = Len(emits) - 1
         /\ \A i \in 1 .. (Len(emits) - 1) : Front(emits)[i] = emits[i]
  <1>1. PICK X : X = [node : Ids, enter : BOOLEAN]
    OBVIOUS
  <1>2. emits \in Seq(X)
    BY <1>1 DEF Stack
  <1>3. /\ Len(emits) \in Nat /\ Len(emits) >= 1
        /\ Last(emits) = emits[Len(emits)] /\ Last(emits) \in X
        /\ Front(emits) \in Seq(X) /\ Len(Front(emits)) = Len(emits) - 1
        /\ \A i \in 1 .. (Len(emits) - 1) : Front(emits)[i] = emits[i]
    BY <1>2, Popped
  <1>4. Len(emits) \in 1 .. Len(emits)
    BY <1>3
  <1>5. QED
    BY <1>1, <1>3, <1>4 DEF Emitting, Stack

LEMMA EnterIs ==
  ASSUME EmitInv, Whole, EnterNode
  PROVE  /\ emits' \in Seq([node : Ids, enter : BOOLEAN])
         /\ Entering(emits, emits', Emitting.node, tree[Emitting.node][2], tree[Emitting.node][1])
  <1>1. Stack /\ emits # << >> /\ Emitting.enter
    BY DEF EmitInv, EnterNode
  <1>2. PICK n, a, b, X : /\ n = Emitting.node /\ a = tree[n][2] /\ b = tree[n][1]
                          /\ X = [node : Ids \cup {a, b}, enter : BOOLEAN]
    OBVIOUS
  <1>3. n \in DOMAIN tree /\ n \in Ids /\ Emitting \in [node : Ids, enter : BOOLEAN]
    BY <1>1, <1>2, TopCall DEF Whole
  <1>4. [Emitting EXCEPT !.enter = FALSE] = LastTurn(n)
    <2>1. ASSUME NEW d
          PROVE  [Emitting EXCEPT !.enter = d] = [node |-> Emitting.node, enter |-> d]
      BY <1>3
    <2>2. [Emitting EXCEPT !.enter = FALSE] = [node |-> Emitting.node, enter |-> FALSE]
      BY <2>1
    <2>3. QED
      BY <1>2, <2>2 DEF LastTurn
  <1>5. emits' = Onto(Onto(Push(Front(emits), LastTurn(n)), Visit(a)), Visit(b))
    BY <1>2, <1>4 DEF EnterNode, Onto, Push
  <1>6. Over(X, emits) /\ LastTurn(n) \in X /\ FirstTurn(a) \in X /\ FirstTurn(b) \in X
    <2>1. LastTurn(n) \in X /\ FirstTurn(a) \in X /\ FirstTurn(b) \in X
      BY <1>2, <1>3 DEF LastTurn, FirstTurn
    <2>2. PICK Y : Y = [node : Ids, enter : BOOLEAN]
      OBVIOUS
    <2>3. Y \subseteq X
      BY <1>2, <2>2
    <2>4. emits \in Seq(Y)
      BY <1>1, <2>2 DEF Stack
    <2>5. emits \in Seq(X)
      BY <2>3, <2>4
    <2>6. QED
      BY <2>1, <2>5 DEF Over
  <1>7. Over(X, emits') /\ Entering(emits, emits', n, a, b)
    <2>1. PICK q, r : q = emits /\ r = emits'
      OBVIOUS
    <2>2. Over(X, q) /\ q # << >> /\ r = Onto(Onto(Push(Front(q), LastTurn(n)), Visit(a)), Visit(b))
      BY <1>1, <1>5, <1>6, <2>1
    <2>3. Over(X, r) /\ Entering(q, r, n, a, b)
      BY ONLY <1>6, <2>2, Entered
    <2>4. QED
      BY <2>1, <2>3
  <1>8. \A i \in 1 .. Len(emits') : emits'[i] \in [node : Ids, enter : BOOLEAN]
    <2>1. TAKE i \in 1 .. Len(emits')
    <2>2. emits'[i] \in X
      BY <1>7 DEF Over
    <2>3. CASE i <= Len(emits) - 1
      <3>1. emits'[i] = emits[i] /\ i \in 1 .. Len(emits)
        BY <1>7, <2>3 DEF Entering
      <3>2. PICK Y : Y = [node : Ids, enter : BOOLEAN]
        OBVIOUS
      <3>3. emits \in Seq(Y)
        BY <1>1, <3>2 DEF Stack
      <3>4. emits[i] \in Y
        BY <3>1, <3>3
      <3>5. QED
        BY <3>1, <3>2, <3>4
    <2>4. CASE i = Len(emits)
      <3>1. emits'[i].node = n
        BY <1>7, <2>4 DEF Entering
      <3>2. QED
        BY <1>2, <1>3, <2>2, <3>1
    <2>5. CASE i >= Len(emits) + 1
      <3>1. emits'[i].node \in DOMAIN tree
        BY <1>7, <2>5 DEF Entering
      <3>2. emits'[i].node \in Ids
        BY <3>1 DEF Whole
      <3>3. QED
        BY <1>2, <2>2, <3>2
    <2>6. Len(emits) \in Nat
      BY <1>1, TopCall
    <2>7. QED
      BY <2>3, <2>4, <2>5, <2>6
  <1>9. emits' \in Seq([node : Ids, enter : BOOLEAN])
    <2>1. PICK Y : Y = [node : Ids, enter : BOOLEAN]
      OBVIOUS
    <2>2. emits' \in Seq(X) /\ \A i \in 1 .. Len(emits') : emits'[i] \in Y
      BY <1>7, <1>8, <2>1 DEF Over
    <2>3. emits' \in Seq(Y)
      BY <2>2
    <2>4. QED
      BY <2>1, <2>3
  <1>10. QED
    BY <1>2, <1>7, <1>9

LEMMA EnterStep ==
  ASSUME EmitInv, Whole, EnterNode
  PROVE  EmitInv'
  <1> DEFINE K == Len(emits)
             L == Len(emits')
  <1>1. /\ phase = "emit" /\ emits # << >> /\ Emitting.enter
        /\ tree' = tree /\ conns' = conns /\ phase' = phase /\ files' = files /\ prog' = prog
        /\ lim' = lim /\ empties' = empties
    BY DEF EnterNode, cutVars
  <1>2. Stack /\ Above /\ Below /\ Inside /\ Written /\ Known /\ Phases
    BY DEF EmitInv
  <1>3. PICK n, a, b : n = Emitting.node /\ a = tree[n][2] /\ b = tree[n][1]
    OBVIOUS
  <1>4. emits' \in Seq([node : Ids, enter : BOOLEAN]) /\ Entering(emits, emits', n, a, b)
    BY <1>3, EnterIs
  <1>5. /\ K \in Nat /\ K >= 1 /\ K \in 1 .. K /\ emits[K].node = n /\ emits[K].enter
        /\ n \in DOMAIN tree /\ n \notin Emitted
    BY <1>1, <1>2, <1>3, TopCall
  <1>6. /\ L \in Nat /\ L >= K
        /\ \A i \in 1 .. (K - 1) : emits'[i] = emits[i]
        /\ emits'[K].node = n /\ ~emits'[K].enter
        /\ \A i \in (K + 1) .. L :
             emits'[i].enter /\ emits'[i].node \in {a, b} /\ emits'[i].node \in DOMAIN tree
        /\ a \in DOMAIN tree => \E i \in (K + 1) .. L : emits'[i].node = a
        /\ b \in DOMAIN tree => \E i \in (K + 1) .. L : emits'[i].node = b
        /\ a # b => \A i, j \in (K + 1) .. L : emits'[i].node = emits'[j].node => i = j
    BY <1>4 DEF Entering
  <1> HIDE DEF K, L
  <1>7. a # b
    <2>1. tree[n][1] = tree[n][2] => 1 = 2
      BY <1>5 DEF Whole
    <2>2. QED
      BY <1>3, <2>1
  (* The children have not been reached, as their parent is not entered.   *)
  <1>8. ASSUME NEW c \in {a, b} PROVE c \notin Emitted /\ ~OnStack(c)
    <2>1. SUFFICES ASSUME c \in Emitted \/ OnStack(c) PROVE FALSE
      OBVIOUS
    <2>2. PICK s \in {1, 2} : c = tree[n][s]
      BY <1>3, <1>8
    <2>3. n \in Emitted \/ \E i \in 1 .. K : emits[i].node = n /\ ~emits[i].enter
      BY <1>2, <1>5, <2>1, <2>2 DEF Above, K
    <2>4. PICK i \in 1 .. K : emits[i].node = n /\ ~emits[i].enter
      BY <1>5, <2>3
    <2>5. i = K
      BY <1>2, <1>5, <2>4 DEF Stack, K
    <2>6. QED
      BY <1>5, <2>4, <2>5
  <1>9. Emitted' = Emitted
    BY <1>1 DEF Emitted
  <1>10. \A i \in 1 .. L : i \in 1 .. (K - 1) \/ i = K \/ i \in (K + 1) .. L
    BY <1>5, <1>6
  <1>11. \A i \in 1 .. (K - 1) : i \in 1 .. K /\ i # K
    BY <1>5
  <1>12. \A i \in 1 .. K : emits[i].node \in DOMAIN tree /\ emits[i].node \notin Emitted
    BY <1>2 DEF Stack, K
  <1>13. \A i, j \in 1 .. K : emits[i].node = emits[j].node => i = j
    BY <1>2 DEF Stack, K
  <1>14. \A i \in 1 .. K : emits'[i].node = emits[i].node
    <2>1. \A i \in 1 .. K : i \in 1 .. (K - 1) \/ i = K
      BY <1>5
    <2>2. QED
      BY <1>5, <1>6, <2>1
  <1>15. \A i \in 1 .. K : emits[i].node \notin {a, b}
    BY <1>8 DEF OnStack, K
  <1>16. Stack'
    <2>1. ASSUME NEW i \in 1 .. L PROVE emits'[i].node \in DOMAIN tree /\ emits'[i].node \notin Emitted
      <3>1. CASE i \in 1 .. K
        BY <1>12, <1>14, <3>1
      <3>2. CASE i \in (K + 1) .. L
        BY <1>6, <1>8, <3>2
      <3>3. QED
        BY <1>5, <1>10, <1>11, <3>1, <3>2
    <2>2. ASSUME NEW i \in 1 .. L, NEW j \in 1 .. L, emits'[i].node = emits'[j].node PROVE i = j
      <3>1. CASE i \in 1 .. K /\ j \in 1 .. K
        BY <1>13, <1>14, <2>2, <3>1
      <3>2. CASE i \in (K + 1) .. L /\ j \in (K + 1) .. L
        BY <1>6, <1>7, <2>2, <3>2
      <3>3. CASE i \in 1 .. K /\ j \in (K + 1) .. L
        BY <1>6, <1>14, <1>15, <2>2, <3>3
      <3>4. CASE j \in 1 .. K /\ i \in (K + 1) .. L
        BY <1>6, <1>14, <1>15, <2>2, <3>4
      <3>5. QED
        BY <1>5, <1>10, <1>11, <3>1, <3>2, <3>3, <3>4
    <2>3. QED
      BY <1>1, <1>4, <1>9, <2>1, <2>2 DEF Stack, L
  <1>17. Above'
    <2>1. SUFFICES ASSUME NEW x \in DOMAIN tree, NEW s \in {1, 2},
                          tree[x][s] \in Emitted \/ \E i \in 1 .. L : emits'[i].node = tree[x][s]
                   PROVE  x \in Emitted \/ \E i \in 1 .. L : emits'[i].node = x /\ ~emits'[i].enter
      BY <1>1, <1>9 DEF Above, OnStack, L
    <2>2. CASE tree[x][s] \in Emitted \/ OnStack(tree[x][s])
      <3>1. x \in Emitted \/ \E i \in 1 .. K : emits[i].node = x /\ ~emits[i].enter
        BY <1>2, <2>2 DEF Above, K
      <3>2. ASSUME NEW i \in 1 .. K, emits[i].node = x, ~emits[i].enter
            PROVE  \E j \in 1 .. L : emits'[j].node = x /\ ~emits'[j].enter
        <4>1. i # K
          BY <1>5, <3>2
        <4>2. i \in 1 .. (K - 1) /\ i \in 1 .. L
          BY <1>5, <1>6, <4>1
        <4>3. emits'[i] = emits[i]
          BY <1>6, <4>2
        <4>4. QED
          BY <3>2, <4>2, <4>3
      <3>3. QED
        BY <3>1, <3>2
    <2>3. CASE tree[x][s] \in {a, b}
      <3>1. x = n
        BY <1>3, <1>5, <2>3 DEF Whole
      <3>2. K \in 1 .. L
        BY <1>5, <1>6
      <3>3. QED
        BY <1>6, <3>1, <3>2
    <2>4. QED
      <3>1. ASSUME NEW i \in 1 .. L, emits'[i].node = tree[x][s], tree[x][s] \notin {a, b}
            PROVE  OnStack(tree[x][s])
        <4>1. i \in 1 .. K
          BY <1>5, <1>6, <1>10, <1>11, <3>1
        <4>2. QED
          BY <1>14, <3>1, <4>1 DEF OnStack, K
      <3>2. QED
        BY <2>1, <2>2, <2>3, <3>1
  <1>18. Inside'
    <2>1. SUFFICES ASSUME NEW i \in 1 .. L, NEW s \in {1, 2}, ~emits'[i].enter,
                          tree[emits'[i].node][s] \in DOMAIN tree
                   PROVE  \/ tree[emits'[i].node][s] \in Emitted
                          \/ \E j \in (i + 1) .. L : emits'[j].node = tree[emits'[i].node][s]
      BY <1>1, <1>9 DEF Inside, L
    <2>2. CASE i \in 1 .. (K - 1)
      <3>1. emits'[i] = emits[i] /\ i \in 1 .. K
        BY <1>6, <1>11, <2>2
      <3>2. \/ tree[emits[i].node][s] \in Emitted
            \/ \E j \in (i + 1) .. K : emits[j].node = tree[emits[i].node][s]
        BY <1>2, <2>1, <3>1 DEF Inside, K
      <3>3. \A j \in (i + 1) .. K : j \in 1 .. K /\ j \in (i + 1) .. L
        BY <1>5, <1>6, <2>2
      <3>4. QED
        BY <1>14, <3>1, <3>2, <3>3
    <2>3. CASE i = K
      <3>1. tree[n][s] \in {a, b} /\ tree[n][s] \in DOMAIN tree
        BY <1>3, <1>6, <2>1, <2>3
      <3>2. \E j \in (K + 1) .. L : emits'[j].node = tree[n][s]
        BY <1>6, <3>1
      <3>3. QED
        BY <1>6, <2>3, <3>2
    <2>4. CASE i \in (K + 1) .. L
      BY <1>6, <2>1, <2>4
    <2>5. QED
      BY <1>10, <2>2, <2>3, <2>4
  <1>19. Below'
    BY <1>1, <1>2, <1>9 DEF Below
  <1>20. Written'
    BY <1>1, <1>2, <1>9 DEF Written, AllNames, Total
  <1>21. Known'
    BY <1>1, <1>2 DEF Known
  <1>22. Phases'
    <2>1. emits' # << >>
      BY <1>5, <1>6 DEF L
    <2>2. Root \in Emitted \/ OnStack(Root)
      BY <1>1, <1>2 DEF Phases
    <2>3. OnStack(Root) => OnStack(Root)'
      <3>1. \A i \in 1 .. K : i \in 1 .. L
        BY <1>5, <1>6
      <3>2. QED
        BY <1>14, <3>1 DEF OnStack, K, L
    <2>4. QED
      BY <1>1, <1>2, <1>9, <2>1, <2>2, <2>3 DEF Phases
  <1>23. QED
    BY <1>16, <1>17, <1>18, <1>19, <1>20, <1>21, <1>22 DEF EmitInv

(* The wrapper of a node from those of its children.                       *)
Half(n, s) == conns[tree[n][s]]
Emitting1(n) ==
  /\ phase = "emit" /\ emits # << >> /\ n = Emitting.node /\ ~Emitting.enter
  /\ wires' = wires \cup {Wire(q[1], q[2]) : q \in MatchedPairs(Half(n, 1), Half(n, 2))}
  /\ conns' = With(conns, n, Exposed(n, Half(n, 1), Half(n, 2)))
  /\ files' = Push(files, n) /\ emits' = Front(emits)
  /\ phase' = IF emits' = << >> THEN "top" ELSE "emit"
  /\ UNCHANGED <<prog, sortIdx, lim, tree, cutVars, top>>

LEMMA EmitIs ==
  ASSUME EmitNode, Written
  PROVE  \E n : Emitting1(n)
  <1>1. phase = "emit" /\ files \in Seq(Ids)
    BY DEF EmitNode, Written
  <1>2. Append(files, Emitting.node) = Push(files, Emitting.node)
    BY <1>1 DEF Push
  <1>3. Emitting1(Emitting.node)
    BY <1>2 DEF EmitNode, Emitting1, Half
  <1>4. QED
    BY <1>3

LEMMA EmitStep ==
  ASSUME EmitInv, Whole, EmitNode
  PROVE  EmitInv'
  <1> DEFINE K == Len(emits)
  <1>1. Stack /\ Above /\ Below /\ Inside /\ Written /\ Known /\ Phases
    BY DEF EmitInv
  <1>2. PICK n : Emitting1(n)
    BY <1>1, EmitIs
  <1>3. /\ phase = "emit" /\ emits # << >> /\ n = Emitting.node /\ ~Emitting.enter
        /\ tree' = tree /\ files' = Push(files, n) /\ prog' = prog /\ emits' = Front(emits)
        /\ lim' = lim /\ empties' = empties /\ phase' = IF emits' = << >> THEN "top" ELSE "emit"
    BY <1>2 DEF Emitting1, cutVars
  <1>4. DOMAIN conns' = DOMAIN conns \cup {n}
    BY <1>2 DEF Emitting1, With
  <1>5. /\ K \in Nat /\ K >= 1 /\ K \in 1 .. K /\ emits[K].node = n /\ ~emits[K].enter
        /\ n \in DOMAIN tree /\ n \in Ids /\ n \notin Emitted
        /\ emits' \in Seq([node : Ids, enter : BOOLEAN]) /\ Len(emits') = K - 1
        /\ \A i \in 1 .. (K - 1) : emits'[i] = emits[i]
    <2>1. /\ K \in Nat /\ K >= 1 /\ Emitting = emits[K]
          /\ Emitting.node \in DOMAIN tree /\ Emitting.node \notin Emitted
          /\ Front(emits) \in Seq([node : Ids, enter : BOOLEAN]) /\ Len(Front(emits)) = K - 1
          /\ \A i \in 1 .. (K - 1) : Front(emits)[i] = emits[i]
      BY <1>1, <1>3, TopCall
    <2>2. n \in Ids
      BY <1>3, <2>1 DEF Whole
    <2>3. QED
      BY <1>3, <2>1, <2>2
  <1>6. Emitted' = Emitted \cup {n}
    BY <1>4, <1>5 DEF Emitted
  <1>7. \A i \in 1 .. (K - 1) : i \in 1 .. K /\ i # K
    BY <1>5
  <1>8. \A i \in 1 .. K : i \in 1 .. (K - 1) \/ i = K
    BY <1>5
  <1>9. /\ \A i \in 1 .. K : emits[i].node \in DOMAIN tree /\ emits[i].node \notin Emitted
        /\ \A i, j \in 1 .. K : emits[i].node = emits[j].node => i = j
    BY <1>1 DEF Stack
  <1> HIDE DEF K
  <1>10. Stack'
    <2>1. \A i \in 1 .. (K - 1) : emits'[i].node \in DOMAIN tree /\ emits'[i].node \notin Emitted \cup {n}
      BY <1>5, <1>7, <1>9
    <2>2. \A i, j \in 1 .. (K - 1) : emits'[i].node = emits'[j].node => i = j
      BY <1>5, <1>7, <1>9
    <2>3. QED
      BY <1>3, <1>5, <1>6, <2>1, <2>2 DEF Stack
  <1>11. Above'
    <2>1. SUFFICES ASSUME NEW x \in DOMAIN tree, NEW s \in {1, 2},
                          tree[x][s] \in Emitted \cup {n} \/ \E i \in 1 .. (K - 1) : emits'[i].node = tree[x][s]
                   PROVE  x \in Emitted \cup {n} \/ \E i \in 1 .. (K - 1) : emits'[i].node = x /\ ~emits'[i].enter
      BY <1>3, <1>5, <1>6 DEF Above, OnStack
    <2>2. tree[x][s] \in Emitted \/ OnStack(tree[x][s])
      BY <1>5, <1>7, <2>1 DEF OnStack, K
    <2>3. x \in Emitted \/ \E i \in 1 .. K : emits[i].node = x /\ ~emits[i].enter
      BY <1>1, <2>2 DEF Above, K
    <2>4. QED
      BY <1>5, <1>8, <2>3
  <1>12. Below'
    <2>1. \A s \in {1, 2} : tree[n][s] \in DOMAIN tree => tree[n][s] \in Emitted
      <3>1. TAKE s \in {1, 2}
      <3>2. HAVE tree[n][s] \in DOMAIN tree
      <3>3. tree[n][s] \in Emitted \/ \E j \in (K + 1) .. K : emits[j].node = tree[n][s]
        BY <1>1, <1>5, <3>2 DEF Inside, K
      <3>4. QED
        BY <1>5, <3>3
    <2>2. QED
      BY <1>1, <1>3, <1>5, <1>6, <2>1 DEF Below
  <1>13. Inside'
    <2>1. SUFFICES ASSUME NEW i \in 1 .. (K - 1), NEW s \in {1, 2}, ~emits'[i].enter,
                          tree[emits'[i].node][s] \in DOMAIN tree
                   PROVE  \/ tree[emits'[i].node][s] \in Emitted \cup {n}
                          \/ \E j \in (i + 1) .. (K - 1) : emits'[j].node = tree[emits'[i].node][s]
      BY <1>3, <1>5, <1>6 DEF Inside
    <2>2. \/ tree[emits[i].node][s] \in Emitted
          \/ \E j \in (i + 1) .. K : emits[j].node = tree[emits[i].node][s]
      BY <1>1, <1>5, <1>7, <2>1 DEF Inside, K
    <2>3. ASSUME NEW j \in (i + 1) .. K PROVE j = K \/ (j \in (i + 1) .. (K - 1) /\ j \in 1 .. (K - 1))
      <3>1. i \in Int /\ i >= 1
        OBVIOUS
      <3>2. j \in Int /\ i + 1 <= j /\ j <= K
        BY <2>3, <3>1
      <3>3. K - 1 \in Int
        BY <1>5
      <3>4. QED
        BY <1>5, <3>1, <3>2, <3>3
    <2>4. QED
      BY <1>5, <2>2, <2>3
  <1>14. phase' # "done" /\ phase # "done"
    BY <1>3
  <1>15. Written'
    <2>1. files \in Seq(Ids) /\ Once(files) /\ Entries(files) = Emitted
      BY <1>1, <1>14 DEF Written
    <2>2. n \notin Entries(files)
      BY <1>5, <2>1
    <2>3. files' \in Seq(Ids) /\ Once(files') /\ Entries(files') = Entries(files) \cup {n}
      <3>1. PICK q, r : q = files /\ r = files'
        OBVIOUS
      <3>2. q \in Seq(Ids) /\ Once(q) /\ n \in Ids /\ n \notin Entries(q) /\ r = Push(q, n)
        BY <1>3, <1>5, <2>1, <2>2, <3>1
      <3>3. r \in Seq(Ids) /\ Once(r) /\ Entries(r) = Entries(q) \cup {n}
        BY ONLY <3>2, PushedOnce
      <3>4. QED
        BY <3>1, <3>3
    <2>4. QED
      BY <1>6, <1>14, <2>1, <2>3 DEF Written
  <1>16. Known'
    BY <1>1, <1>3, <1>4 DEF Known
  <1>17. Phases'
    <2>1. Root \in Emitted \/ OnStack(Root)
      BY <1>1, <1>3 DEF Phases
    <2>2. Root \in Emitted \cup {n} \/ OnStack(Root)'
      BY <1>5, <1>8, <2>1 DEF OnStack, K
    <2>3. QED
      BY <1>3, <1>6, <2>2 DEF Phases
  <1>18. QED
    BY <1>10, <1>11, <1>12, <1>13, <1>15, <1>16, <1>17 DEF EmitInv

(* Nothing is emitted while the tree is cut; then its root is entered.     *)
LEMMA CutEmit ==
  ASSUME EmitInv, CutInv, CutInv', CutNode \/ CutEmpty
  PROVE  EmitInv'
  <1>1. /\ phase = "cut" /\ prog' = prog /\ lim' = lim /\ files' = files
        /\ phase' = (IF calls' = << >> THEN "emit" ELSE "cut")
        /\ emits' = IF calls' = << >> THEN <<[node |-> Root, enter |-> TRUE]>> ELSE emits
    BY DEF CutNode, CutEmpty, EndCut, StartEmit
  <1>2. Written /\ Known /\ Phases
    BY DEF EmitInv
  <1>3. emits = << >> /\ Emitted = {}
    BY <1>1, <1>2 DEF Phases
  <1>4. \/ conns' = conns /\ empties' = empties
        \/ conns' = With(conns, Empty(empties), {}) /\ empties' = empties + 1
    BY DEF CutNode, CutEmpty
  <1>5. empties \in Nat
    BY DEF CutInv, Grown, Shape, Started
  <1>6. /\ DOMAIN conns \subseteq DOMAIN conns'
        /\ \A n \in DOMAIN conns' : n \in DOMAIN conns \/ n = Empty(empties)
        /\ empties' = empties \/ (empties' = empties + 1 /\ Empty(empties) \in DOMAIN conns')
    BY <1>4 DEF With
  <1>7. Emitted' = {}
    <2>1. \A n \in Ids : n # Empty(empties)
      BY Kinds DEF Ids
    <2>2. QED
      BY <1>3, <1>6, <2>1 DEF Emitted
  <1>8. Known'
    <2>1. \A e \in Nat : e < empties' => e < empties \/ (e = empties /\ empties' = empties + 1)
      BY <1>5, <1>6
    <2>2. \A e \in Nat : e < empties' => Empty(e) \in DOMAIN conns'
      <3>1. TAKE e \in Nat
      <3>2. HAVE e < empties'
      <3>3. CASE e < empties
        BY <1>2, <1>6, <3>3 DEF Known
      <3>4. CASE e = empties /\ empties' = empties + 1
        BY <1>5, <1>6, <3>4
      <3>5. QED
        BY <2>1, <3>2, <3>3, <3>4
    <2>3. \A m \in Nodes(prog) : Leaf(m) \in DOMAIN conns'
      BY <1>2, <1>6 DEF Known
    <2>4. QED
      BY <1>1, <2>2, <2>3 DEF Known
  <1>9. Written'
    <2>1. phase' # "done" /\ phase # "done"
      BY <1>1
    <2>2. QED
      BY <1>1, <1>2, <1>3, <1>7, <2>1 DEF Written
  <1>10. Below'
    BY <1>7 DEF Below
  <1>11. CASE calls' # << >>
    <2>1. emits' = << >> /\ phase' = "cut" /\ Len(emits') = 0
      BY <1>1, <1>3, <1>11
    <2>2. 1 .. 0 = {}
      OBVIOUS
    <2>3. Stack'
      <3>1. PICK X : X = [node : Ids, enter : BOOLEAN]
        OBVIOUS
      <3>2. << >> \in Seq(X)
        OBVIOUS
      <3>3. QED
        BY <2>1, <2>2, <3>1, <3>2 DEF Stack
    <2>4. Above' /\ Inside'
      BY <1>7, <2>1, <2>2 DEF Above, OnStack, Inside
    <2>5. Phases'
      BY <1>7, <2>1 DEF Phases
    <2>6. QED
      BY <1>8, <1>9, <1>10, <2>3, <2>4, <2>5 DEF EmitInv
  <1>12. CASE calls' = << >>
    <2>1. PICK v, X : v = [node |-> Root, enter |-> TRUE] /\ X = [node : Ids, enter : BOOLEAN]
      OBVIOUS
    <2>2. emits' = <<v>> /\ phase' = "emit" /\ v.node = Root /\ v.enter
      BY <1>1, <1>12, <2>1
    <2>3. Root \in Ids
      BY DEF Root, Ids
    <2>4. v \in X
      BY <2>1, <2>3
    <2>5. /\ emits' \in Seq(X) /\ Len(emits') = 1 /\ emits'[1] = v /\ emits' # << >>
      BY <2>2, <2>4
    <2>6. \A i : i \in 1 .. 1 <=> i = 1
      OBVIOUS
    <2>7. Grown' /\ Setting
      BY <1>12 DEF CutInv, Started
    <2>8. Root \in DOMAIN tree'
      BY <2>7 DEF Grown, Shape
    <2>9. Stack'
      BY <1>7, <2>1, <2>2, <2>5, <2>6, <2>8 DEF Stack
    <2>10. Inside'
      BY <2>2, <2>5, <2>6 DEF Inside
    <2>11. ASSUME NEW x \in DOMAIN tree', NEW s \in {1, 2} PROVE tree'[x][s] # Root
      <3>1. /\ Total \in Nat /\ Total >= 1 /\ AllNames[Total] = Root /\ lim \in BOOLEAN
            /\ \A i \in 1 .. Total : AllNames[i] \in Ids /\ Rank(AllNames[i]) = i
        BY <2>7, AllNamesType DEF Setting
      <3>2. AllNames' = AllNames /\ Total' = Total
        BY <1>1 DEF AllNames, Total
      <3>3. /\ names' \in Seq(Ids)
            /\ DOMAIN tree' = {AllNames[i] : i \in (Len(names') + 1) .. Total}
        BY <2>7, <3>2 DEF Grown, NamesLeft
      <3>4. PICK i \in 1 .. Total : x = AllNames[i]
        <4>1. Len(names') \in Nat
          BY <3>3
        <4>2. \A i \in (Len(names') + 1) .. Total : i \in 1 .. Total
          BY <3>1, <4>1
        <4>3. QED
          BY <3>3, <4>2, <2>11
      <3>5. Rank(x) = i /\ Rank(Root) = Total
        <4>1. Total \in 1 .. Total
          BY <3>1
        <4>2. QED
          BY <3>1, <3>4, <4>1
      <3>6. \/ tree'[x][s] = Unset
            \/ \E m \in Nodes(prog) : tree'[x][s] = Leaf(m)
            \/ tree'[x][s] \in DOMAIN tree' /\ Rank(tree'[x][s]) < Rank(x)
            \/ \E e \in Nat : tree'[x][s] = Empty(e)
        BY <1>1, <2>7, <2>11 DEF Grown, SlotsFilled, Rank
      <3>7. ~(Total < i)
        BY <3>1
      <3>8. QED
        BY <3>5, <3>6, <3>7, Kinds DEF Root
    <2>12. Above'
      <3>1. \A c : OnStack(c)' => c = Root
        BY <2>2, <2>5, <2>6 DEF OnStack
      <3>2. SUFFICES ASSUME NEW x \in DOMAIN tree', NEW s \in {1, 2},
                            \E i \in 1 .. Len(emits') : emits'[i].node = tree'[x][s]
                     PROVE  FALSE
        BY <1>7 DEF Above, OnStack
      <3>3. tree'[x][s] = Root
        BY <2>2, <2>5, <2>6, <3>2
      <3>4. QED
        BY <2>11, <3>3
    <2>13. Phases'
      <3>1. OnStack(Root)'
        BY <2>2, <2>5, <2>6 DEF OnStack
      <3>2. QED
        BY <1>7, <2>2, <2>5, <3>1 DEF Phases
    <2>14. QED
      BY <1>8, <1>9, <1>10, <2>9, <2>10, <2>12, <2>13 DEF EmitInv
  <1>13. QED
    BY <1>11, <1>12

(* Once the stack is empty every node of the tree has its wrapper: the one *)
(* of the highest rank that had none would have a parent that has.         *)
LEMMA AllEmitted ==
  ASSUME EmitInv, Whole, phase \in {"top", "done"}
  PROVE  Emitted = DOMAIN tree
  <1>1. emits = << >> /\ Root \in Emitted
    BY DEF EmitInv, Phases, OnStack
  <1>2. \A n \in Emitted : n \in DOMAIN tree
    BY DEF EmitInv, Below
  <1>3. ASSUME NEW m \in DOMAIN tree, m \notin Emitted PROVE FALSE
    <2> DEFINE S == {n \in DOMAIN tree : n \notin Emitted}
               f == [n \in S |-> Total - Rank(n)]
    <2>1. \A n \in S : f[n] \in Nat
      BY DEF Whole
    <2>2. S # {}
      BY <1>3
    <2>3. PICK n \in S : \A x \in S : f[n] <= f[x]
      <3> HIDE DEF S, f
      <3>1. QED
        BY <2>1, <2>2, LeastOf
    <2>4. n \in DOMAIN tree /\ n \notin Emitted /\ n # Root
      BY <1>1
    <2>5. PICK x \in DOMAIN tree, s \in {1, 2} : tree[x][s] = n
      BY <2>4 DEF Whole
    <2>6. Rank(n) < Rank(x)
      <3>1. \/ \E k \in Nodes(prog) : tree[x][s] = Leaf(k)
            \/ tree[x][s] \in DOMAIN tree /\ Rank(tree[x][s]) < Rank(x)
            \/ \E e \in Nat : e < empties /\ tree[x][s] = Empty(e)
        BY <2>5 DEF Whole
      <3>2. n \in Ids
        BY <2>4 DEF Whole
      <3>3. QED
        BY <2>5, <3>1, <3>2, Kinds DEF Ids
    <2>7. x \in Emitted
      <3>1. SUFFICES ASSUME x \notin Emitted PROVE FALSE
        OBVIOUS
      <3>2. f[n] <= f[x]
        BY <2>3, <2>5, <3>1
      <3>3. Total - Rank(n) <= Total - Rank(x)
        BY <2>4, <2>5, <3>1, <3>2
      <3>4. Rank(n) \in 1 .. Total /\ Rank(x) \in 1 .. Total /\ Total \in Nat
        BY <2>4, <2>5 DEF Whole
      <3>5. QED
        BY <2>6, <3>3, <3>4
    <2>8. QED
      BY <2>4, <2>5, <2>7 DEF EmitInv, Below
  <1>4. QED
    BY <1>2, <1>3

-----------------------------------------------------------------------------
(***************************************************************************)
(* The files.                                                              *)
(***************************************************************************)
(* q lists R, each member once.                                            *)
Lists(q, D, R) ==
  /\ \A i \in D : q[i] \in R
  /\ \A x \in R : \E i \in D : q[i] = x
  /\ \A i, j \in D : q[i] = q[j] => i = j

LEMMA Counted ==
  ASSUME NEW q, NEW D, IsFiniteSet(D), NEW R, Lists(q, D, R)
  PROVE  IsFiniteSet(R) /\ Cardinality(R) = Cardinality(D)
  <1>1. PICK f : f = [i \in D |-> q[i]]
    OBVIOUS
  <1>2. f \in [D -> R] /\ (\A x \in R : \E i \in D : f[i] = x) /\ \A i, j \in D : f[i] = f[j] => i = j
    BY <1>1 DEF Lists
  <1>3. f \in Injection(D, R) /\ f \in Surjection(D, R)
    BY <1>2 DEF Injection, Surjection, IsInjective
  <1>4. ExistsBijection(D, R)
    BY <1>3 DEF ExistsBijection, Bijection
  <1>5. QED
    BY <1>4, FS_Bijection

LEMMA SegmentCount ==
  ASSUME NEW q, NEW a \in Nat, NEW b \in Nat, a <= b, NEW R,
         R = {q[i] : i \in (a + 1) .. b},
         \A i, j \in (a + 1) .. b : q[i] = q[j] => i = j
  PROVE  Cardinality(R) = b - a
  <1>1. PICK D : D = (a + 1) .. b
    OBVIOUS
  <1>2. IsFiniteSet(D) /\ Cardinality(D) = b - a
    <2>1. PICK c \in Int : c = a + 1
      OBVIOUS
    <2>2. IsFiniteSet(c .. b) /\ Cardinality(c .. b) = IF c > b THEN 0 ELSE b - c + 1
      <3>1. b \in Int
        OBVIOUS
      <3>2. QED
        BY ONLY <2>1, <3>1, FS_Interval
    <2>3. D = c .. b
      BY <1>1, <2>1
    <2>4. (IF c > b THEN 0 ELSE b - c + 1) = b - a
      BY <2>1
    <2>5. QED
      BY <2>2, <2>3, <2>4
  <1>3. Lists(q, D, R)
    BY <1>1 DEF Lists
  <1>4. Cardinality(R) = Cardinality(D)
    BY ONLY <1>2, <1>3, Counted
  <1>5. QED
    BY <1>2, <1>4

LEMMA OnceCount ==
  ASSUME NEW X, NEW q \in Seq(X), Once(q), NEW R, R = Entries(q)
  PROVE  Cardinality(R) = Len(q)
  <1>1. PICK D : D = 1 .. Len(q)
    OBVIOUS
  <1>2. IsFiniteSet(D) /\ Cardinality(D) = Len(q)
    <2>1. PICK L, u : L = Len(q) /\ u = 1
      OBVIOUS
    <2>2. L \in Int /\ L \in Nat /\ u \in Int
      BY <2>1
    <2>3. IsFiniteSet(u .. L) /\ Cardinality(u .. L) = IF u > L THEN 0 ELSE L - u + 1
      BY ONLY <2>2, FS_Interval
    <2>4. (IF u > L THEN 0 ELSE L - u + 1) = L
      BY <2>1, <2>2
    <2>5. QED
      BY <1>1, <2>1, <2>3, <2>4
  <1>3. Lists(q, D, R)
    BY <1>1 DEF Entries, Once, Lists
  <1>4. Cardinality(R) = Cardinality(D)
    BY ONLY <1>2, <1>3, Counted
  <1>5. QED
    BY <1>2, <1>4

(* Dummy modules for the names that are left: every name has its file.     *)
LEMMA FinishStep ==
  ASSUME EmitInv, CutInv, Whole, FinishFiles
  PROVE  EmitInv'
  <1>1. /\ phase = "top" /\ phase' = "done" /\ files' = files \o names
        /\ UNCHANGED <<prog, lim, tree, names, empties, emits, conns>>
    BY DEF FinishFiles, cutVars, emitVars
  <1>2. Stack /\ Above /\ Below /\ Inside /\ Written /\ Known /\ Phases
    BY DEF EmitInv
  <1>3. /\ files \in Seq(Ids) /\ Once(files) /\ Entries(files) = DOMAIN tree
    BY <1>1, <1>2, AllEmitted DEF Written
  <1>4. /\ names \in Seq(Ids) /\ Len(names) <= Total
        /\ \A i \in 1 .. Len(names) : names[i] = AllNames[i]
        /\ DOMAIN tree = {AllNames[i] : i \in (Len(names) + 1) .. Total}
        /\ lim \in BOOLEAN
    BY <1>1 DEF CutInv, Grown, NamesLeft, Started, Setting
  <1>5. /\ Total \in Nat /\ AllNames \in Seq(Ids)
        /\ \A i, j \in 1 .. Total : AllNames[i] = AllNames[j] => i = j
    <2>1. /\ AllNames \in Seq(Ids) /\ Total \in Nat
          /\ \A i \in 1 .. Total : Rank(AllNames[i]) = i
      BY <1>4, AllNamesType
    <2>2. QED
      BY <2>1
  <1>6. PICK k, q, t : k = Len(names) /\ q = AllNames /\ t = Total
    OBVIOUS
  <1>7. k \in Nat /\ t \in Nat /\ k <= t /\ Len(q) = t /\ q \in Seq(Ids)
    BY <1>4, <1>5, <1>6 DEF Total
  <1>8. PICK R : R = DOMAIN tree
    OBVIOUS
  <1>9. Len(files) = t - k
    <2>1. \A i, j \in (k + 1) .. t : q[i] = q[j] => i = j
      BY <1>5, <1>6, <1>7
    <2>2. R = {q[i] : i \in (k + 1) .. t}
      BY <1>4, <1>6, <1>8
    <2>3. Cardinality(R) = t - k
      BY ONLY <1>7, <2>1, <2>2, SegmentCount
    <2>4. Cardinality(R) = Len(files)
      BY <1>3, <1>8, OnceCount
    <2>5. QED
      BY <2>3, <2>4
  <1>10. Len(files') = t
    BY <1>1, <1>3, <1>4, <1>6, <1>7, <1>9
  <1>11. \A i \in 1 .. Len(files) : files[i] \in DOMAIN tree
    BY <1>3 DEF Entries
  <1>12. \A x \in DOMAIN tree : \E i \in 1 .. Len(files) : files[i] = x
    BY <1>3 DEF Entries
  <1>13. DOMAIN files' = 1 .. t /\ DOMAIN q = 1 .. t
    BY <1>1, <1>3, <1>4, <1>7, <1>10
  <1>14. /\ \A i \in 1 .. Len(files) : files'[i] = files[i]
         /\ \A i \in 1 .. k : files'[Len(files) + i] = q[i]
    BY <1>1, <1>3, <1>4, <1>6
  <1>15. \A i \in 1 .. t : \E j \in 1 .. t : files'[i] = q[j]
    <2>1. TAKE i \in 1 .. t
    <2>2. CASE i <= t - k
      <3>1. i \in 1 .. Len(files)
        BY <1>7, <1>9, <2>2
      <3>2. files'[i] \in DOMAIN tree
        BY <1>11, <1>14, <3>1
      <3>3. PICK j \in (k + 1) .. t : files'[i] = q[j]
        BY <1>4, <1>6, <3>2
      <3>4. j \in 1 .. t
        BY <1>7
      <3>5. QED
        BY <3>3, <3>4
    <2>3. CASE i > t - k
      <3>1. PICK j : j = i - (t - k)
        OBVIOUS
      <3>2. j \in 1 .. k /\ j \in 1 .. t /\ Len(files) + j = i
        BY <1>7, <1>9, <2>3, <3>1
      <3>3. QED
        BY <1>14, <3>2
    <2>4. QED
      BY <1>7, <2>2, <2>3
  <1>16. \A j \in 1 .. t : \E i \in 1 .. t : files'[i] = q[j]
    <2>1. TAKE j \in 1 .. t
    <2>2. CASE j <= k
      <3>1. PICK i : i = Len(files) + j
        OBVIOUS
      <3>2. j \in 1 .. k /\ i \in 1 .. t
        BY <1>7, <1>9, <2>2, <3>1
      <3>3. QED
        BY <1>14, <3>1, <3>2
    <2>3. CASE j > k
      <3>1. j \in (k + 1) .. t
        BY <1>7, <2>3
      <3>2. q[j] \in DOMAIN tree
        BY <1>4, <1>6, <3>1
      <3>3. PICK i \in 1 .. Len(files) : files[i] = q[j]
        BY <1>12, <3>2
      <3>4. i \in 1 .. t
        BY <1>7, <1>9
      <3>5. QED
        BY <1>14, <3>3, <3>4
    <2>4. QED
      BY <1>7, <2>2, <2>3
  <1>17. Range(files') = Range(q)
    <2>1. PICK r : r = files'
      OBVIOUS
    <2>2. /\ DOMAIN r = 1 .. t /\ DOMAIN q = 1 .. t
          /\ \A i \in 1 .. t : \E j \in 1 .. t : r[i] = q[j]
          /\ \A j \in 1 .. t : \E i \in 1 .. t : r[i] = q[j]
      BY <1>13, <1>15, <1>16, <2>1
    <2>3. \A x : x \in Range(r) <=> x \in Range(q)
      BY ONLY <2>2 DEF Range
    <2>4. Range(r) = Range(q)
      BY <2>3
    <2>5. QED
      BY <2>1, <2>4
  <1>18. AllNames' = AllNames /\ Total' = Total
    BY <1>1 DEF AllNames, Total
  <1>19. Written'
    BY <1>1, <1>6, <1>10, <1>17, <1>18 DEF Written
  <1>20. /\ Emitted' = Emitted /\ \A n : OnStack(n)' <=> OnStack(n)
    BY <1>1 DEF Emitted, OnStack
  <1>21. Stack' /\ Above' /\ Below' /\ Inside' /\ Known'
    BY <1>1, <1>2, <1>20 DEF Stack, Above, Below, Inside, Known, OnStack
  <1>22. Phases'
    BY <1>1, <1>2, <1>20 DEF Phases
  <1>23. QED
    BY <1>19, <1>21, <1>22 DEF EmitInv

LEMMA EmitInit ==
  ASSUME Init
  PROVE  EmitInv
  <1>1. /\ emits = << >> /\ files = << >> /\ phase = "cut" /\ tree = << >> /\ empties = 0
        /\ conns = LeafConns(prog)
    BY DEF Init
  <1>2. DOMAIN conns = {Leaf(m) : m \in Nodes(prog)}
    BY <1>1 DEF LeafConns
  <1>3. Emitted = {}
    BY <1>2, Kinds DEF Emitted, Ids
  <1>4. DOMAIN tree = {} /\ Len(emits) = 0
    BY <1>1
  <1>5. Stack
    BY <1>1, <1>4 DEF Stack
  <1>6. Written
    BY <1>1, <1>3 DEF Written, Once, Entries
  <1>7. Known
    BY <1>1, <1>2 DEF Known
  <1>8. QED
    BY <1>1, <1>3, <1>4, <1>5, <1>6, <1>7 DEF EmitInv, Above, Below, Inside, Phases

LEMMA EmitInvStep ==
  ASSUME EmitInv, CutInv, [Next]_vars
  PROVE  EmitInv'
  <1>1. CutInv'
    BY CutStep
  <1>2. CASE CutEmpty \/ CutNode
    BY <1>1, <1>2, CutEmit
  <1>3. CASE EnterNode
    <2>1. Whole
      BY <1>3, WholeTree DEF EnterNode
    <2>2. QED
      BY <1>3, <2>1, EnterStep
  <1>4. CASE EmitNode
    <2>1. Whole
      BY <1>4, WholeTree DEF EmitNode
    <2>2. QED
      BY <1>4, <2>1, EmitStep
  <1>5. CASE FinishFiles
    <2>1. Whole
      BY <1>5, WholeTree DEF FinishFiles
    <2>2. QED
      BY <1>5, <2>1, FinishStep
  <1>6. CASE UNCHANGED vars
    <2>1. UNCHANGED <<prog, lim, phase, tree, empties, emits, conns, files>>
      BY <1>6 DEF vars
    <2>2. /\ Emitted' = Emitted /\ (\A n : OnStack(n)' <=> OnStack(n))
          /\ AllNames' = AllNames /\ Total' = Total
      BY <2>1 DEF Emitted, OnStack, AllNames, Total
    <2>3. Stack' /\ Above' /\ Below' /\ Inside' /\ Known'
      BY <2>1, <2>2 DEF EmitInv, Stack, Above, Below, Inside, Known, OnStack
    <2>4. Written' /\ Phases'
      BY <2>1, <2>2 DEF EmitInv, Written, Phases
    <2>5. QED
      BY <2>3, <2>4 DEF EmitInv
  <1>7. QED
    BY <1>2, <1>3, <1>4, <1>5, <1>6 DEF Next

TreeInv == CutInv /\ EmitInv

(* cutTreeBuild's invariant: what the calls of cutRecurse still to make,   *)
(* the names and the slots of the tree have to do with each other, and     *)
(* which wrappers emitWrappersRecurse has written and has yet to.          *)
THEOREM TreeInvariant == Spec => []TreeInv
  <1>1. Init => TreeInv
    BY CutInit, EmitInit DEF TreeInv
  <1>2. TreeInv /\ [Next]_vars => TreeInv'
    BY CutStep, EmitInvStep DEF TreeInv
  <1>3. QED
    BY <1>1, <1>2, PTL DEF Spec

(* module_names never runs out, whatever the cuts, and every Verilog file  *)
(* promised to SCons is produced once.                                     *)
THEOREM NamesSuffice == Spec => []PromisedFilesMade
  <1>1. TreeInv => PromisedFilesMade
    <2>1. SUFFICES ASSUME CutInv, EmitInv PROVE PromisedFilesMade
      BY DEF TreeInv
    <2>2. phase = "cut" /\ (Frame.nodes # {} \/ Frame.of = Unset) => names # << >>
      BY <2>1, NameThere
    <2>3. phase = "done" => Range(files) = Range(AllNames) /\ Len(files) = Total
      BY <2>1 DEF EmitInv, Written
    <2>4. QED
      BY <2>2, <2>3 DEF PromisedFilesMade, AllNames, Total
  <1>2. QED
    BY <1>1, TreeInvariant, PTL

-----------------------------------------------------------------------------
(***************************************************************************)
(* The connections of a module of the tree.                                *)
(***************************************************************************)
Places == Ids \cup {Leaf(m) : m \in Modules} \cup {Empty(e) : e \in Nat}
Names == Range(ChanSeq) \cup Range(ChainSeq) \cup {ServiceName}
Conn == [kind : {"Send", "Recv", "Chain", "Client", "Server"}, name : Names, idx : Nat,
         at : Places, rin : Modules, rout : Modules, in : Places \X Nat, out : Places \X Nat]

(* Module m has a connection of this kind and name in its log.             *)
Logged(kind, name, m) ==
  /\ m \in Modules
  /\ \/ kind = "Send" /\ name \in Range(ChanSeq) /\ prog.chan[name][1] = m
     \/ kind = "Recv" /\ name \in Range(ChanSeq) /\ prog.chan[name][2] = m
     \/ kind = "Chain" /\ name \in Range(ChainSeq) /\ m \in prog.chain[name]
     \/ kind = "Client" /\ name = ServiceName /\ m \in prog.client
     \/ kind = "Server" /\ name = ServiceName /\ m = prog.server

Homed(c) ==
  /\ Logged(c.kind, c.name, c.rin) /\ Logged(c.kind, c.name, c.rout)
  /\ c.kind # "Chain" => c.rin = c.rout

(* What a module may have one of: a chain of a name, an end of a channel,  *)
(* a service of a root module.                                             *)
SameEnd(c, d) == c.kind = d.kind /\ c.name = d.name /\ c.rout = d.rout
Rivals(c, d) ==
  \/ c.name = d.name /\ c.kind = "Chain" /\ d.kind = "Chain"
  \/ c.name = d.name /\ IsChannel(c) /\ IsChannel(d)
  \/ SameEnd(c, d)

Sound(n, S) ==
  /\ IsFiniteSet(S)
  /\ \A c \in S : c \in Conn /\ c.at = n /\ Homed(c)
  /\ \A c, d \in S : c.kind = d.kind /\ c.idx = d.idx => c = d
  /\ \A c, d \in S : Rivals(c, d) => c = d

AllSound == \A n \in DOMAIN conns : n \in Places /\ Sound(n, conns[n])
Leafed ==
  /\ \A m \in Nodes(prog) : Leaf(m) \in DOMAIN conns /\ conns[Leaf(m)] = ParseLog(prog, m)
  /\ \A m \in Modules : Leaf(m) \in DOMAIN conns => m \in Nodes(prog)

(* The child's connection that a wrapper's stands for.                     *)
InFrom(c, x) == c.kind = x.kind /\ c.name = x.name /\ c.in = Of(x) /\ c.rin = x.rin
OutFrom(c, x) == c.kind = x.kind /\ c.name = x.name /\ c.out = Of(x) /\ c.rout = x.rout
Referred ==
  \A n \in Emitted : \A c \in conns[n] :
    /\ \E s \in {1, 2} : tree[n][s] \in DOMAIN conns /\ \E x \in conns[tree[n][s]] : InFrom(c, x)
    /\ \E s \in {1, 2} : tree[n][s] \in DOMAIN conns /\ \E x \in conns[tree[n][s]] : OutFrom(c, x)

(* What a wire joins.                                                      *)
Connects(w, o, i) ==
  /\ w.name = o.name /\ w.name = i.name /\ w.out = Of(o) /\ w.in = Of(i)
  /\ w.buf = <<o.rout, i.rin>>
  /\ IF w.kind THEN o.kind = "Chain" /\ i.kind = "Chain" ELSE o.kind = "Send" /\ i.kind = "Recv"
WireSound ==
  \A w \in wires : \E p, q \in DOMAIN conns : \E o \in conns[p], i \in conns[q] : Connects(w, o, i)

(* A module whose parent has no wrapper yet: what it holds is connected    *)
(* further up, if at all.                                                  *)
Open == {x \in DOMAIN conns : \A n \in Emitted, s \in {1, 2} : tree[n][s] # x}
Apart ==
  \A x, y \in Open : \A c \in conns[x], d \in conns[y] : c.kind # "Chain" /\ SameEnd(c, d) => x = y
Holds(x, kind, name, m) == \E c \in conns[x] : c.kind = kind /\ c.name = name /\ c.rout = m
Wired(name) == \E w \in wires : ~w.kind /\ w.name = name
Kept ==
  \A kind \in {"Send", "Recv", "Client", "Server"}, name \in Names, m \in Modules :
    Logged(kind, name, m) =>
      \/ \E x \in Open : Holds(x, kind, name, m)
      \/ kind \in {"Send", "Recv"} /\ Wired(name)
WiredOnce ==
  /\ \A x \in Open : \A c \in conns[x] : IsChannel(c) => ~Wired(c.name)
  /\ \A w, v \in wires : ~w.kind /\ ~v.kind /\ w.name = v.name => w = v

Bare == \A e \in Nat : Empty(e) \in DOMAIN conns => conns[Empty(e)] = {}
TopIs == phase = "done" => top = Registered(conns[Root])

JoinInv == AllSound /\ Leafed /\ Referred /\ WireSound /\ Apart /\ Kept /\ WiredOnce /\ Bare /\ TopIs

-----------------------------------------------------------------------------
(***************************************************************************)
(* The log of a module.                                                    *)
(***************************************************************************)
LEMMA Fewer ==
  ASSUME NEW S, IsFiniteSet(S), NEW T, T \subseteq S, NEW x \in S, x \notin T
  PROVE  /\ Cardinality(T) \in Nat /\ Cardinality(S) \in Nat
         /\ Cardinality(T) < Cardinality(S)
  <1>1. T \in SUBSET S
    OBVIOUS
  <1>2. /\ IsFiniteSet(T) /\ Cardinality(T) <= Cardinality(S)
        /\ Cardinality(S) = Cardinality(T) => S = T
    BY <1>1, FS_Subset
  <1>3. Cardinality(T) \in Nat /\ Cardinality(S) \in Nat
    BY <1>2, FS_CardinalityType
  <1>4. Cardinality(S) # Cardinality(T)
    BY <1>2
  <1>5. QED
    BY <1>2, <1>3, <1>4

LEMMA DanglingIs ==
  ASSUME NEW kind, NEW name, NEW m, NEW i, NEW c, c = Dangling(kind, name, m, i)
  PROVE  /\ c.kind = kind /\ c.name = name /\ c.idx = i /\ c.at = Leaf(m)
         /\ c.rin = m /\ c.rout = m /\ c.in = Of(c) /\ c.out = Of(c)
  BY DEF Dangling, Of

LEMMA LinesOf ==
  ASSUME NEW q, NEW k \in Nat, DOMAIN q = 1 .. k, \A i, j \in 1 .. k : q[i] = q[j] => i = j,
         NEW kind, NEW m, NEW its, NEW L, L = Lines(q, kind, m, its)
  PROVE  /\ IsFiniteSet(L)
         /\ \A c \in L : /\ c = Dangling(kind, c.name, m, c.idx) /\ c.idx \in Nat
                         /\ c.name \in its /\ \E i \in 1 .. k : q[i] = c.name
                         /\ c.kind = kind
         /\ \A i \in 1 .. k : q[i] \in its => \E c \in L : c.name = q[i]
         /\ \A c, d \in L : c.name = d.name => c = d
         /\ \A c, d \in L : c.idx = d.idx => c = d
  <1> DEFINE before(i) == {j \in 1 .. (i - 1) : q[j] \in its}
  <1>1. PICK D : D = {j \in 1 .. k : q[j] \in its}
    OBVIOUS
  <1>2. PICK f : f = [i \in D |-> Dangling(kind, q[i], m, Cardinality(before(i)))]
    OBVIOUS
  <1>3. \A i \in D : f[i] = Dangling(kind, q[i], m, Cardinality(before(i)))
    BY <1>2
  <1>4. L = {f[i] : i \in D}
    <2>1. L = {Dangling(kind, q[i], m, Cardinality(before(i))) : i \in D}
      BY <1>1 DEF Lines
    <2> HIDE DEF before
    <2>2. \A x : x \in L <=> x \in {f[i] : i \in D}
      BY <1>3, <2>1
    <2>3. QED
      BY <2>2
  <1>5. \A i \in 1 .. k : IsFiniteSet(before(i)) /\ Cardinality(before(i)) \in Nat
    <2>1. TAKE i \in 1 .. k
    <2>2. PICK a \in Int : a = i - 1
      OBVIOUS
    <2>3. PICK S : S = 1 .. a
      OBVIOUS
    <2>4. IsFiniteSet(S)
      BY <2>3, FS_Interval
    <2>5. PICK T : T = before(i)
      OBVIOUS
    <2>6. T \in SUBSET S
      BY <2>2, <2>3, <2>5
    <2>7. IsFiniteSet(T)
      BY <2>4, <2>6, FS_Subset
    <2>8. Cardinality(T) \in Nat
      BY <2>7, FS_CardinalityType
    <2>9. QED
      BY <2>5, <2>7, <2>8
  <1>6. ASSUME NEW i \in D, NEW j \in D, i < j
        PROVE  Cardinality(before(i)) < Cardinality(before(j))
    <2>1. i \in 1 .. k /\ j \in 1 .. k /\ q[i] \in its
      BY <1>1
    <2>2. PICK S, T : S = before(j) /\ T = before(i)
      OBVIOUS
    <2>3. T \subseteq S /\ i \in S /\ i \notin T
      BY <1>6, <2>1, <2>2
    <2>4. IsFiniteSet(S)
      BY <1>5, <2>1, <2>2
    <2>5. Cardinality(T) < Cardinality(S)
      BY <2>3, <2>4, Fewer
    <2>6. QED
      BY <2>2, <2>5
  <1> HIDE DEF before
  <1>7. ASSUME NEW i \in D
        PROVE  /\ i \in 1 .. k /\ q[i] \in its
               /\ f[i].kind = kind /\ f[i].name = q[i] /\ f[i].idx = Cardinality(before(i))
               /\ f[i].idx \in Nat /\ f[i] = Dangling(kind, f[i].name, m, f[i].idx)
    <2>1. i \in 1 .. k /\ q[i] \in its
      BY <1>1
    <2>2. f[i].kind = kind /\ f[i].name = q[i] /\ f[i].idx = Cardinality(before(i))
      BY <1>3, DanglingIs
    <2>3. QED
      BY <1>3, <1>5, <2>1, <2>2
  <1>8. \A i, j \in D : f[i].name = f[j].name => i = j
    BY <1>7
  <1>9. \A i, j \in D : f[i].idx = f[j].idx => i = j
    <2>1. SUFFICES ASSUME NEW i \in D, NEW j \in D, f[i].idx = f[j].idx PROVE i = j
      OBVIOUS
    <2>2. i \in Int /\ j \in Int /\ f[i].idx \in Nat /\ f[j].idx \in Nat
      BY <1>7
    <2>3. ~(i < j) /\ ~(j < i)
      BY <1>6, <1>7, <2>1, <2>2
    <2>4. QED
      BY <2>2, <2>3
  <1>10. IsFiniteSet(L)
    <2>1. IsFiniteSet(D)
      <3>1. PICK S : S = 1 .. k
        OBVIOUS
      <3>2. IsFiniteSet(S)
        BY <3>1, FS_Interval
      <3>3. D \in SUBSET S
        BY <1>1, <3>1
      <3>4. QED
        BY <3>2, <3>3, FS_Subset
    <2>2. Lists(f, D, L)
      BY <1>4, <1>8 DEF Lists
    <2>3. QED
      BY ONLY <2>1, <2>2, Counted
  <1>11. \A c \in L : \E i \in D : c = f[i]
    BY <1>4
  <1>12. \A c \in L : /\ c = Dangling(kind, c.name, m, c.idx) /\ c.idx \in Nat
                      /\ c.name \in its /\ \E i \in 1 .. k : q[i] = c.name
                      /\ c.kind = kind
    BY <1>7, <1>11
  <1>13. \A i \in 1 .. k : q[i] \in its => \E c \in L : c.name = q[i]
    <2>1. TAKE i \in 1 .. k
    <2>2. HAVE q[i] \in its
    <2>3. i \in D
      BY <1>1, <2>2
    <2>4. f[i] \in L /\ f[i].name = q[i]
      BY <1>4, <1>7, <2>3
    <2>5. QED
      BY <2>4
  <1>14. QED
    BY <1>8, <1>9, <1>10, <1>11, <1>12, <1>13

LEMMA ProgramIs ==
  ASSUME Setting
  PROVE  /\ \A c \in Range(ChanSeq) : /\ prog.chan[c][1] \in 0 .. N /\ prog.chan[c][2] \in 0 .. N
                                      /\ prog.chan[c][1] # prog.chan[c][2] \/ prog.chan[c][1] = 0
         /\ \A k \in Range(ChainSeq) : prog.chain[k] \subseteq Modules
         /\ prog.client \subseteq Modules /\ prog.server \in 0 .. N
  <1>1. prog \in Program
    BY TreeAssumption DEF Setting
  <1>2. /\ prog.chan \in [Range(ChanSeq) -> {e \in (0 .. N) \X (0 .. N) : e[1] # e[2] \/ e[1] = 0}]
        /\ prog.chain \in [Range(ChainSeq) -> SUBSET Modules]
        /\ prog.client \in SUBSET Modules /\ prog.server \in 0 .. N
    BY <1>1 DEF Program
  <1>3. ASSUME NEW c \in Range(ChanSeq)
        PROVE  /\ prog.chan[c][1] \in 0 .. N /\ prog.chan[c][2] \in 0 .. N
               /\ prog.chan[c][1] # prog.chan[c][2] \/ prog.chan[c][1] = 0
    BY <1>2
  <1>4. QED
    BY <1>2, <1>3

LEMMA SeqNames ==
  /\ \E k \in Nat : /\ DOMAIN ChanSeq = 1 .. k
                    /\ \A i, j \in 1 .. k : ChanSeq[i] = ChanSeq[j] => i = j
                    /\ \A x : x \in Range(ChanSeq) <=> \E i \in 1 .. k : ChanSeq[i] = x
  /\ \E k \in Nat : /\ DOMAIN ChainSeq = 1 .. k
                    /\ \A i, j \in 1 .. k : ChainSeq[i] = ChainSeq[j] => i = j
                    /\ \A x : x \in Range(ChainSeq) <=> \E i \in 1 .. k : ChainSeq[i] = x
  /\ \A x : ~(x \in Range(ChanSeq) /\ x \in Range(ChainSeq))
  <1>1. ASSUME NEW q, q \in Seq(Range(q)), IsInjective(q)
        PROVE  \E k \in Nat : /\ DOMAIN q = 1 .. k
                              /\ \A i, j \in 1 .. k : q[i] = q[j] => i = j
                              /\ \A x : x \in Range(q) <=> \E i \in 1 .. k : q[i] = x
    <2>1. Len(q) \in Nat /\ DOMAIN q = 1 .. Len(q)
      BY <1>1
    <2>2. /\ \A i, j \in 1 .. Len(q) : q[i] = q[j] => i = j
          /\ \A x : x \in Range(q) <=> \E i \in 1 .. Len(q) : q[i] = x
      BY <1>1, <2>1 DEF IsInjective, Range
    <2>3. QED
      BY <2>1, <2>2
  <1>2. QED
    BY <1>1, NamesAssumption

(* The lines of a kind, as they are in the log.                            *)
LogLines(L, kind, m, its) ==
  /\ IsFiniteSet(L)
  /\ \A c \in L : /\ c = Dangling(kind, c.name, m, c.idx) /\ c.idx \in Nat
                  /\ c.name \in its /\ c.kind = kind
  /\ \A x \in its : \E c \in L : c.name = x
  /\ \A c, d \in L : c.name = d.name => c = d
  /\ \A c, d \in L : c.idx = d.idx => c = d

LEMMA LogLinesAre ==
  ASSUME NEW q, NEW k \in Nat, DOMAIN q = 1 .. k, \A i, j \in 1 .. k : q[i] = q[j] => i = j,
         NEW kind, NEW m, NEW its, \A x \in its : \E i \in 1 .. k : q[i] = x
  PROVE  LogLines(Lines(q, kind, m, its), kind, m, its)
  <1>1. PICK L : L = Lines(q, kind, m, its)
    OBVIOUS
  <1>2. /\ IsFiniteSet(L)
        /\ \A c \in L : /\ c = Dangling(kind, c.name, m, c.idx) /\ c.idx \in Nat
                        /\ c.name \in its /\ \E i \in 1 .. k : q[i] = c.name
                        /\ c.kind = kind
        /\ \A i \in 1 .. k : q[i] \in its => \E c \in L : c.name = q[i]
        /\ \A c, d \in L : c.name = d.name => c = d
        /\ \A c, d \in L : c.idx = d.idx => c = d
    BY <1>1, LinesOf
  <1>3. QED
    BY <1>1, <1>2 DEF LogLines

LEMMA LogIs ==
  ASSUME Setting, NEW m \in Modules
  PROVE  \E A, B, C, D, E :
           /\ ParseLog(prog, m) = A \cup B \cup C \cup D \cup E
           /\ LogLines(A, "Send", m, {x \in Names : Logged("Send", x, m)})
           /\ LogLines(B, "Recv", m, {x \in Names : Logged("Recv", x, m)})
           /\ LogLines(C, "Chain", m, {x \in Names : Logged("Chain", x, m)})
           /\ LogLines(D, "Client", m, {x \in Names : Logged("Client", x, m)})
           /\ LogLines(E, "Server", m, {x \in Names : Logged("Server", x, m)})
  <1> DEFINE S1 == {c \in Range(ChanSeq) : prog.chan[c][1] = m}
             S2 == {c \in Range(ChanSeq) : prog.chan[c][2] = m}
             S3 == {c \in Range(ChainSeq) : m \in prog.chain[c]}
             S4 == IF m \in prog.client THEN {ServiceName} ELSE {}
             S5 == IF m = prog.server THEN {ServiceName} ELSE {}
  <1>1. /\ S1 = {x \in Names : Logged("Send", x, m)}
        /\ S2 = {x \in Names : Logged("Recv", x, m)}
        /\ S3 = {x \in Names : Logged("Chain", x, m)}
        /\ S4 = {x \in Names : Logged("Client", x, m)}
        /\ S5 = {x \in Names : Logged("Server", x, m)}
    BY DEF Logged, Names
  <1>2. ParseLog(prog, m) = Lines(ChanSeq, "Send", m, S1) \cup Lines(ChanSeq, "Recv", m, S2)
                              \cup Lines(ChainSeq, "Chain", m, S3)
                              \cup Lines(<<ServiceName>>, "Client", m, S4)
                              \cup Lines(<<ServiceName>>, "Server", m, S5)
    BY DEF ParseLog
  <1>3. /\ S1 \subseteq Range(ChanSeq) /\ S2 \subseteq Range(ChanSeq) /\ S3 \subseteq Range(ChainSeq)
        /\ S4 \subseteq {ServiceName} /\ S5 \subseteq {ServiceName}
    OBVIOUS
  <1> HIDE DEF S1, S2, S3, S4, S5
  <1>4. LogLines(Lines(ChanSeq, "Send", m, S1), "Send", m, S1)
        /\ LogLines(Lines(ChanSeq, "Recv", m, S2), "Recv", m, S2)
    <2>1. PICK k \in Nat : /\ DOMAIN ChanSeq = 1 .. k
                           /\ \A i, j \in 1 .. k : ChanSeq[i] = ChanSeq[j] => i = j
                           /\ \A x : x \in Range(ChanSeq) <=> \E i \in 1 .. k : ChanSeq[i] = x
      BY SeqNames
    <2>2. /\ \A x \in S1 : \E i \in 1 .. k : ChanSeq[i] = x
          /\ \A x \in S2 : \E i \in 1 .. k : ChanSeq[i] = x
      BY <1>3, <2>1
    <2>3. QED
      BY <2>1, <2>2, LogLinesAre
  <1>5. LogLines(Lines(ChainSeq, "Chain", m, S3), "Chain", m, S3)
    <2>1. PICK k \in Nat : /\ DOMAIN ChainSeq = 1 .. k
                           /\ \A i, j \in 1 .. k : ChainSeq[i] = ChainSeq[j] => i = j
                           /\ \A x : x \in Range(ChainSeq) <=> \E i \in 1 .. k : ChainSeq[i] = x
      BY SeqNames
    <2>2. \A x \in S3 : \E i \in 1 .. k : ChainSeq[i] = x
      BY <1>3, <2>1
    <2>3. QED
      BY <2>1, <2>2, LogLinesAre
  <1>6. LogLines(Lines(<<ServiceName>>, "Client", m, S4), "Client", m, S4)
        /\ LogLines(Lines(<<ServiceName>>, "Server", m, S5), "Server", m, S5)
    <2>1. PICK q, k : q = <<ServiceName>> /\ k \in Nat /\ k = 1
      OBVIOUS
    <2>2. /\ k \in Nat
          /\ DOMAIN q = 1 .. k /\ \A i, j \in 1 .. k : q[i] = q[j] => i = j
          /\ \A x \in S4 : \E i \in 1 .. k : q[i] = x
          /\ \A x \in S5 : \E i \in 1 .. k : q[i] = x
      BY <1>3, <2>1
    <2>3. LogLines(Lines(q, "Client", m, S4), "Client", m, S4)
          /\ LogLines(Lines(q, "Server", m, S5), "Server", m, S5)
      BY <2>2, LogLinesAre
    <2>4. QED
      BY <2>1, <2>3
  <1>7. QED
    BY <1>1, <1>2, <1>4, <1>5, <1>6

(* A module has one end of a channel at most, and a line for each end.     *)
LEMMA LoggedOnce ==
  ASSUME Setting
  PROVE  /\ \A name, m : ~(Logged("Send", name, m) /\ Logged("Recv", name, m))
         /\ \A kind, name, m : Logged(kind, name, m) /\ kind \in {"Send", "Recv"}
              => name \in Range(ChanSeq)
         /\ \A name, m : Logged("Chain", name, m) => name \in Range(ChainSeq)
         /\ \A kind, name, m, x : /\ Logged(kind, name, m) /\ Logged(kind, name, x)
                                  /\ kind \in {"Send", "Recv", "Server"}
                                  => m = x
         /\ \A kind, name, m : Logged(kind, name, m) => m \in Modules /\ name \in Names
  <1>1. 0 \notin Modules
    BY DEF Modules
  <1>2. QED
    BY <1>1, ProgramIs DEF Logged, Names

LEMMA LogSound ==
  ASSUME Setting, NEW m \in Modules, NEW S, S = ParseLog(prog, m)
  PROVE  /\ Sound(Leaf(m), S)
         /\ \A c \in S : c.in = Of(c) /\ c.out = Of(c) /\ c.rin = m /\ c.rout = m
         /\ \A kind, name : Logged(kind, name, m) => \E c \in S : c.kind = kind /\ c.name = name
  <1>1. PICK A, B, C, D, E :
           /\ S = A \cup B \cup C \cup D \cup E
           /\ LogLines(A, "Send", m, {x \in Names : Logged("Send", x, m)})
           /\ LogLines(B, "Recv", m, {x \in Names : Logged("Recv", x, m)})
           /\ LogLines(C, "Chain", m, {x \in Names : Logged("Chain", x, m)})
           /\ LogLines(D, "Client", m, {x \in Names : Logged("Client", x, m)})
           /\ LogLines(E, "Server", m, {x \in Names : Logged("Server", x, m)})
    BY LogIs
  <1>2. IsFiniteSet(S)
    <2>1. IsFiniteSet(A) /\ IsFiniteSet(B) /\ IsFiniteSet(C) /\ IsFiniteSet(D) /\ IsFiniteSet(E)
      BY <1>1 DEF LogLines
    <2>2. IsFiniteSet(A \cup B)
      BY <2>1, FS_Union
    <2>3. IsFiniteSet((A \cup B) \cup C)
      BY <2>1, <2>2, FS_Union
    <2>4. IsFiniteSet(((A \cup B) \cup C) \cup D)
      BY <2>1, <2>3, FS_Union
    <2>5. IsFiniteSet((((A \cup B) \cup C) \cup D) \cup E)
      BY <2>1, <2>4, FS_Union
    <2>6. QED
      BY <1>1, <2>5
  <1>3. ASSUME NEW c \in S
        PROVE  /\ c = Dangling(c.kind, c.name, m, c.idx) /\ c.idx \in Nat
               /\ Logged(c.kind, c.name, m)
               /\ c.kind \in {"Send", "Recv", "Chain", "Client", "Server"}
               /\ c.kind = "Send" => c \in A
               /\ c.kind = "Recv" => c \in B
               /\ c.kind = "Chain" => c \in C
               /\ c.kind = "Client" => c \in D
               /\ c.kind = "Server" => c \in E
    BY <1>1 DEF LogLines
  <1>4. ASSUME NEW c \in S
        PROVE  /\ c.in = Of(c) /\ c.out = Of(c) /\ c.rin = m /\ c.rout = m /\ c.at = Leaf(m)
               /\ c \in Conn /\ Homed(c)
    <2>1. /\ c = Dangling(c.kind, c.name, m, c.idx) /\ c.idx \in Nat
          /\ Logged(c.kind, c.name, m)
          /\ c.kind \in {"Send", "Recv", "Chain", "Client", "Server"}
      BY <1>3
    <2>2. c.at = Leaf(m) /\ c.rin = m /\ c.rout = m /\ c.in = Of(c) /\ c.out = Of(c)
      BY <2>1, DanglingIs
    <2>3. c.name \in Names /\ Leaf(m) \in Places
      BY <2>1, LoggedOnce DEF Places
    <2>4. c \in Conn
      BY <2>1, <2>3 DEF Dangling, Conn
    <2>5. Homed(c)
      BY <2>1, <2>2 DEF Homed
    <2>6. QED
      BY <2>2, <2>4, <2>5
  <1>5. ASSUME NEW c \in S, NEW d \in S, c.kind = d.kind
        PROVE  (c.name = d.name => c = d) /\ (c.idx = d.idx => c = d)
    <2>1. \E L \in {A, B, C, D, E} : c \in L /\ d \in L
      BY <1>3, <1>5
    <2>2. \A L \in {A, B, C, D, E} : \A x, y \in L : (x.name = y.name => x = y) /\ (x.idx = y.idx => x = y)
      BY <1>1 DEF LogLines
    <2>3. QED
      BY <2>1, <2>2
  <1>6. ASSUME NEW c \in S, NEW d \in S, Rivals(c, d) PROVE c = d
    <2>1. c.name = d.name
      BY <1>6 DEF Rivals, SameEnd
    <2>2. CASE c.kind = d.kind
      BY <1>5, <2>1, <2>2
    <2>3. CASE c.kind # d.kind
      <3>1. IsChannel(c) /\ IsChannel(d)
        BY <1>6, <2>3 DEF Rivals, SameEnd
      <3>2. Logged(c.kind, c.name, m) /\ Logged(d.kind, c.name, m)
        BY <1>3, <2>1
      <3>3. QED
        BY <2>3, <3>1, <3>2, LoggedOnce DEF IsChannel
    <2>4. QED
      BY <2>2, <2>3
  <1>7. \A kind, name : Logged(kind, name, m) => \E c \in S : c.kind = kind /\ c.name = name
    <2>1. SUFFICES ASSUME NEW kind, NEW name, Logged(kind, name, m)
                   PROVE  \E c \in S : c.kind = kind /\ c.name = name
      OBVIOUS
    <2>2. name \in Names /\ kind \in {"Send", "Recv", "Chain", "Client", "Server"}
      BY <2>1, LoggedOnce DEF Logged
    <2>3. QED
      BY <1>1, <2>1, <2>2 DEF LogLines
  <1>8. QED
    BY <1>2, <1>4, <1>5, <1>6, <1>7 DEF Sound

-----------------------------------------------------------------------------
(***************************************************************************)
(* What a wrapper does with the connections a and b of its children.       *)
(***************************************************************************)
Siblings(l, r, a, b) ==
  /\ l # r /\ Sound(l, a) /\ Sound(r, b)
  /\ \A c \in a, d \in b : c.kind # "Chain" => ~SameEnd(c, d)

Lifted(c, u, n, i) == [Merged(c, u) EXCEPT !.at = n, !.idx = i]

LEMMA LiftIs ==
  ASSUME NEW c \in Conn, NEW u \in Conn, NEW n \in Places, NEW i \in Nat,
         NEW r, r = Lifted(c, u, n, i)
  PROVE  /\ r \in Conn /\ r.kind = c.kind /\ r.name = c.name /\ r.idx = i /\ r.at = n
         /\ r.rin = u.rin /\ r.rout = c.rout /\ r.in = Of(u) /\ r.out = Of(c)
  <1>1. Of(u) \in Places \X Nat /\ Of(c) \in Places \X Nat
    BY DEF Of, Conn
  <1>2. PICK v, w : v = Of(u) /\ w = Of(c)
    OBVIOUS
  <1>3. PICK m : m = Merged(c, u)
    OBVIOUS
  <1>4. m = [c EXCEPT !.rin = u.rin, !.in = v, !.out = w]
    BY <1>2, <1>3 DEF Merged
  <1>5. u.rin \in Modules
    BY DEF Conn
  <1>6. /\ m \in Conn /\ m.kind = c.kind /\ m.name = c.name /\ m.rin = u.rin /\ m.rout = c.rout
        /\ m.in = v /\ m.out = w
    BY <1>1, <1>2, <1>4, <1>5 DEF Conn
  <1>7. r = [m EXCEPT !.at = n, !.idx = i]
    BY <1>3 DEF Lifted
  <1>8. /\ r \in Conn /\ r.kind = m.kind /\ r.name = m.name /\ r.idx = i /\ r.at = n
        /\ r.rin = m.rin /\ r.rout = m.rout /\ r.in = m.in /\ r.out = m.out
    BY <1>6, <1>7 DEF Conn
  <1>9. QED
    BY <1>2, <1>6, <1>8

LEMMA PairsMatch ==
  ASSUME NEW a, NEW b
  PROVE  /\ \A q \in MatchedPairs(a, b) :
              q[1] \in a /\ q[2] \in b /\ (ChannelMatches(q[1], q[2]) \/ ChainMatches(q[1], q[2]))
         /\ \A x \in a, y \in b : ChannelMatches(x, y) \/ ChainMatches(x, y) => <<x, y>> \in MatchedPairs(a, b)
         /\ \A x \in a, y \in b : ChannelMatches(x, y) \/ ChainMatches(x, y) => x.name \in Matched(a, b)
  <1>1. \A q \in MatchedPairs(a, b) :
          q[1] \in a /\ q[2] \in b /\ (ChannelMatches(q[1], q[2]) \/ ChainMatches(q[1], q[2]))
    BY DEF MatchedPairs
  <1>2. ASSUME NEW x \in a, NEW y \in b, ChannelMatches(x, y) \/ ChainMatches(x, y)
        PROVE  <<x, y>> \in MatchedPairs(a, b) /\ x.name \in Matched(a, b)
    <2>1. PICK q : q = <<x, y>>
      OBVIOUS
    <2>2. q \in a \X b /\ q[1] = x /\ q[2] = y
      BY <2>1
    <2>3. q \in MatchedPairs(a, b)
      BY <1>2, <2>2 DEF MatchedPairs
    <2>4. q[1].name \in Matched(a, b)
      BY <2>3 DEF Matched
    <2>5. QED
      BY <2>1, <2>2, <2>3, <2>4
  <1>3. QED
    BY <1>1, <1>2

(* A name of a channel that matched is one of two ends that matched, and   *)
(* the same for a chain.                                                   *)
LEMMA MatchedIs ==
  ASSUME Setting, NEW l, NEW r, NEW a, NEW b, Siblings(l, r, a, b)
  PROVE  /\ \A name \in Range(ChanSeq) :
              name \in Matched(a, b) <=> \E x \in a, y \in b : ChannelMatches(x, y) /\ x.name = name
         /\ \A name \in Range(ChainSeq) :
              name \in Matched(a, b) <=> \E x \in a, y \in b : ChainMatches(x, y) /\ x.name = name
  <1>1. \A name : name \in Matched(a, b)
          <=> \E x \in a, y \in b : (ChannelMatches(x, y) \/ ChainMatches(x, y)) /\ x.name = name
    <2>1. TAKE name
    <2>2. name \in Matched(a, b) => \E q \in MatchedPairs(a, b) : q[1].name = name
      BY DEF Matched
    <2>3. QED
      BY <2>2, PairsMatch
  <1>2. ASSUME NEW x \in a
        PROVE  /\ IsChannel(x) => x.name \in Range(ChanSeq)
               /\ x.kind = "Chain" => x.name \in Range(ChainSeq)
    <2>1. Logged(x.kind, x.name, x.rin)
      BY DEF Siblings, Sound, Homed
    <2>2. QED
      BY <2>1 DEF Logged, IsChannel
  <1>3. QED
    BY <1>1, <1>2, SeqNames DEF ChannelMatches, ChainMatches

LEMMA SiblingsApart ==
  ASSUME NEW l, NEW r, NEW a, NEW b, Siblings(l, r, a, b)
  PROVE  /\ \A c \in a : c.at = l /\ c \notin b /\ c \in Conn /\ Homed(c)
         /\ \A c \in b : c.at = r /\ c \notin a /\ c \in Conn /\ Homed(c)
         /\ l # r
  BY DEF Siblings, Sound

LEMMA UpstreamIs ==
  ASSUME Setting, NEW l, NEW r, NEW a, NEW b, Siblings(l, r, a, b), NEW c \in Raised(a, b)
  PROVE  /\ c \in a \cup b /\ Upstream(c, a, b) \in a \cup b
         /\ Upstream(c, a, b).kind = c.kind /\ Upstream(c, a, b).name = c.name
         /\ c.kind # "Chain" => Upstream(c, a, b) = c
  <1>1. c \in a \cup b
    BY DEF Raised
  <1>2. CASE ~Joins(c, a, b)
    BY <1>1, <1>2 DEF Upstream, Joins
  <1>3. CASE Joins(c, a, b)
    <2>1. c.kind = "Chain" /\ c.name \in Matched(a, b)
      BY <1>3 DEF Joins
    <2>2. c.name \in Range(ChainSeq)
      BY <1>1, <2>1, SiblingsApart, LoggedOnce DEF Homed
    <2>3. \E x \in a : x.kind = "Chain" /\ x.name = c.name
      BY <2>1, <2>2, MatchedIs DEF ChainMatches
    <2>4. PICK u : u = CHOOSE x \in a : x.kind = "Chain" /\ x.name = c.name
      OBVIOUS
    <2>5. u \in a /\ u.kind = "Chain" /\ u.name = c.name
      BY <2>3, <2>4
    <2>6. Upstream(c, a, b) = u
      BY <1>3, <2>4 DEF Upstream
    <2>7. QED
      BY <1>1, <2>1, <2>5, <2>6
  <1>4. QED
    BY <1>2, <1>3

(* Those that go up are still of different names, or of different ends.    *)
LEMMA RaisedOnce ==
  ASSUME Setting, NEW l, NEW r, NEW a, NEW b, Siblings(l, r, a, b),
         NEW c \in Raised(a, b), NEW d \in Raised(a, b), Rivals(c, d)
  PROVE  c = d
  <1>1. c \in a \cup b /\ d \in a \cup b
    BY DEF Raised
  <1>2. CASE (c \in a /\ d \in a) \/ (c \in b /\ d \in b)
    BY <1>2 DEF Siblings, Sound
  <1>3. ASSUME NEW x \in a, NEW y \in b, x \in Raised(a, b), y \in Raised(a, b), Rivals(x, y)
        PROVE  FALSE
    <2>1. x \notin b /\ Homed(x) /\ Homed(y) /\ x.name = y.name
      BY <1>3, SiblingsApart DEF Rivals, SameEnd
    <2>2. CASE x.kind = "Chain" /\ y.kind = "Chain"
      <3>1. ChainMatches(x, y)
        BY <2>1, <2>2 DEF ChainMatches
      <3>2. Joins(x, a, b)
        BY <2>2, <3>1, PairsMatch DEF Joins
      <3>3. QED
        BY <1>3, <2>1, <3>2 DEF Raised
    <2>3. CASE IsChannel(x) /\ IsChannel(y) /\ x.kind # y.kind
      <3>1. x.name \in Matched(a, b)
        BY <2>1, <2>3, PairsMatch DEF ChannelMatches
      <3>2. ~Joins(x, a, b)
        BY <2>3 DEF Joins, IsChannel
      <3>3. QED
        BY <1>3, <2>3, <3>1, <3>2 DEF Raised
    <2>4. CASE x.kind = y.kind /\ x.kind # "Chain"
      <3>1. x.rout = y.rout
        <4>1. CASE IsChannel(x)
          BY <2>1, <2>4, <4>1, LoggedOnce DEF Homed, IsChannel
        <4>2. CASE ~IsChannel(x)
          BY <1>3, <2>4, <4>2 DEF Rivals, SameEnd
        <4>3. QED
          BY <4>1, <4>2
      <3>2. QED
        BY <2>1, <2>4, <3>1 DEF Siblings, SameEnd
    <2>5. QED
      BY <1>3, <2>2, <2>3, <2>4 DEF Rivals, SameEnd
  <1>4. Rivals(d, c)
    BY DEF Rivals, SameEnd
  <1>5. QED
    BY <1>1, <1>2, <1>3, <1>4

(* The ones of its kind that are numbered before a connection.             *)
Leads(d, c, a) == d.kind = c.kind /\ IF d.at = c.at THEN d.idx < c.idx ELSE d \in a

LEMMA RaisedIs ==
  ASSUME NEW l, NEW r, NEW a, NEW b, Siblings(l, r, a, b), NEW R, R = Raised(a, b)
  PROVE  /\ IsFiniteSet(R)
         /\ \A c \in R : c \in Conn /\ Homed(c) /\ (c \in a \/ c \in b) /\ c.idx \in Nat
         /\ \A c \in R : (c \in a => c.at = l /\ c \notin b) /\ (c \in b => c.at = r /\ c \notin a)
         /\ \A c, d \in R : c.kind = d.kind /\ c.at = d.at /\ c.idx = d.idx => c = d
  <1>1. R \in SUBSET (a \cup b)
    BY DEF Raised
  <1>2. IsFiniteSet(a \cup b)
    BY FS_Union DEF Siblings, Sound
  <1>3. IsFiniteSet(R)
    BY <1>1, <1>2, FS_Subset
  <1>4. \A c \in R : c \in a \/ c \in b
    BY <1>1
  <1>5. \A c \in R : c \in Conn /\ Homed(c)
    BY <1>4, SiblingsApart
  <1>6. \A c \in R : c.idx \in Nat
    BY <1>5 DEF Conn
  <1>7. \A c \in R : (c \in a => c.at = l /\ c \notin b) /\ (c \in b => c.at = r /\ c \notin a)
    BY SiblingsApart
  <1>8. \A c, d \in R : c.kind = d.kind /\ c.at = d.at /\ c.idx = d.idx => c = d
    BY <1>4, <1>7, SiblingsApart DEF Siblings, Sound
  <1>9. QED
    BY <1>3, <1>4, <1>5, <1>6, <1>7, <1>8

LEMMA FirstOrders ==
  ASSUME NEW l, NEW r, NEW a, NEW b, Siblings(l, r, a, b), NEW R, R = Raised(a, b)
  PROVE  /\ \A c \in R : ~Leads(c, c, a)
         /\ \A c, d, e \in R : Leads(c, d, a) /\ Leads(d, e, a) => Leads(c, e, a)
         /\ \A c, d \in R : c.kind = d.kind /\ c # d => Leads(c, d, a) \/ Leads(d, c, a)
  <1>1. /\ \A c \in R : c \in Conn /\ (c \in a \/ c \in b) /\ c.idx \in Nat
        /\ \A c \in R : (c \in a => c.at = l /\ c \notin b) /\ (c \in b => c.at = r /\ c \notin a)
        /\ \A c, d \in R : c.kind = d.kind /\ c.at = d.at /\ c.idx = d.idx => c = d
        /\ l # r
    BY RaisedIs, SiblingsApart
  <1>2. ASSUME NEW c \in R, NEW d \in R, NEW e \in R, Leads(c, d, a), Leads(d, e, a) PROVE Leads(c, e, a)
    BY <1>1, <1>2 DEF Leads
  <1>3. ASSUME NEW c \in R, NEW d \in R, c.kind = d.kind, c # d PROVE Leads(c, d, a) \/ Leads(d, c, a)
    BY <1>1, <1>3 DEF Leads
  <1>4. \A c \in R : ~Leads(c, c, a)
    BY <1>1 DEF Leads
  <1>5. QED
    BY <1>2, <1>3, <1>4

LEMMA NumberIs ==
  ASSUME NEW l, NEW r, NEW a, NEW b, Siblings(l, r, a, b)
  PROVE  /\ \A c \in Raised(a, b) : Number(c, a, b) \in Nat
         /\ \A c, d \in Raised(a, b) :
              c.kind = d.kind /\ Number(c, a, b) = Number(d, a, b) => c = d
  <1> DEFINE before(c, R) == {d \in R : Leads(d, c, a)}
  <1>1. PICK R : R = Raised(a, b)
    OBVIOUS
  <1>2. \A c : Number(c, a, b) = Cardinality(before(c, R))
    BY <1>1 DEF Number, Leads
  <1>3. IsFiniteSet(R)
    BY <1>1, RaisedIs
  <1>4. ASSUME NEW c \in R PROVE IsFiniteSet(before(c, R)) /\ Cardinality(before(c, R)) \in Nat
    <2>1. PICK T : T = before(c, R)
      OBVIOUS
    <2>2. T \in SUBSET R
      BY <2>1
    <2>3. IsFiniteSet(T)
      BY <1>3, <2>2, FS_Subset
    <2>4. Cardinality(T) \in Nat
      BY <2>3, FS_CardinalityType
    <2>5. QED
      BY <2>1, <2>3, <2>4
  <1>5. ASSUME NEW c \in R, NEW d \in R, Leads(c, d, a)
        PROVE  Cardinality(before(c, R)) < Cardinality(before(d, R))
    <2>1. PICK S, T : S = before(d, R) /\ T = before(c, R)
      OBVIOUS
    <2>2. \A e \in R : Leads(e, c, a) => Leads(e, d, a)
      BY <1>1, <1>5, FirstOrders
    <2>3. ~Leads(c, c, a)
      BY <1>1, FirstOrders
    <2>4. T \subseteq S /\ c \in S /\ c \notin T
      BY <1>5, <2>1, <2>2, <2>3
    <2>5. IsFiniteSet(S)
      BY <1>4, <2>1
    <2>6. Cardinality(T) < Cardinality(S)
      BY <2>4, <2>5, Fewer
    <2>7. QED
      BY <2>1, <2>6
  <1> HIDE DEF before
  <1>6. ASSUME NEW c \in R, NEW d \in R, c.kind = d.kind, Cardinality(before(c, R)) = Cardinality(before(d, R))
        PROVE  c = d
    <2>1. Cardinality(before(c, R)) \in Nat /\ Cardinality(before(d, R)) \in Nat
      BY <1>4
    <2>2. ~Leads(c, d, a) /\ ~Leads(d, c, a)
      BY <1>5, <1>6, <2>1
    <2>3. QED
      BY <1>1, <1>6, <2>2, FirstOrders
  <1>7. QED
    BY <1>1, <1>2, <1>4, <1>6

(* The wrapper's connection for one that goes up.                          *)
Lift(n, c, a, b) == Lifted(c, Upstream(c, a, b), n, Number(c, a, b))

LEMMA ExposedIs ==
  ASSUME Setting, NEW l, NEW r, NEW a, NEW b, Siblings(l, r, a, b), NEW n \in Places
  PROVE  /\ \A x \in Exposed(n, a, b) : \E c \in Raised(a, b) : x = Lift(n, c, a, b)
         /\ \A c \in Raised(a, b) : Lift(n, c, a, b) \in Exposed(n, a, b)
         /\ \A c \in Raised(a, b) :
              /\ Lift(n, c, a, b) \in Conn /\ Lift(n, c, a, b).at = n
              /\ Lift(n, c, a, b).idx = Number(c, a, b) /\ Homed(Lift(n, c, a, b))
              /\ InFrom(Lift(n, c, a, b), Upstream(c, a, b))
              /\ OutFrom(Lift(n, c, a, b), c)
  <1>1. /\ \A x \in Exposed(n, a, b) : \E c \in Raised(a, b) : x = Lift(n, c, a, b)
        /\ \A c \in Raised(a, b) : Lift(n, c, a, b) \in Exposed(n, a, b)
    BY DEF Exposed, Lift, Lifted
  <1>2. ASSUME NEW c \in Raised(a, b)
        PROVE  /\ Lift(n, c, a, b) \in Conn /\ Lift(n, c, a, b).at = n
               /\ Lift(n, c, a, b).idx = Number(c, a, b) /\ Homed(Lift(n, c, a, b))
               /\ InFrom(Lift(n, c, a, b), Upstream(c, a, b))
               /\ OutFrom(Lift(n, c, a, b), c)
    <2>1. PICK u, x, i : u = Upstream(c, a, b) /\ i = Number(c, a, b) /\ x = Lift(n, c, a, b)
      OBVIOUS
    <2>2. /\ u \in a \cup b /\ u.kind = c.kind /\ u.name = c.name
          /\ c.kind # "Chain" => u = c
      BY <2>1, UpstreamIs
    <2>3. c \in Conn /\ Homed(c)
      BY RaisedIs
    <2>4. u \in Conn /\ Homed(u)
      BY <2>2, SiblingsApart
    <2>5. i \in Nat /\ x = Lifted(c, u, n, i)
      BY <2>1, NumberIs DEF Lift
    <2>6. /\ x \in Conn /\ x.kind = c.kind /\ x.name = c.name /\ x.idx = i /\ x.at = n
          /\ x.rin = u.rin /\ x.rout = c.rout /\ x.in = Of(u) /\ x.out = Of(c)
      BY <2>3, <2>4, <2>5, LiftIs
    <2>7. Homed(x)
      BY <2>2, <2>3, <2>4, <2>6 DEF Homed
    <2>8. InFrom(x, u) /\ OutFrom(x, c)
      BY <2>2, <2>6 DEF InFrom, OutFrom
    <2>9. QED
      BY <2>1, <2>6, <2>7, <2>8
  <1>3. QED
    BY <1>1, <1>2

LEMMA ExposedSound ==
  ASSUME Setting, NEW l, NEW r, NEW a, NEW b, Siblings(l, r, a, b), NEW n \in Places,
         NEW E, E = Exposed(n, a, b)
  PROVE  Sound(n, E)
  <1>1. PICK R, f : R = Raised(a, b) /\ f = [c \in R |-> Lift(n, c, a, b)]
    OBVIOUS
  <1>2. /\ \A x \in E : \E c \in R : f[c] = x
        /\ \A c \in R : f[c] \in E
        /\ \A c \in R : /\ f[c] \in Conn /\ f[c].at = n /\ f[c].idx = Number(c, a, b) /\ Homed(f[c])
                        /\ OutFrom(f[c], c)
    BY <1>1, ExposedIs
  <1>3. ASSUME NEW c \in R, NEW d \in R, f[c].kind = f[d].kind, f[c].idx = f[d].idx PROVE c = d
    <2>1. c.kind = d.kind
      BY <1>2, <1>3 DEF OutFrom
    <2>2. QED
      BY <1>1, <1>2, <1>3, <2>1, NumberIs
  <1>4. ASSUME NEW c \in R, NEW d \in R, Rivals(f[c], f[d]) PROVE c = d
    <2>1. Rivals(c, d)
      BY <1>2, <1>4 DEF OutFrom, Rivals, SameEnd, IsChannel
    <2>2. QED
      BY <1>1, <2>1, RaisedOnce
  <1>5. IsFiniteSet(E)
    <2>1. IsFiniteSet(R)
      BY <1>1, RaisedIs
    <2>2. \A c, d \in R : f[c] = f[d] => c = d
      BY <1>3
    <2>3. Lists(f, R, E)
      BY <1>2, <2>2 DEF Lists
    <2>4. QED
      BY ONLY <2>1, <2>3, Counted
  <1>6. \A c \in E : c \in Conn /\ c.at = n /\ Homed(c)
    BY <1>2
  <1>7. \A c, d \in E : c.kind = d.kind /\ c.idx = d.idx => c = d
    BY <1>2, <1>3
  <1>8. \A c, d \in E : Rivals(c, d) => c = d
    BY <1>2, <1>4
  <1>9. QED
    BY <1>5, <1>6, <1>7, <1>8 DEF Sound

-----------------------------------------------------------------------------
(***************************************************************************)
(* A wrapper is written.                                                   *)
(***************************************************************************)
Emits(n, l, r, a, b, E) ==
  /\ n \in Ids /\ n \in Places /\ n \in DOMAIN tree /\ n \notin DOMAIN conns
  /\ l = tree[n][1] /\ r = tree[n][2] /\ l # r /\ l \in Open /\ r \in Open
  /\ a = conns[l] /\ b = conns[r] /\ E = Exposed(n, a, b) /\ Siblings(l, r, a, b)
  /\ DOMAIN conns' = DOMAIN conns \cup {n} /\ conns'[n] = E
  /\ \A x \in DOMAIN conns : conns'[x] = conns[x]
  /\ Emitted' = Emitted \cup {n} /\ Open' = (Open \ {l, r}) \cup {n}
  /\ wires' = wires \cup {Wire(q[1], q[2]) : q \in MatchedPairs(a, b)}
  /\ prog' = prog /\ tree' = tree /\ phase' # "done"

LEMMA ChildrenThere ==
  ASSUME EmitInv, Whole, EmitNode, NEW s \in {1, 2}
  PROVE  /\ tree[Emitting.node][s] \in DOMAIN conns
         /\ tree[Emitting.node][s] # Emitting.node
         /\ Emitting.node \in DOMAIN tree /\ Emitting.node \in Ids /\ Emitting.node \notin DOMAIN conns
  <1>1. Stack /\ Inside /\ Known /\ emits # << >> /\ ~Emitting.enter
    BY DEF EmitInv, EmitNode
  <1>2. PICK n, K, c : n = Emitting.node /\ K = Len(emits) /\ c = tree[n][s]
    OBVIOUS
  <1>3. /\ K \in Nat /\ K >= 1 /\ Emitting = emits[K] /\ K \in 1 .. Len(emits)
        /\ n \in DOMAIN tree /\ n \notin Emitted
    BY <1>1, <1>2, TopCall
  <1>4. n \in Ids /\ Rank(n) \in 1 .. Total
    BY <1>3 DEF Whole
  <1>5. n \notin DOMAIN conns
    BY <1>3, <1>4 DEF Emitted
  <1>6. \/ \E m \in Nodes(prog) : c = Leaf(m)
        \/ c \in DOMAIN tree /\ Rank(c) < Rank(n)
        \/ \E e \in Nat : e < empties /\ c = Empty(e)
    BY <1>2, <1>3 DEF Whole
  <1>7. c # n
    <2>1. \A m : Leaf(m) # n /\ Empty(m) # n
      BY <1>4, Kinds DEF Ids
    <2>2. ~(Rank(n) < Rank(n))
      BY <1>4
    <2>3. QED
      BY <1>6, <2>1, <2>2
  <1>8. CASE c \in DOMAIN tree
    <2>1. emits[K].node = n /\ ~emits[K].enter
      BY <1>1, <1>2, <1>3
    <2>2. c \in Emitted \/ \E j \in (K + 1) .. Len(emits) : emits[j].node = c
      BY <1>1, <1>2, <1>3, <1>8, <2>1 DEF Inside
    <2>3. c \in Emitted
      BY <1>2, <1>3, <2>2
    <2>4. QED
      BY <1>2, <1>3, <1>4, <1>5, <1>7, <2>3 DEF Emitted
  <1>9. CASE c \notin DOMAIN tree
    <2>1. c \in DOMAIN conns
      BY <1>1, <1>6, <1>9 DEF Known
    <2>2. QED
      BY <1>2, <1>3, <1>4, <1>5, <1>7, <2>1
  <1>10. QED
    BY <1>8, <1>9

LEMMA EmitsIs ==
  ASSUME EmitInv, Whole, AllSound, Referred, Apart, EmitNode
  PROVE  \E n, l, r, a, b, E : Emits(n, l, r, a, b, E)
  <1>1. PICK n : Emitting1(n)
    BY EmitIs DEF EmitInv
  <1>2. PICK l, r, a, b, E : /\ l = tree[n][1] /\ r = tree[n][2] /\ a = conns[l] /\ b = conns[r]
                             /\ E = Exposed(n, a, b)
    OBVIOUS
  <1>3. /\ n = Emitting.node /\ prog' = prog /\ tree' = tree /\ phase' # "done"
        /\ wires' = wires \cup {Wire(q[1], q[2]) : q \in MatchedPairs(a, b)}
        /\ conns' = With(conns, n, E)
    BY <1>1, <1>2 DEF Emitting1, Half
  <1>4. /\ n \in DOMAIN tree /\ n \in Ids /\ n \notin DOMAIN conns
        /\ l \in DOMAIN conns /\ r \in DOMAIN conns /\ l # n /\ r # n
    BY <1>2, <1>3, ChildrenThere
  <1>5. DOMAIN conns' = DOMAIN conns \cup {n} /\ conns'[n] = E /\ \A x \in DOMAIN conns : conns'[x] = conns[x]
    <2>1. PICK f, g : f = conns /\ g = conns'
      OBVIOUS
    <2>2. n \notin DOMAIN f /\ g = With(f, n, E)
      BY <1>3, <1>4, <2>1
    <2>3. DOMAIN g = DOMAIN f \cup {n} /\ g[n] = E /\ \A y \in DOMAIN f : g[y] = f[y]
      BY ONLY <2>2 DEF With
    <2>4. QED
      BY <2>1, <2>3
  <1>6. Emitted' = Emitted \cup {n} /\ n \notin Emitted
    BY <1>4, <1>5 DEF Emitted
  <1>7. \A m \in Emitted : m \in DOMAIN tree
    BY DEF EmitInv, Below
  <1>8. \A m, x \in DOMAIN tree, s, t \in {1, 2} : tree[m][s] = tree[x][t] => m = x /\ s = t
    BY DEF Whole
  <1>9. l # r
    BY <1>2, <1>4, <1>8
  <1>10. l \in Open /\ r \in Open
    BY <1>2, <1>4, <1>6, <1>7, <1>8 DEF Open
  <1>11. \A m \in Emitted, s \in {1, 2} : tree[m][s] # n
    <2>1. SUFFICES ASSUME NEW m \in Emitted, NEW s \in {1, 2}, tree[m][s] = n PROVE FALSE
      OBVIOUS
    <2>2. n \in DOMAIN tree /\ m \in Emitted /\ Below
      BY <1>4 DEF EmitInv
    <2>3. n \in Emitted
      BY <2>1, <2>2 DEF Below
    <2>4. QED
      BY <1>6, <2>3
  <1>12. Open' = (Open \ {l, r}) \cup {n}
    <2>1. Open' = {x \in DOMAIN conns \cup {n} : \A m \in Emitted \cup {n}, s \in {1, 2} : tree[m][s] # x}
      BY <1>3, <1>5, <1>6 DEF Open
    <2>2. \A x : x \in Open' <=> x \in (Open \ {l, r}) \cup {n}
      BY <1>2, <1>4, <1>11, <2>1 DEF Open
    <2>3. QED
      BY <2>2
  <1>13. Siblings(l, r, a, b)
    <2>1. Sound(l, a) /\ Sound(r, b)
      BY <1>2, <1>4 DEF AllSound
    <2>2. \A c \in a, d \in b : c.kind # "Chain" => ~SameEnd(c, d)
      BY <1>2, <1>9, <1>10 DEF Apart
    <2>3. QED
      BY <1>9, <2>1, <2>2 DEF Siblings
  <1>14. Emits(n, l, r, a, b, E)
    BY <1>2, <1>3, <1>4, <1>5, <1>6, <1>9, <1>10, <1>12, <1>13 DEF Emits, Places
  <1>15. QED
    BY <1>14

(* A wire for a matched pair: its ends, the chain's from child 0.          *)
WireFor(w, x, y, o, i) ==
  /\ (o = x /\ i = y) \/ (o = y /\ i = x)
  /\ w.kind = (x.kind = "Chain") /\ w.name = x.name /\ w.out = Of(o) /\ w.in = Of(i)
  /\ w.buf = <<o.rout, i.rin>>
  /\ IF x.kind = "Chain" THEN o = x ELSE IsOut(o)

LEMMA WireForIs ==
  ASSUME NEW x, NEW y, x # y, ChannelMatches(x, y) \/ ChainMatches(x, y)
  PROVE  \E o, i : WireFor(Wire(x, y), x, y, o, i)
  <1>1. PICK o : o = IF x.kind = "Chain" \/ IsOut(x) THEN x ELSE y
    OBVIOUS
  <1>2. PICK i : i = IF o = x THEN y ELSE x
    OBVIOUS
  <1>3. PICK d : d = (x.kind = "Chain")
    OBVIOUS
  <1>4. Wire(x, y) = [kind |-> d, name |-> x.name, out |-> Of(o), in |-> Of(i), buf |-> <<o.rout, i.rin>>]
    BY <1>1, <1>2, <1>3 DEF Wire
  <1>5. /\ Wire(x, y).kind = d /\ Wire(x, y).name = x.name /\ Wire(x, y).out = Of(o)
        /\ Wire(x, y).in = Of(i) /\ Wire(x, y).buf = <<o.rout, i.rin>>
    BY <1>4
  <1>6. (o = x /\ i = y) \/ (o = y /\ i = x)
    BY <1>1, <1>2
  <1>7. IF x.kind = "Chain" THEN o = x ELSE IsOut(o)
    BY <1>1 DEF ChannelMatches, ChainMatches, IsChannel, IsOut
  <1>8. WireFor(Wire(x, y), x, y, o, i)
    BY <1>3, <1>5, <1>6, <1>7 DEF WireFor
  <1>9. QED
    BY <1>8

LEMMA WireIs ==
  ASSUME NEW l, NEW r, NEW a, NEW b, Siblings(l, r, a, b), NEW q \in MatchedPairs(a, b),
         NEW w, w = Wire(q[1], q[2])
  PROVE  \E x \in a, y \in b, o \in a \cup b, i \in a \cup b :
           /\ x = q[1] /\ y = q[2] /\ ((o = x /\ i = y) \/ (o = y /\ i = x))
           /\ ChannelMatches(x, y) \/ ChainMatches(x, y)
           /\ Connects(w, o, i) /\ w.name = x.name /\ x.name = y.name
           /\ w.kind <=> x.kind = "Chain"
           /\ w.kind <=> y.kind = "Chain"
           /\ w.kind => o = x
  <1>1. PICK x, y : x = q[1] /\ y = q[2]
    OBVIOUS
  <1>2. x \in a /\ y \in b /\ (ChannelMatches(x, y) \/ ChainMatches(x, y))
    BY <1>1, PairsMatch
  <1>3. x # y
    BY <1>2, SiblingsApart
  <1>4. PICK o, i : WireFor(w, x, y, o, i)
    BY <1>1, <1>2, <1>3, WireForIs
  <1>5. /\ (o = x /\ i = y) \/ (o = y /\ i = x)
        /\ w.name = x.name /\ w.out = Of(o) /\ w.in = Of(i)
        /\ w.buf = <<o.rout, i.rin>> /\ (IF x.kind = "Chain" THEN o = x ELSE IsOut(o))
        /\ w.kind <=> x.kind = "Chain"
    BY <1>4 DEF WireFor
  <1>6. x.name = y.name /\ (x.kind = "Chain" <=> y.kind = "Chain")
    BY <1>2 DEF ChannelMatches, ChainMatches, IsChannel
  <1>7. CASE x.kind = "Chain"
    <2>1. Connects(w, o, i)
      BY <1>5, <1>6, <1>7 DEF Connects
    <2>2. QED
      BY <1>1, <1>2, <1>5, <1>6, <1>7, <2>1
  <1>8. CASE x.kind # "Chain"
    <2>1. o.kind = "Send" /\ i.kind = "Recv"
      BY <1>2, <1>5, <1>8 DEF ChannelMatches, ChainMatches, IsChannel, IsOut
    <2>2. Connects(w, o, i)
      BY <1>5, <1>6, <1>8, <2>1 DEF Connects
    <2>3. QED
      BY <1>1, <1>2, <1>5, <1>6, <1>8, <2>2
  <1>9. QED
    BY <1>7, <1>8

LEMMA SoundKept ==
  ASSUME Setting, AllSound, NEW n, NEW l, NEW r, NEW a, NEW b, NEW E, Emits(n, l, r, a, b, E)
  PROVE  AllSound' /\ Sound(n, E)
  <1>1. /\ n \in Places /\ Siblings(l, r, a, b) /\ E = Exposed(n, a, b) /\ prog' = prog
        /\ DOMAIN conns' = DOMAIN conns \cup {n} /\ conns'[n] = E
        /\ \A x \in DOMAIN conns : conns'[x] = conns[x]
    BY DEF Emits
  <1>2. Sound(n, E)
    BY <1>1, ExposedSound
  <1>4. \A x \in DOMAIN conns' : x \in Places /\ Sound(x, conns'[x])
    BY <1>1, <1>2 DEF AllSound
  <1>5. QED
    BY <1>1, <1>2, <1>4 DEF AllSound, Sound, Homed, Logged

LEMMA LeafedKept ==
  ASSUME Leafed, NEW n, NEW l, NEW r, NEW a, NEW b, NEW E, Emits(n, l, r, a, b, E)
  PROVE  Leafed'
  <1>1. /\ prog' = prog /\ n \in Ids
        /\ DOMAIN conns' = DOMAIN conns \cup {n} /\ conns'[n] = E
        /\ \A x \in DOMAIN conns : conns'[x] = conns[x]
    BY DEF Emits
  <1>2. \A m : Leaf(m) # n
    BY <1>1, Kinds DEF Ids
  <1>3. QED
    BY <1>1, <1>2 DEF Leafed

LEMMA ReferredKept ==
  ASSUME Setting, Referred, NEW n, NEW l, NEW r, NEW a, NEW b, NEW E, Emits(n, l, r, a, b, E)
  PROVE  Referred'
  <1>1. /\ n \in Places /\ Siblings(l, r, a, b) /\ E = Exposed(n, a, b) /\ tree' = tree
        /\ DOMAIN conns' = DOMAIN conns \cup {n} /\ conns'[n] = E
        /\ \A x \in DOMAIN conns : conns'[x] = conns[x]
        /\ l = tree[n][1] /\ r = tree[n][2] /\ l \in DOMAIN conns /\ r \in DOMAIN conns
        /\ a = conns[l] /\ b = conns[r] /\ Emitted' = Emitted \cup {n} /\ n \notin DOMAIN conns
    BY DEF Emits, Open
  <1>2. ASSUME NEW c \in E
        PROVE  /\ \E s \in {1, 2} : tree[n][s] \in DOMAIN conns /\ \E x \in conns[tree[n][s]] : InFrom(c, x)
               /\ \E s \in {1, 2} : tree[n][s] \in DOMAIN conns /\ \E x \in conns[tree[n][s]] : OutFrom(c, x)
    <2>1. PICK d \in Raised(a, b) : c = Lift(n, d, a, b)
      BY <1>1, <1>2, ExposedIs
    <2>2. /\ InFrom(c, Upstream(d, a, b)) /\ OutFrom(c, d)
      BY <1>1, <2>1, ExposedIs
    <2>3. d \in a \cup b /\ Upstream(d, a, b) \in a \cup b
      BY <1>1, UpstreamIs
    <2>4. \A x \in a \cup b : \E s \in {1, 2} : tree[n][s] \in DOMAIN conns /\ x \in conns[tree[n][s]]
      BY <1>1
    <2>5. QED
      BY <2>2, <2>3, <2>4
  <1>3. SUFFICES ASSUME NEW m \in Emitted \cup {n}, NEW c \in conns'[m]
                 PROVE  /\ \E s \in {1, 2} : tree[m][s] \in DOMAIN conns' /\ \E x \in conns'[tree[m][s]] : InFrom(c, x)
                        /\ \E s \in {1, 2} : tree[m][s] \in DOMAIN conns' /\ \E x \in conns'[tree[m][s]] : OutFrom(c, x)
    BY <1>1 DEF Referred, InFrom, OutFrom, Of
  <1>4. CASE m = n
    BY <1>1, <1>2, <1>3, <1>4
  <1>5. CASE m \in Emitted
    <2>1. m \in DOMAIN conns /\ c \in conns[m]
      BY <1>1, <1>3, <1>5 DEF Emitted
    <2>2. QED
      BY <1>1, <1>5, <2>1 DEF Referred
  <1>6. QED
    BY <1>3, <1>4, <1>5

(* The wires that are new join connections of the two children.            *)
LEMMA NewWires ==
  ASSUME NEW n, NEW l, NEW r, NEW a, NEW b, NEW E, Emits(n, l, r, a, b, E),
         NEW w \in wires'
  PROVE  w \in wires
           \/ \E x \in a, y \in b, o \in a \cup b, i \in a \cup b :
                /\ ((o = x /\ i = y) \/ (o = y /\ i = x))
                /\ ChannelMatches(x, y) \/ ChainMatches(x, y)
                /\ Connects(w, o, i) /\ w.name = x.name /\ x.name = y.name
                /\ w = Wire(x, y)
                /\ w.kind <=> x.kind = "Chain"
                /\ w.kind <=> y.kind = "Chain"
                /\ w.kind => o = x
  <1>1. Siblings(l, r, a, b) /\ wires' = wires \cup {Wire(q[1], q[2]) : q \in MatchedPairs(a, b)}
    BY DEF Emits
  <1>2. CASE w \notin wires
    <2>1. PICK q \in MatchedPairs(a, b) : w = Wire(q[1], q[2])
      BY <1>1, <1>2
    <2>2. PICK x \in a, y \in b, o \in a \cup b, i \in a \cup b :
           /\ x = q[1] /\ y = q[2] /\ ((o = x /\ i = y) \/ (o = y /\ i = x))
           /\ ChannelMatches(x, y) \/ ChainMatches(x, y)
           /\ Connects(w, o, i) /\ w.name = x.name /\ x.name = y.name
           /\ w.kind <=> x.kind = "Chain"
           /\ w.kind <=> y.kind = "Chain"
           /\ w.kind => o = x
      BY <1>1, <2>1, WireIs
    <2>3. QED
      BY <2>1, <2>2
  <1>3. QED
    BY <1>2

LEMMA WireSoundKept ==
  ASSUME WireSound, NEW n, NEW l, NEW r, NEW a, NEW b, NEW E, Emits(n, l, r, a, b, E)
  PROVE  WireSound'
  <1>1. /\ DOMAIN conns' = DOMAIN conns \cup {n}
        /\ \A x \in DOMAIN conns : conns'[x] = conns[x]
        /\ l \in DOMAIN conns /\ r \in DOMAIN conns /\ a = conns[l] /\ b = conns[r]
    BY DEF Emits, Open
  <1>2. SUFFICES ASSUME NEW w \in wires'
                 PROVE  \E p, q \in DOMAIN conns' : \E o \in conns'[p], i \in conns'[q] : Connects(w, o, i)
    BY DEF WireSound, Connects, Of
  <1>3. \E p, q \in DOMAIN conns : \E o \in conns[p], i \in conns[q] : Connects(w, o, i)
    <2>1. CASE w \in wires
      BY <2>1 DEF WireSound
    <2>2. CASE \E o \in a \cup b, i \in a \cup b : Connects(w, o, i)
      <3>1. \A o \in a \cup b : \E p \in DOMAIN conns : o \in conns[p]
        BY <1>1
      <3>2. QED
        BY <2>2, <3>1
    <2>3. QED
      BY <2>1, <2>2, NewWires
  <1>4. QED
    BY <1>1, <1>3

(* What goes up from a child, and what does not: an end of a channel that  *)
(* is wired.                                                               *)
LEMMA EndsGoUp ==
  ASSUME Setting, NEW n, NEW l, NEW r, NEW a, NEW b, NEW E, Emits(n, l, r, a, b, E),
         NEW c \in a \cup b, c.kind # "Chain"
  PROVE  (\E e \in E : SameEnd(e, c)) \/ (IsChannel(c) /\ \E w \in wires' : ~w.kind /\ w.name = c.name)
  <1>1. /\ n \in Places /\ Siblings(l, r, a, b) /\ E = Exposed(n, a, b)
        /\ wires' = wires \cup {Wire(q[1], q[2]) : q \in MatchedPairs(a, b)}
    BY DEF Emits
  <1>2. CASE c \in Raised(a, b)
    <2>1. Lift(n, c, a, b) \in E /\ OutFrom(Lift(n, c, a, b), c)
      BY <1>1, <1>2, ExposedIs
    <2>2. SameEnd(Lift(n, c, a, b), c)
      BY <2>1 DEF OutFrom, SameEnd
    <2>3. QED
      BY <2>1, <2>2
  <1>3. CASE c \notin Raised(a, b)
    <2>1. IsChannel(c) /\ c.name \in Matched(a, b)
      BY <1>3 DEF Raised, Joins
    <2>2. c.name \in Range(ChanSeq)
      BY <1>1, <2>1, SiblingsApart, LoggedOnce DEF Homed, IsChannel
    <2>3. PICK x \in a, y \in b : ChannelMatches(x, y) /\ x.name = c.name
      BY <1>1, <2>1, <2>2, MatchedIs
    <2>4. PICK q \in MatchedPairs(a, b) : q[1] = x /\ q[2] = y
      <3>1. <<x, y>> \in MatchedPairs(a, b)
        BY <2>3, PairsMatch
      <3>2. <<x, y>>[1] = x /\ <<x, y>>[2] = y
        OBVIOUS
      <3>3. QED
        BY <3>1, <3>2
    <2>5. PICK w : w = Wire(q[1], q[2])
      OBVIOUS
    <2>6. w \in wires'
      BY <1>1, <2>5
    <2>7. (w.kind <=> x.kind = "Chain") /\ w.name = x.name
      BY <1>1, <2>4, <2>5, WireIs
    <2>8. x.kind # "Chain"
      BY <2>3 DEF ChannelMatches, IsChannel
    <2>9. QED
      BY <2>1, <2>3, <2>6, <2>7, <2>8
  <1>4. QED
    BY <1>2, <1>3

LEMMA EndsFrom ==
  ASSUME Setting, NEW n, NEW l, NEW r, NEW a, NEW b, NEW E, Emits(n, l, r, a, b, E), NEW e \in E
  PROVE  \E c \in a \cup b : SameEnd(e, c) /\ c \in Raised(a, b)
  <1>1. n \in Places /\ Siblings(l, r, a, b) /\ E = Exposed(n, a, b)
    BY DEF Emits
  <1>2. PICK c \in Raised(a, b) : e = Lift(n, c, a, b)
    BY <1>1, ExposedIs
  <1>3. OutFrom(e, c)
    BY <1>1, <1>2, ExposedIs
  <1>4. c \in a \cup b
    BY DEF Raised
  <1>5. QED
    BY <1>2, <1>3, <1>4 DEF OutFrom, SameEnd

LEMMA ApartKept ==
  ASSUME Setting, Apart, NEW n, NEW l, NEW r, NEW a, NEW b, NEW E, Emits(n, l, r, a, b, E)
  PROVE  Apart'
  <1>1. /\ Open' = (Open \ {l, r}) \cup {n} /\ l \in Open /\ r \in Open /\ n \notin DOMAIN conns
        /\ conns'[n] = E /\ a = conns[l] /\ b = conns[r]
        /\ \A x \in DOMAIN conns : conns'[x] = conns[x]
    BY DEF Emits
  <1>2. \A x \in Open : x \in DOMAIN conns
    BY DEF Open
  <1>3. ASSUME NEW x \in Open \ {l, r}, NEW c \in conns[x], NEW d \in E, c.kind # "Chain", SameEnd(c, d)
        PROVE  FALSE
    <2>1. PICK e \in a \cup b : SameEnd(d, e)
      BY EndsFrom
    <2>2. SameEnd(c, e)
      BY <1>3, <2>1 DEF SameEnd
    <2>3. e \in conns[l] \/ e \in conns[r]
      BY <1>1
    <2>4. QED
      BY <1>1, <1>3, <2>2, <2>3 DEF Apart
  <1>4. SUFFICES ASSUME NEW x \in (Open \ {l, r}) \cup {n}, NEW y \in (Open \ {l, r}) \cup {n},
                        NEW c \in conns'[x], NEW d \in conns'[y], c.kind # "Chain", SameEnd(c, d)
                 PROVE  x = y
    BY <1>1 DEF Apart, SameEnd
  <1>5. SameEnd(d, c) /\ d.kind # "Chain"
    BY <1>4 DEF SameEnd
  <1>6. CASE x = n /\ y # n
    BY <1>1, <1>2, <1>3, <1>4, <1>5, <1>6
  <1>7. CASE x # n /\ y = n
    BY <1>1, <1>2, <1>3, <1>4, <1>7
  <1>8. CASE x # n /\ y # n
    BY <1>1, <1>2, <1>4, <1>8 DEF Apart
  <1>9. QED
    BY <1>6, <1>7, <1>8

LEMMA KeptKept ==
  ASSUME Setting, Kept, NEW n, NEW l, NEW r, NEW a, NEW b, NEW E, Emits(n, l, r, a, b, E)
  PROVE  Kept'
  <1>1. /\ Open' = (Open \ {l, r}) \cup {n} /\ l \in Open /\ r \in Open /\ n \notin DOMAIN conns
        /\ conns'[n] = E /\ a = conns[l] /\ b = conns[r] /\ prog' = prog
        /\ \A x \in DOMAIN conns : conns'[x] = conns[x]
        /\ wires \subseteq wires'
    BY DEF Emits
  <1>2. \A x \in Open : x \in DOMAIN conns
    BY DEF Open
  <1>3. SUFFICES ASSUME NEW kind \in {"Send", "Recv", "Client", "Server"}, NEW name \in Names, NEW m \in Modules,
                        Logged(kind, name, m)
                 PROVE  \/ \E x \in Open' : \E c \in conns'[x] : c.kind = kind /\ c.name = name /\ c.rout = m
                        \/ kind \in {"Send", "Recv"} /\ \E w \in wires' : ~w.kind /\ w.name = name
    BY <1>1 DEF Kept, Logged, Holds, Wired
  <1>4. CASE kind \in {"Send", "Recv"} /\ Wired(name)
    BY <1>1, <1>4 DEF Wired
  <1>5. ASSUME NEW x \in Open, NEW c \in conns[x], c.kind = kind, c.name = name, c.rout = m
        PROVE  \/ \E y \in Open' : \E d \in conns'[y] : d.kind = kind /\ d.name = name /\ d.rout = m
               \/ kind \in {"Send", "Recv"} /\ \E w \in wires' : ~w.kind /\ w.name = name
    <2>1. CASE x \notin {l, r}
      BY <1>1, <1>2, <1>5, <2>1
    <2>2. CASE x \in {l, r}
      <3>1. c \in a \cup b /\ c.kind # "Chain"
        BY <1>1, <1>5, <2>2
      <3>2. (\E e \in E : SameEnd(e, c)) \/ (IsChannel(c) /\ \E w \in wires' : ~w.kind /\ w.name = c.name)
        BY <3>1, EndsGoUp
      <3>3. QED
        BY <1>1, <1>5, <3>2 DEF SameEnd, IsChannel
    <2>3. QED
      BY <2>1, <2>2
  <1>6. QED
    BY <1>3, <1>4, <1>5 DEF Kept, Holds

LEMMA WiredOnceKept ==
  ASSUME Setting, AllSound, Apart, WiredOnce, NEW n, NEW l, NEW r, NEW a, NEW b, NEW E,
         Emits(n, l, r, a, b, E)
  PROVE  WiredOnce'
  <1>1. /\ Open' = (Open \ {l, r}) \cup {n} /\ l \in Open /\ r \in Open /\ n \notin DOMAIN conns
        /\ conns'[n] = E /\ a = conns[l] /\ b = conns[r] /\ Siblings(l, r, a, b)
        /\ \A x \in DOMAIN conns : conns'[x] = conns[x]
    BY DEF Emits
  <1>2. \A x \in Open : x \in DOMAIN conns
    BY DEF Open
  <1>3. ASSUME NEW w \in wires', ~w.kind, w \notin wires
        PROVE  \E x \in a, y \in b : /\ ChannelMatches(x, y) /\ w.name = x.name /\ w = Wire(x, y)
                                     /\ IsChannel(x) /\ IsChannel(y)
    <2>1. PICK x \in a, y \in b, o \in a \cup b, i \in a \cup b :
            /\ ChannelMatches(x, y) \/ ChainMatches(x, y)
            /\ w.name = x.name /\ w = Wire(x, y)
            /\ w.kind <=> x.kind = "Chain"
      BY <1>3, NewWires
    <2>2. QED
      BY <1>3, <2>1 DEF ChannelMatches, ChainMatches
  <1>4. ASSUME NEW x \in Open \ {l, r}, NEW c \in conns[x], IsChannel(c),
               NEW w \in wires', ~w.kind, w.name = c.name
        PROVE  FALSE
    <2>1. w \notin wires
      BY <1>4 DEF WiredOnce, Wired
    <2>2. PICK u \in a, v \in b : ChannelMatches(u, v) /\ w.name = u.name
      BY <1>3, <1>4, <2>1
    <2>3. c.kind = u.kind \/ c.kind = v.kind
      BY <1>4, <2>2 DEF ChannelMatches, IsChannel
    <2>4. u.name = c.name /\ v.name = c.name
      BY <1>4, <2>2 DEF ChannelMatches
    <2>5. Homed(u) /\ Homed(v) /\ Homed(c)
      BY <1>1, <1>2, <1>4, SiblingsApart DEF AllSound, Sound
    <2>6. SameEnd(c, u) \/ SameEnd(c, v)
      BY <1>4, <2>3, <2>4, <2>5, LoggedOnce DEF Homed, SameEnd, IsChannel
    <2>7. QED
      BY <1>1, <1>4, <2>6 DEF Apart, IsChannel
  <1>5. ASSUME NEW c \in E, IsChannel(c), NEW w \in wires', ~w.kind, w.name = c.name
        PROVE  FALSE
    <2>1. PICK d \in a \cup b : SameEnd(c, d) /\ d \in Raised(a, b)
      BY EndsFrom
    <2>2. IsChannel(d) /\ w.name = d.name
      BY <1>5, <2>1 DEF SameEnd, IsChannel
    <2>3. w \notin wires
      BY <1>1, <1>5, <2>2 DEF WiredOnce, Wired
    <2>4. PICK u \in a, v \in b : ChannelMatches(u, v) /\ w.name = u.name
      BY <1>3, <1>5, <2>3
    <2>5. d.name \in Matched(a, b)
      BY <2>2, <2>4, PairsMatch
    <2>6. QED
      BY <2>1, <2>2, <2>5 DEF Raised, Joins, IsChannel
  <1>6. ASSUME NEW w \in wires', NEW v \in wires', ~w.kind, ~v.kind, w.name = v.name, w \notin wires
        PROVE  w = v
    <2>1. PICK x \in a, y \in b : /\ ChannelMatches(x, y) /\ w.name = x.name /\ w = Wire(x, y)
                                  /\ IsChannel(x) /\ IsChannel(y)
      BY <1>3, <1>6
    <2>2. v \notin wires
      BY <1>1, <1>6, <2>1 DEF WiredOnce, Wired
    <2>3. PICK p \in a, q \in b : /\ ChannelMatches(p, q) /\ v.name = p.name /\ v = Wire(p, q)
                                  /\ IsChannel(p) /\ IsChannel(q)
      BY <1>3, <1>6, <2>2
    <2>4. Rivals(x, p) /\ Rivals(y, q)
      BY <1>6, <2>1, <2>3 DEF Rivals, ChannelMatches
    <2>5. x = p /\ y = q
      BY <1>1, <2>4 DEF Siblings, Sound
    <2>6. QED
      BY <2>1, <2>3, <2>5
  <1>7. \A x \in Open' : \A c \in conns'[x] : IsChannel(c) => ~\E w \in wires' : ~w.kind /\ w.name = c.name
    BY <1>1, <1>2, <1>4, <1>5
  <1>8. \A w, v \in wires' : ~w.kind /\ ~v.kind /\ w.name = v.name => w = v
    <2>1. SUFFICES ASSUME NEW w \in wires', NEW v \in wires', ~w.kind, ~v.kind, w.name = v.name PROVE w = v
      OBVIOUS
    <2>2. CASE w \in wires /\ v \in wires
      BY <2>1, <2>2 DEF WiredOnce
    <2>3. QED
      BY <1>6, <2>1, <2>2
  <1>9. QED
    BY <1>7, <1>8 DEF WiredOnce, Wired, IsChannel

LEMMA BareKept ==
  ASSUME Bare, NEW n, NEW l, NEW r, NEW a, NEW b, NEW E, Emits(n, l, r, a, b, E)
  PROVE  Bare'
  <1>1. /\ n \in Ids /\ DOMAIN conns' = DOMAIN conns \cup {n}
        /\ \A x \in DOMAIN conns : conns'[x] = conns[x]
    BY DEF Emits
  <1>2. \A e : Empty(e) # n
    BY <1>1, Kinds DEF Ids
  <1>3. QED
    BY <1>1, <1>2 DEF Bare

(* Nothing but an empty module is added to the connections.                *)
LEMMA OpenKept ==
  ASSUME Bare, Emitted' = Emitted,
         (conns' = conns /\ tree' = tree) \/ Emitted = {},
         conns' = conns \/ \E e \in Nat : conns' = With(conns, Empty(e), {})
  PROVE  /\ \A x \in DOMAIN conns : x \in DOMAIN conns' /\ conns'[x] = conns[x]
         /\ \A x \in DOMAIN conns' : x \in DOMAIN conns \/ (conns'[x] = {} /\ \E e \in Nat : x = Empty(e))
         /\ \A x \in Open : x \in Open' /\ x \in DOMAIN conns /\ conns'[x] = conns[x]
         /\ \A x \in Open' : x \in Open \/ conns'[x] = {}
  <1>1. /\ \A x \in DOMAIN conns : x \in DOMAIN conns' /\ conns'[x] = conns[x]
        /\ \A x \in DOMAIN conns' : x \in DOMAIN conns \/ (conns'[x] = {} /\ \E e \in Nat : x = Empty(e))
    <2>1. CASE conns' = conns
      BY <2>1
    <2>2. CASE \E e \in Nat : conns' = With(conns, Empty(e), {})
      <3>1. PICK e \in Nat : conns' = With(conns, Empty(e), {})
        BY <2>2
      <3>2. PICK f, g, x : f = conns /\ g = conns' /\ x = Empty(e)
        OBVIOUS
      <3>3. g = With(f, x, {})
        BY <3>1, <3>2
      <3>4. DOMAIN g = DOMAIN f \cup {x} /\ g[x] = {} /\ \A y \in DOMAIN f : y # x => g[y] = f[y]
        BY ONLY <3>3 DEF With
      <3>5. x \in DOMAIN f => f[x] = {}
        BY <3>2 DEF Bare
      <3>6. QED
        BY <3>2, <3>4, <3>5
    <2>3. QED
      BY <2>1, <2>2
  <1>2. /\ \A x \in Open : x \in Open' /\ x \in DOMAIN conns /\ conns'[x] = conns[x]
        /\ \A x \in Open' : x \in Open \/ conns'[x] = {}
    <2>1. CASE conns' = conns /\ tree' = tree
      BY <2>1 DEF Open
    <2>2. CASE Emitted = {}
      BY <1>1, <2>2 DEF Open
    <2>3. QED
      BY <2>1, <2>2
  <1>3. QED
    BY <1>1, <1>2

LEMMA ConnsKept ==
  ASSUME JoinInv, prog' = prog, wires' = wires, Emitted' = Emitted,
         (conns' = conns /\ tree' = tree) \/ Emitted = {},
         conns' = conns \/ \E e \in Nat : conns' = With(conns, Empty(e), {})
  PROVE  AllSound' /\ Leafed' /\ Referred' /\ WireSound' /\ Apart' /\ Kept' /\ WiredOnce' /\ Bare'
  <1>1. AllSound /\ Leafed /\ Referred /\ WireSound /\ Apart /\ Kept /\ WiredOnce /\ Bare
    BY DEF JoinInv
  <1>2. /\ \A x \in DOMAIN conns : x \in DOMAIN conns' /\ conns'[x] = conns[x]
        /\ \A x \in DOMAIN conns' : x \in DOMAIN conns \/ (conns'[x] = {} /\ \E e \in Nat : x = Empty(e))
    BY <1>1, OpenKept
  <1>3. /\ \A x \in Open : x \in Open' /\ x \in DOMAIN conns /\ conns'[x] = conns[x]
        /\ \A x \in Open' : x \in Open \/ conns'[x] = {}
    BY <1>1, OpenKept
  <1>4. AllSound'
    <2>1. \A x : Sound(x, {})
      BY FS_EmptySet DEF Sound
    <2>2. \A x \in DOMAIN conns' : x \in Places /\ Sound(x, conns'[x])
      BY <1>1, <1>2, <2>1 DEF AllSound, Places
    <2>3. QED
      BY <2>2 DEF AllSound, Sound, Homed, Logged
  <1>5. Leafed'
    BY <1>1, <1>2, Kinds DEF Leafed
  <1>6. Referred'
    <2>1. CASE Emitted = {}
      BY <2>1 DEF Referred
    <2>2. CASE conns' = conns /\ tree' = tree
      BY <1>1, <2>2 DEF Referred, InFrom, OutFrom
    <2>3. QED
      BY <2>1, <2>2
  <1>7. WireSound'
    BY <1>1, <1>2 DEF WireSound, Connects
  <1>8. Apart'
    BY <1>1, <1>3 DEF Apart, SameEnd
  <1>9. Kept'
    BY <1>1, <1>3 DEF Kept, Holds, Wired, Logged
  <1>10. WiredOnce'
    BY <1>1, <1>3 DEF WiredOnce, Wired, IsChannel
  <1>11. Bare'
    BY <1>1, <1>2 DEF Bare
  <1>12. QED
    BY <1>4, <1>5, <1>6, <1>7, <1>8, <1>9, <1>10, <1>11

LEMMA JoinInit ==
  ASSUME Init
  PROVE  JoinInv
  <1>1. /\ wires = {} /\ phase = "cut" /\ conns = LeafConns(prog)
    BY DEF Init
  <1>2. Setting
    BY CutInit DEF CutInv
  <1>3. /\ DOMAIN conns = {Leaf(m) : m \in Nodes(prog)}
        /\ \A m \in Nodes(prog) : conns[Leaf(m)] = ParseLog(prog, m)
    BY <1>1 DEF LeafConns, Leaf
  <1>4. Emitted = {}
    BY <1>3, Kinds DEF Emitted, Ids
  <1>5. \A m \in Nodes(prog) : m \in Modules
    BY DEF Nodes
  <1>6. AllSound
    BY <1>2, <1>3, <1>5, LogSound DEF AllSound, Places
  <1>7. Leafed
    BY <1>3, Kinds DEF Leafed
  <1>8. Referred
    BY <1>4 DEF Referred
  <1>9. WireSound /\ TopIs
    BY <1>1 DEF WireSound, TopIs
  <1>10. Open = DOMAIN conns
    BY <1>4 DEF Open
  <1>11. Apart
    <2>1. SUFFICES ASSUME NEW m \in Nodes(prog), NEW k \in Nodes(prog),
                          NEW c \in conns[Leaf(m)], NEW d \in conns[Leaf(k)], c.rout = d.rout
                   PROVE  m = k
      BY <1>3, <1>10 DEF Apart, SameEnd
    <2>2. c.rout = m /\ d.rout = k
      BY <1>2, <1>3, <1>5, LogSound
    <2>3. QED
      BY <2>1, <2>2
  <1>12. Kept
    <2>1. SUFFICES ASSUME NEW kind, NEW name, NEW m \in Modules, Logged(kind, name, m)
                   PROVE  \E x \in Open : \E c \in conns[x] : c.kind = kind /\ c.name = name /\ c.rout = m
      BY DEF Kept, Holds
    <2>2. PICK c \in ParseLog(prog, m) : c.kind = kind /\ c.name = name /\ c.rout = m
      BY <1>2, <2>1, LogSound
    <2>3. m \in Nodes(prog)
      BY <2>2 DEF Nodes
    <2>4. QED
      BY <1>3, <1>10, <2>2, <2>3
  <1>13. WiredOnce
    BY <1>1 DEF WiredOnce, Wired
  <1>14. Bare
    BY <1>3, Kinds DEF Bare
  <1>15. QED
    BY <1>6, <1>7, <1>8, <1>9, <1>11, <1>12, <1>13, <1>14 DEF JoinInv

LEMMA JoinStep ==
  ASSUME JoinInv, EmitInv, CutInv, [Next]_vars
  PROVE  JoinInv'
  <1>1. Setting
    BY DEF CutInv
  <1>2. CASE CutEmpty \/ CutNode
    <2>1. /\ prog' = prog /\ wires' = wires /\ phase = "cut" /\ phase' # "done"
          /\ conns' = conns \/ \E e \in {empties} : conns' = With(conns, Empty(e), {})
      BY <1>2 DEF CutEmpty, CutNode, EndCut
    <2>2. empties \in Nat
      BY DEF CutInv, Grown, Shape, Started
    <2>3. Emitted = {}
      BY <2>1 DEF EmitInv, Phases
    <2>4. Emitted' = {}
      <3>1. \A e : Empty(e) \notin Ids
        BY Kinds DEF Ids
      <3>2. \A x \in DOMAIN conns' : x \in DOMAIN conns \/ \E e : x = Empty(e)
        BY <2>1 DEF With
      <3>3. QED
        BY <2>3, <3>1, <3>2 DEF Emitted
    <2>5. AllSound' /\ Leafed' /\ Referred' /\ WireSound' /\ Apart' /\ Kept' /\ WiredOnce' /\ Bare'
      BY <2>1, <2>2, <2>3, <2>4, ConnsKept
    <2>6. QED
      BY <2>1, <2>5 DEF JoinInv, TopIs
  <1>3. CASE EnterNode \/ FinishFiles \/ UNCHANGED vars
    <2>1. /\ prog' = prog /\ wires' = wires /\ conns' = conns /\ tree' = tree
      BY <1>3 DEF EnterNode, FinishFiles, emitVars, vars
    <2>2. Emitted' = Emitted
      BY <2>1 DEF Emitted
    <2>3. AllSound' /\ Leafed' /\ Referred' /\ WireSound' /\ Apart' /\ Kept' /\ WiredOnce' /\ Bare'
      BY <2>1, <2>2, ConnsKept
    <2>4. TopIs'
      BY <1>3, <2>1 DEF EnterNode, FinishFiles, vars, JoinInv, TopIs, Registered, IsChannel
    <2>5. QED
      BY <2>3, <2>4 DEF JoinInv
  <1>4. CASE EmitNode
    <2>1. Whole
      BY <1>4, WholeTree DEF EmitNode
    <2>2. AllSound /\ Leafed /\ Referred /\ WireSound /\ Apart /\ Kept /\ WiredOnce /\ Bare
      BY DEF JoinInv
    <2>3. PICK n, l, r, a, b, E : Emits(n, l, r, a, b, E)
      BY <1>4, <2>1, <2>2, EmitsIs
    <2>4. AllSound' /\ Leafed' /\ Referred' /\ WireSound' /\ Apart' /\ Kept' /\ WiredOnce' /\ Bare'
      BY <1>1, <2>2, <2>3, SoundKept, LeafedKept, ReferredKept, WireSoundKept, ApartKept, KeptKept,
         WiredOnceKept, BareKept
    <2>5. TopIs'
      BY <2>3 DEF Emits, TopIs
    <2>6. QED
      BY <2>4, <2>5 DEF JoinInv
  <1>5. QED
    BY <1>2, <1>3, <1>4 DEF Next

-----------------------------------------------------------------------------
(***************************************************************************)
(* Down to the leaves.                                                     *)
(***************************************************************************)
EndAt(c, end) == IF end = "in" THEN c.in ELSE c.out
RootAt(c, end) == IF end = "in" THEN c.rin ELSE c.rout
Depth(n) == IF n \in Ids THEN Rank(n) ELSE 0

(* A path of k steps through the wrappers.                                 *)
Path(kind, end, ref, k, g) ==
  g[0] = ref /\ \A i \in 1 .. k : g[i] = Behind(kind, end, g[i - 1])

LEMMA PathThere ==
  ASSUME NEW kind, NEW end, NEW ref, NEW K \in Nat
  PROVE  \E g : Path(kind, end, ref, K, g)
  <1> DEFINE T == {k \in Nat : \E g : Path(kind, end, ref, k, g)}
  <1>1. 0 \in T
    <2>1. PICK g : g = [i \in {0} |-> ref]
      OBVIOUS
    <2>2. Path(kind, end, ref, 0, g)
      BY <2>1 DEF Path
    <2>3. QED
      BY <2>2
  <1>2. ASSUME NEW k \in Nat, k \in T PROVE k + 1 \in T
    <2>1. PICK g : Path(kind, end, ref, k, g)
      BY <1>2
    <2>2. PICK h : h = [i \in 0 .. (k + 1) |-> IF i = k + 1 THEN Behind(kind, end, g[k]) ELSE g[i]]
      OBVIOUS
    <2>3. h[0] = g[0] /\ h[k + 1] = Behind(kind, end, g[k]) /\ \A i \in 0 .. k : h[i] = g[i]
      BY <2>2
    <2>4. ASSUME NEW i \in 1 .. (k + 1) PROVE h[i] = Behind(kind, end, h[i - 1])
      <3>1. CASE i = k + 1
        <4>1. i - 1 = k /\ k \in 0 .. k
          BY <3>1
        <4>2. QED
          BY <2>3, <3>1, <4>1
      <3>2. CASE i \in 1 .. k
        <4>1. i \in 0 .. k /\ i - 1 \in 0 .. k
          BY <3>2
        <4>2. QED
          BY <2>1, <2>3, <3>2, <4>1 DEF Path
      <3>3. QED
        BY <3>1, <3>2
    <2>5. Path(kind, end, ref, k + 1, h)
      BY <2>1, <2>3, <2>4 DEF Path
    <2>6. QED
      BY <2>5
  <1> HIDE DEF T
  <1>3. K \in T
    BY <1>1, <1>2, SetInduction
  <1>4. QED
    BY <1>3 DEF T

LEMMA BeholdPath ==
  ASSUME NEW kind, NEW end, NEW ref, Len(files) \in Nat
  PROVE  \E g : Path(kind, end, ref, Len(files), g) /\ Behold(kind, end, ref) = g[Len(files)]
  <1> DEFINE L == Len(files)
             Descent(g) == g = [k \in 0 .. L |-> IF k = 0 THEN ref ELSE Behind(kind, end, g[k - 1])]
  <1>1. \E g : Descent(g)
    <2>1. PICK g : Path(kind, end, ref, L, g)
      BY PathThere
    <2>2. PICK h : h = [k \in 0 .. L |-> g[k]]
      OBVIOUS
    <2>3. \A k \in 0 .. L : h[k] = IF k = 0 THEN ref ELSE Behind(kind, end, h[k - 1])
      <3>1. TAKE k \in 0 .. L
      <3>2. CASE k = 0
        BY <2>1, <2>2, <3>2 DEF Path
      <3>3. CASE k # 0
        <4>1. k \in 1 .. L /\ k - 1 \in 0 .. L
          BY <3>3
        <4>2. QED
          BY <2>1, <2>2, <3>3, <4>1 DEF Path
      <3>4. QED
        BY <3>2, <3>3
    <2>4. h = [k \in 0 .. L |-> IF k = 0 THEN ref ELSE Behind(kind, end, h[k - 1])]
      BY <2>2, <2>3
    <2>5. QED
      BY <2>4
  <1>2. Behold(kind, end, ref) = (CHOOSE g : Descent(g))[L]
    BY DEF Behold
  <1>3. PICK g : g = CHOOSE x : Descent(x)
    OBVIOUS
  <1>4. Descent(g)
    BY <1>1, <1>3
  <1>5. Path(kind, end, ref, L, g)
    BY <1>4 DEF Path
  <1>6. QED
    BY <1>2, <1>3, <1>5

LEMMA BehindIs ==
  ASSUME AllSound, NEW n \in DOMAIN conns, NEW c \in conns[n], NEW end \in {"in", "out"}
  PROVE  Behind(c.kind, end, Of(c)) = EndAt(c, end)
  <1>1. Sound(n, conns[n])
    BY DEF AllSound
  <1>2. c.at = n /\ c \in Conn
    BY <1>1 DEF Sound
  <1>3. Of(c)[1] = n /\ Of(c)[2] = c.idx
    BY <1>2 DEF Of
  <1>4. PICK d : d = CHOOSE x \in conns[Of(c)[1]] : x.kind = c.kind /\ x.idx = Of(c)[2]
    OBVIOUS
  <1>5. d = c
    <2>1. d \in conns[n] /\ d.kind = c.kind /\ d.idx = c.idx
      BY <1>3, <1>4
    <2>2. QED
      BY <1>1, <2>1 DEF Sound
  <1>6. Behind(c.kind, end, Of(c)) = c[end]
    BY <1>4, <1>5 DEF Behind
  <1>7. c["in"] = c.in /\ c["out"] = c.out
    BY <1>2 DEF Conn
  <1>8. QED
    BY <1>6, <1>7 DEF EndAt

(* Same kind, name and root at one end.                                    *)
Like(x, c, end) == x.kind = c.kind /\ x.name = c.name /\ RootAt(x, end) = RootAt(c, end)

LEMMA StepDown ==
  ASSUME JoinInv, EmitInv, Whole, Setting,
         NEW n \in DOMAIN conns, NEW c \in conns[n], NEW end \in {"in", "out"}
  PROVE  /\ Depth(n) \in 0 .. Total
         /\ \E y \in DOMAIN conns : \E x \in conns[y] :
              /\ EndAt(c, end) = Of(x) /\ Like(x, c, end)
              /\ IF Depth(n) = 0 THEN y = n ELSE Depth(y) < Depth(n)
         /\ Depth(n) = 0 => n = Leaf(RootAt(c, end)) /\ RootAt(c, end) \in Nodes(prog)
  <1>1. AllSound /\ Leafed /\ Referred /\ Bare /\ Below
    BY DEF JoinInv, EmitInv
  <1>2. Total \in Nat
    BY DEF Whole
  <1>3. CASE n \in Ids
    <2>1. n \in Emitted
      BY <1>3 DEF Emitted
    <2>2. n \in DOMAIN tree
      BY <1>1, <2>1 DEF Below
    <2>3. Depth(n) = Rank(n) /\ Rank(n) \in 1 .. Total
      BY <1>3, <2>2 DEF Depth, Whole
    <2>4. ASSUME NEW s \in {1, 2}, NEW x \in conns[tree[n][s]], tree[n][s] \in DOMAIN conns
          PROVE  Depth(tree[n][s]) < Depth(n)
      <3>1. CASE tree[n][s] \in Ids
        <4>1. tree[n][s] \in DOMAIN tree
          BY <1>1, <2>4, <3>1 DEF Emitted, Below
        <4>2. \A m : Leaf(m) # tree[n][s] /\ Empty(m) # tree[n][s]
          BY <3>1, Kinds DEF Ids
        <4>3. Rank(tree[n][s]) < Rank(n)
          BY <2>2, <4>2 DEF Whole
        <4>4. QED
          BY <2>3, <3>1, <4>3 DEF Depth
      <3>2. CASE tree[n][s] \notin Ids
        BY <2>3, <3>2 DEF Depth
      <3>3. QED
        BY <3>1, <3>2
    <2>5. \E s \in {1, 2} : tree[n][s] \in DOMAIN conns
             /\ \E x \in conns[tree[n][s]] : EndAt(c, end) = Of(x) /\ Like(x, c, end)
      BY <1>1, <2>1 DEF Referred, InFrom, OutFrom, EndAt, RootAt, Like
    <2>6. QED
      BY <1>2, <2>3, <2>4, <2>5
  <1>4. CASE n \notin Ids
    <2>1. Depth(n) = 0
      BY <1>4 DEF Depth
    <2>2. n \in Places
      BY <1>1 DEF AllSound
    <2>3. PICK m \in Modules : n = Leaf(m)
      BY <1>1, <1>4, <2>2 DEF Places, Bare
    <2>4. m \in Nodes(prog) /\ conns[n] = ParseLog(prog, m)
      BY <1>1, <2>3 DEF Leafed
    <2>5. c.in = Of(c) /\ c.out = Of(c) /\ c.rin = m /\ c.rout = m
      BY <2>3, <2>4, LogSound
    <2>6. EndAt(c, end) = Of(c) /\ RootAt(c, end) = m /\ Like(c, c, end)
      BY <2>5 DEF EndAt, RootAt, Like
    <2>7. 0 \in 0 .. Total
      BY <1>2
    <2>8. QED
      BY <2>1, <2>3, <2>4, <2>6, <2>7
  <1>5. QED
    BY <1>3, <1>4

(* A reference to a connection leads to the leaf its root names.           *)
LEMMA Beheld ==
  ASSUME JoinInv, EmitInv, Whole, Setting, Len(files) = Total,
         NEW n \in DOMAIN conns, NEW c \in conns[n], NEW end \in {"in", "out"}
  PROVE  \E x \in conns[Leaf(RootAt(c, end))] :
           /\ x.kind = c.kind /\ x.name = c.name
           /\ Behold(c.kind, end, Of(c)) = Of(x)
  <1>1. AllSound /\ Total \in Nat
    BY DEF JoinInv, Whole
  <1>2. PICK g : Path(c.kind, end, Of(c), Total, g) /\ Behold(c.kind, end, Of(c)) = g[Total]
    BY <1>1, BeholdPath
  <1>3. g[0] = Of(c) /\ \A i \in 1 .. Total : g[i] = Behind(c.kind, end, g[i - 1])
    BY <1>2 DEF Path
  <1> DEFINE There(k, y, x) == g[k] = Of(x) /\ Like(x, c, end) /\ (Depth(y) = 0 \/ Depth(y) + k <= Total)
             T == {k \in Nat : k <= Total => \E y \in DOMAIN conns : \E x \in conns[y] : There(k, y, x)}
  <1>4. 0 \in T
    <2>1. Like(c, c, end) /\ Depth(n) \in 0 .. Total
      BY StepDown DEF Like
    <2>2. QED
      BY <1>3, <2>1
  <1>5. ASSUME NEW k \in Nat, k \in T PROVE k + 1 \in T
    <2>1. SUFFICES ASSUME k + 1 <= Total
                   PROVE  \E y \in DOMAIN conns : \E x \in conns[y] : There(k + 1, y, x)
      OBVIOUS
    <2>2. k <= Total
      BY <1>1, <2>1
    <2> PICK y \in DOMAIN conns : \E x \in conns[y] : There(k, y, x)
      BY <1>5, <2>2
    <2>3. PICK x \in conns[y] : There(k, y, x)
      OBVIOUS
    <2> PICK z \in DOMAIN conns :
           \E w \in conns[z] : /\ EndAt(x, end) = Of(w) /\ Like(w, x, end)
                               /\ IF Depth(y) = 0 THEN z = y ELSE Depth(z) < Depth(y)
      BY StepDown
    <2>4. PICK w \in conns[z] : /\ EndAt(x, end) = Of(w) /\ Like(w, x, end)
                                /\ IF Depth(y) = 0 THEN z = y ELSE Depth(z) < Depth(y)
      OBVIOUS
    <2>5. Depth(y) \in 0 .. Total /\ Depth(z) \in 0 .. Total
      BY StepDown
    <2>6. g[k + 1] = Behind(c.kind, end, g[k])
      <3>1. k + 1 \in 1 .. Total /\ (k + 1) - 1 = k
        BY <1>1, <2>1
      <3>2. QED
        BY <1>3, <3>1
    <2>7. x.kind = c.kind /\ g[k] = Of(x)
      BY <2>3 DEF Like
    <2>8. Behind(x.kind, end, Of(x)) = EndAt(x, end)
      BY <1>1, BehindIs
    <2>9. g[k + 1] = Of(w) /\ Like(w, c, end)
      BY <2>3, <2>4, <2>6, <2>7, <2>8 DEF Like
    <2>10. Depth(z) = 0 \/ Depth(z) + (k + 1) <= Total
      BY <1>1, <2>3, <2>4, <2>5
    <2>11. QED
      BY <2>9, <2>10
  <1> HIDE DEF There, T
  <1>6. Total \in T
    BY <1>1, <1>4, <1>5, SetInduction
  <1> PICK y \in DOMAIN conns : \E x \in conns[y] : There(Total, y, x)
    BY <1>1, <1>6 DEF T
  <1>7. PICK x \in conns[y] : There(Total, y, x)
    OBVIOUS
  <1>8. g[Total] = Of(x) /\ Like(x, c, end) /\ (Depth(y) = 0 \/ Depth(y) + Total <= Total)
    BY <1>7 DEF There
  <1>9. Depth(y) = 0
    <2>1. Depth(y) \in 0 .. Total
      BY StepDown
    <2>2. QED
      BY <1>1, <1>8, <2>1
  <1>10. y = Leaf(RootAt(x, end))
    BY <1>9, StepDown
  <1>11. QED
    BY <1>2, <1>8, <1>10 DEF Like

LEMMA BeheldLeaf ==
  ASSUME JoinInv, EmitInv, Whole, Setting, Len(files) = Total,
         NEW n \in DOMAIN conns, NEW c \in conns[n], NEW end \in {"in", "out"}
  PROVE  /\ At(Behold(c.kind, end, Of(c))) = RootAt(c, end)
         /\ Behold(c.kind, end, Of(c)) = LeafEnd(c.kind, c.name, RootAt(c, end))
  <1> DEFINE m == RootAt(c, end)
  <1>1. PICK x \in conns[Leaf(m)] : /\ x.kind = c.kind /\ x.name = c.name
                                    /\ Behold(c.kind, end, Of(c)) = Of(x)
    BY Beheld
  <1>2. AllSound /\ Leafed /\ Homed(c) /\ c \in Conn
    BY DEF JoinInv, AllSound, Sound
  <1>3. m \in Modules
    BY <1>2 DEF Conn, RootAt
  <1>4. Logged(c.kind, c.name, m)
    BY <1>2 DEF Homed, RootAt
  <1> HIDE DEF m
  <1>5. m \in Nodes(prog)
    <2>1. \E d \in ParseLog(prog, m) : d.kind = c.kind /\ d.name = c.name
      BY <1>3, <1>4, LogSound
    <2>2. QED
      BY <1>3, <2>1 DEF Nodes
  <1>6. Leaf(m) \in DOMAIN conns /\ conns[Leaf(m)] = ParseLog(prog, m)
    BY <1>2, <1>5 DEF Leafed
  <1>7. Sound(Leaf(m), conns[Leaf(m)]) /\ \A d \in conns[Leaf(m)] : d.rout = m
    BY <1>3, <1>6, LogSound
  <1>8. PICK d : d = CHOOSE z \in conns[Leaf(m)] : z.kind = c.kind /\ z.name = c.name
    OBVIOUS
  <1>9. d \in conns[Leaf(m)] /\ d.kind = c.kind /\ d.name = c.name
    BY <1>1, <1>8
  <1>10. d = x
    <2>1. SameEnd(d, x)
      BY <1>1, <1>7, <1>9 DEF SameEnd
    <2>2. QED
      BY <1>1, <1>7, <1>9, <2>1 DEF Sound, Rivals
  <1>11. LeafEnd(c.kind, c.name, m) = Of(x)
    BY <1>8, <1>10 DEF LeafEnd
  <1>12. At(Of(x)) = m
    <2>1. x.at = Leaf(m)
      BY <1>1, <1>7 DEF Sound
    <2>2. QED
      BY <2>1 DEF At, Of, Leaf
  <1>13. QED
    BY <1>1, <1>11, <1>12 DEF m

-----------------------------------------------------------------------------
(***************************************************************************)
(* The program when it is built.                                           *)
(***************************************************************************)
Built == JoinInv /\ EmitInv /\ Whole /\ Setting /\ Len(files) = Total /\ phase = "done"
         /\ Root \in DOMAIN conns /\ top \subseteq conns[Root] /\ top = Registered(conns[Root])
         /\ Emitted = DOMAIN tree

LEMMA BuiltIs ==
  ASSUME JoinInv, EmitInv, CutInv, phase = "done"
  PROVE  Built
  <1>1. Whole /\ Setting
    BY WholeTree DEF CutInv
  <1>2. Len(files) = Total
    BY DEF EmitInv, Written
  <1>3. Emitted = DOMAIN tree /\ Root \in DOMAIN conns
    BY <1>1, AllEmitted DEF Whole, Emitted
  <1>4. top = Registered(conns[Root])
    BY DEF JoinInv, TopIs
  <1>5. top \subseteq conns[Root]
    BY <1>4 DEF Registered
  <1>6. QED
    BY <1>1, <1>2, <1>3, <1>4, <1>5 DEF Built

(* What a wire joins, down in the leaves.                                  *)
LEMMA WireEndsAre ==
  ASSUME Built, NEW w \in wires
  PROVE  \E k, j, m, x : /\ WireEnds(w) = <<LeafEnd(k, w.name, m), LeafEnd(j, w.name, x)>>
                         /\ w.buf = <<m, x>>
                         /\ At(LeafEnd(k, w.name, m)) = m /\ At(LeafEnd(j, w.name, x)) = x
                         /\ Logged(k, w.name, m) /\ Logged(j, w.name, x)
                         /\ IF w.kind THEN k = "Chain" /\ j = "Chain" ELSE k = "Send" /\ j = "Recv"
  <1>1. JoinInv /\ EmitInv /\ Whole /\ Setting /\ Len(files) = Total /\ WireSound /\ AllSound
    BY DEF Built, JoinInv
  <1> PICK p, q \in DOMAIN conns : \E o \in conns[p], i \in conns[q] : Connects(w, o, i)
    BY <1>1 DEF WireSound
  <1>2. PICK o \in conns[p], i \in conns[q] : Connects(w, o, i)
    OBVIOUS
  <1>3. /\ w.name = o.name /\ w.name = i.name /\ w.out = Of(o) /\ w.in = Of(i)
        /\ w.buf = <<o.rout, i.rin>>
        /\ IF w.kind THEN o.kind = "Chain" /\ i.kind = "Chain" ELSE o.kind = "Send" /\ i.kind = "Recv"
    BY <1>2 DEF Connects
  <1>4. /\ At(Behold(o.kind, "out", Of(o))) = RootAt(o, "out")
        /\ Behold(o.kind, "out", Of(o)) = LeafEnd(o.kind, o.name, RootAt(o, "out"))
    BY <1>1, BeheldLeaf
  <1>5. /\ At(Behold(i.kind, "in", Of(i))) = RootAt(i, "in")
        /\ Behold(i.kind, "in", Of(i)) = LeafEnd(i.kind, i.name, RootAt(i, "in"))
    BY <1>1, BeheldLeaf
  <1>6. RootAt(o, "out") = o.rout /\ RootAt(i, "in") = i.rin
    BY DEF RootAt
  <1>7. Logged(o.kind, o.name, o.rout) /\ Logged(i.kind, i.name, i.rin)
    BY <1>1 DEF AllSound, Sound, Homed
  <1>8. WireEnds(w) = <<Behold(o.kind, "out", Of(o)), Behold(i.kind, "in", Of(i))>>
    BY <1>3 DEF WireEnds
  <1>9. QED
    BY <1>3, <1>4, <1>5, <1>6, <1>7, <1>8

LEMMA BuffersRight ==
  ASSUME Built
  PROVE  BuffersFollowRoots
  <1>1. ASSUME NEW w \in wires PROVE w.buf = <<At(WireEnds(w)[1]), At(WireEnds(w)[2])>>
    <2>1. PICK k, j, m, x : /\ WireEnds(w) = <<LeafEnd(k, w.name, m), LeafEnd(j, w.name, x)>>
                            /\ w.buf = <<m, x>>
                            /\ At(LeafEnd(k, w.name, m)) = m /\ At(LeafEnd(j, w.name, x)) = x
      BY WireEndsAre
    <2>2. QED
      BY <2>1
  <1>2. ASSUME NEW c \in top PROVE c.rin = At(TopEnd(c, "in")) /\ c.rout = At(TopEnd(c, "out"))
    <2>1. Root \in DOMAIN conns /\ c \in conns[Root]
      BY DEF Built
    <2>2. /\ At(Behold(c.kind, "in", Of(c))) = RootAt(c, "in")
          /\ At(Behold(c.kind, "out", Of(c))) = RootAt(c, "out")
      BY <2>1, BeheldLeaf DEF Built
    <2>3. QED
      BY <2>2 DEF TopEnd, RootAt
  <1>3. QED
    BY <1>1, <1>2 DEF BuffersFollowRoots

(* Only the root has not been joined to anything.                          *)
LEMMA RootOpen ==
  ASSUME Built
  PROVE  /\ Root \in Open
         /\ \A x \in Open : conns[x] # {} => x = Root
  <1>1. /\ Emitted = DOMAIN tree /\ Root \in DOMAIN conns /\ Whole /\ AllSound /\ Leafed /\ Bare
    BY DEF Built, JoinInv
  <1>2. Root \in Open
    <2>1. SUFFICES ASSUME NEW n \in DOMAIN tree, NEW s \in {1, 2}, tree[n][s] = Root PROVE FALSE
      BY <1>1 DEF Open
    <2>2. Root \in Ids
      BY <1>1 DEF Whole
    <2>3. \A m : Leaf(m) # Root /\ Empty(m) # Root
      BY <2>2, Kinds DEF Ids
    <2>4. Rank(Root) < Rank(n) /\ Rank(n) \in 1 .. Total /\ Rank(Root) = Total /\ Total \in Nat
      BY <1>1, <2>1, <2>3 DEF Whole
    <2>5. QED
      BY <2>4
  <1>3. ASSUME NEW x \in Open, conns[x] # {} PROVE x = Root
    <2>1. x \in DOMAIN conns /\ \A n \in DOMAIN tree, s \in {1, 2} : tree[n][s] # x
      BY <1>1 DEF Open
    <2>2. x \in Places
      BY <1>1, <2>1 DEF AllSound
    <2>3. CASE x \in Ids
      <3>1. x \in DOMAIN tree
        BY <1>1, <2>1, <2>3 DEF Emitted
      <3>2. QED
        BY <1>1, <2>1, <3>1 DEF Whole
    <2>4. CASE \E m \in Modules : x = Leaf(m)
      BY <1>1, <2>1, <2>4 DEF Leafed, Whole
    <2>5. CASE \E e \in Nat : x = Empty(e)
      BY <1>1, <1>3, <2>1, <2>5 DEF Bare
    <2>6. QED
      BY <2>2, <2>3, <2>4, <2>5 DEF Places
  <1>4. QED
    BY <1>2, <1>3

JoinedNames == {c \in Range(ChanSeq) : 0 \notin Range(prog.chan[c])}

LEMMA JoinedIs ==
  ASSUME Setting
  PROVE  \A c \in Range(ChanSeq) : c \in JoinedNames <=> prog.chan[c][1] \in Modules /\ prog.chan[c][2] \in Modules
  <1>1. prog \in Program
    BY TreeAssumption DEF Setting
  <1>2. prog.chan \in [Range(ChanSeq) -> {e \in (0 .. N) \X (0 .. N) : e[1] # e[2] \/ e[1] = 0}]
    BY <1>1 DEF Program
  <1>3. ASSUME NEW c \in Range(ChanSeq)
        PROVE  c \in JoinedNames <=> prog.chan[c][1] \in Modules /\ prog.chan[c][2] \in Modules
    <2>1. PICK e : e = prog.chan[c]
      OBVIOUS
    <2>2. e \in (0 .. N) \X (0 .. N)
      BY <1>2, <2>1
    <2>3. PICK x \in 0 .. N, y \in 0 .. N : e = <<x, y>>
      BY <2>2
    <2>4. DOMAIN e = {1, 2} /\ e[1] = x /\ e[2] = y
      BY <2>3
    <2>5. 0 \in Range(e) <=> x = 0 \/ y = 0
      BY <2>4 DEF Range
    <2>6. (x \in Modules <=> x # 0) /\ (y \in Modules <=> y # 0)
      BY DEF Modules
    <2>7. QED
      BY <2>1, <2>4, <2>5, <2>6 DEF JoinedNames
  <1>4. QED
    BY <1>3

LEMMA JoinedWired ==
  ASSUME Built
  PROVE  /\ \A c \in JoinedNames : Wired(c)
         /\ \A w \in wires : ~w.kind =>
              /\ w.name \in JoinedNames
              /\ WireEnds(w) = <<LeafEnd("Send", w.name, prog.chan[w.name][1]), LeafEnd("Recv", w.name, prog.chan[w.name][2])>>
  <1>1. Setting /\ Kept /\ WiredOnce /\ AllSound /\ Root \in DOMAIN conns
    BY DEF Built, JoinInv
  <1>2. ASSUME NEW c \in JoinedNames PROVE Wired(c)
    <2>1. SUFFICES ASSUME ~Wired(c) PROVE FALSE
      OBVIOUS
    <2>2. c \in Range(ChanSeq) /\ c \in Names /\ prog.chan[c][1] \in Modules /\ prog.chan[c][2] \in Modules
      BY <1>1, JoinedIs DEF JoinedNames, Names
    <2>3. PICK m, k : m = prog.chan[c][1] /\ k = prog.chan[c][2]
      OBVIOUS
    <2>4. Logged("Send", c, m) /\ Logged("Recv", c, k)
      BY <2>2, <2>3 DEF Logged
    <2>5. (\E x \in Open : Holds(x, "Send", c, m)) /\ (\E x \in Open : Holds(x, "Recv", c, k))
      BY <1>1, <2>1, <2>2, <2>3, <2>4 DEF Kept
    <2>6. Holds(Root, "Send", c, m) /\ Holds(Root, "Recv", c, k)
      BY <2>5, RootOpen DEF Holds
    <2>7. PICK d \in conns[Root], e \in conns[Root] :
              d.kind = "Send" /\ e.kind = "Recv" /\ d.name = c /\ e.name = c
      BY <2>6 DEF Holds
    <2>8. Rivals(d, e)
      BY <2>7 DEF Rivals, IsChannel
    <2>9. d = e
      BY <1>1, <2>8 DEF AllSound, Sound
    <2>10. QED
      BY <2>7, <2>9
  <1>3. ASSUME NEW w \in wires, ~w.kind
        PROVE  /\ w.name \in JoinedNames
               /\ WireEnds(w) = <<LeafEnd("Send", w.name, prog.chan[w.name][1]), LeafEnd("Recv", w.name, prog.chan[w.name][2])>>
    <2>1. PICK m, x : /\ WireEnds(w) = <<LeafEnd("Send", w.name, m), LeafEnd("Recv", w.name, x)>>
                      /\ Logged("Send", w.name, m) /\ Logged("Recv", w.name, x)
      BY <1>3, WireEndsAre
    <2>2. /\ w.name \in Range(ChanSeq) /\ prog.chan[w.name][1] = m /\ prog.chan[w.name][2] = x
          /\ m \in Modules /\ x \in Modules
      BY <2>1 DEF Logged
    <2>3. QED
      BY <1>1, <2>1, <2>2, JoinedIs
  <1>4. QED
    BY <1>2, <1>3

LEMMA NamesFinite == IsFiniteSet(Range(ChanSeq)) /\ IsFiniteSet(Range(ChainSeq))
  <1>1. ASSUME NEW q, NEW k \in Nat, \A i, j \in 1 .. k : q[i] = q[j] => i = j,
               NEW R, \A x : x \in R <=> \E i \in 1 .. k : q[i] = x
        PROVE  IsFiniteSet(R)
    <2>1. PICK D : D = 1 .. k
      OBVIOUS
    <2>2. IsFiniteSet(D)
      BY <2>1, FS_Interval
    <2>3. Lists(q, D, R)
      BY <1>1, <2>1 DEF Lists
    <2>4. QED
      BY ONLY <2>2, <2>3, Counted
  <1>2. IsFiniteSet(Range(ChanSeq))
    BY <1>1, SeqNames
  <1>3. IsFiniteSet(Range(ChainSeq))
    BY <1>1, SeqNames
  <1>4. QED
    BY <1>2, <1>3

(* One wire for each channel with two ends.                                *)
LEMMA WiresCounted ==
  ASSUME Built, NEW W, W = {w \in wires : ~w.kind}
  PROVE  Cardinality(W) = Cardinality(JoinedNames)
  <1>1. WiredOnce
    BY DEF Built, JoinInv
  <1>2. PICK J : J = JoinedNames
    OBVIOUS
  <1>3. IsFiniteSet(J)
    <2>1. J \in SUBSET Range(ChanSeq)
      BY <1>2 DEF JoinedNames
    <2>2. QED
      BY <2>1, NamesFinite, FS_Subset
  <1>4. PICK q : q = [c \in J |-> CHOOSE w \in W : w.name = c]
    OBVIOUS
  <1>5. \A c \in J : q[c] \in W /\ q[c].name = c
    <2>1. TAKE c \in J
    <2>2. \E w \in W : w.name = c
      BY <1>2, JoinedWired DEF Wired
    <2>3. QED
      BY <1>4, <2>2
  <1>6. \A w, v \in W : w.name = v.name => w = v
    BY <1>1 DEF WiredOnce
  <1>7. \A w \in W : w.name \in J
    BY <1>2, JoinedWired
  <1>8. Lists(q, J, W)
    BY <1>5, <1>6, <1>7 DEF Lists
  <1>9. Cardinality(W) = Cardinality(J)
    BY ONLY <1>3, <1>8, Counted
  <1>10. QED
    BY <1>2, <1>9

(* The rest of the ends are the root's, each once.                         *)
LEMMA HeldAtRoot ==
  ASSUME Built
  PROVE  /\ \A kind \in {"Send", "Recv", "Client", "Server"} : \A name, m :
              Logged(kind, name, m) /\ (kind \in {"Send", "Recv"} => name \notin JoinedNames)
                => \E c \in conns[Root] : /\ c.kind = kind /\ c.name = name /\ c.rout = m
                                          /\ TopEnd(c, "out") = LeafEnd(kind, name, m)
         /\ \A c \in conns[Root] :
              /\ Logged(c.kind, c.name, c.rout) /\ c.kind \in {"Send", "Recv", "Chain", "Client", "Server"}
              /\ IsChannel(c) => c.name \notin JoinedNames
         /\ \A c, d \in conns[Root] : Rivals(c, d) => c = d
  <1>1. Setting /\ Kept /\ WiredOnce /\ AllSound /\ Root \in DOMAIN conns
    BY DEF Built, JoinInv
  <1>2. Sound(Root, conns[Root])
    BY <1>1 DEF AllSound
  <1>3. ASSUME NEW kind \in {"Send", "Recv", "Client", "Server"}, NEW name, NEW m,
               Logged(kind, name, m), kind \in {"Send", "Recv"} => name \notin JoinedNames
        PROVE  \E c \in conns[Root] : /\ c.kind = kind /\ c.name = name /\ c.rout = m
                                      /\ TopEnd(c, "out") = LeafEnd(kind, name, m)
    <2>1. name \in Names /\ m \in Modules
      BY <1>1, <1>3, LoggedOnce
    <2>2. ~(kind \in {"Send", "Recv"} /\ Wired(name))
      BY <1>3, JoinedWired DEF Wired
    <2>3. \E x \in Open : Holds(x, kind, name, m)
      BY <1>1, <1>3, <2>1, <2>2 DEF Kept
    <2>4. Holds(Root, kind, name, m)
      BY <2>3, RootOpen DEF Holds
    <2>5. PICK c \in conns[Root] : c.kind = kind /\ c.name = name /\ c.rout = m
      BY <2>4 DEF Holds
    <2>6. Behold(c.kind, "out", Of(c)) = LeafEnd(c.kind, c.name, RootAt(c, "out"))
      BY <1>1, BeheldLeaf DEF Built
    <2>7. TopEnd(c, "out") = LeafEnd(kind, name, m)
      BY <2>5, <2>6 DEF TopEnd, RootAt
    <2>8. QED
      BY <2>5, <2>7
  <1>4. ASSUME NEW c \in conns[Root]
        PROVE  /\ Logged(c.kind, c.name, c.rout) /\ c.kind \in {"Send", "Recv", "Chain", "Client", "Server"}
               /\ IsChannel(c) => c.name \notin JoinedNames
    <2>1. Homed(c) /\ c \in Conn
      BY <1>2 DEF Sound
    <2>2. IsChannel(c) => ~Wired(c.name)
      BY <1>1, RootOpen DEF WiredOnce
    <2>3. QED
      BY <2>1, <2>2, JoinedWired DEF Homed, Conn
  <1>5. QED
    BY <1>2, <1>3, <1>4 DEF Sound

ChanEnd(kind, name) == prog.chan[name][IF kind = "Send" THEN 1 ELSE 2]
OpenEnds == {e \in {"Send", "Recv"} \X (Range(ChanSeq) \ JoinedNames) : ChanEnd(e[1], e[2]) # 0}

LEMMA ChanEndIs ==
  ASSUME Setting
  PROVE  \A kind \in {"Send", "Recv"}, name \in Range(ChanSeq) :
           /\ ChanEnd(kind, name) # 0 => Logged(kind, name, ChanEnd(kind, name))
           /\ \A m : Logged(kind, name, m) => m = ChanEnd(kind, name) /\ m # 0
  <1>1. \A m : m \in Modules <=> m \in 0 .. N /\ m # 0
    BY DEF Modules
  <1>2. ASSUME NEW name \in Range(ChanSeq), NEW kind \in {"Send", "Recv"}
        PROVE  ChanEnd(kind, name) \in 0 .. N
    BY ProgramIs DEF ChanEnd
  <1>3. QED
    BY <1>1, <1>2 DEF ChanEnd, Logged

LEMMA LeftCounted ==
  ASSUME Built, NEW L, L = {c \in conns[Root] : c.kind # "Chain"}
  PROVE  Cardinality(L) = Cardinality(OpenEnds) + Cardinality(prog.client)
                            + (IF prog.server = 0 THEN 0 ELSE 1)
  <1>1. Setting /\ Sound(Root, conns[Root])
    BY DEF Built, JoinInv, AllSound
  <1>2. IsFiniteSet(L)
    <2>1. L \in SUBSET conns[Root] /\ IsFiniteSet(conns[Root])
      BY <1>1 DEF Sound
    <2>2. QED
      BY <2>1, FS_Subset
  <1>3. PICK A, B, C : /\ A = {c \in L : IsChannel(c)} /\ B = {c \in L : c.kind = "Client"}
                       /\ C = {c \in L : c.kind = "Server"}
    OBVIOUS
  <1>4. /\ A \in SUBSET L /\ B \in SUBSET L /\ C \in SUBSET L
        /\ L = (A \cup B) \cup C /\ A \cap B = {} /\ (A \cup B) \cap C = {}
    BY <1>3, HeldAtRoot DEF IsChannel
  <1>5. IsFiniteSet(A) /\ IsFiniteSet(B) /\ IsFiniteSet(C)
    BY <1>2, <1>4, FS_Subset
  <1>6. /\ Cardinality(L) = Cardinality(A) + Cardinality(B) + Cardinality(C)
    <2>1. /\ IsFiniteSet(A \cup B)
          /\ Cardinality(A \cup B) = Cardinality(A) + Cardinality(B) - Cardinality(A \cap B)
      BY <1>5, FS_Union
    <2>2. PICK D : D = A \cup B
      OBVIOUS
    <2>3. Cardinality(D \cup C) = Cardinality(D) + Cardinality(C) - Cardinality(D \cap C)
      BY <1>5, <2>1, <2>2, FS_Union
    <2>4. Cardinality(A) \in Nat /\ Cardinality(B) \in Nat /\ Cardinality(C) \in Nat
      BY <1>5, FS_CardinalityType
    <2>5. Cardinality(A \cap B) = 0 /\ Cardinality(D \cap C) = 0
      BY <1>4, <2>2, FS_EmptySet
    <2>6. Cardinality(L) = Cardinality(D \cup C)
      BY <1>4, <2>2
    <2>7. Cardinality(D) = Cardinality(A \cup B)
      BY <2>2
    <2>8. QED
      BY ONLY <2>1, <2>3, <2>4, <2>5, <2>6, <2>7
  <1>7. Cardinality(A) = Cardinality(OpenEnds)
    <2>1. PICK q : q = [c \in A |-> <<c.kind, c.name>>]
      OBVIOUS
    <2>2. \A c \in A : q[c] = <<c.kind, c.name>> /\ q[c][1] = c.kind /\ q[c][2] = c.name
      BY <2>1
    <2>3. ASSUME NEW c \in A PROVE q[c] \in OpenEnds
      <3>1. c \in conns[Root] /\ IsChannel(c)
        BY <1>3
      <3>2. Logged(c.kind, c.name, c.rout) /\ c.name \notin JoinedNames /\ c.kind \in {"Send", "Recv"}
        BY <3>1, HeldAtRoot DEF IsChannel
      <3>3. c.name \in Range(ChanSeq)
        BY <1>1, <3>2, LoggedOnce
      <3>4. ChanEnd(c.kind, c.name) # 0
        BY <1>1, <3>2, <3>3, ChanEndIs
      <3>5. PICK k, name, e : k = c.kind /\ name = c.name /\ e = <<k, name>>
        OBVIOUS
      <3>6. e \in {"Send", "Recv"} \X (Range(ChanSeq) \ JoinedNames) /\ e[1] = k /\ e[2] = name
        BY <3>2, <3>3, <3>5
      <3>7. e \in OpenEnds
        BY <3>4, <3>5, <3>6 DEF OpenEnds
      <3>8. QED
        BY <2>2, <3>5, <3>7
    <2>4. ASSUME NEW e \in OpenEnds PROVE \E c \in A : q[c] = e
      <3>1. /\ e[1] \in {"Send", "Recv"} /\ e[2] \in Range(ChanSeq) /\ e[2] \notin JoinedNames
            /\ ChanEnd(e[1], e[2]) # 0 /\ e = <<e[1], e[2]>>
        BY DEF OpenEnds
      <3>2. Logged(e[1], e[2], ChanEnd(e[1], e[2]))
        BY <1>1, <3>1, ChanEndIs
      <3>3. PICK c \in conns[Root] : c.kind = e[1] /\ c.name = e[2]
        BY <3>1, <3>2, HeldAtRoot
      <3>4. c \in A
        BY <1>3, <3>1, <3>3 DEF IsChannel
      <3>5. QED
        BY <2>2, <3>1, <3>3, <3>4
    <2>5. ASSUME NEW c \in A, NEW d \in A, q[c] = q[d] PROVE c = d
      <3>1. c.kind = d.kind /\ c.name = d.name /\ IsChannel(c) /\ IsChannel(d)
        BY <1>3, <2>2, <2>5
      <3>2. QED
        BY <1>3, <3>1, HeldAtRoot DEF Rivals
    <2>6. PICK R : R = OpenEnds
      OBVIOUS
    <2>7. Lists(q, A, R)
      BY <2>3, <2>4, <2>5, <2>6 DEF Lists
    <2>8. Cardinality(R) = Cardinality(A)
      BY ONLY <1>5, <2>7, Counted
    <2>9. QED
      BY <2>6, <2>8
  <1>8. Cardinality(B) = Cardinality(prog.client)
    <2>1. PICK q, R : q = [c \in B |-> c.rout] /\ R = prog.client
      OBVIOUS
    <2>2. \A c \in B : q[c] = c.rout /\ c \in conns[Root] /\ c.kind = "Client" /\ Logged(c.kind, c.name, c.rout)
      BY <1>3, <2>1, HeldAtRoot
    <2>3. \A c \in B : q[c] \in R /\ c.name = ServiceName
      BY <2>1, <2>2 DEF Logged
    <2>4. ASSUME NEW m \in R PROVE \E c \in B : q[c] = m
      <3>1. Logged("Client", ServiceName, m)
        BY <1>1, <2>1, ProgramIs DEF Logged
      <3>2. PICK c \in conns[Root] : c.kind = "Client" /\ c.rout = m
        BY <3>1, HeldAtRoot
      <3>3. c \in B
        BY <1>3, <3>2
      <3>4. QED
        BY <2>1, <3>2, <3>3
    <2>5. \A c, d \in B : q[c] = q[d] => c = d
      BY <2>2, <2>3, HeldAtRoot DEF Rivals, SameEnd
    <2>6. Lists(q, B, R)
      BY <2>3, <2>4, <2>5 DEF Lists
    <2>7. Cardinality(R) = Cardinality(B)
      BY ONLY <1>5, <2>6, Counted
    <2>8. QED
      BY <2>1, <2>7
  <1>9. Cardinality(C) = IF prog.server = 0 THEN 0 ELSE 1
    <2>1. \A c \in C : c \in conns[Root] /\ c.kind = "Server" /\ c.name = ServiceName
                       /\ c.rout = prog.server /\ c.rout \in Modules
      BY <1>3, HeldAtRoot DEF Logged
    <2>2. prog.server \in Modules <=> prog.server # 0
      BY <1>1, ProgramIs DEF Modules
    <2>3. CASE prog.server = 0
      <3>1. C = {}
        BY <2>1, <2>2, <2>3
      <3>2. QED
        BY <2>3, <3>1, FS_EmptySet
    <2>4. CASE prog.server # 0
      <3>1. Logged("Server", ServiceName, prog.server)
        BY <2>2, <2>4 DEF Logged
      <3>2. PICK c \in conns[Root] : c.kind = "Server"
        BY <3>1, HeldAtRoot
      <3>3. c \in C
        BY <1>3, <3>2
      <3>4. \A d \in C : d = c
        BY <2>1, <3>3, HeldAtRoot DEF Rivals, SameEnd
      <3>5. C = {c}
        BY <3>3, <3>4
      <3>6. QED
        BY <2>4, <3>5, FS_Singleton
    <2>5. QED
      BY <2>3, <2>4
  <1>10. QED
    BY <1>6, <1>7, <1>8, <1>9

LEMMA EndsRight ==
  ASSUME Built
  PROVE  EveryEndConnected
  <1> DEFINE joined == {c \in Range(ChanSeq) : 0 \notin Range(prog.chan[c])}
             wired == {w \in wires : ~w.kind}
             left == {c \in top : c.kind # "Chain"}
             ends == {e \in {"Send", "Recv"} \X (Range(ChanSeq) \ joined) :
                        prog.chan[e[2]][IF e[1] = "Send" THEN 1 ELSE 2] # 0}
             Registers(kind, name, m) ==
               \E c \in left : /\ c.kind = kind /\ c.name = name
                               /\ TopEnd(c, "out") = LeafEnd(kind, name, m) /\ c.rout = m
  <1>1. joined = JoinedNames /\ ends = OpenEnds
    BY DEF JoinedNames, OpenEnds, ChanEnd
  <1>2. Setting /\ top = Registered(conns[Root])
    BY DEF Built
  <1>3. Cardinality(wired) = Cardinality(joined)
    BY <1>1, WiresCounted
  <1>4. ASSUME NEW c \in joined
        PROVE  \E w \in wired : WireEnds(w) = <<LeafEnd("Send", c, prog.chan[c][1]), LeafEnd("Recv", c, prog.chan[c][2])>>
    <2>1. PICK w \in wires : ~w.kind /\ w.name = c
      BY <1>1, <1>4, JoinedWired DEF Wired
    <2>2. QED
      BY <2>1, JoinedWired
  <1>5. ASSUME top # {}
        PROVE  /\ \A e \in ends : Registers(e[1], e[2], prog.chan[e[2]][IF e[1] = "Send" THEN 1 ELSE 2])
               /\ \A m \in prog.client : Registers("Client", ServiceName, m)
               /\ prog.server # 0 => Registers("Server", ServiceName, prog.server)
               /\ Cardinality(left) = Cardinality(ends) + Cardinality(prog.client)
                                        + (IF prog.server = 0 THEN 0 ELSE 1)
    <2>1. top = conns[Root]
      BY <1>2, <1>5 DEF Registered
    <2>2. ASSUME NEW kind \in {"Send", "Recv", "Client", "Server"}, NEW name, NEW m,
                 Logged(kind, name, m), kind \in {"Send", "Recv"} => name \notin JoinedNames
          PROVE  Registers(kind, name, m)
      <3>1. PICK c \in conns[Root] : /\ c.kind = kind /\ c.name = name /\ c.rout = m
                                     /\ TopEnd(c, "out") = LeafEnd(kind, name, m)
        BY <2>2, HeldAtRoot
      <3>2. c \in left
        BY <2>1, <2>2, <3>1
      <3>3. QED
        BY <3>1, <3>2
    <2>3. Cardinality(left) = Cardinality(ends) + Cardinality(prog.client)
                                + (IF prog.server = 0 THEN 0 ELSE 1)
      BY <1>1, <2>1, LeftCounted
    <2> HIDE DEF Registers, left
    <2>4. ASSUME NEW e \in OpenEnds PROVE Registers(e[1], e[2], ChanEnd(e[1], e[2]))
      <3>1. /\ e[1] \in {"Send", "Recv"} /\ e[2] \in Range(ChanSeq) /\ e[2] \notin JoinedNames
            /\ ChanEnd(e[1], e[2]) # 0
        BY DEF OpenEnds
      <3>2. Logged(e[1], e[2], ChanEnd(e[1], e[2]))
        BY <1>2, <3>1, ChanEndIs
      <3>3. QED
        BY <2>2, <3>1, <3>2
    <2>5. \A m \in prog.client : Registers("Client", ServiceName, m)
      <3>1. TAKE m \in prog.client
      <3>2. Logged("Client", ServiceName, m)
        BY <1>2, ProgramIs DEF Logged
      <3>3. QED
        BY <2>2, <3>2
    <2>6. prog.server # 0 => Registers("Server", ServiceName, prog.server)
      <3>1. HAVE prog.server # 0
      <3>2. prog.server \in Modules
        BY <1>2, <3>1, ProgramIs DEF Modules
      <3>3. Logged("Server", ServiceName, prog.server)
        BY <3>2 DEF Logged
      <3>4. QED
        BY <2>2, <3>3
    <2>7. QED
      BY <1>1, <2>3, <2>4, <2>5, <2>6 DEF ChanEnd
  <1>6. QED
    BY <1>3, <1>4, <1>5 DEF EveryEndConnected

-----------------------------------------------------------------------------
(***************************************************************************)
(* Chains.  M are the modules on one, X the open modules of the tree that  *)
(* have a part of it; part x goes from fst[x] to lst[x] by the hops H, and *)
(* place and pos say which part a module is on, and where.                 *)
(***************************************************************************)
Thread(M, X, fst, lst, H, pos, place) ==
  /\ \A m \in M : place[m] \in X /\ pos[m] \in Nat /\ 1 <= pos[m] /\ pos[m] <= pos[lst[place[m]]]
  /\ \A x \in X : /\ fst[x] \in M /\ place[fst[x]] = x /\ pos[fst[x]] = 1
                  /\ lst[x] \in M /\ place[lst[x]] = x
  /\ \A u, v \in M : place[u] = place[v] /\ pos[u] = pos[v] => u = v
  /\ \A u, v \in M : <<u, v>> \in H <=> place[u] = place[v] /\ pos[v] = pos[u] + 1
  /\ \A v \in M : pos[v] # 1 => \E u \in M : place[u] = place[v] /\ pos[v] = pos[u] + 1

(* The parts that do not change.                                           *)
OtherParts(X, fst, lst, l, r, n, Y, f, g) ==
  /\ Y = (X \ {l, r}) \cup {n}
  /\ \A x \in X \ {l, r} : f[x] = fst[x] /\ g[x] = lst[x]

(* Two parts are joined, the end of one with the start of the other.       *)
LEMMA ThreadsJoin ==
  ASSUME NEW M, NEW X, NEW fst, NEW lst, NEW H, NEW pos, NEW place,
         Thread(M, X, fst, lst, H, pos, place),
         NEW l \in X, NEW r \in X, l # r, NEW n, n \notin X,
         NEW Y, NEW f, NEW g, OtherParts(X, fst, lst, l, r, n, Y, f, g),
         f[n] = fst[l], g[n] = lst[r],
         NEW K, \A u, v \in M : <<u, v>> \in K <=> <<u, v>> \in H \/ (u = lst[l] /\ v = fst[r])
  PROVE  \E p, q : Thread(M, Y, f, g, K, p, q)
  <1>1. PICK D : D = pos[lst[l]]
    OBVIOUS
  <1>2. /\ \A m \in M : place[m] \in X /\ pos[m] \in Nat /\ 1 <= pos[m] /\ pos[m] <= pos[lst[place[m]]]
        /\ \A x \in X : /\ fst[x] \in M /\ place[fst[x]] = x /\ pos[fst[x]] = 1
                        /\ lst[x] \in M /\ place[lst[x]] = x
        /\ \A u, v \in M : place[u] = place[v] /\ pos[u] = pos[v] => u = v
        /\ \A u, v \in M : <<u, v>> \in H <=> place[u] = place[v] /\ pos[v] = pos[u] + 1
        /\ \A v \in M : pos[v] # 1 => \E u \in M : place[u] = place[v] /\ pos[v] = pos[u] + 1
    BY DEF Thread
  <1>3. /\ D \in Nat /\ D >= 1 /\ \A m \in M : place[m] = l => pos[m] <= D
        /\ \A m \in M : place[m] = r => pos[m] <= pos[lst[r]]
    BY <1>1, <1>2
  <1>4. Y = (X \ {l, r}) \cup {n} /\ \A x \in X \ {l, r} : f[x] = fst[x] /\ g[x] = lst[x]
    BY DEF OtherParts
  <1>5. PICK p : p = [m \in M |-> IF place[m] = r THEN pos[m] + D ELSE pos[m]]
    OBVIOUS
  <1>6. PICK q : q = [m \in M |-> IF place[m] \in {l, r} THEN n ELSE place[m]]
    OBVIOUS
  <1>7. \A m \in M : /\ p[m] = (IF place[m] = r THEN pos[m] + D ELSE pos[m])
                     /\ q[m] = (IF place[m] \in {l, r} THEN n ELSE place[m])
    BY <1>5, <1>6
  <1>8. \A m \in M : /\ place[m] = l => q[m] = n /\ p[m] = pos[m] /\ p[m] <= D
                     /\ place[m] = r => q[m] = n /\ p[m] = pos[m] + D /\ p[m] > D
                     /\ place[m] # l /\ place[m] # r => q[m] = place[m] /\ q[m] # n /\ p[m] = pos[m]
                     /\ pos[m] \in Nat /\ pos[m] >= 1 /\ p[m] \in Nat
    BY <1>2, <1>3, <1>7
  <1>9. ASSUME NEW m \in M
        PROVE  q[m] \in Y /\ p[m] \in Nat /\ 1 <= p[m] /\ p[m] <= p[g[q[m]]]
    <2>1. q[m] \in Y /\ p[m] \in Nat /\ 1 <= p[m]
      <3>1. q[m] \in Y
        <4>1. CASE q[m] = n
          BY <1>4, <4>1
        <4>2. CASE q[m] # n
          <5>1. q[m] = place[m] /\ place[m] \in X \ {l, r}
            BY <1>2, <1>8, <4>2
          <5>2. QED
            BY <1>4, <5>1
        <4>3. QED
          BY <4>1, <4>2
      <3>2. p[m] \in Nat /\ pos[m] \in Nat /\ pos[m] >= 1 /\ (p[m] = pos[m] \/ p[m] = pos[m] + D)
        BY <1>8
      <3>3. QED
        BY <1>3, <3>1, <3>2
    <2>2. lst[r] \in M /\ p[lst[r]] = pos[lst[r]] + D /\ pos[lst[r]] \in Nat
      BY <1>2, <1>8
    <2>3. CASE place[m] = l \/ place[m] = r
      <3>1. g[q[m]] = lst[r]
        <4>1. q[m] = n
          BY <1>8, <2>3
        <4>2. QED
          BY <4>1
      <3>2. p[m] <= pos[lst[r]] + D
        BY <1>3, <1>8, <2>2, <2>3
      <3>3. QED
        BY <2>1, <2>2, <3>1, <3>2
    <2>4. CASE place[m] # l /\ place[m] # r
      <3>1. g[q[m]] = lst[place[m]] /\ lst[place[m]] \in M /\ place[lst[place[m]]] = place[m]
        <4>1. q[m] = place[m] /\ place[m] \in X \ {l, r}
          BY <1>2, <1>8, <2>4
        <4>2. QED
          BY <1>2, <1>4, <4>1
      <3>2. p[lst[place[m]]] = pos[lst[place[m]]]
        BY <1>8, <2>4, <3>1
      <3>3. QED
        BY <1>2, <1>8, <2>1, <2>4, <3>1, <3>2
    <2>5. QED
      BY <2>3, <2>4
  <1>10. ASSUME NEW x \in Y
         PROVE  /\ f[x] \in M /\ q[f[x]] = x /\ p[f[x]] = 1
                /\ g[x] \in M /\ q[g[x]] = x
    <2>1. CASE x = n
      BY <1>2, <1>8, <2>1
    <2>2. CASE x \in X \ {l, r}
      BY <1>2, <1>4, <1>8, <2>2
    <2>3. QED
      BY <1>4, <2>1, <2>2
  <1>11. \A u, v \in M : q[u] = q[v] /\ p[u] = p[v] => u = v
    <2>1. SUFFICES ASSUME NEW u \in M, NEW v \in M, q[u] = q[v], p[u] = p[v] PROVE u = v
      OBVIOUS
    <2>2. place[u] = place[v]
      BY <1>3, <1>8, <2>1
    <2>3. pos[u] = pos[v]
      BY <1>3, <1>8, <2>1, <2>2
    <2>4. QED
      BY <1>2, <2>2, <2>3
  <1>12. \A u, v \in M : <<u, v>> \in K <=> q[u] = q[v] /\ p[v] = p[u] + 1
    <2>1. TAKE u \in M, v \in M
    <2>2. <<u, v>> \in K <=> (place[u] = place[v] /\ pos[v] = pos[u] + 1) \/ (u = lst[l] /\ v = fst[r])
      BY <1>2
    <2>3. u = lst[l] /\ v = fst[r] => place[u] = l /\ place[v] = r /\ pos[u] = D /\ pos[v] = 1
      BY <1>1, <1>2
    <2>4. place[u] = l /\ place[v] = r /\ pos[u] = D /\ pos[v] = 1 => u = lst[l] /\ v = fst[r]
      BY <1>1, <1>2
    <2>5. CASE place[u] = place[v]
      <3>1. q[u] = q[v] /\ (p[v] = p[u] + 1 <=> pos[v] = pos[u] + 1)
        BY <1>3, <1>8, <2>5
      <3>2. ~(u = lst[l] /\ v = fst[r])
        BY <2>3, <2>5
      <3>3. QED
        BY <2>2, <2>5, <3>1, <3>2
    <2>6. CASE place[u] = l /\ place[v] = r
      <3>1. q[u] = q[v] /\ pos[u] <= D /\ p[u] = pos[u] /\ p[v] = pos[v] + D /\ pos[v] >= 1
            /\ pos[u] \in Nat /\ pos[v] \in Nat
        BY <1>8, <2>6
      <3>2. p[v] = p[u] + 1 <=> pos[u] = D /\ pos[v] = 1
        BY <1>3, <3>1
      <3>3. QED
        BY <2>2, <2>3, <2>4, <2>6, <3>1, <3>2
    <2>7. CASE place[u] = r /\ place[v] = l
      <3>1. /\ p[v] <= D /\ p[u] > D /\ p[v] \in Nat /\ p[u] \in Nat
        BY <1>8, <2>7
      <3>2. p[v] # p[u] + 1
        BY <1>3, <3>1
      <3>3. QED
        BY <2>2, <2>3, <2>7, <3>2
    <2>8. CASE place[u] # place[v] /\ ~(place[u] \in {l, r} /\ place[v] \in {l, r})
      <3>1. q[u] # q[v]
        BY <1>8, <2>8
      <3>2. QED
        BY <2>2, <2>3, <2>8, <3>1
    <2>9. QED
      BY <2>5, <2>6, <2>7, <2>8
  <1>13. ASSUME NEW v \in M, p[v] # 1 PROVE \E u \in M : q[u] = q[v] /\ p[v] = p[u] + 1
    <2>1. CASE place[v] = r /\ pos[v] = 1
      <3>1. lst[l] \in M /\ place[lst[l]] = l /\ pos[lst[l]] = D
        BY <1>1, <1>2
      <3>2. q[lst[l]] = q[v] /\ p[v] = p[lst[l]] + 1
        BY <1>3, <1>8, <2>1, <3>1
      <3>3. QED
        BY <3>1, <3>2
    <2>2. CASE ~(place[v] = r /\ pos[v] = 1)
      <3>1. pos[v] # 1
        BY <1>8, <1>13, <2>2
      <3>2. PICK u \in M : place[u] = place[v] /\ pos[v] = pos[u] + 1
        BY <1>2, <3>1
      <3>3. q[u] = q[v] /\ p[v] = p[u] + 1
        BY <1>3, <1>8, <3>2
      <3>4. QED
        BY <3>3
    <2>3. QED
      BY <2>1, <2>2
  <1>14. Thread(M, Y, f, g, K, p, q)
    BY <1>9, <1>10, <1>11, <1>12, <1>13 DEF Thread
  <1>15. QED
    BY <1>14

(* One part is raised: it is the wrapper's.                                *)
LEMMA ThreadRaised ==
  ASSUME NEW M, NEW X, NEW fst, NEW lst, NEW H, NEW pos, NEW place,
         Thread(M, X, fst, lst, H, pos, place),
         NEW l \in X, NEW n, n \notin X,
         NEW Y, NEW f, NEW g, OtherParts(X, fst, lst, l, l, n, Y, f, g),
         f[n] = fst[l], g[n] = lst[l],
         NEW K, \A u, v \in M : <<u, v>> \in K <=> <<u, v>> \in H
  PROVE  \E p, q : Thread(M, Y, f, g, K, p, q)
  <1>1. /\ \A m \in M : place[m] \in X /\ pos[m] \in Nat /\ 1 <= pos[m] /\ pos[m] <= pos[lst[place[m]]]
        /\ \A x \in X : /\ fst[x] \in M /\ place[fst[x]] = x /\ pos[fst[x]] = 1
                        /\ lst[x] \in M /\ place[lst[x]] = x
        /\ \A u, v \in M : place[u] = place[v] /\ pos[u] = pos[v] => u = v
        /\ \A u, v \in M : <<u, v>> \in H <=> place[u] = place[v] /\ pos[v] = pos[u] + 1
        /\ \A v \in M : pos[v] # 1 => \E u \in M : place[u] = place[v] /\ pos[v] = pos[u] + 1
    BY DEF Thread
  <1>2. Y = (X \ {l}) \cup {n} /\ \A x \in X \ {l} : f[x] = fst[x] /\ g[x] = lst[x]
    BY DEF OtherParts
  <1>3. PICK q : q = [m \in M |-> IF place[m] = l THEN n ELSE place[m]]
    OBVIOUS
  <1>4. \A m \in M : IF place[m] = l THEN q[m] = n ELSE q[m] = place[m] /\ q[m] # n
    BY <1>1, <1>3
  <1>5. \A u, v \in M : q[u] = q[v] <=> place[u] = place[v]
    BY <1>4
  <1>6. \A m \in M : q[m] \in Y /\ g[q[m]] = lst[place[m]]
    BY <1>1, <1>2, <1>4
  <1>7. \A x \in Y : f[x] \in M /\ q[f[x]] = x /\ pos[f[x]] = 1 /\ g[x] \in M /\ q[g[x]] = x
    BY <1>1, <1>2, <1>4
  <1>8. Thread(M, Y, f, g, K, pos, q)
    <2>1. \A m \in M : q[m] \in Y /\ pos[m] \in Nat /\ 1 <= pos[m] /\ pos[m] <= pos[g[q[m]]]
      BY <1>1, <1>6
    <2>2. \A u, v \in M : q[u] = q[v] /\ pos[u] = pos[v] => u = v
      BY <1>1, <1>5
    <2>3. \A u, v \in M : <<u, v>> \in K <=> q[u] = q[v] /\ pos[v] = pos[u] + 1
      <3>1. TAKE u \in M, v \in M
      <3>2. <<u, v>> \in K <=> <<u, v>> \in H
        OBVIOUS
      <3>3. <<u, v>> \in H <=> place[u] = place[v] /\ pos[v] = pos[u] + 1
        BY <1>1
      <3>4. q[u] = q[v] <=> place[u] = place[v]
        BY <1>5
      <3>5. QED
        BY <3>2, <3>3, <3>4
    <2>4. ASSUME NEW v \in M, pos[v] # 1 PROVE \E u \in M : q[u] = q[v] /\ pos[v] = pos[u] + 1
      <3>1. PICK u \in M : place[u] = place[v] /\ pos[v] = pos[u] + 1
        BY <1>1, <2>4
      <3>2. q[u] = q[v]
        BY <1>5, <3>1
      <3>3. QED
        BY <3>1, <3>2
    <2>5. QED
      BY <1>7, <2>1, <2>2, <2>3, <2>4 DEF Thread
  <1>9. QED
    BY <1>8
-----------------------------------------------------------------------------
(***************************************************************************)
(* Chains and the wrappers.                                                *)
(***************************************************************************)
(* Segment c is part of chain k; the modules with a part of it; the hops   *)
(* that wires W make on it; the roots at the two ends of each part.        *)
Link(c, k) == c.kind = "Chain" /\ c.name = k
OnChain(S, k) == \E c \in S : Link(c, k)
Pieces(O, cs, k) == {x \in O : OnChain(cs[x], k)}
Hops(W, k) == {w.buf : w \in {v \in W : v.kind /\ v.name = k}}
EndsAre(O, cs, k, fst, lst) ==
  \A x \in O : \A c \in cs[x] : Link(c, k) => c.rin = fst[x] /\ c.rout = lst[x]
(* The parts of the chain: every module on it is on one, at its place.     *)
ThreadOf(k, M, O, cs, W) ==
  \E fst, lst, pos, place : /\ Thread(M, Pieces(O, cs, k), fst, lst, Hops(W, k), pos, place)
                            /\ EndsAre(O, cs, k, fst, lst)
Threaded == \A k \in Range(ChainSeq) : ThreadOf(k, prog.chain[k], Open, conns, wires)
HopsOnce == \A w, v \in wires : w.kind /\ v.kind /\ w.name = v.name /\ w.buf = v.buf => w = v
ThreadInv == Threaded /\ HopsOnce

LEMMA HopsAre ==
  ASSUME NEW W, NEW k, NEW h
  PROVE  h \in Hops(W, k) <=> \E w \in W : w.kind /\ w.name = k /\ w.buf = h
  BY DEF Hops

LEMMA LinksApart ==
  ASSUME NEW l, NEW r, NEW a, NEW b, Siblings(l, r, a, b), NEW k
  PROVE  /\ \A c, d \in a : Link(c, k) /\ Link(d, k) => c = d
         /\ \A c, d \in b : Link(c, k) /\ Link(d, k) => c = d
  BY DEF Siblings, Sound, Rivals, Link

LEMMA ChainsUp ==
  ASSUME Setting, NEW n, NEW l, NEW r, NEW a, NEW b, NEW E, Emits(n, l, r, a, b, E),
         NEW k \in Range(ChainSeq)
  PROVE  /\ \A u \in a, v \in b : Link(u, k) /\ Link(v, k) =>
              \E e \in E : Link(e, k) /\ e.rin = u.rin /\ e.rout = v.rout
         /\ \A c \in a \cup b : Link(c, k) /\ ~(OnChain(a, k) /\ OnChain(b, k)) =>
              \E e \in E : Link(e, k) /\ e.rin = c.rin /\ e.rout = c.rout
         /\ OnChain(E, k) => OnChain(a, k) \/ OnChain(b, k)
  <1>1. n \in Places /\ Siblings(l, r, a, b) /\ E = Exposed(n, a, b)
    BY DEF Emits
  <1>2. ASSUME NEW u \in a, NEW v \in b, Link(u, k), Link(v, k)
        PROVE  \E e \in E : Link(e, k) /\ e.rin = u.rin /\ e.rout = v.rout
    <2>1. ChainMatches(u, v) /\ v.kind = "Chain" /\ v.name = k /\ u.name = k
      BY <1>2 DEF Link, ChainMatches
    <2>2. Joins(v, a, b)
      BY <2>1, PairsMatch DEF Joins
    <2>3. v \in Raised(a, b)
      BY <2>2 DEF Raised
    <2>4. PICK w : w = CHOOSE x \in a : x.kind = "Chain" /\ x.name = v.name
      OBVIOUS
    <2>5. w \in a /\ Link(w, k)
      BY <1>2, <2>1, <2>4 DEF Link
    <2>6. Upstream(v, a, b) = u
      BY <1>1, <1>2, <2>2, <2>4, <2>5, LinksApart DEF Upstream
    <2>7. PICK e : e = Lift(n, v, a, b)
      OBVIOUS
    <2>8. e \in E /\ InFrom(e, u) /\ OutFrom(e, v)
      BY <1>1, <2>3, <2>6, <2>7, ExposedIs
    <2>9. QED
      BY <2>1, <2>8 DEF InFrom, OutFrom, Link
  <1>3. ASSUME NEW c \in a \cup b, Link(c, k), ~(OnChain(a, k) /\ OnChain(b, k))
        PROVE  \E e \in E : Link(e, k) /\ e.rin = c.rin /\ e.rout = c.rout
    <2>1. k \notin Matched(a, b)
      BY <1>1, <1>3, MatchedIs DEF OnChain, Link, ChainMatches
    <2>2. ~Joins(c, a, b) /\ c.kind = "Chain" /\ c.name = k
      BY <1>3, <2>1 DEF Joins, Link
    <2>3. c \in Raised(a, b)
      BY <2>2 DEF Raised, IsChannel
    <2>4. Upstream(c, a, b) = c
      BY <2>2 DEF Upstream
    <2>5. PICK e : e = Lift(n, c, a, b)
      OBVIOUS
    <2>6. e \in E /\ InFrom(e, c) /\ OutFrom(e, c)
      BY <1>1, <2>3, <2>4, <2>5, ExposedIs
    <2>7. QED
      BY <2>2, <2>6 DEF InFrom, OutFrom, Link
  <1>4. ASSUME NEW e \in E, Link(e, k) PROVE OnChain(a, k) \/ OnChain(b, k)
    BY <1>4, EndsFrom DEF SameEnd, OnChain, Link
  <1>5. QED
    BY <1>2, <1>3, <1>4 DEF OnChain

LEMMA HopsUp ==
  ASSUME Setting, NEW n, NEW l, NEW r, NEW a, NEW b, NEW E, Emits(n, l, r, a, b, E),
         NEW k, NEW h
  PROVE  h \in Hops(wires', k) <=>
           \/ h \in Hops(wires, k)
           \/ \E u \in a, v \in b : Link(u, k) /\ Link(v, k) /\ h = <<u.rout, v.rin>>
  <1>1. /\ Siblings(l, r, a, b)
        /\ wires' = wires \cup {Wire(q[1], q[2]) : q \in MatchedPairs(a, b)}
    BY DEF Emits
  <1>2. ASSUME NEW w \in wires', w.kind, w.name = k, w.buf = h, w \notin wires
        PROVE  \E u \in a, v \in b : Link(u, k) /\ Link(v, k) /\ h = <<u.rout, v.rin>>
    <2>1. PICK x \in a, y \in b, o \in a \cup b, i \in a \cup b :
                /\ ((o = x /\ i = y) \/ (o = y /\ i = x))
                /\ Connects(w, o, i) /\ w.name = x.name /\ x.name = y.name
                /\ w.kind <=> x.kind = "Chain"
                /\ w.kind <=> y.kind = "Chain"
                /\ w.kind => o = x
      BY <1>2, NewWires
    <2>2. o = x /\ i = y
      BY <1>1, <1>2, <2>1, SiblingsApart
    <2>3. h = <<x.rout, y.rin>>
      BY <1>2, <2>1, <2>2 DEF Connects
    <2>4. Link(x, k) /\ Link(y, k)
      BY <1>2, <2>1 DEF Link
    <2>5. QED
      BY <2>3, <2>4
  <1>3. ASSUME NEW u \in a, NEW v \in b, Link(u, k), Link(v, k), h = <<u.rout, v.rin>>
        PROVE  \E w \in wires' : w.kind /\ w.name = k /\ w.buf = h
    <2>1. ChainMatches(u, v)
      BY <1>3 DEF Link, ChainMatches
    <2>2. PICK q : q = <<u, v>>
      OBVIOUS
    <2>3. q \in MatchedPairs(a, b) /\ q[1] = u /\ q[2] = v
      BY <2>1, <2>2, PairsMatch
    <2>4. PICK w : w = Wire(q[1], q[2])
      OBVIOUS
    <2>5. w \in wires'
      BY <1>1, <2>3, <2>4
    <2>6. PICK o \in a \cup b, i \in a \cup b :
            /\ (o = u /\ i = v) \/ (o = v /\ i = u)
            /\ Connects(w, o, i) /\ w.name = u.name
            /\ w.kind <=> u.kind = "Chain"
            /\ w.kind => o = u
      BY <1>1, <2>3, <2>4, WireIs
    <2>7. w.kind /\ w.name = k
      BY <1>3, <2>6 DEF Link
    <2>8. o = u /\ i = v
      BY <1>1, <2>6, <2>7, SiblingsApart
    <2>9. w.buf = h
      BY <1>3, <2>6, <2>8 DEF Connects
    <2>10. QED
      BY <2>5, <2>7, <2>9
  <1>4. wires \subseteq wires'
    BY <1>1
  <1>5. (h \in Hops(wires', k) <=> \E w \in wires' : w.kind /\ w.name = k /\ w.buf = h)
        /\ (h \in Hops(wires, k) <=> \E w \in wires : w.kind /\ w.name = k /\ w.buf = h)
    BY HopsAre
  <1>6. QED
    BY <1>2, <1>3, <1>4, <1>5

(* The parts of a chain after a wrapper is written.                        *)
LEMMA PiecesUp ==
  ASSUME NEW n, NEW l, NEW r, NEW a, NEW b, NEW E, Emits(n, l, r, a, b, E), NEW k
  PROVE  /\ \A x : x \in Pieces(Open', conns', k) <=>
                     (x \in Pieces(Open, conns, k) \ {l, r} \/ (x = n /\ OnChain(E, k)))
         /\ n \notin Pieces(Open, conns, k) /\ l # r
         /\ l \in Pieces(Open, conns, k) <=> OnChain(a, k)
         /\ r \in Pieces(Open, conns, k) <=> OnChain(b, k)
  <1>1. /\ Open' = (Open \ {l, r}) \cup {n} /\ conns'[n] = E /\ n \notin DOMAIN conns /\ l # r
        /\ \A x \in DOMAIN conns : conns'[x] = conns[x]
        /\ l \in Open /\ r \in Open /\ a = conns[l] /\ b = conns[r]
    BY DEF Emits
  <1>2. \A x \in Open : x \in DOMAIN conns
    BY DEF Open
  <1>3. /\ \A x : x \in Pieces(Open', conns', k) <=> x \in Open' /\ OnChain(conns'[x], k)
        /\ \A x : x \in Pieces(Open, conns, k) <=> x \in Open /\ OnChain(conns[x], k)
    BY DEF Pieces
  <1>4. QED
    BY <1>1, <1>2, <1>3

LEMMA EndsAreUp ==
  ASSUME NEW n, NEW l, NEW r, NEW a, NEW b, NEW E, Emits(n, l, r, a, b, E), NEW k,
         NEW fst, NEW lst, EndsAre(Open, conns, k, fst, lst), NEW f, NEW g,
         \A x \in Pieces(Open, conns, k) \ {l, r} : f[x] = fst[x] /\ g[x] = lst[x],
         \A e \in E : Link(e, k) => e.rin = f[n] /\ e.rout = g[n]
  PROVE  EndsAre(Open', conns', k, f, g)
  <1>1. /\ Open' = (Open \ {l, r}) \cup {n} /\ conns'[n] = E
        /\ \A x \in DOMAIN conns : conns'[x] = conns[x]
    BY DEF Emits
  <1>2. \A x \in Open : x \in DOMAIN conns
    BY DEF Open
  <1>3. ASSUME NEW x \in Open', NEW c \in conns'[x], Link(c, k)
        PROVE  c.rin = f[x] /\ c.rout = g[x]
    <2>1. CASE x = n
      BY <1>1, <1>3, <2>1
    <2>2. CASE x # n
      <3>1. x \in Open \ {l, r} /\ c \in conns[x]
        BY <1>1, <1>2, <1>3, <2>2
      <3>2. x \in Pieces(Open, conns, k) \ {l, r}
        BY <1>3, <3>1 DEF Pieces, OnChain
      <3>3. c.rin = fst[x] /\ c.rout = lst[x]
        BY <1>3, <3>1 DEF EndsAre
      <3>4. QED
        BY <3>2, <3>3
    <2>3. QED
      BY <2>1, <2>2
  <1>4. QED
    BY <1>3 DEF EndsAre

LEMMA ThreadJoined ==
  ASSUME Setting, NEW n, NEW l, NEW r, NEW a, NEW b, NEW E, Emits(n, l, r, a, b, E), Sound(n, E),
         NEW k \in Range(ChainSeq), NEW M, ThreadOf(k, M, Open, conns, wires),
         OnChain(a, k), OnChain(b, k)
  PROVE  ThreadOf(k, M, Open', conns', wires')
  <1>1. PICK X, Y, H, K : /\ X = Pieces(Open, conns, k) /\ Y = Pieces(Open', conns', k)
                          /\ H = Hops(wires, k) /\ K = Hops(wires', k)
    OBVIOUS
  <1>2. PICK fst, lst, pos, place :
               Thread(M, X, fst, lst, H, pos, place) /\ EndsAre(Open, conns, k, fst, lst)
    BY <1>1 DEF ThreadOf
  <1>3. PICK u \in a, v \in b : Link(u, k) /\ Link(v, k)
    BY DEF OnChain
  <1>4. l \in Open /\ r \in Open /\ a = conns[l] /\ b = conns[r] /\ Siblings(l, r, a, b)
    BY DEF Emits
  <1>5. u.rin = fst[l] /\ u.rout = lst[l] /\ v.rin = fst[r] /\ v.rout = lst[r]
    BY <1>2, <1>3, <1>4 DEF EndsAre
  <1>6. PICK e \in E : Link(e, k) /\ e.rin = u.rin /\ e.rout = v.rout
    BY <1>3, ChainsUp
  <1>7. \A d \in E : Link(d, k) => d = e
    BY <1>6 DEF Sound, Rivals, Link
  <1>8. l \in X /\ r \in X /\ l # r /\ n \notin X /\ \A x : x \in Y <=> (x \in X \ {l, r} \/ x = n)
    BY <1>1, <1>6, PiecesUp DEF OnChain
  <1>9. Y = (X \ {l, r}) \cup {n}
    BY <1>8
  <1>10. PICK f, g : /\ f = [x \in Y |-> IF x = n THEN fst[l] ELSE fst[x]]
                     /\ g = [x \in Y |-> IF x = n THEN lst[r] ELSE lst[x]]
    OBVIOUS
  <1>11. /\ f[n] = fst[l] /\ g[n] = lst[r]
         /\ \A x \in X \ {l, r} : f[x] = fst[x] /\ g[x] = lst[x]
    BY <1>8, <1>10
  <1>12. OtherParts(X, fst, lst, l, r, n, Y, f, g)
    BY <1>9, <1>11 DEF OtherParts
  <1>13. \A s, t \in M : <<s, t>> \in K <=> <<s, t>> \in H \/ (s = lst[l] /\ t = fst[r])
    <2>1. TAKE s \in M, t \in M
    <2>2. PICK h : h = <<s, t>>
      OBVIOUS
    <2>3. h \in K <=> h \in H \/ \E x \in a, y \in b : Link(x, k) /\ Link(y, k) /\ h = <<x.rout, y.rin>>
      BY <1>1, HopsUp
    <2>4. \A x \in a, y \in b : Link(x, k) /\ Link(y, k) => x = u /\ y = v
      BY <1>3, <1>4, LinksApart
    <2>5. h = <<u.rout, v.rin>> <=> s = lst[l] /\ t = fst[r]
      BY <1>5, <2>2
    <2>6. QED
      BY <1>3, <2>2, <2>3, <2>4, <2>5
  <1>14. PICK p, q : Thread(M, Y, f, g, K, p, q)
    BY <1>2, <1>8, <1>11, <1>12, <1>13, ThreadsJoin
  <1>15. EndsAre(Open', conns', k, f, g)
    BY <1>1, <1>2, <1>5, <1>6, <1>7, <1>11, EndsAreUp
  <1>16. QED
    BY <1>1, <1>14, <1>15 DEF ThreadOf

LEMMA SameHops ==
  ASSUME Setting, NEW n, NEW l, NEW r, NEW a, NEW b, NEW E, Emits(n, l, r, a, b, E), NEW k,
         ~(OnChain(a, k) /\ OnChain(b, k))
  PROVE  Hops(wires', k) = Hops(wires, k)
  <1>1. \A h : h \in Hops(wires', k) <=> h \in Hops(wires, k)
    BY HopsUp DEF OnChain
  <1>2. QED
    BY <1>1

LEMMA ThreadLifted ==
  ASSUME Setting, NEW n, NEW l, NEW r, NEW a, NEW b, NEW E, Emits(n, l, r, a, b, E), Sound(n, E),
         NEW k \in Range(ChainSeq), NEW M, ThreadOf(k, M, Open, conns, wires),
         ~(OnChain(a, k) /\ OnChain(b, k)), NEW x, NEW c \in conns[x], Link(c, k), x = l \/ x = r
  PROVE  ThreadOf(k, M, Open', conns', wires')
  <1>1. PICK X, Y, H : /\ X = Pieces(Open, conns, k) /\ Y = Pieces(Open', conns', k)
                       /\ H = Hops(wires, k)
    OBVIOUS
  <1>2. PICK fst, lst, pos, place :
               Thread(M, X, fst, lst, H, pos, place) /\ EndsAre(Open, conns, k, fst, lst)
    BY <1>1 DEF ThreadOf
  <1>3. l \in Open /\ r \in Open /\ a = conns[l] /\ b = conns[r] /\ x \in Open /\ c \in a \cup b
    BY DEF Emits
  <1>4. c.rin = fst[x] /\ c.rout = lst[x]
    BY <1>2, <1>3 DEF EndsAre
  <1>5. PICK e \in E : Link(e, k) /\ e.rin = c.rin /\ e.rout = c.rout
    BY <1>3, ChainsUp
  <1>6. \A d \in E : Link(d, k) => d = e
    BY <1>5 DEF Sound, Rivals, Link
  <1>7. x \in X /\ n \notin X /\ \A y : y \in Y <=> (y \in X \ {x} \/ y = n)
    <2>1. /\ \A y : y \in Y <=> (y \in X \ {l, r} \/ y = n)
          /\ n \notin X /\ (l \in X <=> OnChain(a, k)) /\ (r \in X <=> OnChain(b, k))
      BY <1>1, <1>5, PiecesUp DEF OnChain
    <2>2. (x = l => OnChain(a, k)) /\ (x = r => OnChain(b, k))
      BY <1>3 DEF OnChain
    <2>3. \A y \in X : y # x => y # l /\ y # r
      BY <2>1, <2>2
    <2>4. QED
      BY <2>1, <2>2, <2>3
  <1>8. Y = (X \ {x, x}) \cup {n}
    BY <1>7
  <1>9. PICK f, g : /\ f = [y \in Y |-> IF y = n THEN fst[x] ELSE fst[y]]
                    /\ g = [y \in Y |-> IF y = n THEN lst[x] ELSE lst[y]]
    OBVIOUS
  <1>10. /\ f[n] = fst[x] /\ g[n] = lst[x]
         /\ \A y \in X \ {x, x} : f[y] = fst[y] /\ g[y] = lst[y]
    BY <1>7, <1>9
  <1>11. OtherParts(X, fst, lst, x, x, n, Y, f, g)
    BY <1>8, <1>10 DEF OtherParts
  <1>12. PICK p, q : Thread(M, Y, f, g, H, p, q)
    BY <1>2, <1>7, <1>10, <1>11, ThreadRaised
  <1>13. \A y \in X \ {l, r} : f[y] = fst[y] /\ g[y] = lst[y]
    BY <1>10
  <1>14. EndsAre(Open', conns', k, f, g)
    BY <1>1, <1>2, <1>4, <1>5, <1>6, <1>10, <1>13, EndsAreUp
  <1>15. Hops(wires', k) = H
    BY <1>1, SameHops
  <1>16. QED
    BY <1>1, <1>12, <1>14, <1>15 DEF ThreadOf

LEMMA ThreadUntouched ==
  ASSUME Setting, NEW n, NEW l, NEW r, NEW a, NEW b, NEW E, Emits(n, l, r, a, b, E),
         NEW k \in Range(ChainSeq), NEW M, ThreadOf(k, M, Open, conns, wires),
         ~OnChain(a, k), ~OnChain(b, k)
  PROVE  ThreadOf(k, M, Open', conns', wires')
  <1>1. PICK fst, lst, pos, place :
               /\ Thread(M, Pieces(Open, conns, k), fst, lst, Hops(wires, k), pos, place)
               /\ EndsAre(Open, conns, k, fst, lst)
    BY DEF ThreadOf
  <1>2. ~OnChain(E, k)
    BY ChainsUp
  <1>3. Pieces(Open', conns', k) = Pieces(Open, conns, k)
    <2>1. \A x : x \in Pieces(Open', conns', k) <=> x \in Pieces(Open, conns, k)
      BY <1>2, PiecesUp
    <2>2. QED
      BY <2>1
  <1>4. EndsAre(Open', conns', k, fst, lst)
    BY <1>1, <1>2, EndsAreUp DEF OnChain
  <1>5. Hops(wires', k) = Hops(wires, k)
    BY SameHops
  <1>6. QED
    BY <1>1, <1>3, <1>4, <1>5 DEF ThreadOf

LEMMA HopsOnceKept ==
  ASSUME Setting, Threaded, HopsOnce,
         NEW n, NEW l, NEW r, NEW a, NEW b, NEW E, Emits(n, l, r, a, b, E)
  PROVE  HopsOnce'
  <1>1. l \in Open /\ r \in Open /\ a = conns[l] /\ b = conns[r] /\ Siblings(l, r, a, b) /\ l # r
    BY DEF Emits
  <1>2. ASSUME NEW w \in wires', w.kind, w \notin wires
        PROVE  \E u \in a, v \in b : /\ Link(u, w.name) /\ Link(v, w.name) /\ w.buf = <<u.rout, v.rin>>
                                     /\ w = Wire(u, v) /\ w.name \in Range(ChainSeq)
    <2>1. PICK x \in a, y \in b, o \in a \cup b, i \in a \cup b :
                /\ ((o = x /\ i = y) \/ (o = y /\ i = x))
                /\ Connects(w, o, i) /\ w.name = x.name /\ x.name = y.name
                /\ w = Wire(x, y)
                /\ w.kind <=> x.kind = "Chain"
                /\ w.kind <=> y.kind = "Chain"
                /\ w.kind => o = x
      BY <1>2, NewWires
    <2>2. o = x /\ i = y
      BY <1>1, <1>2, <2>1, SiblingsApart
    <2>3. w.buf = <<x.rout, y.rin>>
      BY <2>1, <2>2 DEF Connects
    <2>4. Link(x, w.name) /\ Link(y, w.name)
      BY <1>2, <2>1 DEF Link
    <2>5. Logged(x.kind, x.name, x.rin)
      BY <1>1, SiblingsApart DEF Homed
    <2>6. w.name \in Range(ChainSeq)
      BY <2>4, <2>5 DEF Logged, Link
    <2>7. QED
      BY <2>1, <2>3, <2>4, <2>6
  <1>3. ASSUME NEW w \in wires', NEW v \in wires', w.kind, v.kind, w.name = v.name, w.buf = v.buf,
               w \notin wires
        PROVE  w = v
    <2>1. PICK k : k = w.name
      OBVIOUS
    <2>2. PICK x \in a, y \in b : /\ Link(x, k) /\ Link(y, k) /\ w.buf = <<x.rout, y.rin>>
                                  /\ w = Wire(x, y) /\ k \in Range(ChainSeq)
      BY <1>2, <1>3, <2>1
    <2>3. CASE v \notin wires
      <3>1. PICK s \in a, t \in b : Link(s, k) /\ Link(t, k) /\ v = Wire(s, t)
        BY <1>2, <1>3, <2>1, <2>3
      <3>2. s = x /\ t = y
        BY <1>1, <2>2, <3>1, LinksApart
      <3>3. QED
        BY <2>2, <3>1, <3>2
    <2>4. CASE v \in wires
      <3>1. PICK M, X, H : M = prog.chain[k] /\ X = Pieces(Open, conns, k) /\ H = Hops(wires, k)
        OBVIOUS
      <3>2. PICK fst, lst, pos, place :
                   Thread(M, X, fst, lst, H, pos, place) /\ EndsAre(Open, conns, k, fst, lst)
        BY <2>2, <3>1 DEF Threaded, ThreadOf
      <3>3. x.rout = lst[l] /\ y.rin = fst[r] /\ l \in X /\ r \in X
        BY <1>1, <2>2, <3>1, <3>2 DEF EndsAre, Pieces, OnChain
      <3>4. PICK h : h = <<lst[l], fst[r]>>
        OBVIOUS
      <3>5. h \in H
        <4>1. w.buf = h
          BY <2>2, <3>3, <3>4
        <4>2. v \in wires /\ v.kind /\ v.name = k /\ v.buf = h
          BY <1>3, <2>1, <2>4, <4>1
        <4>3. QED
          BY <3>1, <4>2, HopsAre
      <3>6. /\ lst[l] \in M /\ place[lst[l]] = l /\ fst[r] \in M /\ place[fst[r]] = r
            /\ \A u, z \in M : <<u, z>> \in H <=> place[u] = place[z] /\ pos[z] = pos[u] + 1
        BY <3>2, <3>3 DEF Thread
      <3>7. QED
        BY <1>1, <3>4, <3>5, <3>6
    <2>5. QED
      BY <2>3, <2>4
  <1>4. SUFFICES ASSUME NEW w \in wires', NEW v \in wires', w.kind, v.kind, w.name = v.name, w.buf = v.buf
                 PROVE  w = v
    BY DEF HopsOnce
  <1>5. CASE w \in wires /\ v \in wires
    BY <1>4, <1>5 DEF HopsOnce
  <1>6. QED
    BY <1>3, <1>4, <1>5

LEMMA ThreadedUp ==
  ASSUME Setting, Threaded,
         NEW n, NEW l, NEW r, NEW a, NEW b, NEW E, Emits(n, l, r, a, b, E), Sound(n, E)
  PROVE  Threaded'
  <1>1. prog' = prog /\ a = conns[l] /\ b = conns[r]
    BY DEF Emits
  <1>2. ASSUME NEW k \in Range(ChainSeq) PROVE ThreadOf(k, prog.chain[k], Open', conns', wires')
    <2>1. PICK M : M = prog.chain[k]
      OBVIOUS
    <2>2. ThreadOf(k, M, Open, conns, wires)
      BY <2>1 DEF Threaded
    <2>3. CASE OnChain(a, k) /\ OnChain(b, k)
      BY <2>1, <2>2, <2>3, ThreadJoined
    <2>4. CASE OnChain(a, k) /\ ~OnChain(b, k)
      <3>1. PICK c \in conns[l] : Link(c, k)
        BY <1>1, <2>4 DEF OnChain
      <3>2. ThreadOf(k, M, Open', conns', wires')
        BY <2>2, <2>4, <3>1, ThreadLifted
      <3>3. QED
        BY <2>1, <3>2
    <2>5. CASE ~OnChain(a, k) /\ OnChain(b, k)
      <3>1. PICK c \in conns[r] : Link(c, k)
        BY <1>1, <2>5 DEF OnChain
      <3>2. ThreadOf(k, M, Open', conns', wires')
        BY <2>2, <2>5, <3>1, ThreadLifted
      <3>3. QED
        BY <2>1, <3>2
    <2>6. CASE ~OnChain(a, k) /\ ~OnChain(b, k)
      BY <2>1, <2>2, <2>6, ThreadUntouched
    <2>7. QED
      BY <2>3, <2>4, <2>5, <2>6
  <1>3. QED
    BY <1>1, <1>2 DEF Threaded

LEMMA ThreadSame ==
  ASSUME ThreadInv, prog' = prog, wires' = wires,
         \A x \in Open : x \in Open' /\ conns'[x] = conns[x],
         \A x \in Open' : x \in Open \/ conns'[x] = {}
  PROVE  ThreadInv'
  <1>1. ASSUME NEW k \in Range(ChainSeq) PROVE ThreadOf(k, prog.chain[k], Open', conns', wires)
    <2>1. PICK fst, lst, pos, place :
                 /\ Thread(prog.chain[k], Pieces(Open, conns, k), fst, lst, Hops(wires, k), pos, place)
                 /\ EndsAre(Open, conns, k, fst, lst)
      BY DEF ThreadInv, Threaded, ThreadOf
    <2>2. Pieces(Open', conns', k) = Pieces(Open, conns, k)
      <3>1. \A x : x \in Pieces(Open', conns', k) <=> x \in Pieces(Open, conns, k)
        BY DEF Pieces, OnChain
      <3>2. QED
        BY <3>1
    <2>3. EndsAre(Open', conns', k, fst, lst)
      BY <2>1 DEF EndsAre
    <2>4. QED
      BY <2>1, <2>2, <2>3 DEF ThreadOf
  <1>2. HopsOnce'
    BY DEF ThreadInv, HopsOnce
  <1>3. QED
    BY <1>1, <1>2 DEF ThreadInv, Threaded

LEMMA ThreadInit ==
  ASSUME Init
  PROVE  ThreadInv
  <1>1. /\ wires = {} /\ conns = LeafConns(prog)
    BY DEF Init
  <1>2. Setting
    BY CutInit DEF CutInv
  <1>3. /\ DOMAIN conns = {Leaf(m) : m \in Nodes(prog)}
        /\ \A m \in Nodes(prog) : conns[Leaf(m)] = ParseLog(prog, m)
    BY <1>1 DEF LeafConns, Leaf
  <1>4. Emitted = {}
    BY <1>3, Kinds DEF Emitted, Ids
  <1>5. \A m \in Nodes(prog) : m \in Modules
    BY DEF Nodes
  <1>6. Open = DOMAIN conns
    BY <1>4 DEF Open
  <1>7. ASSUME NEW k \in Range(ChainSeq) PROVE ThreadOf(k, prog.chain[k], Open, conns, wires)
    <2>1. PICK M, X, H : M = prog.chain[k] /\ X = Pieces(Open, conns, k) /\ H = Hops(wires, k)
      OBVIOUS
    <2>2. \A m \in M : m \in Modules /\ Leaf(m) \in X
      <3>1. SUFFICES ASSUME NEW m \in M PROVE m \in Modules /\ Leaf(m) \in X
        OBVIOUS
      <3>2. m \in Modules
        BY <1>2, <2>1, ProgramIs
      <3>3. Logged("Chain", k, m)
        BY <2>1, <3>2 DEF Logged
      <3>4. PICK c \in ParseLog(prog, m) : c.kind = "Chain" /\ c.name = k
        BY <1>2, <3>2, <3>3, LogSound
      <3>5. m \in Nodes(prog)
        BY <3>2, <3>4 DEF Nodes
      <3>6. QED
        BY <1>3, <1>6, <2>1, <3>2, <3>4, <3>5 DEF Pieces, OnChain, Link
    <2>3. \A x \in Open : \A c \in conns[x] : Link(c, k) => x = Leaf(c.rin) /\ c.rout = c.rin /\ c.rin \in M
      <3>1. SUFFICES ASSUME NEW m \in Nodes(prog), NEW c \in ParseLog(prog, m), Link(c, k)
                     PROVE  Leaf(m) = Leaf(c.rin) /\ c.rout = c.rin /\ c.rin \in M
        BY <1>3, <1>6
      <3>2. c.rin = m /\ c.rout = m /\ Homed(c)
        BY <1>2, <1>5, LogSound DEF Sound
      <3>3. Logged("Chain", k, m)
        BY <3>1, <3>2 DEF Homed, Link
      <3>4. k \in Range(ChainSeq) /\ m \in prog.chain[k]
        BY <3>3 DEF Logged
      <3>5. QED
        BY <2>1, <3>2, <3>4
    <2>4. \A x \in X : \E m \in M : x = Leaf(m)
      BY <2>1, <2>3 DEF Pieces, OnChain
    <2>5. PICK fst, pos, place : /\ fst = [x \in X |-> CHOOSE m \in M : x = Leaf(m)]
                                 /\ pos = [m \in M |-> 1] /\ place = [m \in M |-> Leaf(m)]
      OBVIOUS
    <2>6. \A x \in X : fst[x] \in M /\ x = Leaf(fst[x])
      BY <2>4, <2>5
    <2>7. \A m \in M : pos[m] = 1 /\ place[m] = Leaf(m)
      BY <2>5
    <2>8. \A m, t \in M : Leaf(m) = Leaf(t) => m = t
      BY Kinds
    <2>9. H = {}
      BY <1>1, <2>1 DEF Hops
    <2>10. Thread(M, X, fst, fst, H, pos, place)
      BY <2>2, <2>6, <2>7, <2>8, <2>9 DEF Thread
    <2>11. EndsAre(Open, conns, k, fst, fst)
      <3>1. SUFFICES ASSUME NEW x \in Open, NEW c \in conns[x], Link(c, k) PROVE c.rin = fst[x] /\ c.rout = fst[x]
        BY DEF EndsAre
      <3>2. x = Leaf(c.rin) /\ c.rout = c.rin /\ c.rin \in M
        BY <2>3, <3>1
      <3>3. x \in X
        BY <2>1, <3>1 DEF Pieces, OnChain
      <3>4. QED
        BY <2>6, <2>8, <3>2, <3>3
    <2>12. QED
      BY <2>1, <2>10, <2>11 DEF ThreadOf
  <1>8. HopsOnce
    BY <1>1 DEF HopsOnce
  <1>9. QED
    BY <1>7, <1>8 DEF ThreadInv, Threaded

LEMMA ThreadStep ==
  ASSUME ThreadInv, JoinInv, EmitInv, CutInv, [Next]_vars
  PROVE  ThreadInv'
  <1>1. Setting /\ Threaded /\ HopsOnce
    BY DEF CutInv, ThreadInv
  <1>2. AllSound /\ Leafed /\ Referred /\ WireSound /\ Apart /\ Kept /\ WiredOnce /\ Bare
    BY DEF JoinInv
  <1>3. CASE CutEmpty \/ CutNode
    <2>1. /\ prog' = prog /\ wires' = wires /\ phase = "cut"
          /\ conns' = conns \/ \E e \in {empties} : conns' = With(conns, Empty(e), {})
      BY <1>3 DEF CutEmpty, CutNode
    <2>2. empties \in Nat
      BY DEF CutInv, Grown, Shape, Started
    <2>3. Emitted = {}
      BY <2>1 DEF EmitInv, Phases
    <2>4. Emitted' = {}
      <3>1. \A e : Empty(e) \notin Ids
        BY Kinds DEF Ids
      <3>2. \A x \in DOMAIN conns' : x \in DOMAIN conns \/ \E e : x = Empty(e)
        BY <2>1 DEF With
      <3>3. QED
        BY <2>3, <3>1, <3>2 DEF Emitted
    <2>5. /\ \A x \in Open : x \in Open' /\ conns'[x] = conns[x]
          /\ \A x \in Open' : x \in Open \/ conns'[x] = {}
      BY <1>2, <2>1, <2>2, <2>3, <2>4, OpenKept
    <2>6. QED
      BY <2>1, <2>5, ThreadSame
  <1>4. CASE EnterNode \/ FinishFiles \/ UNCHANGED vars
    <2>1. /\ prog' = prog /\ wires' = wires /\ conns' = conns /\ tree' = tree
      BY <1>4 DEF EnterNode, FinishFiles, emitVars, vars
    <2>2. Emitted' = Emitted
      BY <2>1 DEF Emitted
    <2>3. Open' = Open
      BY <2>1, <2>2 DEF Open
    <2>4. QED
      BY <2>1, <2>3, ThreadSame
  <1>5. CASE EmitNode
    <2>1. Whole
      BY <1>5, WholeTree DEF EmitNode
    <2>2. PICK n, l, r, a, b, E : Emits(n, l, r, a, b, E)
      BY <1>2, <1>5, <2>1, EmitsIs
    <2>3. Sound(n, E)
      BY <1>1, <1>2, <2>2, SoundKept
    <2>4. Threaded' /\ HopsOnce'
      BY <1>1, <2>2, <2>3, ThreadedUp, HopsOnceKept
    <2>5. QED
      BY <2>4 DEF ThreadInv
  <1>6. QED
    BY <1>3, <1>4, <1>5 DEF Next

-----------------------------------------------------------------------------
(***************************************************************************)
(* The chain from one end to the other.                                    *)
(***************************************************************************)
(* The hops H go through the modules M in a line from s to t, pos the      *)
(* place of each.                                                          *)
Lined(M, H, pos, s, t) ==
  /\ s \in M /\ t \in M /\ pos[s] = 1
  /\ \A m \in M : pos[m] \in Nat /\ 1 <= pos[m] /\ pos[m] <= pos[t]
  /\ \A u, v \in M : pos[u] = pos[v] => u = v
  /\ \A h \in H : \E u, v \in M : h = <<u, v>>
  /\ \A u, v \in M : <<u, v>> \in H <=> pos[v] = pos[u] + 1
  /\ \A v \in M : pos[v] # 1 => \E u \in M : pos[v] = pos[u] + 1

(* What ChainPath computes: K modules from s on, by the hops.              *)
After(H, x) == IF \E h \in H : h[1] = x THEN (CHOOSE h \in H : h[1] = x)[2] ELSE 0
Walk(K, s, H, p) == p = [i \in 1 .. K |-> IF i = 1 THEN s ELSE After(H, p[i - 1])]

(* The modules at the places of a line.                                    *)
LEMMA LineIs ==
  ASSUME NEW M, NEW H, NEW pos, NEW s, NEW t, Lined(M, H, pos, s, t), NEW K, K = pos[t]
  PROVE  /\ K \in Nat /\ K >= 1
         /\ \E g : /\ g \in [1 .. K -> M] /\ g[1] = s /\ g[K] = t
                   /\ \A i \in 1 .. K : pos[g[i]] = i
                   /\ \A m \in M : pos[m] \in 1 .. K /\ g[pos[m]] = m
  <1>1. /\ s \in M /\ t \in M /\ pos[s] = 1
        /\ \A m \in M : pos[m] \in Nat /\ 1 <= pos[m] /\ pos[m] <= K
        /\ \A u, v \in M : pos[u] = pos[v] => u = v
        /\ \A v \in M : pos[v] # 1 => \E u \in M : pos[v] = pos[u] + 1
    BY DEF Lined
  <1>2. K \in Nat /\ K >= 1
    BY <1>1
  <1> DEFINE T == {j \in Nat : j < K => \E u \in M : pos[u] = K - j}
  <1>3. 0 \in T
    BY <1>1, <1>2
  <1>4. ASSUME NEW j \in Nat, j \in T PROVE j + 1 \in T
    <2>1. SUFFICES ASSUME j + 1 < K PROVE \E u \in M : pos[u] = K - (j + 1)
      OBVIOUS
    <2>2. PICK u \in M : pos[u] = K - j
      BY <1>2, <1>4, <2>1
    <2>3. pos[u] # 1
      BY <1>2, <2>1, <2>2
    <2>4. PICK v \in M : pos[u] = pos[v] + 1
      BY <1>1, <2>3
    <2>5. pos[v] = K - (j + 1)
      BY <1>1, <1>2, <2>2, <2>4
    <2>6. QED
      BY <2>5
  <1> HIDE DEF T
  <1>5. \A j \in Nat : j \in T
    <2>1. TAKE j \in Nat
    <2>2. QED
      BY <1>3, <1>4, SetInduction
  <1>6. ASSUME NEW i \in 1 .. K PROVE \E u \in M : pos[u] = i
    <2>1. PICK j : j = K - i
      OBVIOUS
    <2>2. j \in Nat /\ j < K /\ K - j = i
      BY <1>2, <2>1
    <2>3. QED
      BY <1>5, <2>2 DEF T
  <1>7. PICK g : g = [i \in 1 .. K |-> CHOOSE u \in M : pos[u] = i]
    OBVIOUS
  <1>8. \A i \in 1 .. K : g[i] \in M /\ pos[g[i]] = i
    BY <1>6, <1>7
  <1>9. g \in [1 .. K -> M]
    BY <1>7, <1>8
  <1>10. \A m \in M : pos[m] \in 1 .. K /\ g[pos[m]] = m
    BY <1>1, <1>8
  <1>11. g[1] = s /\ g[K] = t
    BY <1>1, <1>10
  <1>12. QED
    BY <1>2, <1>8, <1>9, <1>10, <1>11

(* The walk along the hops is the line.                                    *)
LEMMA WalkIs ==
  ASSUME NEW M, NEW H, NEW pos, NEW s, NEW t, Lined(M, H, pos, s, t),
         NEW K \in Nat, K >= 1, NEW g \in [1 .. K -> M], g[1] = s,
         \A i \in 1 .. K : pos[g[i]] = i, \A m \in M : pos[m] \in 1 .. K /\ g[pos[m]] = m
  PROVE  /\ Walk(K, s, H, g)
         /\ \A p : Walk(K, s, H, p) => p = g
         /\ \A i \in 1 .. (K - 1) : <<g[i], g[i + 1]>> \in H
         /\ \A h \in H : \E i \in 1 .. (K - 1) : h = <<g[i], g[i + 1]>>
  <1>1. /\ \A h \in H : \E u, v \in M : h = <<u, v>>
        /\ \A u, v \in M : <<u, v>> \in H <=> pos[v] = pos[u] + 1
    BY DEF Lined
  <1>2. ASSUME NEW i \in 1 .. (K - 1) PROVE <<g[i], g[i + 1]>> \in H
    <2>1. i \in 1 .. K /\ i + 1 \in 1 .. K
      OBVIOUS
    <2>2. g[i] \in M /\ g[i + 1] \in M /\ pos[g[i]] = i /\ pos[g[i + 1]] = i + 1
      BY <2>1
    <2>3. QED
      BY <1>1, <2>2
  <1>3. ASSUME NEW h \in H PROVE \E i \in 1 .. (K - 1) : h = <<g[i], g[i + 1]>>
    <2>1. PICK u, v \in M : h = <<u, v>>
      BY <1>1
    <2>2. pos[v] = pos[u] + 1
      BY <1>1, <2>1
    <2>3. pos[u] \in 1 .. K /\ pos[v] \in 1 .. K /\ g[pos[u]] = u /\ g[pos[v]] = v
      OBVIOUS
    <2>4. pos[u] \in 1 .. (K - 1)
      BY <2>2, <2>3
    <2>5. QED
      BY <2>1, <2>2, <2>3, <2>4
  (* One step of the walk. *)
  <1>4. ASSUME NEW i \in 2 .. K
        PROVE  After(H, g[i - 1]) = g[i]
    <2>1. PICK j \in 1 .. (K - 1) : j = i - 1
      OBVIOUS
    <2>2. PICK u, v : u = g[j] /\ v = g[j + 1]
      OBVIOUS
    <2>3. j + 1 = i
      BY <2>1
    <2>4. u \in M /\ pos[u] = j
      BY <2>1, <2>2
    <2>5. PICK e : e = <<u, v>>
      OBVIOUS
    <2>6. e \in H /\ e[1] = u
      BY <1>2, <2>2, <2>5
    <2>7. PICK h : h = CHOOSE x \in H : x[1] = u
      OBVIOUS
    <2>8. PICK y : y = After(H, u)
      OBVIOUS
    <2>9. h \in H /\ h[1] = u
      BY <2>6, <2>7
    <2>10. y = h[2]
      BY <2>6, <2>7, <2>8 DEF After
    <2>11. PICK x \in 1 .. (K - 1) : h = <<g[x], g[x + 1]>>
      BY <1>3, <2>9
    <2>12. g[x] = u /\ y = g[x + 1] /\ x \in 1 .. K
      BY <2>9, <2>10, <2>11
    <2>13. x = j
      BY <2>4, <2>12
    <2>14. QED
      BY <2>1, <2>2, <2>3, <2>8, <2>12, <2>13
  <1>5. Walk(K, s, H, g)
    <2>1. PICK f : f = [i \in 1 .. K |-> IF i = 1 THEN s ELSE After(H, g[i - 1])]
      OBVIOUS
    <2>2. ASSUME NEW i \in 1 .. K PROVE f[i] = g[i]
      <3>1. CASE i = 1
        BY <2>1, <3>1
      <3>2. CASE i # 1
        <4>1. i \in 2 .. K
          BY <3>2
        <4>2. f[i] = After(H, g[i - 1])
          BY <2>1, <3>2
        <4>3. QED
          BY <1>4, <4>1, <4>2
      <3>3. QED
        BY <3>1, <3>2
    <2>3. f = g
      BY <2>1, <2>2
    <2>4. QED
      BY <2>1, <2>3 DEF Walk
  <1>6. ASSUME NEW p, Walk(K, s, H, p) PROVE p = g
    <2>1. p = [i \in 1 .. K |-> IF i = 1 THEN s ELSE After(H, p[i - 1])]
      BY <1>6 DEF Walk
    <2> DEFINE T == {i \in Nat : i + 1 <= K => p[i + 1] = g[i + 1]}
    <2>2. 0 \in T
      <3>1. p[1] = s
        BY <2>1
      <3>2. QED
        BY <3>1
    <2>3. ASSUME NEW i \in Nat, i \in T PROVE i + 1 \in T
      <3>1. SUFFICES ASSUME (i + 1) + 1 <= K PROVE p[(i + 1) + 1] = g[(i + 1) + 1]
        OBVIOUS
      <3>2. PICK j \in 2 .. K : j = (i + 1) + 1
        BY <3>1
      <3>3. j - 1 = i + 1 /\ i + 1 <= K
        BY <3>2
      <3>4. p[j - 1] = g[j - 1]
        BY <2>3, <3>3
      <3>5. p[j] = After(H, p[j - 1])
        <4>1. j \in 1 .. K /\ j # 1
          OBVIOUS
        <4>2. QED
          BY <2>1, <4>1
      <3>6. p[j] = g[j]
        BY <1>4, <3>4, <3>5
      <3>7. QED
        BY <3>2, <3>6
    <2> HIDE DEF T
    <2>4. \A i \in Nat : i \in T
      <3>1. TAKE i \in Nat
      <3>2. QED
        BY <2>2, <2>3, SetInduction
    <2>5. ASSUME NEW i \in 1 .. K PROVE p[i] = g[i]
      <3>1. PICK j \in Nat : j = i - 1
        OBVIOUS
      <3>2. j + 1 = i /\ i <= K
        BY <3>1
      <3>3. j + 1 <= K => p[j + 1] = g[j + 1]
        BY <2>4 DEF T
      <3>4. QED
        BY <3>2, <3>3
    <2>6. p = [i \in 1 .. K |-> p[i]] /\ g = [i \in 1 .. K |-> g[i]]
      BY <2>1
    <2>7. QED
      BY <2>5, <2>6
  <1>7. QED
    BY <1>2, <1>3, <1>5, <1>6

LEMMA HopsWithin ==
  ASSUME Built, NEW k, NEW h \in Hops(wires, k)
  PROVE  \E u, v \in prog.chain[k] : h = <<u, v>>
  <1>1. PICK w \in wires : w.kind /\ w.name = k /\ w.buf = h
    BY HopsAre
  <1>2. PICK j, i, m, x : /\ w.buf = <<m, x>>
                          /\ Logged(j, w.name, m) /\ Logged(i, w.name, x)
                          /\ IF w.kind THEN j = "Chain" /\ i = "Chain" ELSE j = "Send" /\ i = "Recv"
    BY WireEndsAre
  <1>3. Logged("Chain", k, m) /\ Logged("Chain", k, x)
    BY <1>1, <1>2
  <1>4. m \in prog.chain[k] /\ x \in prog.chain[k]
    BY <1>3 DEF Logged
  <1>5. QED
    BY <1>1, <1>2, <1>4

(* The root has the whole of a chain.                                      *)
LEMMA RootThread ==
  ASSUME Built, ThreadInv, NEW k \in Range(ChainSeq), NEW M, M = prog.chain[k], M # {}
  PROVE  \E c, pos :
           /\ c \in conns[Root] /\ Link(c, k) /\ \A d \in conns[Root] : Link(d, k) => d = c
           /\ Lined(M, Hops(wires, k), pos, c.rin, c.rout)
  <1>1. PICK X, H : X = Pieces(Open, conns, k) /\ H = Hops(wires, k)
    OBVIOUS
  <1>2. PICK fst, lst, pos, place :
               Thread(M, X, fst, lst, H, pos, place) /\ EndsAre(Open, conns, k, fst, lst)
    BY <1>1 DEF ThreadInv, Threaded, ThreadOf
  <1>3. \A x \in X : x = Root
    BY <1>1, RootOpen DEF Pieces, OnChain
  <1>4. \A m \in M : place[m] = Root /\ Root \in X
    BY <1>2, <1>3 DEF Thread
  <1>5. Root \in X
    BY <1>4
  <1>6. PICK c \in conns[Root] : Link(c, k)
    BY <1>1, <1>5 DEF Pieces, OnChain
  <1>7. \A d \in conns[Root] : Link(d, k) => d = c
    BY <1>6, HeldAtRoot DEF Rivals, Link
  <1>8. c.rin = fst[Root] /\ c.rout = lst[Root]
    BY <1>2, <1>6, RootOpen DEF EndsAre
  <1>9. Lined(M, H, pos, c.rin, c.rout)
    <2>1. /\ \A m \in M : place[m] \in X /\ pos[m] \in Nat /\ 1 <= pos[m] /\ pos[m] <= pos[lst[place[m]]]
          /\ \A x \in X : /\ fst[x] \in M /\ place[fst[x]] = x /\ pos[fst[x]] = 1
                          /\ lst[x] \in M /\ place[lst[x]] = x
          /\ \A u, v \in M : place[u] = place[v] /\ pos[u] = pos[v] => u = v
          /\ \A u, v \in M : <<u, v>> \in H <=> place[u] = place[v] /\ pos[v] = pos[u] + 1
          /\ \A v \in M : pos[v] # 1 => \E u \in M : place[u] = place[v] /\ pos[v] = pos[u] + 1
      BY <1>2 DEF Thread
    <2>2. \A h \in H : \E u, v \in M : h = <<u, v>>
      BY <1>1, HopsWithin
    <2>3. c.rin \in M /\ c.rout \in M /\ pos[c.rin] = 1
      BY <1>5, <1>8, <2>1
    <2>4. \A m \in M : pos[m] \in Nat /\ 1 <= pos[m] /\ pos[m] <= pos[c.rout]
      BY <1>4, <1>8, <2>1
    <2>5. \A u, v \in M : pos[u] = pos[v] => u = v
      BY <1>4, <2>1
    <2>6. \A u, v \in M : <<u, v>> \in H <=> pos[v] = pos[u] + 1
      <3>1. TAKE u \in M, v \in M
      <3>2. <<u, v>> \in H <=> place[u] = place[v] /\ pos[v] = pos[u] + 1
        BY <2>1
      <3>3. place[u] = place[v]
        BY <1>4
      <3>4. QED
        BY <3>2, <3>3
    <2>7. ASSUME NEW v \in M, pos[v] # 1 PROVE \E u \in M : pos[v] = pos[u] + 1
      BY <2>1, <2>7
    <2>8. QED
      BY <2>2, <2>3, <2>4, <2>5, <2>6, <2>7 DEF Lined
  <1>10. QED
    BY <1>1, <1>6, <1>7, <1>9

(* The path that the property takes is the line.                           *)
ChainIs(k, M, K, g, c) ==
  /\ K \in Nat /\ c \in conns[Root] /\ K >= 1 /\ Cardinality(M) = K /\ ChainPath(k) = g
  /\ g \in [1 .. K -> M] /\ (\A m \in M : \E i \in 1 .. K : g[i] = m)
  /\ \A i, j \in 1 .. K : g[i] = g[j] => i = j
  /\ \A i \in 1 .. (K - 1) : <<g[i], g[i + 1]>> \in Hops(wires, k)
  /\ \A h \in Hops(wires, k) : \E i \in 1 .. (K - 1) : h = <<g[i], g[i + 1]>>
  /\ ChainTop(k) = {c} /\ c.rout = g[K]

LEMMA ChainPathIs ==
  ASSUME Built, ThreadInv, NEW k \in Range(ChainSeq), NEW M, M = prog.chain[k], M # {}
  PROVE  \E K, g, c : ChainIs(k, M, K, g, c)
  <1>1. PICK c, pos :
           /\ c \in conns[Root] /\ Link(c, k) /\ \A d \in conns[Root] : Link(d, k) => d = c
           /\ Lined(M, Hops(wires, k), pos, c.rin, c.rout)
    BY RootThread
  <1>2. PICK H, s, t, K : H = Hops(wires, k) /\ s = c.rin /\ t = c.rout /\ K = pos[t]
    OBVIOUS
  <1>3. Lined(M, H, pos, s, t)
    BY <1>1, <1>2
  <1>4. K \in Nat /\ K >= 1
    BY <1>2, <1>3, LineIs
  <1>5. PICK g : /\ g \in [1 .. K -> M] /\ g[1] = s /\ g[K] = t
                 /\ \A i \in 1 .. K : pos[g[i]] = i
                 /\ \A m \in M : pos[m] \in 1 .. K /\ g[pos[m]] = m
    BY <1>2, <1>3, LineIs
  <1>6. /\ Walk(K, s, H, g)
        /\ \A p : Walk(K, s, H, p) => p = g
        /\ \A i \in 1 .. (K - 1) : <<g[i], g[i + 1]>> \in H
        /\ \A h \in H : \E i \in 1 .. (K - 1) : h = <<g[i], g[i + 1]>>
    BY <1>3, <1>4, <1>5, WalkIs
  <1>7. \A i, j \in 1 .. K : g[i] = g[j] => i = j
    BY <1>5
  <1>8. Cardinality(M) = K
    <2>1. PICK D : D = 1 .. K
      OBVIOUS
    <2>2. K \in Int /\ 1 \in Int
      BY <1>4
    <2>3. IsFiniteSet(D) /\ Cardinality(D) = IF 1 > K THEN 0 ELSE K - 1 + 1
      BY ONLY <2>1, <2>2, FS_Interval
    <2>4. Cardinality(D) = K
      BY <1>4, <2>3
    <2>5. Lists(g, D, M)
      BY <1>5, <1>7, <2>1 DEF Lists
    <2>6. Cardinality(M) = Cardinality(D)
      BY ONLY <2>3, <2>5, Counted
    <2>7. QED
      BY <2>4, <2>6
  <1>9. ChainTop(k) = {c}
    <2>1. c \in top
      BY <1>1 DEF Built, Registered, Link
    <2>2. \A d : d \in ChainTop(k) <=> d = c
      BY <1>1, <2>1 DEF ChainTop, Built, Link
    <2>3. QED
      BY <2>2
  <1>10. (CHOOSE d \in ChainTop(k) : TRUE) = c
    BY <1>9
  <1>11. At(TopEnd(c, "in")) = s
    <2>1. At(Behold(c.kind, "in", Of(c))) = RootAt(c, "in")
      BY <1>1, BeheldLeaf DEF Built
    <2>2. QED
      BY <1>2, <2>1 DEF TopEnd, RootAt
  <1>12. PICK G : G = {<<At(WireEnds(w)[1]), At(WireEnds(w)[2])>> : w \in ChainHops(k)}
    OBVIOUS
  <1>13. G = H
    <2>1. \A w \in wires : w.buf = <<At(WireEnds(w)[1]), At(WireEnds(w)[2])>>
      BY BuffersRight DEF BuffersFollowRoots, Built
    <2>2. \A w : w \in ChainHops(k) <=> w \in wires /\ w.kind /\ w.name = k
      BY DEF ChainHops
    <2>3. \A h : h \in G <=> \E w \in wires : w.kind /\ w.name = k /\ w.buf = h
      BY <1>12, <2>1, <2>2
    <2>4. \A h : h \in H <=> \E w \in wires : w.kind /\ w.name = k /\ w.buf = h
      BY <1>2, HopsAre
    <2>5. QED
      BY <2>3, <2>4
  <1>14. ChainPath(k) = CHOOSE p : Walk(Cardinality(prog.chain[k]),
                            At(TopEnd(CHOOSE d \in ChainTop(k) : TRUE, "in")),
                            {<<At(WireEnds(w)[1]), At(WireEnds(w)[2])>> : w \in ChainHops(k)}, p)
    BY DEF ChainPath, Walk, After
  <1>15. PICK a, b : a = Cardinality(prog.chain[k]) /\ b = At(TopEnd(CHOOSE d \in ChainTop(k) : TRUE, "in"))
    OBVIOUS
  <1>16. a = K /\ b = s
    BY <1>8, <1>10, <1>11, <1>15
  <1>17. ChainPath(k) = CHOOSE p : Walk(a, b, G, p)
    BY <1>12, <1>14, <1>15
  <1>18. Walk(a, b, G, g) /\ \A p : Walk(a, b, G, p) => p = g
    BY <1>6, <1>13, <1>16
  <1>19. ChainPath(k) = g
    BY <1>17, <1>18
  <1>20. /\ \A i \in 1 .. (K - 1) : <<g[i], g[i + 1]>> \in Hops(wires, k)
         /\ \A h \in Hops(wires, k) : \E i \in 1 .. (K - 1) : h = <<g[i], g[i + 1]>>
    BY <1>2, <1>6
  <1>21. g \in [1 .. K -> M] /\ (\A m \in M : \E i \in 1 .. K : g[i] = m) /\ c.rout = g[K]
    BY <1>2, <1>5
  <1>22. ChainIs(k, M, K, g, c)
    BY <1>1, <1>4, <1>7, <1>8, <1>9, <1>19, <1>20, <1>21 DEF ChainIs
  <1>23. QED
    BY <1>22

LEMMA HopsCounted ==
  ASSUME ThreadInv, NEW k, NEW M, NEW K, NEW g, NEW c, ChainIs(k, M, K, g, c)
  PROVE  Cardinality(ChainHops(k)) = K - 1
  <1>0. /\ K \in Nat /\ K >= 1 /\ \A i, j \in 1 .. K : g[i] = g[j] => i = j
        /\ \A i \in 1 .. (K - 1) : <<g[i], g[i + 1]>> \in Hops(wires, k)
        /\ \A h \in Hops(wires, k) : \E i \in 1 .. (K - 1) : h = <<g[i], g[i + 1]>>
    BY DEF ChainIs
  <1>1. \A w : w \in ChainHops(k) <=> w \in wires /\ w.kind /\ w.name = k
    BY DEF ChainHops
  <1>2. PICK C, D : C = ChainHops(k) /\ D = 1 .. (K - 1)
    OBVIOUS
  <1>3. PICK q : q = [i \in D |-> CHOOSE w \in C : w.buf = <<g[i], g[i + 1]>>]
    OBVIOUS
  <1>4. ASSUME NEW i \in D PROVE q[i] \in C /\ q[i].buf = <<g[i], g[i + 1]>>
    <2>1. PICK h : h = <<g[i], g[i + 1]>>
      OBVIOUS
    <2>2. h \in Hops(wires, k)
      BY <1>0, <1>2, <2>1
    <2>3. PICK w \in wires : w.kind /\ w.name = k /\ w.buf = h
      BY <2>2, HopsAre
    <2>4. w \in C
      BY <1>1, <1>2, <2>3
    <2>5. QED
      BY <1>3, <2>1, <2>3, <2>4
  <1>5. ASSUME NEW w \in C PROVE \E i \in D : q[i] = w
    <2>1. w \in wires /\ w.kind /\ w.name = k
      BY <1>1, <1>2
    <2>2. PICK h : h = w.buf
      OBVIOUS
    <2>3. h \in Hops(wires, k)
      BY <2>1, <2>2, HopsAre
    <2>4. PICK i \in D : h = <<g[i], g[i + 1]>>
      BY <1>0, <1>2, <2>3
    <2>5. q[i] \in C /\ q[i].buf = h
      BY <1>4, <2>4
    <2>6. q[i] \in wires /\ q[i].kind /\ q[i].name = k
      BY <1>1, <1>2, <2>5
    <2>7. q[i] = w
      BY <2>1, <2>2, <2>5, <2>6 DEF ThreadInv, HopsOnce
    <2>8. QED
      BY <2>7
  <1>6. ASSUME NEW i \in D, NEW j \in D, q[i] = q[j] PROVE i = j
    <2>1. g[i] = g[j]
      BY <1>4, <1>6
    <2>2. i \in 1 .. K /\ j \in 1 .. K
      BY <1>0, <1>2
    <2>3. QED
      BY <1>0, <2>1, <2>2
  <1>7. PICK x \in Int : x = K - 1
    BY <1>0
  <1>8. D = 1 .. x /\ 1 \in Int /\ x \in Int /\ x >= 0
    BY <1>0, <1>2, <1>7
  <1>9. IsFiniteSet(D) /\ Cardinality(D) = IF 1 > x THEN 0 ELSE x - 1 + 1
    BY ONLY <1>8, FS_Interval
  <1>10. Cardinality(D) = x
    BY <1>8, <1>9
  <1>11. Cardinality(C) = Cardinality(D)
    <2>1. Lists(q, D, C)
      BY <1>4, <1>5, <1>6 DEF Lists
    <2>2. QED
      BY ONLY <1>9, <2>1, Counted
  <1>12. QED
    BY <1>0, <1>2, <1>7, <1>10, <1>11

LEMMA ChainsRight ==
  ASSUME Built, ThreadInv
  PROVE  ChainsThreaded
  <1>1. ASSUME NEW k \in Range(ChainSeq), prog.chain[k] # {}, NEW path, path = ChainPath(k)
        PROVE  /\ Cardinality(ChainTop(k)) = 1
               /\ Range(path) = prog.chain[k]
               /\ Cardinality(ChainHops(k)) = Len(path) - 1
               /\ \A c \in ChainTop(k) : At(TopEnd(c, "out")) = Last(path)
    <2>1. PICK M : M = prog.chain[k]
      OBVIOUS
    <2> PICK K, g, c : ChainIs(k, M, K, g, c)
      BY <1>1, <2>1, ChainPathIs
    <2>a. /\ K \in Nat /\ c \in conns[Root] /\ K >= 1 /\ Cardinality(M) = K /\ ChainPath(k) = g
          /\ g \in [1 .. K -> M] /\ (\A m \in M : \E i \in 1 .. K : g[i] = m)
          /\ \A i, j \in 1 .. K : g[i] = g[j] => i = j
          /\ \A i \in 1 .. (K - 1) : <<g[i], g[i + 1]>> \in Hops(wires, k)
          /\ \A h \in Hops(wires, k) : \E i \in 1 .. (K - 1) : h = <<g[i], g[i + 1]>>
          /\ ChainTop(k) = {c} /\ c.rout = g[K]
      BY DEF ChainIs
    <2>2. path = g
      BY <1>1, <2>a
    <2>3. Cardinality(ChainTop(k)) = 1
      <3>1. Cardinality({c}) = 1
        BY FS_Singleton
      <3>2. QED
        BY <2>a, <3>1
    <2>4. g \in Seq(M) /\ Len(g) = K /\ DOMAIN g = 1 .. K
      BY <2>a
    <2>5. Range(g) = M
      BY <2>4, <2>a DEF Range
    <2>6. Cardinality(ChainHops(k)) = K - 1
      BY HopsCounted
    <2>7. At(TopEnd(c, "out")) = g[K]
      <3>1. At(Behold(c.kind, "out", Of(c))) = RootAt(c, "out")
        BY <2>a, BeheldLeaf DEF Built
      <3>2. QED
        BY <2>a, <3>1 DEF TopEnd, RootAt
    <2>8. Last(g) = g[K]
      BY <2>4, <2>a DEF Last
    <2>9. QED
      BY <2>1, <2>2, <2>3, <2>4, <2>5, <2>6, <2>7, <2>8, <2>a
  <1>2. QED
    BY <1>1 DEF ChainsThreaded

-----------------------------------------------------------------------------
(***************************************************************************)
(* With area groups, the order of the modules of a chain.                  *)
(***************************************************************************)

(* `half' has the modules below each side of a node: those of a child of   *)
(* that side, and those a call for that side is to cut.                    *)
Within(half, x, m) ==
  x = Leaf(m) \/ (x \in DOMAIN tree /\ \E s \in {1, 2} : m \in half[x][s])
Ordered(half) ==
  \A n \in DOMAIN tree : \A u \in half[n][1], v \in half[n][2] : sortIdx[u] < sortIdx[v]
Spans(half) ==
  /\ \A n \in DOMAIN tree, s \in {1, 2}, m \in Modules :
       Within(half, tree[n][s], m) => m \in half[n][s]
  /\ \A g \in Pending : g.of # Unset => \A m \in g.nodes : m \in half[g.of][g.side]
Covers(half) ==
  \A x \in DOMAIN conns : \A c \in conns[x] : Within(half, x, c.rin) /\ Within(half, x, c.rout)
Rising == \A w \in wires : w.kind => sortIdx[w.buf[1]] < sortIdx[w.buf[2]]

OrderInv == sortIdx # NoArea => Rising /\ \E half : Ordered(half) /\ Spans(half) /\ Covers(half)

LEMMA PlacementOrders ==
  ASSUME NEW M, NEW ord \in [M -> Int], NEW nodes, nodes \subseteq M, IsFiniteSet(nodes),
         NEW u \in PlacementCut(nodes, ord), NEW v \in nodes, v \notin PlacementCut(nodes, ord)
  PROVE  ord[u] < ord[v]
  <1>1. PICK A, B, cut : /\ A = {n \in nodes : ord[n] < ord[u]} /\ B = {n \in nodes : ord[n] < ord[v]}
                         /\ cut = (1 + Cardinality(nodes)) \div 2
    OBVIOUS
  <1>2. u \in nodes /\ Cardinality(A) < cut /\ ~(Cardinality(B) < cut)
    BY <1>1 DEF PlacementCut
  <1>3. /\ ord[u] \in Int /\ ord[v] \in Int
        /\ A \in SUBSET nodes /\ B \in SUBSET nodes
    BY <1>1, <1>2
  <1>4. IsFiniteSet(A) /\ IsFiniteSet(B)
    BY <1>3, FS_Subset
  <1>5. Cardinality(A) \in Nat /\ Cardinality(B) \in Nat /\ cut \in Int
    <2>1. Cardinality(nodes) \in Nat
      BY FS_CardinalityType
    <2>2. QED
      BY <1>1, <1>4, <2>1, FS_CardinalityType
  <1>6. SUFFICES ASSUME ord[v] <= ord[u] PROVE FALSE
    BY <1>3
  <1>7. B \subseteq A
    <2>1. \A n \in nodes : ord[n] \in Int
      OBVIOUS
    <2>2. QED
      BY <1>1, <1>3, <1>6, <2>1
  <1>8. B \in SUBSET A
    BY <1>7
  <1>9. Cardinality(B) <= Cardinality(A)
    BY <1>4, <1>8, FS_Subset
  <1>10. QED
    BY <1>2, <1>5, <1>9

(* The cut of a node, if by area, leaves no module of its first half after *)
(* one of its second.                                                      *)
LEMMA CutOrders ==
  ASSUME CutInv, sortIdx # NoArea, NEW f, NEW n, NEW h, Named(f, n, h)
  PROVE  \A u \in h[1], v \in h[2] : sortIdx[u] < sortIdx[v]
  <1>1. Setting /\ (Grown \/ (phase = "cut" /\ Started))
    BY DEF CutInv
  <1>2. PICK nodes, side : nodes = f.nodes /\ side = Cut(nodes, Edges(prog, nodes))
    OBVIOUS
  <1>3. h = Halves(nodes, side) /\ side = PlacementCut(nodes, sortIdx)
    BY <1>2 DEF Named, Cut
  <1>4. nodes \subseteq Nodes(prog)
    <2>1. CASE Grown
      BY <1>2, <2>1 DEF Named
    <2>2. CASE Started
      <3>1. Pending = {f} /\ Pending = {Frame} /\ Frame.nodes = StartNodes(prog)
        BY <1>1, <2>2, StartedIs DEF Named
      <3>2. nodes = StartNodes(prog)
        BY <1>2, <3>1
      <3>3. QED
        BY <1>1, <3>2 DEF StartNodes, Setting
    <2>3. QED
      BY <1>1, <2>1, <2>2
  <1>5. sortIdx \in [Modules -> Int] /\ nodes \subseteq Modules /\ IsFiniteSet(nodes)
    <2>1. /\ Nodes(prog) \subseteq Modules /\ IsFiniteSet(Nodes(prog))
      BY NodesType
    <2>2. nodes \in SUBSET Nodes(prog)
      BY <1>4
    <2>3. IsFiniteSet(nodes)
      BY <2>1, <2>2, FS_Subset
    <2>4. sortIdx \in [Modules -> Int]
      BY <1>1 DEF Setting
    <2>5. QED
      BY <1>4, <2>1, <2>3, <2>4
  <1>6. \A u \in h[1], v \in h[2] : u \in side /\ v \in nodes /\ v \notin side
    BY <1>3 DEF Halves
  <1>7. SUFFICES ASSUME NEW u \in h[1], NEW v \in h[2] PROVE sortIdx[u] < sortIdx[v]
    OBVIOUS
  <1>8. PICK M, ord : M = Modules /\ ord = sortIdx
    OBVIOUS
  <1>9. /\ ord \in [M -> Int] /\ nodes \subseteq M /\ IsFiniteSet(nodes)
        /\ u \in PlacementCut(nodes, ord) /\ v \in nodes /\ v \notin PlacementCut(nodes, ord)
    BY <1>3, <1>5, <1>6, <1>7, <1>8
  <1>10. ord[u] < ord[v]
    BY ONLY <1>9, PlacementOrders
  <1>11. QED
    BY <1>8, <1>10

(* The halves of a new node.                                               *)
LEMMA SpansCut ==
  ASSUME NEW f, NEW n, NEW h, Cutting(f, n, h), SlotsFilled, Separate,
         NEW half, Spans(half), NEW new, new[n] = h, \A x \in DOMAIN tree : new[x] = half[x]
  PROVE  Spans(new)'
  <1>1. /\ f \in Pending /\ n \in Ids /\ n \notin DOMAIN tree /\ DOMAIN tree \subseteq Ids
        /\ DOMAIN tree' = DOMAIN tree \cup {n}
        /\ f.nodes \cap Nodes(prog) = h[1] \cup h[2]
        /\ n # Root => f.of \in DOMAIN tree
    BY DEF Cutting
  <1>2. \A x \in DOMAIN tree' : x \in Ids /\ x # Unset /\ \A m : x # Leaf(m)
    BY <1>1, Kinds DEF Ids
  <1>3. ASSUME NEW x \in DOMAIN tree', NEW s \in {1, 2}, NEW m \in Modules,
               tree'[x][s] = Leaf(m) \/ (tree'[x][s] \in DOMAIN tree' /\ \E t \in {1, 2} : m \in new[tree'[x][s]][t])
        PROVE  m \in new[x][s]
    <2>1. CASE x = n
      <3>1. CASE tree'[n][s] = Unset
        <4>1. \A k : Unset # Leaf(k)
          BY Kinds
        <4>2. QED
          BY <1>2, <1>3, <2>1, <3>1, <4>1
      <3>2. CASE \E k \in Nodes(prog) : h[s] = {k} /\ tree'[n][s] = Leaf(k)
        <4>1. PICK k \in Nodes(prog) : h[s] = {k} /\ tree'[n][s] = Leaf(k)
          BY <3>2
        <4>2. Leaf(k) = Leaf(m)
          BY <1>2, <1>3, <2>1, <4>1
        <4>3. k = m
          BY <4>2, Kinds
        <4>4. QED
          BY <2>1, <4>1, <4>3
      <3>3. QED
        BY <3>1, <3>2, NewSlots
    <2>2. CASE x \in DOMAIN tree
      <3>1. CASE x = f.of /\ s = f.side /\ tree'[x][s] = n
        <4>1. m \in h[1] \/ m \in h[2]
          BY <1>1, <1>2, <1>3, <3>1
        <4>2. m \in f.nodes
          BY <1>1, <4>1
        <4>3. m \in half[x][s]
          BY <1>1, <1>2, <3>1, <4>2 DEF Spans
        <4>4. QED
          BY <2>2, <4>3
      <3>2. CASE tree'[x][s] = tree[x][s]
        <4>1. tree[x][s] # n
          BY <1>1, <2>2, SlotKinds
        <4>2. Within(half, tree[x][s], m)
          BY <1>1, <1>3, <3>2, <4>1 DEF Within
        <4>3. QED
          BY <2>2, <4>2 DEF Spans
      <3>3. QED
        BY <2>2, <3>1, <3>2, OldSlots
    <2>3. QED
      BY <1>1, <2>1, <2>2
  <1>4. ASSUME NEW g \in Pending', g.of # Unset, NEW m \in g.nodes PROVE m \in new[g.of][g.side]
    <2>1. CASE g \in Pending /\ g # f
      <3>1. g.of \in DOMAIN tree
        BY <1>4, <2>1 DEF Separate
      <3>2. QED
        BY <1>4, <2>1, <3>1 DEF Spans
    <2>2. CASE \E s \in {1, 2} : g.of = n /\ g.side = s /\ g.nodes = h[s]
      BY <1>4, <2>2
    <2>3. QED
      BY <2>1, <2>2, NewPending
  <1>5. QED
    BY <1>3, <1>4 DEF Spans, Within

LEMMA OrderedCut ==
  ASSUME CutInv, CutNode, sortIdx # NoArea, OrderInv
  PROVE  OrderInv'
  <1>1. PICK f, n, h : Named(f, n, h)
    BY CutNodeIs
  <1>2. /\ sortIdx' = sortIdx /\ wires' = wires /\ conns' = conns
    BY DEF CutNode
  <1>3. Cutting(f, n, h)
    BY <1>1 DEF Named
  <1>4. SlotsFilled /\ Separate
    <2>1. Setting /\ (Grown \/ (phase = "cut" /\ Started))
      BY DEF CutInv
    <2>2. CASE Grown
      BY <2>2 DEF Grown, Framed, Separate
    <2>3. CASE Started
      BY <2>1, <2>3, StartedIs
    <2>4. QED
      BY <2>1, <2>2, <2>3
  <1>5. PICK half : Ordered(half) /\ Spans(half) /\ Covers(half)
    BY DEF OrderInv
  <1>6. PICK new : /\ new = With([x \in DOMAIN tree |-> half[x]], n, h)
    OBVIOUS
  <1>7. n \notin DOMAIN tree /\ DOMAIN tree' = DOMAIN tree \cup {n}
    BY <1>3 DEF Cutting
  <1>8. new[n] = h /\ \A x \in DOMAIN tree : new[x] = half[x]
    BY <1>6, <1>7 DEF With
  <1>9. Spans(new)'
    BY <1>3, <1>4, <1>5, <1>8, SpansCut
  <1>10. Ordered(new)'
    <2>1. \A u \in h[1], v \in h[2] : sortIdx[u] < sortIdx[v]
      BY <1>1, CutOrders
    <2>2. \A x \in DOMAIN tree : \A u \in half[x][1], v \in half[x][2] : sortIdx[u] < sortIdx[v]
      BY <1>5 DEF Ordered
    <2>3. QED
      BY <1>2, <1>7, <1>8, <2>1, <2>2 DEF Ordered
  <1>11. Covers(new)'
    <2>1. ASSUME NEW x, NEW m, Within(half, x, m) PROVE Within(new, x, m)'
      BY <1>7, <1>8, <2>1 DEF Within
    <2>2. QED
      BY <1>2, <1>5, <2>1 DEF Covers
  <1>12. Rising'
    BY <1>2 DEF OrderInv, Rising
  <1>13. QED
    BY <1>9, <1>10, <1>11, <1>12 DEF OrderInv

LEMMA OrderedEmpty ==
  ASSUME CutInv, CutEmpty, sortIdx # NoArea, OrderInv
  PROVE  OrderInv'
  <1>1. PICK f, v : Emptying(f, v)
    BY EmptyIs
  <1>2. sortIdx' = sortIdx /\ wires' = wires
    BY DEF CutEmpty
  <1>3. /\ v = Empty(empties) /\ f \in Pending /\ Pending' = Pending \ {f} /\ DOMAIN tree' = DOMAIN tree
        /\ \A x \in DOMAIN tree, s \in {1, 2} :
             tree'[x][s] = IF x = f.of /\ s = f.side THEN v ELSE tree[x][s]
    BY <1>1 DEF Emptying
  <1>4. PICK half : Ordered(half) /\ Spans(half) /\ Covers(half)
    BY DEF OrderInv
  <1>5. DOMAIN tree \subseteq Ids
    <2>1. Setting /\ Grown
      BY <1>1 DEF CutInv, Emptying
    <2>2. \A x \in DOMAIN tree : x \in Ids
      BY <2>1, TreeRanks DEF Grown, Setting
    <2>3. QED
      BY <2>2
  <1>6. v \notin DOMAIN tree /\ \A m : v # Leaf(m)
    BY <1>3, <1>5, Kinds DEF Ids
  <1>7. Ordered(half)'
    BY <1>2, <1>3, <1>4 DEF Ordered
  <1>8. Spans(half)'
    <2>1. ASSUME NEW x \in DOMAIN tree, NEW s \in {1, 2}, NEW m \in Modules, Within(half, tree'[x][s], m)
          PROVE  m \in half[x][s]
      <3>1. tree'[x][s] # v
        BY <1>6, <2>1 DEF Within
      <3>2. tree'[x][s] = tree[x][s]
        BY <1>3, <3>1
      <3>3. QED
        BY <1>4, <2>1, <3>2 DEF Spans
    <2>2. \A x, m : Within(half, x, m)' <=> Within(half, x, m)
      BY <1>3 DEF Within
    <2>3. QED
      BY <1>3, <1>4, <2>1, <2>2 DEF Spans, Within
  <1>9. Covers(half)'
    <2>1. ASSUME NEW x, NEW m, Within(half, x, m) PROVE Within(half, x, m)'
      BY <1>3, <2>1 DEF Within
    <2>2. \A x \in DOMAIN conns' : conns'[x] = {} \/ (x \in DOMAIN conns /\ conns'[x] = conns[x])
      BY DEF CutEmpty, With
    <2>3. QED
      BY <1>4, <2>1, <2>2 DEF Covers
  <1>10. Rising'
    BY <1>2 DEF OrderInv, Rising
  <1>11. QED
    BY <1>7, <1>8, <1>9, <1>10 DEF OrderInv

(* A wrapper puts its first child's part of a chain upstream.              *)
LEMMA OrderedEmit ==
  ASSUME Setting, AllSound, Referred, OrderInv, sortIdx # NoArea, sortIdx' = sortIdx, calls' = calls,
         NEW n, NEW l, NEW r, NEW a, NEW b, NEW E, Emits(n, l, r, a, b, E)
  PROVE  OrderInv'
  <1>1. /\ n \in DOMAIN tree /\ n \notin DOMAIN conns /\ tree' = tree
        /\ DOMAIN conns' = DOMAIN conns \cup {n} /\ conns'[n] = E
        /\ \A x \in DOMAIN conns : conns'[x] = conns[x]
        /\ l = tree[n][1] /\ r = tree[n][2] /\ l \in DOMAIN conns /\ r \in DOMAIN conns
        /\ a = conns[l] /\ b = conns[r] /\ n \in Emitted'
    BY DEF Emits, Open
  <1>2. PICK half : Ordered(half) /\ Spans(half) /\ Covers(half)
    BY DEF OrderInv
  <1>3. ASSUME NEW s \in {1, 2}, NEW x \in conns[tree[n][s]]
        PROVE  x.rin \in half[n][s] /\ x.rout \in half[n][s]
    <2>1. tree[n][s] \in DOMAIN conns
      BY <1>1
    <2>2. x \in Conn
      BY <1>3, <2>1 DEF AllSound, Sound
    <2>3. x.rin \in Modules /\ x.rout \in Modules
      BY <2>2 DEF Conn
    <2>4. Within(half, tree[n][s], x.rin) /\ Within(half, tree[n][s], x.rout)
      BY <1>2, <1>3, <2>1 DEF Covers
    <2>5. QED
      BY <1>1, <1>2, <2>3, <2>4 DEF Spans
  <1>4. Rising'
    <2>1. SUFFICES ASSUME NEW w \in wires', w.kind PROVE sortIdx[w.buf[1]] < sortIdx[w.buf[2]]
      BY DEF Rising
    <2>2. CASE w \in wires
      BY <2>1, <2>2 DEF OrderInv, Rising
    <2>3. CASE \E x \in a, y \in b, o \in a \cup b, i \in a \cup b :
                 ((o = x /\ i = y) \/ (o = y /\ i = x)) /\ Connects(w, o, i) /\ (w.kind => o = x)
                 /\ ChainMatches(x, y)
      <3>1. PICK x \in a, y \in b : w.buf = <<x.rout, y.rin>>
        <4>1. PICK x \in a, y \in b, o \in a \cup b, i \in a \cup b :
                 ((o = x /\ i = y) \/ (o = y /\ i = x)) /\ Connects(w, o, i) /\ (w.kind => o = x)
          BY <2>3
        <4>2. o = x /\ i = y
          BY <2>1, <4>1
        <4>3. QED
          BY <4>1, <4>2 DEF Connects
      <3>2. x.rout \in half[n][1] /\ y.rin \in half[n][2]
        BY <1>1, <1>3, <3>1
      <3>3. sortIdx[x.rout] < sortIdx[y.rin]
        BY <1>1, <1>2, <3>2 DEF Ordered
      <3>4. QED
        BY <3>1, <3>3
    <2>4. QED
      BY <2>1, <2>2, <2>3, NewWires DEF ChannelMatches, IsChannel, ChainMatches
  <1>5. Covers(half)'
    <2>1. ASSUME NEW c \in E PROVE (\E s \in {1, 2} : c.rin \in half[n][s]) /\ (\E s \in {1, 2} : c.rout \in half[n][s])
      <3>1. Referred'
        BY ReferredKept
      <3>2. /\ \E s \in {1, 2} : tree[n][s] \in DOMAIN conns' /\ \E x \in conns'[tree[n][s]] : InFrom(c, x)
            /\ \E s \in {1, 2} : tree[n][s] \in DOMAIN conns' /\ \E x \in conns'[tree[n][s]] : OutFrom(c, x)
        BY <1>1, <2>1, <3>1 DEF Referred, InFrom, OutFrom, Of
      <3>3. \A s \in {1, 2} : conns'[tree[n][s]] = conns[tree[n][s]]
        BY <1>1
      <3>4. \E s \in {1, 2} : \E x \in conns[tree[n][s]] : c.rin = x.rin
        BY <3>2, <3>3 DEF InFrom
      <3>5. \E s \in {1, 2} : \E x \in conns[tree[n][s]] : c.rout = x.rout
        BY <3>2, <3>3 DEF OutFrom
      <3>6. QED
        BY <1>3, <3>4, <3>5
    <2>2. \A x, m : Within(half, x, m)' <=> Within(half, x, m)
      BY <1>1 DEF Within
    <2>3. ASSUME NEW x \in DOMAIN conns', NEW c \in conns'[x]
          PROVE  Within(half, x, c.rin) /\ Within(half, x, c.rout)
      <3>1. CASE x = n
        BY <1>1, <2>1, <2>3, <3>1 DEF Within
      <3>2. CASE x \in DOMAIN conns
        BY <1>1, <1>2, <2>3, <3>2 DEF Covers
      <3>3. QED
        BY <1>1, <2>3, <3>1, <3>2
    <2>4. QED
      BY <2>2, <2>3 DEF Covers, Within
  <1>6. Ordered(half)'
    BY <1>1, <1>2 DEF Ordered
  <1>7. Pending' = Pending
    BY DEF Pending
  <1>8. Spans(half)'
    BY <1>1, <1>2, <1>7 DEF Spans, Within
  <1>9. QED
    BY <1>4, <1>5, <1>6, <1>8 DEF OrderInv

LEMMA OrderInit ==
  ASSUME Init
  PROVE  OrderInv
  <1>1. /\ wires = {} /\ conns = LeafConns(prog)
    BY DEF Init
  <1>2. Setting /\ Started /\ Pending = {Frame} /\ Frame.of = Unset /\ DOMAIN tree = {}
    <2>1. Setting
      BY CutInit DEF CutInv
    <2>2. Started
      BY DEF Init, Started, AllNames
    <2>3. QED
      BY <2>1, <2>2, StartedIs
  <1>3. /\ DOMAIN conns = {Leaf(m) : m \in Nodes(prog)}
        /\ \A m \in Nodes(prog) : conns[Leaf(m)] = ParseLog(prog, m)
    BY <1>1 DEF LeafConns, Leaf
  <1>4. \A m \in Nodes(prog) : m \in Modules
    BY DEF Nodes
  <1>5. Covers(<< >>)
    <2>1. SUFFICES ASSUME NEW m \in Nodes(prog), NEW c \in conns[Leaf(m)]
                   PROVE  Within(<< >>, Leaf(m), c.rin) /\ Within(<< >>, Leaf(m), c.rout)
      BY <1>3 DEF Covers
    <2>2. c.rin = m /\ c.rout = m
      BY <1>2, <1>3, <1>4, LogSound
    <2>3. QED
      BY <2>2 DEF Within
  <1>6. Ordered(<< >>) /\ Spans(<< >>)
    BY <1>2 DEF Ordered, Spans
  <1>7. QED
    BY <1>1, <1>5, <1>6 DEF OrderInv, Rising

LEMMA OrderStep ==
  ASSUME OrderInv, JoinInv, EmitInv, CutInv, [Next]_vars
  PROVE  OrderInv'
  <1>1. Setting
    BY DEF CutInv
  <1>2. sortIdx' = sortIdx
    BY DEF Next, CutEmpty, CutNode, EnterNode, EmitNode, FinishFiles, vars
  <1>3. CASE sortIdx = NoArea
    BY <1>2, <1>3 DEF OrderInv
  <1>4. CASE sortIdx # NoArea /\ CutEmpty
    BY <1>4, OrderedEmpty
  <1>5. CASE sortIdx # NoArea /\ CutNode
    BY <1>5, OrderedCut
  <1>6. CASE sortIdx # NoArea /\ EmitNode
    <2>1. Whole
      BY <1>6, WholeTree DEF EmitNode
    <2>2. AllSound /\ Referred /\ Apart
      BY DEF JoinInv
    <2>3. PICK n, l, r, a, b, E : Emits(n, l, r, a, b, E)
      BY <1>6, <2>1, <2>2, EmitsIs
    <2>4. calls' = calls
      BY <1>6 DEF EmitNode, cutVars
    <2>5. QED
      BY <1>1, <1>2, <1>6, <2>2, <2>3, <2>4, OrderedEmit
  <1>7. CASE sortIdx # NoArea /\ (EnterNode \/ FinishFiles \/ UNCHANGED vars)
    <2>1. wires' = wires /\ conns' = conns /\ tree' = tree /\ calls' = calls
      BY <1>7 DEF EnterNode, FinishFiles, cutVars, emitVars, vars
    <2>2. Pending' = Pending
      BY <2>1 DEF Pending
    <2>3. \A half : /\ Ordered(half) => Ordered(half)'
                    /\ Spans(half) => Spans(half)'
                    /\ Covers(half) => Covers(half)'
      BY <1>2, <2>1, <2>2 DEF Ordered, Spans, Covers, Within
    <2>4. QED
      BY <1>2, <1>7, <2>1, <2>3 DEF OrderInv, Rising
  <1>8. QED
    BY <1>3, <1>4, <1>5, <1>6, <1>7 DEF Next

LEMMA OrdersRight ==
  ASSUME Built, ThreadInv, OrderInv
  PROVE  ChainsFollowOrder
  <1>1. ASSUME sortIdx # NoArea, NEW k \in Range(ChainSeq), prog.chain[k] # {}, NEW path, path = ChainPath(k),
               NEW i \in 1 .. (Len(path) - 1)
        PROVE  sortIdx[path[i]] < sortIdx[path[i + 1]]
    <2>1. PICK M : M = prog.chain[k]
      OBVIOUS
    <2> PICK K, g, c : ChainIs(k, M, K, g, c)
      BY <1>1, <2>1, ChainPathIs
    <2>2. /\ K \in Nat /\ K >= 1 /\ ChainPath(k) = g /\ g \in [1 .. K -> M]
          /\ \A j \in 1 .. (K - 1) : <<g[j], g[j + 1]>> \in Hops(wires, k)
      BY DEF ChainIs
    <2>3. path = g /\ Len(g) = K
      BY <1>1, <2>2
    <2>4. <<g[i], g[i + 1]>> \in Hops(wires, k)
      BY <1>1, <2>2, <2>3
    <2>5. PICK w \in wires : w.kind /\ w.buf = <<g[i], g[i + 1]>>
      BY <2>4 DEF Hops
    <2>6. sortIdx[w.buf[1]] < sortIdx[w.buf[2]]
      BY <1>1, <2>5 DEF OrderInv, Rising
    <2>7. QED
      BY <2>3, <2>5, <2>6
  <1>2. QED
    BY <1>1 DEF ChainsFollowOrder

-----------------------------------------------------------------------------
(* The tree, the connections of its modules, the chains and their order.   *)
WrapperInv == TreeInv /\ JoinInv /\ ThreadInv /\ OrderInv

(* The invariant of cutRecurse and emitWrappersRecurse: where the end of   *)
(* every connection is while the wrappers are written, which part of a     *)
(* chain is below each module, and in which order.                         *)
THEOREM WrapperInvariant == Spec => []WrapperInv
  <1>1. Init => WrapperInv
    BY CutInit, EmitInit, JoinInit, ThreadInit, OrderInit DEF WrapperInv, TreeInv
  <1>2. WrapperInv /\ [Next]_vars => WrapperInv'
    BY CutStep, EmitInvStep, JoinStep, ThreadStep, OrderStep DEF WrapperInv, TreeInv
  <1>3. QED
    BY <1>1, <1>2, PTL DEF Spec

LEMMA DoneIsBuilt ==
  ASSUME WrapperInv, phase = "done"
  PROVE  Built /\ ThreadInv /\ OrderInv
  BY BuiltIs DEF WrapperInv, TreeInv

(* The buffers connectOutToIn counts are those between the root modules    *)
(* that the wire joins, through any number of levels of wrappers.          *)
THEOREM BuffersSafe == Spec => []BuffersFollowRoots
  <1>1. WrapperInv => BuffersFollowRoots
    <2>1. SUFFICES ASSUME WrapperInv PROVE BuffersFollowRoots
      OBVIOUS
    <2>2. CASE phase = "done"
      BY <2>1, <2>2, DoneIsBuilt, BuffersRight
    <2>3. CASE phase # "done"
      BY <2>3 DEF BuffersFollowRoots
    <2>4. QED
      BY <2>2, <2>3
  <1>2. QED
    BY <1>1, WrapperInvariant, PTL

(* Every channel of the program is joined by one wire, and every other end *)
(* of a channel or a service is registered with the platform once, though  *)
(* the indices are given anew at every level.                              *)
THEOREM EndsSafe == Spec => []EveryEndConnected
  <1>1. WrapperInv => EveryEndConnected
    <2>1. SUFFICES ASSUME WrapperInv PROVE EveryEndConnected
      OBVIOUS
    <2>2. CASE phase = "done"
      BY <2>1, <2>2, DoneIsBuilt, EndsRight
    <2>3. CASE phase # "done"
      BY <2>3 DEF EveryEndConnected
    <2>4. QED
      BY <2>2, <2>3
  <1>2. QED
    BY <1>1, WrapperInvariant, PTL

(* Every chain is one ring through all the modules on it, once each, from  *)
(* the end the platform drives to the one it reads.                        *)
THEOREM ChainsSafe == Spec => []ChainsThreaded
  <1>1. WrapperInv => ChainsThreaded
    <2>1. SUFFICES ASSUME WrapperInv PROVE ChainsThreaded
      OBVIOUS
    <2>2. CASE phase = "done"
      BY <2>1, <2>2, DoneIsBuilt, ChainsRight
    <2>3. CASE phase # "done"
      BY <2>3 DEF ChainsThreaded
    <2>4. QED
      BY <2>2, <2>3
  <1>2. QED
    BY <1>1, WrapperInvariant, PTL

(* With area groups, that ring goes through its modules in the order of    *)
(* the physical topology, as placement_cut cuts in that order.             *)
THEOREM OrdersSafe == Spec => []ChainsFollowOrder
  <1>1. WrapperInv => ChainsFollowOrder
    <2>1. SUFFICES ASSUME WrapperInv PROVE ChainsFollowOrder
      OBVIOUS
    <2>2. CASE phase = "done"
      BY <2>1, <2>2, DoneIsBuilt, OrdersRight
    <2>3. CASE phase # "done"
      BY <2>3 DEF ChainsFollowOrder
    <2>4. QED
      BY <2>2, <2>3
  <1>2. QED
    BY <1>1, WrapperInvariant, PTL
=============================================================================
