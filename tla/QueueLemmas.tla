---------------------------- MODULE QueueLemmas ----------------------------
(***************************************************************************)
(* Facts about queues held in sequences and tables held in functions, used *)
(* by the proofs about every service, and about the messages that are on   *)
(* their way through a line of queues (Queues), used by the proofs about   *)
(* the rings.  The recursion in Queues is reasoned about with induction    *)
(* over sets of numbers.                                                   *)
(***************************************************************************)
EXTENDS Naturals, Sequences, Queues, WellFoundedInduction, SequenceTheorems, TLAPS

(* first and deq of a FIFO that is not empty stay within its type. *)
LEMMA DeqType ==
  ASSUME NEW S, NEW q \in Seq(S), q # << >>
  PROVE  Head(q) \in S /\ Tail(q) \in Seq(S)
  OBVIOUS

(* enq stays within the type of the FIFO. *)
LEMMA EnqType ==
  ASSUME NEW S, NEW q \in Seq(S), NEW x \in S
  PROVE  Append(q, x) \in Seq(S)
  OBVIOUS

(* Writing one entry of one node's table keeps the type of the tables. *)
LEMMA WriteType ==
  ASSUME NEW A, NEW B, NEW S, NEW f \in [A -> [B -> S]],
         NEW a \in A, NEW b \in B, NEW v \in S
  PROVE  [f EXCEPT ![a][b] = v] \in [A -> [B -> S]]
  OBVIOUS

(* What is written is what is read, at that entry and no other. *)
LEMMA WriteRead ==
  ASSUME NEW A, NEW B, NEW S, NEW f \in [A -> [B -> S]],
         NEW a \in A, NEW b \in B, NEW v \in S,
         NEW x \in A, NEW y \in B
  PROVE  [f EXCEPT ![a][b] = v][x][y] = IF x = a /\ y = b THEN v ELSE f[x][y]
  OBVIOUS

(* The same for a table of queues or registers. *)
LEMMA UpdateType ==
  ASSUME NEW A, NEW S, NEW f \in [A -> S], NEW a \in A, NEW v \in S
  PROVE  [f EXCEPT ![a] = v] \in [A -> S]
  OBVIOUS

LEMMA UpdateRead ==
  ASSUME NEW A, NEW S, NEW f \in [A -> S], NEW a \in A, NEW v \in S, NEW x \in A
  PROVE  [f EXCEPT ![a] = v][x] = IF x = a THEN v ELSE f[x]
  OBVIOUS

(* deq moves every message of a FIFO one slot forward. *)
LEMMA DeqSlots ==
  ASSUME NEW S, NEW q \in Seq(S), q # << >>
  PROVE  /\ Len(Tail(q)) = Len(q) - 1
         /\ \A i \in DOMAIN Tail(q) : i + 1 \in DOMAIN q /\ Tail(q)[i] = q[i + 1]
         /\ 1 \in DOMAIN q /\ Head(q) = q[1]
  OBVIOUS

(* enq adds one slot at the end. *)
LEMMA EnqSlots ==
  ASSUME NEW S, NEW q \in Seq(S), NEW x \in S
  PROVE  /\ Len(Append(q, x)) = Len(q) + 1
         /\ \A i \in DOMAIN Append(q, x) :
              \/ i \in DOMAIN q /\ Append(q, x)[i] = q[i]
              \/ i = Len(q) + 1 /\ i \notin DOMAIN q /\ Append(q, x)[i] = x
  OBVIOUS

(* A table of FIFOs, one for each a in A, each with messages of S[a] only. *)
Table(L, A, S) == /\ L = [a \in A |-> L[a]]
                  /\ \A a \in A : L[a] \in Seq(S[a])

(* A larger set of messages makes a larger set of FIFOs. *)
LEMMA SeqSubset ==
  ASSUME NEW S, NEW D, S \subseteq D
  PROVE  Seq(S) \subseteq Seq(D)
  OBVIOUS

(* deq of one FIFO of the table. *)
LEMMA TableDeq ==
  ASSUME NEW A, NEW S, NEW L, Table(L, A, S), NEW a \in A, L[a] # << >>,
         NEW L2, L2 = [L EXCEPT ![a] = Tail(@)]
  PROVE  /\ Table(L2, A, S)
         /\ \A b \in A : Len(L2[b]) <= Len(L[b])
  <1>1. L = [b \in A |-> L[b]] /\ \A b \in A : L[b] \in Seq(S[b])
    BY DEF Table
  <1>2. L2 = [b \in A |-> L2[b]] /\ \A b \in A : L2[b] = IF b = a THEN Tail(L[a]) ELSE L[b]
    BY <1>1
  <1>3. Tail(L[a]) \in Seq(S[a])
    BY <1>1, DeqType
  <1>4. Len(Tail(L[a])) <= Len(L[a]) /\ \A b \in A : Len(L[b]) \in Nat
    BY <1>1
  <1>5. \A b \in A : L2[b] \in Seq(S[b])
    BY <1>1, <1>2, <1>3
  <1>6. \A b \in A : Len(L2[b]) <= Len(L[b])
    BY <1>2, <1>4
  <1>7. QED
    BY <1>2, <1>5, <1>6 DEF Table

(* enq into one FIFO of the table, which had room. *)
LEMMA TableEnq ==
  ASSUME NEW A, NEW S, NEW L, Table(L, A, S), NEW a \in A, NEW x, x \in S[a],
         NEW L2, L2 = [L EXCEPT ![a] = Append(@, x)]
  PROVE  Table(L2, A, S)
  <1>1. L = [b \in A |-> L[b]] /\ \A b \in A : L[b] \in Seq(S[b])
    BY DEF Table
  <1>2. L2 = [b \in A |-> L2[b]] /\ \A b \in A : L2[b] = IF b = a THEN Append(L[a], x) ELSE L[b]
    BY <1>1
  <1>3. Append(L[a], x) \in Seq(S[a])
    BY <1>1, EnqType
  <1>4. \A b \in A : L2[b] \in Seq(S[b])
    BY <1>1, <1>2, <1>3
  <1>5. QED
    BY <1>2, <1>4 DEF Table

(* Where there was room, no FIFO is fuller than it may be. *)
LEMMA EnqFits ==
  ASSUME NEW A, NEW S, NEW L, Table(L, A, S), NEW a \in A, NEW x, x \in S[a],
         NEW L2, L2 = [L EXCEPT ![a] = Append(@, x)],
         NEW Cap \in Nat, Len(L[a]) < Cap, \A b \in A : Len(L[b]) <= Cap
  PROVE  \A b \in A : Len(L2[b]) <= Cap
  <1>1. L = [b \in A |-> L[b]] /\ \A b \in A : L[b] \in Seq(S[b])
    BY DEF Table
  <1>2. \A b \in A : L2[b] = IF b = a THEN Append(L[a], x) ELSE L[b]
    BY <1>1
  <1>3. Len(Append(L[a], x)) = Len(L[a]) + 1 /\ Len(L[a]) \in Nat
    BY <1>1, EnqSlots
  <1>4. Len(Append(L[a], x)) <= Cap
    BY <1>3
  <1>5. QED
    BY <1>2, <1>4
-----------------------------------------------------------------------------
(* Induction: a set of numbers has a least one, and one that holds 0 and   *)
(* with each number the next holds them all.                               *)
LEMMA LeastNat ==
  ASSUME NEW T, T \subseteq Nat, T # {}
  PROVE  \E x \in T : \A y \in T : x <= y
  <1> DEFINE R == OpToRel(<, Nat)
  <1>1. IsWellFoundedOn(R, Nat)
    BY NatLessThanWellFounded
  <1>2. \A x, y \in Nat : <<x, y>> \in R <=> x < y
    BY DEF OpToRel
  <1> HIDE DEF R
  <1>3. PICK x \in T : \A y \in T : ~(<<y, x>> \in R)
    BY <1>1, WFMin
  <1>4. \A y \in T : ~(y < x)
    BY <1>2, <1>3
  <1>5. \A y \in T : x <= y
    BY <1>4
  <1>6. QED
    BY <1>5

LEMMA SetInduction ==
  ASSUME NEW T, 0 \in T, \A n \in Nat : n \in T => n + 1 \in T
  PROVE  \A n \in Nat : n \in T
  <1> SUFFICES ASSUME Nat \ T # {} PROVE FALSE
    OBVIOUS
  <1>1. PICK x \in Nat \ T : \A y \in Nat \ T : x <= y
    <2> DEFINE U == Nat \ T
    <2>1. U \subseteq Nat /\ U # {}
      OBVIOUS
    <2> HIDE DEF U
    <2>2. \E x \in U : \A y \in U : x <= y
      BY <2>1, LeastNat
    <2>3. QED
      BY <2>2 DEF U
  <1>2. x # 0 /\ x - 1 \in Nat
    BY <1>1
  <1>3. x - 1 \in T
    BY <1>1, <1>2
  <1>4. (x - 1) + 1 \in T
    BY <1>2, <1>3
  <1>5. QED
    BY <1>1, <1>4

-----------------------------------------------------------------------------
(* The segments of a queue: f[1] is the oldest.                             *)
Segments(f, n, S) == \A i \in 1 .. n : f[i] \in Seq(S)

(* The recursion that Joined is.                                           *)
Upto(g, f, n) == g = [i \in 0 .. n |-> IF i = 0 THEN << >> ELSE g[i - 1] \o f[i]]

(* A function defined by recursion from each number to the next exists.    *)
LEMMA UptoNext ==
  ASSUME NEW f, NEW n \in Nat, NEW g, Upto(g, f, n),
         NEW h, h = [i \in 0 .. n + 1 |-> IF i <= n THEN g[i] ELSE g[n] \o f[i]]
  PROVE  Upto(h, f, n + 1)
  <1>1. \A i \in 0 .. n : g[i] = IF i = 0 THEN << >> ELSE g[i - 1] \o f[i]
    BY DEF Upto
  <1>2. /\ \A i \in 0 .. n : h[i] = g[i]
        /\ h[n + 1] = g[n] \o f[n + 1]
    OBVIOUS
  <1>3. ASSUME NEW i \in 0 .. n + 1
        PROVE  h[i] = IF i = 0 THEN << >> ELSE h[i - 1] \o f[i]
    <2>1. CASE i = 0
      BY <1>1, <1>2, <2>1
    <2>2. CASE i # 0
      <3>1. i - 1 \in 0 .. n
        BY <2>2
      <3>2. h[i - 1] = g[i - 1]
        BY <1>2, <3>1
      <3>3. CASE i = n + 1
        BY <1>2, <3>2, <3>3
      <3>4. CASE i # n + 1
        <4>1. i \in 0 .. n
          BY <3>4
        <4>2. g[i] = g[i - 1] \o f[i]
          BY <1>1, <2>2, <4>1
        <4>3. h[i] = g[i]
          BY <1>2, <4>1
        <4>4. QED
          BY <2>2, <3>2, <4>2, <4>3
      <3>5. QED
        BY <3>3, <3>4
    <2>3. QED
      BY <2>1, <2>2
  <1>4. h = [i \in 0 .. n + 1 |-> h[i]]
    OBVIOUS
  <1>5. QED
    <2>1. h = [i \in 0 .. n + 1 |-> IF i = 0 THEN << >> ELSE h[i - 1] \o f[i]]
      BY ONLY <1>3, <1>4
    <2>2. QED
      BY <2>1 DEF Upto

LEMMA RecursionExists ==
  ASSUME NEW f, NEW n \in Nat
  PROVE  \E g : Upto(g, f, n)
  <1> DEFINE T == {k \in Nat : \E g : Upto(g, f, k)}
  <1>1. 0 \in T
    <2>1. Upto([i \in 0 .. 0 |-> << >>], f, 0)
      BY DEF Upto
    <2>2. QED
      BY <2>1
  <1>2. ASSUME NEW k \in Nat, k \in T PROVE k + 1 \in T
    <2>1. PICK g : Upto(g, f, k)
      BY <1>2
    <2>2. Upto([i \in 0 .. k + 1 |-> IF i <= k THEN g[i] ELSE g[k] \o f[i]], f, k + 1)
      BY <2>1, UptoNext
    <2>3. QED
      BY <2>2
  <1> HIDE DEF T
  <1>3. n \in T
    BY <1>1, <1>2, SetInduction
  <1>4. QED
    BY <1>3 DEF T

LEMMA JoinedDef ==
  ASSUME NEW S, NEW f, NEW n \in Nat, Segments(f, n, S)
  PROVE  \E g : Upto(g, f, n) /\ Joined(f, n) = g[n]
  <1> DEFINE g == CHOOSE u : Upto(u, f, n)
  <1>1. \E u : Upto(u, f, n)
    BY RecursionExists
  <1>2. Joined(f, n) = g[n]
    BY DEF Joined, Upto
  <1>3. Upto(g, f, n)
    BY <1>1
  <1> HIDE DEF g
  <1>4. QED
    BY <1>2, <1>3

(* Two such recursions agree as far as their segments do.                  *)
LEMMA SameUpto ==
  ASSUME NEW S, NEW f, NEW n \in Nat, Segments(f, n, S), NEW h, NEW m \in Nat,
         NEW u, Upto(u, f, n), NEW v, Upto(v, h, m), NEW k \in Nat, k <= n, k <= m,
         \A i \in 1 .. k : f[i] = h[i]
  PROVE  u[k] = v[k] /\ u[k] \in Seq(S)
  <1>1. \A i \in 0 .. n : u[i] = IF i = 0 THEN << >> ELSE u[i - 1] \o f[i]
    BY DEF Upto
  <1>2. \A i \in 0 .. m : v[i] = IF i = 0 THEN << >> ELSE v[i - 1] \o h[i]
    BY DEF Upto
  <1> DEFINE T == {i \in Nat : i <= k => u[i] = v[i] /\ u[i] \in Seq(S)}
  <1>3. 0 \in T
    <2>1. 0 \in 0 .. n /\ 0 \in 0 .. m
      OBVIOUS
    <2>2. u[0] = << >> /\ v[0] = << >>
      BY <1>1, <1>2, <2>1
    <2>3. << >> \in Seq(S)
      OBVIOUS
    <2>4. QED
      BY <2>2, <2>3
  <1>4. ASSUME NEW i \in Nat, i \in T PROVE i + 1 \in T
    <2> SUFFICES ASSUME i + 1 <= k PROVE u[i + 1] = v[i + 1] /\ u[i + 1] \in Seq(S)
      OBVIOUS
    <2>1. i + 1 \in 1 .. k /\ i + 1 \in 0 .. n /\ i + 1 \in 0 .. m /\ i + 1 # 0 /\ i + 1 \in 1 .. n
      OBVIOUS
    <2>2. (i + 1) - 1 = i
      OBVIOUS
    <2> HIDE DEF T
    <2>3. u[i + 1] = u[i] \o f[i + 1] /\ v[i + 1] = v[i] \o h[i + 1]
      BY <1>1, <1>2, <2>1, <2>2
    <2>4. u[i] = v[i] /\ u[i] \in Seq(S) /\ f[i + 1] = h[i + 1] /\ f[i + 1] \in Seq(S)
      <3>1. i <= k
        OBVIOUS
      <3>2. u[i] = v[i] /\ u[i] \in Seq(S)
        BY <1>4, <3>1 DEF T
      <3>3. QED
        BY <2>1, <3>2 DEF Segments
    <2>5. u[i] \o f[i + 1] \in Seq(S)
      BY <2>4, ConcatProperties
    <2>6. QED
      BY <2>3, <2>4, <2>5
  <1> HIDE DEF T
  <1>5. k \in T
    BY <1>3, <1>4, SetInduction
  <1>6. QED
    BY <1>5 DEF T

-----------------------------------------------------------------------------
(* Concatenation, as an operator the provers do not look into.             *)
Cat(p, q) == p \o q

LEMMA CatAssociative ==
  ASSUME NEW S, NEW x \in Seq(S), NEW y \in Seq(S), NEW z \in Seq(S)
  PROVE  Cat(Cat(x, y), z) = Cat(x, Cat(y, z))
  BY ConcatAssociative DEF Cat

LEMMA CatType ==
  ASSUME NEW S, NEW x \in Seq(S), NEW y \in Seq(S)
  PROVE  Cat(x, y) \in Seq(S)
  BY ConcatProperties DEF Cat

LEMMA CatEmpty ==
  ASSUME NEW S, NEW x \in Seq(S)
  PROVE  Cat(x, << >>) = x /\ Cat(<< >>, x) = x
  BY ConcatEmptySeq DEF Cat

LEMMA CatAppend ==
  ASSUME NEW S, NEW x \in Seq(S), NEW m \in S
  PROVE  Append(x, m) = Cat(x, << m >>)
  BY AppendIsConcat DEF Cat

LEMMA SameBehind ==
  ASSUME NEW S, NEW x \in Seq(S), NEW p \in Seq(S), NEW q \in Seq(S),
         NEW r \in Seq(S), NEW t \in Seq(S), Cat(p, q) = Cat(r, t)
  PROVE  Cat(Cat(x, p), q) = Cat(Cat(x, r), t)
  <1>1. Cat(Cat(x, p), q) = Cat(x, Cat(p, q))
    BY CatAssociative
  <1>2. Cat(Cat(x, r), t) = Cat(x, Cat(r, t))
    BY CatAssociative
  <1>3. QED
    BY <1>1, <1>2

(* What comes behind a queue that is not empty does not change which       *)
(* message is its first.                                                   *)
LEMMA TailOfJoin ==
  ASSUME NEW S, NEW p \in Seq(S), NEW q \in Seq(S), p # << >>
  PROVE  Cat(p, q) # << >> /\ Head(Cat(p, q)) = Head(p) /\ Tail(Cat(p, q)) = Cat(Tail(p), q)
  <1>1. p \o q \in Seq(S) /\ Len(p \o q) = Len(p) + Len(q) /\ Len(p) \in Nat \ {0} /\ Len(q) \in Nat
    BY ConcatProperties, EmptySeq
  <1>2. p \o q # << >>
    BY <1>1, EmptySeq
  <1>3. Head(p \o q) = Head(p)
    BY <1>1, <1>2, ConcatProperties
  <1>4. Tail(p) \in Seq(S) /\ Len(Tail(p)) = Len(p) - 1
    BY HeadTailProperties
  <1>5. Tail(p) \o q \in Seq(S) /\ Len(Tail(p) \o q) = Len(Tail(p)) + Len(q)
    BY <1>4, ConcatProperties
  <1>6. Tail(p \o q) \in Seq(S) /\ Len(Tail(p \o q)) = Len(p \o q) - 1
    BY <1>1, <1>2, HeadTailProperties
  <1>7. ASSUME NEW i \in 1 .. Len(Tail(p \o q))
        PROVE  Tail(p \o q)[i] = (Tail(p) \o q)[i]
    <2>1. Tail(p \o q)[i] = (p \o q)[i + 1]
      BY <1>1, <1>2, <1>6, <1>7
    <2>2. i + 1 \in 1 .. Len(p) + Len(q)
      BY <1>1, <1>6
    <2>3. (p \o q)[i + 1] = IF i + 1 <= Len(p) THEN p[i + 1] ELSE q[i + 1 - Len(p)]
      BY <2>2, ConcatProperties
    <2>4. i \in 1 .. Len(Tail(p)) + Len(q)
      BY <1>1, <1>4, <1>6
    <2>5. (Tail(p) \o q)[i] = IF i <= Len(Tail(p)) THEN Tail(p)[i] ELSE q[i - Len(Tail(p))]
      BY <1>4, <2>4, ConcatProperties
    <2>6. i <= Len(Tail(p)) => Tail(p)[i] = p[i + 1]
      BY <1>4
    <2>7. i + 1 - Len(p) = i - Len(Tail(p)) /\ (i + 1 <= Len(p) <=> i <= Len(Tail(p)))
      BY <1>1, <1>4
    <2>8. QED
      BY <2>1, <2>3, <2>5, <2>6, <2>7
  <1>8. Len(Tail(p \o q)) = Len(Tail(p) \o q)
    BY <1>1, <1>4, <1>5, <1>6
  <1>9. Tail(p \o q) = Tail(p) \o q
    BY <1>5, <1>6, <1>7, <1>8, SeqEqual
  <1>10. QED
    BY <1>2, <1>3, <1>9 DEF Cat

(* Joined, one segment at a time.                                          *)
LEMMA JoinedStep ==
  ASSUME NEW S, NEW f, NEW n \in Nat, Segments(f, n, S)
  PROVE  /\ Joined(f, n) \in Seq(S)
         /\ n = 0 => Joined(f, n) = << >>
         /\ n # 0 => Joined(f, n) = Cat(Joined(f, n - 1), f[n])
  <1>1. PICK u : Upto(u, f, n) /\ Joined(f, n) = u[n]
    BY JoinedDef
  <1>2. \A i \in 0 .. n : u[i] = IF i = 0 THEN << >> ELSE u[i - 1] \o f[i]
    BY <1>1 DEF Upto
  <1>3. u[n] \in Seq(S)
    <2>1. n <= n /\ \A i \in 1 .. n : f[i] = f[i]
      OBVIOUS
    <2>2. QED
      BY <1>1, <2>1, SameUpto
  <1>4. CASE n = 0
    BY <1>1, <1>2, <1>3, <1>4
  <1>5. CASE n # 0
    <2> DEFINE m == n - 1
    <2>1. m \in Nat /\ m <= n /\ m <= m /\ m \in 0 .. n /\ n \in 0 .. n
      BY <1>5
    <2>2. Segments(f, m, S)
      BY <2>1 DEF Segments
    <2> HIDE DEF m
    <2>3. PICK v : Upto(v, f, m) /\ Joined(f, m) = v[m]
      BY <2>1, <2>2, JoinedDef
    <2>4. u[m] = v[m]
      <3>1. \A i \in 1 .. m : f[i] = f[i]
        OBVIOUS
      <3>2. QED
        BY <1>1, <2>1, <2>3, <3>1, SameUpto
    <2>5. u[n] = u[m] \o f[n]
      BY <1>2, <1>5, <2>1 DEF m
    <2>6. QED
      BY <1>1, <1>3, <1>5, <2>3, <2>4, <2>5 DEF m, Cat
  <1>6. QED
    BY <1>4, <1>5

(* The first segments decide what is joined of them.                       *)
LEMMA JoinedSame ==
  ASSUME NEW S, NEW n \in Nat, NEW f, Segments(f, n, S), NEW h,
         \A i \in 1 .. n : f[i] = h[i]
  PROVE  Joined(f, n) = Joined(h, n)
  <1>1. Segments(h, n, S)
    BY DEF Segments
  <1>2. PICK u : Upto(u, f, n) /\ Joined(f, n) = u[n]
    BY JoinedDef
  <1>3. PICK v : Upto(v, h, n) /\ Joined(h, n) = v[n]
    BY <1>1, JoinedDef
  <1>4. n <= n
    OBVIOUS
  <1>5. QED
    BY <1>2, <1>3, <1>4, SameUpto

(* Empty segments add nothing.                                             *)
LEMMA JoinedThrough ==
  ASSUME NEW S, NEW n \in Nat, NEW f, Segments(f, n, S), NEW a \in Nat, a <= n,
         \A i \in a + 1 .. n : f[i] = << >>
  PROVE  Joined(f, n) = Joined(f, a)
  <1> DEFINE T == {i \in Nat : a <= i /\ i <= n => Joined(f, i) = Joined(f, a)}
  <1>1. 0 \in T
    OBVIOUS
  <1>2. ASSUME NEW i \in Nat, i \in T PROVE i + 1 \in T
    <2> SUFFICES ASSUME a <= i + 1, i + 1 <= n PROVE Joined(f, i + 1) = Joined(f, a)
      OBVIOUS
    <2> DEFINE k == i + 1
    <2>1. CASE k = a
      BY <2>1
    <2>2. CASE k # a
      <3>1. a <= i /\ i <= n /\ k \in a + 1 .. n /\ k \in Nat /\ k # 0 /\ k - 1 = i
        BY <2>2
      <3>2. Joined(f, i) = Joined(f, a) /\ f[k] = << >>
        BY <1>2, <3>1
      <3>3. Segments(f, k, S) /\ Segments(f, i, S)
        BY DEF Segments
      <3> HIDE DEF k, T
      <3>4. Joined(f, k) = Cat(Joined(f, i), << >>)
        BY <3>1, <3>2, <3>3, JoinedStep
      <3>5. Joined(f, i) \in Seq(S)
        BY <3>3, JoinedStep
      <3>6. Joined(f, k) = Joined(f, i)
        BY <3>4, <3>5, CatEmpty
      <3>7. QED
        BY <3>2, <3>6 DEF k
    <2>3. QED
      BY <2>1, <2>2
  <1> HIDE DEF T
  <1>3. n \in T
    BY <1>1, <1>2, SetInduction
  <1>4. QED
    BY <1>3 DEF T

(* What comes behind equal queues keeps them equal.                        *)
LEMMA JoinedAfter ==
  ASSUME NEW S, NEW n \in Nat, NEW f, Segments(f, n, S), NEW h, Segments(h, n, S),
         NEW b \in Nat, b <= n, Joined(f, b) = Joined(h, b),
         \A i \in b + 1 .. n : f[i] = h[i]
  PROVE  Joined(f, n) = Joined(h, n)
  <1> DEFINE T == {i \in Nat : b <= i /\ i <= n => Joined(f, i) = Joined(h, i)}
  <1>1. 0 \in T
    OBVIOUS
  <1>2. ASSUME NEW i \in Nat, i \in T PROVE i + 1 \in T
    <2> SUFFICES ASSUME b <= i + 1, i + 1 <= n PROVE Joined(f, i + 1) = Joined(h, i + 1)
      OBVIOUS
    <2> DEFINE k == i + 1
    <2>1. CASE k = b
      BY <2>1
    <2>2. CASE k # b
      <3>1. b <= i /\ i <= n /\ k \in b + 1 .. n /\ k \in Nat /\ k # 0 /\ k - 1 = i
        BY <2>2
      <3>2. Joined(f, i) = Joined(h, i) /\ f[k] = h[k]
        BY <1>2, <3>1
      <3>3. Segments(f, k, S) /\ Segments(h, k, S)
        BY DEF Segments
      <3> HIDE DEF k, T
      <3>4. /\ Joined(f, k) = Cat(Joined(f, i), f[k])
            /\ Joined(h, k) = Cat(Joined(h, i), h[k])
        BY <3>1, <3>3, JoinedStep
      <3>5. QED
        BY <3>2, <3>4 DEF k
    <2>3. QED
      BY <2>1, <2>2
  <1> HIDE DEF T
  <1>3. n \in T
    BY <1>1, <1>2, SetInduction
  <1>4. QED
    BY <1>3 DEF T

LEMMA JoinedTailAfter ==
  ASSUME NEW S, NEW n \in Nat, NEW f, Segments(f, n, S), NEW h, Segments(h, n, S),
         NEW b \in Nat, b <= n, Joined(f, b) # << >>, Joined(h, b) = Tail(Joined(f, b)),
         \A i \in b + 1 .. n : f[i] = h[i]
  PROVE  /\ Joined(f, n) # << >>
         /\ Head(Joined(f, n)) = Head(Joined(f, b))
         /\ Joined(h, n) = Tail(Joined(f, n))
  <1> DEFINE Goes(i) == /\ Joined(f, i) # << >>
                        /\ Head(Joined(f, i)) = Head(Joined(f, b))
                        /\ Joined(h, i) = Tail(Joined(f, i))
             T == {i \in Nat : b <= i /\ i <= n => Goes(i)}
  <1>1. 0 \in T
    OBVIOUS
  <1>2. ASSUME NEW i \in Nat, i \in T PROVE i + 1 \in T
    <2> SUFFICES ASSUME b <= i + 1, i + 1 <= n PROVE Goes(i + 1)
      OBVIOUS
    <2> DEFINE k == i + 1
    <2>1. CASE k = b
      BY <2>1
    <2>2. CASE k # b
      <3>1. b <= i /\ i <= n /\ k \in b + 1 .. n /\ k \in Nat /\ k # 0 /\ k - 1 = i
        BY <2>2
      <3>2. Goes(i) /\ f[k] = h[k]
        BY <1>2, <3>1
      <3>3. Segments(f, k, S) /\ Segments(h, k, S) /\ Segments(f, i, S)
        BY DEF Segments
      <3>4. k \in 1 .. k
        BY <3>1
      <3> HIDE DEF k, T
      <3>5. /\ Joined(f, k) = Cat(Joined(f, i), f[k])
            /\ Joined(h, k) = Cat(Joined(h, i), h[k])
        BY <3>1, <3>3, JoinedStep
      <3>6. Joined(f, i) \in Seq(S) /\ f[k] \in Seq(S)
        BY <3>3, <3>4, JoinedStep DEF Segments
      <3>7. /\ Joined(f, i) # << >>
            /\ Head(Joined(f, i)) = Head(Joined(f, b))
            /\ Joined(h, k) = Cat(Tail(Joined(f, i)), f[k])
        BY <3>2, <3>5
      <3> HIDE DEF Goes
      <3>9. /\ Joined(f, k) # << >>
            /\ Head(Joined(f, k)) = Head(Joined(f, i))
            /\ Tail(Joined(f, k)) = Cat(Tail(Joined(f, i)), f[k])
        BY <3>5, <3>6, <3>7, TailOfJoin
      <3>10. Goes(k)
        BY <3>7, <3>9 DEF Goes
      <3>8. QED
        BY <3>10 DEF k
    <2>3. QED
      BY <2>1, <2>2
  <1> HIDE DEF T
  <1>3. n \in T
    BY <1>1, <1>2, SetInduction
  <1>4. QED
    BY <1>3 DEF T

(* All but the segments in A are the same, and those between a and b are   *)
(* empty.                                                                  *)
SameBut(f, h, n, A)  == \A i \in 1 .. n : i \notin A => f[i] = h[i]
Gap(f, n, a, b)   == \A i \in 1 .. n : a < i /\ i < b => f[i] = << >>

(* A message that goes from one segment on to the next that is not empty   *)
(* changes nothing.                                                        *)
LEMMA JoinedMove ==
  ASSUME NEW S, NEW n \in Nat, NEW f, Segments(f, n, S), NEW h, Segments(h, n, S),
         NEW a \in 1 .. n, NEW b \in 1 .. n, a < b,
         SameBut(f, h, n, {a, b}), Gap(f, n, a, b),
         Cat(f[a], f[b]) = Cat(h[a], h[b])
  PROVE  Joined(f, n) = Joined(h, n)
  <1> DEFINE a0 == a - 1
             b0 == b - 1
  <1>1. /\ a0 \in Nat /\ b0 \in Nat /\ a \in Nat /\ b \in Nat /\ a <= b0 /\ b <= n
        /\ a # 0 /\ b # 0
    OBVIOUS
  <1>2. /\ Segments(f, a0, S) /\ Segments(f, a, S) /\ Segments(f, b0, S) /\ Segments(f, b, S)
        /\ Segments(h, a0, S) /\ Segments(h, a, S) /\ Segments(h, b0, S) /\ Segments(h, b, S)
    BY DEF Segments
  <1>3. Joined(f, a0) = Joined(h, a0)
    <2>1. \A i \in 1 .. a0 : f[i] = h[i]
      BY DEF SameBut
    <2> HIDE DEF a0
    <2>2. QED
      BY <1>1, <1>2, <2>1, JoinedSame
  <1>4. Joined(f, b0) = Joined(f, a) /\ Joined(h, b0) = Joined(h, a)
    <2>1. \A i \in a + 1 .. b0 : f[i] = << >> /\ h[i] = << >>
      BY DEF SameBut, Gap
    <2> HIDE DEF b0
    <2>2. QED
      BY <1>1, <1>2, <2>1, JoinedThrough
  <1>5. /\ Joined(f, a) = Cat(Joined(f, a0), f[a]) /\ Joined(f, b) = Cat(Joined(f, b0), f[b])
        /\ Joined(h, a) = Cat(Joined(h, a0), h[a]) /\ Joined(h, b) = Cat(Joined(h, b0), h[b])
    BY <1>1, <1>2, JoinedStep
  <1>6. /\ f[a] \in Seq(S) /\ f[b] \in Seq(S) /\ h[a] \in Seq(S) /\ h[b] \in Seq(S)
        /\ Joined(f, a0) \in Seq(S)
    BY <1>1, <1>2, JoinedStep DEF Segments
  <1> HIDE DEF a0, b0
  <1>7. Cat(Cat(Joined(f, a0), f[a]), f[b]) = Cat(Cat(Joined(f, a0), h[a]), h[b])
    BY <1>6, SameBehind
  <1>8. Joined(f, b) = Joined(h, b)
    BY <1>3, <1>4, <1>5, <1>7
  <1>9. \A i \in b + 1 .. n : f[i] = h[i]
    BY DEF SameBut
  <1>10. QED
    BY <1>1, <1>8, <1>9, JoinedAfter

(* The message taken off the first segment that is not empty is the first. *)
LEMMA JoinedTake ==
  ASSUME NEW S, NEW n \in Nat, NEW f, Segments(f, n, S), NEW h, Segments(h, n, S),
         NEW a \in 1 .. n,
         SameBut(f, h, n, {a}), Gap(f, n, 0, a),
         f[a] # << >>, h[a] = Tail(f[a])
  PROVE  /\ Joined(f, n) # << >>
         /\ Head(Joined(f, n)) = Head(f[a])
         /\ Joined(h, n) = Tail(Joined(f, n))
  <1> DEFINE a0 == a - 1
             z == 0
  <1>1. a0 \in Nat /\ a \in Nat /\ a <= n /\ a # 0 /\ z \in Nat /\ z <= a0 /\ a \in 1 .. a
    OBVIOUS
  <1>2. /\ Segments(f, a0, S) /\ Segments(f, a, S) /\ Segments(f, z, S)
        /\ Segments(h, a0, S) /\ Segments(h, a, S) /\ Segments(h, z, S)
    BY DEF Segments
  <1>3. Joined(f, z) = << >> /\ Joined(h, z) = << >>
    BY <1>1, <1>2, JoinedStep
  <1>4. Joined(f, a0) = << >> /\ Joined(h, a0) = << >>
    <2>1. \A i \in z + 1 .. a0 : f[i] = << >> /\ h[i] = << >>
      BY DEF SameBut, Gap
    <2> HIDE DEF a0, z
    <2>2. QED
      BY <1>1, <1>2, <1>3, <2>1, JoinedThrough
  <1>5. Joined(f, a) = Cat(Joined(f, a0), f[a]) /\ Joined(h, a) = Cat(Joined(h, a0), h[a])
    BY <1>1, <1>2, JoinedStep
  <1>6. f[a] \in Seq(S) /\ h[a] \in Seq(S)
    BY <1>1, <1>2 DEF Segments
  <1> HIDE DEF a0, z
  <1>7. Joined(f, a) = f[a] /\ Joined(h, a) = h[a]
    BY <1>4, <1>5, <1>6, CatEmpty
  <1>8. \A i \in a + 1 .. n : f[i] = h[i]
    BY DEF SameBut
  <1>9. Joined(f, a) # << >> /\ Joined(h, a) = Tail(Joined(f, a))
    BY <1>7
  <1>10. /\ Joined(f, n) # << >>
         /\ Head(Joined(f, n)) = Head(Joined(f, a))
         /\ Joined(h, n) = Tail(Joined(f, n))
    BY <1>1, <1>8, <1>9, JoinedTailAfter
  <1>11. QED
    BY <1>7, <1>10

(* A message behind the last segment is behind them all.                   *)
LEMMA JoinedAdd ==
  ASSUME NEW S, NEW n \in Nat, n # 0, NEW f, Segments(f, n, S), NEW h,
         SameBut(f, h, n, {n}), NEW t \in Seq(S), h[n] = Cat(f[n], t)
  PROVE  Joined(h, n) = Cat(Joined(f, n), t)
  <1> DEFINE k == n - 1
  <1>1. k \in Nat /\ n \in Nat /\ n # 0 /\ n \in 1 .. n
    OBVIOUS
  <1>2. f[n] \in Seq(S)
    BY <1>1 DEF Segments
  <1>3. \A i \in 1 .. k : f[i] = h[i] /\ i \in 1 .. n
    BY DEF SameBut
  <1>4. Segments(f, k, S)
    BY <1>3 DEF Segments
  <1>5. h[n] \in Seq(S)
    BY <1>2, CatType
  <1>6. Segments(h, n, S)
    BY <1>5 DEF Segments, SameBut
  <1>7. Joined(f, n) = Cat(Joined(f, k), f[n]) /\ Joined(h, n) = Cat(Joined(h, k), h[n])
    BY <1>1, <1>6, JoinedStep
  <1> HIDE DEF k
  <1>8. Joined(f, k) = Joined(h, k)
    BY <1>1, <1>3, <1>4, JoinedSame
  <1>9. Joined(f, k) \in Seq(S)
    BY <1>1, <1>4, JoinedStep
  <1>10. Cat(Cat(Joined(f, k), f[n]), t) = Cat(Joined(f, k), Cat(f[n], t))
    BY <1>2, <1>9, CatAssociative
  <1>11. QED
    BY <1>7, <1>8, <1>10

(* What is joined is the first segment with the others behind it.          *)
LEMMA JoinedFirst ==
  ASSUME NEW S, NEW n \in Nat, NEW f, Segments(f, n + 1, S),
         NEW h, \A i \in 1 .. n : h[i] = f[i + 1]
  PROVE  Joined(f, n + 1) = Cat(f[1], Joined(h, n))
  <1> DEFINE T == {k \in Nat : k <= n => Joined(f, k + 1) = Cat(f[1], Joined(h, k))}
  <1>0. f[1] \in Seq(S)
    BY DEF Segments
  <1>1. 0 \in T
    <2> DEFINE z == 0
               e == 0 + 1
    <2>1. z \in Nat /\ e \in Nat /\ e # 0 /\ e - 1 = z /\ e = 1
      OBVIOUS
    <2>2. Segments(f, e, S) /\ Segments(f, z, S) /\ Segments(h, z, S)
      BY <1>0 DEF Segments
    <2> HIDE DEF z, e
    <2>3. Joined(f, e) = Cat(Joined(f, z), f[e]) /\ Joined(f, z) = << >> /\ Joined(h, z) = << >>
      <3>1. z = 0
        BY DEF z
      <3>2. QED
        BY <2>1, <2>2, <3>1, JoinedStep
    <2>4. Cat(<< >>, f[1]) = f[1] /\ Cat(f[1], << >>) = f[1]
      BY <1>0, CatEmpty
    <2>5. Joined(f, e) = Cat(f[1], Joined(h, z))
      BY <2>1, <2>3, <2>4
    <2>6. QED
      BY <2>5 DEF z, e
  <1>2. ASSUME NEW k \in Nat, k \in T PROVE k + 1 \in T
    <2> SUFFICES ASSUME k + 1 <= n PROVE Joined(f, k + 1 + 1) = Cat(f[1], Joined(h, k + 1))
      OBVIOUS
    <2> DEFINE a == k + 1
               b == k + 1 + 1
    <2>1. a \in Nat /\ b \in Nat /\ a # 0 /\ b # 0 /\ a - 1 = k /\ b - 1 = a /\ a \in 1 .. n /\ b = a + 1
      OBVIOUS
    <2>2. Segments(f, b, S) /\ Segments(h, a, S) /\ Segments(h, k, S)
      <3>1. \A i \in 1 .. a : i + 1 \in 1 .. n + 1 /\ h[i] = f[i + 1]
        OBVIOUS
      <3>2. /\ \A i \in 1 .. b : i \in 1 .. n + 1
            /\ \A i \in 1 .. k : i \in 1 .. a
        OBVIOUS
      <3> HIDE DEF a, b
      <3>3. QED
        BY <3>1, <3>2 DEF Segments
    <2>3. Joined(f, a) = Cat(f[1], Joined(h, k)) /\ h[a] = f[b]
      BY <1>2, <2>1
    <2>4. h[a] \in Seq(S)
      BY <2>1, <2>2 DEF Segments
    <2> HIDE DEF a, b, T
    <2>5. Joined(f, b) = Cat(Joined(f, a), f[b]) /\ Joined(h, a) = Cat(Joined(h, k), h[a])
      BY <2>1, <2>2, JoinedStep
    <2>6. Joined(h, k) \in Seq(S)
      BY <2>2, JoinedStep
    <2>7. Cat(Cat(f[1], Joined(h, k)), h[a]) = Cat(f[1], Cat(Joined(h, k), h[a]))
      BY <1>0, <2>4, <2>6, CatAssociative
    <2>8. Joined(f, b) = Cat(f[1], Joined(h, a))
      BY <2>3, <2>5, <2>7
    <2>9. QED
      BY <2>8 DEF a, b
  <1> HIDE DEF T
  <1>3. n \in T
    BY <1>1, <1>2, SetInduction
  <1>4. QED
    BY <1>3 DEF T

-----------------------------------------------------------------------------
(* The messages in T say something in S.                                   *)
Says(T, S) == \A x \in T : x.msg \in S

LEMMA SaidType ==
  ASSUME NEW T, NEW S, Says(T, S), NEW x
  PROVE  Said(x, T) \in Seq(S)
  BY DEF Says, Said

Parts(q, T) == [i \in 1 .. Len(q) |-> Said(q[i], T)]

LEMMA MsgsDef ==
  ASSUME NEW T, NEW S, Says(T, S), NEW D, NEW q \in Seq(D)
  PROVE  /\ Msgs(q, T) = Joined(Parts(q, T), Len(q))
         /\ Segments(Parts(q, T), Len(q), S)
         /\ Msgs(q, T) \in Seq(S)
         /\ q = << >> => Msgs(q, T) = << >>
  <1>1. Msgs(q, T) = Joined(Parts(q, T), Len(q))
    BY DEF Msgs, Parts
  <1>2. Segments(Parts(q, T), Len(q), S)
    BY SaidType DEF Segments, Parts
  <1>3. Len(q) \in Nat /\ (q = << >> => Len(q) = 0)
    OBVIOUS
  <1>4. QED
    BY <1>1, <1>2, <1>3, JoinedStep

LEMMA MsgsAppend ==
  ASSUME NEW T, NEW S, Says(T, S), NEW D, NEW q \in Seq(D), NEW x \in D
  PROVE  Msgs(Append(q, x), T) = Cat(Msgs(q, T), Said(x, T))
  <1> DEFINE n == Len(q)
             q2 == Append(q, x)
             m == Len(q2)
  <1>1. q2 \in Seq(D) /\ m \in Nat /\ m # 0 /\ m - 1 = n /\ n \in Nat /\ m \in 1 .. m
    OBVIOUS
  <1>2. (\A i \in 1 .. n : i \in 1 .. m /\ q2[i] = q[i]) /\ q2[m] = x
    OBVIOUS
  <1> HIDE DEF n, q2, m
  <1>3. /\ Msgs(q2, T) = Joined(Parts(q2, T), m) /\ Segments(Parts(q2, T), m, S)
        /\ Msgs(q, T) = Joined(Parts(q, T), n) /\ Segments(Parts(q, T), n, S)
    BY <1>1, MsgsDef DEF m, n
  <1>4. Joined(Parts(q2, T), m) = Cat(Joined(Parts(q2, T), m - 1), Parts(q2, T)[m])
    BY <1>1, <1>3, JoinedStep
  <1>5. Parts(q2, T)[m] = Said(x, T) /\ \A i \in 1 .. n : Parts(q, T)[i] = Parts(q2, T)[i]
    BY <1>1, <1>2 DEF Parts, m, n
  <1>6. Joined(Parts(q, T), n) = Joined(Parts(q2, T), n)
    BY <1>1, <1>3, <1>5, JoinedSame
  <1>7. QED
    BY <1>1, <1>3, <1>4, <1>5, <1>6 DEF q2

LEMMA MsgsFirst ==
  ASSUME NEW T, NEW S, Says(T, S), NEW D, NEW q \in Seq(D), q # << >>
  PROVE  Msgs(q, T) = Cat(Said(Head(q), T), Msgs(Tail(q), T))
  <1> DEFINE t == Tail(q)
             n == Len(t)
  <1>1. t \in Seq(D) /\ n \in Nat /\ Len(q) = n + 1 /\ 1 \in 1 .. n + 1 /\ q[1] = Head(q)
    OBVIOUS
  <1>2. \A i \in 1 .. n : i + 1 \in 1 .. n + 1 /\ t[i] = q[i + 1]
    BY <1>1
  <1> HIDE DEF n, t
  <1>3. /\ Msgs(q, T) = Joined(Parts(q, T), n + 1) /\ Segments(Parts(q, T), n + 1, S)
        /\ Msgs(t, T) = Joined(Parts(t, T), n)
    BY <1>1, MsgsDef DEF n
  <1>4. Parts(q, T)[1] = Said(Head(q), T) /\ \A i \in 1 .. n : Parts(t, T)[i] = Parts(q, T)[i + 1]
    BY <1>1, <1>2 DEF Parts, n
  <1>5. Joined(Parts(q, T), n + 1) = Cat(Parts(q, T)[1], Joined(Parts(t, T), n))
    BY <1>1, <1>3, <1>4, JoinedFirst
  <1>6. QED
    BY <1>3, <1>4, <1>5 DEF t

(* deq and enq of messages that are in T, and of messages that are not.    *)
LEMMA MsgsHead ==
  ASSUME NEW T, NEW S, Says(T, S), NEW D, NEW q \in Seq(D), q # << >>, Head(q) \in T
  PROVE  /\ Msgs(q, T) # << >> /\ Head(Msgs(q, T)) = Head(q).msg
         /\ Msgs(Tail(q), T) = Tail(Msgs(q, T))
  <1> DEFINE m == Head(q).msg
             t == Msgs(Tail(q), T)
  <1>1. Msgs(q, T) = Cat(Said(Head(q), T), t)
    BY MsgsFirst
  <1>2. Said(Head(q), T) = << m >> /\ m \in S
    BY DEF Said, Says
  <1>3. t \in Seq(S)
    <2>1. Tail(q) \in Seq(D)
      OBVIOUS
    <2>2. QED
      BY <2>1, MsgsDef
  <1> HIDE DEF m, t
  <1>4. << m >> \in Seq(S) /\ << m >> # << >> /\ Head(<< m >>) = m /\ Tail(<< m >>) = << >>
    BY <1>2
  <1> DEFINE p == << m >>
  <1>5. p \in Seq(S) /\ p # << >> /\ Head(p) = m /\ Tail(p) = << >>
    BY <1>4
  <1>6. Msgs(q, T) = Cat(p, t)
    BY <1>1, <1>2
  <1> HIDE DEF p
  <1>7. Cat(p, t) # << >> /\ Head(Cat(p, t)) = Head(p) /\ Tail(Cat(p, t)) = Cat(Tail(p), t)
    BY <1>3, <1>5, TailOfJoin
  <1>8. Cat(<< >>, t) = t
    BY <1>3, CatEmpty
  <1>9. QED
    BY <1>5, <1>6, <1>7, <1>8 DEF m, t

LEMMA MsgsSkip ==
  ASSUME NEW T, NEW S, Says(T, S), NEW D, NEW q \in Seq(D), q # << >>, Head(q) \notin T
  PROVE  Msgs(Tail(q), T) = Msgs(q, T)
  <1>1. Msgs(q, T) = Cat(Said(Head(q), T), Msgs(Tail(q), T))
    BY MsgsFirst
  <1>2. Said(Head(q), T) = << >>
    BY DEF Said
  <1>3. Tail(q) \in Seq(D)
    OBVIOUS
  <1>4. Msgs(Tail(q), T) \in Seq(S)
    BY <1>3, MsgsDef
  <1>5. QED
    BY <1>1, <1>2, <1>4, CatEmpty

LEMMA MsgsPush ==
  ASSUME NEW T, NEW S, Says(T, S), NEW D, NEW q \in Seq(D), NEW x \in D
  PROVE  Msgs(Append(q, x), T) = IF x \in T THEN Append(Msgs(q, T), x.msg) ELSE Msgs(q, T)
  <1>1. Msgs(Append(q, x), T) = Cat(Msgs(q, T), Said(x, T)) /\ Msgs(q, T) \in Seq(S)
    BY MsgsAppend, MsgsDef
  <1>2. CASE x \in T
    <2>1. Said(x, T) = << x.msg >> /\ x.msg \in S
      BY <1>2 DEF Said, Says
    <2>2. Append(Msgs(q, T), x.msg) = Cat(Msgs(q, T), << x.msg >>)
      BY <1>1, <2>1, CatAppend
    <2>3. QED
      BY <1>1, <1>2, <2>1, <2>2
  <1>3. CASE x \notin T
    <2>1. Said(x, T) = << >>
      BY <1>3 DEF Said
    <2>2. QED
      BY <1>1, <1>3, <2>1, CatEmpty
  <1>4. QED
    BY <1>2, <1>3

LEMMA MsgsNone ==
  ASSUME NEW T, NEW S, Says(T, S), NEW D, NEW q \in Seq(D), \A i \in 1 .. Len(q) : q[i] \notin T
  PROVE  Msgs(q, T) = << >>
  <1> DEFINE n == Len(q)
             z == 0
  <1>1. n \in Nat /\ z \in Nat /\ z <= n /\ \A i \in z + 1 .. n : i \in 1 .. n
    OBVIOUS
  <1>2. Msgs(q, T) = Joined(Parts(q, T), n) /\ Segments(Parts(q, T), n, S)
    BY MsgsDef
  <1>3. \A i \in z + 1 .. n : Parts(q, T)[i] = << >>
    BY DEF Parts, Said
  <1>4. Segments(Parts(q, T), z, S)
    BY DEF Segments
  <1>5. z = 0
    OBVIOUS
  <1> HIDE DEF n, z
  <1>6. Joined(Parts(q, T), n) = Joined(Parts(q, T), z)
    BY <1>1, <1>2, <1>3, JoinedThrough
  <1>7. QED
    BY <1>1, <1>2, <1>4, <1>5, <1>6, JoinedStep

(* What deq of one queue and enq of the same message into another do to    *)
(* the messages of both together.                                          *)
LEMMA MsgsMove ==
  ASSUME NEW T, NEW S, Says(T, S), NEW D, NEW p \in Seq(D), NEW q \in Seq(D), q # << >>
  PROVE  Cat(Msgs(Append(p, Head(q)), T), Msgs(Tail(q), T)) = Cat(Msgs(p, T), Msgs(q, T))
  <1> DEFINE x == Head(q)
             t == Tail(q)
             said == Said(x, T)
  <1>1. x \in D /\ t \in Seq(D)
    OBVIOUS
  <1>2. Msgs(q, T) = Cat(said, Msgs(t, T))
    BY MsgsFirst
  <1>3. said \in Seq(S)
    BY SaidType
  <1> HIDE DEF x, t, said
  <1>4. Msgs(Append(p, x), T) = Cat(Msgs(p, T), said)
    BY <1>1, MsgsAppend DEF said
  <1>5. Msgs(p, T) \in Seq(S) /\ Msgs(t, T) \in Seq(S)
    BY <1>1, MsgsDef
  <1>6. Cat(Cat(Msgs(p, T), said), Msgs(t, T)) = Cat(Msgs(p, T), Cat(said, Msgs(t, T)))
    BY <1>3, <1>5, CatAssociative
  <1>7. QED
    BY <1>2, <1>4, <1>6 DEF x, t

-----------------------------------------------------------------------------
(* A line of n queues with messages of D.                                  *)
Line(P, n, D) == \A k \in 1 .. n : P[k] \in Seq(D)

(* No message in T is in queue q, or in a queue between a and b.           *)
Free(q, T)           == \A i \in 1 .. Len(q) : q[i] \notin T
NoneBetween(P, n, T, a, b) == \A k \in 1 .. n : a < k /\ k < b => Free(P[k], T)

View(P, n, T) == [k \in 1 .. n |-> Msgs(P[k], T)]

LEMMA InLineDef ==
  ASSUME NEW T, NEW S, Says(T, S), NEW D, NEW n \in Nat, NEW P, Line(P, n, D)
  PROVE  /\ InLine(P, n, T) = Joined(View(P, n, T), n)
         /\ Segments(View(P, n, T), n, S)
         /\ InLine(P, n, T) \in Seq(S)
         /\ \A k \in 1 .. n : View(P, n, T)[k] = Msgs(P[k], T)
  <1>1. InLine(P, n, T) = Joined(View(P, n, T), n)
    BY DEF InLine, View
  <1>2. \A k \in 1 .. n : View(P, n, T)[k] = Msgs(P[k], T)
    BY DEF View
  <1>3. \A k \in 1 .. n : Msgs(P[k], T) \in Seq(S)
    BY MsgsDef DEF Line
  <1>4. Segments(View(P, n, T), n, S)
    BY <1>2, <1>3 DEF Segments
  <1>5. QED
    BY <1>1, <1>2, <1>4, JoinedStep

(* What happens in a line without its messages in T changing.              *)
LEMMA InLineSame ==
  ASSUME NEW T, NEW S, Says(T, S), NEW D, NEW n \in Nat, NEW P, Line(P, n, D),
         NEW P2, Line(P2, n, D), \A k \in 1 .. n : Msgs(P2[k], T) = Msgs(P[k], T)
  PROVE  InLine(P2, n, T) = InLine(P, n, T)
  <1>1. \A k \in 1 .. n : View(P, n, T)[k] = View(P2, n, T)[k]
    BY DEF View
  <1>2. Segments(View(P, n, T), n, S)
    BY InLineDef
  <1>3. Joined(View(P, n, T), n) = Joined(View(P2, n, T), n)
    BY <1>1, <1>2, JoinedSame
  <1>4. QED
    BY <1>3, InLineDef

(* A line without messages in T.                                           *)
LEMMA InLineNone ==
  ASSUME NEW T, NEW S, Says(T, S), NEW D, NEW n \in Nat, NEW P, Line(P, n, D),
         \A k \in 1 .. n : Free(P[k], T)
  PROVE  InLine(P, n, T) = << >>
  <1> DEFINE z == 0
  <1>1. z \in Nat /\ z <= n /\ z = 0 /\ \A i \in z + 1 .. n : i \in 1 .. n
    OBVIOUS
  <1>2. \A k \in 1 .. n : Msgs(P[k], T) = << >>
    BY MsgsNone DEF Line, Free
  <1>3. /\ Segments(View(P, n, T), n, S) /\ InLine(P, n, T) = Joined(View(P, n, T), n)
        /\ \A k \in 1 .. n : View(P, n, T)[k] = Msgs(P[k], T)
    BY InLineDef
  <1>4. Segments(View(P, n, T), z, S)
    BY DEF Segments
  <1> HIDE DEF z
  <1>5. \A i \in z + 1 .. n : View(P, n, T)[i] = << >>
    BY <1>1, <1>2, <1>3
  <1>6. Joined(View(P, n, T), n) = Joined(View(P, n, T), z)
    BY <1>1, <1>3, <1>5, JoinedThrough
  <1>7. QED
    BY <1>1, <1>3, <1>4, <1>6, JoinedStep

(* A message that goes on to another queue of the line is still where it   *)
(* was among those in T, if there are none on the queues in between.       *)
LEMMA InLineMove ==
  ASSUME NEW T, NEW S, Says(T, S), NEW D, NEW n \in Nat, NEW P, Line(P, n, D),
         NEW P2, NEW a \in 1 .. n, NEW b \in 1 .. n, a < b, P[b] # << >>,
         P2[a] = Append(P[a], Head(P[b])), P2[b] = Tail(P[b]),
         SameBut(P, P2, n, {a, b}), NoneBetween(P, n, T, a, b)
  PROVE  Line(P2, n, D) /\ InLine(P2, n, T) = InLine(P, n, T)
  <1> DEFINE f == View(P, n, T)
             h == View(P2, n, T)
  <1>1. P[a] \in Seq(D) /\ P[b] \in Seq(D)
    BY DEF Line
  <1>2. P2[a] \in Seq(D) /\ P2[b] \in Seq(D)
    BY <1>1, DeqType, EnqType
  <1>3. Line(P2, n, D)
    BY <1>2 DEF Line, SameBut
  <1>4. /\ Segments(f, n, S) /\ InLine(P, n, T) = Joined(f, n)
        /\ Segments(h, n, S) /\ InLine(P2, n, T) = Joined(h, n)
    BY <1>3, InLineDef
  <1>5. \A k \in 1 .. n : f[k] = Msgs(P[k], T) /\ h[k] = Msgs(P2[k], T)
    BY DEF View
  <1> HIDE DEF f, h
  <1>6. SameBut(f, h, n, {a, b})
    BY <1>5 DEF SameBut
  <1>7. Gap(f, n, a, b)
    BY <1>5, MsgsNone DEF Line, Free, NoneBetween, Gap
  <1>8. Cat(f[a], f[b]) = Cat(h[a], h[b])
    <2>1. Cat(Msgs(Append(P[a], Head(P[b])), T), Msgs(Tail(P[b]), T)) = Cat(Msgs(P[a], T), Msgs(P[b], T))
      BY <1>1, MsgsMove
    <2>2. h[a] = Msgs(Append(P[a], Head(P[b])), T) /\ h[b] = Msgs(Tail(P[b]), T)
      BY <1>5
    <2>3. QED
      BY <1>5, <2>1, <2>2
  <1>9. n \in Nat /\ a \in 1 .. n /\ b \in 1 .. n /\ a < b
    OBVIOUS
  <1>10. Joined(f, n) = Joined(h, n)
    BY ONLY <1>4, <1>6, <1>7, <1>8, <1>9, JoinedMove
  <1>11. QED
    BY <1>3, <1>4, <1>10

(* What deq and enq(x) make of a queue. *)
Dequeued(q2, q)    == q2 = Tail(q)
Enqueued(q2, q, x) == q2 = Append(q, x)
Gave(q2, q, x)     == q # << >> /\ Head(q) = x /\ Dequeued(q2, q)

(* The first message in T is taken off its queue.                          *)
LEMMA InLineTake ==
  ASSUME NEW T, NEW S, Says(T, S), NEW D, NEW n \in Nat, NEW P, Line(P, n, D),
         NEW P2, NEW a \in 1 .. n, P[a] # << >>, Head(P[a]) \in T, Dequeued(P2[a], P[a]),
         SameBut(P, P2, n, {a}), NoneBetween(P, n, T, 0, a)
  PROVE  Line(P2, n, D) /\ Gave(InLine(P2, n, T), InLine(P, n, T), Head(P[a]).msg)
  <1> DEFINE f == View(P, n, T)
             h == View(P2, n, T)
  <1>1. P[a] \in Seq(D) /\ P2[a] = Tail(P[a])
    BY DEF Line, Dequeued
  <1>2. P2[a] \in Seq(D)
    BY <1>1, DeqType
  <1>3. Line(P2, n, D)
    BY <1>2 DEF Line, SameBut
  <1>4. /\ Segments(f, n, S) /\ InLine(P, n, T) = Joined(f, n)
        /\ Segments(h, n, S) /\ InLine(P2, n, T) = Joined(h, n)
    BY <1>3, InLineDef
  <1>5. \A k \in 1 .. n : f[k] = Msgs(P[k], T) /\ h[k] = Msgs(P2[k], T)
    BY DEF View
  <1> HIDE DEF f, h
  <1>6. SameBut(f, h, n, {a})
    BY <1>5 DEF SameBut
  <1>7. Gap(f, n, 0, a)
    BY <1>5, MsgsNone DEF Line, Free, NoneBetween, Gap
  <1>8. f[a] # << >> /\ Head(f[a]) = Head(P[a]).msg /\ h[a] = Tail(f[a])
    BY <1>1, <1>5, MsgsHead
  <1>9. n \in Nat /\ a \in 1 .. n
    OBVIOUS
  <1>10. Joined(f, n) # << >> /\ Head(Joined(f, n)) = Head(f[a]) /\ Joined(h, n) = Tail(Joined(f, n))
    BY ONLY <1>4, <1>6, <1>7, <1>8, <1>9, JoinedTake
  <1>11. QED
    BY <1>3, <1>4, <1>8, <1>10 DEF Gave, Dequeued

(* A message enters the last queue of the line.                            *)
LEMMA InLineAdd ==
  ASSUME NEW T, NEW S, Says(T, S), NEW D, NEW n \in Nat, n # 0, NEW P, Line(P, n, D),
         NEW P2, NEW x \in D, x \in T, Enqueued(P2[n], P[n], x),
         SameBut(P, P2, n, {n})
  PROVE  Line(P2, n, D) /\ InLine(P2, n, T) = Append(InLine(P, n, T), x.msg)
  <1> DEFINE f == View(P, n, T)
             h == View(P2, n, T)
             m == x.msg
  <1>1. P[n] \in Seq(D) /\ n \in 1 .. n /\ P2[n] = Append(P[n], x)
    BY DEF Line, Enqueued
  <1>2. P2[n] \in Seq(D)
    BY <1>1, EnqType
  <1>3. Line(P2, n, D)
    BY <1>2 DEF Line, SameBut
  <1>4. /\ Segments(f, n, S) /\ InLine(P, n, T) = Joined(f, n)
        /\ Segments(h, n, S) /\ InLine(P2, n, T) = Joined(h, n)
    BY <1>3, InLineDef
  <1>5. \A k \in 1 .. n : f[k] = Msgs(P[k], T) /\ h[k] = Msgs(P2[k], T)
    BY DEF View
  <1>6. m \in S
    BY DEF Says
  <1> DEFINE t == << m >>
  <1>7. t \in Seq(S)
    BY <1>6
  <1> HIDE DEF f, h
  <1>8. SameBut(f, h, n, {n})
    BY <1>5 DEF SameBut
  <1>9. h[n] = Cat(f[n], t)
    <2>1. Msgs(Append(P[n], x), T) = Cat(Msgs(P[n], T), Said(x, T)) /\ Said(x, T) = t
      BY <1>1, MsgsAppend DEF Said
    <2>2. h[n] = Msgs(Append(P[n], x), T)
      BY <1>1, <1>5
    <2>3. QED
      BY <1>1, <1>5, <2>1, <2>2
  <1> HIDE DEF t, m
  <1>10. Joined(h, n) = Cat(Joined(f, n), t)
    BY <1>4, <1>7, <1>8, <1>9, JoinedAdd
  <1>11. Append(InLine(P, n, T), m) = Cat(InLine(P, n, T), << m >>)
    <2>1. InLine(P, n, T) \in Seq(S)
      BY InLineDef
    <2>2. QED
      BY <1>6, <2>1, CatAppend
  <1>12. QED
    BY <1>3, <1>4, <1>10, <1>11 DEF m, t
-----------------------------------------------------------------------------
(* The queues of a ring as one table t, with the queues X; a line of them  *)
(* is what a message passes: at[n] first and at[1] last.                    *)
Route(t, at, n)   == [k \in 1 .. n |-> t[at[k]]]
Way(at, n, X)     == /\ \A k \in 1 .. n : at[k] \in X
                     /\ \A j, k \in 1 .. n : at[j] = at[k] => j = k
Filled(t, X, D)    == \A u \in X : t[u] \in Seq(D)
Alike(t, t2, X, T) == \A u \in X : Msgs(t2[u], T) = Msgs(t[u], T)
SameBar(t, t2, X, v) == \A u \in X : u # v => t2[u] = t[u]
Rest(t, t2, X, A) == \A u \in X : u \notin A => t2[u] = t[u]

(* The queue u comes after v on the way, and no message in T is between.   *)
Before(t, at, n, T, u, v) ==
  \E a, b \in 1 .. n : /\ a < b /\ at[a] = u /\ at[b] = v
                       /\ NoneBetween(Route(t, at, n), n, T, a, b)
(* No message in T has got further than queue v.                           *)
First(t, at, n, T, v) ==
  \E a \in 1 .. n : at[a] = v /\ NoneBetween(Route(t, at, n), n, T, 0, a)

LEMMA RouteLine ==
  ASSUME NEW n \in Nat, NEW X, NEW at, Way(at, n, X), NEW D, NEW t, Filled(t, X, D)
  PROVE  /\ Line(Route(t, at, n), n, D)
         /\ \A k \in 1 .. n : Route(t, at, n)[k] = t[at[k]]
  BY DEF Line, Route, Way, Filled

LEMMA RouteSame ==
  ASSUME NEW T, NEW S, Says(T, S), NEW n \in Nat, NEW X, NEW at, Way(at, n, X), NEW D,
         NEW t, Filled(t, X, D), NEW t2, Filled(t2, X, D), Alike(t, t2, X, T)
  PROVE  InLine(Route(t2, at, n), n, T) = InLine(Route(t, at, n), n, T)
  <1> DEFINE P  == Route(t, at, n)
             P2 == Route(t2, at, n)
  <1>1. Line(P, n, D) /\ \A k \in 1 .. n : P[k] = t[at[k]]
    BY RouteLine
  <1>2. Line(P2, n, D) /\ \A k \in 1 .. n : P2[k] = t2[at[k]]
    BY RouteLine
  <1> HIDE DEF P, P2
  <1>3. \A k \in 1 .. n : Msgs(P2[k], T) = Msgs(P[k], T)
    BY <1>1, <1>2 DEF Way, Alike
  <1>4. InLine(P2, n, T) = InLine(P, n, T)
    BY <1>1, <1>2, <1>3, InLineSame
  <1>5. QED
    BY <1>4 DEF P, P2

(* The other queues are the same on every way.                             *)
LEMMA RouteRest ==
  ASSUME NEW n \in Nat, NEW X, NEW at, Way(at, n, X), NEW D,
         NEW t, Filled(t, X, D), NEW t2, Filled(t2, X, D), NEW A, Rest(t, t2, X, A),
         NEW B, \A k \in 1 .. n : at[k] \in A => k \in B
  PROVE  SameBut(Route(t, at, n), Route(t2, at, n), n, B)
  <1>1. \A k \in 1 .. n : Route(t, at, n)[k] = t[at[k]]
    BY RouteLine
  <1>2. \A k \in 1 .. n : Route(t2, at, n)[k] = t2[at[k]]
    BY RouteLine
  <1>3. QED
    BY <1>1, <1>2 DEF SameBut, Rest, Way

(* A message goes on from queue v to queue u.                              *)
LEMMA Hop ==
  ASSUME NEW T, NEW S, Says(T, S), NEW n \in Nat, NEW X, NEW at, Way(at, n, X), NEW D,
         NEW t, Filled(t, X, D), NEW u \in X, NEW v \in X, u # v, t[v] # << >>,
         Head(t[v]) \in T => Before(t, at, n, T, u, v),
         NEW t2, Enqueued(t2[u], t[u], Head(t[v])), Dequeued(t2[v], t[v]), Rest(t, t2, X, {u, v})
  PROVE  /\ Filled(t2, X, D)
         /\ InLine(Route(t2, at, n), n, T) = InLine(Route(t, at, n), n, T)
  <1> DEFINE P  == Route(t, at, n)
             P2 == Route(t2, at, n)
             x  == Head(t[v])
  <1>1. /\ t[u] \in Seq(D) /\ t[v] \in Seq(D) /\ x \in D /\ Tail(t[v]) \in Seq(D)
        /\ t2[u] = Append(t[u], x) /\ t2[v] = Tail(t[v])
    BY DeqType DEF Filled, Enqueued, Dequeued
  <1> HIDE DEF x
  <1>2. Append(t[u], x) \in Seq(D)
    BY <1>1, EnqType
  <1>3. Filled(t2, X, D)
    BY <1>1, <1>2 DEF Filled, Rest
  <1>4. CASE x \notin T
    <2>1. Msgs(Append(t[u], x), T) = Msgs(t[u], T)
      BY <1>1, <1>4, MsgsPush
    <2>2. Msgs(Tail(t[v]), T) = Msgs(t[v], T)
      BY <1>1, <1>4, MsgsSkip DEF x
    <2>3. Alike(t, t2, X, T)
      BY <1>1, <2>1, <2>2 DEF Alike, Rest
    <2>4. QED
      BY <1>3, <2>3, RouteSame
  <1>5. CASE x \in T
    <2>1. PICK a \in 1 .. n, b \in 1 .. n :
            a < b /\ at[a] = u /\ at[b] = v /\ NoneBetween(P, n, T, a, b)
      BY <1>5 DEF Before, x
    <2>2. Line(P, n, D) /\ P[a] = t[u] /\ P[b] = t[v]
      BY <2>1, RouteLine
    <2>3. P2[a] = t2[u] /\ P2[b] = t2[v]
      BY <1>3, <2>1, RouteLine
    <2>4. SameBut(P, P2, n, {a, b})
      <3>1. \A k \in 1 .. n : at[k] \in {u, v} => k \in {a, b}
        BY <2>1 DEF Way
      <3>2. QED
        BY <1>3, <3>1, RouteRest
    <2> HIDE DEF P, P2
    <2>5. InLine(P2, n, T) = InLine(P, n, T)
      BY <1>1, <2>1, <2>2, <2>3, <2>4, InLineMove DEF x
    <2>6. QED
      BY <1>3, <2>5 DEF P, P2
  <1>6. QED
    BY <1>4, <1>5

(* A message leaves queue v for good.                                      *)
LEMMA Leave ==
  ASSUME NEW T, NEW S, Says(T, S), NEW n \in Nat, NEW X, NEW at, Way(at, n, X), NEW D,
         NEW t, Filled(t, X, D), NEW v \in X, t[v] # << >>,
         Head(t[v]) \in T => First(t, at, n, T, v),
         NEW t2, Dequeued(t2[v], t[v]), SameBar(t, t2, X, v)
  PROVE  /\ Filled(t2, X, D)
         /\ Head(t[v]) \notin T =>
              InLine(Route(t2, at, n), n, T) = InLine(Route(t, at, n), n, T)
         /\ Head(t[v]) \in T =>
              Gave(InLine(Route(t2, at, n), n, T), InLine(Route(t, at, n), n, T), Head(t[v]).msg)
  <1> DEFINE P  == Route(t, at, n)
             P2 == Route(t2, at, n)
  <1>1. t[v] \in Seq(D) /\ Tail(t[v]) \in Seq(D) /\ t2[v] = Tail(t[v])
    BY DeqType DEF Filled, Dequeued
  <1>2. Filled(t2, X, D)
    BY <1>1 DEF Filled, SameBar
  <1>3. Rest(t, t2, X, {v})
    BY DEF Rest, SameBar
  <1>4. ASSUME Head(t[v]) \notin T PROVE InLine(P2, n, T) = InLine(P, n, T)
    <2>1. Msgs(Tail(t[v]), T) = Msgs(t[v], T)
      BY <1>1, <1>4, MsgsSkip
    <2>2. Alike(t, t2, X, T)
      BY <1>1, <2>1 DEF Alike, SameBar
    <2>3. Says(T, S) /\ n \in Nat /\ Way(at, n, X) /\ Filled(t, X, D)
      OBVIOUS
    <2>4. QED
      BY ONLY <1>2, <2>2, <2>3, RouteSame
  <1>5. ASSUME Head(t[v]) \in T
        PROVE  Gave(InLine(P2, n, T), InLine(P, n, T), Head(t[v]).msg)
    <2>1. PICK a \in 1 .. n : at[a] = v /\ NoneBetween(P, n, T, 0, a)
      BY <1>5 DEF First
    <2>2. Line(P, n, D) /\ P[a] = t[v]
      BY <2>1, RouteLine
    <2>3. P2[a] = Tail(t[v])
      BY <1>1, <1>2, <2>1, RouteLine
    <2>4. SameBut(P, P2, n, {a})
      <3>1. \A k \in 1 .. n : at[k] \in {v} => k \in {a}
        BY <2>1 DEF Way
      <3>2. QED
        BY <1>2, <1>3, <3>1, RouteRest
    <2>5. P[a] # << >> /\ Head(P[a]) \in T /\ Dequeued(P2[a], P[a])
      BY <1>5, <2>2, <2>3 DEF Dequeued
    <2>6. Gave(InLine(P2, n, T), InLine(P, n, T), Head(P[a]).msg)
      <3>1. /\ Says(T, S) /\ n \in Nat /\ a \in 1 .. n /\ Line(P, n, D)
            /\ NoneBetween(P, n, T, 0, a)
        BY <2>1, <2>2
      <3>2. QED
        BY ONLY <2>4, <2>5, <3>1, InLineTake
    <2>7. QED
      BY <2>2, <2>6
  <1>6. QED
    BY <1>2, <1>4, <1>5

(* A message enters the queue v.                                           *)
LEMMA Enter ==
  ASSUME NEW T, NEW S, Says(T, S), NEW n \in Nat, n # 0, NEW X, NEW at, Way(at, n, X), NEW D,
         NEW t, Filled(t, X, D), NEW v \in X, NEW x \in D, x \in T => at[n] = v,
         NEW t2, Enqueued(t2[v], t[v], x), SameBar(t, t2, X, v)
  PROVE  /\ Filled(t2, X, D)
         /\ x \notin T => InLine(Route(t2, at, n), n, T) = InLine(Route(t, at, n), n, T)
         /\ x \in T =>
              Enqueued(InLine(Route(t2, at, n), n, T), InLine(Route(t, at, n), n, T), x.msg)
  <1> DEFINE P  == Route(t, at, n)
             P2 == Route(t2, at, n)
  <1>1. t[v] \in Seq(D) /\ Append(t[v], x) \in Seq(D) /\ t2[v] = Append(t[v], x)
    BY EnqType DEF Filled, Enqueued
  <1>2. Filled(t2, X, D)
    BY <1>1 DEF Filled, SameBar
  <1>3. Rest(t, t2, X, {v})
    BY DEF Rest, SameBar
  <1>4. ASSUME x \notin T PROVE InLine(P2, n, T) = InLine(P, n, T)
    <2>1. Msgs(Append(t[v], x), T) = Msgs(t[v], T)
      BY <1>1, <1>4, MsgsPush
    <2>2. Alike(t, t2, X, T)
      BY <1>1, <2>1 DEF Alike, SameBar
    <2>3. Says(T, S) /\ n \in Nat /\ Way(at, n, X) /\ Filled(t, X, D)
      OBVIOUS
    <2>4. QED
      BY ONLY <1>2, <2>2, <2>3, RouteSame
  <1>5. ASSUME x \in T PROVE Enqueued(InLine(P2, n, T), InLine(P, n, T), x.msg)
    <2>1. n \in 1 .. n /\ at[n] = v
      BY <1>5
    <2>2. Line(P, n, D) /\ P[n] = t[v]
      BY <2>1, RouteLine
    <2>3. P2[n] = Append(t[v], x)
      BY <1>1, <1>2, <2>1, RouteLine
    <2>4. SameBut(P, P2, n, {n})
      <3>1. \A k \in 1 .. n : at[k] \in {v} => k \in {n}
        BY <2>1 DEF Way
      <3>2. QED
        BY <1>2, <1>3, <3>1, RouteRest
    <2>5. Enqueued(P2[n], P[n], x)
      BY <2>2, <2>3 DEF Enqueued
    <2>6. Says(T, S) /\ n \in Nat /\ n # 0 /\ x \in D /\ Line(P, n, D) /\ x \in T
      BY <1>5, <2>2
    <2>7. InLine(P2, n, T) = Append(InLine(P, n, T), x.msg)
      BY ONLY <2>4, <2>5, <2>6, InLineAdd
    <2>8. QED
      BY <2>7 DEF Enqueued
  <1>6. QED
    BY <1>2, <1>4, <1>5
-----------------------------------------------------------------------------
(* A table of queues; enq(x) and deq of one.                              *)
Fifos(l, A, D)     == l \in [A -> Seq(D)]
EnqAt(l, l2, n, x) == l2 = [l EXCEPT ![n] = Append(@, x)]
DeqAt(l, l2, n)    == l2 = [l EXCEPT ![n] = Tail(@)]

LEMMA EnqAtIs ==
  ASSUME NEW A, NEW D, NEW l, Fifos(l, A, D), NEW n \in A, NEW x \in D,
         NEW l2, EnqAt(l, l2, n, x)
  PROVE  Fifos(l2, A, D) /\ Enqueued(l2[n], l[n], x) /\ SameBar(l, l2, A, n)
  <1>1. l[n] \in Seq(D)
    BY DEF Fifos
  <1>2. Append(l[n], x) \in Seq(D)
    BY <1>1, EnqType
  <1>3. QED
    BY <1>2 DEF EnqAt, Enqueued, SameBar, Fifos

LEMMA DeqAtIs ==
  ASSUME NEW A, NEW D, NEW l, Fifos(l, A, D), NEW n \in A, l[n] # << >>,
         NEW l2, DeqAt(l, l2, n)
  PROVE  Fifos(l2, A, D) /\ Dequeued(l2[n], l[n]) /\ SameBar(l, l2, A, n) /\ Head(l[n]) \in D
  <1>1. l[n] \in Seq(D)
    BY DEF Fifos
  <1>2. Tail(l[n]) \in Seq(D) /\ Head(l[n]) \in D
    BY <1>1, DeqType
  <1>3. QED
    BY <1>2 DEF DeqAt, Dequeued, SameBar, Fifos
-----------------------------------------------------------------------------
(* A ring of M stops: the stop before n, the links from stop n to stop d   *)
(* (at least one), and the stop from which stop d is k links away.         *)
RingOf(M)       == 0 .. M - 1
Links(M)        == 1 .. M
Pre(M, n)       == IF n = 0 THEN M - 1 ELSE n - 1
LinksTo(M, n, d)  == IF d > n THEN d - n ELSE d + M - n
LinkTo(M, d, k) == IF k <= d THEN d - k ELSE d + M - k

LEMMA RingGeometry ==
  ASSUME NEW M \in Nat \ {0}, NEW d \in RingOf(M)
  PROVE  /\ \A k \in Links(M) : LinkTo(M, d, k) \in RingOf(M) /\ LinksTo(M, LinkTo(M, d, k), d) = k
         /\ \A n \in RingOf(M) : /\ LinksTo(M, n, d) \in Links(M) /\ LinkTo(M, d, LinksTo(M, n, d)) = n
                                 /\ Pre(M, n) \in RingOf(M)
  BY DEF Pre, LinksTo, LinkTo, RingOf, Links

LEMMA NextLink ==
  ASSUME NEW M \in Nat \ {0}, NEW d \in RingOf(M), NEW n \in RingOf(M)
  PROVE  /\ n # d => LinksTo(M, Pre(M, n), d) = LinksTo(M, n, d) + 1
         /\ n = d => LinksTo(M, Pre(M, n), d) = 1
  BY DEF Pre, LinksTo, RingOf

LEMMA LineOfRing ==
  ASSUME NEW M \in Nat \ {0}
  PROVE  /\ M + 1 \in Nat /\ M + 1 # 0 /\ M + 1 \in 1 .. M + 1 /\ ~(M + 1 <= M)
         /\ M + 1 \notin Links(M)
         /\ \A k \in Links(M) : k \in 1 .. M + 1 /\ k <= M /\ k < M + 1
         /\ \A k \in 1 .. M + 1 : k = M + 1 \/ k \in Links(M)
  BY DEF Links

(* The queues of the ring, a link l[n] and a queue q[n] of what its client *)
(* sends for each stop, and the way of a message from s to d.              *)
LinkAt(n)         == <<0, n>>
SendAt(n)         == <<1, n>>
RingPlaces(M)     == {0, 1} \X RingOf(M)
RingTable(M, l, q) == [p \in RingPlaces(M) |-> IF p[1] = 0 THEN l[p[2]] ELSE q[p[2]]]
RingWay(M, s, d)  == [k \in 1 .. M + 1 |-> IF k <= M THEN LinkAt(LinkTo(M, d, k)) ELSE SendAt(s)]
Round(M, l, q, s, d) == [k \in 1 .. M + 1 |-> IF k <= M THEN l[LinkTo(M, d, k)] ELSE q[s]]

LEMMA PlaceIs ==
  ASSUME NEW M
  PROVE  /\ \A n \in RingOf(M) : LinkAt(n) \in RingPlaces(M) /\ SendAt(n) \in RingPlaces(M)
         /\ \A p \in RingPlaces(M) : \E n \in RingOf(M) : p = LinkAt(n) \/ p = SendAt(n)
  BY DEF RingPlaces, LinkAt, SendAt

LEMMA NoPlaceTwice ==
  /\ \A n, m : LinkAt(n) # SendAt(m)
  /\ \A n, m : LinkAt(n) = LinkAt(m) => n = m
  /\ \A n, m : SendAt(n) = SendAt(m) => n = m
  BY DEF LinkAt, SendAt

LEMMA RingTableIs ==
  ASSUME NEW M, NEW l, NEW q, NEW n \in RingOf(M)
  PROVE  RingTable(M, l, q)[LinkAt(n)] = l[n] /\ RingTable(M, l, q)[SendAt(n)] = q[n]
  BY PlaceIs DEF RingTable, LinkAt, SendAt

LEMMA RingWayIs ==
  ASSUME NEW M \in Nat \ {0}, NEW s \in RingOf(M), NEW d \in RingOf(M)
  PROVE  /\ Way(RingWay(M, s, d), M + 1, RingPlaces(M))
         /\ RingWay(M, s, d)[M + 1] = SendAt(s)
         /\ \A k \in Links(M) : RingWay(M, s, d)[k] = LinkAt(LinkTo(M, d, k))
  <1> DEFINE at == RingWay(M, s, d)
  <1>1. at[M + 1] = SendAt(s)
    BY LineOfRing DEF RingWay
  <1>2. \A k \in Links(M) : at[k] = LinkAt(LinkTo(M, d, k))
    BY LineOfRing DEF RingWay
  <1>3. \A k \in Links(M) : LinkTo(M, d, k) \in RingOf(M)
    BY RingGeometry
  <1>4. \A j, k \in Links(M) : LinkTo(M, d, j) = LinkTo(M, d, k) => j = k
    BY RingGeometry
  <1> HIDE DEF at
  <1>5. \A k \in 1 .. M + 1 : at[k] \in RingPlaces(M)
    <2>1. \A k \in Links(M) : at[k] \in RingPlaces(M)
      BY <1>2, <1>3, PlaceIs
    <2>2. at[M + 1] \in RingPlaces(M)
      BY <1>1, PlaceIs
    <2>3. QED
      BY <2>1, <2>2, LineOfRing
  <1>6. \A j, k \in 1 .. M + 1 : at[j] = at[k] => j = k
    <2>1. \A j, k \in Links(M) : at[j] = at[k] => j = k
      BY <1>2, <1>4, NoPlaceTwice
    <2>2. \A k \in Links(M) : at[k] # at[M + 1]
      BY <1>1, <1>2, NoPlaceTwice
    <2>3. QED
      BY <2>1, <2>2, LineOfRing
  <1>7. Way(at, M + 1, RingPlaces(M))
    BY <1>5, <1>6 DEF Way
  <1>8. QED
    BY <1>1, <1>2, <1>7 DEF at

LEMMA RingFilled ==
  ASSUME NEW M, NEW D, NEW l, Fifos(l, RingOf(M), D), NEW q, Fifos(q, RingOf(M), D)
  PROVE  Filled(RingTable(M, l, q), RingPlaces(M), D)
  <1>1. \A n \in RingOf(M) : l[n] \in Seq(D) /\ q[n] \in Seq(D)
    BY DEF Fifos
  <1>2. ASSUME NEW n \in RingOf(M)
        PROVE  /\ RingTable(M, l, q)[LinkAt(n)] \in Seq(D)
               /\ RingTable(M, l, q)[SendAt(n)] \in Seq(D)
    <2>1. RingTable(M, l, q)[LinkAt(n)] = l[n] /\ RingTable(M, l, q)[SendAt(n)] = q[n]
      BY RingTableIs
    <2>2. QED
      BY <1>1, <2>1
  <1>3. QED
    BY <1>2, PlaceIs DEF Filled

LEMMA RoundIsRoute ==
  ASSUME NEW M \in Nat \ {0}, NEW s \in RingOf(M), NEW d \in RingOf(M), NEW l, NEW q
  PROVE  Round(M, l, q, s, d) = Route(RingTable(M, l, q), RingWay(M, s, d), M + 1)
  <1> DEFINE at == RingWay(M, s, d)
             t  == RingTable(M, l, q)
  <1>1. \A k \in Links(M) : t[at[k]] = l[LinkTo(M, d, k)]
    <2>1. \A k \in Links(M) : at[k] = LinkAt(LinkTo(M, d, k)) /\ LinkTo(M, d, k) \in RingOf(M)
      BY RingWayIs, RingGeometry
    <2>2. \A n \in RingOf(M) : t[LinkAt(n)] = l[n]
      BY RingTableIs
    <2> HIDE DEF at, t
    <2>3. QED
      BY <2>1, <2>2
  <1>2. t[at[M + 1]] = q[s]
    <2>1. at[M + 1] = SendAt(s)
      BY RingWayIs
    <2>2. t[SendAt(s)] = q[s]
      BY RingTableIs
    <2>3. QED
      BY <2>1, <2>2
  <1> HIDE DEF at, t
  <1>3. \A k \in 1 .. M + 1 : t[at[k]] = IF k <= M THEN l[LinkTo(M, d, k)] ELSE q[s]
    BY <1>1, <1>2, LineOfRing
  <1>4. Round(M, l, q, s, d) = [k \in 1 .. M + 1 |-> t[at[k]]]
    BY <1>3 DEF Round
  <1>5. QED
    BY <1>4 DEF Route, at, t

(* Two tables that differ in the queues of some places only.               *)
LEMMA RingRest ==
  ASSUME NEW M, NEW l, NEW q, NEW l2, NEW q2, NEW A,
         \A n \in RingOf(M) : LinkAt(n) \notin A => l2[n] = l[n],
         \A n \in RingOf(M) : SendAt(n) \notin A => q2[n] = q[n]
  PROVE  Rest(RingTable(M, l, q), RingTable(M, l2, q2), RingPlaces(M), A)
  <1> DEFINE t  == RingTable(M, l, q)
             t2 == RingTable(M, l2, q2)
  <1>1. ASSUME NEW n \in RingOf(M)
        PROVE  /\ t[LinkAt(n)] = l[n] /\ t2[LinkAt(n)] = l2[n]
               /\ t[SendAt(n)] = q[n] /\ t2[SendAt(n)] = q2[n]
    BY RingTableIs
  <1> HIDE DEF t, t2
  <1>2. \A p \in RingPlaces(M) : p \notin A => t2[p] = t[p]
    BY <1>1, PlaceIs
  <1>3. QED
    BY <1>2 DEF Rest, t, t2

(* No message in T is on a link further from d than the one out of s.      *)
NoneBehind(M, l, T, s, d) ==
  \A m \in RingOf(M) : LinksTo(M, m, d) > LinksTo(M, s, d) => Free(l[m], T)

LEMMA SourceLast ==
  ASSUME NEW M \in Nat \ {0}, NEW s \in RingOf(M), NEW d \in RingOf(M), NEW T, NEW l, NEW q,
         NoneBehind(M, l, T, s, d)
  PROVE  Before(RingTable(M, l, q), RingWay(M, s, d), M + 1, T, LinkAt(s), SendAt(s))
  <1> DEFINE at == RingWay(M, s, d)
             t  == RingTable(M, l, q)
             a  == LinksTo(M, s, d)
             P  == Route(t, at, M + 1)
  <1>1. a \in Links(M) /\ LinkTo(M, d, a) = s
    BY RingGeometry
  <1>2. at[M + 1] = SendAt(s) /\ at[a] = LinkAt(s)
    BY <1>1, RingWayIs
  <1>3. a \in 1 .. M + 1 /\ M + 1 \in 1 .. M + 1 /\ a < M + 1
    BY <1>1, LineOfRing
  <1>4. ASSUME NEW k \in Links(M), a < k PROVE Free(P[k], T)
    <2>1. LinkTo(M, d, k) \in RingOf(M) /\ LinksTo(M, LinkTo(M, d, k), d) = k
      BY RingGeometry
    <2>2. at[k] = LinkAt(LinkTo(M, d, k)) /\ k \in 1 .. M + 1
      BY RingWayIs, LineOfRing
    <2>3. P[k] = t[at[k]]
      BY <2>2 DEF Route
    <2>4. t[LinkAt(LinkTo(M, d, k))] = l[LinkTo(M, d, k)]
      BY <2>1, RingTableIs
    <2>5. P[k] = l[LinkTo(M, d, k)]
      BY <2>2, <2>3, <2>4
    <2>6. LinksTo(M, LinkTo(M, d, k), d) > a
      BY <1>1, <1>4, <2>1 DEF Links
    <2>7. QED
      BY <2>1, <2>5, <2>6 DEF NoneBehind
  <1>5. NoneBetween(P, M + 1, T, a, M + 1)
    <2>1. ~(M + 1 < M + 1)
      OBVIOUS
    <2> HIDE DEF P, a
    <2>2. QED
      BY <1>4, <2>1, LineOfRing DEF NoneBetween
  <1> HIDE DEF a
  <1>6. QED
    BY <1>2, <1>3, <1>5 DEF Before

LEMMA RingBar ==
  ASSUME NEW M, NEW l, NEW q, NEW l2, NEW q2, NEW v,
         \A n \in RingOf(M) : LinkAt(n) # v => l2[n] = l[n],
         \A n \in RingOf(M) : SendAt(n) # v => q2[n] = q[n]
  PROVE  SameBar(RingTable(M, l, q), RingTable(M, l2, q2), RingPlaces(M), v)
  <1>1. \A n \in RingOf(M) : LinkAt(n) \notin {v} => l2[n] = l[n]
    OBVIOUS
  <1>2. \A n \in RingOf(M) : SendAt(n) \notin {v} => q2[n] = q[n]
    OBVIOUS
  <1>3. Rest(RingTable(M, l, q), RingTable(M, l2, q2), RingPlaces(M), {v})
    BY <1>1, <1>2, RingRest
  <1>4. QED
    BY <1>3 DEF Rest, SameBar

(* The oldest message of q[n] goes to l[n].                                *)
SentAt(l, l2, q, q2, n) ==
  q[n] # << >> /\ EnqAt(l, l2, n, Head(q[n])) /\ DeqAt(q, q2, n)

(* sendToRing of stop n.  The message comes after all others from s to d,  *)
(* if it is one.                                                           *)
LEMMA RingSend ==
  ASSUME NEW M \in Nat \ {0}, NEW s \in RingOf(M), NEW d \in RingOf(M),
         NEW T, NEW S, Says(T, S), NEW D,
         NEW l, Fifos(l, RingOf(M), D), NEW q, Fifos(q, RingOf(M), D),
         NEW n \in RingOf(M), Head(q[n]) \in T => n = s, NoneBehind(M, l, T, s, d),
         NEW l2, NEW q2, SentAt(l, l2, q, q2, n)
  PROVE  /\ Fifos(l2, RingOf(M), D) /\ Fifos(q2, RingOf(M), D)
         /\ InLine(Round(M, l2, q2, s, d), M + 1, T) = InLine(Round(M, l, q, s, d), M + 1, T)
  <1> DEFINE X  == RingPlaces(M)
             at == RingWay(M, s, d)
             t  == RingTable(M, l, q)
             t2 == RingTable(M, l2, q2)
             u  == LinkAt(n)
             v  == SendAt(n)
             x  == Head(q[n])
  <1>0. q[n] # << >> /\ EnqAt(l, l2, n, x) /\ DeqAt(q, q2, n)
    BY DEF SentAt
  <1>1. /\ Fifos(q2, RingOf(M), D) /\ Dequeued(q2[n], q[n]) /\ SameBar(q, q2, RingOf(M), n)
        /\ x \in D
    BY <1>0, DeqAtIs
  <1>2. /\ Fifos(l2, RingOf(M), D) /\ Enqueued(l2[n], l[n], x) /\ SameBar(l, l2, RingOf(M), n)
    BY <1>0, <1>1, EnqAtIs
  <1>3. t[u] = l[n] /\ t2[u] = l2[n] /\ t[v] = q[n] /\ t2[v] = q2[n]
    BY RingTableIs
  <1>4. u \in X /\ v \in X /\ u # v
    BY PlaceIs, NoPlaceTwice
  <1>5. Rest(t, t2, X, {u, v})
    <2>1. \A m \in RingOf(M) : LinkAt(m) \notin {u, v} => l2[m] = l[m]
      BY <1>2 DEF SameBar
    <2>2. \A m \in RingOf(M) : SendAt(m) \notin {u, v} => q2[m] = q[m]
      BY <1>1 DEF SameBar
    <2>3. QED
      BY <2>1, <2>2, RingRest
  <1>6. x \in T => Before(t, at, M + 1, T, u, v)
    BY SourceLast
  <1>7. Filled(t, X, D) /\ Way(at, M + 1, X) /\ M + 1 \in Nat
    BY RingFilled, RingWayIs, LineOfRing
  <1>8. /\ t[v] # << >> /\ (Head(t[v]) \in T => Before(t, at, M + 1, T, u, v))
        /\ Enqueued(t2[u], t[u], Head(t[v])) /\ Dequeued(t2[v], t[v])
    BY <1>0, <1>1, <1>2, <1>3, <1>6
  <1> HIDE DEF X, at, t, t2, u, v, x
  <1>9. InLine(Route(t2, at, M + 1), M + 1, T) = InLine(Route(t, at, M + 1), M + 1, T)
    BY <1>4, <1>5, <1>7, <1>8, Hop
  <1>10. QED
    BY <1>1, <1>2, <1>9, RoundIsRoute DEF t, t2, at

(* Two rings whose queues hold the same messages from s to d.              *)
LEMMA RingAlike ==
  ASSUME NEW M \in Nat \ {0}, NEW s \in RingOf(M), NEW d \in RingOf(M),
         NEW T, NEW S, Says(T, S), NEW D,
         NEW l, Fifos(l, RingOf(M), D), NEW q, Fifos(q, RingOf(M), D),
         NEW l2, Fifos(l2, RingOf(M), D), NEW q2, Fifos(q2, RingOf(M), D),
         Alike(l, l2, RingOf(M), T), Alike(q, q2, RingOf(M), T)
  PROVE  InLine(Round(M, l2, q2, s, d), M + 1, T) = InLine(Round(M, l, q, s, d), M + 1, T)
  <1> DEFINE X  == RingPlaces(M)
             at == RingWay(M, s, d)
             t  == RingTable(M, l, q)
             t2 == RingTable(M, l2, q2)
  <1>1. ASSUME NEW n \in RingOf(M)
        PROVE  /\ Msgs(t2[LinkAt(n)], T) = Msgs(t[LinkAt(n)], T)
               /\ Msgs(t2[SendAt(n)], T) = Msgs(t[SendAt(n)], T)
    BY RingTableIs DEF Alike
  <1>2. ASSUME NEW u \in X PROVE Msgs(t2[u], T) = Msgs(t[u], T)
    BY <1>1, PlaceIs
  <1>3. Alike(t, t2, X, T)
    BY <1>2 DEF Alike
  <1>4. Filled(t, X, D) /\ Filled(t2, X, D) /\ Way(at, M + 1, X) /\ M + 1 \in Nat
    BY RingFilled, RingWayIs, LineOfRing
  <1> HIDE DEF X, at, t, t2
  <1>5. InLine(Route(t2, at, M + 1), M + 1, T) = InLine(Route(t, at, M + 1), M + 1, T)
    BY ONLY <1>3, <1>4, RouteSame, Says(T, S)
  <1>6. QED
    BY <1>5, RoundIsRoute DEF t, t2, at

(* The messages from s to d are messages; there are none in an empty ring. *)
LEMMA RingLine ==
  ASSUME NEW M \in Nat \ {0}, NEW s \in RingOf(M), NEW d \in RingOf(M),
         NEW T, NEW S, Says(T, S), NEW D,
         NEW l, Fifos(l, RingOf(M), D), NEW q, Fifos(q, RingOf(M), D)
  PROVE  /\ InLine(Round(M, l, q, s, d), M + 1, T) \in Seq(S)
         /\ (\A n \in RingOf(M) : Free(l[n], T) /\ Free(q[n], T)) =>
              InLine(Round(M, l, q, s, d), M + 1, T) = << >>
  <1> DEFINE P == Round(M, l, q, s, d)
  <1>1. \A k \in 1 .. M + 1 : \E n \in RingOf(M) : P[k] = l[n] \/ P[k] = q[n]
    <2>1. ASSUME NEW k \in Links(M)
          PROVE  k \in 1 .. M + 1 /\ LinkTo(M, d, k) \in RingOf(M) /\ P[k] = l[LinkTo(M, d, k)]
      BY LineOfRing, RingGeometry DEF Round
    <2>2. P[M + 1] = q[s]
      BY LineOfRing DEF Round
    <2>3. QED
      BY <2>1, <2>2, LineOfRing
  <1>2. \A n \in RingOf(M) : l[n] \in Seq(D) /\ q[n] \in Seq(D)
    BY DEF Fifos
  <1>3. M + 1 \in Nat
    BY LineOfRing
  <1> HIDE DEF P
  <1>4. Line(P, M + 1, D)
    BY <1>1, <1>2 DEF Line
  <1>5. InLine(P, M + 1, T) \in Seq(S)
    BY <1>3, <1>4, InLineDef
  <1>6. ASSUME \A n \in RingOf(M) : Free(l[n], T) /\ Free(q[n], T)
        PROVE  InLine(P, M + 1, T) = << >>
    <2>1. \A k \in 1 .. M + 1 : Free(P[k], T)
      BY <1>1, <1>6
    <2>2. QED
      BY <1>3, <1>4, <2>1, InLineNone
  <1>7. QED
    BY <1>5, <1>6 DEF P

(* sendToRing of every stop of an empty ring at once.  One of the messages *)
(* at most is from s to d.                                                 *)
AllSend(M, l, l2, q, q2) ==
  \A n \in RingOf(M) : /\ l[n] = << >> /\ q[n] # << >>
                       /\ l2[n] = << Head(q[n]) >> /\ q2[n] = Tail(q[n])
OnlyOf(M, q, T, s) == \A n \in RingOf(M) : Head(q[n]) \in T => n = s

LEMMA FirstOne ==
  ASSUME NEW x
  PROVE  Append(<< >>, x) = << x >>
  OBVIOUS

LEMMA RingSendAll ==
  ASSUME NEW M \in Nat \ {0}, NEW s \in RingOf(M), NEW d \in RingOf(M),
         NEW T, NEW S, Says(T, S), NEW D,
         NEW l, Fifos(l, RingOf(M), D), NEW q, Fifos(q, RingOf(M), D),
         NEW l2, Fifos(l2, RingOf(M), D), NEW q2, Fifos(q2, RingOf(M), D),
         AllSend(M, l, l2, q, q2), OnlyOf(M, q, T, s)
  PROVE  InLine(Round(M, l2, q2, s, d), M + 1, T) = InLine(Round(M, l, q, s, d), M + 1, T)
  <1> DEFINE l1 == [l EXCEPT ![s] = Append(@, Head(q[s]))]
             q1 == [q EXCEPT ![s] = Tail(@)]
  <1>1. SentAt(l, l1, q, q1, s)
    <2>1. EnqAt(l, l1, s, Head(q[s])) /\ DeqAt(q, q1, s)
      BY DEF EnqAt, DeqAt
    <2>2. q[s] # << >>
      BY DEF AllSend
    <2>3. QED
      BY <2>1, <2>2 DEF SentAt
  <1>2. NoneBehind(M, l, T, s, d)
    BY DEF NoneBehind, AllSend, Free
  <1>3. Head(q[s]) \in T => s = s
    OBVIOUS
  <1>4. l1[s] = << Head(q[s]) >> /\ q1[s] = Tail(q[s])
    <2>1. l[s] = << >>
      BY DEF AllSend
    <2>2. l1[s] = Append(l[s], Head(q[s])) /\ q1[s] = Tail(q[s])
      BY DEF Fifos
    <2>3. QED
      BY <2>1, <2>2, FirstOne
  <1>5. \A n \in RingOf(M) : n # s => l1[n] = << >> /\ q1[n] = q[n]
    BY DEF Fifos, AllSend
  <1> HIDE DEF l1, q1
  <1>6. /\ Fifos(l1, RingOf(M), D) /\ Fifos(q1, RingOf(M), D)
        /\ InLine(Round(M, l1, q1, s, d), M + 1, T) = InLine(Round(M, l, q, s, d), M + 1, T)
    BY <1>1, <1>2, <1>3, RingSend
  <1>7. ASSUME NEW n \in RingOf(M)
        PROVE  Msgs(l2[n], T) = Msgs(l1[n], T) /\ Msgs(q2[n], T) = Msgs(q1[n], T)
    <2>1. CASE n = s
      BY <1>4, <2>1 DEF AllSend
    <2>2. CASE n # s
      <3> DEFINE x == Head(q[n])
                 e == l1[n]
      <3>1. x \notin T /\ e = << >> /\ q1[n] = q[n] /\ q[n] # << >> /\ q2[n] = Tail(q[n])
        BY <1>5, <2>2 DEF OnlyOf, AllSend
      <3>2. q[n] \in Seq(D) /\ x \in D
        BY <3>1, DeqType DEF Fifos
      <3>3. Append(e, x) = << x >> /\ l2[n] = << x >> /\ e \in Seq(D)
        <4>1. l2[n] = << x >>
          BY DEF AllSend
        <4>2. << >> \in Seq(D)
          OBVIOUS
        <4>3. QED
          BY <3>1, <4>1, <4>2, FirstOne
      <3> HIDE DEF x, e
      <3>4. Msgs(Append(e, x), T) = Msgs(e, T)
        <4>1. x \notin T /\ x \in D /\ e \in Seq(D) /\ Says(T, S)
          BY <3>1, <3>2, <3>3
        <4>2. QED
          BY ONLY <4>1, MsgsPush
      <3>5. Msgs(Tail(q[n]), T) = Msgs(q[n], T)
        BY <3>1, <3>2, MsgsSkip DEF x
      <3>6. QED
        BY <3>1, <3>3, <3>4, <3>5 DEF e
    <2>3. QED
      BY <2>1, <2>2
  <1>8. Alike(l1, l2, RingOf(M), T) /\ Alike(q1, q2, RingOf(M), T)
    BY <1>7 DEF Alike
  <1>9. InLine(Round(M, l2, q2, s, d), M + 1, T) = InLine(Round(M, l1, q1, s, d), M + 1, T)
    BY <1>6, <1>8, RingAlike
  <1>10. QED
    BY <1>6, <1>9

(* forwardOnRing of stop n, which the message is not for. *)
LEMMA RingForward ==
  ASSUME NEW M \in Nat \ {0}, NEW s \in RingOf(M), NEW d \in RingOf(M),
         NEW T, NEW S, Says(T, S), NEW D,
         NEW l, Fifos(l, RingOf(M), D), NEW q, Fifos(q, RingOf(M), D),
         NEW n \in RingOf(M), NEW p, p = Pre(M, n), p # n, l[p] # << >>,
         NEW x, x = Head(l[p]), x \in T => n # d,
         NEW l1, DeqAt(l, l1, p), NEW l2, EnqAt(l1, l2, n, x)
  PROVE  /\ Fifos(l2, RingOf(M), D)
         /\ InLine(Round(M, l2, q, s, d), M + 1, T) = InLine(Round(M, l, q, s, d), M + 1, T)
  <1> DEFINE X  == RingPlaces(M)
             at == RingWay(M, s, d)
             t  == RingTable(M, l, q)
             t2 == RingTable(M, l2, q)
             u  == LinkAt(n)
             v  == LinkAt(p)
  <1>0. p \in RingOf(M)
    BY RingGeometry
  <1>1. /\ Fifos(l1, RingOf(M), D) /\ Dequeued(l1[p], l[p]) /\ SameBar(l, l1, RingOf(M), p)
        /\ x \in D
    BY <1>0, DeqAtIs
  <1>2. Fifos(l2, RingOf(M), D) /\ Enqueued(l2[n], l1[n], x) /\ SameBar(l1, l2, RingOf(M), n)
    BY <1>1, EnqAtIs
  <1>3. t[u] = l[n] /\ t2[u] = l2[n] /\ t[v] = l[p] /\ t2[v] = l2[p]
    BY <1>0, RingTableIs
  <1>4. u \in X /\ v \in X /\ u # v
    BY <1>0, PlaceIs, NoPlaceTwice
  <1>5. l1[n] = l[n] /\ l2[p] = l1[p] /\ \A m \in RingOf(M) : m # n /\ m # p => l2[m] = l[m]
    BY <1>0, <1>1, <1>2 DEF SameBar
  <1>6. Rest(t, t2, X, {u, v})
    <2>1. \A m \in RingOf(M) : LinkAt(m) \notin {u, v} => l2[m] = l[m]
      BY <1>5
    <2>2. \A m \in RingOf(M) : SendAt(m) \notin {u, v} => q[m] = q[m]
      OBVIOUS
    <2>3. QED
      BY <2>1, <2>2, RingRest
  <1>7. x \in T => Before(t, at, M + 1, T, u, v)
    <2> SUFFICES ASSUME x \in T PROVE Before(t, at, M + 1, T, u, v)
      OBVIOUS
    <2> DEFINE a == LinksTo(M, n, d)
               b == LinksTo(M, p, d)
               P == Route(t, at, M + 1)
    <2>1. a \in Links(M) /\ b \in Links(M) /\ LinkTo(M, d, a) = n /\ LinkTo(M, d, b) = p
      BY <1>0, RingGeometry
    <2>2. b = a + 1
      BY NextLink
    <2>3. at[a] = u /\ at[b] = v /\ a \in 1 .. M + 1 /\ b \in 1 .. M + 1
      <3>1. at[a] = u /\ at[b] = v
        BY <2>1, RingWayIs
      <3>2. QED
        BY <2>1, <3>1, LineOfRing
    <2> HIDE DEF a, b
    <2>4. a < b /\ \A k \in 1 .. M + 1 : ~(a < k /\ k < b)
      BY <2>1, <2>2 DEF Links
    <2>5. NoneBetween(P, M + 1, T, a, b)
      BY <2>4 DEF NoneBetween
    <2>6. QED
      BY <2>3, <2>4, <2>5 DEF Before
  <1>8. Filled(t, X, D) /\ Way(at, M + 1, X) /\ M + 1 \in Nat
    BY RingFilled, RingWayIs, LineOfRing
  <1>9. /\ t[v] # << >> /\ (Head(t[v]) \in T => Before(t, at, M + 1, T, u, v))
        /\ Enqueued(t2[u], t[u], Head(t[v])) /\ Dequeued(t2[v], t[v])
    BY <1>1, <1>2, <1>3, <1>5, <1>7
  <1> HIDE DEF X, at, t, t2, u, v
  <1>10. InLine(Route(t2, at, M + 1), M + 1, T) = InLine(Route(t, at, M + 1), M + 1, T)
    BY <1>4, <1>6, <1>8, <1>9, Hop
  <1>11. QED
    BY <1>2, <1>10, RoundIsRoute DEF t, t2, at

(* recvFromRing of stop n, for which the message is. *)
LEMMA RingTake ==
  ASSUME NEW M \in Nat \ {0}, NEW s \in RingOf(M), NEW d \in RingOf(M),
         NEW T, NEW S, Says(T, S), NEW D,
         NEW l, Fifos(l, RingOf(M), D), NEW q, Fifos(q, RingOf(M), D),
         NEW n \in RingOf(M), NEW p, p = Pre(M, n), l[p] # << >>,
         NEW x, x = Head(l[p]), x \in T => n = d,
         NEW l2, DeqAt(l, l2, p)
  PROVE  /\ Fifos(l2, RingOf(M), D)
         /\ x \notin T =>
              InLine(Round(M, l2, q, s, d), M + 1, T) = InLine(Round(M, l, q, s, d), M + 1, T)
         /\ x \in T =>
              Gave(InLine(Round(M, l2, q, s, d), M + 1, T), InLine(Round(M, l, q, s, d), M + 1, T), x.msg)
  <1> DEFINE X  == RingPlaces(M)
             at == RingWay(M, s, d)
             t  == RingTable(M, l, q)
             t2 == RingTable(M, l2, q)
             v  == LinkAt(p)
  <1>0. p \in RingOf(M)
    BY RingGeometry
  <1>1. /\ Fifos(l2, RingOf(M), D) /\ Dequeued(l2[p], l[p]) /\ SameBar(l, l2, RingOf(M), p)
        /\ x \in D
    BY <1>0, DeqAtIs
  <1>2. t[v] = l[p] /\ t2[v] = l2[p]
    BY <1>0, RingTableIs
  <1>3. v \in X
    BY <1>0, PlaceIs
  <1>4. SameBar(t, t2, X, v)
    <2>1. \A m \in RingOf(M) : LinkAt(m) # v => l2[m] = l[m]
      BY <1>1 DEF SameBar
    <2>2. \A m \in RingOf(M) : SendAt(m) # v => q[m] = q[m]
      OBVIOUS
    <2>3. QED
      BY <2>1, <2>2, RingBar
  <1>5. x \in T => First(t, at, M + 1, T, v)
    <2> SUFFICES ASSUME x \in T PROVE First(t, at, M + 1, T, v)
      OBVIOUS
    <2> DEFINE a == LinksTo(M, p, d)
               P == Route(t, at, M + 1)
    <2>1. a \in Links(M) /\ LinkTo(M, d, a) = p /\ a = 1
      BY <1>0, RingGeometry, NextLink
    <2>2. at[a] = v /\ a \in 1 .. M + 1
      <3>1. at[a] = v
        BY <2>1, RingWayIs
      <3>2. QED
        BY <2>1, <3>1, LineOfRing
    <2> HIDE DEF a
    <2>3. NoneBetween(P, M + 1, T, 0, a)
      BY <2>1 DEF NoneBetween
    <2>4. QED
      BY <2>2, <2>3 DEF First
  <1>6. Filled(t, X, D) /\ Way(at, M + 1, X) /\ M + 1 \in Nat
    BY RingFilled, RingWayIs, LineOfRing
  <1>7. /\ t[v] # << >> /\ (Head(t[v]) \in T => First(t, at, M + 1, T, v))
        /\ Dequeued(t2[v], t[v]) /\ Head(t[v]) = x
    BY <1>1, <1>2, <1>5
  <1> HIDE DEF X, at, t, t2, v
  <1>8. /\ x \notin T => InLine(Route(t2, at, M + 1), M + 1, T) = InLine(Route(t, at, M + 1), M + 1, T)
        /\ x \in T => Gave(InLine(Route(t2, at, M + 1), M + 1, T),
                           InLine(Route(t, at, M + 1), M + 1, T), x.msg)
    BY <1>3, <1>4, <1>6, <1>7, Leave
  <1>9. QED
    BY <1>1, <1>8, RoundIsRoute DEF t, t2, at

(* The method enq of stop n. *)
LEMMA RingEnter ==
  ASSUME NEW M \in Nat \ {0}, NEW s \in RingOf(M), NEW d \in RingOf(M),
         NEW T, NEW S, Says(T, S), NEW D,
         NEW l, Fifos(l, RingOf(M), D), NEW q, Fifos(q, RingOf(M), D),
         NEW n \in RingOf(M), NEW x \in D, x \in T => n = s,
         NEW q2, EnqAt(q, q2, n, x)
  PROVE  /\ Fifos(q2, RingOf(M), D)
         /\ x \notin T =>
              InLine(Round(M, l, q2, s, d), M + 1, T) = InLine(Round(M, l, q, s, d), M + 1, T)
         /\ x \in T =>
              Enqueued(InLine(Round(M, l, q2, s, d), M + 1, T),
                       InLine(Round(M, l, q, s, d), M + 1, T), x.msg)
  <1> DEFINE X  == RingPlaces(M)
             at == RingWay(M, s, d)
             t  == RingTable(M, l, q)
             t2 == RingTable(M, l, q2)
             v  == SendAt(n)
  <1>1. Fifos(q2, RingOf(M), D) /\ Enqueued(q2[n], q[n], x) /\ SameBar(q, q2, RingOf(M), n)
    BY EnqAtIs
  <1>2. t[v] = q[n] /\ t2[v] = q2[n]
    BY RingTableIs
  <1>3. v \in X
    BY PlaceIs
  <1>4. SameBar(t, t2, X, v)
    <2>1. \A m \in RingOf(M) : SendAt(m) # v => q2[m] = q[m]
      BY <1>1 DEF SameBar
    <2>2. \A m \in RingOf(M) : LinkAt(m) # v => l[m] = l[m]
      OBVIOUS
    <2>3. QED
      BY <2>1, <2>2, RingBar
  <1>5. x \in T => at[M + 1] = v
    BY RingWayIs
  <1>6. Filled(t, X, D) /\ Way(at, M + 1, X) /\ M + 1 \in Nat /\ M + 1 # 0
    BY RingFilled, RingWayIs, LineOfRing
  <1>7. Enqueued(t2[v], t[v], x)
    BY <1>1, <1>2
  <1> HIDE DEF X, at, t, t2, v
  <1>8. /\ x \notin T => InLine(Route(t2, at, M + 1), M + 1, T) = InLine(Route(t, at, M + 1), M + 1, T)
        /\ x \in T => Enqueued(InLine(Route(t2, at, M + 1), M + 1, T),
                               InLine(Route(t, at, M + 1), M + 1, T), x.msg)
    BY <1>3, <1>4, <1>5, <1>6, <1>7, Enter
  <1>9. QED
    BY <1>1, <1>8, RoundIsRoute DEF t, t2, at

(* Something that is no message from s to d goes onto the link of stop n.  *)
LEMMA RingPut ==
  ASSUME NEW M \in Nat \ {0}, NEW s \in RingOf(M), NEW d \in RingOf(M),
         NEW T, NEW S, Says(T, S), NEW D,
         NEW l, Fifos(l, RingOf(M), D), NEW q, Fifos(q, RingOf(M), D),
         NEW n \in RingOf(M), NEW x \in D, x \notin T,
         NEW l2, EnqAt(l, l2, n, x)
  PROVE  /\ Fifos(l2, RingOf(M), D)
         /\ InLine(Round(M, l2, q, s, d), M + 1, T) = InLine(Round(M, l, q, s, d), M + 1, T)
  <1> DEFINE X  == RingPlaces(M)
             at == RingWay(M, s, d)
             t  == RingTable(M, l, q)
             t2 == RingTable(M, l2, q)
             v  == LinkAt(n)
  <1>1. Fifos(l2, RingOf(M), D) /\ Enqueued(l2[n], l[n], x) /\ SameBar(l, l2, RingOf(M), n)
    BY EnqAtIs
  <1>2. t[v] = l[n] /\ t2[v] = l2[n]
    BY RingTableIs
  <1>3. v \in X
    BY PlaceIs
  <1>4. SameBar(t, t2, X, v)
    <2>1. \A m \in RingOf(M) : LinkAt(m) # v => l2[m] = l[m]
      BY <1>1 DEF SameBar
    <2>2. \A m \in RingOf(M) : SendAt(m) # v => q[m] = q[m]
      OBVIOUS
    <2>3. QED
      BY <2>1, <2>2, RingBar
  <1>5. Filled(t, X, D) /\ Way(at, M + 1, X) /\ M + 1 \in Nat /\ M + 1 # 0
    BY RingFilled, RingWayIs, LineOfRing
  <1>6. Enqueued(t2[v], t[v], x) /\ (x \in T => at[M + 1] = v)
    BY <1>1, <1>2
  <1> HIDE DEF X, at, t, t2, v
  <1>7. InLine(Route(t2, at, M + 1), M + 1, T) = InLine(Route(t, at, M + 1), M + 1, T)
    BY <1>3, <1>4, <1>5, <1>6, Enter
  <1>8. QED
    BY <1>1, <1>7, RoundIsRoute DEF t, t2, at
-----------------------------------------------------------------------------
(* A queue of messages as its messages with their sources.                 *)
Sourced(q) == [i \in DOMAIN q |-> [src |-> q[i].src, msg |-> q[i].msg]]

LEMMA SourcedIs ==
  ASSUME NEW D, NEW q \in Seq(D)
  PROVE  /\ Sourced(q) \in Seq({[src |-> x.src, msg |-> x.msg] : x \in D})
         /\ Len(Sourced(q)) = Len(q) /\ DOMAIN Sourced(q) = DOMAIN q
         /\ \A i \in DOMAIN q : Sourced(q)[i] = [src |-> q[i].src, msg |-> q[i].msg]
         /\ q = << >> => Sourced(q) = << >>
  BY DEF Sourced

LEMMA SourcedEnq ==
  ASSUME NEW D, NEW q \in Seq(D), NEW x \in D
  PROVE  Sourced(Append(q, x)) = Append(Sourced(q), [src |-> x.src, msg |-> x.msg])
  BY DEF Sourced

LEMMA SourcedDeq ==
  ASSUME NEW D, NEW q \in Seq(D), q # << >>
  PROVE  /\ Sourced(q) # << >>
         /\ Sourced(Tail(q)) = Tail(Sourced(q))
         /\ Head(Sourced(q)) = [src |-> Head(q).src, msg |-> Head(q).msg]
  BY DEF Sourced

(* What is handed over from the front of b to the end of a.                *)
LEMMA HandOver ==
  ASSUME NEW S, NEW a \in Seq(S), NEW b \in Seq(S), b # << >>
  PROVE  Cat(Append(a, Head(b)), Tail(b)) = Cat(a, b)
  <1> DEFINE h == Head(b)
             t == Tail(b)
             o == << h >>
             c == Append(a, h)
  <1>1. h \in S /\ t \in Seq(S)
    BY DeqType
  <1>2. o \in Seq(S)
    BY <1>1
  <1>3. c = Cat(a, o)
    BY <1>1, CatAppend
  <1>4. b = Cat(o, t)
    <2>1. o \in Seq(S) /\ Len(o) = 1 /\ o[1] = h /\ Len(t) \in Nat /\ Len(b) = Len(t) + 1
      BY <1>1
    <2>2. \A i \in 1 .. Len(b) : b[i] = IF i = 1 THEN h ELSE t[i - 1]
      OBVIOUS
    <2> HIDE DEF o, h, t
    <2>3. /\ o \o t \in Seq(S) /\ Len(o \o t) = Len(o) + Len(t)
          /\ \A i \in 1 .. Len(o) + Len(t) : (o \o t)[i] = IF i <= Len(o) THEN o[i] ELSE t[i - Len(o)]
      BY <1>1, <2>1, ConcatProperties
    <2>4. \A i \in 1 .. Len(b) : b[i] = (o \o t)[i]
      BY <2>1, <2>2, <2>3
    <2>5. Len(b) = Len(o \o t)
      BY <2>1, <2>3
    <2>6. QED
      BY <2>3, <2>4, <2>5, SeqEqual DEF Cat
  <1> HIDE DEF h, t, o, c
  <1>5. Cat(Cat(a, o), t) = Cat(a, Cat(o, t))
    BY <1>1, <1>2, CatAssociative
  <1>6. Cat(c, t) = Cat(a, b)
    BY ONLY <1>3, <1>4, <1>5
  <1>7. QED
    BY ONLY <1>6 DEF h, t, c
=============================================================================
