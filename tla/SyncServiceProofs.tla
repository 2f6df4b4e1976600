-------------------------- MODULE SyncServiceProofs --------------------------
(***************************************************************************)
(* A barrier counts every signal once and answers it once, for every       *)
(* number of nodes and barriers, every mask and every size of the          *)
(* broadcast chain.  What an engine of a barrier is waiting for is at one  *)
(* of six stages: it runs; its signal is queued at its node; it is on the  *)
(* report ring; the master has seen it; the completion is on the chain; it *)
(* is offered to the engine.  Every rule moves some engines one stage on.  *)
(* What an engine is owed follows from its stage, and the steps of the     *)
(* service are then steps of BarrierSpec.                                  *)
(***************************************************************************)
EXTENDS SyncService, QueueLemmas, FiniteSetTheorems, FunctionTheorems

Stage == {"run", "queued", "sent", "seen", "told", "offered"}

Never(q, x)    == \A i \in DOMAIN q : q[i] # x
Once(q, x)     == \E i \in DOMAIN q : \A j \in DOMAIN q : q[j] = x <=> j = i

(* x is in r as often as in q, once or never. *)
Same(q, r, x)  == /\ Never(q, x) => Never(r, x)
                  /\ Once(q, x) => Once(r, x)

Ahead(n) == 0 .. n - 1    \* the links of the chain a completion passes before n

(* A completion of s is on one link ahead of n, once, or there is none. *)
ToldOnce(L, n, s)  == \E m \in Ahead(n) : /\ Once(L[m], s)
                                          /\ \A k \in Ahead(n) : k # m => Never(L[k], s)
ToldNever(L, n, s) == \A k \in Ahead(n) : Never(L[k], s)
SameAhead(L, M, n, s) == /\ ToldNever(L, n, s) => ToldNever(M, n, s)
                         /\ ToldOnce(L, n, s) => ToldOnce(M, n, s)

(* Node n is at stage w of barrier s. *)
At(w, n, s) ==
  /\ phase[n][s] = "run" <=> w = "run"
  /\ IF w = "queued" THEN Once(doneSignalQ[n], s) ELSE Never(doneSignalQ[n], s)
  /\ IF w = "sent" THEN Once(chan[<<n, Master>>], s) ELSE Never(chan[<<n, Master>>], s)
  /\ n \in barriers[s] <=> w # "seen"
  /\ IF w = "told" THEN ToldOnce(link, n, s) ELSE ToldNever(link, n, s)
  /\ syncRespQ[n][s] = 1 <=> w = "offered"

Stages == \A s \in Syncs : \A n \in Part(s) : \E w \in Stage : At(w, n, s)

(* Only engines of a barrier signal it. *)
Sources == \A s \in Syncs, n \in Node :
             n \notin Part(s) => Never(doneSignalQ[n], s) /\ Never(chan[<<n, Master>>], s)

(* SYNC_INIT_DONE is the first message on every link L. *)
InitFirst(L, done) ==
  /\ \A n \in Node : ~done[n] => L[n] = << >>
  /\ \A n \in Slave : done[Prev(n)] /\ ~done[n] =>
       L[Prev(n)] # << >> /\ Head(L[Prev(n)]) = InitMsg

(* Nothing happens before it. *)
Started ==
  /\ \A s \in Syncs : barrierInitialized[s] => barrierInitValues[s] \in Masks
  /\ initDone[Master] => \A s \in Syncs : barrierInitialized[s]
  /\ \A n \in Node : initDone[n] => initDone[Master]
  /\ InitFirst(link, initDone)
  /\ ~initDone[Master] =>
       \A n \in Node, s \in Syncs : phase[n][s] = "run" /\ syncRespQ[n][s] = 0

LinkType(L) == /\ L \in [Node -> Seq(Syncs \cup {InitMsg})]
               /\ \A n \in Node : Len(L[n]) <= ChainCap

IInv == TypeOK /\ LinkType(link) /\ Started /\ Sources /\ Stages
-----------------------------------------------------------------------------
(* enq of another message changes nothing for x; enq of x adds one. *)
LEMMA EnqOther ==
  ASSUME NEW S, NEW q \in Seq(S), NEW y \in S, NEW x, x # y
  PROVE  Same(q, Append(q, y), x)
  <1> DEFINE r == Append(q, y)
  <1>1. /\ \A i \in DOMAIN q : i \in DOMAIN r /\ r[i] = q[i]
        /\ \A i \in DOMAIN r : i \notin DOMAIN q => r[i] = y
    OBVIOUS
  <1> HIDE DEF r
  <1>2. Never(q, x) => Never(r, x)
    BY <1>1 DEF Never
  <1>3. Once(q, x) => Once(r, x)
    BY <1>1 DEF Once
  <1>4. QED
    BY <1>2, <1>3 DEF Same, r

LEMMA EnqIt ==
  ASSUME NEW S, NEW q \in Seq(S), NEW x \in S, Never(q, x)
  PROVE  Once(Append(q, x), x)
  <1> DEFINE r == Append(q, x)
             last == Len(q) + 1
  <1>1. /\ last \in DOMAIN r /\ r[last] = x
        /\ \A i \in DOMAIN r : i # last => i \in DOMAIN q /\ r[i] = q[i]
    OBVIOUS
  <1> HIDE DEF r, last
  <1>2. Once(r, x)
    BY <1>1 DEF Never, Once
  <1>3. QED
    BY <1>2 DEF r

(* deq changes nothing for other messages, and takes what is there once.   *)
LEMMA DeqOther ==
  ASSUME NEW S, NEW q \in Seq(S), q # << >>, NEW x, Head(q) # x
  PROVE  Same(q, Tail(q), x)
  <1> DEFINE r == Tail(q)
  <1>1. /\ \A i \in DOMAIN r : i + 1 \in DOMAIN q /\ r[i] = q[i + 1]
        /\ Head(q) = q[1] /\ DOMAIN q = 1 .. Len(q) /\ Len(q) \in Nat
        /\ DOMAIN r = 1 .. Len(q) - 1
    BY DeqSlots
  <1> HIDE DEF r
  <1>2. Never(q, x) => Never(r, x)
    BY <1>1 DEF Never
  <1>3. ASSUME Once(q, x) PROVE Once(r, x)
    <2>1. PICK i \in DOMAIN q : \A j \in DOMAIN q : q[j] = x <=> j = i
      BY <1>3 DEF Once
    <2> DEFINE p == i - 1
    <2>2. p \in DOMAIN r /\ p + 1 = i
      BY <1>1, <2>1
    <2>3. \A j \in DOMAIN r : r[j] = x <=> j = p
      BY <1>1, <2>1
    <2> HIDE DEF p
    <2>4. QED
      BY <2>2, <2>3 DEF Once
  <1>4. QED
    BY <1>2, <1>3 DEF Same, r

LEMMA DeqIt ==
  ASSUME NEW S, NEW q \in Seq(S), q # << >>
  PROVE  /\ ~Never(q, Head(q))
         /\ Once(q, Head(q)) => Never(Tail(q), Head(q))
  <1> DEFINE r == Tail(q)
             x == Head(q)
  <1>1. /\ \A i \in DOMAIN r : i + 1 \in DOMAIN q /\ r[i] = q[i + 1]
        /\ 1 \in DOMAIN q /\ x = q[1] /\ DOMAIN r \subseteq Nat \ {0}
    BY DeqSlots
  <1> HIDE DEF r, x
  <1>2. ~Never(q, x)
    BY <1>1 DEF Never
  <1>3. ASSUME Once(q, x) PROVE Never(r, x)
    <2>1. PICK i \in DOMAIN q : \A j \in DOMAIN q : q[j] = x <=> j = i
      BY <1>3 DEF Once
    <2>2. i = 1
      BY <1>1, <2>1
    <2>3. QED
      BY <1>1, <2>1, <2>2 DEF Never
  <1>4. QED
    BY <1>2, <1>3 DEF r, x
-----------------------------------------------------------------------------
(* The links of the chain L when message x enters at node k, leaves behind *)
(* it, or is passed on by node k.                                          *)
Enters(L, k, x) == [L EXCEPT ![k] = Append(@, x)]
Leaves(L, k)    == [L EXCEPT ![Prev(k)] = Tail(@)]
Passes(L, k)    == [L EXCEPT ![Prev(k)] = Tail(@), ![k] = Append(@, Head(L[Prev(k)]))]

(* The links ahead of a node belong to other nodes. *)
LEMMA AheadNodes ==
  ASSUME NEW n \in Node
  PROVE  /\ Ahead(n) \subseteq Node /\ n \notin Ahead(n) /\ Ahead(Master) = {}
         /\ n # Master => Prev(n) = n - 1 /\ Prev(n) \in Ahead(n) /\ Prev(n) # n
                          /\ Master \in Ahead(n) /\ n \in Slave
         /\ Prev(n) \in Node
         /\ \A m \in Node : Prev(n) \in Ahead(m) /\ m # n => n \in Ahead(m) /\ n # Master
         /\ \A m \in Node : n \in Ahead(m) /\ n # Master => Prev(n) \in Ahead(m)
  BY SyncAssumption DEF Ahead, Node, Master, Slave, Prev

(* The links ahead of a node hold what they did before. *)
LEMMA ToldKept ==
  ASSUME NEW L, NEW M, NEW n, NEW s, \A k \in Ahead(n) : Same(L[k], M[k], s)
  PROVE  SameAhead(L, M, n, s)
  <1>1. ToldNever(L, n, s) => ToldNever(M, n, s)
    BY DEF ToldNever, Same
  <1>2. ToldOnce(L, n, s) => ToldOnce(M, n, s)
    BY DEF ToldOnce, Same
  <1>3. QED
    BY <1>1, <1>2 DEF SameAhead

LEMMA SameItself == \A q, x : Same(q, q, x)
  BY DEF Same

(* Node k sends x: nothing changes for another barrier, *)
LEMMA EntersOther ==
  ASSUME NEW L, LinkType(L), NEW k \in Node, NEW x \in Syncs \cup {InitMsg},
         NEW n \in Node, NEW s, s # x
  PROVE  SameAhead(L, Enters(L, k, x), n, s)
  <1>1. ASSUME NEW j \in Ahead(n) PROVE Same(L[j], Enters(L, k, x)[j], s)
    <2>1. j \in Node /\ L[j] \in Seq(Syncs \cup {InitMsg})
      BY AheadNodes DEF LinkType
    <2>2. Enters(L, k, x)[j] = IF j = k THEN Append(L[j], x) ELSE L[j]
      BY <2>1 DEF Enters, LinkType
    <2>3. QED
      BY <2>1, <2>2, EnqOther, SameItself
  <1>2. QED
    BY <1>1, ToldKept

(* and the master's completion is on its way to every slave. *)
LEMMA EntersIt ==
  ASSUME NEW L, LinkType(L), NEW s \in Syncs, NEW n \in Node, n # Master,
         ToldNever(L, n, s)
  PROVE  ToldOnce(Enters(L, Master, s), n, s)
  <1> DEFINE M == Enters(L, Master, s)
  <1>1. Master \in Ahead(n) /\ Ahead(n) \subseteq Node
    BY AheadNodes
  <1>2. \A k \in Ahead(n) : Never(L[k], s)
    BY DEF ToldNever
  <1>3. Once(M[Master], s)
    <2>1. L[Master] \in Seq(Syncs \cup {InitMsg}) /\ Never(L[Master], s)
      BY <1>1, <1>2 DEF LinkType
    <2>2. M[Master] = Append(L[Master], s)
      BY <1>1 DEF Enters, LinkType
    <2>3. QED
      BY <2>1, <2>2, EnqIt
  <1>4. \A k \in Ahead(n) : k # Master => Never(M[k], s)
    <2>1. \A k \in Ahead(n) : k # Master => M[k] = L[k]
      BY <1>1 DEF Enters, LinkType
    <2>2. QED
      BY <1>2, <2>1
  <1> HIDE DEF M
  <1>5. ToldOnce(M, n, s)
    BY <1>1, <1>3, <1>4 DEF ToldOnce
  <1>6. QED
    BY <1>5 DEF M

(* The master takes a message that passed every node. *)
LEMMA LeavesKeeps ==
  ASSUME NEW L, LinkType(L), NEW n \in Node, NEW s
  PROVE  SameAhead(L, Leaves(L, Master), n, s)
  <1>1. \A j \in Ahead(n) : Leaves(L, Master)[j] = L[j]
    BY SyncAssumption DEF Leaves, LinkType, Ahead, Node, Prev, Master
  <1>2. QED
    BY <1>1, ToldKept, SameItself

(* Node k passes on the first message of its link. *)
LEMMA PassesRead ==
  ASSUME NEW L, LinkType(L), NEW k \in Slave, L[Prev(k)] # << >>
  PROVE  /\ L[Prev(k)] \in Seq(Syncs \cup {InitMsg}) /\ L[k] \in Seq(Syncs \cup {InitMsg})
         /\ Head(L[Prev(k)]) \in Syncs \cup {InitMsg}
         /\ Passes(L, k)[k] = Append(L[k], Head(L[Prev(k)]))
         /\ Passes(L, k)[Prev(k)] = Tail(L[Prev(k)])
         /\ \A j \in Node : j # k /\ j # Prev(k) => Passes(L, k)[j] = L[j]
  <1>1. Prev(k) \in Node /\ k \in Node /\ Prev(k) # k
    BY AheadNodes DEF Slave
  <1>2. L[Prev(k)] \in Seq(Syncs \cup {InitMsg}) /\ L[k] \in Seq(Syncs \cup {InitMsg})
    BY <1>1 DEF LinkType
  <1>3. /\ Head(L[Prev(k)]) \in Syncs \cup {InitMsg}
        /\ Tail(L[Prev(k)]) \in Seq(Syncs \cup {InitMsg})
    BY <1>2, DeqType
  <1>4. Append(L[k], Head(L[Prev(k)])) \in Seq(Syncs \cup {InitMsg})
    BY <1>2, <1>3, EnqType
  <1>5. QED
    BY <1>1, <1>2, <1>3, <1>4 DEF Passes, LinkType

LEMMA PassesOther ==
  ASSUME NEW L, LinkType(L), NEW k \in Slave, L[Prev(k)] # << >>,
         NEW n \in Node, NEW s, s # Head(L[Prev(k)])
  PROVE  SameAhead(L, Passes(L, k), n, s)
  <1>1. ASSUME NEW j \in Ahead(n) PROVE Same(L[j], Passes(L, k)[j], s)
    <2>1. j \in Node
      BY AheadNodes
    <2>2. CASE j = k
      <3> DEFINE x == Head(L[Prev(k)])
      <3>1. /\ L[k] \in Seq(Syncs \cup {InitMsg}) /\ x \in Syncs \cup {InitMsg}
            /\ Passes(L, k)[k] = Append(L[k], x) /\ s # x
        BY PassesRead
      <3>2. Same(L[k], Append(L[k], x), s)
        BY <3>1, EnqOther
      <3>3. QED
        BY <2>2, <3>1, <3>2
    <2>3. CASE j # k /\ j = Prev(k)
      BY <2>1, <2>3, PassesRead, DeqOther
    <2>4. CASE j # k /\ j # Prev(k)
      BY <2>1, <2>4, PassesRead, SameItself
    <2>5. QED
      BY <2>2, <2>3, <2>4
  <1>2. QED
    BY <1>1, ToldKept

(* Its own completion is no longer on the way to node k, that to the nodes *)
(* behind it still is, and nothing changes for the nodes before it.        *)
LEMMA PassesIt ==
  ASSUME NEW L, LinkType(L), NEW k \in Slave, L[Prev(k)] # << >>, NEW n \in Node
  PROVE  LET s == Head(L[Prev(k)])
         IN  IF n = k THEN ~ToldNever(L, k, s) /\ (ToldOnce(L, k, s) => ToldNever(Passes(L, k), k, s))
             ELSE SameAhead(L, Passes(L, k), n, s)
  <1> DEFINE p == Prev(k)
             s == Head(L[Prev(k)])
             M == Passes(L, k)
  <1>1. /\ p \in Node /\ k \in Node /\ p # k /\ p \in Ahead(k)
        /\ Ahead(n) \subseteq Node /\ k \notin Ahead(k)
        /\ p \in Ahead(n) /\ n # k => k \in Ahead(n)
        /\ k \in Ahead(n) => p \in Ahead(n)
    BY AheadNodes DEF Slave
  <1>2. /\ L[p] \in Seq(Syncs \cup {InitMsg}) /\ L[k] \in Seq(Syncs \cup {InitMsg})
        /\ s \in Syncs \cup {InitMsg}
    BY <1>1, PassesRead
  <1>3. /\ M[k] = Append(L[k], s) /\ M[p] = Tail(L[p])
        /\ \A j \in Node : j # k /\ j # p => M[j] = L[j]
    BY <1>1, PassesRead
  <1>4. ~Never(L[p], s) /\ (Once(L[p], s) => Never(M[p], s))
    BY <1>2, <1>3, DeqIt
  <1>5. Never(L[k], s) => Once(M[k], s)
    BY <1>2, <1>3, EnqIt
  <1> HIDE DEF p, s, M
  <1>6. CASE p \notin Ahead(n)
    <2>1. n # k /\ \A j \in Ahead(n) : M[j] = L[j]
      BY <1>1, <1>3, <1>6
    <2>2. SameAhead(L, M, n, s)
      BY <2>1, ToldKept, SameItself
    <2>3. QED
      BY <2>1, <2>2 DEF M, s
  <1>7. CASE p \in Ahead(n)
    <2>1. ~ToldNever(L, n, s)
      BY <1>4, <1>7 DEF ToldNever
    <2>2. ASSUME ToldOnce(L, n, s)
          PROVE  Never(M[p], s) /\ \A j \in Ahead(n) : j # p => Never(L[j], s)
      BY <1>4, <1>7, <2>2 DEF ToldOnce
    <2>3. CASE n = k
      <3>1. ToldOnce(L, n, s) => \A j \in Ahead(n) : Never(M[j], s)
        BY <1>1, <1>3, <2>2, <2>3
      <3>2. QED
        BY <2>1, <2>3, <3>1 DEF ToldNever, M, s
    <2>4. CASE n # k
      <3>1. k \in Ahead(n)
        BY <1>1, <1>7, <2>4
      <3>2. ASSUME ToldOnce(L, n, s) PROVE ToldOnce(M, n, s)
        <4>1. Once(M[k], s)
          BY <1>1, <1>5, <2>2, <3>1, <3>2
        <4>2. \A j \in Ahead(n) : j # k => Never(M[j], s)
          BY <1>1, <1>3, <2>2, <3>2
        <4>3. QED
          BY <3>1, <4>1, <4>2 DEF ToldOnce
      <3>3. SameAhead(L, M, n, s)
        BY <2>1, <3>2 DEF SameAhead
      <3>4. QED
        BY <2>4, <3>3 DEF M, s
    <2>5. QED
      BY <2>3, <2>4
  <1>8. QED
    BY <1>6, <1>7
-----------------------------------------------------------------------------
(* The three keep the type of the chain and that SYNC_INIT_DONE is first.  *)
LEMMA HeadKept ==
  ASSUME NEW S, NEW q \in Seq(S), NEW x \in S
  PROVE  /\ Append(q, x) # << >> /\ Len(Append(q, x)) = Len(q) + 1
         /\ Head(Append(q, x)) = IF q = << >> THEN x ELSE Head(q)
  <1>1. Append(q, x) # << >> /\ Len(Append(q, x)) = Len(q) + 1
    <2>1. Len(Append(q, x)) = Len(q) + 1 /\ Len(q) \in Nat
      BY EnqSlots
    <2> DEFINE r == Append(q, x)
    <2>2. Len(r) # 0
      BY <2>1
    <2> HIDE DEF r
    <2>4. r # << >>
      BY <2>2
    <2>3. QED
      BY <2>1, <2>4 DEF r
  <1>2. CASE q = << >>
    BY <1>1, <1>2
  <1>3. CASE q # << >>
    <2>1. 1 \in DOMAIN q /\ Append(q, x)[1] = q[1]
      BY <1>3
    <2>2. Head(Append(q, x)) = Append(q, x)[1] /\ Head(q) = q[1]
      BY <1>1, <1>3
    <2>3. QED
      BY <1>1, <1>3, <2>1, <2>2
  <1>4. QED
    BY <1>2, <1>3

LEMMA EntersType ==
  ASSUME NEW L, LinkType(L), NEW k \in Node, NEW x \in Syncs \cup {InitMsg}, Len(L[k]) < ChainCap
  PROVE  LinkType(Enters(L, k, x))
  <1>1. L[k] \in Seq(Syncs \cup {InitMsg}) /\ Len(L[k]) \in Nat
    BY DEF LinkType
  <1>2. /\ Append(L[k], x) \in Seq(Syncs \cup {InitMsg})
        /\ Len(Append(L[k], x)) <= ChainCap
    BY <1>1, HeadKept, EnqType, SyncAssumption
  <1>3. QED
    BY <1>2 DEF Enters, LinkType

LEMMA LeavesType ==
  ASSUME NEW L, LinkType(L), L[Prev(Master)] # << >>
  PROVE  LinkType(Leaves(L, Master))
  <1>1. Prev(Master) \in Node
    BY AheadNodes, SyncAssumption DEF Master, Node
  <1>2. L[Prev(Master)] \in Seq(Syncs \cup {InitMsg}) /\ Len(L[Prev(Master)]) <= ChainCap
    BY <1>1 DEF LinkType
  <1>3. /\ Tail(L[Prev(Master)]) \in Seq(Syncs \cup {InitMsg})
        /\ Len(Tail(L[Prev(Master)])) <= ChainCap
    BY <1>2, DeqSlots, SyncAssumption
  <1>4. QED
    BY <1>1, <1>3 DEF Leaves, LinkType

LEMMA PassesType ==
  ASSUME NEW L, LinkType(L), NEW k \in Slave, L[Prev(k)] # << >>, Len(L[k]) < ChainCap
  PROVE  LinkType(Passes(L, k))
  <1> DEFINE M == Passes(L, k)
             x == Head(L[Prev(k)])
  <1>1. k \in Node /\ Prev(k) \in Node /\ Prev(k) # k
    BY AheadNodes DEF Slave
  <1>2. /\ L[Prev(k)] \in Seq(Syncs \cup {InitMsg}) /\ L[k] \in Seq(Syncs \cup {InitMsg})
        /\ x \in Syncs \cup {InitMsg}
        /\ M[k] = Append(L[k], x) /\ M[Prev(k)] = Tail(L[Prev(k)])
        /\ \A j \in Node : j # k /\ j # Prev(k) => M[j] = L[j]
    BY PassesRead
  <1>3. /\ Tail(L[Prev(k)]) \in Seq(Syncs \cup {InitMsg})
        /\ Len(Tail(L[Prev(k)])) <= ChainCap
    <2>1. Len(L[Prev(k)]) <= ChainCap /\ Len(L[Prev(k)]) \in Nat
      BY <1>1, <1>2 DEF LinkType
    <2>2. QED
      BY <1>2, <2>1, DeqSlots, SyncAssumption
  <1>4. /\ Append(L[k], x) \in Seq(Syncs \cup {InitMsg})
        /\ Len(Append(L[k], x)) <= ChainCap
    <2>1. Len(L[k]) \in Nat
      BY <1>2
    <2>2. QED
      BY <1>2, <2>1, HeadKept, EnqType, SyncAssumption
  <1>5. \A j \in Node : M[j] \in Seq(Syncs \cup {InitMsg}) /\ Len(M[j]) <= ChainCap
    BY <1>2, <1>3, <1>4 DEF LinkType
  <1>6. M = [j \in Node |-> M[j]]
    BY <1>1 DEF LinkType, Passes
  <1> HIDE DEF M
  <1>7. QED
    BY <1>5, <1>6 DEF LinkType, M

LEMMA EntersFirst ==
  ASSUME NEW L, LinkType(L), NEW x \in Syncs \cup {InitMsg},
         NEW done, done[Master], InitFirst(L, done)
  PROVE  InitFirst(Enters(L, Master, x), done)
  <1> DEFINE M == Enters(L, Master, x)
  <1>1. Master \in Node /\ L[Master] \in Seq(Syncs \cup {InitMsg})
    BY SyncAssumption DEF LinkType, Master, Node
  <1>2. /\ M[Master] = Append(L[Master], x)
        /\ \A n \in Node : n # Master => M[n] = L[n]
    BY <1>1 DEF Enters, LinkType
  <1>3. M[Master] # << >> /\ (L[Master] # << >> => Head(M[Master]) = Head(L[Master]))
    <2>1. /\ Append(L[Master], x) # << >>
          /\ Head(Append(L[Master], x)) = IF L[Master] = << >> THEN x ELSE Head(L[Master])
      <3>1. L[Master] \in Seq(Syncs \cup {InitMsg}) /\ x \in Syncs \cup {InitMsg}
        BY <1>1
      <3>2. QED
        BY <3>1, HeadKept, ZenonT(30)
    <2>2. QED
      BY <1>2, <2>1
  <1>4. \A n \in Slave : Prev(n) \in Node /\ n \in Node
    BY AheadNodes DEF Slave
  <1> HIDE DEF M
  <1>5. \A n \in Node : ~done[n] => M[n] = << >>
    BY <1>2 DEF InitFirst
  <1>6. ASSUME NEW n \in Slave, done[Prev(n)], ~done[n]
        PROVE  M[Prev(n)] # << >> /\ Head(M[Prev(n)]) = InitMsg
    <2>1. L[Prev(n)] # << >> /\ Head(L[Prev(n)]) = InitMsg
      BY <1>6 DEF InitFirst
    <2>2. CASE Prev(n) = Master
      BY <1>3, <2>1, <2>2
    <2>3. CASE Prev(n) # Master
      BY <1>2, <1>4, <2>1, <2>3
    <2>4. QED
      BY <2>2, <2>3
  <1>7. QED
    BY <1>5, <1>6 DEF InitFirst, M

LEMMA LeavesFirst ==
  ASSUME NEW L, LinkType(L), L[Prev(Master)] # << >>, NEW done, InitFirst(L, done)
  PROVE  InitFirst(Leaves(L, Master), done)
  <1>1. Prev(Master) \in Node /\ \A n \in Slave : Prev(n) \in Node /\ Prev(n) # Prev(Master)
    BY SyncAssumption DEF Node, Slave, Master, Prev
  <1>2. \A n \in Node : n # Prev(Master) => Leaves(L, Master)[n] = L[n]
    BY <1>1 DEF Leaves, LinkType
  <1>3. QED
    BY <1>1, <1>2 DEF InitFirst

LEMMA PassesFirst ==
  ASSUME NEW L, LinkType(L), NEW k \in Slave, L[Prev(k)] # << >>,
         NEW done \in [Node -> BOOLEAN], InitFirst(L, done)
  PROVE  InitFirst(Passes(L, k), [done EXCEPT ![k] = TRUE])
  <1> DEFINE M == Passes(L, k)
             done2 == [done EXCEPT ![k] = TRUE]
             x == Head(L[Prev(k)])
  <1>1. /\ k \in Node /\ Prev(k) \in Node /\ Prev(k) # k
        /\ \A n \in Slave : n \in Node /\ Prev(n) \in Node
        /\ \A n \in Slave : Prev(n) = Prev(k) => n = k
    BY SyncAssumption DEF Node, Slave, Master, Prev
  <1>2. /\ L[k] \in Seq(Syncs \cup {InitMsg}) /\ x \in Syncs \cup {InitMsg}
        /\ M[k] = Append(L[k], x)
        /\ \A j \in Node : j # k /\ j # Prev(k) => M[j] = L[j]
    BY PassesRead
  <1>3. M[k] # << >> /\ Head(M[k]) = IF L[k] = << >> THEN x ELSE Head(L[k])
    BY <1>2, HeadKept
  <1>4. done2[k] /\ \A n \in Node : n # k => done2[n] = done[n]
    BY <1>1
  <1>5. done[Prev(k)]
    BY <1>1 DEF InitFirst
  <1> HIDE DEF M, done2, x
  <1>6. \A n \in Node : ~done2[n] => M[n] = << >>
    BY <1>2, <1>4, <1>5, <1>1 DEF InitFirst
  <1>7. ASSUME NEW n \in Slave, done2[Prev(n)], ~done2[n]
        PROVE  M[Prev(n)] # << >> /\ Head(M[Prev(n)]) = InitMsg
    <2>1. n # k /\ ~done[n] /\ Prev(n) # Prev(k)
      BY <1>1, <1>4, <1>7
    <2>2. CASE Prev(n) = k /\ done[k]
      <3>1. L[k] # << >> /\ Head(L[k]) = InitMsg
        BY <2>1, <2>2 DEF InitFirst
      <3>2. QED
        BY <1>3, <2>2, <3>1
    <2>3. CASE Prev(n) = k /\ ~done[k]
      <3>1. L[k] = << >>
        BY <1>1, <2>3 DEF InitFirst
      <3>2. x = InitMsg
        BY <1>5, <2>3 DEF InitFirst, x
      <3>3. QED
        BY <1>3, <2>3, <3>1, <3>2
    <2>4. CASE Prev(n) # k
      <3>1. M[Prev(n)] = L[Prev(n)] /\ done[Prev(n)]
        BY <1>1, <1>2, <1>4, <1>7, <2>1, <2>4
      <3>2. QED
        BY <2>1, <3>1 DEF InitFirst
    <2>5. QED
      BY <2>2, <2>3, <2>4
  <1>8. QED
    BY <1>6, <1>7 DEF InitFirst, M, done2
-----------------------------------------------------------------------------
(* How node n and barrier s fare in a step: the stage of an engine of the  *)
(* barrier stays (Kept), or becomes another; others go on without signals. *)
QueuesKept(n, s) == /\ Same(doneSignalQ[n], doneSignalQ'[n], s)
                    /\ Same(chan[<<n, Master>>], chan'[<<n, Master>>], s)
Kept(n, s) ==
  /\ QueuesKept(n, s)
  /\ phase'[n][s] = phase[n][s]
  /\ n \in barriers'[s] <=> n \in barriers[s]
  /\ SameAhead(link, link', n, s)
  /\ syncRespQ'[n][s] = syncRespQ[n][s]

Fares(n, s) ==
  \/ Kept(n, s)
  \/ n \in Part(s) /\ \A w \in Stage : At(w, n, s) => \E v \in Stage : At(v, n, s)'
  \/ n \notin Part(s) /\ QueuesKept(n, s)

LEMMA StageKept ==
  ASSUME NEW w, NEW n, NEW s, At(w, n, s), Kept(n, s)
  PROVE  At(w, n, s)'
  BY DEF At, Kept, QueuesKept, Same, SameAhead

LEMMA StagesStep ==
  ASSUME IInv, \A s \in Syncs : Part(s)' = Part(s), \A n \in Node, s \in Syncs : Fares(n, s)
  PROVE  Sources' /\ Stages'
  <1>1. Sources'
    <2> SUFFICES ASSUME NEW s \in Syncs, NEW n \in Node, n \notin Part(s)'
                 PROVE  Never(doneSignalQ[n], s)' /\ Never(chan[<<n, Master>>], s)'
      BY DEF Sources
    <2>1. n \notin Part(s) /\ Never(doneSignalQ[n], s) /\ Never(chan[<<n, Master>>], s)
      BY DEF IInv, Sources
    <2>2. QueuesKept(n, s)
      BY <2>1 DEF Fares, Kept
    <2>3. QED
      BY <2>1, <2>2 DEF QueuesKept, Same
  <1>2. Stages'
    <2> SUFFICES ASSUME NEW s \in Syncs, NEW n \in Part(s)'
                 PROVE  \E w \in Stage : At(w, n, s)'
      BY DEF Stages
    <2>1. n \in Part(s) /\ n \in Node
      BY DEF IInv, TypeOK, Part
    <2>2. PICK w \in Stage : At(w, n, s)
      BY <2>1 DEF IInv, Stages
    <2>3. CASE Kept(n, s)
      BY <2>2, <2>3, StageKept
    <2>4. CASE ~Kept(n, s)
      BY <2>1, <2>2, <2>4 DEF Fares
    <2>5. QED
      BY <2>3, <2>4
  <1>3. QED
    BY <1>1, <1>2

(* What keeps Started after the barriers are set. *)
LEMMA StartedKept ==
  ASSUME IInv, UNCHANGED <<barrierInitialized, barrierInitValues>>,
         \A n \in Node : initDone'[n] => initDone[n] \/ initDone[Master],
         initDone'[Master] = initDone[Master],
         InitFirst(link', initDone'),
         initDone[Master] \/ UNCHANGED <<phase, syncRespQ>>
  PROVE  Started'
  BY DEF IInv, Started
-----------------------------------------------------------------------------
LEMMA MasterNode == Master \in Node /\ Prev(Master) \in Node
  BY SyncAssumption DEF Master, Node, Prev

LEMMA IInvInit == Init => IInv
  <1> SUFFICES ASSUME Init PROVE IInv
    OBVIOUS
  <1>1. TypeOK /\ LinkType(link)
    BY SyncAssumption DEF Init, TypeOK, LinkType, Report!Init, Report!TypeOK
  <1>2. Started
    BY MasterNode, AheadNodes DEF Init, Started, InitFirst, Slave
  <1>3. \A s \in Syncs : Part(s) = {}
    BY MasterNode DEF Init, Part
  <1>4. \A n \in Node, s \in Syncs : Never(doneSignalQ[n], s) /\ Never(chan[<<n, Master>>], s)
    BY MasterNode DEF Init, Report!Init, Reports, Never
  <1>5. QED
    BY <1>1, <1>2, <1>3, <1>4 DEF IInv, Sources, Stages

(* Method setSyncBarrier is called before the service starts. *)
LEMMA SetSyncBarrierInv ==
  ASSUME IInv, NEW s0 \in Syncs, NEW mask \in Masks, SetSyncBarrier(s0, mask)
  PROVE  IInv'
  <1>1. ~initDone[Master] /\ ~initDone'[Master]
    BY DEF IInv, Started, SetSyncBarrier
  <1>2. TypeOK'
    BY SyncAssumption DEF IInv, TypeOK, SetSyncBarrier, Report!TypeOK
  <1>3. LinkType(link')
    BY DEF IInv, SetSyncBarrier
  <1>4. Started'
    <2>1. /\ barrierInitialized' \in [Syncs -> BOOLEAN]
          /\ \A s \in Syncs : barrierInitialized'[s] => barrierInitValues'[s] \in Masks
      BY <1>2 DEF IInv, TypeOK, Started, SetSyncBarrier
    <2>2. UNCHANGED <<initDone, link, phase, syncRespQ>>
      BY DEF SetSyncBarrier
    <2>3. QED
      BY <1>1, <2>1, <2>2 DEF IInv, Started
  <1>5. \A s \in Syncs : Part(s) = {} /\ Part(s)' = {}
    BY <1>1 DEF Part
  <1>6. Sources' /\ Stages'
    BY <1>5 DEF IInv, Sources, Stages, SetSyncBarrier
  <1>7. QED
    BY <1>2, <1>3, <1>4, <1>6 DEF IInv

(* Rule checkBarrierInit: everything is still empty, and every engine runs. *)
LEMMA CheckBarrierInitInv ==
  ASSUME IInv, CheckBarrierInit
  PROVE  IInv'
  <1>1. /\ link' = Enters(link, Master, InitMsg) /\ Len(link[Master]) < ChainCap
        /\ initDone' = [initDone EXCEPT ![Master] = TRUE]
        /\ barriers' = barrierInitValues
        /\ UNCHANGED <<barrierInitialized, barrierInitValues, doneSignalQ, syncRespQ, chan, phase>>
    BY DEF CheckBarrierInit, SendToNext, CanSend, Enters
  <1>2. /\ ~initDone[Master] /\ initDone'[Master]
        /\ \A n \in Node : ~initDone[n] /\ link[n] = << >>
        /\ \A n \in Node : n # Master => ~initDone'[n]
        /\ \A n \in Node, s \in Syncs : phase[n][s] = "run" /\ syncRespQ[n][s] = 0
        /\ \A s \in Syncs : barrierInitialized[s]
    BY <1>1, MasterNode DEF IInv, Started, InitFirst, CheckBarrierInit, TypeOK
  <1>3. LinkType(link')
    BY <1>1, MasterNode, EntersType DEF IInv
  <1>4. TypeOK'
    <2>1. initDone' \in [Node -> BOOLEAN] /\ barriers' \in [Syncs -> SUBSET Node]
      BY <1>1, MasterNode DEF IInv, TypeOK
    <2>2. UNCHANGED portInitDone
      BY DEF CheckBarrierInit
    <2>3. QED
      BY <1>1, <1>3, <2>1, <2>2 DEF IInv, TypeOK, LinkType, Report!TypeOK, Reports
  <1>5. InitFirst(link', initDone')
    <2>1. /\ link'[Master] = Append(<< >>, InitMsg)
          /\ \A n \in Node : n # Master => link'[n] = << >>
      BY <1>1, <1>2, MasterNode DEF Enters, IInv, LinkType
    <2>2. link'[Master] # << >> /\ Head(link'[Master]) = InitMsg
      BY <2>1
    <2>3. \A n \in Slave : Prev(n) \in Node
      BY AheadNodes DEF Slave
    <2>4. QED
      BY <1>2, <2>1, <2>2, <2>3 DEF InitFirst
  <1>6. Started'
    BY <1>1, <1>2, <1>5 DEF IInv, Started
  <1>7. \A s \in Syncs, n \in Node : Never(doneSignalQ[n], s) /\ Never(chan[<<n, Master>>], s)
    BY <1>2 DEF IInv, Sources, Part
  <1>8. Sources'
    BY <1>1, <1>7 DEF Sources
  <1>9. ASSUME NEW s \in Syncs, NEW n \in Part(s)' PROVE At("run", n, s)'
    <2>1. n \in barriers'[s] /\ n \in Node
      BY <1>1, <1>2, <1>9 DEF IInv, TypeOK, Part
    <2>2. ToldNever(link, n, s)
      BY <1>2, AheadNodes, <2>1 DEF ToldNever, Never
    <2>3. s # InitMsg
      BY SyncAssumption
    <2>4. ToldNever(link', n, s)
      BY <1>1, <2>1, <2>2, <2>3, EntersOther, MasterNode DEF IInv, SameAhead
    <2>5. QED
      BY <1>1, <1>2, <1>7, <2>1, <2>4 DEF At
  <1>10. Stages'
    BY <1>9 DEF Stages, Stage
  <1>11. QED
    BY <1>3, <1>4, <1>6, <1>8, <1>10 DEF IInv
-----------------------------------------------------------------------------
(* The master sees the signals of the senders for barrier s0.  Each was on *)
(* its way, once, and is now gone from the queues.                         *)
Seen(s0, senders) ==
  /\ \A n \in senders :
       /\ n \in Part(s0)
       /\ \A w \in Stage : At(w, n, s0) => w = "queued" \/ w = "sent"
       /\ Never(doneSignalQ'[n], s0) /\ Never(chan'[<<n, Master>>], s0)
  /\ \A n \in Node, s \in Syncs : (n \in senders /\ s = s0) \/ QueuesKept(n, s)

Counts(s0, senders) ==
  /\ initDone[Master] /\ ClearBits(s0, senders)
  /\ Seen(s0, senders)
  /\ doneSignalQ' \in [Node -> Seq(Syncs)] /\ Report!TypeOK'
  /\ UNCHANGED <<initDone, portInitDone, barrierInitialized, barrierInitValues, phase>>

(* The last bit clears: the bits are restored, the master's client and the *)
(* slaves are told.                                                        *)
Completes(s0, senders) ==
  /\ barriers[s0] \subseteq senders
  /\ barriers' = [barriers EXCEPT ![s0] = barrierInitValues[s0]]
  /\ Len(link[Master]) < ChainCap /\ link' = Enters(link, Master, s0)
  /\ syncRespQ[Master][s0] = 0 /\ syncRespQ' = [syncRespQ EXCEPT ![Master][s0] = 1]

Remains(s0, senders) ==
  /\ ~(barriers[s0] \subseteq senders)
  /\ barriers' = [barriers EXCEPT ![s0] = barriers[s0] \ senders]
  /\ UNCHANGED <<link, syncRespQ>>

LEMMA ClearBitsCases ==
  ASSUME NEW s0, NEW senders, ClearBits(s0, senders)
  PROVE  Completes(s0, senders) \/ Remains(s0, senders)
  BY DEF ClearBits, SetBits, CompleteBarrier, CanSend, SendToNext, Enters, Completes, Remains

(* The engine whose completion is announced. *)
LEMMA EngineTold ==
  ASSUME IInv, NEW s0 \in Syncs, NEW senders, Counts(s0, senders), Completes(s0, senders),
         NEW n \in Part(s0), NEW w \in Stage, At(w, n, s0)
  PROVE  \E v \in Stage : At(v, n, s0)'
  <1> DEFINE v == IF n = Master THEN "offered" ELSE "told"
  <1>1. n \in Node /\ n \in barrierInitValues[s0]
    BY DEF IInv, TypeOK, Part
  <1>2. w \in {"queued", "sent", "seen"}
    BY DEF Counts, Seen, Completes, At
  <1>3. Never(doneSignalQ'[n], s0) /\ Never(chan'[<<n, Master>>], s0)
    <2>1. CASE n \in senders
      BY <2>1 DEF Counts, Seen
    <2>2. CASE n \notin senders
      <3>1. w = "seen"
        BY <2>2 DEF Completes, At
      <3>2. QED
        BY <1>1, <2>2, <3>1 DEF At, Counts, Seen, QueuesKept, Same
    <2>3. QED
      BY <2>1, <2>2
  <1>4. n \in barriers'[s0]
    BY <1>1 DEF Completes, IInv, TypeOK
  <1>5. phase'[n][s0] # "run"
    BY <1>2 DEF Counts, At
  <1>6. ToldNever(link, n, s0) /\ syncRespQ[n][s0] # 1
    BY <1>2 DEF At
  <1>7. n # Master => ToldOnce(link', n, s0) /\ syncRespQ'[n][s0] # 1
    BY <1>1, <1>6, EntersIt DEF Completes, IInv, TypeOK
  <1>8. n = Master => ToldNever(link', n, s0) /\ syncRespQ'[n][s0] = 1
    BY <1>1, AheadNodes DEF Completes, IInv, TypeOK, ToldNever
  <1>9. At(v, n, s0)'
    BY <1>3, <1>4, <1>5, <1>7, <1>8 DEF At
  <1>10. QED
    BY <1>9 DEF Stage

(* The engine whose signal is recorded, and no other. *)
LEMMA EngineSeen ==
  ASSUME IInv, NEW s0 \in Syncs, NEW senders, Counts(s0, senders), Remains(s0, senders),
         NEW n \in Part(s0), NEW w \in Stage, At(w, n, s0)
  PROVE  \E v \in Stage : At(v, n, s0)'
  <1>1. n \in Node
    BY DEF IInv, TypeOK, Part
  <1>2. CASE n \in senders
    <2>1. w \in {"queued", "sent"}
      BY <1>2 DEF Counts, Seen
    <2>2. Never(doneSignalQ'[n], s0) /\ Never(chan'[<<n, Master>>], s0)
      BY <1>2 DEF Counts, Seen
    <2>3. n \notin barriers'[s0]
      BY <1>2 DEF Remains, IInv, TypeOK
    <2>4. At("seen", n, s0)'
      BY <2>1, <2>2, <2>3 DEF At, Counts, Remains
    <2>5. QED
      BY <2>4 DEF Stage
  <1>3. CASE n \notin senders
    <2>1. Kept(n, s0)
      BY <1>1, <1>3 DEF Counts, Seen, Remains, Kept, IInv, TypeOK, SameAhead
    <2>2. QED
      BY <2>1, StageKept
  <1>4. QED
    BY <1>2, <1>3

LEMMA CountsInv ==
  ASSUME IInv, NEW s0 \in Syncs, NEW senders, Counts(s0, senders)
  PROVE  IInv'
  <1>1. Completes(s0, senders) \/ Remains(s0, senders)
    BY ClearBitsCases DEF Counts
  <1>2. LinkType(link')
    <2>1. CASE Completes(s0, senders)
      BY <2>1, MasterNode, EntersType DEF Completes, IInv
    <2>2. CASE Remains(s0, senders)
      BY <2>2 DEF Remains, IInv
    <2>3. QED
      BY <1>1, <2>1, <2>2
  <1>3. TypeOK'
    <2>1. barriers' \in [Syncs -> SUBSET Node]
      <3>1. barriers[s0] \ senders \in SUBSET Node /\ barrierInitValues[s0] \in SUBSET Node
        BY DEF IInv, TypeOK
      <3>2. QED
        BY <1>1, <3>1, UpdateType DEF Completes, Remains, IInv, TypeOK
    <2>2. syncRespQ' \in [Node -> [Syncs -> 0 .. 1]]
      <3>1. CASE Completes(s0, senders)
        BY <3>1, MasterNode, WriteType DEF Completes, IInv, TypeOK
      <3>2. QED
        BY <1>1, <3>1 DEF Remains, IInv, TypeOK
    <2>3. QED
      BY <1>2, <2>1, <2>2 DEF IInv, TypeOK, LinkType, Counts
  <1>4. Started'
    <2>1. InitFirst(link', initDone')
      <3>1. UNCHANGED initDone /\ initDone[Master]
        BY DEF Counts
      <3>2. CASE Completes(s0, senders)
        BY <3>1, <3>2, EntersFirst DEF Completes, IInv, Started
      <3>3. CASE Remains(s0, senders)
        BY <3>1, <3>3 DEF Remains, IInv, Started
      <3>4. QED
        BY <1>1, <3>2, <3>3
    <2>2. QED
      BY <2>1, StartedKept DEF Counts
  <1>5. \A s \in Syncs : Part(s)' = Part(s)
    BY DEF Counts, Part
  <1>6. ASSUME NEW n \in Node, NEW s \in Syncs PROVE Fares(n, s)
    <2>1. CASE s # s0
      <3>1. QueuesKept(n, s)
        BY <2>1 DEF Counts, Seen
      <3>2. SameAhead(link, link', n, s)
        <4>1. CASE Completes(s0, senders)
          BY <2>1, <4>1, EntersOther, MasterNode DEF Completes, IInv
        <4>2. CASE Remains(s0, senders)
          BY <4>2 DEF Remains, SameAhead
        <4>3. QED
          BY <1>1, <4>1, <4>2
      <3>3. barriers'[s] = barriers[s] /\ syncRespQ'[n][s] = syncRespQ[n][s]
        <4>1. CASE Completes(s0, senders)
          BY <2>1, <4>1, WriteRead, MasterNode DEF Completes, IInv, TypeOK
        <4>2. CASE Remains(s0, senders)
          BY <2>1, <4>2 DEF Remains, IInv, TypeOK
        <4>3. QED
          BY <1>1, <4>1, <4>2
      <3>4. QED
        BY <3>1, <3>2, <3>3 DEF Fares, Kept, Counts
    <2>2. CASE s = s0 /\ n \in Part(s0)
      BY <1>1, <2>2, EngineTold, EngineSeen DEF Fares
    <2>3. CASE s = s0 /\ n \notin Part(s0)
      BY <2>3 DEF Fares, Counts, Seen
    <2>4. QED
      BY <2>1, <2>2, <2>3
  <1>7. Sources' /\ Stages'
    BY <1>5, <1>6, StagesStep
  <1>8. QED
    BY <1>2, <1>3, <1>4, <1>7 DEF IInv
-----------------------------------------------------------------------------
(* A queue of the master when it takes the first signal, of barrier s0.    *)
LEMMA FirstSignal ==
  ASSUME IInv, NEW n \in Node, doneSignalQ[n] # << >>,
         doneSignalQ' = [doneSignalQ EXCEPT ![n] = Tail(@)]
  PROVE  LET s0 == Head(doneSignalQ[n])
         IN  /\ s0 \in Syncs /\ n \in Part(s0)
             /\ \A w \in Stage : At(w, n, s0) => w = "queued" /\ Never(doneSignalQ'[n], s0)
             /\ doneSignalQ' \in [Node -> Seq(Syncs)]
             /\ \A m \in Node, s \in Syncs :
                  (m = n /\ s = s0) \/ Same(doneSignalQ[m], doneSignalQ'[m], s)
  <1> DEFINE q == doneSignalQ[n]
             s0 == Head(doneSignalQ[n])
  <1>1. q \in Seq(Syncs) /\ q # << >>
    BY DEF IInv, TypeOK
  <1>2. s0 \in Syncs /\ Tail(q) \in Seq(Syncs)
    BY <1>1, DeqType
  <1>3. ~Never(q, s0) /\ (Once(q, s0) => Never(Tail(q), s0))
    BY <1>1, DeqIt
  <1>4. \A m \in Node : doneSignalQ'[m] = IF m = n THEN Tail(q) ELSE doneSignalQ[m]
    BY DEF IInv, TypeOK
  <1>5. doneSignalQ' \in [Node -> Seq(Syncs)]
    BY <1>2 DEF IInv, TypeOK
  <1>6. \A s \in Syncs : s # s0 => Same(q, Tail(q), s)
    BY <1>1, DeqOther
  <1> HIDE DEF s0
  <1>7. n \in Part(s0)
    BY <1>2, <1>3 DEF IInv, Sources
  <1>8. \A w \in Stage : At(w, n, s0) => w = "queued" /\ Never(doneSignalQ'[n], s0)
    BY <1>3, <1>4 DEF At
  <1>9. \A m \in Node, s \in Syncs :
          (m = n /\ s = s0) \/ Same(doneSignalQ[m], doneSignalQ'[m], s)
    BY <1>4, <1>6, SameItself
  <1>10. QED
    BY <1>2, <1>5, <1>7, <1>8, <1>9 DEF s0

(* The same for the report of node n at the head of the ring. *)
LEMMA FirstReport ==
  ASSUME IInv, NEW n \in Node, Report!Deq(n, Master)
  PROVE  LET s0 == Report!First(n, Master)
         IN  /\ s0 \in Syncs /\ n \in Part(s0)
             /\ \A w \in Stage : At(w, n, s0) => w = "sent" /\ Never(chan'[<<n, Master>>], s0)
             /\ Report!TypeOK'
             /\ \A m \in Node, s \in Syncs :
                  (m = n /\ s = s0) \/ Same(chan[<<m, Master>>], chan'[<<m, Master>>], s)
  <1> DEFINE q == chan[<<n, Master>>]
             s0 == Report!First(n, Master)
  <1>1. /\ q \in Seq(Syncs) /\ q # << >> /\ s0 = Head(q)
        /\ chan' = [chan EXCEPT ![<<n, Master>>] = Tail(q)]
        /\ chan \in [Reports -> Seq(Syncs)]
        /\ \A m \in Node : <<m, Master>> \in Reports
    BY MasterNode DEF IInv, TypeOK, Report!TypeOK, Reports, Report!Deq, Report!CanDeq, Report!First
  <1>2. s0 \in Syncs /\ Tail(q) \in Seq(Syncs)
    BY <1>1, DeqType
  <1>3. ~Never(q, s0) /\ (Once(q, s0) => Never(Tail(q), s0))
    BY <1>1, DeqIt
  <1>4. \A m \in Node : chan'[<<m, Master>>] = IF m = n THEN Tail(q) ELSE chan[<<m, Master>>]
    BY <1>1
  <1>5. chan' \in [Reports -> Seq(Syncs)]
    BY <1>1, <1>2
  <1>6. \A s \in Syncs : s # s0 => Same(q, Tail(q), s)
    BY <1>1, DeqOther
  <1> HIDE DEF s0
  <1>7. n \in Part(s0)
    BY <1>2, <1>3 DEF IInv, Sources
  <1>8. \A w \in Stage : At(w, n, s0) => w = "sent" /\ Never(chan'[<<n, Master>>], s0)
    BY <1>3, <1>4 DEF At
  <1>9. \A m \in Node, s \in Syncs :
          (m = n /\ s = s0) \/ Same(chan[<<m, Master>>], chan'[<<m, Master>>], s)
    BY <1>4, <1>6, SameItself
  <1>10. QED
    BY <1>2, <1>5, <1>7, <1>8, <1>9 DEF s0, Report!TypeOK

LEMMA PartStarted == \A s, n : n \in Part(s) => initDone[Master]
  BY DEF Part

(* Rule setRemoteSyncSignal. *)
LEMMA SetRemoteCounts ==
  ASSUME IInv, NEW m \in Node, SetRemoteSyncSignal(m)
  PROVE  \E s0 \in Syncs : \E senders \in SUBSET Node : Counts(s0, senders)
  <1>1. /\ initDone[Master] /\ Report!Deq(m, Master)
        /\ ClearBits(Report!First(m, Master), {m})
        /\ UNCHANGED <<initDone, portInitDone, barrierInitialized,
                       barrierInitValues, doneSignalQ, phase>>
    BY DEF SetRemoteSyncSignal
  <1>2. PICK s0 \in Syncs : s0 = Report!First(m, Master)
    BY <1>1, FirstReport
  <1>3. /\ m \in Part(s0) /\ Report!TypeOK'
        /\ \A w \in Stage : At(w, m, s0) => w = "sent" /\ Never(chan'[<<m, Master>>], s0)
        /\ \A n \in Node, s \in Syncs :
             (n = m /\ s = s0) \/ Same(chan[<<n, Master>>], chan'[<<n, Master>>], s)
    BY <1>1, <1>2, FirstReport
  <1>4. PICK w \in Stage : At(w, m, s0)
    BY <1>3 DEF IInv, Stages
  <1>5. Never(doneSignalQ'[m], s0) /\ Never(chan'[<<m, Master>>], s0)
    BY <1>1, <1>3, <1>4 DEF At
  <1>6. Seen(s0, {m})
    BY <1>1, <1>3, <1>5, SameItself DEF Seen, QueuesKept
  <1>7. Counts(s0, {m})
    BY <1>1, <1>2, <1>3, <1>6 DEF Counts, IInv, TypeOK
  <1>8. QED
    BY <1>7

(* Rule setLocalSyncSignal, alone or with a report. *)
LEMMA SetLocalCounts ==
  ASSUME IInv, SetLocalSyncSignal
  PROVE  \E s0 \in Syncs : \E senders \in SUBSET Node : Counts(s0, senders)
  <1>1. /\ doneSignalQ[Master] # << >>
        /\ doneSignalQ' = [doneSignalQ EXCEPT ![Master] = Tail(@)]
        /\ UNCHANGED <<initDone, portInitDone, barrierInitialized, barrierInitValues, phase>>
    BY DEF SetLocalSyncSignal
  <1>2. PICK s0 \in Syncs : s0 = Head(doneSignalQ[Master])
    BY <1>1, FirstSignal, MasterNode
  <1>3. /\ Master \in Part(s0) /\ doneSignalQ' \in [Node -> Seq(Syncs)]
        /\ \A w \in Stage : At(w, Master, s0) => w = "queued" /\ Never(doneSignalQ'[Master], s0)
        /\ \A n \in Node, s \in Syncs :
             (n = Master /\ s = s0) \/ Same(doneSignalQ[n], doneSignalQ'[n], s)
    BY <1>1, <1>2, FirstSignal, MasterNode
  <1>4. PICK w \in Stage : At(w, Master, s0)
    BY <1>3 DEF IInv, Stages
  <1>5. w = "queued" /\ Never(doneSignalQ'[Master], s0) /\ initDone[Master]
    BY <1>3, <1>4, PartStarted
  <1>6. CASE ClearBits(s0, {Master}) /\ UNCHANGED chan
    <2>1. Never(chan'[<<Master, Master>>], s0)
      BY <1>4, <1>5, <1>6 DEF At
    <2>2. Seen(s0, {Master})
      BY <1>3, <1>5, <1>6, <2>1, SameItself DEF Seen, QueuesKept
    <2>3. Counts(s0, {Master})
      BY <1>1, <1>3, <1>5, <1>6, <2>2 DEF Counts, IInv, TypeOK, Report!TypeOK, Reports
    <2>4. QED
      BY <2>3, MasterNode
  <1>7. ASSUME NEW m \in Node, Report!Deq(m, Master), Report!First(m, Master) = s0,
               ClearBits(s0, {Master, m})
        PROVE  Counts(s0, {Master, m})
    <2>1. /\ m \in Part(s0) /\ Report!TypeOK'
          /\ \A v \in Stage : At(v, m, s0) => v = "sent" /\ Never(chan'[<<m, Master>>], s0)
          /\ \A n \in Node, s \in Syncs :
               (n = m /\ s = s0) \/ Same(chan[<<n, Master>>], chan'[<<n, Master>>], s)
      BY <1>7, FirstReport
    <2>2. PICK v \in Stage : At(v, m, s0)
      BY <2>1 DEF IInv, Stages
    <2>3. m # Master
      BY <1>3, <2>1, <2>2
    <2>4. Never(doneSignalQ'[m], s0) /\ Never(chan'[<<m, Master>>], s0)
      <3>1. Never(doneSignalQ[m], s0) /\ m \in Node
        BY <2>1, <2>2 DEF At
      <3>2. QED
        BY <1>3, <2>1, <2>2, <2>3, <3>1 DEF Same
    <2>5. Never(chan'[<<Master, Master>>], s0)
      <3>1. Never(chan[<<Master, Master>>], s0)
        BY <1>4, <1>5 DEF At
      <3>2. QED
        BY <2>1, <2>3, <3>1, MasterNode DEF Same
    <2>6. Seen(s0, {Master, m})
      BY <1>3, <1>5, <2>1, <2>4, <2>5 DEF Seen, QueuesKept
    <2>7. QED
      BY <1>1, <1>3, <1>5, <1>7, <2>1, <2>6 DEF Counts
  <1>8. (\E m \in Node : Counts(s0, {Master, m})) => \E senders \in SUBSET Node : Counts(s0, senders)
    BY MasterNode
  <1>9. QED
    BY <1>2, <1>6, <1>7, <1>8 DEF SetLocalSyncSignal
-----------------------------------------------------------------------------
(* Rule dropBroadcastMsg. *)
LEMMA DropBroadcastMsgInv ==
  ASSUME IInv, DropBroadcastMsg
  PROVE  IInv'
  <1>1. /\ link[Prev(Master)] # << >> /\ link' = Leaves(link, Master)
        /\ UNCHANGED <<initDone, portInitDone, barrierInitialized, barrierInitValues,
                       barriers, doneSignalQ, syncRespQ, chan, phase>>
    BY DEF DropBroadcastMsg, CanRecv, Leaves
  <1>2. LinkType(link')
    BY <1>1, LeavesType DEF IInv
  <1>3. TypeOK'
    BY <1>1, <1>2 DEF IInv, TypeOK, LinkType, Report!TypeOK, Reports
  <1>4. Started'
    <2>1. InitFirst(link', initDone')
      BY <1>1, LeavesFirst DEF IInv, Started
    <2>2. QED
      BY <1>1, <2>1, StartedKept
  <1>5. \A n \in Node, s \in Syncs : Fares(n, s)
    BY <1>1, LeavesKeeps, SameItself DEF Fares, Kept, QueuesKept, IInv
  <1>6. \A s \in Syncs : Part(s)' = Part(s)
    BY <1>1 DEF Part
  <1>7. QED
    BY <1>2, <1>3, <1>4, <1>5, <1>6, StagesStep DEF IInv

(* Rule portInit. *)
LEMMA PortInitInv ==
  ASSUME IInv, NEW n \in Node, PortInit(n)
  PROVE  IInv'
  <1>1. /\ portInitDone' = [portInitDone EXCEPT ![n] = TRUE]
        /\ UNCHANGED <<initDone, barrierInitialized, barrierInitValues, barriers,
                       doneSignalQ, syncRespQ, link, chan, phase>>
    BY DEF PortInit
  <1>2. TypeOK' /\ LinkType(link')
    BY <1>1 DEF IInv, TypeOK, Report!TypeOK, Reports
  <1>3. Started'
    BY <1>1 DEF IInv, Started
  <1>4. \A m \in Node, s \in Syncs : Fares(m, s)
    BY <1>1, SameItself DEF Fares, Kept, QueuesKept, SameAhead
  <1>5. \A s \in Syncs : Part(s)' = Part(s)
    BY <1>1 DEF Part
  <1>6. QED
    BY <1>2, <1>3, <1>4, <1>5, StagesStep DEF IInv

(* A slave passes on a message: the chain keeps its type, and the service  *)
(* has started.                                                            *)
LEMMA Forwarding ==
  ASSUME IInv, NEW k \in Node, k \in Slave, Forward(k)
  PROVE  /\ link' = Passes(link, k) /\ LinkType(link') /\ link[Prev(k)] # << >>
         /\ Offered(k) = Head(link[Prev(k)]) /\ Offered(k) \in Syncs \cup {InitMsg}
         /\ InitFirst(link', [initDone EXCEPT ![k] = TRUE])
         /\ initDone[Master] /\ (~initDone[k] => Offered(k) = InitMsg)
  <1>1. /\ link[Prev(k)] # << >> /\ Len(link[k]) < ChainCap
        /\ Offered(k) = Head(link[Prev(k)]) /\ link' = Passes(link, k)
    BY DEF Forward, CanRecv, CanSend, Offered, Passes
  <1>2. LinkType(link) /\ initDone \in [Node -> BOOLEAN] /\ InitFirst(link, initDone)
    BY DEF IInv, TypeOK, Started
  <1>3. LinkType(link')
    BY <1>1, <1>2, PassesType
  <1>4. InitFirst(link', [initDone EXCEPT ![k] = TRUE])
    BY <1>1, <1>2, PassesFirst
  <1>5. initDone[Prev(k)]
    BY <1>1, <1>2, AheadNodes DEF InitFirst, Slave
  <1>6. initDone[Master]
    BY <1>5, AheadNodes DEF IInv, Started, Slave
  <1>7. ~initDone[k] => Offered(k) = InitMsg
    BY <1>1, <1>2, <1>5 DEF InitFirst
  <1>8. Offered(k) \in Syncs \cup {InitMsg}
    BY <1>1, <1>2, PassesRead
  <1>9. QED
    BY <1>1, <1>3, <1>4, <1>6, <1>7, <1>8

(* Rule recvInit: what a slave receives first is SYNC_INIT_DONE. *)
LEMMA RecvInitInv ==
  ASSUME IInv, NEW k \in Node, RecvInit(k)
  PROVE  IInv'
  <1>1. /\ k \in Slave /\ ~initDone[k] /\ Forward(k)
        /\ initDone' = [initDone EXCEPT ![k] = TRUE]
        /\ UNCHANGED <<portInitDone, barrierInitialized, barrierInitValues, barriers,
                       doneSignalQ, syncRespQ, chan, phase>>
    BY DEF RecvInit
  <1>2. /\ link' = Passes(link, k) /\ LinkType(link') /\ link[Prev(k)] # << >>
        /\ Head(link[Prev(k)]) = InitMsg
        /\ InitFirst(link', initDone') /\ initDone[Master]
    BY <1>1, Forwarding
  <1>3. /\ initDone' \in [Node -> BOOLEAN] /\ initDone'[Master] = initDone[Master]
        /\ \A n \in Node : initDone'[n] => initDone[n] \/ initDone[Master]
    <2>1. initDone \in [Node -> BOOLEAN] /\ k # Master
      BY <1>1 DEF IInv, TypeOK, Slave
    <2>2. initDone' \in [Node -> BOOLEAN] /\ initDone'[Master] = initDone[Master]
      BY <1>1, <2>1, MasterNode
    <2>3. QED
      BY <1>2, <2>2
  <1>4. TypeOK'
    BY <1>1, <1>2, <1>3 DEF IInv, TypeOK, LinkType, Report!TypeOK, Reports
  <1>5. Started'
    BY <1>1, <1>2, <1>3, StartedKept
  <1>6. \A n \in Node, s \in Syncs : Fares(n, s)
    <2>1. \A s \in Syncs : s # Head(link[Prev(k)])
      BY <1>2, SyncAssumption
    <2>2. \A n \in Node, s \in Syncs : SameAhead(link, link', n, s)
      BY <1>1, <1>2, <2>1, PassesOther DEF IInv
    <2>3. QED
      BY <1>1, <2>2, SameItself DEF Fares, Kept, QueuesKept
  <1>7. \A s \in Syncs : Part(s)' = Part(s)
    BY <1>1, <1>3 DEF Part
  <1>8. QED
    BY <1>2, <1>4, <1>5, <1>6, <1>7, StagesStep DEF IInv

(* Rule recvSyncSignal: the completion reaches the client of the slave. *)
LEMMA RecvSyncSignalInv ==
  ASSUME IInv, NEW k \in Node, RecvSyncSignal(k)
  PROVE  IInv'
  <1> DEFINE x == Offered(k)
  <1>1. /\ k \in Slave /\ initDone[k] /\ Forward(k)
        /\ UNCHANGED <<initDone, portInitDone, barrierInitialized, barrierInitValues, barriers,
                       doneSignalQ, chan, phase>>
        /\ \/ x = InitMsg /\ UNCHANGED syncRespQ
           \/ /\ x # InitMsg /\ syncRespQ[k][x] = 0
              /\ syncRespQ' = [syncRespQ EXCEPT ![k][x] = 1]
    BY DEF RecvSyncSignal
  <1>2. /\ link' = Passes(link, k) /\ LinkType(link') /\ link[Prev(k)] # << >>
        /\ x = Head(link[Prev(k)]) /\ x \in Syncs \cup {InitMsg}
        /\ InitFirst(link', [initDone EXCEPT ![k] = TRUE]) /\ initDone[Master]
    BY <1>1, Forwarding
  <1> HIDE DEF x
  <1>3. initDone' = [initDone EXCEPT ![k] = TRUE]
    BY <1>1 DEF IInv, TypeOK
  <1>4. /\ syncRespQ' \in [Node -> [Syncs -> 0 .. 1]]
        /\ \A n \in Node, s \in Syncs :
             syncRespQ'[n][s] = IF n = k /\ s = x THEN 1 ELSE syncRespQ[n][s]
    <2>1. CASE x = InitMsg
      BY <1>1, <2>1, SyncAssumption DEF IInv, TypeOK
    <2>2. CASE x # InitMsg
      <3>1. /\ x \in Syncs /\ syncRespQ \in [Node -> [Syncs -> 0 .. 1]] /\ 1 \in 0 .. 1
            /\ syncRespQ' = [syncRespQ EXCEPT ![k][x] = 1]
        BY <1>1, <1>2, <2>2 DEF IInv, TypeOK
      <3>2. QED
        BY <3>1, WriteType, WriteRead
    <2>3. QED
      BY <2>1, <2>2
  <1>5. TypeOK'
    BY <1>1, <1>2, <1>4 DEF IInv, TypeOK, LinkType, Report!TypeOK, Reports
  <1>6. Started'
    BY <1>1, <1>2, <1>3, StartedKept
  <1>7. ASSUME NEW n \in Node, NEW s \in Syncs PROVE Fares(n, s)
    <2>1. CASE s # x
      <3>1. SameAhead(link, link', n, s)
        BY <1>1, <1>2, <2>1, PassesOther DEF IInv
      <3>2. QED
        BY <1>1, <1>4, <2>1, <3>1, SameItself DEF Fares, Kept, QueuesKept
    <2>2. CASE s = x /\ n # k
      <3>1. SameAhead(link, link', n, s)
        BY <1>1, <1>2, <2>2, PassesIt DEF IInv
      <3>2. QED
        BY <1>1, <1>4, <2>2, <3>1, SameItself DEF Fares, Kept, QueuesKept
    <2>3. CASE s = x /\ n = k
      <3>1. QueuesKept(n, s)
        BY <1>1, SameItself DEF QueuesKept
      <3>2. /\ ~ToldNever(link, n, s)
            /\ ToldOnce(link, n, s) => ToldNever(link', n, s)
        BY <1>1, <1>2, <2>3, PassesIt DEF IInv
      <3>3. ASSUME NEW w \in Stage, At(w, n, s) PROVE At("offered", n, s)'
        <4>1. w = "told" /\ ToldNever(link', n, s)
          BY <3>2, <3>3 DEF At
        <4>2. QED
          BY <1>1, <1>4, <2>3, <3>3, <4>1 DEF At
      <3>4. QED
        BY <3>1, <3>3 DEF Fares, Stage
    <2>4. QED
      BY <2>1, <2>2, <2>3
  <1>8. \A s \in Syncs : Part(s)' = Part(s)
    BY <1>1 DEF Part
  <1>9. QED
    BY <1>2, <1>5, <1>6, <1>7, <1>8, StagesStep DEF IInv

(* Rule sendDoneSignal: from the queue of a slave onto the ring. *)
LEMMA SendDoneSignalInv ==
  ASSUME IInv, NEW k \in Node, SendDoneSignal(k)
  PROVE  IInv'
  <1>1. /\ k \in Slave /\ doneSignalQ[k] # << >>
        /\ chan' = [chan EXCEPT ![<<k, Master>>] = Append(@, Head(doneSignalQ[k]))]
        /\ doneSignalQ' = [doneSignalQ EXCEPT ![k] = Tail(@)]
        /\ UNCHANGED <<initDone, portInitDone, barrierInitialized, barrierInitValues, barriers,
                       syncRespQ, link, phase>>
    BY DEF SendDoneSignal, Report!Enq
  <1>2. PICK s0 \in Syncs : s0 = Head(doneSignalQ[k])
    BY <1>1, FirstSignal
  <1>3. /\ k \in Part(s0) /\ doneSignalQ' \in [Node -> Seq(Syncs)]
        /\ \A w \in Stage : At(w, k, s0) => w = "queued" /\ Never(doneSignalQ'[k], s0)
        /\ \A m \in Node, s \in Syncs :
             (m = k /\ s = s0) \/ Same(doneSignalQ[m], doneSignalQ'[m], s)
    BY <1>1, <1>2, FirstSignal
  <1>4. /\ chan \in [Reports -> Seq(Syncs)] /\ chan[<<k, Master>>] \in Seq(Syncs)
        /\ \A m \in Node : <<m, Master>> \in Reports
    BY MasterNode DEF IInv, TypeOK, Report!TypeOK, Reports
  <1>5. Append(chan[<<k, Master>>], s0) \in Seq(Syncs)
    BY <1>4, EnqType
  <1>6. /\ chan' \in [Reports -> Seq(Syncs)]
        /\ \A m \in Node : chan'[<<m, Master>>] =
             IF m = k THEN Append(chan[<<k, Master>>], s0) ELSE chan[<<m, Master>>]
    BY <1>1, <1>2, <1>4, <1>5
  <1>7. TypeOK' /\ LinkType(link')
    BY <1>1, <1>3, <1>6 DEF IInv, TypeOK, Report!TypeOK
  <1>8. Started'
    BY <1>1 DEF IInv, Started
  <1>9. ASSUME NEW n \in Node, NEW s \in Syncs PROVE Fares(n, s)
    <2>1. CASE n # k \/ s # s0
      <3>1. Same(chan[<<n, Master>>], chan'[<<n, Master>>], s)
        BY <1>4, <1>6, <2>1, EnqOther, SameItself
      <3>2. QED
        BY <1>1, <1>3, <2>1, <3>1 DEF Fares, Kept, QueuesKept, SameAhead
    <2>2. CASE n = k /\ s = s0
      <3>1. ASSUME NEW w \in Stage, At(w, n, s) PROVE At("sent", n, s)'
        <4>1. w = "queued" /\ Never(doneSignalQ'[n], s)
          BY <1>3, <2>2, <3>1
        <4>2. Never(chan[<<k, Master>>], s0)
          BY <2>2, <3>1, <4>1 DEF At
        <4>3. Once(chan'[<<n, Master>>], s)
          BY <1>4, <1>6, <2>2, <4>2, EnqIt
        <4>4. QED
          BY <1>1, <3>1, <4>1, <4>3 DEF At
      <3>2. QED
        BY <1>3, <2>2, <3>1 DEF Fares, Stage
    <2>3. QED
      BY <2>1, <2>2
  <1>10. \A s \in Syncs : Part(s)' = Part(s)
    BY <1>1 DEF Part
  <1>11. QED
    BY <1>7, <1>8, <1>9, <1>10, StagesStep DEF IInv

(* Method signalSyncReached. *)
LEMMA SignalInv ==
  ASSUME IInv, NEW k \in Node, NEW s0 \in Syncs, SignalSyncReached(k, s0)
  PROVE  IInv'
  <1>1. /\ initDone[k] /\ k \in barrierInitValues[s0] /\ phase[k][s0] = "run"
        /\ doneSignalQ' = [doneSignalQ EXCEPT ![k] = Append(@, s0)]
        /\ phase' = [phase EXCEPT ![k][s0] = "wait"]
        /\ UNCHANGED <<initDone, portInitDone, barrierInitialized, barrierInitValues, barriers,
                       syncRespQ, link, chan>>
    BY DEF SignalSyncReached
  <1>2. initDone[Master] /\ k \in Part(s0)
    BY <1>1 DEF IInv, Started, Part
  <1>3. doneSignalQ \in [Node -> Seq(Syncs)] /\ doneSignalQ[k] \in Seq(Syncs)
    BY DEF IInv, TypeOK
  <1>4. /\ doneSignalQ' \in [Node -> Seq(Syncs)]
        /\ \A m \in Node : doneSignalQ'[m] = IF m = k THEN Append(doneSignalQ[k], s0) ELSE doneSignalQ[m]
    <2>1. Append(doneSignalQ[k], s0) \in Seq(Syncs)
      BY <1>3, EnqType
    <2>2. QED
      BY <1>1, <1>3, <2>1
  <1>5. /\ phase' \in [Node -> [Syncs -> {"run", "wait"}]]
        /\ \A n \in Node, s \in Syncs :
             phase'[n][s] = IF n = k /\ s = s0 THEN "wait" ELSE phase[n][s]
    <2>1. phase \in [Node -> [Syncs -> {"run", "wait"}]]
      BY DEF IInv, TypeOK
    <2>2. QED
      BY <1>1, <2>1, WriteType, WriteRead
  <1>6. TypeOK' /\ LinkType(link')
    BY <1>1, <1>4, <1>5 DEF IInv, TypeOK, Report!TypeOK, Reports
  <1>7. Started'
    BY <1>1, <1>2 DEF IInv, Started
  <1>8. ASSUME NEW n \in Node, NEW s \in Syncs PROVE Fares(n, s)
    <2>1. CASE n # k \/ s # s0
      <3>1. Same(doneSignalQ[n], doneSignalQ'[n], s)
        BY <1>3, <1>4, <2>1, EnqOther, SameItself
      <3>2. QED
        BY <1>1, <1>5, <2>1, <3>1, SameItself DEF Fares, Kept, QueuesKept, SameAhead
    <2>2. CASE n = k /\ s = s0
      <3>1. ASSUME NEW w \in Stage, At(w, n, s) PROVE At("queued", n, s)'
        <4>1. w = "run" /\ Never(doneSignalQ[k], s0)
          BY <1>1, <2>2, <3>1 DEF At
        <4>2. Once(doneSignalQ'[n], s)
          BY <1>3, <1>4, <2>2, <4>1, EnqIt
        <4>3. phase'[n][s] # "run"
          BY <1>5, <2>2
        <4>4. QED
          BY <1>1, <3>1, <4>1, <4>2, <4>3 DEF At
      <3>2. QED
        BY <1>2, <2>2, <3>1 DEF Fares, Stage
    <2>3. QED
      BY <2>1, <2>2
  <1>9. \A s \in Syncs : Part(s)' = Part(s)
    BY <1>1 DEF Part
  <1>10. QED
    BY <1>6, <1>7, <1>8, <1>9, StagesStep DEF IInv

(* Method waitForSync. *)
LEMMA WaitForSyncInv ==
  ASSUME IInv, NEW k \in Node, NEW s0 \in Syncs, WaitForSync(k, s0)
  PROVE  IInv'
  <1>1. /\ syncRespQ[k][s0] > 0
        /\ syncRespQ' = [syncRespQ EXCEPT ![k][s0] = @ - 1]
        /\ phase' = [phase EXCEPT ![k][s0] = "run"]
        /\ UNCHANGED <<initDone, portInitDone, barrierInitialized, barrierInitValues, barriers,
                       doneSignalQ, link, chan>>
    BY DEF WaitForSync
  <1>2. syncRespQ \in [Node -> [Syncs -> 0 .. 1]] /\ syncRespQ[k][s0] = 1
    BY <1>1 DEF IInv, TypeOK
  <1>3. syncRespQ' = [syncRespQ EXCEPT ![k][s0] = 0]
    BY <1>1, <1>2
  <1>4. initDone[Master]
    BY <1>2 DEF IInv, Started
  <1>5. /\ phase' \in [Node -> [Syncs -> {"run", "wait"}]]
        /\ \A n \in Node, s \in Syncs :
             phase'[n][s] = IF n = k /\ s = s0 THEN "run" ELSE phase[n][s]
    <2>1. phase \in [Node -> [Syncs -> {"run", "wait"}]]
      BY DEF IInv, TypeOK
    <2>2. QED
      BY <1>1, <2>1, WriteType, WriteRead
  <1>6. /\ syncRespQ' \in [Node -> [Syncs -> 0 .. 1]]
        /\ \A n \in Node, s \in Syncs :
             syncRespQ'[n][s] = IF n = k /\ s = s0 THEN 0 ELSE syncRespQ[n][s]
    BY <1>2, <1>3, WriteType, WriteRead
  <1>7. TypeOK' /\ LinkType(link')
    BY <1>1, <1>5, <1>6 DEF IInv, TypeOK, Report!TypeOK, Reports
  <1>8. Started'
    BY <1>1, <1>4 DEF IInv, Started
  <1>9. ASSUME NEW n \in Node, NEW s \in Syncs PROVE Fares(n, s)
    <2>1. QueuesKept(n, s)
      BY <1>1, SameItself DEF QueuesKept
    <2>2. CASE n # k \/ s # s0
      BY <1>1, <1>5, <1>6, <2>1, <2>2 DEF Fares, Kept, SameAhead
    <2>3. CASE n = k /\ s = s0
      <3>1. ASSUME NEW w \in Stage, At(w, n, s) PROVE At("run", n, s)'
        <4>1. w = "offered"
          BY <1>2, <2>3, <3>1 DEF At
        <4>2. phase'[n][s] = "run" /\ syncRespQ'[n][s] = 0
          BY <1>5, <1>6, <2>3
        <4>3. QED
          BY <1>1, <3>1, <4>1, <4>2 DEF At
      <3>2. QED
        BY <2>1, <3>1 DEF Fares, Stage
    <2>4. QED
      BY <2>2, <2>3
  <1>10. \A s \in Syncs : Part(s)' = Part(s)
    BY <1>1 DEF Part
  <1>11. QED
    BY <1>7, <1>8, <1>9, <1>10, StagesStep DEF IInv
-----------------------------------------------------------------------------
LEMMA IInvStep == IInv /\ [Next]_vars => IInv'
  <1> SUFFICES ASSUME IInv, [Next]_vars PROVE IInv'
    OBVIOUS
  <1>1. CASE UNCHANGED vars
    <2>1. UNCHANGED <<initDone, portInitDone, barrierInitialized, barrierInitValues,
                      barriers, doneSignalQ, syncRespQ, link, chan, phase>>
      BY <1>1 DEF vars
    <2>2. /\ TypeOK' /\ LinkType(link') /\ Started'
      BY <2>1 DEF IInv, TypeOK, Started, Report!TypeOK, Reports
    <2>3. \A n \in Node, s \in Syncs : Fares(n, s)
      BY <2>1, SameItself DEF Fares, Kept, QueuesKept, SameAhead
    <2>4. \A s \in Syncs : Part(s)' = Part(s)
      BY <2>1 DEF Part
    <2>5. QED
      BY <2>2, <2>3, <2>4, StagesStep DEF IInv
  <1>2. QED
    BY <1>1, SetSyncBarrierInv, CheckBarrierInitInv, SetLocalCounts, DropBroadcastMsgInv,
       SetRemoteCounts, CountsInv, PortInitInv, RecvInitInv, SendDoneSignalInv, RecvSyncSignalInv,
       SignalInv, WaitForSyncInv DEF Next

(* Every engine of a barrier is at one of the six stages, in every state   *)
(* of every group, whatever masks the master's client sets.                *)
THEOREM SyncInvariant == Spec => []IInv
  BY IInvInit, IInvStep, PTL DEF Spec
-----------------------------------------------------------------------------
(* A message that is in a queue once, or never, is counted once, or not.   *)
LEMMA CountInQueue ==
  ASSUME NEW q, NEW x
  PROVE  /\ Never(q, x) => Cardinality({i \in DOMAIN q : q[i] = x}) = 0
         /\ Once(q, x) => Cardinality({i \in DOMAIN q : q[i] = x}) = 1
  <1> DEFINE C == {i \in DOMAIN q : q[i] = x}
  <1>1. ASSUME Never(q, x) PROVE Cardinality(C) = 0
    <2>1. C = {}
      BY <1>1 DEF Never
    <2>2. QED
      BY <2>1, FS_EmptySet
  <1>2. ASSUME Once(q, x) PROVE Cardinality(C) = 1
    <2>1. PICK i \in DOMAIN q : \A j \in DOMAIN q : q[j] = x <=> j = i
      BY <1>2 DEF Once
    <2>2. C = {i}
      BY <2>1
    <2>3. QED
      BY <2>2, FS_Singleton
  <1>3. QED
    BY <1>1, <1>2

(* The same for the completions ahead of a slave. *)
LEMMA CountAhead ==
  ASSUME LinkType(link), NEW n \in Node, n # Master, NEW s
  PROVE  /\ ToldNever(link, n, s) => OnTheWay(n, s) = 0
         /\ ToldOnce(link, n, s) => OnTheWay(n, s) = 1
  <1> DEFINE C == {x \in (0 .. n - 1) \X (1 .. ChainCap) :
                     x[2] \in DOMAIN link[x[1]] /\ link[x[1]][x[2]] = s}
  <1>1. OnTheWay(n, s) = Cardinality(C)
    BY DEF OnTheWay
  <1>2. \A k \in 0 .. n - 1 : k \in Node
    BY SyncAssumption DEF Node
  <1>3. \A k \in 0 .. n - 1 : DOMAIN link[k] \subseteq 1 .. ChainCap
    <2>1. SUFFICES ASSUME NEW k \in Node PROVE DOMAIN link[k] \subseteq 1 .. ChainCap
      BY <1>2
    <2>2. link[k] \in Seq(Syncs \cup {InitMsg}) /\ Len(link[k]) <= ChainCap
      BY DEF LinkType
    <2>3. QED
      BY <2>2, SyncAssumption
  <1>4. ASSUME ToldNever(link, n, s) PROVE Cardinality(C) = 0
    <2>1. C = {}
      BY <1>4 DEF ToldNever, Never, Ahead
    <2>2. QED
      BY <2>1, FS_EmptySet
  <1>5. ASSUME ToldOnce(link, n, s) PROVE Cardinality(C) = 1
    <2>1. PICK m \in 0 .. n - 1 : /\ Once(link[m], s)
                                  /\ \A k \in 0 .. n - 1 : k # m => Never(link[k], s)
      BY <1>5 DEF ToldOnce, Ahead
    <2>2. PICK i \in DOMAIN link[m] : \A j \in DOMAIN link[m] : link[m][j] = s <=> j = i
      BY <2>1 DEF Once
    <2>3. ASSUME NEW x \in C PROVE x = <<m, i>>
      <3>1. x[1] = m
        BY <2>1, <2>3 DEF Never
      <3>2. x[2] = i
        BY <2>2, <2>3, <3>1
      <3>3. QED
        BY <2>3, <3>1, <3>2
    <2>4. <<m, i>> \in C
      <3>1. i \in 1 .. ChainCap
        BY <1>3, <2>1, <2>2
      <3>2. QED
        BY <2>1, <2>2, <3>1
    <2>5. C = {<<m, i>>}
      BY <2>3, <2>4
    <2>6. QED
      BY <2>5, FS_Singleton
  <1>6. QED
    BY <1>1, <1>4, <1>5

(* The stage of an engine says what is owed to it and what it has sent.    *)
LEMMA CountStage ==
  ASSUME IInv, NEW s \in Syncs, NEW n \in Part(s), NEW w \in Stage, At(w, n, s)
  PROVE  /\ Owed(n, s) = IF w \in {"told", "offered"} THEN 1 ELSE 0
         /\ Unseen(n, s) = IF w \in {"queued", "sent"} THEN 1 ELSE 0
  <1>1. n \in Node
    BY DEF IInv, TypeOK, Part
  <1>2. OnTheWay(n, s) = IF w = "told" THEN 1 ELSE 0
    <2>1. CASE n = Master
      <3>1. OnTheWay(n, s) = 0
        BY <2>1 DEF OnTheWay
      <3>2. Ahead(n) = {}
        BY <2>1 DEF Ahead, Master
      <3>3. w # "told"
        BY <3>2 DEF At, ToldOnce
      <3>4. QED
        BY <3>1, <3>3
    <2>2. CASE n # Master
      <3>1. IF w = "told" THEN ToldOnce(link, n, s) ELSE ToldNever(link, n, s)
        BY DEF At
      <3>2. LinkType(link)
        BY DEF IInv
      <3>3. QED
        BY <1>1, <2>2, <3>1, <3>2, CountAhead
    <2>3. QED
      BY <2>1, <2>2
  <1>3. syncRespQ[n][s] = IF w = "offered" THEN 1 ELSE 0
    <2>1. syncRespQ[n][s] \in 0 .. 1
      BY <1>1 DEF IInv, TypeOK
    <2>2. syncRespQ[n][s] = 1 <=> w = "offered"
      BY DEF At
    <2>3. QED
      BY <2>1, <2>2
  <1>4. Cardinality({i \in DOMAIN doneSignalQ[n] : doneSignalQ[n][i] = s})
          = IF w = "queued" THEN 1 ELSE 0
    BY CountInQueue DEF At
  <1>5. Cardinality({i \in DOMAIN chan[<<n, Master>>] : chan[<<n, Master>>][i] = s})
          = IF w = "sent" THEN 1 ELSE 0
    BY CountInQueue DEF At
  <1>6. Owed(n, s) = IF w \in {"told", "offered"} THEN 1 ELSE 0
    BY <1>2, <1>3 DEF Owed
  <1>7. Unseen(n, s) = IF w \in {"queued", "sent"} THEN 1 ELSE 0
    BY <1>4, <1>5 DEF Unseen
  <1>8. QED
    BY <1>6, <1>7

LEMMA StagesConserve ==
  ASSUME IInv, NEW s \in Syncs, NEW n \in Part(s)
  PROVE  /\ Unseen(n, s) + (IF n \in barriers[s] THEN 0 ELSE 1)
              = IF Signalled(n, s) THEN 1 ELSE 0
         /\ Owed(n, s) <= 1
         /\ n \notin barriers[s] => Signalled(n, s)
  <1>1. PICK w \in Stage : At(w, n, s)
    BY DEF IInv, Stages
  <1>2. /\ Owed(n, s) = IF w \in {"told", "offered"} THEN 1 ELSE 0
        /\ Unseen(n, s) = IF w \in {"queued", "sent"} THEN 1 ELSE 0
    BY <1>1, CountStage
  <1>3. n \in barriers[s] <=> w # "seen"
    BY <1>1 DEF At
  <1>4. phase[n][s] = "wait" <=> w # "run"
    <2>1. phase[n][s] \in {"run", "wait"}
      BY DEF IInv, TypeOK, Part
    <2>2. phase[n][s] = "run" <=> w = "run"
      BY <1>1 DEF At
    <2>3. QED
      BY <2>1, <2>2
  <1>5. Signalled(n, s) <=> w \in {"queued", "sent", "seen"}
    BY <1>2, <1>4 DEF Signalled, Stage
  <1>6. QED
    BY <1>2, <1>3, <1>5 DEF Stage

(* No signal is lost and none counts twice, and the one completion slot of *)
(* an engine of the barrier is always free when the next completion comes  *)
(* (setLocalSyncSignal, setRemoteSyncSignal, recvSyncSignal).              *)
THEOREM SyncSafe == Spec => []SyncInv
<1>1. IInv => SyncInv
  BY StagesConserve DEF IInv, SyncInv, SignalConserved, RespQNeverStalls
<1>2. QED
  BY <1>1, SyncInvariant, PTL

(* othersSyncAllReached is right once the service has started.             *)
THEOREM SyncOthersReached == Spec => []OthersReachedOnceStarted
<1>1. IInv => OthersReachedOnceStarted
  <2> SUFFICES ASSUME IInv, NEW s \in Syncs, initDone[Master], OthersSyncAllReached(s)
               PROVE  OthersReached(s)
    BY DEF OthersReachedOnceStarted
  <2> SUFFICES ASSUME NEW n \in barrierInitValues[s] \ {Master}
               PROVE  Signalled(n, s)
    BY DEF OthersReached
  <2>1. n \in Part(s) /\ n \notin barriers[s]
    BY DEF Part, OthersSyncAllReached
  <2>2. QED
    BY <2>1, StagesConserve
<1>2. QED
  BY <1>1, SyncInvariant, PTL
-----------------------------------------------------------------------------
(* The completions of s ahead of node n.                                   *)
Told(L, n, s) == {x \in Ahead(n) \X (1 .. ChainCap) :
                    x[2] \in DOMAIN L[x[1]] /\ L[x[1]][x[2]] = s}
Drops(L, k)   == [L EXCEPT ![k] = Tail(@)]

LEMMA ToldFinite ==
  ASSUME NEW L, NEW n \in Node, NEW s
  PROVE  IsFiniteSet(Told(L, n, s)) /\ Cardinality(Told(L, n, s)) \in Nat
  <1>1. IsFiniteSet(0 .. n - 1) /\ IsFiniteSet(1 .. ChainCap)
    BY FS_Interval, SyncAssumption DEF Node
  <1>2. IsFiniteSet(Ahead(n) \X (1 .. ChainCap))
    BY <1>1, FS_Product DEF Ahead
  <1>3. Told(L, n, s) \in SUBSET (Ahead(n) \X (1 .. ChainCap))
    BY DEF Told
  <1>4. QED
    BY <1>2, <1>3, FS_Subset, FS_CardinalityType

(* A message that enters link k is one more for the nodes behind it. *)
LEMMA ToldEnters ==
  ASSUME NEW L, LinkType(L), NEW k \in Node, Len(L[k]) < ChainCap,
         NEW x \in Syncs \cup {InitMsg}, NEW n \in Node, NEW s
  PROVE  Cardinality(Told(Enters(L, k, x), n, s))
           = Cardinality(Told(L, n, s)) + IF k \in Ahead(n) /\ x = s THEN 1 ELSE 0
  <1> DEFINE M == Enters(L, k, x)
             end == <<k, Len(L[k]) + 1>>
  <1>1. L[k] \in Seq(Syncs \cup {InitMsg}) /\ Len(L[k]) \in Nat
    BY DEF LinkType
  <1>2. M[k] = Append(L[k], x) /\ \A j \in Node : j # k => M[j] = L[j]
    BY DEF Enters, LinkType
  <1>3. Ahead(n) \subseteq Node
    BY AheadNodes
  <1>4. /\ DOMAIN M[k] = 1 .. Len(L[k]) + 1 /\ DOMAIN L[k] = 1 .. Len(L[k])
        /\ M[k][Len(L[k]) + 1] = x /\ \A i \in DOMAIN L[k] : M[k][i] = L[k][i]
    BY <1>1, <1>2
  <1>5. end \notin Told(L, n, s)
    BY <1>1, <1>4 DEF Told
  <1> HIDE DEF M
  <1>6. ASSUME NEW y \in Ahead(n) \X (1 .. ChainCap), y # end
        PROVE  y \in Told(M, n, s) <=> y \in Told(L, n, s)
    <2>1. y[1] \in Node /\ y[2] \in 1 .. ChainCap /\ y = <<y[1], y[2]>>
      BY <1>3
    <2>2. CASE y[1] = k
      <3>1. y[2] # Len(L[k]) + 1
        BY <1>6, <2>1, <2>2
      <3>2. y[2] \in DOMAIN M[k] <=> y[2] \in DOMAIN L[k]
        BY <1>1, <1>4, <2>1, <3>1, SyncAssumption
      <3>3. QED
        BY <1>4, <2>2, <3>2 DEF Told
    <2>3. CASE y[1] # k
      BY <1>2, <2>1, <2>3 DEF Told
    <2>4. QED
      BY <2>2, <2>3
  <1>7. CASE k \in Ahead(n) /\ x = s
    <2>1. end \in Ahead(n) \X (1 .. ChainCap)
      BY <1>1, <1>7, SyncAssumption
    <2>2. end \in Told(M, n, s)
      BY <1>1, <1>4, <1>7, <2>1 DEF Told
    <2>3. Told(M, n, s) = Told(L, n, s) \cup {end}
      BY <1>6, <2>2 DEF Told
    <2>4. QED
      BY <1>5, <1>7, <2>3, FS_AddElement, ToldFinite DEF M
  <1>8. CASE ~(k \in Ahead(n) /\ x = s)
    <2>1. end \notin Told(M, n, s)
      BY <1>4, <1>8 DEF Told
    <2>2. Told(M, n, s) = Told(L, n, s)
      BY <1>5, <1>6, <2>1 DEF Told
    <2>3. QED
      BY <1>8, <2>2, ToldFinite DEF M
  <1>9. QED
    BY <1>7, <1>8

(* The first message of link k, once it leaves, is one less for them.      *)
LEMMA ToldDrops ==
  ASSUME NEW L, LinkType(L), NEW k \in Node, L[k] # << >>, NEW n \in Node, NEW s
  PROVE  Cardinality(Told(L, n, s))
           = Cardinality(Told(Drops(L, k), n, s))
             + IF k \in Ahead(n) /\ Head(L[k]) = s THEN 1 ELSE 0
  <1> DEFINE M == Drops(L, k)
             first == <<k, 1>>
             S == Told(L, n, s) \ {first}
             T == Told(M, n, s)
             f == [y \in S |-> IF y[1] = k THEN <<k, y[2] - 1>> ELSE y]
             In(Q, y) == y[2] \in DOMAIN Q[y[1]] /\ Q[y[1]][y[2]] = s
  <1>1. /\ L[k] \in Seq(Syncs \cup {InitMsg}) /\ Len(L[k]) \in Nat /\ Len(L[k]) > 0
        /\ Len(L[k]) <= ChainCap /\ ChainCap \in Nat
    BY SyncAssumption DEF LinkType
  <1>2. M[k] = Tail(L[k]) /\ \A j \in Node : j # k => M[j] = L[j]
    BY <1>1, DeqType DEF Drops, LinkType
  <1>3. Ahead(n) \subseteq Node
    BY AheadNodes
  <1>4. /\ DOMAIN M[k] = 1 .. Len(L[k]) - 1 /\ DOMAIN L[k] = 1 .. Len(L[k])
        /\ \A i \in 1 .. Len(L[k]) - 1 : M[k][i] = L[k][i + 1]
        /\ Head(L[k]) = L[k][1]
    BY <1>1, <1>2
  <1> HIDE DEF M
  <1>5. \A y : y \in S <=> y \in Ahead(n) \X (1 .. ChainCap) /\ y # first /\ In(L, y)
    BY DEF Told
  <1>6. \A y : y \in T <=> y \in Ahead(n) \X (1 .. ChainCap) /\ In(M, y)
    BY DEF Told
  <1> HIDE DEF S, T
  <1>7. ASSUME NEW y \in S, y[1] = k
        PROVE  /\ y[2] \in 2 .. Len(L[k]) /\ y = <<k, y[2]>>
               /\ <<k, y[2] - 1>> \in T
    <2>1. y[2] \in Nat /\ y = <<k, y[2]>> /\ k \in Ahead(n) /\ y[2] \in DOMAIN L[k] /\ L[k][y[2]] = s
      BY <1>5, <1>7
    <2>2. y[2] # 1
      BY <1>5, <2>1
    <2>3. y[2] \in 2 .. Len(L[k])
      BY <1>1, <1>4, <2>1, <2>2
    <2>4. y[2] - 1 \in DOMAIN M[k] /\ M[k][y[2] - 1] = s /\ y[2] - 1 \in 1 .. ChainCap
      BY <1>1, <1>4, <2>1, <2>3
    <2>5. QED
      BY <1>6, <2>1, <2>3, <2>4
  <1>8. ASSUME NEW y \in T, y[1] = k
        PROVE  /\ y[2] \in 1 .. Len(L[k]) - 1 /\ y = <<k, y[2]>>
               /\ <<k, y[2] + 1>> \in S
    <2>1. y[2] \in Nat /\ y = <<k, y[2]>> /\ k \in Ahead(n) /\ y[2] \in DOMAIN M[k] /\ M[k][y[2]] = s
      BY <1>6, <1>8
    <2>2. y[2] + 1 \in DOMAIN L[k] /\ L[k][y[2] + 1] = s /\ y[2] + 1 \in 1 .. ChainCap /\ y[2] + 1 # 1
      BY <1>1, <1>4, <2>1
    <2>3. QED
      BY <1>4, <1>5, <2>1, <2>2
  <1>9. ASSUME NEW y, y \in Ahead(n) \X (1 .. ChainCap), y[1] # k PROVE y \in S <=> y \in T
    <2>1. y[1] \in Node /\ y # first
      BY <1>3, <1>9
    <2>2. M[y[1]] = L[y[1]]
      BY <1>2, <1>9, <2>1
    <2>3. QED
      BY <1>5, <1>6, <1>9, <2>1, <2>2
  <1>10. f \in [S -> T]
    BY <1>5, <1>7, <1>9
  <1>11. \A y \in T : \E x \in S : f[x] = y
    <2>1. ASSUME NEW y \in T, y[1] = k PROVE \E x \in S : f[x] = y
      <3>1. y[2] \in Nat /\ y = <<k, y[2]>> /\ <<k, y[2] + 1>> \in S
        BY <1>1, <1>8, <2>1
      <3>2. f[<<k, y[2] + 1>>] = <<k, (y[2] + 1) - 1>>
        BY <3>1
      <3>3. QED
        BY <3>1, <3>2
    <2>2. ASSUME NEW y \in T, y[1] # k PROVE \E x \in S : f[x] = y
      BY <1>6, <1>9, <2>2
    <2>3. QED
      BY <2>1, <2>2
  <1>12. \A x, y \in S : f[x] = f[y] => x = y
    <2>1. SUFFICES ASSUME NEW x \in S, NEW y \in S, f[x] = f[y] PROVE x = y
      OBVIOUS
    <2>2. CASE x[1] = k /\ y[1] = k
      <3>1. /\ x = <<k, x[2]>> /\ x[2] \in Int /\ f[x] = <<k, x[2] - 1>>
            /\ y = <<k, y[2]>> /\ y[2] \in Int /\ f[y] = <<k, y[2] - 1>>
        BY <1>1, <1>7, <2>2
      <3>2. x[2] - 1 = y[2] - 1
        BY <2>1, <3>1
      <3>3. x[2] = y[2]
        BY <3>1, <3>2
      <3>4. QED
        BY <3>1, <3>3
    <2>3. CASE x[1] # k /\ y[1] # k
      BY <2>1, <2>3
    <2>4. CASE (x[1] = k /\ y[1] # k) \/ (x[1] # k /\ y[1] = k)
      BY <2>1, <2>4
    <2>5. QED
      BY <2>2, <2>3, <2>4
  <1> HIDE DEF f
  <1>13. f \in Injection(S, T) /\ f \in Surjection(S, T)
    BY <1>10, <1>11, <1>12 DEF Injection, Surjection, IsInjective
  <1>14. ExistsBijection(S, T)
    BY <1>13 DEF ExistsBijection, Bijection
  <1>15. IsFiniteSet(Told(L, n, s)) /\ Cardinality(Told(L, n, s)) \in Nat
    BY ToldFinite
  <1>16. IsFiniteSet(S) /\ Cardinality(S) = IF first \in Told(L, n, s) THEN Cardinality(Told(L, n, s)) - 1
                          ELSE Cardinality(Told(L, n, s))
    BY <1>15, FS_RemoveElement DEF S
  <1>17. Cardinality(T) = Cardinality(S)
    BY <1>14, <1>16, FS_Bijection
  <1>18. first \in Told(L, n, s) <=> k \in Ahead(n) /\ Head(L[k]) = s
    BY <1>1, <1>4 DEF Told
  <1>19. Cardinality(Told(M, n, s)) = Cardinality(T)
    BY DEF T
  <1>20. QED
    BY <1>15, <1>16, <1>17, <1>18, <1>19 DEF M

LEMMA OnTheWayTold == \A n \in Node : \A s : OnTheWay(n, s) = Cardinality(Told(link, n, s))
  <1> SUFFICES ASSUME NEW n \in Node, NEW s
               PROVE  OnTheWay(n, s) = Cardinality(Told(link, n, s))
    OBVIOUS
  <1>1. CASE n = Master
    <2>1. Told(link, n, s) = {}
      BY <1>1, AheadNodes DEF Told
    <2>2. QED
      BY <1>1, <2>1, FS_EmptySet DEF OnTheWay
  <1>2. CASE n # Master
    BY <1>2 DEF OnTheWay, Told, Ahead
  <1>3. QED
    BY <1>1, <1>2

LEMMA OnTheWayNext == \A n \in Node : \A s : OnTheWay(n, s)' = Cardinality(Told(link', n, s))
  <1>1. (\A n \in Node : \A s : OnTheWay(n, s) = Cardinality(Told(link, n, s)))'
    BY OnTheWayTold, PTL
  <1>2. QED
    BY <1>1

LEMMA OwedType == IInv => \A n \in Node, s \in Syncs : OnTheWay(n, s) \in Nat /\ Owed(n, s) \in Nat
  <1> SUFFICES ASSUME IInv, NEW n \in Node, NEW s \in Syncs
               PROVE  OnTheWay(n, s) \in Nat /\ Owed(n, s) \in Nat
    OBVIOUS
  <1>1. OnTheWay(n, s) \in Nat
    BY OnTheWayTold, ToldFinite
  <1>2. syncRespQ[n][s] \in Nat
    <2>1. syncRespQ[n][s] \in 0 .. 1
      BY DEF IInv, TypeOK
    <2>2. QED
      BY <2>1
  <1>3. QED
    BY <1>1, <1>2 DEF Owed

(* The chain when a node sends, the master drops, a slave passes on.       *)
LEMMA OnTheWayEnters ==
  ASSUME IInv, NEW x \in Syncs \cup {InitMsg}, Len(link[Master]) < ChainCap,
         link' = Enters(link, Master, x), NEW n \in Node, NEW s \in Syncs
  PROVE  OnTheWay(n, s)' = OnTheWay(n, s) + IF n # Master /\ x = s THEN 1 ELSE 0
  <1>1. Cardinality(Told(Enters(link, Master, x), n, s))
          = Cardinality(Told(link, n, s)) + IF Master \in Ahead(n) /\ x = s THEN 1 ELSE 0
    BY ToldEnters, MasterNode DEF IInv
  <1>2. Master \in Ahead(n) <=> n # Master
    BY AheadNodes
  <1>3. OnTheWay(n, s) = Cardinality(Told(link, n, s))
    BY OnTheWayTold
  <1>4. OnTheWay(n, s)' = Cardinality(Told(link', n, s))
    BY OnTheWayNext
  <1>5. QED
    BY <1>1, <1>2, <1>3, <1>4

LEMMA OnTheWayLeaves ==
  ASSUME IInv, link[Prev(Master)] # << >>, link' = Leaves(link, Master),
         NEW n \in Node, NEW s \in Syncs
  PROVE  OnTheWay(n, s)' = OnTheWay(n, s)
  <1>1. Cardinality(Told(link, n, s))
          = Cardinality(Told(Drops(link, Prev(Master)), n, s))
            + IF Prev(Master) \in Ahead(n) /\ Head(link[Prev(Master)]) = s THEN 1 ELSE 0
    BY ToldDrops, MasterNode DEF IInv
  <1>2. Prev(Master) \notin Ahead(n)
    BY SyncAssumption DEF Prev, Master, Ahead, Node
  <1>3. link' = Drops(link, Prev(Master))
    BY DEF Leaves, Drops
  <1>4. OnTheWay(n, s) = Cardinality(Told(link, n, s))
    BY OnTheWayTold
  <1>5. OnTheWay(n, s)' = Cardinality(Told(link', n, s))
    BY OnTheWayNext
  <1>6. Cardinality(Told(Drops(link, Prev(Master)), n, s)) \in Nat
    BY ToldFinite
  <1>7. QED
    BY <1>1, <1>2, <1>3, <1>4, <1>5, <1>6

LEMMA OnTheWayPasses ==
  ASSUME IInv, NEW k \in Slave, link[Prev(k)] # << >>, Len(link[k]) < ChainCap,
         link' = Passes(link, k), NEW n \in Node, NEW s \in Syncs
  PROVE  OnTheWay(n, s) = OnTheWay(n, s)' + IF n = k /\ Head(link[Prev(k)]) = s THEN 1 ELSE 0
  <1> DEFINE M == Drops(link, Prev(k))
             x == Head(link[Prev(k)])
  <1>1. k \in Node /\ k # Master /\ Prev(k) \in Node /\ Prev(k) # k
    BY AheadNodes DEF Slave
  <1>2. /\ link[Prev(k)] \in Seq(Syncs \cup {InitMsg}) /\ x \in Syncs \cup {InitMsg}
        /\ link[k] \in Seq(Syncs \cup {InitMsg})
    BY PassesRead DEF IInv
  <1>3. M = [link EXCEPT ![Prev(k)] = Tail(link[Prev(k)])]
    BY DEF Drops
  <1>4. Tail(link[Prev(k)]) \in Seq(Syncs \cup {InitMsg}) /\ Len(Tail(link[Prev(k)])) <= ChainCap
    <2>1. Len(link[Prev(k)]) <= ChainCap
      BY <1>1 DEF IInv, LinkType
    <2>2. QED
      BY <1>2, <2>1, SyncAssumption
  <1>5. LinkType(M) /\ M[k] = link[k]
    BY <1>1, <1>3, <1>4 DEF IInv, LinkType
  <1>6. link' = Enters(M, k, x)
    BY <1>1, <1>2, <1>3, <1>4 DEF Passes, Enters, IInv, LinkType
  <1> HIDE DEF M, x
  <1>7. Cardinality(Told(Enters(M, k, x), n, s))
          = Cardinality(Told(M, n, s)) + IF k \in Ahead(n) /\ x = s THEN 1 ELSE 0
    BY <1>1, <1>2, <1>5, ToldEnters
  <1>8. Cardinality(Told(link, n, s))
          = Cardinality(Told(M, n, s)) + IF Prev(k) \in Ahead(n) /\ x = s THEN 1 ELSE 0
    BY <1>1, ToldDrops DEF M, x, IInv
  <1>9. /\ n = k => Prev(k) \in Ahead(n) /\ k \notin Ahead(n)
        /\ n # k => (Prev(k) \in Ahead(n) <=> k \in Ahead(n))
    BY <1>1, AheadNodes
  <1>10. OnTheWay(n, s) = Cardinality(Told(link, n, s))
    BY OnTheWayTold
  <1>11. OnTheWay(n, s)' = Cardinality(Told(link', n, s))
    BY OnTheWayNext
  <1>12. Cardinality(Told(M, n, s)) \in Nat
    BY ToldFinite
  <1>13. OnTheWay(n, s) = OnTheWay(n, s)' + IF n = k /\ x = s THEN 1 ELSE 0
    BY <1>6, <1>7, <1>8, <1>9, <1>10, <1>11, <1>12
  <1>14. QED
    BY <1>13 DEF x
-----------------------------------------------------------------------------
(* The steps that the engines do not see.                                  *)
Unnoticed == /\ \A s \in Syncs : Part(s)' = Part(s)
             /\ \A n \in Node, s \in Syncs : Owed(n, s)' = Owed(n, s)
             /\ UNCHANGED phase

LEMMA UnnoticedStutters == Unnoticed => UNCHANGED Abstract!vars
  BY DEF Unnoticed, Abstract!vars

LEMMA QuietOwed ==
  ASSUME UNCHANGED <<link, syncRespQ>>
  PROVE  \A n \in Node, s \in Syncs : Owed(n, s)' = Owed(n, s)
  BY DEF Owed, OnTheWay

LEMMA QuietPart ==
  ASSUME UNCHANGED <<initDone, barrierInitValues>>
  PROVE  \A s \in Syncs : Part(s)' = Part(s)
  BY DEF Part

(* A table with one more in column b, and a table with one less in one     *)
(* place.                                                                  *)
LEMMA ColumnPlus ==
  ASSUME NEW A, NEW B, NEW b \in B, NEW f \in [A -> [B -> Nat]], NEW g \in [A -> [B -> Nat]],
         \A x \in A, y \in B : g[x][y] = f[x][y] + IF y = b THEN 1 ELSE 0
  PROVE  g = [x \in A |-> [f[x] EXCEPT ![b] = @ + 1]]
  <1>1. \A x \in A : g[x] \in [B -> Nat] /\ f[x] \in [B -> Nat]
    OBVIOUS
  <1>2. ASSUME NEW x \in A PROVE g[x] = [f[x] EXCEPT ![b] = @ + 1]
    BY <1>1
  <1>3. QED
    BY <1>2

LEMMA PlaceMinus ==
  ASSUME NEW A, NEW B, NEW a \in A, NEW b \in B,
         NEW f \in [A -> [B -> Nat]], NEW g \in [A -> [B -> Nat]],
         \A x \in A, y \in B : g[x][y] = f[x][y] - IF x = a /\ y = b THEN 1 ELSE 0
  PROVE  g = [f EXCEPT ![a][b] = @ - 1]
  <1>1. \A x \in A : g[x] \in [B -> Nat] /\ f[x] \in [B -> Nat]
    OBVIOUS
  <1>2. g[a] = [f[a] EXCEPT ![b] = @ - 1]
    BY <1>1
  <1>3. ASSUME NEW x \in A, x # a PROVE g[x] = f[x]
    BY <1>1, <1>3
  <1>4. QED
    BY <1>2, <1>3

(* The barriers are set before the service starts. *)
LEMMA SetSyncBarrierUnnoticed ==
  ASSUME IInv, NEW s \in Syncs, NEW mask \in Masks, SetSyncBarrier(s, mask)
  PROVE  Unnoticed
  <1>1. ~initDone[Master]
    BY DEF SetSyncBarrier, IInv, Started
  <1>2. \A t \in Syncs : Part(t)' = Part(t)
    BY <1>1 DEF SetSyncBarrier, Part
  <1>3. QED
    BY <1>2, QuietOwed DEF SetSyncBarrier, Unnoticed

(* Rule checkBarrierInit fixes the engines of every barrier. *)
LEMMA CheckBarrierInitConfigures ==
  ASSUME IInv, CheckBarrierInit
  PROVE  Abstract!Configure
  <1>1. /\ ~initDone[Master] /\ \A s \in Syncs : barrierInitialized[s]
        /\ Len(link[Master]) < ChainCap /\ link' = Enters(link, Master, InitMsg)
        /\ initDone' = [initDone EXCEPT ![Master] = TRUE]
        /\ UNCHANGED <<barrierInitValues, syncRespQ, phase>>
    BY DEF CheckBarrierInit, CanSend, SendToNext, Enters
  <1>2. \A s \in Syncs : Part(s) = {}
    BY <1>1 DEF Part
  <1>3. \A s \in Syncs : Part(s)' = barrierInitValues[s] /\ barrierInitValues[s] \in (SUBSET Node) \ {{}}
    <2>1. initDone'[Master]
      BY <1>1, MasterNode DEF IInv, TypeOK
    <2>2. QED
      BY <1>1, <2>1, SyncAssumption DEF Part, IInv, Started
  <1>4. \A n \in Node, s \in Syncs : Owed(n, s)' = Owed(n, s)
    <2>1. SUFFICES ASSUME NEW n \in Node, NEW s \in Syncs PROVE Owed(n, s)' = Owed(n, s)
      OBVIOUS
    <2>2. OnTheWay(n, s)' = OnTheWay(n, s) + IF n # Master /\ InitMsg = s THEN 1 ELSE 0
      BY <1>1, OnTheWayEnters
    <2>3. OnTheWay(n, s) \in Nat /\ InitMsg # s
      BY OwedType, SyncAssumption
    <2>4. QED
      BY <1>1, <2>2, <2>3 DEF Owed
  <1>5. QED
    BY <1>1, <1>2, <1>3, <1>4 DEF Abstract!Configure

(* The master counts signals: a round completes, or goes on.               *)
LEMMA CountsRefines ==
  ASSUME IInv, NEW s0 \in Syncs, NEW senders \in SUBSET Node, Counts(s0, senders)
  PROVE  Abstract!Complete(s0) \/ Unnoticed
  <1>1. \A s \in Syncs : Part(s)' = Part(s)
    BY QuietPart DEF Counts
  <1>2. CASE Remains(s0, senders)
    BY <1>1, <1>2, QuietOwed DEF Remains, Counts, Unnoticed
  <1>3. CASE Completes(s0, senders)
    <2>1. Part(s0) # {}
      BY SyncAssumption DEF Counts, Part, IInv, Started
    <2>2. ASSUME NEW n \in Part(s0) PROVE phase[n][s0] = "wait" /\ Owed(n, s0) = 0
      <3>1. PICK w \in Stage : At(w, n, s0)
        BY DEF IInv, Stages
      <3>2. w \in {"queued", "sent", "seen"}
        BY <1>3, <3>1 DEF Counts, Seen, Completes, At
      <3>3. phase[n][s0] \in {"run", "wait"}
        BY DEF IInv, TypeOK, Part
      <3>4. QED
        BY <3>1, <3>2, <3>3, CountStage DEF At
    <2>3. ASSUME NEW n \in Node, NEW s \in Syncs
          PROVE  Owed(n, s)' = Owed(n, s) + IF s = s0 THEN 1 ELSE 0
      <3>1. OnTheWay(n, s)' = OnTheWay(n, s) + IF n # Master /\ s0 = s THEN 1 ELSE 0
        BY <1>3, OnTheWayEnters DEF Completes
      <3>2. syncRespQ'[n][s] = IF n = Master /\ s = s0 THEN 1 ELSE syncRespQ[n][s]
        BY <1>3, WriteRead, MasterNode DEF Completes, IInv, TypeOK
      <3>3. n = Master /\ s = s0 => syncRespQ[n][s] = 0
        BY <1>3 DEF Completes
      <3>4. OnTheWay(n, s) \in Nat /\ syncRespQ[n][s] \in Nat
        <4>1. syncRespQ[n][s] \in 0 .. 1
          BY DEF IInv, TypeOK
        <4>2. QED
          BY <4>1, OwedType
      <3>5. QED
        BY <3>1, <3>2, <3>3, <3>4 DEF Owed
    <2>4. \A n \in Node, s \in Syncs : Owed(n, s) \in Nat
      BY OwedType
    <2>5. [n \in Node |-> [s \in Syncs |-> Owed(n, s)']]
            = [n \in Node |-> [[s \in Syncs |-> Owed(n, s)] EXCEPT ![s0] = @ + 1]]
      <3> DEFINE f == [n \in Node |-> [s \in Syncs |-> Owed(n, s)]]
                 g == [n \in Node |-> [s \in Syncs |-> Owed(n, s)']]
      <3>1. f \in [Node -> [Syncs -> Nat]] /\ g \in [Node -> [Syncs -> Nat]]
        BY <2>3, <2>4
      <3>2. \A n \in Node, s \in Syncs : g[n][s] = f[n][s] + IF s = s0 THEN 1 ELSE 0
        BY <2>3
      <3>3. \A n \in Node : f[n] = [s \in Syncs |-> Owed(n, s)]
        OBVIOUS
      <3> HIDE DEF f, g
      <3>4. g = [n \in Node |-> [f[n] EXCEPT ![s0] = @ + 1]]
        BY <3>1, <3>2, ColumnPlus
      <3>5. g = [n \in Node |-> [[s \in Syncs |-> Owed(n, s)] EXCEPT ![s0] = @ + 1]]
        BY <3>3, <3>4
      <3>6. QED
        BY <3>5 DEF g
    <2>6. Part(s0) \subseteq Node
      BY DEF IInv, TypeOK, Part
    <2>7. UNCHANGED phase
      BY DEF Counts
    <2>8. Abstract!Complete(s0)
      BY <1>1, <2>1, <2>2, <2>5, <2>6, <2>7 DEF Abstract!Complete
    <2>9. QED
      BY <2>8
  <1>4. QED
    BY <1>2, <1>3, ClearBitsCases DEF Counts

(* A broadcast that came round the chain was taken by every slave.         *)
LEMMA DropUnnoticed ==
  ASSUME IInv, DropBroadcastMsg
  PROVE  Unnoticed
  <1>1. /\ link[Prev(Master)] # << >> /\ link' = Leaves(link, Master)
        /\ UNCHANGED <<initDone, barrierInitValues, syncRespQ, phase>>
    BY DEF DropBroadcastMsg, CanRecv, Leaves
  <1>2. \A n \in Node, s \in Syncs : OnTheWay(n, s)' = OnTheWay(n, s)
    BY <1>1, OnTheWayLeaves
  <1>3. QED
    BY <1>1, <1>2, QuietPart DEF Unnoticed, Owed

(* Rules recvInit and recvSyncSignal: a completion goes from the chain to  *)
(* the engine, which is owed as much as before.                            *)
LEMMA ForwardUnnoticed ==
  ASSUME IInv, NEW k \in Node, RecvInit(k) \/ RecvSyncSignal(k)
  PROVE  Unnoticed
  <1>1. k \in Slave /\ Forward(k) /\ UNCHANGED <<barrierInitValues, phase>>
    BY DEF RecvInit, RecvSyncSignal
  <1>2. /\ link[Prev(k)] # << >> /\ Len(link[k]) < ChainCap
        /\ link' = Passes(link, k) /\ Offered(k) = Head(link[Prev(k)])
        /\ initDone[Master] /\ (~initDone[k] => Offered(k) = InitMsg)
        /\ Offered(k) \in Syncs \cup {InitMsg}
    BY <1>1, Forwarding DEF Forward, CanSend
  <1>3. initDone'[Master]
    <2>1. CASE RecvInit(k)
      BY <1>2, <2>1, MasterNode DEF RecvInit, IInv, TypeOK
    <2>2. CASE RecvSyncSignal(k)
      BY <1>2, <2>2 DEF RecvSyncSignal
    <2>3. QED
      BY <2>1, <2>2
  <1>4. \A s \in Syncs : Part(s)' = Part(s)
    BY <1>1, <1>2, <1>3 DEF Part
  <1>5. ASSUME NEW n \in Node, NEW s \in Syncs
        PROVE  Owed(n, s)' = Owed(n, s)
    <2>1. OnTheWay(n, s) = OnTheWay(n, s)' + IF n = k /\ Offered(k) = s THEN 1 ELSE 0
      BY <1>1, <1>2, OnTheWayPasses
    <2>2. syncRespQ'[n][s] = syncRespQ[n][s] + IF n = k /\ Offered(k) = s THEN 1 ELSE 0
      <3>1. syncRespQ[n][s] \in 0 .. 1 /\ InitMsg # s
        BY SyncAssumption DEF IInv, TypeOK
      <3>2. CASE UNCHANGED syncRespQ /\ Offered(k) = InitMsg
        BY <3>1, <3>2
      <3>3. CASE /\ Offered(k) # InitMsg /\ syncRespQ[k][Offered(k)] = 0
                 /\ syncRespQ' = [syncRespQ EXCEPT ![k][Offered(k)] = 1]
        <4>1. Offered(k) \in Syncs /\ syncRespQ \in [Node -> [Syncs -> 0 .. 1]]
          BY <1>2, <3>3 DEF IInv, TypeOK
        <4>2. syncRespQ'[n][s] = IF n = k /\ s = Offered(k) THEN 1 ELSE syncRespQ[n][s]
          BY <3>3, <4>1, WriteRead
        <4>3. QED
          BY <3>1, <3>3, <4>2
      <3>4. QED
        BY <1>2, <3>2, <3>3 DEF RecvInit, RecvSyncSignal
    <2>3. OnTheWay(n, s)' \in Nat /\ syncRespQ[n][s] \in Nat
      <3>1. OnTheWay(n, s)' = Cardinality(Told(link', n, s))
        BY OnTheWayNext
      <3>2. syncRespQ[n][s] \in 0 .. 1
        BY DEF IInv, TypeOK
      <3>3. QED
        BY <3>1, <3>2, ToldFinite
    <2>4. QED
      BY <2>1, <2>2, <2>3 DEF Owed
  <1>6. QED
    BY <1>1, <1>4, <1>5 DEF Unnoticed

(* Method signalSyncReached. *)
LEMMA SignalRefines ==
  ASSUME IInv, NEW n \in Node, NEW s \in Syncs, SignalSyncReached(n, s)
  PROVE  Abstract!Signal(n, s)
  <1>1. /\ initDone[n] /\ n \in barrierInitValues[s] /\ phase[n][s] = "run"
        /\ phase' = [phase EXCEPT ![n][s] = "wait"]
        /\ UNCHANGED <<initDone, barrierInitValues, link, syncRespQ>>
    BY DEF SignalSyncReached
  <1>2. n \in Part(s)
    BY <1>1 DEF Part, IInv, Started
  <1>3. PICK w \in Stage : At(w, n, s)
    BY <1>2 DEF IInv, Stages
  <1>4. Owed(n, s) = 0
    <2>1. w = "run"
      BY <1>1, <1>3 DEF At
    <2>2. QED
      BY <1>2, <1>3, <2>1, CountStage
  <1>5. /\ \A t \in Syncs : Part(t)' = Part(t)
        /\ \A m \in Node, t \in Syncs : Owed(m, t)' = Owed(m, t)
    BY <1>1, QuietOwed, QuietPart
  <1>6. QED
    BY <1>1, <1>2, <1>4, <1>5 DEF Abstract!Signal

(* Method waitForSync. *)
LEMMA WaitRefines ==
  ASSUME IInv, NEW n \in Node, NEW s \in Syncs, WaitForSync(n, s)
  PROVE  Abstract!Pass(n, s)
  <1> DEFINE v == syncRespQ[n][s] - 1
  <1>1. /\ syncRespQ[n][s] > 0 /\ syncRespQ[n][s] \in 0 .. 1
        /\ syncRespQ' = [syncRespQ EXCEPT ![n][s] = v]
        /\ phase' = [phase EXCEPT ![n][s] = "run"]
        /\ UNCHANGED <<initDone, barrierInitValues, link>>
    <2>1. syncRespQ[n][s] \in 0 .. 1
      BY DEF IInv, TypeOK
    <2>2. QED
      BY <2>1 DEF WaitForSync
  <1>2. \A m \in Node, t \in Syncs : OnTheWay(m, t)' = OnTheWay(m, t) /\ OnTheWay(m, t) \in Nat
    BY <1>1, OwedType DEF OnTheWay
  <1>3. ASSUME NEW m \in Node, NEW t \in Syncs
        PROVE  Owed(m, t)' = Owed(m, t) - IF m = n /\ t = s THEN 1 ELSE 0
    <2>1. syncRespQ'[m][t] = IF m = n /\ t = s THEN syncRespQ[n][s] - 1 ELSE syncRespQ[m][t]
      <3>1. v \in 0 .. 1 /\ syncRespQ \in [Node -> [Syncs -> 0 .. 1]]
        BY <1>1 DEF IInv, TypeOK
      <3>2. PICK u \in 0 .. 1 : u = v
        BY <3>1
      <3>3. syncRespQ' = [syncRespQ EXCEPT ![n][s] = u]
        BY <1>1, <3>2
      <3>4. syncRespQ'[m][t] = IF m = n /\ t = s THEN u ELSE syncRespQ[m][t]
        BY <3>1, <3>3, WriteRead
      <3>5. QED
        BY <3>2, <3>4
    <2>2. syncRespQ[m][t] \in 0 .. 1
      BY DEF IInv, TypeOK
    <2>3. QED
      BY <1>1, <1>2, <2>1, <2>2 DEF Owed
  <1>4. Owed(n, s) > 0
    BY <1>1, <1>2 DEF Owed
  <1>5. n \in Part(s) => phase[n][s] = "wait"
    <2>1. SUFFICES ASSUME n \in Part(s) PROVE phase[n][s] = "wait"
      OBVIOUS
    <2>2. PICK w \in Stage : At(w, n, s)
      BY <2>1 DEF IInv, Stages
    <2>3. syncRespQ[n][s] = 1
      BY <1>1
    <2>4. w = "offered"
      BY <2>2, <2>3 DEF At
    <2>5. phase[n][s] \in {"run", "wait"}
      BY DEF IInv, TypeOK
    <2>6. QED
      BY <2>2, <2>4, <2>5 DEF At
  <1>6. \A m \in Node, t \in Syncs : Owed(m, t) \in Nat
    BY OwedType
  <1>7. [m \in Node |-> [t \in Syncs |-> Owed(m, t)']]
          = [[m \in Node |-> [t \in Syncs |-> Owed(m, t)]] EXCEPT ![n][s] = @ - 1]
    <2> DEFINE f == [m \in Node |-> [t \in Syncs |-> Owed(m, t)]]
               g == [m \in Node |-> [t \in Syncs |-> Owed(m, t)']]
    <2>1. \A m \in Node, t \in Syncs : Owed(m, t)' \in Nat
      BY <1>3, <1>4, <1>6
    <2>2. f \in [Node -> [Syncs -> Nat]] /\ g \in [Node -> [Syncs -> Nat]]
      BY <1>6, <2>1
    <2>3. \A m \in Node, t \in Syncs :
            g[m][t] = f[m][t] - IF m = n /\ t = s THEN 1 ELSE 0
      BY <1>3
    <2> HIDE DEF f, g
    <2>4. g = [f EXCEPT ![n][s] = @ - 1]
      BY <2>2, <2>3, PlaceMinus
    <2>5. QED
      BY <2>4 DEF f, g
  <1>8. \A t \in Syncs : Part(t)' = Part(t)
    BY <1>1, QuietPart
  <1>9. QED
    BY <1>1, <1>4, <1>5, <1>7, <1>8 DEF Abstract!Pass

LEMMA StepRefines == IInv /\ [Next]_vars => [Abstract!Next]_(Abstract!vars)
  <1> SUFFICES ASSUME IInv, [Next]_vars PROVE [Abstract!Next]_(Abstract!vars)
    OBVIOUS
  <1>1. ASSUME UNCHANGED <<initDone, barrierInitValues, link, syncRespQ, phase>> PROVE Unnoticed
    BY <1>1, QuietOwed, QuietPart DEF Unnoticed
  <1>2. CASE UNCHANGED vars
    BY <1>1, <1>2, UnnoticedStutters DEF vars
  <1>3. ASSUME NEW s \in Syncs, NEW mask \in Masks, SetSyncBarrier(s, mask)
        PROVE  UNCHANGED Abstract!vars
    BY <1>3, SetSyncBarrierUnnoticed, UnnoticedStutters
  <1>4. CASE CheckBarrierInit
    BY <1>4, CheckBarrierInitConfigures DEF Abstract!Next
  <1>5. CASE SetLocalSyncSignal
    BY <1>5, SetLocalCounts, CountsRefines, UnnoticedStutters DEF Abstract!Next
  <1>6. CASE DropBroadcastMsg
    BY <1>6, DropUnnoticed, UnnoticedStutters
  <1>7. ASSUME NEW n \in Node, SetRemoteSyncSignal(n) PROVE [Abstract!Next]_(Abstract!vars)
    BY <1>7, SetRemoteCounts, CountsRefines, UnnoticedStutters DEF Abstract!Next
  <1>8. ASSUME NEW n \in Node, PortInit(n) \/ SendDoneSignal(n) PROVE UNCHANGED Abstract!vars
    BY <1>1, <1>8, UnnoticedStutters DEF PortInit, SendDoneSignal
  <1>9. ASSUME NEW n \in Node, RecvInit(n) \/ RecvSyncSignal(n) PROVE UNCHANGED Abstract!vars
    BY <1>9, ForwardUnnoticed, UnnoticedStutters
  <1>10. ASSUME NEW n \in Node, NEW s \in Syncs, SignalSyncReached(n, s) \/ WaitForSync(n, s)
         PROVE  Abstract!Next
    BY <1>10, SignalRefines, WaitRefines DEF Abstract!Next
  <1>11. QED
    BY <1>2, <1>3, <1>4, <1>5, <1>6, <1>7, <1>8, <1>9, <1>10 DEF Next

(* The barrier service implements the abstract barrier: an engine passes   *)
(* when all engines of the barrier have signalled, once for every round,   *)
(* for every number of nodes and barriers and every mask.                  *)
THEOREM BarrierRefinement == Spec => ImplementsBarrierSpec
<1>1. Init => Abstract!Init
  <2> SUFFICES ASSUME Init PROVE Abstract!Init
    OBVIOUS
  <2>1. \A s \in Syncs : Part(s) = {}
    BY MasterNode DEF Init, Part
  <2>2. ASSUME NEW n \in Node, NEW s \in Syncs PROVE Owed(n, s) = 0
    <3>1. Told(link, n, s) = {}
      BY AheadNodes DEF Init, Told
    <3>2. OnTheWay(n, s) = 0
      BY <3>1, OnTheWayTold, FS_EmptySet
    <3>3. QED
      BY <3>2 DEF Init, Owed
  <2>3. QED
    BY <2>1, <2>2 DEF Init, Abstract!Init
<1>2. QED
  BY <1>1, StepRefines, SyncInvariant, PTL DEF Spec, ImplementsBarrierSpec, Abstract!Spec
=============================================================================
