--------------------------- MODULE TokenRingProofs ---------------------------
(***************************************************************************)
(* The token ring of addressable-ring.bsv keeps exactly one token, and no  *)
(* message passes the stop it is for: theorems for every number of stops,  *)
(* every traffic and every size of the links and queues.                   *)
(*                                                                         *)
(* The data on the links, without the token, is where its stops put it: so *)
(* the ring is, for each two stops, one queue, and implements the reliable *)
(* network RingNet.                                                        *)
(***************************************************************************)
EXTENDS TokenRing, QueueLemmas, FiniteSetTheorems

(* A message with the token is in slot i of the link of stop n, in table L. *)
TokenOn(L, n, i) == i \in DOMAIN L[n] /\ L[n][i].token

(* The token is at place i of stop n: 0 is its haveToken, here h[n], and   *)
(* i > 0 a slot of its link, here L[n].                                    *)
At(h, L, n, i) == \/ i = 0 /\ h[n] = 1
                  \/ i > 0 /\ TokenOn(L, n, i)

(* The token is at one place. *)
OneIn(h, L) == \E n0 \in Stop, i0 \in Nat : \A n \in Stop, i \in Nat :
                 At(h, L, n, i) <=> n = n0 /\ i = i0

OnePlace == OneIn(haveToken, link)

(* The links have their type and nothing on them has passed its stop. *)
LinksOK(L) ==
  /\ L \in [Stop -> Seq(RingMsg)]
  /\ \A n \in Stop : Len(L[n]) <= LinkCap
  /\ \A n \in Stop : \A i \in DOMAIN L[n] : L[n][i].data # NoData => Passed(n, L[n][i].data)

(* What the client has queued to send, in its own name. *)
QueuesOK(q) == /\ q \in [Stop -> Seq(Data)]
               /\ \A n \in Stop : \A i \in DOMAIN q[n] : q[n][i].src = n

IInv ==
  /\ recvQ \in [Stop -> Seq(Data)]
  /\ sawToken \in [Stop -> 0 .. 1]
  /\ haveToken \in [Stop -> 0 .. 1]
  /\ LinksOK(link) /\ QueuesOK(sendQ)
  /\ OnePlace
-----------------------------------------------------------------------------
(* A link is between two stops, and every link leads to one. *)
LEMMA PrevStop ==
  /\ \A n \in Stop : Prev(n) \in Stop
  /\ \A m \in Stop : \E n \in Stop : Prev(n) = m
  <1>1. N \in Nat \ {0}
    BY RingAssumption
  <1>2. ASSUME NEW m \in Stop PROVE \E n \in Stop : Prev(n) = m
    <2>1. CASE m = N - 1
      BY <1>1, <2>1 DEF Prev, Stop
    <2>2. CASE m # N - 1
      <3>1. m + 1 \in Stop /\ Prev(m + 1) = m
        BY <1>1, <2>2 DEF Prev, Stop
      <3>2. QED
        BY <3>1
    <2>3. QED
      BY <2>1, <2>2
  <1>3. QED
    BY <1>1, <1>2 DEF Prev, Stop

(* deq moves the tokens behind the first message of a link one slot on. *)
LEMMA PopTokens ==
  ASSUME NEW L \in [Stop -> Seq(RingMsg)], NEW p \in Stop, L[p] # << >>
  PROVE  LET L2 == [L EXCEPT ![p] = Tail(@)]
         IN  /\ L2 \in [Stop -> Seq(RingMsg)]
             /\ \A n \in Stop : L2[n] = IF n = p THEN Tail(L[p]) ELSE L[n]
             /\ \A n \in Stop, i \in Nat \ {0} :
                  TokenOn(L2, n, i) <=> IF n = p THEN TokenOn(L, n, i + 1) ELSE TokenOn(L, n, i)
             /\ TokenOn(L, p, 1) <=> Head(L[p]).token
  <1> DEFINE L2 == [L EXCEPT ![p] = Tail(@)]
  <1>1. L2 \in [Stop -> Seq(RingMsg)] /\ \A n \in Stop : L2[n] = IF n = p THEN Tail(L[p]) ELSE L[n]
    BY DeqType
  <1>2. ASSUME NEW i \in Nat \ {0}
        PROVE  TokenOn(L2, p, i) <=> TokenOn(L, p, i + 1)
    <2>1. L2[p] = Tail(L[p])
      BY <1>1
    <2>2. L[p] \in Seq(RingMsg) /\ L[p] # << >>
      OBVIOUS
    <2>3. i \in DOMAIN Tail(L[p]) <=> i + 1 \in DOMAIN L[p]
      BY <2>2
    <2>4. i \in DOMAIN Tail(L[p]) => Tail(L[p])[i] = L[p][i + 1]
      BY <2>2
    <2> HIDE DEF L2
    <2>5. QED
      BY <2>1, <2>3, <2>4 DEF TokenOn
  <1>3. TokenOn(L, p, 1) <=> Head(L[p]).token
    BY DeqSlots DEF TokenOn
  <1> HIDE DEF L2
  <1>4. \A n \in Stop, i \in Nat \ {0} :
          TokenOn(L2, n, i) <=> IF n = p THEN TokenOn(L, n, i + 1) ELSE TokenOn(L, n, i)
    BY <1>1, <1>2 DEF TokenOn
  <1>5. QED
    BY <1>1, <1>3, <1>4 DEF L2

(* enq adds a message, with or without the token, behind the others. *)
LEMMA PushTokens ==
  ASSUME NEW L \in [Stop -> Seq(RingMsg)], NEW p \in Stop, NEW r \in RingMsg
  PROVE  LET L2 == [L EXCEPT ![p] = Append(@, r)]
         IN  /\ L2 \in [Stop -> Seq(RingMsg)]
             /\ \A n \in Stop : L2[n] = IF n = p THEN Append(L[p], r) ELSE L[n]
             /\ \A n \in Stop, i \in Nat \ {0} :
                  TokenOn(L2, n, i) <=> \/ TokenOn(L, n, i)
                                        \/ n = p /\ i = Len(L[p]) + 1 /\ r.token
  <1> DEFINE L2 == [L EXCEPT ![p] = Append(@, r)]
  <1>1. L2 \in [Stop -> Seq(RingMsg)] /\ \A n \in Stop : L2[n] = IF n = p THEN Append(L[p], r) ELSE L[n]
    BY EnqType
  <1>2. ASSUME NEW i \in Nat \ {0}
        PROVE  TokenOn(L2, p, i) <=> TokenOn(L, p, i) \/ (i = Len(L[p]) + 1 /\ r.token)
    <2> DEFINE q == Append(L[p], r)
               last == Len(L[p]) + 1
    <2>1. L2[p] = q
      BY <1>1
    <2>2. L[p] \in Seq(RingMsg)
      OBVIOUS
    <2>3. i \in DOMAIN q <=> i \in DOMAIN L[p] \/ i = last
      BY <2>2
    <2>4. i \in DOMAIN L[p] => q[i] = L[p][i] /\ i # last
      BY <2>2
    <2>5. i = last => q[i] = r
      BY <2>2
    <2> HIDE DEF L2, q, last
    <2>6. QED
      <3>1. TokenOn(L2, p, i) <=> TokenOn(L, p, i) \/ (i = last /\ r.token)
        BY <2>1, <2>3, <2>4, <2>5 DEF TokenOn
      <3>2. QED
        BY <3>1 DEF last
  <1> HIDE DEF L2
  <1>3. \A n \in Stop, i \in Nat \ {0} :
          TokenOn(L2, n, i) <=> \/ TokenOn(L, n, i)
                                \/ n = p /\ i = Len(L[p]) + 1 /\ r.token
    BY <1>1, <1>2 DEF TokenOn
  <1>4. QED
    BY <1>1, <1>3 DEF L2

(* A stop that takes a message off a link has the token that was on it. *)
LEMMA Taken ==
  ASSUME NEW h \in [Stop -> 0 .. 1], NEW L \in [Stop -> Seq(RingMsg)], OneIn(h, L),
         NEW p \in Stop, NEW n \in Stop, L[p] # << >>
  PROVE  /\ OneIn([h EXCEPT ![n] = IF Head(L[p]).token THEN 1 ELSE @],
                  [L EXCEPT ![p] = Tail(@)])
         /\ Head(L[p]).token => h[n] = 0
  <1> DEFINE h2 == [h EXCEPT ![n] = IF Head(L[p]).token THEN 1 ELSE @]
             L2 == [L EXCEPT ![p] = Tail(@)]
  <1>1. PICK n0 \in Stop, i0 \in Nat : \A m \in Stop, i \in Nat :
          At(h, L, m, i) <=> m = n0 /\ i = i0
    BY DEF OneIn
  <1>0. \A m \in Stop : h[m] = 1 <=> m = n0 /\ i0 = 0
    <2>1. \A m \in Stop : At(h, L, m, 0) <=> h[m] = 1
      BY DEF At
    <2>2. QED
      BY <1>1, <2>1
  <1>2. \A m \in Stop : h2[m] = IF m = n /\ Head(L[p]).token THEN 1 ELSE h[m]
    OBVIOUS
  <1>3. /\ \A m \in Stop, i \in Nat \ {0} :
             TokenOn(L2, m, i) <=> IF m = p THEN TokenOn(L, m, i + 1) ELSE TokenOn(L, m, i)
        /\ TokenOn(L, p, 1) <=> Head(L[p]).token
    BY PopTokens
  <1> HIDE DEF h2, L2
  <1>4. CASE Head(L[p]).token
    <2>1. n0 = p /\ i0 = 1
      BY <1>1, <1>3, <1>4 DEF At
    <2>2. \A m \in Stop : h[m] # 1
      BY <1>0, <2>1
    <2>3. ASSUME NEW m \in Stop, NEW i \in Nat
          PROVE  At(h2, L2, m, i) <=> m = n /\ i = 0
      <3>1. CASE i = 0
        BY <1>2, <1>4, <2>2, <3>1 DEF At
      <3>2. CASE i # 0
        <4>1. At(h2, L2, m, i) <=> IF m = p THEN TokenOn(L, m, i + 1) ELSE TokenOn(L, m, i)
          <5>1. At(h2, L2, m, i) <=> TokenOn(L2, m, i)
            BY <3>2 DEF At
          <5>2. i \in Nat \ {0}
            BY <3>2
          <5>3. QED
            BY <1>3, <5>1, <5>2
        <4>2. i + 1 \in Nat /\ i + 1 > 0 /\ i > 0 /\ i + 1 # 1
          BY <3>2
        <4>3. ~At(h, L, m, i + 1) /\ (m # p => ~At(h, L, m, i))
          BY <1>1, <2>1, <4>2
        <4>4. QED
          BY <3>2, <4>1, <4>2, <4>3 DEF At
      <3>3. QED
        BY <3>1, <3>2
    <2> DEFINE z == 0
    <2>4. OneIn(h2, L2)
      <3>1. z \in Nat /\ \A m \in Stop, i \in Nat : At(h2, L2, m, i) <=> m = n /\ i = z
        BY <2>3
      <3> HIDE DEF z
      <3>2. QED
        BY <3>1 DEF OneIn
    <2>5. QED
      BY <2>2, <2>4 DEF h2, L2
  <1>5. CASE ~Head(L[p]).token
    <2> DEFINE j == IF n0 = p /\ i0 > 0 THEN i0 - 1 ELSE i0
    <2>1. n0 = p => i0 # 1
      BY <1>1, <1>3, <1>5 DEF At
    <2>2. j \in Nat
      OBVIOUS
    <2>3. ASSUME NEW m \in Stop, NEW i \in Nat
          PROVE  At(h2, L2, m, i) <=> m = n0 /\ i = j
      <3>1. CASE i = 0
        BY <1>0, <1>2, <1>5, <2>1, <3>1 DEF At
      <3>2. CASE i # 0
        <4>1. At(h2, L2, m, i) <=> IF m = p THEN TokenOn(L, m, i + 1) ELSE TokenOn(L, m, i)
          <5>1. At(h2, L2, m, i) <=> TokenOn(L2, m, i)
            BY <3>2 DEF At
          <5>2. i \in Nat \ {0}
            BY <3>2
          <5>3. QED
            BY <1>3, <5>1, <5>2
        <4>2. i + 1 \in Nat /\ i + 1 > 0 /\ i > 0
          BY <3>2
        <4>3. At(h, L, m, i + 1) <=> TokenOn(L, m, i + 1)
          BY <4>2 DEF At
        <4>4. At(h, L, m, i) <=> TokenOn(L, m, i)
          BY <3>2, <4>2 DEF At
        <4>5. At(h, L, m, i + 1) <=> m = n0 /\ i + 1 = i0
          BY <1>1, <4>2
        <4>6. QED
          BY <1>1, <2>1, <4>1, <4>2, <4>3, <4>4, <4>5
      <3>3. QED
        BY <3>1, <3>2
    <2> HIDE DEF j
    <2>4. OneIn(h2, L2)
      BY <2>2, <2>3 DEF OneIn
    <2>5. QED
      BY <1>5, <2>4 DEF h2, L2
  <1>6. QED
    BY <1>4, <1>5

(* A stop that has the token sends it with the message it puts on its link. *)
LEMMA Sent ==
  ASSUME NEW h \in [Stop -> 0 .. 1], NEW L \in [Stop -> Seq(RingMsg)], OneIn(h, L),
         NEW n \in Stop, NEW r \in RingMsg, r.token <=> h[n] # 0
  PROVE  OneIn([h EXCEPT ![n] = 0], [L EXCEPT ![n] = Append(@, r)])
  <1> DEFINE h2 == [h EXCEPT ![n] = 0]
             L2 == [L EXCEPT ![n] = Append(@, r)]
             last == Len(L[n]) + 1
  <1>1. PICK n0 \in Stop, i0 \in Nat : \A m \in Stop, i \in Nat :
          At(h, L, m, i) <=> m = n0 /\ i = i0
    BY DEF OneIn
  <1>0. \A m \in Stop : h[m] = 1 <=> m = n0 /\ i0 = 0
    <2>1. \A m \in Stop : At(h, L, m, 0) <=> h[m] = 1
      BY DEF At
    <2>2. QED
      BY <1>1, <2>1
  <1>2. \A m \in Stop : h2[m] = IF m = n THEN 0 ELSE h[m]
    OBVIOUS
  <1>3. \A m \in Stop, i \in Nat \ {0} :
          TokenOn(L2, m, i) <=> TokenOn(L, m, i) \/ (m = n /\ i = last /\ r.token)
    BY PushTokens
  <1>4. last \in Nat \ {0}
    OBVIOUS
  <1>5. h[n] \in 0 .. 1
    OBVIOUS
  <1> HIDE DEF h2, L2, last
  <1>6. CASE r.token
    <2>1. n0 = n /\ i0 = 0
      BY <1>1, <1>5, <1>6 DEF At
    <2>2. \A m \in Stop, i \in Nat : At(h2, L2, m, i) <=> m = n /\ i = last
      BY <1>1, <1>2, <1>3, <1>4, <1>6, <2>1 DEF At
    <2>3. OneIn(h2, L2)
      BY <1>4, <2>2 DEF OneIn
    <2>4. QED
      BY <2>3 DEF h2, L2
  <1>7. CASE ~r.token
    <2>1. \A m \in Stop, i \in Nat : At(h2, L2, m, i) <=> m = n0 /\ i = i0
      BY <1>1, <1>2, <1>3, <1>7 DEF At
    <2>2. OneIn(h2, L2)
      BY <2>1 DEF OneIn
    <2>3. QED
      BY <2>2 DEF h2, L2
  <1>8. QED
    BY <1>6, <1>7
-----------------------------------------------------------------------------
LEMMA PopOK ==
  ASSUME NEW L, LinksOK(L), NEW p \in Stop, L[p] # << >>
  PROVE  /\ LinksOK([L EXCEPT ![p] = Tail(@)])
         /\ Head(L[p]) \in RingMsg
  <1> DEFINE L2 == [L EXCEPT ![p] = Tail(@)]
  <1>1. L \in [Stop -> Seq(RingMsg)] /\ L[p] \in Seq(RingMsg)
    BY DEF LinksOK
  <1>2. L2 \in [Stop -> Seq(RingMsg)] /\ \A n \in Stop : L2[n] = IF n = p THEN Tail(L[p]) ELSE L[n]
    BY <1>1, PopTokens
  <1>3. Len(Tail(L[p])) = Len(L[p]) - 1 /\ Len(L[p]) \in Nat /\ LinkCap \in Nat
    BY <1>1, RingAssumption
  <1>4. \A i \in DOMAIN Tail(L[p]) : i + 1 \in DOMAIN L[p] /\ Tail(L[p])[i] = L[p][i + 1]
    BY <1>1, DeqSlots
  <1> HIDE DEF L2
  <1>5. \A n \in Stop : Len(L2[n]) <= LinkCap
    <2>1. TAKE n \in Stop
    <2>2. Len(L[n]) <= LinkCap /\ Len(L[p]) <= LinkCap
      BY DEF LinksOK
    <2>3. Len(L2[n]) = IF n = p THEN Len(L[p]) - 1 ELSE Len(L[n])
      BY <1>2, <1>3
    <2>4. QED
      BY <1>3, <2>2, <2>3
  <1>6. ASSUME NEW n \in Stop, NEW i \in DOMAIN L2[n], L2[n][i].data # NoData
        PROVE  Passed(n, L2[n][i].data)
    <2>1. \A j \in DOMAIN L[n] : L[n][j].data # NoData => Passed(n, L[n][j].data)
      BY DEF LinksOK
    <2>2. CASE n = p
      <3>1. L2[n] = Tail(L[p])
        BY <1>2, <2>2
      <3>2. i + 1 \in DOMAIN L[p] /\ L2[n][i] = L[p][i + 1]
        BY <1>4, <1>6, <3>1
      <3>3. QED
        BY <1>6, <2>1, <2>2, <3>2
    <2>3. CASE n # p
      <3>1. L2[n] = L[n]
        BY <1>2, <2>3
      <3>2. QED
        BY <1>6, <2>1, <3>1
    <2>4. QED
      BY <2>2, <2>3
  <1>7. LinksOK(L2)
    BY <1>2, <1>5, <1>6 DEF LinksOK
  <1>8. QED
    BY <1>1, <1>7, DeqType DEF L2

LEMMA PushOK ==
  ASSUME NEW L, LinksOK(L), NEW p \in Stop, NEW r \in RingMsg, Len(L[p]) < LinkCap,
         r.data # NoData => Passed(p, r.data)
  PROVE  LinksOK([L EXCEPT ![p] = Append(@, r)])
  <1> DEFINE L2 == [L EXCEPT ![p] = Append(@, r)]
  <1>1. L \in [Stop -> Seq(RingMsg)] /\ L[p] \in Seq(RingMsg)
    BY DEF LinksOK
  <1>2. /\ L2 \in [Stop -> Seq(RingMsg)]
        /\ \A n \in Stop : L2[n] = IF n = p THEN Append(L[p], r) ELSE L[n]
    BY <1>1, PushTokens
  <1>3. Len(Append(L[p], r)) = Len(L[p]) + 1 /\ Len(L[p]) \in Nat /\ LinkCap \in Nat
    BY <1>1, RingAssumption
  <1>4. \A i \in DOMAIN Append(L[p], r) :
          (i \in DOMAIN L[p] /\ Append(L[p], r)[i] = L[p][i]) \/ Append(L[p], r)[i] = r
    BY <1>1, EnqSlots
  <1> HIDE DEF L2
  <1>5. \A n \in Stop : Len(L2[n]) <= LinkCap
    <2>1. TAKE n \in Stop
    <2>2. Len(L[n]) <= LinkCap
      BY DEF LinksOK
    <2>3. Len(L2[n]) = IF n = p THEN Len(L[p]) + 1 ELSE Len(L[n])
      BY <1>2, <1>3
    <2>4. QED
      BY <1>3, <2>2, <2>3
  <1>6. \A n \in Stop : \A i \in DOMAIN L2[n] : L2[n][i].data # NoData => Passed(n, L2[n][i].data)
    BY <1>2, <1>4 DEF LinksOK
  <1>7. LinksOK(L2)
    BY <1>2, <1>5, <1>6 DEF LinksOK
  <1>8. QED
    BY <1>7 DEF L2

LEMMA QueueDeq ==
  ASSUME NEW q, QueuesOK(q), NEW n \in Stop, q[n] # << >>
  PROVE  /\ QueuesOK([q EXCEPT ![n] = Tail(@)])
         /\ Head(q[n]) \in Data /\ Head(q[n]).src = n
  <1>1. q \in [Stop -> Seq(Data)] /\ q[n] \in Seq(Data)
    BY DEF QueuesOK
  <1>2. /\ \A i \in DOMAIN Tail(q[n]) : i + 1 \in DOMAIN q[n] /\ Tail(q[n])[i] = q[n][i + 1]
        /\ 1 \in DOMAIN q[n] /\ Head(q[n]) = q[n][1]
    BY <1>1, DeqSlots
  <1>3. Head(q[n]) \in Data /\ Tail(q[n]) \in Seq(Data)
    BY <1>1, DeqType
  <1>4. QED
    BY <1>1, <1>2, <1>3 DEF QueuesOK

LEMMA QueueEnq ==
  ASSUME NEW q, QueuesOK(q), NEW n \in Stop, NEW x \in Data, x.src = n
  PROVE  QueuesOK([q EXCEPT ![n] = Append(@, x)])
  <1>1. q \in [Stop -> Seq(Data)] /\ q[n] \in Seq(Data)
    BY DEF QueuesOK
  <1>2. \A i \in DOMAIN Append(q[n], x) :
          (i \in DOMAIN q[n] /\ Append(q[n], x)[i] = q[n][i]) \/ Append(q[n], x)[i] = x
    BY <1>1, EnqSlots
  <1>3. Append(q[n], x) \in Seq(Data)
    BY <1>1, EnqType
  <1>4. QED
    BY <1>1, <1>2, <1>3 DEF QueuesOK

-----------------------------------------------------------------------------
LEMMA Arriving ==
  ASSUME IInv, NEW n \in Stop, In(n) # << >>
  PROVE  /\ Prev(n) \in Stop /\ link[Prev(n)] # << >> /\ link \in [Stop -> Seq(RingMsg)]
         /\ Head(In(n)) \in RingMsg /\ Head(In(n)).token \in BOOLEAN
         /\ Head(In(n)).data # NoData => Head(In(n)).data \in Data
  <1>1. Prev(n) \in Stop /\ link[Prev(n)] # << >> /\ link \in [Stop -> Seq(RingMsg)]
    BY PrevStop DEF IInv, LinksOK, In
  <1>2. Head(In(n)) \in RingMsg
    BY <1>1, DeqType DEF In
  <1>3. QED
    BY <1>1, <1>2 DEF RingMsg

LEMMA RecvFromRingInv ==
  ASSUME IInv, NEW n \in Stop, RecvFromRing(n)
  PROVE  IInv'
  <1> DEFINE p == Prev(n)
             r == Head(In(n))
  <1>1. In(n) # << >> /\ r.data # NoData
    BY DEF RecvFromRing, CanRecv, NewMsgIsForMe
  <1>2. /\ p \in Stop /\ link[p] # << >> /\ link \in [Stop -> Seq(RingMsg)]
        /\ r \in RingMsg /\ r.token \in BOOLEAN /\ r.data \in Data /\ r = Head(link[p])
    BY <1>1, Arriving DEF In
  <1>3. /\ recvQ' = [recvQ EXCEPT ![n] = Append(@, r.data)]
        /\ haveToken' = [haveToken EXCEPT ![n] = Count(@, Bit(r.token), 0)]
        /\ sawToken' = [sawToken EXCEPT ![n] = IF r.token THEN 1 ELSE @]
        /\ link' = [link EXCEPT ![p] = Tail(@)]
        /\ sendQ' = sendQ
    BY DEF RecvFromRing, RecvFromPrev
  <1>4. /\ haveToken \in [Stop -> 0 .. 1] /\ sawToken \in [Stop -> 0 .. 1]
        /\ recvQ \in [Stop -> Seq(Data)]
        /\ LinksOK(link) /\ QueuesOK(sendQ) /\ OneIn(haveToken, link)
    BY DEF IInv, OnePlace
  <1> HIDE DEF p, r
  <1>5. /\ OneIn([haveToken EXCEPT ![n] = IF r.token THEN 1 ELSE @], link')
        /\ r.token => haveToken[n] = 0
    BY <1>2, <1>3, <1>4, Taken
  <1>6. Count(haveToken[n], Bit(r.token), 0) = IF r.token THEN 1 ELSE haveToken[n]
    <2>1. haveToken[n] \in 0 .. 1
      BY <1>4
    <2>2. QED
      BY <1>2, <1>5, <2>1 DEF Count, Bit
  <1>7. haveToken' = [haveToken EXCEPT ![n] = IF r.token THEN 1 ELSE @]
    BY <1>3, <1>6
  <1>8. OnePlace'
    BY <1>5, <1>7 DEF OnePlace
  <1>9. LinksOK(link')
    BY <1>2, <1>3, <1>4, PopOK
  <1>10. haveToken' \in [Stop -> 0 .. 1] /\ sawToken' \in [Stop -> 0 .. 1]
    BY <1>3, <1>4, <1>7
  <1>11. recvQ' \in [Stop -> Seq(Data)]
    BY <1>2, <1>3, <1>4, EnqType
  <1>12. QED
    BY <1>3, <1>4, <1>8, <1>9, <1>10, <1>11 DEF IInv

(* What a stop sends is in its own name and carries the token it holds. *)
LEMMA Sending ==
  ASSUME IInv, NEW n \in Stop, sendQ[n] # << >>
  PROVE  /\ Outgoing(n) \in RingMsg
         /\ Outgoing(n).token <=> haveToken[n] # 0
         /\ Outgoing(n).data # NoData => Passed(n, Outgoing(n).data)
         /\ QueuesOK([sendQ EXCEPT ![n] = Tail(@)])
  <1>1. /\ Head(sendQ[n]) \in Data /\ Head(sendQ[n]).src = n
        /\ QueuesOK([sendQ EXCEPT ![n] = Tail(@)])
    BY QueueDeq DEF IInv
  <1>2. QED
    BY <1>1 DEF Outgoing, RingMsg, Passed

LEMMA SendToRingInv ==
  ASSUME IInv, NEW n \in Stop, SendToRing(n)
  PROVE  IInv'
  <1> DEFINE r == Outgoing(n)
  <1>1. sendQ[n] # << >> /\ Len(link[n]) < LinkCap
    BY DEF SendToRing, CanSend, RoomOut
  <1>2. /\ sendQ' = [sendQ EXCEPT ![n] = Tail(@)]
        /\ link' = [link EXCEPT ![n] = Append(@, r)]
        /\ haveToken' = [haveToken EXCEPT ![n] = 0]
        /\ sawToken' = [sawToken EXCEPT ![n] = 0]
        /\ recvQ' = recvQ
    BY DEF SendToRing, SendToNext
  <1>3. /\ r \in RingMsg /\ (r.token <=> haveToken[n] # 0)
        /\ r.data # NoData => Passed(n, r.data)
        /\ QueuesOK(sendQ')
    BY <1>1, <1>2, Sending
  <1> HIDE DEF r
  <1>4. /\ haveToken \in [Stop -> 0 .. 1] /\ sawToken \in [Stop -> 0 .. 1]
        /\ recvQ \in [Stop -> Seq(Data)] /\ link \in [Stop -> Seq(RingMsg)]
        /\ LinksOK(link) /\ OneIn(haveToken, link)
    BY DEF IInv, OnePlace, LinksOK
  <1>5. OnePlace'
    BY <1>2, <1>3, <1>4, Sent DEF OnePlace
  <1>6. LinksOK(link')
    BY <1>1, <1>2, <1>3, <1>4, PushOK
  <1>7. haveToken' \in [Stop -> 0 .. 1] /\ sawToken' \in [Stop -> 0 .. 1]
    BY <1>2, <1>4
  <1>8. QED
    BY <1>2, <1>3, <1>4, <1>5, <1>6, <1>7 DEF IInv

(* A link that is read at one end and written at the other, in one cycle. *)
LEMMA BothEnds ==
  ASSUME NEW L \in [Stop -> Seq(RingMsg)], NEW p \in Stop, NEW n \in Stop, NEW r \in RingMsg,
         L[p] # << >>
  PROVE  LET popped == [L EXCEPT ![p] = Tail(@)]
             pushed == [L EXCEPT ![n] = Append(@, r)]
         IN  /\ [popped EXCEPT ![n] = Append(@, r)] = [pushed EXCEPT ![p] = Tail(@)]
             /\ pushed[p] # << >> /\ Head(pushed[p]) = Head(L[p])
             /\ Len(popped[n]) <= Len(L[n])
  <1> DEFINE popped == [L EXCEPT ![p] = Tail(@)]
             pushed == [L EXCEPT ![n] = Append(@, r)]
  <1>2. L[p] \in Seq(RingMsg) /\ L[n] \in Seq(RingMsg) /\ L[p] # << >>
    OBVIOUS
  <1>3. Tail(Append(L[p], r)) = Append(Tail(L[p]), r)
    BY <1>2
  <1>4. Append(L[p], r) # << >> /\ Head(Append(L[p], r)) = Head(L[p])
    <2>1. Len(L[p]) \in Nat /\ Len(Append(L[p], r)) = Len(L[p]) + 1
      BY <1>2
    <2>2. Append(L[p], r)[1] = L[p][1]
      BY <1>2
    <2>3. Append(L[p], r) \in Seq(RingMsg)
      BY <1>2, EnqType
    <2>4. Append(L[p], r) # << >>
      BY <2>1, <2>3
    <2>5. QED
      BY <1>2, <2>2, <2>3, <2>4, DeqSlots
  <1>5. Len(Tail(L[p])) <= Len(L[p])
    BY <1>2
  <1>6. /\ pushed \in [Stop -> Seq(RingMsg)] /\ popped \in [Stop -> Seq(RingMsg)]
        /\ pushed[p] = IF p = n THEN Append(L[p], r) ELSE L[p]
        /\ popped[n] = IF p = n THEN Tail(L[p]) ELSE L[n]
    BY <1>2, EnqType, DeqType
  <1>7. [popped EXCEPT ![n] = Append(@, r)] = [pushed EXCEPT ![p] = Tail(@)]
    <2>1. CASE p = n
      BY <1>3, <2>1
    <2>2. CASE p # n
      BY <2>2
    <2>3. QED
      BY <2>1, <2>2
  <1> HIDE DEF popped, pushed
  <1>8. pushed[p] # << >> /\ Head(pushed[p]) = Head(L[p])
    BY <1>2, <1>4, <1>6
  <1>9. Len(popped[n]) <= Len(L[n])
    <2>1. CASE p = n
      BY <1>5, <1>6, <2>1
    <2>2. CASE p # n
      BY <1>2, <1>6, <2>2
    <2>3. QED
      BY <2>1, <2>2
  <1>10. QED
    BY <1>7, <1>8, <1>9 DEF popped, pushed

LEMMA RecvAndSendInv ==
  ASSUME IInv, NEW n \in Stop, RecvAndSend(n)
  PROVE  IInv'
  <1> DEFINE p == Prev(n)
             r == Head(In(n))
             x == Outgoing(n)
             popped == [link EXCEPT ![p] = Tail(@)]
             pushed == [link EXCEPT ![n] = Append(@, x)]
             h1 == [haveToken EXCEPT ![n] = 0]
  <1>1. In(n) # << >> /\ r.data # NoData /\ sendQ[n] # << >> /\ Len(link[n]) < LinkCap
    BY DEF RecvAndSend, CanRecv, NewMsgIsForMe, CanSend, RoomOut
  <1>2. /\ p \in Stop /\ link[p] # << >> /\ link \in [Stop -> Seq(RingMsg)]
        /\ r \in RingMsg /\ r.token \in BOOLEAN /\ r.data \in Data /\ r = Head(link[p])
    BY <1>1, Arriving DEF In
  <1>3. /\ x \in RingMsg /\ (x.token <=> haveToken[n] # 0)
        /\ x.data # NoData => Passed(n, x.data)
        /\ QueuesOK([sendQ EXCEPT ![n] = Tail(@)])
    BY <1>1, Sending
  <1>4. /\ recvQ' = [recvQ EXCEPT ![n] = Append(@, r.data)]
        /\ haveToken' = [haveToken EXCEPT ![n] = Count(@, Bit(r.token), @)]
        /\ sawToken' = [sawToken EXCEPT
                          ![n] = Count(IF r.token THEN 1 ELSE sawToken[n], 0, @)]
        /\ sendQ' = [sendQ EXCEPT ![n] = Tail(@)]
        /\ link' = [[link EXCEPT ![p] = Tail(@)] EXCEPT ![n] = Append(@, x)]
    BY DEF RecvAndSend, RecvFromPrev, SendToNext
  <1>5. /\ haveToken \in [Stop -> 0 .. 1] /\ sawToken \in [Stop -> 0 .. 1]
        /\ recvQ \in [Stop -> Seq(Data)]
        /\ LinksOK(link) /\ OneIn(haveToken, link)
    BY DEF IInv, OnePlace
  <1> HIDE DEF p, r, x
  <1>6. /\ link' = [popped EXCEPT ![n] = Append(@, x)]
        /\ link' = [pushed EXCEPT ![p] = Tail(@)]
        /\ pushed[p] # << >> /\ Head(pushed[p]) = r
        /\ Len(popped[n]) <= Len(link[n])
    <2>1. link' = [popped EXCEPT ![n] = Append(@, x)]
      BY <1>4
    <2>2. /\ [popped EXCEPT ![n] = Append(@, x)] = [pushed EXCEPT ![p] = Tail(@)]
          /\ pushed[p] # << >> /\ Head(pushed[p]) = Head(link[p])
          /\ Len(popped[n]) <= Len(link[n])
      BY <1>2, <1>3, BothEnds
    <2>3. Head(link[p]) = r
      BY <1>2, <1>3
    <2>4. QED
      BY <2>1, <2>2, <2>3
  <1>7. OneIn(h1, pushed) /\ h1 \in [Stop -> 0 .. 1] /\ pushed \in [Stop -> Seq(RingMsg)]
    <2>1. OneIn(h1, pushed)
      BY <1>2, <1>3, <1>5, Sent
    <2>2. QED
      BY <1>2, <1>3, <1>5, <2>1, PushTokens
  <1>8. LinksOK(popped)
    BY <1>2, <1>5, PopOK
  <1>9. Len(popped[n]) < LinkCap
    <2>1. Len(popped[n]) \in Nat /\ Len(link[n]) \in Nat /\ LinkCap \in Nat
      BY <1>2, <1>8, RingAssumption DEF LinksOK
    <2> HIDE DEF popped
    <2>2. QED
      BY <1>1, <1>6, <2>1
  <1>10. haveToken' = [h1 EXCEPT ![n] = IF r.token THEN 1 ELSE @]
    <2>1. haveToken[n] \in 0 .. 1
      BY <1>5
    <2>2. Count(haveToken[n], Bit(r.token), haveToken[n]) = IF r.token THEN 1 ELSE 0
      BY <1>2, <2>1 DEF Count, Bit
    <2>3. haveToken' = [haveToken EXCEPT ![n] = IF r.token THEN 1 ELSE 0]
      BY <1>4, <2>2
    <2>4. QED
      BY <1>5, <2>3
  <1>11. haveToken' \in [Stop -> 0 .. 1]
    BY <1>7, <1>10
  <1>12. sawToken' \in [Stop -> 0 .. 1]
    <2>1. sawToken[n] \in 0 .. 1
      BY <1>5
    <2>2. Count(IF r.token THEN 1 ELSE sawToken[n], 0, sawToken[n]) \in 0 .. 1
      BY <2>1 DEF Count
    <2>3. QED
      BY <1>4, <1>5, <2>2
  <1>13. recvQ' \in [Stop -> Seq(Data)]
    BY <1>2, <1>4, <1>5, EnqType
  <1> HIDE DEF popped, pushed, h1
  <1>14. OnePlace'
    <2>1. OneIn([h1 EXCEPT ![n] = IF r.token THEN 1 ELSE @], [pushed EXCEPT ![p] = Tail(@)])
      <3>1. pushed[p] # << >> /\ Head(pushed[p]) = r
        BY <1>6
      <3>2. QED
        BY <1>2, <1>7, <3>1, Taken
    <2>2. QED
      BY <1>6, <1>10, <2>1 DEF OnePlace
  <1>15. LinksOK(link')
    <2>1. LinksOK([popped EXCEPT ![n] = Append(@, x)])
      BY <1>3, <1>8, <1>9, PushOK
    <2>2. QED
      BY <1>6, <2>1
  <1>16. QED
    BY <1>3, <1>4, <1>11, <1>12, <1>13, <1>14, <1>15 DEF IInv

LEMMA ForwardOnRingInv ==
  ASSUME IInv, NEW n \in Stop, ForwardOnRing(n)
  PROVE  IInv'
  <1> DEFINE p == Prev(n)
             r == Head(In(n))
             x == [r EXCEPT !.token = @ \/ haveToken[n] # 0]
             popped == [link EXCEPT ![p] = Tail(@)]
             h1 == [haveToken EXCEPT ![n] = IF r.token THEN 1 ELSE @]
  <1>1. In(n) # << >> /\ Len(link[n]) < LinkCap
    BY DEF ForwardOnRing, CanForward, RoomOut
  <1>2. /\ p \in Stop /\ link[p] # << >> /\ link \in [Stop -> Seq(RingMsg)]
        /\ r \in RingMsg /\ r.token \in BOOLEAN /\ r = Head(link[p])
    BY <1>1, Arriving DEF In
  <1>3. r.data # NoData => Passed(n, r.data)
    BY DEF ForwardOnRing, CanForward, NewMsgIsForMe, Passed
  <1>4. /\ sawToken' = [sawToken EXCEPT ![n] = IF r.token THEN 1 ELSE @]
        /\ link' = [[link EXCEPT ![p] = Tail(@)] EXCEPT ![n] = Append(@, x)]
        /\ haveToken' = [haveToken EXCEPT ![n] = 0]
        /\ recvQ' = recvQ /\ sendQ' = sendQ
    BY DEF ForwardOnRing, RecvFromPrev, SendToNext
  <1>5. /\ haveToken \in [Stop -> 0 .. 1] /\ sawToken \in [Stop -> 0 .. 1]
        /\ recvQ \in [Stop -> Seq(Data)]
        /\ LinksOK(link) /\ QueuesOK(sendQ) /\ OneIn(haveToken, link)
    BY DEF IInv, OnePlace
  <1> HIDE DEF p, r
  <1>6. /\ x \in RingMsg /\ x.data = r.data
        /\ x.token <=> r.token \/ haveToken[n] # 0
    BY <1>2 DEF RingMsg
  <1> HIDE DEF x
  <1>7. /\ link' = [popped EXCEPT ![n] = Append(@, x)]
        /\ Len(popped[n]) <= Len(link[n])
    <2>1. link' = [popped EXCEPT ![n] = Append(@, x)]
      BY <1>4
    <2>2. QED
      BY <1>2, <1>6, <2>1, BothEnds
  <1>8. OneIn(h1, popped) /\ h1 \in [Stop -> 0 .. 1] /\ popped \in [Stop -> Seq(RingMsg)]
    <2>1. OneIn(h1, popped)
      BY <1>2, <1>5, Taken
    <2>2. QED
      BY <1>2, <1>5, <2>1, PopTokens
  <1>9. x.token <=> h1[n] # 0
    BY <1>5, <1>6
  <1>10. haveToken' = [h1 EXCEPT ![n] = 0]
    BY <1>4, <1>5
  <1>11. LinksOK(popped)
    BY <1>2, <1>5, PopOK
  <1>12. Len(popped[n]) < LinkCap
    <2>1. Len(popped[n]) \in Nat /\ Len(link[n]) \in Nat /\ LinkCap \in Nat
      BY <1>2, <1>11, RingAssumption DEF LinksOK
    <2> HIDE DEF popped
    <2>2. QED
      BY <1>1, <1>7, <2>1
  <1>13. haveToken' \in [Stop -> 0 .. 1] /\ sawToken' \in [Stop -> 0 .. 1]
    BY <1>4, <1>5
  <1> HIDE DEF popped, h1
  <1>14. OnePlace'
    BY <1>6, <1>7, <1>8, <1>9, <1>10, Sent DEF OnePlace
  <1>15. LinksOK(link')
    BY <1>3, <1>6, <1>7, <1>11, <1>12, PushOK
  <1>16. QED
    BY <1>4, <1>5, <1>13, <1>14, <1>15 DEF IInv

LEMMA ForwardTokenOnRingInv ==
  ASSUME IInv, NEW n \in Stop, ForwardTokenOnRing(n)
  PROVE  IInv'
  <1> DEFINE r == [token |-> TRUE, data |-> NoData]
  <1>1. haveToken[n] # 0 /\ Len(link[n]) < LinkCap
    BY DEF ForwardTokenOnRing, RoomOut
  <1>2. /\ link' = [link EXCEPT ![n] = Append(@, r)]
        /\ haveToken' = [haveToken EXCEPT ![n] = 0]
        /\ recvQ' = recvQ /\ sendQ' = sendQ /\ sawToken' = sawToken
    BY DEF ForwardTokenOnRing, SendToNext
  <1>3. r \in RingMsg /\ r.token = TRUE /\ r.data = NoData
    BY DEF RingMsg
  <1> HIDE DEF r
  <1>4. /\ haveToken \in [Stop -> 0 .. 1] /\ sawToken \in [Stop -> 0 .. 1]
        /\ recvQ \in [Stop -> Seq(Data)] /\ link \in [Stop -> Seq(RingMsg)]
        /\ LinksOK(link) /\ QueuesOK(sendQ) /\ OneIn(haveToken, link)
    BY DEF IInv, OnePlace, LinksOK
  <1>5. OnePlace'
    BY <1>1, <1>2, <1>3, <1>4, Sent DEF OnePlace
  <1>6. LinksOK(link')
    BY <1>1, <1>2, <1>3, <1>4, PushOK
  <1>7. haveToken' \in [Stop -> 0 .. 1]
    BY <1>2, <1>4
  <1>8. QED
    BY <1>2, <1>4, <1>5, <1>6, <1>7 DEF IInv

(* All stops send at once: the links were empty, so one of them has the token. *)
LEMMA SendAllInv ==
  ASSUME IInv, SendAll
  PROVE  IInv'
  <1>1. /\ \A n \in Stop : In(n) = << >> /\ sendQ[n] # << >>
        /\ sendQ' = [n \in Stop |-> Tail(sendQ[n])]
        /\ link' = [n \in Stop |-> << Outgoing(n) >>]
        /\ haveToken' = [n \in Stop |-> 0]
        /\ sawToken' = [n \in Stop |-> 0]
        /\ recvQ' = recvQ
    BY DEF SendAll
  <1>2. \A n \in Stop : link[n] = << >>
    BY <1>1, PrevStop DEF In
  <1>3. \A n \in Stop : /\ Outgoing(n) \in RingMsg
                        /\ Outgoing(n).token <=> haveToken[n] # 0
                        /\ Outgoing(n).data # NoData => Passed(n, Outgoing(n).data)
                        /\ QueuesOK([sendQ EXCEPT ![n] = Tail(@)])
    BY <1>1, Sending
  <1>4. QueuesOK(sendQ')
    <2>1. \A n \in Stop : /\ Tail(sendQ[n]) \in Seq(Data)
                          /\ \A i \in DOMAIN Tail(sendQ[n]) : Tail(sendQ[n])[i].src = n
      <3>1. TAKE n \in Stop
      <3>2. [sendQ EXCEPT ![n] = Tail(@)][n] = Tail(sendQ[n])
        BY DEF IInv, QueuesOK
      <3>3. QED
        BY <1>3, <3>2 DEF QueuesOK
    <2>2. QED
      BY <1>1, <2>1 DEF QueuesOK
  <1>5. \A n \in Stop : link'[n] = << Outgoing(n) >>
    BY <1>1
  <1>6. LinksOK(link')
    <2>1. link' \in [Stop -> Seq(RingMsg)]
      <3>1. ASSUME NEW x \in RingMsg PROVE << x >> \in Seq(RingMsg)
        OBVIOUS
      <3>2. \A n \in Stop : << Outgoing(n) >> \in Seq(RingMsg)
        BY <1>3, <3>1
      <3>3. QED
        BY <1>1, <3>2
    <2>2. \A n \in Stop : Len(link'[n]) <= LinkCap
      <3>1. \A m : Len(<< m >>) = 1
        OBVIOUS
      <3>2. \A n \in Stop : Len(link'[n]) = 1
        BY <1>5, <3>1
      <3>3. 1 <= LinkCap
        BY RingAssumption
      <3>4. QED
        BY <3>2, <3>3
    <2>3. \A n \in Stop : \A i \in DOMAIN link'[n] : link'[n][i] = Outgoing(n)
      BY <1>5
    <2>4. QED
      BY <1>3, <2>1, <2>2, <2>3 DEF LinksOK
  <1>7. OnePlace'
    <2>1. PICK n0 \in Stop, i0 \in Nat : \A n \in Stop, i \in Nat :
            At(haveToken, link, n, i) <=> n = n0 /\ i = i0
      BY DEF IInv, OnePlace, OneIn
    <2>2. \A i \in Nat : ~TokenOn(link, n0, i)
      BY <1>2 DEF TokenOn
    <2>3. i0 = 0
      BY <2>1, <2>2 DEF At
    <2>4. \A n \in Stop : At(haveToken, link, n, 0) <=> haveToken[n] = 1
      BY DEF At
    <2>5. \A n \in Stop : haveToken[n] = 1 <=> n = n0
      BY <2>1, <2>3, <2>4
    <2>6. \A n \in Stop : Outgoing(n).token <=> n = n0
      <3>1. \A n \in Stop : haveToken[n] \in 0 .. 1
        BY DEF IInv
      <3>2. TAKE n \in Stop
      <3>3. haveToken[n] # 0 <=> n = n0
        BY <2>5, <3>1
      <3>4. Outgoing(n).token <=> haveToken[n] # 0
        BY <1>3
      <3>5. QED
        BY <3>3, <3>4
    <2>7. ASSUME NEW n \in Stop, NEW i \in Nat
          PROVE  At(haveToken', link', n, i) <=> n = n0 /\ i = 1
      <3>1. haveToken'[n] # 1
        BY <1>1
      <3>2. i \in DOMAIN link'[n] <=> i = 1
        BY <1>5
      <3>3. link'[n][1] = Outgoing(n)
        BY <1>5
      <3>4. TokenOn(link', n, i) <=> i = 1 /\ Outgoing(n).token
        BY <3>2, <3>3 DEF TokenOn
      <3>5. QED
        BY <2>6, <3>1, <3>4 DEF At
    <2> DEFINE first == 1
    <2>8. first \in Nat /\ \A n \in Stop, i \in Nat :
            At(haveToken', link', n, i) <=> n = n0 /\ i = first
      BY <2>7
    <2> HIDE DEF first
    <2>9. QED
      BY <2>8 DEF OnePlace, OneIn
  <1>8. /\ haveToken' \in [Stop -> 0 .. 1] /\ sawToken' \in [Stop -> 0 .. 1]
        /\ recvQ' \in [Stop -> Seq(Data)]
    BY <1>1 DEF IInv
  <1>9. QED
    BY <1>4, <1>6, <1>7, <1>8 DEF IInv

LEMMA EnqInv ==
  ASSUME IInv, NEW n \in Stop, NEW d \in Stop, NEW m \in Msg, Enq(n, d, m)
  PROVE  IInv'
  <1> DEFINE x == [src |-> n, dst |-> d, msg |-> m]
  <1>1. x \in Data /\ x.src = n
    BY DEF Data
  <1>2. /\ sendQ' = [sendQ EXCEPT ![n] = Append(@, x)]
        /\ UNCHANGED <<recvQ, sawToken, haveToken, link>>
    BY DEF Enq
  <1> HIDE DEF x
  <1>3. QueuesOK(sendQ')
    BY <1>1, <1>2, QueueEnq DEF IInv
  <1>4. QED
    BY <1>2, <1>3 DEF IInv, OnePlace

LEMMA DeqInv ==
  ASSUME IInv, NEW n \in Stop, Deq(n)
  PROVE  IInv'
  <1>1. /\ recvQ[n] # << >> /\ recvQ' = [recvQ EXCEPT ![n] = Tail(@)]
        /\ UNCHANGED <<sendQ, sawToken, haveToken, link>>
    BY DEF Deq
  <1>2. recvQ' \in [Stop -> Seq(Data)]
    BY <1>1, DeqType DEF IInv
  <1>3. QED
    BY <1>1, <1>2 DEF IInv, OnePlace
-----------------------------------------------------------------------------
(* The primary has the token after reset. *)
LEMMA IInvInit == Init => IInv
  <1> SUFFICES ASSUME Init PROVE IInv
    OBVIOUS
  <1>1. N \in Nat \ {0} /\ LinkCap \in Nat /\ Primary \in Stop
    BY RingAssumption DEF Primary, Stop
  <1>2. \A n \in Stop : link[n] = << >> /\ sendQ[n] = << >> /\ recvQ[n] = << >>
    BY DEF Init
  <1>3. /\ recvQ \in [Stop -> Seq(Data)] /\ sawToken \in [Stop -> 0 .. 1]
        /\ haveToken \in [Stop -> 0 .. 1]
        /\ link \in [Stop -> Seq(RingMsg)] /\ sendQ \in [Stop -> Seq(Data)]
    BY DEF Init
  <1>4. LinksOK(link)
    BY <1>1, <1>2, <1>3 DEF LinksOK
  <1>5. QueuesOK(sendQ)
    BY <1>2, <1>3 DEF QueuesOK
  <1>6. OnePlace
    <2>1. ASSUME NEW n \in Stop, NEW i \in Nat
          PROVE  At(haveToken, link, n, i) <=> n = Primary /\ i = 0
      <3>1. haveToken[n] = 1 <=> n = Primary
        BY DEF Init
      <3>2. ~TokenOn(link, n, i)
        BY <1>2 DEF TokenOn
      <3>3. QED
        BY <3>1, <3>2 DEF At
    <2> DEFINE z == 0
    <2>2. z \in Nat /\ \A n \in Stop, i \in Nat :
            At(haveToken, link, n, i) <=> n = Primary /\ i = z
      BY <2>1
    <2> HIDE DEF z
    <2>3. QED
      BY <1>1, <2>2 DEF OnePlace, OneIn
  <1>7. QED
    BY <1>3, <1>4, <1>5, <1>6 DEF IInv

LEMMA IInvStep == IInv /\ [Next]_vars => IInv'
  <1> SUFFICES ASSUME IInv, [Next]_vars PROVE IInv'
    OBVIOUS
  <1>1. ASSUME NEW n \in Stop, RecvFromRing(n) PROVE IInv'
    BY <1>1, RecvFromRingInv
  <1>2. ASSUME NEW n \in Stop, SendToRing(n) PROVE IInv'
    BY <1>2, SendToRingInv
  <1>3. ASSUME NEW n \in Stop, RecvAndSend(n) PROVE IInv'
    BY <1>3, RecvAndSendInv
  <1>4. ASSUME NEW n \in Stop, ForwardOnRing(n) PROVE IInv'
    BY <1>4, ForwardOnRingInv
  <1>5. ASSUME NEW n \in Stop, ForwardTokenOnRing(n) PROVE IInv'
    BY <1>5, ForwardTokenOnRingInv
  <1>6. ASSUME NEW n \in Stop, Deq(n) PROVE IInv'
    BY <1>6, DeqInv
  <1>7. ASSUME NEW n \in Stop, NEW d \in Stop, NEW m \in Msg, Enq(n, d, m) PROVE IInv'
    BY <1>7, EnqInv
  <1>8. CASE SendAll
    BY <1>8, SendAllInv
  <1>9. CASE UNCHANGED vars
    BY <1>9 DEF IInv, OnePlace, vars
  <1>10. QED
    BY <1>1, <1>2, <1>3, <1>4, <1>5, <1>6, <1>7, <1>8, <1>9 DEF Next

(* The strengthening holds in every state of every token ring. *)
THEOREM TokenRingInvariant == Spec => []IInv
<1>1. QED
  BY IInvInit, IInvStep, PTL DEF Spec
-----------------------------------------------------------------------------
(* One place, counted. *)
LEMMA CountPlace ==
  ASSUME IInv
  PROVE  OneToken
  <1> DEFINE H == {n \in Stop : haveToken[n] = 1}
             T == {x \in Stop \X (1 .. LinkCap) :
                     x[2] \in DOMAIN link[x[1]] /\ link[x[1]][x[2]].token}
  <1>1. PICK n0 \in Stop, i0 \in Nat : \A n \in Stop, i \in Nat :
          At(haveToken, link, n, i) <=> n = n0 /\ i = i0
    BY DEF IInv, OnePlace, OneIn
  <1>2. \A n \in Stop : haveToken[n] = 1 <=> n = n0 /\ i0 = 0
    <2>1. \A n \in Stop : At(haveToken, link, n, 0) <=> haveToken[n] = 1
      BY DEF At
    <2>2. QED
      BY <1>1, <2>1
  <1>3. ASSUME NEW n \in Stop, NEW i \in 1 .. LinkCap
        PROVE  TokenOn(link, n, i) <=> n = n0 /\ i = i0
    <2>1. i \in Nat /\ i > 0
      BY RingAssumption
    <2>2. At(haveToken, link, n, i) <=> TokenOn(link, n, i)
      BY <2>1 DEF At
    <2>3. QED
      BY <1>1, <2>1, <2>2
  <1>4. i0 # 0 => i0 \in 1 .. LinkCap
    <2>1. i0 # 0 => TokenOn(link, n0, i0)
      BY <1>1 DEF At
    <2>2. link[n0] \in Seq(RingMsg) /\ Len(link[n0]) <= LinkCap
      BY DEF IInv, LinksOK
    <2>3. QED
      BY <2>1, <2>2, RingAssumption DEF TokenOn
  <1>5. CASE i0 = 0
    <2>1. H = {n0}
      BY <1>2, <1>5
    <2>2. T = {}
      BY <1>3, <1>5 DEF TokenOn
    <2>3. Cardinality(H) = 1 /\ Cardinality(T) = 0
      BY <2>1, <2>2, FS_EmptySet, FS_Singleton
    <2>4. QED
      BY <2>3 DEF OneToken
  <1>6. CASE i0 # 0
    <2>1. H = {}
      BY <1>2, <1>6
    <2>2. T = {<<n0, i0>>}
      <3>1. \A x \in Stop \X (1 .. LinkCap) : x \in T <=> x[1] = n0 /\ x[2] = i0
        BY <1>3 DEF TokenOn
      <3>2. <<n0, i0>> \in Stop \X (1 .. LinkCap)
        BY <1>4, <1>6
      <3>3. QED
        BY <3>1, <3>2
    <2>3. Cardinality(H) = 0 /\ Cardinality(T) = 1
      BY <2>1, <2>2, FS_EmptySet, FS_Singleton
    <2>4. QED
      BY <2>3 DEF OneToken
  <1>7. QED
    BY <1>5, <1>6

(* Whatever rules of the stops of addressable-ring.bsv fire and in which    *)
(* order, the ring has exactly one token, and no message passes the stop   *)
(* it is for, for any number of stops, any traffic and any sizes.          *)
THEOREM TokenRingSafe == Spec => []RingInv
<1>1. IInv => RingInv
  <2>1. IInv => TypeOK /\ NothingPassesItsStop
    BY DEF IInv, TypeOK, NothingPassesItsStop, LinksOK, QueuesOK
  <2>2. QED
    BY <2>1, CountPlace DEF RingInv
<1>2. QED
  BY <1>1, TokenRingInvariant, PTL
-----------------------------------------------------------------------------
(* The ring as a reliable network.  The data on the links, without the     *)
(* token.                                                                  *)
Cargo   == Data \cup {NoData}
Flow(L) == [n \in Stop |-> DataOf(L[n])]

LEMMA DataOfNothing ==
  ASSUME NEW q, q = << >>
  PROVE  DataOf(q) = << >>
  BY DEF DataOf

LEMMA DataOfDeq ==
  ASSUME NEW q \in Seq(RingMsg), q # << >>
  PROVE  /\ DataOf(q) # << >>
         /\ DataOf(Tail(q)) = Tail(DataOf(q))
         /\ Head(DataOf(q)) = Head(q).data
  BY DEF DataOf

LEMMA DataOfEnq ==
  ASSUME NEW q \in Seq(RingMsg), NEW r \in RingMsg
  PROVE  DataOf(Append(q, r)) = Append(DataOf(q), r.data)
  BY DEF DataOf

LEMMA FlowDeq ==
  ASSUME NEW L \in [Stop -> Seq(RingMsg)], NEW p \in Stop, L[p] # << >>,
         NEW L2, L2 = [L EXCEPT ![p] = Tail(@)]
  PROVE  /\ Flow(L)[p] # << >> /\ Head(Flow(L)[p]) = Head(L[p]).data
         /\ DeqAt(Flow(L), Flow(L2), p)
  <1>1. L[p] \in Seq(RingMsg) /\ Flow(L)[p] = DataOf(L[p])
    BY DEF Flow
  <1>2. \A n \in Stop : L2[n] = IF n = p THEN Tail(L[p]) ELSE L[n]
    OBVIOUS
  <1>3. /\ DataOf(L[p]) # << >> /\ DataOf(Tail(L[p])) = Tail(DataOf(L[p]))
        /\ Head(DataOf(L[p])) = Head(L[p]).data
    BY <1>1, DataOfDeq
  <1>4. \A n \in Stop : DataOf(L2[n]) = IF n = p THEN Tail(DataOf(L[p])) ELSE DataOf(L[n])
    BY <1>2, <1>3
  <1>5. DeqAt(Flow(L), Flow(L2), p)
    BY <1>4 DEF DeqAt, Flow
  <1>6. QED
    BY <1>1, <1>3, <1>5

LEMMA FlowEnq ==
  ASSUME NEW L \in [Stop -> Seq(RingMsg)], NEW p \in Stop, NEW r \in RingMsg,
         NEW L2, L2 = [L EXCEPT ![p] = Append(@, r)]
  PROVE  EnqAt(Flow(L), Flow(L2), p, r.data)
  <1>1. L[p] \in Seq(RingMsg)
    OBVIOUS
  <1>2. \A n \in Stop : L2[n] = IF n = p THEN Append(L[p], r) ELSE L[n]
    OBVIOUS
  <1>3. DataOf(Append(L[p], r)) = Append(DataOf(L[p]), r.data)
    BY <1>1, DataOfEnq
  <1>4. \A n \in Stop : DataOf(L2[n]) = IF n = p THEN Append(DataOf(L[p]), r.data) ELSE DataOf(L[n])
    BY <1>2, <1>3
  <1>5. QED
    BY <1>4 DEF EnqAt, Flow

(* The links from stop s to the link out of stop n, and to stop d, which a *)
(* message has to enter even if it is s.                                   *)
Hops(s, n) == IF n >= s THEN n - s ELSE n + N - s
To(s, d)   == IF d > s THEN d - s ELSE d + N - s

(* The data that may be in sendQ[n] and on link[n].                        *)
Own == [n \in Stop |-> {x \in Data : x.src = n /\ <<x.src, x.dst>> \in Traffic}]
On  == [n \in Stop |-> {x \in Data : Hops(x.src, n) < To(x.src, x.dst) /\ <<x.src, x.dst>> \in Traffic}
                       \cup {NoData}]

Carried(l, q) == Table(l, Stop, On) /\ Table(q, Stop, Own)

LEMMA Geometry ==
  ASSUME NEW s \in Stop, NEW n \in Stop
  PROVE  /\ Hops(s, s) = 0
         /\ Hops(s, Prev(n)) + 1 = To(s, n)
         /\ n # s => Hops(s, n) = To(s, n)
         /\ n = s => Hops(s, n) = 0
         /\ To(s, n) \in Nat /\ To(s, n) > 0 /\ Hops(s, n) \in Nat
         /\ Hops(s, Prev(n)) \in Nat
         /\ \A d \in Stop : To(s, d) = To(s, n) => d = n
         /\ \A d \in Stop : Hops(s, n) < To(s, d) => To(n, d) <= To(s, d)
  BY RingAssumption DEF Hops, To, Prev, Stop

LEMMA DataIsNotNo ==
  \A x \in Data : x # NoData /\ x.src \in Stop /\ x.dst \in Stop /\ x.msg \in Msg
  BY RingAssumption DEF Data, NoData, Stop

LEMMA MayBe ==
  \A n \in Stop : \A x \in Data :
    /\ x \in Own[n] <=> x.src = n /\ <<x.src, x.dst>> \in Traffic
    /\ x \in On[n] <=> Hops(x.src, n) < To(x.src, x.dst) /\ <<x.src, x.dst>> \in Traffic
  BY DataIsNotNo DEF Own, On

LEMMA Typed ==
  ASSUME NEW n \in Stop
  PROVE  /\ Own[n] \subseteq Data /\ Own[n] \subseteq Cargo /\ On[n] \subseteq Cargo
         /\ NoData \in On[n] /\ NoData \in Cargo /\ \A x \in On[n] : x = NoData \/ x \in Data
  BY DEF Own, On, Cargo

LEMMA MayLeave ==
  ASSUME NEW n \in Stop, NEW x, x \in Own[n]
  PROVE  x \in On[n]
  <1>1. x \in Data /\ x.src \in Stop /\ x.dst \in Stop
    BY Typed, DataIsNotNo
  <1>2. x.src = n /\ <<x.src, x.dst>> \in Traffic
    BY <1>1, MayBe
  <1>3. Hops(x.src, n) = 0 /\ To(x.src, x.dst) > 0
    BY <1>1, <1>2, Geometry
  <1>4. QED
    BY <1>1, <1>2, <1>3, MayBe

LEMMA MayForward ==
  ASSUME NEW n \in Stop, NEW x, x \in On[Prev(n)], x \in Data, x.dst # n
  PROVE  x \in On[n] /\ Prev(n) # n
  <1> DEFINE s == x.src
             d == x.dst
  <1>1. s \in Stop /\ d \in Stop /\ Prev(n) \in Stop
    BY PrevStop, DataIsNotNo
  <1>2. Hops(s, Prev(n)) < To(s, d) /\ <<s, d>> \in Traffic
    BY <1>1, MayBe
  <1>3. To(s, n) # To(s, d)
    BY <1>1, Geometry
  <1>4. /\ To(s, d) \in Nat /\ To(s, d) > 0 /\ To(s, n) \in Nat
        /\ Hops(s, Prev(n)) \in Nat /\ Hops(s, Prev(n)) + 1 = To(s, n)
        /\ Hops(s, n) = IF n = s THEN 0 ELSE To(s, n)
    BY <1>1, Geometry
  <1>5. Hops(s, n) < To(s, d)
    BY <1>2, <1>3, <1>4
  <1>6. Prev(n) # n
    <2>1. n # d /\ n \in Stop
      OBVIOUS
    <2>2. QED
      BY <1>1, <2>1, RingAssumption DEF Prev, Stop
  <1>7. QED
    BY <1>1, <1>2, <1>5, <1>6, MayBe
-----------------------------------------------------------------------------
(* The line of queues from s to d, for any tables l and q of what is on    *)
(* the links and in the send queues.                                       *)
OnWay(l, q, s, d)      == InLine(Round(N, l, q, s, d), N + 1, Of(s, d))
SameWays(l, q, l2, q2) == \A s, d \in Stop : OnWay(l2, q2, s, d) = OnWay(l, q, s, d)

LEMMA RingIs ==
  /\ N \in Nat \ {0} /\ Stop = RingOf(N)
  /\ \A n : Prev(n) = Pre(N, n)
  /\ \A s, d : To(s, d) = LinksTo(N, s, d)
  BY RingAssumption DEF Stop, RingOf, Prev, Pre, To, LinksTo

LEMMA OfIs ==
  ASSUME NEW s \in Stop, NEW d \in Stop
  PROVE  /\ Says(Of(s, d), Msg) /\ NoData \notin Of(s, d)
         /\ \A x \in Data : x \in Of(s, d) <=> x.src = s /\ x.dst = d
  <1>1. N \notin Stop
    BY RingAssumption DEF Stop
  <1>2. QED
    BY <1>1 DEF Says, Of, Data, NoData

LEMMA RingFifos ==
  ASSUME NEW S, \A n \in Stop : S[n] \subseteq Cargo, NEW l, Table(l, Stop, S)
  PROVE  Fifos(l, RingOf(N), Cargo)
  <1>1. \A n \in Stop : Seq(S[n]) \subseteq Seq(Cargo)
    BY SeqSubset
  <1>2. \A n \in Stop : l[n] \in Seq(Cargo)
    BY <1>1 DEF Table
  <1>3. QED
    BY <1>2, RingIs DEF Table, Fifos

LEMMA AreFifos ==
  ASSUME NEW l, NEW q, Carried(l, q)
  PROVE  Fifos(l, RingOf(N), Cargo) /\ Fifos(q, RingOf(N), Cargo)
  <1>1. \A n \in Stop : Own[n] \subseteq Cargo /\ On[n] \subseteq Cargo
    BY Typed
  <1>2. QED
    BY <1>1, RingFifos DEF Carried

(* All that RingSend, RingForward, RingTake, RingEnter and RingPut need of *)
(* the tables and of two stops.                                            *)
LEMMA Ready ==
  ASSUME NEW l, NEW q, Carried(l, q), NEW s \in Stop, NEW d \in Stop
  PROVE  /\ N \in Nat \ {0} /\ s \in RingOf(N) /\ d \in RingOf(N)
         /\ Says(Of(s, d), Msg)
         /\ Fifos(l, RingOf(N), Cargo) /\ Fifos(q, RingOf(N), Cargo)
         /\ NoneBehind(N, l, Of(s, d), s, d)
  <1>1. ASSUME NEW m \in Stop, To(m, d) > To(s, d), NEW i \in 1 .. Len(l[m]),
               l[m][i] \in Of(s, d)
        PROVE  FALSE
    <2> DEFINE x == l[m][i]
    <2>1. x \in On[m]
      BY <1>1 DEF Carried, Table
    <2>2. x \in Data
      BY <1>1, <2>1, OfIs, Typed
    <2>3. x.src = s /\ x.dst = d
      BY <1>1, <2>2, OfIs
    <2>4. Hops(s, m) < To(s, d)
      BY <2>1, <2>2, <2>3, MayBe
    <2>5. To(m, d) <= To(s, d)
      BY <2>4, Geometry
    <2>6. To(m, d) \in Nat /\ To(s, d) \in Nat
      BY Geometry
    <2>7. QED
      BY <1>1, <2>5, <2>6
  <1>2. \A m \in Stop : To(m, d) > To(s, d) => Free(l[m], Of(s, d))
    BY <1>1 DEF Free
  <1>3. NoneBehind(N, l, Of(s, d), s, d)
    BY <1>2, RingIs DEF NoneBehind
  <1>4. QED
    BY <1>3, RingIs, OfIs, AreFifos

(* What the client of stop n sends is for no way but its own.              *)
LEMMA OwnHead ==
  ASSUME NEW q, Table(q, Stop, Own), NEW n \in Stop, q[n] # << >>
  PROVE  /\ Head(q[n]) \in Own[n] /\ Head(q[n]) \in Data /\ Head(q[n]) \in On[n]
         /\ \A s, d \in Stop : Head(q[n]) \in Of(s, d) => n = s
  <1>1. q[n] \in Seq(Own[n])
    BY DEF Table
  <1>2. Head(q[n]) \in Own[n]
    BY <1>1, DeqType
  <1>3. Head(q[n]) \in Data /\ Head(q[n]).src = n
    BY <1>2, Typed, MayBe
  <1>4. Head(q[n]) \in On[n]
    BY <1>2, MayLeave
  <1>5. QED
    BY <1>2, <1>3, <1>4, OfIs

LEMMA SendStep ==
  ASSUME NEW l, NEW q, Carried(l, q), NEW n \in Stop, NEW l2, NEW q2, SentAt(l, l2, q, q2, n)
  PROVE  Carried(l2, q2) /\ SameWays(l, q, l2, q2)
  <1> DEFINE x == Head(q[n])
  <1>1. /\ q[n] # << >> /\ l2 = [l EXCEPT ![n] = Append(@, x)] /\ q2 = [q EXCEPT ![n] = Tail(@)]
        /\ Table(l, Stop, On) /\ Table(q, Stop, Own)
    BY DEF SentAt, EnqAt, DeqAt, Carried
  <1>2. x \in On[n] /\ \A s, d \in Stop : x \in Of(s, d) => n = s
    BY <1>1, OwnHead
  <1> HIDE DEF x
  <1>3. Table(l2, Stop, On) /\ Table(q2, Stop, Own)
    BY <1>1, <1>2, TableEnq, TableDeq
  <1>4. ASSUME NEW s \in Stop, NEW d \in Stop
        PROVE  OnWay(l2, q2, s, d) = OnWay(l, q, s, d)
    <2> DEFINE T == Of(s, d)
    <2>1. /\ N \in Nat \ {0} /\ s \in RingOf(N) /\ d \in RingOf(N) /\ n \in RingOf(N)
          /\ Says(T, Msg) /\ NoneBehind(N, l, T, s, d)
          /\ Fifos(l, RingOf(N), Cargo) /\ Fifos(q, RingOf(N), Cargo)
      BY Ready, RingIs
    <2>2. Head(q[n]) \in T => n = s
      BY <1>2 DEF x
    <2>3. SentAt(l, l2, q, q2, n)
      OBVIOUS
    <2> HIDE DEF T
    <2>4. InLine(Round(N, l2, q2, s, d), N + 1, T) = InLine(Round(N, l, q, s, d), N + 1, T)
      BY ONLY <2>1, <2>2, <2>3, RingSend
    <2>5. QED
      BY <2>4 DEF OnWay, T
  <1>5. QED
    BY <1>3, <1>4 DEF Carried, SameWays

LEMMA PutStep ==
  ASSUME NEW l, NEW q, Carried(l, q), NEW n \in Stop, NEW l2, EnqAt(l, l2, n, NoData)
  PROVE  Carried(l2, q) /\ SameWays(l, q, l2, q)
  <1>1. NoData \in On[n] /\ NoData \in Cargo
    BY Typed
  <1>2. Table(l2, Stop, On)
    BY <1>1, TableEnq DEF EnqAt, Carried
  <1>3. ASSUME NEW s \in Stop, NEW d \in Stop
        PROVE  OnWay(l2, q, s, d) = OnWay(l, q, s, d)
    <2> DEFINE T == Of(s, d)
               x == NoData
    <2>1. /\ N \in Nat \ {0} /\ s \in RingOf(N) /\ d \in RingOf(N) /\ n \in RingOf(N)
          /\ Says(T, Msg) /\ x \in Cargo /\ x \notin T /\ EnqAt(l, l2, n, x)
          /\ Fifos(l, RingOf(N), Cargo) /\ Fifos(q, RingOf(N), Cargo)
      BY <1>1, Ready, RingIs, OfIs
    <2> HIDE DEF T, x
    <2>2. InLine(Round(N, l2, q, s, d), N + 1, T) = InLine(Round(N, l, q, s, d), N + 1, T)
      BY ONLY <2>1, RingPut
    <2>3. QED
      BY <2>2 DEF OnWay, T
  <1>4. QED
    BY <1>2, <1>3 DEF Carried, SameWays

(* What waits at a stop.                                                   *)
LEMMA Waiting ==
  ASSUME NEW l, NEW q, Carried(l, q), NEW n \in Stop, NEW p, p = Prev(n), l[p] # << >>
  PROVE  Head(l[p]) \in On[p] /\ p \in Stop
  <1>1. p \in Stop /\ l[p] \in Seq(On[p])
    BY PrevStop DEF Carried, Table
  <1>2. QED
    BY <1>1, DeqType

LEMMA TakeStep ==
  ASSUME NEW l, NEW q, Carried(l, q), NEW n \in Stop, NEW p, p = Prev(n), l[p] # << >>,
         NEW x, x = Head(l[p]), x \in Data => x.dst = n, NEW l2, DeqAt(l, l2, p)
  PROVE  /\ Carried(l2, q)
         /\ \A s, d \in Stop : IF x \in Data /\ x.src = s /\ n = d
                               THEN Gave(OnWay(l2, q, s, d), OnWay(l, q, s, d), x.msg)
                               ELSE OnWay(l2, q, s, d) = OnWay(l, q, s, d)
  <1>1. x \in On[p] /\ p \in Stop
    BY Waiting
  <1>2. Table(l2, Stop, On)
    BY <1>1, TableDeq DEF DeqAt, Carried
  <1>3. ASSUME NEW s \in Stop, NEW d \in Stop
        PROVE  IF x \in Data /\ x.src = s /\ n = d
               THEN Gave(OnWay(l2, q, s, d), OnWay(l, q, s, d), x.msg)
               ELSE OnWay(l2, q, s, d) = OnWay(l, q, s, d)
    <2> DEFINE T == Of(s, d)
    <2>1. x \in T <=> x \in Data /\ x.src = s /\ n = d
      <3>1. x = NoData \/ x \in Data
        BY <1>1, Typed
      <3>2. QED
        BY <3>1, OfIs, DataIsNotNo
    <2>2. /\ N \in Nat \ {0} /\ s \in RingOf(N) /\ d \in RingOf(N) /\ n \in RingOf(N)
          /\ Says(T, Msg) /\ Fifos(l, RingOf(N), Cargo) /\ Fifos(q, RingOf(N), Cargo)
          /\ p = Pre(N, n) /\ l[p] # << >> /\ x = Head(l[p]) /\ DeqAt(l, l2, p)
      BY Ready, RingIs
    <2>3. x \in T => n = d
      BY <2>1
    <2> HIDE DEF T
    <2>4. /\ x \notin T => InLine(Round(N, l2, q, s, d), N + 1, T)
                             = InLine(Round(N, l, q, s, d), N + 1, T)
          /\ x \in T => Gave(InLine(Round(N, l2, q, s, d), N + 1, T),
                             InLine(Round(N, l, q, s, d), N + 1, T), x.msg)
      BY ONLY <2>2, <2>3, RingTake
    <2>5. QED
      BY <2>1, <2>4 DEF OnWay, T
  <1>4. QED
    BY <1>2, <1>3 DEF Carried

LEMMA ForwardStep ==
  ASSUME NEW l, NEW q, Carried(l, q), NEW n \in Stop, NEW p, p = Prev(n), l[p] # << >>,
         NEW x, x = Head(l[p]), x \in Data, x.dst # n,
         NEW l1, DeqAt(l, l1, p), NEW l2, EnqAt(l1, l2, n, x)
  PROVE  Carried(l2, q) /\ SameWays(l, q, l2, q)
  <1>1. x \in On[p] /\ p \in Stop
    BY Waiting
  <1>2. x \in On[n] /\ p # n
    BY <1>1, MayForward
  <1>3. Table(l1, Stop, On)
    BY <1>1, TableDeq DEF DeqAt, Carried
  <1>4. Table(l2, Stop, On)
    BY <1>2, <1>3, TableEnq DEF EnqAt
  <1>5. ASSUME NEW s \in Stop, NEW d \in Stop
        PROVE  OnWay(l2, q, s, d) = OnWay(l, q, s, d)
    <2> DEFINE T == Of(s, d)
    <2>1. x \in T => n # d
      BY OfIs
    <2>2. /\ N \in Nat \ {0} /\ s \in RingOf(N) /\ d \in RingOf(N) /\ n \in RingOf(N)
          /\ Says(T, Msg) /\ Fifos(l, RingOf(N), Cargo) /\ Fifos(q, RingOf(N), Cargo)
          /\ p = Pre(N, n) /\ p # n /\ l[p] # << >> /\ x = Head(l[p])
          /\ DeqAt(l, l1, p) /\ EnqAt(l1, l2, n, x)
      BY <1>2, Ready, RingIs
    <2> HIDE DEF T
    <2>3. InLine(Round(N, l2, q, s, d), N + 1, T) = InLine(Round(N, l, q, s, d), N + 1, T)
      BY ONLY <2>1, <2>2, RingForward
    <2>4. QED
      BY <2>3 DEF OnWay, T
  <1>6. QED
    BY <1>4, <1>5 DEF Carried, SameWays

LEMMA EnterStep ==
  ASSUME NEW l, NEW q, Carried(l, q), NEW n \in Stop, NEW x, x \in Own[n],
         NEW q2, EnqAt(q, q2, n, x)
  PROVE  /\ Carried(l, q2)
         /\ \A s, d \in Stop : IF x.src = s /\ x.dst = d
                               THEN Enqueued(OnWay(l, q2, s, d), OnWay(l, q, s, d), x.msg)
                               ELSE OnWay(l, q2, s, d) = OnWay(l, q, s, d)
  <1>1. x \in Data /\ x \in Cargo /\ x.src = n
    BY Typed, MayBe
  <1>2. Table(q2, Stop, Own)
    BY TableEnq DEF EnqAt, Carried
  <1>3. ASSUME NEW s \in Stop, NEW d \in Stop
        PROVE  IF x.src = s /\ x.dst = d
               THEN Enqueued(OnWay(l, q2, s, d), OnWay(l, q, s, d), x.msg)
               ELSE OnWay(l, q2, s, d) = OnWay(l, q, s, d)
    <2> DEFINE T == Of(s, d)
    <2>1. x \in T <=> x.src = s /\ x.dst = d
      BY <1>1, OfIs
    <2>2. /\ N \in Nat \ {0} /\ s \in RingOf(N) /\ d \in RingOf(N) /\ n \in RingOf(N)
          /\ Says(T, Msg) /\ Fifos(l, RingOf(N), Cargo) /\ Fifos(q, RingOf(N), Cargo)
          /\ x \in Cargo /\ EnqAt(q, q2, n, x)
      BY <1>1, Ready, RingIs
    <2>3. x \in T => n = s
      BY <1>1, <2>1
    <2> HIDE DEF T
    <2>4. /\ x \notin T => InLine(Round(N, l, q2, s, d), N + 1, T)
                             = InLine(Round(N, l, q, s, d), N + 1, T)
          /\ x \in T => Enqueued(InLine(Round(N, l, q2, s, d), N + 1, T),
                                 InLine(Round(N, l, q, s, d), N + 1, T), x.msg)
      BY ONLY <2>2, <2>3, RingEnter
    <2>5. QED
      BY <2>1, <2>4 DEF OnWay, T
  <1>4. QED
    BY <1>2, <1>3 DEF Carried

LEMMA SendAllStep ==
  ASSUME NEW l, NEW q, Carried(l, q), NEW l2, NEW q2, AllSend(N, l, l2, q, q2),
         l2 = [n \in Stop |-> l2[n]], q2 = [n \in Stop |-> q2[n]]
  PROVE  Carried(l2, q2) /\ SameWays(l, q, l2, q2)
  <1>1. \A n \in Stop : /\ l[n] = << >> /\ q[n] # << >>
                        /\ l2[n] = << Head(q[n]) >> /\ q2[n] = Tail(q[n])
    BY RingIs DEF AllSend
  <1>2. \A n \in Stop : Head(q[n]) \in On[n] /\ \A s, d \in Stop : Head(q[n]) \in Of(s, d) => n = s
    BY <1>1, OwnHead DEF Carried
  <1>3. \A n \in Stop : Tail(q[n]) \in Seq(Own[n])
    BY <1>1, DeqType DEF Carried, Table
  <1>4. Table(q2, Stop, Own)
    BY <1>1, <1>3 DEF Table
  <1>5. Table(l2, Stop, On)
    <2>1. ASSUME NEW S, NEW x \in S PROVE << x >> \in Seq(S)
      OBVIOUS
    <2>2. \A n \in Stop : << Head(q[n]) >> \in Seq(On[n])
      BY <1>2, <2>1
    <2>3. QED
      BY <1>1, <2>2 DEF Table
  <1>6. Carried(l2, q2)
    BY <1>4, <1>5 DEF Carried
  <1>7. ASSUME NEW s \in Stop, NEW d \in Stop
        PROVE  OnWay(l2, q2, s, d) = OnWay(l, q, s, d)
    <2> DEFINE T == Of(s, d)
    <2>1. OnlyOf(N, q, T, s)
      BY <1>2, RingIs DEF OnlyOf
    <2>2. /\ N \in Nat \ {0} /\ s \in RingOf(N) /\ d \in RingOf(N)
          /\ Says(T, Msg) /\ Fifos(l, RingOf(N), Cargo) /\ Fifos(q, RingOf(N), Cargo)
          /\ Fifos(l2, RingOf(N), Cargo) /\ Fifos(q2, RingOf(N), Cargo)
          /\ AllSend(N, l, l2, q, q2)
      BY <1>6, Ready, RingIs
    <2> HIDE DEF T
    <2>3. InLine(Round(N, l2, q2, s, d), N + 1, T) = InLine(Round(N, l, q, s, d), N + 1, T)
      BY ONLY <2>1, <2>2, RingSendAll
    <2>4. QED
      BY <2>3 DEF OnWay, T
  <1>8. QED
    BY <1>6, <1>7 DEF SameWays
-----------------------------------------------------------------------------
(* The state of the reliable network, and how it changes.                  *)
Transit == [p \in Traffic |-> Between(p[1], p[2])]
Inbox   == [n \in Stop |-> Sourced(recvQ[n])]
CInv    == Carried(Flow(link), sendQ)

LEMMA RoundIs ==
  ASSUME NEW L, NEW q, NEW s \in Stop, NEW d \in Stop
  PROVE  [k \in 1 .. N + 1 |-> IF k <= N THEN DataOf(L[Back(d, k)]) ELSE q[s]]
           = Round(N, Flow(L), q, s, d)
  <1>1. \A k \in 1 .. N + 1 : k <= N => Back(d, k) \in Stop /\ Back(d, k) = LinkTo(N, d, k)
    BY RingAssumption DEF Back, LinkTo, Stop
  <1>2. \A k \in 1 .. N + 1 : k <= N => DataOf(L[Back(d, k)]) = Flow(L)[LinkTo(N, d, k)]
    BY <1>1 DEF Flow
  <1>3. QED
    BY <1>2 DEF Round

LEMMA TransitIs ==
  /\ \A p \in Traffic : p[1] \in Stop /\ p[2] \in Stop /\ p = <<p[1], p[2]>>
  /\ Transit = [p \in Traffic |-> OnWay(Flow(link), sendQ, p[1], p[2])]
  /\ Transit' = [p \in Traffic |-> OnWay(Flow(link'), sendQ', p[1], p[2])]
  <1>1. \A p \in Traffic : p[1] \in Stop /\ p[2] \in Stop /\ p = <<p[1], p[2]>>
    BY TokenRingAssumption
  <1>2. \A s, d \in Stop : Between(s, d) = OnWay(Flow(link), sendQ, s, d)
    BY RoundIs DEF Between, Path, OnWay
  <1>3. \A s, d \in Stop : Between(s, d)' = OnWay(Flow(link'), sendQ', s, d)
    BY RoundIs DEF Between, Path, OnWay
  <1>4. QED
    BY <1>1, <1>2, <1>3 DEF Transit

LEMMA SameTransit ==
  ASSUME SameWays(Flow(link), sendQ, Flow(link'), sendQ')
  PROVE  Transit' = Transit
  BY TransitIs DEF SameWays

(* The way of one pair has changed, the others have not.                   *)
SameElsewhere(s, d) ==
  \A a, b \in Stop : ~(a = s /\ b = d) =>
    OnWay(Flow(link'), sendQ', a, b) = OnWay(Flow(link), sendQ, a, b)

LEMMA OneTransit ==
  ASSUME NEW s \in Stop, NEW d \in Stop, <<s, d>> \in Traffic, SameElsewhere(s, d)
  PROVE  /\ Transit[<<s, d>>] = OnWay(Flow(link), sendQ, s, d)
         /\ Transit' = [Transit EXCEPT ![<<s, d>>] = OnWay(Flow(link'), sendQ', s, d)]
  <1>1. \A p \in Traffic : p # <<s, d>> =>
          OnWay(Flow(link'), sendQ', p[1], p[2]) = OnWay(Flow(link), sendQ, p[1], p[2])
    BY TransitIs DEF SameElsewhere
  <1>2. QED
    BY <1>1, TransitIs

Entered(s, d, m) ==
  /\ <<s, d>> \in Traffic /\ Inbox' = Inbox
  /\ Transit' = [Transit EXCEPT ![<<s, d>>] = Append(@, m)]
Delivered(s, d, m) ==
  /\ <<s, d>> \in Traffic /\ Transit[<<s, d>>] # << >> /\ Head(Transit[<<s, d>>]) = m
  /\ Transit' = [Transit EXCEPT ![<<s, d>>] = Tail(@)]
  /\ Inbox' = [Inbox EXCEPT ![d] = Append(@, [src |-> s, msg |-> m])]
GivenOut(d) ==
  /\ Inbox[d] # << >> /\ Transit' = Transit
  /\ Inbox' = [Inbox EXCEPT ![d] = Tail(@)]

(* x is taken off the ring at stop n, and nothing else happens on it.      *)
OffTheRing(n, x) ==
  \A s, d \in Stop :
    IF x.src = s /\ n = d
    THEN Gave(OnWay(Flow(link'), sendQ', s, d), OnWay(Flow(link), sendQ, s, d), x.msg)
    ELSE OnWay(Flow(link'), sendQ', s, d) = OnWay(Flow(link), sendQ, s, d)

LEMMA DeliveredIs ==
  ASSUME NEW n \in Stop, NEW x \in Data, <<x.src, n>> \in Traffic, OffTheRing(n, x),
         recvQ \in [Stop -> Seq(Data)], recvQ' = [recvQ EXCEPT ![n] = Append(@, x)]
  PROVE  Delivered(x.src, n, x.msg)
  <1> DEFINE s == x.src
  <1>1. s \in Stop
    BY DataIsNotNo
  <1>2. Gave(OnWay(Flow(link'), sendQ', s, n), OnWay(Flow(link), sendQ, s, n), x.msg)
    BY <1>1 DEF OffTheRing
  <1>3. SameElsewhere(s, n)
    BY DEF OffTheRing, SameElsewhere
  <1>4. /\ Transit[<<s, n>>] = OnWay(Flow(link), sendQ, s, n)
        /\ Transit' = [Transit EXCEPT ![<<s, n>>] = OnWay(Flow(link'), sendQ', s, n)]
    BY <1>1, <1>3, OneTransit
  <1>5. Inbox' = [Inbox EXCEPT ![n] = Append(@, [src |-> s, msg |-> x.msg])]
    <2>1. /\ recvQ'[n] = Append(recvQ[n], x) /\ recvQ[n] \in Seq(Data)
          /\ \A b \in Stop : b # n => recvQ'[b] = recvQ[b]
      OBVIOUS
    <2>2. Sourced(recvQ'[n]) = Append(Sourced(recvQ[n]), [src |-> s, msg |-> x.msg])
      BY <2>1, SourcedEnq
    <2>3. \A b \in Stop : b # n => Sourced(recvQ'[b]) = Sourced(recvQ[b])
      BY <2>1
    <2>4. Inbox' = [b \in Stop |-> Sourced(recvQ'[b])] /\ Inbox = [b \in Stop |-> Sourced(recvQ[b])]
      BY DEF Inbox
    <2>5. QED
      BY <2>2, <2>3, <2>4
  <1>6. QED
    BY <1>2, <1>4, <1>5 DEF Delivered, Gave, Dequeued

(* What the actions do to the data on the links.                           *)
LEMMA RecvImpl ==
  ASSUME IInv, CInv, NEW n \in Stop, RecvFromRing(n)
  PROVE  CInv' /\ \E s \in Stop, m \in Msg : Delivered(s, n, m)
  <1> DEFINE p == Prev(n)
             r == Head(In(n))
             x == r.data
             l == Flow(link)
             l2 == Flow(link')
  <1>1. In(n) # << >> /\ x # NoData /\ x.dst = n
    BY DEF RecvFromRing, CanRecv, NewMsgIsForMe
  <1>2. /\ p \in Stop /\ link[p] # << >> /\ link \in [Stop -> Seq(RingMsg)]
        /\ x \in Data /\ r = Head(link[p])
    BY <1>1, Arriving DEF In
  <1>3. /\ link' = [link EXCEPT ![p] = Tail(@)] /\ sendQ' = sendQ
        /\ recvQ' = [recvQ EXCEPT ![n] = Append(@, x)]
    BY DEF RecvFromRing, RecvFromPrev
  <1> HIDE DEF r
  <1>4. l[p] # << >> /\ Head(l[p]) = x /\ DeqAt(l, l2, p)
    BY <1>2, <1>3, FlowDeq
  <1> HIDE DEF x, l, l2
  <1>5. Carried(l, sendQ) /\ p = Prev(n)
    BY DEF CInv, l
  <1> HIDE DEF p
  <1>6. /\ Carried(l2, sendQ)
        /\ \A s, d \in Stop : IF x \in Data /\ x.src = s /\ n = d
                              THEN Gave(OnWay(l2, sendQ, s, d), OnWay(l, sendQ, s, d), x.msg)
                              ELSE OnWay(l2, sendQ, s, d) = OnWay(l, sendQ, s, d)
    BY <1>1, <1>4, <1>5, TakeStep
  <1>7. OffTheRing(n, x)
    BY <1>2, <1>3, <1>6 DEF OffTheRing, l, l2
  <1>8. <<x.src, n>> \in Traffic /\ x.src \in Stop /\ x.msg \in Msg
    <2>1. x \in On[p] /\ p \in Stop
      BY <1>4, <1>5, Waiting
    <2>2. QED
      BY <1>1, <1>2, <2>1, MayBe, DataIsNotNo
  <1>9. Delivered(x.src, n, x.msg)
    BY <1>2, <1>3, <1>7, <1>8, DeliveredIs DEF IInv
  <1>10. QED
    BY <1>3, <1>6, <1>8, <1>9 DEF CInv, l2

(* sendToRing, with the link it sends on given: recvFromRing may have      *)
(* taken from it in the same cycle.                                        *)
LEMMA SendFlow ==
  ASSUME IInv, NEW n \in Stop, sendQ[n] # << >>, sendQ' = [sendQ EXCEPT ![n] = Tail(@)],
         NEW L \in [Stop -> Seq(RingMsg)], NEW L2, L2 = [L EXCEPT ![n] = Append(@, Outgoing(n))]
  PROVE  SentAt(Flow(L), Flow(L2), sendQ, sendQ', n)
  <1> DEFINE r == Outgoing(n)
  <1>1. r \in RingMsg /\ r.data = Head(sendQ[n])
    BY Sending DEF Outgoing
  <1> HIDE DEF r
  <1>2. EnqAt(Flow(L), Flow(L2), n, r.data)
    BY <1>1, FlowEnq DEF r
  <1>3. QED
    BY <1>1, <1>2 DEF SentAt, DeqAt

LEMMA SendImpl ==
  ASSUME IInv, CInv, NEW n \in Stop, SendToRing(n)
  PROVE  CInv' /\ Transit' = Transit /\ Inbox' = Inbox
  <1>1. /\ sendQ[n] # << >> /\ sendQ' = [sendQ EXCEPT ![n] = Tail(@)]
        /\ link' = [link EXCEPT ![n] = Append(@, Outgoing(n))]
        /\ recvQ' = recvQ
    BY DEF SendToRing, CanSend, SendToNext
  <1>2. link \in [Stop -> Seq(RingMsg)]
    BY DEF IInv, LinksOK
  <1>3. SentAt(Flow(link), Flow(link'), sendQ, sendQ', n)
    BY <1>1, <1>2, SendFlow
  <1>4. Carried(Flow(link'), sendQ') /\ SameWays(Flow(link), sendQ, Flow(link'), sendQ')
    BY <1>3, SendStep DEF CInv
  <1>5. QED
    BY <1>1, <1>4, SameTransit DEF CInv, Inbox

LEMMA RecvAndSendImpl ==
  ASSUME IInv, CInv, NEW n \in Stop, RecvAndSend(n)
  PROVE  CInv' /\ \E s \in Stop, m \in Msg : Delivered(s, n, m)
  <1> DEFINE p  == Prev(n)
             r  == Head(In(n))
             x  == r.data
             L1 == [link EXCEPT ![p] = Tail(@)]
             l  == Flow(link)
             l1 == Flow(L1)
             l2 == Flow(link')
  <1>1. In(n) # << >> /\ x # NoData /\ x.dst = n /\ sendQ[n] # << >>
    BY DEF RecvAndSend, CanRecv, NewMsgIsForMe, CanSend
  <1>2. /\ p \in Stop /\ link[p] # << >> /\ link \in [Stop -> Seq(RingMsg)]
        /\ x \in Data /\ r = Head(link[p])
    BY <1>1, Arriving DEF In
  <1>3. /\ link' = [L1 EXCEPT ![n] = Append(@, Outgoing(n))]
        /\ sendQ' = [sendQ EXCEPT ![n] = Tail(@)]
        /\ recvQ' = [recvQ EXCEPT ![n] = Append(@, x)]
    BY DEF RecvAndSend, RecvFromPrev, SendToNext
  <1> HIDE DEF r
  <1>4. L1 \in [Stop -> Seq(RingMsg)]
    BY <1>2, PopTokens
  <1>5. l[p] # << >> /\ Head(l[p]) = x /\ DeqAt(l, l1, p)
    BY <1>2, FlowDeq
  <1> HIDE DEF L1
  <1>6. SentAt(l1, l2, sendQ, sendQ', n)
    BY <1>1, <1>3, <1>4, SendFlow
  <1> HIDE DEF x, l, l1, l2
  <1>7. Carried(l, sendQ) /\ p = Prev(n)
    BY DEF CInv, l
  <1> HIDE DEF p
  <1>8. /\ Carried(l1, sendQ)
        /\ \A s, d \in Stop : IF x \in Data /\ x.src = s /\ n = d
                              THEN Gave(OnWay(l1, sendQ, s, d), OnWay(l, sendQ, s, d), x.msg)
                              ELSE OnWay(l1, sendQ, s, d) = OnWay(l, sendQ, s, d)
    BY <1>1, <1>5, <1>7, TakeStep
  <1>9. Carried(l2, sendQ') /\ SameWays(l1, sendQ, l2, sendQ')
    BY <1>6, <1>8, SendStep
  <1>10. OffTheRing(n, x)
    BY <1>2, <1>8, <1>9 DEF OffTheRing, SameWays, l, l2
  <1>11. <<x.src, n>> \in Traffic /\ x.src \in Stop /\ x.msg \in Msg
    <2>1. x \in On[p] /\ p \in Stop
      BY <1>5, <1>7, Waiting
    <2>2. QED
      BY <1>1, <1>2, <2>1, MayBe, DataIsNotNo
  <1>12. Delivered(x.src, n, x.msg)
    BY <1>2, <1>3, <1>10, <1>11, DeliveredIs DEF IInv
  <1>13. QED
    BY <1>9, <1>11, <1>12 DEF CInv, l2

LEMMA ForwardImpl ==
  ASSUME IInv, CInv, NEW n \in Stop, ForwardOnRing(n)
  PROVE  CInv' /\ Transit' = Transit /\ Inbox' = Inbox
  <1> DEFINE p  == Prev(n)
             r  == Head(In(n))
             r2 == [r EXCEPT !.token = @ \/ haveToken[n] # 0]
             x  == r.data
             L1 == [link EXCEPT ![p] = Tail(@)]
             l  == Flow(link)
             l1 == Flow(L1)
             l2 == Flow(link')
  <1>1. In(n) # << >> /\ (x = NoData \/ x.dst # n)
    BY DEF ForwardOnRing, CanForward, NewMsgIsForMe
  <1>2. /\ p \in Stop /\ link[p] # << >> /\ link \in [Stop -> Seq(RingMsg)]
        /\ r \in RingMsg /\ r = Head(link[p]) /\ (x # NoData => x \in Data)
    BY <1>1, Arriving DEF In
  <1>3. /\ link' = [L1 EXCEPT ![n] = Append(@, r2)]
        /\ sendQ' = sendQ /\ recvQ' = recvQ
    BY DEF ForwardOnRing, RecvFromPrev, SendToNext
  <1>4. r2 \in RingMsg /\ r2.data = x
    BY <1>2 DEF RingMsg
  <1> HIDE DEF r, r2
  <1>5. L1 \in [Stop -> Seq(RingMsg)]
    BY <1>2, PopTokens
  <1>6. l[p] # << >> /\ Head(l[p]) = x /\ DeqAt(l, l1, p)
    BY <1>2, FlowDeq
  <1> HIDE DEF L1
  <1>7. EnqAt(l1, l2, n, x)
    BY <1>3, <1>4, <1>5, FlowEnq
  <1> HIDE DEF x, l, l1, l2
  <1>8. Carried(l, sendQ) /\ p = Prev(n)
    BY DEF CInv, l
  <1> HIDE DEF p
  <1>9. CASE x = NoData
    <2>1. x \notin Data
      BY <1>9, DataIsNotNo
    <2>2. Carried(l1, sendQ) /\ \A s, d \in Stop : OnWay(l1, sendQ, s, d) = OnWay(l, sendQ, s, d)
      BY <1>6, <1>8, <2>1, TakeStep
    <2>3. Carried(l2, sendQ) /\ SameWays(l1, sendQ, l2, sendQ)
      BY <1>7, <1>9, <2>2, PutStep
    <2>4. SameWays(l, sendQ, l2, sendQ)
      BY <2>2, <2>3 DEF SameWays
    <2>5. QED
      BY <1>3, <2>3, <2>4, SameTransit DEF CInv, Inbox, l, l2
  <1>10. CASE x # NoData
    <2>1. Carried(l2, sendQ) /\ SameWays(l, sendQ, l2, sendQ)
      BY <1>1, <1>2, <1>6, <1>7, <1>8, <1>10, ForwardStep
    <2>2. QED
      BY <1>3, <2>1, SameTransit DEF CInv, Inbox, l, l2
  <1>11. QED
    BY <1>9, <1>10

LEMMA ForwardTokenImpl ==
  ASSUME IInv, CInv, NEW n \in Stop, ForwardTokenOnRing(n)
  PROVE  CInv' /\ Transit' = Transit /\ Inbox' = Inbox
  <1> DEFINE r == [token |-> TRUE, data |-> NoData]
  <1>1. /\ link' = [link EXCEPT ![n] = Append(@, r)]
        /\ recvQ' = recvQ /\ sendQ' = sendQ
    BY DEF ForwardTokenOnRing, SendToNext
  <1>2. r \in RingMsg /\ r.data = NoData
    BY DEF RingMsg
  <1> HIDE DEF r
  <1>3. link \in [Stop -> Seq(RingMsg)]
    BY DEF IInv, LinksOK
  <1>4. EnqAt(Flow(link), Flow(link'), n, NoData)
    <2>1. EnqAt(Flow(link), Flow(link'), n, r.data)
      BY <1>1, <1>2, <1>3, FlowEnq
    <2>2. QED
      BY <1>2, <2>1
  <1>5. Carried(Flow(link'), sendQ) /\ SameWays(Flow(link), sendQ, Flow(link'), sendQ)
    BY <1>4, PutStep DEF CInv
  <1>6. QED
    BY <1>1, <1>5, SameTransit DEF CInv, Inbox

LEMMA SendAllImpl ==
  ASSUME IInv, CInv, SendAll
  PROVE  CInv' /\ Transit' = Transit /\ Inbox' = Inbox
  <1> DEFINE l == Flow(link)
             l2 == Flow(link')
  <1>1. /\ \A n \in Stop : In(n) = << >> /\ sendQ[n] # << >>
        /\ sendQ' = [n \in Stop |-> Tail(sendQ[n])]
        /\ link' = [n \in Stop |-> << Outgoing(n) >>]
        /\ recvQ' = recvQ
    BY DEF SendAll
  <1>2. \A n \in Stop : l[n] = << >>
    <2>1. \A n \in Stop : link[n] = << >>
      BY <1>1, PrevStop DEF In
    <2>2. QED
      BY <2>1, DataOfNothing DEF Flow
  <1>3. \A n \in Stop : l2[n] = << Head(sendQ[n]) >>
    <2>1. ASSUME NEW r PROVE DataOf(<< r >>) = << r.data >>
      BY DEF DataOf
    <2>2. \A n \in Stop : l2[n] = DataOf(<< Outgoing(n) >>) /\ Outgoing(n).data = Head(sendQ[n])
      BY <1>1 DEF Flow, Outgoing
    <2>3. QED
      BY <2>1, <2>2
  <1>4. l2 = [n \in Stop |-> l2[n]] /\ sendQ' = [n \in Stop |-> sendQ'[n]]
    BY <1>1 DEF Flow
  <1>5. AllSend(N, l, l2, sendQ, sendQ')
    BY <1>1, <1>2, <1>3, RingIs DEF AllSend
  <1>6. Carried(l, sendQ)
    BY DEF CInv
  <1> HIDE DEF l, l2
  <1>7. Carried(l2, sendQ') /\ SameWays(l, sendQ, l2, sendQ')
    BY ONLY <1>4, <1>5, <1>6, SendAllStep
  <1>8. QED
    BY <1>1, <1>7, SameTransit DEF CInv, Inbox, l, l2

LEMMA EnqImpl ==
  ASSUME IInv, CInv, NEW n \in Stop, NEW e \in Stop, NEW m \in Msg, Enq(n, e, m)
  PROVE  CInv' /\ Entered(n, e, m)
  <1> DEFINE x == [src |-> n, dst |-> e, msg |-> m]
  <1>1. <<n, e>> \in Traffic /\ EnqAt(sendQ, sendQ', n, x) /\ link' = link /\ recvQ' = recvQ
    BY DEF Enq, EnqAt
  <1>2. x \in Own[n] /\ x.src = n /\ x.dst = e /\ x.msg = m
    BY <1>1 DEF Own, Data
  <1> HIDE DEF x
  <1>3. /\ Carried(Flow(link), sendQ')
        /\ \A s, d \in Stop : IF x.src = s /\ x.dst = d
                 THEN Enqueued(OnWay(Flow(link), sendQ', s, d), OnWay(Flow(link), sendQ, s, d), x.msg)
                 ELSE OnWay(Flow(link), sendQ', s, d) = OnWay(Flow(link), sendQ, s, d)
    BY <1>1, <1>2, EnterStep DEF CInv
  <1>4. OnWay(Flow(link'), sendQ', n, e) = Append(OnWay(Flow(link), sendQ, n, e), m)
    BY <1>1, <1>2, <1>3 DEF Enqueued
  <1>5. SameElsewhere(n, e)
    BY <1>1, <1>2, <1>3 DEF SameElsewhere
  <1>6. /\ Transit[<<n, e>>] = OnWay(Flow(link), sendQ, n, e)
        /\ Transit' = [Transit EXCEPT ![<<n, e>>] = OnWay(Flow(link'), sendQ', n, e)]
    BY <1>1, <1>5, OneTransit
  <1>7. Entered(n, e, m)
    BY <1>1, <1>4, <1>6 DEF Entered, Inbox
  <1>8. QED
    BY <1>1, <1>3, <1>7 DEF CInv

LEMMA DeqImpl ==
  ASSUME IInv, CInv, NEW n \in Stop, Deq(n)
  PROVE  CInv' /\ GivenOut(n)
  <1>1. /\ recvQ[n] # << >> /\ recvQ' = [recvQ EXCEPT ![n] = Tail(@)]
        /\ sendQ' = sendQ /\ link' = link /\ recvQ \in [Stop -> Seq(Data)]
    BY DEF Deq, IInv
  <1>2. /\ recvQ'[n] = Tail(recvQ[n]) /\ recvQ[n] \in Seq(Data)
        /\ \A b \in Stop : b # n => recvQ'[b] = recvQ[b]
    BY <1>1
  <1>3. Sourced(recvQ[n]) # << >> /\ Sourced(Tail(recvQ[n])) = Tail(Sourced(recvQ[n]))
    BY <1>1, <1>2, SourcedDeq
  <1>4. \A b \in Stop : b # n => Sourced(recvQ'[b]) = Sourced(recvQ[b])
    BY <1>2
  <1>5. Sourced(recvQ'[n]) = Tail(Sourced(recvQ[n]))
    BY <1>2, <1>3
  <1>6. Inbox' = [b \in Stop |-> Sourced(recvQ'[b])] /\ Inbox = [b \in Stop |-> Sourced(recvQ[b])]
    BY DEF Inbox
  <1>7. Transit' = Transit
    BY <1>1, TransitIs
  <1>8. GivenOut(n)
    BY <1>3, <1>4, <1>5, <1>6, <1>7 DEF GivenOut
  <1>9. QED
    BY <1>1, <1>8 DEF CInv
-----------------------------------------------------------------------------
LEMMA CInvInit == Init => CInv
  <1> SUFFICES ASSUME Init PROVE CInv
    OBVIOUS
  <1>1. \A n \in Stop : Flow(link)[n] = << >>
    <2>1. \A n \in Stop : link[n] = << >>
      BY DEF Init
    <2>2. QED
      BY <2>1, DataOfNothing DEF Flow
  <1>2. Flow(link) = [n \in Stop |-> Flow(link)[n]]
    BY DEF Flow
  <1>3. Table(Flow(link), Stop, On)
    <2> DEFINE l == Flow(link)
    <2>1. \A n \in Stop : << >> \in Seq(On[n])
      OBVIOUS
    <2> HIDE DEF l
    <2>2. \A n \in Stop : l[n] \in Seq(On[n])
      BY <1>1, <2>1 DEF l
    <2>3. l = [n \in Stop |-> l[n]]
      BY <1>2 DEF l
    <2>4. QED
      BY <2>2, <2>3 DEF Table, l
  <1>4. Table(sendQ, Stop, Own)
    BY DEF Init, Table
  <1>5. QED
    BY <1>3, <1>4 DEF CInv, Carried

LEMMA NetInit == Init => Net!Init
  <1> SUFFICES ASSUME Init PROVE Net!Init
    OBVIOUS
  <1>1. \A n \in Stop : Flow(link)[n] = << >> /\ sendQ[n] = << >>
    <2>1. \A n \in Stop : link[n] = << >> /\ sendQ[n] = << >>
      BY DEF Init
    <2>2. QED
      BY <2>1, DataOfNothing DEF Flow
  <1>2. ASSUME NEW s \in Stop, NEW d \in Stop
        PROVE  OnWay(Flow(link), sendQ, s, d) = << >>
    <2>1. /\ N \in Nat \ {0} /\ s \in RingOf(N) /\ d \in RingOf(N) /\ Says(Of(s, d), Msg)
          /\ Fifos(Flow(link), RingOf(N), Cargo) /\ Fifos(sendQ, RingOf(N), Cargo)
      BY CInvInit, Ready DEF CInv
    <2>2. \A n \in RingOf(N) : Free(Flow(link)[n], Of(s, d)) /\ Free(sendQ[n], Of(s, d))
      <3>1. \A T : Free(<< >>, T)
        BY DEF Free
      <3>2. \A n \in RingOf(N) : Flow(link)[n] = << >> /\ sendQ[n] = << >>
        BY <1>1, RingIs
      <3>3. QED
        BY <3>1, <3>2
    <2>3. QED
      BY <2>1, <2>2, RingLine DEF OnWay
  <1>3. Transit = [p \in Traffic |-> << >>]
    BY <1>2, TransitIs
  <1>4. Inbox = [n \in Stop |-> << >>]
    <2>1. ASSUME NEW n \in Stop PROVE Sourced(recvQ[n]) = << >>
      <3>1. recvQ[n] \in Seq(Data) /\ recvQ[n] = << >>
        BY DEF Init
      <3>2. QED
        BY <3>1, SourcedIs
    <2>2. QED
      BY <2>1 DEF Inbox
  <1>5. QED
    BY <1>3, <1>4 DEF Net!Init, Transit, Inbox, Sourced

LEMMA NetDeliver ==
  ASSUME NEW s \in Stop, NEW d \in Stop, NEW m \in Msg, Delivered(s, d, m)
  PROVE  Net!Next
  <1>1. <<s, d>> \in Traffic /\ Net!Deliver(s, d)
    BY DEF Delivered, Net!Deliver, Net!Received, Transit, Inbox, Sourced
  <1>2. \E p \in Traffic : p = <<s, d>> /\ Net!Deliver(p[1], p[2])
    BY <1>1
  <1>3. QED
    BY <1>2 DEF Net!Next

LEMMA NetEnq ==
  ASSUME NEW s \in Stop, NEW d \in Stop, NEW m \in Msg, Entered(s, d, m)
  PROVE  Net!Next
  <1>1. <<s, d>> \in Traffic /\ Net!Enq(s, d, m)
    BY DEF Entered, Net!Enq, Transit, Inbox, Sourced
  <1>2. \E p \in Traffic : p = <<s, d>> /\ Net!Enq(p[1], p[2], m)
    BY <1>1
  <1>3. QED
    BY <1>2 DEF Net!Next

LEMMA NetDeq ==
  ASSUME NEW n \in Stop, GivenOut(n)
  PROVE  Net!Next
  <1>1. Net!Deq(n)
    BY DEF GivenOut, Net!Deq, Transit, Inbox, Sourced
  <1>2. QED
    BY <1>1 DEF Net!Next

LEMMA NetSame ==
  ASSUME Transit' = Transit, Inbox' = Inbox
  PROVE  UNCHANGED Net!vars
  BY DEF Net!vars, Transit, Inbox, Sourced

(* Every step is one of the reliable network, or does not show.            *)
LEMMA NetStep == IInv /\ CInv /\ [Next]_vars => CInv' /\ [Net!Next]_(Net!vars)
  <1> SUFFICES ASSUME IInv, CInv, [Next]_vars
               PROVE  CInv' /\ (Net!Next \/ UNCHANGED Net!vars)
    OBVIOUS
  <1>1. ASSUME NEW n \in Stop, RecvFromRing(n) PROVE CInv' /\ Net!Next
    BY <1>1, RecvImpl, NetDeliver
  <1>2. ASSUME NEW n \in Stop, SendToRing(n) PROVE CInv' /\ UNCHANGED Net!vars
    BY <1>2, SendImpl, NetSame
  <1>3. ASSUME NEW n \in Stop, RecvAndSend(n) PROVE CInv' /\ Net!Next
    BY <1>3, RecvAndSendImpl, NetDeliver
  <1>4. ASSUME NEW n \in Stop, ForwardOnRing(n) PROVE CInv' /\ UNCHANGED Net!vars
    BY <1>4, ForwardImpl, NetSame
  <1>5. ASSUME NEW n \in Stop, ForwardTokenOnRing(n) PROVE CInv' /\ UNCHANGED Net!vars
    BY <1>5, ForwardTokenImpl, NetSame
  <1>6. ASSUME NEW n \in Stop, Deq(n) PROVE CInv' /\ Net!Next
    BY <1>6, DeqImpl, NetDeq
  <1>7. ASSUME NEW n \in Stop, NEW d \in Stop, NEW m \in Msg, Enq(n, d, m) PROVE CInv' /\ Net!Next
    BY <1>7, EnqImpl, NetEnq
  <1>8. CASE SendAll
    BY <1>8, SendAllImpl, NetSame
  <1>9. CASE UNCHANGED vars
    <2>1. Transit' = Transit /\ Inbox' = Inbox /\ CInv'
      BY <1>9, TransitIs DEF vars, Inbox, CInv
    <2>2. QED
      BY <2>1, NetSame
  <1>10. QED
    BY <1>1, <1>2, <1>3, <1>4, <1>5, <1>6, <1>7, <1>8, <1>9 DEF Next

(* Whatever the rules of the stops do and in which order, the token ring   *)
(* of addressable-ring.bsv delivers every message to its destination,      *)
(* once, and those of two stops in their order: the token that rides on    *)
(* them, or alone, changes none of it.                                     *)
THEOREM TokenRingImplements == Spec => ImplementsRingNet
<1>1. QED
  BY TokenRingInvariant, CInvInit, NetInit, NetStep, PTL DEF Spec, ImplementsRingNet, Net!Spec
=============================================================================
