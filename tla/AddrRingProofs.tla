-------------------------- MODULE AddrRingProofs ---------------------------
(***************************************************************************)
(* Why the ring of addressable-ring.bsv without token and dateline is      *)
(* enough for one source or one destination: no message passes the source, *)
(* or the destination, so there is always room before that stop or a       *)
(* message for it.  For every number of stops, every size of the links and *)
(* queues and every arbitration mode.                                      *)
(*                                                                         *)
(* No message is on a link behind its source, either, so that the ring is, *)
(* for each two stops, one queue: it implements the reliable network       *)
(* RingNet and, seen by source, the network of the services (AddrNet).     *)
(***************************************************************************)
EXTENDS AddrRing, RingInit, QueueLemmas

(* The links from stop s to the link out of stop n, and to stop d, which a *)
(* message has to enter even if it is s.                                   *)
Hops(s, n) == IF n >= s THEN n - s ELSE n + N - s
To(s, d)   == IF d > s THEN d - s ELSE d + N - s

(* A message from s to d does not pass stop c.                             *)
Spares(s, d, c) == To(s, d) <= To(s, c)

(* The traffic the ring is made for, and what it needs of it.              *)
SingleSource == \E s \in Stop : \A p \in Traffic : p[1] = s
SingleSink   == \E d \in Stop : \A p \in Traffic : p[2] = d
Clear(c)     == \A p \in Traffic : Spares(p[1], p[2], c)

(* The messages that may be in recvQ[n], in sendQ[n] and on link[n].       *)
For == [n \in Stop |-> {x \in Data : x.dst = n /\ <<x.src, x.dst>> \in Traffic}]
Own == [n \in Stop |-> {x \in Data : x.src = n /\ <<x.src, x.dst>> \in Traffic}]
On  == [n \in Stop |-> {x \in Data : Hops(x.src, n) < To(x.src, x.dst) /\ <<x.src, x.dst>> \in Traffic}]

(* No FIFO holds more than it has slots.                                   *)
Fits(q, cap) == \A n \in Stop : Len(q[n]) <= cap

IInv ==
  /\ Table(recvQ, Stop, For) /\ Fits(recvQ, QCap)
  /\ localPrior \in [Stop -> BOOLEAN]
  /\ Table(sendQ, Stop, Own)
  /\ Table(link, Stop, On) /\ Fits(link, LinkCap)
-----------------------------------------------------------------------------
(* One source or one destination is a stop that nothing passes.            *)
LEMMA NothingPassesTheEnd ==
  ASSUME SingleSource \/ SingleSink
  PROVE  \E c \in Stop : Clear(c)
  <1>1. N \in Nat \ {0} /\ \A p \in Traffic : p[1] \in Stop /\ p[2] \in Stop
    BY RingAssumption, AddrRingAssumption
  <1>2. ASSUME NEW c \in Stop, \A p \in Traffic : p[1] = c PROVE Clear(c)
    <2>1. \A d \in Stop : To(c, d) <= To(c, c)
      BY <1>1 DEF To, Stop
    <2>2. QED
      BY <1>1, <1>2, <2>1 DEF Clear, Spares
  <1>3. ASSUME NEW c \in Stop, \A p \in Traffic : p[2] = c PROVE Clear(c)
    <2>1. \A s \in Stop : To(s, c) <= To(s, c)
      BY <1>1 DEF To, Stop
    <2>2. QED
      BY <1>1, <1>3, <2>1 DEF Clear, Spares
  <1>4. QED
    BY <1>2, <1>3 DEF SingleSource, SingleSink

LEMMA PrevStop ==
  ASSUME NEW n \in Stop
  PROVE  Prev(n) \in Stop
  BY RingAssumption DEF Prev, Stop

(* The link into a stop is one hop before the stop.                        *)
LEMMA OneHopOn ==
  ASSUME NEW s \in Stop, NEW n \in Stop
  PROVE  /\ Hops(s, s) = 0
         /\ Hops(s, Prev(n)) + 1 = To(s, n)
         /\ n # s => Hops(s, n) = To(s, n)
         /\ n = s => Hops(s, n) = 0
  BY RingAssumption DEF Hops, To, Prev, Stop

(* A message has a hop to go, and stops one is as far from are one.        *)
LEMMA HopsToGo ==
  ASSUME NEW s \in Stop, NEW d \in Stop
  PROVE  /\ To(s, d) \in Nat /\ To(s, d) > 0
         /\ \A n \in Stop : Hops(s, n) \in Nat
         /\ \A c \in Stop : To(s, c) = To(s, d) => c = d
  BY RingAssumption DEF To, Hops, Stop

LEMMA MayBe ==
  \A n \in Stop : \A x \in Data :
    /\ x \in For[n] <=> x.dst = n /\ <<x.src, x.dst>> \in Traffic
    /\ x \in Own[n] <=> x.src = n /\ <<x.src, x.dst>> \in Traffic
    /\ x \in On[n] <=> Hops(x.src, n) < To(x.src, x.dst) /\ <<x.src, x.dst>> \in Traffic
    /\ x.src \in Stop /\ x.dst \in Stop
  BY DEF For, Own, On, Data

LEMMA Typed ==
  ASSUME NEW n \in Stop
  PROVE  For[n] \subseteq Data /\ Own[n] \subseteq Data /\ On[n] \subseteq Data
  BY DEF For, Own, On

(* A stop's own message may be on the link out of it, and what is not for  *)
(* a stop may go on.                                                       *)
LEMMA MaySend ==
  ASSUME NEW n \in Stop, NEW x, x \in Own[n]
  PROVE  x \in On[n]
  <1>1. x \in Data /\ x.src \in Stop /\ x.dst \in Stop
    BY Typed, MayBe
  <1>2. x.src = n /\ <<x.src, x.dst>> \in Traffic
    BY <1>1, MayBe
  <1>3. Hops(x.src, n) = 0 /\ To(x.src, x.dst) > 0
    BY <1>1, <1>2, OneHopOn, HopsToGo
  <1>4. QED
    BY <1>1, <1>2, <1>3, MayBe

LEMMA MayForward ==
  ASSUME NEW n \in Stop, NEW x, x \in On[Prev(n)], x.dst # n
  PROVE  x \in On[n] /\ Prev(n) # n
  <1> DEFINE s == x.src
             d == x.dst
  <1>1. x \in Data /\ s \in Stop /\ d \in Stop /\ Prev(n) \in Stop
    BY PrevStop, Typed, MayBe
  <1>2. Hops(s, Prev(n)) < To(s, d) /\ <<s, d>> \in Traffic
    BY <1>1, MayBe
  <1>3. To(s, n) # To(s, d)
    BY <1>1, HopsToGo
  <1>4. /\ To(s, d) \in Nat /\ To(s, d) > 0 /\ To(s, n) \in Nat
        /\ Hops(s, Prev(n)) \in Nat /\ Hops(s, Prev(n)) + 1 = To(s, n)
        /\ Hops(s, n) = IF n = s THEN 0 ELSE To(s, n)
    BY <1>1, HopsToGo, OneHopOn
  <1>5. Hops(s, n) < To(s, d)
    BY <1>2, <1>3, <1>4
  <1>6. Prev(n) # n
    <2>1. n # d /\ n \in Stop
      BY <1>1
    <2>2. QED
      BY <1>1, <2>1, RingAssumption DEF Prev, Stop
  <1>7. QED
    BY <1>1, <1>2, <1>5, <1>6, MayBe
-----------------------------------------------------------------------------
(* What waits at a stop may be on the link it waits on.                    *)
LEMMA Waiting ==
  ASSUME IInv, NEW n \in Stop, In(n) # << >>
  PROVE  Head(In(n)) \in On[Prev(n)] /\ Head(In(n)) \in Data
  <1>1. link[Prev(n)] \in Seq(On[Prev(n)]) /\ Prev(n) \in Stop
    BY PrevStop DEF IInv, Table
  <1>2. Head(In(n)) \in On[Prev(n)]
    BY <1>1, DeqType DEF In
  <1>3. QED
    BY <1>1, <1>2, Typed

(* The links after deq and after enq where there is room.                  *)
LEMMA Popped ==
  ASSUME IInv, NEW n \in Stop, In(n) # << >>,
         NEW l, l = [link EXCEPT ![Prev(n)] = Tail(@)]
  PROVE  Table(l, Stop, On) /\ Fits(l, LinkCap)
  <1>1. Prev(n) \in Stop /\ link[Prev(n)] # << >> /\ Table(link, Stop, On)
    BY PrevStop DEF In, IInv
  <1>2. Table(l, Stop, On) /\ \A b \in Stop : Len(l[b]) <= Len(link[b])
    BY <1>1, TableDeq
  <1>3. \A b \in Stop : Len(l[b]) \in Nat /\ Len(link[b]) \in Nat /\ Len(link[b]) <= LinkCap
    BY <1>2 DEF Table, IInv, Fits
  <1>4. \A b \in Stop : Len(l[b]) <= LinkCap
    BY <1>2, <1>3, RingAssumption
  <1>5. QED
    BY <1>2, <1>4 DEF Fits

LEMMA Pushed ==
  ASSUME NEW l, Table(l, Stop, On), Fits(l, LinkCap), NEW n \in Stop, Len(l[n]) < LinkCap,
         NEW x, x \in On[n], NEW l2, l2 = [l EXCEPT ![n] = Append(@, x)]
  PROVE  Table(l2, Stop, On) /\ Fits(l2, LinkCap)
  <1>1. Table(l2, Stop, On)
    BY TableEnq
  <1>2. Fits(l2, LinkCap)
    BY EnqFits, RingAssumption DEF Fits
  <1>3. QED
    BY <1>1, <1>2

(* Whose turn it is stays a bit for each stop.                             *)
LEMMA Turns ==
  ASSUME NEW n \in Stop, NEW b \in BOOLEAN, localPrior \in [Stop -> BOOLEAN], UpdArbiter(n, b)
  PROVE  localPrior' \in [Stop -> BOOLEAN]
  BY DEF UpdArbiter

(* Each rule and each method keeps IInv.                                   *)
LEMMA RecvFromRingInv ==
  ASSUME IInv, NEW n \in Stop, RecvFromRing(n)
  PROVE  IInv'
  <1> DEFINE x == Head(In(n))
  <1>1. In(n) # << >> /\ x.dst = n /\ Len(recvQ[n]) < QCap
    BY DEF RecvFromRing, NewMsgIsForMe, HasRoom
  <1>2. x \in For[n]
    <2>1. x \in On[Prev(n)] /\ x \in Data /\ Prev(n) \in Stop
      BY <1>1, Waiting, PrevStop
    <2>2. QED
      BY <1>1, <2>1, MayBe
  <1>3. recvQ' = [recvQ EXCEPT ![n] = Append(@, x)]
    BY DEF RecvFromRing
  <1> HIDE DEF x
  <1>4. Table(recvQ', Stop, For)
    BY <1>2, <1>3, TableEnq DEF IInv
  <1>5. Fits(recvQ', QCap)
    BY <1>1, <1>2, <1>3, EnqFits, RingAssumption, AddrRingAssumption DEF IInv, Fits
  <1>6. Table(link', Stop, On) /\ Fits(link', LinkCap)
    BY <1>1, Popped DEF RecvFromRing
  <1>7. QED
    BY <1>4, <1>5, <1>6 DEF IInv, RecvFromRing

LEMMA SendToRingInv ==
  ASSUME IInv, NEW n \in Stop, SendToRing(n)
  PROVE  IInv'
  <1> DEFINE x == Head(sendQ[n])
  <1>1. sendQ[n] # << >> /\ Len(link[n]) < LinkCap /\ sendQ[n] \in Seq(Own[n])
    BY DEF SendToRing, CanSend, RoomOut, IInv, Table
  <1>2. x \in On[n]
    BY <1>1, DeqType, MaySend
  <1>3. /\ link' = [link EXCEPT ![n] = Append(@, x)]
        /\ sendQ' = [sendQ EXCEPT ![n] = Tail(@)]
        /\ UpdArbiter(n, FALSE) /\ recvQ' = recvQ
    BY DEF SendToRing
  <1> HIDE DEF x
  <1>4. Table(link', Stop, On) /\ Fits(link', LinkCap)
    BY <1>1, <1>2, <1>3, Pushed DEF IInv
  <1>5. Table(sendQ', Stop, Own)
    BY <1>1, <1>3, TableDeq DEF IInv
  <1>6. localPrior' \in [Stop -> BOOLEAN]
    BY <1>3, Turns DEF IInv
  <1>7. QED
    BY <1>3, <1>4, <1>5, <1>6 DEF IInv

LEMMA SendAllInv ==
  ASSUME IInv, SendAll
  PROVE  IInv'
  <1>1. \A n \in Stop : sendQ[n] # << >> /\ sendQ[n] \in Seq(Own[n])
    BY DEF SendAll, IInv, Table
  <1>2. \A n \in Stop : Head(sendQ[n]) \in Own[n] /\ Tail(sendQ[n]) \in Seq(Own[n])
    BY <1>1, DeqType
  <1>3. \A n \in Stop : Head(sendQ[n]) \in On[n]
    BY <1>2, MaySend
  <1>4. /\ link' = [n \in Stop |-> << Head(sendQ[n]) >>]
        /\ sendQ' = [n \in Stop |-> Tail(sendQ[n])]
        /\ recvQ' = recvQ
    BY DEF SendAll
  <1>5. Table(sendQ', Stop, Own)
    BY <1>2, <1>4 DEF Table
  <1>6. Table(link', Stop, On)
    <2>1. ASSUME NEW S, NEW x \in S PROVE << x >> \in Seq(S)
      OBVIOUS
    <2>2. \A n \in Stop : << Head(sendQ[n]) >> \in Seq(On[n])
      BY <1>3, <2>1
    <2>3. QED
      BY <1>4, <2>2 DEF Table
  <1>7. Fits(link', LinkCap)
    <2>1. \A n \in Stop : link'[n] = << Head(sendQ[n]) >>
      BY <1>4
    <2>2. \A x : Len(<< x >>) = 1
      OBVIOUS
    <2>3. \A n \in Stop : Len(link'[n]) = 1
      BY <2>1, <2>2
    <2>4. 1 <= LinkCap
      BY RingAssumption
    <2>5. QED
      BY <2>3, <2>4 DEF Fits
  <1>8. localPrior' \in [Stop -> BOOLEAN]
    BY DEF SendAll, IInv
  <1>9. QED
    BY <1>4, <1>5, <1>6, <1>7, <1>8 DEF IInv

LEMMA ForwardOnRingInv ==
  ASSUME IInv, NEW n \in Stop, ForwardOnRing(n)
  PROVE  IInv'
  <1> DEFINE x  == Head(In(n))
             l1 == [link EXCEPT ![Prev(n)] = Tail(@)]
  <1>1. In(n) # << >> /\ x.dst # n /\ Len(link[n]) < LinkCap
    BY DEF ForwardOnRing, HasTransit, NewMsgIsForMe, RoomOut
  <1>2. x \in On[n] /\ Prev(n) # n
    BY <1>1, Waiting, MayForward
  <1>3. Table(l1, Stop, On) /\ Fits(l1, LinkCap)
    BY <1>1, Popped
  <1>4. link' = [l1 EXCEPT ![n] = Append(@, x)]
    BY <1>2 DEF ForwardOnRing
  <1>5. Len(l1[n]) < LinkCap
    <2>1. l1[n] = link[n]
      BY <1>2, PrevStop DEF IInv, Table
    <2> HIDE DEF l1
    <2>2. QED
      BY <1>1, <2>1
  <1>6. localPrior' \in [Stop -> BOOLEAN]
    BY Turns DEF IInv, ForwardOnRing
  <1>7. recvQ' = recvQ /\ sendQ' = sendQ
    BY DEF ForwardOnRing
  <1> HIDE DEF x, l1
  <1>8. Table(link', Stop, On) /\ Fits(link', LinkCap)
    BY <1>2, <1>3, <1>4, <1>5, Pushed
  <1>9. QED
    BY <1>6, <1>7, <1>8 DEF IInv

LEMMA EnqInv ==
  ASSUME IInv, NEW n \in Stop, NEW d \in Stop, NEW m \in Msg, Enq(n, d, m)
  PROVE  IInv'
  <1> DEFINE x == [src |-> n, dst |-> d, msg |-> m]
  <1>1. x \in Own[n]
    BY DEF Own, Data, Enq
  <1>2. sendQ' = [sendQ EXCEPT ![n] = Append(@, x)]
    BY DEF Enq
  <1> HIDE DEF x
  <1>3. Table(sendQ', Stop, Own)
    BY <1>1, <1>2, TableEnq DEF IInv
  <1>4. QED
    BY <1>3 DEF IInv, Enq

LEMMA DeqInv ==
  ASSUME IInv, NEW n \in Stop, Deq(n)
  PROVE  IInv'
  <1>1. recvQ[n] # << >> /\ recvQ' = [recvQ EXCEPT ![n] = Tail(@)]
    BY DEF Deq
  <1>2. Table(recvQ', Stop, For) /\ \A b \in Stop : Len(recvQ'[b]) <= Len(recvQ[b])
    BY <1>1, TableDeq DEF IInv
  <1>3. Fits(recvQ', QCap)
    <2>1. \A b \in Stop : Len(recvQ'[b]) \in Nat /\ Len(recvQ[b]) \in Nat /\ Len(recvQ[b]) <= QCap
      BY <1>2 DEF Table, IInv, Fits
    <2>2. QED
      BY <1>2, <2>1, RingAssumption, AddrRingAssumption DEF Fits
  <1>4. QED
    BY <1>2, <1>3 DEF IInv, Deq
-----------------------------------------------------------------------------
(* The ring starts empty.                                                  *)
LEMMA IInvInit == Init => IInv
  <1> SUFFICES ASSUME Init PROVE IInv
    OBVIOUS
  <1>1. localPrior \in [Stop -> BOOLEAN]
    BY DEF Init
  <1>2. Table(recvQ, Stop, For) /\ Table(sendQ, Stop, Own) /\ Table(link, Stop, On)
    BY DEF Init, Table
  <1>3. \A n \in Stop : Len(link[n]) = 0 /\ Len(recvQ[n]) = 0
    BY DEF Init
  <1>4. Fits(link, LinkCap) /\ Fits(recvQ, QCap)
    BY <1>3, RingAssumption, AddrRingAssumption DEF Fits
  <1>5. QED
    BY <1>1, <1>2, <1>4 DEF IInv

LEMMA IInvStep == IInv /\ [Next]_vars => IInv'
  <1> SUFFICES ASSUME IInv, [Next]_vars PROVE IInv'
    OBVIOUS
  <1>1. ASSUME NEW n \in Stop, RecvFromRing(n) PROVE IInv'
    BY <1>1, RecvFromRingInv
  <1>2. ASSUME NEW n \in Stop, SendToRing(n) PROVE IInv'
    BY <1>2, SendToRingInv
  <1>3. ASSUME NEW n \in Stop, ForwardOnRing(n) PROVE IInv'
    BY <1>3, ForwardOnRingInv
  <1>4. ASSUME NEW n \in Stop, Deq(n) PROVE IInv'
    BY <1>4, DeqInv
  <1>5. ASSUME NEW n \in Stop, NEW d \in Stop, NEW m \in Msg, Enq(n, d, m) PROVE IInv'
    BY <1>5, EnqInv
  <1>6. CASE SendAll
    BY <1>6, SendAllInv
  <1>7. CASE UNCHANGED vars
    BY <1>7 DEF IInv, vars
  <1>8. QED
    BY <1>1, <1>2, <1>3, <1>4, <1>5, <1>6, <1>7 DEF Next

(* The strengthening holds in every state of every ring, whatever its      *)
(* traffic.                                                                *)
THEOREM AddrRingInvariant == Spec => []IInv
<1>1. QED
  BY IInvInit, IInvStep, PTL DEF Spec

LEMMA IInvTypeOK == IInv => TypeOK
  <1> SUFFICES ASSUME IInv PROVE TypeOK
    OBVIOUS
  <1>1. \A n \in Stop : /\ Seq(For[n]) \subseteq Seq(Data) /\ Seq(Own[n]) \subseteq Seq(Data)
                        /\ Seq(On[n]) \subseteq Seq(Data)
    BY Typed, SeqSubset
  <1>2. \A n \in Stop : recvQ[n] \in Seq(Data) /\ sendQ[n] \in Seq(Data) /\ link[n] \in Seq(Data)
    BY <1>1 DEF IInv, Table
  <1>3. recvQ \in [Stop -> Seq(Data)] /\ sendQ \in [Stop -> Seq(Data)] /\ link \in [Stop -> Seq(Data)]
    BY <1>2 DEF IInv, Table
  <1>4. QED
    BY <1>3 DEF IInv, TypeOK, Fits

(* A stop that nothing passes has room before it or a message for it.      *)
LEMMA RoomBeforeTheEnd ==
  ASSUME IInv, NEW c \in Stop, Clear(c)
  PROVE  RingNeverDead
  <1>1. CASE In(c) = << >>
    <2>1. Prev(c) \in Stop /\ link[Prev(c)] = << >>
      BY <1>1, PrevStop DEF In
    <2>2. Len(link[Prev(c)]) = 0
      BY <2>1
    <2>3. RoomOut(Prev(c))
      BY <2>2, RingAssumption DEF RoomOut
    <2>4. QED
      BY <2>1, <2>3 DEF RingNeverDead
  <1>2. CASE In(c) # << >>
    <2> DEFINE x == Head(In(c))
               s == x.src
               d == x.dst
    <2>1. x \in On[Prev(c)] /\ x \in Data /\ Prev(c) \in Stop
      BY <1>2, Waiting, PrevStop
    <2>2. s \in Stop /\ d \in Stop /\ Hops(s, Prev(c)) < To(s, d) /\ <<s, d>> \in Traffic
      BY <2>1, MayBe
    <2>3. To(s, d) <= To(s, c)
      BY <2>2 DEF Clear, Spares
    <2>4. /\ Hops(s, Prev(c)) + 1 = To(s, c) /\ Hops(s, Prev(c)) \in Nat
          /\ To(s, d) \in Nat /\ To(s, c) \in Nat
      BY <2>1, <2>2, OneHopOn, HopsToGo
    <2>5. To(s, c) = To(s, d)
      BY <2>2, <2>3, <2>4
    <2>6. d = c
      BY <2>2, <2>5, HopsToGo
    <2>7. QED
      BY <1>2, <2>6 DEF NewMsgIsForMe, RingNeverDead
  <1>3. QED
    BY <1>1, <1>2

(* If the clients leave one stop that no message has to pass, the ring of  *)
(* mkConnectionAddrRingNode_Impl is never full of messages that all have   *)
(* to be forwarded, for any number of stops, any sizes and every           *)
(* ADDR_RING_MSG_MODE.                                                     *)
THEOREM AddrRingSafe ==
  ASSUME \E c \in Stop : Clear(c)
  PROVE  Spec => []RingInv
<1>1. IInv => RingInv
  BY IInvTypeOK, RoomBeforeTheEnd DEF RingInv
<1>2. QED
  BY <1>1, AddrRingInvariant, PTL

(* mkConnectionAddrRingNode is documented for a single source or a single  *)
(* sink; such a traffic leaves the stop at that end.                       *)
THEOREM SingleEndSafe ==
  ASSUME SingleSource \/ SingleSink
  PROVE  Spec => []RingInv
<1>1. QED
  BY NothingPassesTheEnd, AddrRingSafe
-----------------------------------------------------------------------------
(* The ring as a reliable network.  The line of queues from s to d, for    *)
(* any links l and send queues q, and the mapped state.                    *)
OnWay(l, q, s, d) == InLine(Round(N, l, q, s, d), N + 1, Of(s, d))
Transit == [p \in Traffic |-> Between(p[1], p[2])]
Inbox   == [n \in Stop |-> Sourced(recvQ[n])]

LEMMA RingIs ==
  /\ N \in Nat \ {0} /\ Stop = RingOf(N)
  /\ \A n : Prev(n) = Pre(N, n)
  /\ \A s, d : To(s, d) = LinksTo(N, s, d)
  BY RingAssumption DEF Stop, RingOf, Prev, Pre, To, LinksTo

LEMMA TransitIs ==
  /\ Transit = [p \in Traffic |-> OnWay(link, sendQ, p[1], p[2])]
  /\ Transit' = [p \in Traffic |-> OnWay(link', sendQ', p[1], p[2])]
  BY DEF Transit, Between, Path, OnWay, Round, Back, LinkTo

LEMMA OfIs ==
  ASSUME NEW s \in Stop, NEW d \in Stop
  PROVE  /\ Says(Of(s, d), Msg)
         /\ \A x \in Data : x \in Of(s, d) <=> x.src = s /\ x.dst = d
  BY DEF Says, Of, Data

LEMMA RingFifos ==
  ASSUME NEW S, \A n \in Stop : S[n] \subseteq Data, NEW l, Table(l, Stop, S)
  PROVE  Fifos(l, RingOf(N), Data)
  <1>1. \A n \in Stop : Seq(S[n]) \subseteq Seq(Data)
    BY SeqSubset
  <1>2. \A n \in Stop : l[n] \in Seq(Data)
    BY <1>1 DEF Table
  <1>3. QED
    BY <1>2, RingIs DEF Table, Fifos

LEMMA AreFifos ==
  ASSUME IInv
  PROVE  Fifos(link, RingOf(N), Data) /\ Fifos(sendQ, RingOf(N), Data)
  <1>1. \A n \in Stop : Own[n] \subseteq Data /\ On[n] \subseteq Data
    BY Typed
  <1>2. QED
    BY <1>1, RingFifos DEF IInv

(* What stop s sends now to d is behind what it has sent to d before.      *)
LEMMA LastIsBehind ==
  ASSUME NEW s \in Stop, NEW d \in Stop, NEW l, Table(l, Stop, On)
  PROVE  NoneBehind(N, l, Of(s, d), s, d)
  <1>1. ASSUME NEW m \in Stop, To(m, d) > To(s, d), NEW i \in 1 .. Len(l[m]),
               l[m][i] \in Of(s, d)
        PROVE  FALSE
    <2> DEFINE x == l[m][i]
    <2>1. x \in On[m]
      BY <1>1 DEF Table
    <2>2. x \in Data
      BY <2>1, Typed
    <2>3. x.src = s /\ x.dst = d
      BY <1>1, <2>2, OfIs
    <2>4. Hops(s, m) < To(s, d)
      BY <2>1, <2>2, <2>3, MayBe
    <2>5. Hops(s, m) < To(s, d) => To(m, d) <= To(s, d)
      BY RingAssumption DEF Hops, To, Stop
    <2>6. To(m, d) \in Nat /\ To(s, d) \in Nat
      BY HopsToGo
    <2>7. QED
      BY <1>1, <2>4, <2>5, <2>6
  <1>2. \A m \in Stop : To(m, d) > To(s, d) => Free(l[m], Of(s, d))
    BY <1>1 DEF Free
  <1>3. QED
    BY <1>2, RingIs DEF NoneBehind

LEMMA SendOnWay ==
  ASSUME IInv, NEW n \in Stop, SendToRing(n), NEW s \in Stop, NEW d \in Stop
  PROVE  OnWay(link', sendQ', s, d) = OnWay(link, sendQ, s, d)
  <1> DEFINE T == Of(s, d)
             x == Head(sendQ[n])
  <1>1. sendQ[n] # << >> /\ sendQ[n] \in Seq(Own[n])
    BY DEF SendToRing, CanSend, IInv, Table
  <1>2. SentAt(link, link', sendQ, sendQ', n)
    BY <1>1 DEF SendToRing, SentAt, EnqAt, DeqAt
  <1>3. Head(sendQ[n]) \in T => n = s
    <2>1. x \in Own[n] /\ x \in Data
      BY <1>1, DeqType, Typed
    <2>2. x.src = n
      BY <2>1, MayBe
    <2>3. QED
      BY <2>1, <2>2, OfIs
  <1>4. NoneBehind(N, link, T, s, d) /\ Says(T, Msg)
    BY LastIsBehind, OfIs DEF IInv
  <1>5. /\ N \in Nat \ {0} /\ s \in RingOf(N) /\ d \in RingOf(N) /\ n \in RingOf(N)
        /\ Fifos(link, RingOf(N), Data) /\ Fifos(sendQ, RingOf(N), Data)
    BY RingIs, AreFifos
  <1> HIDE DEF T
  <1>6. InLine(Round(N, link', sendQ', s, d), N + 1, T)
          = InLine(Round(N, link, sendQ, s, d), N + 1, T)
    BY ONLY <1>2, <1>3, <1>4, <1>5, RingSend
  <1>7. QED
    BY <1>6 DEF OnWay, T

LEMMA ForwardOnWay ==
  ASSUME IInv, NEW n \in Stop, ForwardOnRing(n), NEW s \in Stop, NEW d \in Stop
  PROVE  OnWay(link', sendQ', s, d) = OnWay(link, sendQ, s, d)
  <1> DEFINE T  == Of(s, d)
             p  == Prev(n)
             x  == Head(In(n))
             l1 == [link EXCEPT ![p] = Tail(@)]
  <1>1. In(n) # << >> /\ x.dst # n /\ sendQ' = sendQ
    BY DEF ForwardOnRing, HasTransit, NewMsgIsForMe
  <1>2. x \in On[p] /\ x \in Data /\ p # n
    BY <1>1, Waiting, MayForward
  <1>3. DeqAt(link, l1, p) /\ EnqAt(l1, link', n, x)
    BY <1>2 DEF ForwardOnRing, DeqAt, EnqAt
  <1>4. x \in T => n # d
    BY <1>1, <1>2, OfIs
  <1>5. /\ N \in Nat \ {0} /\ s \in RingOf(N) /\ d \in RingOf(N) /\ n \in RingOf(N)
        /\ Fifos(link, RingOf(N), Data) /\ Fifos(sendQ, RingOf(N), Data)
        /\ p = Pre(N, n) /\ p # n /\ link[p] # << >> /\ x = Head(link[p]) /\ Says(T, Msg)
    BY <1>1, <1>2, RingIs, AreFifos, OfIs DEF In
  <1> HIDE DEF T, x, p, l1
  <1>6. InLine(Round(N, link', sendQ, s, d), N + 1, T)
          = InLine(Round(N, link, sendQ, s, d), N + 1, T)
    BY ONLY <1>3, <1>4, <1>5, RingForward
  <1>7. QED
    BY <1>1, <1>6 DEF OnWay, T

LEMMA RecvOnWay ==
  ASSUME IInv, NEW n \in Stop, RecvFromRing(n), NEW s \in Stop, NEW d \in Stop,
         NEW x, x = Head(In(n))
  PROVE  IF x.src = s /\ n = d
         THEN Gave(OnWay(link', sendQ', s, d), OnWay(link, sendQ, s, d), x.msg)
         ELSE OnWay(link', sendQ', s, d) = OnWay(link, sendQ, s, d)
  <1> DEFINE T == Of(s, d)
             p == Prev(n)
  <1>1. In(n) # << >> /\ x.dst = n /\ sendQ' = sendQ
    BY DEF RecvFromRing, NewMsgIsForMe
  <1>2. x \in Data
    BY <1>1, Waiting
  <1>3. DeqAt(link, link', p)
    BY DEF RecvFromRing, DeqAt
  <1>4. x \in T <=> x.src = s /\ n = d
    BY <1>1, <1>2, OfIs
  <1>5. /\ N \in Nat \ {0} /\ s \in RingOf(N) /\ d \in RingOf(N) /\ n \in RingOf(N)
        /\ Fifos(link, RingOf(N), Data) /\ Fifos(sendQ, RingOf(N), Data)
        /\ p = Pre(N, n) /\ link[p] # << >> /\ x = Head(link[p]) /\ Says(T, Msg)
    BY <1>1, RingIs, AreFifos, OfIs DEF In
  <1>6. x \in T => n = d
    BY <1>4
  <1> HIDE DEF T, p
  <1>7. /\ x \notin T => InLine(Round(N, link', sendQ, s, d), N + 1, T)
                           = InLine(Round(N, link, sendQ, s, d), N + 1, T)
        /\ x \in T => Gave(InLine(Round(N, link', sendQ, s, d), N + 1, T),
                           InLine(Round(N, link, sendQ, s, d), N + 1, T), x.msg)
    BY ONLY <1>3, <1>5, <1>6, RingTake
  <1>8. QED
    BY <1>1, <1>4, <1>7 DEF OnWay, T

LEMMA EnqOnWay ==
  ASSUME IInv, NEW n \in Stop, NEW e \in Stop, NEW m \in Msg, Enq(n, e, m),
         NEW s \in Stop, NEW d \in Stop
  PROVE  IF n = s /\ e = d
         THEN Enqueued(OnWay(link', sendQ', s, d), OnWay(link, sendQ, s, d), m)
         ELSE OnWay(link', sendQ', s, d) = OnWay(link, sendQ, s, d)
  <1> DEFINE T == Of(s, d)
             x == [src |-> n, dst |-> e, msg |-> m]
  <1>1. x \in Data /\ x.msg = m
    BY DEF Data
  <1>2. EnqAt(sendQ, sendQ', n, x) /\ link' = link
    BY DEF Enq, EnqAt
  <1>3. x \in T <=> n = s /\ e = d
    BY <1>1, OfIs
  <1>4. /\ N \in Nat \ {0} /\ s \in RingOf(N) /\ d \in RingOf(N) /\ n \in RingOf(N)
        /\ Fifos(link, RingOf(N), Data) /\ Fifos(sendQ, RingOf(N), Data) /\ Says(T, Msg)
        /\ x \in Data
    BY <1>1, RingIs, AreFifos, OfIs
  <1>5. x \in T => n = s
    BY <1>3
  <1> HIDE DEF T, x
  <1>6. /\ x \notin T => InLine(Round(N, link, sendQ', s, d), N + 1, T)
                           = InLine(Round(N, link, sendQ, s, d), N + 1, T)
        /\ x \in T => Enqueued(InLine(Round(N, link, sendQ', s, d), N + 1, T),
                               InLine(Round(N, link, sendQ, s, d), N + 1, T), x.msg)
    BY ONLY <1>2, <1>4, <1>5, RingEnter
  <1>7. QED
    BY <1>1, <1>2, <1>3, <1>6 DEF OnWay, T

LEMMA SendAllOnWay ==
  ASSUME IInv, SendAll, NEW s \in Stop, NEW d \in Stop
  PROVE  OnWay(link', sendQ', s, d) = OnWay(link, sendQ, s, d)
  <1> DEFINE T == Of(s, d)
  <1>1. \A n \in Stop : sendQ[n] # << >> /\ sendQ[n] \in Seq(Own[n])
    BY DEF SendAll, IInv, Table
  <1>2. ASSUME NEW n \in Stop PROVE Head(sendQ[n]) \in T => n = s
    <2>1. Head(sendQ[n]) \in Own[n] /\ Head(sendQ[n]) \in Data
      BY <1>1, DeqType, Typed
    <2>2. Head(sendQ[n]).src = n
      BY <2>1, MayBe
    <2>3. QED
      BY <2>1, <2>2, OfIs
  <1>3. \A n \in Stop : link[n] = << >>
    <2>1. \A n \in Stop : \E m \in Stop : Prev(m) = n
      BY RingAssumption DEF Prev, Stop
    <2>2. QED
      BY <2>1 DEF SendAll, In
  <1>4. \A n \in Stop : link'[n] = << Head(sendQ[n]) >> /\ sendQ'[n] = Tail(sendQ[n])
    BY DEF SendAll
  <1>5. AllSend(N, link, link', sendQ, sendQ') /\ OnlyOf(N, sendQ, T, s)
    BY <1>1, <1>2, <1>3, <1>4, RingIs DEF AllSend, OnlyOf
  <1>6. IInv'
    BY SendAllInv
  <1>7. Fifos(link', RingOf(N), Data) /\ Fifos(sendQ', RingOf(N), Data)
    <2>1. \A n \in Stop : Own[n] \subseteq Data /\ On[n] \subseteq Data
      BY Typed
    <2>2. Table(link', Stop, On) /\ Table(sendQ', Stop, Own)
      BY <1>6 DEF IInv
    <2>3. QED
      BY <2>1, <2>2, RingFifos
  <1>8. /\ N \in Nat \ {0} /\ s \in RingOf(N) /\ d \in RingOf(N) /\ Says(T, Msg)
        /\ Fifos(link, RingOf(N), Data) /\ Fifos(sendQ, RingOf(N), Data)
    BY RingIs, AreFifos, OfIs
  <1> HIDE DEF T
  <1>9. InLine(Round(N, link', sendQ', s, d), N + 1, T)
          = InLine(Round(N, link, sendQ, s, d), N + 1, T)
    BY ONLY <1>5, <1>7, <1>8, RingSendAll
  <1>10. QED
    BY <1>9 DEF OnWay, T
-----------------------------------------------------------------------------
(* How the mapped state changes. *)
LEMMA SameTransit ==
  ASSUME \A s, d \in Stop : OnWay(link', sendQ', s, d) = OnWay(link, sendQ, s, d)
  PROVE  Transit' = Transit
  <1>1. \A p \in Traffic : p[1] \in Stop /\ p[2] \in Stop
    BY AddrRingAssumption
  <1>2. \A p \in Traffic : OnWay(link', sendQ', p[1], p[2]) = OnWay(link, sendQ, p[1], p[2])
    BY <1>1
  <1>3. QED
    BY <1>2, TransitIs

SameElsewhere(s, d) ==
  \A a, b \in Stop : ~(a = s /\ b = d) =>
                       OnWay(link', sendQ', a, b) = OnWay(link, sendQ, a, b)

LEMMA OneTransit ==
  ASSUME NEW s \in Stop, NEW d \in Stop, <<s, d>> \in Traffic, SameElsewhere(s, d)
  PROVE  /\ Transit[<<s, d>>] = OnWay(link, sendQ, s, d)
         /\ Transit'[<<s, d>>] = OnWay(link', sendQ', s, d)
         /\ Transit' = [Transit EXCEPT ![<<s, d>>] = OnWay(link', sendQ', s, d)]
  <1>1. \A p \in Traffic : p[1] \in Stop /\ p[2] \in Stop /\ p = <<p[1], p[2]>>
    BY AddrRingAssumption
  <1>2. \A p \in Traffic : p # <<s, d>> => 
                           OnWay(link', sendQ', p[1], p[2]) = OnWay(link, sendQ, p[1], p[2])
    BY <1>1 DEF SameElsewhere
  <1>3. QED
    BY <1>2, TransitIs

LEMMA InboxIs ==
  ASSUME IInv, NEW n \in Stop
  PROVE  recvQ[n] \in Seq(Data) /\ Inbox[n] = Sourced(recvQ[n])
  <1>1. recvQ[n] \in Seq(For[n]) /\ For[n] \subseteq Data
    BY Typed DEF IInv, Table
  <1>2. recvQ[n] \in Seq(Data)
    BY <1>1, SeqSubset
  <1>3. QED
    BY <1>2 DEF Inbox

(* Each rule and each method is a step of the reliable network, or none.   *)
LEMMA SendImpl ==
  ASSUME IInv, NEW n \in Stop, SendToRing(n)
  PROVE  Transit' = Transit /\ Inbox' = Inbox
  <1>1. \A s, d \in Stop : OnWay(link', sendQ', s, d) = OnWay(link, sendQ, s, d)
    BY SendOnWay
  <1>2. Transit' = Transit
    BY <1>1, SameTransit
  <1>3. QED
    BY <1>2 DEF Inbox, SendToRing

LEMMA SendAllImpl ==
  ASSUME IInv, SendAll
  PROVE  Transit' = Transit /\ Inbox' = Inbox
  <1>1. \A s, d \in Stop : OnWay(link', sendQ', s, d) = OnWay(link, sendQ, s, d)
    BY SendAllOnWay
  <1>2. Transit' = Transit
    BY <1>1, SameTransit
  <1>3. QED
    BY <1>2 DEF Inbox, SendAll

LEMMA ForwardImpl ==
  ASSUME IInv, NEW n \in Stop, ForwardOnRing(n)
  PROVE  Transit' = Transit /\ Inbox' = Inbox
  <1>1. \A s, d \in Stop : OnWay(link', sendQ', s, d) = OnWay(link, sendQ, s, d)
    BY ForwardOnWay
  <1>2. Transit' = Transit
    BY <1>1, SameTransit
  <1>3. QED
    BY <1>2 DEF Inbox, ForwardOnRing

Delivered(s, d, m) ==
  /\ <<s, d>> \in Traffic /\ Gave(Transit'[<<s, d>>], Transit[<<s, d>>], m)
  /\ Transit' = [Transit EXCEPT ![<<s, d>>] = Tail(@)]
  /\ Inbox' = [Inbox EXCEPT ![d] = Append(@, [src |-> s, msg |-> m])]

LEMMA RecvImpl ==
  ASSUME IInv, NEW n \in Stop, RecvFromRing(n)
  PROVE  LET x == Head(In(n)) IN x.src \in Stop /\ x.msg \in Msg /\ Delivered(x.src, n, x.msg)
  <1> DEFINE x == Head(In(n))
             s == x.src
  <1>1. In(n) # << >> /\ x.dst = n
    BY DEF RecvFromRing, NewMsgIsForMe
  <1>2. x \in On[Prev(n)] /\ x \in Data /\ Prev(n) \in Stop
    BY <1>1, Waiting, PrevStop
  <1>3. s \in Stop /\ x.msg \in Msg /\ <<s, n>> \in Traffic
    <2>1. x.msg \in Msg
      BY <1>2 DEF Data
    <2>2. QED
      BY <1>1, <1>2, <2>1, MayBe
  <1>4. recvQ' = [recvQ EXCEPT ![n] = Append(@, x)]
    BY DEF RecvFromRing
  <1>5. \A a, b \in Stop : IF s = a /\ n = b
                           THEN Gave(OnWay(link', sendQ', a, b), OnWay(link, sendQ, a, b), x.msg)
                           ELSE OnWay(link', sendQ', a, b) = OnWay(link, sendQ, a, b)
    BY RecvOnWay
  <1> HIDE DEF x
  <1>6. Gave(OnWay(link', sendQ', s, n), OnWay(link, sendQ, s, n), x.msg)
    BY <1>3, <1>5
  <1>7. OnWay(link', sendQ', s, n) = Tail(OnWay(link, sendQ, s, n))
    BY <1>6 DEF Gave, Dequeued
  <1>8. SameElsewhere(s, n)
    BY <1>5 DEF SameElsewhere
  <1>9. /\ Transit[<<s, n>>] = OnWay(link, sendQ, s, n)
        /\ Transit'[<<s, n>>] = OnWay(link', sendQ', s, n)
        /\ Transit' = [Transit EXCEPT ![<<s, n>>] = OnWay(link', sendQ', s, n)]
    BY <1>3, <1>8, OneTransit
  <1>10. Inbox' = [Inbox EXCEPT ![n] = Append(@, [src |-> s, msg |-> x.msg])]
    <2>1. Table(recvQ, Stop, For)
      BY DEF IInv
    <2>2. recvQ'[n] = Append(recvQ[n], x) /\ \A b \in Stop : b # n => recvQ'[b] = recvQ[b]
      BY <1>4, <2>1 DEF Table
    <2>3. recvQ[n] \in Seq(Data) /\ Inbox[n] = Sourced(recvQ[n])
      BY InboxIs
    <2>4. Sourced(recvQ'[n]) = Append(Inbox[n], [src |-> s, msg |-> x.msg])
      BY <1>2, <2>2, <2>3, SourcedEnq
    <2>5. \A b \in Stop : b # n => Sourced(recvQ'[b]) = Sourced(recvQ[b])
      BY <2>2
    <2>6. Inbox' = [b \in Stop |-> Sourced(recvQ'[b])] /\ Inbox = [b \in Stop |-> Sourced(recvQ[b])]
      BY DEF Inbox
    <2>7. QED
      BY <2>4, <2>5, <2>6
  <1>11. Delivered(s, n, x.msg)
    BY <1>3, <1>6, <1>7, <1>9, <1>10 DEF Delivered
  <1>12. QED
    BY <1>3, <1>11 DEF x

Entered(s, d, m) ==
  /\ <<s, d>> \in Traffic
  /\ Transit' = [Transit EXCEPT ![<<s, d>>] = Append(@, m)] /\ Inbox' = Inbox

LEMMA EnqImpl ==
  ASSUME IInv, NEW n \in Stop, NEW e \in Stop, NEW m \in Msg, Enq(n, e, m)
  PROVE  Entered(n, e, m)
  <1>1. <<n, e>> \in Traffic /\ Inbox' = Inbox
    BY DEF Enq, Inbox
  <1>2. \A s, d \in Stop : IF n = s /\ e = d
                           THEN Enqueued(OnWay(link', sendQ', s, d), OnWay(link, sendQ, s, d), m)
                           ELSE OnWay(link', sendQ', s, d) = OnWay(link, sendQ, s, d)
    BY EnqOnWay
  <1>3. OnWay(link', sendQ', n, e) = Append(OnWay(link, sendQ, n, e), m)
    BY <1>2 DEF Enqueued
  <1>4. SameElsewhere(n, e)
    BY <1>2 DEF SameElsewhere
  <1>5. /\ Transit[<<n, e>>] = OnWay(link, sendQ, n, e)
        /\ Transit' = [Transit EXCEPT ![<<n, e>>] = OnWay(link', sendQ', n, e)]
    BY <1>1, <1>4, OneTransit
  <1>6. QED
    BY <1>1, <1>3, <1>5 DEF Entered

Taken(n) ==
  /\ Inbox[n] # << >> /\ Transit' = Transit
  /\ Inbox' = [Inbox EXCEPT ![n] = Tail(@)]

LEMMA DeqImpl ==
  ASSUME IInv, NEW n \in Stop, Deq(n)
  PROVE  Taken(n)
  <1>1. recvQ[n] # << >> /\ recvQ' = [recvQ EXCEPT ![n] = Tail(@)]
    BY DEF Deq
  <1>2. Transit' = Transit
    BY TransitIs DEF Deq
  <1>3. Table(recvQ, Stop, For)
    BY DEF IInv
  <1>4. recvQ'[n] = Tail(recvQ[n]) /\ \A b \in Stop : b # n => recvQ'[b] = recvQ[b]
    BY <1>1, <1>3 DEF Table
  <1>5. recvQ[n] \in Seq(Data) /\ Inbox[n] = Sourced(recvQ[n])
    BY InboxIs
  <1>6. Sourced(recvQ[n]) # << >> /\ Sourced(Tail(recvQ[n])) = Tail(Sourced(recvQ[n]))
    BY <1>1, <1>5, SourcedDeq
  <1>7. Inbox' = [b \in Stop |-> Sourced(recvQ'[b])] /\ Inbox = [b \in Stop |-> Sourced(recvQ[b])]
    BY DEF Inbox
  <1>8. \A b \in Stop : b # n => Sourced(recvQ'[b]) = Sourced(recvQ[b])
    BY <1>4
  <1>9. Sourced(recvQ'[n]) = Tail(Inbox[n])
    BY <1>4, <1>5, <1>6
  <1>10. QED
    BY <1>2, <1>5, <1>6, <1>7, <1>8, <1>9 DEF Taken
-----------------------------------------------------------------------------
(* The ring refines the reliable network. *)
LEMMA OnWayType ==
  ASSUME IInv, NEW s \in Stop, NEW d \in Stop
  PROVE  OnWay(link, sendQ, s, d) \in Seq(Msg)
  <1>1. /\ N \in Nat \ {0} /\ s \in RingOf(N) /\ d \in RingOf(N) /\ Says(Of(s, d), Msg)
        /\ Fifos(link, RingOf(N), Data) /\ Fifos(sendQ, RingOf(N), Data)
    BY RingIs, AreFifos, OfIs
  <1>2. QED
    BY <1>1, RingLine DEF OnWay

LEMMA NetInit == Init => Net!Init
  <1> SUFFICES ASSUME Init PROVE Net!Init
    OBVIOUS
  <1>1. IInv
    BY IInvInit
  <1>2. ASSUME NEW s \in Stop, NEW d \in Stop
        PROVE  OnWay(link, sendQ, s, d) = << >>
    <2>1. /\ N \in Nat \ {0} /\ s \in RingOf(N) /\ d \in RingOf(N) /\ Says(Of(s, d), Msg)
          /\ Fifos(link, RingOf(N), Data) /\ Fifos(sendQ, RingOf(N), Data)
      BY <1>1, RingIs, AreFifos, OfIs
    <2>2. \A n \in RingOf(N) : Free(link[n], Of(s, d)) /\ Free(sendQ[n], Of(s, d))
      <3>1. \A T : Free(<< >>, T)
        BY DEF Free
      <3>2. \A n \in RingOf(N) : link[n] = << >> /\ sendQ[n] = << >>
        BY RingIs DEF Init
      <3>3. QED
        BY <3>1, <3>2
    <2>3. QED
      BY <2>1, <2>2, RingLine DEF OnWay
  <1>3. \A p \in Traffic : p[1] \in Stop /\ p[2] \in Stop
    BY AddrRingAssumption
  <1>4. Transit = [p \in Traffic |-> << >>]
    BY <1>2, <1>3, TransitIs
  <1>5. Inbox = [n \in Stop |-> << >>]
    <2>1. ASSUME NEW n \in Stop PROVE Sourced(recvQ[n]) = << >>
      <3>1. recvQ[n] \in Seq(Data) /\ recvQ[n] = << >>
        BY <1>1, InboxIs DEF Init
      <3>2. QED
        BY <3>1, SourcedIs
    <2>2. QED
      BY <2>1 DEF Inbox
  <1>6. QED
    BY <1>4, <1>5 DEF Net!Init, Transit, Inbox, Sourced

LEMMA NetDeliver ==
  ASSUME NEW s \in Stop, NEW d \in Stop, NEW m \in Msg, Delivered(s, d, m)
  PROVE  Net!Next
  <1>1. /\ <<s, d>> \in Traffic /\ Transit[<<s, d>>] # << >> /\ Head(Transit[<<s, d>>]) = m
        /\ Transit' = [Transit EXCEPT ![<<s, d>>] = Tail(@)]
        /\ Inbox' = [Inbox EXCEPT ![d] = Append(@, [src |-> s, msg |-> m])]
    BY DEF Delivered, Gave
  <1>2. Net!Deliver(s, d)
    BY <1>1 DEF Net!Deliver, Net!Received, Transit, Inbox, Sourced
  <1>3. \E p \in Traffic : p = <<s, d>> /\ Net!Deliver(p[1], p[2])
    BY <1>1, <1>2
  <1>4. QED
    BY <1>3 DEF Net!Next

LEMMA NetEnq ==
  ASSUME NEW s \in Stop, NEW d \in Stop, NEW m \in Msg, Entered(s, d, m)
  PROVE  Net!Next
  <1>1. <<s, d>> \in Traffic /\ Net!Enq(s, d, m)
    BY DEF Entered, Net!Enq, Transit, Inbox, Sourced
  <1>2. \E p \in Traffic : p = <<s, d>> /\ Net!Enq(p[1], p[2], m)
    BY <1>1
  <1>3. QED
    BY <1>2 DEF Net!Next

LEMMA NetDeq ==
  ASSUME NEW n \in Stop, Taken(n)
  PROVE  Net!Next
  <1>1. Net!Deq(n)
    BY DEF Taken, Net!Deq, Transit, Inbox, Sourced
  <1>2. QED
    BY <1>1 DEF Net!Next

LEMMA NetSame ==
  ASSUME Transit' = Transit, Inbox' = Inbox
  PROVE  UNCHANGED Net!vars
  BY DEF Net!vars, Transit, Inbox, Sourced

LEMMA NetStep == IInv /\ [Next]_vars => [Net!Next]_(Net!vars)
  <1> SUFFICES ASSUME IInv, [Next]_vars PROVE Net!Next \/ UNCHANGED Net!vars
    OBVIOUS
  <1>1. ASSUME NEW n \in Stop, RecvFromRing(n) PROVE Net!Next
    <2> DEFINE x == Head(In(n))
    <2>1. x.src \in Stop /\ x.msg \in Msg /\ Delivered(x.src, n, x.msg)
      BY <1>1, RecvImpl
    <2> HIDE DEF x
    <2>2. QED
      BY <2>1, NetDeliver
  <1>2. ASSUME NEW n \in Stop, SendToRing(n) PROVE UNCHANGED Net!vars
    BY <1>2, SendImpl, NetSame
  <1>3. ASSUME NEW n \in Stop, ForwardOnRing(n) PROVE UNCHANGED Net!vars
    BY <1>3, ForwardImpl, NetSame
  <1>4. ASSUME NEW n \in Stop, Deq(n) PROVE Net!Next
    BY <1>4, DeqImpl, NetDeq
  <1>5. ASSUME NEW n \in Stop, NEW d \in Stop, NEW m \in Msg, Enq(n, d, m) PROVE Net!Next
    BY <1>5, EnqImpl, NetEnq
  <1>6. CASE SendAll
    BY <1>6, SendAllImpl, NetSame
  <1>7. CASE UNCHANGED vars
    <2>1. Transit' = Transit /\ Inbox' = Inbox
      BY <1>7, TransitIs DEF vars, Inbox
    <2>2. QED
      BY <2>1, NetSame
  <1>8. QED
    BY <1>1, <1>2, <1>3, <1>4, <1>5, <1>6, <1>7 DEF Next

(* Whatever its traffic and its arbiters, the ring loses, doubles and      *)
(* misdelivers nothing and keeps the order of every source.                *)
THEOREM AddrRingIsNet == Spec => Net!Spec
<1>1. QED
  BY AddrRingInvariant, NetInit, NetStep, PTL DEF Spec, Net!Spec
-----------------------------------------------------------------------------
(* Seen by source, the reliable network is one queue for each pair of      *)
(* stops.                                                                  *)
Report(s) == [src : {s}, msg : Msg]
Reports   == [src : Stop, msg : Msg]
Chan      == [p \in Traffic |-> Cat(Msgs(Inbox[p[2]], Report(p[1])), Transit[p])]

LEMMA ReportIs ==
  ASSUME NEW s \in Stop
  PROVE  /\ Says(Report(s), Msg)
         /\ \A x \in Reports : x \in Report(s) <=> x.src = s
  BY DEF Says, Report, Reports

LEMMA MappedType ==
  ASSUME IInv
  PROVE  /\ Inbox \in [Stop -> Seq(Reports)] /\ Transit \in [Traffic -> Seq(Msg)]
         /\ \A p \in Traffic : p[1] \in Stop /\ p[2] \in Stop /\ p = <<p[1], p[2]>>
  <1>1. \A p \in Traffic : p[1] \in Stop /\ p[2] \in Stop /\ p = <<p[1], p[2]>>
    BY AddrRingAssumption
  <1>2. Transit \in [Traffic -> Seq(Msg)]
    BY <1>1, OnWayType, TransitIs
  <1>3. ASSUME NEW n \in Stop PROVE Sourced(recvQ[n]) \in Seq(Reports)
    <2>1. Sourced(recvQ[n]) \in Seq({[src |-> x.src, msg |-> x.msg] : x \in Data})
      BY InboxIs, SourcedIs
    <2>2. {[src |-> x.src, msg |-> x.msg] : x \in Data} \subseteq Reports
      BY DEF Data, Reports
    <2>3. QED
      BY <2>1, <2>2, SeqSubset
  <1>4. Inbox \in [Stop -> Seq(Reports)]
    BY <1>3 DEF Inbox
  <1>5. QED
    BY <1>1, <1>2, <1>4

(* The pairs of the channels, and what is in one of them.                  *)
LEMMA ChanType ==
  ASSUME IInv, NEW p \in Traffic
  PROVE  /\ Inbox[p[2]] \in Seq(Reports) /\ Says(Report(p[1]), Msg)
         /\ Msgs(Inbox[p[2]], Report(p[1])) \in Seq(Msg) /\ Transit[p] \in Seq(Msg)
         /\ Chan[p] = Cat(Msgs(Inbox[p[2]], Report(p[1])), Transit[p])
  <1>1. p[1] \in Stop /\ p[2] \in Stop /\ Inbox[p[2]] \in Seq(Reports) /\ Transit[p] \in Seq(Msg)
    BY MappedType
  <1>2. Says(Report(p[1]), Msg)
    BY <1>1, ReportIs
  <1>3. Msgs(Inbox[p[2]], Report(p[1])) \in Seq(Msg)
    BY <1>1, <1>2, MsgsDef
  <1>4. QED
    BY <1>1, <1>2, <1>3 DEF Chan

(* A delivery does not show.                                               *)
LEMMA ChanDeliver ==
  ASSUME IInv, NEW s \in Stop, NEW d \in Stop, NEW m \in Msg, Delivered(s, d, m)
  PROVE  Chan' = Chan
  <1> DEFINE r == [src |-> s, msg |-> m]
  <1>1. r \in Reports /\ r.src = s /\ r.msg = m
    BY DEF Reports
  <1>2. /\ <<s, d>> \in Traffic /\ Transit[<<s, d>>] # << >> /\ Head(Transit[<<s, d>>]) = m
        /\ Transit' = [Transit EXCEPT ![<<s, d>>] = Tail(@)]
        /\ Inbox' = [Inbox EXCEPT ![d] = Append(@, r)]
    BY DEF Delivered, Gave
  <1> HIDE DEF r
  <1>3. ASSUME NEW p \in Traffic
        PROVE  Cat(Msgs(Inbox'[p[2]], Report(p[1])), Transit'[p])
                 = Cat(Msgs(Inbox[p[2]], Report(p[1])), Transit[p])
    <2> DEFINE R == Report(p[1])
               I == Inbox[p[2]]
               B == Transit[p]
    <2>1. p[1] \in Stop /\ p[2] \in Stop /\ p = <<p[1], p[2]>>
      BY MappedType
    <2>2. I \in Seq(Reports) /\ Says(R, Msg) /\ Msgs(I, R) \in Seq(Msg) /\ B \in Seq(Msg)
      BY ChanType
    <2>3. r \in R <=> p[1] = s
      BY <1>1, <2>1, ReportIs
    <2>4. Inbox'[p[2]] = IF p[2] = d THEN Append(I, r) ELSE I
      BY <1>2, <2>1, MappedType
    <2>5. Transit'[p] = IF p = <<s, d>> THEN Tail(B) ELSE B
      BY <1>2, MappedType
    <2>6. Msgs(Append(I, r), R) = IF r \in R THEN Append(Msgs(I, R), m) ELSE Msgs(I, R)
      <3>1. I \in Seq(Reports) /\ Says(R, Msg) /\ r \in Reports
        BY <1>1, <2>2
      <3> HIDE DEF I, R
      <3>2. Msgs(Append(I, r), R) = IF r \in R THEN Append(Msgs(I, R), r.msg) ELSE Msgs(I, R)
        BY ONLY <3>1, MsgsPush
      <3>3. QED
        BY <1>1, <3>2
    <2>7. CASE p = <<s, d>>
      <3>1. p[1] = s /\ p[2] = d /\ B # << >> /\ Head(B) = m
        BY <1>2, <2>7
      <3> HIDE DEF I, B, R
      <3>2. Msgs(Inbox'[p[2]], R) = Append(Msgs(I, R), Head(B)) /\ Transit'[p] = Tail(B)
        BY <2>3, <2>4, <2>5, <2>6, <2>7, <3>1
      <3>3. Cat(Append(Msgs(I, R), Head(B)), Tail(B)) = Cat(Msgs(I, R), B)
        BY <2>2, <3>1, HandOver
      <3>4. QED
        BY <3>2, <3>3 DEF I, B, R
    <2>8. CASE p # <<s, d>>
      <3>1. ~(p[1] = s /\ p[2] = d)
        BY <2>1, <2>8
      <3> HIDE DEF I, B, R
      <3>2. Msgs(Inbox'[p[2]], R) = Msgs(I, R) /\ Transit'[p] = B
        BY <2>3, <2>4, <2>5, <2>6, <2>8, <3>1
      <3>3. QED
        BY <3>2 DEF I, B, R
    <2>9. QED
      BY <2>7, <2>8
  <1>4. QED
    BY <1>3 DEF Chan

LEMMA ChanEnq ==
  ASSUME IInv, NEW s \in Stop, NEW d \in Stop, NEW m \in Msg, Entered(s, d, m)
  PROVE  <<s, d>> \in Traffic /\ Chan' = [Chan EXCEPT ![<<s, d>>] = Append(@, m)]
  <1> DEFINE e == <<s, d>>
  <1>1. e \in Traffic /\ Transit' = [Transit EXCEPT ![e] = Append(@, m)] /\ Inbox' = Inbox
    BY DEF Entered
  <1> HIDE DEF e
  <1>2. \A p \in Traffic : Transit'[p] = IF p = e THEN Append(Transit[p], m) ELSE Transit[p]
    BY <1>1, MappedType
  <1>3. Cat(Msgs(Inbox[e[2]], Report(e[1])), Append(Transit[e], m)) = Append(Chan[e], m)
    <2> DEFINE A == Msgs(Inbox[e[2]], Report(e[1]))
               B == Transit[e]
               o == << m >>
               C == Append(B, m)
    <2>1. A \in Seq(Msg) /\ B \in Seq(Msg) /\ Chan[e] = Cat(A, B) /\ o \in Seq(Msg)
      BY <1>1, ChanType
    <2> HIDE DEF A, B
    <2>2. C = Cat(B, o) /\ Cat(A, B) \in Seq(Msg)
      BY <2>1, CatAppend, CatType
    <2>3. Append(Cat(A, B), m) = Cat(Cat(A, B), o)
      BY <2>2, CatAppend
    <2> HIDE DEF o, C
    <2>4. Cat(Cat(A, B), o) = Cat(A, Cat(B, o))
      BY <2>1, CatAssociative
    <2>5. Cat(A, C) = Append(Chan[e], m)
      BY ONLY <2>1, <2>2, <2>3, <2>4
    <2>6. QED
      BY ONLY <2>5 DEF A, B, C
  <1>4. Chan' = [p \in Traffic |-> Cat(Msgs(Inbox[p[2]], Report(p[1])), Transit'[p])]
    BY <1>1 DEF Chan
  <1>5. \A p \in Traffic : Chan[p] = Cat(Msgs(Inbox[p[2]], Report(p[1])), Transit[p])
    BY DEF Chan
  <1>6. DOMAIN Chan = Traffic /\ Chan = [p \in Traffic |-> Chan[p]]
    BY DEF Chan
  <1> HIDE DEF Chan
  <1>7. ASSUME NEW p \in Traffic
        PROVE  Cat(Msgs(Inbox[p[2]], Report(p[1])), Transit'[p])
                 = IF p = e THEN Append(Chan[e], m) ELSE Chan[p]
    <2>1. CASE p = e
      BY <1>2, <1>3, <2>1
    <2>2. CASE p # e
      <3>1. Transit'[p] = Transit[p]
        BY <1>2, <2>2
      <3> QED
        BY <1>5, <2>2, <3>1
    <2> QED
      BY <2>1, <2>2
  <1>8. Chan' = [p \in Traffic |-> IF p = e THEN Append(Chan[e], m) ELSE Chan[p]]
    BY <1>4, <1>7
  <1>9. Chan' = [Chan EXCEPT ![e] = Append(@, m)]
    BY <1>1, <1>6, <1>8
  <1>10. QED
    BY <1>1, <1>9 DEF e

(* deq takes the oldest message of its source.                             *)
LEMMA ChanDeq ==
  ASSUME IInv, NEW n \in Stop, Deq(n)
  PROVE  \E p \in Traffic : Chan[p] # << >> /\ Chan' = [Chan EXCEPT ![p] = Tail(@)]
  <1> DEFINE x == Head(recvQ[n])
             s == x.src
             e == <<s, n>>
             r == Head(Inbox[n])
  <1>1. recvQ[n] # << >> /\ recvQ[n] \in Seq(For[n])
    BY DEF Deq, IInv, Table
  <1>2. x \in For[n] /\ x \in Data
    BY <1>1, DeqType, Typed
  <1>3. s \in Stop /\ e \in Traffic
    BY <1>2, MayBe
  <1>4. r.src = s
    <2>1. recvQ[n] \in Seq(Data) /\ Inbox[n] = Sourced(recvQ[n])
      BY InboxIs
    <2>2. Head(Sourced(recvQ[n])) = [src |-> s, msg |-> x.msg]
      BY <1>1, <2>1, SourcedDeq
    <2>3. QED
      BY <2>1, <2>2
  <1> HIDE DEF x, s
  <1>5. Inbox[n] # << >> /\ Transit' = Transit /\ Inbox' = [Inbox EXCEPT ![n] = Tail(@)]
    BY DeqImpl DEF Taken
  <1>6. Inbox[n] \in Seq(Reports) /\ r \in Reports
    BY <1>5, MappedType, DeqType
  <1> HIDE DEF r
  <1>7. ASSUME NEW p \in Traffic
        PROVE  IF p = e THEN Chan[p] # << >> /\ Chan'[p] = Tail(Chan[p])
                        ELSE Chan'[p] = Chan[p]
    <2> DEFINE R == Report(p[1])
               I == Inbox[p[2]]
               B == Transit[p]
    <2>1. p[1] \in Stop /\ p[2] \in Stop /\ p = <<p[1], p[2]>>
      BY MappedType
    <2>2. I \in Seq(Reports) /\ Says(R, Msg) /\ Msgs(I, R) \in Seq(Msg) /\ B \in Seq(Msg)
      BY ChanType
    <2>3. r \in R <=> p[1] = s
      BY <1>4, <1>6, <2>1, ReportIs
    <2>4. Inbox'[p[2]] = IF p[2] = n THEN Tail(I) ELSE I
      BY <1>5, <2>1, MappedType
    <2>5. p[2] = n => I # << >> /\ Head(I) = r
      BY <1>5 DEF r
    <2>6. Chan[p] = Cat(Msgs(I, R), B) /\ Chan'[p] = Cat(Msgs(Inbox'[p[2]], R), B)
      BY <1>5 DEF Chan
    <2> HIDE DEF I, R, B
    <2>7. CASE p[2] = n /\ p[1] = s
      <3>1. I # << >> /\ Head(I) \in R
        BY <2>3, <2>5, <2>7
      <3>2. Msgs(I, R) # << >> /\ Msgs(Tail(I), R) = Tail(Msgs(I, R))
        BY <2>2, <3>1, MsgsHead
      <3>3. /\ Cat(Msgs(I, R), B) # << >>
            /\ Tail(Cat(Msgs(I, R), B)) = Cat(Tail(Msgs(I, R)), B)
        BY <2>2, <3>2, TailOfJoin
      <3>4. p = e
        BY <2>1, <2>7
      <3>5. QED
        BY <2>4, <2>6, <2>7, <3>2, <3>3, <3>4
    <2>8. CASE p[2] = n /\ p[1] # s
      <3>1. I # << >> /\ Head(I) \notin R
        BY <2>3, <2>5, <2>8
      <3>2. Msgs(Tail(I), R) = Msgs(I, R)
        BY <2>2, <3>1, MsgsSkip
      <3>3. p # e
        BY <2>8
      <3>4. QED
        BY <2>4, <2>6, <2>8, <3>2, <3>3
    <2>9. CASE p[2] # n
      <3>1. p # e
        BY <2>9
      <3>2. QED
        BY <2>4, <2>6, <2>9, <3>1
    <2>10. QED
      BY <2>7, <2>8, <2>9
  <1>8. DOMAIN Chan = Traffic /\ Chan = [p \in Traffic |-> Chan[p]]
        /\ Chan' = [p \in Traffic |-> Chan'[p]]
    BY DEF Chan
  <1> HIDE DEF e, Chan
  <1>9. Chan[e] # << >> /\ Chan' = [Chan EXCEPT ![e] = Tail(@)]
    BY <1>3, <1>7, <1>8
  <1>10. QED
    BY <1>3, <1>9

LEMMA ChannelsChan ==
  /\ Chan = [p \in Traffic |-> Net!FromTo(p[1], p[2])]
  /\ Chan' = [p \in Traffic |-> Net!FromTo(p[1], p[2])']
  <1>1. \A p \in Traffic : p = <<p[1], p[2]>>
    BY AddrRingAssumption
  <1>2. \A p \in Traffic : Cat(Msgs(Inbox[p[2]], Report(p[1])), Transit[p]) = Net!FromTo(p[1], p[2])
    BY <1>1 DEF Cat, Report, Inbox, Sourced, Transit, Net!FromTo, Net!Msgs, Net!Joined, Net!Said,
                Msgs, Joined, Said
  <1>3. \A p \in Traffic : Cat(Msgs(Inbox'[p[2]], Report(p[1])), Transit'[p]) = Net!FromTo(p[1], p[2])'
    BY <1>1 DEF Cat, Report, Inbox, Sourced, Transit, Net!FromTo, Net!Msgs, Net!Joined, Net!Said,
                Msgs, Joined, Said
  <1>4. QED
    BY <1>2, <1>3 DEF Chan

LEMMA ChannelsInit == Init => Net!Channels!Init
  <1> SUFFICES ASSUME Init PROVE Net!Channels!Init
    OBVIOUS
  <1>1. IInv /\ Net!Init
    BY IInvInit, NetInit
  <1>2. Transit = [p \in Traffic |-> << >>] /\ Inbox = [n \in Stop |-> << >>]
    BY <1>1 DEF Net!Init, Transit, Inbox, Sourced
  <1>3. ASSUME NEW p \in Traffic PROVE Chan[p] = << >>
    <2> DEFINE R == Report(p[1])
               I == Inbox[p[2]]
               B == Transit[p]
               e == << >>
    <2>1. I = e /\ B = e /\ e \in Seq(Msg)
      BY <1>1, <1>2, MappedType
    <2>2. I \in Seq(Reports) /\ Says(R, Msg) /\ Chan[p] = Cat(Msgs(I, R), B)
      BY <1>1, ChanType
    <2> HIDE DEF R, I, B
    <2>3. Msgs(I, R) = e
      BY <2>1, <2>2, MsgsDef
    <2>4. Cat(e, e) = e
      BY <2>1, CatEmpty
    <2>5. QED
      BY <2>1, <2>2, <2>3, <2>4
  <1>4. Chan = [p \in Traffic |-> << >>]
    BY <1>3 DEF Chan
  <1>5. QED
    BY <1>4, ChannelsChan DEF Net!Channels!Init

LEMMA ChannelsStep == IInv /\ [Next]_vars => [Net!Channels!Next]_[p \in Traffic |-> Net!FromTo(p[1], p[2])]
  <1> SUFFICES ASSUME IInv, [Next]_vars PROVE Net!Channels!Next \/ Chan' = Chan
    BY ChannelsChan
  <1>1. ASSUME Transit' = Transit, Inbox' = Inbox PROVE Chan' = Chan
    BY <1>1 DEF Chan
  <1>2. ASSUME NEW n \in Stop, RecvFromRing(n) PROVE Chan' = Chan
    <2> DEFINE x == Head(In(n))
    <2>1. x.src \in Stop /\ x.msg \in Msg /\ Delivered(x.src, n, x.msg)
      BY <1>2, RecvImpl
    <2> HIDE DEF x
    <2>2. QED
      BY <2>1, ChanDeliver
  <1>3. ASSUME NEW n \in Stop, SendToRing(n) PROVE Chan' = Chan
    BY <1>1, <1>3, SendImpl
  <1>4. ASSUME NEW n \in Stop, ForwardOnRing(n) PROVE Chan' = Chan
    BY <1>1, <1>4, ForwardImpl
  <1>5. ASSUME NEW n \in Stop, Deq(n) PROVE Net!Channels!Next
    <2>1. PICK p \in Traffic : Chan[p] # << >> /\ Chan' = [Chan EXCEPT ![p] = Tail(@)]
      BY <1>5, ChanDeq
    <2>2. p = <<p[1], p[2]>>
      BY MappedType
    <2>3. Net!Channels!Deq(p[1], p[2])
      BY <2>1, <2>2, ChannelsChan DEF Net!Channels!Deq, Net!Channels!CanDeq
    <2>4. QED
      BY <2>3 DEF Net!Channels!Next
  <1>6. ASSUME NEW n \in Stop, NEW d \in Stop, NEW m \in Msg, Enq(n, d, m) PROVE Net!Channels!Next
    <2> DEFINE p == <<n, d>>
    <2>1. p \in Traffic /\ Chan' = [Chan EXCEPT ![p] = Append(@, m)]
      BY <1>6, EnqImpl, ChanEnq
    <2>2. p[1] = n /\ p[2] = d
      OBVIOUS
    <2>3. Net!Channels!Enq(p[1], p[2], m)
      BY <2>1, <2>2, ChannelsChan DEF Net!Channels!Enq
    <2> HIDE DEF p
    <2>4. QED
      BY <2>1, <2>3 DEF Net!Channels!Next
  <1>7. CASE SendAll
    BY <1>1, <1>7, SendAllImpl
  <1>8. CASE UNCHANGED vars
    <2>1. Transit' = Transit /\ Inbox' = Inbox
      BY <1>8, TransitIs DEF vars, Inbox
    <2>2. QED
      BY <1>1, <2>1
  <1>9. QED
    BY <1>2, <1>3, <1>4, <1>5, <1>6, <1>7, <1>8 DEF Next

(* The services that stand on the ring see one queue for each pair of      *)
(* stops: a run checks this and the reliable network as ImplementsRingNet. *)
THEOREM AddrRingImplements == Spec => ImplementsRingNet
<1>1. Spec => Net!Channels!Spec
  BY AddrRingInvariant, ChannelsInit, ChannelsStep, PTL DEF Spec, Net!Channels!Spec
<1>2. QED
  BY <1>1, AddrRingIsNet DEF ImplementsRingNet, Net!ImplementsAddrNet
-----------------------------------------------------------------------------
(***************************************************************************)
(* The initialization of the ring (RingInit), for every assignment of      *)
(* static IDs: the IDs are unique, a stop that is done knows the largest   *)
(* one, the primary is done last, and data never gets mixed up with the    *)
(* token.                                                                  *)
(*                                                                         *)
(* The invariant says how far the token is.  It has just been sent by stop *)
(* k: the stops up to k have seen it in this round, those after k have     *)
(* not, and only stops that are done may have put data behind it.          *)
(***************************************************************************)
IsData(q)     == \A i \in DOMAIN q : q[i].kind = "data"
TokenFirst(q) == q # << >> /\ Head(q).kind = "token" /\ IsData(Tail(q))

(* The phases ph and the flags done of all stops when k is the last to     *)
(* have sent the token.                                                    *)
Frontier(ph, done, k) ==
  /\ ph[Primary] \in 1 .. 3
  /\ \A n \in Stop : ph[n] = IF n <= k THEN ph[Primary] ELSE ph[Primary] - 1
  /\ \A n \in Stop : done[n] <=> n # Primary /\ ph[n] = 3

(* What is on the links L then. *)
OnLinks(L, done, k) ==
  /\ TokenFirst(L[k])
  /\ \A n \in Stop : n # k => IsData(L[n])
  /\ \A n \in Stop : ~done[n] => IF n = k THEN Tail(L[n]) = << >> ELSE L[n] = << >>

LinkType(L) == /\ L \in [Stop -> Seq([kind : {"token", "data"}, id : NodeID])]
               /\ \A n \in Stop : Len(L[n]) <= LinkCap

(* The number on the token is the largest static ID of the stops up to k. *)
LargestStatic(id, k) ==
  /\ \A n \in Stop : n <= k /\ HasStatic(n) => staticID[n] <= id
  /\ \E n \in Stop : HasStatic(n) /\ staticID[n] = id

(* It is the largest ID handed out, and the dynamic ones are above the     *)
(* static ones.                                                            *)
Assigned(n) == initPhase[n] >= 2
LargestID(id) ==
  /\ \A n \in Stop : HasStatic(n) => staticID[n] <= id
  /\ \A n \in Stop : Assigned(n) /\ HasStatic(n) => myID[n] = staticID[n]
  /\ \A n \in Stop : Assigned(n) /\ ~HasStatic(n) =>
       /\ myID[n] <= id
       /\ \A m \in Stop : HasStatic(m) => staticID[m] < myID[n]
       /\ \A m \in Stop : Assigned(m) /\ ~HasStatic(m) /\ m # n => myID[m] # myID[n]
  /\ \E n \in Stop : (HasStatic(n) /\ staticID[n] = id) \/ (Assigned(n) /\ myID[n] = id)

Numbers(id, k) ==
  /\ initPhase[Primary] = 1 => LargestStatic(id, k)
  /\ initPhase[Primary] > 1 /\ ~ranOut => LargestID(id)
  /\ \A n \in Stop : initPhase[n] = 3 /\ ~ranOut => dynMaxID[n] = id

NotStarted == \A n \in Stop : initPhase[n] = 0 /\ ~initDone[n] /\ chain[n] = << >>
Running(k) == /\ Frontier(initPhase, initDone, k)
              /\ OnLinks(chain, initDone, k)
              /\ Numbers(Head(chain[k]).id, k)
Finished == /\ \A n \in Stop : initDone[n] /\ initPhase[n] = 3 /\ IsData(chain[n])
            /\ ~ranOut => \E id \in NodeID : LargestID(id) /\ \A n \in Stop : dynMaxID[n] = id

StartTyped == /\ staticID \in [Stop -> NodeID \cup {NoStatic}] /\ LegalStatic(staticID)
              /\ myID \in [Stop -> NodeID \cup {NoID}]
              /\ dynMaxID \in [Stop -> NodeID \cup {NoID}]
              /\ initPhase \in [Stop -> 0 .. 3]
              /\ initDone \in [Stop -> BOOLEAN]
              /\ ranOut \in BOOLEAN
              /\ LinkType(chain)

StartInv == StartTyped /\ (NotStarted \/ Finished \/ \E k \in Stop : Running(k))
-----------------------------------------------------------------------------
Message == [kind : {"token", "data"}, id : NodeID]

LEMMA Around ==
  /\ N \in Nat \ {0} /\ MaxBound \in Nat /\ LinkCap \in Nat \ {0}
  /\ Primary \in Stop /\ N - 1 \in Stop /\ Prev(Primary) = N - 1
  /\ \A n \in Stop : n \in Nat /\ n <= N - 1 /\ Prev(n) \in Stop
  /\ \A n \in Stop : n # Primary => n > 0 /\ Prev(n) = n - 1
  <1>1. N \in Nat \ {0} /\ MaxBound \in Nat /\ LinkCap \in Nat \ {0}
    BY RingAssumption, RingInitAssumption
  <1>2. QED
    BY <1>1 DEF Prev, Stop, Primary

(* Only the primary has the static ID 0. *)
LEMMA IsPrimary ==
  ASSUME StartTyped, NEW n \in Stop
  PROVE  /\ NodeIsPrimary(n) <=> n = Primary
         /\ HasStatic(Primary) /\ staticID[Primary] = 0
         /\ HasStatic(n) => staticID[n] \in NodeID
  <1>1. /\ staticID \in [Stop -> NodeID \cup {NoStatic}]
        /\ \A m \in Stop : (staticID[m] = 0) <=> (m = Primary)
    BY DEF StartTyped, LegalStatic
  <1>2. NoStatic # 0 /\ Primary \in Stop
    BY Around DEF NoStatic
  <1>3. QED
    BY <1>1, <1>2 DEF NodeIsPrimary, HasStatic

LEMMA SentType ==
  ASSUME NEW L, LinkType(L), NEW n \in Stop, NEW x \in Message, Len(L[n]) < LinkCap
  PROVE  LinkType(SendToNext(L, n, x))
  <1> DEFINE L2 == SendToNext(L, n, x)
  <1>1. L \in [Stop -> Seq(Message)] /\ L[n] \in Seq(Message)
    BY DEF LinkType, Message
  <1>2. /\ L2 \in [Stop -> Seq(Message)]
        /\ \A m \in Stop : L2[m] = IF m = n THEN Append(L[n], x) ELSE L[m]
    BY <1>1, EnqType DEF SendToNext
  <1>3. Len(Append(L[n], x)) = Len(L[n]) + 1 /\ Len(L[n]) \in Nat
    BY <1>1
  <1> HIDE DEF L2
  <1>4. \A m \in Stop : Len(L2[m]) <= LinkCap
    <2>1. TAKE m \in Stop
    <2>2. Len(L[m]) <= LinkCap
      BY DEF LinkType
    <2>3. Len(L2[m]) = IF m = n THEN Len(L[n]) + 1 ELSE Len(L[m])
      BY <1>2, <1>3
    <2>4. QED
      BY <1>3, <2>2, <2>3, Around
  <1>5. QED
    BY <1>2, <1>4 DEF LinkType, Message, L2

LEMMA TakenType ==
  ASSUME NEW L, LinkType(L), NEW n \in Stop, L[Prev(n)] # << >>
  PROVE  /\ LinkType(RecvFromPrev(L, n))
         /\ \A m \in Stop : Len(RecvFromPrev(L, n)[m]) <= Len(L[m])
         /\ \A m \in Stop : RecvFromPrev(L, n)[m] = IF m = Prev(n) THEN Tail(L[m]) ELSE L[m]
         /\ Head(L[Prev(n)]) \in Message
  <1> DEFINE L2 == RecvFromPrev(L, n)
             p == Prev(n)
  <1>1. /\ L \in [Stop -> Seq(Message)] /\ p \in Stop
        /\ L[p] \in Seq(Message) /\ L[p] # << >>
    BY Around DEF LinkType, Message
  <1>2. Head(L[p]) \in Message /\ Tail(L[p]) \in Seq(Message)
    BY <1>1, DeqType
  <1>3. /\ L2 \in [Stop -> Seq(Message)]
        /\ \A m \in Stop : L2[m] = IF m = p THEN Tail(L[m]) ELSE L[m]
    BY <1>1, <1>2 DEF RecvFromPrev
  <1>4. Len(Tail(L[p])) <= Len(L[p])
    BY <1>1
  <1>5. \A m \in Stop : Len(L[m]) \in Nat
    BY <1>1
  <1> HIDE DEF L2, p
  <1>6. \A m \in Stop : Len(L2[m]) <= Len(L[m])
    <2>1. TAKE m \in Stop
    <2>2. CASE m = p
      BY <1>3, <1>4, <2>2
    <2>3. CASE m # p
      BY <1>3, <1>5, <2>3
    <2>4. QED
      BY <2>2, <2>3
  <1>7. \A m \in Stop : Len(L2[m]) <= LinkCap
    <2>1. TAKE m \in Stop
    <2>2. Len(L[m]) <= LinkCap /\ Len(L2[m]) \in Nat
      BY <1>3 DEF LinkType
    <2>3. QED
      BY <1>5, <1>6, <2>2, Around
  <1>8. QED
    BY <1>2, <1>3, <1>6, <1>7 DEF LinkType, Message, L2, p

(* The frontier moves on by one stop, or begins the next round. *)
LEMMA FrontierMoves ==
  ASSUME NEW ph \in [Stop -> 0 .. 3], NEW done \in [Stop -> BOOLEAN],
         NEW k \in Stop, NEW n \in Stop, Frontier(ph, done, k),
         Prev(n) = k, ph[n] < 3,
         NEW b \in BOOLEAN, b <=> n # Primary /\ ph[n] = 2
  PROVE  Frontier([ph EXCEPT ![n] = @ + 1], [done EXCEPT ![n] = b], n)
  <1> DEFINE ph2 == [ph EXCEPT ![n] = @ + 1]
             done2 == [done EXCEPT ![n] = b]
  <1>1. /\ ph[Primary] \in 1 .. 3
        /\ \A m \in Stop : ph[m] = IF m <= k THEN ph[Primary] ELSE ph[Primary] - 1
        /\ \A m \in Stop : done[m] <=> m # Primary /\ ph[m] = 3
    BY DEF Frontier
  <1>2. /\ \A m \in Stop : ph2[m] = IF m = n THEN ph[m] + 1 ELSE ph[m]
        /\ \A m \in Stop : done2[m] <=> IF m = n THEN b ELSE done[m]
    OBVIOUS
  <1> HIDE DEF ph2, done2
  <1>3. \A m \in Stop : done2[m] <=> m # Primary /\ ph2[m] = 3
    <2>1. TAKE m \in Stop
    <2>2. ph[n] \in 0 .. 3
      OBVIOUS
    <2>3. QED
      BY <1>1, <1>2, <2>2
  <1>4. CASE n = Primary
    <2>1. k = N - 1 /\ \A m \in Stop : ph[m] = ph[Primary]
      BY <1>1, <1>4, Around
    <2>2. ph2[Primary] = ph[Primary] + 1 /\ ph[Primary] < 3
      BY <1>2, <1>4, Around
    <2>3. \A m \in Stop : m <= n <=> m = n
      BY <1>4, Around DEF Primary
    <2>4. \A m \in Stop : ph2[m] = IF m <= n THEN ph2[Primary] ELSE ph2[Primary] - 1
      BY <1>1, <1>2, <1>4, <2>1, <2>2, <2>3
    <2>5. Frontier(ph2, done2, n)
      BY <1>1, <1>3, <2>2, <2>4 DEF Frontier
    <2>6. QED
      BY <2>5 DEF ph2, done2
  <1>5. CASE n # Primary
    <2>1. n = k + 1
      BY <1>5, Around
    <2>2. ph[n] = ph[Primary] - 1
      BY <1>1, <2>1, Around
    <2>3. ph2[Primary] = ph[Primary]
      BY <1>2, <1>5, Around
    <2>4. \A m \in Stop : m <= n <=> m <= k \/ m = n
      BY <2>1, Around
    <2>5. \A m \in Stop : ph2[m] = IF m <= n THEN ph2[Primary] ELSE ph2[Primary] - 1
      BY <1>1, <1>2, <2>2, <2>3, <2>4
    <2>6. Frontier(ph2, done2, n)
      BY <1>1, <1>3, <2>3, <2>5 DEF Frontier
    <2>7. QED
      BY <2>6 DEF ph2, done2
  <1>6. QED
    BY <1>4, <1>5

(* A stop that is not done sees the token, one that is done only data. *)
LEMMA WhoSeesToken ==
  ASSUME NEW L, NEW ph, NEW done \in [Stop -> BOOLEAN], NEW k \in Stop,
         Frontier(ph, done, k), OnLinks(L, done, k),
         NEW n \in Stop, L[Prev(n)] # << >>
  PROVE  done[n] <=> Prev(n) # k
  <1> DEFINE p == Prev(n)
  <1>1. /\ ph[Primary] \in 1 .. 3
        /\ \A m \in Stop : ph[m] = IF m <= k THEN ph[Primary] ELSE ph[Primary] - 1
        /\ \A m \in Stop : done[m] <=> m # Primary /\ ph[m] = 3
    BY DEF Frontier
  <1>2. p \in Stop /\ L[p] # << >>
    BY Around
  <1>3. n # Primary => n = p + 1
    BY Around
  <1> HIDE DEF p
  <1>4. CASE p = k
    <2>1. n # Primary => ph[n] = ph[Primary] - 1
      BY <1>1, <1>3, <1>4, Around
    <2>2. QED
      BY <1>1, <1>4, <2>1 DEF p
  <1>5. CASE p # k
    <2>1. done[p]
      BY <1>2, <1>5 DEF OnLinks
    <2>2. p # Primary /\ ph[p] = 3
      BY <1>1, <1>2, <2>1
    <2>3. ph[Primary] = 3 /\ p <= k
      BY <1>1, <1>2, <2>2
    <2>4. p < N - 1
      BY <1>2, <1>5, <2>3, Around
    <2>5. n # Primary
      BY <2>4, Around DEF p
    <2>6. ph[n] = 3
      <3>1. n = p + 1 /\ p < k /\ p \in Nat /\ k \in Nat
        BY <1>2, <1>3, <1>5, <2>3, <2>5, Around
      <3>2. n <= k
        BY <3>1
      <3>3. QED
        BY <1>1, <2>3, <3>2
    <2>7. QED
      BY <1>1, <1>5, <2>5, <2>6 DEF p
  <1>6. QED
    BY <1>4, <1>5

(* The token goes from stop k to the next stop, which may be done then. *)
LEMMA TokenPasses ==
  ASSUME NEW L, LinkType(L), NEW done \in [Stop -> BOOLEAN], NEW n \in Stop,
         OnLinks(L, done, Prev(n)), ~done[n], Len(L[n]) < LinkCap,
         NEW id \in NodeID, NEW b \in BOOLEAN
  PROVE  LET L2 == SendToNext(RecvFromPrev(L, n), n, Token(id))
         IN  /\ LinkType(L2) /\ Head(L2[n]).id = id
             /\ OnLinks(L2, [done EXCEPT ![n] = b], n)
  <1> DEFINE L2 == SendToNext(RecvFromPrev(L, n), n, Token(id))
             done2 == [done EXCEPT ![n] = b]
             L1 == RecvFromPrev(L, n)
             t == Token(id)
  <1>1. t \in Message /\ t.kind = "token" /\ t.id = id
    BY DEF Token, Message
  <1>2. PICK k \in Stop : k = Prev(n) /\ OnLinks(L, done, k)
    BY Around
  <1>3. /\ L[k] # << >> /\ IsData(Tail(L[k]))
        /\ \A m \in Stop : m # k => IsData(L[m])
        /\ \A m \in Stop : ~done[m] => IF m = k THEN Tail(L[m]) = << >> ELSE L[m] = << >>
    BY <1>2 DEF OnLinks, TokenFirst
  <1>4. /\ LinkType(L1) /\ Len(L1[n]) <= Len(L[n])
        /\ \A m \in Stop : L1[m] = IF m = k THEN Tail(L[m]) ELSE L[m]
    BY <1>3, <1>2, TakenType
  <1>5. Len(L1[n]) < LinkCap
    <2>1. Len(L1[n]) \in Nat /\ Len(L[n]) \in Nat
      BY <1>4 DEF LinkType
    <2> HIDE DEF L1
    <2>2. QED
      BY <1>4, <2>1, Around
  <1>6. LinkType(L2)
    <2>1. LinkType(SendToNext(L1, n, t))
      <3> HIDE DEF L1, t
      <3>1. QED
        BY <1>1, <1>4, <1>5, SentType
    <2>2. QED
      BY <2>1
  <1>7. \A m \in Stop : L2[m] = IF m = n THEN Append(L1[n], t) ELSE L1[m]
    BY <1>4 DEF SendToNext, LinkType
  <1>8. L1[n] = << >>
    BY <1>3, <1>4, <1>2
  <1>9. L2[n] = << t >>
    BY <1>7, <1>8
  <1>10. Head(L2[n]) = t /\ Tail(L2[n]) = << >> /\ L2[n] # << >>
    BY <1>9
  <1>11. TokenFirst(L2[n])
    BY <1>1, <1>10 DEF TokenFirst, IsData
  <1> HIDE DEF L1, L2, t
  <1>12. \A m \in Stop : m # n => IsData(L2[m])
    BY <1>3, <1>4, <1>7
  <1>13. \A m \in Stop : ~done2[m] =>
           IF m = n THEN Tail(L2[m]) = << >> ELSE L2[m] = << >>
    <2>1. TAKE m \in Stop
    <2>2. CASE m = n
      BY <1>10, <2>2
    <2>3. CASE m # n
      <3>1. done2[m] <=> done[m]
        BY <2>3
      <3>2. L2[m] = IF m = k THEN Tail(L[m]) ELSE L[m]
        BY <1>4, <1>7, <2>3
      <3>3. QED
        BY <1>3, <2>3, <3>1, <3>2
    <2>4. QED
      BY <2>2, <2>3
  <1>14. QED
    BY <1>1, <1>6, <1>10, <1>11, <1>12, <1>13 DEF OnLinks, L2

(* A stop that waits sees nothing but the token, sent by its predecessor. *)
LEMMA StartWaiting ==
  ASSUME StartInv, NEW n \in Stop, NEW q \in 0 .. 3, InPhase(n, q), Arriving(n) # << >>
  PROVE  LET k == Prev(n)
             id == Head(Arriving(n)).id
         IN  /\ k \in Stop /\ Running(k) /\ id \in NodeID /\ id = Head(chain[k]).id
             /\ initPhase[n] = q /\ ~initDone[n]
             /\ n # Primary => initPhase[Primary] = q + 1 /\ n = k + 1
             /\ n = Primary => initPhase[Primary] = q /\ q > 0 /\ k = N - 1
  <1>1. initPhase[n] = q /\ ~initDone[n]
    BY DEF InPhase
  <1>2. StartTyped
    BY DEF StartInv
  <1>3. PICK k \in Stop : Running(k)
    <2>1. ~Finished
      BY <1>1 DEF Finished
    <2>2. ~NotStarted
      BY Around DEF NotStarted, Arriving
    <2>3. QED
      BY <2>1, <2>2 DEF StartInv
  <1>4. Frontier(initPhase, initDone, k) /\ OnLinks(chain, initDone, k)
    BY <1>3 DEF Running
  <1>5. Prev(n) = k
    BY <1>1, <1>2, <1>4, WhoSeesToken DEF Arriving, StartTyped
  <1>6. Head(Arriving(n)).id \in NodeID
    <2>1. Head(chain[Prev(n)]) \in Message
      BY <1>2, TakenType DEF Arriving, StartTyped
    <2>2. QED
      BY <2>1 DEF Arriving, Message
  <1>7. /\ initPhase[Primary] \in 1 .. 3
        /\ initPhase[n] = IF n <= k THEN initPhase[Primary] ELSE initPhase[Primary] - 1
    BY <1>4 DEF Frontier
  <1>8. n # Primary => n = k + 1
    BY <1>5, Around
  <1>9. n # Primary => initPhase[Primary] = q + 1
    <2>1. n # Primary => ~(n <= k)
      BY <1>8, Around
    <2>2. n # Primary => initPhase[n] = initPhase[Primary] - 1
      BY <1>7, <2>1
    <2>3. initPhase[Primary] \in Nat
      BY <1>7
    <2>4. QED
      BY <1>1, <2>2, <2>3
  <1>10. n = Primary => initPhase[Primary] = q /\ q > 0
    BY <1>1, <1>7
  <1>11. n = Primary => k = N - 1
    BY <1>5, Around
  <1>12. QED
    BY <1>1, <1>3, <1>5, <1>6, <1>8, <1>9, <1>10, <1>11 DEF Arriving

(* Every rule that takes the token and sends it on moves the frontier; what *)
(* is left to show is what the token's new number says.                    *)
Relayed(n, q, id) ==
  /\ InPhase(n, q) /\ Arriving(n) # << >> /\ Len(chain[n]) < LinkCap
  /\ chain' = SendToNext(RecvFromPrev(chain, n), n, Token(id))
  /\ initPhase' = [initPhase EXCEPT ![n] = @ + 1]
  /\ initDone' = [initDone EXCEPT ![n] = n # Primary /\ initPhase[n] = 2]
  /\ staticID' = staticID

LEMMA RelayInv ==
  ASSUME StartInv, NEW n \in Stop, NEW q \in 0 .. 2, NEW id \in NodeID, Relayed(n, q, id),
         Numbers(id, n)',
         myID' \in [Stop -> NodeID \cup {NoID}],
         dynMaxID' \in [Stop -> NodeID \cup {NoID}],
         ranOut' \in BOOLEAN
  PROVE  StartInv'
  <1> DEFINE k == Prev(n)
  <1>1. /\ k \in Stop /\ Running(k) /\ initPhase[n] = q /\ ~initDone[n]
    BY StartWaiting DEF Relayed
  <1>2. Frontier(initPhase, initDone, k) /\ OnLinks(chain, initDone, k)
    BY <1>1 DEF Running
  <1>3. /\ initPhase \in [Stop -> 0 .. 3] /\ initDone \in [Stop -> BOOLEAN]
        /\ LinkType(chain) /\ staticID \in [Stop -> NodeID \cup {NoStatic}]
        /\ LegalStatic(staticID)
    BY DEF StartInv, StartTyped
  <1>4. /\ Len(chain[n]) < LinkCap
        /\ chain' = SendToNext(RecvFromPrev(chain, n), n, Token(id))
        /\ initPhase' = [initPhase EXCEPT ![n] = @ + 1]
        /\ initDone' = [initDone EXCEPT ![n] = n # Primary /\ initPhase[n] = 2]
        /\ staticID' = staticID
    BY DEF Relayed
  <1>5. Prev(n) = k
    OBVIOUS
  <1> HIDE DEF k
  <1>6. PICK b \in BOOLEAN : b <=> n # Primary /\ initPhase[n] = 2
    OBVIOUS
  <1>7. initDone' = [initDone EXCEPT ![n] = b]
    BY <1>4, <1>6
  <1>8. Frontier(initPhase', initDone', n)
    <2>1. Frontier([initPhase EXCEPT ![n] = @ + 1], [initDone EXCEPT ![n] = b], n)
      <3>1. initPhase[n] < 3
        BY <1>1
      <3>2. initPhase \in [Stop -> 0 .. 3] /\ initDone \in [Stop -> BOOLEAN]
        BY <1>3
      <3>3. QED
        BY <1>1, <1>2, <1>5, <1>6, <3>1, <3>2, FrontierMoves
    <2>2. QED
      BY <1>4, <1>7, <2>1
  <1>9. LinkType(chain') /\ OnLinks(chain', initDone', n) /\ Head(chain'[n]).id = id
    <2>1. LET L2 == SendToNext(RecvFromPrev(chain, n), n, Token(id))
          IN  /\ LinkType(L2) /\ Head(L2[n]).id = id
              /\ OnLinks(L2, [initDone EXCEPT ![n] = b], n)
      <3>1. LinkType(chain) /\ initDone \in [Stop -> BOOLEAN] /\ Len(chain[n]) < LinkCap
        BY <1>3, <1>4
      <3>2. ~initDone[n] /\ OnLinks(chain, initDone, Prev(n))
        BY <1>1, <1>2, <1>5
      <3>3. id \in NodeID /\ b \in BOOLEAN /\ n \in Stop
        OBVIOUS
      <3>4. QED
        BY <3>1, <3>2, <3>3, TokenPasses, ZenonT(60)
    <2>2. QED
      BY <1>4, <1>7, <2>1
  <1>10. initPhase' \in [Stop -> 0 .. 3] /\ initDone' \in [Stop -> BOOLEAN]
    BY <1>1, <1>3, <1>4
  <1>11. Running(n)'
    BY <1>8, <1>9 DEF Running
  <1>12. StartTyped'
    BY <1>3, <1>4, <1>9, <1>10 DEF StartTyped
  <1>13. QED
    BY <1>11, <1>12 DEF StartInv

(* Round 0 looks for the largest static ID. *)
LEMMA InitPhase0Inv ==
  ASSUME StartInv, NEW n \in Stop, InitPhase0(n)
  PROVE  StartInv'
  <1>1. /\ InPhase(n, 0) /\ initPhase[n] = 0 /\ ~initDone[n]
        /\ initPhase' = [initPhase EXCEPT ![n] = 1]
        /\ UNCHANGED <<staticID, myID, dynMaxID, initDone, ranOut>>
    BY DEF InitPhase0, InPhase
  <1>2. StartTyped
    BY DEF StartInv
  <1>3. CASE n = Primary
    <2>1. NotStarted
      <3>1. ~Finished
        BY <1>1 DEF Finished
      <3>2. \A k \in Stop : ~Running(k)
        BY <1>1, <1>3 DEF Running, Frontier
      <3>3. QED
        BY <3>1, <3>2 DEF StartInv
    <2>2. Len(chain[n]) < LinkCap /\ chain' = SendToNext(chain, n, Token(0))
      BY <1>2, <1>3, IsPrimary DEF InitPhase0, RoomNext
    <2>3. 0 \in NodeID
      BY Around DEF NodeID
    <2>4. Token(0) \in Message /\ Token(0).kind = "token" /\ Token(0).id = 0
      BY <2>3 DEF Token, Message
    <2>5. LinkType(chain')
      <3> DEFINE t == Token(0)
      <3>1. t \in Message /\ chain' = SendToNext(chain, n, t)
        BY <2>2, <2>4
      <3> HIDE DEF t
      <3>2. QED
        BY <1>2, <2>2, <3>1, SentType DEF StartTyped
    <2>6. \A m \in Stop : chain'[m] = IF m = n THEN Append(<< >>, Token(0)) ELSE << >>
      BY <1>2, <2>1, <2>2 DEF SendToNext, NotStarted, StartTyped, LinkType
    <2>7. /\ chain'[n] # << >> /\ Head(chain'[n]) = Token(0) /\ Tail(chain'[n]) = << >>
      <3>1. ASSUME NEW t
            PROVE  /\ Append(<< >>, t) # << >> /\ Head(Append(<< >>, t)) = t
                   /\ Tail(Append(<< >>, t)) = << >>
        OBVIOUS
      <3>2. QED
        BY <2>6, <3>1
    <2>8. OnLinks(chain', initDone', n)
      <3>1. TokenFirst(chain'[n])
        BY <2>4, <2>7 DEF TokenFirst, IsData
      <3>2. \A m \in Stop : m # n => IsData(chain'[m])
        BY <2>6 DEF IsData
      <3>3. \A m \in Stop : IF m = n THEN Tail(chain'[m]) = << >> ELSE chain'[m] = << >>
        BY <2>6, <2>7
      <3>4. QED
        BY <3>1, <3>2, <3>3 DEF OnLinks
    <2>9. \A m \in Stop : initPhase'[m] = IF m = n THEN 1 ELSE 0
      BY <1>1, <1>2, <2>1 DEF NotStarted, StartTyped
    <2>10. \A m \in Stop : m <= n <=> m = n
      BY <1>3, Around DEF Primary
    <2>11. Frontier(initPhase', initDone', n)
      <3>1. initPhase'[Primary] = 1
        BY <1>3, <2>9
      <3>2. \A m \in Stop : ~initDone'[m]
        BY <1>1, <2>1 DEF NotStarted
      <3>3. QED
        BY <2>9, <2>10, <3>1, <3>2 DEF Frontier
    <2>12. Numbers(0, n)'
      <3>1. initPhase'[Primary] = 1 /\ \A m \in Stop : initPhase'[m] # 3
        BY <1>3, <2>9
      <3>2. LargestStatic(0, n)
        BY <1>2, <1>3, <2>10, IsPrimary DEF LargestStatic
      <3>3. LargestStatic(0, n)'
        BY <1>1, <3>2 DEF LargestStatic, HasStatic
      <3>4. QED
        BY <3>1, <3>3 DEF Numbers
    <2>13. Running(n)'
      BY <2>4, <2>7, <2>8, <2>11, <2>12 DEF Running
    <2>14. StartTyped'
      <3>1. initPhase' \in [Stop -> 0 .. 3]
        BY <1>1, <1>2 DEF StartTyped
      <3>2. QED
        BY <1>1, <1>2, <2>5, <3>1 DEF StartTyped
    <2>15. QED
      BY <2>13, <2>14 DEF StartInv
  <1>4. CASE n # Primary
    <2> DEFINE id == Head(Arriving(n)).id
    <2>1. /\ Arriving(n) # << >> /\ Len(chain[n]) < LinkCap
          /\ chain' = SendToNext(RecvFromPrev(chain, n), n, Token(LargerID(n, id)))
      BY <1>2, <1>4, IsPrimary DEF InitPhase0, ReceiveAndSend, RoomNext
    <2>2. PICK k \in Stop : /\ Running(k) /\ id \in NodeID /\ id = Head(chain[k]).id
                            /\ initPhase[Primary] = 1 /\ n = k + 1
      BY <1>1, <1>4, <2>1, StartWaiting
    <2>3. HasStatic(n) => staticID[n] \in NodeID
      BY <1>2, IsPrimary
    <2>4. PICK new \in NodeID : new = LargerID(n, id)
      BY <2>2, <2>3 DEF LargerID
    <2>5. Relayed(n, 0, new)
      <3>1. initDone' = [initDone EXCEPT ![n] = n # Primary /\ initPhase[n] = 2]
        BY <1>1, <1>2 DEF StartTyped
      <3>2. initPhase' = [initPhase EXCEPT ![n] = @ + 1]
        BY <1>1
      <3>3. QED
        BY <1>1, <2>1, <2>4, <3>1, <3>2 DEF Relayed
    <2>6. LargestStatic(id, k)
      BY <2>2 DEF Running, Numbers
    <2>7. \A m \in Stop : m <= n <=> m <= k \/ m = n
      BY <2>2, Around
    <2>8. \A m \in Stop : HasStatic(m) => staticID[m] \in NodeID
      BY <1>2, IsPrimary
    <2> HIDE DEF id
    <2>9. LargestStatic(new, n)
      <3>1. CASE HasStatic(n) /\ staticID[n] > id
        <4>1. new = staticID[n]
          BY <2>4, <3>1 DEF LargerID
        <4>2. \A m \in Stop : m <= n /\ HasStatic(m) => staticID[m] <= staticID[n]
          BY <2>2, <2>6, <2>7, <2>8, <3>1 DEF LargestStatic, NodeID
        <4>3. QED
          BY <3>1, <4>1, <4>2 DEF LargestStatic
      <3>2. CASE ~(HasStatic(n) /\ staticID[n] > id)
        <4>1. new = id
          BY <2>4, <3>2 DEF LargerID
        <4>2. HasStatic(n) => staticID[n] <= id
          BY <2>2, <2>8, <3>2 DEF NodeID
        <4>3. QED
          BY <2>6, <2>7, <4>1, <4>2 DEF LargestStatic
      <3>3. QED
        BY <3>1, <3>2
    <2>10. LargestStatic(new, n)'
      BY <1>1, <2>9 DEF LargestStatic, HasStatic
    <2>11. Numbers(new, n)'
      <3>1. initPhase'[Primary] = 1
        BY <1>1, <1>4, <2>2, Around
      <3>2. \A m \in Stop : initPhase'[m] # 3
        <4>1. \A m \in Stop : initPhase[m] = IF m <= k THEN initPhase[Primary] ELSE initPhase[Primary] - 1
          BY <2>2 DEF Running, Frontier
        <4>2. QED
          BY <1>1, <1>2, <2>2, <4>1 DEF StartTyped
      <3>3. QED
        BY <2>10, <3>1, <3>2 DEF Numbers
    <2>12. /\ myID' \in [Stop -> NodeID \cup {NoID}] /\ ranOut' \in BOOLEAN
           /\ dynMaxID' \in [Stop -> NodeID \cup {NoID}]
      BY <1>1, <1>2 DEF StartTyped
    <2>13. QED
      BY <2>4, <2>5, <2>11, <2>12, RelayInv
  <1>5. QED
    BY <1>3, <1>4

(* Round 1 hands out IDs.  A new one is above all others, unless the ring  *)
(* reported that it ran out of them.                                       *)
LEMMA GivesID ==
  ASSUME StartTyped, NEW n \in Stop, NEW id \in NodeID, NEW new \in NodeID, NEW v \in NodeID,
         LargestID(id), initPhase[n] = 1,
         IF HasStatic(n) THEN v = staticID[n] /\ new = id ELSE v = id + 1 /\ new = id + 1,
         initPhase' = [initPhase EXCEPT ![n] = @ + 1],
         myID' = [myID EXCEPT ![n] = v],
         staticID' = staticID
  PROVE  LargestID(new)'
  <1>1. /\ initPhase \in [Stop -> 0 .. 3] /\ myID \in [Stop -> NodeID \cup {NoID}]
        /\ \A m \in Stop : HasStatic(m) => staticID[m] \in NodeID
    BY IsPrimary DEF StartTyped
  <1>2. /\ \A m \in Stop : Assigned(m)' <=> Assigned(m) \/ m = n
        /\ ~Assigned(n)
    BY <1>1 DEF Assigned
  <1>3. \A m \in Stop : myID'[m] = IF m = n THEN v ELSE myID[m]
    BY <1>1
  <1>4. \A m \in Stop : HasStatic(m)' <=> HasStatic(m)
    BY DEF HasStatic
  <1>5. id \in Nat /\ id <= new
    BY Around DEF NodeID
  <1>6. \A m \in Stop : Assigned(m) /\ ~HasStatic(m) => myID[m] \in NodeID
    <2>1. TAKE m \in Stop
    <2>2. HAVE Assigned(m) /\ ~HasStatic(m)
    <2>3. myID[m] <= id
      BY <2>2 DEF LargestID
    <2>4. myID[m] \in NodeID \cup {NoID} /\ id <= MaxBound /\ MaxBound \in Nat
      BY <1>1, Around DEF NodeID
    <2>5. QED
      BY <1>5, <2>3, <2>4 DEF NodeID, NoID
  <1>7. \A m \in Stop : HasStatic(m) => staticID[m] <= new
    BY <1>1, <1>5 DEF LargestID, NodeID
  <1>8. \A m \in Stop : Assigned(m)' /\ HasStatic(m) => myID'[m] = staticID[m]
    BY <1>2, <1>3 DEF LargestID
  <1>9. ASSUME NEW m \in Stop, Assigned(m)', ~HasStatic(m)
        PROVE  /\ myID'[m] <= new
               /\ \A j \in Stop : HasStatic(j) => staticID[j] < myID'[m]
               /\ \A j \in Stop : Assigned(j)' /\ ~HasStatic(j) /\ j # m => myID'[j] # myID'[m]
    <2>1. CASE m = n
      <3>1. myID'[m] = id + 1 /\ new = id + 1
        BY <1>3, <1>9, <2>1
      <3>2. \A j \in Stop : HasStatic(j) => staticID[j] < id + 1
        BY <1>1, <1>5 DEF LargestID, NodeID
      <3>3. ASSUME NEW j \in Stop, Assigned(j), ~HasStatic(j) PROVE myID[j] # id + 1
        <4>1. myID[j] <= id /\ myID[j] \in Nat
          BY <1>6, <3>3 DEF LargestID, NodeID
        <4>2. QED
          BY <1>5, <4>1
      <3>4. QED
        BY <1>2, <1>3, <1>5, <2>1, <3>1, <3>2, <3>3
    <2>2. CASE m # n
      <3>1. Assigned(m) /\ myID'[m] = myID[m] /\ myID[m] \in NodeID
        BY <1>2, <1>3, <1>6, <1>9, <2>2
      <3>2. myID[m] <= id
        BY <1>9, <3>1 DEF LargestID
      <3>3. myID[m] <= new
        BY <1>5, <3>1, <3>2 DEF NodeID
      <3>4. \A j \in Stop : HasStatic(j) => staticID[j] < myID[m]
        BY <1>9, <3>1 DEF LargestID
      <3>5. ~HasStatic(n) => v # myID[m]
        BY <1>5, <3>1, <3>2 DEF NodeID
      <3>6. \A j \in Stop : Assigned(j) /\ ~HasStatic(j) /\ j # m => myID[j] # myID[m]
        BY <1>9, <3>1 DEF LargestID
      <3>7. QED
        BY <1>2, <1>3, <3>1, <3>3, <3>4, <3>5, <3>6
    <2>3. QED
      BY <2>1, <2>2
  <1>10. \E m \in Stop : (HasStatic(m) /\ staticID[m] = new) \/ (Assigned(m)' /\ myID'[m] = new)
    <2>1. CASE HasStatic(n)
      BY <1>2, <1>3, <2>1 DEF LargestID
    <2>2. CASE ~HasStatic(n)
      BY <1>2, <1>3, <2>2
    <2>3. QED
      BY <2>1, <2>2
  <1>11. QED
    BY <1>4, <1>7, <1>8, <1>9, <1>10 DEF LargestID

LEMMA InitPhase1Inv ==
  ASSUME StartInv, NEW n \in Stop, InitPhase1(n)
  PROVE  StartInv'
  <1> DEFINE id == Head(Arriving(n)).id
             given == IF HasStatic(n) THEN staticID[n] ELSE NextID(id)
             sent == IF HasStatic(n) THEN id ELSE NextID(id)
  <1>1. /\ InPhase(n, 1) /\ Arriving(n) # << >> /\ initPhase[n] = 1 /\ ~initDone[n]
        /\ initPhase' = [initPhase EXCEPT ![n] = 2]
        /\ UNCHANGED <<staticID, dynMaxID, initDone>>
    BY DEF InitPhase1, InPhase
  <1>2. /\ Len(chain[n]) < LinkCap
        /\ chain' = SendToNext(RecvFromPrev(chain, n), n, Token(sent))
        /\ myID' = [myID EXCEPT ![n] = given]
        /\ ranOut' = IF HasStatic(n) THEN ranOut ELSE ranOut \/ id = MaxBound
    BY DEF InitPhase1, ReceiveAndSend, RoomNext
  <1>3. StartTyped /\ ranOut \in BOOLEAN
    BY DEF StartInv, StartTyped
  <1>4. PICK k \in Stop : /\ Running(k) /\ id \in NodeID /\ id = Head(chain[k]).id
                          /\ n # Primary => initPhase[Primary] = 2 /\ n = k + 1
                          /\ n = Primary => initPhase[Primary] = 1 /\ k = N - 1
    BY <1>1, StartWaiting
  <1>5. NextID(id) \in NodeID
    BY <1>4, Around DEF NextID, NodeID
  <1>6. HasStatic(n) => staticID[n] \in NodeID
    BY <1>3, IsPrimary
  <1>7. PICK v \in NodeID, new \in NodeID : v = given /\ new = sent
    BY <1>4, <1>5, <1>6
  <1>8. PICK old \in NodeID : old = id
    BY <1>4
  <1>9. ~ranOut' => ~ranOut /\ (~HasStatic(n) => given = old + 1 /\ sent = old + 1)
    <2>1. ~HasStatic(n) /\ id # MaxBound => NextID(id) = old + 1
      BY <1>8, Around DEF NextID, NodeID
    <2>2. QED
      BY <1>2, <2>1
  <1>10. Relayed(n, 1, new)
    <2>1. initDone' = [initDone EXCEPT ![n] = n # Primary /\ initPhase[n] = 2]
      BY <1>1, <1>3 DEF StartTyped
    <2>2. initPhase' = [initPhase EXCEPT ![n] = @ + 1]
      BY <1>1
    <2>3. QED
      BY <1>1, <1>2, <1>7, <2>1, <2>2 DEF Relayed
  <1>11. \A m \in Stop : initPhase[m] = IF m <= k THEN initPhase[Primary] ELSE initPhase[Primary] - 1
    BY <1>4 DEF Running, Frontier
  <1>12. ~ranOut => LargestID(old)
    <2>1. CASE n # Primary
      BY <1>4, <1>8, <2>1 DEF Running, Numbers
    <2>2. CASE n = Primary
      <3>1. LargestStatic(old, k)
        BY <1>4, <1>8, <2>2 DEF Running, Numbers
      <3>2. \A m \in Stop : m <= k
        BY <1>4, <2>2, Around
      <3>3. \A m \in Stop : ~Assigned(m)
        BY <1>4, <1>11, <2>2, <3>2 DEF Assigned
      <3>4. QED
        BY <3>1, <3>2, <3>3 DEF LargestID, LargestStatic
    <2>3. QED
      BY <2>1, <2>2
  <1> HIDE DEF id
  <1>13. ~ranOut' => LargestID(new)'
    <2>1. SUFFICES ASSUME ~ranOut' PROVE LargestID(new)'
      OBVIOUS
    <2>2. IF HasStatic(n) THEN v = staticID[n] /\ new = old ELSE v = old + 1 /\ new = old + 1
      BY <1>7, <1>8, <1>9, <2>1
    <2>3. LargestID(old)
      BY <1>9, <1>12, <2>1
    <2>4. /\ initPhase' = [initPhase EXCEPT ![n] = @ + 1]
          /\ myID' = [myID EXCEPT ![n] = v] /\ staticID' = staticID
      BY <1>1, <1>2, <1>7
    <2> HIDE DEF given, sent
    <2>5. QED
      BY <1>1, <1>3, <2>2, <2>3, <2>4, GivesID
  <1>14. Numbers(new, n)'
    <2>1. initPhase'[Primary] = 2 /\ \A m \in Stop : initPhase'[m] # 3
      BY <1>1, <1>3, <1>4, <1>11, Around DEF StartTyped
    <2>2. QED
      BY <1>13, <2>1 DEF Numbers
  <1>15. /\ myID' \in [Stop -> NodeID \cup {NoID}] /\ ranOut' \in BOOLEAN
         /\ dynMaxID' \in [Stop -> NodeID \cup {NoID}]
    BY <1>1, <1>2, <1>3, <1>5, <1>6 DEF StartTyped
  <1>16. QED
    BY <1>10, <1>14, <1>15, RelayInv

(* Round 2 tells the largest ID. *)
LEMMA InitPhase2Inv ==
  ASSUME StartInv, NEW n \in Stop, InitPhase2(n)
  PROVE  StartInv'
  <1>1. /\ InPhase(n, 2) /\ Arriving(n) # << >> /\ initPhase[n] = 2 /\ ~initDone[n]
        /\ initPhase' = [initPhase EXCEPT ![n] = 3]
        /\ UNCHANGED <<staticID, myID, ranOut>>
    BY DEF InitPhase2, InPhase
  <1>2. /\ Len(chain[n]) < LinkCap
        /\ chain' = SendToNext(RecvFromPrev(chain, n), n, Token(Head(Arriving(n)).id))
        /\ dynMaxID' = [dynMaxID EXCEPT ![n] = Head(Arriving(n)).id]
        /\ initDone' = [initDone EXCEPT ![n] = @ \/ ~NodeIsPrimary(n)]
    BY DEF InitPhase2, ReceiveAndSend, RoomNext, DoneInPhase2
  <1>3. StartTyped
    BY DEF StartInv
  <1>4. PICK k \in Stop : /\ Running(k) /\ Head(Arriving(n)).id \in NodeID
                          /\ Head(Arriving(n)).id = Head(chain[k]).id
                          /\ n # Primary => initPhase[Primary] = 3 /\ n = k + 1
                          /\ n = Primary => initPhase[Primary] = 2 /\ k = N - 1
    BY <1>1, StartWaiting
  <1>5. PICK id \in NodeID : id = Head(Arriving(n)).id
    BY <1>4
  <1>6. Relayed(n, 2, id)
    <2>1. initDone' = [initDone EXCEPT ![n] = n # Primary /\ initPhase[n] = 2]
      BY <1>1, <1>2, <1>3, IsPrimary DEF StartTyped
    <2>2. initPhase' = [initPhase EXCEPT ![n] = @ + 1]
      BY <1>1
    <2>3. QED
      BY <1>1, <1>2, <1>5, <2>1, <2>2 DEF Relayed
  <1>7. /\ ~ranOut => LargestID(id)
        /\ \A m \in Stop : initPhase[m] = 3 /\ ~ranOut => dynMaxID[m] = id
    BY <1>4, <1>5 DEF Running, Numbers
  <1>8. /\ \A m \in Stop : Assigned(m)' <=> Assigned(m)
        /\ \A m \in Stop : initPhase'[m] = 3 <=> initPhase[m] = 3 \/ m = n
        /\ initPhase'[Primary] = 3
    BY <1>1, <1>3, <1>4, Around DEF Assigned, StartTyped
  <1>9. ~ranOut => LargestID(id)'
    BY <1>1, <1>7, <1>8 DEF LargestID, HasStatic
  <1>10. \A m \in Stop : dynMaxID'[m] = IF m = n THEN id ELSE dynMaxID[m]
    BY <1>2, <1>3, <1>5 DEF StartTyped
  <1>11. Numbers(id, n)'
    BY <1>1, <1>7, <1>8, <1>9, <1>10 DEF Numbers
  <1>12. /\ myID' \in [Stop -> NodeID \cup {NoID}] /\ ranOut' \in BOOLEAN
         /\ dynMaxID' \in [Stop -> NodeID \cup {NoID}]
    BY <1>1, <1>2, <1>3, <1>4 DEF StartTyped
  <1>13. QED
    BY <1>6, <1>11, <1>12, RelayInv

(* The primary takes the token when it has been everywhere. *)
LEMMA InitPhase3Inv ==
  ASSUME StartInv, NEW n \in Stop, InitPhase3(n)
  PROVE  StartInv'
  <1>1. StartTyped
    BY DEF StartInv
  <1>2. /\ InPhase(n, 3) /\ Arriving(n) # << >> /\ n = Primary
        /\ chain' = RecvFromPrev(chain, n)
        /\ initDone' = [initDone EXCEPT ![n] = TRUE]
        /\ UNCHANGED <<staticID, myID, dynMaxID, initPhase, ranOut>>
    BY <1>1, IsPrimary DEF InitPhase3
  <1>3. PICK k \in Stop : /\ k = Prev(n) /\ Running(k) /\ Head(chain[k]).id \in NodeID
                          /\ initPhase[Primary] = 3 /\ k = N - 1
    BY <1>2, StartWaiting
  <1>4. \A m \in Stop : initPhase[m] = 3
    BY <1>3, Around DEF Running, Frontier
  <1>5. \A m \in Stop : initDone'[m]
    BY <1>1, <1>2, <1>3, <1>4 DEF Running, Frontier, StartTyped
  <1>6. LinkType(chain') /\ \A m \in Stop : chain'[m] = IF m = k THEN Tail(chain[m]) ELSE chain[m]
    <2>1. LinkType(chain) /\ chain[Prev(n)] # << >>
      BY <1>1, <1>2 DEF StartTyped, Arriving
    <2>2. /\ LinkType(RecvFromPrev(chain, n))
          /\ \A m \in Stop : RecvFromPrev(chain, n)[m] = IF m = Prev(n) THEN Tail(chain[m]) ELSE chain[m]
      BY <2>1, TakenType
    <2>3. QED
      BY <1>2, <1>3, <2>2
  <1>7. \A m \in Stop : IsData(chain'[m])
    BY <1>3, <1>6 DEF Running, OnLinks, TokenFirst
  <1>8. ~ranOut' => \E id \in NodeID : LargestID(id)' /\ \A m \in Stop : dynMaxID'[m] = id
    <2>1. SUFFICES ASSUME ~ranOut
                   PROVE  \E id \in NodeID : LargestID(id)' /\ \A m \in Stop : dynMaxID'[m] = id
      BY <1>2
    <2>2. PICK id \in NodeID : id = Head(chain[k]).id
      BY <1>3
    <2>3. LargestID(id) /\ \A m \in Stop : dynMaxID[m] = id
      BY <1>3, <1>4, <2>1, <2>2 DEF Running, Numbers
    <2>4. LargestID(id)'
      BY <1>2, <2>3 DEF LargestID, HasStatic, Assigned
    <2>5. QED
      BY <1>2, <2>3, <2>4
  <1>9. Finished'
    BY <1>2, <1>4, <1>5, <1>7, <1>8 DEF Finished
  <1>10. StartTyped'
    BY <1>1, <1>2, <1>6 DEF StartTyped
  <1>11. QED
    BY <1>9, <1>10 DEF StartInv
-----------------------------------------------------------------------------
(* Data behind the token leaves it where it is. *)
LEMMA DataBehind ==
  ASSUME NEW q \in Seq(Message), NEW x \in Message, x.kind = "data"
  PROVE  /\ IsData(q) => IsData(Append(q, x))
         /\ TokenFirst(q) => TokenFirst(Append(q, x)) /\ Head(Append(q, x)) = Head(q)
  <1>1. \A i \in DOMAIN Append(q, x) :
          (i \in DOMAIN q /\ Append(q, x)[i] = q[i]) \/ Append(q, x)[i] = x
    BY EnqSlots
  <1>2. IsData(q) => IsData(Append(q, x))
    BY <1>1 DEF IsData
  <1>3. ASSUME TokenFirst(q)
        PROVE  TokenFirst(Append(q, x)) /\ Head(Append(q, x)) = Head(q)
    <2>1. q # << >> /\ Head(q).kind = "token" /\ IsData(Tail(q))
      BY <1>3 DEF TokenFirst
    <2>2. Tail(Append(q, x)) = Append(Tail(q), x) /\ Tail(q) \in Seq(Message)
      BY <2>1
    <2>3. Append(q, x) # << >> /\ Head(Append(q, x)) = Head(q)
      <3>1. Len(q) \in Nat /\ Len(Append(q, x)) = Len(q) + 1
        OBVIOUS
      <3>2. Append(q, x)[1] = q[1]
        BY <2>1
      <3>3. Append(q, x) \in Seq(Message)
        BY EnqType
      <3>4. Append(q, x) # << >>
        BY <3>1, <3>3
      <3>5. QED
        BY <2>1, <3>2, <3>3, <3>4, DeqSlots
    <2>4. \A i \in DOMAIN Append(Tail(q), x) :
            (i \in DOMAIN Tail(q) /\ Append(Tail(q), x)[i] = Tail(q)[i]) \/ Append(Tail(q), x)[i] = x
      BY <2>2, EnqSlots
    <2>5. IsData(Append(Tail(q), x))
      BY <2>1, <2>4 DEF IsData
    <2>6. QED
      BY <2>1, <2>2, <2>3, <2>5 DEF TokenFirst
  <1>4. QED
    BY <1>2, <1>3

LEMMA DataSent ==
  ASSUME NEW L, LinkType(L), NEW done \in [Stop -> BOOLEAN], NEW n \in Stop, done[n],
         NEW x \in Message, x.kind = "data"
  PROVE  LET L2 == SendToNext(L, n, x)
         IN  /\ (\A m \in Stop : IsData(L[m])) => \A m \in Stop : IsData(L2[m])
             /\ \A k \in Stop : OnLinks(L, done, k) =>
                  OnLinks(L2, done, k) /\ Head(L2[k]) = Head(L[k])
  <1> DEFINE L2 == SendToNext(L, n, x)
  <1>1. \A m \in Stop : L[m] \in Seq(Message)
    BY DEF LinkType, Message
  <1>2. \A m \in Stop : L2[m] = IF m = n THEN Append(L[m], x) ELSE L[m]
    BY DEF SendToNext, LinkType
  <1> HIDE DEF L2
  <1>3. \A m \in Stop : IsData(L[m]) => IsData(L2[m])
    BY <1>1, <1>2, DataBehind
  <1>4. ASSUME NEW k \in Stop, OnLinks(L, done, k)
        PROVE  OnLinks(L2, done, k) /\ Head(L2[k]) = Head(L[k])
    <2>1. TokenFirst(L2[k]) /\ Head(L2[k]) = Head(L[k])
      BY <1>1, <1>2, <1>4, DataBehind DEF OnLinks
    <2>2. \A m \in Stop : m # k => IsData(L2[m])
      BY <1>3, <1>4 DEF OnLinks
    <2>3. \A m \in Stop : ~done[m] => L2[m] = L[m]
      BY <1>2
    <2>4. QED
      BY <1>4, <2>1, <2>2, <2>3 DEF OnLinks
  <1>5. QED
    BY <1>3, <1>4 DEF L2

LEMMA DataTaken ==
  ASSUME NEW L, LinkType(L), NEW done \in [Stop -> BOOLEAN], NEW n \in Stop,
         L[Prev(n)] # << >>
  PROVE  LET L2 == RecvFromPrev(L, n)
         IN  /\ (\A m \in Stop : IsData(L[m])) =>
                  (\A m \in Stop : IsData(L2[m])) /\ Head(L[Prev(n)]).kind = "data"
             /\ \A k \in Stop : OnLinks(L, done, k) /\ Prev(n) # k =>
                  /\ OnLinks(L2, done, k) /\ Head(L2[k]) = Head(L[k])
                  /\ Head(L[Prev(n)]).kind = "data"
  <1> DEFINE L2 == RecvFromPrev(L, n)
             p == Prev(n)
  <1>1. p \in Stop /\ L[p] \in Seq(Message) /\ L[p] # << >>
    BY Around DEF LinkType, Message
  <1>2. \A m \in Stop : L2[m] = IF m = p THEN Tail(L[m]) ELSE L[m]
    BY TakenType
  <1>3. /\ \A i \in DOMAIN Tail(L[p]) : i + 1 \in DOMAIN L[p] /\ Tail(L[p])[i] = L[p][i + 1]
        /\ 1 \in DOMAIN L[p] /\ Head(L[p]) = L[p][1]
    BY <1>1, DeqSlots
  <1> HIDE DEF L2, p
  <1>4. IsData(L[p]) => IsData(Tail(L[p])) /\ Head(L[p]).kind = "data"
    BY <1>3 DEF IsData
  <1>5. \A m \in Stop : IsData(L[m]) => IsData(L2[m])
    BY <1>2, <1>4
  <1>6. ASSUME NEW k \in Stop, OnLinks(L, done, k), p # k
        PROVE  /\ OnLinks(L2, done, k) /\ Head(L2[k]) = Head(L[k])
               /\ Head(L[p]).kind = "data"
    <2>1. IsData(L[p]) /\ done[p]
      BY <1>1, <1>6 DEF OnLinks
    <2>2. L2[k] = L[k]
      BY <1>2, <1>6
    <2>3. \A m \in Stop : ~done[m] => L2[m] = L[m]
      BY <1>2, <2>1
    <2>4. \A m \in Stop : m # k => IsData(L2[m])
      BY <1>5, <1>6 DEF OnLinks
    <2>5. QED
      BY <1>4, <1>6, <2>1, <2>2, <2>3, <2>4 DEF OnLinks
  <1>7. (\A m \in Stop : IsData(L[m])) => (\A m \in Stop : IsData(L2[m])) /\ Head(L[p]).kind = "data"
    BY <1>1, <1>4, <1>5
  <1>8. QED
    BY <1>6, <1>7 DEF L2, p

(* A rule for data changes the links alone, and nothing about the token. *)
DataLinks(L2) ==
  /\ LinkType(L2)
  /\ Finished => \A m \in Stop : IsData(L2[m])
  /\ \A k \in Stop : Running(k) => OnLinks(L2, initDone, k) /\ Head(L2[k]) = Head(chain[k])

LEMMA DataLinksInv ==
  ASSUME StartInv, ~NotStarted, DataLinks(chain'),
         UNCHANGED <<staticID, myID, dynMaxID, initPhase, initDone, ranOut>>
  PROVE  StartInv'
  <1>1. StartTyped'
    BY DEF StartInv, StartTyped, DataLinks
  <1>2. ASSUME Finished PROVE Finished'
    <2>1. \A id : LargestID(id) => LargestID(id)'
      BY DEF LargestID, HasStatic, Assigned
    <2>2. /\ \A m \in Stop : initDone'[m] /\ initPhase'[m] = 3 /\ IsData(chain'[m])
      BY <1>2 DEF Finished, DataLinks
    <2>3. ~ranOut' => \E id \in NodeID : LargestID(id)' /\ \A m \in Stop : dynMaxID'[m] = id
      BY <1>2, <2>1 DEF Finished
    <2>4. QED
      BY <2>2, <2>3 DEF Finished
  <1>3. ASSUME NEW k \in Stop, Running(k) PROVE Running(k)'
    <2>1. OnLinks(chain', initDone', k) /\ Head(chain'[k]) = Head(chain[k])
      BY <1>3 DEF DataLinks
    <2>2. Frontier(initPhase', initDone', k)
      BY <1>3 DEF Running
    <2>3. ASSUME NEW id, Numbers(id, k) PROVE Numbers(id, k)'
      BY <2>3 DEF Numbers, LargestStatic, LargestID, HasStatic, Assigned
    <2>4. Numbers(Head(chain[k]).id, k)
      BY <1>3 DEF Running
    <2>5. PICK id : id = Head(chain[k]).id
      OBVIOUS
    <2>6. Numbers(id, k)' /\ Head(chain'[k]).id = id
      BY <2>1, <2>3, <2>4, <2>5
    <2>7. QED
      BY <2>1, <2>2, <2>6 DEF Running
  <1>4. QED
    BY <1>1, <1>2, <1>3 DEF StartInv

LEMMA DataInv ==
  ASSUME StartInv, NEW n \in Stop, ClientRule(n)
  PROVE  StartInv'
  <1>1. /\ UNCHANGED <<staticID, myID, dynMaxID, initPhase, initDone, ranOut>>
        /\ SendData(n) \/ RecvData(n) \/ ForwardData(n)
    BY DEF ClientRule
  <1>2. StartTyped /\ LinkType(chain) /\ initDone \in [Stop -> BOOLEAN] /\ initDone[n]
    BY <1>1 DEF StartInv, StartTyped, SendData, RecvData, ForwardData, ForMe
  <1>3. ~NotStarted
    BY <1>2 DEF NotStarted
  <1>4. \A k \in Stop : Running(k) => OnLinks(chain, initDone, k)
    BY DEF Running
  <1>5. Finished => \A m \in Stop : IsData(chain[m])
    BY DEF Finished
  <1>6. Arriving(n) # << >> => \A k \in Stop : Running(k) => Prev(n) # k
    BY <1>2, WhoSeesToken DEF Running, Arriving
  <1>7. CASE SendData(n)
    <2>1. PICK x \in Message : /\ x.kind = "data" /\ Len(chain[n]) < LinkCap
                               /\ chain' = SendToNext(chain, n, x)
      <3>1. Datum(0) \in Message /\ Datum(0).kind = "data"
        BY Around DEF Datum, Message, NodeID
      <3>2. QED
        BY <1>7, <3>1 DEF SendData, RoomNext
    <2>2. LinkType(SendToNext(chain, n, x))
      BY <1>2, <2>1, SentType
    <2>3. /\ (\A m \in Stop : IsData(chain[m])) => \A m \in Stop : IsData(SendToNext(chain, n, x)[m])
          /\ \A k \in Stop : OnLinks(chain, initDone, k) =>
               /\ OnLinks(SendToNext(chain, n, x), initDone, k)
               /\ Head(SendToNext(chain, n, x)[k]) = Head(chain[k])
      BY <1>2, <2>1, DataSent
    <2>4. DataLinks(SendToNext(chain, n, x))
      BY <1>4, <1>5, <2>2, <2>3 DEF DataLinks
    <2>5. DataLinks(chain')
      BY <2>1, <2>4
    <2>6. QED
      BY <1>1, <1>3, <2>5, DataLinksInv
  <1>8. ASSUME Arriving(n) # << >>
        PROVE  /\ DataLinks(RecvFromPrev(chain, n))
               /\ Head(Arriving(n)) \in Message /\ Head(Arriving(n)).kind = "data"
    <2> DEFINE L2 == RecvFromPrev(chain, n)
    <2>1. chain[Prev(n)] # << >>
      BY <1>8 DEF Arriving
    <2>2. LinkType(L2) /\ Head(chain[Prev(n)]) \in Message
      BY <1>2, <2>1, TakenType
    <2>3. /\ (\A m \in Stop : IsData(chain[m])) =>
               (\A m \in Stop : IsData(L2[m])) /\ Head(chain[Prev(n)]).kind = "data"
          /\ \A k \in Stop : OnLinks(chain, initDone, k) /\ Prev(n) # k =>
               /\ OnLinks(L2, initDone, k) /\ Head(L2[k]) = Head(chain[k])
               /\ Head(chain[Prev(n)]).kind = "data"
      BY <1>2, <2>1, DataTaken
    <2> HIDE DEF L2
    <2>4. DataLinks(L2)
      BY <1>4, <1>5, <1>6, <1>8, <2>2, <2>3 DEF DataLinks
    <2>5. Head(chain[Prev(n)]).kind = "data"
      BY <1>3, <1>4, <1>5, <1>6, <1>8, <2>3 DEF StartInv
    <2>6. QED
      BY <2>2, <2>4, <2>5 DEF L2, Arriving
  <1>9. CASE RecvData(n)
    <2>1. Arriving(n) # << >> /\ chain' = RecvFromPrev(chain, n)
      BY <1>9 DEF RecvData, ForMe
    <2>2. DataLinks(chain')
      BY <1>8, <2>1
    <2>3. QED
      BY <1>1, <1>3, <2>2, DataLinksInv
  <1>10. CASE ForwardData(n)
    <2> DEFINE L2 == RecvFromPrev(chain, n)
    <2>1. PICK x \in Message : /\ x.kind = "data" /\ Arriving(n) # << >> /\ Len(chain[n]) < LinkCap
                               /\ chain' = SendToNext(L2, n, x)
      BY <1>8, <1>10 DEF ForwardData, RoomNext
    <2>2. DataLinks(L2)
      BY <1>8, <2>1
    <2>3. Len(L2[n]) < LinkCap
      <3>1. Len(L2[n]) <= Len(chain[n])
        BY <1>2, <2>1, TakenType DEF Arriving
      <3>2. Len(L2[n]) \in Nat /\ Len(chain[n]) \in Nat
        BY <1>2, <2>2 DEF DataLinks, LinkType
      <3> HIDE DEF L2
      <3>3. QED
        BY <2>1, <3>1, <3>2, Around
    <2>4. LinkType(L2)
      BY <2>2 DEF DataLinks
    <2> HIDE DEF L2
    <2>5. LinkType(SendToNext(L2, n, x))
      BY <2>1, <2>3, <2>4, SentType
    <2>6. /\ (\A m \in Stop : IsData(L2[m])) => \A m \in Stop : IsData(SendToNext(L2, n, x)[m])
          /\ \A k \in Stop : OnLinks(L2, initDone, k) =>
               /\ OnLinks(SendToNext(L2, n, x), initDone, k)
               /\ Head(SendToNext(L2, n, x)[k]) = Head(L2[k])
      BY <1>2, <2>1, <2>4, DataSent
    <2>7. DataLinks(SendToNext(L2, n, x))
      BY <2>2, <2>5, <2>6 DEF DataLinks
    <2>8. DataLinks(chain')
      BY <2>1, <2>7
    <2>9. QED
      BY <1>1, <1>3, <2>8, DataLinksInv
  <1>11. QED
    BY <1>1, <1>7, <1>9, <1>10
-----------------------------------------------------------------------------
LEMMA StartInvInit == PowerUp => StartInv
  <1> SUFFICES ASSUME PowerUp PROVE StartInv
    OBVIOUS
  <1>1. \A n \in Stop : initPhase[n] = 0 /\ ~initDone[n] /\ chain[n] = << >>
    BY DEF PowerUp
  <1>2. NotStarted
    BY <1>1 DEF NotStarted
  <1>3. LinkType(chain)
    <2>1. chain \in [Stop -> Seq([kind : {"token", "data"}, id : NodeID])]
      BY DEF PowerUp
    <2>2. QED
      BY <1>1, <2>1, Around DEF LinkType
  <1>4. StartTyped
    <2>1. staticID \in [Stop -> NodeID \cup {NoStatic}] /\ LegalStatic(staticID)
      BY DEF PowerUp
    <2>2. /\ myID \in [Stop -> NodeID \cup {NoID}]
          /\ dynMaxID \in [Stop -> NodeID \cup {NoID}]
      BY DEF PowerUp
    <2>3. /\ initPhase \in [Stop -> 0 .. 3]
          /\ initDone \in [Stop -> BOOLEAN] /\ ranOut \in BOOLEAN
      <3>1. initPhase \in [Stop -> 0 .. 3]
        BY DEF PowerUp
      <3>2. initDone \in [Stop -> BOOLEAN]
        BY DEF PowerUp
      <3>3. ranOut \in BOOLEAN
        BY DEF PowerUp
      <3>4. QED
        BY <3>1, <3>2, <3>3
    <2>4. QED
      BY <1>3, <2>1, <2>2, <2>3 DEF StartTyped
  <1>5. QED
    BY <1>2, <1>4 DEF StartInv

LEMMA StartInvStep == StartInv /\ [InitNext]_initVars => StartInv'
  <1> SUFFICES ASSUME StartInv, [InitNext]_initVars PROVE StartInv'
    OBVIOUS
  <1>1. CASE UNCHANGED initVars
    BY <1>1 DEF initVars, StartInv, StartTyped, NotStarted, Finished, Running, Numbers, LargestID,
                LargestStatic, HasStatic, Assigned
  <1>2. QED
    BY <1>1, InitPhase0Inv, InitPhase1Inv, InitPhase2Inv, InitPhase3Inv, DataInv
    DEF InitNext, Initialize

(* The strengthening holds in every state of every initialization. *)
THEOREM RingInitInvariant == InitSpec => []StartInv
<1>1. QED
  BY StartInvInit, StartInvStep, PTL DEF InitSpec
-----------------------------------------------------------------------------
(* Static IDs differ by design and dynamic ones are above them. *)
LEMMA AllDiffer ==
  ASSUME StartTyped, NEW id \in NodeID, LargestID(id),
         NEW m \in Stop, NEW n \in Stop, m # n, Assigned(m), Assigned(n)
  PROVE  myID[m] # myID[n]
  <1>1. \A j \in Stop : HasStatic(j) => staticID[j] \in Nat
    BY IsPrimary, Around DEF NodeID
  <1>2. CASE HasStatic(m) /\ HasStatic(n)
    BY <1>2 DEF LargestID, StartTyped, LegalStatic, HasStatic
  <1>3. CASE HasStatic(m) /\ ~HasStatic(n)
    <2>1. staticID[m] < myID[n] /\ myID[m] = staticID[m]
      BY <1>3 DEF LargestID
    <2>2. QED
      BY <1>1, <1>3, <2>1
  <1>4. CASE ~HasStatic(m) /\ HasStatic(n)
    <2>1. staticID[n] < myID[m] /\ myID[n] = staticID[n]
      BY <1>4 DEF LargestID
    <2>2. QED
      BY <1>1, <1>4, <2>1
  <1>5. CASE ~HasStatic(m) /\ ~HasStatic(n)
    BY <1>5 DEF LargestID
  <1>6. QED
    BY <1>2, <1>3, <1>4, <1>5

(* When every stop has an ID, the number on the token is the largest. *)
LEMMA IsLargest ==
  ASSUME StartTyped, NEW id \in NodeID, LargestID(id), \A n \in Stop : Assigned(n)
  PROVE  id = Max(IDs \ {NoID})
  <1> DEFINE S == IDs \ {NoID}
  <1>1. \A n \in Stop : myID[n] <= id /\ myID[n] \in NodeID
    <2>1. TAKE n \in Stop
    <2>2. myID[n] <= id
      BY DEF LargestID
    <2>3. myID[n] \in NodeID \cup {NoID} /\ id <= MaxBound /\ MaxBound \in Nat /\ id \in Nat
      BY Around DEF StartTyped, NodeID
    <2>4. QED
      BY <2>2, <2>3 DEF NodeID, NoID
  <1>2. NoID \notin NodeID
    BY Around DEF NoID, NodeID
  <1>3. \A x \in S : x <= id /\ x \in Nat
    BY <1>1, Around DEF IDs, NodeID
  <1>4. id \in S
    <2>1. \E n \in Stop : myID[n] = id
      BY DEF LargestID
    <2>2. QED
      BY <1>2, <2>1 DEF IDs
  <1> HIDE DEF S
  <1>5. id \in Nat
    BY <1>3, <1>4
  <1>6. \A x \in S : (\A y \in S : x >= y) => x = id
    BY <1>3, <1>4, <1>5
  <1>7. \A y \in S : id >= y
    BY <1>3, <1>5
  <1>8. Max(S) = CHOOSE x \in S : \A y \in S : x >= y
    BY DEF Max
  <1>9. QED
    BY <1>4, <1>6, <1>7, <1>8 DEF S

(* Whatever static IDs the stops of addressable-ring.bsv have and whatever *)
(* data the stops send that are done, no two of them get one ID, each      *)
(* learns the largest, and the primary is done last: for any number of     *)
(* stops and IDs and any size of the links.                                *)
THEOREM RingInitSafe == InitSpec => []InitInv
<1>1. StartInv => InitInv
  <2> SUFFICES ASSUME StartInv PROVE InitInv
    OBVIOUS
  <2>1. StartTyped
    BY DEF StartInv
  <2>2. InitTypeOK
    BY <2>1 DEF StartTyped, LinkType, InitTypeOK
  <2>3. CASE NotStarted
    BY <2>2, <2>3, Around DEF NotStarted, InitInv, IDsUnique, MaxIDKnown, PrimaryLast
  <2>4. CASE Finished
    <3>1. \A n \in Stop : Assigned(n)
      BY <2>4 DEF Finished, Assigned
    <3>2. IDsUnique
      BY <2>1, <2>4, <3>1, AllDiffer DEF Finished, IDsUnique
    <3>3. MaxIDKnown
      BY <2>1, <2>4, <3>1, IsLargest DEF Finished, MaxIDKnown
    <3>4. PrimaryLast
      BY <2>4 DEF Finished, PrimaryLast
    <3>5. QED
      BY <2>2, <3>2, <3>3, <3>4 DEF InitInv
  <2>5. ASSUME NEW k \in Stop, Running(k) PROVE InitInv
    <3>1. /\ initPhase[Primary] \in 1 .. 3
          /\ \A n \in Stop : initPhase[n] = IF n <= k THEN initPhase[Primary] ELSE initPhase[Primary] - 1
          /\ \A n \in Stop : initDone[n] <=> n # Primary /\ initPhase[n] = 3
      BY <2>5 DEF Running, Frontier
    <3>2. PICK id \in NodeID : id = Head(chain[k]).id
      <4>1. chain[k] \in Seq(Message) /\ chain[k] # << >>
        BY <2>1, <2>5 DEF StartTyped, LinkType, Message, Running, OnLinks, TokenFirst
      <4>2. Head(chain[k]) \in Message
        BY <4>1, DeqType
      <4>3. QED
        BY <4>2 DEF Message
    <3>3. /\ initPhase[Primary] > 1 /\ ~ranOut => LargestID(id)
          /\ \A n \in Stop : initPhase[n] = 3 /\ ~ranOut => dynMaxID[n] = id
      BY <2>5, <3>2 DEF Running, Numbers
    <3>4. IDsUnique
      <4>1. SUFFICES ASSUME NEW m \in Stop, NEW n \in Stop, m # n, initPhase[m] >= 2,
                            initPhase[n] >= 2, ~ranOut
                     PROVE  myID[m] # myID[n]
        BY DEF IDsUnique
      <4>2. initPhase[Primary] > 1
        BY <3>1, <4>1
      <4>3. QED
        BY <2>1, <3>3, <4>1, <4>2, AllDiffer DEF Assigned
    <3>5. MaxIDKnown
      <4>1. SUFFICES ASSUME NEW n \in Stop, initDone[n], ~ranOut
                     PROVE  dynMaxID[n] = Max(IDs \ {NoID})
        BY DEF MaxIDKnown
      <4>2. initPhase[n] = 3 /\ initPhase[Primary] = 3
        BY <3>1, <4>1
      <4>3. \A m \in Stop : Assigned(m)
        BY <3>1, <4>2 DEF Assigned
      <4>4. QED
        BY <2>1, <3>3, <4>1, <4>2, <4>3, IsLargest
    <3>6. PrimaryLast
      BY <3>1, Around DEF PrimaryLast
    <3>7. QED
      BY <2>2, <3>4, <3>5, <3>6 DEF InitInv
  <2>6. QED
    BY <2>3, <2>4, <2>5 DEF StartInv
<1>2. QED
  BY <1>1, RingInitInvariant, PTL

(* The token of the initialization and the data of stops that are done     *)
(* share a chain in addressable-ring.bsv and are never taken for each      *)
(* other, for any number of stops.                                         *)
THEOREM RingInitNoMixUp == InitSpec => []NoMixUp
<1>1. StartInv => NoMixUp
  <2> SUFFICES ASSUME StartInv, NEW n \in Stop, Arriving(n) # << >>
               PROVE  initDone[n] <=> Head(Arriving(n)).kind = "data"
    BY DEF NoMixUp
  <2>1. /\ StartTyped /\ Prev(n) \in Stop /\ chain[Prev(n)] # << >>
        /\ chain[Prev(n)] \in Seq(Message) /\ Arriving(n) = chain[Prev(n)]
    BY Around DEF StartInv, StartTyped, LinkType, Message, Arriving
  <2>2. ASSUME IsData(chain[Prev(n)]) PROVE Head(Arriving(n)).kind = "data"
    <3>1. 1 \in DOMAIN chain[Prev(n)] /\ Head(chain[Prev(n)]) = chain[Prev(n)][1]
      BY <2>1, DeqSlots
    <3>2. QED
      BY <2>1, <2>2, <3>1 DEF IsData
  <2>3. CASE NotStarted
    BY <2>1, <2>3 DEF NotStarted
  <2>4. CASE Finished
    BY <2>1, <2>2, <2>4 DEF Finished
  <2>5. ASSUME NEW k \in Stop, Running(k) PROVE initDone[n] <=> Head(Arriving(n)).kind = "data"
    <3>1. initDone[n] <=> Prev(n) # k
      BY <2>1, <2>5, WhoSeesToken DEF Running, StartTyped
    <3>2. CASE Prev(n) = k
      <4>1. Head(Arriving(n)).kind = "token"
        BY <2>1, <2>5, <3>2 DEF Running, OnLinks, TokenFirst
      <4>2. QED
        BY <3>1, <3>2, <4>1
    <3>3. CASE Prev(n) # k
      BY <2>1, <2>2, <2>5, <3>1, <3>3 DEF Running, OnLinks
    <3>4. QED
      BY <3>2, <3>3
  <2>6. QED
    BY <2>3, <2>4, <2>5 DEF StartInv
<1>2. QED
  BY <1>1, RingInitInvariant, PTL
=============================================================================
