--------------------------- MODULE NtoNRingProofs ---------------------------
(***************************************************************************)
(* The dateline of addressable-ring.bsv, for every number of stops, every  *)
(* traffic, every size of the links and queues and every arbitration mode. *)
(* The messages that may be on a link are bounded by where the link is:    *)
(* each rule that sends or forwards puts a message on a link on which it   *)
(* may be, and on the last link of chain 1 no message may be.              *)
(*                                                                         *)
(* The same bounds make the two chains one line of queues for each two     *)
(* stops: whatever a rule does, nothing between the queue it takes a       *)
(* message from and the queue it puts it on can hold a message of the same *)
(* two stops.  So the ring implements the reliable network RingNet.        *)
(***************************************************************************)
EXTENDS NtoNRing, QueueLemmas

(* The messages the clients may use, and those that may be in sendQ[n], on *)
(* link0[n] and on link1[n].                                               *)
Used == {x \in Data : <<x.src, x.dst>> \in Traffic}
Own  == [n \in Stop |-> {x \in Used : x.src = n}]
On0  == [n \in Stop |-> {x \in Used : x.src <= n /\ (x.dst > x.src => n < x.dst)}]
On1  == [n \in Stop |-> {x \in Used : Crosses(x.src, x.dst) /\ n < x.dst}]

(* The links of a chain have room for what is on them.                     *)
Fits(l) == \A n \in Stop : Len(l[n]) <= LinkCap

IInv ==
  /\ recvQ \in [Stop -> Seq(Data)]
  /\ chain0Prior \in [Stop -> BOOLEAN] /\ localPrior \in [Stop -> BOOLEAN]
  /\ Table(sendQ, Stop, Own)
  /\ Table(link0, Stop, On0) /\ Fits(link0)
  /\ Table(link1, Stop, On1) /\ Fits(link1)
-----------------------------------------------------------------------------
(* The stop before n: below n, but for the primary, and always another.    *)
LEMMA PrevStop ==
  ASSUME NEW n \in Stop
  PROVE  /\ n \in Nat /\ Prev(n) \in Stop /\ Prev(n) # n
         /\ n # Primary => Prev(n) = n - 1
         /\ Prev(Primary) = N - 1 /\ Primary \in Stop
  BY RingAssumption, NtoNRingAssumption DEF Prev, Stop, Primary

(* What waits at a stop may be on the link it waits on.                    *)
LEMMA Waiting ==
  ASSUME NEW S \in [Stop -> SUBSET Used], NEW l, Table(l, Stop, S), NEW n \in Stop, l[Prev(n)] # << >>
  PROVE  /\ Head(l[Prev(n)]) \in S[Prev(n)] /\ Head(l[Prev(n)]) \in Used
         /\ Head(l[Prev(n)]) \in Data
  <1>1. l[Prev(n)] \in Seq(S[Prev(n)]) /\ Prev(n) \in Stop
    BY PrevStop DEF Table
  <1>2. Head(l[Prev(n)]) \in S[Prev(n)]
    BY <1>1, DeqType
  <1>3. QED
    BY <1>1, <1>2 DEF Used

LEMMA MayBe ==
  /\ Own \in [Stop -> SUBSET Used] /\ On0 \in [Stop -> SUBSET Used] /\ On1 \in [Stop -> SUBSET Used]
  /\ Used \subseteq Data /\ \A x \in Used : <<x.src, x.dst>> \in Traffic
  /\ \A n \in Stop : \A x \in Used :
       /\ x \in Own[n] <=> x.src = n
       /\ x \in On0[n] <=> x.src <= n /\ (x.dst > x.src => n < x.dst)
       /\ x \in On1[n] <=> Crosses(x.src, x.dst) /\ n < x.dst
       /\ x.src \in Stop /\ x.dst \in Stop
  BY DEF Used, Own, On0, On1, Data

(* Where a message may go: a stop's own message onto chain 0, one to       *)
(* forward onto the next link of its chain, and at the primary onto chain  *)
(* 1.                                                                      *)
LEMMA SentOn0 ==
  ASSUME NEW n \in Stop, NEW x \in Own[n]
  PROVE  x \in On0[n]
  <1>1. x \in Used /\ x.src = n /\ x.dst \in Stop /\ n \in Nat
    BY MayBe, PrevStop
  <1>2. x.src <= n /\ (x.dst > x.src => n < x.dst)
    BY <1>1
  <1>3. QED
    BY <1>1, <1>2, MayBe

LEMMA ForwardedOn0 ==
  ASSUME NEW n \in Stop, n # Primary, NEW x \in On0[Prev(n)], x.dst # n
  PROVE  x \in On0[n]
  <1>1. n \in Nat /\ Prev(n) \in Stop /\ Prev(n) = n - 1
    BY PrevStop
  <1>2. x \in Used /\ x.src \in Stop /\ x.dst \in Stop
    BY <1>1, MayBe
  <1>3. x.src <= n - 1 /\ (x.dst > x.src => n - 1 < x.dst)
    BY <1>1, <1>2, MayBe
  <1>4. x.src \in Nat /\ x.dst \in Nat
    BY <1>2, PrevStop
  <1>5. x.src <= n /\ (x.dst > x.src => n < x.dst)
    BY <1>1, <1>3, <1>4
  <1>6. QED
    BY <1>2, <1>5, MayBe

LEMMA ForwardedOn1 ==
  ASSUME NEW n \in Stop, n # Primary, NEW x \in On1[Prev(n)], x.dst # n
  PROVE  x \in On1[n]
  <1>1. n \in Nat /\ Prev(n) \in Stop /\ Prev(n) = n - 1
    BY PrevStop
  <1>2. x \in Used /\ x.src \in Stop /\ x.dst \in Stop
    BY <1>1, MayBe
  <1>3. Crosses(x.src, x.dst) /\ n - 1 < x.dst
    BY <1>1, <1>2, MayBe
  <1>4. x.dst \in Nat
    BY <1>2, PrevStop
  <1>5. n < x.dst
    BY <1>1, <1>3, <1>4
  <1>6. QED
    BY <1>2, <1>3, <1>5, MayBe

LEMMA PassedDateline ==
  ASSUME NEW x \in On0[Prev(Primary)], x.dst # Primary
  PROVE  x \in On1[Primary]
  <1>1. Primary \in Stop /\ Prev(Primary) \in Stop /\ Prev(Primary) = N - 1
    BY PrevStop, RingAssumption, NtoNRingAssumption DEF Stop, Primary
  <1>2. x \in Used /\ x.src \in Stop /\ x.dst \in Stop
    BY <1>1, MayBe
  <1>3. x.dst > x.src => N - 1 < x.dst
    BY <1>1, <1>2, MayBe
  <1>4. Crosses(x.src, x.dst) /\ Primary < x.dst
    BY <1>2, <1>3, RingAssumption, NtoNRingAssumption DEF Stop, Crosses, Primary
  <1>5. QED
    BY <1>1, <1>2, <1>4, MayBe

(* Nothing may be on the link of chain 1 that enters the primary.          *)
LEMMA LastLinkOf1 == On1[Prev(Primary)] = {}
  <1>1. Primary \in Stop /\ Prev(Primary) \in Stop /\ Prev(Primary) = N - 1
    BY PrevStop, RingAssumption, NtoNRingAssumption DEF Stop, Primary
  <1>2. ASSUME NEW x \in On1[Prev(Primary)] PROVE FALSE
    <2>1. x \in Used /\ x.dst \in Stop
      BY <1>1, MayBe
    <2>2. N - 1 < x.dst
      BY <1>1, <2>1, MayBe
    <2>3. QED
      BY <2>1, <2>2, RingAssumption, NtoNRingAssumption DEF Stop
  <1>3. QED
    BY <1>2
-----------------------------------------------------------------------------
(* A link after deq, after enq where there is room, and after a message    *)
(* has passed the stop between two links.                                  *)
LEMMA Popped ==
  ASSUME NEW S, NEW l, Table(l, Stop, S), Fits(l), NEW n \in Stop, l[Prev(n)] # << >>,
         NEW l2, l2 = Pop(l, n)
  PROVE  Table(l2, Stop, S) /\ Fits(l2)
  <1>1. l2 = [l EXCEPT ![Prev(n)] = Tail(@)] /\ Prev(n) \in Stop
    BY PrevStop DEF Pop
  <1>2. Table(l2, Stop, S) /\ \A b \in Stop : Len(l2[b]) <= Len(l[b])
    BY <1>1, TableDeq
  <1>3. \A b \in Stop : Len(l2[b]) \in Nat /\ Len(l[b]) \in Nat /\ Len(l[b]) <= LinkCap
    BY <1>2 DEF Table, Fits
  <1>4. \A b \in Stop : Len(l2[b]) <= LinkCap
    BY <1>2, <1>3, RingAssumption, NtoNRingAssumption
  <1>5. QED
    BY <1>2, <1>4 DEF Fits

LEMMA Pushed ==
  ASSUME NEW S, NEW l, Table(l, Stop, S), Fits(l), NEW n \in Stop, Room(l, n), NEW x, x \in S[n],
         NEW l2, l2 = [l EXCEPT ![n] = Append(@, x)]
  PROVE  Table(l2, Stop, S) /\ Fits(l2)
  <1>1. Table(l2, Stop, S)
    BY TableEnq
  <1>2. Fits(l2)
    BY EnqFits, RingAssumption, NtoNRingAssumption DEF Fits, Room
  <1>3. QED
    BY <1>1, <1>2

LEMMA PassedOn ==
  ASSUME NEW S, NEW l, Table(l, Stop, S), Fits(l), NEW n \in Stop, l[Prev(n)] # << >>,
         Room(l, n), Head(l[Prev(n)]) \in S[n], NEW l2, l2 = Pass(l, n)
  PROVE  Table(l2, Stop, S) /\ Fits(l2)
  <1> DEFINE x  == Head(l[Prev(n)])
             l1 == Pop(l, n)
  <1>1. Table(l1, Stop, S) /\ Fits(l1)
    BY Popped
  <1>2. n \in Stop /\ Prev(n) \in Stop /\ Prev(n) # n
    BY PrevStop
  <1>3. l1[n] = l[n]
    BY <1>2 DEF Pop, Table
  <1>4. Room(l1, n)
    BY <1>3 DEF Room
  <1>5. l2 = [l1 EXCEPT ![n] = Append(@, x)]
    BY <1>2 DEF Pass, Pop
  <1>6. x \in S[n]
    OBVIOUS
  <1> HIDE DEF x, l1
  <1>7. Table(l2, Stop, S)
    BY <1>1, <1>5, <1>6, TableEnq
  <1>8. Fits(l2)
    BY <1>1, <1>4, <1>5, <1>6, EnqFits, RingAssumption, NtoNRingAssumption DEF Fits, Room
  <1>9. QED
    BY <1>7, <1>8

(* Whose turn it is stays a bit for each stop.                             *)
LEMMA Turns ==
  ASSUME NEW n \in Stop, NEW b \in BOOLEAN, localPrior \in [Stop -> BOOLEAN], UpdArbiter(n, b)
  PROVE  localPrior' \in [Stop -> BOOLEAN]
  BY DEF UpdArbiter
-----------------------------------------------------------------------------
(* Each rule and each method keeps IInv.                                   *)
LEMMA RecvFromRing0Inv ==
  ASSUME IInv, NEW n \in Stop, RecvFromRing0(n)
  PROVE  IInv'
  <1>1. link0[Prev(n)] # << >>
    BY DEF RecvFromRing0, CanRecv0, NewMsgIsForMe0, In0
  <1>2. Head(link0[Prev(n)]) \in Data
    BY <1>1, Waiting, MayBe DEF IInv
  <1>3. recvQ' \in [Stop -> Seq(Data)]
    BY <1>2, EnqType DEF IInv, RecvFromRing0, In0
  <1>4. Table(link0', Stop, On0) /\ Fits(link0')
    BY <1>1, Popped DEF IInv, RecvFromRing0
  <1>5. QED
    BY <1>3, <1>4 DEF IInv, RecvFromRing0

LEMMA RecvFromRing1Inv ==
  ASSUME IInv, NEW n \in Stop, RecvFromRing1(n)
  PROVE  IInv'
  <1>1. link1[Prev(n)] # << >>
    BY DEF RecvFromRing1, CanRecv1, NewMsgIsForMe1, In1
  <1>2. Head(link1[Prev(n)]) \in Data
    BY <1>1, Waiting, MayBe DEF IInv
  <1>3. recvQ' \in [Stop -> Seq(Data)]
    BY <1>2, EnqType DEF IInv, RecvFromRing1, In1
  <1>4. Table(link1', Stop, On1) /\ Fits(link1')
    BY <1>1, Popped DEF IInv, RecvFromRing1
  <1>5. QED
    BY <1>3, <1>4 DEF IInv, RecvFromRing1

LEMMA SendToRingInv ==
  ASSUME IInv, NEW n \in Stop, SendToRing(n)
  PROVE  IInv'
  <1> DEFINE x == Head(sendQ[n])
  <1>1. sendQ[n] # << >> /\ Room(link0, n) /\ sendQ[n] \in Seq(Own[n])
    BY DEF SendToRing, CanSend, IInv, Table
  <1>2. x \in On0[n]
    BY <1>1, DeqType, SentOn0
  <1>3. /\ link0' = [link0 EXCEPT ![n] = Append(@, x)]
        /\ sendQ' = [sendQ EXCEPT ![n] = Tail(@)]
        /\ UpdArbiter(n, FALSE) /\ UNCHANGED <<recvQ, chain0Prior, link1>>
    BY DEF SendToRing
  <1> HIDE DEF x
  <1>4. Table(link0', Stop, On0) /\ Fits(link0')
    BY <1>1, <1>2, <1>3, Pushed DEF IInv
  <1>5. Table(sendQ', Stop, Own)
    BY <1>1, <1>3, TableDeq DEF IInv
  <1>6. localPrior' \in [Stop -> BOOLEAN]
    BY <1>3, Turns DEF IInv
  <1>7. QED
    BY <1>3, <1>4, <1>5, <1>6 DEF IInv

LEMMA ForwardOnRing0Inv ==
  ASSUME IInv, NEW n \in Stop, ForwardOnRing0(n)
  PROVE  IInv'
  <1> DEFINE x == Head(link0[Prev(n)])
  <1>1. n # Primary /\ link0[Prev(n)] # << >> /\ x.dst # n /\ Room(link0, n)
    BY DEF ForwardOnRing0, Transit0, NewMsgIsForMe0, In0
  <1>2. x \in On0[Prev(n)]
    BY <1>1, Waiting, MayBe DEF IInv
  <1>3. x \in On0[n]
    BY <1>1, <1>2, ForwardedOn0
  <1>4. Table(link0', Stop, On0) /\ Fits(link0')
    BY <1>1, <1>3, PassedOn DEF IInv, ForwardOnRing0
  <1>5. localPrior' \in [Stop -> BOOLEAN]
    BY Turns DEF IInv, ForwardOnRing0
  <1>6. QED
    BY <1>4, <1>5 DEF IInv, ForwardOnRing0

LEMMA ForwardOnRing1Inv ==
  ASSUME IInv, NEW n \in Stop, ForwardOnRing1(n)
  PROVE  IInv'
  <1> DEFINE x == Head(link1[Prev(n)])
  <1>1. n # Primary /\ link1[Prev(n)] # << >> /\ x.dst # n /\ Room(link1, n)
    BY DEF ForwardOnRing1, Transit1, NewMsgIsForMe1, In1
  <1>2. x \in On1[Prev(n)]
    BY <1>1, Waiting, MayBe DEF IInv
  <1>3. x \in On1[n]
    BY <1>1, <1>2, ForwardedOn1
  <1>4. Table(link1', Stop, On1) /\ Fits(link1')
    BY <1>1, <1>3, PassedOn DEF IInv, ForwardOnRing1
  <1>5. QED
    BY <1>4 DEF IInv, ForwardOnRing1

LEMMA ForwardOnRingPrimaryInv ==
  ASSUME IInv, ForwardOnRingPrimary
  PROVE  IInv'
  <1> DEFINE x == Head(link0[Prev(Primary)])
  <1>1. /\ link0[Prev(Primary)] # << >> /\ x.dst # Primary
        /\ Room(link1, Primary) /\ Primary \in Stop
    BY PrevStop, RingAssumption, NtoNRingAssumption
    DEF ForwardOnRingPrimary, AcrossDateline, Transit0, NewMsgIsForMe0, In0, Stop, Primary
  <1>2. x \in On0[Prev(Primary)]
    BY <1>1, Waiting, MayBe DEF IInv
  <1>3. x \in On1[Primary]
    BY <1>1, <1>2, PassedDateline
  <1>4. /\ link1' = [link1 EXCEPT ![Primary] = Append(@, x)]
        /\ link0' = Pop(link0, Primary)
        /\ UNCHANGED <<recvQ, sendQ, chain0Prior, localPrior>>
    BY DEF ForwardOnRingPrimary, AcrossDateline, In0
  <1> HIDE DEF x
  <1>5. Table(link1', Stop, On1) /\ Fits(link1')
    BY <1>1, <1>3, <1>4, Pushed DEF IInv
  <1>6. Table(link0', Stop, On0) /\ Fits(link0')
    BY <1>1, <1>4, Popped DEF IInv
  <1>7. QED
    BY <1>4, <1>5, <1>6 DEF IInv

LEMMA EnqInv ==
  ASSUME IInv, NEW n \in Stop, NEW d \in Stop, NEW m \in Msg, Enq(n, d, m)
  PROVE  IInv'
  <1> DEFINE x == [src |-> n, dst |-> d, msg |-> m]
  <1>1. x \in Own[n]
    BY DEF Enq, Own, Used, Data
  <1>2. sendQ' = [sendQ EXCEPT ![n] = Append(@, x)]
    BY DEF Enq
  <1> HIDE DEF x
  <1>3. Table(sendQ', Stop, Own)
    BY <1>1, <1>2, TableEnq DEF IInv
  <1>4. QED
    BY <1>3 DEF IInv, Enq

LEMMA DeqInv ==
  ASSUME IInv, NEW n \in Stop, Deq(n)
  PROVE  IInv'
  <1>1. recvQ' \in [Stop -> Seq(Data)]
    BY DeqType DEF IInv, Deq
  <1>2. QED
    BY <1>1 DEF IInv, Deq
-----------------------------------------------------------------------------
(* The rings start empty.                                                  *)
LEMMA IInvInit == Init => IInv
  <1> SUFFICES ASSUME Init PROVE IInv
    OBVIOUS
  <1>1. /\ recvQ \in [Stop -> Seq(Data)]
        /\ chain0Prior \in [Stop -> BOOLEAN] /\ localPrior \in [Stop -> BOOLEAN]
    BY DEF Init
  <1>2. Table(sendQ, Stop, Own) /\ Table(link0, Stop, On0) /\ Table(link1, Stop, On1)
    BY DEF Init, Table
  <1>3. \A n \in Stop : Len(link0[n]) = 0 /\ Len(link1[n]) = 0
    BY DEF Init
  <1>4. Fits(link0) /\ Fits(link1)
    BY <1>3, RingAssumption, NtoNRingAssumption DEF Fits
  <1>5. QED
    BY <1>1, <1>2, <1>4 DEF IInv

LEMMA IInvStep == IInv /\ [Next]_vars => IInv'
  <1> SUFFICES ASSUME IInv, [Next]_vars PROVE IInv'
    OBVIOUS
  <1>1. ASSUME NEW n \in Stop, RecvFromRing0(n) PROVE IInv'
    BY <1>1, RecvFromRing0Inv
  <1>2. ASSUME NEW n \in Stop, RecvFromRing1(n) PROVE IInv'
    BY <1>2, RecvFromRing1Inv
  <1>3. ASSUME NEW n \in Stop, SendToRing(n) PROVE IInv'
    BY <1>3, SendToRingInv
  <1>4. ASSUME NEW n \in Stop, ForwardOnRing0(n) PROVE IInv'
    BY <1>4, ForwardOnRing0Inv
  <1>5. ASSUME NEW n \in Stop, ForwardOnRing1(n) PROVE IInv'
    BY <1>5, ForwardOnRing1Inv
  <1>6. ASSUME NEW n \in Stop, Deq(n) PROVE IInv'
    BY <1>6, DeqInv
  <1>7. CASE ForwardOnRingPrimary
    BY <1>7, ForwardOnRingPrimaryInv
  <1>8. ASSUME NEW n \in Stop, NEW d \in Stop, NEW m \in Msg, Enq(n, d, m) PROVE IInv'
    BY <1>8, EnqInv
  <1>9. CASE UNCHANGED vars
    BY <1>9 DEF IInv, vars
  <1>10. QED
    BY <1>1, <1>2, <1>3, <1>4, <1>5, <1>6, <1>7, <1>8, <1>9 DEF Next

(* The strengthening holds in every state of every ring.                   *)
THEOREM NtoNRingInvariant == Spec => []IInv
<1>1. QED
  BY IInvInit, IInvStep, PTL DEF Spec

LEMMA IInvTypeOK == IInv => TypeOK
  <1> SUFFICES ASSUME IInv PROVE TypeOK
    OBVIOUS
  <1>1. \A n \in Stop : Own[n] \subseteq Data /\ On0[n] \subseteq Data /\ On1[n] \subseteq Data
    BY MayBe
  <1>2. \A n \in Stop : /\ Seq(Own[n]) \subseteq Seq(Data)
                        /\ Seq(On0[n]) \subseteq Seq(Data) /\ Seq(On1[n]) \subseteq Seq(Data)
    BY <1>1, SeqSubset
  <1>3. \A n \in Stop : sendQ[n] \in Seq(Data) /\ link0[n] \in Seq(Data) /\ link1[n] \in Seq(Data)
    BY <1>2 DEF IInv, Table
  <1>4. /\ sendQ \in [Stop -> Seq(Data)] /\ link0 \in [Stop -> Seq(Data)]
        /\ link1 \in [Stop -> Seq(Data)]
    BY <1>3 DEF IInv, Table
  <1>5. QED
    BY <1>4 DEF IInv, TypeOK, Fits

LEMMA IInvDateline == IInv => Dateline
  <1> SUFFICES ASSUME IInv PROVE Dateline
    OBVIOUS
  <1>1. link1[Prev(Primary)] = << >>
    <2>1. Prev(Primary) \in Stop
      BY PrevStop, RingAssumption, NtoNRingAssumption DEF Stop, Primary
    <2>2. link1[Prev(Primary)] \in Seq({})
      BY <2>1, LastLinkOf1 DEF IInv, Table
    <2>3. QED
      BY <2>2
  <1>2. ASSUME NEW n \in Stop, NEW i \in DOMAIN link0[n]
        PROVE  LET x == link0[n][i] IN x.src <= n /\ (x.dst > x.src => n < x.dst)
    <2>1. link0[n] \in Seq(On0[n])
      BY DEF IInv, Table
    <2>2. link0[n][i] \in On0[n]
      BY <1>2, <2>1
    <2>3. QED
      BY <2>2, MayBe DEF On0
  <1>3. ASSUME NEW n \in Stop, NEW i \in DOMAIN link1[n]
        PROVE  LET x == link1[n][i] IN Crosses(x.src, x.dst) /\ n < x.dst
    <2>1. link1[n] \in Seq(On1[n])
      BY DEF IInv, Table
    <2>2. link1[n][i] \in On1[n]
      BY <1>3, <2>1
    <2>3. QED
      BY <2>2 DEF On1
  <1>4. QED
    BY <1>1, <1>2, <1>3 DEF Dateline

(* Rule recvRing1Primary of addressable-ring.bsv, which "should not fire"  *)
(* and would drop its message, never can, and no message goes on past its  *)
(* destination or, on one chain, past the dateline: for any number of      *)
(* stops, any traffic, any sizes and every ADDR_RING_MSG_MODE.             *)
THEOREM NtoNRingSafe == Spec => []RingInv
<1>1. IInv => RingInv
  BY IInvTypeOK, IInvDateline DEF RingInv
<1>2. QED
  BY <1>1, NtoNRingInvariant, PTL
-----------------------------------------------------------------------------
(* The ring as a reliable network.  The queues a message may be in as one  *)
(* table: of each stop its link of chain 0, its link of chain 1 and its    *)
(* sendQ.                                                                  *)
L0(n)  == <<0, n>>
L1(n)  == <<1, n>>
Q(n)   == <<2, n>>
Places == {0, 1, 2} \X Stop
Held(l0, l1, q) ==
  [p \in Places |-> IF p[1] = 0 THEN l0[p[2]] ELSE IF p[1] = 1 THEN l1[p[2]] ELSE q[p[2]]]

LEMMA PlaceOf ==
  /\ \A n \in Stop : L0(n) \in Places /\ L1(n) \in Places /\ Q(n) \in Places
  /\ \A n, m : /\ L0(n) # L1(m) /\ L0(n) # Q(m) /\ L1(n) # Q(m)
               /\ (L0(n) = L0(m) => n = m) /\ (L1(n) = L1(m) => n = m) /\ (Q(n) = Q(m) => n = m)
  /\ \A p \in Places : \E n \in Stop : p = L0(n) \/ p = L1(n) \/ p = Q(n)
  <1>1. \A n \in Stop : L0(n) \in Places /\ L1(n) \in Places /\ Q(n) \in Places
    BY DEF L0, L1, Q, Places
  <1>2. \A n, m : /\ L0(n) # L1(m) /\ L0(n) # Q(m) /\ L1(n) # Q(m)
                  /\ (L0(n) = L0(m) => n = m) /\ (L1(n) = L1(m) => n = m) /\ (Q(n) = Q(m) => n = m)
    BY DEF L0, L1, Q
  <1>3. ASSUME NEW p \in Places
        PROVE  \E n \in Stop : p = L0(n) \/ p = L1(n) \/ p = Q(n)
    BY DEF L0, L1, Q, Places
  <1>4. QED
    BY <1>1, <1>2, <1>3

LEMMA HeldAt ==
  ASSUME NEW l0, NEW l1, NEW q
  PROVE  \A n \in Stop : /\ Held(l0, l1, q)[L0(n)] = l0[n] /\ Held(l0, l1, q)[L1(n)] = l1[n]
                         /\ Held(l0, l1, q)[Q(n)] = q[n]
  <1>1. ASSUME NEW n \in Stop
        PROVE  /\ Held(l0, l1, q)[L0(n)] = l0[n] /\ Held(l0, l1, q)[L1(n)] = l1[n]
               /\ Held(l0, l1, q)[Q(n)] = q[n]
    <2>1. L0(n) \in Places /\ L0(n)[1] = 0 /\ L0(n)[2] = n
      BY DEF L0, Places
    <2>2. L1(n) \in Places /\ L1(n)[1] = 1 /\ L1(n)[2] = n
      BY DEF L1, Places
    <2>3. Q(n) \in Places /\ Q(n)[1] = 2 /\ Q(n)[2] = n
      BY DEF Q, Places
    <2>4. QED
      BY <2>1, <2>2, <2>3 DEF Held
  <1>2. QED
    BY <1>1

(* The messages that may be in each of them.                               *)
May == Held(On0, On1, Own)

LEMMA MayAt ==
  \A n \in Stop : May[L0(n)] = On0[n] /\ May[L1(n)] = On1[n] /\ May[Q(n)] = Own[n]
  BY HeldAt DEF May

LEMMA MayHold ==
  ASSUME IInv
  PROVE  Table(Held(link0, link1, sendQ), Places, May) /\ Filled(Held(link0, link1, sendQ), Places, Data)
  <1> DEFINE t == Held(link0, link1, sendQ)
  <1>1. \A n \in Stop : link0[n] \in Seq(On0[n]) /\ link1[n] \in Seq(On1[n]) /\ sendQ[n] \in Seq(Own[n])
    BY DEF IInv, Table
  <1>2. \A n \in Stop : t[L0(n)] \in Seq(May[L0(n)]) /\ t[L1(n)] \in Seq(May[L1(n)]) /\ t[Q(n)] \in Seq(May[Q(n)])
    BY <1>1, HeldAt, MayAt
  <1>3. t = [p \in Places |-> t[p]]
    BY DEF Held
  <1> HIDE DEF t
  <1>4. \A p \in Places : t[p] \in Seq(May[p])
    BY <1>2, PlaceOf
  <1>5. \A n \in Stop : May[L0(n)] \subseteq Data /\ May[L1(n)] \subseteq Data /\ May[Q(n)] \subseteq Data
    BY MayAt, MayBe
  <1>6. \A p \in Places : May[p] \subseteq Data
    BY <1>5, PlaceOf
  <1>7. \A p \in Places : Seq(May[p]) \subseteq Seq(Data)
    BY <1>6, SeqSubset
  <1>8. QED
    BY <1>3, <1>4, <1>7 DEF Table, Filled, t

(* No message from s to d may be in p.                                     *)
Clear(p, s, d) == \A x \in May[p] : ~(x.src = s /\ x.dst = d)

LEMMA ClearOf ==
  ASSUME NEW s \in Stop, NEW d \in Stop, NEW n \in Stop
  PROVE  /\ ~(s <= n /\ (d > s => n < d)) => Clear(L0(n), s, d)
         /\ ~(Crosses(s, d) /\ n < d) => Clear(L1(n), s, d)
  <1>1. May[L0(n)] = On0[n] /\ May[L1(n)] = On1[n]
    BY MayAt
  <1>2. QED
    BY <1>1, MayBe DEF Clear, On0, On1
-----------------------------------------------------------------------------
(* The way from s to d, last queue first: chain 1 from d back, chain 0     *)
(* from its end for these two stops back, sendQ.                           *)
End0(s, d)   == IF Crosses(s, d) THEN Primary ELSE d
Slots        == 1 .. 2 * N + 1
Slot1(n, d)  == LinksTo(N, n, d)
Slot0(n, e)  == N + LinksTo(N, n, e)
TheWay(s, d) == [k \in Slots |-> IF k <= N THEN L1(LinkTo(N, d, k))
                                 ELSE IF k <= 2 * N THEN L0(LinkTo(N, End0(s, d), k - N))
                                 ELSE Q(s)]

LEMMA Stops ==
  /\ N \in Nat \ {0} /\ N \in Nat \ {0, 1} /\ Stop = RingOf(N) /\ Primary \in Stop
  /\ \A s, d \in Stop : End0(s, d) \in Stop
  /\ \A n : Prev(n) = Pre(N, n)
  /\ 2 * N + 1 \in Nat /\ 2 * N + 1 # 0 /\ 2 * N + 1 \in Slots
  BY RingAssumption, NtoNRingAssumption DEF Stop, RingOf, Primary, End0, Prev, Pre, Slots

LEMMA SlotOf ==
  ASSUME NEW n \in Stop, NEW d \in Stop
  PROVE  /\ Slot1(n, d) \in Slots /\ Slot1(n, d) <= N /\ LinkTo(N, d, Slot1(n, d)) = n
         /\ Slot0(n, d) \in Slots /\ ~(Slot0(n, d) <= N) /\ Slot0(n, d) <= 2 * N
         /\ LinkTo(N, d, Slot0(n, d) - N) = n
  <1>1. LinksTo(N, n, d) \in 1 .. N /\ LinkTo(N, d, LinksTo(N, n, d)) = n
    BY Stops, RingGeometry DEF Links
  <1>2. (N + LinksTo(N, n, d)) - N = LinksTo(N, n, d)
    BY <1>1, Stops
  <1>3. QED
    BY <1>1, <1>2, Stops DEF Slot1, Slot0, Slots

LEMMA SlotIs ==
  ASSUME NEW d \in Stop, NEW e \in Stop, NEW k \in Slots
  PROVE  \/ k <= N /\ \E n \in Stop : k = Slot1(n, d)
         \/ ~(k <= N) /\ k <= 2 * N /\ \E n \in Stop : k = Slot0(n, e)
         \/ k = 2 * N + 1
  <1>1. CASE k <= N
    <2>1. k \in Links(N)
      BY <1>1, Stops DEF Links, Slots
    <2>2. LinkTo(N, d, k) \in Stop /\ k = LinksTo(N, LinkTo(N, d, k), d)
      BY <2>1, Stops, RingGeometry
    <2>3. QED
      BY <1>1, <2>2 DEF Slot1
  <1>2. CASE ~(k <= N) /\ k <= 2 * N
    <2> DEFINE j == k - N
    <2>1. j \in Links(N) /\ k = N + j
      BY <1>2, Stops DEF Links, Slots
    <2> HIDE DEF j
    <2>2. LinkTo(N, e, j) \in Stop /\ j = LinksTo(N, LinkTo(N, e, j), e)
      BY <2>1, Stops, RingGeometry
    <2>3. QED
      BY <1>2, <2>1, <2>2 DEF Slot0
  <1>3. CASE ~(k <= 2 * N)
    BY <1>3, Stops DEF Slots
  <1>4. QED
    BY <1>1, <1>2, <1>3, Stops DEF Slots

LEMMA WayIs ==
  ASSUME NEW s \in Stop, NEW d \in Stop
  PROVE  /\ \A n \in Stop : /\ TheWay(s, d)[Slot1(n, d)] = L1(n)
                            /\ TheWay(s, d)[Slot0(n, End0(s, d))] = L0(n)
         /\ TheWay(s, d)[2 * N + 1] = Q(s)
         /\ Way(TheWay(s, d), 2 * N + 1, Places)
  <1> DEFINE e  == End0(s, d)
             at == TheWay(s, d)
  <1>1. e \in Stop
    BY Stops
  <1>2. \A k \in Slots : at[k] = IF k <= N THEN L1(LinkTo(N, d, k))
                                 ELSE IF k <= 2 * N THEN L0(LinkTo(N, e, k - N)) ELSE Q(s)
    BY DEF TheWay
  <1> HIDE DEF at, e
  <1>3. ASSUME NEW n \in Stop PROVE at[Slot1(n, d)] = L1(n) /\ at[Slot0(n, e)] = L0(n)
    BY <1>1, <1>2, SlotOf
  <1>4. at[2 * N + 1] = Q(s)
    BY <1>2, Stops
  <1>5. \A k \in Slots : at[k] \in Places
    BY <1>1, <1>3, <1>4, SlotIs, PlaceOf
  <1>6. ASSUME NEW j \in Slots, NEW k \in Slots, at[j] = at[k] PROVE j = k
    <2>1. \/ \E n \in Stop : j = Slot1(n, d)
          \/ \E n \in Stop : j = Slot0(n, e)
          \/ j = 2 * N + 1
      BY <1>1, SlotIs
    <2>2. \/ \E n \in Stop : k = Slot1(n, d)
          \/ \E n \in Stop : k = Slot0(n, e)
          \/ k = 2 * N + 1
      BY <1>1, SlotIs
    <2>3. QED
      BY <1>3, <1>4, <1>6, <2>1, <2>2, PlaceOf
  <1>7. Way(at, 2 * N + 1, Places)
    BY <1>5, <1>6 DEF Way, Slots
  <1>8. QED
    BY <1>3, <1>4, <1>7 DEF at, e
-----------------------------------------------------------------------------
(* On the way from s to d, u comes after v and no message of the two may   *)
(* be between; none may be behind v.                                       *)
ClearBetween(s, d, a, b) == \A k \in Slots : a < k /\ k < b => Clear(TheWay(s, d)[k], s, d)
Ahead(u, v, s, d) ==
  \E a, b \in Slots : /\ a < b /\ TheWay(s, d)[a] = u /\ TheWay(s, d)[b] = v
                      /\ ClearBetween(s, d, a, b)
Last(v, s, d) == \E a \in Slots : TheWay(s, d)[a] = v /\ ClearBetween(s, d, 0, a)

(* sendToRing: past its source no message is on chain 0.                   *)
LEMMA SendAhead ==
  ASSUME NEW s \in Stop, NEW d \in Stop
  PROVE  Ahead(L0(s), Q(s), s, d)
  <1> DEFINE e == End0(s, d)
             a == Slot0(s, e)
             b == 2 * N + 1
  <1>1. e \in Stop /\ a \in Slots /\ a <= 2 * N /\ ~(a <= N) /\ b \in Slots
    BY Stops, SlotOf
  <1>2. TheWay(s, d)[a] = L0(s) /\ TheWay(s, d)[b] = Q(s) /\ a < b
    BY <1>1, WayIs, Stops DEF Slots
  <1>3. ASSUME NEW k \in Slots, a < k, k < b PROVE Clear(TheWay(s, d)[k], s, d)
    <2>1. ~(k <= N) /\ k # b
      BY <1>1, <1>3, Stops DEF Slots
    <2>2. PICK n \in Stop : k = Slot0(n, e)
      BY <1>1, <2>1, SlotIs
    <2>3. LinksTo(N, n, e) > LinksTo(N, s, e)
      BY <1>1, <1>3, <2>2, RingGeometry, Stops DEF Slot0, Links
    <2>4. ~(s <= n /\ (d > s => n < d))
      BY <2>3, RingAssumption, NtoNRingAssumption DEF e, End0, Crosses, Primary, LinksTo, Stop
    <2>5. TheWay(s, d)[k] = L0(n)
      BY <2>2, WayIs
    <2>6. QED
      BY <2>4, <2>5, ClearOf
  <1> HIDE DEF a, b
  <1>4. QED
    BY <1>1, <1>2, <1>3 DEF Ahead, ClearBetween

(* forwardOnRing0 and forwardOnRing1: from a link to the next one.         *)
LEMMA Forward0Ahead ==
  ASSUME NEW s \in Stop, NEW d \in Stop, NEW n \in Stop, n # Primary, n # d
  PROVE  Ahead(L0(n), L0(Prev(n)), s, d)
  <1> DEFINE e == End0(s, d)
             a == Slot0(n, e)
             b == Slot0(Prev(n), e)
  <1>1. e \in Stop /\ n # e /\ Prev(n) \in Stop
    BY Stops, PrevStop DEF End0
  <1>2. a \in Slots /\ b \in Slots /\ TheWay(s, d)[a] = L0(n) /\ TheWay(s, d)[b] = L0(Prev(n))
    BY <1>1, SlotOf, WayIs
  <1>3. b = a + 1
    <2>1. LinksTo(N, Prev(n), e) = LinksTo(N, n, e) + 1 /\ LinksTo(N, n, e) \in Links(N)
      BY <1>1, Stops, NextLink, RingGeometry
    <2>2. QED
      BY <2>1, Stops DEF Slot0, Links
  <1> HIDE DEF a, b
  <1>4. a < b /\ \A k \in Slots : ~(a < k /\ k < b)
    BY <1>2, <1>3 DEF Slots
  <1>5. QED
    BY <1>2, <1>4 DEF Ahead, ClearBetween

LEMMA Forward1Ahead ==
  ASSUME NEW s \in Stop, NEW d \in Stop, NEW n \in Stop, n # d
  PROVE  Ahead(L1(n), L1(Prev(n)), s, d)
  <1> DEFINE a == Slot1(n, d)
             b == Slot1(Prev(n), d)
  <1>1. Prev(n) \in Stop
    BY PrevStop
  <1>2. a \in Slots /\ b \in Slots /\ TheWay(s, d)[a] = L1(n) /\ TheWay(s, d)[b] = L1(Prev(n))
    BY <1>1, SlotOf, WayIs
  <1>3. b = a + 1
    BY Stops, NextLink DEF Slot1
  <1> HIDE DEF a, b
  <1>4. a < b /\ \A k \in Slots : ~(a < k /\ k < b)
    BY <1>2, <1>3 DEF Slots
  <1>5. QED
    BY <1>2, <1>4 DEF Ahead, ClearBetween

(* forwardOnRingPrimary: past its destination no message is on chain 1.    *)
LEMMA DatelineAhead ==
  ASSUME NEW s \in Stop, NEW d \in Stop, Crosses(s, d)
  PROVE  Ahead(L1(Primary), L0(Prev(Primary)), s, d)
  <1> DEFINE p == Prev(Primary)
             e == End0(s, d)
             a == Slot1(Primary, d)
             b == Slot0(p, e)
  <1>1. e = Primary /\ e \in Stop /\ p \in Stop /\ Primary \in Stop /\ d # Primary
    BY Stops, PrevStop DEF End0, Crosses
  <1>2. /\ a \in Slots /\ a <= N /\ b \in Slots
        /\ TheWay(s, d)[a] = L1(Primary) /\ TheWay(s, d)[b] = L0(p)
    BY <1>1, SlotOf, WayIs
  <1>3. LinksTo(N, p, e) = 1
    BY <1>1, Stops, NextLink
  <1>4. b = N + 1
    BY <1>3 DEF Slot0
  <1>5. a = d
    BY <1>1, RingAssumption, NtoNRingAssumption DEF Slot1, LinksTo, Primary, Stop
  <1>6. ASSUME NEW k \in Slots, a < k, k < b PROVE Clear(TheWay(s, d)[k], s, d)
    <2>1. k <= N
      BY <1>4, <1>6, Stops DEF Slots
    <2>2. PICK n \in Stop : k = Slot1(n, d)
      BY <1>1, <2>1, Stops, SlotIs
    <2>3. ~(n < d)
      BY <1>5, <1>6, <2>2, RingAssumption, NtoNRingAssumption DEF Slot1, LinksTo, Stop
    <2>4. TheWay(s, d)[k] = L1(n)
      BY <2>2, WayIs
    <2>5. QED
      BY <2>3, <2>4, ClearOf
  <1>7. a < b
    BY <1>2, <1>4, Stops DEF Slots
  <1> HIDE DEF a, b
  <1>8. QED
    BY <1>2, <1>6, <1>7 DEF Ahead, ClearBetween, p

(* recvFromRing1 and recvFromRing0: a message that is taken off chain 0    *)
(* has none before it on chain 1.                                          *)
LEMMA Recv1Last ==
  ASSUME NEW s \in Stop, NEW d \in Stop
  PROVE  Last(L1(Prev(d)), s, d)
  <1> DEFINE a == Slot1(Prev(d), d)
  <1>1. Prev(d) \in Stop
    BY PrevStop
  <1>2. a \in Slots /\ TheWay(s, d)[a] = L1(Prev(d))
    BY <1>1, SlotOf, WayIs
  <1>3. a = 1
    BY Stops, NextLink DEF Slot1
  <1> HIDE DEF a
  <1>4. \A k \in Slots : ~(0 < k /\ k < a)
    BY <1>3 DEF Slots
  <1>5. QED
    BY <1>2, <1>4 DEF Last, ClearBetween

LEMMA Recv0Last ==
  ASSUME NEW s \in Stop, NEW d \in Stop, ~Crosses(s, d)
  PROVE  Last(L0(Prev(d)), s, d)
  <1> DEFINE a == Slot0(Prev(d), d)
  <1>1. Prev(d) \in Stop /\ End0(s, d) = d
    BY PrevStop DEF End0
  <1>2. a \in Slots /\ TheWay(s, d)[a] = L0(Prev(d))
    BY <1>1, SlotOf, WayIs
  <1>3. LinksTo(N, Prev(d), d) = 1
    BY Stops, NextLink
  <1>4. a = N + 1
    BY <1>3 DEF Slot0
  <1>5. ASSUME NEW k \in Slots, 0 < k, k < a PROVE Clear(TheWay(s, d)[k], s, d)
    <2>1. k <= N
      BY <1>4, <1>5, Stops DEF Slots
    <2>2. PICK n \in Stop : k = Slot1(n, d)
      BY <2>1, Stops, SlotIs
    <2>3. TheWay(s, d)[k] = L1(n)
      BY <2>2, WayIs
    <2>4. QED
      BY <2>3, ClearOf
  <1> HIDE DEF a
  <1>6. QED
    BY <1>2, <1>5 DEF Last, ClearBetween

(* What may arrive for stop n on chain 0 does not cross the dateline.      *)
LEMMA ArrivesOn0 ==
  ASSUME NEW n \in Stop, NEW x \in On0[Prev(n)], x.dst = n
  PROVE  ~Crosses(x.src, x.dst)
  <1>1. /\ n \in Nat /\ Prev(n) \in Stop /\ (n # Primary => Prev(n) = n - 1)
    BY PrevStop
  <1>2. x \in Used /\ x.src \in Stop /\ x.dst \in Stop
    BY <1>1, MayBe
  <1>3. x.src <= Prev(n)
    BY <1>1, <1>2, MayBe
  <1>4. QED
    BY <1>1, <1>2, <1>3, RingAssumption, NtoNRingAssumption DEF Crosses, Stop, Primary
-----------------------------------------------------------------------------
(* The messages from s to d in the queues t.                               *)
OnWay(t, s, d)  == InLine(Route(t, TheWay(s, d), 2 * N + 1), 2 * N + 1, Of(s, d))
SameWays(t, t2) == \A s, d \in Stop : OnWay(t2, s, d) = OnWay(t, s, d)
Ready(t)        == Table(t, Places, May) /\ Filled(t, Places, Data)

LEMMA OfIs ==
  ASSUME NEW s \in Stop, NEW d \in Stop
  PROVE  /\ Says(Of(s, d), Msg)
         /\ \A x \in Data : x \in Of(s, d) <=> x.src = s /\ x.dst = d
         /\ \A x \in Of(s, d) : x.src = s /\ x.dst = d
  BY DEF Says, Of, Data

LEMMA ClearFree ==
  ASSUME NEW t, Ready(t), NEW s \in Stop, NEW d \in Stop, NEW a, NEW b, ClearBetween(s, d, a, b)
  PROVE  NoneBetween(Route(t, TheWay(s, d), 2 * N + 1), 2 * N + 1, Of(s, d), a, b)
  <1> DEFINE at == TheWay(s, d)
             P  == Route(t, at, 2 * N + 1)
             T  == Of(s, d)
  <1>1. \A k \in Slots : at[k] \in Places /\ P[k] = t[at[k]]
    BY WayIs DEF Way, Route, Slots
  <1>2. ASSUME NEW p \in Places, Clear(p, s, d) PROVE Free(t[p], T)
    <2>1. t[p] \in Seq(May[p])
      BY DEF Ready, Table
    <2>2. \A i \in 1 .. Len(t[p]) : t[p][i] \in May[p]
      BY <2>1
    <2>3. QED
      BY <1>2, <2>2, OfIs DEF Clear, Free
  <1> HIDE DEF P, T
  <1>3. \A k \in Slots : a < k /\ k < b => Free(P[k], T)
    BY <1>1, <1>2 DEF ClearBetween
  <1>4. QED
    BY <1>3 DEF NoneBetween, Slots, P, T

(* A message goes from queue v to queue u.                                 *)
Moved(t, t2, u, v) ==
  /\ u # v /\ t[v] # << >>
  /\ Enqueued(t2[u], t[u], Head(t[v])) /\ Dequeued(t2[v], t[v]) /\ Rest(t, t2, Places, {u, v})

LEMMA MoveStep ==
  ASSUME NEW t, Ready(t), NEW u \in Places, NEW v \in Places, NEW t2, Moved(t, t2, u, v),
         NEW x, x = Head(t[v]), Ahead(u, v, x.src, x.dst)
  PROVE  SameWays(t, t2)
  <1>1. ASSUME NEW s \in Stop, NEW d \in Stop PROVE OnWay(t2, s, d) = OnWay(t, s, d)
    <2> DEFINE at == TheWay(s, d)
               n  == 2 * N + 1
               T  == Of(s, d)
    <2>1. x \in T => Before(t, at, n, T, u, v)
      <3> SUFFICES ASSUME x \in T PROVE Before(t, at, n, T, u, v)
        OBVIOUS
      <3>1. x.src = s /\ x.dst = d
        BY OfIs
      <3>2. PICK a \in Slots, b \in Slots :
              a < b /\ at[a] = u /\ at[b] = v /\ ClearBetween(s, d, a, b)
        BY <3>1 DEF Ahead
      <3>3. NoneBetween(Route(t, at, n), n, T, a, b)
        BY <3>2, ClearFree
      <3>4. QED
        BY <3>2, <3>3 DEF Before, Slots
    <2>2. /\ Says(T, Msg) /\ n \in Nat /\ Way(at, n, Places) /\ Filled(t, Places, Data)
          /\ u \in Places /\ v \in Places /\ u # v /\ t[v] # << >>
          /\ (Head(t[v]) \in T => Before(t, at, n, T, u, v))
          /\ Enqueued(t2[u], t[u], Head(t[v])) /\ Dequeued(t2[v], t[v]) /\ Rest(t, t2, Places, {u, v})
      BY <2>1, Stops, WayIs, OfIs DEF Ready, Moved
    <2> HIDE DEF at, n, T
    <2>3. InLine(Route(t2, at, n), n, T) = InLine(Route(t, at, n), n, T)
      BY ONLY <2>2, Hop
    <2>4. QED
      BY <2>3 DEF OnWay, at, n, T
  <1>2. QED
    BY <1>1 DEF SameWays

(* A message leaves the ring from queue v.                                 *)
LEMMA LeaveStep ==
  ASSUME NEW t, Ready(t), NEW v \in Places, t[v] # << >>, NEW t2,
         Dequeued(t2[v], t[v]), SameBar(t, t2, Places, v),
         NEW x, x = Head(t[v]), x \in Data, Last(v, x.src, x.dst)
  PROVE  \A s, d \in Stop : IF x.src = s /\ x.dst = d
                            THEN Gave(OnWay(t2, s, d), OnWay(t, s, d), x.msg)
                            ELSE OnWay(t2, s, d) = OnWay(t, s, d)
  <1>1. ASSUME NEW s \in Stop, NEW d \in Stop
        PROVE  IF x.src = s /\ x.dst = d
               THEN Gave(OnWay(t2, s, d), OnWay(t, s, d), x.msg)
               ELSE OnWay(t2, s, d) = OnWay(t, s, d)
    <2> DEFINE at == TheWay(s, d)
               n  == 2 * N + 1
               T  == Of(s, d)
    <2>1. x \in T => First(t, at, n, T, v)
      <3> SUFFICES ASSUME x \in T PROVE First(t, at, n, T, v)
        OBVIOUS
      <3>1. x.src = s /\ x.dst = d
        BY OfIs
      <3>2. PICK a \in Slots : at[a] = v /\ ClearBetween(s, d, 0, a)
        BY <3>1 DEF Last
      <3>3. NoneBetween(Route(t, at, n), n, T, 0, a)
        BY <3>2, ClearFree
      <3>4. QED
        BY <3>2, <3>3 DEF First, Slots
    <2>2. /\ Says(T, Msg) /\ n \in Nat /\ Way(at, n, Places) /\ Filled(t, Places, Data)
          /\ (Head(t[v]) \in T => First(t, at, n, T, v))
      BY <2>1, Stops, WayIs, OfIs DEF Ready
    <2>3. x \in T <=> x.src = s /\ x.dst = d
      BY OfIs
    <2> HIDE DEF at, n, T
    <2>4. /\ Head(t[v]) \notin T => InLine(Route(t2, at, n), n, T) = InLine(Route(t, at, n), n, T)
          /\ Head(t[v]) \in T => Gave(InLine(Route(t2, at, n), n, T),
                                      InLine(Route(t, at, n), n, T), Head(t[v]).msg)
      BY <2>2, Leave
    <2>5. QED
      BY <2>3, <2>4 DEF OnWay, at, n, T
  <1>2. QED
    BY <1>1

(* A message enters the ring.                                              *)
LEMMA EnterStep ==
  ASSUME NEW t, Ready(t), NEW n \in Stop, NEW t2, NEW x \in Data, x.src = n,
         Enqueued(t2[Q(n)], t[Q(n)], x), SameBar(t, t2, Places, Q(n))
  PROVE  \A s, d \in Stop : IF x.src = s /\ x.dst = d
                            THEN Enqueued(OnWay(t2, s, d), OnWay(t, s, d), x.msg)
                            ELSE OnWay(t2, s, d) = OnWay(t, s, d)
  <1>1. ASSUME NEW s \in Stop, NEW d \in Stop
        PROVE  IF x.src = s /\ x.dst = d
               THEN Enqueued(OnWay(t2, s, d), OnWay(t, s, d), x.msg)
               ELSE OnWay(t2, s, d) = OnWay(t, s, d)
    <2> DEFINE at == TheWay(s, d)
               m  == 2 * N + 1
               T  == Of(s, d)
               v  == Q(n)
    <2>1. x \in T <=> x.src = s /\ x.dst = d
      BY OfIs
    <2>2. x \in T => at[m] = v
      BY <2>1, WayIs
    <2>3. /\ Says(T, Msg) /\ m \in Nat /\ m # 0 /\ Way(at, m, Places) /\ Filled(t, Places, Data)
          /\ v \in Places /\ (x \in T => at[m] = v)
          /\ Enqueued(t2[v], t[v], x) /\ SameBar(t, t2, Places, v)
      BY <2>2, Stops, WayIs, OfIs, PlaceOf DEF Ready
    <2> HIDE DEF at, m, T, v
    <2>4. /\ x \notin T => InLine(Route(t2, at, m), m, T) = InLine(Route(t, at, m), m, T)
          /\ x \in T => Enqueued(InLine(Route(t2, at, m), m, T), InLine(Route(t, at, m), m, T), x.msg)
      BY <2>3, Enter
    <2>5. QED
      BY <2>1, <2>4 DEF OnWay, at, m, T
  <1>2. QED
    BY <1>1
-----------------------------------------------------------------------------
(* The state of the reliable network, and how it changes.                  *)
Queued  == Held(link0, link1, sendQ)
Transit == [p \in Traffic |-> Between(p[1], p[2])]
Inbox   == [n \in Stop |-> Sourced(recvQ[n])]

LEMMA PathIs ==
  ASSUME NEW l0, NEW l1, NEW q, NEW s \in Stop, NEW d \in Stop
  PROVE  [k \in 1 .. 2 * N + 1 |->
            IF k <= N THEN l1[Back(d, k)]
            ELSE IF k <= 2 * N THEN l0[Back(IF Crosses(s, d) THEN Primary ELSE d, k - N)]
            ELSE q[s]] = Route(Held(l0, l1, q), TheWay(s, d), 2 * N + 1)
  <1> DEFINE e == End0(s, d)
             t == Held(l0, l1, q)
  <1>1. e \in Stop /\ e = IF Crosses(s, d) THEN Primary ELSE d
    BY Stops DEF End0
  <1>2. \A c, k : Back(c, k) = LinkTo(N, c, k)
    BY DEF Back, LinkTo
  <1>3. \A k \in Slots : /\ k <= N => LinkTo(N, d, k) \in Stop
                         /\ ~(k <= N) /\ k <= 2 * N => LinkTo(N, e, k - N) \in Stop
    BY <1>1, RingAssumption, NtoNRingAssumption DEF LinkTo, Stop, Slots
  <1>4. \A k \in Slots : TheWay(s, d)[k] = IF k <= N THEN L1(LinkTo(N, d, k))
                                           ELSE IF k <= 2 * N THEN L0(LinkTo(N, e, k - N)) ELSE Q(s)
    BY DEF TheWay
  <1>5. \A n \in Stop : t[L0(n)] = l0[n] /\ t[L1(n)] = l1[n] /\ t[Q(n)] = q[n]
    BY HeldAt
  <1> HIDE DEF e, t
  <1>6. \A k \in Slots : t[TheWay(s, d)[k]] = IF k <= N THEN l1[Back(d, k)]
                                              ELSE IF k <= 2 * N THEN l0[Back(e, k - N)] ELSE q[s]
    BY <1>2, <1>3, <1>4, <1>5
  <1>7. QED
    BY <1>1, <1>6 DEF Route, Slots, t

LEMMA TransitIs ==
  /\ \A p \in Traffic : p[1] \in Stop /\ p[2] \in Stop /\ p = <<p[1], p[2]>>
  /\ Transit = [p \in Traffic |-> OnWay(Queued, p[1], p[2])]
  /\ Transit' = [p \in Traffic |-> OnWay(Queued', p[1], p[2])]
  <1>1. \A p \in Traffic : p[1] \in Stop /\ p[2] \in Stop /\ p = <<p[1], p[2]>>
    BY RingAssumption, NtoNRingAssumption
  <1>2. \A s, d \in Stop : Between(s, d) = OnWay(Queued, s, d)
    BY PathIs DEF Between, Path, OnWay, Queued
  <1>3. \A s, d \in Stop : Between(s, d)' = OnWay(Queued', s, d)
    BY PathIs DEF Between, Path, OnWay, Queued
  <1>4. QED
    BY <1>1, <1>2, <1>3 DEF Transit

LEMMA SameTransit ==
  ASSUME SameWays(Queued, Queued')
  PROVE  Transit' = Transit
  BY TransitIs DEF SameWays

(* The way of one pair has changed, the others have not.                   *)
SameElsewhere(s, d) ==
  \A a, b \in Stop : ~(a = s /\ b = d) => OnWay(Queued', a, b) = OnWay(Queued, a, b)

LEMMA OneTransit ==
  ASSUME NEW s \in Stop, NEW d \in Stop, <<s, d>> \in Traffic, SameElsewhere(s, d)
  PROVE  /\ Transit[<<s, d>>] = OnWay(Queued, s, d)
         /\ Transit' = [Transit EXCEPT ![<<s, d>>] = OnWay(Queued', s, d)]
  <1>1. \A p \in Traffic : p # <<s, d>> => OnWay(Queued', p[1], p[2]) = OnWay(Queued, p[1], p[2])
    BY TransitIs DEF SameElsewhere
  <1>2. QED
    BY <1>1, TransitIs

Entered(s, d, m) ==
  /\ <<s, d>> \in Traffic /\ Inbox' = Inbox
  /\ Transit' = [Transit EXCEPT ![<<s, d>>] = Append(@, m)]
Delivered(s, d, m) ==
  /\ <<s, d>> \in Traffic /\ Transit[<<s, d>>] # << >> /\ Head(Transit[<<s, d>>]) = m
  /\ Transit' = [Transit EXCEPT ![<<s, d>>] = Tail(@)]
  /\ Inbox' = [Inbox EXCEPT ![d] = Append(@, [src |-> s, msg |-> m])]
GivenOut(d) ==
  /\ Inbox[d] # << >> /\ Transit' = Transit
  /\ Inbox' = [Inbox EXCEPT ![d] = Tail(@)]

(* x is taken off the rings at stop n, and nothing else happens on them.   *)
OffTheRing(n, x) ==
  \A s, d \in Stop :
    IF x.src = s /\ x.dst = d THEN Gave(OnWay(Queued', s, d), OnWay(Queued, s, d), x.msg)
    ELSE OnWay(Queued', s, d) = OnWay(Queued, s, d)

LEMMA DeliveredIs ==
  ASSUME NEW n \in Stop, NEW x \in Used, x.dst = n, OffTheRing(n, x),
         recvQ \in [Stop -> Seq(Data)], recvQ' = [recvQ EXCEPT ![n] = Append(@, x)]
  PROVE  /\ x.src \in Stop /\ x.msg \in Msg
         /\ Delivered(x.src, n, x.msg)
  <1> DEFINE s == x.src
  <1>1. s \in Stop /\ x.msg \in Msg /\ x \in Data /\ <<s, n>> \in Traffic
    BY DEF Used, Data
  <1>2. Gave(OnWay(Queued', s, n), OnWay(Queued, s, n), x.msg)
    BY <1>1 DEF OffTheRing
  <1>3. SameElsewhere(s, n)
    BY DEF OffTheRing, SameElsewhere
  <1>4. /\ Transit[<<s, n>>] = OnWay(Queued, s, n)
        /\ Transit' = [Transit EXCEPT ![<<s, n>>] = OnWay(Queued', s, n)]
    BY <1>1, <1>3, OneTransit
  <1>5. Inbox' = [Inbox EXCEPT ![n] = Append(@, [src |-> s, msg |-> x.msg])]
    <2>1. /\ recvQ'[n] = Append(recvQ[n], x) /\ recvQ[n] \in Seq(Data)
          /\ \A b \in Stop : b # n => recvQ'[b] = recvQ[b]
      OBVIOUS
    <2>2. Sourced(recvQ'[n]) = Append(Sourced(recvQ[n]), [src |-> s, msg |-> x.msg])
      BY <1>1, <2>1, SourcedEnq
    <2>3. \A b \in Stop : b # n => Sourced(recvQ'[b]) = Sourced(recvQ[b])
      BY <2>1
    <2>4. Inbox' = [b \in Stop |-> Sourced(recvQ'[b])] /\ Inbox = [b \in Stop |-> Sourced(recvQ[b])]
      BY DEF Inbox
    <2>5. QED
      BY <2>2, <2>3, <2>4
  <1>6. QED
    BY <1>1, <1>2, <1>4, <1>5 DEF Delivered, Gave, Dequeued
-----------------------------------------------------------------------------
(* What the rules do to the queues as one table.                           *)
LEMMA IsReady ==
  ASSUME IInv
  PROVE  /\ Ready(Queued)
         /\ \A n \in Stop : /\ Queued[L0(n)] = link0[n] /\ Queued[L1(n)] = link1[n]
                            /\ Queued[Q(n)] = sendQ[n]
                            /\ Queued'[L0(n)] = link0'[n] /\ Queued'[L1(n)] = link1'[n]
                            /\ Queued'[Q(n)] = sendQ'[n]
         /\ link0 = [n \in Stop |-> link0[n]] /\ link1 = [n \in Stop |-> link1[n]]
         /\ sendQ = [n \in Stop |-> sendQ[n]]
  <1>1. Ready(Queued)
    BY MayHold DEF Queued, Ready
  <1>2. \A n \in Stop : /\ Queued[L0(n)] = link0[n] /\ Queued[L1(n)] = link1[n]
                        /\ Queued[Q(n)] = sendQ[n]
    BY HeldAt DEF Queued
  <1>3. \A n \in Stop : /\ Queued'[L0(n)] = link0'[n] /\ Queued'[L1(n)] = link1'[n]
                        /\ Queued'[Q(n)] = sendQ'[n]
    BY HeldAt DEF Queued
  <1>4. /\ link0 = [n \in Stop |-> link0[n]] /\ link1 = [n \in Stop |-> link1[n]]
        /\ sendQ = [n \in Stop |-> sendQ[n]]
    BY DEF IInv, Table
  <1>5. QED
    BY <1>1, <1>2, <1>3, <1>4

LEMMA RestOfQueues ==
  ASSUME IInv, NEW A,
         \A n \in Stop : /\ L0(n) \notin A => link0'[n] = link0[n]
                         /\ L1(n) \notin A => link1'[n] = link1[n]
                         /\ Q(n) \notin A => sendQ'[n] = sendQ[n]
  PROVE  Rest(Queued, Queued', Places, A)
  <1>1. ASSUME NEW p \in Places, p \notin A PROVE Queued'[p] = Queued[p]
    BY <1>1, PlaceOf, IsReady
  <1>2. QED
    BY <1>1 DEF Rest

LEMMA BarOfQueues ==
  ASSUME IInv, NEW v,
         \A n \in Stop : /\ L0(n) # v => link0'[n] = link0[n]
                         /\ L1(n) # v => link1'[n] = link1[n]
                         /\ Q(n) # v => sendQ'[n] = sendQ[n]
  PROVE  SameBar(Queued, Queued', Places, v)
  <1>1. ASSUME NEW p \in Places, p # v PROVE Queued'[p] = Queued[p]
    BY <1>1, PlaceOf, IsReady
  <1>2. QED
    BY <1>1 DEF SameBar

LEMMA SendImpl ==
  ASSUME IInv, NEW n \in Stop, SendToRing(n)
  PROVE  Transit' = Transit /\ Inbox' = Inbox
  <1> DEFINE x == Head(sendQ[n])
             u == L0(n)
             v == Q(n)
  <1>1. /\ sendQ[n] # << >> /\ link0' = [link0 EXCEPT ![n] = Append(@, x)]
        /\ sendQ' = [sendQ EXCEPT ![n] = Tail(@)] /\ link1' = link1 /\ recvQ' = recvQ
    BY DEF SendToRing, CanSend
  <1>2. x \in Own[n]
    BY <1>1, DeqType DEF IInv, Table
  <1>3. x \in Used /\ x.src = n /\ x.dst \in Stop
    BY <1>2, MayBe
  <1> HIDE DEF x
  <1>4. /\ link0'[n] = Append(link0[n], x) /\ sendQ'[n] = Tail(sendQ[n])
        /\ \A b \in Stop : b # n => link0'[b] = link0[b] /\ sendQ'[b] = sendQ[b]
    BY <1>1, IsReady
  <1>5. Rest(Queued, Queued', Places, {u, v})
    BY <1>1, <1>4, RestOfQueues
  <1>6. Queued[v] = sendQ[n] /\ Queued'[v] = sendQ'[n] /\ Queued[u] = link0[n] /\ Queued'[u] = link0'[n]
    BY IsReady
  <1>7. Moved(Queued, Queued', u, v) /\ x = Head(Queued[v])
    BY <1>1, <1>4, <1>5, <1>6, PlaceOf DEF Moved, Enqueued, Dequeued, x
  <1>8. Ahead(u, v, x.src, x.dst)
    BY <1>3, SendAhead
  <1>9. SameWays(Queued, Queued')
    <2>1. u \in Places /\ v \in Places /\ Ready(Queued)
      BY PlaceOf, IsReady
    <2> HIDE DEF u, v
    <2>2. QED
      BY ONLY <1>7, <1>8, <2>1, MoveStep
  <1>10. QED
    BY <1>1, <1>9, SameTransit DEF Inbox

(* What Pass does to a chain. *)
LEMMA PassIs ==
  ASSUME NEW l, l = [b \in Stop |-> l[b]], NEW n \in Stop, NEW l2, l2 = Pass(l, n)
  PROVE  /\ l2[n] = Append(l[n], Head(l[Prev(n)])) /\ l2[Prev(n)] = Tail(l[Prev(n)])
         /\ \A b \in Stop : b # n /\ b # Prev(n) => l2[b] = l[b]
  <1>1. Prev(n) \in Stop /\ Prev(n) # n
    BY PrevStop
  <1>2. QED
    BY <1>1 DEF Pass

LEMMA Forward0Impl ==
  ASSUME IInv, NEW n \in Stop, ForwardOnRing0(n)
  PROVE  Transit' = Transit /\ Inbox' = Inbox
  <1> DEFINE p == Prev(n)
             x == Head(link0[p])
             u == L0(n)
             v == L0(p)
  <1>1. /\ n # Primary /\ link0[p] # << >> /\ x.dst # n
        /\ link0' = Pass(link0, n) /\ sendQ' = sendQ /\ link1' = link1 /\ recvQ' = recvQ
    BY DEF ForwardOnRing0, Transit0, NewMsgIsForMe0, In0
  <1>2. p \in Stop /\ p # n /\ x \in Used
    BY <1>1, PrevStop, Waiting, MayBe DEF IInv
  <1>3. x.src \in Stop /\ x.dst \in Stop
    BY <1>2 DEF Used, Data
  <1>4. /\ link0'[n] = Append(link0[n], x) /\ link0'[p] = Tail(link0[p])
        /\ \A b \in Stop : b # n /\ b # p => link0'[b] = link0[b]
    <2>1. link0 = [b \in Stop |-> link0[b]] /\ n \in Stop /\ link0' = Pass(link0, n)
      BY <1>1, IsReady
    <2>2. QED
      BY <2>1, PassIs
  <1> HIDE DEF x
  <1>5. Rest(Queued, Queued', Places, {u, v})
    BY <1>1, <1>4, RestOfQueues
  <1>6. Queued[v] = link0[p] /\ Queued'[v] = link0'[p] /\ Queued[u] = link0[n] /\ Queued'[u] = link0'[n]
    BY <1>2, IsReady
  <1>7. Moved(Queued, Queued', u, v) /\ x = Head(Queued[v])
    BY <1>1, <1>2, <1>4, <1>5, <1>6, PlaceOf DEF Moved, Enqueued, Dequeued, x
  <1>8. Ahead(u, v, x.src, x.dst)
    BY <1>1, <1>3, Forward0Ahead
  <1>9. SameWays(Queued, Queued')
    <2>1. u \in Places /\ v \in Places /\ Ready(Queued)
      BY <1>2, PlaceOf, IsReady
    <2> HIDE DEF u, v
    <2>2. QED
      BY ONLY <1>7, <1>8, <2>1, MoveStep
  <1>10. QED
    BY <1>1, <1>9, SameTransit DEF Inbox

LEMMA Forward1Impl ==
  ASSUME IInv, NEW n \in Stop, ForwardOnRing1(n)
  PROVE  Transit' = Transit /\ Inbox' = Inbox
  <1> DEFINE p == Prev(n)
             x == Head(link1[p])
             u == L1(n)
             v == L1(p)
  <1>1. /\ link1[p] # << >> /\ x.dst # n
        /\ link1' = Pass(link1, n) /\ sendQ' = sendQ /\ link0' = link0 /\ recvQ' = recvQ
    BY DEF ForwardOnRing1, Transit1, NewMsgIsForMe1, In1
  <1>2. p \in Stop /\ p # n /\ x \in Used
    BY <1>1, PrevStop, Waiting, MayBe DEF IInv
  <1>3. x.src \in Stop /\ x.dst \in Stop
    BY <1>2 DEF Used, Data
  <1>4. /\ link1'[n] = Append(link1[n], x) /\ link1'[p] = Tail(link1[p])
        /\ \A b \in Stop : b # n /\ b # p => link1'[b] = link1[b]
    <2>1. link1 = [b \in Stop |-> link1[b]] /\ n \in Stop /\ link1' = Pass(link1, n)
      BY <1>1, IsReady
    <2>2. QED
      BY <2>1, PassIs
  <1> HIDE DEF x
  <1>5. Rest(Queued, Queued', Places, {u, v})
    BY <1>1, <1>4, RestOfQueues
  <1>6. Queued[v] = link1[p] /\ Queued'[v] = link1'[p] /\ Queued[u] = link1[n] /\ Queued'[u] = link1'[n]
    BY <1>2, IsReady
  <1>7. Moved(Queued, Queued', u, v) /\ x = Head(Queued[v])
    BY <1>1, <1>2, <1>4, <1>5, <1>6, PlaceOf DEF Moved, Enqueued, Dequeued, x
  <1>8. Ahead(u, v, x.src, x.dst)
    BY <1>1, <1>3, Forward1Ahead
  <1>9. SameWays(Queued, Queued')
    <2>1. u \in Places /\ v \in Places /\ Ready(Queued)
      BY <1>2, PlaceOf, IsReady
    <2> HIDE DEF u, v
    <2>2. QED
      BY ONLY <1>7, <1>8, <2>1, MoveStep
  <1>10. QED
    BY <1>1, <1>9, SameTransit DEF Inbox

(* Across the dateline: what goes on to chain 1 is behind what is there.   *)
LEMMA PrimaryImpl ==
  ASSUME IInv, ForwardOnRingPrimary
  PROVE  Transit' = Transit /\ Inbox' = Inbox
  <1> DEFINE p == Prev(Primary)
             x == Head(link0[p])
             u == L1(Primary)
             v == L0(p)
  <1>1. /\ link0[p] # << >> /\ x.dst # Primary
        /\ link1' = [link1 EXCEPT ![Primary] = Append(@, x)]
        /\ link0' = [link0 EXCEPT ![p] = Tail(@)]
        /\ sendQ' = sendQ /\ recvQ' = recvQ
    BY DEF ForwardOnRingPrimary, AcrossDateline, Transit0, NewMsgIsForMe0, In0, Pop
  <1>2. p \in Stop /\ Primary \in Stop /\ x \in On0[p] /\ x \in Used
    BY <1>1, Stops, PrevStop, Waiting, MayBe DEF IInv
  <1>3. x.src \in Stop /\ x.dst \in Stop
    BY <1>2 DEF Used, Data
  <1>4. Crosses(x.src, x.dst)
    <2>1. x \in On1[Primary]
      BY <1>1, <1>2, PassedDateline
    <2>2. QED
      BY <1>2, <2>1, MayBe
  <1> HIDE DEF x
  <1>5. /\ link1'[Primary] = Append(link1[Primary], x) /\ link0'[p] = Tail(link0[p])
        /\ \A b \in Stop : (b # Primary => link1'[b] = link1[b]) /\ (b # p => link0'[b] = link0[b])
    BY <1>1, <1>2, IsReady
  <1>6. Rest(Queued, Queued', Places, {u, v})
    BY <1>1, <1>5, RestOfQueues
  <1>7. /\ Queued[v] = link0[p] /\ Queued'[v] = link0'[p]
        /\ Queued[u] = link1[Primary] /\ Queued'[u] = link1'[Primary]
    BY <1>2, IsReady
  <1>8. Moved(Queued, Queued', u, v) /\ x = Head(Queued[v])
    BY <1>1, <1>2, <1>5, <1>6, <1>7, PlaceOf DEF Moved, Enqueued, Dequeued, x
  <1>9. Ahead(u, v, x.src, x.dst)
    BY <1>3, <1>4, DatelineAhead
  <1>10. SameWays(Queued, Queued')
    <2>1. u \in Places /\ v \in Places /\ Ready(Queued)
      BY <1>2, PlaceOf, IsReady
    <2> HIDE DEF u, v
    <2>2. QED
      BY ONLY <1>8, <1>9, <2>1, MoveStep
  <1>11. QED
    BY <1>1, <1>10, SameTransit DEF Inbox

LEMMA Recv0Impl ==
  ASSUME IInv, NEW n \in Stop, RecvFromRing0(n)
  PROVE  \E s \in Stop, m \in Msg : Delivered(s, n, m)
  <1> DEFINE p == Prev(n)
             x == Head(link0[p])
             v == L0(p)
  <1>1. /\ link0[p] # << >> /\ x.dst = n /\ link0' = [link0 EXCEPT ![p] = Tail(@)]
        /\ recvQ' = [recvQ EXCEPT ![n] = Append(@, x)] /\ sendQ' = sendQ /\ link1' = link1
    BY DEF RecvFromRing0, CanRecv0, NewMsgIsForMe0, In0, Pop
  <1>2. p \in Stop /\ x \in On0[p] /\ x \in Used /\ x \in Data
    BY <1>1, PrevStop, Waiting, MayBe DEF IInv
  <1>3. x.src \in Stop /\ x.dst \in Stop /\ ~Crosses(x.src, x.dst)
    BY <1>1, <1>2, ArrivesOn0, MayBe DEF Data
  <1> HIDE DEF x
  <1>4. link0'[p] = Tail(link0[p]) /\ \A b \in Stop : b # p => link0'[b] = link0[b]
    BY <1>1, <1>2, IsReady
  <1>5. SameBar(Queued, Queued', Places, v)
    BY <1>1, <1>4, BarOfQueues
  <1>6. Queued[v] = link0[p] /\ Queued'[v] = link0'[p] /\ v \in Places /\ Ready(Queued)
    BY <1>2, IsReady, PlaceOf
  <1>7. Queued[v] # << >> /\ Dequeued(Queued'[v], Queued[v]) /\ x = Head(Queued[v])
    BY <1>1, <1>4, <1>6 DEF Dequeued, x
  <1>8. Last(v, x.src, x.dst)
    BY <1>1, <1>3, Recv0Last
  <1> HIDE DEF v
  <1>9. OffTheRing(n, x)
    BY <1>2, <1>5, <1>6, <1>7, <1>8, LeaveStep DEF OffTheRing
  <1>10. x.src \in Stop /\ x.msg \in Msg /\ Delivered(x.src, n, x.msg)
    BY <1>1, <1>2, <1>9, DeliveredIs DEF IInv
  <1>11. QED
    BY <1>10

LEMMA Recv1Impl ==
  ASSUME IInv, NEW n \in Stop, RecvFromRing1(n)
  PROVE  \E s \in Stop, m \in Msg : Delivered(s, n, m)
  <1> DEFINE p == Prev(n)
             x == Head(link1[p])
             v == L1(p)
  <1>1. /\ link1[p] # << >> /\ x.dst = n /\ link1' = [link1 EXCEPT ![p] = Tail(@)]
        /\ recvQ' = [recvQ EXCEPT ![n] = Append(@, x)] /\ sendQ' = sendQ /\ link0' = link0
    BY DEF RecvFromRing1, CanRecv1, NewMsgIsForMe1, In1, Pop
  <1>2. p \in Stop /\ x \in Used /\ x \in Data
    BY <1>1, PrevStop, Waiting, MayBe DEF IInv
  <1>3. x.src \in Stop /\ x.dst \in Stop
    BY <1>2 DEF Data
  <1> HIDE DEF x
  <1>4. link1'[p] = Tail(link1[p]) /\ \A b \in Stop : b # p => link1'[b] = link1[b]
    BY <1>1, <1>2, IsReady
  <1>5. SameBar(Queued, Queued', Places, v)
    BY <1>1, <1>4, BarOfQueues
  <1>6. Queued[v] = link1[p] /\ Queued'[v] = link1'[p] /\ v \in Places /\ Ready(Queued)
    BY <1>2, IsReady, PlaceOf
  <1>7. Queued[v] # << >> /\ Dequeued(Queued'[v], Queued[v]) /\ x = Head(Queued[v])
    BY <1>1, <1>4, <1>6 DEF Dequeued, x
  <1>8. Last(v, x.src, x.dst)
    BY <1>1, <1>3, Recv1Last
  <1> HIDE DEF v
  <1>9. OffTheRing(n, x)
    BY <1>2, <1>5, <1>6, <1>7, <1>8, LeaveStep DEF OffTheRing
  <1>10. x.src \in Stop /\ x.msg \in Msg /\ Delivered(x.src, n, x.msg)
    BY <1>1, <1>2, <1>9, DeliveredIs DEF IInv
  <1>11. QED
    BY <1>10

LEMMA EnqImpl ==
  ASSUME IInv, NEW n \in Stop, NEW e \in Stop, NEW m \in Msg, Enq(n, e, m)
  PROVE  Entered(n, e, m)
  <1> DEFINE x == [src |-> n, dst |-> e, msg |-> m]
             v == Q(n)
  <1>1. /\ <<n, e>> \in Traffic /\ sendQ' = [sendQ EXCEPT ![n] = Append(@, x)]
        /\ link0' = link0 /\ link1' = link1 /\ recvQ' = recvQ
    BY DEF Enq
  <1>2. x \in Data /\ x.src = n /\ x.dst = e /\ x.msg = m
    BY DEF Data
  <1> HIDE DEF x
  <1>3. sendQ'[n] = Append(sendQ[n], x) /\ \A b \in Stop : b # n => sendQ'[b] = sendQ[b]
    BY <1>1, IsReady
  <1>4. SameBar(Queued, Queued', Places, v)
    BY <1>1, <1>3, BarOfQueues
  <1>5. Enqueued(Queued'[v], Queued[v], x) /\ Ready(Queued)
    BY <1>3, IsReady DEF Enqueued
  <1>6. \A s, d \in Stop : IF x.src = s /\ x.dst = d
                           THEN Enqueued(OnWay(Queued', s, d), OnWay(Queued, s, d), x.msg)
                           ELSE OnWay(Queued', s, d) = OnWay(Queued, s, d)
    BY <1>2, <1>4, <1>5, EnterStep
  <1>7. OnWay(Queued', n, e) = Append(OnWay(Queued, n, e), m)
    BY <1>2, <1>6 DEF Enqueued
  <1>8. SameElsewhere(n, e)
    BY <1>2, <1>6 DEF SameElsewhere
  <1>9. /\ Transit[<<n, e>>] = OnWay(Queued, n, e)
        /\ Transit' = [Transit EXCEPT ![<<n, e>>] = OnWay(Queued', n, e)]
    BY <1>1, <1>8, OneTransit
  <1>10. QED
    BY <1>1, <1>7, <1>9 DEF Entered, Inbox

LEMMA DeqImpl ==
  ASSUME IInv, NEW n \in Stop, Deq(n)
  PROVE  GivenOut(n)
  <1>1. /\ recvQ[n] # << >> /\ recvQ' = [recvQ EXCEPT ![n] = Tail(@)]
        /\ sendQ' = sendQ /\ link0' = link0 /\ link1' = link1 /\ recvQ \in [Stop -> Seq(Data)]
    BY DEF Deq, IInv
  <1>2. /\ recvQ'[n] = Tail(recvQ[n]) /\ recvQ[n] \in Seq(Data)
        /\ \A b \in Stop : b # n => recvQ'[b] = recvQ[b]
    BY <1>1
  <1>3. Sourced(recvQ[n]) # << >> /\ Sourced(Tail(recvQ[n])) = Tail(Sourced(recvQ[n]))
    BY <1>1, <1>2, SourcedDeq
  <1>4. \A b \in Stop : b # n => Sourced(recvQ'[b]) = Sourced(recvQ[b])
    BY <1>2
  <1>5. Sourced(recvQ'[n]) = Tail(Sourced(recvQ[n]))
    BY <1>2, <1>3
  <1>6. Inbox' = [b \in Stop |-> Sourced(recvQ'[b])] /\ Inbox = [b \in Stop |-> Sourced(recvQ[b])]
    BY DEF Inbox
  <1>7. Transit' = Transit
    BY <1>1, TransitIs DEF Queued
  <1>8. QED
    BY <1>3, <1>4, <1>5, <1>6, <1>7 DEF GivenOut
-----------------------------------------------------------------------------
LEMMA NetInit == Init => Net!Init
  <1> SUFFICES ASSUME Init PROVE Net!Init
    OBVIOUS
  <1>1. IInv
    BY IInvInit
  <1>2. \A p \in Places : Queued[p] = << >>
    <2>1. \A n \in Stop : link0[n] = << >> /\ link1[n] = << >> /\ sendQ[n] = << >>
      BY DEF Init
    <2>2. QED
      BY <1>1, <2>1, IsReady, PlaceOf
  <1>3. ASSUME NEW s \in Stop, NEW d \in Stop PROVE OnWay(Queued, s, d) = << >>
    <2> DEFINE at == TheWay(s, d)
               n  == 2 * N + 1
               T  == Of(s, d)
               P  == Route(Queued, at, n)
    <2>1. Says(T, Msg) /\ n \in Nat /\ Way(at, n, Places) /\ Filled(Queued, Places, Data)
      BY <1>1, Stops, WayIs, OfIs, IsReady DEF Ready
    <2> HIDE DEF at, n, T
    <2>2. Line(P, n, Data) /\ \A k \in 1 .. n : P[k] = Queued[at[k]]
      BY <2>1, RouteLine
    <2> HIDE DEF P
    <2>3. \A k \in 1 .. n : P[k] = << >>
      BY <1>2, <2>1, <2>2 DEF Way
    <2>4. \A k \in 1 .. n : Free(P[k], T)
      BY <2>3 DEF Free
    <2>5. InLine(P, n, T) = << >>
      BY <2>1, <2>2, <2>4, InLineNone
    <2>6. QED
      BY <2>5 DEF OnWay, at, n, T, P
  <1>4. Transit = [p \in Traffic |-> << >>]
    BY <1>3, TransitIs
  <1>5. Inbox = [n \in Stop |-> << >>]
    <2>1. ASSUME NEW n \in Stop PROVE Sourced(recvQ[n]) = << >>
      <3>1. recvQ[n] \in Seq(Data) /\ recvQ[n] = << >>
        BY DEF Init
      <3>2. QED
        BY <3>1, SourcedIs
    <2>2. QED
      BY <2>1 DEF Inbox
  <1>6. QED
    BY <1>4, <1>5 DEF Net!Init, Transit, Inbox, Sourced

LEMMA NetDeliver ==
  ASSUME NEW s \in Stop, NEW d \in Stop, NEW m \in Msg, Delivered(s, d, m)
  PROVE  Net!Next
  <1>1. <<s, d>> \in Traffic /\ Net!Deliver(s, d)
    BY DEF Delivered, Net!Deliver, Net!Received, Transit, Inbox, Sourced
  <1>2. \E p \in Traffic : p = <<s, d>> /\ Net!Deliver(p[1], p[2])
    BY <1>1
  <1>3. QED
    BY <1>2 DEF Net!Next

LEMMA NetEnq ==
  ASSUME NEW s \in Stop, NEW d \in Stop, NEW m \in Msg, Entered(s, d, m)
  PROVE  Net!Next
  <1>1. <<s, d>> \in Traffic /\ Net!Enq(s, d, m)
    BY DEF Entered, Net!Enq, Transit, Inbox, Sourced
  <1>2. \E p \in Traffic : p = <<s, d>> /\ Net!Enq(p[1], p[2], m)
    BY <1>1
  <1>3. QED
    BY <1>2 DEF Net!Next

LEMMA NetDeq ==
  ASSUME NEW n \in Stop, GivenOut(n)
  PROVE  Net!Next
  <1>1. Net!Deq(n)
    BY DEF GivenOut, Net!Deq, Transit, Inbox, Sourced
  <1>2. QED
    BY <1>1 DEF Net!Next

LEMMA NetSame ==
  ASSUME Transit' = Transit, Inbox' = Inbox
  PROVE  UNCHANGED Net!vars
  BY DEF Net!vars, Transit, Inbox, Sourced

(* Every step is one of the reliable network, or does not show.            *)
LEMMA NetStep == IInv /\ [Next]_vars => [Net!Next]_(Net!vars)
  <1> SUFFICES ASSUME IInv, [Next]_vars
               PROVE  Net!Next \/ UNCHANGED Net!vars
    OBVIOUS
  <1>1. ASSUME NEW n \in Stop, RecvFromRing0(n) PROVE Net!Next
    BY <1>1, Recv0Impl, NetDeliver
  <1>2. ASSUME NEW n \in Stop, RecvFromRing1(n) PROVE Net!Next
    BY <1>2, Recv1Impl, NetDeliver
  <1>3. ASSUME NEW n \in Stop, SendToRing(n) PROVE UNCHANGED Net!vars
    BY <1>3, SendImpl, NetSame
  <1>4. ASSUME NEW n \in Stop, ForwardOnRing0(n) PROVE UNCHANGED Net!vars
    BY <1>4, Forward0Impl, NetSame
  <1>5. ASSUME NEW n \in Stop, ForwardOnRing1(n) PROVE UNCHANGED Net!vars
    BY <1>5, Forward1Impl, NetSame
  <1>6. ASSUME NEW n \in Stop, Deq(n) PROVE Net!Next
    BY <1>6, DeqImpl, NetDeq
  <1>7. CASE ForwardOnRingPrimary
    BY <1>7, PrimaryImpl, NetSame
  <1>8. ASSUME NEW n \in Stop, NEW d \in Stop, NEW m \in Msg, Enq(n, d, m) PROVE Net!Next
    BY <1>8, EnqImpl, NetEnq
  <1>9. CASE UNCHANGED vars
    <2>1. Transit' = Transit /\ Inbox' = Inbox
      BY <1>9, TransitIs DEF vars, Inbox, Queued
    <2>2. QED
      BY <2>1, NetSame
  <1>10. QED
    BY <1>1, <1>2, <1>3, <1>4, <1>5, <1>6, <1>7, <1>8, <1>9 DEF Next

(* The ring of addressable-ring.bsv for many sources and destinations      *)
(* delivers every message to its destination, once, and those of two stops *)
(* in their order, although they change chains at the dateline and recvQ   *)
(* is filled from both: for any number of stops, any traffic, any sizes    *)
(* and every ADDR_RING_MSG_MODE.                                           *)
THEOREM NtoNRingImplements == Spec => ImplementsRingNet
<1>1. QED
  BY NtoNRingInvariant, NetInit, NetStep, PTL DEF Spec, ImplementsRingNet, Net!Spec
=============================================================================
