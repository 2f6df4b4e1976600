----------------------------- MODULE TokenRing -----------------------------
(***************************************************************************)
(* A token ring (mkConnectionTokenRingNode_Impl in addressable-ring.bsv):  *)
(* N stops on a connection chain closed into a ring.  A message travels    *)
(* from stop to stop until it reaches the one it is for.  One token goes   *)
(* round, on a data message or alone; a stop may put a message of its own  *)
(* in front of the traffic once for every time it sees the token.          *)
(*                                                                         *)
(* The ring has been initialised (RingInit): stop n has the ID n.          *)
(*                                                                         *)
(* Rules of one stop that fire in one cycle and affect each other are one  *)
(* action (RecvAndSend); the wire localSentMsg gives sendToRing the right  *)
(* of way over the forwarding rules, so these require that it cannot fire. *)
(* Rules of different stops share only the link queues.  A stop that sends *)
(* because its incoming link is empty fires before its predecessor, which  *)
(* orders every cycle except one where all stops do so (SendAll).          *)
(***************************************************************************)
EXTENDS Ring, FiniteSets, Queues

CONSTANTS Msg,      \* the messages
          Traffic,  \* the pairs <<source, destination>> the clients use
          QCap      \* slots of recvQ and of sendQ (mkFIFOF)

ASSUME TokenRingAssumption ==
  /\ QCap \in Nat \ {0}
  /\ Traffic \subseteq Stop \X Stop

VARIABLES
  recvQ,      \* recvQ[n]: messages for the client
  sendQ,      \* sendQ[n]: messages of the client
  sawToken,   \* COUNTER#(1): the token has passed since n last sent
  haveToken,  \* COUNTER#(1): n holds the token
  link        \* link[n]: from n to its successor

vars == <<recvQ, sendQ, sawToken, haveToken, link>>

(* A data message carries its source, which the code does not send, so     *)
(* that the properties can tell whose it is.  NoData is tagged Invalid.    *)
Data    == [src : Stop, dst : Stop, msg : Msg]
NoData  == [src |-> N, dst |-> N]
RingMsg == [token : BOOLEAN, data : Data \cup {NoData}]

TypeOK ==
  /\ recvQ \in [Stop -> Seq(Data)]
  /\ sendQ \in [Stop -> Seq(Data)]
  /\ sawToken \in [Stop -> 0 .. 1]
  /\ haveToken \in [Stop -> 0 .. 1]
  /\ link \in [Stop -> Seq(RingMsg)]
  /\ \A n \in Stop : Len(link[n]) <= LinkCap

Init ==
  /\ recvQ = [n \in Stop |-> << >>]
  /\ sendQ = [n \in Stop |-> << >>]
  /\ sawToken = [n \in Stop |-> IF n = Primary THEN 1 ELSE 0]
  /\ haveToken = [n \in Stop |-> IF n = Primary THEN 1 ELSE 0]
  /\ link = [n \in Stop |-> << >>]
-----------------------------------------------------------------------------
In(n)       == link[Prev(n)]
RoomOut(n)  == Len(link[n]) < LinkCap

NewMsgIsForMe_AnyStop(n) == In(n) # << >> /\ Head(In(n)).data # NoData
NewMsgIsForMe(n) == In(n) # << >> /\ Head(In(n)).data # NoData
                                  /\ Head(In(n)).data.dst = n

(* mkLCounter #(1): the value at the start of the cycle, set first, then   *)
(* counted up and down, in one bit.                                        *)
Count(v, up, down) == (v + up + 2 - down) % 2
Bit(b)             == IF b THEN 1 ELSE 0

(* The guards of sendToRing and of recvFromRing. *)
MaySend_NoToken(n) == In(n) = << >> \/ NewMsgIsForMe(n)
MaySend(n)  == sawToken[n] # 0 \/ In(n) = << >> \/ NewMsgIsForMe(n)
CanSend(n)  == sendQ[n] # << >> /\ RoomOut(n) /\ MaySend(n)
CanRecv(n)  == NewMsgIsForMe(n) /\ Len(recvQ[n]) < QCap

(* What sendToRing puts on the link: the oldest message of the client and, *)
(* if this stop holds it, the token.                                       *)
Outgoing_SawToken(n) == [token |-> sawToken[n] # 0, data |-> Head(sendQ[n])]
Outgoing(n) == [token |-> haveToken[n] # 0, data |-> Head(sendQ[n])]

(* Rule recvFromRing. *)
RecvFromRing(n) ==
  /\ CanRecv(n)
  /\ LET r == Head(In(n))
     IN  /\ recvQ' = [recvQ EXCEPT ![n] = Append(@, r.data)]
         /\ haveToken' = [haveToken EXCEPT ![n] = Count(@, Bit(r.token), 0)]
         /\ sawToken' = [sawToken EXCEPT ![n] = IF r.token THEN 1 ELSE @]
  /\ link' = RecvFromPrev(link, n)
  /\ UNCHANGED sendQ

(* Rule sendToRing. *)
SendToRing(n) ==
  /\ CanSend(n)
  /\ sendQ' = [sendQ EXCEPT ![n] = Tail(@)]
  /\ link' = SendToNext(link, n, Outgoing(n))
  /\ haveToken' = [haveToken EXCEPT ![n] = 0]
  /\ sawToken' = [sawToken EXCEPT ![n] = 0]
  /\ UNCHANGED recvQ

(* Both in one cycle: sendToRing sees neither the token that arrives now,  *)
(* nor that recvFromRing sets sawToken, which it counts down again.        *)
RecvAndSend(n) ==
  /\ CanRecv(n) /\ CanSend(n)
  /\ LET r   == Head(In(n))
         set == IF r.token THEN 1 ELSE sawToken[n]
     IN  /\ recvQ' = [recvQ EXCEPT ![n] = Append(@, r.data)]
         /\ haveToken' = [haveToken EXCEPT ![n] = Count(@, Bit(r.token), @)]
         /\ sawToken' = [sawToken EXCEPT ![n] = Count(set, 0, @)]
  /\ sendQ' = [sendQ EXCEPT ![n] = Tail(@)]
  /\ link' = SendToNext(RecvFromPrev(link, n), n, Outgoing(n))

(* All stops send at once into an empty ring. *)
SendAll ==
  /\ N > 1
  /\ \A n \in Stop : In(n) = << >> /\ sendQ[n] # << >>
  /\ sendQ' = [n \in Stop |-> Tail(sendQ[n])]
  /\ link' = [n \in Stop |-> << Outgoing(n) >>]
  /\ haveToken' = [n \in Stop |-> 0]
  /\ sawToken' = [n \in Stop |-> 0]
  /\ UNCHANGED recvQ

(* Rule forwardOnRing: pass on a message for another stop, and the token.  *)
CanForward_DataOnly(n) == /\ In(n) # << >> /\ ~NewMsgIsForMe(n) /\ RoomOut(n) /\ ~CanSend(n)
                          /\ Head(In(n)).data # NoData
CanForward(n) == In(n) # << >> /\ ~NewMsgIsForMe(n) /\ RoomOut(n) /\ ~CanSend(n)
ForwardOnRing(n) ==
  /\ CanForward(n)
  /\ LET r == Head(In(n))
     IN  /\ sawToken' = [sawToken EXCEPT ![n] = IF r.token THEN 1 ELSE @]
         /\ link' = SendToNext(RecvFromPrev(link, n), n,
                              [r EXCEPT !.token = @ \/ haveToken[n] # 0])
  /\ haveToken' = [haveToken EXCEPT ![n] = 0]
  /\ UNCHANGED <<recvQ, sendQ>>

(* Rule forwardTokenOnRing: nothing else to send, so the token goes alone. *)
ForwardTokenOnRing(n) ==
  /\ haveToken[n] # 0 /\ RoomOut(n) /\ ~CanSend(n) /\ ~CanForward(n)
  /\ link' = SendToNext(link, n, [token |-> TRUE, data |-> NoData])
  /\ haveToken' = [haveToken EXCEPT ![n] = 0]
  /\ UNCHANGED <<recvQ, sendQ, sawToken>>
-----------------------------------------------------------------------------
(* The methods: enq(dst, data) and deq(). *)
Enq(n, d, m) ==
  /\ <<n, d>> \in Traffic /\ Len(sendQ[n]) < QCap
  /\ sendQ' = [sendQ EXCEPT ![n] = Append(@, [src |-> n, dst |-> d, msg |-> m])]
  /\ UNCHANGED <<recvQ, sawToken, haveToken, link>>

Deq(n) ==
  /\ recvQ[n] # << >>
  /\ recvQ' = [recvQ EXCEPT ![n] = Tail(@)]
  /\ UNCHANGED <<sendQ, sawToken, haveToken, link>>

Next ==
  \/ \E n \in Stop : \/ RecvFromRing(n) \/ SendToRing(n) \/ RecvAndSend(n)
                     \/ ForwardOnRing(n) \/ ForwardTokenOnRing(n) \/ Deq(n)
  \/ \E n, d \in Stop, m \in Msg : Enq(n, d, m)
  \/ SendAll

Spec == Init /\ [][Next]_vars

(* Every rule that stays ready fires, alone or in one cycle with another,  *)
(* and every client takes what it is sent.                                 *)
Fairness ==
  \A n \in Stop : /\ WF_vars(RecvFromRing(n) \/ RecvAndSend(n))
                  /\ WF_vars(SendToRing(n) \/ RecvAndSend(n) \/ SendAll)
                  /\ WF_vars(ForwardOnRing(n))
                  /\ WF_vars(ForwardTokenOnRing(n))
                  /\ WF_vars(Deq(n))

FairSpec == Spec /\ Fairness
-----------------------------------------------------------------------------
(* There is exactly one token: it is never lost when a counter wraps or a  *)
(* message is absorbed, and never doubled when it rides on a message.      *)
OneToken ==
  Cardinality({n \in Stop : haveToken[n] = 1})
  + Cardinality({x \in Stop \X (1 .. LinkCap) :
                   x[2] \in DOMAIN link[x[1]] /\ link[x[1]][x[2]].token}) = 1

(* The messages from s to d from the oldest on: on the links from d back   *)
(* round the ring, then in sendQ.                                          *)
Of(s, d)      == [src : {s}, dst : {d}, msg : Msg]
Back(d, k)    == IF k <= d THEN d - k ELSE d + N - k
DataOf(q)     == [i \in DOMAIN q |-> q[i].data]
Path(s, d)    == [k \in 1 .. N + 1 |-> IF k <= N THEN DataOf(link[Back(d, k)]) ELSE sendQ[s]]
Between(s, d) == InLine(Path(s, d), N + 1, Of(s, d))

(* The ring is a reliable network: every message is delivered to its       *)
(* destination once, and messages between two stops stay in order.         *)
Net == INSTANCE RingNet WITH
  Stops <- Stop,
  transit <- [p \in Traffic |-> Between(p[1], p[2])],
  inbox <- [n \in Stop |-> [i \in DOMAIN recvQ[n] |->
                              [src |-> recvQ[n][i].src, msg |-> recvQ[n][i].msg]]]
ImplementsRingNet == Net!Spec

(* A message is taken off the ring by its destination before it passes it. *)
Passed(n, x) == x.dst # n \/ x.src = n
NothingPassesItsStop ==
  \A n \in Stop : \A i \in DOMAIN link[n] :
    link[n][i].data # NoData => Passed(n, link[n][i].data)

(* Types, the token and the messages together.                             *)
RingInv == TypeOK /\ OneToken /\ NothingPassesItsStop

(* "The token enforces fairness": a stop with a message to send gets to    *)
(* send it, however busy the stops before it are.                          *)
EveryStopSends ==
  \A n \in Stop : \/ []<>(sendQ[n] = << >>)
                  \/ []<><<SendToRing(n) \/ RecvAndSend(n) \/ SendAll>>_vars

(* Every message that is sent arrives: something leaves the ring as long   *)
(* as there is something on it.                                            *)
InFlight(d) == \E n \in Stop : \E i \in DOMAIN link[n] : link[n][i].data # NoData
                                                       /\ link[n][i].data.dst = d
EveryMessageArrives == \A d \in Stop : InFlight(d) ~> recvQ[d] # << >>
=============================================================================
