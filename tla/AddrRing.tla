------------------------------ MODULE AddrRing ------------------------------
(***************************************************************************)
(* An addressable ring without a token (mkConnectionAddrRingNode_Impl in   *)
(* addressable-ring.bsv), for one source or one destination.  N stops on a *)
(* connection chain closed into a ring; a message travels from stop to     *)
(* stop until it reaches the one it is for.                                *)
(*                                                                         *)
(* Where a message of the client and a message to forward compete for the  *)
(* outgoing link, ADDR_RING_MSG_MODE decides: 0 the client is first, 1 the *)
(* ring is first, 2 they take turns (localPrior).                          *)
(*                                                                         *)
(* The ring has been initialised (RingInit): stop n has the ID n.  One     *)
(* action per rule; the wires localMsgSentW and fwdMsgPrior, which pass    *)
(* between rules of one cycle, are read as the guards that set them.  A    *)
(* stop that sends because its incoming link is empty fires before its     *)
(* predecessor, which orders every cycle except SendAll.                   *)
(***************************************************************************)
EXTENDS Ring, Queues

CONSTANTS Msg,      \* the messages
          Traffic,  \* the pairs <<source, destination>> the clients use
          QCap,     \* slots of recvQ and of sendQ (mkFIFOF)
          Mode      \* ADDR_RING_MSG_MODE

ASSUME AddrRingAssumption ==
  /\ QCap \in Nat \ {0}
  /\ Traffic \subseteq Stop \X Stop /\ Mode \in 0 .. 2

VARIABLES
  recvQ,       \* recvQ[n]: messages for the client
  sendQ,       \* sendQ[n]: messages of the client
  localPrior,  \* mode 2: the client has the next turn
  link         \* link[n]: from n to its successor

vars == <<recvQ, sendQ, localPrior, link>>

(* A message carries its source, which the code does not send, so that the *)
(* properties can tell whose it is.                                        *)
Data == [src : Stop, dst : Stop, msg : Msg]

TypeOK ==
  /\ recvQ \in [Stop -> Seq(Data)]
  /\ sendQ \in [Stop -> Seq(Data)]
  /\ localPrior \in [Stop -> BOOLEAN]
  /\ link \in [Stop -> Seq(Data)]
  /\ \A n \in Stop : Len(link[n]) <= LinkCap /\ Len(recvQ[n]) <= QCap

Init ==
  /\ recvQ = [n \in Stop |-> << >>]
  /\ sendQ = [n \in Stop |-> << >>]
  /\ localPrior = [n \in Stop |-> TRUE]
  /\ link = [n \in Stop |-> << >>]
-----------------------------------------------------------------------------
In(n)            == link[Prev(n)]
RoomOut(n)       == Len(link[n]) < LinkCap
NewMsgIsForMe_AnyStop(n) == In(n) # << >>
NewMsgIsForMe_Nobody(n)  == FALSE
NewMsgIsForMe(n) == In(n) # << >> /\ Head(In(n)).dst = n
HasTransit(n)    == In(n) # << >> /\ ~NewMsgIsForMe(n)

(* Rule checkMsgSendPrior: the message to forward goes first. *)
FwdMsgPrior_Never(n)  == FALSE
FwdMsgPrior_Always(n) == HasTransit(n)
FwdMsgPrior(n) == HasTransit(n) /\ (Mode = 1 \/ (Mode = 2 /\ ~localPrior[n]))
CanSend(n)     == sendQ[n] # << >> /\ RoomOut(n) /\ ~FwdMsgPrior(n)

(* Rule updArbiter: whoever has used the link gives the other the turn. *)
UpdArbiter(n, fwdMsgSent) ==
  localPrior' = IF Mode = 2 THEN [localPrior EXCEPT ![n] = fwdMsgSent] ELSE localPrior

(* Rule recvFromRing. *)
HasRoom(n) == Len(recvQ[n]) < QCap
RecvFromRing(n) ==
  /\ NewMsgIsForMe(n) /\ HasRoom(n)
  /\ recvQ' = [recvQ EXCEPT ![n] = Append(@, Head(In(n)))]
  /\ link' = [link EXCEPT ![Prev(n)] = Tail(@)]
  /\ UNCHANGED <<sendQ, localPrior>>

(* Rule sendToRing. *)
SendToRing(n) ==
  /\ CanSend(n)
  /\ link' = [link EXCEPT ![n] = Append(@, Head(sendQ[n]))]
  /\ sendQ' = [sendQ EXCEPT ![n] = Tail(@)]
  /\ UpdArbiter(n, FALSE)
  /\ UNCHANGED recvQ

(* All stops send at once into an empty ring. *)
SendAll ==
  /\ N > 1
  /\ \A n \in Stop : In(n) = << >> /\ sendQ[n] # << >>
  /\ link' = [n \in Stop |-> << Head(sendQ[n]) >>]
  /\ sendQ' = [n \in Stop |-> Tail(sendQ[n])]
  /\ localPrior' = IF Mode = 2 THEN [n \in Stop |-> FALSE] ELSE localPrior
  /\ UNCHANGED recvQ

(* Rule forwardOnRing, when sendToRing does not use the link. *)
ForwardOnRing(n) ==
  /\ HasTransit(n) /\ RoomOut(n) /\ ~CanSend(n)
  /\ link' = [link EXCEPT ![Prev(n)] = Tail(@), ![n] = Append(@, Head(In(n)))]
  /\ UpdArbiter(n, TRUE)
  /\ UNCHANGED <<recvQ, sendQ>>
-----------------------------------------------------------------------------
(* The methods: enq(dst, data) and deq(). *)
Enq(n, d, m) ==
  /\ <<n, d>> \in Traffic /\ Len(sendQ[n]) < QCap
  /\ sendQ' = [sendQ EXCEPT ![n] = Append(@, [src |-> n, dst |-> d, msg |-> m])]
  /\ UNCHANGED <<recvQ, localPrior, link>>

Deq(n) ==
  /\ recvQ[n] # << >>
  /\ recvQ' = [recvQ EXCEPT ![n] = Tail(@)]
  /\ UNCHANGED <<sendQ, localPrior, link>>

Next ==
  \/ \E n \in Stop : RecvFromRing(n) \/ SendToRing(n) \/ ForwardOnRing(n) \/ Deq(n)
  \/ \E n, d \in Stop, m \in Msg : Enq(n, d, m)
  \/ SendAll

Spec == Init /\ [][Next]_vars

(* Every rule that stays ready fires, and clients take what they are sent. *)
Fairness ==
  \A n \in Stop : /\ WF_vars(RecvFromRing(n))
                  /\ WF_vars(SendToRing(n) \/ SendAll)
                  /\ WF_vars(ForwardOnRing(n))
                  /\ WF_vars(Deq(n))

FairSpec == Spec /\ Fairness
-----------------------------------------------------------------------------
(* The messages from s to d from the oldest on: on the links from d back   *)
(* round the ring, then in sendQ.                                          *)
Of(s, d)      == [src : {s}, dst : {d}, msg : Msg]
Back(d, k)    == IF k <= d THEN d - k ELSE d + N - k
Path(s, d)    == [k \in 1 .. N + 1 |-> IF k <= N THEN link[Back(d, k)] ELSE sendQ[s]]
Between(s, d) == InLine(Path(s, d), N + 1, Of(s, d))

(* The ring is a reliable network: every message is delivered to its       *)
(* destination once, and messages between two stops stay in order.  Seen   *)
(* by source, it is one queue for each pair of stops: this is how the      *)
(* services that stand on a ring are modelled.                             *)
Net == INSTANCE RingNet WITH
  Stops <- Stop,
  transit <- [p \in Traffic |-> Between(p[1], p[2])],
  inbox <- [n \in Stop |-> [i \in DOMAIN recvQ[n] |->
                              [src |-> recvQ[n][i].src, msg |-> recvQ[n][i].msg]]]
ImplementsRingNet == Net!Spec /\ Net!ImplementsAddrNet

(* With one source or one destination the ring never fills with messages   *)
(* that all have to be forwarded (mkConnectionAddrRingNode is documented   *)
(* for a single source or a single sink).                                  *)
RingNeverDead == \E n \in Stop : RoomOut(n) \/ NewMsgIsForMe(n)

(* Types, and a ring that has not filled up.                               *)
RingInv == TypeOK /\ RingNeverDead

(* A stop with a message to send gets to send it, however busy the stops   *)
(* before it are.                                                          *)
EveryStopSends ==
  \A n \in Stop : []<>(sendQ[n] = << >>) \/ []<><<SendToRing(n) \/ SendAll>>_vars

(* A message that waits at a stop moves on, however busy the stop's own    *)
(* client is.                                                              *)
EveryMessageMoves ==
  \A n \in Stop : \/ []<>(In(n) = << >>)
                  \/ []<><<RecvFromRing(n) \/ ForwardOnRing(n)>>_vars
=============================================================================
