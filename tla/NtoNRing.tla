------------------------------ MODULE NtoNRing ------------------------------
(***************************************************************************)
(* An addressable ring for many sources and many destinations              *)
(* (mkConnectionAddrRingNodeNtoN_Impl in addressable-ring.bsv).  There are *)
(* two chains, both closed into rings over the same N stops.  Clients send *)
(* on chain 0.  The dateline is at the primary stop: what passes it on     *)
(* chain 0 goes on along chain 1, so that on neither chain the messages    *)
(* can wait for each other all the way round.                              *)
(*                                                                         *)
(* The ring has been initialised (RingInit): stop n has the ID n.  One     *)
(* action per rule; the wires chain0RecvPriorW, msgReceived1W,             *)
(* localMsgSentW and fwdMsgPrior, which pass between the rules of a cycle, *)
(* are read as the guards that set them.  The primary sends whatever is on *)
(* its incoming links, so every cycle has an order: from the last stop,    *)
(* backwards, to the primary.                                              *)
(***************************************************************************)
EXTENDS Ring, Queues

CONSTANTS Msg,      \* the messages
          Traffic,  \* the pairs <<source, destination>> the clients use
          QCap,     \* slots of recvQ and of sendQ (mkFIFOF)
          Mode      \* ADDR_RING_MSG_MODE

ASSUME NtoNRingAssumption ==
  /\ N # 1 /\ QCap \in Nat \ {0}
  /\ Traffic \subseteq Stop \X Stop /\ Mode \in 0 .. 2

VARIABLES
  recvQ,        \* recvQ[n]: messages for the client
  sendQ,        \* sendQ[n]: messages of the client
  chain0Prior,  \* chain 0 has the next turn for recvQ
  localPrior,   \* mode 2: the client has the next turn on chain 0
  link0, link1  \* link0[n], link1[n]: from n to its successor

vars == <<recvQ, sendQ, chain0Prior, localPrior, link0, link1>>

(* A message carries its source, which the code does not send, so that the *)
(* properties can tell whose it is.                                        *)
Data == [src : Stop, dst : Stop, msg : Msg]

TypeOK ==
  /\ recvQ \in [Stop -> Seq(Data)]
  /\ sendQ \in [Stop -> Seq(Data)]
  /\ chain0Prior \in [Stop -> BOOLEAN]
  /\ localPrior \in [Stop -> BOOLEAN]
  /\ link0 \in [Stop -> Seq(Data)]
  /\ link1 \in [Stop -> Seq(Data)]
  /\ \A n \in Stop : Len(link0[n]) <= LinkCap /\ Len(link1[n]) <= LinkCap

Init ==
  /\ recvQ = [n \in Stop |-> << >>]
  /\ sendQ = [n \in Stop |-> << >>]
  /\ chain0Prior = [n \in Stop |-> TRUE]
  /\ localPrior = [n \in Stop |-> TRUE]
  /\ link0 = [n \in Stop |-> << >>]
  /\ link1 = [n \in Stop |-> << >>]
-----------------------------------------------------------------------------
In0(n)     == link0[Prev(n)]
In1(n)     == link1[Prev(n)]
Room(l, n) == Len(l[n]) < LinkCap

NewMsgIsForMe0_AnyStop(n) == In0(n) # << >>
NewMsgIsForMe0(n) == In0(n) # << >> /\ Head(In0(n)).dst = n
NewMsgIsForMe1(n) == In1(n) # << >> /\ Head(In1(n)).dst = n
Transit0(n)       == In0(n) # << >> /\ ~NewMsgIsForMe0(n)
Transit1(n)       == In1(n) # << >> /\ ~NewMsgIsForMe1(n)

Pop(l, n)         == [l EXCEPT ![Prev(n)] = Tail(@)]
Pass(l, n)        == [l EXCEPT ![Prev(n)] = Tail(@), ![n] = Append(@, Head(l[Prev(n)]))]

(* The rules that take a message off chain 1 and off chain 0 are ready. *)
Recv1Turn_Never(n)  == ~NewMsgIsForMe0(n)
Recv1Turn(n) == ~(NewMsgIsForMe0(n) /\ chain0Prior[n])
CanRecv1(n)  == /\ NewMsgIsForMe1(n) /\ Recv1Turn(n)
                /\ n # Primary /\ Len(recvQ[n]) < QCap
CanRecv0(n)  == NewMsgIsForMe0(n) /\ ~CanRecv1(n) /\ Len(recvQ[n]) < QCap

(* Rule recvFromRing1. *)
RecvFromRing1(n) ==
  /\ CanRecv1(n)
  /\ recvQ' = [recvQ EXCEPT ![n] = Append(@, Head(In1(n)))]
  /\ link1' = Pop(link1, n)
  /\ chain0Prior' = [chain0Prior EXCEPT ![n] = TRUE]
  /\ UNCHANGED <<sendQ, localPrior, link0>>

(* Rule recvFromRing0. *)
RecvFromRing0(n) ==
  /\ CanRecv0(n)
  /\ recvQ' = [recvQ EXCEPT ![n] = Append(@, Head(In0(n)))]
  /\ link0' = Pop(link0, n)
  /\ chain0Prior' = [chain0Prior EXCEPT ![n] = FALSE]
  /\ UNCHANGED <<sendQ, localPrior, link1>>

(* Rule checkMsgSendPrior: a message to forward goes first. *)
FwdMsgPrior_Always(n) == Transit0(n) /\ n # Primary
FwdMsgPrior(n) == /\ Transit0(n) /\ n # Primary
                  /\ Mode = 1 \/ (Mode = 2 /\ ~localPrior[n])

(* Rule updArbiter. *)
UpdArbiter(n, fwdMsgSent) ==
  localPrior' = IF Mode = 2 THEN [localPrior EXCEPT ![n] = fwdMsgSent] ELSE localPrior

(* Rule sendToRing. *)
CanSend(n)    == sendQ[n] # << >> /\ Room(link0, n) /\ ~FwdMsgPrior(n)
SendToRing(n) ==
  /\ CanSend(n)
  /\ link0' = [link0 EXCEPT ![n] = Append(@, Head(sendQ[n]))]
  /\ sendQ' = [sendQ EXCEPT ![n] = Tail(@)]
  /\ UpdArbiter(n, FALSE)
  /\ UNCHANGED <<recvQ, chain0Prior, link1>>

(* Rule forwardOnRing0. *)
ForwardOnRing0(n) ==
  /\ n # Primary /\ Transit0(n) /\ Room(link0, n) /\ ~CanSend(n)
  /\ link0' = Pass(link0, n)
  /\ UpdArbiter(n, TRUE)
  /\ UNCHANGED <<recvQ, sendQ, chain0Prior, link1>>

(* Rule forwardOnRing1. *)
ForwardOnRing1(n) ==
  /\ n # Primary /\ Transit1(n) /\ Room(link1, n)
  /\ link1' = Pass(link1, n)
  /\ UNCHANGED <<recvQ, sendQ, chain0Prior, localPrior, link0>>

(* Rule forwardOnRingPrimary: across the dateline. *)
AcrossDateline_SameChain ==
  /\ Room(link0, Primary)
  /\ link0' = Pass(link0, Primary)
  /\ UNCHANGED link1
AcrossDateline ==
  /\ Room(link1, Primary)
  /\ link1' = [link1 EXCEPT ![Primary] = Append(@, Head(In0(Primary)))]
  /\ link0' = Pop(link0, Primary)
ForwardOnRingPrimary ==
  /\ Transit0(Primary)
  /\ AcrossDateline
  /\ UNCHANGED <<recvQ, sendQ, chain0Prior, localPrior>>
-----------------------------------------------------------------------------
(* The methods: enq(dst, data) and deq(). *)
Enq(n, d, m) ==
  /\ <<n, d>> \in Traffic /\ Len(sendQ[n]) < QCap
  /\ sendQ' = [sendQ EXCEPT ![n] = Append(@, [src |-> n, dst |-> d, msg |-> m])]
  /\ UNCHANGED <<recvQ, chain0Prior, localPrior, link0, link1>>

Deq(n) ==
  /\ recvQ[n] # << >>
  /\ recvQ' = [recvQ EXCEPT ![n] = Tail(@)]
  /\ UNCHANGED <<sendQ, chain0Prior, localPrior, link0, link1>>

(* recvRing1Primary is no action: Dateline shows it never fires. *)
Next ==
  \/ \E n \in Stop : \/ RecvFromRing0(n) \/ RecvFromRing1(n) \/ SendToRing(n)
                     \/ ForwardOnRing0(n) \/ ForwardOnRing1(n) \/ Deq(n)
  \/ ForwardOnRingPrimary
  \/ \E n, d \in Stop, m \in Msg : Enq(n, d, m)

Spec == Init /\ [][Next]_vars

(* Every rule that stays ready fires, and clients take what they are sent. *)
Fairness ==
  /\ \A n \in Stop : /\ WF_vars(RecvFromRing0(n)) /\ WF_vars(RecvFromRing1(n))
                     /\ WF_vars(SendToRing(n)) /\ WF_vars(Deq(n))
                     /\ WF_vars(ForwardOnRing0(n)) /\ WF_vars(ForwardOnRing1(n))
  /\ WF_vars(ForwardOnRingPrimary)

FairSpec == Spec /\ Fairness
-----------------------------------------------------------------------------
(* The messages from s to d from the oldest on: on chain 1 from d back     *)
(* round the ring; on chain 0, from the dateline back if they cross it and *)
(* from d back if they do not; then in sendQ.                              *)
Crosses(s, d) == d # Primary /\ s >= d
Of(s, d)      == [src : {s}, dst : {d}, msg : Msg]
Back(d, k)    == IF k <= d THEN d - k ELSE d + N - k
Path(s, d) ==
  [k \in 1 .. 2 * N + 1 |->
     IF k <= N THEN link1[Back(d, k)]
     ELSE IF k <= 2 * N THEN link0[Back(IF Crosses(s, d) THEN Primary ELSE d, k - N)]
     ELSE sendQ[s]]
Between(s, d) == InLine(Path(s, d), 2 * N + 1, Of(s, d))

(* The ring is a reliable network: every message is delivered to its       *)
(* destination once, and messages between two stops stay in order          *)
(* although they change chains on the way and recvQ is filled from both.   *)
Net == INSTANCE RingNet WITH
  Stops <- Stop,
  transit <- [p \in Traffic |-> Between(p[1], p[2])],
  inbox <- [n \in Stop |-> [i \in DOMAIN recvQ[n] |->
                              [src |-> recvQ[n][i].src, msg |-> recvQ[n][i].msg]]]
ImplementsRingNet == Net!Spec

(* "This should not fire" (recvRing1Primary, which drops its message):     *)
(* nothing reaches the primary on chain 1; and nothing stays on a chain    *)
(* past the dateline or past its destination.                              *)
Dateline ==
  /\ link1[Prev(Primary)] = << >>
  /\ \A n \in Stop :
       /\ \A i \in DOMAIN link0[n] : LET x == link0[n][i] IN
            x.src <= n /\ (x.dst > x.src => n < x.dst)
       /\ \A i \in DOMAIN link1[n] : LET x == link1[n][i] IN
            Crosses(x.src, x.dst) /\ n < x.dst

(* Types and the dateline together.                                        *)
RingInv == TypeOK /\ Dateline

(* "Guarantee deadlock freedom when there are multiple sources and         *)
(* multiple sinks": what waits on a link in front of a stop is eventually  *)
(* taken off it, on chain 0 whatever the local clients send, and on        *)
(* chain 1.                                                                *)
Chain0Moves ==
  \A n \in Stop : \/ []<>(In0(n) = << >>)
                  \/ []<><<RecvFromRing0(n) \/ ForwardOnRing0(n)
                           \/ (n = Primary /\ ForwardOnRingPrimary)>>_vars
Chain1Moves ==
  \A n \in Stop : []<>(In1(n) = << >>) \/ []<><<RecvFromRing1(n) \/ ForwardOnRing1(n)>>_vars

(* A stop with a message to send gets to send it. *)
EveryStopSends ==
  \A n \in Stop : []<>(sendQ[n] = << >>) \/ []<><<SendToRing(n)>>_vars
=============================================================================
