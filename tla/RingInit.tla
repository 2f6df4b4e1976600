------------------------------ MODULE RingInit ------------------------------
(***************************************************************************)
(* How the stops of an addressable ring get their IDs                      *)
(* (mkConnectionAddrRingInitializer in addressable-ring.bsv).  A token     *)
(* with a number goes round the chain three times: to find the largest     *)
(* static ID, to hand out dynamic IDs above it, and to tell every stop the *)
(* largest ID of all.  The same chain carries the data of the clients: a   *)
(* stop that is done sends and forwards data at once, while stops after it *)
(* still wait for the token.                                               *)
(*                                                                         *)
(* A message on the chain does not say which of the two it is.  The field  *)
(* kind is not in the code: it is there for the properties.                *)
(***************************************************************************)
EXTENDS Ring, FiniteSets, FiniteSetsExt

CONSTANT MaxBound   \* maxBound: the largest t_NODE_ID

NodeID   == 0 .. MaxBound
NoStatic == MaxBound + 1   \* tagged Invalid
NoID     == MaxBound + 1   \* mkRegU: not yet written

ASSUME RingInitAssumption == MaxBound \in Nat

VARIABLES
  staticID,   \* the parameter of each stop: its ID, or NoStatic
  myID,       \* Reg myID
  dynMaxID,   \* Reg dynMaxID
  initPhase,  \* Reg initPhase
  initDone,   \* Reg initDone
  ranOut,     \* $finish: the ring ran out of node IDs
  chain       \* chain[n]: from n to its successor

initVars == <<staticID, myID, dynMaxID, initPhase, initDone, ranOut, chain>>

Token(id)  == [kind |-> "token", id |-> id]
Datum(dst) == [kind |-> "data", id |-> dst]

InitTypeOK ==
  /\ myID \in [Stop -> NodeID \cup {NoID}]
  /\ dynMaxID \in [Stop -> NodeID \cup {NoID}]
  /\ initPhase \in [Stop -> 0 .. 3]
  /\ initDone \in [Stop -> BOOLEAN]
  /\ ranOut \in BOOLEAN
  /\ chain \in [Stop -> Seq([kind : {"token", "data"}, id : NodeID])]
  /\ \A n \in Stop : Len(chain[n]) <= LinkCap

(* "The dynamic computation depends on exactly one node being allocated    *)
(* with static ID 0"; two stops with one static ID would be an error of    *)
(* the design.                                                             *)
LegalStatic(s) ==
  /\ \A n \in Stop : (s[n] = 0) = (n = Primary)
  /\ \A m, n \in Stop : m # n /\ s[m] = s[n] => s[m] = NoStatic

PowerUp ==
  /\ staticID \in [Stop -> NodeID \cup {NoStatic}] /\ LegalStatic(staticID)
  /\ myID = [n \in Stop |-> NoID]
  /\ dynMaxID = [n \in Stop |-> NoID]
  /\ initPhase = [n \in Stop |-> 0]
  /\ initDone = [n \in Stop |-> FALSE]
  /\ ranOut = FALSE
  /\ chain = [n \in Stop |-> << >>]
-----------------------------------------------------------------------------
Arriving(n) == chain[Prev(n)]
RoomNext(n) == Len(chain[n]) < LinkCap

HasStatic(n)     == staticID[n] # NoStatic
NodeIsPrimary(n) == HasStatic(n) /\ staticID[n] = 0

ReceiveAndSend(n, id) == /\ Arriving(n) # << >> /\ RoomNext(n)
                         /\ chain' = SendToNext(RecvFromPrev(chain, n), n, Token(id))

InPhase(n, p) == ~initDone[n] /\ initPhase[n] = p

(* Rule initPhase0: find the largest static ID. *)
LargerID(n, id) == IF HasStatic(n) /\ staticID[n] > id THEN staticID[n] ELSE id
InitPhase0(n) ==
  /\ InPhase(n, 0)
  /\ IF NodeIsPrimary(n)
       THEN RoomNext(n) /\ chain' = SendToNext(chain, n, Token(0))
       ELSE ReceiveAndSend(n, LargerID(n, Head(Arriving(n)).id))
  /\ initPhase' = [initPhase EXCEPT ![n] = 1]
  /\ UNCHANGED <<staticID, myID, dynMaxID, initDone, ranOut>>

(* Rule initPhase1: set dynamic IDs.  A simulation ends when there is none *)
(* left; a synthesized ring goes on, with an ID that wraps.                *)
NextID_NotCounted(id) == id
NextID(id) == (id + 1) % (MaxBound + 1)
InitPhase1(n) ==
  /\ InPhase(n, 1) /\ Arriving(n) # << >>
  /\ LET id == Head(Arriving(n)).id
     IN  IF HasStatic(n)
           THEN /\ myID' = [myID EXCEPT ![n] = staticID[n]]
                /\ ReceiveAndSend(n, id)
                /\ UNCHANGED ranOut
           ELSE /\ myID' = [myID EXCEPT ![n] = NextID(id)]
                /\ ReceiveAndSend(n, NextID(id))
                /\ ranOut' = (ranOut \/ id = MaxBound)
  /\ initPhase' = [initPhase EXCEPT ![n] = 2]
  /\ UNCHANGED <<staticID, dynMaxID, initDone>>

(* Rule initPhase2: take the largest ID of the ring; all but the primary   *)
(* are done.                                                               *)
DoneInPhase2(n) == ~NodeIsPrimary(n)
InitPhase2(n) ==
  /\ InPhase(n, 2) /\ Arriving(n) # << >>
  /\ dynMaxID' = [dynMaxID EXCEPT ![n] = Head(Arriving(n)).id]
  /\ initDone' = [initDone EXCEPT ![n] = @ \/ DoneInPhase2(n)]
  /\ ReceiveAndSend(n, Head(Arriving(n)).id)
  /\ initPhase' = [initPhase EXCEPT ![n] = 3]
  /\ UNCHANGED <<staticID, myID, ranOut>>

(* Rule initPhase3: the primary takes the token off the ring. *)
InitPhase3(n) ==
  /\ InPhase(n, 3) /\ NodeIsPrimary(n) /\ Arriving(n) # << >>
  /\ initDone' = [initDone EXCEPT ![n] = TRUE]
  /\ chain' = RecvFromPrev(chain, n)
  /\ UNCHANGED <<staticID, myID, dynMaxID, initPhase, ranOut>>
-----------------------------------------------------------------------------
(* The rules for data, of mkConnectionAddrRingNode_Impl (AddrRing has them *)
(* in full), which all wait for initDone.  The clients send to the primary.*)
ForMe_Always(n) == Arriving(n) # << >> /\ Head(Arriving(n)).id = myID[n]
ForMe(n) == initDone[n] /\ Arriving(n) # << >> /\ Head(Arriving(n)).id = myID[n]

SendData_Early(n) == RoomNext(n) /\ initPhase[n] > 1 /\ chain' = SendToNext(chain, n, Datum(0))
SendData(n)    == initDone[n] /\ RoomNext(n) /\ chain' = SendToNext(chain, n, Datum(0))
RecvData(n)  == ForMe(n) /\ chain' = RecvFromPrev(chain, n)
ForwardData(n) == /\ initDone[n] /\ Arriving(n) # << >> /\ ~ForMe(n) /\ RoomNext(n)
                  /\ chain' = SendToNext(RecvFromPrev(chain, n), n, Head(Arriving(n)))

ClientRule(n) ==
  /\ SendData(n) \/ RecvData(n) \/ ForwardData(n)
  /\ UNCHANGED <<staticID, myID, dynMaxID, initPhase, initDone, ranOut>>

Initialize(n) == InitPhase0(n) \/ InitPhase1(n) \/ InitPhase2(n) \/ InitPhase3(n)

InitNext == \E n \in Stop : Initialize(n) \/ ClientRule(n)

InitSpec == PowerUp /\ [][InitNext]_initVars

(* Every rule that stays ready fires; the rules for data may compete. *)
FairInitSpec == InitSpec /\ \A n \in Stop : /\ WF_initVars(Initialize(n))
                                            /\ WF_initVars(RecvData(n) /\ ClientRule(n))
                                            /\ WF_initVars(ForwardData(n) /\ ClientRule(n))
-----------------------------------------------------------------------------
IDs == {myID[n] : n \in Stop}

(* No two stops get one ID, static or dynamic, unless the ring reported    *)
(* that it ran out of them.                                                *)
IDsUnique ==
  \A m, n \in Stop : m # n /\ initPhase[m] >= 2 /\ initPhase[n] >= 2 /\ ~ranOut
                     => myID[m] # myID[n]

(* A stop that is done knows the largest ID of the ring (maxID, which the  *)
(* lock and synchronization services count the nodes with), although other *)
(* stops are still busy.                                                   *)
MaxIDKnown == \A n \in Stop : initDone[n] /\ ~ranOut => dynMaxID[n] = Max(IDs \ {NoID})

(* The token of the initialization and the data of stops that are done     *)
(* already never get mixed up: no stop that waits for the token is ahead   *)
(* of data, and no data rule sees the token.                               *)
NoMixUp ==
  \A n \in Stop : Arriving(n) # << >> =>
     (initDone[n] <=> Head(Arriving(n)).kind = "data")

(* The primary is done last: by then every stop has its ID. *)
PrimaryLast == initDone[Primary] => \A n \in Stop : initDone[n]

(* Types, the IDs, the largest ID and the order of the end together.       *)
InitInv == InitTypeOK /\ IDsUnique /\ MaxIDKnown /\ PrimaryLast

(* The initialization ends at every stop, whatever data the stops send     *)
(* that are done earlier.                                                  *)
AllInitialized == <>(\A n \in Stop : initDone[n])
=============================================================================
