---------------------------- MODULE SyncService ----------------------------
(***************************************************************************)
(* The barrier service (lock-sync-service/synchronization.bsv).            *)
(*                                                                         *)
(* Node 0, the master, keeps the barriers: one bit for every node that has *)
(* yet to signal.  The others report their signals to it over a token ring *)
(* (AddrNet); when the last bit of a barrier clears the master restores    *)
(* the bits, releases its own client and sends SYNC_BARRIER_DONE down the  *)
(* broadcast chain, which passes every slave and ends at the master, who   *)
(* drops it.  One action per rule; the client of a node signals a barrier, *)
(* waits for it, and only then signals it again.                           *)
(***************************************************************************)
EXTENDS Naturals, Sequences, FiniteSets

CONSTANTS N,         \* number of nodes of the group
          Syncs,     \* the barriers (n_SYNCS of them)
          Masks,     \* the values the client of the master may set
          ChainCap   \* slots of one link of the broadcast chain (mkUGFIFOF)

Node   == 0 .. N - 1
Master == 0
Slave  == Node \ {Master}

InitMsg == "SYNC_INIT_DONE"   \* any other broadcast is SYNC_BARRIER_DONE s

ASSUME SyncAssumption ==
  /\ N \in Nat \ {0} /\ ChainCap \in Nat \ {0}
  /\ IsFiniteSet(Syncs) /\ Syncs # {} /\ InitMsg \notin Syncs
  /\ Masks \subseteq (SUBSET Node) \ {{}}

VARIABLES
  initDone,            \* initDone[n]
  portInitDone,        \* portInitDone[n]: the node knows its port number
  barrierInitialized,  \* master: setSyncBarrier has been called for s
  barrierInitValues,   \* master: the nodes barrier s waits for
  barriers,            \* master: those that have yet to signal s
  doneSignalQ,         \* signals of the local client
  syncRespQ,           \* syncRespQ[n][s]: completions offered to the client
  link,                \* link[n]: broadcast chain from n to its successor
  chan,                \* the report ring (AddrNet)
  phase                \* phase[n][s]: "run", or "wait" after the signal

vars == <<initDone, portInitDone, barrierInitialized, barrierInitValues,
          barriers, doneSignalQ, syncRespQ, link, chan, phase>>

Reports == Node \X {Master}
Report == INSTANCE AddrNet WITH Traffic <- Reports, Msg <- Syncs

TypeOK ==
  /\ initDone \in [Node -> BOOLEAN]
  /\ portInitDone \in [Node -> BOOLEAN]
  /\ barrierInitialized \in [Syncs -> BOOLEAN]
  /\ barrierInitValues \in [Syncs -> SUBSET Node]
  /\ barriers \in [Syncs -> SUBSET Node]
  /\ doneSignalQ \in [Node -> Seq(Syncs)]
  /\ syncRespQ \in [Node -> [Syncs -> 0 .. 1]]
  /\ link \in [Node -> Seq(Syncs \cup {InitMsg})]
  /\ Report!TypeOK
  /\ phase \in [Node -> [Syncs -> {"run", "wait"}]]

Init ==
  /\ initDone = [n \in Node |-> FALSE]
  /\ portInitDone = [n \in Node |-> n = Master]
  /\ barrierInitialized = [s \in Syncs |-> FALSE]
  /\ barrierInitValues = [s \in Syncs |-> {}]
  /\ barriers = [s \in Syncs |-> {}]
  /\ doneSignalQ = [n \in Node |-> << >>]
  /\ syncRespQ = [n \in Node |-> [s \in Syncs |-> 0]]
  /\ link = [n \in Node |-> << >>]
  /\ Report!Init
  /\ phase = [n \in Node |-> [s \in Syncs |-> "run"]]
-----------------------------------------------------------------------------
Prev(n)        == IF n = 0 THEN N - 1 ELSE n - 1
CanSend(n)     == Len(link[n]) < ChainCap
CanRecv(n)     == link[Prev(n)] # << >>
Offered(n)     == Head(link[Prev(n)])
SendToNext(n, m) == link' = [link EXCEPT ![n] = Append(@, m)]

(* Receive from the predecessor and pass on; a slave's links are distinct. *)
Forward(n) == /\ CanRecv(n) /\ CanSend(n)
              /\ link' = [link EXCEPT ![Prev(n)] = Tail(@),
                                      ![n] = Append(@, Offered(n))]

(* Method setSyncBarrier of the master's port s. *)
SetSyncBarrier(s, mask) ==
  /\ \E t \in Syncs : ~barrierInitialized[t]
  /\ barrierInitValues' = [barrierInitValues EXCEPT ![s] = mask]
  /\ barrierInitialized' = [barrierInitialized EXCEPT ![s] = TRUE]
  /\ UNCHANGED <<initDone, portInitDone, barriers, doneSignalQ, syncRespQ,
                 link, chan, phase>>

CheckBarrierInit_NotLoaded ==
  /\ ~initDone[Master]
  /\ \A s \in Syncs : barrierInitialized[s]
  /\ CanSend(Master)
  /\ initDone' = [initDone EXCEPT ![Master] = TRUE]
  /\ SendToNext(Master, InitMsg)
  /\ UNCHANGED <<portInitDone, barrierInitialized, barrierInitValues, barriers,
                 doneSignalQ, syncRespQ, chan, phase>>

(* Rule checkBarrierInit. *)
CheckBarrierInit ==
  /\ ~initDone[Master]
  /\ \A s \in Syncs : barrierInitialized[s]
  /\ CanSend(Master)
  /\ initDone' = [initDone EXCEPT ![Master] = TRUE]
  /\ barriers' = barrierInitValues
  /\ SendToNext(Master, InitMsg)
  /\ UNCHANGED <<portInitDone, barrierInitialized, barrierInitValues,
                 doneSignalQ, syncRespQ, chan, phase>>

CompleteBarrier_MasterNotTold(s) ==
  /\ CanSend(Master) /\ SendToNext(Master, s)
  /\ UNCHANGED syncRespQ

(* A completion: the master's client is released and the slaves are told.  *)
CompleteBarrier(s) == /\ CanSend(Master) /\ syncRespQ[Master][s] = 0
                      /\ SendToNext(Master, s)
                      /\ syncRespQ' = [syncRespQ EXCEPT ![Master][s] = 1]

SetBits(s, nodes) == barriers' = [barriers EXCEPT ![s] = nodes]

ClearBits_NoRestore(s, senders) ==
  /\ SetBits(s, barriers[s] \ senders)
  /\ IF barriers[s] \subseteq senders THEN CompleteBarrier(s) ELSE UNCHANGED <<link, syncRespQ>>
ClearBits_FirstSender(s, senders) ==
  /\ SetBits(s, barrierInitValues[s])
  /\ CompleteBarrier(s)
(* Clear the bits of the senders; when none is left restore the barrier    *)
(* and complete the round.                                                 *)
ClearBits(s, senders) ==
  \/ /\ barriers[s] \subseteq senders
     /\ SetBits(s, barrierInitValues[s])
     /\ CompleteBarrier(s)
  \/ /\ ~(barriers[s] \subseteq senders)
     /\ SetBits(s, barriers[s] \ senders)
     /\ UNCHANGED <<link, syncRespQ>>

(* Rule setLocalSyncSignal: the master's own signal, together with the     *)
(* report at the head of the ring's receive queue if it is for the same    *)
(* barrier.  (What is at the head, if anything, is the ring's choice.)     *)
SetLocalSyncSignal ==
  /\ doneSignalQ[Master] # << >>
  /\ LET s == Head(doneSignalQ[Master])
     IN  \/ /\ ClearBits(s, {Master})
            /\ UNCHANGED chan
         \/ \E m \in Node : /\ Report!Deq(m, Master)
                            /\ Report!First(m, Master) = s
                            /\ ClearBits(s, {Master, m})
  /\ doneSignalQ' = [doneSignalQ EXCEPT ![Master] = Tail(@)]
  /\ UNCHANGED <<initDone, portInitDone, barrierInitialized,
                 barrierInitValues, phase>>

(* Rule setRemoteSyncSignal, with the report of m at the head. *)
SetRemoteSyncSignal(m) ==
  /\ initDone[Master]
  /\ Report!Deq(m, Master)
  /\ ClearBits(Report!First(m, Master), {m})
  /\ UNCHANGED <<initDone, portInitDone, barrierInitialized,
                 barrierInitValues, doneSignalQ, phase>>

(* Rule dropBroadcastMsg: a broadcast that came round the chain ends here. *)
DropBroadcastMsg ==
  /\ CanRecv(Master)
  /\ link' = [link EXCEPT ![Prev(Master)] = Tail(@)]
  /\ UNCHANGED <<initDone, portInitDone, barrierInitialized,
                 barrierInitValues, barriers, doneSignalQ, syncRespQ, chan, phase>>

(* Rule portInit of a slave: the report ring knows the port number. *)
PortInit(n) ==
  /\ n \in Slave /\ ~portInitDone[n]
  /\ portInitDone' = [portInitDone EXCEPT ![n] = TRUE]
  /\ UNCHANGED <<initDone, barrierInitialized, barrierInitValues, barriers,
                 doneSignalQ, syncRespQ, link, chan, phase>>

(* Rule recvInit of a slave: the first broadcast starts the service. *)
RecvInit(n) ==
  /\ n \in Slave /\ ~initDone[n]
  /\ Forward(n)
  /\ initDone' = [initDone EXCEPT ![n] = TRUE]
  /\ UNCHANGED <<portInitDone, barrierInitialized, barrierInitValues,
                 barriers, doneSignalQ, syncRespQ, chan, phase>>

(* Rule sendDoneSignal of a slave. *)
SendDoneSignal(n) ==
  /\ n \in Slave /\ doneSignalQ[n] # << >>
  /\ Report!Enq(n, Master, Head(doneSignalQ[n]))
  /\ doneSignalQ' = [doneSignalQ EXCEPT ![n] = Tail(@)]
  /\ UNCHANGED <<initDone, portInitDone, barrierInitialized,
                 barrierInitValues, barriers, syncRespQ, link, phase>>

(* Rule recvSyncSignal of a slave: offer the completion to the client and  *)
(* pass it on.                                                             *)
RecvSyncSignal(n) ==
  /\ n \in Slave /\ initDone[n] /\ portInitDone[n]
  /\ Forward(n)
  /\ \/ /\ Offered(n) = InitMsg
        /\ UNCHANGED syncRespQ
     \/ /\ Offered(n) # InitMsg
        /\ syncRespQ[n][Offered(n)] = 0
        /\ syncRespQ' = [syncRespQ EXCEPT ![n][Offered(n)] = 1]
  /\ UNCHANGED <<initDone, portInitDone, barrierInitialized,
                 barrierInitValues, barriers, doneSignalQ, chan, phase>>
-----------------------------------------------------------------------------
DoneCap(n) == IF n = Master THEN 2 ELSE 1   \* mkFIFOF, mkBypassFIFOF

(* Method signalSyncReached, called by an engine the barrier waits for. *)
SignalSyncReached(n, s) ==
  /\ initDone[n] /\ portInitDone[n]
  /\ n \in barrierInitValues[s] /\ phase[n][s] = "run"
  /\ Len(doneSignalQ[n]) < DoneCap(n)
  /\ doneSignalQ' = [doneSignalQ EXCEPT ![n] = Append(@, s)]
  /\ phase' = [phase EXCEPT ![n][s] = "wait"]
  /\ UNCHANGED <<initDone, portInitDone, barrierInitialized,
                 barrierInitValues, barriers, syncRespQ, link, chan>>

(* Method waitForSync; any engine may call it, at any time. *)
WaitForSync(n, s) ==
  /\ syncRespQ[n][s] > 0
  /\ syncRespQ' = [syncRespQ EXCEPT ![n][s] = @ - 1]
  /\ phase' = [phase EXCEPT ![n][s] = "run"]
  /\ UNCHANGED <<initDone, portInitDone, barrierInitialized,
                 barrierInitValues, barriers, doneSignalQ, link, chan>>

(* Method othersSyncAllReached of the master's port s. *)
OthersSyncAllReached(s) == barriers[s] \ {Master} = {}

Next ==
  \/ \E s \in Syncs, mask \in Masks : SetSyncBarrier(s, mask)
  \/ CheckBarrierInit
  \/ SetLocalSyncSignal
  \/ DropBroadcastMsg
  \/ \E n \in Node : \/ SetRemoteSyncSignal(n)
                     \/ PortInit(n) \/ RecvInit(n)
                     \/ SendDoneSignal(n) \/ RecvSyncSignal(n)
                     \/ \E s \in Syncs : SignalSyncReached(n, s) \/ WaitForSync(n, s)

Spec == Init /\ [][Next]_vars

(* Every rule that stays ready fires, the client of the master sets all    *)
(* barriers, and every client goes on signalling, in turn if it uses two   *)
(* barriers (its doneSignalQ is shared), and waiting -- also the clients   *)
(* of nodes that no barrier waits for: their syncRespQ holds one completion *)
(* and the next one stalls the broadcast chain until they take it.         *)
(* setLocalSyncSignal is more urgent than setRemoteSyncSignal, but    *)
(* while every barrier waits for a slave it needs a report of its own      *)
(* barrier in every round, and the receive queue of the ring is a FIFO:    *)
(* the report at its head is served (strong fairness).                     *)
Fairness ==
  /\ \A s \in Syncs : WF_vars(~barrierInitialized[s] /\ \E m \in Masks : SetSyncBarrier(s, m))
  /\ WF_vars(CheckBarrierInit)
  /\ WF_vars(SetLocalSyncSignal)
  /\ WF_vars(DropBroadcastMsg)
  /\ \A n \in Node : /\ SF_vars(SetRemoteSyncSignal(n))
                     /\ WF_vars(PortInit(n)) /\ WF_vars(RecvInit(n))
                     /\ WF_vars(SendDoneSignal(n)) /\ WF_vars(RecvSyncSignal(n))
                     /\ \A s \in Syncs : /\ SF_vars(SignalSyncReached(n, s))
                                         /\ WF_vars(WaitForSync(n, s))

FairSpec == Spec /\ Fairness
-----------------------------------------------------------------------------
(* The nodes barrier s waits for, once the service has started. *)
Part(s) == IF initDone[Master] THEN barrierInitValues[s] ELSE {}

(* SYNC_BARRIER_DONE s messages that have yet to reach node n. *)
OnTheWay(n, s) ==
  IF n = Master THEN 0
  ELSE Cardinality({x \in (0 .. n - 1) \X (1 .. ChainCap) :
                      x[2] \in DOMAIN link[x[1]] /\ link[x[1]][x[2]] = s})
Owed(n, s) == OnTheWay(n, s) + syncRespQ[n][s]

(* Node n has signalled a round of s that is not complete. *)
Signalled(n, s) == phase[n][s] = "wait" /\ Owed(n, s) = 0

(* Signals of n for s that the master has not seen. *)
Unseen(n, s) ==
  Cardinality({i \in DOMAIN doneSignalQ[n] : doneSignalQ[n][i] = s})
  + Cardinality({i \in DOMAIN chan[<<n, Master>>] : chan[<<n, Master>>][i] = s})

(* Every signal counts exactly once, in the round it was given for: until  *)
(* the round is complete it is either on its way or recorded in barriers,  *)
(* and a completion leaves none of its signals for the next round          *)
(* (setLocalSyncSignal, setRemoteSyncSignal).                              *)
SignalConserved ==
  \A s \in Syncs : \A n \in Part(s) :
    Unseen(n, s) + (IF n \in barriers[s] THEN 0 ELSE 1) = IF Signalled(n, s) THEN 1 ELSE 0

(* The one slot of a syncRespQ is enough: a completion never finds the     *)
(* previous one still there, or on its way, at a node the barrier waits    *)
(* for, so these nodes never stall the broadcast chain (recvSyncSignal).   *)
RespQNeverStalls == \A s \in Syncs : \A n \in Part(s) : Owed(n, s) <= 1

(* Types, signals and completions together.                                *)
SyncInv == TypeOK /\ SignalConserved /\ RespQNeverStalls

(* What the comment on othersSyncAllReached says: every slave of the       *)
(* barrier has reached the synchronization point.                          *)
OthersReached(s) == \A n \in barrierInitValues[s] \ {Master} : Signalled(n, s)

(* It is right once the service has started; before that barriers is all   *)
(* clear and the method returns True.                                      *)
OthersReachedOnceStarted ==
  \A s \in Syncs : initDone[Master] /\ OthersSyncAllReached(s) => OthersReached(s)

(* The service implements the abstract barrier. *)
Abstract == INSTANCE BarrierSpec WITH
  part <- [s \in Syncs |-> Part(s)],
  owed <- [n \in Node |-> [s \in Syncs |-> Owed(n, s)]]
ImplementsBarrierSpec == Abstract!Spec

(* A client that waits for a barrier passes it. *)
BarrierProgress ==
  \A n \in Node, s \in Syncs : phase[n][s] = "wait" ~> phase[n][s] = "run"
=============================================================================
