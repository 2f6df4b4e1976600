---------------------------- MODULE LockService ----------------------------
(***************************************************************************)
(* The distributed lock service (lock-sync-service/lock.bsv).              *)
(*                                                                         *)
(* N lock nodes sit on two rings.  Node 0, the master, owns every lock at  *)
(* reset.  A node that does not own a lock puts a request on the request   *)
(* ring, a connection chain every node snoops; the owner either sends the  *)
(* lock over the response ring or, while the lock is in use, remembers one *)
(* requester (fwdId) and sends it the lock when its client releases.       *)
(* A request that finds neither circulates.                                *)
(*                                                                         *)
(* Each rule of mkLockNodeDebug is one action; a rule fires atomically and *)
(* two rules of a node that write lockMem never fire in one cycle, so the  *)
(* interleavings of the actions contain every schedule of the compiler.    *)
(***************************************************************************)
EXTENDS Naturals, Sequences, FiniteSets

CONSTANTS N,         \* number of lock nodes of the group
          Locks,     \* the lock ids (n_LOCKS of them)
          ChainCap,  \* slots of one link of the request chain (mkUGFIFOF)
          ReqQCap    \* slots of lockReqQ (mkFIFOF)

ASSUME NAssumption     == N \in Nat \ {0}
ASSUME LocksAssumption == IsFiniteSet(Locks)
ASSUME CapAssumption   == ChainCap \in Nat \ {0} /\ ReqQCap \in Nat \ {0}

Node    == 0 .. N - 1
Master  == 0
Prev(n)  == IF n = 0 THEN N - 1 ELSE n - 1   \* predecessor on the request chain
NoFwd   == N                                 \* fwdId is tagged Invalid

(* LOCK_STATE_WAIT is declared in the code and never assigned. *)
LockState == {"NOT_OWN", "OWN_IDLE", "OWN_IN_USE"}
Request   == [requester : Node, lockId : Locks]

VARIABLES
  lockMem,         \* lockMem[n][l]: the entry of lock l at node n
  initialized,     \* initialized[n]: node n knows its port number
  lockReqQ,        \* requests of the local client
  lockRespQ,       \* grants to the local client
  respToNetworkQ,  \* locks node n is sending away: <<destination, lock>>
  reqArb,          \* FALSE: local requests first, TRUE: ring requests first
  reqLink,         \* reqLink[n]: the link from node n to its successor
  chan,            \* the response ring (AddrNet)
  client           \* client[n][l]: what the engine at node n does with l

vars == <<lockMem, initialized, lockReqQ, lockRespQ, respToNetworkQ, reqArb,
          reqLink, chan, client>>

Pairs == Node \X Node
Ring == INSTANCE AddrNet WITH Traffic <- Pairs, Msg <- Locks

TypeOK ==
  /\ lockMem \in [Node -> [Locks -> [state : LockState, fwdId : Node \cup {NoFwd}]]]
  /\ initialized \in [Node -> BOOLEAN]
  /\ lockReqQ \in [Node -> Seq(Locks)]
  /\ lockRespQ \in [Node -> Seq(Locks)]
  /\ respToNetworkQ \in [Node -> Seq(Node \X Locks)]
  /\ reqArb \in [Node -> BOOLEAN]
  /\ reqLink \in [Node -> Seq(Request)]
  /\ Ring!TypeOK
  /\ client \in [Node -> [Locks -> {"idle", "wait", "hold"}]]

Init ==
  /\ lockMem = [n \in Node |-> [l \in Locks |->
                  [state |-> IF n = Master THEN "OWN_IDLE" ELSE "NOT_OWN",
                   fwdId |-> NoFwd]]]
  /\ initialized = [n \in Node |-> n = Master]
  /\ lockReqQ = [n \in Node |-> << >>]
  /\ lockRespQ = [n \in Node |-> << >>]
  /\ respToNetworkQ = [n \in Node |-> << >>]
  /\ reqArb = [n \in Node |-> FALSE]
  /\ reqLink = [n \in Node |-> << >>]
  /\ Ring!Init
  /\ client = [n \in Node |-> [l \in Locks |-> "idle"]]
-----------------------------------------------------------------------------
(* The requests a node sees at the end of its incoming link. *)
RecvNotEmpty(n) == reqLink[Prev(n)] # << >>
SendNotFull(n)  == Len(reqLink[n]) < ChainCap
RespQNotFull(n) == Len(respToNetworkQ[n]) < Cardinality(Locks)

SetEntry_KeepsOwner(n, l, s, f) ==
  IF s = "NOT_OWN" THEN UNCHANGED lockMem
  ELSE lockMem' = [lockMem EXCEPT ![n][l] = [state |-> s, fwdId |-> f]]
SetEntry_KeepsFwdId(n, l, s, f) ==
  lockMem' = [lockMem EXCEPT ![n][l] =
    [state |-> s, fwdId |-> IF f = NoFwd THEN lockMem[n][l].fwdId ELSE f]]
SetEntry_Wait(n, l, s, f) ==
  lockMem' = [lockMem EXCEPT ![n][l] =
    [state |-> IF s = "NOT_OWN" THEN "WAIT" ELSE s, fwdId |-> f]]

(* Write an entry of lockMem. *)
SetEntry(n, l, s, f) ==
  lockMem' = [lockMem EXCEPT ![n][l] = [state |-> s, fwdId |-> f]]
(* Change the state and keep the fwdId. *)
SetState(n, l, s) == SetEntry(n, l, s, lockMem[n][l].fwdId)

(* Remove the request snooped from the predecessor. *)
TakeRequest(n) == reqLink' = [reqLink EXCEPT ![Prev(n)] = Tail(@)]

ForwardRequest_Lost(n) == TakeRequest(n)

(* Forward it.  With one node the two links are the same queue. *)
ForwardRequest(n) ==
  LET taken == [reqLink EXCEPT ![Prev(n)] = Tail(@)]
  IN  reqLink' = [taken EXCEPT ![n] = Append(@, Head(reqLink[Prev(n)]))]

(* Rule doInit: the response ring has told the node its port number. *)
DoInit(n) ==
  /\ ~initialized[n]
  /\ initialized' = [initialized EXCEPT ![n] = TRUE]
  /\ UNCHANGED <<lockMem, lockReqQ, lockRespQ, respToNetworkQ, reqArb,
                 reqLink, chan, client>>

(* Rule acquireLock: grant an idle lock locally, ask the ring for a lock   *)
(* owned elsewhere.  A request for a lock in use here is dropped.          *)
AcquireLock(n) ==
  /\ initialized[n]
  /\ ~reqArb[n] \/ ~RecvNotEmpty(n)
  /\ lockReqQ[n] # << >>
  /\ LET l == Head(lockReqQ[n])
         s == lockMem[n][l].state
     IN  \/ /\ s = "OWN_IDLE"
            /\ lockRespQ[n] = << >>
            /\ lockRespQ' = [lockRespQ EXCEPT ![n] = Append(@, l)]
            /\ SetState(n, l, "OWN_IN_USE")
            /\ UNCHANGED reqLink
         \/ /\ s = "NOT_OWN"
            /\ SendNotFull(n)
            /\ reqLink' = [reqLink EXCEPT ![n] =
                             Append(@, [requester |-> n, lockId |-> l])]
            /\ UNCHANGED <<lockRespQ, lockMem>>
         \/ /\ s = "OWN_IN_USE"
            /\ UNCHANGED <<lockRespQ, lockMem, reqLink>>
  /\ lockReqQ' = [lockReqQ EXCEPT ![n] = Tail(@)]
  /\ reqArb' = [reqArb EXCEPT ![n] = TRUE]
  /\ UNCHANGED <<initialized, respToNetworkQ, chan, client>>

(* Rule recvLockResp: a lock sent by s arrives and goes to the client. *)
RecvLockResp(s, n) ==
  /\ lockRespQ[n] = << >>
  /\ Ring!Deq(s, n)
  /\ LET l == Ring!First(s, n)
     IN  /\ lockRespQ' = [lockRespQ EXCEPT ![n] = Append(@, l)]
         /\ SetState(n, l, "OWN_IN_USE")
  /\ UNCHANGED <<initialized, lockReqQ, respToNetworkQ, reqArb, reqLink, client>>

(* Method releaseLock and rule returnLock, which fires in the same cycle:  *)
(* hand the lock to the requester on record, or keep it idle.              *)
ReturnLock(n, l) ==
  /\ client[n][l] = "hold"
  /\ RespQNotFull(n)
  /\ client' = [client EXCEPT ![n][l] = "idle"]
  /\ \/ /\ lockMem[n][l].fwdId # NoFwd
        /\ respToNetworkQ' = [respToNetworkQ EXCEPT ![n] =
                                Append(@, <<lockMem[n][l].fwdId, l>>)]
        /\ SetEntry(n, l, "NOT_OWN", NoFwd)
     \/ /\ lockMem[n][l].fwdId = NoFwd
        /\ SetState(n, l, "OWN_IDLE")
        /\ UNCHANGED respToNetworkQ
  /\ UNCHANGED <<initialized, lockReqQ, lockRespQ, reqArb, reqLink, chan>>

(* The ring has the turn, or (whatever the turn) no grant is waiting. *)
SnoopTurn(n) == reqArb[n] \/ lockRespQ[n] = << >>

(* Rule snoopLockReq: give away an idle lock, record the first requester   *)
(* of a lock in use, pass on everything else.                              *)
SnoopLockReq(n) ==
  /\ SnoopTurn(n)
  /\ RecvNotEmpty(n)
  /\ LET req == Head(reqLink[Prev(n)])
         l   == req.lockId
         e   == lockMem[n][l]
     IN  \/ /\ e.state = "OWN_IDLE" /\ e.fwdId = NoFwd
            /\ RespQNotFull(n)
            /\ respToNetworkQ' = [respToNetworkQ EXCEPT ![n] =
                                    Append(@, <<req.requester, l>>)]
            /\ SetState(n, l, "NOT_OWN")
            /\ TakeRequest(n)
         \/ /\ e.state = "OWN_IN_USE" /\ e.fwdId = NoFwd
            /\ SetEntry(n, l, e.state, req.requester)
            /\ TakeRequest(n)
            /\ UNCHANGED respToNetworkQ
         \/ /\ e.state = "NOT_OWN" \/ e.fwdId # NoFwd
            /\ SendNotFull(n)
            /\ ForwardRequest(n)
            /\ UNCHANGED <<lockMem, respToNetworkQ>>
  /\ reqArb' = [reqArb EXCEPT ![n] = FALSE]
  /\ UNCHANGED <<initialized, lockReqQ, lockRespQ, chan, client>>

(* Rule sendRespToNetwork. *)
SendRespToNetwork(n) ==
  /\ respToNetworkQ[n] # << >>
  /\ LET r == Head(respToNetworkQ[n]) IN Ring!Enq(n, r[1], r[2])
  /\ respToNetworkQ' = [respToNetworkQ EXCEPT ![n] = Tail(@)]
  /\ UNCHANGED <<lockMem, initialized, lockReqQ, lockRespQ, reqArb, reqLink, client>>
-----------------------------------------------------------------------------
(* The engine behind a lock node: it asks for a lock it neither holds nor  *)
(* has asked for, takes the grant, and releases the lock it holds          *)
(* (ReturnLock above).                                                     *)
ClientAcquire(n, l) ==
  /\ client[n][l] = "idle"
  /\ Len(lockReqQ[n]) < ReqQCap
  /\ lockReqQ' = [lockReqQ EXCEPT ![n] = Append(@, l)]
  /\ client' = [client EXCEPT ![n][l] = "wait"]
  /\ UNCHANGED <<lockMem, initialized, lockRespQ, respToNetworkQ, reqArb, reqLink, chan>>

ClientTakeResp(n) ==
  /\ lockRespQ[n] # << >>
  /\ client' = [client EXCEPT ![n][Head(lockRespQ[n])] = "hold"]
  /\ lockRespQ' = [lockRespQ EXCEPT ![n] = Tail(@)]
  /\ UNCHANGED <<lockMem, initialized, lockReqQ, respToNetworkQ, reqArb, reqLink, chan>>

Next ==
  \E n \in Node :
    \/ DoInit(n)
    \/ AcquireLock(n)
    \/ \E s \in Node : RecvLockResp(s, n)
    \/ SnoopLockReq(n)
    \/ SendRespToNetwork(n)
    \/ ClientTakeResp(n)
    \/ \E l \in Locks : ReturnLock(n, l) \/ ClientAcquire(n, l)

Spec == Init /\ [][Next]_vars

(***************************************************************************)
(* Every rule that stays ready fires.  acquireLock and snoopLockReq hand   *)
(* each other the turn: reqArb stays FALSE until acquireLock fires and     *)
(* TRUE until snoopLockReq does, and recvLockResp and acquireLock, which   *)
(* compete for lockRespQ, precede snoopLockReq in descending_urgency, so   *)
(* one that is ready again and again is served (strong fairness).  A       *)
(* client that holds a lock releases it, and takes a grant it is offered.  *)
(***************************************************************************)
Fairness ==
  \A n \in Node :
    /\ WF_vars(DoInit(n))
    /\ SF_vars(AcquireLock(n))
    /\ SF_vars(\E s \in Node : RecvLockResp(s, n))
    /\ WF_vars(SnoopLockReq(n))
    /\ WF_vars(SendRespToNetwork(n))
    /\ WF_vars(ClientTakeResp(n))
    /\ \A l \in Locks : WF_vars(ReturnLock(n, l))

FairSpec == Spec /\ Fairness
-----------------------------------------------------------------------------
(* The places where lock l is: owned by a node, leaving a node, in transit. *)
Index        == 1 .. Cardinality(Locks)
Owners(l)    == {n \in Node : lockMem[n][l].state # "NOT_OWN"}
Departing(l) == {x \in Node \X Index : x[2] \in DOMAIN respToNetworkQ[x[1]]
                                       /\ respToNetworkQ[x[1]][x[2]][2] = l}
InTransit(l) == {x \in Pairs \X Index : x[2] \in DOMAIN chan[x[1]]
                                             /\ chan[x[1]][x[2]] = l}

(* Exactly one node owns a lock or has it on the way to it: neither        *)
(* returnLock, snoopLockReq nor recvLockResp duplicates or loses a lock.   *)
OneToken ==
  \A l \in Locks :
    Cardinality(Owners(l)) + Cardinality(Departing(l)) + Cardinality(InTransit(l)) = 1
(* A lock is in use at a node exactly when the node's client holds it or   *)
(* has the grant waiting in lockRespQ; a lock is promised to a requester   *)
(* only while it is in use.                                                *)
Granted(n, l) == client[n][l] = "hold" \/ (\E i \in DOMAIN lockRespQ[n] : lockRespQ[n][i] = l)

InUseIffGranted ==
  \A n \in Node, l \in Locks :
    /\ lockMem[n][l].state = "OWN_IN_USE" <=> Granted(n, l)
    /\ lockMem[n][l].fwdId # NoFwd => lockMem[n][l].state = "OWN_IN_USE"

(* The comment in rule acquireLock: when a request of the local client is  *)
(* handled the lock is either idle here or owned elsewhere, so the request *)
(* is never silently dropped.                                              *)
AcquireStateKnown ==
  \A n \in Node : lockReqQ[n] # << >> =>
    lockMem[n][Head(lockReqQ[n])].state \in {"OWN_IDLE", "NOT_OWN"}

(* Where the request of node n for lock l can be. *)
Places(n, l) ==
  {<<"lockReqQ", i>> : i \in {j \in DOMAIN lockReqQ[n] : lockReqQ[n][j] = l}}
  \cup (UNION {{<<"reqLink", m, i>> : i \in {j \in DOMAIN reqLink[m] :
                    reqLink[m][j] = [requester |-> n, lockId |-> l]}} : m \in Node})
  \cup {<<"fwdId", m>> : m \in {k \in Node : lockMem[k][l].fwdId = n}}
  \cup (UNION {{<<"respToNetworkQ", m, i>> : i \in {j \in DOMAIN respToNetworkQ[m] :
                    respToNetworkQ[m][j] = <<n, l>>}} : m \in Node})
  \cup (UNION {{<<"chan", m, i>> : i \in {j \in DOMAIN chan[<<m, n>>] :
                    chan[<<m, n>>][j] = l}} : m \in Node})
  \cup {<<"lockRespQ", i>> : i \in {j \in DOMAIN lockRespQ[n] : lockRespQ[n][j] = l}}

(* The request of a waiting client is in exactly one place -- queued, on   *)
(* the ring, on record at the owner, or answered -- and no request or      *)
(* answer is left over for a client that is not waiting.                   *)
RequestConserved ==
  \A n \in Node, l \in Locks :
    Cardinality(Places(n, l)) = IF client[n][l] = "wait" THEN 1 ELSE 0

(* No hand-over is ever blocked: releaseLock is ready whenever a client    *)
(* holds a lock, because respToNetworkQ has room for every lock.           *)
ReleaseNeverBlocked ==
  \A n \in Node, l \in Locks : client[n][l] = "hold" => RespQNotFull(n)

(* Nothing a client or a node says is dropped: not a local request in a    *)
(* state acquireLock does not handle, not a request on the ring, not a     *)
(* release (acquireLock, snoopLockReq, releaseLock).                       *)
NothingDropped == AcquireStateKnown /\ RequestConserved /\ ReleaseNeverBlocked

(* The comment on the two rings: they keep the service free of deadlock.   *)
(* The request ring is dead when every link is full, every node has to     *)
(* forward the request it sees, and no lock is on its way to a node that   *)
(* could answer one.                                                       *)
MustForward(n) ==
  /\ RecvNotEmpty(n)
  /\ lockMem[n][Head(reqLink[Prev(n)]).lockId].state = "NOT_OWN"
RequestRingNeverDead ==
  \/ \E n \in Node : SendNotFull(n) \/ ~MustForward(n)
  \/ \E n \in Node : respToNetworkQ[n] # << >>
  \/ \E p \in Pairs : chan[p] # << >>
  \/ \E n \in Node, l \in Locks : lockMem[n][l].fwdId # NoFwd

(* The service implements the abstract lock; in particular two engines     *)
(* never use one lock at the same time.                                    *)
Abstract == INSTANCE LockSpec
ImplementsLockSpec == Abstract!Spec
LockMutex == Abstract!Mutex

(* A lock somebody waits for is in somebody's hands again and again: the   *)
(* two rings never come to a standstill.                                   *)
LockProgress ==
  \A l \in Locks :
    (\E n \in Node : client[n][l] = "wait") ~> (\E n \in Node : client[n][l] = "hold")
=============================================================================
