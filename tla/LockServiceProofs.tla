-------------------------- MODULE LockServiceProofs --------------------------
(***************************************************************************)
(* The safety of the lock service, for every number of nodes and locks and *)
(* every queue size.  The argument: a lock is in one place at a time --    *)
(* owned by a node, in one node's respToNetworkQ, or on the response ring  *)
(* -- (UniqueToken), and a node's client holds a lock only while its node  *)
(* owns it in state OWN_IN_USE (Granted).  No lock is lost, so it is in    *)
(* one place (SomeToken), and the request of a waiting client is in        *)
(* exactly one queue (RequestInv), from which it follows that the service  *)
(* implements LockSpec.                                                    *)
(***************************************************************************)
EXTENDS LockService, QueueLemmas, FiniteSetTheorems

Own(n, l)       == lockMem[n][l].state # "NOT_OWN"
Dep(n, i, l)    == i \in DOMAIN respToNetworkQ[n] /\ respToNetworkQ[n][i][2] = l
Net(p, i, l)    == i \in DOMAIN chan[p] /\ chan[p][i] = l

(* No lock is in two places. *)
UniqueToken ==
  \A l \in Locks :
    /\ \A m, n \in Node : Own(m, l) /\ Own(n, l) => m = n
    /\ \A m, n \in Node : \A i \in Nat : ~(Own(m, l) /\ Dep(n, i, l))
    /\ \A m \in Node, p \in Pairs : \A i \in Nat : ~(Own(m, l) /\ Net(p, i, l))
    /\ \A m, n \in Node : \A i, j \in Nat : Dep(m, i, l) /\ Dep(n, j, l) => m = n /\ i = j
    /\ \A m \in Node, p \in Pairs : \A i, j \in Nat : ~(Dep(m, i, l) /\ Net(p, j, l))
    /\ \A p, q \in Pairs : \A i, j \in Nat : Net(p, i, l) /\ Net(q, j, l) => p = q /\ i = j

(* lockRespQ has one slot, and offers a grant the client has not taken. *)
OneGrant ==
  \A n \in Node :
    /\ Len(lockRespQ[n]) <= 1
    /\ lockRespQ[n] # << >> => client[n][Head(lockRespQ[n])] # "hold"

IInv == TypeOK /\ UniqueToken /\ OneGrant /\ InUseIffGranted
-----------------------------------------------------------------------------
LEMMA PairsFact == Pairs = Node \X Node
  BY DEF Pairs

Entry  == [state : LockState, fwdId : Node \cup {NoFwd}]
Status == {"idle", "wait", "hold"}

LEMMA SetEntryType ==
  ASSUME TypeOK, NEW n \in Node, NEW l \in Locks, NEW s \in LockState,
         NEW f \in Node \cup {NoFwd}, SetEntry(n, l, s, f)
  PROVE  lockMem' \in [Node -> [Locks -> Entry]]
  <1>1. [state |-> s, fwdId |-> f] \in Entry
    BY DEF Entry
  <1>2. lockMem \in [Node -> [Locks -> Entry]]
    BY DEF TypeOK, Entry
  <1>3. QED
    BY <1>1, <1>2, WriteType DEF SetEntry

LEMMA EntryType ==
  ASSUME TypeOK, NEW n \in Node, NEW l \in Locks
  PROVE  lockMem[n][l].state \in LockState /\ lockMem[n][l].fwdId \in Node \cup {NoFwd}
  <1>1. lockMem[n][l] \in [state : LockState, fwdId : Node \cup {NoFwd}]
    BY DEF TypeOK
  <1>2. QED
    BY <1>1

LEMMA PrevType == ASSUME NEW n \in Node PROVE Prev(n) \in Node
  BY NAssumption DEF Node, Prev

LEMMA TypeInit == Init => TypeOK
  BY NAssumption DEF Init, TypeOK, Ring!Init, Ring!TypeOK, LockState, Node, Master, NoFwd

(* No rule of the node and no step of its client leaves the types. *)
LEMMA TypeStep == TypeOK /\ [Next]_vars => TypeOK'
  <2> SUFFICES ASSUME TypeOK, [Next]_vars PROVE TypeOK'
    OBVIOUS
  <2>1. ASSUME NEW n \in Node, DoInit(n) PROVE TypeOK'
    BY <2>1 DEF DoInit, TypeOK, Ring!TypeOK
  <2>2. ASSUME NEW n \in Node, AcquireLock(n) PROVE TypeOK'
    <3> DEFINE l == Head(lockReqQ[n])
    <3>1. l \in Locks /\ lockReqQ' \in [Node -> Seq(Locks)]
      BY <2>2, DeqType DEF AcquireLock, TypeOK
    <3>2. lockRespQ' \in [Node -> Seq(Locks)]
      <4>1. lockRespQ \in [Node -> Seq(Locks)]
        BY DEF TypeOK
      <4>2. Append(lockRespQ[n], l) \in Seq(Locks)
        BY <3>1, <4>1, EnqType
      <4>3. lockRespQ' = lockRespQ \/ lockRespQ' = [lockRespQ EXCEPT ![n] = Append(lockRespQ[n], l)]
        BY <2>2 DEF AcquireLock
      <4>4. QED
        BY <4>1, <4>2, <4>3, UpdateType
    <3>3. reqLink' \in [Node -> Seq(Request)]
      <4> DEFINE req == [requester |-> n, lockId |-> l]
      <4>1. reqLink \in [Node -> Seq(Request)]
        BY DEF TypeOK
      <4>2. req \in Request /\ Append(reqLink[n], req) \in Seq(Request)
        BY <3>1, <4>1, EnqType DEF Request
      <4>3. reqLink' = reqLink \/ reqLink' = [reqLink EXCEPT ![n] = Append(reqLink[n], req)]
        BY <2>2 DEF AcquireLock
      <4>4. QED
        BY <4>1, <4>2, <4>3, UpdateType
    <3>4. lockMem' \in [Node -> [Locks -> Entry]]
      <4>1. SetState(n, l, "OWN_IN_USE") \/ lockMem' = lockMem
        BY <2>2 DEF AcquireLock
      <4>2. lockMem \in [Node -> [Locks -> Entry]]
        BY DEF TypeOK, Entry
      <4>3. QED
        BY <4>1, <4>2, <3>1, SetEntryType, EntryType DEF SetState, LockState
    <3>5. QED
      BY <2>2, <3>1, <3>2, <3>3, <3>4 DEF AcquireLock, TypeOK, Ring!TypeOK, Entry
  <2>3. ASSUME NEW n \in Node, NEW s \in Node, RecvLockResp(s, n) PROVE TypeOK'
    <3> DEFINE l == Ring!First(s, n)
    <3>1. l \in Locks /\ Ring!TypeOK'
      BY <2>3, DeqType, PairsFact
      DEF RecvLockResp, TypeOK, Ring!TypeOK, Ring!Deq, Ring!CanDeq, Ring!First
    <3>2. lockRespQ' \in [Node -> Seq(Locks)]
      BY <2>3, <3>1, EnqType DEF RecvLockResp, TypeOK
    <3>3. lockMem' \in [Node -> [Locks -> Entry]]
      BY <2>3, <3>1, SetEntryType, EntryType DEF RecvLockResp, SetState, LockState
    <3>4. QED
      BY <2>3, <3>1, <3>2, <3>3 DEF RecvLockResp, TypeOK, Entry
  <2>4. ASSUME NEW n \in Node, NEW l \in Locks, ReturnLock(n, l) PROVE TypeOK'
    <3>1. client' \in [Node -> [Locks -> Status]]
      BY <2>4, WriteType DEF ReturnLock, TypeOK, Status
    <3>2. respToNetworkQ' \in [Node -> Seq(Node \X Locks)]
      <4> DEFINE sent == Append(respToNetworkQ[n], <<lockMem[n][l].fwdId, l>>)
      <4>1. respToNetworkQ \in [Node -> Seq(Node \X Locks)]
        BY DEF TypeOK
      <4>2. \/ respToNetworkQ' = respToNetworkQ
            \/ lockMem[n][l].fwdId # NoFwd /\ respToNetworkQ' = [respToNetworkQ EXCEPT ![n] = sent]
        BY <2>4 DEF ReturnLock
      <4>3. CASE lockMem[n][l].fwdId # NoFwd
        <5>1. <<lockMem[n][l].fwdId, l>> \in Node \X Locks
          BY <4>3, EntryType
        <5>2. sent \in Seq(Node \X Locks)
          BY <5>1, <4>1, EnqType
        <5>3. QED
          BY <4>1, <4>2, <5>2, UpdateType
      <4>4. QED
        BY <4>1, <4>2, <4>3
    <3>3. lockMem' \in [Node -> [Locks -> Entry]]
      BY <2>4, SetEntryType, EntryType DEF ReturnLock, SetState, LockState
    <3>4. QED
      BY <2>4, <3>1, <3>2, <3>3 DEF ReturnLock, TypeOK, Ring!TypeOK, Entry, Status
  <2>5. ASSUME NEW n \in Node, SnoopLockReq(n) PROVE TypeOK'
    <3> DEFINE req == Head(reqLink[Prev(n)])
    <3>1. req \in Request /\ Tail(reqLink[Prev(n)]) \in Seq(Request)
      BY <2>5, DeqType, PrevType DEF SnoopLockReq, RecvNotEmpty, TypeOK
    <3>2. req.requester \in Node /\ req.lockId \in Locks
      BY <3>1 DEF Request
    <3>3. respToNetworkQ' \in [Node -> Seq(Node \X Locks)]
      <4> DEFINE sent == Append(respToNetworkQ[n], <<req.requester, req.lockId>>)
      <4>1. respToNetworkQ \in [Node -> Seq(Node \X Locks)]
        BY DEF TypeOK
      <4>2. sent \in Seq(Node \X Locks)
        BY <3>2, <4>1, EnqType
      <4>3. respToNetworkQ' = respToNetworkQ \/ respToNetworkQ' = [respToNetworkQ EXCEPT ![n] = sent]
        BY <2>5 DEF SnoopLockReq
      <4>4. QED
        BY <4>1, <4>2, <4>3, UpdateType
    <3>4. lockMem' \in [Node -> [Locks -> Entry]]
      <4> DEFINE e == lockMem[n][req.lockId]
      <4>1. \/ SetState(n, req.lockId, "NOT_OWN")
            \/ SetEntry(n, req.lockId, e.state, req.requester)
            \/ lockMem' = lockMem
        BY <2>5 DEF SnoopLockReq
      <4>2. lockMem \in [Node -> [Locks -> Entry]]
        BY DEF TypeOK, Entry
      <4>3. "NOT_OWN" \in LockState /\ e.state \in LockState /\ e.fwdId \in Node \cup {NoFwd}
        BY <3>2, EntryType DEF LockState
      <4>4. QED
        BY <4>1, <4>2, <4>3, <3>2, SetEntryType DEF SetState
    <3>5. reqLink' \in [Node -> Seq(Request)]
      <4>1. CASE TakeRequest(n)
        BY <4>1, <3>1, PrevType DEF TakeRequest, TypeOK
      <4>2. CASE ForwardRequest(n)
        BY <4>2, <3>1, PrevType, EnqType DEF ForwardRequest, TypeOK
      <4>3. QED
        BY <4>1, <4>2, <2>5 DEF SnoopLockReq
    <3>6. QED
      BY <2>5, <3>3, <3>4, <3>5 DEF SnoopLockReq, TypeOK, Ring!TypeOK, Entry
  <2>6. ASSUME NEW n \in Node, SendRespToNetwork(n) PROVE TypeOK'
    <3> DEFINE r == Head(respToNetworkQ[n])
    <3>1. r \in Node \X Locks /\ respToNetworkQ' \in [Node -> Seq(Node \X Locks)]
      BY <2>6, DeqType DEF SendRespToNetwork, TypeOK
    <3>2. Ring!TypeOK'
      BY <2>6, <3>1, EnqType, PairsFact DEF SendRespToNetwork, TypeOK, Ring!TypeOK, Ring!Enq
    <3>3. QED
      BY <2>6, <3>1, <3>2 DEF SendRespToNetwork, TypeOK
  <2>7. ASSUME NEW n \in Node, NEW l \in Locks, ClientAcquire(n, l) PROVE TypeOK'
    <3>1. client' \in [Node -> [Locks -> Status]]
      BY <2>7, WriteType DEF ClientAcquire, TypeOK, Status
    <3>2. lockReqQ' \in [Node -> Seq(Locks)]
      BY <2>7, EnqType DEF ClientAcquire, TypeOK
    <3>3. QED
      BY <2>7, <3>1, <3>2 DEF ClientAcquire, TypeOK, Ring!TypeOK, Status
  <2>8. ASSUME NEW n \in Node, ClientTakeResp(n) PROVE TypeOK'
    <3>1. Head(lockRespQ[n]) \in Locks /\ lockRespQ' \in [Node -> Seq(Locks)]
      BY <2>8, DeqType DEF ClientTakeResp, TypeOK
    <3>2. client' \in [Node -> [Locks -> Status]]
      BY <2>8, <3>1, WriteType DEF ClientTakeResp, TypeOK, Status
    <3>3. QED
      BY <2>8, <3>1, <3>2 DEF ClientTakeResp, TypeOK, Ring!TypeOK, Status
  <2>9. CASE UNCHANGED vars
    BY <2>9 DEF vars, TypeOK, Ring!TypeOK
  <2>10. QED
    BY <2>1, <2>2, <2>3, <2>4, <2>5, <2>6, <2>7, <2>8, <2>9 DEF Next
-----------------------------------------------------------------------------
(* A step that brings a lock nowhere new keeps every lock in one place. *)
LEMMA NothingMoves ==
  ASSUME UniqueToken,
         \A m \in Node, l \in Locks : Own(m, l)' => Own(m, l),
         \A m \in Node, l \in Locks : \A i \in Nat : Dep(m, i, l)' => Dep(m, i, l),
         \A p \in Pairs, l \in Locks : \A i \in Nat : Net(p, i, l)' => Net(p, i, l)
  PROVE  UniqueToken'
  BY DEF UniqueToken

(* A node gives away a lock it owns: lockMem to respToNetworkQ. *)
LEMMA LockHandOver ==
  ASSUME UniqueToken, NEW n \in Node, NEW l0 \in Locks, NEW k \in Nat,
         Own(n, l0), ~Own(n, l0)',
         \A m \in Node, l \in Locks : Own(m, l)' => Own(m, l),
         \A m \in Node, l \in Locks : \A i \in Nat :
           Dep(m, i, l)' => Dep(m, i, l) \/ (m = n /\ i = k /\ l = l0),
         \A l \in Locks : ~Dep(n, k, l),
         \A p \in Pairs, l \in Locks : \A i \in Nat : Net(p, i, l)' => Net(p, i, l)
  PROVE  UniqueToken'
  BY DEF UniqueToken

(* The oldest lock of a respToNetworkQ enters the response ring. *)
LEMMA Departure ==
  ASSUME UniqueToken, NEW n \in Node, NEW q \in Pairs, NEW k \in Nat,
         \A m \in Node, l \in Locks : Own(m, l)' => Own(m, l),
         \A m \in Node, l \in Locks : \A i \in Nat :
           Dep(m, i, l)' => (m # n /\ Dep(m, i, l)) \/ (m = n /\ Dep(n, i + 1, l) /\ i > 0),
         \A p \in Pairs, l \in Locks : \A i \in Nat :
           Net(p, i, l)' => Net(p, i, l) \/ (p = q /\ i = k /\ Dep(n, 1, l)),
         \A l \in Locks : ~Net(q, k, l)
  PROVE  UniqueToken'
  BY DEF UniqueToken

(* The oldest lock on its way between two nodes reaches its destination. *)
LEMMA Arrival ==
  ASSUME UniqueToken, NEW n \in Node, NEW q \in Pairs,
         \A m \in Node, l \in Locks : Own(m, l)' => Own(m, l) \/ (m = n /\ Net(q, 1, l)),
         \A m \in Node, l \in Locks : \A i \in Nat : Dep(m, i, l)' => Dep(m, i, l),
         \A p \in Pairs, l \in Locks : \A i \in Nat :
           Net(p, i, l)' => (p # q /\ Net(p, i, l)) \/ (p = q /\ Net(q, i + 1, l) /\ i > 0)
  PROVE  UniqueToken'
  BY DEF UniqueToken

(* What SetEntry writes is what the owner predicate reads. *)
LEMMA SetEntryRead ==
  ASSUME TypeOK, NEW n \in Node, NEW l \in Locks, NEW s \in LockState,
         NEW f \in Node \cup {NoFwd}, SetEntry(n, l, s, f),
         NEW m \in Node, NEW k \in Locks
  PROVE  /\ lockMem[m][k].state' = IF m = n /\ k = l THEN s ELSE lockMem[m][k].state
         /\ lockMem[m][k].fwdId' = IF m = n /\ k = l THEN f ELSE lockMem[m][k].fwdId
  <1> DEFINE e == [state |-> s, fwdId |-> f]
  <1>1. e \in Entry /\ lockMem \in [Node -> [Locks -> Entry]]
    BY DEF TypeOK, Entry
  <1>2. lockMem'[m][k] = IF m = n /\ k = l THEN e ELSE lockMem[m][k]
    BY <1>1, WriteRead DEF SetEntry
  <1>3. QED
    BY <1>2

LEMMA SetStateRead ==
  ASSUME TypeOK, NEW n \in Node, NEW l \in Locks, NEW s \in LockState, SetState(n, l, s),
         NEW m \in Node, NEW k \in Locks
  PROVE  /\ lockMem[m][k].state' = IF m = n /\ k = l THEN s ELSE lockMem[m][k].state
         /\ lockMem[m][k].fwdId' = lockMem[m][k].fwdId
  <1>1. PICK f \in Node \cup {NoFwd} : f = lockMem[n][l].fwdId
    BY EntryType
  <1>2. SetEntry(n, l, s, f)
    BY <1>1 DEF SetState
  <1>3. /\ lockMem[m][k].state' = IF m = n /\ k = l THEN s ELSE lockMem[m][k].state
        /\ lockMem[m][k].fwdId' = IF m = n /\ k = l THEN f ELSE lockMem[m][k].fwdId
    BY <1>2, SetEntryRead
  <1>4. QED
    BY <1>1, <1>3

(* returnLock and snoopLockReq: the lock leaves lockMem for the end of the *)
(* respToNetworkQ of the same node.                                        *)
LEMMA GiveAway ==
  ASSUME UniqueToken, NEW n \in Node, NEW l0 \in Locks, Own(n, l0), UNCHANGED chan,
         respToNetworkQ \in [Node -> Seq(Node \X Locks)],
         NEW x \in Node \X Locks, x[2] = l0,
         respToNetworkQ' = [respToNetworkQ EXCEPT ![n] = Append(@, x)],
         \A m \in Node, k \in Locks : Own(m, k)' <=> Own(m, k) /\ ~(m = n /\ k = l0)
  PROVE  UniqueToken'
  <1> DEFINE k == Len(respToNetworkQ[n]) + 1
  <1>1. k \in Nat /\ \A l \in Locks : ~Dep(n, k, l)
    BY DEF Dep
  <1>2. \A m \in Node, l \in Locks : \A i \in Nat :
          Dep(m, i, l)' => Dep(m, i, l) \/ (m = n /\ i = k /\ l = l0)
    <2>1. /\ respToNetworkQ'[n] = Append(respToNetworkQ[n], x)
          /\ \A m \in Node : m # n => respToNetworkQ'[m] = respToNetworkQ[m]
      OBVIOUS
    <2>2. QED
      BY <2>1, EnqSlots DEF Dep
  <1>3. \A p \in Pairs, l \in Locks : \A i \in Nat : Net(p, i, l)' => Net(p, i, l)
    BY DEF Net
  <1> HIDE DEF k
  <1>4. QED
    BY <1>1, <1>2, <1>3, LockHandOver

LEMMA UniqueAcquire ==
  ASSUME IInv, NEW n \in Node, AcquireLock(n)
  PROVE  UniqueToken'
  <1> DEFINE l == Head(lockReqQ[n])
  <1>1. l \in Locks
    BY DeqType DEF AcquireLock, IInv, TypeOK
  <1>2. lockMem' = lockMem \/ (lockMem[n][l].state = "OWN_IDLE" /\ SetState(n, l, "OWN_IN_USE"))
    BY DEF AcquireLock
  <1>3. \A m \in Node, k \in Locks : Own(m, k)' => Own(m, k)
    BY <1>1, <1>2, SetEntryRead, EntryType DEF SetState, Own, IInv, LockState
  <1>4. UNCHANGED <<respToNetworkQ, chan>>
    BY DEF AcquireLock
  <1>5. QED
    BY <1>3, <1>4, NothingMoves DEF IInv, Dep, Net

LEMMA UniqueReturn ==
  ASSUME IInv, NEW n \in Node, NEW l \in Locks, ReturnLock(n, l)
  PROVE  UniqueToken'
  <1>1. Own(n, l)
    BY DEF IInv, InUseIffGranted, Granted, ReturnLock, Own
  <1>2. CASE lockMem[n][l].fwdId = NoFwd
    <2>1. SetState(n, l, "OWN_IDLE") /\ UNCHANGED <<respToNetworkQ, chan>>
      BY <1>2 DEF ReturnLock
    <2>2. \A m \in Node, k \in Locks : Own(m, k)' => Own(m, k)
      BY <2>1, <1>1, SetEntryRead, EntryType DEF SetState, Own, IInv, LockState
    <2>3. QED
      BY <2>1, <2>2, NothingMoves DEF IInv, Dep, Net
  <1>3. CASE lockMem[n][l].fwdId # NoFwd
    <2> DEFINE x == <<lockMem[n][l].fwdId, l>>
    <2>1. /\ SetEntry(n, l, "NOT_OWN", NoFwd) /\ UNCHANGED chan
          /\ respToNetworkQ' = [respToNetworkQ EXCEPT ![n] = Append(@, x)]
      BY <1>3 DEF ReturnLock
    <2>2. \A m \in Node, k \in Locks : Own(m, k)' <=> Own(m, k) /\ ~(m = n /\ k = l)
      BY <2>1, SetEntryRead DEF Own, IInv, LockState
    <2>3. respToNetworkQ \in [Node -> Seq(Node \X Locks)] /\ x \in Node \X Locks
      BY <1>3, EntryType DEF IInv, TypeOK
    <2>4. QED
      BY <2>1, <2>2, <2>3, <1>1, GiveAway DEF IInv
  <1>4. QED
    BY <1>2, <1>3

LEMMA UniqueSnoop ==
  ASSUME IInv, NEW n \in Node, SnoopLockReq(n)
  PROVE  UniqueToken'
  <1> DEFINE req == Head(reqLink[Prev(n)])
             l == req.lockId
             x == <<req.requester, l>>
  <1>1. req \in Request
    BY DeqType, PrevType DEF SnoopLockReq, RecvNotEmpty, IInv, TypeOK
  <1>2. req.requester \in Node /\ l \in Locks /\ x \in Node \X Locks
    BY <1>1 DEF Request
  <1>3. UNCHANGED chan
    BY DEF SnoopLockReq
  <1>4. \/ UNCHANGED <<lockMem, respToNetworkQ>>
        \/ /\ lockMem[n][l].state = "OWN_IN_USE" /\ UNCHANGED respToNetworkQ
           /\ SetEntry(n, l, lockMem[n][l].state, req.requester)
        \/ /\ lockMem[n][l].state = "OWN_IDLE" /\ SetState(n, l, "NOT_OWN")
           /\ respToNetworkQ' = [respToNetworkQ EXCEPT ![n] = Append(@, x)]
    BY DEF SnoopLockReq
  <1>5. CASE UNCHANGED <<lockMem, respToNetworkQ>>
    BY <1>3, <1>5, NothingMoves DEF IInv, Own, Dep, Net
  <1>6. CASE /\ lockMem[n][l].state = "OWN_IN_USE" /\ UNCHANGED respToNetworkQ
             /\ SetEntry(n, l, lockMem[n][l].state, req.requester)
    <2>1. \A m \in Node, k \in Locks : Own(m, k)' => Own(m, k)
      BY <1>2, <1>6, SetEntryRead, EntryType DEF Own, IInv, LockState
    <2>2. QED
      BY <2>1, <1>3, <1>6, NothingMoves DEF IInv, Dep, Net
  <1>7. CASE /\ lockMem[n][l].state = "OWN_IDLE" /\ SetState(n, l, "NOT_OWN")
             /\ respToNetworkQ' = [respToNetworkQ EXCEPT ![n] = Append(@, x)]
    <2>1. \A m \in Node, k \in Locks : Own(m, k)' <=> Own(m, k) /\ ~(m = n /\ k = l)
      <3>1. "NOT_OWN" \in LockState /\ TypeOK
        BY DEF LockState, IInv
      <3>2. QED
        BY <1>2, <1>7, <3>1, SetStateRead DEF Own
    <2>2. QED
      BY <2>1, <1>2, <1>3, <1>7, GiveAway DEF IInv, TypeOK, Own
  <1>8. QED
    BY <1>4, <1>5, <1>6, <1>7

LEMMA UniqueSend ==
  ASSUME IInv, NEW n \in Node, SendRespToNetwork(n)
  PROVE  UniqueToken'
  <1> DEFINE Q == respToNetworkQ
             r == Head(Q[n])
             q == <<n, r[1]>>
  <1>1. /\ Q \in [Node -> Seq(Node \X Locks)] /\ Q[n] # << >>
        /\ chan \in [Pairs -> Seq(Locks)]
        /\ Q' = [Q EXCEPT ![n] = Tail(@)] /\ UNCHANGED lockMem
        /\ chan' = [chan EXCEPT ![q] = Append(@, r[2])]
    BY DEF SendRespToNetwork, Ring!Enq, IInv, TypeOK, Ring!TypeOK
  <1>2. r \in Node \X Locks /\ q \in Pairs /\ Dep(n, 1, r[2])
    BY <1>1, DeqType, DeqSlots, PairsFact DEF Dep
  <1>3. \A m \in Node, l \in Locks : \A i \in Nat :
           Dep(m, i, l)' => (m # n /\ Dep(m, i, l)) \/ (m = n /\ Dep(n, i + 1, l) /\ i > 0)
    <2>1. Q'[n] = Tail(Q[n]) /\ \A m \in Node : m # n => Q'[m] = Q[m]
      BY <1>1
    <2>2. QED
      BY <1>1, <2>1, DeqSlots DEF Dep
  <1>4. \A p \in Pairs, l \in Locks : \A i \in Nat :
           Net(p, i, l)' => Net(p, i, l) \/ (p = q /\ i = Len(chan[q]) + 1 /\ Dep(n, 1, l))
    <2> DEFINE l0 == r[2]
    <2>1. chan'[q] = Append(chan[q], l0) /\ \A p \in Pairs : p # q => chan'[p] = chan[p]
      BY <1>1, <1>2
    <2>2. chan[q] \in Seq(Locks) /\ l0 \in Locks /\ q \in Pairs /\ Dep(n, 1, l0)
      BY <1>1, <1>2
    <2> HIDE DEF q, l0
    <2>3. QED
      BY <2>1, <2>2, EnqSlots DEF Net
  <1>5. Len(chan[q]) + 1 \in Nat /\ \A l \in Locks : ~Net(q, Len(chan[q]) + 1, l)
    <2>1. chan[q] \in Seq(Locks)
      BY <1>1, <1>2
    <2> HIDE DEF q
    <2>2. QED
      BY <2>1 DEF Net
  <1>6. QED
    BY <1>1, <1>2, <1>3, <1>4, <1>5, Departure DEF IInv, Own

LEMMA UniqueReceive ==
  ASSUME IInv, NEW n \in Node, NEW s \in Node, RecvLockResp(s, n)
  PROVE  UniqueToken'
  <1> DEFINE q == <<s, n>>
             l0 == Head(chan[q])
  <1>1. /\ q \in Pairs /\ chan[q] # << >> /\ chan \in [Pairs -> Seq(Locks)]
        /\ chan' = [chan EXCEPT ![q] = Tail(@)] /\ UNCHANGED respToNetworkQ
        /\ SetState(n, l0, "OWN_IN_USE")
    BY PairsFact DEF RecvLockResp, Ring!Deq, Ring!CanDeq, Ring!First, IInv, TypeOK, Ring!TypeOK
  <1>2. l0 \in Locks /\ Net(q, 1, l0)
    BY <1>1, DeqType, DeqSlots DEF Net
  <1>3. \A m \in Node, l \in Locks : Own(m, l)' => Own(m, l) \/ (m = n /\ Net(q, 1, l))
    <2>1. "OWN_IN_USE" \in LockState /\ TypeOK /\ l0 \in Locks /\ SetState(n, l0, "OWN_IN_USE")
      BY <1>1, <1>2 DEF LockState, IInv
    <2> HIDE DEF l0
    <2>2. \A m \in Node, l \in Locks :
            lockMem[m][l].state' = IF m = n /\ l = l0 THEN "OWN_IN_USE" ELSE lockMem[m][l].state
      BY <2>1, SetStateRead
    <2>3. QED
      BY <1>2, <2>2 DEF Own
  <1>4. \A p \in Pairs, l \in Locks : \A i \in Nat :
           Net(p, i, l)' => (p # q /\ Net(p, i, l)) \/ (p = q /\ Net(q, i + 1, l) /\ i > 0)
    <2>1. chan'[q] = Tail(chan[q]) /\ \A p \in Pairs : p # q => chan'[p] = chan[p]
      BY <1>1
    <2>2. QED
      BY <1>1, <2>1, DeqSlots DEF Net
  <1>5. QED
    BY <1>1, <1>3, <1>4, Arrival DEF IInv, Dep
-----------------------------------------------------------------------------
Holds(n, l)  == client[n][l] = "hold"
Offers(n, l) == lockRespQ[n] # << >> /\ Head(lockRespQ[n]) = l
InUse(n, l)  == lockMem[n][l].state = "OWN_IN_USE"
HasFwd(n, l) == lockMem[n][l].fwdId # NoFwd
OneSlot      == \A n \in Node : Len(lockRespQ[n]) <= 1

(* OneGrant and InUseIffGranted in terms of the head of lockRespQ. *)
GrantInv ==
  /\ OneSlot
  /\ \A n \in Node, l \in Locks :
       /\ ~(Holds(n, l) /\ Offers(n, l))
       /\ InUse(n, l) <=> Holds(n, l) \/ Offers(n, l)
       /\ HasFwd(n, l) => InUse(n, l)

LEMMA OfferedIsHead ==
  ASSUME TypeOK, OneSlot, NEW n \in Node, NEW l \in Locks
  PROVE  (\E i \in DOMAIN lockRespQ[n] : lockRespQ[n][i] = l) <=> Offers(n, l)
  <1>1. lockRespQ[n] \in Seq(Locks) /\ Len(lockRespQ[n]) <= 1
    BY DEF TypeOK, OneSlot
  <1>2. QED
    BY <1>1 DEF Offers

LEMMA GrantInvFact ==
  ASSUME TypeOK
  PROVE  OneGrant /\ InUseIffGranted <=> GrantInv
  <1>1. ASSUME OneSlot
        PROVE  OneGrant <=> \A n \in Node, l \in Locks : ~(Holds(n, l) /\ Offers(n, l))
    <2>1. \A n \in Node : lockRespQ[n] # << >> => Head(lockRespQ[n]) \in Locks
      BY DeqType DEF TypeOK
    <2>2. QED
      BY <1>1, <2>1 DEF OneGrant, OneSlot, Holds, Offers
  <1>2. OneGrant => OneSlot
    BY DEF OneGrant, OneSlot
  <1>3. ASSUME OneSlot, NEW n \in Node, NEW l \in Locks
        PROVE  Granted(n, l) <=> Holds(n, l) \/ Offers(n, l)
    BY <1>3, OfferedIsHead DEF Granted, Holds
  <1>4. QED
    BY <1>1, <1>2, <1>3 DEF GrantInv, InUseIffGranted, InUse, HasFwd

(* A step that changes neither grants nor entries. *)
LEMMA GrantKept ==
  ASSUME GrantInv, UNCHANGED <<lockMem, lockRespQ>>,
         \A n \in Node, l \in Locks : Holds(n, l)' <=> Holds(n, l)
  PROVE  GrantInv'
  BY DEF GrantInv, OneSlot, Offers, InUse, HasFwd

(* acquireLock and recvLockResp: a grant enters the empty lockRespQ. *)
LEMMA GrantOffered ==
  ASSUME TypeOK, GrantInv, NEW n \in Node, NEW l \in Locks,
         lockRespQ[n] = << >>, ~InUse(n, l), UNCHANGED client,
         lockRespQ' = [lockRespQ EXCEPT ![n] = Append(@, l)],
         SetState(n, l, "OWN_IN_USE")
  PROVE  GrantInv'
  <1>1. lockRespQ' = [lockRespQ EXCEPT ![n] = <<l>>]
    OBVIOUS
  <1>2. OneSlot'
    BY <1>1 DEF GrantInv, OneSlot, TypeOK
  <1>3. \A m \in Node, k \in Locks :
          /\ Offers(m, k)' <=> Offers(m, k) \/ (m = n /\ k = l)
          /\ Holds(m, k)' <=> Holds(m, k)
    BY <1>1 DEF Offers, Holds, TypeOK
  <1>4. \A m \in Node, k \in Locks :
          /\ InUse(m, k)' <=> InUse(m, k) \/ (m = n /\ k = l)
          /\ HasFwd(m, k)' <=> HasFwd(m, k)
    BY SetEntryRead, EntryType DEF SetState, InUse, HasFwd, LockState
  <1>5. QED
    BY <1>2, <1>3, <1>4 DEF GrantInv

(* returnLock: the client gives the lock up, and the node keeps it idle or *)
(* forwards it.                                                            *)
LEMMA GrantReturned ==
  ASSUME TypeOK, GrantInv, NEW n \in Node, NEW l \in Locks, ReturnLock(n, l)
  PROVE  GrantInv'
  <1>1. Holds(n, l) /\ UNCHANGED lockRespQ
    BY DEF ReturnLock, Holds
  <1>2. \A m \in Node, k \in Locks : Holds(m, k)' <=> Holds(m, k) /\ ~(m = n /\ k = l)
    <2>1. client \in [Node -> [Locks -> Status]] /\ client' = [client EXCEPT ![n][l] = "idle"]
      BY DEF TypeOK, ReturnLock, Status
    <2>2. \A m \in Node, k \in Locks :
            client'[m][k] = IF m = n /\ k = l THEN "idle" ELSE client[m][k]
      BY <2>1, WriteRead DEF Status
    <2>3. QED
      BY <2>2 DEF Holds
  <1>3. SetEntry(n, l, "NOT_OWN", NoFwd) \/ (~HasFwd(n, l) /\ SetState(n, l, "OWN_IDLE"))
    BY DEF ReturnLock, HasFwd
  <1>4. \A m \in Node, k \in Locks :
          /\ InUse(m, k)' <=> InUse(m, k) /\ ~(m = n /\ k = l)
          /\ HasFwd(m, k)' <=> HasFwd(m, k) /\ ~(m = n /\ k = l)
    BY <1>3, SetEntryRead, EntryType DEF SetState, InUse, HasFwd, LockState
  <1>5. QED
    BY <1>1, <1>2, <1>4 DEF GrantInv, OneSlot, Offers

(* snoopLockReq: only an idle lock leaves, only a lock in use is promised. *)
LEMMA GrantSnooped ==
  ASSUME TypeOK, GrantInv, NEW n \in Node, SnoopLockReq(n)
  PROVE  GrantInv'
  <1> DEFINE req == Head(reqLink[Prev(n)])
             l == req.lockId
  <1>1. req \in Request
    BY DeqType, PrevType DEF SnoopLockReq, RecvNotEmpty, TypeOK
  <1>2. req.requester \in Node /\ l \in Locks
    BY <1>1 DEF Request
  <1>3. \/ UNCHANGED lockMem
        \/ lockMem[n][l].state = "OWN_IN_USE" /\ SetEntry(n, l, lockMem[n][l].state, req.requester)
        \/ lockMem[n][l].state = "OWN_IDLE" /\ SetState(n, l, "NOT_OWN")
    BY DEF SnoopLockReq
  <1>4. \A m \in Node, k \in Locks :
          /\ InUse(m, k)' <=> InUse(m, k)
          /\ HasFwd(m, k)' => HasFwd(m, k) \/ InUse(m, k)
    <2>1. {"NOT_OWN", "OWN_IN_USE"} \subseteq LockState
      BY DEF LockState
    <2>2. CASE UNCHANGED lockMem
      BY <2>2 DEF InUse, HasFwd
    <2>3. CASE /\ lockMem[n][l].state = "OWN_IN_USE"
               /\ SetEntry(n, l, lockMem[n][l].state, req.requester)
      BY <1>2, <2>1, <2>3, SetEntryRead DEF InUse, HasFwd
    <2>4. CASE lockMem[n][l].state = "OWN_IDLE" /\ SetState(n, l, "NOT_OWN")
      BY <1>2, <2>1, <2>4, SetStateRead DEF InUse, HasFwd
    <2>5. QED
      BY <1>3, <2>2, <2>3, <2>4
  <1>5. UNCHANGED <<client, lockRespQ>>
    BY DEF SnoopLockReq
  <1>6. QED
    BY <1>4, <1>5 DEF GrantInv, OneSlot, Offers, Holds

(* The client takes the grant. *)
LEMMA GrantTaken ==
  ASSUME TypeOK, GrantInv, NEW n \in Node, ClientTakeResp(n)
  PROVE  GrantInv'
  <1> DEFINE l == Head(lockRespQ[n])
  <1>1. /\ lockRespQ[n] # << >> /\ UNCHANGED lockMem
        /\ lockRespQ' = [lockRespQ EXCEPT ![n] = Tail(@)]
        /\ client' = [client EXCEPT ![n][l] = "hold"]
    BY DEF ClientTakeResp
  <1>2. l \in Locks /\ Offers(n, l)
    BY <1>1, DeqType DEF TypeOK, Offers
  <1>3. Tail(lockRespQ[n]) = << >>
    <2>1. lockRespQ[n] \in Seq(Locks) /\ Len(lockRespQ[n]) <= 1
      BY DEF GrantInv, OneSlot, TypeOK
    <2>2. QED
      BY <1>1, <2>1
  <1>4. OneSlot' /\ \A m \in Node, k \in Locks : Offers(m, k)' <=> Offers(m, k) /\ m # n
    BY <1>1, <1>3 DEF GrantInv, OneSlot, Offers, TypeOK
  <1>5. \A m \in Node, k \in Locks : Holds(m, k)' <=> Holds(m, k) \/ (m = n /\ k = l)
    <2>1. client \in [Node -> [Locks -> Status]]
      BY DEF TypeOK, Status
    <2>2. \A m \in Node, k \in Locks :
            client'[m][k] = IF m = n /\ k = l THEN "hold" ELSE client[m][k]
      BY <1>1, <1>2, <2>1, WriteRead DEF Status
    <2>3. QED
      BY <2>2 DEF Holds
  <1>6. \A k \in Locks : Offers(n, k) => k = l
    BY DEF Offers
  <1> HIDE DEF l
  <1>7. QED
    BY <1>1, <1>2, <1>4, <1>5, <1>6 DEF GrantInv, InUse, HasFwd
-----------------------------------------------------------------------------
LEMMA IInvInit == Init => IInv
  <1> SUFFICES ASSUME Init PROVE IInv
    OBVIOUS
  <1>1. TypeOK
    BY TypeInit
  <1>2. UniqueToken
    <2>1. /\ \A n \in Node, l \in Locks : Own(n, l) => n = Master
          /\ \A n \in Node, l \in Locks : \A i \in Nat : ~Dep(n, i, l)
          /\ \A p \in Pairs, l \in Locks : \A i \in Nat : ~Net(p, i, l)
      BY DEF Init, Own, Dep, Net, Ring!Init
    <2>2. QED
      BY <2>1 DEF UniqueToken
  <1>3. GrantInv
    BY DEF Init, GrantInv, OneSlot, Holds, Offers, InUse, HasFwd
  <1>4. QED
    BY <1>1, <1>2, <1>3, GrantInvFact DEF IInv

LEMMA IInvStep == IInv /\ [Next]_vars => IInv'
  <1> SUFFICES ASSUME IInv, [Next]_vars PROVE IInv'
    OBVIOUS
  <1>1. TypeOK /\ TypeOK' /\ GrantInv
    BY TypeStep, GrantInvFact DEF IInv
  <1>2. UniqueToken' /\ GrantInv'
    <2>1. ASSUME NEW n \in Node, DoInit(n) PROVE UniqueToken' /\ GrantInv'
      <3>1. UNCHANGED <<lockMem, respToNetworkQ, chan, lockRespQ, client>>
        BY <2>1 DEF DoInit
      <3>2. QED
        BY <1>1, <3>1, NothingMoves, GrantKept DEF IInv, Own, Dep, Net, Holds
    <2>2. ASSUME NEW n \in Node, AcquireLock(n) PROVE UniqueToken' /\ GrantInv'
      <3> DEFINE l == Head(lockReqQ[n])
      <3>1. l \in Locks
        BY <2>2, <1>1, DeqType DEF AcquireLock, TypeOK
      <3>2. UNCHANGED client
        BY <2>2 DEF AcquireLock
      <3>3. \/ UNCHANGED <<lockMem, lockRespQ>>
            \/ /\ lockRespQ[n] = << >> /\ ~InUse(n, l)
               /\ lockRespQ' = [lockRespQ EXCEPT ![n] = Append(@, l)]
               /\ SetState(n, l, "OWN_IN_USE")
        BY <2>2 DEF AcquireLock, InUse
      <3>4. GrantInv'
        BY <1>1, <3>1, <3>2, <3>3, GrantKept, GrantOffered DEF Holds
      <3>5. QED
        BY <2>2, <3>4, UniqueAcquire
    <2>3. ASSUME NEW n \in Node, NEW s \in Node, RecvLockResp(s, n)
          PROVE  UniqueToken' /\ GrantInv'
      <3> DEFINE q == <<s, n>>
                 l == Head(chan[q])
      <3>1. /\ q \in Pairs /\ chan[q] # << >> /\ chan[q] \in Seq(Locks)
            /\ lockRespQ[n] = << >> /\ lockRespQ' = [lockRespQ EXCEPT ![n] = Append(@, l)]
            /\ SetState(n, l, "OWN_IN_USE") /\ UNCHANGED client
        BY <2>3, <1>1, PairsFact
        DEF RecvLockResp, Ring!Deq, Ring!CanDeq, Ring!First, TypeOK, Ring!TypeOK
      <3>2. l \in Locks /\ Net(q, 1, l)
        BY <3>1, DeqType, DeqSlots DEF Net
      <3>3. ~InUse(n, l)
        BY <3>1, <3>2 DEF IInv, UniqueToken, InUse, Own
      <3>4. GrantInv'
        BY <1>1, <3>1, <3>2, <3>3, GrantOffered
      <3>5. QED
        BY <2>3, <3>4, UniqueReceive
    <2>4. ASSUME NEW n \in Node, NEW l \in Locks, ReturnLock(n, l)
          PROVE  UniqueToken' /\ GrantInv'
      BY <2>4, <1>1, UniqueReturn, GrantReturned
    <2>5. ASSUME NEW n \in Node, SnoopLockReq(n) PROVE UniqueToken' /\ GrantInv'
      BY <2>5, <1>1, UniqueSnoop, GrantSnooped
    <2>6. ASSUME NEW n \in Node, SendRespToNetwork(n) PROVE UniqueToken' /\ GrantInv'
      <3>1. UNCHANGED <<lockMem, lockRespQ, client>>
        BY <2>6 DEF SendRespToNetwork
      <3>2. QED
        BY <2>6, <1>1, <3>1, UniqueSend, GrantKept DEF Holds
    <2>7. ASSUME NEW n \in Node, NEW l \in Locks, ClientAcquire(n, l)
          PROVE  UniqueToken' /\ GrantInv'
      <3>1. /\ client[n][l] = "idle" /\ client' = [client EXCEPT ![n][l] = "wait"]
            /\ UNCHANGED <<lockMem, lockRespQ, respToNetworkQ, chan>>
        BY <2>7 DEF ClientAcquire
      <3>2. \A m \in Node, k \in Locks : Holds(m, k)' <=> Holds(m, k)
        <4>1. client \in [Node -> [Locks -> Status]]
          BY <1>1 DEF TypeOK, Status
        <4>2. \A m \in Node, k \in Locks :
                client'[m][k] = IF m = n /\ k = l THEN "wait" ELSE client[m][k]
          BY <3>1, <4>1, WriteRead DEF Status
        <4>3. QED
          BY <3>1, <4>2 DEF Holds
      <3>3. QED
        BY <1>1, <3>1, <3>2, NothingMoves, GrantKept DEF IInv, Own, Dep, Net
    <2>8. ASSUME NEW n \in Node, ClientTakeResp(n) PROVE UniqueToken' /\ GrantInv'
      <3>1. UNCHANGED <<lockMem, respToNetworkQ, chan>>
        BY <2>8 DEF ClientTakeResp
      <3>2. QED
        BY <2>8, <1>1, <3>1, GrantTaken, NothingMoves DEF IInv, Own, Dep, Net
    <2>9. CASE UNCHANGED vars
      BY <2>9, <1>1, NothingMoves, GrantKept DEF vars, IInv, Own, Dep, Net, Holds
    <2>10. QED
      BY <2>1, <2>2, <2>3, <2>4, <2>5, <2>6, <2>7, <2>8, <2>9 DEF Next
  <1>3. QED
    BY <1>1, <1>2, GrantInvFact, PTL DEF IInv
-----------------------------------------------------------------------------
(* Every variable keeps its type (the widths and enumerations of lock.bsv). *)
THEOREM LockTypeOK == Spec => []TypeOK
<1>1. Init => TypeOK
  BY TypeInit
<1>2. TypeOK /\ [Next]_vars => TypeOK'
  BY TypeStep
<1>3. QED
  BY <1>1, <1>2, PTL DEF Spec

(* The strengthening holds in every state of every lock group. *)
THEOREM LockInvariant == Spec => []IInv
  BY IInvInit, IInvStep, PTL DEF Spec

(* A lock is in use at a node exactly when the node's client holds it or is *)
(* offered it: what lockMem, lockRespQ and the client believe agrees.       *)
THEOREM LockInUseIffGranted == Spec => []InUseIffGranted
<1>1. IInv => InUseIffGranted
  BY DEF IInv
<1>2. QED
  BY <1>1, LockInvariant, PTL

(* Mutual exclusion: whatever the number of nodes, locks and queue slots,  *)
(* two clients of lock.bsv never hold one lock at the same time.           *)
THEOREM LockMutualExclusion == Spec => []LockMutex
<1>1. IInv => LockMutex
  <2> SUFFICES ASSUME IInv, NEW l \in Locks, NEW m \in Node, NEW n \in Node,
                      client[m][l] = "hold", client[n][l] = "hold"
               PROVE  m = n
    BY DEF LockMutex, Abstract!Mutex
  <2>1. Own(m, l) /\ Own(n, l)
    BY DEF IInv, InUseIffGranted, Granted, Own
  <2>2. QED
    BY <2>1 DEF IInv, UniqueToken
<1>2. QED
  BY <1>1, LockInvariant, PTL
-----------------------------------------------------------------------------
(* No lock is lost.  It is in some place in every state (SomeToken), and   *)
(* by UniqueToken in no second one; counting both gives OneToken.          *)
(* Lock l is owned, leaving a node or in transit. *)
Present(l) ==
  \/ \E n \in Node : Own(n, l)
  \/ \E n \in Node, i \in Nat : Dep(n, i, l)
  \/ \E p \in Pairs, i \in Nat : Net(p, i, l)

SomeToken == \A l \in Locks : Present(l)

TInv == IInv /\ SomeToken
-----------------------------------------------------------------------------
(* deq takes away the first element of a queue and no other. *)
LEMMA DeqKeeps ==
  ASSUME NEW S, NEW q \in Seq(S), q # << >>, NEW i \in DOMAIN q, i # 1
  PROVE  \E j \in Nat : j \in DOMAIN Tail(q) /\ Tail(q)[j] = q[i]
  <1> DEFINE j == i - 1
  <1>1. j \in Nat /\ j \in DOMAIN Tail(q) /\ Tail(q)[j] = q[i]
    OBVIOUS
  <1>2. QED
    BY <1>1

(* enq takes nothing away, and the new element is in the queue. *)
LEMMA EnqKeeps ==
  ASSUME NEW S, NEW q \in Seq(S), NEW x \in S
  PROVE  /\ \A i \in DOMAIN q : i \in DOMAIN Append(q, x) /\ Append(q, x)[i] = q[i]
         /\ \E j \in Nat : j \in DOMAIN Append(q, x) /\ Append(q, x)[j] = x
  <1> DEFINE j == Len(q) + 1
  <1>1. j \in Nat /\ j \in DOMAIN Append(q, x) /\ Append(q, x)[j] = x
    OBVIOUS
  <1>2. QED
    BY <1>1

(* A step that changes no owner but to owner, and no lock on its way. *)
LEMMA OwnersStay ==
  ASSUME SomeToken, \A m \in Node, l \in Locks : Own(m, l) => Own(m, l)',
         UNCHANGED <<respToNetworkQ, chan>>
  PROVE  SomeToken'
  <1> SUFFICES ASSUME NEW l \in Locks PROVE Present(l)'
    BY DEF SomeToken
  <1>1. Present(l)
    BY DEF SomeToken
  <1>2. \A n \in Node, i \in Nat : Dep(n, i, l) => Dep(n, i, l)'
    BY DEF Dep
  <1>3. \A p \in Pairs, i \in Nat : Net(p, i, l) => Net(p, i, l)'
    BY DEF Net
  <1>4. QED
    BY <1>1, <1>2, <1>3 DEF Present, Pairs

(* A node gives a lock it owns to its respToNetworkQ. *)
LEMMA GivenAway ==
  ASSUME TypeOK, SomeToken, NEW n \in Node, NEW l0 \in Locks, NEW x \in Node \X Locks, x[2] = l0,
         UNCHANGED chan, respToNetworkQ' = [respToNetworkQ EXCEPT ![n] = Append(@, x)],
         \A m \in Node, l \in Locks : l # l0 /\ Own(m, l) => Own(m, l)'
  PROVE  SomeToken'
  <1> DEFINE Q == respToNetworkQ
  <1>1. /\ Q \in [Node -> Seq(Node \X Locks)] /\ Q'[n] = Append(Q[n], x)
        /\ \A m \in Node : m # n => Q'[m] = Q[m]
    BY DEF TypeOK
  <1>2. \A m \in Node, l \in Locks, i \in Nat : Dep(m, i, l) => Dep(m, i, l)'
    <2> SUFFICES ASSUME NEW m \in Node, NEW l \in Locks, NEW i \in Nat, Dep(m, i, l)
                 PROVE  Dep(m, i, l)'
      OBVIOUS
    <2>1. CASE m = n
      <3>1. i \in DOMAIN Q[n] /\ Q[n][i][2] = l
        BY <2>1 DEF Dep
      <3>2. i \in DOMAIN Append(Q[n], x) /\ Append(Q[n], x)[i] = Q[n][i]
        <4>1. Q[n] \in Seq(Node \X Locks)
          BY <1>1
        <4> HIDE DEF Q
        <4>2. QED
          BY <3>1, <4>1, EnqKeeps
      <3>3. QED
        BY <1>1, <2>1, <3>1, <3>2 DEF Dep
    <2>2. CASE m # n
      BY <1>1, <2>2 DEF Dep
    <2>3. QED
      BY <2>1, <2>2
  <1>3. \E j \in Nat : Dep(n, j, l0)'
    <2>1. PICK j \in Nat : j \in DOMAIN Append(Q[n], x) /\ Append(Q[n], x)[j] = x
      BY <1>1, EnqKeeps
    <2>2. Dep(n, j, l0)'
      BY <1>1, <2>1 DEF Dep
    <2>3. QED
      BY <2>2
  <1>4. \A p \in Pairs, i \in Nat, l \in Locks : Net(p, i, l) => Net(p, i, l)'
    BY DEF Net
  <1> SUFFICES ASSUME NEW l \in Locks PROVE Present(l)'
    BY DEF SomeToken
  <1>5. CASE l = l0
    BY <1>3, <1>5 DEF Present
  <1>6. CASE l # l0
    BY <1>2, <1>4, <1>6 DEF Present, SomeToken, Pairs
  <1>7. QED
    BY <1>5, <1>6

LEMMA TokenReturned ==
  ASSUME TInv, NEW n \in Node, NEW l0 \in Locks, ReturnLock(n, l0)
  PROVE  SomeToken'
  <1>1. TypeOK /\ SomeToken /\ UNCHANGED chan
    BY DEF TInv, IInv, ReturnLock
  <1>2. CASE lockMem[n][l0].fwdId = NoFwd
    <2>1. SetState(n, l0, "OWN_IDLE") /\ UNCHANGED respToNetworkQ
      BY <1>2 DEF ReturnLock
    <2>2. \A m \in Node, l \in Locks : Own(m, l) => Own(m, l)'
      BY <1>1, <2>1, SetEntryRead, EntryType DEF SetState, Own, LockState
    <2>3. QED
      BY <1>1, <2>1, <2>2, OwnersStay
  <1>3. CASE lockMem[n][l0].fwdId # NoFwd
    <2> DEFINE x == <<lockMem[n][l0].fwdId, l0>>
    <2>1. /\ SetEntry(n, l0, "NOT_OWN", NoFwd)
          /\ respToNetworkQ' = [respToNetworkQ EXCEPT ![n] = Append(@, x)]
      BY <1>3 DEF ReturnLock
    <2>2. x \in Node \X Locks /\ x[2] = l0
      BY <1>1, <1>3, EntryType
    <2>3. \A m \in Node, l \in Locks : l # l0 /\ Own(m, l) => Own(m, l)'
      BY <1>1, <2>1, SetEntryRead DEF Own, LockState
    <2> HIDE DEF x
    <2>4. QED
      BY <1>1, <2>1, <2>2, <2>3, GivenAway
  <1>4. QED
    BY <1>2, <1>3

LEMMA TokenSnooped ==
  ASSUME TInv, NEW n \in Node, SnoopLockReq(n)
  PROVE  SomeToken'
  <1> DEFINE req == Head(reqLink[Prev(n)])
             l0  == req.lockId
             x   == <<req.requester, l0>>
  <1>1. TypeOK /\ SomeToken /\ UNCHANGED chan
    BY DEF TInv, IInv, SnoopLockReq
  <1>2. req \in Request
    BY <1>1, DeqType, PrevType DEF SnoopLockReq, RecvNotEmpty, TypeOK
  <1>3. req.requester \in Node /\ l0 \in Locks /\ x \in Node \X Locks /\ x[2] = l0
    BY <1>2 DEF Request
  <1>4. \/ UNCHANGED <<lockMem, respToNetworkQ>>
        \/ /\ lockMem[n][l0].state = "OWN_IN_USE" /\ UNCHANGED respToNetworkQ
           /\ SetEntry(n, l0, lockMem[n][l0].state, req.requester)
        \/ /\ SetState(n, l0, "NOT_OWN")
           /\ respToNetworkQ' = [respToNetworkQ EXCEPT ![n] = Append(@, x)]
    BY DEF SnoopLockReq
  <1>5. CASE UNCHANGED <<lockMem, respToNetworkQ>>
    BY <1>1, <1>5, OwnersStay DEF Own
  <1>6. CASE /\ lockMem[n][l0].state = "OWN_IN_USE" /\ UNCHANGED respToNetworkQ
             /\ SetEntry(n, l0, lockMem[n][l0].state, req.requester)
    <2>1. \A m \in Node, l \in Locks : Own(m, l) => Own(m, l)'
      BY <1>1, <1>3, <1>6, SetEntryRead, EntryType DEF Own, LockState
    <2>2. QED
      BY <1>1, <1>6, <2>1, OwnersStay
  <1>7. CASE /\ SetState(n, l0, "NOT_OWN")
             /\ respToNetworkQ' = [respToNetworkQ EXCEPT ![n] = Append(@, x)]
    <2>1. \A m \in Node, l \in Locks : l # l0 /\ Own(m, l) => Own(m, l)'
      <3>1. "NOT_OWN" \in LockState
        BY DEF LockState
      <3>2. QED
        BY <1>1, <1>3, <1>7, <3>1, SetStateRead DEF Own
    <2> HIDE DEF x, l0
    <2>2. QED
      BY <1>1, <1>3, <1>7, <2>1, GivenAway
  <1>8. QED
    BY <1>4, <1>5, <1>6, <1>7

LEMMA TokenSent ==
  ASSUME TInv, NEW n \in Node, SendRespToNetwork(n)
  PROVE  SomeToken'
  <1> DEFINE Q == respToNetworkQ
  <1>1. /\ Q \in [Node -> Seq(Node \X Locks)] /\ Q[n] # << >>
        /\ chan \in [Pairs -> Seq(Locks)]
        /\ Q' = [Q EXCEPT ![n] = Tail(@)] /\ UNCHANGED lockMem
    BY DEF SendRespToNetwork, TInv, IInv, TypeOK, Ring!TypeOK
  <1>2. PICK r \in Node \X Locks : r = Head(Q[n])
    BY <1>1, DeqType
  <1>3. PICK q \in Pairs : q = <<n, r[1]>>
    BY <1>2, PairsFact
  <1>4. PICK l0 \in Locks : l0 = r[2]
    BY <1>2
  <1>5. chan' = [chan EXCEPT ![q] = Append(@, l0)]
    BY <1>2, <1>3, <1>4 DEF SendRespToNetwork, Ring!Enq
  <1>6. chan'[q] = Append(chan[q], l0) /\ \A p \in Pairs : p # q => chan'[p] = chan[p]
    BY <1>1, <1>5
  <1>7. chan[q] \in Seq(Locks) /\ Q[n] \in Seq(Node \X Locks)
    BY <1>1
  <1>8. ASSUME NEW p \in Pairs, NEW i \in Nat, NEW l \in Locks, Net(p, i, l)
        PROVE  Net(p, i, l)'
    <2>1. CASE p = q
      <3>1. i \in DOMAIN chan[q] /\ chan[q][i] = l
        BY <1>8, <2>1 DEF Net
      <3>2. i \in DOMAIN Append(chan[q], l0) /\ Append(chan[q], l0)[i] = chan[q][i]
        BY <1>7, <3>1, EnqKeeps
      <3>3. QED
        BY <1>6, <2>1, <3>1, <3>2 DEF Net
    <2>2. CASE p # q
      BY <1>6, <1>8, <2>2 DEF Net
    <2>3. QED
      BY <2>1, <2>2
  <1>9. \E j \in Nat : Net(q, j, l0)'
    <2>1. PICK j \in Nat : j \in DOMAIN Append(chan[q], l0) /\ Append(chan[q], l0)[j] = l0
      BY <1>7, EnqKeeps
    <2>2. Net(q, j, l0)'
      BY <1>6, <2>1 DEF Net
    <2>3. QED
      BY <2>2
  <1>10. ASSUME NEW m \in Node, NEW i \in Nat, NEW l \in Locks, l # l0, Dep(m, i, l)
         PROVE  \E j \in Nat : Dep(m, j, l)'
    <2>1. CASE m = n
      <3>1. i \in DOMAIN Q[n] /\ Q[n][i][2] = l
        BY <1>10, <2>1 DEF Dep
      <3>2. i # 1
        BY <1>1, <1>2, <1>4, <1>7, <1>10, <3>1
      <3>3. PICK j \in Nat : j \in DOMAIN Tail(Q[n]) /\ Tail(Q[n])[j] = Q[n][i]
        <4>1. Q[n] \in Seq(Node \X Locks) /\ Q[n] # << >>
          BY <1>1, <1>7
        <4> HIDE DEF Q
        <4>2. QED
          BY <3>1, <3>2, <4>1, DeqKeeps
      <3>4. Q'[n] = Tail(Q[n])
        BY <1>1
      <3>5. Dep(n, j, l)'
        BY <3>1, <3>3, <3>4 DEF Dep
      <3>6. QED
        BY <2>1, <3>5
    <2>2. CASE m # n
      <3>1. Q'[m] = Q[m]
        BY <1>1, <2>2
      <3>2. Dep(m, i, l)'
        BY <1>10, <3>1 DEF Dep
      <3>3. QED
        BY <3>2
    <2>3. QED
      BY <2>1, <2>2
  <1> SUFFICES ASSUME NEW l \in Locks PROVE Present(l)'
    BY DEF SomeToken
  <1>11. CASE l = l0
    <2>1. \E p \in Pairs, i \in Nat : Net(p, i, l)'
      BY <1>9, <1>11
    <2>2. QED
      BY <2>1 DEF Present, Pairs
  <1>12. CASE l # l0
    <2>1. CASE \E m \in Node : Own(m, l)
      <3>1. \A m \in Node : Own(m, l) => Own(m, l)'
        BY <1>1 DEF Own
      <3>2. QED
        BY <2>1, <3>1 DEF Present
    <2>2. CASE \E m \in Node, i \in Nat : Dep(m, i, l)
      <3>1. \E m \in Node, i \in Nat : Dep(m, i, l)'
        BY <1>10, <1>12, <2>2
      <3>2. QED
        BY <3>1 DEF Present
    <2>3. CASE \E p \in Pairs, i \in Nat : Net(p, i, l)
      <3>1. \E p \in Pairs, i \in Nat : Net(p, i, l)'
        BY <1>8, <2>3
      <3>2. QED
        BY <3>1 DEF Present, Pairs
    <2>4. QED
      BY <2>1, <2>2, <2>3 DEF TInv, SomeToken, Present
  <1>13. QED
    BY <1>11, <1>12

LEMMA TokenReceived ==
  ASSUME TInv, NEW n \in Node, NEW s \in Node, RecvLockResp(s, n)
  PROVE  SomeToken'
  <1>1. PICK q \in Pairs : q = <<s, n>>
    BY PairsFact
  <1>2. /\ chan \in [Pairs -> Seq(Locks)] /\ chan[q] # << >> /\ TypeOK
        /\ chan' = [chan EXCEPT ![q] = Tail(@)] /\ UNCHANGED respToNetworkQ
    BY <1>1 DEF RecvLockResp, Ring!Deq, Ring!CanDeq, TInv, IInv, TypeOK, Ring!TypeOK
  <1>3. PICK l0 \in Locks : l0 = Head(chan[q])
    BY <1>2, DeqType
  <1>4. SetState(n, l0, "OWN_IN_USE")
    BY <1>1, <1>3 DEF RecvLockResp, Ring!First
  <1>5. \A m \in Node, l \in Locks : Own(m, l) => Own(m, l)'
    BY <1>2, <1>4, SetEntryRead, EntryType DEF SetState, Own, LockState
  <1>6. Own(n, l0)'
    BY <1>2, <1>4, SetEntryRead, EntryType DEF SetState, Own, LockState
  <1>7. chan'[q] = Tail(chan[q]) /\ \A p \in Pairs : p # q => chan'[p] = chan[p]
    BY <1>2
  <1>8. ASSUME NEW p \in Pairs, NEW i \in Nat, NEW l \in Locks, l # l0, Net(p, i, l)
        PROVE  \E j \in Nat : Net(p, j, l)'
    <2>1. CASE p = q
      <3>1. i \in DOMAIN chan[q] /\ chan[q][i] = l /\ chan[q] \in Seq(Locks)
        BY <1>2, <1>8, <2>1 DEF Net
      <3>2. i # 1
        BY <1>2, <1>3, <1>8, <3>1
      <3>3. PICK j \in Nat : j \in DOMAIN Tail(chan[q]) /\ Tail(chan[q])[j] = chan[q][i]
        BY <1>2, <3>1, <3>2, DeqKeeps
      <3>4. Net(q, j, l)'
        BY <1>7, <3>1, <3>3 DEF Net
      <3>5. QED
        BY <2>1, <3>4
    <2>2. CASE p # q
      <3>1. Net(p, i, l)'
        BY <1>7, <1>8, <2>2 DEF Net
      <3>2. QED
        BY <3>1
    <2>3. QED
      BY <2>1, <2>2
  <1>9. \A m \in Node, i \in Nat, l \in Locks : Dep(m, i, l) => Dep(m, i, l)'
    BY <1>2 DEF Dep
  <1> SUFFICES ASSUME NEW l \in Locks PROVE Present(l)'
    BY DEF SomeToken
  <1>10. CASE l = l0
    BY <1>6, <1>10 DEF Present
  <1>11. CASE l # l0
    <2>1. CASE \E m \in Node : Own(m, l)
      BY <1>5, <2>1 DEF Present
    <2>2. CASE \E m \in Node, i \in Nat : Dep(m, i, l)
      BY <1>9, <2>2 DEF Present
    <2>3. CASE \E p \in Pairs, i \in Nat : Net(p, i, l)
      <3>1. \E p \in Pairs, i \in Nat : Net(p, i, l)'
        BY <1>8, <1>11, <2>3
      <3>2. QED
        BY <3>1 DEF Present, Pairs
    <2>4. QED
      BY <2>1, <2>2, <2>3 DEF TInv, SomeToken, Present
  <1>12. QED
    BY <1>10, <1>11
-----------------------------------------------------------------------------
LEMMA TokenInit == Init => SomeToken
  <1> SUFFICES ASSUME Init, NEW l \in Locks PROVE Own(Master, l)
    BY NAssumption DEF SomeToken, Present, Node, Master
  <1>1. Master \in Node
    BY NAssumption DEF Node, Master
  <1>2. QED
    BY <1>1 DEF Init, Own

LEMMA TokenStep == TInv /\ [Next]_vars => SomeToken'
  <1> SUFFICES ASSUME TInv, [Next]_vars PROVE SomeToken'
    OBVIOUS
  <1>1. SomeToken /\ TypeOK
    BY DEF TInv, IInv
  <1>2. ASSUME UNCHANGED <<lockMem, respToNetworkQ, chan>> PROVE SomeToken'
    BY <1>1, <1>2, OwnersStay DEF Own
  <1>3. ASSUME NEW n \in Node, DoInit(n) PROVE SomeToken'
    BY <1>2, <1>3 DEF DoInit
  <1>4. ASSUME NEW n \in Node, AcquireLock(n) PROVE SomeToken'
    <2> DEFINE l0 == Head(lockReqQ[n])
    <2>1. l0 \in Locks /\ UNCHANGED <<respToNetworkQ, chan>>
      BY <1>1, <1>4, DeqType DEF AcquireLock, TypeOK
    <2>2. UNCHANGED lockMem \/ SetState(n, l0, "OWN_IN_USE")
      BY <1>4 DEF AcquireLock
    <2>3. \A m \in Node, l \in Locks : Own(m, l) => Own(m, l)'
      BY <1>1, <2>1, <2>2, SetEntryRead, EntryType DEF SetState, Own, LockState
    <2>4. QED
      BY <1>1, <2>1, <2>3, OwnersStay
  <1>5. ASSUME NEW n \in Node, NEW l \in Locks, ClientAcquire(n, l) PROVE SomeToken'
    BY <1>2, <1>5 DEF ClientAcquire
  <1>6. ASSUME NEW n \in Node, ClientTakeResp(n) PROVE SomeToken'
    BY <1>2, <1>6 DEF ClientTakeResp
  <1>7. CASE UNCHANGED vars
    BY <1>2, <1>7 DEF vars
  <1>8. QED
    BY <1>3, <1>4, <1>5, <1>6, <1>7, TokenReturned, TokenSnooped, TokenSent, TokenReceived
    DEF Next

(* The strengthening holds in every state of every lock group. *)
THEOREM LockTokenInvariant == Spec => []TInv
<1>1. Init => TInv
  BY IInvInit, TokenInit DEF TInv
<1>2. TInv /\ [Next]_vars => TInv'
  BY IInvStep, TokenStep DEF TInv
<1>3. QED
  BY <1>1, <1>2, PTL DEF Spec
-----------------------------------------------------------------------------
LEMMA AtMostOne ==
  ASSUME NEW S, \A x, y \in S : x = y
  PROVE  Cardinality(S) = IF S = {} THEN 0 ELSE 1
  <1>1. CASE S = {}
    BY <1>1, FS_EmptySet
  <1>2. CASE S # {}
    <2>1. PICK x \in S : S = {x}
      BY <1>2
    <2>2. QED
      BY <1>2, <2>1, FS_Singleton
  <1>3. QED
    BY <1>1, <1>2

(* A queue that holds no lock twice is no longer than there are locks. *)
LEMMA NoLonger ==
  ASSUME NEW k \in Nat, NEW f \in [1 .. k -> Locks],
         \A i, j \in 1 .. k : f[i] = f[j] => i = j
  PROVE  k <= Cardinality(Locks)
  <1>1. f \in Injection(1 .. k, Locks)
    BY DEF Injection, IsInjective
  <1>2. Cardinality(1 .. k) = k
    BY FS_Interval
  <1>3. QED
    BY <1>1, <1>2, FS_Injection, LocksAssumption

LEMMA DepartingIndex ==
  ASSUME IInv, NEW n \in Node, NEW i \in Nat, NEW l \in Locks, Dep(n, i, l)
  PROVE  i \in Index
  <1> DEFINE Q == respToNetworkQ[n]
             k == Len(Q)
             f == [j \in 1 .. k |-> Q[j][2]]
  <1>1. Q \in Seq(Node \X Locks) /\ k \in Nat
    BY DEF IInv, TypeOK
  <1>2. \A j \in 1 .. k : Dep(n, j, Q[j][2]) /\ Q[j][2] \in Locks /\ j \in Nat
    BY <1>1 DEF Dep
  <1>3. \A a, b \in 1 .. k : f[a] = f[b] => a = b
    BY <1>2 DEF IInv, UniqueToken
  <1>4. f \in [1 .. k -> Locks]
    BY <1>2
  <1>5. k <= Cardinality(Locks)
    <2> HIDE DEF k, f
    <2>1. QED
      BY <1>1, <1>3, <1>4, NoLonger
  <1>6. i \in 1 .. k
    BY <1>1 DEF Dep
  <1>7. Cardinality(Locks) \in Nat
    BY LocksAssumption, FS_CardinalityType
  <1> HIDE DEF k
  <1>8. QED
    BY <1>1, <1>5, <1>6, <1>7 DEF Index

LEMMA TransitIndex ==
  ASSUME IInv, NEW p \in Pairs, NEW i \in Nat, NEW l \in Locks, Net(p, i, l)
  PROVE  i \in Index
  <1> DEFINE Q == chan[p]
             k == Len(Q)
             f == [j \in 1 .. k |-> Q[j]]
  <1>1. Q \in Seq(Locks) /\ k \in Nat
    BY DEF IInv, TypeOK, Ring!TypeOK
  <1>2. \A j \in 1 .. k : Net(p, j, Q[j]) /\ Q[j] \in Locks /\ j \in Nat
    BY <1>1 DEF Net
  <1>3. \A a, b \in 1 .. k : f[a] = f[b] => a = b
    BY <1>2 DEF IInv, UniqueToken
  <1>4. f \in [1 .. k -> Locks]
    BY <1>2
  <1>5. k <= Cardinality(Locks)
    <2> HIDE DEF k, f
    <2>1. QED
      BY <1>1, <1>3, <1>4, NoLonger
  <1>6. i \in 1 .. k
    BY <1>1 DEF Net
  <1>7. Cardinality(Locks) \in Nat
    BY LocksAssumption, FS_CardinalityType
  <1> HIDE DEF k
  <1>8. QED
    BY <1>1, <1>5, <1>6, <1>7 DEF Index

(* Exactly one node of lock.bsv owns a lock or has it on the way to it:     *)
(* none is lost and none appears twice, whatever the number of nodes, locks *)
(* and queue slots.                                                         *)
THEOREM LockOneToken == Spec => []OneToken
<1>1. TInv => OneToken
  <2> SUFFICES ASSUME TInv, NEW l \in Locks
               PROVE  Cardinality(Owners(l)) + Cardinality(Departing(l))
                        + Cardinality(InTransit(l)) = 1
    BY DEF OneToken
  <2>1. Cardinality(Owners(l)) = IF Owners(l) = {} THEN 0 ELSE 1
    <3>1. \A x, y \in Owners(l) : x = y
      BY DEF TInv, IInv, UniqueToken, Owners, Own
    <3>2. QED
      BY <3>1, AtMostOne
  <2>2. Cardinality(Departing(l)) = IF Departing(l) = {} THEN 0 ELSE 1
    <3>1. \A x \in Departing(l) :
            x[1] \in Node /\ x[2] \in Nat /\ Dep(x[1], x[2], l) /\ x = <<x[1], x[2]>>
      BY LocksAssumption, FS_CardinalityType DEF Departing, Dep, Index
    <3>2. ASSUME NEW x \in Departing(l), NEW y \in Departing(l) PROVE x = y
      <4>1. x[1] = y[1] /\ x[2] = y[2]
        BY <3>1 DEF TInv, IInv, UniqueToken
      <4>2. QED
        BY <3>1, <4>1
    <3>3. QED
      BY <3>2, AtMostOne
  <2>3. Cardinality(InTransit(l)) = IF InTransit(l) = {} THEN 0 ELSE 1
    <3>1. \A x \in InTransit(l) :
            x[1] \in Pairs /\ x[2] \in Nat /\ Net(x[1], x[2], l) /\ x = <<x[1], x[2]>>
      BY LocksAssumption, FS_CardinalityType DEF InTransit, Net, Index
    <3>2. ASSUME NEW x \in InTransit(l), NEW y \in InTransit(l) PROVE x = y
      <4>1. x[1] = y[1] /\ x[2] = y[2]
        BY <3>1 DEF TInv, IInv, UniqueToken
      <4>2. QED
        BY <3>1, <4>1
    <3>3. QED
      BY <3>2, AtMostOne
  <2>4. Owners(l) # {} <=> \E n \in Node : Own(n, l)
    BY DEF Owners, Own
  <2>5. Departing(l) # {} <=> \E n \in Node, i \in Nat : Dep(n, i, l)
    <3>1. ASSUME NEW n \in Node, NEW i \in Nat, Dep(n, i, l) PROVE <<n, i>> \in Departing(l)
      BY <3>1, DepartingIndex DEF TInv, Departing, Dep
    <3>2. \A x \in Departing(l) : x[1] \in Node /\ x[2] \in Nat /\ Dep(x[1], x[2], l)
      BY LocksAssumption, FS_CardinalityType DEF Departing, Dep, Index
    <3>3. QED
      BY <3>1, <3>2
  <2>6. InTransit(l) # {} <=> \E p \in Pairs, i \in Nat : Net(p, i, l)
    <3>1. ASSUME NEW p \in Pairs, NEW i \in Nat, Net(p, i, l) PROVE <<p, i>> \in InTransit(l)
      BY <3>1, TransitIndex DEF TInv, InTransit, Net
    <3>2. \A x \in InTransit(l) : x[1] \in Pairs /\ x[2] \in Nat /\ Net(x[1], x[2], l)
      BY LocksAssumption, FS_CardinalityType DEF InTransit, Net, Index
    <3>3. QED
      BY <3>1, <3>2
  <2>7. Owners(l) # {} \/ Departing(l) # {} \/ InTransit(l) # {}
    BY <2>4, <2>5, <2>6 DEF TInv, SomeToken, Present
  <2>8. /\ ~(Owners(l) # {} /\ Departing(l) # {})
        /\ ~(Owners(l) # {} /\ InTransit(l) # {})
        /\ ~(Departing(l) # {} /\ InTransit(l) # {})
    BY <2>4, <2>5, <2>6 DEF TInv, IInv, UniqueToken
  <2>9. QED
    BY <2>1, <2>2, <2>3, <2>7, <2>8
<1>2. QED
  BY <1>1, LockTokenInvariant, PTL
-----------------------------------------------------------------------------
(* No request is lost.  The request of a waiting client is in one place:   *)
(* its lockReqQ, a link of the request chain, the fwdId of the owner, a    *)
(* respToNetworkQ, the response ring or its lockRespQ.  Every rule moves   *)
(* one request from the head of one of those to the end of another         *)
(* (Moved), so none is lost or answered twice.                             *)
Kind == {"lockReqQ", "reqLink", "fwdId", "respToNetworkQ", "chan", "lockRespQ"}

(* v is in slot i of queue x of the table Q. *)
Slot(Q, x, i, v) == i \in DOMAIN Q[x] /\ Q[x][i] = v

(* The request of node n for lock l is in slot i of the queue k at node m; *)
(* a fwdId is a queue of one slot.                                         *)
At(k, m, i, n, l) ==
  \/ k = "lockReqQ" /\ m = n /\ Slot(lockReqQ, n, i, l)
  \/ k = "reqLink" /\ Slot(reqLink, m, i, [requester |-> n, lockId |-> l])
  \/ k = "fwdId" /\ i = 1 /\ lockMem[m][l].fwdId = n
  \/ k = "respToNetworkQ" /\ Slot(respToNetworkQ, m, i, <<n, l>>)
  \/ k = "chan" /\ Slot(chan, <<m, n>>, i, l)
  \/ k = "lockRespQ" /\ m = n /\ Slot(lockRespQ, n, i, l)

Waits(n, l) == client[n][l] = "wait"

(* A request is in one place, and in some place while its client waits. *)
RequestInv ==
  \A n \in Node, l \in Locks :
    /\ \A k1, k2 \in Kind, m1, m2 \in Node, i1, i2 \in Nat :
         At(k1, m1, i1, n, l) /\ At(k2, m2, i2, n, l) => k1 = k2 /\ m1 = m2 /\ i1 = i2
    /\ Waits(n, l) <=> \E k \in Kind, m \in Node, i \in Nat : At(k, m, i, n, l)

RInv == IInv /\ RequestInv

(* The queue k1 at node m1 out of which the request of n0 for l0 is taken. *)
From(k1, m1, n0, l0, k, m, n, l) ==
  k = k1 /\ m = m1 /\ (k = "chan" => n = n0) /\ (k = "fwdId" => l = l0)

(* At once the oldest request of that queue has left it. *)
Left(k1, m1, n0, l0, k, m, i, n, l) ==
  \/ ~From(k1, m1, n0, l0, k, m, n, l) /\ At(k, m, i, n, l)
  \/ From(k1, m1, n0, l0, k, m, n, l) /\ i > 0 /\ At(k, m, i + 1, n, l)
(* A rule moves the oldest request of queue k1 at m1 to slot i2 of queue   *)
(* k2 at m2, and the others of its queue move up.                          *)
Moves(k1, m1, k2, m2, i2, n0, l0) ==
  /\ At(k1, m1, 1, n0, l0)
  /\ \A n \in Node, l \in Locks :
       /\ At(k1, m1, 1, n, l) /\ From(k1, m1, n0, l0, k1, m1, n, l) => n = n0 /\ l = l0
       /\ Waits(n, l)' <=> Waits(n, l)
  /\ \A k \in Kind, m \in Node, i \in Nat, n \in Node, l \in Locks :
       At(k, m, i, n, l)' <=>
         \/ k = k2 /\ m = m2 /\ i = i2 /\ n = n0 /\ l = l0
         \/ Left(k1, m1, n0, l0, k, m, i, n, l)
-----------------------------------------------------------------------------
(* Slots are numbered from 1. *)
LEMMA SlotPositive ==
  ASSUME TypeOK, NEW k \in Kind, NEW m \in Node, NEW i \in Nat,
         NEW n \in Node, NEW l \in Locks, At(k, m, i, n, l)
  PROVE  i # 0
  <1>1. /\ lockReqQ[n] \in Seq(Locks) /\ lockRespQ[n] \in Seq(Locks)
        /\ reqLink[m] \in Seq(Request) /\ respToNetworkQ[m] \in Seq(Node \X Locks)
        /\ chan[<<m, n>>] \in Seq(Locks)
    BY PairsFact DEF TypeOK, Ring!TypeOK
  <1>2. QED
    BY <1>1 DEF At, Slot

(* Such a step keeps every request in one place. *)
LEMMA Moved ==
  ASSUME TypeOK, RequestInv, NEW n0 \in Node, NEW l0 \in Locks, NEW k1 \in Kind, NEW m1 \in Node,
         NEW k2 \in Kind, NEW m2 \in Node, NEW i2 \in Nat, Moves(k1, m1, k2, m2, i2, n0, l0)
  PROVE  RequestInv'
  <1> SUFFICES ASSUME NEW n \in Node, NEW l \in Locks
               PROVE  /\ \A ka, kb \in Kind, ma, mb \in Node, ia, ib \in Nat :
                           At(ka, ma, ia, n, l)' /\ At(kb, mb, ib, n, l)'
                             => ka = kb /\ ma = mb /\ ia = ib
                      /\ Waits(n, l)' <=>
                           \E k \in Kind, m \in Node, i \in Nat : At(k, m, i, n, l)'
    BY DEF RequestInv
  <1>0. /\ At(k1, m1, 1, n0, l0)
        /\ At(k1, m1, 1, n, l) /\ From(k1, m1, n0, l0, k1, m1, n, l) => n = n0 /\ l = l0
        /\ Waits(n, l)' <=> Waits(n, l)
        /\ \A k \in Kind, m \in Node, i \in Nat :
             At(k, m, i, n, l)' <=>
               \/ k = k2 /\ m = m2 /\ i = i2 /\ n = n0 /\ l = l0
               \/ Left(k1, m1, n0, l0, k, m, i, n, l)
    BY DEF Moves
  <1>1. CASE n = n0 /\ l = l0
    <2>1. ASSUME NEW k \in Kind, NEW m \in Node, NEW i \in Nat, At(k, m, i, n, l)'
          PROVE  k = k2 /\ m = m2 /\ i = i2
      BY <1>0, <1>1, <2>1 DEF RequestInv, From, Left
    <2>2. At(k2, m2, i2, n, l)'
      BY <1>0, <1>1
    <2>3. QED
      BY <1>0, <1>1, <2>1, <2>2 DEF RequestInv
  <1>2. CASE ~(n = n0 /\ l = l0)
    <2>1. ASSUME NEW ka \in Kind, NEW kb \in Kind, NEW ma \in Node, NEW mb \in Node,
                 NEW ia \in Nat, NEW ib \in Nat,
                 At(ka, ma, ia, n, l)', At(kb, mb, ib, n, l)'
          PROVE  ka = kb /\ ma = mb /\ ia = ib
      <3>1. ia + 1 \in Nat /\ ib + 1 \in Nat
        OBVIOUS
      <3> DEFINE FromA == From(k1, m1, n0, l0, ka, ma, n, l)
                 FromB == From(k1, m1, n0, l0, kb, mb, n, l)
      <3>2. /\ (~FromA /\ At(ka, ma, ia, n, l)) \/ (FromA /\ At(ka, ma, ia + 1, n, l))
            /\ (~FromB /\ At(kb, mb, ib, n, l)) \/ (FromB /\ At(kb, mb, ib + 1, n, l))
        <4>1. (~FromA /\ At(ka, ma, ia, n, l)) \/ (FromA /\ At(ka, ma, ia + 1, n, l))
          BY <1>0, <1>2, <2>1 DEF Left
        <4>2. (~FromB /\ At(kb, mb, ib, n, l)) \/ (FromB /\ At(kb, mb, ib + 1, n, l))
          BY <1>0, <1>2, <2>1 DEF Left
        <4>3. QED
          BY <4>1, <4>2
      <3>3. CASE FromA /\ FromB
        <4>1. At(ka, ma, ia + 1, n, l) /\ At(kb, mb, ib + 1, n, l)
          BY <3>2, <3>3
        <4>2. \A j, k \in Nat : At(ka, ma, j, n, l) /\ At(kb, mb, k, n, l)
                                  => ka = kb /\ ma = mb /\ j = k
          BY DEF RequestInv
        <4>3. ka = kb /\ ma = mb /\ ia + 1 = ib + 1
          BY <3>1, <4>1, <4>2
        <4>4. QED
          BY <4>3
      <3>4. CASE ~FromA /\ ~FromB
        BY <3>2, <3>4 DEF RequestInv
      <3>5. FromA <=> FromB
        <4>1. ka = kb /\ ma = mb
          <5>1. \E ja, jb \in Nat : At(ka, ma, ja, n, l) /\ At(kb, mb, jb, n, l)
            BY <3>1, <3>2
          <5>2. QED
            BY <5>1 DEF RequestInv
        <4>2. QED
          BY <4>1
      <3>6. QED
        BY <3>3, <3>4, <3>5
    <2>2. (\E k \in Kind, m \in Node, i \in Nat : At(k, m, i, n, l)')
            => \E k \in Kind, m \in Node, i \in Nat : At(k, m, i, n, l)
      <3>1. \A i \in Nat : i + 1 \in Nat
        OBVIOUS
      <3>2. QED
        BY <1>0, <1>2, <3>1 DEF Left
    <2>3. ASSUME NEW k \in Kind, NEW m \in Node, NEW i \in Nat, At(k, m, i, n, l)
          PROVE  \E j \in Nat : At(k, m, j, n, l)'
      <3>1. CASE From(k1, m1, n0, l0, k, m, n, l)
        <4>1. i # 1
          BY <1>0, <1>2, <2>3, <3>1 DEF From
        <4>2. i # 0
          BY <2>3, SlotPositive
        <4> DEFINE j == i - 1
        <4>3. j \in Nat /\ j > 0 /\ j + 1 = i
          BY <4>1, <4>2
        <4> HIDE DEF j
        <4>4. QED
          BY <1>0, <4>3, <3>1, <2>3 DEF Left
      <3>2. CASE ~From(k1, m1, n0, l0, k, m, n, l)
        BY <1>0, <1>2, <3>2, <2>3 DEF Left
      <3>3. QED
        BY <3>1, <3>2
    <2>4. QED
      BY <1>0, <2>1, <2>2, <2>3 DEF RequestInv
  <1>3. QED
    BY <1>1, <1>2
-----------------------------------------------------------------------------
(* The client of n0 takes the oldest answer in its lockRespQ, and waits no  *)
(* more.                                                                    *)
Takes(n0, l0) ==
  /\ At("lockRespQ", n0, 1, n0, l0)
  /\ \A n \in Node, l \in Locks :
       /\ At("lockRespQ", n0, 1, n, l) => n = n0 /\ l = l0
       /\ Waits(n, l)' <=> Waits(n, l) /\ ~(n = n0 /\ l = l0)
  /\ \A k \in Kind, m \in Node, i \in Nat, n \in Node, l \in Locks :
       At(k, m, i, n, l)' <=> Left("lockRespQ", n0, n0, l0, k, m, i, n, l)

LEMMA Removed ==
  ASSUME TypeOK, RequestInv, NEW n0 \in Node, NEW l0 \in Locks, Takes(n0, l0)
  PROVE  RequestInv'
  <1> SUFFICES ASSUME NEW n \in Node, NEW l \in Locks
               PROVE  /\ \A ka, kb \in Kind, ma, mb \in Node, ia, ib \in Nat :
                           At(ka, ma, ia, n, l)' /\ At(kb, mb, ib, n, l)'
                             => ka = kb /\ ma = mb /\ ia = ib
                      /\ Waits(n, l)' <=>
                           \E k \in Kind, m \in Node, i \in Nat : At(k, m, i, n, l)'
    BY DEF RequestInv
  <1>1. /\ \A ka, kb \in Kind, ma, mb \in Node, ia, ib \in Nat :
             At(ka, ma, ia, n, l) /\ At(kb, mb, ib, n, l) => ka = kb /\ ma = mb /\ ia = ib
        /\ Waits(n, l) <=> \E k \in Kind, m \in Node, i \in Nat : At(k, m, i, n, l)
        /\ Waits(n, l)' <=> Waits(n, l) /\ ~(n = n0 /\ l = l0)
        /\ At("lockRespQ", n0, 1, n, l) => n = n0 /\ l = l0
        /\ "lockRespQ" \in Kind /\ At("lockRespQ", n0, 1, n0, l0)
        /\ \A k \in Kind, m \in Node, i \in Nat :
             At(k, m, i, n, l)' <=> Left("lockRespQ", n0, n0, l0, k, m, i, n, l)
    <2>1. "lockRespQ" \in Kind
      BY DEF Kind
    <2>2. /\ At("lockRespQ", n0, 1, n0, l0)
          /\ At("lockRespQ", n0, 1, n, l) => n = n0 /\ l = l0
          /\ Waits(n, l)' <=> Waits(n, l) /\ ~(n = n0 /\ l = l0)
      BY DEF Takes
    <2>3. \A k \in Kind, m \in Node, i \in Nat :
            At(k, m, i, n, l)' <=> Left("lockRespQ", n0, n0, l0, k, m, i, n, l)
      BY DEF Takes
    <2>4. /\ \A ka, kb \in Kind, ma, mb \in Node, ia, ib \in Nat :
               At(ka, ma, ia, n, l) /\ At(kb, mb, ib, n, l) => ka = kb /\ ma = mb /\ ia = ib
          /\ Waits(n, l) <=> \E k \in Kind, m \in Node, i \in Nat : At(k, m, i, n, l)
      BY DEF RequestInv
    <2>5. QED
      BY <2>1, <2>2, <2>3, <2>4
  <1>2. CASE n = n0 /\ l = l0
    <2>1. ASSUME NEW k \in Kind, NEW m \in Node, NEW i \in Nat
          PROVE  ~Left("lockRespQ", n0, n0, l0, k, m, i, n, l)
      BY <1>1, <1>2 DEF Left, From
    <2>2. QED
      BY <1>1, <1>2, <2>1
  <1>3. CASE ~(n = n0 /\ l = l0)
    <2>1. \A k \in Kind, m \in Node, i \in Nat :
            Left("lockRespQ", n0, n0, l0, k, m, i, n, l) => \E j \in Nat : At(k, m, j, n, l)
      BY DEF Left
    <2>2. ASSUME NEW k \in Kind, NEW m \in Node, NEW i \in Nat, At(k, m, i, n, l)
          PROVE  \E j \in Nat : Left("lockRespQ", n0, n0, l0, k, m, j, n, l)
      <3>1. CASE From("lockRespQ", n0, n0, l0, k, m, n, l)
        <4> DEFINE j == i - 1
        <4>1. i # 0 /\ i # 1
          BY <1>1, <1>3, <2>2, <3>1, SlotPositive DEF From
        <4>2. j \in Nat /\ j > 0 /\ j + 1 = i
          BY <4>1
        <4> HIDE DEF j
        <4>3. QED
          BY <4>2, <3>1, <2>2 DEF Left
      <3>2. CASE ~From("lockRespQ", n0, n0, l0, k, m, n, l)
        BY <3>2, <2>2 DEF Left
      <3>3. QED
        BY <3>1, <3>2
    <2>3. ASSUME NEW ka \in Kind, NEW kb \in Kind, NEW ma \in Node, NEW mb \in Node,
                 NEW ia \in Nat, NEW ib \in Nat,
                 Left("lockRespQ", n0, n0, l0, ka, ma, ia, n, l),
                 Left("lockRespQ", n0, n0, l0, kb, mb, ib, n, l)
          PROVE  ka = kb /\ ma = mb /\ ia = ib
      <3>1. ka = kb /\ ma = mb
        BY <1>1, <2>1, <2>3
      <3>2. CASE From("lockRespQ", n0, n0, l0, ka, ma, n, l)
        <4>1. At(ka, ma, ia + 1, n, l) /\ At(kb, mb, ib + 1, n, l)
          BY <2>3, <3>1, <3>2 DEF Left
        <4>2. ia + 1 \in Nat /\ ib + 1 \in Nat
          OBVIOUS
        <4>3. ia + 1 = ib + 1
          BY <1>1, <4>1, <4>2
        <4>4. QED
          BY <3>1, <4>3
      <3>3. CASE ~From("lockRespQ", n0, n0, l0, ka, ma, n, l)
        BY <1>1, <2>3, <3>1, <3>3 DEF Left
      <3>4. QED
        BY <3>2, <3>3
    <2>4. QED
      BY <1>1, <1>3, <2>1, <2>2, <2>3
  <1>4. QED
    BY <1>2, <1>3

(* deq on one queue of a table, slot by slot. *)
LEMMA SlotDeq ==
  ASSUME NEW A, NEW S, NEW Q \in [A -> Seq(S)], NEW a \in A, Q[a] # << >>,
         NEW x \in A, NEW i \in Nat, NEW v
  PROVE  Slot([Q EXCEPT ![a] = Tail(@)], x, i, v) <=>
           \/ x # a /\ Slot(Q, x, i, v)
           \/ x = a /\ i > 0 /\ Slot(Q, x, i + 1, v)
  BY DEF Slot

(* The lock l0 enters respToNetworkQ at s for n0, in slot i2. *)
RespEnters(s, i2, n0, l0) ==
  \A x \in Node, i \in Nat, n \in Node, l \in Locks :
    Slot(respToNetworkQ', x, i, <<n, l>>) <=>
      Slot(respToNetworkQ, x, i, <<n, l>>) \/ (x = s /\ i = i2 /\ n = n0 /\ l = l0)

LEMMA RespSlots ==
  ASSUME respToNetworkQ \in [Node -> Seq(Node \X Locks)], NEW s \in Node,
         NEW w \in Node \X Locks, respToNetworkQ' = [respToNetworkQ EXCEPT ![s] = Append(@, w)]
  PROVE  \A x \in Node, i \in Nat, v \in Node \X Locks :
           Slot(respToNetworkQ', x, i, v) <=>
             \/ Slot(respToNetworkQ, x, i, v)
             \/ x = s /\ i = Len(respToNetworkQ[s]) + 1 /\ v = w
  BY DEF Slot

LEMMA RespEnq ==
  ASSUME TypeOK, NEW s \in Node, NEW n0 \in Node, NEW l0 \in Locks,
         respToNetworkQ' = [respToNetworkQ EXCEPT ![s] = Append(@, <<n0, l0>>)]
  PROVE  \E i2 \in Nat : RespEnters(s, i2, n0, l0)
  <1>1. respToNetworkQ \in [Node -> Seq(Node \X Locks)]
    BY DEF TypeOK
  <1> DEFINE w  == <<n0, l0>>
             i2 == Len(respToNetworkQ[s]) + 1
  <1>2. w \in Node \X Locks /\ \A n \in Node, l \in Locks : <<n, l>> = w <=> n = n0 /\ l = l0
    OBVIOUS
  <1>3. respToNetworkQ' = [respToNetworkQ EXCEPT ![s] = Append(@, w)] /\ i2 \in Nat
    BY <1>1
  <1> HIDE DEF w
  <1>4. \A x \in Node, i \in Nat, v \in Node \X Locks :
          Slot(respToNetworkQ', x, i, v) <=>
            \/ Slot(respToNetworkQ, x, i, v)
            \/ x = s /\ i = Len(respToNetworkQ[s]) + 1 /\ v = w
    <2>1. w \in Node \X Locks
      BY <1>2
    <2>2. QED
      BY <1>1, <1>3, <2>1, RespSlots, ZenonT(20)
  <1>5. ASSUME NEW x \in Node, NEW i \in Nat, NEW n \in Node, NEW l \in Locks,
               NEW v \in Node \X Locks, v = <<n, l>>
        PROVE  Slot(respToNetworkQ', x, i, v) <=>
                 Slot(respToNetworkQ, x, i, v) \/ (x = s /\ i = i2 /\ n = n0 /\ l = l0)
    BY <1>2, <1>4, <1>5
  <1> HIDE DEF i2
  <1>6. RespEnters(s, i2, n0, l0)
    <2>1. \A n \in Node, l \in Locks : <<n, l>> \in Node \X Locks
      OBVIOUS
    <2>2. QED
      BY <1>5, <2>1 DEF RespEnters
  <1>7. QED
    BY <1>3, <1>6

(* Requests that stay where they are. *)
LEMMA SameRequests ==
  ASSUME RequestInv,
         \A n \in Node, l \in Locks : Waits(n, l)' <=> Waits(n, l),
         \A k \in Kind, m \in Node, i \in Nat, n \in Node, l \in Locks :
           At(k, m, i, n, l)' <=> At(k, m, i, n, l)
  PROVE  RequestInv'
  <1> SUFFICES ASSUME NEW n \in Node, NEW l \in Locks
               PROVE  /\ \A ka, kb \in Kind, ma, mb \in Node, ia, ib \in Nat :
                           At(ka, ma, ia, n, l)' /\ At(kb, mb, ib, n, l)'
                             => ka = kb /\ ma = mb /\ ia = ib
                      /\ Waits(n, l)' <=>
                           \E k \in Kind, m \in Node, i \in Nat : At(k, m, i, n, l)'
    BY DEF RequestInv
  <1>1. /\ \A ka, kb \in Kind, ma, mb \in Node, ia, ib \in Nat :
             At(ka, ma, ia, n, l) /\ At(kb, mb, ib, n, l) => ka = kb /\ ma = mb /\ ia = ib
        /\ Waits(n, l) <=> \E k \in Kind, m \in Node, i \in Nat : At(k, m, i, n, l)
    BY DEF RequestInv
  <1>2. \A k \in Kind, m \in Node, i \in Nat : At(k, m, i, n, l)' <=> At(k, m, i, n, l)
    OBVIOUS
  <1>3. QED
    BY <1>1, <1>2

(* A step that moves no request. *)
LEMMA RequestStays ==
  ASSUME RequestInv,
         \A n \in Node, l \in Locks : Waits(n, l)' <=> Waits(n, l),
         \A m \in Node, l \in Locks : lockMem'[m][l].fwdId = lockMem[m][l].fwdId,
         UNCHANGED <<lockReqQ, lockRespQ, reqLink, respToNetworkQ, chan>>
  PROVE  RequestInv'
  <1>1. \A k \in Kind, m \in Node, i \in Nat, n \in Node, l \in Locks :
          At(k, m, i, n, l)' <=> At(k, m, i, n, l)
    BY DEF At, Slot
  <1>2. QED
    BY <1>1, SameRequests

(* What acquireLock does with a request it grants. *)
LEMMA RequestGranted ==
  ASSUME RInv, NEW n0 \in Node, NEW l0 \in Locks, lockReqQ[n0] # << >>, At("lockReqQ", n0, 1, n0, l0),
         lockReqQ' = [lockReqQ EXCEPT ![n0] = Tail(@)],
         lockRespQ' = [lockRespQ EXCEPT ![n0] = Append(@, l0)],
         SetState(n0, l0, "OWN_IN_USE"),
         UNCHANGED <<reqLink, respToNetworkQ, chan, client>>
  PROVE  RequestInv'
  <1> DEFINE i2 == Len(lockRespQ[n0]) + 1
  <1>1. lockReqQ \in [Node -> Seq(Locks)] /\ lockRespQ \in [Node -> Seq(Locks)]
    BY DEF RInv, IInv, TypeOK
  <1>2. \A x \in Node, i \in Nat, v \in Locks :
          Slot(lockReqQ', x, i, v) <=>
            \/ x # n0 /\ Slot(lockReqQ, x, i, v)
            \/ x = n0 /\ i > 0 /\ Slot(lockReqQ, x, i + 1, v)
    BY <1>1, SlotDeq
  <1>3. \A x \in Node, i \in Nat, v \in Locks :
          Slot(lockRespQ', x, i, v) <=>
            Slot(lockRespQ, x, i, v) \/ (x = n0 /\ i = i2 /\ v = l0)
    BY <1>1 DEF Slot
  <1>4. \A m \in Node, l \in Locks : lockMem'[m][l].fwdId = lockMem[m][l].fwdId
    <2>1. lockMem[n0][l0].fwdId \in Node \cup {NoFwd} /\ TypeOK /\ "OWN_IN_USE" \in LockState
      BY EntryType DEF LockState, RInv, IInv
    <2>2. SetEntry(n0, l0, "OWN_IN_USE", lockMem[n0][l0].fwdId)
      BY DEF SetState
    <2>3. QED
      BY <2>1, <2>2, SetEntryRead
  <1>5. \A v : Slot(lockReqQ, n0, 1, v) => v = l0
    BY DEF At, Slot
  <1>6. ASSUME NEW k \in Kind, NEW m \in Node, NEW i \in Nat, NEW n \in Node, NEW l \in Locks
        PROVE  At(k, m, i, n, l)' <=>
                 \/ k = "lockRespQ" /\ m = n0 /\ i = i2 /\ n = n0 /\ l = l0
                 \/ Left("lockReqQ", n0, n0, l0, k, m, i, n, l)
    <2> HIDE DEF i2
    <2>1. CASE k = "lockReqQ"
      BY <2>1, <1>2 DEF At, From, Left
    <2>2. CASE k = "lockRespQ"
      BY <2>2, <1>3 DEF At, From, Left
    <2>3. CASE k \notin {"lockReqQ", "lockRespQ"}
      BY <2>3, <1>4 DEF At, From, Left, Slot
    <2>4. QED
      BY <2>1, <2>2, <2>3
  <1>7. i2 \in Nat /\ "lockReqQ" \in Kind /\ "lockRespQ" \in Kind
    BY <1>1 DEF Kind
  <1>8. \A n \in Node, l \in Locks :
          /\ At("lockReqQ", n0, 1, n, l) => n = n0 /\ l = l0
          /\ Waits(n, l)' <=> Waits(n, l)
    BY <1>5 DEF At, Waits
  <1>9. RequestInv /\ TypeOK
    BY DEF RInv, IInv
  <1> HIDE DEF i2
  <1>10. Moves("lockReqQ", n0, "lockRespQ", n0, i2, n0, l0)
    BY <1>6, <1>8 DEF Moves
  <1>11. QED
    BY <1>7, <1>9, <1>10, Moved

(* What acquireLock does with a request for a lock owned elsewhere. *)
LEMMA RequestSent ==
  ASSUME RInv, NEW n0 \in Node, NEW l0 \in Locks, lockReqQ[n0] # << >>,
         At("lockReqQ", n0, 1, n0, l0),
         lockReqQ' = [lockReqQ EXCEPT ![n0] = Tail(@)],
         reqLink' = [reqLink EXCEPT ![n0] = Append(@, [requester |-> n0, lockId |-> l0])],
         UNCHANGED <<lockMem, lockRespQ, respToNetworkQ, chan, client>>
  PROVE  RequestInv'
  <1> DEFINE i2 == Len(reqLink[n0]) + 1
  <1>1. lockReqQ \in [Node -> Seq(Locks)] /\ reqLink \in [Node -> Seq(Request)]
    BY DEF RInv, IInv, TypeOK
  <1>2. \A x \in Node, i \in Nat, v \in Locks :
          Slot(lockReqQ', x, i, v) <=>
            \/ x # n0 /\ Slot(lockReqQ, x, i, v)
            \/ x = n0 /\ i > 0 /\ Slot(lockReqQ, x, i + 1, v)
    BY <1>1, SlotDeq
  <1>3. \A x \in Node, i \in Nat, n \in Node, l \in Locks :
          Slot(reqLink', x, i, [requester |-> n, lockId |-> l]) <=>
            \/ Slot(reqLink, x, i, [requester |-> n, lockId |-> l])
            \/ x = n0 /\ i = i2 /\ n = n0 /\ l = l0
    <2> DEFINE w == [requester |-> n0, lockId |-> l0]
    <2>1. w \in Request
      BY DEF Request
    <2>2. \A n \in Node, l \in Locks :
            [requester |-> n, lockId |-> l] = w <=> n = n0 /\ l = l0
      OBVIOUS
    <2> HIDE DEF w
    <2>3. reqLink' = [reqLink EXCEPT ![n0] = Append(@, w)]
      BY DEF w
    <2>4. \A x \in Node, i \in Nat, v \in Request :
            Slot(reqLink', x, i, v) <=>
              Slot(reqLink, x, i, v) \/ (x = n0 /\ i = i2 /\ v = w)
      BY <1>1, <2>1, <2>3 DEF Slot
    <2>5. \A n \in Node, l \in Locks : [requester |-> n, lockId |-> l] \in Request
      BY DEF Request
    <2> HIDE DEF i2
    <2>6. ASSUME NEW x \in Node, NEW i \in Nat, NEW n \in Node, NEW l \in Locks,
                 NEW v \in Request, v = [requester |-> n, lockId |-> l]
          PROVE  Slot(reqLink', x, i, v) <=>
                   Slot(reqLink, x, i, v) \/ (x = n0 /\ i = i2 /\ n = n0 /\ l = l0)
      <3>1. Slot(reqLink', x, i, v) <=> Slot(reqLink, x, i, v) \/ (x = n0 /\ i = i2 /\ v = w)
        BY <2>4
      <3>2. v = w <=> n = n0 /\ l = l0
        BY <2>2, <2>6
      <3>3. QED
        BY <3>1, <3>2
    <2>7. QED
      BY <2>5, <2>6
  <1>4. \A v : Slot(lockReqQ, n0, 1, v) => v = l0
    BY DEF At, Slot
  <1>5. ASSUME NEW k \in Kind, NEW m \in Node, NEW i \in Nat, NEW n \in Node, NEW l \in Locks
        PROVE  At(k, m, i, n, l)' <=>
                 \/ k = "reqLink" /\ m = n0 /\ i = i2 /\ n = n0 /\ l = l0
                 \/ Left("lockReqQ", n0, n0, l0, k, m, i, n, l)
    <2> HIDE DEF i2
    <2>1. CASE k = "lockReqQ"
      BY <2>1, <1>2 DEF At, From, Left
    <2>2. CASE k = "reqLink"
      BY <2>2, <1>3 DEF At, From, Left
    <2>3. CASE k \notin {"lockReqQ", "reqLink"}
      BY <2>3 DEF At, From, Left, Slot
    <2>4. QED
      BY <2>1, <2>2, <2>3
  <1>6. i2 \in Nat /\ "lockReqQ" \in Kind /\ "reqLink" \in Kind
    BY <1>1 DEF Kind
  <1>7. \A n \in Node, l \in Locks :
          /\ At("lockReqQ", n0, 1, n, l) => n = n0 /\ l = l0
          /\ Waits(n, l)' <=> Waits(n, l)
    BY <1>4 DEF At, Waits
  <1>8. RequestInv /\ TypeOK
    BY DEF RInv, IInv
  <1> HIDE DEF i2
  <1>9. Moves("lockReqQ", n0, "reqLink", n0, i2, n0, l0)
    BY <1>5, <1>7 DEF Moves
  <1>10. QED
    BY <1>6, <1>8, <1>9, Moved

(* The comment in acquireLock: a request it handles is never for a lock in *)
(* use at its own node, because its client would hold that lock or have    *)
(* its answer.                                                             *)
LEMMA RequestNotInUse ==
  ASSUME RInv, NEW n \in Node, lockReqQ[n] # << >>
  PROVE  /\ Head(lockReqQ[n]) \in Locks
         /\ At("lockReqQ", n, 1, n, Head(lockReqQ[n]))
         /\ lockMem[n][Head(lockReqQ[n])].state # "OWN_IN_USE"
  <1>1. PICK l \in Locks : l = Head(lockReqQ[n])
    BY DeqType DEF RInv, IInv, TypeOK
  <1>2. lockReqQ[n] \in Seq(Locks) /\ lockRespQ[n] \in Seq(Locks)
    BY DEF RInv, IInv, TypeOK
  <1>3. At("lockReqQ", n, 1, n, l)
    BY <1>1, <1>2 DEF At, Slot
  <1>4. Waits(n, l)
    BY <1>3 DEF RInv, RequestInv, Kind
  <1>5. \A i \in Nat : ~At("lockRespQ", n, i, n, l)
    <2>1. "lockReqQ" \in Kind /\ "lockRespQ" \in Kind /\ "lockReqQ" # "lockRespQ" /\ 1 \in Nat
      BY DEF Kind
    <2>2. QED
      BY <1>3, <2>1 DEF RInv, RequestInv
  <1>6. ~Granted(n, l)
    BY <1>2, <1>4, <1>5 DEF Granted, Waits, At, Slot
  <1>7. lockMem[n][l].state # "OWN_IN_USE"
    BY <1>6 DEF RInv, IInv, InUseIffGranted
  <1>8. QED
    BY <1>1, <1>3, <1>7

LEMMA RequestAcquire ==
  ASSUME RInv, NEW n \in Node, AcquireLock(n)
  PROVE  RequestInv'
  <1> DEFINE l == Head(lockReqQ[n])
  <1>1. /\ lockReqQ[n] # << >> /\ lockReqQ' = [lockReqQ EXCEPT ![n] = Tail(@)]
        /\ UNCHANGED <<respToNetworkQ, chan, client>>
    BY DEF AcquireLock
  <1>2. l \in Locks /\ At("lockReqQ", n, 1, n, l) /\ lockMem[n][l].state # "OWN_IN_USE"
    BY <1>1, RequestNotInUse
  <1>3. \/ /\ lockRespQ' = [lockRespQ EXCEPT ![n] = Append(@, l)]
           /\ SetState(n, l, "OWN_IN_USE") /\ UNCHANGED reqLink
        \/ /\ reqLink' = [reqLink EXCEPT ![n] = Append(@, [requester |-> n, lockId |-> l])]
           /\ UNCHANGED <<lockRespQ, lockMem>>
    BY <1>2 DEF AcquireLock
  <1> HIDE DEF l
  <1>4. QED
    BY <1>1, <1>2, <1>3, RequestGranted, RequestSent

(* recvLockResp: off the response ring and to the client. *)
LEMMA RequestReceived ==
  ASSUME RInv, NEW s \in Node, NEW n0 \in Node, RecvLockResp(s, n0)
  PROVE  RequestInv'
  <1> DEFINE q  == <<s, n0>>
             i2 == Len(lockRespQ[n0]) + 1
  <1>1. /\ q \in Pairs /\ chan[q] # << >> /\ chan' = [chan EXCEPT ![q] = Tail(@)]
        /\ UNCHANGED <<lockReqQ, reqLink, respToNetworkQ, client>>
        /\ chan \in [Pairs -> Seq(Locks)] /\ lockRespQ \in [Node -> Seq(Locks)]
    BY PairsFact DEF RecvLockResp, Ring!Deq, Ring!CanDeq, RInv, IInv, TypeOK, Ring!TypeOK
  <1>2. PICK l0 \in Locks : l0 = Head(chan[q])
    BY <1>1, DeqType
  <1>3. lockRespQ' = [lockRespQ EXCEPT ![n0] = Append(@, l0)] /\ SetState(n0, l0, "OWN_IN_USE")
    BY <1>2 DEF RecvLockResp, Ring!First
  <1>4. \A v : Slot(chan, q, 1, v) <=> v = l0
    BY <1>1, <1>2 DEF Slot
  <1>5. \A x \in Pairs, i \in Nat, v \in Locks :
          Slot(chan', x, i, v) <=>
            \/ x # q /\ Slot(chan, x, i, v)
            \/ x = q /\ i > 0 /\ Slot(chan, x, i + 1, v)
    BY <1>1, SlotDeq
  <1>6. \A x \in Node, i \in Nat, v \in Locks :
          Slot(lockRespQ', x, i, v) <=>
            Slot(lockRespQ, x, i, v) \/ (x = n0 /\ i = i2 /\ v = l0)
    BY <1>1, <1>3 DEF Slot
  <1>7. \A m \in Node, l \in Locks : lockMem'[m][l].fwdId = lockMem[m][l].fwdId
    <2>1. lockMem[n0][l0].fwdId \in Node \cup {NoFwd} /\ TypeOK /\ "OWN_IN_USE" \in LockState
      BY EntryType DEF LockState, RInv, IInv
    <2>2. SetEntry(n0, l0, "OWN_IN_USE", lockMem[n0][l0].fwdId)
      BY <1>3 DEF SetState
    <2>3. QED
      BY <2>1, <2>2, SetEntryRead
  <1>8. ASSUME NEW k \in Kind, NEW m \in Node, NEW i \in Nat, NEW n \in Node, NEW l \in Locks
        PROVE  At(k, m, i, n, l)' <=>
                 \/ k = "lockRespQ" /\ m = n0 /\ i = i2 /\ n = n0 /\ l = l0
                 \/ Left("chan", s, n0, l0, k, m, i, n, l)
    <2> HIDE DEF i2
    <2>1. CASE k = "chan"
      <3>1. <<m, n>> \in Pairs /\ (<<m, n>> = q <=> m = s /\ n = n0)
        BY PairsFact
      <3> HIDE DEF q
      <3>2. Slot(chan', <<m, n>>, i, l) <=>
              \/ ~(m = s /\ n = n0) /\ Slot(chan, <<m, n>>, i, l)
              \/ m = s /\ n = n0 /\ i > 0 /\ Slot(chan, <<m, n>>, i + 1, l)
        BY <3>1, <1>5
      <3>3. QED
        BY <2>1, <3>2 DEF At, From, Left
    <2>2. CASE k = "lockRespQ"
      BY <2>2, <1>6 DEF At, From, Left
    <2>3. CASE k \notin {"chan", "lockRespQ"}
      BY <2>3, <1>1, <1>7 DEF At, From, Left, Slot
    <2>4. QED
      BY <2>1, <2>2, <2>3
  <1>9. i2 \in Nat /\ "chan" \in Kind /\ "lockRespQ" \in Kind /\ RequestInv /\ TypeOK
    BY <1>1 DEF Kind, RInv, IInv
  <1>10. \A n \in Node, l \in Locks :
           /\ At("chan", s, 1, n, l) /\ n = n0 => n = n0 /\ l = l0
           /\ Waits(n, l)' <=> Waits(n, l)
    BY <1>1, <1>4 DEF At, Waits
  <1>11. At("chan", s, 1, n0, l0)
    BY <1>4 DEF At
  <1> HIDE DEF i2
  <1>12. Moves("chan", s, "lockRespQ", n0, i2, n0, l0)
    BY <1>8, <1>10, <1>11 DEF Moves, From
  <1>13. QED
    BY <1>9, <1>12, Moved

(* sendRespToNetwork: out of respToNetworkQ and onto the response ring. *)
LEMMA RequestDeparts ==
  ASSUME RInv, NEW s \in Node, SendRespToNetwork(s)
  PROVE  RequestInv'
  <1>1. /\ respToNetworkQ \in [Node -> Seq(Node \X Locks)] /\ respToNetworkQ[s] # << >>
        /\ chan \in [Pairs -> Seq(Locks)]
        /\ respToNetworkQ' = [respToNetworkQ EXCEPT ![s] = Tail(@)]
        /\ UNCHANGED <<lockMem, lockReqQ, lockRespQ, reqLink, client>>
    BY DEF SendRespToNetwork, RInv, IInv, TypeOK, Ring!TypeOK
  <1>2. PICK r \in Node \X Locks : r = Head(respToNetworkQ[s])
    BY <1>1, DeqType
  <1> DEFINE n0 == r[1]
             l0 == r[2]
  <1> DEFINE q  == <<s, n0>>
             i2 == Len(chan[q]) + 1
  <1>3. n0 \in Node /\ l0 \in Locks /\ q \in Pairs /\ chan' = [chan EXCEPT ![q] = Append(@, l0)]
    BY <1>2, PairsFact DEF SendRespToNetwork, Ring!Enq
  <1>4. \A n \in Node, l \in Locks : Slot(respToNetworkQ, s, 1, <<n, l>>) <=> n = n0 /\ l = l0
    BY <1>1, <1>2 DEF Slot
  <1> HIDE DEF n0, l0
  <1>5. \A x \in Node, i \in Nat, v \in Node \X Locks :
          Slot(respToNetworkQ', x, i, v) <=>
            \/ x # s /\ Slot(respToNetworkQ, x, i, v)
            \/ x = s /\ i > 0 /\ Slot(respToNetworkQ, x, i + 1, v)
    <2>1. /\ respToNetworkQ \in [Node -> Seq(Node \X Locks)] /\ respToNetworkQ[s] # << >>
          /\ respToNetworkQ' = [respToNetworkQ EXCEPT ![s] = Tail(@)]
      BY <1>1
    <2>2. QED
      BY <2>1, SlotDeq, ZenonT(30)
  <1>6. \A x \in Pairs, i \in Nat, v \in Locks :
          Slot(chan', x, i, v) <=> Slot(chan, x, i, v) \/ (x = q /\ i = i2 /\ v = l0)
    <2> HIDE DEF q
    <2>1. QED
      BY <1>1, <1>3 DEF Slot
  <1>7. ASSUME NEW k \in Kind, NEW m \in Node, NEW i \in Nat, NEW n \in Node, NEW l \in Locks
        PROVE  At(k, m, i, n, l)' <=>
                 \/ k = "chan" /\ m = s /\ i = i2 /\ n = n0 /\ l = l0
                 \/ Left("respToNetworkQ", s, n0, l0, k, m, i, n, l)
    <2> HIDE DEF i2
    <2>1. CASE k = "chan"
      <3>1. <<m, n>> \in Pairs /\ (<<m, n>> = q <=> m = s /\ n = n0)
        BY PairsFact
      <3> HIDE DEF q
      <3>2. Slot(chan', <<m, n>>, i, l) <=>
              Slot(chan, <<m, n>>, i, l) \/ (m = s /\ n = n0 /\ i = i2 /\ l = l0)
        BY <3>1, <1>6
      <3>3. QED
        BY <2>1, <3>2 DEF At, From, Left
    <2>2. CASE k = "respToNetworkQ"
      BY <2>2, <1>5 DEF At, From, Left
    <2>3. CASE k \notin {"chan", "respToNetworkQ"}
      BY <2>3, <1>1 DEF At, From, Left, Slot
    <2>4. QED
      BY <2>1, <2>2, <2>3
  <1>8. /\ i2 \in Nat /\ "chan" \in Kind /\ "respToNetworkQ" \in Kind
        /\ RequestInv /\ TypeOK /\ n0 \in Node /\ l0 \in Locks
    BY <1>1, <1>3 DEF Kind, RInv, IInv
  <1>9. \A n \in Node, l \in Locks :
           /\ At("respToNetworkQ", s, 1, n, l) <=> n = n0 /\ l = l0
           /\ Waits(n, l)' <=> Waits(n, l)
    BY <1>1, <1>4 DEF At, Waits
  <1> HIDE DEF i2
  <1>10. Moves("respToNetworkQ", s, "chan", s, i2, n0, l0)
    BY <1>7, <1>8, <1>9 DEF Moves
  <1>11. QED
    BY <1>8, <1>10, Moved

(* returnLock: the request on record is answered with the lock. *)
LEMMA RequestReturned ==
  ASSUME RInv, NEW s \in Node, NEW l0 \in Locks, ReturnLock(s, l0)
  PROVE  RequestInv'
  <1>1. /\ respToNetworkQ \in [Node -> Seq(Node \X Locks)] /\ RequestInv /\ TypeOK
        /\ UNCHANGED <<lockReqQ, lockRespQ, reqLink, chan>>
        /\ client \in [Node -> [Locks -> Status]] /\ client[s][l0] = "hold"
        /\ client' = [client EXCEPT ![s][l0] = "idle"]
    BY DEF ReturnLock, RInv, IInv, TypeOK, Status
  <1>2. \A n \in Node, l \in Locks : Waits(n, l)' <=> Waits(n, l)
    <2>1. \A n \in Node, l \in Locks :
            client'[n][l] = IF n = s /\ l = l0 THEN "idle" ELSE client[n][l]
      BY <1>1, WriteRead DEF Status
    <2>2. QED
      BY <1>1, <2>1 DEF Waits
  <1>3. CASE lockMem[s][l0].fwdId = NoFwd
    <2>1. SetEntry(s, l0, "OWN_IDLE", lockMem[s][l0].fwdId) /\ UNCHANGED respToNetworkQ
      BY <1>3 DEF ReturnLock, SetState
    <2>2. lockMem[s][l0].fwdId \in Node \cup {NoFwd} /\ "OWN_IDLE" \in LockState
      BY <1>1, EntryType DEF LockState
    <2>3. \A m \in Node, l \in Locks : lockMem'[m][l].fwdId = lockMem[m][l].fwdId
      BY <1>1, <2>1, <2>2, SetEntryRead
    <2>4. QED
      BY <1>1, <1>2, <2>1, <2>3, RequestStays
  <1>4. CASE lockMem[s][l0].fwdId # NoFwd
    <2>1. PICK n0 \in Node : n0 = lockMem[s][l0].fwdId
      BY <1>1, <1>4, EntryType
    <2>2. /\ respToNetworkQ' = [respToNetworkQ EXCEPT ![s] = Append(@, <<n0, l0>>)]
          /\ SetEntry(s, l0, "NOT_OWN", NoFwd)
      BY <1>4, <2>1 DEF ReturnLock
    <2>3. PICK i2 \in Nat : RespEnters(s, i2, n0, l0)
      BY <1>1, <2>2, RespEnq
    <2>4. \A m \in Node, l \in Locks :
            lockMem'[m][l].fwdId = IF m = s /\ l = l0 THEN NoFwd ELSE lockMem[m][l].fwdId
      <3>1. "NOT_OWN" \in LockState /\ NoFwd \in Node \cup {NoFwd}
        BY DEF LockState
      <3>2. QED
        BY <1>1, <2>2, <3>1, SetEntryRead
    <2>5. NoFwd \notin Node
      BY NAssumption DEF NoFwd, Node
    <2>6. ASSUME NEW k \in Kind, NEW m \in Node, NEW i \in Nat, NEW n \in Node, NEW l \in Locks
          PROVE  At(k, m, i, n, l)' <=>
                   \/ k = "respToNetworkQ" /\ m = s /\ i = i2 /\ n = n0 /\ l = l0
                   \/ Left("fwdId", s, n0, l0, k, m, i, n, l)
      <3>1. CASE k = "fwdId"
        BY <3>1, <2>4, <2>5 DEF At, From, Left
      <3>2. CASE k = "respToNetworkQ"
        BY <3>2, <2>3 DEF At, From, Left, RespEnters
      <3>3. CASE k \notin {"fwdId", "respToNetworkQ"}
        BY <3>3, <1>1 DEF At, From, Left, Slot
      <3>4. QED
        BY <3>1, <3>2, <3>3
    <2>7. i2 \in Nat /\ "fwdId" \in Kind /\ "respToNetworkQ" \in Kind
      BY <1>1 DEF Kind
    <2>8. \A n \in Node, l \in Locks :
            /\ At("fwdId", s, 1, n, l) /\ l = l0 => n = n0
            /\ n = n0 /\ l = l0 => At("fwdId", s, 1, n, l)
      BY <2>1 DEF At
    <2>9. Moves("fwdId", s, "respToNetworkQ", s, i2, n0, l0)
      BY <1>2, <2>6, <2>8 DEF Moves, From
    <2>10. QED
      BY <1>1, <2>7, <2>9, Moved
  <1>5. QED
    BY <1>3, <1>4

(* What snoopLockReq does to the request chain when it takes a request off. *)
LEMMA RequestTaken ==
  ASSUME RInv, NEW p \in Node, reqLink[p] # << >>, reqLink' = [reqLink EXCEPT ![p] = Tail(@)],
         NEW m \in Node, NEW i \in Nat, NEW n \in Node, NEW l \in Locks
  PROVE  At("reqLink", m, i, n, l)' <=>
           \/ m # p /\ At("reqLink", m, i, n, l)
           \/ m = p /\ i > 0 /\ At("reqLink", m, i + 1, n, l)
  <1>1. reqLink \in [Node -> Seq(Request)]
    BY DEF RInv, IInv, TypeOK
  <1>2. \A v : Slot(reqLink', m, i, v) <=>
          \/ m # p /\ Slot(reqLink, m, i, v)
          \/ m = p /\ i > 0 /\ Slot(reqLink, m, i + 1, v)
    BY <1>1, SlotDeq
  <1>3. QED
    BY <1>2 DEF At

(* The first request on a link, and what its fields say. *)
LEMMA RequestSeen ==
  ASSUME RInv, NEW p \in Node, reqLink[p] # << >>
  PROVE  \E n0 \in Node, l0 \in Locks :
           /\ Head(reqLink[p]) = [requester |-> n0, lockId |-> l0]
           /\ \A n \in Node, l \in Locks : At("reqLink", p, 1, n, l) <=> n = n0 /\ l = l0
  <1>1. reqLink[p] \in Seq(Request)
    BY DEF RInv, IInv, TypeOK
  <1>2. PICK r \in Request : r = Head(reqLink[p])
    BY <1>1, DeqType
  <1>3. PICK n0 \in Node, l0 \in Locks : r = [requester |-> n0, lockId |-> l0]
    BY DEF Request
  <1>4. \A v : Slot(reqLink, p, 1, v) <=> v = r
    BY <1>1, <1>2 DEF Slot
  <1>5. \A n \in Node, l \in Locks : [requester |-> n, lockId |-> l] = r <=> n = n0 /\ l = l0
    BY <1>3
  <1>6. \A n \in Node, l \in Locks : At("reqLink", p, 1, n, l) <=> n = n0 /\ l = l0
    BY <1>4, <1>5 DEF At
  <1>7. QED
    BY <1>2, <1>3, <1>6

(* An idle lock is sent to the requester. *)
LEMMA SnoopAnswers ==
  ASSUME RInv, NEW s \in Node, NEW p \in Node, NEW n0 \in Node, NEW l0 \in Locks,
         reqLink[p] # << >>, reqLink' = [reqLink EXCEPT ![p] = Tail(@)],
         \A n \in Node, l \in Locks : At("reqLink", p, 1, n, l) <=> n = n0 /\ l = l0,
         respToNetworkQ' = [respToNetworkQ EXCEPT ![s] = Append(@, <<n0, l0>>)],
         SetState(s, l0, "NOT_OWN"), UNCHANGED <<lockReqQ, lockRespQ, chan, client>>
  PROVE  RequestInv'
  <1>1. TypeOK /\ RequestInv /\ "reqLink" \in Kind /\ "respToNetworkQ" \in Kind
    BY DEF RInv, IInv, Kind
  <1>2. PICK i2 \in Nat : RespEnters(s, i2, n0, l0)
    BY <1>1, RespEnq
  <1>3. \A m \in Node, l \in Locks : lockMem'[m][l].fwdId = lockMem[m][l].fwdId
    <2>1. lockMem[s][l0].fwdId \in Node \cup {NoFwd} /\ "NOT_OWN" \in LockState
      BY <1>1, EntryType DEF LockState
    <2>2. SetEntry(s, l0, "NOT_OWN", lockMem[s][l0].fwdId)
      BY DEF SetState
    <2>3. QED
      BY <1>1, <2>1, <2>2, SetEntryRead
  <1>4. ASSUME NEW k \in Kind, NEW m \in Node, NEW i \in Nat, NEW n \in Node, NEW l \in Locks
        PROVE  At(k, m, i, n, l)' <=>
                 \/ k = "respToNetworkQ" /\ m = s /\ i = i2 /\ n = n0 /\ l = l0
                 \/ Left("reqLink", p, n0, l0, k, m, i, n, l)
    <2>1. CASE k = "reqLink"
      BY <2>1, RequestTaken DEF From, Left
    <2>2. CASE k = "respToNetworkQ"
      <3>1. At(k, m, i, n, l) <=> Slot(respToNetworkQ, m, i, <<n, l>>)
        BY <2>2 DEF At
      <3>2. At(k, m, i, n, l)' <=> Slot(respToNetworkQ', m, i, <<n, l>>)
        BY <2>2 DEF At
      <3>3. Left("reqLink", p, n0, l0, k, m, i, n, l) <=> At(k, m, i, n, l)
        BY <2>2 DEF From, Left
      <3>4. QED
        BY <2>2, <1>2, <3>1, <3>2, <3>3 DEF RespEnters
    <2>3. CASE k \notin {"reqLink", "respToNetworkQ"}
      BY <2>3, <1>3 DEF At, From, Left, Slot
    <2>4. QED
      BY <2>1, <2>2, <2>3
  <1>5. \A n \in Node, l \in Locks : Waits(n, l)' <=> Waits(n, l)
    BY DEF Waits
  <1>6. Moves("reqLink", p, "respToNetworkQ", s, i2, n0, l0)
    BY <1>4, <1>5 DEF Moves
  <1>7. QED
    BY <1>1, <1>6, Moved

(* The first requester of a lock in use is put on record. *)
LEMMA SnoopRecords ==
  ASSUME RInv, NEW s \in Node, NEW p \in Node, NEW n0 \in Node, NEW l0 \in Locks,
         reqLink[p] # << >>, reqLink' = [reqLink EXCEPT ![p] = Tail(@)],
         \A n \in Node, l \in Locks : At("reqLink", p, 1, n, l) <=> n = n0 /\ l = l0,
         lockMem[s][l0].fwdId = NoFwd, SetEntry(s, l0, lockMem[s][l0].state, n0),
         UNCHANGED <<lockReqQ, lockRespQ, respToNetworkQ, chan, client>>
  PROVE  RequestInv'
  <1>1. TypeOK /\ RequestInv /\ "reqLink" \in Kind /\ "fwdId" \in Kind /\ NoFwd \notin Node
    BY NAssumption DEF RInv, IInv, Kind, NoFwd, Node
  <1>2. \A m \in Node, l \in Locks :
          lockMem'[m][l].fwdId = IF m = s /\ l = l0 THEN n0 ELSE lockMem[m][l].fwdId
    <2>1. lockMem[s][l0].state \in LockState /\ n0 \in Node \cup {NoFwd}
      BY <1>1, EntryType
    <2>2. QED
      BY <1>1, <2>1, SetEntryRead
  <1>3. ASSUME NEW k \in Kind, NEW m \in Node, NEW i \in Nat, NEW n \in Node, NEW l \in Locks
        PROVE  At(k, m, i, n, l)' <=>
                 \/ k = "fwdId" /\ m = s /\ i = 1 /\ n = n0 /\ l = l0
                 \/ Left("reqLink", p, n0, l0, k, m, i, n, l)
    <2>1. CASE k = "reqLink"
      BY <2>1, RequestTaken DEF From, Left
    <2>2. CASE k = "fwdId"
      <3>1. At(k, m, i, n, l) <=> i = 1 /\ lockMem[m][l].fwdId = n
        BY <2>2 DEF At
      <3>2. At(k, m, i, n, l)' <=> i = 1 /\ lockMem'[m][l].fwdId = n
        BY <2>2 DEF At
      <3>3. Left("reqLink", p, n0, l0, k, m, i, n, l) <=> At(k, m, i, n, l)
        BY <2>2 DEF From, Left
      <3>4. QED
        BY <2>2, <1>1, <1>2, <3>1, <3>2, <3>3
    <2>3. CASE k \notin {"reqLink", "fwdId"}
      BY <2>3 DEF At, From, Left, Slot
    <2>4. QED
      BY <2>1, <2>2, <2>3
  <1>4. \A n \in Node, l \in Locks : Waits(n, l)' <=> Waits(n, l)
    BY DEF Waits
  <1>5. Moves("reqLink", p, "fwdId", s, 1, n0, l0)
    BY <1>3, <1>4 DEF Moves
  <1>6. QED
    BY <1>1, <1>5, Moved

(* R is the table of links Q with the request w in slot k of link s. *)
LinkEnters(Q, R, s, k, w) ==
  \A x \in Node, i \in Nat, v \in Request :
    Slot(R, x, i, v) <=> Slot(Q, x, i, v) \/ (x = s /\ i = k /\ v = w)

LEMMA LinkEnq ==
  ASSUME NEW Q \in [Node -> Seq(Request)], NEW s \in Node, NEW w \in Request,
         NEW R, R = [Q EXCEPT ![s] = Append(@, w)]
  PROVE  \E k \in Nat : LinkEnters(Q, R, s, k, w)
  <1> DEFINE k == Len(Q[s]) + 1
  <1>1. k \in Nat
    OBVIOUS
  <1>2. \A x \in Node, i \in Nat, v \in Request :
          Slot(R, x, i, v) <=> Slot(Q, x, i, v) \/ (x = s /\ i = Len(Q[s]) + 1 /\ v = w)
    BY DEF Slot
  <1>3. LinkEnters(Q, R, s, k, w)
    BY <1>2 DEF LinkEnters
  <1>4. QED
    BY <1>1, <1>3

(* R is the table of links Q once the first request of link p is off. *)
LinkLeaves(Q, R, p) ==
  \A v : \A x \in Node, i \in Nat : Slot(R, x, i, v) <=>
    \/ x # p /\ Slot(Q, x, i, v)
    \/ x = p /\ i > 0 /\ Slot(Q, x, i + 1, v)

LEMMA LinkDeq ==
  ASSUME NEW Q \in [Node -> Seq(Request)], NEW p \in Node, Q[p] # << >>
  PROVE  LinkLeaves(Q, [Q EXCEPT ![p] = Tail(@)], p)
  BY SlotDeq DEF LinkLeaves

(* A request nobody here can serve goes to the end of the next link, which *)
(* is the same queue in a group of one node.                               *)
LEMMA SnoopForwards ==
  ASSUME RInv, NEW s \in Node, NEW n0 \in Node, NEW l0 \in Locks,
         reqLink[Prev(s)] # << >>, ForwardRequest(s),
         Head(reqLink[Prev(s)]) = [requester |-> n0, lockId |-> l0],
         \A n \in Node, l \in Locks : At("reqLink", Prev(s), 1, n, l) <=> n = n0 /\ l = l0,
         UNCHANGED <<lockMem, lockReqQ, lockRespQ, respToNetworkQ, chan, client>>
  PROVE  RequestInv'
  <1>1. TypeOK /\ RequestInv /\ "reqLink" \in Kind
    BY DEF RInv, IInv, Kind
  <1>2. PICK p \in Node : p = Prev(s)
    BY PrevType
  <1> DEFINE taken == [reqLink EXCEPT ![p] = Tail(@)]
             w     == [requester |-> n0, lockId |-> l0]
  <1>3. reqLink \in [Node -> Seq(Request)] /\ w \in Request
    BY <1>1 DEF TypeOK, Request
  <1>4. taken \in [Node -> Seq(Request)]
    BY <1>2, <1>3, DeqType
  <1>5. LinkLeaves(reqLink, taken, p)
    BY <1>2, <1>3, LinkDeq
  <1>6. reqLink' = [taken EXCEPT ![s] = Append(@, w)]
    BY <1>2 DEF ForwardRequest
  <1>7. \A n \in Node, l \in Locks :
          /\ [requester |-> n, lockId |-> l] \in Request
          /\ [requester |-> n, lockId |-> l] = w <=> n = n0 /\ l = l0
    BY DEF Request
  <1> HIDE DEF taken, w
  <1>8. PICK i2 \in Nat : LinkEnters(taken, reqLink', s, i2, w)
    BY <1>3, <1>4, <1>6, LinkEnq
  <1>9. ASSUME NEW m \in Node, NEW i \in Nat, NEW n \in Node, NEW l \in Locks
        PROVE  At("reqLink", m, i, n, l)' <=>
                 \/ m = s /\ i = i2 /\ n = n0 /\ l = l0
                 \/ m # p /\ At("reqLink", m, i, n, l)
                 \/ m = p /\ i > 0 /\ At("reqLink", m, i + 1, n, l)
    <2> DEFINE v == [requester |-> n, lockId |-> l]
    <2>1. At("reqLink", m, i, n, l) <=> Slot(reqLink, m, i, v)
      BY DEF At
    <2>2. At("reqLink", m, i + 1, n, l) <=> Slot(reqLink, m, i + 1, v)
      BY DEF At
    <2>3. At("reqLink", m, i, n, l)' <=> Slot(reqLink', m, i, v)
      BY DEF At
    <2>4. v \in Request /\ (v = w <=> n = n0 /\ l = l0)
      BY <1>7
    <2> HIDE DEF v
    <2>5. Slot(reqLink', m, i, v) <=> Slot(taken, m, i, v) \/ (m = s /\ i = i2 /\ v = w)
      BY <1>8, <2>4 DEF LinkEnters
    <2>6. QED
      BY <1>5, <2>1, <2>2, <2>3, <2>4, <2>5 DEF LinkLeaves
  <1>10. ASSUME NEW k \in Kind, NEW m \in Node, NEW i \in Nat, NEW n \in Node, NEW l \in Locks
        PROVE  At(k, m, i, n, l)' <=>
                 \/ k = "reqLink" /\ m = s /\ i = i2 /\ n = n0 /\ l = l0
                 \/ Left("reqLink", p, n0, l0, k, m, i, n, l)
    <2>1. CASE k = "reqLink"
      BY <2>1, <1>9 DEF From, Left
    <2>2. CASE k # "reqLink"
      BY <2>2 DEF At, From, Left, Slot
    <2>3. QED
      BY <2>1, <2>2
  <1>11. \A n \in Node, l \in Locks :
           /\ At("reqLink", p, 1, n, l) <=> n = n0 /\ l = l0
           /\ Waits(n, l)' <=> Waits(n, l)
    BY <1>2 DEF Waits
  <1>12. Moves("reqLink", p, "reqLink", s, i2, n0, l0)
    BY <1>10, <1>11 DEF Moves
  <1>13. QED
    BY <1>1, <1>12, Moved

LEMMA RequestSnooped ==
  ASSUME RInv, NEW s \in Node, SnoopLockReq(s)
  PROVE  RequestInv'
  <1> DEFINE p == Prev(s)
  <1>1. p \in Node /\ reqLink[p] # << >>
    BY PrevType DEF SnoopLockReq, RecvNotEmpty
  <1>2. PICK n0 \in Node, l0 \in Locks :
          /\ Head(reqLink[p]) = [requester |-> n0, lockId |-> l0]
          /\ \A n \in Node, l \in Locks : At("reqLink", p, 1, n, l) <=> n = n0 /\ l = l0
    BY <1>1, RequestSeen
  <1>3. UNCHANGED <<lockReqQ, lockRespQ, chan, client>>
    BY DEF SnoopLockReq
  <1>4. Head(reqLink[p]).requester = n0 /\ Head(reqLink[p]).lockId = l0
    BY <1>2
  <1>5. \/ /\ respToNetworkQ' = [respToNetworkQ EXCEPT ![s] = Append(@, <<n0, l0>>)]
           /\ SetState(s, l0, "NOT_OWN") /\ TakeRequest(s)
        \/ /\ lockMem[s][l0].fwdId = NoFwd /\ SetEntry(s, l0, lockMem[s][l0].state, n0)
           /\ TakeRequest(s) /\ UNCHANGED respToNetworkQ
        \/ /\ ForwardRequest(s) /\ UNCHANGED <<lockMem, respToNetworkQ>>
    BY <1>4 DEF SnoopLockReq
  <1>6. TakeRequest(s) => reqLink' = [reqLink EXCEPT ![p] = Tail(@)]
    BY DEF TakeRequest
  <1>7. CASE ForwardRequest(s) /\ UNCHANGED <<lockMem, respToNetworkQ>>
    BY <1>1, <1>2, <1>3, <1>7, SnoopForwards
  <1> HIDE DEF p
  <1>8. CASE /\ respToNetworkQ' = [respToNetworkQ EXCEPT ![s] = Append(@, <<n0, l0>>)]
             /\ SetState(s, l0, "NOT_OWN") /\ TakeRequest(s)
    <2>1. reqLink' = [reqLink EXCEPT ![p] = Tail(@)]
      BY <1>6, <1>8
    <2>2. \A n \in Node, l \in Locks : At("reqLink", p, 1, n, l) <=> n = n0 /\ l = l0
      BY <1>2
    <2>3. /\ respToNetworkQ' = [respToNetworkQ EXCEPT ![s] = Append(@, <<n0, l0>>)]
          /\ SetState(s, l0, "NOT_OWN")
          /\ UNCHANGED <<lockReqQ, lockRespQ, chan, client>>
      BY <1>3, <1>8
    <2>4. QED
      BY <1>1, <2>1, <2>2, <2>3, SnoopAnswers, ZenonT(30)
  <1>9. CASE /\ lockMem[s][l0].fwdId = NoFwd /\ SetEntry(s, l0, lockMem[s][l0].state, n0)
             /\ TakeRequest(s) /\ UNCHANGED respToNetworkQ
    BY <1>1, <1>2, <1>3, <1>6, <1>9, SnoopRecords
  <1>10. QED
    BY <1>5, <1>7, <1>8, <1>9
-----------------------------------------------------------------------------
(* A client that is not waiting has no request anywhere, and asks for one. *)
LEMMA RequestAsked ==
  ASSUME RInv, NEW n0 \in Node, NEW l0 \in Locks, ClientAcquire(n0, l0)
  PROVE  RequestInv'
  <1> DEFINE i0 == Len(lockReqQ[n0]) + 1
  <1>1. /\ lockReqQ \in [Node -> Seq(Locks)] /\ client \in [Node -> [Locks -> Status]]
        /\ RequestInv /\ "lockReqQ" \in Kind /\ client[n0][l0] = "idle"
        /\ client' = [client EXCEPT ![n0][l0] = "wait"]
        /\ lockReqQ' = [lockReqQ EXCEPT ![n0] = Append(@, l0)]
        /\ UNCHANGED <<lockMem, lockRespQ, reqLink, respToNetworkQ, chan>>
    BY DEF ClientAcquire, RInv, IInv, TypeOK, Status, Kind
  <1>2. i0 \in Nat
    BY <1>1
  <1>3. \A x \in Node, i \in Nat, v \in Locks :
          Slot(lockReqQ', x, i, v) <=>
            Slot(lockReqQ, x, i, v) \/ (x = n0 /\ i = i0 /\ v = l0)
    BY <1>1 DEF Slot
  <1> HIDE DEF i0
  <1>4. ASSUME NEW k \in Kind, NEW m \in Node, NEW i \in Nat, NEW n \in Node, NEW l \in Locks
        PROVE  At(k, m, i, n, l)' <=>
                 At(k, m, i, n, l) \/ (k = "lockReqQ" /\ m = n0 /\ i = i0 /\ n = n0 /\ l = l0)
    <2>1. CASE k = "lockReqQ"
      BY <2>1, <1>3 DEF At
    <2>2. CASE k # "lockReqQ"
      BY <2>2, <1>1 DEF At, Slot
    <2>3. QED
      BY <2>1, <2>2
  <1>5. \A n \in Node, l \in Locks : Waits(n, l)' <=> Waits(n, l) \/ (n = n0 /\ l = l0)
    <2>1. \A n \in Node, l \in Locks :
            client'[n][l] = IF n = n0 /\ l = l0 THEN "wait" ELSE client[n][l]
      BY <1>1, WriteRead DEF Status
    <2>2. QED
      BY <1>1, <2>1 DEF Waits
  <1>6. \A k \in Kind, m \in Node, i \in Nat : ~At(k, m, i, n0, l0)
    BY <1>1 DEF RequestInv, Waits
  <1>7. ASSUME NEW n \in Node, NEW l \in Locks
        PROVE  /\ \A ka, kb \in Kind, ma, mb \in Node, ia, ib \in Nat :
                    At(ka, ma, ia, n, l)' /\ At(kb, mb, ib, n, l)'
                      => ka = kb /\ ma = mb /\ ia = ib
               /\ Waits(n, l)' <=> \E k \in Kind, m \in Node, i \in Nat : At(k, m, i, n, l)'
    <2>1. CASE n = n0 /\ l = l0
      <3>1. \A k \in Kind, m \in Node, i \in Nat :
              At(k, m, i, n, l)' <=> k = "lockReqQ" /\ m = n0 /\ i = i0
        BY <2>1, <1>4, <1>6
      <3>2. Waits(n, l)' /\ "lockReqQ" \in Kind
        BY <2>1, <1>1, <1>5
      <3>3. QED
        BY <3>1, <3>2, <1>2
    <2>2. CASE ~(n = n0 /\ l = l0)
      <3>1. \A k \in Kind, m \in Node, i \in Nat : At(k, m, i, n, l)' <=> At(k, m, i, n, l)
        BY <2>2, <1>4
      <3>2. Waits(n, l)' <=> Waits(n, l)
        BY <2>2, <1>5
      <3>3. /\ \A ka, kb \in Kind, ma, mb \in Node, ia, ib \in Nat :
                 At(ka, ma, ia, n, l) /\ At(kb, mb, ib, n, l) => ka = kb /\ ma = mb /\ ia = ib
            /\ Waits(n, l) <=> \E k \in Kind, m \in Node, i \in Nat : At(k, m, i, n, l)
        BY <1>1 DEF RequestInv
      <3>4. QED
        BY <3>1, <3>2, <3>3
    <2>3. QED
      BY <2>1, <2>2
  <1>8. QED
    BY <1>7 DEF RequestInv

(* The client takes the answer it waits for. *)
LEMMA RequestAnswered ==
  ASSUME RInv, NEW n0 \in Node, ClientTakeResp(n0)
  PROVE  RequestInv' /\ Waits(n0, Head(lockRespQ[n0]))
  <1>1. /\ lockRespQ \in [Node -> Seq(Locks)] /\ client \in [Node -> [Locks -> Status]]
        /\ RequestInv /\ TypeOK /\ "lockRespQ" \in Kind /\ lockRespQ[n0] # << >>
        /\ lockRespQ' = [lockRespQ EXCEPT ![n0] = Tail(@)]
        /\ UNCHANGED <<lockMem, lockReqQ, reqLink, respToNetworkQ, chan>>
    BY DEF ClientTakeResp, RInv, IInv, TypeOK, Status, Kind
  <1>2. PICK l0 \in Locks : l0 = Head(lockRespQ[n0])
    BY <1>1, DeqType
  <1>3. \A v : Slot(lockRespQ, n0, 1, v) <=> v = l0
    BY <1>1, <1>2 DEF Slot
  <1>4. At("lockRespQ", n0, 1, n0, l0)
    BY <1>3 DEF At
  <1>5. Waits(n0, l0)
    BY <1>1, <1>4 DEF RequestInv
  <1>6. \A x \in Node, i \in Nat, v \in Locks :
          Slot(lockRespQ', x, i, v) <=>
            \/ x # n0 /\ Slot(lockRespQ, x, i, v)
            \/ x = n0 /\ i > 0 /\ Slot(lockRespQ, x, i + 1, v)
    BY <1>1, SlotDeq
  <1>7. ASSUME NEW k \in Kind, NEW m \in Node, NEW i \in Nat, NEW n \in Node, NEW l \in Locks
        PROVE  At(k, m, i, n, l)' <=> Left("lockRespQ", n0, n0, l0, k, m, i, n, l)
    <2>1. CASE k = "lockRespQ"
      BY <2>1, <1>6 DEF At, From, Left
    <2>2. CASE k # "lockRespQ"
      BY <2>2, <1>1 DEF At, From, Left, Slot
    <2>3. QED
      BY <2>1, <2>2
  <1>8. \A n \in Node, l \in Locks : Waits(n, l)' <=> Waits(n, l) /\ ~(n = n0 /\ l = l0)
    <2>1. client' = [client EXCEPT ![n0][l0] = "hold"]
      BY <1>2 DEF ClientTakeResp
    <2>2. \A n \in Node, l \in Locks :
            client'[n][l] = IF n = n0 /\ l = l0 THEN "hold" ELSE client[n][l]
      BY <1>1, <2>1, WriteRead DEF Status
    <2>3. QED
      BY <2>2 DEF Waits
  <1>9. \A n \in Node, l \in Locks : At("lockRespQ", n0, 1, n, l) => n = n0 /\ l = l0
    BY <1>3 DEF At
  <1>10. RequestInv'
    <2>1. Takes(n0, l0)
      BY <1>4, <1>7, <1>8, <1>9 DEF Takes
    <2>2. QED
      BY <1>1, <2>1, Removed
  <1>11. QED
    BY <1>2, <1>5, <1>10
-----------------------------------------------------------------------------
LEMMA RInvInit == Init => RInv
  <1> SUFFICES ASSUME Init PROVE RInv
    OBVIOUS
  <1>1. \A k \in Kind, m \in Node, i \in Nat, n \in Node, l \in Locks : ~At(k, m, i, n, l)
    BY NAssumption, PairsFact DEF Init, Ring!Init, At, Slot, NoFwd, Node
  <1>2. \A n \in Node, l \in Locks : ~Waits(n, l)
    BY DEF Init, Waits
  <1>3. QED
    BY <1>1, <1>2, IInvInit DEF RInv, RequestInv

LEMMA RequestStep == RInv /\ [Next]_vars => RequestInv'
  <1> SUFFICES ASSUME RInv, [Next]_vars PROVE RequestInv'
    OBVIOUS
  <1>1. RequestInv
    BY DEF RInv
  <1>2. ASSUME NEW n \in Node, DoInit(n) PROVE RequestInv'
    BY <1>1, <1>2, RequestStays DEF DoInit, Waits
  <1>3. ASSUME NEW n \in Node, NEW l \in Locks, ReturnLock(n, l) PROVE RequestInv'
    BY <1>3, RequestReturned
  <1>4. ASSUME NEW n \in Node, NEW l \in Locks, ClientAcquire(n, l) PROVE RequestInv'
    BY <1>4, RequestAsked
  <1>5. CASE UNCHANGED vars
    BY <1>1, <1>5, RequestStays DEF vars, Waits
  <1>6. QED
    BY <1>2, <1>3, <1>4, <1>5, RequestAcquire, RequestReceived, RequestSnooped,
       RequestDeparts, RequestAnswered DEF Next

(* The strengthening: every request of every lock group is in one place. *)
THEOREM LockRequestInvariant == Spec => []RInv
<1>1. RInv /\ [Next]_vars => RInv'
  BY IInvStep, RequestStep DEF RInv
<1>2. QED
  BY <1>1, RInvInit, PTL DEF Spec
-----------------------------------------------------------------------------
(* The places of a request, counted. *)
LEMMA OnePlace ==
  ASSUME RInv, NEW n \in Node, NEW l \in Locks
  PROVE  Cardinality(Places(n, l)) = IF client[n][l] = "wait" THEN 1 ELSE 0
  <1> DEFINE Name(k, m, i) == IF k \in {"lockReqQ", "lockRespQ"} THEN <<k, i>>
                              ELSE IF k = "fwdId" THEN <<k, m>> ELSE <<k, m, i>>
  <1>1. /\ lockReqQ[n] \in Seq(Locks) /\ lockRespQ[n] \in Seq(Locks)
        /\ \A m \in Node : reqLink[m] \in Seq(Request)
        /\ \A m \in Node : respToNetworkQ[m] \in Seq(Node \X Locks)
        /\ \A m \in Node : chan[<<m, n>>] \in Seq(Locks)
    BY PairsFact DEF RInv, IInv, TypeOK, Ring!TypeOK
  <1>2. ASSUME NEW x \in Places(n, l)
        PROVE  \E k \in Kind, m \in Node, i \in Nat : x = Name(k, m, i) /\ At(k, m, i, n, l)
    <2>1. CASE \E i \in DOMAIN lockReqQ[n] : x = <<"lockReqQ", i>> /\ lockReqQ[n][i] = l
      BY <1>1, <2>1 DEF At, Slot, Kind
    <2>2. CASE \E m \in Node : \E i \in DOMAIN reqLink[m] :
                 x = <<"reqLink", m, i>> /\ reqLink[m][i] = [requester |-> n, lockId |-> l]
      BY <1>1, <2>2 DEF At, Slot, Kind
    <2>3. CASE \E m \in Node : x = <<"fwdId", m>> /\ lockMem[m][l].fwdId = n
      BY <2>3 DEF At, Kind
    <2>4. CASE \E m \in Node : \E i \in DOMAIN respToNetworkQ[m] :
                 x = <<"respToNetworkQ", m, i>> /\ respToNetworkQ[m][i] = <<n, l>>
      <3>1. PICK m \in Node : \E i \in DOMAIN respToNetworkQ[m] :
              x = <<"respToNetworkQ", m, i>> /\ respToNetworkQ[m][i] = <<n, l>>
        BY <2>4
      <3>2. PICK i \in DOMAIN respToNetworkQ[m] :
              x = <<"respToNetworkQ", m, i>> /\ respToNetworkQ[m][i] = <<n, l>>
        BY <3>1
      <3>3. i \in Nat /\ "respToNetworkQ" \in Kind
        BY <1>1 DEF Kind
      <3>4. At("respToNetworkQ", m, i, n, l)
        BY <3>2 DEF At, Slot
      <3>5. QED
        BY <3>2, <3>3, <3>4
    <2>5. CASE \E m \in Node : \E i \in DOMAIN chan[<<m, n>>] :
                 x = <<"chan", m, i>> /\ chan[<<m, n>>][i] = l
      <3>1. PICK m \in Node : \E i \in DOMAIN chan[<<m, n>>] :
              x = <<"chan", m, i>> /\ chan[<<m, n>>][i] = l
        BY <2>5
      <3>2. PICK i \in DOMAIN chan[<<m, n>>] : x = <<"chan", m, i>> /\ chan[<<m, n>>][i] = l
        BY <3>1
      <3>3. i \in Nat /\ "chan" \in Kind
        BY <1>1 DEF Kind
      <3>4. At("chan", m, i, n, l)
        BY <3>2 DEF At, Slot
      <3>5. QED
        BY <3>2, <3>3, <3>4
    <2>6. CASE \E i \in DOMAIN lockRespQ[n] : x = <<"lockRespQ", i>> /\ lockRespQ[n][i] = l
      BY <1>1, <2>6 DEF At, Slot, Kind
    <2>7. QED
      BY <1>2, <2>1, <2>2, <2>3, <2>4, <2>5, <2>6 DEF Places
  <1>3. ASSUME NEW k \in Kind, NEW m \in Node, NEW i \in Nat, At(k, m, i, n, l)
        PROVE  Name(k, m, i) \in Places(n, l)
    BY <1>3 DEF At, Slot, Places, Kind
  <1> HIDE DEF Name
  <1>4. CASE Waits(n, l)
    <2>1. PICK k \in Kind, m \in Node, i \in Nat : At(k, m, i, n, l)
      BY <1>4 DEF RInv, RequestInv
    <2>2. Places(n, l) = {Name(k, m, i)}
      <3>1. Name(k, m, i) \in Places(n, l)
        BY <1>3, <2>1
      <3>2. ASSUME NEW x \in Places(n, l) PROVE x = Name(k, m, i)
        BY <1>2, <2>1 DEF RInv, RequestInv
      <3>3. QED
        BY <3>1, <3>2
    <2>3. QED
      BY <1>4, <2>2, FS_Singleton DEF Waits
  <1>5. CASE ~Waits(n, l)
    <2>1. Places(n, l) = {}
      BY <1>2, <1>5 DEF RInv, RequestInv
    <2>2. QED
      BY <1>5, <2>1, FS_EmptySet DEF Waits
  <1>6. QED
    BY <1>4, <1>5

(* respToNetworkQ holds each lock once, and not the one a client holds, so *)
(* there is room for that one.                                             *)
LEMMA RoomToReturn ==
  ASSUME IInv, NEW n \in Node, NEW l \in Locks, client[n][l] = "hold"
  PROVE  RespQNotFull(n)
  <1> DEFINE Q == respToNetworkQ[n]
             S == 1 .. Len(Q)
             T == Locks \ {l}
             f == [i \in S |-> Q[i][2]]
  <1>1. Q \in Seq(Node \X Locks)
    BY DEF IInv, TypeOK
  <1>2. \A i \in S : Dep(n, i, Q[i][2]) /\ Q[i][2] \in Locks /\ i \in Nat
    BY <1>1 DEF Dep
  <1>3. Own(n, l)
    BY DEF IInv, InUseIffGranted, Granted, Own
  <1>4. \A i \in S : Q[i][2] # l
    BY <1>2, <1>3 DEF IInv, UniqueToken
  <1>5. \A i, j \in S : Q[i][2] = Q[j][2] => i = j
    BY <1>2 DEF IInv, UniqueToken
  <1>6. f \in Injection(S, T)
    <2>1. f \in [S -> T]
      BY <1>2, <1>4
    <2>2. \A i, j \in S : f[i] = f[j] => i = j
      BY <1>5
    <2> HIDE DEF f, S, T
    <2>3. QED
      BY <2>1, <2>2 DEF Injection, IsInjective
  <1>7. IsFiniteSet(T) /\ Cardinality(T) = Cardinality(Locks) - 1 /\ Cardinality(Locks) \in Nat
    BY LocksAssumption, FS_RemoveElement, FS_CardinalityType
  <1>8. Cardinality(S) = Len(Q)
    <2>1. Len(Q) \in Nat
      BY <1>1
    <2>2. QED
      BY <2>1, FS_Interval
  <1>9. Cardinality(S) <= Cardinality(T)
    <2> HIDE DEF f, S, T
    <2>1. QED
      BY <1>6, <1>7, FS_Injection
  <1>10. Len(Q) \in Nat
    BY <1>1
  <1> HIDE DEF S, T
  <1>11. QED
    BY <1>7, <1>8, <1>9, <1>10 DEF RespQNotFull

(* Nothing a client or a node of lock.bsv says is dropped: acquireLock has  *)
(* no request for a lock in use at its own node, the request of a waiting   *)
(* client is in exactly one place, and a release never finds respToNetworkQ *)
(* full, whatever the number of nodes, locks and queue slots.               *)
THEOREM LockNothingDropped == Spec => []NothingDropped
<1>1. RInv => NothingDropped
  <2> SUFFICES ASSUME RInv PROVE NothingDropped
    OBVIOUS
  <2>1. AcquireStateKnown
    <3> SUFFICES ASSUME NEW n \in Node, lockReqQ[n] # << >>
                 PROVE  lockMem[n][Head(lockReqQ[n])].state \in {"OWN_IDLE", "NOT_OWN"}
      BY DEF AcquireStateKnown
    <3>1. /\ Head(lockReqQ[n]) \in Locks
          /\ lockMem[n][Head(lockReqQ[n])].state # "OWN_IN_USE"
      BY RequestNotInUse
    <3>2. QED
      BY <3>1, EntryType DEF RInv, IInv, LockState
  <2>2. RequestConserved
    BY OnePlace DEF RequestConserved
  <2>3. ReleaseNeverBlocked
    BY RoomToReturn DEF RInv, ReleaseNeverBlocked
  <2>4. QED
    BY <2>1, <2>2, <2>3 DEF NothingDropped
<1>2. QED
  BY <1>1, LockRequestInvariant, PTL
-----------------------------------------------------------------------------
(* A grant a client takes is one it waits for, and nobody has the lock. *)
LEMMA GrantIsFree ==
  ASSUME RInv, NEW n \in Node, ClientTakeResp(n)
  PROVE  \E l \in Locks : Abstract!Grant(n, l)
  <1>1. lockRespQ[n] \in Seq(Locks) /\ lockRespQ[n] # << >>
    BY DEF ClientTakeResp, RInv, IInv, TypeOK
  <1>2. PICK l \in Locks : l = Head(lockRespQ[n])
    BY <1>1, DeqType
  <1>3. Waits(n, l)
    BY <1>2, RequestAnswered
  <1>4. Own(n, l)
    <2>1. Granted(n, l)
      BY <1>1, <1>2 DEF Granted
    <2>2. QED
      BY <2>1 DEF RInv, IInv, InUseIffGranted, Own
  <1>5. ASSUME NEW m \in Node, client[m][l] = "hold" PROVE FALSE
    <2>1. Own(m, l)
      BY <1>5 DEF RInv, IInv, InUseIffGranted, Granted, Own
    <2>2. m = n
      BY <1>4, <2>1 DEF RInv, IInv, UniqueToken
    <2>3. QED
      BY <1>3, <1>5, <2>2 DEF Waits
  <1>6. client' = [client EXCEPT ![n][l] = "hold"]
    BY <1>2 DEF ClientTakeResp
  <1>7. Abstract!Grant(n, l)
    BY <1>3, <1>5, <1>6 DEF Abstract!Grant, Abstract!Become, Waits
  <1>8. QED
    BY <1>7

(* Every step of the two rings is a step of the abstract lock, or none. *)
LEMMA StepRefines == RInv /\ [Next]_vars => [Abstract!Next]_client
  <1> SUFFICES ASSUME RInv, [Next]_vars PROVE [Abstract!Next]_client
    OBVIOUS
  <1>1. ASSUME NEW n \in Node, DoInit(n) PROVE UNCHANGED client
    BY <1>1 DEF DoInit
  <1>2. ASSUME NEW n \in Node, AcquireLock(n) PROVE UNCHANGED client
    BY <1>2 DEF AcquireLock
  <1>3. ASSUME NEW n \in Node, NEW s \in Node, RecvLockResp(s, n) PROVE UNCHANGED client
    BY <1>3 DEF RecvLockResp
  <1>4. ASSUME NEW n \in Node, NEW l \in Locks, ReturnLock(n, l) PROVE Abstract!Next
    <2>1. Abstract!Release(n, l)
      BY <1>4 DEF ReturnLock, Abstract!Release, Abstract!Become
    <2>2. QED
      BY <2>1 DEF Abstract!Next
  <1>5. ASSUME NEW n \in Node, SnoopLockReq(n) PROVE UNCHANGED client
    BY <1>5 DEF SnoopLockReq
  <1>6. ASSUME NEW n \in Node, SendRespToNetwork(n) PROVE UNCHANGED client
    BY <1>6 DEF SendRespToNetwork
  <1>7. ASSUME NEW n \in Node, NEW l \in Locks, ClientAcquire(n, l) PROVE Abstract!Next
    <2>1. Abstract!Ask(n, l)
      BY <1>7 DEF ClientAcquire, Abstract!Ask, Abstract!Become
    <2>2. QED
      BY <2>1 DEF Abstract!Next
  <1>8. ASSUME NEW n \in Node, ClientTakeResp(n) PROVE Abstract!Next
    BY <1>8, GrantIsFree DEF Abstract!Next
  <1>9. CASE UNCHANGED vars
    BY <1>9 DEF vars
  <1>10. QED
    BY <1>1, <1>2, <1>3, <1>4, <1>5, <1>6, <1>7, <1>8, <1>9 DEF Next

(* The lock service of lock.bsv implements the abstract lock: what its      *)
(* clients see is a lock granted to one of those that wait, when nobody has *)
(* it, whatever the number of nodes, locks and queue slots.                 *)
THEOREM LockRefinement == Spec => ImplementsLockSpec
<1>1. Init => Abstract!Init
  BY DEF Init, Abstract!Init
<1>2. QED
  BY <1>1, StepRefines, LockRequestInvariant, PTL DEF Spec, ImplementsLockSpec, Abstract!Spec
=============================================================================
