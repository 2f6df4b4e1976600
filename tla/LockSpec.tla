------------------------------ MODULE LockSpec ------------------------------
(***************************************************************************)
(* What the lock service promises to the engines that use it (LOCK_IFC in  *)
(* lock.bsv): an engine asks for a lock, is granted it at a moment when no *)
(* other engine has it, and gives it back.                                 *)
(***************************************************************************)
CONSTANTS Node,   \* the lock nodes, one engine behind each
          Locks   \* the locks they share

VARIABLE client   \* client[n][l] is "idle", "wait" or "hold"

Init == client = [n \in Node |-> [l \in Locks |-> "idle"]]

Become(n, l, from, to) == /\ client[n][l] = from
                          /\ client' = [client EXCEPT ![n][l] = to]

Ask(n, l)     == Become(n, l, "idle", "wait")
Grant(n, l)   == /\ \A m \in Node : client[m][l] # "hold"
                 /\ Become(n, l, "wait", "hold")
Release(n, l) == Become(n, l, "hold", "idle")

Next == \E n \in Node, l \in Locks : Ask(n, l) \/ Grant(n, l) \/ Release(n, l)

Spec == Init /\ [][Next]_client

(* Two engines never use one lock at the same time. *)
Mutex == \A l \in Locks, m, n \in Node :
           client[m][l] = "hold" /\ client[n][l] = "hold" => m = n
=============================================================================
