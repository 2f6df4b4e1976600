--------------------------- MODULE MCLockService ---------------------------
(* Instances of LockService for TLC. *)
EXTENDS LockService, TLC

LockSymmetry == Permutations(Locks)

(***************************************************************************)
(* A schedule of the clients that fills the request ring: the locks are    *)
(* numbered like the nodes, every node takes the lock of its own number,   *)
(* and then asks for the locks of the two nodes before it, one after the   *)
(* other.  Only the clients' choices are restricted.                       *)
(***************************************************************************)
Wants(n) == << n, Prev(n), Prev(Prev(n)) >>
MayAsk(n, l) ==
  \E i \in 1 .. 3 :
    /\ Wants(n)[i] = l
    /\ i > 1 => \A m \in Node : client[m][m] = "hold"
    /\ i = 3 => client[n][Wants(n)[2]] = "wait"

Scripted ==
  \A n \in Node, l \in Locks :
    /\ client[n][l] = "idle" /\ client'[n][l] = "wait" => MayAsk(n, l)
    /\ client[n][l] = "hold" => client'[n][l] = "hold"

ScriptedSpec == Init /\ [][Next /\ Scripted]_vars
=============================================================================
