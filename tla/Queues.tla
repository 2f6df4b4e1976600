------------------------------- MODULE Queues -------------------------------
(***************************************************************************)
(* The messages of one kind that are on their way through a line of queues *)
(* (the links of a ring, the queues at its stops), as the one queue that   *)
(* they are for the stop they are going to.                                *)
(***************************************************************************)
EXTENDS Naturals, Sequences

(* The segments f[1], ..., f[n] of a queue, one behind the other. *)
Joined(f, n) ==
  LET upTo[i \in 0 .. n] == IF i = 0 THEN << >> ELSE upTo[i - 1] \o f[i]
  IN  upTo[n]

(* The messages in T of a queue, in its order. *)
Said(x, T) == IF x \in T THEN << x.msg >> ELSE << >>
Msgs(q, T) == Joined([i \in 1 .. Len(q) |-> Said(q[i], T)], Len(q))

(* The messages in T of the queues P[1], ..., P[n], where what leaves P[k] *)
(* goes to a queue before it: the oldest message is the first of P[1].     *)
InLine(P, n, T) == Joined([k \in 1 .. n |-> Msgs(P[k], T)], n)
=============================================================================
