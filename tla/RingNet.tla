------------------------------ MODULE RingNet ------------------------------
(***************************************************************************)
(* What the rings of addressable-ring.bsv do, seen from their clients: a   *)
(* message given to enq(dst, msg) at stop s is in transit to dst, is       *)
(* delivered to the receive queue of dst, and is taken from there by deq.  *)
(* Nothing leaves the transit but by its delivery, and messages between    *)
(* two stops keep their order.                                             *)
(*                                                                         *)
(* transit[<<s, d>>] holds the messages on their way from s to d, inbox[d] *)
(* the messages delivered to d, each with its source.                      *)
(***************************************************************************)
EXTENDS Naturals, Sequences, Queues

CONSTANTS Stops,    \* the ring stops
          Traffic,  \* the pairs <<source, destination>> the clients use
          Msg       \* the messages

VARIABLES transit, inbox

vars == <<transit, inbox>>

Init == /\ transit = [p \in Traffic |-> << >>]
        /\ inbox = [d \in Stops |-> << >>]

(* The method enq(d, m) of stop s. *)
Enq(s, d, m) == /\ UNCHANGED inbox
                /\ transit' = [transit EXCEPT ![<<s, d>>] = Append(@, m)]

Received(s, d) == transit' = [transit EXCEPT ![<<s, d>>] = Tail(@)]

Deliver(s, d) ==
  /\ transit[<<s, d>>] # << >>
  /\ inbox' = [inbox EXCEPT ![d] = Append(@, [src |-> s, msg |-> Head(transit[<<s, d>>])])]
  /\ Received(s, d)

(* The method deq() of stop d. *)
Deq(d) == /\ inbox[d] # << >>
          /\ inbox' = [inbox EXCEPT ![d] = Tail(@)]
          /\ UNCHANGED transit

Next == \/ \E p \in Traffic : Deliver(p[1], p[2]) \/ \E m \in Msg : Enq(p[1], p[2], m)
        \/ \E d \in Stops : Deq(d)

Spec == Init /\ [][Next]_vars
-----------------------------------------------------------------------------
(* The messages of s that d has yet to take. *)
FromTo(s, d) == Msgs(inbox[d], [src : {s}, msg : Msg]) \o transit[<<s, d>>]

(* Seen by source, the ring is one queue for each pair of stops, and deq() *)
(* takes the oldest message of one of them: this is how the services that  *)
(* stand on a ring are modelled (LockService, SyncService).                *)
Channels == INSTANCE AddrNet WITH chan <- [p \in Traffic |-> FromTo(p[1], p[2])]
ImplementsAddrNet == Channels!Spec
=============================================================================
