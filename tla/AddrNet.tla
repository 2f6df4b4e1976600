------------------------------ MODULE AddrNet ------------------------------
(***************************************************************************)
(* What every addressable ring of the soft-connection library promises to  *)
(* the modules that use it (CONNECTION_ADDR_RING in addressable-ring.bsv): *)
(* a message given to enq(dst, msg) at one stop comes out of first/deq at  *)
(* stop dst, exactly once, and two messages between the same two stops     *)
(* keep their order.  Messages of different sources may interleave.        *)
(*                                                                         *)
(* chan[<<s, d>>] holds the messages on their way from s to d.             *)
(***************************************************************************)
EXTENDS Naturals, Sequences

CONSTANTS Traffic,  \* the pairs <<source, destination>> the clients use
          Msg       \* the messages

VARIABLE chan

TypeOK == chan \in [Traffic -> Seq(Msg)]

Init == chan = [p \in Traffic |-> << >>]

(* The method enq(dstNode, data) of stop s. *)
Enq(s, d, m) == chan' = [chan EXCEPT ![<<s, d>>] = Append(@, m)]

(* The oldest message from s is what first() shows at d and deq() removes. *)
CanDeq(s, d) == chan[<<s, d>>] # << >>
First(s, d)  == Head(chan[<<s, d>>])
Deq(s, d)    == /\ CanDeq(s, d)
                /\ chan' = [chan EXCEPT ![<<s, d>>] = Tail(@)]

Next == \E p \in Traffic : (\E m \in Msg : Enq(p[1], p[2], m)) \/ Deq(p[1], p[2])

Spec == Init /\ [][Next]_chan
=============================================================================
