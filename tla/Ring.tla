-------------------------------- MODULE Ring --------------------------------
(***************************************************************************)
(* The stops of a ring and the links between them: N stops on a connection *)
(* chain that is closed into a ring (addressable-ring.bsv).  Link n goes   *)
(* from stop n to its successor.                                           *)
(***************************************************************************)
EXTENDS Naturals, Sequences

CONSTANTS N,        \* number of stops
          LinkCap   \* slots of a link (mkUGFIFOF of the chain)

ASSUME RingAssumption == N \in Nat \ {0} /\ LinkCap \in Nat \ {0}

Stop    == 0 .. N - 1
Primary == 0
Prev(n) == IF n = 0 THEN N - 1 ELSE n - 1

(* The chain: a stop takes from its predecessor and sends to the next. *)
RecvFromPrev(l, n)  == [l EXCEPT ![Prev(n)] = Tail(@)]
SendToNext(l, n, m) == [l EXCEPT ![n] = Append(@, m)]
=============================================================================
