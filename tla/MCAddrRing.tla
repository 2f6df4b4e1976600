----------------------------- MODULE MCAddrRing -----------------------------
(* Instances of AddrRing for TLC. *)
EXTENDS AddrRing

CONSTANTS m1, m2

(* Every stop sends to the primary, which answers the next stop: stops     *)
(* send, receive and forward in every combination, but no message passes   *)
(* the primary.                                                            *)
ToPrimary == {<<n, Primary>> : n \in Stop \ {Primary}} \cup {<<Primary, 1>>}

(* Two messages are enough to see whether a pair of stops keeps its order: *)
(* the source takes them in turns.                                         *)
InTurn ==
  \A n, d \in Stop :
    \/ Len(Between(n, d)') <= Len(Between(n, d))
    \/ LET b == Between(n, d)'
       IN  b[Len(b)] = (IF Len(b) = 1 \/ b[Len(b) - 1] = m2 THEN m1 ELSE m2)

TurnSpec == Init /\ [][Next /\ InTurn]_vars /\ Fairness
=============================================================================
