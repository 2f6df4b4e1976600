----------------------------- MODULE MCTokenRing -----------------------------
(* Instances of TokenRing for TLC. *)
EXTENDS TokenRing

(* Every stop sends to the primary, which answers the next stop: stops     *)
(* send, receive and forward in every combination, but no message passes   *)
(* the primary.                                                            *)
ToPrimary == {<<n, Primary>> : n \in Stop \ {Primary}} \cup {<<Primary, 1>>}
=============================================================================
