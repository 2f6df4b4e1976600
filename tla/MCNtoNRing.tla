----------------------------- MODULE MCNtoNRing -----------------------------
(* Instances of NtoNRing for TLC. *)
EXTENDS NtoNRing

(* Traffic that wraps round the ring: stop 2 receives on chain 0 and, from *)
(* the last stop, on chain 1; stop 1 sends, and forwards on both chains;   *)
(* the primary sends, receives and passes messages across the dateline.    *)
Wrapping == {<<Primary, 2>>, <<N - 1, 2>>, <<1, Primary>>}
=============================================================================
