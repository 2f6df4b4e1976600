----------------------------- MODULE MCRingInit -----------------------------
(* The instances of RingInit: every legal choice of static IDs is an       *)
(* initial state, so the .cfg files only give the sizes.                   *)
EXTENDS RingInit
=============================================================================
