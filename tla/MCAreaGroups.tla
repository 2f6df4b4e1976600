---------------------------- MODULE MCAreaGroups ----------------------------
(* Instances of AreaGroups for TLC. *)
EXTENDS AreaGroups

Names == <<"central_cache_service", "ddr3", "m1", "m2", "void">>

Stmt(kind, name, value) == [kind |-> kind, name |-> name, value |-> value]
Sized(name, size) == <<Stmt("group", name, ""), Stmt("size", name, size)>>
Fixed(name, size, corner) == Sized(name, size) \o <<Stmt("location", name, corner)>>

(* The memory controller with room for the cache beside it; one where      *)
(* there is none, and a part of m1 placed apart from it; a box without     *)
(* logic; a statement for a group nobody declared.                         *)
AllFiles ==
  {Fixed("ddr3", <<32, 63>>, <<81, 0>>),
   Fixed("ddr3", <<32, 64>>, <<19, 0>>) \o Sized("m2", <<32, 31>>)
     \o <<Stmt("in", "m2", "m1"), Stmt("attribute", "m2", "SYNTH_BOUNDARY")>>,
   Fixed("ddr3", <<32, 63>>, <<80, 0>>)
     \o Fixed("void", <<47, 32>>, <<0, 64>>) \o <<Stmt("attribute", "void", "EMPTYBOX")>>,
   <<Stmt("location", "m4", <<0, 0>>)>>}

(* 407 is within a hundredth of 403, and 403 of 400, but 407 not of 400.   *)
AllReports ==
  {[n \in {"central_cache_service", "m1", "m2"} |-> IF n = "m1" THEN a ELSE 5] : a \in {400, 403, 407, 900}}
TwoOrders == {Names, Reverse(Names)}
NoPlatform == {}
Tours == {<<"m1", "void", "central_cache_service", "m2", "ddr3">>}
Corners == {0, 32, 63}
=============================================================================
