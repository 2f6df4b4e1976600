------------------------------ MODULE MCBuild -------------------------------
(***************************************************************************)
(* Three user boundaries, so that the tree has an inner module, besides    *)
(* the platform, the tree and the top module; one imports the library and  *)
(* has the parameter.                                                      *)
(***************************************************************************)
EXTENDS Build

MCEdits == {<<"src", "lib">>, <<"src", "u1">>, File("dic"), File("ver")}
=============================================================================
