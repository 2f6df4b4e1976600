--------------------------- MODULE MCSyncService ---------------------------
(* Instances of SyncService for TLC. *)
EXTENDS SyncService, TLC

AnyMask      == SUBSET Node \ {{}}
SlaveMask    == {m \in AnyMask : m \cap Slave # {}}
SyncSymmetry == Permutations(Syncs)
=============================================================================
