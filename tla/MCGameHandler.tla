--------------------------- MODULE MCGameHandler ----------------------------
(***************************************************************************)
(* GameHandler on a small instance.  Neither users nor rooms are told      *)
(* apart by the module, and the run checks invariants only.                *)
(***************************************************************************)
EXTENDS GameHandler, TLC

Symmetry == Permutations(User) \cup Permutations(RoomId)
=============================================================================
