----------------------------- MODULE MCSessions -----------------------------
(***************************************************************************)
(* Two connections and two users for TLC.                                  *)
(***************************************************************************)
EXTENDS Sessions, TLC

Symmetry == Permutations(Conn) \cup Permutations(User)
=============================================================================
