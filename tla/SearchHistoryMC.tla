---------------------------- MODULE SearchHistoryMC ----------------------------
EXTENDS SearchHistory, TLC

(* Saves differ only by name. *)
AnyOrder == Permutations(Saves)
=============================================================================
