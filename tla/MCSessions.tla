----------------------------- MODULE MCSessions -----------------------------
(* Small instances of Sessions for TLC; the .cfg files give the sizes. *)
EXTENDS Sessions, TLC

Symmetry == Permutations(Sessions) \cup Permutations(Requests) \cup Permutations(Calls)
=============================================================================
