---------------------------- MODULE MCFulfilment ----------------------------
(* Small instances of Fulfilment for TLC; the .cfg files give the sizes. *)
EXTENDS Fulfilment, TLC

Symmetry == Permutations(Workers) \cup Permutations(Orders)
             \cup Permutations(Payments) \cup Permutations(Parcels)
=============================================================================
