----------------------------- MODULE MCCheckout -----------------------------
(* Small instances of Checkout for TLC; the .cfg files give the sizes. *)
EXTENDS Checkout, TLC

OneUpOneDown == {-1, 1}

Symmetry == Permutations(Workers) \cup Permutations(Carts)
             \cup Permutations(Codes) \cup Permutations(Orders)
=============================================================================
