------------------------------ MODULE Requests ------------------------------
(***************************************************************************)
(* What the modules of the API have in common: each lets a few requests    *)
(* run side by side, statement by statement, over tables of its own.  The  *)
(* server (net/http) runs a request in a goroutine and a transaction on a  *)
(* connection of its own, and all transactions are READ COMMITTED.         *)
(***************************************************************************)
CONSTANTS
    Workers,  \* requests that may be under way at once: a bound
    None      \* no value, no such row, or NULL
=============================================================================
