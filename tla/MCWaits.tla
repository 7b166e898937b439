------------------------------ MODULE MCWaits ------------------------------
(***************************************************************************)
(* Requests that wait for something they cannot hurry, for TLC: those that *)
(* share another's refresh, and pages that ask couriers and wait for each  *)
(* other's rows.  part is the kind that runs; the two share no row.        *)
(***************************************************************************)
EXTENDS Sessions, Lookups

VARIABLE part

WaitsInit ==
    /\ Init /\ LookupInit
    /\ part \in {"sessions", "lookups"}

WaitsNext ==
    /\ \/ part = "sessions" /\ Next /\ UNCHANGED lookupVars
       \/ part = "lookups" /\ LookupNext /\ UNCHANGED vars
    /\ UNCHANGED part

WaitsSpec ==
    WaitsInit /\ [][WaitsNext]_<<part, vars, lookupVars>> /\ Fairness /\ LookupFairness
=============================================================================
