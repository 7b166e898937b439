---------------------------- MODULE MCDashboard ----------------------------
(***************************************************************************)
(* Small instances of the dashboard's modules for TLC.  They share no row  *)
(* that two of them write, so the states of each are all found with the    *)
(* others at rest: part is the one whose requests run.                     *)
(***************************************************************************)
EXTENDS Team, Zones, Providers, Categories, Addresses, Reviews, Lookups, TLC

VARIABLE part

AtRest(p) == CASE p = "team"       -> UNCHANGED teamVars
               [] p = "zones"      -> UNCHANGED zoneVars
               [] p = "providers"  -> UNCHANGED providerVars
               [] p = "categories" -> UNCHANGED categoryVars
               [] p = "addresses"  -> UNCHANGED slugVars
               [] p = "reviews"    -> UNCHANGED reviewVars
               [] p = "lookups"    -> UNCHANGED lookupVars

Parts == {"team", "zones", "providers", "categories", "addresses", "reviews", "lookups"}

DashboardInit ==
    /\ TeamInit /\ ZoneInit /\ ProviderInit /\ CategoryInit /\ SlugInit /\ ReviewInit /\ LookupInit
    /\ part \in Parts
    /\ part # "team" => role[CHOOSE u \in Users : TRUE] = "admin"  \* any one owner will do

DashboardNext ==
    /\ \/ part = "team" /\ TeamNext
       \/ part = "zones" /\ ZoneNext
       \/ part = "providers" /\ ProviderNext
       \/ part = "categories" /\ CategoryNext
       \/ part = "addresses" /\ SlugNext
       \/ part = "reviews" /\ ReviewNext
       \/ part = "lookups" /\ LookupNext
    /\ \A p \in Parts \ {part} : AtRest(p)
    /\ UNCHANGED part

DashboardSpec ==
    /\ DashboardInit
    /\ [][DashboardNext]_<<part, teamVars, zoneVars, providerVars, categoryVars, slugVars,
                           reviewVars, lookupVars>>

\* Types, and what the tables never hold: a row that refers to one that is gone.
DashboardTypeOK ==
    /\ TeamTypeOK /\ ZoneTypeOK /\ ProviderTypeOK /\ CategoryTypeOK /\ SlugTypeOK /\ ReviewTypeOK
    /\ LookupTypeOK

Symmetry == Permutations(Workers) \cup Permutations(Keys)
=============================================================================
