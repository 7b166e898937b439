------------------------------- MODULE MCShop -------------------------------
(***************************************************************************)
(* Small instances of seven parts of the shop for TLC: bags, products,     *)
(* texts, prices, lists, the limiter and the audit log.  As in             *)
(* MCDashboard, part is the one whose requests run and the others are at   *)
(* rest: no two of them write one row.                                     *)
(***************************************************************************)
EXTENDS ShopBags, Products, Texts, Pricing, Lists, Limiter, Audit

VARIABLE part

Resting(p) == CASE p = "bags"     -> UNCHANGED bagVars
                [] p = "products" -> UNCHANGED productVars
                [] p = "texts"    -> UNCHANGED textVars
                [] p = "pricing"  -> UNCHANGED pricingVars
                [] p = "lists"    -> UNCHANGED listVars
                [] p = "limiter"  -> UNCHANGED limiterVars
                [] p = "audit"    -> UNCHANGED auditVars

Parts == {"bags", "products", "texts", "pricing", "lists", "limiter", "audit"}

\* What the start leaves open is left open for the part that runs.
ShopInit ==
    /\ BagInit /\ ProductInit /\ TextInit /\ PricingInit /\ ListInit /\ LimiterInit /\ AuditInit
    /\ part \in Parts
    /\ part # "texts" => gatewayOn
    /\ part # "lists" => matching = {} /\ \A i, j \in Rows : sortKey[i] = sortKey[j] /\ sortKey[i] = CHOOSE k \in SortKeys : TRUE
    /\ part # "audit" => row = CHOOSE x \in Contents : TRUE

ShopNext ==
    /\ \/ part = "bags" /\ BagNext
       \/ part = "products" /\ ProductNext
       \/ part = "texts" /\ TextNext
       \/ part = "pricing" /\ PricingNext
       \/ part = "lists" /\ ListNext
       \/ part = "limiter" /\ LimiterNext
       \/ part = "audit" /\ AuditNext
    /\ \A p \in Parts \ {part} : Resting(p)
    /\ UNCHANGED part

shopVars == <<part, bagVars, productVars, textVars, pricingVars, listVars, limiterVars, auditVars>>

ShopSpec == ShopInit /\ [][ShopNext]_shopVars /\ TextFairness

\* Types, and what the tables never hold: a row that refers to one that is gone.
ShopTypeOK ==
    /\ BagTypeOK /\ ProductTypeOK /\ TextTypeOK /\ PricingTypeOK /\ ListTypeOK /\ LimiterTypeOK /\ AuditTypeOK
=============================================================================
