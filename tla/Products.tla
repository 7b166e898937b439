------------------------------ MODULE Products ------------------------------
(***************************************************************************)
(* A product and its variants (saveProduct, saveVariants, DeleteProduct in *)
(* httpapi/catalog.go).  The dashboard's form holds the variants as its    *)
(* sender saw them, minutes ago perhaps; a save makes the product's        *)
(* variants those of the form, and keeps the cheapest and the dearest      *)
(* price with the product.                                                 *)
(***************************************************************************)
EXTENDS Requests, Integers, FiniteSets

CONSTANTS
    Variants,  \* rows of variants: a bound
    Prices

\* Amounts are bigints, of which there are finitely many.
ASSUME ProductsAssumption ==
    /\ None \notin Variants \cup Workers \cup Prices
    /\ Prices \subseteq Nat /\ IsFiniteSet(Prices)

VARIABLES
    product,    \* the product's row: "none" yet, "there" or "gone"
    priceMin,   \* products.price_min
    priceMax,   \* products.price_max
    price,      \* price[v]: variants.price, None for no row
    used,       \* variants that have had a row; ids are not given twice
    rowLock,    \* the save that has the product's row
    productPc,  \* productPc[w]: what save w does next
    formKept,   \* formKept[w]: the form's variants that had an id, and their prices
    formNew,    \* formNew[w]: the prices of its new ones
    drops       \* drops[w]: the variants DeleteVariantsExcept has deleted

productRows == <<product, priceMin, priceMax, price, used>>
productReqs == <<productPc, formKept, formNew, drops>>
productVars == <<productRows, rowLock, productReqs>>

Live == {v \in Variants : price[v] # None}

NoForm == [v \in Variants |-> None]
OnForm(f) == {v \in Variants : f[v] # None}

\* PriceRange.
Cheapest(ps) == CHOOSE p \in ps : \A q \in ps : p <= q
Dearest(ps) == CHOOSE p \in ps : \A q \in ps : p >= q
FormPrices(w) == formNew[w] \cup {formKept[w][v] : v \in OnForm(formKept[w])}

ProductInit ==
    /\ product = "none"
    /\ priceMin = 0 /\ priceMax = 0
    /\ price = NoForm
    /\ used = {}
    /\ rowLock = None
    /\ productPc = [w \in Workers |-> "idle"]
    /\ formKept = [w \in Workers |-> NoForm]
    /\ formNew = [w \in Workers |-> {}]
    /\ drops = [w \in Workers |-> {}]

ProductGoto(w, step) == productPc' = [productPc EXCEPT ![w] = step]

\* The transaction ends, which gives the row back.
ProductDone(w) ==
    /\ ProductGoto(w, "idle")
    /\ formKept' = [formKept EXCEPT ![w] = NoForm]
    /\ formNew' = [formNew EXCEPT ![w] = {}]
    /\ drops' = [drops EXCEPT ![w] = {}]
    /\ rowLock' = IF rowLock = w THEN None ELSE rowLock

\* CreateProduct, or UpdateProduct with a form that lists variants its sender once saw.
\* The form has a variant at least (openapi.yaml), and each has its own options (Check), so
\* that as many as there are rows for can be new.
SaveProduct(w, form, new) ==
    /\ productPc[w] = "idle"
    /\ OnForm(form) \subseteq used
    /\ OnForm(form) # {} \/ new # {}
    /\ product = "none" => form = NoForm
    /\ ProductGoto(w, IF product = "none" THEN "creating" ELSE "updating")
    /\ formKept' = [formKept EXCEPT ![w] = form]
    /\ formNew' = [formNew EXCEPT ![w] = new]
    /\ UNCHANGED <<productRows, rowLock, drops>>

\* CreateProduct: a row nobody else sees yet.
CreateRow(w) ==
    /\ productPc[w] = "creating"
    /\ product = "none" /\ rowLock = None  \* one product: a bound
    /\ rowLock' = w
    /\ ProductGoto(w, "committing")
    /\ UNCHANGED <<productRows, formKept, formNew, drops>>

\* Mutant: the row is looked up and written at the end, so nothing is locked until then.
UpdateRowLater(w) ==
    /\ productPc[w] = "updating"
    /\ IF product = "there"
       THEN ProductGoto(w, "checking") /\ UNCHANGED <<rowLock, formKept, formNew, drops>>
       ELSE ProductDone(w)
    /\ UNCHANGED productRows

\* UpdateProduct locks the product's row, and with it its variants, until the commit.
UpdateRow(w) ==
    /\ productPc[w] = "updating"
    /\ rowLock = None
    /\ IF product = "there"
       THEN /\ rowLock' = w
            /\ ProductGoto(w, "checking")
            /\ UNCHANGED <<formKept, formNew, drops>>
       ELSE ProductDone(w)
    /\ UNCHANGED productRows

\* VariantsByProduct: a form with a variant that was deleted since is refused.
CheckForm(w) ==
    /\ productPc[w] = "checking"
    /\ IF OnForm(formKept[w]) \subseteq Live
       THEN ProductGoto(w, "dropping") /\ UNCHANGED <<rowLock, formKept, formNew, drops>>
       ELSE ProductDone(w)
    /\ UNCHANGED productRows

\* DeleteVariantsExcept: those it finds now.
DropOthers(w) ==
    /\ productPc[w] = "dropping"
    /\ drops' = [drops EXCEPT ![w] = Live \ OnForm(formKept[w])]
    /\ ProductGoto(w, "committing")
    /\ UNCHANGED <<productRows, rowLock, formKept, formNew>>

\* UpdateVariant of each kept one, CreateVariant of each new one, and the commit; the range
\* of prices is that of the form.
CommitProduct(w) ==
    /\ productPc[w] = "committing"
    /\ \E new \in SUBSET (Variants \ used) :
        /\ Cardinality(new) = Cardinality(formNew[w])
        /\ \E as \in [new -> formNew[w]] :
            /\ {as[v] : v \in new} = formNew[w]
            /\ price' = [v \in Variants |->
                   IF v \in new THEN as[v]
                   ELSE IF v \in OnForm(formKept[w]) THEN formKept[w][v]
                   ELSE IF v \in drops[w] THEN None
                   ELSE price[v]]
            /\ used' = used \cup new
    /\ product' = "there"
    /\ priceMin' = Cheapest(FormPrices(w))
    /\ priceMax' = Dearest(FormPrices(w))
    /\ ProductDone(w)

\* A client that goes away, a server that stops, or a SKU that is taken.
AbortProduct(w) ==
    /\ productPc[w] # "idle"
    /\ ProductDone(w)
    /\ UNCHANGED productRows

\* DeleteProduct waits for a save; the variants go with the product.
DeleteProduct ==
    /\ product = "there" /\ rowLock = None
    /\ product' = "gone"
    /\ price' = NoForm
    /\ UNCHANGED <<priceMin, priceMax, used, rowLock, productReqs>>

ProductNext ==
    \/ \E w \in Workers :
        \/ \E form \in [Variants -> Prices \cup {None}], new \in SUBSET Prices : SaveProduct(w, form, new)
        \/ CreateRow(w) \/ UpdateRow(w) \/ CheckForm(w) \/ DropOthers(w) \/ CommitProduct(w) \/ AbortProduct(w)
    \/ DeleteProduct

ProductSpec == ProductInit /\ [][ProductNext]_productVars

-----------------------------------------------------------------------------
(* Properties. *)

\* Types, that variants have had their id, and that a product that is not there has none.
ProductTypeOK ==
    /\ product \in {"none", "there", "gone"}
    /\ priceMin \in Prices \cup {0} /\ priceMax \in Prices \cup {0}
    /\ price \in [Variants -> Prices \cup {None}]
    /\ used \subseteq Variants
    /\ rowLock \in Workers \cup {None}
    /\ productPc \in [Workers -> {"idle", "creating", "updating", "checking", "dropping", "committing"}]
    /\ formKept \in [Workers -> [Variants -> Prices \cup {None}]]
    /\ formNew \in [Workers -> SUBSET Prices]
    /\ drops \in [Workers -> SUBSET Variants]
    /\ Live \subseteq used
    /\ product # "there" => Live = {}

\* "Kept equal to the cheapest and dearest variant on every save, so lists sort by an index"
\* (migration 00003): however saves of one product overlap, and whatever their forms left out,
\* no variant costs less or more than its product says, and some cost just that.
PriceRangeKept ==
    product = "there" =>
        /\ \A v \in Live : priceMin <= price[v] /\ price[v] <= priceMax
        /\ \E v \in Live : price[v] = priceMin
        /\ \E v \in Live : price[v] = priceMax
=============================================================================
