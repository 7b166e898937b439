----------------------------- MODULE Goods_proofs -----------------------------
(* Machine-checked proofs about products and prices. *)
EXTENDS Products, Pricing, Sums, TLAPS

-----------------------------------------------------------------------------
(* Products and their variants. *)

USE ProductsAssumption

ProductLocked == {"checking", "dropping", "committing"}

\* A save past UpdateProduct or CreateProduct has the product's row; what it found of the
\* product and its variants is so until it ends; and its form has a price.
SaveAtWork(w) ==
    /\ productPc[w] \in ProductLocked => rowLock = w
    /\ productPc[w] = "creating" => formKept[w] = NoForm
    /\ productPc[w] \in {"checking", "dropping"} => product = "there"
    /\ productPc[w] = "committing" => product # "gone"
    /\ productPc[w] \in {"dropping", "committing"} => OnForm(formKept[w]) \subseteq Live
    /\ productPc[w] = "committing" => Live \ OnForm(formKept[w]) \subseteq drops[w]
    /\ productPc[w] # "idle" => OnForm(formKept[w]) # {} \/ formNew[w] # {}

SavesAtWork == \A w \in Workers : SaveAtWork(w)

ProductInv == ProductTypeOK /\ SavesAtWork /\ PriceRangeKept

\* The prices of a form have a lowest and a highest one, which PriceRange finds.
LEMMA FormRange ==
    ASSUME ProductTypeOK, NEW w \in Workers, OnForm(formKept[w]) # {} \/ formNew[w] # {}
    PROVE  /\ FormPrices(w) \subseteq Prices
           /\ Cheapest(FormPrices(w)) \in FormPrices(w) /\ Dearest(FormPrices(w)) \in FormPrices(w)
           /\ \A q \in FormPrices(w) : Cheapest(FormPrices(w)) <= q /\ q <= Dearest(FormPrices(w))
<1>1. FormPrices(w) \subseteq Prices /\ FormPrices(w) # {}
  <2>1. formKept[w] \in [Variants -> Prices \cup {None}] /\ formNew[w] \subseteq Prices
    BY DEF ProductTypeOK
  <2>2. \A v \in OnForm(formKept[w]) : formKept[w][v] \in Prices
    BY <2>1 DEF OnForm
  <2>3. {formKept[w][v] : v \in OnForm(formKept[w])} \subseteq Prices
    BY <2>2
  <2>4. OnForm(formKept[w]) # {} => {formKept[w][v] : v \in OnForm(formKept[w])} # {}
    OBVIOUS
  <2>. QED BY <2>1, <2>3, <2>4 DEF FormPrices
<1>. DEFINE ps == FormPrices(w)
<1>. HIDE DEF ps
<1>2. ps \subseteq Prices /\ ps # {}
  BY <1>1 DEF ps
<1>3. /\ \E p \in ps : \A q \in ps : p <= q
      /\ \E p \in ps : \A q \in ps : p >= q
  <2>1. ps \in SUBSET Nat /\ ps # {} /\ IsFiniteSet(ps)
    BY <1>2, FS_Subset
  <2>2. PICK m \in ps : \A q \in ps : m <= q
    BY <2>1, Smallest
  <2>3. PICK n \in ps : \A q \in ps : q <= n
    BY <2>1, Greatest
  <2>. QED BY <2>1, <2>2, <2>3
<1>4. Cheapest(ps) \in ps /\ \A q \in ps : Cheapest(ps) <= q
  BY <1>3 DEF Cheapest
<1>5. Dearest(ps) \in ps /\ \A q \in ps : Dearest(ps) >= q
  BY <1>3 DEF Dearest
<1>6. \A q \in ps : Cheapest(ps) <= q /\ q <= Dearest(ps)
  BY <1>2, <1>4, <1>5
<1>. QED
  BY <1>1, <1>4, <1>5, <1>6 DEF ps

\* What a save that ends leaves behind it.
LEMMA ProductDoneSteps ==
    ASSUME ProductTypeOK, NEW w \in Workers, ProductDone(w)
    PROVE  /\ productPc' \in [Workers -> {"idle", "creating", "updating", "checking", "dropping", "committing"}]
           /\ formKept' \in [Workers -> [Variants -> Prices \cup {None}]]
           /\ formNew' \in [Workers -> SUBSET Prices]
           /\ drops' \in [Workers -> SUBSET Variants]
           /\ rowLock' \in Workers \cup {None}
           /\ rowLock # w => rowLock' = rowLock
           /\ productPc'[w] = "idle"
           /\ \A v \in Workers \ {w} :
                 /\ productPc'[v] = productPc[v] /\ formKept'[v] = formKept[v]
                 /\ formNew'[v] = formNew[v] /\ drops'[v] = drops[v]
<1>1. /\ productPc' \in [Workers -> {"idle", "creating", "updating", "checking", "dropping", "committing"}]
      /\ productPc'[w] = "idle" /\ \A v \in Workers \ {w} : productPc'[v] = productPc[v]
  BY DEF ProductTypeOK, ProductDone, ProductGoto
<1>2. /\ formKept' \in [Workers -> [Variants -> Prices \cup {None}]]
      /\ \A v \in Workers \ {w} : formKept'[v] = formKept[v]
  <2>1. NoForm \in [Variants -> Prices \cup {None}]
    BY DEF NoForm
  <2>. QED BY <2>1 DEF ProductTypeOK, ProductDone
<1>3. /\ formNew' \in [Workers -> SUBSET Prices]
      /\ \A v \in Workers \ {w} : formNew'[v] = formNew[v]
  BY DEF ProductTypeOK, ProductDone
<1>4. /\ drops' \in [Workers -> SUBSET Variants]
      /\ \A v \in Workers \ {w} : drops'[v] = drops[v]
  BY DEF ProductTypeOK, ProductDone
<1>5. rowLock' \in Workers \cup {None} /\ (rowLock # w => rowLock' = rowLock)
  BY DEF ProductTypeOK, ProductDone
<1>. QED BY <1>1, <1>2, <1>3, <1>4, <1>5

\* A save that ends without a write.
LEMMA ProductDoneInv ==
    ASSUME ProductInv, NEW w \in Workers, ProductDone(w), UNCHANGED productRows
    PROVE  ProductInv'
<1>1. ProductTypeOK'
  <2>1. Live' = Live
    BY DEF Live, productRows
  <2>. QED BY <2>1, ProductDoneSteps DEF ProductInv, ProductTypeOK, productRows
<1>2. ASSUME NEW v \in Workers PROVE SaveAtWork(v)'
  <2>1. CASE v = w
    BY <2>1, ProductDoneSteps DEF ProductInv, SaveAtWork, ProductLocked
  <2>2. CASE v # w
    <3>1. /\ productPc'[v] = productPc[v] /\ formKept'[v] = formKept[v]
          /\ formNew'[v] = formNew[v] /\ drops'[v] = drops[v]
          /\ rowLock = v => rowLock' = v
      BY <2>2, ProductDoneSteps DEF ProductInv
    <3>2. product' = product /\ Live' = Live
      BY DEF Live, productRows
    <3>. QED BY <3>1, <3>2 DEF ProductInv, SavesAtWork, SaveAtWork, OnForm, ProductLocked
  <2>. QED BY <2>1, <2>2
<1>3. PriceRangeKept'
  BY DEF ProductInv, PriceRangeKept, Live, productRows
<1>. QED BY <1>1, <1>2, <1>3 DEF ProductInv, SavesAtWork

\* A save that moves on by a step of its own, with the rows as they are.
LEMMA OtherSavesStay ==
    ASSUME ProductInv, NEW w \in Workers, UNCHANGED productRows,
           productPc' \in [Workers -> {"idle", "creating", "updating", "checking", "dropping", "committing"}],
           formKept' \in [Workers -> [Variants -> Prices \cup {None}]], formNew' \in [Workers -> SUBSET Prices],
           drops' \in [Workers -> SUBSET Variants], rowLock' \in Workers \cup {None},
           rowLock' = rowLock \/ rowLock = None,
           \A v \in Workers \ {w} :
              /\ productPc'[v] = productPc[v] /\ formKept'[v] = formKept[v]
              /\ formNew'[v] = formNew[v] /\ drops'[v] = drops[v],
           SaveAtWork(w)'
    PROVE  ProductInv'
<1>1. product' = product /\ Live' = Live
  BY DEF Live, productRows
<1>2. ProductTypeOK'
  BY <1>1 DEF ProductInv, ProductTypeOK, productRows
<1>3. ASSUME NEW v \in Workers \ {w} PROVE SaveAtWork(v)'
  <2>1. productPc[v] \in ProductLocked => rowLock' = v
    BY DEF ProductInv, SavesAtWork, SaveAtWork
  <2>. QED BY <1>1, <1>3, <2>1 DEF ProductInv, SavesAtWork, SaveAtWork, OnForm, ProductLocked
<1>4. PriceRangeKept'
  BY <1>1 DEF ProductInv, PriceRangeKept, productRows
<1>. QED BY <1>2, <1>3, <1>4 DEF ProductInv, SavesAtWork

\* The commit: what is left has the prices of the form, all of them.
LEMMA ProductCommitInv ==
    ASSUME ProductInv, NEW w \in Workers, CommitProduct(w)
    PROVE  ProductInv'
<1>1. /\ productPc[w] = "committing" /\ rowLock = w
      /\ OnForm(formKept[w]) \subseteq Live /\ Live \ OnForm(formKept[w]) \subseteq drops[w]
      /\ OnForm(formKept[w]) # {} \/ formNew[w] # {}
  BY DEF ProductInv, SavesAtWork, SaveAtWork, ProductLocked, CommitProduct
<1>2. PICK new \in SUBSET (Variants \ used) : \E as \in [new -> formNew[w]] :
          /\ {as[v] : v \in new} = formNew[w]
          /\ price' = [v \in Variants |->
                 IF v \in new THEN as[v]
                 ELSE IF v \in OnForm(formKept[w]) THEN formKept[w][v]
                 ELSE IF v \in drops[w] THEN None
                 ELSE price[v]]
          /\ used' = used \cup new
  BY DEF CommitProduct
<1>3. PICK as \in [new -> formNew[w]] :
          /\ {as[v] : v \in new} = formNew[w]
          /\ price' = [v \in Variants |->
                 IF v \in new THEN as[v]
                 ELSE IF v \in OnForm(formKept[w]) THEN formKept[w][v]
                 ELSE IF v \in drops[w] THEN None
                 ELSE price[v]]
          /\ used' = used \cup new
  BY <1>2
<1>4. /\ formKept[w] \in [Variants -> Prices \cup {None}] /\ formNew[w] \subseteq Prices
      /\ price \in [Variants -> Prices \cup {None}] /\ used \subseteq Variants /\ Live \subseteq used
  BY DEF ProductInv, ProductTypeOK
<1>5. ASSUME NEW v \in Variants
      PROVE  /\ price'[v] \in Prices \cup {None}
             /\ price'[v] # None => price'[v] \in FormPrices(w) /\ v \in used'
  <2>1. CASE v \in new
    BY <1>3, <1>4, <2>1 DEF FormPrices
  <2>2. CASE v \notin new /\ v \in OnForm(formKept[w])
    BY <1>1, <1>3, <1>4, <2>2 DEF FormPrices, OnForm
  <2>3. CASE v \notin new /\ v \notin OnForm(formKept[w])
    BY <1>1, <1>3, <1>4, <2>3 DEF Live
  <2>. QED BY <2>1, <2>2, <2>3
<1>6. ASSUME NEW p \in FormPrices(w) PROVE \E v \in Live' : price'[v] = p
  <2>1. CASE p \in formNew[w]
    <3>0. p \in {as[v] : v \in new}
      BY <1>3, <2>1
    <3>1. PICK v \in new : as[v] = p
      BY <3>0
    <3>2. v \in Variants /\ price'[v] = p /\ p # None
      BY <1>3, <1>4, <2>1, <3>1
    <3>. QED BY <3>2 DEF Live
  <2>2. CASE p \notin formNew[w]
    <3>1. PICK v \in OnForm(formKept[w]) : formKept[w][v] = p
      BY <1>6, <2>2 DEF FormPrices
    <3>2. v \in Variants /\ v \notin new /\ p # None
      BY <1>1, <1>4, <3>1 DEF OnForm
    <3>3. price'[v] = p
      BY <1>3, <3>1, <3>2
    <3>. QED BY <3>2, <3>3 DEF Live
  <2>. QED BY <2>1, <2>2
<1>7. /\ ProductDone(w) /\ product' = "there"
      /\ priceMin' = Cheapest(FormPrices(w)) /\ priceMax' = Dearest(FormPrices(w))
  BY DEF CommitProduct
<1>8. /\ FormPrices(w) \subseteq Prices
      /\ Cheapest(FormPrices(w)) \in FormPrices(w) /\ Dearest(FormPrices(w)) \in FormPrices(w)
      /\ \A q \in FormPrices(w) : Cheapest(FormPrices(w)) <= q /\ q <= Dearest(FormPrices(w))
  BY <1>1, FormRange DEF ProductInv
<1>9. ProductTypeOK'
  <2>1. price' \in [Variants -> Prices \cup {None}] /\ used' \subseteq Variants /\ Live' \subseteq used'
    BY <1>3, <1>4, <1>5 DEF Live
  <2>2. priceMin' \in Prices \cup {0} /\ priceMax' \in Prices \cup {0}
    BY <1>7, <1>8
  <2>. QED BY <1>7, <2>1, <2>2, ProductDoneSteps DEF ProductInv, ProductTypeOK
<1>10. ASSUME NEW v \in Workers PROVE SaveAtWork(v)'
  <2>1. CASE v = w
    BY <1>7, <2>1, ProductDoneSteps DEF ProductInv, SaveAtWork, ProductLocked
  <2>2. CASE v # w
    <3>1. productPc'[v] = productPc[v] /\ formKept'[v] = formKept[v] /\ formNew'[v] = formNew[v]
      BY <1>7, <2>2, ProductDoneSteps DEF ProductInv
    <3>2. productPc[v] \notin ProductLocked
      BY <1>1, <2>2 DEF ProductInv, SavesAtWork, SaveAtWork
    <3>. QED BY <3>1, <3>2 DEF ProductInv, SavesAtWork, SaveAtWork, OnForm, ProductLocked
  <2>. QED BY <2>1, <2>2
<1>11. PriceRangeKept'
  <2>1. \A v \in Live' : price'[v] \in FormPrices(w)
    BY <1>5 DEF Live
  <2>. QED BY <1>6, <1>7, <1>8, <2>1 DEF PriceRangeKept
<1>. QED BY <1>9, <1>10, <1>11 DEF ProductInv, SavesAtWork

LEMMA ProductStep == ProductInv /\ [ProductNext]_productVars => ProductInv'
<1> SUFFICES ASSUME ProductInv, [ProductNext]_productVars PROVE ProductInv'
  OBVIOUS
<1>. USE DEF ProductGoto
<1>1. ASSUME NEW w \in Workers, NEW form \in [Variants -> Prices \cup {None}], NEW new \in SUBSET Prices,
             SaveProduct(w, form, new)
      PROVE  ProductInv'
  <2>1. /\ productPc[w] = "idle"
        /\ productPc' = [productPc EXCEPT ![w] = IF product = "none" THEN "creating" ELSE "updating"]
        /\ formKept' = [formKept EXCEPT ![w] = form] /\ formNew' = [formNew EXCEPT ![w] = new]
        /\ UNCHANGED <<productRows, rowLock, drops>>
        /\ OnForm(form) # {} \/ new # {}
        /\ product = "none" => form = NoForm
    BY <1>1 DEF SaveProduct
  <2>2. SaveAtWork(w)'
    BY <2>1 DEF ProductInv, ProductTypeOK, SaveAtWork, OnForm, NoForm, productRows, ProductLocked
  <2>. QED BY <2>1, <2>2, OtherSavesStay DEF ProductInv, ProductTypeOK
<1>2. ASSUME NEW w \in Workers, CreateRow(w) PROVE ProductInv'
  <2>1. /\ productPc[w] = "creating" /\ product = "none" /\ rowLock = None /\ rowLock' = w
        /\ productPc' = [productPc EXCEPT ![w] = "committing"]
        /\ UNCHANGED <<productRows, formKept, formNew, drops>>
    BY <1>2 DEF CreateRow
  <2>2. Live = {} /\ OnForm(formKept[w]) = {} /\ formNew[w] # {}
    BY <2>1 DEF ProductInv, ProductTypeOK, SavesAtWork, SaveAtWork, OnForm, NoForm
  <2>3. SaveAtWork(w)'
    BY <2>1, <2>2 DEF ProductInv, ProductTypeOK, SaveAtWork, OnForm, Live, productRows, ProductLocked
  <2>. QED BY <2>1, <2>3, OtherSavesStay DEF ProductInv, ProductTypeOK
<1>3. ASSUME NEW w \in Workers, UpdateRow(w) PROVE ProductInv'
  <2>1. CASE product = "there"
    <3>1. /\ productPc[w] = "updating" /\ rowLock = None /\ rowLock' = w
          /\ productPc' = [productPc EXCEPT ![w] = "checking"]
          /\ UNCHANGED <<productRows, formKept, formNew, drops>>
      BY <1>3, <2>1 DEF UpdateRow
    <3>2. SaveAtWork(w)'
      BY <2>1, <3>1 DEF ProductInv, ProductTypeOK, SavesAtWork, SaveAtWork, OnForm, productRows, ProductLocked
    <3>. QED BY <3>1, <3>2, OtherSavesStay DEF ProductInv, ProductTypeOK
  <2>2. CASE product # "there"
    BY <1>3, <2>2, ProductDoneInv DEF UpdateRow
  <2>. QED BY <2>1, <2>2
<1>4. ASSUME NEW w \in Workers, CheckForm(w) PROVE ProductInv'
  <2>1. CASE OnForm(formKept[w]) \subseteq Live
    <3>1. /\ productPc[w] = "checking"
          /\ productPc' = [productPc EXCEPT ![w] = "dropping"]
          /\ UNCHANGED <<productRows, rowLock, formKept, formNew, drops>>
      BY <1>4, <2>1 DEF CheckForm
    <3>2. SaveAtWork(w)'
      BY <2>1, <3>1 DEF ProductInv, ProductTypeOK, SavesAtWork, SaveAtWork, OnForm, Live, productRows, ProductLocked
    <3>. QED BY <3>1, <3>2, OtherSavesStay DEF ProductInv, ProductTypeOK
  <2>2. CASE ~(OnForm(formKept[w]) \subseteq Live)
    BY <1>4, <2>2, ProductDoneInv DEF CheckForm
  <2>. QED BY <2>1, <2>2
<1>5. ASSUME NEW w \in Workers, DropOthers(w) PROVE ProductInv'
  <2>1. /\ productPc[w] = "dropping"
        /\ drops' = [drops EXCEPT ![w] = Live \ OnForm(formKept[w])]
        /\ productPc' = [productPc EXCEPT ![w] = "committing"]
        /\ UNCHANGED <<productRows, rowLock, formKept, formNew>>
    BY <1>5 DEF DropOthers
  <2>2. drops'[w] = Live \ OnForm(formKept[w]) /\ drops' \in [Workers -> SUBSET Variants]
    BY <2>1 DEF ProductInv, ProductTypeOK, Live
  <2>3. SaveAtWork(w)'
    BY <2>1, <2>2 DEF ProductInv, ProductTypeOK, SavesAtWork, SaveAtWork, OnForm, Live, productRows, ProductLocked
  <2>. QED BY <2>1, <2>2, <2>3, OtherSavesStay DEF ProductInv, ProductTypeOK
<1>6. ASSUME NEW w \in Workers, AbortProduct(w) PROVE ProductInv'
  BY <1>6, ProductDoneInv DEF AbortProduct
<1>7. CASE DeleteProduct
  <2>1. /\ product' = "gone" /\ price' = NoForm /\ rowLock = None
        /\ UNCHANGED <<priceMin, priceMax, used, rowLock, productReqs>>
    BY <1>7 DEF DeleteProduct
  <2>2. Live' = {} /\ price' \in [Variants -> Prices \cup {None}]
    BY <2>1 DEF Live, NoForm
  <2>3. ProductTypeOK'
    BY <2>1, <2>2 DEF ProductInv, ProductTypeOK, productReqs
  <2>4. \A w \in Workers : productPc[w] \notin ProductLocked
    BY <2>1 DEF ProductInv, SavesAtWork, SaveAtWork
  <2>5. SavesAtWork'
    BY <2>1, <2>4 DEF ProductInv, SavesAtWork, SaveAtWork, OnForm, ProductLocked, productReqs
  <2>6. PriceRangeKept'
    BY <2>1 DEF PriceRangeKept
  <2>. QED BY <2>3, <2>5, <2>6 DEF ProductInv
<1>8. CASE UNCHANGED productVars
  <2>1. UNCHANGED <<productRows, rowLock, productReqs>> /\ Live' = Live
    BY <1>8 DEF productVars, productRows, Live
  <2>2. ProductTypeOK' /\ PriceRangeKept'
    BY <2>1 DEF ProductInv, ProductTypeOK, PriceRangeKept, productRows, productReqs
  <2>3. SavesAtWork'
    BY <2>1 DEF ProductInv, SavesAtWork, SaveAtWork, OnForm, productRows, productReqs
  <2>. QED BY <2>2, <2>3 DEF ProductInv
<1>. QED
  BY <1>1, <1>2, <1>3, <1>4, <1>5, <1>6, <1>7, <1>8, ProductCommitInv DEF ProductNext

LEMMA ProductStart == ProductInit => ProductInv
<1> SUFFICES ASSUME ProductInit PROVE ProductInv
  OBVIOUS
<1>1. NoForm \in [Variants -> Prices \cup {None}] /\ Live = {}
  BY DEF ProductInit, NoForm, Live
<1>2. ProductTypeOK
  BY <1>1 DEF ProductInit, ProductTypeOK
<1>. QED
  BY <1>1, <1>2 DEF ProductInit, ProductInv, SavesAtWork, SaveAtWork, ProductLocked, PriceRangeKept

LEMMA ProductAlways == ProductSpec => []ProductInv
BY ProductStart, ProductStep, PTL DEF ProductSpec

\* Every variable keeps its type, variants have had their id, and a product that is not there
\* has none (DeleteProduct with its cascade, CreateProduct).
THEOREM ProductTypesCorrect == ProductSpec => []ProductTypeOK
BY ProductAlways, PTL DEF ProductInv

\* The range of prices with a product is that of its variants, whatever saves overlap and however
\* old their forms (saveProduct, saveVariants).
THEOREM RangeKept == ProductSpec => []PriceRangeKept
BY ProductAlways, PTL DEF ProductInv

HIDE ProductsAssumption

-----------------------------------------------------------------------------
(* Arithmetic. *)

\* What dividing whole numbers gives.
LEMMA Division ==
    ASSUME NEW a \in Nat, NEW b \in Nat \ {0}
    PROVE  a \div b \in Nat /\ (a \div b) * b <= a /\ a < (a \div b) * b + b
OBVIOUS

\* A product of numbers is one.
LEMMA ProductIsNat ==
    ASSUME NEW a \in Nat, NEW b \in Nat
    PROVE  a * b \in Nat
OBVIOUS

\* It grows with its factors.
LEMMA ProductGrows ==
    ASSUME NEW a \in Nat, NEW b \in Nat, NEW c \in Nat, a <= b
    PROVE  a * c <= b * c
<1>1. PICK d \in Nat : b = a + d
  <2>1. b - a \in Nat /\ b = a + (b - a)
    OBVIOUS
  <2>. QED BY <2>1
<1>2. b * c = a * c + d * c /\ d * c \in Nat /\ a * c \in Nat
  BY <1>1
<1>. QED BY <1>2

\* A sum divided by "of" with half of it added is the nearest whole.
LEMMA Nearest ==
    ASSUME NEW x \in Nat, NEW of \in Nat \ {0}
    PROVE  LET q == (x + of \div 2) \div of IN
           q \in Nat /\ 2 * (q * of - x) <= of /\ 2 * (x - q * of) <= of
<1>. DEFINE h == of \div 2
            q == (x + h) \div of
            p == q * of
<1>1. h \in Nat /\ 2 * h <= of /\ of <= 2 * h + 1
  OBVIOUS
<1>2. x + h \in Nat
  BY <1>1
<1>. HIDE DEF h
<1>3. q \in Nat /\ p <= x + h /\ x + h < p + of
  <2>. DEFINE y == x + h
  <2>1. y \in Nat
    BY <1>2
  <2>. HIDE DEF y
  <2>2. y \div of \in Nat /\ (y \div of) * of <= y /\ y < (y \div of) * of + of
    BY <2>1, Division
  <2>. QED BY <2>2 DEF y
<1>. HIDE DEF q
<1>4. p \in Nat
  BY <1>3, ProductIsNat
<1>. HIDE DEF p
<1>5. 2 * (p - x) <= of /\ 2 * (x - p) <= of
  BY <1>1, <1>3, <1>4
<1>. QED BY <1>3, <1>5 DEF p, q, h

-----------------------------------------------------------------------------
(* What the code computes, for every input. *)

\* What an amount of a code is to be, of a subtotal (discount.Amount).
AmountIs(t, c, sum) ==
    LET most == IF c.percent THEN sum * c.value ELSE c.value * 100 IN
    /\ t \in Nat
    /\ t <= sum
    /\ t * 100 <= most
    /\ c.cap # None => t <= c.cap
    /\ \/ t = sum
       \/ t = c.cap
       \/ c.percent /\ t % 100 = 0 /\ (t + 100) * 100 > most
       \/ ~c.percent /\ t = c.value

\* The constants are numbers.
LEMMA CodeNumbers ==
    /\ \A n \in Values : n \in Nat
    /\ \A n \in Caps \cup {None} : n \in Nat \cup {None} /\ (n # None => n \in Nat)
<1>1. \A n \in Values : n \in Nat
  BY PricingAssumption
<1>2. \A n \in Caps \cup {None} : n \in Nat \cup {None} /\ (n # None => n \in Nat)
  BY PricingAssumption
<1>. QED BY <1>1, <1>2

\* The numbers of a delivery zone.
LEMMA RateNumbers ==
    /\ \A n \in Charges : n \in Nat
    /\ \A n \in Weights : n \in Nat
    /\ \A n \in PerKg : n \in Nat
    /\ \A n \in FreeFrom \cup {None} : n # None => n \in Nat
<1>1. \A n \in Charges : n \in Nat
  BY PricingAssumption
<1>2. \A n \in Weights : n \in Nat
  BY PricingAssumption
<1>3. \A n \in PerKg : n \in Nat
  BY PricingAssumption
<1>4. \A n \in FreeFrom \cup {None} : n # None => n \in Nat
  BY PricingAssumption
<1>. QED BY <1>1, <1>2, <1>3, <1>4

\* The numbers of a line of the bag.
LEMMA LineNumbers ==
    /\ \A n \in Amounts : n \in Nat
    /\ \A n \in Weights : n \in Nat
    /\ \A n \in Counts : n \in Nat
<1>1. \A n \in Amounts : n \in Nat
  BY PricingAssumption
<1>2. \A n \in Weights : n \in Nat
  BY PricingAssumption
<1>3. \A n \in Counts : n \in Nat
  BY PricingAssumption
<1>. QED BY <1>1, <1>2, <1>3

\* The numbers of a rate of VAT.
LEMMA VatNumbers ==
    ASSUME NEW n \in VatRates
    PROVE  n \in 0 .. 10000 /\ n \in Nat
<1>1. n \in 0 .. 10000
  BY PricingAssumption
<1>2. n \in Int /\ 0 <= n
  BY <1>1
<1>. QED BY <1>1, <1>2

\* The numbers of a code.
LEMMA CodeParts ==
    ASSUME NEW c \in Codes \cup {NoCode}
    PROVE  c.percent \in BOOLEAN /\ c.value \in Nat /\ c.cap \in Nat \cup {None} /\ (c.cap # None => c.cap \in Nat)
<1>1. CASE c = NoCode
  BY <1>1 DEF NoCode
<1>2. CASE c \in Codes
  <2>1. c.percent \in BOOLEAN /\ c.value \in Values /\ c.cap \in Caps \cup {None}
    BY <1>2 DEF Codes
  <2>2. c.value \in Nat
    BY <2>1, CodeNumbers
  <2>3. c.cap \in Nat \cup {None} /\ (c.cap # None => c.cap \in Nat)
    BY <2>1, CodeNumbers
  <2>. QED BY <2>1, <2>2, <2>3
<1>. QED BY <1>1, <1>2

\* Amount takes off no more than the code says, the cap or the subtotal, and short of these
\* misses a percentage by less than a taka (discount.Amount).
THEOREM AmountRight ==
    ASSUME NEW c \in Codes \cup {NoCode}, NEW sum \in Nat
    PROVE  AmountIs(Amount(c, sum), c, sum)
<1>. DEFINE s == sum * c.value
            off == IF c.percent THEN 100 * ((s \div 100) \div 100) ELSE c.value
            capped == IF c.cap = None THEN off ELSE Smaller(off, c.cap)
            t == Larger(0, Smaller(capped, sum))
<1>1. c.percent \in BOOLEAN /\ c.value \in Nat /\ c.cap \in Nat \cup {None} /\ (c.cap # None => c.cap \in Nat)
  BY CodeParts
<1>2. s \in Nat
  <2>. DEFINE v == c.value
  <2>1. v \in Nat
    BY <1>1
  <2>. HIDE DEF v
  <2>2. sum * v \in Nat
    BY <2>1, ProductIsNat
  <2>. QED BY <2>2 DEF v
<1>3. t = Amount(c, sum)
  BY DEF Amount
<1>. HIDE DEF s
<1>4. off \in Nat
  BY <1>1, <1>2
<1>5. c.percent => off * 100 <= s /\ off % 100 = 0 /\ (off + 100) * 100 > s
  <2>. DEFINE d == s \div 100
              e == d \div 100
  <2>1. d \in Nat /\ d * 100 <= s /\ s < d * 100 + 100
    BY <1>2
  <2>. HIDE DEF d
  <2>2. e \in Nat /\ e * 100 <= d /\ d < e * 100 + 100
    BY <2>1
  <2>. HIDE DEF e
  <2>3. (100 * e) * 100 <= s /\ (100 * e) % 100 = 0 /\ (100 * e + 100) * 100 > s
    BY <1>2, <2>1, <2>2
  <2>. QED BY <2>3 DEF e, d
<1>6. ~c.percent => off = c.value
  OBVIOUS
<1>. HIDE DEF off
<1>7. /\ capped \in Nat /\ capped <= off
      /\ c.cap # None => capped <= c.cap
      /\ capped = off \/ capped = c.cap
  <2>1. CASE c.cap = None
    BY <1>4, <2>1
  <2>2. CASE c.cap # None
    BY <1>1, <1>4, <2>2 DEF Smaller
  <2>. QED BY <2>1, <2>2
<1>. HIDE DEF capped
<1>8. /\ t \in Nat /\ t <= sum /\ t <= capped
      /\ t = sum \/ t = capped
  BY <1>7 DEF Smaller, Larger
<1>. HIDE DEF t
<1>9. t * 100 <= off * 100
  BY <1>4, <1>7, <1>8
<1>10. t * 100 <= IF c.percent THEN s ELSE c.value * 100
  <2>1. CASE c.percent
    BY <1>2, <1>4, <1>5, <1>8, <1>9, <2>1
  <2>2. CASE ~c.percent
    BY <1>4, <1>6, <1>8, <1>9, <2>2
  <2>. QED BY <1>1, <2>1, <2>2
<1>11. c.cap # None => t <= c.cap
  BY <1>1, <1>7, <1>8
<1>12. \/ t = sum
       \/ t = c.cap
       \/ c.percent /\ t % 100 = 0 /\ (t + 100) * 100 > s
       \/ ~c.percent /\ t = c.value
  BY <1>5, <1>6, <1>7, <1>8
<1>. QED
  BY <1>3, <1>8, <1>10, <1>11, <1>12 DEF AmountIs, s

\* What a delivery is to cost, of a weight and a subtotal (shipping.Charge).
ChargeIs(t, z, weight, sum) ==
    \/ z.freeFrom # None /\ sum >= z.freeFrom /\ t = 0
    \/ /\ z.freeFrom # None => sum < z.freeFrom
       /\ \E kilos \in 0 .. weight :
            /\ weight <= z.upTo + kilos * 1000
            /\ kilos > 0 => weight > z.upTo + (kilos - 1) * 1000
            /\ t = z.base + kilos * z.perKg

\* The numbers of a zone.
LEMMA RateParts ==
    ASSUME NEW z \in Rates
    PROVE  z.base \in Nat /\ z.upTo \in Nat /\ z.perKg \in Nat /\ (z.freeFrom # None => z.freeFrom \in Nat)
<1>1. z.base \in Charges /\ z.upTo \in Weights /\ z.perKg \in PerKg /\ z.freeFrom \in FreeFrom \cup {None}
  BY DEF Rates
<1>2. z.base \in Nat /\ z.upTo \in Nat /\ z.perKg \in Nat
  BY <1>1, RateNumbers
<1>3. z.freeFrom # None => z.freeFrom \in Nat
  BY <1>1, RateNumbers
<1>. QED BY <1>2, <1>3

\* Charge adds the fewest kilograms that cover the weight (shipping.Charge).
THEOREM ChargeFits ==
    ASSUME NEW z \in Rates, NEW weight \in Nat, NEW sum \in Nat
    PROVE  Charge(z, weight, sum) \in Nat /\ ChargeIs(Charge(z, weight, sum), z, weight, sum)
<1>1. z.base \in Nat /\ z.upTo \in Nat /\ z.perKg \in Nat /\ (z.freeFrom # None => z.freeFrom \in Nat)
  BY RateParts
<1>2. CASE z.freeFrom # None /\ sum >= z.freeFrom
  BY <1>2 DEF Charge, ChargeIs
<1>3. CASE ~(z.freeFrom # None /\ sum >= z.freeFrom)
  <2>1. z.freeFrom # None => sum < z.freeFrom
    BY <1>1, <1>3
  <2>2. CASE weight > z.upTo
    <3>. DEFINE over == weight - z.upTo
                kilos == Kilos(over)
                extra == kilos * z.perKg
    <3>1. over \in Nat \ {0} /\ over <= weight /\ weight = z.upTo + over
      BY <1>1, <2>2
    <3>2. Charge(z, weight, sum) = z.base + extra
      BY <1>3, <2>2 DEF Charge
    <3>. HIDE DEF over
    <3>3. /\ kilos \in Nat /\ kilos <= over
          /\ over <= kilos * 1000 /\ over > (kilos - 1) * 1000
      BY <3>1 DEF Kilos
    <3>. HIDE DEF kilos
    <3>4. extra \in Nat
      <4>. DEFINE per == z.perKg
      <4>1. per \in Nat
        BY <1>1
      <4>. HIDE DEF per
      <4>2. kilos * per \in Nat
        BY <3>3, <4>1, ProductIsNat
      <4>. QED BY <4>2 DEF per
    <3>5. kilos \in 0 .. weight /\ weight <= z.upTo + kilos * 1000 /\ weight > z.upTo + (kilos - 1) * 1000
      BY <1>1, <3>1, <3>3
    <3>6. z.base + extra \in Nat
      BY <1>1, <3>4
    <3>7. \E k \in 0 .. weight :
             /\ weight <= z.upTo + k * 1000
             /\ k > 0 => weight > z.upTo + (k - 1) * 1000
             /\ Charge(z, weight, sum) = z.base + k * z.perKg
      BY <3>2, <3>5
    <3>. QED BY <2>1, <3>2, <3>6, <3>7 DEF ChargeIs
  <2>3. CASE ~(weight > z.upTo)
    <3>1. Charge(z, weight, sum) = z.base
      BY <1>3, <2>3 DEF Charge
    <3>2. 0 \in 0 .. weight /\ weight <= z.upTo + 0 * 1000 /\ z.base = z.base + 0 * z.perKg
      BY <1>1, <2>3
    <3>3. \E k \in 0 .. weight :
             /\ weight <= z.upTo + k * 1000
             /\ k > 0 => weight > z.upTo + (k - 1) * 1000
             /\ Charge(z, weight, sum) = z.base + k * z.perKg
      BY <3>1, <3>2
    <3>. QED BY <1>1, <2>1, <3>1, <3>3 DEF ChargeIs
  <2>. QED BY <2>2, <2>3
<1>. QED BY <1>2, <1>3

\* What VAT is to be, of goods and a rule (PlaceOrder).
VatIs(t, r, goods) ==
    LET of == IF r.included THEN 10000 + r.rate ELSE 10000 IN
    /\ t \in Nat
    /\ 2 * (t * of - goods * r.rate) <= of
    /\ 2 * (goods * r.rate - t * of) <= of
    /\ r.included => t <= goods

\* VAT that is in the price is at most half a poisha above its share.
NotAbove(t, rate, goods) == 2 * (t * (10000 + rate) - goods * rate) <= 10000 + rate

\* VAT that is in the prices is no more than the goods.
LEMMA IncludedFits ==
    ASSUME NEW goods \in Nat, NEW rate \in Nat, NEW t \in Nat, NotAbove(t, rate, goods)
    PROVE  t <= goods
<1>. SUFFICES ASSUME t >= goods + 1 PROVE FALSE
  OBVIOUS
<1>. DEFINE of == 10000 + rate
            x == goods * rate
<1>1. of \in Nat /\ x \in Nat
  BY ProductIsNat
<1>2. (goods + 1) * of <= t * of
  <2>. HIDE DEF of
  <2>. QED BY <1>1, ProductGrows
<1>3. (goods + 1) * of = 10000 * goods + x + 10000 + rate
  OBVIOUS
<1>. DEFINE p == t * of
<1>4. p \in Nat /\ 2 * (p - x) <= 10000 + rate
  <2>1. p \in Nat
    <3>. HIDE DEF of
    <3>. QED BY <1>1, ProductIsNat
  <2>. QED BY <2>1 DEF NotAbove
<1>5. 10000 * goods + x + 10000 + rate <= p
  BY <1>2, <1>3
<1>. HIDE DEF p, x
<1>. QED BY <1>1, <1>4, <1>5

\* The VAT is the nearest poisha to the rate's share, and never more than the goods that hold it.
THEOREM VatNearest ==
    ASSUME NEW r \in VatRules, NEW goods \in Nat
    PROVE  VatIs(VatOf(r, goods), r, goods)
<1>1. r.rate \in 0 .. 10000 /\ r.rate \in Nat /\ r.included \in BOOLEAN
  <2>1. r.rate \in VatRates /\ r.included \in BOOLEAN
    BY DEF VatRules
  <2>2. r.rate \in 0 .. 10000 /\ r.rate \in Nat
    BY <2>1, VatNumbers
  <2>. QED BY <2>1, <2>2
<1>. DEFINE rate == r.rate
            x == goods * rate
            t == VatOf(r, goods)
<1>2. rate \in 0 .. 10000 /\ rate \in Nat
  BY <1>1
<1>3. x \in Nat
  <2>. HIDE DEF rate
  <2>. QED BY <1>2, ProductIsNat
<1>4. CASE rate = 0
  <2>1. t = 0 /\ x = 0
    BY <1>4 DEF VatOf
  <2>. QED BY <1>1, <1>4, <2>1 DEF VatIs
<1>5. CASE rate # 0 /\ r.included
  <2>. DEFINE of == 10000 + rate
  <2>1. t = (x + of \div 2) \div of
    BY <1>5 DEF VatOf
  <2>2. of \in Nat \ {0}
    BY <1>2
  <2>3. t \in Nat /\ 2 * (t * of - x) <= of /\ 2 * (x - t * of) <= of
    <3>. HIDE DEF of, x, t
    <3>. QED BY <1>3, <2>1, <2>2, Nearest
  <2>4. t <= goods
    <3>1. NotAbove(t, rate, goods)
      BY <2>3 DEF NotAbove
    <3>2. t \in Nat
      BY <2>3
    <3>3. rate \in Nat
      BY <1>2
    <3>. HIDE DEF t, rate, x, of
    <3>. QED BY <3>1, <3>2, <3>3, IncludedFits
  <2>. QED BY <1>5, <2>3, <2>4 DEF VatIs
<1>6. CASE rate # 0 /\ ~r.included
  <2>1. t = (x + 10000 \div 2) \div 10000
    BY <1>6 DEF VatOf
  <2>2. t \in Nat /\ 2 * (t * 10000 - x) <= 10000 /\ 2 * (x - t * 10000) <= 10000
    <3>. HIDE DEF x, t
    <3>. QED BY <1>3, <2>1
  <2>. QED BY <1>6, <2>2 DEF VatIs
<1>. QED BY <1>1, <1>4, <1>5, <1>6

-----------------------------------------------------------------------------
(* The state. *)

\* While every line can be bought, the quote and the order weigh the same lines, and a code that
\* applies takes off its amount of the subtotal.
PricingInv ==
    /\ PricingTypeOK
    /\ sellable => cartWeight = orderWeight
    /\ billPc = "placing" /\ applies => takenOff = Amount(code, subtotal)
    /\ PricedRight

LEMMA PricingStarts == PricingInit => PricingInv
BY PricingAssumption DEF PricingInit, PricingInv, PricingTypeOK, PricedRight, NoCode

\* An order follows its bag, its code and the rules of its zone and VAT.
LEMMA PlacePriced ==
    ASSUME PricingInv, NEW z \in Rates, NEW r \in VatRules, PlaceOrder(z, r)
    PROVE  PricingInv'
<1>. DEFINE goods == subtotal - takenOff
            c == Charge(z, orderWeight, subtotal)
            v == VatOf(r, goods)
<1>1. /\ code \in Codes \cup {NoCode} /\ subtotal \in Nat /\ orderWeight \in Nat /\ cartWeight = orderWeight
      /\ takenOff = Amount(code, subtotal)
  BY DEF PricingInv, PricingTypeOK, PlaceOrder, MayPlace
<1>2. AmountIs(takenOff, code, subtotal)
  BY <1>1, AmountRight
<1>3. goods \in Nat
  <2>1. takenOff \in Nat /\ takenOff <= subtotal
    BY <1>2 DEF AmountIs
  <2>. QED BY <1>1, <2>1
<1>4. c \in Nat /\ ChargeIs(c, z, orderWeight, subtotal)
  BY <1>1, ChargeFits
<1>5. VatIs(v, r, goods)
  <2>. HIDE DEF goods
  <2>. QED BY <1>3, VatNearest
<1>6. v \in Nat
  BY <1>5 DEF VatIs
<1>. HIDE DEF c, v
<1>7. /\ billPc' = "placed" /\ zone' = z /\ vatRule' = r
      /\ charge' = c /\ vat' = v
      /\ total' = goods + c + (IF r.included THEN 0 ELSE v)
      /\ quoted' = c \/ quoted' = None
      /\ UNCHANGED <<code, lineCount, subtotal, cartWeight, orderWeight, sellable, takenOff, applies>>
  BY <1>1 DEF PlaceOrder, bagSums, discountVars, c, v
<1>8. total' \in Nat
  <2>. HIDE DEF goods
  <2>1. c \in Nat
    BY <1>4
  <2>2. goods + c + 0 \in Nat /\ goods + c + v \in Nat
    BY <1>3, <1>6, <2>1
  <2>3. total' = goods + c + 0 \/ total' = goods + c + v
    BY <1>7
  <2>. QED BY <2>2, <2>3
<1>9. PricingTypeOK'
  BY <1>4, <1>6, <1>7, <1>8 DEF PricingInv, PricingTypeOK
<1>10. DiscountRight'
  BY <1>2, <1>7 DEF DiscountRight, AmountIs
<1>11. ChargeRight'
  BY <1>4, <1>7 DEF ChargeRight, ChargeIs
<1>12. VatRight'
  BY <1>5, <1>7 DEF VatRight, VatIs
<1>13. PricedRight'
  BY <1>7, <1>10, <1>11, <1>12 DEF PricedRight
<1>. QED BY <1>1, <1>7, <1>9, <1>13 DEF PricingInv

LEMMA PricingSteps == PricingInv /\ [PricingNext]_pricingVars => PricingInv'
<1>. SUFFICES ASSUME PricingInv, [PricingNext]_pricingVars PROVE PricingInv'
  OBVIOUS
<1>1. CASE NoDiscount
  BY <1>1 DEF NoDiscount, PricingInv, PricingTypeOK, PricedRight, bagSums, discountVars, billVars
<1>2. ASSUME NEW d \in Codes, SaveDiscount(d) PROVE PricingInv'
  <2>1. d.value \in Values /\ d.cap \in Caps \cup {None} /\ d.minimum \in Minima /\ d.percent \in BOOLEAN
    BY DEF Codes
  <2>2. code' \in Codes \cup {NoCode}
    BY <1>2, <2>1 DEF SaveDiscount, Codes
  <2>. QED
    BY <1>2, <2>2 DEF SaveDiscount, PricingInv, PricingTypeOK, PricedRight, bagSums, discountVars, billVars
<1>3. ASSUME NEW unit \in Amounts, NEW pieces \in Counts, NEW weight \in Weights, NEW canBuy \in BOOLEAN,
             ReadLine(unit, pieces, weight, canBuy)
      PROVE  PricingInv'
  <2>1. unit \in Nat /\ pieces \in Nat /\ weight \in Nat
    BY LineNumbers
  <2>. DEFINE cost == unit * pieces
              grams == weight * pieces
  <2>2. cost \in Nat /\ grams \in Nat
    BY <2>1, ProductIsNat
  <2>3. /\ billPc = "reading" /\ billPc' = "reading"
        /\ lineCount < MaxLines /\ lineCount' = lineCount + 1
        /\ subtotal' = IF canBuy THEN subtotal + cost ELSE subtotal
        /\ cartWeight' = IF canBuy THEN cartWeight + grams ELSE cartWeight
        /\ orderWeight' = orderWeight + grams
        /\ sellable' = (sellable /\ canBuy)
        /\ UNCHANGED <<code, takenOff, applies, zone, vatRule, charge, vat, total, quoted>>
    BY <1>3 DEF ReadLine, discountVars, billVars
  <2>. HIDE DEF cost, grams
  <2>4. lineCount' \in 0 .. MaxLines
    BY <2>3, PricingAssumption DEF PricingInv, PricingTypeOK
  <2>5. subtotal' \in Nat /\ cartWeight' \in Nat /\ orderWeight' \in Nat
    BY <2>2, <2>3 DEF PricingInv, PricingTypeOK
  <2>6. sellable' \in BOOLEAN
    BY <2>3
  <2>7. sellable' => cartWeight' = orderWeight'
    BY <2>3 DEF PricingInv
  <2>. QED BY <2>3, <2>4, <2>5, <2>6, <2>7 DEF PricingInv, PricingTypeOK, PricedRight
<1>4. CASE PriceDiscount
  <2>. DEFINE a == Amount(code, subtotal)
  <2>1. a \in Nat
    BY AmountRight DEF PricingInv, PricingTypeOK, AmountIs
  <2>2. /\ billPc' = "placing" /\ applies' \in BOOLEAN
        /\ takenOff' = IF applies' THEN a ELSE 0
        /\ UNCHANGED <<code, lineCount, subtotal, cartWeight, orderWeight, sellable, billVars>>
    <3>. DEFINE reached == subtotal >= code.minimum
    <3>1. reached \in BOOLEAN
      OBVIOUS
    <3>2. /\ applies' = reached /\ takenOff' = IF reached THEN a ELSE 0
          /\ billPc' = "placing" /\ UNCHANGED <<code, bagSums, billVars>>
      BY <1>4 DEF PriceDiscount
    <3>. HIDE DEF a, reached
    <3>. QED BY <3>1, <3>2 DEF bagSums
  <2>3. applies' => takenOff' = Amount(code, subtotal)'
    BY <2>2
  <2>. HIDE DEF a
  <2>4. takenOff' \in Nat
    BY <2>1, <2>2
  <2>5. PricingTypeOK'
    BY <2>2, <2>4 DEF PricingInv, PricingTypeOK, billVars
  <2>. QED BY <2>2, <2>3, <2>5 DEF PricingInv, PricedRight
<1>5. ASSUME NEW z \in Rates, NEW r \in VatRules, PlaceOrder(z, r) PROVE PricingInv'
  BY <1>5, PlacePriced
<1>6. CASE UNCHANGED pricingVars
  BY <1>6 DEF pricingVars, bagSums, discountVars, billVars, PricingInv, PricingTypeOK, PricedRight,
              DiscountRight, ChargeRight, VatRight
<1>. QED BY <1>1, <1>2, <1>3, <1>4, <1>5, <1>6 DEF PricingNext

LEMMA PricingAlways == PricingSpec => []PricingInv
BY PricingStarts, PricingSteps, PTL DEF PricingSpec

\* Every amount is a number of poisha, never below nothing: what is ordered never costs less than
\* nothing either (PlaceOrder's total).
THEOREM PricingTypesCorrect == PricingSpec => []PricingTypeOK
<1>1. PricingInv => PricingTypeOK
  BY DEF PricingInv
<1>. QED BY <1>1, PricingAlways, PTL

\* Whatever codes, zones and rules of VAT the shop has and whatever the bag holds, the discount,
\* the charge, the VAT and the total of an order are right, and the charge is the one quoted.
THEOREM PricedAlways == PricingSpec => []PricedRight
<1>1. PricingInv => PricedRight
  BY DEF PricingInv
<1>. QED BY <1>1, PricingAlways, PTL
===============================================================================
