------------------------------- MODULE Pricing -------------------------------
(***************************************************************************)
(* What a bag costs (loadCart, priceDiscount, discount.Amount,             *)
(* shipping.Charge and the VAT of PlaceOrder): one bag is read line by     *)
(* line, its code is taken off, and it is quoted and ordered for one zone. *)
(* Amounts are in poisha, a hundredth of a taka; weights in grams.         *)
(***************************************************************************)
EXTENDS Requests, Integers

CONSTANTS
    Values,     \* what codes take off, in percent or in poisha
    Caps,       \* the most a percentage takes off
    Minima,     \* subtotals a code asks for
    Amounts,    \* prices of variants
    Weights,    \* of variants
    Counts,     \* pieces on a line
    MaxLines,   \* lines in the bag: a bound
    Charges,    \* base charges of zones
    PerKg,      \* and what they add for a kilogram
    FreeFrom,   \* subtotals from which zones deliver free
    VatRates,   \* in basis points
    IntMax      \* the most a column of type integer holds; a larger sum is an error

ASSUME PricingAssumption ==
    /\ Values \subseteq Nat \ {0} /\ Caps \subseteq Nat \ {0} /\ Minima \subseteq Nat
    /\ Amounts \subseteq Nat /\ Weights \subseteq Nat /\ Counts \subseteq Nat \ {0}
    /\ MaxLines \in Nat /\ IntMax \in Nat
    /\ Charges \subseteq Nat /\ PerKg \subseteq Nat /\ FreeFrom \subseteq Nat
    /\ VatRates \subseteq 0 .. 10000
    /\ None \notin Int

VARIABLES
    billPc,       \* what comes next
    code,         \* the code on the bag, NoCode for none
    lineCount,    \* lines read
    subtotal,     \* loadCart's Subtotal: lines that can be bought
    cartWeight,   \* CartWeight: lines that can be bought
    orderWeight,  \* PlaceOrder's weight: all lines
    sellable,     \* whether every line can be bought
    takenOff,     \* priceDiscount's Amount
    applies,      \* and whether the code applies
    zone,         \* the zone's rate
    vatRule,      \* the shop's VAT
    charge,       \* the order's delivery charge, VAT and total
    vat,
    total,
    quoted        \* what QuoteCartShipping shows, None for an error

bagSums == <<lineCount, subtotal, cartWeight, orderWeight, sellable>>
discountVars == <<takenOff, applies>>
billVars == <<zone, vatRule, charge, vat, total, quoted>>
pricingVars == <<billPc, code, bagSums, discountVars, billVars>>

NoCode == [percent |-> FALSE, value |-> 0, cap |-> None, minimum |-> 0]
Codes == [percent : BOOLEAN, value : Values, cap : Caps \cup {None}, minimum : Minima]
Rates == [base : Charges, upTo : Weights, perKg : PerKg, freeFrom : FreeFrom \cup {None}]
VatRules == [rate : VatRates, included : BOOLEAN]

PricingInit ==
    /\ billPc = "coding"
    /\ code = NoCode
    /\ lineCount = 0 /\ subtotal = 0 /\ cartWeight = 0 /\ orderWeight = 0
    /\ sellable = TRUE
    /\ takenOff = 0 /\ applies = TRUE
    /\ zone = None /\ vatRule = None
    /\ charge = 0 /\ vat = 0 /\ total = 0
    /\ quoted = None

-----------------------------------------------------------------------------
(* The code. *)

\* saveDiscount: no percentage above 100, and a fixed amount is its own cap.  The code is on.
SaveDiscount(c) ==
    /\ billPc = "coding"
    /\ c.percent => c.value <= 100
    /\ code' = IF c.percent THEN c ELSE [percent |-> FALSE, value |-> c.value, cap |-> None, minimum |-> c.minimum]
    /\ billPc' = "reading"
    /\ UNCHANGED <<bagSums, discountVars, billVars>>

NoDiscount ==
    /\ billPc = "coding"
    /\ billPc' = "reading"
    /\ UNCHANGED <<code, bagSums, discountVars, billVars>>

Smaller(a, b) == IF a <= b THEN a ELSE b
Larger(a, b) == IF a >= b THEN a ELSE b

\* Mutant: rounded to poisha, as other amounts are.
AmountInPoisha(c, sum) ==
    LET off == IF c.percent THEN (sum * c.value) \div 100 ELSE c.value
        capped == IF c.cap = None THEN off ELSE Smaller(off, c.cap)
    IN  Larger(0, Smaller(capped, sum))

\* Amount, for a subtotal of at least the minimum.
Amount(c, sum) ==
    LET off == IF c.percent THEN 100 * (((sum * c.value) \div 100) \div 100) ELSE c.value
        capped == IF c.cap = None THEN off ELSE Smaller(off, c.cap)
    IN  Larger(0, Smaller(capped, sum))

-----------------------------------------------------------------------------
(* The bag. *)

\* loadCart's loop, the sum of CartWeight, and the loop under PlaceOrder's locks, for one line.
ReadLine(price, pieces, weight, canBuy) ==
    /\ billPc = "reading" /\ lineCount < MaxLines
    /\ lineCount' = lineCount + 1
    /\ subtotal' = IF canBuy THEN subtotal + price * pieces ELSE subtotal
    /\ cartWeight' = IF canBuy THEN cartWeight + weight * pieces ELSE cartWeight
    /\ orderWeight' = orderWeight + weight * pieces
    /\ sellable' = (sellable /\ canBuy)
    /\ UNCHANGED <<billPc, code, discountVars, billVars>>

\* priceDiscount: below its minimum a code takes nothing off.
PriceDiscount ==
    /\ billPc = "reading" /\ lineCount > 0
    /\ applies' = (subtotal >= code.minimum)
    /\ takenOff' = IF subtotal >= code.minimum THEN Amount(code, subtotal) ELSE 0
    /\ billPc' = "placing"
    /\ UNCHANGED <<code, bagSums, billVars>>

-----------------------------------------------------------------------------
(* The order. *)

Kilos(grams) == (grams + 999) \div 1000

\* Charge.
Charge(z, weight, sum) ==
    IF z.freeFrom # None /\ sum >= z.freeFrom THEN 0
    ELSE IF weight > z.upTo THEN z.base + Kilos(weight - z.upTo) * z.perKg
    ELSE z.base

VatOf(r, goods) ==
    IF r.rate = 0 THEN 0
    ELSE IF r.included THEN (goods * r.rate + (10000 + r.rate) \div 2) \div (10000 + r.rate)
    ELSE (goods * r.rate + 5000) \div 10000

\* What PlaceOrder refuses.
MayPlace == sellable /\ applies

\* QuoteCartShipping for this zone, and PlaceOrder's charge, VAT and total.
PlaceOrder(z, r) ==
    LET goods == subtotal - takenOff IN
    /\ billPc = "placing" /\ MayPlace
    /\ zone' = z /\ vatRule' = r
    /\ quoted' = IF cartWeight <= IntMax THEN Charge(z, cartWeight, subtotal) ELSE None
    /\ charge' = Charge(z, orderWeight, subtotal)
    /\ vat' = VatOf(r, goods)
    /\ total' = goods + Charge(z, orderWeight, subtotal) + (IF r.included THEN 0 ELSE VatOf(r, goods))
    /\ billPc' = "placed"
    /\ UNCHANGED <<code, bagSums, discountVars>>

PricingNext ==
    \/ NoDiscount \/ \E c \in Codes : SaveDiscount(c)
    \/ \E price \in Amounts, pieces \in Counts, weight \in Weights, canBuy \in BOOLEAN :
           ReadLine(price, pieces, weight, canBuy)
    \/ PriceDiscount
    \/ \E z \in Rates, r \in VatRules : PlaceOrder(z, r)

PricingSpec == PricingInit /\ [][PricingNext]_pricingVars

-----------------------------------------------------------------------------
(* Properties. *)

PricingTypeOK ==
    /\ billPc \in {"coding", "reading", "placing", "placed"}
    /\ code \in Codes \cup {NoCode}
    /\ lineCount \in 0 .. MaxLines
    /\ subtotal \in Nat /\ cartWeight \in Nat /\ orderWeight \in Nat
    /\ sellable \in BOOLEAN /\ applies \in BOOLEAN
    /\ takenOff \in Nat
    /\ zone \in Rates \cup {None} /\ vatRule \in VatRules \cup {None}
    /\ charge \in Nat /\ vat \in Nat /\ total \in Nat
    /\ quoted \in Nat \cup {None}

\* "A percentage is rounded down to whole taka; nothing takes off more than the subtotal", and a
\* code takes off neither more than it says nor, short of its cap and the subtotal, less.
DiscountRight ==
    LET most == IF code.percent THEN subtotal * code.value ELSE code.value * 100 IN
    /\ takenOff <= subtotal
    /\ takenOff * 100 <= most
    /\ code.cap # None => takenOff <= code.cap
    /\ \/ takenOff = subtotal
       \/ takenOff = code.cap
       \/ code.percent /\ takenOff % 100 = 0 /\ (takenOff + 100) * 100 > most
       \/ ~code.percent /\ takenOff = code.value

\* "The base charge, plus ExtraPerKg for every kilogram or part of one over the base weight;
\* nothing once the subtotal reaches FreeOver": the fewest kilograms that cover the weight.
ChargeRight ==
    \/ zone.freeFrom # None /\ subtotal >= zone.freeFrom /\ charge = 0
    \/ /\ zone.freeFrom # None => subtotal < zone.freeFrom
       /\ \E kilos \in 0 .. orderWeight :
            /\ orderWeight <= zone.upTo + kilos * 1000
            /\ kilos > 0 => orderWeight > zone.upTo + (kilos - 1) * 1000
            /\ charge = zone.base + kilos * zone.perKg

\* The VAT is the nearest poisha to the rate's share of the goods, of what they cost with it or
\* without it, and what is paid is the goods, the delivery and VAT that was not in the prices.
VatRight ==
    LET goods == subtotal - takenOff
        of == IF vatRule.included THEN 10000 + vatRule.rate ELSE 10000
    IN  /\ 2 * (vat * of - goods * vatRule.rate) <= of
        /\ 2 * (goods * vatRule.rate - vat * of) <= of
        /\ total = goods + charge + (IF vatRule.included THEN 0 ELSE vat)
        /\ vatRule.included => vat <= goods

\* An order costs what the documentation says, and its delivery what the quote said if the bag,
\* its rows and the zone have not changed since.
PricedRight ==
    billPc = "placed" =>
        /\ DiscountRight /\ ChargeRight /\ VatRight
        /\ quoted # None => charge = quoted
=============================================================================
