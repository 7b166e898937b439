------------------------------- MODULE Sales -------------------------------
(***************************************************************************)
(* What the shop promises of its stock, its codes and its orders, whatever *)
(* requests run side by side: an order is sold in one step, all its lines  *)
(* from what is there, at the prices of that moment and on a code that has *)
(* a use left; and a cancelled one comes back whole, in one step.          *)
(***************************************************************************)
EXTENDS Requests, Integers

CONSTANTS Variants, Codes, Orders, Prices, Deltas, MaxQty, MaxUses

VARIABLES
    price,    \* price[v], of the variants there are
    stock,    \* stock[v], of the same
    offer,    \* offer[d]: whether a code is "on", "off" or "gone"
    limit,    \* limit[d]: how often it may be used
    used,     \* used[d]: how often it was
    status,   \* status[o]: where an order is, None before it is placed
    order     \* order[o]: its lines, what was paid for each, and its code

vars == <<price, stock, offer, limit, used, status, order>>

Lines == [Variants -> 0..MaxQty]

Init ==
    /\ price \in [Variants -> Prices]
    /\ stock \in [Variants -> Nat]
    /\ offer = [d \in Codes |-> "on"]
    /\ limit \in [Codes -> 1..MaxUses]
    /\ used = [d \in Codes |-> 0]
    /\ status = [o \in Orders |-> None]
    /\ \A o \in Orders : order[o].code = None

\* Every line is there in full, and there is one.
InStock(lines) ==
    /\ \E v \in Variants : lines[v] > 0
    /\ \A v \in Variants : lines[v] > 0 => v \in DOMAIN stock /\ lines[v] <= stock[v]

HasUse(d) == offer[d] # "gone" /\ used[d] < limit[d]

\* The code that is counted need not be the one the order holds, but one goes with the other.
Sell(o, lines, code, counts) ==
    /\ status[o] = None
    /\ InStock(lines)
    /\ code # None <=> counts # None
    /\ counts # None => HasUse(counts)
    /\ status' = [status EXCEPT ![o] = "pending"]
    /\ order' = [order EXCEPT ![o] =
           [lines |-> lines, code |-> code,
            paid |-> [v \in Variants |-> IF lines[v] > 0 THEN price[v] ELSE None]]]
    /\ stock' = [v \in DOMAIN stock |-> stock[v] - lines[v]]
    /\ used' = [d \in Codes |-> IF d = counts THEN used[d] + 1 ELSE used[d]]
    /\ UNCHANGED <<price, offer, limit>>

\* What is still in the catalog comes back.
TakeBack(o) ==
    /\ status[o] \in {"pending", "confirmed", "packed"}
    /\ status' = [status EXCEPT ![o] = "cancelled"]
    /\ stock' = [v \in DOMAIN stock |-> stock[v] + order[o].lines[v]]
    /\ UNCHANGED <<price, offer, limit, used, order>>

Onward(from) ==
    CASE from = "pending"   -> "confirmed"
      [] from = "confirmed" -> "packed"
      [] from = "packed"    -> "shipped"
      [] OTHER              -> "delivered"

Move(o) ==
    /\ status[o] \in {"pending", "confirmed", "packed", "shipped"}
    /\ status' = [status EXCEPT ![o] = Onward(status[o])]
    /\ UNCHANGED <<price, stock, offer, limit, used, order>>

Adjust(v, delta) ==
    /\ v \in DOMAIN stock
    /\ stock[v] + delta >= 0
    /\ stock' = [stock EXCEPT ![v] = stock[v] + delta]
    /\ UNCHANGED <<price, offer, limit, used, status, order>>

Reprice(v, p) ==
    /\ v \in DOMAIN price
    /\ price' = [price EXCEPT ![v] = p]
    /\ UNCHANGED <<stock, offer, limit, used, status, order>>

Withdraw(v) ==
    /\ v \in DOMAIN price
    /\ price' = [u \in DOMAIN price \ {v} |-> price[u]]
    /\ stock' = [u \in DOMAIN stock \ {v} |-> stock[u]]
    /\ UNCHANGED <<offer, limit, used, status, order>>

\* A code that is gone stays so.
ChangeCode(d, now, lim) ==
    /\ offer[d] # "gone"
    /\ offer' = [offer EXCEPT ![d] = now]
    /\ limit' = [limit EXCEPT ![d] = lim]
    /\ UNCHANGED <<price, stock, used, status, order>>

Next ==
    \/ \E o \in Orders, lines \in Lines, code, counts \in Codes \cup {None} :
          Sell(o, lines, code, counts)
    \/ \E o \in Orders : TakeBack(o) \/ Move(o)
    \/ \E v \in Variants, delta \in Deltas : Adjust(v, delta)
    \/ \E v \in Variants, p \in Prices : Reprice(v, p)
    \/ \E v \in Variants : Withdraw(v)
    \/ \E d \in Codes, now \in {"on", "off", "gone"}, lim \in 1..MaxUses : ChangeCode(d, now, lim)

Spec == Init /\ [][Next]_vars
=============================================================================
