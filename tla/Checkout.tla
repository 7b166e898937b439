------------------------------ MODULE Checkout ------------------------------
(***************************************************************************)
(* Bags, stock, discount codes and orders: PlaceOrder and SetOrderStatus   *)
(* (httpapi/orders.go) against everything that may run beside them.        *)
(*                                                                         *)
(* Every request runs in one READ COMMITTED transaction, so each SQL       *)
(* statement reads what is committed when it starts.  A request is a       *)
(* worker; one action is one statement that reads, or that may wait for a  *)
(* row lock.  Writes that nobody can see before the commit (every row they *)
(* touch is locked) take effect in the committing action.                  *)
(***************************************************************************)
EXTENDS Requests, Integers, FiniteSets, Functions

CONSTANTS
    Carts,      \* bags (carts.id)
    Variants,   \* what is sold; ids are compared, so numbers
    Codes,      \* discount codes (discounts.id)
    Orders,     \* the orders there is room for: a bound
    Prices,     \* prices a variant may have
    Deltas,     \* stock adjustments staff may make
    MaxQty,     \* bound on a bag line (99 in the code)
    MaxStock,   \* bound on what an adjustment brings in
    MaxUses     \* bound on a code's usage_limit

Status == {"pending", "confirmed", "packed", "shipped", "delivered", "cancelled"}

ASSUME CheckoutAssumption ==
    /\ Variants \subseteq Nat
    /\ Deltas \subseteq Int
    /\ MaxQty \in Nat /\ MaxStock \in Nat /\ MaxUses \in Nat
    /\ IsFiniteSet(Variants) /\ IsFiniteSet(Codes) /\ IsFiniteSet(Orders)
    /\ None \notin Workers \cup Carts \cup Variants \cup Codes \cup Orders \cup Prices
    /\ None \notin Status

VARIABLES
    rows,     \* variants that exist
    active,   \* variants whose product is on sale (products.status = active)
    price,    \* variants.price
    stock,    \* variants.stock
    moves,    \* moves[v][o]: sum of v's stock_movements for order o (None: staff's)
    cart,     \* cart[c][v]: quantity in the bag, 0 for no line
    code,     \* carts.discount_id
    offer,    \* offer[d]: "on", "off" (inactive, not started, ended) or "gone"
    limit,    \* discounts.usage_limit
    used,     \* discounts.used_count
    status,   \* orders.status, None for an order not placed yet
    order,    \* order[o]: its lines, the prices paid and its discount code
    pc,       \* pc[w]: the statement worker w's request has come to
    task,     \* task[w]: the bag or order it works on, and the lines it read
    want,     \* want[w]: the code its bag was priced with
    onSale,   \* onSale[w]: the active variants, as its locking statement saw them
    uses,     \* uses[w]: the code whose use it counts
    lock      \* lock[w]: rows it holds, rows still to lock, and the next of these

shop  == <<rows, active, price>>
goods == <<stock, moves>>
bags  == <<cart, code>>
codes == <<offer, limit, used>>
book  == <<status, order>>
reqs  == <<pc, task, want, onSale, uses, lock>>
vars  == <<shop, goods, bags, codes, book, reqs>>

Steps == {"idle", "priced", "agreed", "locking", "counting", "writing", "returning"}

Lines == [Variants -> 0..MaxQty]

PricesSeen == [Variants -> Prices \cup {None}]

Task == [cart: Carts \cup {None}, order: Orders \cup {None}, lines: Lines, seen: PricesSeen]

Locks == [held: SUBSET Variants, todo: SUBSET Variants, next: Variants \cup {None}]

Order == [lines: Lines, paid: PricesSeen, code: Codes \cup {None}]

NoLines == [v \in Variants |-> 0]
NoPrices == [v \in Variants |-> None]
NoTask == [cart |-> None, order |-> None, lines |-> NoLines, seen |-> NoPrices]
NoLocks == [held |-> {}, todo |-> {}, next |-> None]
NoOrder == [lines |-> NoLines, paid |-> NoPrices, code |-> None]

TypeOK ==
    /\ rows \subseteq Variants
    /\ active \subseteq Variants
    /\ price \in [Variants -> Prices]
    /\ stock \in [Variants -> Nat]
    /\ moves \in [Variants -> [Orders \cup {None} -> Int]]
    /\ cart \in [Carts -> Lines]
    /\ code \in [Carts -> Codes \cup {None}]
    /\ offer \in [Codes -> {"on", "off", "gone"}]
    /\ limit \in [Codes -> 1..MaxUses]
    /\ used \in [Codes -> Nat]
    /\ status \in [Orders -> Status \cup {None}]
    /\ order \in [Orders -> Order]
    /\ pc \in [Workers -> Steps]
    /\ task \in [Workers -> Task]
    /\ want \in [Workers -> Codes \cup {None}]
    /\ onSale \in [Workers -> SUBSET Variants]
    /\ uses \in [Workers -> Codes \cup {None}]
    /\ lock \in [Workers -> Locks]

\* A request at work knows the bag or the order it is about.
AtWork ==
    \A w \in Workers :
        /\ pc[w] = "idle" => task[w] = NoTask /\ lock[w] = NoLocks
        /\ pc[w] = "returning" => task[w].order \in Orders
        /\ pc[w] \notin {"idle", "returning"} => task[w].cart \in Carts /\ task[w].order = None
        /\ pc[w] = "counting" => uses[w] \in Codes

\* The catalog as first saved: every variant's opening stock is recorded as "initial".
Init ==
    /\ rows = Variants
    /\ active = Variants
    /\ price \in [Variants -> Prices]
    /\ stock = [v \in Variants |-> MaxStock]
    /\ moves = [v \in Variants |-> [o \in Orders \cup {None} |-> IF o = None THEN MaxStock ELSE 0]]
    /\ cart = [c \in Carts |-> NoLines]
    /\ code = [c \in Carts |-> None]
    /\ offer = [d \in Codes |-> "on"]
    /\ limit \in [Codes -> 1..MaxUses]
    /\ used = [d \in Codes |-> 0]
    /\ status = [o \in Orders |-> None]
    /\ order = [o \in Orders |-> NoOrder]
    /\ pc = [w \in Workers |-> "idle"]
    /\ task = [w \in Workers |-> NoTask]
    /\ want = [w \in Workers |-> None]
    /\ onSale = [w \in Workers |-> {}]
    /\ uses = [w \in Workers |-> None]
    /\ lock = [w \in Workers |-> NoLocks]

-----------------------------------------------------------------------------
(* Requests and row locks. *)

Bought(lines) == {v \in Variants : lines[v] > 0}

Goto(w, step) == pc' = [pc EXCEPT ![w] = step]

\* Mutant: a failed request's connection goes back to the pool with its locks.
FinishKeepingLocks(w) ==
    /\ Goto(w, "idle")
    /\ task' = [task EXCEPT ![w] = NoTask]
    /\ want' = [want EXCEPT ![w] = None]
    /\ onSale' = [onSale EXCEPT ![w] = {}]
    /\ uses' = [uses EXCEPT ![w] = None]
    /\ lock' = [lock EXCEPT ![w] = [NoLocks EXCEPT !.held = lock[w].held]]

\* The transaction ends, by its commit or its rollback, and its locks with it.
Finish(w) ==
    /\ Goto(w, "idle")
    /\ task' = [task EXCEPT ![w] = NoTask]
    /\ want' = [want EXCEPT ![w] = None]
    /\ onSale' = [onSale EXCEPT ![w] = {}]
    /\ uses' = [uses EXCEPT ![w] = None]
    /\ lock' = [lock EXCEPT ![w] = NoLocks]

\* Mutants: no FOR UPDATE, a count read first and written after, a status check that is
\* not in the UPDATE.
FreeUnlocked(v) == v \in Variants
CodeFreeUnlocked(d) == d \in Codes
OrderFreeUnlocked(o) == o \in Orders

\* Nobody's open transaction has v's row locked.
Free(v) == \A w \in Workers : v \notin lock[w].held

\* Nobody's open transaction has counted a use of d.
CodeFree(d) == \A w \in Workers : ~(pc[w] = "writing" /\ uses[w] = d)

\* Nobody's open transaction is cancelling o.
OrderFree(o) == \A w \in Workers : task[w].order # o

\* Mutant: FOR UPDATE without ORDER BY id.
LeastUnordered(S) == S

\* Locked in id order, so two checkouts sharing products never wait in a circle.
Least(S) == {v \in S : \A u \in S : v <= u}

\* The rows a worker has still to lock after the one it waits for.
Rest(w) == lock[w].todo \ {lock[w].next}

\* Waits for the next row of todo, one of first.
Await(w, held, todo, first) ==
    \E n \in IF todo = {} THEN {None} ELSE first :
        lock' = [lock EXCEPT ![w] = [held |-> held, todo |-> todo, next |-> n]]

\* Takes the row the worker waits for, if it still exists, and turns to one of following.
TakeLock(w, following) ==
    LET v == lock[w].next
        held == lock[w].held
    IN  /\ v # None
        /\ Free(v)
        /\ Await(w, IF v \in rows THEN held \cup {v} ELSE held, Rest(w), following)

\* Mutant: the movement of a cancellation written with the sign of an order's.
RecordTaken(o, lines, sign) ==
    moves' = [v \in Variants |-> [moves[v] EXCEPT ![o] = moves[v][o] - lines[v]]]

\* OrderStockMovement for each line: the quantity leaves (-1) or comes back (1).
Record(o, lines, sign) ==
    moves' = [v \in Variants |-> [moves[v] EXCEPT ![o] = moves[v][o] + sign * lines[v]]]

\* Mutant: the count is set, not raised.
CountedFirst(d, use) == IF d = use THEN 1 ELSE used[d]

\* UseDiscount's new count, once committed.
Counted(d, use) == IF d = use THEN used[d] + 1 ELSE used[d]

-----------------------------------------------------------------------------
(* PlaceOrder. *)

\* Bound: a checkout begins only while there is an order left for it.
Room == Cardinality({o \in Orders : status[o] = None})
          > Cardinality({w \in Workers : task[w].cart # None})

\* CartLines: the bag at today's prices; every line must be purchasable.
PriceLines(w, c) ==
    LET bag == Bought(cart[c]) IN
    /\ pc[w] = "idle"
    /\ Room
    /\ bag # {}
    /\ bag \subseteq rows \cap active
    /\ \A v \in bag : stock[v] >= cart[c][v]
    /\ Goto(w, "priced")
    /\ task' = [task EXCEPT ![w] =
           [cart |-> c, order |-> None, lines |-> cart[c],
            seen |-> [v \in Variants |-> IF v \in bag THEN price[v] ELSE None]]]
    /\ UNCHANGED <<shop, goods, bags, codes, book, want, onSale, uses, lock>>

Usable(d) == offer[d] = "on" /\ used[d] < limit[d]

\* CartDiscount, a second read: the code must apply now.  A code that is usable may still
\* be refused, the bag being under its minimum.
PriceDiscount(w) ==
    LET d == code[task[w].cart] IN
    /\ pc[w] = "priced"
    /\ \/ /\ d = None \/ (d # None /\ Usable(d))
          /\ Goto(w, "agreed")
          /\ want' = [want EXCEPT ![w] = d]
          /\ UNCHANGED <<task, onSale, uses, lock>>
       \/ /\ d # None
          /\ Finish(w)
    /\ UNCHANGED <<shop, goods, bags, codes, book>>

\* LockOrderVariants starts: the products' statuses are the ones committed now, since
\* only the variants' rows are locked and read again.
StartLocking(w) ==
    LET bag == Bought(task[w].lines) IN
    /\ pc[w] = "agreed"
    /\ Goto(w, "locking")
    /\ onSale' = [onSale EXCEPT ![w] = active]
    /\ Await(w, {}, bag, Least(bag))
    /\ UNCHANGED <<shop, goods, bags, codes, book, task, want, uses>>

LockVariant(w) ==
    /\ pc[w] = "locking"
    /\ TakeLock(w, Least(Rest(w)))
    /\ UNCHANGED <<shop, goods, bags, codes, book, pc, task, want, onSale, uses>>

\* What was priced still is so under the locks, and there is enough of everything.
NothingMoved(w) ==
    \A v \in Bought(task[w].lines) :
        /\ v \in lock[w].held \cap onSale[w]
        /\ price[v] = task[w].seen[v]
        /\ stock[v] >= task[w].lines[v]

\* With every row locked: NothingMoved, and (CartDiscount again) the bag still has a code
\* if it had one.  That code, whichever it is by now, is the one to count.
CheckLocked(w) ==
    LET dc == code[task[w].cart] IN
    /\ pc[w] = "locking"
    /\ lock[w].next = None
    /\ \/ /\ NothingMoved(w)
          /\ \/ /\ want[w] = None
                /\ Goto(w, "writing")
                /\ UNCHANGED uses
             \/ /\ want[w] # None /\ dc # None
                /\ Goto(w, "counting")
                /\ uses' = [uses EXCEPT ![w] = dc]
          /\ UNCHANGED <<task, want, onSale, lock>>
       \/ /\ ~NothingMoved(w) \/ (want[w] # None /\ dc = None)
          /\ Finish(w)
    /\ UNCHANGED <<shop, goods, bags, codes, book>>

\* UseDiscount: waits for the code's row, then counts only below the limit.
UseDiscount(w) ==
    LET d == uses[w]
        counts == offer[d] # "gone" /\ used[d] < limit[d]
    IN  /\ pc[w] = "counting"
        /\ CodeFree(d)
        /\ \/ counts /\ Goto(w, "writing") /\ UNCHANGED <<task, want, onSale, uses, lock>>
           \/ ~counts /\ Finish(w)
        /\ UNCHANGED <<shop, goods, bags, codes, book>>

\* CreateOrder, AddOrderItem, TakeStock, OrderStockMovement, EmptyCart and the commit.
\* TakeStock takes only what is there.
Place(w) ==
    LET t == task[w] IN
    /\ pc[w] = "writing"
    /\ \A v \in Bought(t.lines) : stock[v] >= t.lines[v]
    /\ \E o \in Orders :
          /\ status[o] = None
          /\ status' = [status EXCEPT ![o] = "pending"]
          /\ order' = [order EXCEPT ![o] =
                 [lines |-> t.lines, code |-> want[w],
                  paid |-> [v \in Variants |-> IF t.lines[v] > 0 THEN price[v] ELSE None]]]
          /\ Record(o, t.lines, -1)
    /\ stock' = [v \in Variants |-> stock[v] - t.lines[v]]
    /\ used' = [d \in Codes |-> Counted(d, uses[w])]
    /\ cart' = [cart EXCEPT ![t.cart] = NoLines]
    /\ code' = [code EXCEPT ![t.cart] = None]
    /\ Finish(w)
    /\ UNCHANGED <<shop, offer, limit>>

-----------------------------------------------------------------------------
(* SetOrderStatus. *)

NextStatuses(from) ==
    CASE from = "pending"   -> {"confirmed", "cancelled"}
      [] from = "confirmed" -> {"packed", "cancelled"}
      [] from = "packed"    -> {"shipped", "cancelled"}
      [] from = "shipped"   -> {"delivered"}
      [] OTHER              -> {}

\* One statement: the caller's status must be the order's, so a stale one changes nothing.
MoveOrder(o, to) ==
    /\ to \in NextStatuses(status[o]) \ {"cancelled"}
    /\ OrderFree(o)
    /\ status' = [status EXCEPT ![o] = to]
    /\ UNCHANGED <<shop, goods, bags, codes, order, reqs>>

\* The same statement locks the order's row; OrderItems then gives the lines whose
\* variant still exists, in the order they had in the bag.
BeginCancel(w, o) ==
    LET lines == [v \in Variants |-> IF v \in rows THEN order[o].lines[v] ELSE 0]
        back == Bought(lines)
    IN  /\ pc[w] = "idle"
        /\ "cancelled" \in NextStatuses(status[o])
        /\ OrderFree(o)
        /\ Goto(w, "returning")
        /\ task' = [task EXCEPT ![w] =
               [cart |-> None, order |-> o, lines |-> lines, seen |-> NoPrices]]
        /\ Await(w, {}, back, back)
        /\ UNCHANGED <<shop, goods, bags, codes, book, want, onSale, uses>>

\* ReturnStock and its movement, line by line.  A variant deleted in between has no row to
\* refer to, and the whole request fails.
ReturnStock(w) ==
    /\ pc[w] = "returning"
    /\ \/ /\ lock[w].next \notin Variants \ rows
          /\ TakeLock(w, Rest(w))
          /\ UNCHANGED <<pc, task, want, onSale, uses>>
       \/ /\ lock[w].next \in Variants \ rows
          /\ Finish(w)
    /\ UNCHANGED <<shop, goods, bags, codes, book>>

Cancel(w) ==
    LET t == task[w] IN
    /\ pc[w] = "returning"
    /\ lock[w].next = None
    /\ status' = [status EXCEPT ![t.order] = "cancelled"]
    /\ stock' = [v \in Variants |-> stock[v] + t.lines[v]]
    /\ Record(t.order, t.lines, 1)
    /\ Finish(w)
    /\ UNCHANGED <<shop, bags, codes, order>>

-----------------------------------------------------------------------------
(* Rolled-back requests. *)

\* No delivery to the district, a lost connection, a cancelled request, a crash.
Abort(w) ==
    /\ pc[w] # "idle"
    /\ Finish(w)
    /\ UNCHANGED <<shop, goods, bags, codes, book>>

Waits(w1, w2) == lock[w1].next # None /\ lock[w1].next \in lock[w2].held

\* Every worker of W waits for a worker of W.
Circle(W) == W # {} /\ \A w1 \in W : \E w2 \in W : Waits(w1, w2)

\* PostgreSQL ends one of the transactions that wait for each other.
DeadlockVictim(w) ==
    /\ \E W \in SUBSET Workers : w \in W /\ Circle(W)
    /\ Finish(w)
    /\ UNCHANGED <<shop, goods, bags, codes, book>>

-----------------------------------------------------------------------------
(* What shoppers and staff do beside them, each in one statement that changes rows. *)

\* SetCartItem: the stock check is a read of its own and promises nothing later.
SetCartItem(c, v, q) ==
    /\ q > 0 => v \in rows \cap active /\ stock[v] >= q
    /\ cart' = [cart EXCEPT ![c] = [cart[c] EXCEPT ![v] = q]]
    /\ UNCHANGED <<shop, goods, code, codes, book, reqs>>

ApplyCartDiscount(c, d) ==
    /\ Usable(d)
    /\ code' = [code EXCEPT ![c] = d]
    /\ UNCHANGED <<shop, goods, cart, codes, book, reqs>>

RemoveCartDiscount(c) ==
    /\ code' = [code EXCEPT ![c] = None]
    /\ UNCHANGED <<shop, goods, cart, codes, book, reqs>>

\* saveDiscount on an existing code, or its clock starting or ending it; the used count
\* is kept.
SaveDiscount(d, on, lim) ==
    /\ offer[d] # "gone"
    /\ CodeFree(d)
    /\ offer' = [offer EXCEPT ![d] = on]
    /\ limit' = [limit EXCEPT ![d] = lim]
    /\ UNCHANGED <<shop, goods, bags, used, book, reqs>>

\* Bags that had the code lose it (ON DELETE SET NULL).
DeleteDiscount(d) ==
    /\ offer[d] # "gone"
    /\ CodeFree(d)
    /\ offer' = [offer EXCEPT ![d] = "gone"]
    /\ code' = [c \in Carts |-> IF code[c] = d THEN None ELSE code[c]]
    /\ UNCHANGED <<shop, goods, cart, limit, used, book, reqs>>

\* UpdateVariant, as a product form is saved: it sets the price and never the stock.
SavePrice(v, p) ==
    /\ v \in rows
    /\ Free(v)
    /\ price' = [price EXCEPT ![v] = p]
    /\ UNCHANGED <<rows, active, goods, bags, codes, book, reqs>>

\* UpdateProduct: the product's status; its row is not one a checkout locks.
SaveStatus(v, on) ==
    /\ v \in rows
    /\ active' = IF on THEN active \cup {v} ELSE active \ {v}
    /\ UNCHANGED <<rows, price, goods, bags, codes, book, reqs>>

\* DeleteVariantsExcept, DeleteProduct: its bag lines and movements go with it.
DeleteVariant(v) ==
    /\ v \in rows
    /\ Free(v)
    /\ rows' = rows \ {v}
    /\ active' = active \ {v}
    /\ cart' = [c \in Carts |-> [cart[c] EXCEPT ![v] = 0]]
    /\ UNCHANGED <<price, goods, code, codes, book, reqs>>

\* Mutant: the UPDATE without its stock + delta >= 0.
AdjustableBlindly(v, delta) == stock[v] + delta <= MaxStock

\* MaxStock is a bound of the model.
Adjustable(v, delta) == stock[v] + delta \in 0..MaxStock

\* AdjustStock: refused when it would take away more than there is.
AdjustStock(v, delta) ==
    /\ v \in rows
    /\ Free(v)
    /\ delta # 0
    /\ Adjustable(v, delta)
    /\ stock' = [stock EXCEPT ![v] = stock[v] + delta]
    /\ moves' = [moves EXCEPT ![v] = [moves[v] EXCEPT ![None] = moves[v][None] + delta]]
    /\ UNCHANGED <<shop, bags, codes, book, reqs>>

-----------------------------------------------------------------------------
\* What a request does by itself once it has begun.
Step(w) ==
    \/ PriceDiscount(w) \/ StartLocking(w) \/ LockVariant(w) \/ CheckLocked(w)
    \/ UseDiscount(w) \/ Place(w) \/ ReturnStock(w) \/ Cancel(w)

Begin(w) ==
    \/ \E c \in Carts : PriceLines(w, c)
    \/ \E o \in Orders : BeginCancel(w, o)

Staff ==
    \/ \E o \in Orders, to \in Status : MoveOrder(o, to)
    \/ \E d \in Codes, on \in {"on", "off"}, lim \in 1..MaxUses : SaveDiscount(d, on, lim)
    \/ \E d \in Codes : DeleteDiscount(d)
    \/ \E v \in Variants, p \in Prices : SavePrice(v, p)
    \/ \E v \in Variants, on \in BOOLEAN : SaveStatus(v, on)
    \/ \E v \in Variants : DeleteVariant(v)
    \/ \E v \in Variants, delta \in Deltas : AdjustStock(v, delta)

Shopper ==
    \/ \E c \in Carts, v \in Variants, q \in 0..MaxQty : SetCartItem(c, v, q)
    \/ \E c \in Carts, d \in Codes : ApplyCartDiscount(c, d)
    \/ \E c \in Carts : RemoveCartDiscount(c)

Next ==
    \/ \E w \in Workers : Begin(w) \/ Step(w) \/ Abort(w) \/ DeadlockVictim(w)
    \/ Staff
    \/ Shopper

Spec == Init /\ [][Next]_vars

\* A server that is up runs every request on; a lock that keeps coming free is won
\* (PostgreSQL queues the waiters); a circle of waiters is broken.
Fairness == \A w \in Workers : SF_vars(Step(w)) /\ WF_vars(DeadlockVictim(w))

FairSpec == Spec /\ Fairness

-----------------------------------------------------------------------------
(* Properties. *)

Total(f) == FoldFunction(LAMBDA a, b : a + b, 0, f)

\* A variant's stock is the sum of its movements, whatever requests run side by side and
\* whichever of them roll back ("so a count can always be explained").
StockExplained == \A v \in rows : stock[v] = Total(moves[v])

\* An order's movements are its lines while it stands and come to nothing once it is
\* cancelled: stock leaves once, comes back once, and never for half an order.
OrderMovesMatch ==
    \A o \in Orders, v \in rows :
        moves[v][o] = IF status[o] \in {None, "cancelled"} THEN 0 ELSE -order[o].lines[v]

\* From the check under the locks to the commit, every line is still in stock at the price
\* the shopper was quoted: "stock moved under a lock" is never answered.
CheckedStillHolds ==
    \A w \in Workers : pc[w] \in {"counting", "writing"} =>
        \A v \in Bought(task[w].lines) :
            v \in rows /\ stock[v] >= task[w].lines[v] /\ price[v] = task[w].seen[v]

\* A row is locked by one request at a time, a locked row stays, and a request about to
\* commit holds every row it writes: each variant of its lines, or its order.
LockDiscipline ==
    /\ \A w, u \in Workers : w # u => /\ lock[w].held \cap lock[u].held = {}
                                      /\ task[w].order = None \/ task[w].order # task[u].order
    /\ \A w \in Workers :
          /\ lock[w].held \subseteq rows
          /\ pc[w] \in {"counting", "writing"} => Bought(task[w].lines) \subseteq lock[w].held
          /\ pc[w] = "returning" =>
                /\ "cancelled" \in NextStatuses(status[task[w].order])
                /\ \A v \in rows : task[w].lines[v] = order[task[w].order].lines[v]

\* Checkouts lock variants in id order, so they never wait for each other in a circle.
NoCheckoutCircle ==
    ~\E W \in SUBSET {w \in Workers : pc[w] = "locking"} : Circle(W)

\* However many checkouts hold one code, no use is counted beyond the limit then in force.
UseWithinLimit == [][\A d \in Codes : used'[d] > used[d] => used[d] < limit[d]]_vars

\* The requests together keep the promise of a sale: statement by statement and side by
\* side, they leave what placing and cancelling orders one after the other would.
Sale == INSTANCE Sales WITH price <- [v \in rows |-> price[v]], stock <- [v \in rows |-> stock[v]]
SalesSpec == Sale!Spec

\* Every order placed with a code counted one use of some code, and nothing else did.
UsesAreOrders == Total(used) = Cardinality({o \in Orders : order[o].code # None})

\* A request that has begun ends: a lock it waits for comes free, or it is the one that a
\* circle of waiters costs.
RequestsEnd == \A w \in Workers : pc[w] # "idle" ~> pc[w] = "idle"

\* An order's lines are the bag as it is when the order is placed.
OrderIsTheBag == [][\A w \in Workers : Place(w) => cart[task[w].cart] = task[w].lines]_vars
=============================================================================
