-------------------------- MODULE Checkout_proofs --------------------------
(* Machine-checked proofs about Checkout, for every size of its constants. *)
EXTENDS Checkout, Sums, TLAPS

USE CheckoutAssumption

\* The part of the type invariant that speaks of requests.
ReqTypeOK ==
    /\ pc \in [Workers -> Steps]
    /\ task \in [Workers -> Task]
    /\ want \in [Workers -> Codes \cup {None}]
    /\ onSale \in [Workers -> SUBSET Variants]
    /\ uses \in [Workers -> Codes \cup {None}]
    /\ lock \in [Workers -> Locks]

\* A request that ends leaves its worker idle and the others as they were.
LEMMA FinishType ==
    ASSUME ReqTypeOK, NEW w \in Workers, Finish(w)
    PROVE  ReqTypeOK'
  BY DEF ReqTypeOK, Finish, Goto, NoTask, NoLocks, NoLines, NoPrices, Task, Locks, Lines,
         PricesSeen, Steps

\* A request that comes to wait for a row keeps its types.
LEMMA AwaitType ==
    ASSUME lock \in [Workers -> Locks], NEW w \in Workers, NEW held \in SUBSET Variants,
           NEW todo \in SUBSET Variants, NEW first \in SUBSET Variants,
           Await(w, held, todo, first)
    PROVE  lock' \in [Workers -> Locks]
<1>1. PICK n \in IF todo = {} THEN {None} ELSE first :
          lock' = [lock EXCEPT ![w] = [held |-> held, todo |-> todo, next |-> n]]
  BY DEF Await
<1>2. [held |-> held, todo |-> todo, next |-> n] \in Locks
  BY DEF Locks
<1>. QED
  BY <1>1, <1>2

\* So does one that gets the row it waited for.
LEMMA TakeLockType ==
    ASSUME lock \in [Workers -> Locks], NEW w \in Workers, NEW S \in SUBSET Variants,
           TakeLock(w, S)
    PROVE  lock' \in [Workers -> Locks]
<1>1. lock[w].held \in SUBSET Variants /\ lock[w].todo \in SUBSET Variants
      /\ lock[w].next \in Variants
  BY DEF TakeLock, Locks
<1>2. Rest(w) \in SUBSET Variants
  BY <1>1 DEF Rest
<1>. DEFINE held == IF lock[w].next \in rows THEN lock[w].held \cup {lock[w].next}
                                             ELSE lock[w].held
<1>3. held \in SUBSET Variants
  BY <1>1
<1>4. Await(w, held, Rest(w), S)
  BY DEF TakeLock
<1>. QED
  BY <1>2, <1>3, <1>4, AwaitType

\* A request that ends does too.
LEMMA RestType ==
    ASSUME lock \in [Workers -> Locks], NEW w \in Workers
    PROVE  Rest(w) \in SUBSET Variants /\ Least(Rest(w)) \in SUBSET Variants
  BY DEF Rest, Locks, Least

\* The moves of stock that are recorded keep their type.
LEMMA RecordType ==
    ASSUME moves \in [Variants -> [Orders \cup {None} -> Int]],
           NEW o \in Orders, NEW lines \in Lines, NEW sign \in Int,
           Record(o, lines, sign)
    PROVE  moves' \in [Variants -> [Orders \cup {None} -> Int]]
  BY DEF Record, Lines

\* One line of a bag set to a quantity.
LEMMA LineType ==
    ASSUME cart \in [Carts -> Lines], NEW c \in Carts, NEW v \in Variants, NEW q \in 0..MaxQty
    PROVE  [cart[c] EXCEPT ![v] = q] \in Lines
  BY DEF Lines

\* Types alone are not inductive: PriceDiscount reads the code of the bag it works on.
LEMMA TypeStep == TypeOK /\ AtWork /\ [Next]_vars => TypeOK'
  <2> SUFFICES ASSUME TypeOK, AtWork, [Next]_vars PROVE TypeOK'
    OBVIOUS
  <2>0. ReqTypeOK
    BY DEF TypeOK, ReqTypeOK
  <2>1. ASSUME NEW w \in Workers, NEW c \in Carts, PriceLines(w, c) PROVE TypeOK'
    BY <2>1 DEF TypeOK, PriceLines, Goto, Task, PricesSeen, Steps,
                shop, goods, bags, codes, book
  <2>2. ASSUME NEW w \in Workers, NEW o \in Orders, BeginCancel(w, o) PROVE TypeOK'
    <3>. DEFINE lines == [v \in Variants |-> IF v \in rows THEN order[o].lines[v] ELSE 0]
    <3>1. lines \in Lines
      BY DEF TypeOK, Order, Lines
    <3>2. Bought(lines) \in SUBSET Variants
      BY DEF Bought
    <3>3. lock' \in [Workers -> Locks]
      BY <2>2, <3>2, AwaitType DEF BeginCancel, TypeOK
    <3>4. task' \in [Workers -> Task]
      BY <2>2, <3>1 DEF BeginCancel, TypeOK, Task, PricesSeen, NoPrices
    <3>. QED BY <2>2, <3>3, <3>4 DEF TypeOK, BeginCancel, Goto, Steps,
                                    shop, goods, bags, codes, book
  <2>3. ASSUME NEW w \in Workers, PriceDiscount(w) PROVE TypeOK'
    <3>1. CASE Finish(w)
      BY <2>0, <2>3, <3>1, FinishType
         DEF TypeOK, ReqTypeOK, PriceDiscount, shop, goods, bags, codes, book
    <3>2. CASE ~Finish(w)
      <4>1. code[task[w].cart] \in Codes \cup {None}
        BY <2>3 DEF TypeOK, AtWork, PriceDiscount
      <4>. QED BY <2>3, <3>2, <4>1 DEF TypeOK, PriceDiscount, Goto, Steps,
                                       shop, goods, bags, codes, book
    <3>. QED BY <3>1, <3>2
  <2>4. ASSUME NEW w \in Workers, StartLocking(w) PROVE TypeOK'
    <3>1. Bought(task[w].lines) \in SUBSET Variants
          /\ Least(Bought(task[w].lines)) \in SUBSET Variants
      BY DEF Bought, Least
    <3>2. lock' \in [Workers -> Locks]
      BY <2>4, <3>1, AwaitType DEF StartLocking, TypeOK
    <3>. QED BY <2>4, <3>2 DEF TypeOK, StartLocking, Goto, Steps, shop, goods, bags, codes, book
  <2>5. ASSUME NEW w \in Workers, LockVariant(w) PROVE TypeOK'
    BY <2>5, RestType, TakeLockType DEF TypeOK, LockVariant, shop, goods, bags, codes, book
  <2>6. ASSUME NEW w \in Workers, CheckLocked(w) PROVE TypeOK'
    <3>1. CASE Finish(w)
      BY <2>0, <2>6, <3>1, FinishType
         DEF TypeOK, ReqTypeOK, CheckLocked, shop, goods, bags, codes, book
    <3>2. CASE ~Finish(w)
      <4>1. pc' \in [Workers -> Steps]
        BY <2>6, <3>2 DEF TypeOK, CheckLocked, Goto, Steps
      <4>2. uses' \in [Workers -> Codes \cup {None}]
        BY <2>6, <3>2 DEF TypeOK, AtWork, CheckLocked
      <4>. QED BY <2>6, <3>2, <4>1, <4>2 DEF TypeOK, CheckLocked, shop, goods, bags, codes, book
    <3>. QED BY <3>1, <3>2
  <2>7. ASSUME NEW w \in Workers, UseDiscount(w) PROVE TypeOK'
    <3>1. CASE Finish(w)
      BY <2>0, <2>7, <3>1, FinishType
         DEF TypeOK, ReqTypeOK, UseDiscount, shop, goods, bags, codes, book
    <3>2. CASE ~Finish(w)
      BY <2>7, <3>2 DEF TypeOK, UseDiscount, Goto, Steps, shop, goods, bags, codes, book
    <3>. QED BY <3>1, <3>2
  <2>8. ASSUME NEW w \in Workers, Place(w) PROVE TypeOK'
    <3>1. ReqTypeOK'
      BY <2>0, <2>8, FinishType DEF Place
    <3>2. task[w].lines \in Lines
      BY DEF TypeOK, Task
    <3>3. stock' \in [Variants -> Nat]
      BY <2>8, <3>2 DEF TypeOK, Place, Lines, Bought
    <3>4. PICK o \in Orders :
              /\ status' = [status EXCEPT ![o] = "pending"]
              /\ order' = [order EXCEPT ![o] =
                    [lines |-> task[w].lines, code |-> want[w],
                     paid |-> [v \in Variants |-> IF task[w].lines[v] > 0 THEN price[v] ELSE None]]]
              /\ Record(o, task[w].lines, -1)
      BY <2>8 DEF Place
    <3>5. moves' \in [Variants -> [Orders \cup {None} -> Int]]
      BY <3>2, <3>4, -1 \in Int, RecordType DEF TypeOK
    <3>6. status' \in [Orders -> Status \cup {None}]
      BY <3>4 DEF TypeOK, Status
    <3>7. order' \in [Orders -> Order]
      BY <3>2, <3>4 DEF TypeOK, Order, PricesSeen
    <3>8. used' \in [Codes -> Nat]
      BY <2>8 DEF TypeOK, Place, Counted
    <3>9. cart' \in [Carts -> Lines] /\ code' \in [Carts -> Codes \cup {None}]
      <4>1. NoLines \in Lines
        BY DEF NoLines, Lines
      <4>. QED BY <2>8, <4>1 DEF TypeOK, Place
    <3>. QED BY <2>8, <3>1, <3>3, <3>5, <3>6, <3>7, <3>8, <3>9
             DEF TypeOK, ReqTypeOK, Place, shop
  <2>9. ASSUME NEW w \in Workers, ReturnStock(w) PROVE TypeOK'
    <3>1. CASE Finish(w)
      BY <2>0, <2>9, <3>1, FinishType
         DEF TypeOK, ReqTypeOK, ReturnStock, shop, goods, bags, codes, book
    <3>2. CASE ~Finish(w)
      BY <2>9, <3>2, RestType, TakeLockType
         DEF TypeOK, ReturnStock, shop, goods, bags, codes, book
    <3>. QED BY <3>1, <3>2
  <2>10. ASSUME NEW w \in Workers, Cancel(w) PROVE TypeOK'
    <3>1. ReqTypeOK'
      BY <2>0, <2>10, FinishType DEF Cancel
    <3>2. task[w].lines \in Lines /\ task[w].order \in Orders \cup {None}
      BY DEF TypeOK, Task
    <3>3. stock' \in [Variants -> Nat]
      BY <2>10, <3>2 DEF TypeOK, Cancel, Lines
    <3>4. moves' \in [Variants -> [Orders \cup {None} -> Int]]
      BY <2>10, <3>2 DEF TypeOK, Cancel, Record, Lines
    <3>5. status' \in [Orders -> Status \cup {None}]
      BY <2>10 DEF TypeOK, Cancel, Status
    <3>. QED BY <2>10, <3>1, <3>3, <3>4, <3>5
             DEF TypeOK, ReqTypeOK, Cancel, shop, bags, codes
  <2>11. ASSUME NEW w \in Workers, Abort(w) \/ DeadlockVictim(w) PROVE TypeOK'
    BY <2>0, <2>11, FinishType
       DEF TypeOK, ReqTypeOK, Abort, DeadlockVictim, shop, goods, bags, codes, book
  <2>12. ASSUME Staff PROVE TypeOK'
    <3>1. ASSUME NEW o \in Orders, NEW to \in Status, MoveOrder(o, to) PROVE TypeOK'
      BY <3>1 DEF TypeOK, MoveOrder, shop, goods, bags, codes, reqs
    <3>2. ASSUME NEW d \in Codes, NEW on \in {"on", "off"}, NEW lim \in 1..MaxUses,
                 SaveDiscount(d, on, lim)
          PROVE TypeOK'
      BY <3>2 DEF TypeOK, SaveDiscount, shop, goods, bags, book, reqs
    <3>3. ASSUME NEW d \in Codes, DeleteDiscount(d) PROVE TypeOK'
      BY <3>3 DEF TypeOK, DeleteDiscount, shop, goods, book, reqs
    <3>4. ASSUME NEW v \in Variants, NEW p \in Prices, SavePrice(v, p) PROVE TypeOK'
      BY <3>4 DEF TypeOK, SavePrice, goods, bags, codes, book, reqs
    <3>5. ASSUME NEW v \in Variants, NEW on \in BOOLEAN, SaveStatus(v, on) PROVE TypeOK'
      BY <3>5 DEF TypeOK, SaveStatus, goods, bags, codes, book, reqs
    <3>6. ASSUME NEW v \in Variants, DeleteVariant(v) PROVE TypeOK'
      <4>1. cart' \in [Carts -> Lines]
        BY <3>6, LineType DEF TypeOK, DeleteVariant
      <4>. QED BY <3>6, <4>1 DEF TypeOK, DeleteVariant, goods, codes, book, reqs
    <3>7. ASSUME NEW v \in Variants, NEW delta \in Deltas, AdjustStock(v, delta) PROVE TypeOK'
      <4>1. delta \in Int
        OBVIOUS
      <4>2. stock' \in [Variants -> Nat]
        BY <3>7, <4>1 DEF TypeOK, AdjustStock, Adjustable
      <4>3. moves' \in [Variants -> [Orders \cup {None} -> Int]]
        <5>1. [moves[v] EXCEPT ![None] = moves[v][None] + delta] \in [Orders \cup {None} -> Int]
          BY <4>1 DEF TypeOK
        <5>. QED BY <3>7, <5>1 DEF TypeOK, AdjustStock
      <4>. QED BY <3>7, <4>2, <4>3 DEF TypeOK, AdjustStock, shop, bags, codes, book, reqs
    <3>. QED BY <2>12, <3>1, <3>2, <3>3, <3>4, <3>5, <3>6, <3>7 DEF Staff
  <2>13. ASSUME Shopper PROVE TypeOK'
    <3>1. ASSUME NEW c \in Carts, NEW v \in Variants, NEW q \in 0..MaxQty, SetCartItem(c, v, q)
          PROVE TypeOK'
      BY <3>1, LineType DEF TypeOK, SetCartItem, shop, goods, codes, book, reqs
    <3>2. ASSUME NEW c \in Carts, NEW d \in Codes, ApplyCartDiscount(c, d) PROVE TypeOK'
      BY <3>2 DEF TypeOK, ApplyCartDiscount, shop, goods, codes, book, reqs
    <3>3. ASSUME NEW c \in Carts, RemoveCartDiscount(c) PROVE TypeOK'
      BY <3>3 DEF TypeOK, RemoveCartDiscount, shop, goods, codes, book, reqs
    <3>. QED BY <2>13, <3>1, <3>2, <3>3 DEF Shopper
  <2>14. CASE UNCHANGED vars
    BY <2>14 DEF TypeOK, vars, shop, goods, bags, codes, book, reqs
  <2>. QED
    BY <2>1, <2>2, <2>3, <2>4, <2>5, <2>6, <2>7, <2>8, <2>9, <2>10, <2>11, <2>12, <2>13,
       <2>14 DEF Next, Begin, Step

\* What a step does to another worker's request: nothing.
LEMMA OthersKeep ==
    ASSUME TypeOK, NEW w \in Workers, NEW u \in Workers, u # w, Begin(w) \/ Step(w) \/ Abort(w)
                                                               \/ DeadlockVictim(w)
    PROVE  /\ pc'[u] = pc[u]
           /\ task'[u] = task[u]
           /\ want'[u] = want[u]
           /\ onSale'[u] = onSale[u]
           /\ uses'[u] = uses[u]
           /\ lock'[u] = lock[u]
<1>. USE DEF TypeOK
<1>1. ASSUME Finish(w) PROVE UNCHANGED <<pc[u], task[u], want[u], onSale[u], uses[u], lock[u]>>
  BY <1>1 DEF Finish, Goto
<1>2. CASE Begin(w)
  BY <1>2 DEF Begin, PriceLines, BeginCancel, Goto, Await
<1>3. CASE PriceDiscount(w)
  BY <1>1, <1>3 DEF PriceDiscount, Goto
<1>4. CASE StartLocking(w)
  BY <1>4 DEF StartLocking, Goto, Await
<1>5. CASE LockVariant(w)
  BY <1>5 DEF LockVariant, TakeLock, Await
<1>6. CASE CheckLocked(w)
  BY <1>1, <1>6 DEF CheckLocked, Goto
<1>7. CASE UseDiscount(w)
  BY <1>1, <1>7 DEF UseDiscount, Goto
<1>8. CASE Place(w)
  BY <1>1, <1>8 DEF Place
<1>9. CASE ReturnStock(w)
  BY <1>1, <1>9 DEF ReturnStock, TakeLock, Await
<1>10. CASE Cancel(w)
  BY <1>1, <1>10 DEF Cancel
<1>11. CASE Abort(w) \/ DeadlockVictim(w)
  BY <1>1, <1>11 DEF Abort, DeadlockVictim
<1>. QED
  BY <1>2, <1>3, <1>4, <1>5, <1>6, <1>7, <1>8, <1>9, <1>10, <1>11 DEF Step

\* Its own worker is idle after a request ends.
LEMMA FinishIdles ==
    ASSUME TypeOK, NEW w \in Workers, Finish(w)
    PROVE  pc'[w] = "idle" /\ task'[w] = NoTask /\ lock'[w] = NoLocks
  BY DEF TypeOK, Finish, Goto

LEMMA AtWorkStep == TypeOK /\ AtWork /\ [Next]_vars => AtWork'
<1> SUFFICES ASSUME TypeOK, AtWork, [Next]_vars PROVE AtWork'
  OBVIOUS
<1>1. ASSUME NEW w \in Workers, Begin(w) \/ Step(w) \/ Abort(w) \/ DeadlockVictim(w),
             pc'[w] = "idle" => task'[w] = NoTask /\ lock'[w] = NoLocks,
             pc'[w] = "returning" => task'[w].order \in Orders,
             pc'[w] \notin {"idle", "returning"} => task'[w].cart \in Carts /\ task'[w].order = None,
             pc'[w] = "counting" => uses'[w] \in Codes
      PROVE AtWork'
  <2>1. ASSUME NEW u \in Workers PROVE u = w \/
             (pc'[u] = pc[u] /\ task'[u] = task[u] /\ uses'[u] = uses[u] /\ lock'[u] = lock[u])
    BY <1>1, OthersKeep
  <2>. QED BY <1>1, <2>1 DEF AtWork
<1>2. ASSUME NEW w \in Workers, Begin(w) \/ Step(w) \/ Abort(w) \/ DeadlockVictim(w), Finish(w)
      PROVE AtWork'
  BY <1>1, <1>2, FinishIdles
<1>3. ASSUME NEW w \in Workers, Begin(w) PROVE AtWork'
  <2>1. ASSUME NEW c \in Carts, PriceLines(w, c) PROVE AtWork'
    <3>1. pc'[w] = "priced" /\ task'[w].cart = c /\ task'[w].order = None
      BY <2>1 DEF TypeOK, PriceLines, Goto
    <3>. QED BY <1>1, <1>3, <3>1
  <2>2. ASSUME NEW o \in Orders, BeginCancel(w, o) PROVE AtWork'
    <3>1. pc'[w] = "returning" /\ task'[w].order = o
      BY <2>2 DEF TypeOK, BeginCancel, Goto
    <3>. QED BY <1>1, <1>3, <3>1
  <2>. QED BY <1>3, <2>1, <2>2 DEF Begin
<1>4. ASSUME NEW w \in Workers, Step(w), ~Finish(w) PROVE AtWork'
  <2>1. CASE PriceDiscount(w)
    BY <1>1, <1>4, <2>1 DEF TypeOK, AtWork, PriceDiscount, Goto
  <2>2. CASE StartLocking(w)
    BY <1>1, <1>4, <2>2 DEF TypeOK, AtWork, StartLocking, Goto
  <2>3. CASE LockVariant(w)
    BY <1>1, <1>4, <2>3 DEF TypeOK, AtWork, LockVariant
  <2>4. CASE CheckLocked(w)
    BY <1>1, <1>4, <2>4 DEF TypeOK, AtWork, CheckLocked, Goto
  <2>5. CASE UseDiscount(w)
    BY <1>1, <1>4, <2>5 DEF TypeOK, AtWork, UseDiscount, Goto
  <2>6. CASE ReturnStock(w)
    BY <1>1, <1>4, <2>6 DEF TypeOK, AtWork, ReturnStock
  <2>. QED BY <1>4, <2>1, <2>2, <2>3, <2>4, <2>5, <2>6 DEF Step, Place, Cancel
<1>5. ASSUME Staff \/ Shopper \/ UNCHANGED vars PROVE AtWork'
  <2>1. UNCHANGED reqs
    BY <1>5 DEF Staff, Shopper, MoveOrder, SaveDiscount, DeleteDiscount, SavePrice, SaveStatus,
                DeleteVariant, AdjustStock, SetCartItem, ApplyCartDiscount, RemoveCartDiscount,
                vars, reqs
  <2>. QED BY <2>1 DEF AtWork, reqs
<1>. QED
  BY <1>2, <1>3, <1>4, <1>5 DEF Next, Abort, DeadlockVictim

\* Every variable keeps its type in every reachable state, and a request at work knows what
\* it is about.
THEOREM TypeCorrect == Spec => [](TypeOK /\ AtWork)
<1>1. Init => TypeOK /\ AtWork
  BY DEF Init, TypeOK, AtWork, Order, Task, Locks, NoOrder, NoTask, NoLocks, NoLines, NoPrices,
         Lines, PricesSeen, Steps
<1>2. TypeOK /\ AtWork /\ [Next]_vars => TypeOK' /\ AtWork'
  BY TypeStep, AtWorkStep
<1>. QED
  BY <1>1, <1>2, PTL DEF Spec

-----------------------------------------------------------------------------
(* Locks. *)

Holding(w) ==
    /\ lock[w].held \subseteq rows
    /\ pc[w] \in {"counting", "writing"} => Bought(task[w].lines) \subseteq lock[w].held
    /\ pc[w] = "returning" =>
          /\ "cancelled" \in NextStatuses(status[task[w].order])
          /\ \A v \in rows : task[w].lines[v] = order[task[w].order].lines[v]

Apart(w, u) ==
    /\ lock[w].held \cap lock[u].held = {}
    /\ task[w].order = None \/ task[w].order # task[u].order

\* The lock discipline, one request at a time.
LEMMA LockDisciplineParts ==
    LockDiscipline <=> /\ \A w, u \in Workers : w # u => Apart(w, u)
                       /\ \A w \in Workers : Holding(w)
  BY DEF LockDiscipline, Apart, Holding

\* A request takes only rows that are free and exist, and an order that is free.
LEMMA ApartStep ==
    ASSUME TypeOK, AtWork, NEW w \in Workers, NEW u \in Workers, u # w,
           Apart(w, u), Apart(u, w), Begin(w) \/ Step(w) \/ Abort(w) \/ DeadlockVictim(w)
    PROVE  Apart(w, u)' /\ Apart(u, w)'
<1>0. lock'[u] = lock[u] /\ task'[u] = task[u]
  BY OthersKeep
<1>1. CASE Finish(w)
  BY <1>0, <1>1, FinishIdles DEF Apart, NoTask, NoLocks
<1>2. CASE Begin(w)
  BY <1>0, <1>2 DEF Begin, PriceLines, BeginCancel, Apart, OrderFree, Await, TypeOK, AtWork, NoTask,
                    NoLocks
<1>3. CASE LockVariant(w) \/ (ReturnStock(w) /\ ~Finish(w))
  <2>1. lock'[w].held \subseteq lock[w].held \cup {lock[w].next} /\ lock[w].next \notin lock[u].held
    BY <1>3 DEF LockVariant, ReturnStock, TakeLock, Await, Free, TypeOK
  <2>2. task' = task
    BY <1>3 DEF LockVariant, ReturnStock
  <2>. QED BY <1>0, <2>1, <2>2 DEF Apart
<1>4. CASE StartLocking(w)
  BY <1>0, <1>4 DEF StartLocking, Await, Apart, TypeOK
<1>5. CASE (PriceDiscount(w) \/ CheckLocked(w) \/ UseDiscount(w)) /\ ~Finish(w)
  BY <1>0, <1>5 DEF PriceDiscount, CheckLocked, UseDiscount, Apart
<1>. QED
  BY <1>1, <1>2, <1>3, <1>4, <1>5 DEF Step, Place, Cancel, Abort, DeadlockVictim

\* Its own row locks stay rows that exist, and it goes on holding what it is to write.
LEMMA HoldingStep ==
    ASSUME TypeOK, AtWork, NEW w \in Workers, Holding(w), Begin(w) \/ Step(w) \/ Abort(w)
                                                          \/ DeadlockVictim(w)
    PROVE  Holding(w)'
<1>1. CASE Finish(w)
  BY <1>1, FinishIdles DEF Holding, NoLocks
<1>2. ASSUME NEW c \in Carts, PriceLines(w, c) PROVE Holding(w)'
  <2>1. pc'[w] = "priced" /\ lock' = lock /\ rows' = rows
    BY <1>2 DEF TypeOK, PriceLines, Goto, shop
  <2>. QED BY <2>1 DEF Holding
<1>3. ASSUME NEW o \in Orders, BeginCancel(w, o) PROVE Holding(w)'
  <2>1. pc'[w] = "returning" /\ lock'[w].held = {}
    BY <1>3 DEF TypeOK, BeginCancel, Goto, Await
  <2>2. task'[w].order = o /\ status' = status /\ order' = order /\ rows' = rows
        /\ task'[w].lines = [v \in Variants |-> IF v \in rows THEN order[o].lines[v] ELSE 0]
        /\ "cancelled" \in NextStatuses(status[o])
    BY <1>3 DEF TypeOK, BeginCancel, shop, book
  <2>3. "cancelled" \in NextStatuses(status[task[w].order])'
    BY <2>2 DEF NextStatuses
  <2>4. \A v \in rows' : task'[w].lines[v] = order'[task'[w].order].lines[v]
    BY <2>2 DEF TypeOK
  <2>. QED BY <2>1, <2>3, <2>4 DEF Holding
<1>4. CASE LockVariant(w) \/ (ReturnStock(w) /\ ~Finish(w))
  <2>1. lock'[w].held \subseteq rows
    BY <1>4 DEF LockVariant, ReturnStock, TakeLock, Await, Holding, TypeOK
  <2>2. UNCHANGED <<rows, pc, task, status, order>>
    BY <1>4 DEF LockVariant, ReturnStock, shop, book
  <2>3. pc[w] \in {"locking", "returning"}
    BY <1>4 DEF LockVariant, ReturnStock
  <2>. QED BY <2>1, <2>2, <2>3 DEF Holding, NextStatuses
<1>5. CASE StartLocking(w)
  <2>1. pc'[w] = "locking" /\ lock'[w].held = {} /\ rows' = rows
    BY <1>5 DEF StartLocking, Goto, Await, TypeOK, shop
  <2>. QED BY <2>1 DEF Holding
<1>6. CASE PriceDiscount(w) /\ ~Finish(w)
  <2>1. pc'[w] = "agreed" /\ lock' = lock /\ rows' = rows
    BY <1>6 DEF PriceDiscount, Goto, TypeOK, shop
  <2>. QED BY <2>1 DEF Holding
<1>7. CASE (CheckLocked(w) \/ UseDiscount(w)) /\ ~Finish(w)
  <2>1. pc'[w] \in {"counting", "writing"} /\ UNCHANGED <<rows, lock, task>>
    BY <1>7 DEF CheckLocked, UseDiscount, Goto, TypeOK, shop
  <2>2. Bought(task[w].lines) \subseteq lock[w].held
    BY <1>7 DEF CheckLocked, UseDiscount, NothingMoved, Holding
  <2>. QED BY <2>1, <2>2 DEF Holding, Bought
<1>. QED
  BY <1>1, <1>2, <1>3, <1>4, <1>5, <1>6, <1>7
     DEF Begin, Step, Place, Cancel, Abort, DeadlockVictim

\* A step of another request leaves what this one holds as it was: an order being cancelled
\* is not moved, and no order is placed over it.
LEMMA HoldingOther ==
    ASSUME TypeOK, AtWork, NEW w \in Workers, NEW u \in Workers, u # w, Apart(u, w), Holding(u),
           Begin(w) \/ Step(w) \/ Abort(w) \/ DeadlockVictim(w)
    PROVE  Holding(u)'
<1>1. pc'[u] = pc[u] /\ task'[u] = task[u] /\ lock'[u] = lock[u]
  BY OthersKeep
<1>2. rows' = rows
  BY DEF Begin, Step, PriceLines, BeginCancel, PriceDiscount, StartLocking, LockVariant,
         CheckLocked, UseDiscount, Place, ReturnStock, Cancel, Abort, DeadlockVictim, shop
<1>3. ASSUME pc[u] = "returning"
      PROVE  status'[task[u].order] = status[task[u].order]
             /\ order'[task[u].order] = order[task[u].order]
  <2>. DEFINE o == task[u].order
  <2>1. o \in Orders /\ status[o] # None
    BY <1>3 DEF AtWork, Holding, NextStatuses, Status
  <2>2. CASE Place(w)
    BY <2>1, <2>2 DEF Place, TypeOK
  <2>3. CASE Cancel(w)
    <3>1. task[w].order # o
      BY <2>1, <2>3, <1>3 DEF Apart, AtWork, Cancel, TypeOK
    <3>. QED BY <2>1, <2>3, <3>1 DEF Cancel, TypeOK
  <2>4. CASE ~Place(w) /\ ~Cancel(w)
    <3>1. UNCHANGED <<status, order>>
      BY <2>4 DEF Begin, Step, PriceLines, BeginCancel, PriceDiscount, StartLocking, LockVariant,
         CheckLocked, UseDiscount, ReturnStock, Abort, DeadlockVictim, book
    <3>. QED BY <3>1
  <2>. QED BY <2>2, <2>3, <2>4
<1>. QED
  BY <1>1, <1>2, <1>3 DEF Holding, Bought, NextStatuses

\* Staff and shoppers touch neither a locked row nor an order being cancelled.
LEMMA HoldingStaff ==
    ASSUME TypeOK, AtWork, NEW u \in Workers, Holding(u), Staff \/ Shopper \/ UNCHANGED vars
    PROVE  Holding(u)'
<1>1. UNCHANGED reqs
  BY DEF Staff, Shopper, MoveOrder, SaveDiscount, DeleteDiscount, SavePrice, SaveStatus,
         DeleteVariant, AdjustStock, SetCartItem, ApplyCartDiscount, RemoveCartDiscount,
         vars, reqs
<1>2. ASSUME NEW v \in Variants, DeleteVariant(v) PROVE Holding(u)'
  <2>1. rows' = rows \ {v} /\ UNCHANGED <<status, order>> /\ v \notin lock[u].held
    BY <1>2 DEF DeleteVariant, Free, book
  <2>. QED BY <1>1, <2>1 DEF Holding, reqs, Bought, NextStatuses
<1>3. ASSUME NEW o \in Orders, NEW to \in Status, MoveOrder(o, to) PROVE Holding(u)'
  <2>1. task[u].order # o /\ rows' = rows /\ order' = order
        /\ status' = [status EXCEPT ![o] = to]
    BY <1>3 DEF MoveOrder, OrderFree, shop
  <2>2. pc[u] = "returning" => status'[task[u].order] = status[task[u].order]
    BY <2>1 DEF AtWork, TypeOK
  <2>. QED BY <1>1, <2>1, <2>2 DEF Holding, reqs, Bought, NextStatuses
<1>4. ASSUME UNCHANGED <<rows, status, order>> PROVE Holding(u)'
  BY <1>1, <1>4 DEF Holding, reqs, Bought, NextStatuses
<1>5. Staff => \/ UNCHANGED <<rows, status, order>>
               \/ \E v \in Variants : DeleteVariant(v)
               \/ \E o \in Orders, to \in Status : MoveOrder(o, to)
  BY DEF Staff, SaveDiscount, DeleteDiscount, SavePrice, SaveStatus, AdjustStock, shop, book
<1>6. Shopper \/ UNCHANGED vars => UNCHANGED <<rows, status, order>>
  BY DEF Shopper, SetCartItem, ApplyCartDiscount, RemoveCartDiscount, vars, shop, book
<1>. QED
  BY <1>2, <1>3, <1>4, <1>5, <1>6

LEMMA LockStep == TypeOK /\ AtWork /\ LockDiscipline /\ [Next]_vars => LockDiscipline'
<1> SUFFICES ASSUME TypeOK, AtWork, LockDiscipline, [Next]_vars PROVE LockDiscipline'
  OBVIOUS
<1>0. /\ \A w, u \in Workers : w # u => Apart(w, u)
      /\ \A w \in Workers : Holding(w)
  BY LockDisciplineParts
<1>1. ASSUME NEW w \in Workers, Begin(w) \/ Step(w) \/ Abort(w) \/ DeadlockVictim(w)
      PROVE LockDiscipline'
  <2>1. ASSUME NEW u \in Workers, NEW x \in Workers, u # x PROVE Apart(u, x)'
    <3>1. CASE u = w
      BY <1>0, <1>1, <2>1, <3>1, ApartStep
    <3>2. CASE x = w
      BY <1>0, <1>1, <2>1, <3>2, ApartStep
    <3>3. CASE u # w /\ x # w
      <4>1. lock'[u] = lock[u] /\ task'[u] = task[u] /\ lock'[x] = lock[x] /\ task'[x] = task[x]
        BY <1>1, <3>3, OthersKeep
      <4>. QED BY <1>0, <2>1, <4>1 DEF Apart
    <3>. QED BY <3>1, <3>2, <3>3
  <2>2. ASSUME NEW u \in Workers PROVE Holding(u)'
    BY <1>0, <1>1, HoldingStep, HoldingOther
  <2>. QED BY <2>1, <2>2 DEF LockDiscipline, Apart, Holding
<1>2. ASSUME Staff \/ Shopper \/ UNCHANGED vars PROVE LockDiscipline'
  <2>1. UNCHANGED reqs
    BY <1>2 DEF Staff, Shopper, MoveOrder, SaveDiscount, DeleteDiscount, SavePrice, SaveStatus,
         DeleteVariant, AdjustStock, SetCartItem, ApplyCartDiscount, RemoveCartDiscount,
         vars, reqs
  <2>2. ASSUME NEW u \in Workers, NEW x \in Workers, u # x PROVE Apart(u, x)'
    BY <1>0, <2>1, <2>2 DEF Apart, reqs
  <2>3. ASSUME NEW u \in Workers PROVE Holding(u)'
    BY <1>0, <1>2, HoldingStaff
  <2>. QED BY <2>2, <2>3 DEF LockDiscipline, Apart, Holding
<1>. QED
  BY <1>1, <1>2 DEF Next

\* A row is locked by one request at a time, and a request about to commit holds every row
\* it writes.
THEOREM LocksHold == Spec => []LockDiscipline
<1>1. Init => LockDiscipline
  BY DEF Init, LockDiscipline, NoTask, NoLocks
<1>. QED
  BY <1>1, LockStep, TypeCorrect, PTL DEF Spec

-----------------------------------------------------------------------------
(* What the locks are for. *)

Agreed(w) ==
    pc[w] \in {"counting", "writing"} =>
        \A v \in Bought(task[w].lines) :
            v \in rows /\ stock[v] >= task[w].lines[v] /\ price[v] = task[w].seen[v]

\* A request comes to its writes only through the check under the locks.
LEMMA AgreedStep ==
    ASSUME TypeOK, AtWork, NEW w \in Workers, Holding(w), Agreed(w), Begin(w) \/ Step(w)
                                                  \/ Abort(w) \/ DeadlockVictim(w)
    PROVE  Agreed(w)'
<1>1. CASE Finish(w)
  BY <1>1, FinishIdles DEF Agreed
<1>2. CASE CheckLocked(w) /\ ~Finish(w)
  <2>1. UNCHANGED <<rows, stock, price, task>> /\ NothingMoved(w)
    BY <1>2 DEF CheckLocked, shop, goods
  <2>. QED BY <2>1 DEF NothingMoved, Holding, Agreed, Bought
<1>3. CASE UseDiscount(w) /\ ~Finish(w)
  BY <1>3 DEF UseDiscount, shop, goods, Agreed, Bought
<1>4. CASE ~Finish(w) /\ ~CheckLocked(w) /\ ~UseDiscount(w)
  <2>1. pc'[w] \notin {"counting", "writing"}
    BY <1>4 DEF Begin, Step, PriceLines, BeginCancel, PriceDiscount, StartLocking, LockVariant,
                Place, ReturnStock, Cancel, Abort, DeadlockVictim, Goto, TypeOK
  <2>. QED BY <2>1 DEF Agreed
<1>. QED
  BY <1>1, <1>2, <1>3, <1>4

\* Another request takes stock only of rows it holds, so of none of this one's.
LEMMA AgreedOther ==
    ASSUME TypeOK, AtWork, NEW w \in Workers, NEW u \in Workers, u # w, Apart(u, w), Holding(u),
           Holding(w), Agreed(u), Begin(w) \/ Step(w) \/ Abort(w) \/ DeadlockVictim(w)
    PROVE  Agreed(u)'
<1>1. pc'[u] = pc[u] /\ task'[u] = task[u]
  BY OthersKeep
<1>2. UNCHANGED <<rows, price>>
  BY DEF Begin, Step, PriceLines, BeginCancel, PriceDiscount, StartLocking, LockVariant,
         CheckLocked, UseDiscount, Place, ReturnStock, Cancel, Abort, DeadlockVictim, shop
<1>3. ASSUME pc[u] \in {"counting", "writing"}, NEW v \in Bought(task[u].lines)
      PROVE  stock'[v] >= task[u].lines[v]
  <2>0. /\ v \in Variants /\ stock[v] \in Nat /\ task[u].lines[v] \in Nat
        /\ task[w].lines[v] \in Nat /\ stock[v] >= task[u].lines[v]
    <3>1. v \in Variants
      BY <1>3 DEF Bought
    <3>2. task[u].lines \in Lines /\ task[w].lines \in Lines
      BY DEF TypeOK, Task
    <3>3. stock[v] >= task[u].lines[v]
      BY <1>3 DEF Agreed
    <3>. QED BY <3>1, <3>2, <3>3 DEF TypeOK, Lines
  <2>1. CASE Place(w)
    <3>1. v \notin Bought(task[w].lines)
      BY <1>3, <2>1 DEF Holding, Apart, Place
    <3>2. task[w].lines[v] = 0
      BY <2>0, <3>1 DEF Bought
    <3>. QED BY <2>0, <2>1, <3>2 DEF Place
  <2>2. CASE Cancel(w)
    BY <2>0, <2>2 DEF Cancel
  <2>3. CASE ~Place(w) /\ ~Cancel(w)
    <3>1. stock' = stock
      BY <2>3 DEF Begin, Step, PriceLines, BeginCancel, PriceDiscount, StartLocking, LockVariant,
         CheckLocked, UseDiscount, ReturnStock, Abort, DeadlockVictim, goods
    <3>. QED BY <2>0, <3>1
  <2>. QED BY <2>1, <2>2, <2>3
<1>. QED
  BY <1>1, <1>2, <1>3 DEF Agreed, Bought

\* Staff wait for the lock before they change a price, a stock or a row.
LEMMA AgreedStaff ==
    ASSUME TypeOK, NEW u \in Workers, Holding(u), Agreed(u), Staff \/ Shopper \/ UNCHANGED vars
    PROVE  Agreed(u)'
<1>1. pc' = pc /\ task' = task
  BY DEF Staff, Shopper, MoveOrder, SaveDiscount, DeleteDiscount, SavePrice, SaveStatus,
         DeleteVariant, AdjustStock, SetCartItem, ApplyCartDiscount, RemoveCartDiscount,
         vars, reqs
<1>2. ASSUME pc[u] \in {"counting", "writing"}, NEW v \in Bought(task[u].lines)
      PROVE  stock'[v] = stock[v] /\ price'[v] = price[v] /\ (v \in rows => v \in rows')
  <2>0. v \in Variants /\ v \in lock[u].held
    BY <1>2 DEF Bought, Holding
  <2>1. ASSUME NEW x \in Variants, NEW p \in Prices, SavePrice(x, p)
        PROVE  stock'[v] = stock[v] /\ price'[v] = price[v] /\ rows' = rows
    BY <2>0, <2>1 DEF SavePrice, Free, goods, TypeOK
  <2>2. ASSUME NEW x \in Variants, DeleteVariant(x)
        PROVE  stock'[v] = stock[v] /\ price'[v] = price[v] /\ rows' = rows \ {x} /\ x # v
    BY <2>0, <2>2 DEF DeleteVariant, Free, goods
  <2>3. ASSUME NEW x \in Variants, NEW delta \in Deltas, AdjustStock(x, delta)
        PROVE  stock'[v] = stock[v] /\ price'[v] = price[v] /\ rows' = rows
    BY <2>0, <2>3 DEF AdjustStock, Free, shop, TypeOK
  <2>4. \/ UNCHANGED <<rows, price, stock>>
        \/ \E x \in Variants, p \in Prices : SavePrice(x, p)
        \/ \E x \in Variants : DeleteVariant(x)
        \/ \E x \in Variants, delta \in Deltas : AdjustStock(x, delta)
    BY DEF Staff, Shopper, MoveOrder, SaveDiscount, DeleteDiscount, SaveStatus, SetCartItem,
           ApplyCartDiscount, RemoveCartDiscount, vars, shop, goods
  <2>. QED BY <2>1, <2>2, <2>3, <2>4
<1>. QED
  BY <1>1, <1>2 DEF Agreed, Bought

\* What a checkout has checked under its locks holds until it commits: it never sells a
\* variant short, nor at a price other than the one quoted.
THEOREM CheckedHolds == Spec => []CheckedStillHolds
<1>0. CheckedStillHolds <=> \A w \in Workers : Agreed(w)
  BY DEF CheckedStillHolds, Agreed
<1>1. Init => CheckedStillHolds
  BY DEF Init, CheckedStillHolds
<1>2. TypeOK /\ AtWork /\ LockDiscipline /\ CheckedStillHolds /\ [Next]_vars
        => CheckedStillHolds'
  <2> SUFFICES ASSUME TypeOK, AtWork, LockDiscipline, CheckedStillHolds, [Next]_vars,
                      NEW u \in Workers
               PROVE  Agreed(u)'
    BY DEF CheckedStillHolds, Agreed
  <2>1. /\ \A w, x \in Workers : w # x => Apart(w, x)
        /\ \A w \in Workers : Holding(w) /\ Agreed(w)
    BY <1>0, LockDisciplineParts
  <2>2. ASSUME NEW w \in Workers, Begin(w) \/ Step(w) \/ Abort(w) \/ DeadlockVictim(w)
        PROVE  Agreed(u)'
    BY <2>1, <2>2, AgreedStep, AgreedOther
  <2>3. CASE Staff \/ Shopper \/ UNCHANGED vars
    BY <2>1, <2>3, AgreedStaff
  <2>. QED BY <2>2, <2>3 DEF Next
<1>. QED
  BY <1>1, <1>2, TypeCorrect, LocksHold, PTL DEF Spec

\* An order's stock leaves once and comes back once, whole.
THEOREM OrdersMoveOnce == Spec => []OrderMovesMatch
<1>1. Init => OrderMovesMatch
  BY DEF Init, OrderMovesMatch, NoOrder, NoLines
<1>2. TypeOK /\ AtWork /\ LockDiscipline /\ OrderMovesMatch /\ [Next]_vars => OrderMovesMatch'
  <2> SUFFICES ASSUME TypeOK, AtWork, LockDiscipline, OrderMovesMatch, [Next]_vars
               PROVE  OrderMovesMatch'
    OBVIOUS
  <2>. DEFINE Owed(o, v) == IF status[o] \in {None, "cancelled"} THEN 0 ELSE -order[o].lines[v]
  <2>1. ASSUME NEW w \in Workers, Place(w) PROVE OrderMovesMatch'
    <3>1. PICK o \in Orders :
              /\ status[o] = None
              /\ status' = [status EXCEPT ![o] = "pending"]
              /\ order' = [order EXCEPT ![o] =
                    [lines |-> task[w].lines, code |-> want[w],
                     paid |-> [v \in Variants |-> IF task[w].lines[v] > 0 THEN price[v] ELSE None]]]
              /\ Record(o, task[w].lines, -1)
      BY <2>1 DEF Place
    <3>2. rows' = rows
      BY <2>1 DEF Place, shop
    <3>3. ASSUME NEW p \in Orders, NEW v \in rows PROVE moves'[v][p] = Owed(p, v)'
      <4>1. v \in Variants /\ task[w].lines[v] \in Int
        BY DEF TypeOK, Task, Lines
      <4>2. CASE p = o
        <5>1. moves[v][o] = 0
          BY <3>1 DEF OrderMovesMatch
        <5>2. moves'[v][o] = 0 + (-1) * task[w].lines[v]
          BY <3>1, <4>1, <5>1 DEF Record, TypeOK
        <5>3. status'[o] = "pending" /\ order'[o].lines = task[w].lines
          BY <3>1 DEF TypeOK
        <5>4. "pending" # None
          BY DEF Status
        <5>. QED BY <4>1, <4>2, <5>2, <5>3, <5>4
      <4>3. CASE p # o
        <5>1. moves'[v][p] = moves[v][p]
          BY <3>1, <4>1, <4>3 DEF Record, TypeOK
        <5>2. status'[p] = status[p] /\ order'[p] = order[p]
          BY <3>1, <4>3 DEF TypeOK
        <5>. QED BY <5>1, <5>2 DEF OrderMovesMatch
      <4>. QED BY <4>2, <4>3
    <3>. QED BY <3>2, <3>3 DEF OrderMovesMatch
  <2>2. ASSUME NEW w \in Workers, Cancel(w) PROVE OrderMovesMatch'
    <3>. DEFINE o == task[w].order
    <3>1. /\ o \in Orders
          /\ status[o] \notin {None, "cancelled"}
          /\ \A v \in rows : task[w].lines[v] = order[o].lines[v]
      BY <2>2 DEF Cancel, AtWork, LockDiscipline, NextStatuses, Status
    <3>2. rows' = rows /\ order' = order /\ status' = [status EXCEPT ![o] = "cancelled"]
      BY <2>2 DEF Cancel, shop
    <3>3. ASSUME NEW p \in Orders, NEW v \in rows PROVE moves'[v][p] = Owed(p, v)'
      <4>1. v \in Variants /\ task[w].lines[v] \in Int
        BY DEF TypeOK, Task, Lines
      <4>2. CASE p = o
        <5>1. moves'[v][o] = moves[v][o] + 1 * task[w].lines[v]
          BY <2>2, <3>1, <4>1 DEF Cancel, Record, TypeOK
        <5>2. moves[v][o] = -task[w].lines[v]
          BY <3>1 DEF OrderMovesMatch
        <5>3. status'[o] = "cancelled"
          BY <3>1, <3>2 DEF TypeOK
        <5>. QED BY <4>1, <4>2, <5>1, <5>2, <5>3
      <4>3. CASE p # o
        <5>1. moves'[v][p] = moves[v][p] /\ status'[p] = status[p]
          BY <2>2, <3>1, <3>2, <4>1, <4>3 DEF Cancel, Record, TypeOK
        <5>. QED BY <3>2, <5>1 DEF OrderMovesMatch
      <4>. QED BY <4>2, <4>3
    <3>. QED BY <3>2, <3>3 DEF OrderMovesMatch
  <2>3. ASSUME NEW o \in Orders, NEW to \in Status, MoveOrder(o, to) PROVE OrderMovesMatch'
    <3>1. status[o] \notin {None, "cancelled"} /\ to \notin {None, "cancelled"}
      BY <2>3 DEF MoveOrder, NextStatuses, Status
    <3>. QED BY <2>3, <3>1 DEF MoveOrder, OrderMovesMatch, TypeOK, shop, goods
  <2>4. ASSUME NEW v \in Variants, NEW delta \in Deltas, AdjustStock(v, delta)
        PROVE  OrderMovesMatch'
    <3>1. \A u \in Variants, o \in Orders : moves'[u][o] = moves[u][o]
      BY <2>4 DEF AdjustStock, TypeOK
    <3>. QED BY <2>4, <3>1 DEF AdjustStock, OrderMovesMatch, TypeOK, shop, book
  <2>5. ASSUME NEW v \in Variants, DeleteVariant(v) PROVE OrderMovesMatch'
    BY <2>5 DEF DeleteVariant, OrderMovesMatch, goods, book
  <2>6. \/ \E w \in Workers : Place(w) \/ Cancel(w)
        \/ \E o \in Orders, to \in Status : MoveOrder(o, to)
        \/ \E v \in Variants, delta \in Deltas : AdjustStock(v, delta)
        \/ \E v \in Variants : DeleteVariant(v)
        \/ UNCHANGED <<rows, moves, status, order>>
    BY ZenonT(30) DEF Next, Begin, Step, PriceLines, BeginCancel, PriceDiscount, StartLocking, LockVariant,
           CheckLocked, UseDiscount, ReturnStock, Abort, DeadlockVictim, Staff, SaveDiscount,
           DeleteDiscount, SavePrice, SaveStatus, Shopper, SetCartItem, ApplyCartDiscount,
           RemoveCartDiscount, vars, shop, goods, book
  <2>7. CASE UNCHANGED <<rows, moves, status, order>>
    BY <2>7 DEF OrderMovesMatch
  <2>. QED BY <2>1, <2>2, <2>3, <2>4, <2>5, <2>6, <2>7
<1>. QED
  BY <1>1, <1>2, TypeCorrect, LocksHold, PTL DEF Spec
-----------------------------------------------------------------------------
(* Uses of a code. *)

\* Only a checkout past its check under the locks has a code to count, and once its use is
\* written there is still room for it.
Counts(w) ==
    /\ pc[w] \notin {"counting", "writing"} => uses[w] = None
    /\ pc[w] = "writing" /\ uses[w] \in Codes => used[uses[w]] < limit[uses[w]]

\* The code's row is locked by one request at a time.
OneCounts(w, u) ==
    pc[w] = "writing" /\ pc[u] = "writing" /\ uses[w] \in Codes => uses[w] # uses[u]

Counting ==
    /\ \A w \in Workers : Counts(w)
    /\ \A w, u \in Workers : w # u => OneCounts(w, u)

\* Only placing an order counts a use, and no request of a shopper moves a limit.
LEMMA CountKept ==
    ASSUME NEW w \in Workers, Begin(w) \/ Step(w) \/ Abort(w) \/ DeadlockVictim(w)
    PROVE  limit' = limit /\ (Place(w) \/ used' = used)
  BY DEF Begin, Step, PriceLines, BeginCancel, PriceDiscount, StartLocking, LockVariant,
         CheckLocked, UseDiscount, Place, ReturnStock, Cancel, Abort, DeadlockVictim, codes

\* A request comes to write a use by UseDiscount, which finds the code below its limit and its
\* row free.
LEMMA CountOwn ==
    ASSUME TypeOK, AtWork, NEW w \in Workers, Counts(w), Begin(w) \/ Step(w) \/ Abort(w) \/ DeadlockVictim(w)
    PROVE  /\ Counts(w)'
           /\ pc'[w] = "writing" /\ uses'[w] \in Codes =>
                \A u \in Workers \ {w} : ~(pc[u] = "writing" /\ uses[u] = uses'[w])
<1>1. CASE Finish(w)
  <2>1. pc'[w] = "idle" /\ uses'[w] = None
    BY <1>1 DEF TypeOK, Finish, Goto
  <2>. QED BY <2>1 DEF Counts
<1>2. CASE CheckLocked(w) /\ ~Finish(w)
  <2>1. UNCHANGED codes /\ pc[w] = "locking" /\ uses[w] = None
    BY <1>2 DEF CheckLocked, Counts
  <2>2. \/ pc'[w] = "writing" /\ uses'[w] = None
        \/ pc'[w] = "counting"
    BY <1>2, <2>1 DEF CheckLocked, Goto, TypeOK
  <2>. QED BY <2>2 DEF Counts
<1>3. CASE UseDiscount(w) /\ ~Finish(w)
  <2>1. /\ pc'[w] = "writing" /\ uses' = uses /\ used' = used /\ limit' = limit
        /\ used[uses[w]] < limit[uses[w]] /\ CodeFree(uses[w]) /\ pc[w] = "counting"
    BY <1>3 DEF UseDiscount, Goto, TypeOK, codes
  <2>. QED BY <2>1 DEF Counts, CodeFree
<1>4. CASE ~Finish(w) /\ ~CheckLocked(w) /\ ~UseDiscount(w)
  <2>1. /\ pc'[w] \notin {"counting", "writing"} /\ uses' = uses
        /\ pc[w] \notin {"counting", "writing"}
    BY <1>4 DEF Begin, Step, PriceLines, BeginCancel, PriceDiscount, StartLocking, LockVariant,
                Place, ReturnStock, Cancel, Abort, DeadlockVictim, Goto, TypeOK
  <2>. QED BY <2>1 DEF Counts
<1>. QED
  BY <1>1, <1>2, <1>3, <1>4

\* An order placed with one code leaves the count of every other code alone.
LEMMA CountOther ==
    ASSUME TypeOK, AtWork, NEW w \in Workers, NEW u \in Workers, u # w, Counts(u), OneCounts(u, w),
           Begin(w) \/ Step(w) \/ Abort(w) \/ DeadlockVictim(w)
    PROVE  Counts(u)'
<1>1. pc'[u] = pc[u] /\ uses'[u] = uses[u] /\ limit' = limit
  BY OthersKeep, CountKept
<1>2. ASSUME pc[u] = "writing", uses[u] \in Codes PROVE used'[uses[u]] = used[uses[u]]
  <2>1. CASE Place(w)
    BY <1>2, <2>1 DEF Place, Counted, OneCounts, TypeOK
  <2>. QED BY <2>1, CountKept
<1>. QED
  BY <1>1, <1>2 DEF Counts

\* A limit is changed only while no request has counted a use of its code.
LEMMA CountStaff ==
    ASSUME TypeOK, NEW u \in Workers, Counts(u), Staff \/ Shopper \/ UNCHANGED vars
    PROVE  Counts(u)' /\ used' = used /\ UNCHANGED <<pc, uses>>
<1>1. UNCHANGED <<pc, uses, used>>
  BY DEF Staff, Shopper, MoveOrder, SaveDiscount, DeleteDiscount, SavePrice, SaveStatus,
         DeleteVariant, AdjustStock, SetCartItem, ApplyCartDiscount, RemoveCartDiscount,
         vars, reqs, codes
<1>2. CASE limit' = limit
  BY <1>1, <1>2 DEF Counts
<1>3. ASSUME NEW d \in Codes, NEW on \in {"on", "off"}, NEW lim \in 1..MaxUses, SaveDiscount(d, on, lim)
      PROVE  Counts(u)'
  <2>1. limit' = [limit EXCEPT ![d] = lim] /\ (pc[u] = "writing" => uses[u] # d)
    BY <1>3 DEF SaveDiscount, CodeFree
  <2>2. pc[u] = "writing" /\ uses[u] \in Codes => limit'[uses[u]] = limit[uses[u]]
    BY <2>1 DEF TypeOK
  <2>. QED BY <1>1, <2>2 DEF Counts
<1>4. \/ limit' = limit
      \/ \E d \in Codes, on \in {"on", "off"}, lim \in 1..MaxUses : SaveDiscount(d, on, lim)
  BY DEF Staff, Shopper, MoveOrder, DeleteDiscount, SavePrice, SaveStatus, DeleteVariant, AdjustStock,
         SetCartItem, ApplyCartDiscount, RemoveCartDiscount, vars, codes
<1>. QED
  BY <1>1, <1>2, <1>3, <1>4

LEMMA CountingStep == TypeOK /\ AtWork /\ Counting /\ [Next]_vars => Counting'
<1> SUFFICES ASSUME TypeOK, AtWork, Counting, [Next]_vars PROVE Counting'
  OBVIOUS
<1>1. ASSUME NEW w \in Workers, Begin(w) \/ Step(w) \/ Abort(w) \/ DeadlockVictim(w)
      PROVE  Counting'
  <2>1. ASSUME NEW u \in Workers PROVE Counts(u)'
    BY <1>1, <2>1, CountOwn, CountOther DEF Counting
  <2>2. ASSUME NEW u \in Workers, NEW x \in Workers, u # x PROVE OneCounts(u, x)'
    <3>1. \A y \in Workers \ {w} : pc'[y] = pc[y] /\ uses'[y] = uses[y]
      BY <1>1, OthersKeep
    <3>2. pc'[w] = "writing" /\ uses'[w] \in Codes =>
              \A y \in Workers \ {w} : ~(pc[y] = "writing" /\ uses[y] = uses'[w])
      BY <1>1, CountOwn DEF Counting
    <3>3. u = w \/ x = w \/ OneCounts(u, x)
      BY <2>2 DEF Counting
    <3>. QED BY <2>2, <3>1, <3>2, <3>3 DEF OneCounts
  <2>. QED BY <2>1, <2>2 DEF Counting
<1>2. CASE Staff \/ Shopper \/ UNCHANGED vars
  <2>1. ASSUME NEW u \in Workers PROVE Counts(u)' /\ UNCHANGED <<pc, uses>>
    BY <1>2, CountStaff DEF Counting
  <2>2. ASSUME NEW u \in Workers, NEW x \in Workers, u # x PROVE OneCounts(u, x)'
    BY <2>1, <2>2 DEF Counting, OneCounts
  <2>. QED BY <2>1, <2>2 DEF Counting
<1>. QED
  BY <1>1, <1>2 DEF Next

\* A code is never used beyond the limit in force when its use is committed, however many
\* checkouts hold it and whatever limit staff save meanwhile (UseDiscount).
THEOREM LimitHolds == Spec => UseWithinLimit
<1>1. Init => Counting
  BY DEF Init, Counting, Counts, OneCounts
<1>2. TypeOK /\ AtWork /\ Counting /\ [Next]_vars
        => [\A d \in Codes : used'[d] > used[d] => used[d] < limit[d]]_vars
  <2> SUFFICES ASSUME TypeOK, AtWork, Counting, Next, NEW d \in Codes, used'[d] > used[d]
               PROVE  used[d] < limit[d]
    OBVIOUS
  <2>0. used[d] \in Nat
    BY DEF TypeOK
  <2>1. used' # used
    BY <2>0
  <2>2. ASSUME NEW w \in Workers, Place(w) PROVE used[d] < limit[d]
    <3>1. uses[w] = d /\ pc[w] = "writing"
      BY <2>0, <2>2 DEF Place, Counted, TypeOK
    <3>. QED BY <3>1 DEF Counting, Counts
  <2>3. ASSUME NEW w \in Workers, Begin(w) \/ Step(w) \/ Abort(w) \/ DeadlockVictim(w)
        PROVE  used[d] < limit[d]
    BY <2>1, <2>2, <2>3, CountKept
  <2>4. CASE Staff \/ Shopper
    <3>1. UNCHANGED used
      BY <2>4 DEF Staff, Shopper, MoveOrder, SaveDiscount, DeleteDiscount, SavePrice, SaveStatus,
         DeleteVariant, AdjustStock, SetCartItem, ApplyCartDiscount, RemoveCartDiscount, codes
    <3>. QED BY <2>1, <3>1
  <2>. QED BY <2>3, <2>4 DEF Next
<1>. QED
  BY <1>1, <1>2, CountingStep, TypeCorrect, PTL DEF Spec, UseWithinLimit

-----------------------------------------------------------------------------
(* No circle of checkouts. *)

\* A checkout that locks has only rows that come before the one it waits for.
InOrder(w) ==
    pc[w] = "locking" =>
        /\ lock[w].next # None => lock[w].next \in Least(lock[w].todo)
        /\ \A v \in lock[w].held, u \in lock[w].todo : v < u

\* A request that takes a row further on keeps to the order of the rows.
LEMMA InOrderOwn ==
    ASSUME TypeOK, NEW w \in Workers, InOrder(w), Begin(w) \/ Step(w) \/ Abort(w) \/ DeadlockVictim(w)
    PROVE  InOrder(w)'
<1>1. CASE StartLocking(w)
  <2> DEFINE bag == Bought(task[w].lines)
  <2>1. PICK n \in IF bag = {} THEN {None} ELSE Least(bag) :
            lock'[w] = [held |-> {}, todo |-> bag, next |-> n]
    BY <1>1 DEF StartLocking, Await, TypeOK
  <2> HIDE DEF bag
  <2> QED BY <2>1 DEF InOrder
<1>2. CASE LockVariant(w)
  <2> DEFINE v == lock[w].next
             held == IF v \in rows THEN lock[w].held \cup {v} ELSE lock[w].held
  <2>1. pc[w] = "locking" /\ v # None
    BY <1>2 DEF LockVariant, TakeLock
  <2>2. PICK n \in IF Rest(w) = {} THEN {None} ELSE Least(Rest(w)) :
            lock'[w] = [held |-> held, todo |-> Rest(w), next |-> n]
    BY <1>2 DEF LockVariant, TakeLock, Await, TypeOK
  <2>3. lock'[w].held = held /\ lock'[w].todo = Rest(w) /\ lock'[w].next = n
    BY <2>2
  <2>4. /\ v \in Least(lock[w].todo) /\ Rest(w) = lock[w].todo \ {v}
        /\ lock[w].todo \in SUBSET Nat /\ lock[w].held \in SUBSET Nat
        /\ \A x \in lock[w].held, u \in lock[w].todo : x < u
    BY <2>1 DEF InOrder, Rest, TypeOK, Locks
  <2>5. ASSUME NEW x \in held, NEW u \in Rest(w) PROVE x < u
    <3>1. CASE x = v
      BY <2>4, <3>1 DEF Least
    <3> QED BY <2>4, <3>1
  <2>6. n # None => n \in Least(Rest(w))
    BY <2>2
  <2> HIDE DEF held
  <2> QED BY <2>3, <2>5, <2>6 DEF InOrder
<1>3. CASE ~StartLocking(w) /\ ~LockVariant(w)
  <2>1. pc'[w] # "locking"
    BY <1>3 DEF Begin, Step, PriceLines, BeginCancel, PriceDiscount, CheckLocked, UseDiscount, Place,
                ReturnStock, Cancel, Abort, DeadlockVictim, Goto, Finish, TypeOK
  <2> QED BY <2>1 DEF InOrder
<1> QED
  BY <1>1, <1>2, <1>3

\* Every step keeps each request to the order of the rows.
LEMMA InOrderStep ==
    TypeOK /\ (\A w \in Workers : InOrder(w)) /\ [Next]_vars => (\A w \in Workers : InOrder(w))'
<1> SUFFICES ASSUME TypeOK, \A w \in Workers : InOrder(w), [Next]_vars, NEW u \in Workers
             PROVE  InOrder(u)'
  OBVIOUS
<1>1. ASSUME NEW w \in Workers, Begin(w) \/ Step(w) \/ Abort(w) \/ DeadlockVictim(w)
      PROVE  InOrder(u)'
  <2>1. CASE u = w
    BY <1>1, <2>1, InOrderOwn
  <2>2. CASE u # w
    BY <1>1, <2>2, OthersKeep DEF InOrder, Least
  <2> QED BY <2>1, <2>2
<1>2. CASE Staff \/ Shopper \/ UNCHANGED vars
  <2>1. UNCHANGED reqs
    BY <1>2 DEF Staff, Shopper, MoveOrder, SaveDiscount, DeleteDiscount, SavePrice, SaveStatus,
         DeleteVariant, AdjustStock, SetCartItem, ApplyCartDiscount, RemoveCartDiscount,
         vars, reqs
  <2> QED BY <2>1 DEF InOrder, Least, reqs
<1> QED
  BY <1>1, <1>2 DEF Next

\* In a circle each would wait for a row beyond the one the last of them waits for, and the
\* rows are finitely many.
LEMMA OrderedNoCircle == TypeOK /\ (\A w \in Workers : InOrder(w)) => NoCheckoutCircle
<1> SUFFICES ASSUME TypeOK, \A w \in Workers : InOrder(w),
                    NEW W \in SUBSET {w \in Workers : pc[w] = "locking"}, Circle(W)
             PROVE  FALSE
  BY DEF NoCheckoutCircle
<1> DEFINE N == {lock[w].next : w \in W}
<1>1. ASSUME NEW w \in W
      PROVE  lock[w].next \in Variants /\ \E u \in W : lock[w].next < lock[u].next
  <2>1. PICK u \in W : lock[w].next # None /\ lock[w].next \in lock[u].held
    BY DEF Circle, Waits
  <2>2. lock[u].next # None
    BY DEF Circle, Waits
  <2>3. lock[u].next \in lock[u].todo
    BY <2>2 DEF InOrder, Least
  <2>4. lock[w].next < lock[u].next
    BY <2>1, <2>3 DEF InOrder
  <2>5. lock[w].next \in Variants
    BY <2>1 DEF TypeOK, Locks
  <2> QED BY <2>4, <2>5
<1>2. N \subseteq Variants /\ N # {}
  BY <1>1 DEF Circle
<1>3. IsFiniteSet(N)
  BY <1>2, FS_Subset
<1>4. PICK m \in N : \A x \in N : x <= m
  <2> HIDE DEF N
  <2> QED BY <1>2, <1>3, Greatest
<1>5. PICK w \in W : m = lock[w].next
  BY <1>4
<1>6. PICK u \in W : lock[w].next < lock[u].next
  BY <1>1
<1>7. lock[u].next \in N /\ lock[u].next \in Nat /\ m \in Nat
  BY <1>1, <1>2, <1>4
<1> QED
  BY <1>4, <1>5, <1>6, <1>7

\* Checkouts that lock variants in id order (LockOrderVariants) never wait for each other in a
\* circle, however many there are and whatever their bags hold.
THEOREM NeverACircle == Spec => []NoCheckoutCircle
<1> DEFINE All == \A w \in Workers : InOrder(w)
<1>1. Init => All
  BY DEF Init, InOrder
<1>2. TypeOK /\ All /\ [Next]_vars => All'
  BY InOrderStep
<1>3. TypeOK /\ All => NoCheckoutCircle
  BY OrderedNoCircle
<1> HIDE DEF All
<1> QED
  BY <1>1, <1>2, <1>3, TypeCorrect, PTL DEF Spec

-----------------------------------------------------------------------------
(* Sums. *)

Whys == Orders \cup {None}

\* The reasons for which stock moves are finitely many.
LEMMA FiniteWhys == IsFiniteSet(Whys)
  BY FS_AddElement DEF Whys

\* A total is the sum over what it is of.
LEMMA TotalIs == \A f : Total(f) = SumOf(f, DOMAIN f)
  BY FoldIsSum DEF Total

Explained(v) == stock[v] = SumOf(moves[v], Whys)

AllExplained == \A v \in rows : Explained(v)

\* The stock is explained when each variant's is.
LEMMA ExplainedAll == TypeOK => (StockExplained <=> AllExplained)
<1> SUFFICES ASSUME TypeOK, NEW v \in rows PROVE Total(moves[v]) = SumOf(moves[v], Whys)
  BY DEF StockExplained, AllExplained, Explained
<1>1. DOMAIN moves[v] = Whys
  BY DEF TypeOK, Whys
<1>. QED BY <1>1, TotalIs

\* A movement for one order or staff, as large as the change of the stock, keeps it explained.
LEMMA ExplainedBy ==
    ASSUME TypeOK, TypeOK', NEW v \in Variants, NEW o \in Whys, NEW by \in Int, Explained(v),
           moves'[v] = [moves[v] EXCEPT ![o] = moves[v][o] + by],
           stock'[v] = stock[v] + by
    PROVE  Explained(v)'
<1> DEFINE f == moves[v]
           g == moves'[v]
<1>1. f \in [Whys -> Int] /\ g = [f EXCEPT ![o] = f[o] + by]
  BY DEF TypeOK, Whys
<1>2. Ints(f, Whys) /\ g[o] = f[o] + by /\ f[o] \in Int /\ \A y \in Whys \ {o} : g[y] = f[y]
  BY <1>1 DEF Ints
<1> HIDE DEF f, g
<1>3. SumOf(g, Whys) = SumOf(f, Whys) + (g[o] - f[o])
  BY <1>2, FiniteWhys, SumChange
<1>4. SumOf(f, Whys) \in Int
  BY <1>2, FiniteWhys, SumType
<1> QED
  BY <1>2, <1>3, <1>4 DEF Explained, f, g

\* What is on the shelf is always the sum of what has moved ("so a count can always be
\* explained"), whatever orders, cancellations and adjustments run side by side.
THEOREM StockAlwaysExplained == Spec => []StockExplained
<1>1. Init => StockExplained
  <2> SUFFICES ASSUME Init, NEW v \in Variants PROVE Total(moves[v]) = stock[v]
    BY DEF StockExplained, Init
  <2> DEFINE f == moves[v]
             zero == [o \in Whys |-> 0]
  <2>1. /\ DOMAIN f = Whys /\ None \in Whys /\ f[None] = MaxStock /\ stock[v] = MaxStock
        /\ \A o \in Whys \ {None} : f[o] = 0
    BY DEF Init, Whys
  <2>2. Ints(zero, Whys) /\ zero[None] = 0 /\ \A o \in Whys \ {None} : f[o] = zero[o]
    BY <2>1 DEF Ints
  <2>3. SumOf(zero, Whys) = 0
    BY FiniteWhys, SumZero
  <2> HIDE DEF f, zero
  <2>4. SumOf(f, Whys) = SumOf(zero, Whys) + (f[None] - zero[None])
    BY <2>1, <2>2, FiniteWhys, SumChange
  <2>5. Total(f) = SumOf(f, Whys)
    BY <2>1, TotalIs
  <2> QED BY <2>1, <2>2, <2>3, <2>4, <2>5 DEF f
<1>2. TypeOK /\ AtWork /\ TypeOK' /\ AllExplained /\ [Next]_vars => AllExplained'
  <2> SUFFICES ASSUME TypeOK, AtWork, TypeOK', AllExplained, [Next]_vars, NEW v \in rows'
               PROVE  Explained(v)'
    BY DEF AllExplained
  <2>0. rows' \subseteq rows /\ v \in rows /\ v \in Variants /\ Explained(v)
    <3>1. rows' \subseteq rows
      BY DEF Next, Begin, Step, PriceLines, BeginCancel, PriceDiscount, StartLocking, LockVariant,
           CheckLocked, UseDiscount, Place, ReturnStock, Cancel, Abort, DeadlockVictim, Staff, MoveOrder,
           SaveDiscount, DeleteDiscount, SavePrice, SaveStatus, DeleteVariant, AdjustStock, Shopper,
           SetCartItem, ApplyCartDiscount, RemoveCartDiscount, vars, shop
    <3> QED BY <3>1 DEF TypeOK, AllExplained
  <2>1. ASSUME NEW w \in Workers, Place(w) PROVE Explained(v)'
    <3>1. PICK o \in Orders : Record(o, task[w].lines, -1)
      BY <2>1 DEF Place
    <3>2. task[w].lines[v] \in Int /\ stock[v] \in Int
      <4>1. task[w] \in Task /\ stock[v] \in Nat /\ MaxQty \in Nat
        BY <2>0, <2>1, CheckoutAssumption DEF TypeOK
      <4>2. task[w].lines \in [Variants -> 0..MaxQty]
        BY <4>1 DEF Task, Lines
      <4>3. v \in Variants
        BY <2>0
      <4>4. task[w].lines[v] \in 0..MaxQty
        BY ONLY <4>2, <4>3
      <4> QED BY ONLY <4>1, <4>4
    <3>3. stock'[v] = stock[v] + (-1) * task[w].lines[v]
      BY <2>0, <2>1, <3>2 DEF Place
    <3>4. moves'[v] = [moves[v] EXCEPT ![o] = moves[v][o] + (-1) * task[w].lines[v]]
      BY <2>0, <3>1 DEF Record
    <3>5. (-1) * task[w].lines[v] \in Int /\ o \in Whys
      BY <3>2 DEF Whys
    <3> QED BY <2>0, <3>3, <3>4, <3>5, ExplainedBy
  <2>2. ASSUME NEW w \in Workers, Cancel(w) PROVE Explained(v)'
    <3> DEFINE o == task[w].order
    <3>1. o \in Whys /\ Record(o, task[w].lines, 1)
      BY <2>2 DEF Cancel, AtWork, Whys
    <3>2. task[w].lines[v] \in Int /\ stock[v] \in Int
      <4>1. task[w] \in Task /\ stock[v] \in Nat /\ MaxQty \in Nat
        BY <2>0, <2>2, CheckoutAssumption DEF TypeOK
      <4>2. task[w].lines \in [Variants -> 0..MaxQty]
        BY <4>1 DEF Task, Lines
      <4>3. v \in Variants
        BY <2>0
      <4>4. task[w].lines[v] \in 0..MaxQty
        BY ONLY <4>2, <4>3
      <4> QED BY ONLY <4>1, <4>4
    <3>3. stock'[v] = stock[v] + 1 * task[w].lines[v]
      BY <2>0, <2>2, <3>2 DEF Cancel
    <3>4. moves'[v] = [moves[v] EXCEPT ![o] = moves[v][o] + 1 * task[w].lines[v]]
      BY <2>0, <3>1 DEF Record
    <3>5. 1 * task[w].lines[v] \in Int
      BY <3>2
    <3> HIDE DEF o
    <3> QED BY <2>0, <3>1, <3>3, <3>4, <3>5, ExplainedBy
  <2>3. ASSUME NEW u \in Variants, NEW delta \in Deltas, AdjustStock(u, delta) PROVE Explained(v)'
    <3>1. CASE u = v
      <4>1. /\ delta \in Int /\ None \in Whys /\ stock'[v] = stock[v] + delta
            /\ moves'[v] = [moves[v] EXCEPT ![None] = moves[v][None] + delta]
        BY <2>0, <2>3, <3>1 DEF AdjustStock, TypeOK, Whys
      <4> QED BY <2>0, <4>1, ExplainedBy
    <3>2. CASE u # v
      BY <2>0, <2>3, <3>2 DEF AdjustStock, TypeOK, Explained
    <3> QED BY <3>1, <3>2
  <2>4. \/ \E w \in Workers : Place(w) \/ Cancel(w)
        \/ \E u \in Variants, delta \in Deltas : AdjustStock(u, delta)
        \/ UNCHANGED goods
    BY DEF Next, Begin, Step, PriceLines, BeginCancel, PriceDiscount, StartLocking, LockVariant,
           CheckLocked, UseDiscount, ReturnStock, Abort, DeadlockVictim, Staff, MoveOrder, SaveDiscount,
           DeleteDiscount, SavePrice, SaveStatus, DeleteVariant, Shopper, SetCartItem, ApplyCartDiscount,
           RemoveCartDiscount, vars
  <2>5. CASE UNCHANGED goods
    BY <2>0, <2>5 DEF Explained, goods
  <2>. QED BY <2>1, <2>2, <2>3, <2>4, <2>5
<1>. QED
  BY <1>1, <1>2, ExplainedAll, TypeCorrect, PTL DEF Spec

\* A checkout past its check has a code to count exactly when its bag was priced with one, and
\* an order that is not placed has none.
Coded ==
    /\ \A w \in Workers : pc[w] \in {"counting", "writing"} => (want[w] # None <=> uses[w] # None)
    /\ \A o \in Orders : status[o] = None => order[o].code = None

LEMMA CodedStep == TypeOK /\ AtWork /\ Counting /\ Coded /\ [Next]_vars => Coded'
<1> SUFFICES ASSUME TypeOK, AtWork, Counting, Coded, [Next]_vars PROVE Coded'
  OBVIOUS
<1> DEFINE Fits(u) == pc[u] \in {"counting", "writing"} => (want[u] # None <=> uses[u] # None)
<1>1. ASSUME NEW o \in Orders PROVE (status[o] = None => order[o].code = None)'
  <2>1. ASSUME NEW w \in Workers, Place(w) PROVE (status[o] = None => order[o].code = None)'
    BY <2>1 DEF Place, Coded, TypeOK, Status
  <2>2. ASSUME NEW w \in Workers, Cancel(w) PROVE (status[o] = None => order[o].code = None)'
    BY <2>2 DEF Cancel, Coded, TypeOK, Status
  <2>3. ASSUME NEW p \in Orders, NEW to \in Status, MoveOrder(p, to)
        PROVE  (status[o] = None => order[o].code = None)'
    BY <2>3 DEF MoveOrder, Coded, TypeOK, Status
  <2>4. CASE UNCHANGED book
    BY <2>4 DEF Coded, book
  <2>5. \/ \E w \in Workers : Place(w) \/ Cancel(w)
        \/ \E p \in Orders, to \in Status : MoveOrder(p, to)
        \/ UNCHANGED book
    BY DEF Next, Begin, Step, PriceLines, BeginCancel, PriceDiscount, StartLocking, LockVariant,
           CheckLocked, UseDiscount, ReturnStock, Abort, DeadlockVictim, Staff, SaveDiscount,
           DeleteDiscount, SavePrice, SaveStatus, DeleteVariant, AdjustStock, Shopper, SetCartItem,
           ApplyCartDiscount, RemoveCartDiscount, vars
  <2> QED BY <2>1, <2>2, <2>3, <2>4, <2>5
<1>2. ASSUME NEW w \in Workers, Begin(w) \/ Step(w) \/ Abort(w) \/ DeadlockVictim(w) PROVE Fits(w)'
  <2>1. CASE Finish(w)
    BY <2>1, FinishIdles
  <2>2. CASE CheckLocked(w) /\ ~Finish(w)
    <3>1. want' = want /\ uses[w] = None
      BY <2>2 DEF CheckLocked, Counting, Counts
    <3>2. \/ want[w] = None /\ uses'[w] = None
          \/ want[w] # None /\ uses'[w] # None
      BY <2>2, <3>1 DEF CheckLocked, TypeOK
    <3> QED BY <3>1, <3>2
  <2>3. CASE UseDiscount(w) /\ ~Finish(w)
    BY <2>3 DEF UseDiscount, Coded
  <2>4. CASE ~Finish(w) /\ ~CheckLocked(w) /\ ~UseDiscount(w)
    <3>1. pc'[w] \notin {"counting", "writing"}
      BY <1>2, <2>4 DEF Begin, Step, PriceLines, BeginCancel, PriceDiscount, StartLocking, LockVariant,
                Place, ReturnStock, Cancel, Abort, DeadlockVictim, Goto, TypeOK
    <3> QED BY <3>1
  <2> QED BY <2>1, <2>2, <2>3, <2>4
<1>3. ASSUME NEW u \in Workers PROVE Fits(u)'
  <2>1. ASSUME NEW w \in Workers, Begin(w) \/ Step(w) \/ Abort(w) \/ DeadlockVictim(w)
        PROVE  Fits(u)'
    <3>1. CASE u = w
      BY <1>2, <2>1, <3>1
    <3>2. CASE u # w
      BY <2>1, <3>2, OthersKeep DEF Coded
    <3> QED BY <3>1, <3>2
  <2>2. CASE Staff \/ Shopper \/ UNCHANGED vars
    BY <2>2 DEF Coded, Staff, Shopper, MoveOrder, SaveDiscount, DeleteDiscount, SavePrice, SaveStatus,
         DeleteVariant, AdjustStock, SetCartItem, ApplyCartDiscount, RemoveCartDiscount, vars, reqs
  <2> QED BY <2>1, <2>2 DEF Next
<1> QED
  BY <1>1, <1>3 DEF Coded

WithCode == {o \in Orders : order[o].code # None}

\* Every use of a code was counted for an order that was placed with one, and every such order
\* counted one (UseDiscount): neither a rollback nor a checkout beside it loses or adds a use.
THEOREM UsesMatchOrders == Spec => []UsesAreOrders
<1> DEFINE Same == SumOf(used, Codes) = Cardinality(WithCode)
<1>0. TypeOK => (UsesAreOrders <=> Same)
  <2> SUFFICES ASSUME TypeOK PROVE Total(used) = SumOf(used, Codes)
    BY DEF UsesAreOrders, WithCode
  <2>1. DOMAIN used = Codes
    BY DEF TypeOK
  <2> QED BY <2>1, TotalIs
<1>1. Init => Counting /\ Coded /\ Same
  <2> SUFFICES ASSUME Init PROVE Counting /\ Coded /\ Same
    OBVIOUS
  <2>1. Counting /\ Coded
    BY DEF Init, Counting, Counts, OneCounts, Coded, NoOrder
  <2>2. WithCode = {}
    BY DEF Init, NoOrder, WithCode
  <2>3. \A d \in Codes : used[d] = 0
    BY DEF Init
  <2>4. SumOf(used, Codes) = 0
    BY <2>3, SumZero
  <2> QED BY <2>1, <2>2, <2>4, FS_EmptySet
<1>2. TypeOK /\ AtWork /\ TypeOK' /\ Counting /\ Coded /\ Same /\ [Next]_vars => Same'
  <2> SUFFICES ASSUME TypeOK, AtWork, TypeOK', Counting, Coded, Same, [Next]_vars PROVE Same'
    OBVIOUS
  <2>0. Ints(used, Codes) /\ IsFiniteSet(WithCode) /\ SumOf(used, Codes) \in Int
    <3>1. Ints(used, Codes)
      BY DEF TypeOK, Ints
    <3>2. IsFiniteSet(WithCode)
      BY FS_Subset DEF WithCode
    <3> QED BY <3>1, <3>2, SumType
  <2>1. ASSUME NEW w \in Workers, Place(w) PROVE Same'
    <3>1. PICK o \in Orders :
              /\ status[o] = None
              /\ order' = [order EXCEPT ![o] =
                    [lines |-> task[w].lines, code |-> want[w],
                     paid |-> [v \in Variants |-> IF task[w].lines[v] > 0 THEN price[v] ELSE None]]]
      BY <2>1 DEF Place
    <3>2. /\ o \notin WithCode /\ order'[o].code = want[w]
          /\ \A p \in Orders \ {o} : order'[p] = order[p]
      BY <3>1 DEF Coded, WithCode, TypeOK
    <3>3. want[w] # None <=> uses[w] # None
      BY <2>1 DEF Place, Coded
    <3>4. used' = [d \in Codes |-> Counted(d, uses[w])]
      BY <2>1 DEF Place
    <3>5. CASE uses[w] = None
      <4>1. WithCode' = WithCode
        BY <3>2, <3>3, <3>5 DEF WithCode
      <4>2. \A d \in Codes : used'[d] = used[d]
        BY <3>4, <3>5 DEF Counted
      <4>3. used' = used
        BY <4>2 DEF TypeOK
      <4> QED BY <4>1, <4>3
    <3>6. CASE uses[w] # None
      <4> DEFINE d == uses[w]
      <4>1. d \in Codes
        BY <3>6 DEF TypeOK
      <4>2. WithCode' = WithCode \cup {o}
        BY <3>2, <3>3, <3>6 DEF WithCode
      <4>3. Cardinality(WithCode') = Cardinality(WithCode) + 1
        BY <2>0, <3>2, <4>2, FS_AddElement
      <4>4. used'[d] = used[d] + 1 /\ used[d] \in Int /\ \A x \in Codes \ {d} : used'[x] = used[x]
        BY <3>4, <4>1 DEF Counted, TypeOK
      <4> HIDE DEF d
      <4>5. SumOf(used', Codes) = SumOf(used, Codes) + (used'[d] - used[d])
        BY <2>0, <4>1, <4>4, SumChange
      <4> QED BY <2>0, <4>3, <4>4, <4>5
    <3> QED BY <3>5, <3>6
  <2>2. CASE ~\E w \in Workers : Place(w)
    <3>1. UNCHANGED <<used, order>>
      BY <2>2 DEF Next, Begin, Step, PriceLines, BeginCancel, PriceDiscount, StartLocking, LockVariant,
           CheckLocked, UseDiscount, ReturnStock, Cancel, Abort, DeadlockVictim, Staff, MoveOrder,
           SaveDiscount, DeleteDiscount, SavePrice, SaveStatus, DeleteVariant, AdjustStock, Shopper,
           SetCartItem, ApplyCartDiscount, RemoveCartDiscount, vars, codes, book
    <3> QED BY <3>1 DEF WithCode
  <2> QED BY <2>1, <2>2
<1>3. TypeOK /\ AtWork /\ Counting /\ [Next]_vars => Counting'
  BY CountingStep
<1>4. TypeOK /\ AtWork /\ Counting /\ Coded /\ [Next]_vars => Coded'
  BY CodedStep
<1> HIDE DEF Same
<1>. QED
  BY <1>0, <1>1, <1>2, <1>3, <1>4, TypeCorrect, PTL DEF Spec

-----------------------------------------------------------------------------
(* One sale after the other. *)

\* A checkout under way has a line, and the code whose use it has counted is still there.
Saleable(w) ==
    /\ pc[w] \notin {"idle", "returning"} => Bought(task[w].lines) # {}
    /\ pc[w] = "writing" /\ uses[w] # None => offer[uses[w]] # "gone"

\* A request finds a line in its bag, and its code when it counts the use.
LEMMA SaleableOwn ==
    ASSUME TypeOK, Counting, NEW w \in Workers, Saleable(w),
           Begin(w) \/ Step(w) \/ Abort(w) \/ DeadlockVictim(w)
    PROVE  Saleable(w)' /\ offer' = offer
<1>0. offer' = offer
  BY DEF Begin, Step, PriceLines, BeginCancel, PriceDiscount, StartLocking, LockVariant, CheckLocked,
         UseDiscount, Place, ReturnStock, Cancel, Abort, DeadlockVictim, codes
<1>1. CASE Finish(w)
  BY <1>0, <1>1 DEF Finish, Goto, TypeOK, Saleable
<1>2. CASE \E c \in Carts : PriceLines(w, c)
  <2>1. PICK c \in Carts : PriceLines(w, c)
    BY <1>2
  <2>2. pc'[w] = "priced" /\ task'[w].lines = cart[c] /\ Bought(cart[c]) # {}
    BY <2>1 DEF PriceLines, Goto, TypeOK
  <2> QED BY <1>0, <2>2 DEF Saleable, Bought
<1>3. CASE UseDiscount(w) /\ ~Finish(w)
  BY <1>0, <1>3 DEF UseDiscount, Saleable, Goto, TypeOK, Bought
<1>4. CASE CheckLocked(w) /\ ~Finish(w)
  <2>1. uses[w] = None /\ pc[w] = "locking" /\ task' = task
    BY <1>4 DEF CheckLocked, Counting, Counts
  <2>2. \/ pc'[w] = "writing" /\ uses'[w] = None
        \/ pc'[w] = "counting"
    BY <1>4, <2>1 DEF CheckLocked, Goto, TypeOK
  <2> QED BY <1>0, <2>1, <2>2 DEF Saleable, Bought
<1>5. CASE ~Finish(w) /\ (PriceDiscount(w) \/ StartLocking(w) \/ LockVariant(w))
  <2>1. task' = task /\ pc[w] \notin {"idle", "returning"} /\ pc'[w] \in {"agreed", "locking"}
    BY <1>5 DEF PriceDiscount, StartLocking, LockVariant, Goto, TypeOK
  <2> QED BY <1>0, <2>1 DEF Saleable, Bought
<1>6. CASE ~Finish(w) /\ ((\E o \in Orders : BeginCancel(w, o)) \/ ReturnStock(w))
  <2>1. pc'[w] = "returning"
    BY <1>6 DEF BeginCancel, ReturnStock, Goto, TypeOK
  <2> QED BY <1>0, <2>1 DEF Saleable
<1> QED
  BY <1>0, <1>1, <1>2, <1>3, <1>4, <1>5, <1>6 DEF Begin, Step, Place, Cancel, Abort, DeadlockVictim

\* Nobody deletes a code while a use of it is written and not committed.
LEMMA SaleableStaff ==
    ASSUME TypeOK, NEW u \in Workers, Saleable(u), Staff \/ Shopper \/ UNCHANGED vars
    PROVE  Saleable(u)'
<1>1. UNCHANGED <<pc, task, uses>>
  BY DEF Staff, Shopper, MoveOrder, SaveDiscount, DeleteDiscount, SavePrice, SaveStatus,
         DeleteVariant, AdjustStock, SetCartItem, ApplyCartDiscount, RemoveCartDiscount, vars, reqs
<1>2. CASE offer' = offer
  BY <1>1, <1>2 DEF Saleable, Bought
<1>3. ASSUME NEW d \in Codes, CodeFree(d), NEW now, offer' = [offer EXCEPT ![d] = now]
      PROVE  Saleable(u)'
  <2>1. pc[u] = "writing" => uses[u] # d
    BY <1>3 DEF CodeFree
  <2>2. pc[u] = "writing" /\ uses[u] # None => offer'[uses[u]] = offer[uses[u]]
    BY <1>3, <2>1 DEF TypeOK
  <2> QED BY <1>1, <2>2 DEF Saleable, Bought
<1>4. \/ offer' = offer
      \/ \E d \in Codes : CodeFree(d) /\ \E now : offer' = [offer EXCEPT ![d] = now]
  BY DEF Staff, Shopper, MoveOrder, SaveDiscount, DeleteDiscount, SavePrice, SaveStatus, DeleteVariant,
         AdjustStock, SetCartItem, ApplyCartDiscount, RemoveCartDiscount, vars, codes
<1> QED
  BY <1>1, <1>2, <1>3, <1>4

LEMMA SaleableStep ==
    TypeOK /\ Counting /\ (\A w \in Workers : Saleable(w)) /\ [Next]_vars => \A w \in Workers : Saleable(w)'
<1> SUFFICES ASSUME TypeOK, Counting, \A w \in Workers : Saleable(w), [Next]_vars, NEW u \in Workers
             PROVE  Saleable(u)'
  OBVIOUS
<1>1. ASSUME NEW w \in Workers, Begin(w) \/ Step(w) \/ Abort(w) \/ DeadlockVictim(w)
      PROVE  Saleable(u)'
  <2>1. CASE u = w
    BY <1>1, <2>1, SaleableOwn
  <2>2. CASE u # w
    <3>1. pc'[u] = pc[u] /\ task'[u] = task[u] /\ uses'[u] = uses[u] /\ offer' = offer
      BY <1>1, <2>2, OthersKeep, SaleableOwn
    <3> QED BY <3>1 DEF Saleable, Bought
  <2> QED BY <2>1, <2>2
<1>2. CASE Staff \/ Shopper \/ UNCHANGED vars
  BY <1>2, SaleableStaff
<1> QED
  BY <1>1, <1>2 DEF Next

\* Checkout implements Sales.  What the statements of PlaceOrder and SetOrderStatus leave behind,
\* however many run side by side and whatever staff change meanwhile, is what sales and
\* cancellations done one after the other would: every line from stock that is there, the use
\* of a code that has one left, and all of a cancelled order back.
THEOREM SalesOneByOne == Spec => SalesSpec
<1> DEFINE Ready == \A w \in Workers : Saleable(w)
<1>1. Init => Sale!Init /\ Counting /\ Coded /\ Ready
  <2> SUFFICES ASSUME Init PROVE Sale!Init /\ Counting /\ Coded /\ Ready
    OBVIOUS
  <2>1. Counting /\ Coded /\ Ready
    BY DEF Init, Counting, Counts, OneCounts, Coded, NoOrder, Saleable
  <2>2. /\ [v \in rows |-> price[v]] \in [Variants -> Prices]
        /\ [v \in rows |-> stock[v]] \in [Variants -> Nat]
    BY DEF Init
  <2>3. \A o \in Orders : order[o].code = None
    BY <2>1 DEF Init, Coded
  <2> QED BY <2>1, <2>2, <2>3 DEF Init, Sale!Init
<1>2. TypeOK /\ AtWork /\ LockDiscipline /\ Counting /\ Coded /\ Ready /\ [Next]_vars
        => [Sale!Next]_(Sale!vars)
  <2> SUFFICES ASSUME TypeOK, AtWork, LockDiscipline, Counting, Coded, Ready, [Next]_vars
               PROVE  Sale!Next \/ UNCHANGED Sale!vars
    OBVIOUS
  <2>1. CASE UNCHANGED <<rows, price, stock, offer, limit, used, status, order>>
    BY <2>1 DEF Sale!vars
  <2>2. ASSUME NEW w \in Workers, Place(w) PROVE Sale!Next
    <3>0. PICK lines \in Lines : lines = task[w].lines
      BY DEF TypeOK, Task
    <3>1. PICK given \in Codes \cup {None}, use \in Codes \cup {None} : given = want[w] /\ use = uses[w]
      BY DEF TypeOK
    <3>2. PICK o \in Orders :
              /\ status[o] = None
              /\ status' = [status EXCEPT ![o] = "pending"]
              /\ order' = [order EXCEPT ![o] =
                     [lines |-> lines, code |-> given,
                      paid |-> [v \in Variants |-> IF lines[v] > 0 THEN price[v] ELSE None]]]
      BY <2>2, <3>0, <3>1 DEF Place
    <3>3. \A v \in Variants : lines[v] > 0 => v \in rows /\ lines[v] <= stock[v]
      BY <2>2, <3>0 DEF Place, Bought, LockDiscipline, TypeOK, Lines
    <3>4. Sale!InStock(lines)
      <4>1. \E v \in Variants : lines[v] > 0
        BY <2>2, <3>0 DEF Place, Saleable, Bought
      <4> QED BY <3>3, <4>1 DEF Sale!InStock
    <3>5. given # None <=> use # None
      BY <2>2, <3>1 DEF Place, Coded
    <3>6. use # None => Sale!HasUse(use)
      BY <2>2, <3>1 DEF Place, Saleable, Counting, Counts, Sale!HasUse
    <3>7. /\ rows' = rows /\ price' = price /\ offer' = offer /\ limit' = limit
          /\ stock' = [v \in Variants |-> stock[v] - lines[v]]
          /\ used' = [d \in Codes |-> IF d = use THEN used[d] + 1 ELSE used[d]]
      BY <2>2, <3>0, <3>1 DEF Place, shop, Counted
    <3>8. /\ [v \in rows' |-> stock'[v]] = [v \in rows |-> [u \in rows |-> stock[u]][v] - lines[v]]
          /\ [v \in rows' |-> price'[v]] = [v \in rows |-> price[v]]
      BY <3>7 DEF TypeOK
    <3>9. [v \in Variants |-> IF lines[v] > 0 THEN price[v] ELSE None]
            = [v \in Variants |-> IF lines[v] > 0 THEN [u \in rows |-> price[u]][v] ELSE None]
      BY <3>3
    <3>10. Sale!Sell(o, lines, given, use)
      <4>1. [v \in rows' |-> stock'[v]] = [v \in DOMAIN [u \in rows |-> stock[u]] |-> [u \in rows |-> stock[u]][v] - lines[v]]
        BY <3>8
      <4> QED BY ONLY <3>2, <3>4, <3>5, <3>6, <3>7, <3>8, <3>9, <4>1 DEF Sale!Sell
    <3>11. lines \in Sale!Lines
      BY DEF Lines, Sale!Lines
    <3> QED BY <3>10, <3>11 DEF Sale!Next
  <2>3. ASSUME NEW w \in Workers, Cancel(w) PROVE Sale!Next
    <3>0. PICK o \in Orders : o = task[w].order
      BY <2>3 DEF Cancel, AtWork
    <3>1. /\ status[o] \in {"pending", "confirmed", "packed"}
          /\ \A v \in rows : task[w].lines[v] = order[o].lines[v]
      BY <2>3, <3>0 DEF Cancel, LockDiscipline, NextStatuses
    <3>2. /\ status' = [status EXCEPT ![o] = "cancelled"]
          /\ rows' = rows /\ price' = price /\ offer' = offer /\ limit' = limit /\ used' = used
          /\ order' = order /\ stock' = [v \in Variants |-> stock[v] + task[w].lines[v]]
      BY <2>3, <3>0 DEF Cancel, shop, codes
    <3>3. [v \in rows' |-> stock'[v]] = [v \in rows |-> [u \in rows |-> stock[u]][v] + order[o].lines[v]]
      BY <3>1, <3>2 DEF TypeOK
    <3>4. Sale!TakeBack(o)
      BY <3>1, <3>2, <3>3 DEF Sale!TakeBack
    <3> QED BY <3>4 DEF Sale!Next
  <2>4. ASSUME NEW o \in Orders, NEW to \in Status, MoveOrder(o, to) PROVE Sale!Next
    <3>1. status[o] \in {"pending", "confirmed", "packed", "shipped"} /\ to = Sale!Onward(status[o])
      BY <2>4 DEF MoveOrder, NextStatuses, Sale!Onward
    <3>2. Sale!Move(o)
      BY <2>4, <3>1 DEF MoveOrder, Sale!Move, shop, goods, codes
    <3> QED BY <3>2 DEF Sale!Next
  <2>5. ASSUME NEW v \in Variants, NEW delta \in Deltas, AdjustStock(v, delta) PROVE Sale!Next
    <3>1. v \in rows /\ stock[v] + delta >= 0 /\ stock' = [stock EXCEPT ![v] = stock[v] + delta]
      BY <2>5 DEF AdjustStock, Adjustable, TypeOK
    <3>2. [u \in rows |-> stock'[u]] = [[u \in rows |-> stock[u]] EXCEPT ![v] = [u \in rows |-> stock[u]][v] + delta]
      BY <3>1 DEF TypeOK
    <3>3. Sale!Adjust(v, delta)
      BY <2>5, <3>1, <3>2 DEF AdjustStock, Sale!Adjust, shop, codes, book
    <3> QED BY <3>3 DEF Sale!Next
  <2>6. ASSUME NEW v \in Variants, NEW p \in Prices, SavePrice(v, p) PROVE Sale!Next
    <3>1. v \in rows /\ price' = [price EXCEPT ![v] = p] /\ rows' = rows
      BY <2>6 DEF SavePrice
    <3>2. [u \in rows |-> price'[u]] = [[u \in rows |-> price[u]] EXCEPT ![v] = p]
      BY <3>1 DEF TypeOK
    <3>3. Sale!Reprice(v, p)
      BY <2>6, <3>1, <3>2 DEF SavePrice, Sale!Reprice, goods, codes, book
    <3> QED BY <3>3 DEF Sale!Next
  <2>7. ASSUME NEW v \in Variants, DeleteVariant(v) PROVE Sale!Next
    <3>1. v \in rows /\ rows' = rows \ {v}
          /\ UNCHANGED <<price, stock, offer, limit, used, status, order>>
      BY <2>7 DEF DeleteVariant, goods, codes, book
    <3>2. Sale!Withdraw(v)
      BY <3>1 DEF Sale!Withdraw
    <3> QED BY <3>2 DEF Sale!Next
  <2>8. ASSUME NEW d \in Codes, NEW on \in {"on", "off"}, NEW lim \in 1..MaxUses, SaveDiscount(d, on, lim)
        PROVE  Sale!Next
    <3>1. Sale!ChangeCode(d, on, lim)
      BY <2>8 DEF SaveDiscount, Sale!ChangeCode, shop, goods, book
    <3> QED BY <3>1 DEF Sale!Next
  <2>9. ASSUME NEW d \in Codes, DeleteDiscount(d) PROVE Sale!Next
    <3>1. limit[d] \in 1..MaxUses /\ limit' = [limit EXCEPT ![d] = limit[d]]
      BY <2>9 DEF DeleteDiscount, TypeOK
    <3>2. Sale!ChangeCode(d, "gone", limit[d])
      BY <2>9, <3>1 DEF DeleteDiscount, Sale!ChangeCode, shop, goods, book
    <3> QED BY <3>1, <3>2 DEF Sale!Next
  <2>10. \/ UNCHANGED <<rows, price, stock, offer, limit, used, status, order>>
         \/ \E w \in Workers : Place(w) \/ Cancel(w)
         \/ \E o \in Orders, to \in Status : MoveOrder(o, to)
         \/ \E v \in Variants, delta \in Deltas : AdjustStock(v, delta)
         \/ \E v \in Variants, p \in Prices : SavePrice(v, p)
         \/ \E v \in Variants : DeleteVariant(v)
         \/ \E d \in Codes, on \in {"on", "off"}, lim \in 1..MaxUses : SaveDiscount(d, on, lim)
         \/ \E d \in Codes : DeleteDiscount(d)
    BY ZenonT(30) DEF Next, Begin, Step, PriceLines, BeginCancel, PriceDiscount, StartLocking, LockVariant,
           CheckLocked, UseDiscount, ReturnStock, Abort, DeadlockVictim, Staff, SaveStatus, Shopper, SetCartItem,
           ApplyCartDiscount, RemoveCartDiscount, vars, shop, goods, codes, book
  <2> QED BY <2>1, <2>2, <2>3, <2>4, <2>5, <2>6, <2>7, <2>8, <2>9, <2>10
<1>3. TypeOK /\ AtWork /\ Counting /\ Coded /\ Ready /\ [Next]_vars => Counting' /\ Coded' /\ Ready'
  BY CountingStep, CodedStep, SaleableStep
<1> HIDE DEF Ready
<1>. QED
  BY <1>1, <1>2, <1>3, TypeCorrect, LocksHold, PTL DEF Spec, SalesSpec, Sale!Spec
=============================================================================
