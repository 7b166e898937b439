# Verification of fajr-shop

TLA+ models of the shop's API (`src/api`: Go on PostgreSQL) and of the part of the web server
(`src/web`: SvelteKit) that keeps a browser signed in. TLC checks them on small instances; TLAPS proves
the safety properties that matter most for every value of the constants.

    tlc -config CheckoutStock.cfg MCCheckout.tla      # a run: X.cfg with its MC module
    tlapm Checkout_proofs.tla                         # the proofs of a component

## The system

One API process serves each HTTP request in a goroutine. A handler that writes does so in one
transaction (`pgx.BeginFunc`), always at PostgreSQL's default, READ COMMITTED: each SQL statement sees
what is committed when it starts, a statement that meets a row another transaction has written waits,
then looks at the new row again. Between requests nothing stays in memory but the request limiter.
So what two requests can do to each other is decided by what a handler reads, what it locks, and what
lies between. That is what the models keep: a request is a *worker* that goes from statement to
statement, and one action is one statement that reads something others can change or may wait.
Writes of a transaction to rows it has locked are invisible until it commits, and take effect in the
committing action; where an uncommitted row matters because others wait for it, a guard says so.

| Component | State | Operations | What is hard | What makes it correct |
|---|---|---|---|---|
| Checkout, cancellation (`httpapi/orders.go`) | orders, order_items, variants.stock, stock_movements | PlaceOrder, SetOrderStatus | lines are read before they are locked; three kinds of row locks; a bag nobody locks | stock is explained by its movements, an order moves it once each way, what was checked holds at the commit, requests end |
| Bag (`cart.go`, `discounts.go`) | carts, cart_items, carts.discount_id | SetCartItem, ApplyCartDiscount, MergeCart | a merge beside an edit, a retried merge, circles of waiters | a guest's bag joins once and adds up |
| Discounts (`discounts.go`, `discount/`) | discounts, carts.discount_id | save, delete, put on a bag, take off, use | the last use held by many bags | no use over the limit, a use for each order with a code |
| Products (`catalog.go`, `catalog/`) | products, variants | save, delete, AdjustStock | a form minutes old, two saves at once | stock never negative, a product's range of prices is that of its variants |
| Category tree (`catalog.go`) | categories, products.category_id | save, delete | a save that looks first and writes later | nothing refers to what is gone, no loop of categories |
| Web addresses (`uniqueSlug`) | products.slug, categories.slug | look, write | a look in two tables without a lock, an index for each | two rows never share an address unless they were saved side by side |
| Payments (`payments.go`, `payment/`) | payments, orders.paid_at | start, confirm (return and notice), switch to cash | the gateway reports twice, late, for several payments | paid once, exactly when a payment is |
| Shipments (`shipments.go`, `courier/`) | shipments, orders.status | book, refresh, move by hand | the courier is called between two transactions; answers lost; requests cut short | one claim, a recorded parcel is the courier's, an order never moves back |
| Sessions (`auth.go`, `identity.go`) | sessions: refresh, previous and access token | sign in, refresh, sign out, look up | the same token presented twice at once | a token works once, reuse ends the session |
| Web server sessions (`hooks.server.ts`, `session.ts`) | cookies, the map `refreshing` | refreshOnce, saveSession, clearSession | requests that share one refresh; a lost answer; a 30 s timer | a browser is not signed out by its own requests; all of them are answered |
| Team (`staff.go`) | users.role, disabled_at | AddStaff, UpdateStaff | two admins removing each other | an admin who can sign in is left |
| Delivery zones (`shipping.go`) | shipping_zones | save, delete | a rule between rows without a constraint | a district is in one active zone |
| Provider accounts (`providers.go`) | providers | UpdateProvider | an empty key keeps the saved one; switching one on switches others off | a key is replaced only by one that was typed |
| Reviews (`social.go`, migration 00011) | reviews, products.rating_* | save, delete, moderate | a trigger that counts, then waits | the tally is that of the reviews on show; hidden stays hidden |
| Order texts (`notify.go`, `sms/`) | river jobs | queue after an order changed, send, retry | lost answers, a stop between commit and queueing | a text is true, comes to an end, and comes twice only unheard |
| Delivery charge, discount, VAT (`shipping/`, `discount/`, `orders.go`) | none | Charge, Amount, VAT | rounding, edges, a sum no column holds | an order costs what the documentation says |
| Delivery history (`history.go`, `courier/history.go`) | phone_checks | ask couriers, save their answers | couriers that never answer, pages that save in opposite orders | a page that was opened ends |
| Storefront and dashboard lists (`products.go`, `customers.go`) | none; a cursor | one page | rows that move between pages, equal keys | no row is skipped or shown twice |
| Audit log (`admin.go`) | audit_log | audit, in the transaction of a save | saves that overlap and roll back | the log and the row never disagree |
| Request limiter (`identity.go`) | token buckets in memory | allow | bursts around the reset | what a minute can hold |

Interactions: a checkout takes the bag, the code, the stock and the zone's charge; its order is then
paid, sent and moved by Payments, Shipments and staff, all through `orders.status` and `orders.paid_at`;
every handler is told who calls by Sessions and Team; couriers and gateways are called with the
keys Provider accounts keep. A bag is priced by Pricing, an order's moves queue its texts, and every
save of the dashboard writes its entry of the audit log. Banners, wishlists, questions, uploads, figures,
demo data, generated code and the web pages are listed in `PROJECT.json` with the reason they are not
modelled.

## The modules

**`Checkout.tla`**: `PlaceOrder` statement by statement. `PriceLines` reads the bag with prices and
stock, `PriceDiscount` its code, `StartLocking`/`LockVariant` is `LockOrderVariants` (a row at a time in
id order, each re-read when its lock comes), `CheckLocked` the comparison under the locks and the second
reading of the code, `UseDiscount` the conditional update of the code, `Place` everything from
`CreateOrder` to the commit. `BeginCancel`, `ReturnStock`, `Cancel` are `SetOrderStatus` to "cancelled",
whose `ReturnStock` locks variants in the order of the lines, any order; `MoveOrder` is the other moves.
Beside them shoppers change the bag and its code, and staff change prices, statuses, discounts, delete
variants and adjust stock, each in one action that waits for rows it needs (`Free`, `CodeFree`,
`OrderFree`). `Abort` is any rollback; `DeadlockVictim` is PostgreSQL ending one of a circle of waiters.
`moves[v][o]` keeps the sum of the stock movements of a variant for an order, which is what the audit of
stock adds up.

**`Sales.tla`**: the abstract specification of it: nobody locks or waits, an order is sold, taken back or moved in one
step, and so is everything staff change. `Checkout` implements it with the stock and the prices of the variants there
are (`price <- [v \in rows |-> price[v]]`, and so for `stock`), which is that its requests come out as if they had run one after
the other: a run (`SalesSpec`) and a theorem (`SalesOneByOne`). Bags are left out of it, since a checkout that another
one overtakes does not keep to them (CheckoutTwice), and so is whether a product is on sale, whose row no
checkout locks; an order may hold one code and count another, which is what the code does.

**`Fulfilment.tla`**: one order after it is placed. Only the two requests about parcels are workers,
since they call a courier between transactions with what they read before; payments and moves by hand
are one transaction each, serialised by the row they update. `CourierBooks` may lose its answer (the
20 s time-out). `Die` is a client that goes away (its context is that of every later statement,
`DropShipment` included) or a server that stops. The courier and the payment gateway are external:
`Carry` and `Settle` say what they may do.

**`OrderLife.tla`**: the abstract specification: a status moves on along the documented steps, an order
is paid once, and its parcel leaves together with the move to shipped. `Fulfilment` implements it under
`booked <- [o \in Orders |-> parcel[o] # None]`; this is both a run (`LifeSpec`) and a theorem
(`KeepsLife`).

**`Sessions.tla`**: API and web server together. Tokens are numbered: `gen[s]` is the current one,
`gen[s] - 1` the previous one the row still knows. `Rotate` and `Revoke` are the two statements of
`Refresh`; between them others run. Requests of a browser go `Send`, `Handle` (refreshOnce and its
map), `Resume`, `Use`, `Receive` or `Lose`; `Forget` is the 30 s timer. `CookieGoes` and `TokenGoes` are
the expiry of the access cookie and, later, of the token. `excused` is a history of the sessions to which
something happened the code does not promise to survive: an answer lost, an app with a copy of a
token, a sign-out, a switch-off, or a request under way for a quarter of an hour.

**`Requests.tla`** holds the two constants that the modules whose requests run side by side share:
`Workers`, the requests under way at once, and `None`.

*Of the dashboard* (run together by `MCDashboard.tla`):

**`Team.tla`**: `UpdateStaff` under the advisory lock (`LockAdmins`, `WriteStaff`, `CountAdmins`,
`CommitStaff`); `StillAdmin` is what a transaction sees: what is committed, and what it wrote.
**`Zones.tla`**: `saveZone` under its table lock, and deletions.
**`Providers.tla`**: `UpdateProvider` under a lock per account, and the statement that switches the other
SMS gateways off: it lists them as its snapshot shows them, then locks each.
**`Categories.tla`**: `saveCategory` and the category of a product, without locks: the foreign keys are
guards of the write (`WriteRow`) and of the deletion (`Unused`).
**`Addresses.tla`**: `uniqueSlug` (`Look`, up to `MaxTries` times) and the write that follows it (`WriteSlug`), which
waits for uncommitted rows of its own table with the address it wants and fails if one has it. `unseen`
and `excused` are histories: of the rows that took an address after a save had looked for it.
**`Reviews.tla`**: the reviews of one product; the trigger is `CountReviews` (its snapshot) and
`LockProduct` (its wait).
**`Lookups.tla`**: `OrderDeliveryHistory` for one phone number. `AskCouriers` reads what is younger than a day;
`Answer` is one goroutine's end under the mutex, `TimeOut` the twelve seconds, `AllHeard` is `wg.Wait`; then
`SaveCheck` for each answer, in the order they came, and `CommitChecks`. Couriers are external: any of
them may answer, fail, or never be heard of.

*Of the shop front* (run together by `MCShop.tla`):

**`ShopBags.tla`**: a guest's and a customer's bags with row locks in three strengths (`Against`: what a
foreign key takes, what an update takes, what a deletion takes). `FindBag` is `cartFor`'s read without a lock and
`MakeBag` its `CreateUserCart` or `CreateGuestCart`: the first waits for whoever makes the customer's bag and keeps the row
it then meets (`ON CONFLICT DO UPDATE`). With `LockLine` and `TouchBag` these are `SetCartItem` and the code on a bag; `LockMine`, `FindGuest`, `CopyLine`, `ReadMark`, `LockGuest`, `Merge` are
the statements of `MergeCart`. `Checkout` sees a bag from the other side: as something read and emptied.
**`Products.tla`**: `saveProduct` from a form that lists variants its sender once saw: `UpdateRow` locks the
product, `CheckForm` and `DropOthers` look at its variants, `CommitProduct` writes.
**`Texts.tla`**: a request that moved an order commits, looks for a gateway and queues (`CommitMove`,
`LookForGateway`, `QueueText`); River tries the job (`Fetch`, `FindGateway`, `Send`, `Rescue`); the server stops
and starts. `got` counts what reached the customer, `unheard` those of it the shop never heard of.
**`Pricing.tla`**: one bag from its code to its order: `ReadLine` is one round of the loops, `Amount`, `Charge` and
`VatOf` the code's arithmetic in whole poisha and grams, `IntMax` the width of the column a sum is cast to.
**`Lists.tla`**: the keyset pages (`CursorOf`, `After`) of a list whose rows change between pages.
**`Limiter.tla`**: token buckets in ticks, and the reset that drops all of them.
**`Audit.tla`**: a save and its entry: the read for `before`, the locked write, the id an identity column gives and
never takes back, the commit.

## The runs

| Run | Instance | Shows |
|---|---|---|
| CheckoutStock | 2 requests, 1 bag, 2 variants, stock 2, adjustments of 1 | `StockExplained`, `OrderMovesMatch`, `CheckedStillHolds`, `NoCheckoutCircle` |
| CheckoutCodes | 2 requests, 2 bags, 1 variant at 2 prices, 1 code with a limit of 1 or 2 | `SalesSpec`, `UsesAreOrders` |
| CheckoutLive | 2 requests, 2 variants | `RequestsEnd` under fairness |
| CheckoutTwice | 2 requests, 1 bag | the code breaks `OrderIsTheBag` |
| Fulfilment | 2 requests, 1 order, 2 payments, 2 parcels, crashes | `OneClaim`, `RecordedParcel`, `PaidOnce`, `FreeMeansPaid`, `LifeSpec` |
| StuckBooking | 1 request, 1 order, 1 parcel, no crash | the code breaks `BookingMeansUnderWay` |
| Sessions | 1 browser, 2 requests, 2 calls, 3 tokens, copies and losses | `WorksOnce`, `StaysSignedIn` |
| Waits | the same with 2 tokens, nothing lost; 2 pages that ask 2 couriers | `Answered` and `LookupsEnd` under fairness |
| ReusedToken | 1 request, 2 calls, 3 tokens, copies | the code breaks `ReuseEnds` |
| Dashboard | 2 requests on each of the seven modules, one module at a time | `AdminLeft`, `OneZoneEach`, `OthersOff`, `KeysKept`, `OnlyStaleLoops`, `AddressesApart`, `TallyUnlessOverlapped`, `HiddenStays`, and that nothing refers to a category that is gone (`CategoryTypeOK`) |
| LostReview | as Dashboard | the code breaks `TallyKept` |
| Shop | the seven modules of the shop front, one at a time | `JoinsOnce`, `MergeAddsUp`, `CirclesExplained`, `PriceRangeKept`, `TextsTrue`, `FewTexts`, `TextsEnd`, `PricedRight`, `SeenOnce`, `MinuteBound`, `AuditTells` |

*Why the bounds are enough.* Every race here is between two requests about the same rows, so two workers
on one or two rows show it; a third row (categories, zones, accounts) is there where a rule needs a
bystander, such as a loop of three. Two variants are needed for opposite lock orders, two payments and two
parcels for doubles, three tokens for "swapped two refreshes ago". Stock of 2 with lines of 1 gives both
the last piece and one left over. Two products and a category with two addresses give a clash in one
table, one across two, and a random end that is taken again. The theorems below remove the bounds for the
safety properties they name. `Orders`, `Parcels`, `Payments`, `Calls`, `Cats`, `Zones` and `MaxEntries` bound what can
be created, `MaxQty`, `MaxStock`, `MaxUses`, `MaxGen`, `MaxTries`, `MaxChanges`, `MaxLines` bound counters; the code's own
counterparts are larger or absent. Symmetry is used in the runs without a liveness property, over constants the
modules only compare for equality (variants of Checkout are numbers, for their order of locking, and are
not symmetric).

In Shop, `Most` is 3 and a line 2, so that a sum of two lines is capped; two marks so that a guest's and a
customer's code differ; two attempts and one slot for a retried text behind another one. The amounts are
those at which the arithmetic turns: a percentage that leaves a rest, one above 100 that `SaveDiscount`
refuses as a percentage, a subtotal at, above and below a code's minimum and a zone's free delivery, a weight at
and one gram over a whole kilogram, and sums above `IntMax`, so that the quote fails. Prices of lists are 2 and 3,
one page a row, so that every cursor lies between equal keys or unequal ones. The limiter's window of 4 ticks, an
attempt every 2 and a burst of 2 keep the proportions that matter: a reset falls within a window, and two do
not.

*Dashboard, Shop, Waits.* No two parts of one of these write the same row, so the behaviours of each are all
found with the others at rest; `part` is chosen in the initial state and stays. This loses nothing about any of
them and says nothing about combinations. Those that do meet in the code are modelled in one module (bag, code,
stock and order in Checkout; order, payments and parcel in Fulfilment; API and web server in Sessions).

*Deadlock.* Fulfilment, Sessions, Waits and Shop may stop: an order ends delivered or cancelled with every parcel
used up, a session ends, and a bag that has been priced stays so. In the other runs TLC checks that
some request can always go on.

*Fairness.* `Checkout!Fairness`: strong fairness of a request's steps, since PostgreSQL queues the waiters
of a row, so one that is free again and again is got in the end; weak fairness of `DeadlockVictim`, since
deadlock_timeout looks for a circle that stays. No fairness of anything shoppers or staff begin.
`Sessions!Fairness`: weak fairness of the web server's and the API's own steps and of the timer; none of
browsers sending, of cookies expiring or of losses. `LookupFairness`: strong fairness of each page's own steps, which are
its statements, the twelve seconds and being ended as one of a circle; none of couriers answering, which is
the point of `LookupsEnd`. `TextFairness`: a server that stopped is started again, a call ends within 20 seconds, and
River, which may stop between, takes some waiting job and some stuck one if there are such again and
again; none of customers, staff, gateways being switched or stops.

## The proofs

All of them are for any number of workers, rows, tokens, callers and pages. The assumptions are those the
modules name (`CheckoutAssumption` and so on): bounds are numbers, None is no row, no worker and no key, tables that
are summed up or climbed (variants, codes, orders, customers, categories, rows of a list) are finite, and the sets that the code
keeps apart (guests and owners, pages of products and of categories) are apart. Every safety property the passing
runs check is stated by a theorem. In each module the argument is the same: an invariant that says what a request
between two of its statements may rely on, kept by each action; the property follows from it, or from it and one
look at the committing action.

- **Sums**: what the others need of finite sets. The prover cannot instantiate a theorem with an operator
  parameter, so induction is done on sets instead: `NatSetInduction` (a set of numbers that holds 0 and each next one
  is all of them, since the smallest other one could not be), and from it `SubsetInduction`. The folds of the community modules are brought to
  one function `SumOf` (`FoldIsSum`, `MapIsSum`), of which the lemmas say how it changes with one summand
  (`SumChange`), when it stays (`SumSame`) and what bounds it (`SumBound`).
- **Checkout_proofs**: `TypeCorrect` proves `TypeOK` with `AtWork` (a request at work knows its bag or order).
  `LocksHold` proves `LockDiscipline`, which is inductive on top of these: rows are locked by one
  request at a time, a locked row is not deleted, and a request about to commit holds every row of its
  lines. `CheckedHolds` follows by it: stock and price of a locked variant move only by whoever
  holds it, so what `CheckLocked` found is still so at the commit, which is why the code may treat a
  failing `TakeStock` as an internal error. `OrdersMoveOnce` uses the same lock discipline: only the
  request that has the order returns its stock. `Counting` says that a use about to be committed has its code's
  row to itself and room below the limit (`UseDiscount` checked it, and staff wait for the row to change the
  limit); `LimitHolds` (`UseWithinLimit`, which `SalesSpec` contains) follows. `InOrder` says that a checkout holds only rows before those it has yet to lock;
  in a circle of checkouts the one that waits for the greatest row would wait for one that holds a greater one
  still, so there is none (`NeverACircle`). `StockAlwaysExplained` changes stock and one movement by the same
  number in every commit. `Coded` says that a checkout counts a use exactly when the order it will write has a
  code, so that the commit adds to both sides of `UsesAreOrders` (`UsesMatchOrders`). `SalesOneByOne` is the refinement
  of `Sales`: the lock discipline makes the last statement of a checkout a `Sell` of lines that are all there, `Counting`
  and `Saleable` (nobody deletes a code whose use is written) make its use one the code has left, and `AtWork` with
  the lock on the order's row makes a cancellation a `TakeBack` of the order as it was placed.
- **Fulfilment_proofs**: `ClaimInv` says what each step between claim and end knows of the shipment row and of
  the courier's parcel; `ClaimedOnce` and `RecordsTrue` follow. `PayInv` relates payments, `paid` and the
  timeline (`PaidOnceOnly`); `FreeInv` carries the amount to collect from the reading of the order to the
  parcel (`FreeOnlyPaid`). `KeepsLife` is the refinement: `StillAsSeen` makes the saving of a
  booking a `Book` step, and every other action is a `Move`, a `Pay` or a stutter.
- **Sessions_proofs**: `SwapInv` says tokens from the current one on were never swapped and older ones exactly once;
  `TokensWorkOnce` follows. `BrowsersStaySignedIn` needs to know where each copy of a session's tokens is: `Kept`
  says that a session nobody ended has its row and is at most one token ahead of its browser's cookies, that its requests
  have those cookies or the ones before, that a call for it swaps the current token for a request that waits, that the web
  server still holds the call for every swapped token somebody may bring, and that a token the browser has not got
  is on its way to it. It is kept action by action (`KeptRotate`, `KeptHandle`, ...); a session leaves it only through
  `excused`. `AtRest` says that a request that has ended is nobody's.
- **Office_proofs**: *Team*: past the lock a request is alone, so what it counted (`CountsHold`) is what it
  commits to, and an admin is left (`LastAdminStays`). *Zones*: a save past its look still finds no
  district taken elsewhere, because the table lock keeps other saves out; `OneZoneAlways` is then a matter of the
  commit. *Providers*: `ProviderAlone` (one save per account past its lock) gives that what a save will write is what
  the account still holds or what was typed; `KeysStay` is an action property from it. `Off` follows the
  statement that switches the other gateways off: those it has yet to reach, those it did, and those that
  came on after it made its list are all that can be on; `OneGateway`.
- **Goods_proofs**: *Products*: `SavesAtWork` says of each save what it knows while it has the product's row: the variants its
  form keeps are there, and those it has dropped are all the others. At the commit the product's
  variants are therefore those of the form, whose cheapest and dearest (`FormRange`) it writes; `RangeKept`.
  *Pricing*: arithmetic first, for all numbers: `AmountRight` (what a code takes off is its share, its
  cap or the subtotal, in whole taka), `ChargeFits` (the fewest kilograms that cover a weight), `VatNearest` (the nearest
  poisha, never more than the goods that hold it), from `Division` and `Nearest`. `PricingInv` then carries what
  was computed, and from what, to the order: `PricedAlways`.
- **Dashboard_proofs**: *Categories*: `AboveIsOver` first: a climb of as many steps as there are categories finds all that
  is above one, loops included, since each step adds one or the climb is over. `GoneRefers`, `RowsWritten` and `Looked`
  (a save whose look nobody overtook still puts nothing below itself) make `CategoryInv`; `CategoryTypesCorrect`
  and `LoopsOnlyStale`. *Addresses*: `SlugInv` says that an address a save found free is still free but for what
  it has not seen, and that in its own table the index keeps it free; `AddressesStayApart`. *Reviews*: the trigger's
  count is `CountOf`, a sum over the customers; `Counts` says that one nobody committed past is what the commit
  makes true; `TallyStays`, and `HiddenOnesStay` for the action. *Lookups*: `Agrees` ties what a page shows to
  the answers it has saved or will. `DashboardParts` shows that `MCDashboard` implies the specification of each part,
  and `DashboardTypesCorrect` puts them together.
- **Shop_proofs**: *ShopBags*: `BagInv` says of each request what rows it holds, and of a merge what it has copied;
  a guest's row goes with the first merge that commits (`MergedOnce`), which adds what it copied
  (`MergesAddUp`). Requests that set lines and codes lock rows of one bag and none for deletion; the one that has a
  line waits for the bag, whose holder has it from `CreateUserCart` and so comes before the line: a circle without
  a merge has such a pair in it (`EveryCircleExplained`). *Texts*: `TextInv` counts what each attempt made and heard; `TextsAreTrue`, `FewTextsSent`.
  *Lists*: `ListInv` says that a row nobody touched was shown exactly when it is not after the cursor; `RowsSeenOnce`, from an order
  of keys and ids that is total (`RowsInOrder`). *Limiter*: `Filled` bounds what a bucket holds and what it let
  through together, for every stretch of time up to the window; `MinuteBounded` is the stretch of the window. *Audit*: `AuditInv` has
  every id in the log below the next one, and what a save read among what the row once was; `LogTells`.
  `ShopTypesCorrect` puts the parts together.

The two refinements (`KeepsLife`, `SalesOneByOne`) have the same shape: the initial states map to initial states, and
under the invariants above each action maps to one abstract action or to none.

*Only model-checked*: liveness under fairness (`RequestsEnd`, `Answered`, `LookupsEnd`, `TextsEnd`), since neither it nor
ENABLED is in the prover's reach, and the counterexamples of the four runs below.

## Where the code and its documentation part

Four runs end in a counterexample to something the repository says:

- **CheckoutTwice**: an order is "worked out here from the cart as it is now" (`openapi.yaml:1181`), but the bag is not
  locked between the reading of its lines and its emptying: a line added meanwhile is deleted unordered, and
  two requests with one bag place it twice.
- **StuckBooking**: "'booking' means that call is under way" (migration 00014): an order moved by hand
  during the call keeps the word for ever, and the parcel the courier booked is forgotten.
- **ReusedToken**: "using one twice signs that session out everywhere" (`README.md:54`): only the token before the
  current one is recognised.
- **LostReview**: the trigger's count keeps the snapshot from before its wait, so two reviews at once
  leave a tally of one.

The models also reach these, which the passing runs' properties leave room for by name:

- Two categories moved into each other at once make a loop (`OnlyStaleLoops` says that nothing else does);
  the recursive queries then have no end.
- Two SMS gateways switched on at once both stay on (`OthersOff`).
- The use of a code is counted on the code the bag has at the second reading, the order keeps the first
  (`UsesAreOrders` counts uses of any code).
- A lost answer of the courier drops the claim, and the next click books a second parcel (`RecordedParcel` is
  about the one recorded).
- An order paid after its parcel was claimed is paid and still collected (`FreeMeansPaid` is the other direction).
- An order switched to cash while its customer pays is paid and shows "cod".
- A product and a category saved at the same time can have one address, which each look in both tables was to rule
  out; their pages still differ, as the storefront shows one under `/p` and the other under `/c` (`AddressesApart`).
- Two merges of a guest's bag into two customers' at once put its lines in both bags; a line the guest sets between
  the copy and the deletion goes with the bag (`MergeAddsUp`); one of a circle of a merge and an edit fails, and the web
  server tries the merge again at the next sign-in (`signin.ts:25`).
- Two plain edits of one line can wait in a circle: a customer's request that found no bag, and met one when it went to
  make it, has the bag's row before the line, while a request that found the bag takes the line first. PostgreSQL ends one
  of them, and nobody asks for it again. It takes a bag that was made in between, so a customer meets it with the
  first things put in a bag only; `CirclesExplained` says that there is no other circle without a merge.
- A page of delivery history can be the one PostgreSQL ends, though its couriers answered (`LookupVictim`).
- An audit entry's `before` can be older than what the save replaced, when two saves overlap; it is always
  something the row held (`AuditTells`).
- A text queued while the server stops is never sent, and one whose answer was lost is sent again (`FewTexts`).
- A weight whose sum no integer holds makes the quote an error (`quoted`), not a wrong charge.
- A request sent just before the access cookie goes can arrive with a token a later request has replaced;
  it is turned away once, and `StaysSignedIn` still holds.

## What is not modelled

Names, phone numbers, wording, pictures, options and SKUs of variants; a code's dates (a code that has not
begun or has ended is one that is off); the counts shown beside filters, on the dashboard and in a courier's
record (`verdict`), which decide nothing. Passwords and permissions: each handler asks for its permission
before all else, so every action here is one its sender may take. The 30 days of a refresh token and the
row-level security of the storefront's role. Statements that fail for reasons of the machine are the `Abort`
of their module, or `Die` and `Stop`. Requests that only show something.

Some reads are one step with the statement that follows, where no property depends on what comes between: the look at the
stock before a line is set (`SetCartItem` in Checkout), the order's row before a payment is recorded (`StartPayment`).
A code without a limit is one whose limit is never reached. A refresh whose user cannot be read after the
swap (`auth.go:115`) is left out. A review's deletion waits in `RowTaken` for an insert that has not committed, where the
statement finds no row and ends at once.

Wishlists, questions, banners and API keys are rows written by one statement each (for staff, with an entry
of the audit log as `Audit` has it): two requests about one have nothing to disagree on. An upload is renamed to a
random name before the row that tells of it is written, so that nothing but an unused file is left when the
second fails. `seed/` runs once, alone.

Half the lines under `src/api` are generated: `apigen` from `openapi.yaml`, which decides nothing and is not modelled, and
`db/dbq` from the SQL, whose statements are modelled where they change or read what matters, and mapped there.

## What is left

One module for a bag seen from both sides, that is ShopBags with the checkout's statements, with two requests of
three kinds: the present two modules meet only in the deletion of lines. Abstract specifications of a session
(one user, signed in until it ends) and of a bag (its lines, joined once) in the manner of OrderLife, with the
refinements proved.
