------------------------------- MODULE ShopBags ------------------------------
(***************************************************************************)
(* Bags (httpapi/cart.go, the code on a bag in httpapi/discounts.go): a    *)
(* guest holds one by its token, a customer has one, and MergeCart moves   *)
(* the first into the second.  A request is a transaction of several       *)
(* statements; what it writes is seen by others once it commits, and the   *)
(* rows it has written are locked until then.                              *)
(***************************************************************************)
EXTENDS Requests, Integers, FiniteSets

CONSTANTS
    Guests,   \* tokens of guests' bags: a bound
    Owners,   \* customers, each with one bag at most
    Things,   \* variants
    Marks,    \* discount codes
    Pieces,   \* quantities a request sets, 0 to take a line out
    Most      \* the most of one variant in a bag: 99 in the code

Bags == Guests \cup Owners

ASSUME BagsAssumption ==
    /\ None \notin Bags \cup Things \cup Marks \cup Workers
    /\ Guests \cap Owners = {}
    /\ (Things \cup {None}) \cap {"share", "update", "delete"} = {}
    /\ Most \in Nat \ {0} /\ Pieces \subseteq 0 .. Most

VARIABLES
    bagRow,   \* bagRow[b]: "none" yet, "there", or "gone" with its token
    lines,    \* lines[b][v]: cart_items.quantity, 0 for no row
    mark,     \* mark[b]: carts.discount_id
    bagPc,    \* bagPc[w]: what request w does next
    ask,      \* ask[w]: what it is asked to do
    holds,    \* holds[w]: row locks it has
    copied,   \* copied[w]: the guest's lines as MergeCartItems read them
    left,     \* left[w]: those it has still to write
    nextLine, \* nextLine[w]: the one it writes next, or waits for
    theirs,   \* theirs[w]: the guest's code as MergeCartDiscount read it
    joins,    \* history: joins[u]: guests whose bag was moved into u's, and how often
    lateLines \* history: lateLines[w]: lines of the guest's bag that changed after w read them

bagRows == <<bagRow, lines, mark>>
bagWork == <<ask, holds, copied, left, nextLine, theirs>>
bagPast == <<joins, lateLines>>
bagVars == <<bagRows, bagPc, bagWork, bagPast>>

NoPieces == [v \in Things |-> 0]
NoAsk == [do |-> "none", bag |-> None, from |-> None, thing |-> None, pieces |-> 0, mark |-> None]
Asks == [do : {"line", "mark", "merge", "none"}, bag : Bags \cup {None}, from : Guests \cup {None},
         thing : Things \cup {None}, pieces : 0 .. Most, mark : Marks \cup {None}]

\* A lock on a line, or on a bag's row: FOR KEY SHARE (by the foreign key of a new line),
\* FOR NO KEY UPDATE (by an update of the row) or FOR UPDATE (by its deletion).
LineLock(b, v) == <<b, v>>
BagLock(b, mode) == <<b, mode>>
Modes == {"share", "update", "delete"}
Locks == (Bags \X Things) \cup (Bags \X Modes)

Against(mode) ==
    CASE mode = "share"  -> {"delete"}
      [] mode = "update" -> {"update", "delete"}
      [] OTHER           -> Modes

BagInit ==
    /\ bagRow = [b \in Bags |-> "none"]
    /\ lines = [b \in Bags |-> NoPieces]
    /\ mark = [b \in Bags |-> None]
    /\ bagPc = [w \in Workers |-> "idle"]
    /\ ask = [w \in Workers |-> NoAsk]
    /\ holds = [w \in Workers |-> {}]
    /\ copied = [w \in Workers |-> NoPieces]
    /\ left = [w \in Workers |-> {}]
    /\ nextLine = [w \in Workers |-> None]
    /\ theirs = [w \in Workers |-> None]
    /\ joins = [u \in Owners |-> [g \in Guests |-> 0]]
    /\ lateLines = [w \in Workers |-> {}]

-----------------------------------------------------------------------------
(* Locks, and the end of a request. *)

\* The requests that keep w from locking bag b in this mode, or line v of b.
OnBag(w, b, mode) == {x \in Workers \ {w} : \E m \in Against(mode) : BagLock(b, m) \in holds[x]}
OnLine(w, b, v) == {x \in Workers \ {w} : LineLock(b, v) \in holds[x]}

Takes(w, locks) == holds' = [holds EXCEPT ![w] = holds[w] \cup locks]

BagGoto(w, step) == bagPc' = [bagPc EXCEPT ![w] = step]

BagDone(w) ==
    /\ BagGoto(w, "idle")
    /\ ask' = [ask EXCEPT ![w] = NoAsk]
    /\ holds' = [holds EXCEPT ![w] = {}]
    /\ copied' = [copied EXCEPT ![w] = NoPieces]
    /\ left' = [left EXCEPT ![w] = {}]
    /\ nextLine' = [nextLine EXCEPT ![w] = None]
    /\ theirs' = [theirs EXCEPT ![w] = None]

\* Lines of b that change are late for a merge that has read b's lines already.
NoteLate(w, b, vs) ==
    lateLines' = [x \in Workers |->
        IF x = w THEN {}
        ELSE IF bagPc[x] \in {"copying", "marking", "deleting", "emptying"} /\ ask[x].from = b
             THEN lateLines[x] \cup vs
             ELSE lateLines[x]]

-----------------------------------------------------------------------------
(* SetCartItem, and ApplyCartDiscount or RemoveCartDiscount. *)

AskBag(w, a) ==
    /\ bagPc[w] = "idle"
    /\ BagGoto(w, IF a.do = "merge" THEN "joining" ELSE "finding")
    /\ ask' = [ask EXCEPT ![w] = a]
    /\ UNCHANGED <<bagRows, holds, copied, left, nextLine, theirs, bagPast>>

Adds(w) == ask[w].pieces > 0 \/ ask[w].mark # None

BagFoundGoto(w) == BagGoto(w, IF ask[w].do = "line" THEN "lining" ELSE "touching")

\* cartFor: CartByUser or CartByToken, a read without a lock; whoever has no bag and adds to it
\* goes on to make one.
FindBag(w) ==
    LET b == ask[w].bag IN
    /\ bagPc[w] = "finding"
    /\ \/ bagRow[b] = "there" /\ BagFoundGoto(w) /\ UNCHANGED bagWork
       \/ bagRow[b] # "there" /\ Adds(w) /\ BagGoto(w, "making") /\ UNCHANGED bagWork
       \/ bagRow[b] # "there" /\ ~Adds(w) /\ BagDone(w)
    /\ UNCHANGED <<bagRows, bagPast>>

\* cartFor: CreateUserCart waits for whoever makes or has changed the customer's bag, then makes
\* it, or locks the row it meets by updating it.  CreateGuestCart gives each new bag a token of
\* its own: where b is another request's, the bag it makes is a different one that nobody shares.
MakeBag(w) ==
    LET b == ask[w].bag IN
    /\ bagPc[w] = "making"
    /\ \/ /\ b \in Owners \/ bagRow[b] = "none"
          /\ OnBag(w, b, "update") = {}
          /\ Takes(w, {BagLock(b, "update")})
          /\ BagFoundGoto(w)
          /\ UNCHANGED <<ask, copied, left, nextLine, theirs>>
       \/ /\ b \in Guests
          /\ bagRow[b] # "none" \/ OnBag(w, b, "update") # {}
          /\ BagDone(w)
    /\ UNCHANGED <<bagRows, bagPast>>

\* The bag's row is there for w: committed, or made by w.
HasBag(w, b) == bagRow[b] = "there" \/ BagLock(b, "update") \in holds[w]

\* Mutant: taking a line out touches the bag before it takes the line.
LockLineTouchFirst(w) ==
    LET b == ask[w].bag  v == ask[w].thing IN
    /\ bagPc[w] = "lining"
    /\ IF ask[w].pieces = 0
       THEN /\ \/ /\ BagLock(b, "update") \notin holds[w]
                  /\ OnBag(w, b, "update") = {}
                  /\ Takes(w, {BagLock(b, "update")})
                  /\ UNCHANGED bagPc
               \/ /\ BagLock(b, "update") \in holds[w]
                  /\ OnLine(w, b, v) = {}
                  /\ Takes(w, {LineLock(b, v)})
                  /\ BagGoto(w, "touching")
       ELSE /\ OnLine(w, b, v) = {} /\ OnBag(w, b, "share") = {}
            /\ Takes(w, {LineLock(b, v), BagLock(b, "share")})
            /\ BagGoto(w, "touching")
    /\ UNCHANGED <<bagRows, ask, copied, left, nextLine, theirs, bagPast>>

\* SetCartItem or RemoveCartItem: the line's row, and for a new line its bag's by the foreign
\* key, which fails when the bag has been deleted.
LockLine(w) ==
    LET b == ask[w].bag
        v == ask[w].thing
        new == ask[w].pieces > 0 /\ lines[b][v] = 0
        gone == ask[w].pieces = 0 /\ lines[b][v] = 0
    IN  /\ bagPc[w] = "lining"
        /\ gone \/ OnLine(w, b, v) = {}
        /\ new => OnBag(w, b, "share") = {}
        /\ IF new /\ ~HasBag(w, b)
           THEN BagDone(w)
           ELSE /\ Takes(w, IF gone THEN {}
                            ELSE {LineLock(b, v)} \cup (IF new THEN {BagLock(b, "share")} ELSE {}))
                /\ BagGoto(w, "touching")
                /\ UNCHANGED <<ask, copied, left, nextLine, theirs>>
        /\ UNCHANGED <<bagRows, bagPast>>

\* TouchCart or SetCartDiscount waits for the bag's row; then the request commits.  A bag that
\* has been deleted takes no code, and a line taken out of it was gone already, as was one that
\* RemoveCartItem did not find.
TouchBag(w) ==
    LET b == ask[w].bag
        own == {v \in Things : LineLock(b, v) \in holds[w]}
    IN  /\ bagPc[w] = "touching"
        /\ OnBag(w, b, "update") = {}
        /\ IF HasBag(w, b)
           THEN /\ bagRow' = [bagRow EXCEPT ![b] = "there"]
                /\ lines' = [lines EXCEPT ![b] = [v \in Things |-> IF v \in own THEN ask[w].pieces ELSE lines[b][v]]]
                /\ NoteLate(w, b, own)
                /\ mark' = IF ask[w].do = "mark" THEN [mark EXCEPT ![b] = ask[w].mark] ELSE mark
           ELSE UNCHANGED <<bagRows, lateLines>>
        /\ BagDone(w)
        /\ UNCHANGED joins

-----------------------------------------------------------------------------
(* MergeCart. *)

\* CreateUserCart: makes the customer's bag, or updates its row to lock it; a second merge of
\* this customer waits here.
LockMine(w) ==
    /\ bagPc[w] = "joining"
    /\ OnBag(w, ask[w].bag, "update") = {}
    /\ Takes(w, {BagLock(ask[w].bag, "update")})
    /\ BagGoto(w, "guest")
    /\ UNCHANGED <<bagRows, ask, copied, left, nextLine, theirs, bagPast>>

\* The next line to write, in the order the table is read, which may be any.
PicksOf(w, vs) == \E n \in IF vs = {} THEN {None} ELSE vs :
    left' = [left EXCEPT ![w] = vs] /\ nextLine' = [nextLine EXCEPT ![w] = n]

\* CartByToken and the snapshot of MergeCartItems; a bag that is not there has nothing to add.
\* Without a line to copy yet, lines that come between are not read either.
FindGuest(w) ==
    LET g == ask[w].from IN
    /\ bagPc[w] = "guest"
    /\ IF bagRow[g] = "there"
       THEN /\ copied' = [copied EXCEPT ![w] = lines[g]]
            /\ PicksOf(w, {v \in Things : lines[g][v] > 0})
            /\ BagGoto(w, "copying")
            /\ UNCHANGED <<bagRow, ask, holds, theirs>>
       ELSE /\ bagRow' = [bagRow EXCEPT ![ask[w].bag] = "there"]
            /\ BagDone(w)
    /\ UNCHANGED <<lines, mark, bagPast>>

\* MergeCartItems, line by line: each waits for the customer's line of the same variant.
CopyLine(w) ==
    LET u == ask[w].bag  v == nextLine[w] IN
    /\ bagPc[w] = "copying"
    /\ IF v = None
       THEN BagGoto(w, "marking") /\ UNCHANGED <<holds, left, nextLine>>
       ELSE /\ OnLine(w, u, v) = {}
            /\ Takes(w, {LineLock(u, v)})
            /\ PicksOf(w, left[w] \ {v})
            /\ UNCHANGED bagPc
    /\ UNCHANGED <<bagRows, ask, copied, theirs, bagPast>>

\* MergeCartDiscount: a guest's code as it is now, if the bag is still there.
ReadMark(w) ==
    LET g == ask[w].from IN
    /\ bagPc[w] = "marking"
    /\ theirs' = [theirs EXCEPT ![w] = IF bagRow[g] = "there" THEN mark[g] ELSE None]
    /\ BagGoto(w, "deleting")
    /\ UNCHANGED <<bagRows, ask, holds, copied, left, nextLine, bagPast>>

\* DeleteCart waits for whoever has the guest's row, the makers of new lines included.
LockGuest(w) ==
    LET g == ask[w].from IN
    /\ bagPc[w] = "deleting"
    /\ OnBag(w, g, "delete") = {}
    /\ Takes(w, {BagLock(g, "delete")})
    /\ BagGoto(w, "emptying")
    /\ UNCHANGED <<bagRows, ask, copied, left, nextLine, theirs, bagPast>>

\* Mutant: LEAST left out.
SumUncapped(a, b) == a + b

\* LEAST(99, cart_items.quantity + EXCLUDED.quantity).
Sum(a, b) == IF a + b > Most THEN Most ELSE a + b

\* Mutant: the guest's code wins.
KeptTheirs(own, other) == IF other # None THEN other ELSE own

\* COALESCE(carts.discount_id, g.discount_id).
Kept(own, other) == IF own # None THEN own ELSE other

\* Mutant: the guest's bag is emptied, as by a checkout, and its row stays.
DeleteCartEmptied(rows, b) == rows

\* DeleteCart, and its token with it.
DeleteCart(rows, b) == [rows EXCEPT ![b] = "gone"]

\* The lines go with their bag (ON DELETE CASCADE), once nobody has one of them; and the commit.
Merge(w) ==
    LET u == ask[w].bag  g == ask[w].from IN
    /\ bagPc[w] = "emptying"
    /\ \A v \in Things : lines[g][v] > 0 => OnLine(w, g, v) = {}
    /\ bagRow' = DeleteCart([bagRow EXCEPT ![u] = "there"], g)
    /\ lines' = [lines EXCEPT
           ![u] = [v \in Things |-> IF copied[w][v] > 0 THEN Sum(lines[u][v], copied[w][v]) ELSE lines[u][v]],
           ![g] = NoPieces]
    /\ mark' = [mark EXCEPT ![u] = Kept(mark[u], theirs[w]), ![g] = None]
    /\ joins' = [joins EXCEPT ![u] = [joins[u] EXCEPT ![g] = joins[u][g] + 1]]
    /\ NoteLate(w, g, Things)
    /\ BagDone(w)

-----------------------------------------------------------------------------
\* A refusal (not for sale, sold out), a client that goes away, a server that stops.
AbortBag(w) ==
    /\ bagPc[w] # "idle"
    /\ BagDone(w)
    /\ lateLines' = [lateLines EXCEPT ![w] = {}]
    /\ UNCHANGED <<bagRows, joins>>

\* The requests that keep w waiting where it is.
BagBlockers(w) ==
    LET b == ask[w].bag  g == ask[w].from  v == ask[w].thing IN
    CASE bagPc[w] = "making" /\ b \in Owners -> OnBag(w, b, "update")
      [] bagPc[w] = "lining" /\ (lines[b][v] > 0 \/ ask[w].pieces > 0) ->
            OnLine(w, b, v) \cup (IF lines[b][v] = 0 THEN OnBag(w, b, "share") ELSE {})
      [] bagPc[w] \in {"touching", "joining"} -> OnBag(w, b, "update")
      [] bagPc[w] = "copying" /\ nextLine[w] # None -> OnLine(w, b, nextLine[w])
      [] bagPc[w] = "deleting" -> OnBag(w, g, "delete")
      [] bagPc[w] = "emptying" -> UNION {OnLine(w, g, x) : x \in {y \in Things : lines[g][y] > 0}}
      [] OTHER -> {}

\* Every request of W waits for another one of W; PostgreSQL then ends one of them.
BagCircle(W) == W # {} /\ \A w \in W : BagBlockers(w) \cap W # {}

BagVictim(w) ==
    /\ \E W \in SUBSET Workers : w \in W /\ BagCircle(W)
    /\ AbortBag(w)

Asked ==
    [do : {"line"}, bag : Bags, from : {None}, thing : Things, pieces : Pieces, mark : {None}]
    \cup [do : {"mark"}, bag : Bags, from : {None}, thing : {None}, pieces : {0}, mark : Marks \cup {None}]
    \cup [do : {"merge"}, bag : Owners, from : Guests, thing : {None}, pieces : {0}, mark : {None}]

BagNext ==
    \/ \E w \in Workers, a \in Asked : AskBag(w, a)
    \/ \E w \in Workers :
        \/ FindBag(w) \/ MakeBag(w) \/ LockLine(w) \/ TouchBag(w)
        \/ LockMine(w) \/ FindGuest(w) \/ CopyLine(w) \/ ReadMark(w) \/ LockGuest(w) \/ Merge(w)
        \/ AbortBag(w) \/ BagVictim(w)

BagSpec == BagInit /\ [][BagNext]_bagVars

-----------------------------------------------------------------------------
(* Properties. *)

BagSteps == {"idle", "finding", "making", "lining", "touching", "joining", "guest", "copying", "marking", "deleting", "emptying"}

\* Types, and that a bag without a row has neither lines nor a code.
BagTypeOK ==
    /\ bagRow \in [Bags -> {"none", "there", "gone"}]
    /\ lines \in [Bags -> [Things -> 0 .. Most]]
    /\ mark \in [Bags -> Marks \cup {None}]
    /\ bagPc \in [Workers -> BagSteps]
    /\ ask \in [Workers -> Asks]
    /\ holds \in [Workers -> SUBSET Locks]
    /\ copied \in [Workers -> [Things -> 0 .. Most]]
    /\ left \in [Workers -> SUBSET Things]
    /\ nextLine \in [Workers -> Things \cup {None}]
    /\ theirs \in [Workers -> Marks \cup {None}]
    /\ joins \in [Owners -> [Guests -> Nat]]
    /\ lateLines \in [Workers -> SUBSET Things]
    /\ \A b \in Bags : bagRow[b] # "there" => lines[b] = NoPieces /\ mark[b] = None

\* A guest's bag goes into a customer's once, however often and however close together the
\* sign-in that asks for it is retried.
JoinsOnce == \A u \in Owners, g \in Guests : joins[u][g] <= 1

\* A merge adds the guest's lines to the customer's as they are when it commits, whatever the
\* customer changed meanwhile, takes nothing out and keeps the customer's own code.  A line
\* the guest changed after the merge had read it goes with the guest's bag.
MergeAddsUp ==
    [][\A u \in Owners, g \in Guests : joins'[u][g] > joins[u][g] =>
          /\ mark[u] # None => mark'[u] = mark[u]
          /\ \A v \in Things :
                /\ lines'[u][v] >= lines[u][v]
                /\ \/ lines'[u][v] = Most \/ lines'[u][v] = lines[u][v] + lines[g][v]
                   \/ \E w \in Workers : bagPc[w] = "emptying" /\ ask[w].from = g /\ v \in lateLines[w]]_bagVars

\* A request that found no bag and then met one, made by another meanwhile: it has the row of
\* that bag before the line it sets.
MetBag(w) ==
    /\ bagPc[w] = "lining" /\ Adds(w)
    /\ bagRow[ask[w].bag] = "there" /\ BagLock(ask[w].bag, "update") \in holds[w]

\* Requests wait in a circle over bags only where one of them merges (the web server asks for
\* that again at the next sign-in), or where two set the same line of a customer's bag and one
\* of these looked for the bag before it was made: it has the bag's row and waits for the line,
\* the other has the line and waits for the row.
CirclesExplained ==
    \A W \in SUBSET Workers : BagCircle(W) =>
        \/ \E w \in W : ask[w].do = "merge"
        \/ \E w, x \in W :
              /\ MetBag(w) /\ bagPc[x] = "touching" /\ BagCircle({w, x})
              /\ ask[w].bag = ask[x].bag /\ ask[w].bag \in Owners /\ ask[w].thing = ask[x].thing
=============================================================================
