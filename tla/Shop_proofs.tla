----------------------------- MODULE Shop_proofs ------------------------------
(* Machine-checked proofs about bags, texts, lists, the limiter and the audit log, and about all
   the parts of MCShop together. *)
EXTENDS MCShop, Goods_proofs, Sums, TLAPS

-----------------------------------------------------------------------------
(* Bags. *)

Copied == {"copying", "marking", "deleting", "emptying"}

Makes(w, b) == BagLock(b, "update") \in holds[w]

\* What a request was asked to do fits where it is.
AskedFor(w) ==
    /\ bagPc[w] \in {"finding", "making", "lining", "touching"} => ask[w].do \in {"line", "mark"} /\ ask[w].bag \in Bags
    /\ bagPc[w] = "lining" => ask[w].do = "line"
    /\ ask[w].do = "line" => ask[w].thing \in Things
    /\ bagPc[w] \in Copied \cup {"joining", "guest"} =>
           ask[w].do = "merge" /\ ask[w].bag \in Owners /\ ask[w].from \in Guests

\* A request locks rows of its own bag and, when it merges, at last the guest's bag.
LocksOwn(w) ==
    /\ bagPc[w] \in {"idle", "finding", "making", "joining"} => holds[w] = {}
    /\ bagPc[w] = "lining" => holds[w] \subseteq {BagLock(ask[w].bag, "update")}
    /\ bagPc[w] = "touching" =>
           holds[w] \subseteq {BagLock(ask[w].bag, "update"), BagLock(ask[w].bag, "share"), LineLock(ask[w].bag, ask[w].thing)}
    /\ bagPc[w] \in Copied \cup {"guest"} =>
           /\ Makes(w, ask[w].bag)
           /\ holds[w] \subseteq {BagLock(ask[w].bag, "update"), BagLock(ask[w].from, "delete")}
                                   \cup {LineLock(ask[w].bag, v) : v \in Things}

\* Past cartFor a request has found its bag, or makes it, or has met a customer's when it went
\* to make one.
HasFound(w) ==
    /\ bagPc[w] = "making" => Adds(w)
    /\ bagPc[w] \in {"lining", "touching"} =>
          /\ bagRow[ask[w].bag] = "none" => Makes(w, ask[w].bag)
          /\ Makes(w, ask[w].bag) => Adds(w) /\ (ask[w].bag \in Guests => bagRow[ask[w].bag] = "none")

\* A merge has read the lines of a bag that was not in the customer's.
HasRead(w) ==
    bagPc[w] \in Copied =>
        /\ bagRow[ask[w].from] # "none"
        /\ joins[ask[w].bag][ask[w].from] = 0
        /\ \A v \in Things \ lateLines[w] : copied[w][v] = lines[ask[w].from][v]

AtBag(w) == AskedFor(w) /\ LocksOwn(w) /\ HasFound(w) /\ HasRead(w)

\* At most one request at a time makes or joins a bag.
OneMaker == \A w, x \in Workers, b \in Bags : Makes(w, b) /\ Makes(x, b) => w = x

\* The token of a bag that was joined is gone, and no customer's bag ever is.
JoinedGone ==
    /\ \A u \in Owners, g \in Guests : joins[u][g] <= 1 /\ (joins[u][g] > 0 => bagRow[g] = "gone")
    /\ \A u \in Owners : bagRow[u] # "gone"

BagInv == BagTypeOK /\ OneMaker /\ JoinedGone /\ \A w \in Workers : AtBag(w)

\* A step of one request leaves the others at work if it leaves the rows as they found them.
LEMMA OthersAtBag ==
    ASSUME BagInv, NEW w \in Workers,
           \A x \in Workers \ {w} : /\ bagPc'[x] = bagPc[x] /\ ask'[x] = ask[x] /\ holds'[x] = holds[x]
                                    /\ copied'[x] = copied[x],
           \A b \in Bags : bagRow[b] # "none" => bagRow'[b] # "none",
           \A x \in Workers \ {w}, b \in Bags : Makes(x, b) => bagRow'[b] = bagRow[b],
           \A x \in Workers \ {w} : bagPc[x] \in Copied =>
               /\ joins'[ask[x].bag][ask[x].from] = joins[ask[x].bag][ask[x].from]
               /\ \A v \in Things \ lateLines'[x] :
                     v \notin lateLines[x] /\ lines'[ask[x].from][v] = lines[ask[x].from][v]
    PROVE  \A x \in Workers \ {w} : AtBag(x)'
<1> SUFFICES ASSUME NEW x \in Workers \ {w} PROVE AtBag(x)'
  OBVIOUS
<1>0. AtBag(x) /\ \A b \in Bags : Makes(x, b)' <=> Makes(x, b)
  BY DEF BagInv, Makes
<1>1. AskedFor(x)' /\ LocksOwn(x)'
  BY <1>0 DEF AtBag, AskedFor, LocksOwn, Makes
<1>2. HasFound(x)'
  BY <1>0 DEF AtBag, HasFound, AskedFor, Adds
<1>3. HasRead(x)'
  BY <1>0 DEF AtBag, HasRead, AskedFor, Bags
<1> QED
  BY <1>1, <1>2, <1>3 DEF AtBag

\* A request that ends keeps its types.
LEMMA EndedTypes ==
    ASSUME BagTypeOK, NEW w \in Workers, BagDone(w)
    PROVE  /\ bagPc' \in [Workers -> BagSteps] /\ ask' \in [Workers -> Asks] /\ holds' \in [Workers -> SUBSET Locks]
           /\ copied' \in [Workers -> [Things -> 0 .. Most]] /\ left' \in [Workers -> SUBSET Things]
           /\ nextLine' \in [Workers -> Things \cup {None}] /\ theirs' \in [Workers -> Marks \cup {None}]
           /\ bagPc'[w] = "idle" /\ holds'[w] = {} /\ ask'[w].do = "none"
           /\ \A x \in Workers \ {w} : /\ bagPc'[x] = bagPc[x] /\ ask'[x] = ask[x] /\ holds'[x] = holds[x]
                                       /\ copied'[x] = copied[x]
<1>1. NoAsk \in Asks /\ NoPieces \in [Things -> 0 .. Most] /\ NoAsk.do = "none"
  BY BagsAssumption DEF NoAsk, Asks, NoPieces
<1>2. "idle" \in BagSteps
  BY DEF BagSteps
<1> QED
  BY <1>1, <1>2 DEF BagTypeOK, BagDone, BagGoto

\* A request that has ended is where it should be, and makes no bag.
LEMMA EndedAtBag ==
    ASSUME BagInv, NEW w \in Workers, BagDone(w)
    PROVE  AtBag(w)' /\ OneMaker'
<1>1. AtBag(w)'
  BY EndedTypes DEF BagInv, AtBag, AskedFor, LocksOwn, HasFound, HasRead, Copied
<1>2. OneMaker'
  BY EndedTypes DEF BagInv, OneMaker, Makes
<1> QED
  BY <1>1, <1>2

\* A request that ends without a change of the rows.
LEMMA EndsQuietly ==
    ASSUME BagInv, NEW w \in Workers, BagDone(w), UNCHANGED <<bagRows, joins>>,
           lateLines' \in [Workers -> SUBSET Things], \A x \in Workers \ {w} : lateLines'[x] = lateLines[x]
    PROVE  BagInv'
<1>1. BagTypeOK'
  BY EndedTypes DEF BagInv, BagTypeOK, bagRows
<1>2. \A x \in Workers \ {w} : AtBag(x)'
  BY EndedTypes, OthersAtBag DEF BagInv, bagRows
<1> QED
  BY <1>1, <1>2, EndedAtBag DEF BagInv, JoinedGone, bagRows

\* A request that goes on without a change of the rows.
LEMMA GoesOn ==
    ASSUME BagInv, NEW w \in Workers, UNCHANGED <<bagRows, bagPast>>,
           NEW p \in BagSteps, bagPc' = [bagPc EXCEPT ![w] = p],
           NEW a \in Asks, ask' = [ask EXCEPT ![w] = a],
           NEW h \in SUBSET Locks, holds' = [holds EXCEPT ![w] = h],
           NEW c \in [Things -> 0 .. Most], copied' = [copied EXCEPT ![w] = c],
           NEW l \in SUBSET Things, left' = [left EXCEPT ![w] = l],
           NEW n \in Things \cup {None}, nextLine' = [nextLine EXCEPT ![w] = n],
           NEW t \in Marks \cup {None}, theirs' = [theirs EXCEPT ![w] = t],
           \A b \in Bags : BagLock(b, "update") \in h => \A x \in Workers \ {w} : ~Makes(x, b),
           AtBag(w)'
    PROVE  BagInv'
<1>1. BagTypeOK'
  BY DEF BagInv, BagTypeOK, bagRows, bagPast
<1>2. /\ \A x \in Workers \ {w} : /\ bagPc'[x] = bagPc[x] /\ ask'[x] = ask[x] /\ holds'[x] = holds[x]
                                  /\ copied'[x] = copied[x]
      /\ holds'[w] = h
  BY DEF BagInv, BagTypeOK
<1>3. \A x \in Workers \ {w} : AtBag(x)'
  BY <1>2, OthersAtBag DEF BagInv, bagRows, bagPast
<1>4. OneMaker'
  BY <1>2 DEF BagInv, OneMaker, Makes
<1> QED
  BY <1>1, <1>3, <1>4 DEF BagInv, JoinedGone, bagRows, bagPast

\* Who holds a lock against "update" keeps others from making the bag.
LEMMA NobodyMakes ==
    ASSUME NEW w \in Workers, NEW b \in Bags, OnBag(w, b, "update") = {}
    PROVE  \A x \in Workers \ {w} : ~Makes(x, b)
BY DEF OnBag, Against, Makes

\* Locks of different rows are different, and so are those of one row in different modes.
LEMMA LocksApart ==
    \A b \in Bags, c \in Bags, v \in Things, m \in Modes, k \in Modes :
        /\ LineLock(b, v) # BagLock(c, m)
        /\ BagLock(b, m) = BagLock(c, k) => b = c /\ m = k
        /\ BagLock(b, m) \in Locks /\ LineLock(b, v) \in Locks
BY BagsAssumption DEF LineLock, BagLock, Modes, Locks

\* The locks of a bag, and of a line, are of one row each.
LEMMA RowLocks ==
    /\ \A b \in Bags, c \in Bags :
          /\ BagLock(b, "update") # BagLock(c, "delete") /\ BagLock(b, "update") # BagLock(c, "share")
          /\ BagLock(b, "update") = BagLock(c, "update") => b = c
    /\ \A b \in Bags, c \in Bags, v \in Things :
          BagLock(b, "update") # LineLock(c, v) /\ BagLock(b, "delete") # LineLock(c, v)
    /\ \A b \in Bags :
          /\ BagLock(b, "update") \in Locks /\ BagLock(b, "delete") \in Locks /\ BagLock(b, "share") \in Locks
          /\ \A v \in Things : LineLock(b, v) \in Locks
BY BagsAssumption DEF LineLock, BagLock, Modes, Locks

\* What a request may hold, field by field.
LEMMA AskIs ==
    ASSUME NEW d \in {"line", "mark", "merge", "none"}, NEW b \in Bags \cup {None}, NEW f \in Guests \cup {None},
           NEW t \in Things \cup {None}, NEW q \in 0 .. Most, NEW m \in Marks \cup {None}
    PROVE  [do |-> d, bag |-> b, from |-> f, thing |-> t, pieces |-> q, mark |-> m] \in Asks
BY DEF Asks

\* A request that starts holds nothing.
LEMMA BagAsked ==
    ASSUME BagInv, NEW w \in Workers, NEW a \in Asked, AskBag(w, a)
    PROVE  BagInv'
<1> DEFINE p == IF a.do = "merge" THEN "joining" ELSE "finding"
<1>1. p \in BagSteps /\ a \in Asks
  <2>1. p \in BagSteps
    BY DEF BagSteps
  <2>2. Pieces \subseteq 0 .. Most /\ 0 \in 0 .. Most
    BY BagsAssumption
  <2>3. CASE a \in [do : {"line"}, bag : Bags, from : {None}, thing : Things, pieces : Pieces, mark : {None}]
    <3>1. PICK b \in Bags, f \in {None}, t \in Things, q \in Pieces, m \in {None} :
              a = [do |-> "line", bag |-> b, from |-> f, thing |-> t, pieces |-> q, mark |-> m]
      BY <2>3, Zenon
    <3>2. b \in Bags /\ q \in 0 .. Most
      BY <2>2 DEF Bags
    <3>3. [do |-> "line", bag |-> b, from |-> f, thing |-> t, pieces |-> q, mark |-> m] \in Asks
      BY <3>2, AskIs
    <3> QED BY <2>1, <3>1, <3>3
  <2>4. CASE a \in [do : {"mark"}, bag : Bags, from : {None}, thing : {None}, pieces : {0}, mark : Marks \cup {None}]
    <3>1. PICK b \in Bags, f \in {None}, t \in {None}, q \in {0}, m \in Marks \cup {None} :
              a = [do |-> "mark", bag |-> b, from |-> f, thing |-> t, pieces |-> q, mark |-> m]
      BY <2>4, Zenon
    <3>2. b \in Bags /\ q \in 0 .. Most
      BY <2>2 DEF Bags
    <3>3. [do |-> "mark", bag |-> b, from |-> f, thing |-> t, pieces |-> q, mark |-> m] \in Asks
      BY <3>2, AskIs
    <3> QED BY <2>1, <3>1, <3>3
  <2>5. CASE a \in [do : {"merge"}, bag : Owners, from : Guests, thing : {None}, pieces : {0}, mark : {None}]
    <3>1. PICK b \in Owners, f \in Guests, t \in {None}, q \in {0}, m \in {None} :
              a = [do |-> "merge", bag |-> b, from |-> f, thing |-> t, pieces |-> q, mark |-> m]
      BY <2>5, Zenon
    <3>2. b \in Bags /\ q \in 0 .. Most
      BY <2>2 DEF Bags
    <3>3. [do |-> "merge", bag |-> b, from |-> f, thing |-> t, pieces |-> q, mark |-> m] \in Asks
      BY <3>2, AskIs
    <3> QED BY <2>1, <3>1, <3>3
  <2> QED BY <2>1, <2>3, <2>4, <2>5 DEF Asked
<1>2. bagPc' = [bagPc EXCEPT ![w] = p] /\ ask' = [ask EXCEPT ![w] = a] /\ bagPc[w] = "idle"
      /\ UNCHANGED <<bagRows, holds, copied, left, nextLine, theirs, bagPast>>
  BY DEF AskBag, BagGoto
<1>3. bagPc'[w] = p /\ ask'[w] = a /\ holds'[w] = {} /\ holds[w] = {}
  BY <1>2 DEF BagInv, AtBag, LocksOwn, BagTypeOK
<1>4. AtBag(w)'
  <2>1. AskedFor(w)'
    BY <1>3 DEF AskedFor, Copied, Asked
  <2> QED BY <1>3, <2>1 DEF AtBag, LocksOwn, HasFound, HasRead, Copied
<1>5. /\ holds' = [holds EXCEPT ![w] = holds[w]] /\ copied' = [copied EXCEPT ![w] = copied[w]]
      /\ left' = [left EXCEPT ![w] = left[w]] /\ nextLine' = [nextLine EXCEPT ![w] = nextLine[w]]
      /\ theirs' = [theirs EXCEPT ![w] = theirs[w]]
      /\ holds[w] \in SUBSET Locks /\ copied[w] \in [Things -> 0 .. Most] /\ left[w] \in SUBSET Things
      /\ nextLine[w] \in Things \cup {None} /\ theirs[w] \in Marks \cup {None}
  BY <1>2 DEF BagInv, BagTypeOK
<1> HIDE DEF p
<1> QED
  BY <1>1, <1>2, <1>3, <1>4, <1>5, GoesOn

\* GoesOn where only its locks change.
LEMMA GoesOnLocking ==
    ASSUME BagInv, NEW w \in Workers, UNCHANGED <<bagRows, bagPast, ask, copied, left, nextLine, theirs>>,
           NEW p \in BagSteps, bagPc' = [bagPc EXCEPT ![w] = p],
           NEW h \in SUBSET Locks, holds' = [holds EXCEPT ![w] = h],
           \A b \in Bags : BagLock(b, "update") \in h => \A x \in Workers \ {w} : ~Makes(x, b),
           bagPc'[w] = p /\ holds'[w] = h => AtBag(w)'
    PROVE  BagInv'
<1>1. /\ copied' = [copied EXCEPT ![w] = copied[w]] /\ ask' = [ask EXCEPT ![w] = ask[w]]
      /\ left' = [left EXCEPT ![w] = left[w]] /\ nextLine' = [nextLine EXCEPT ![w] = nextLine[w]]
      /\ theirs' = [theirs EXCEPT ![w] = theirs[w]]
      /\ ask[w] \in Asks /\ copied[w] \in [Things -> 0 .. Most] /\ left[w] \in SUBSET Things
      /\ nextLine[w] \in Things \cup {None} /\ theirs[w] \in Marks \cup {None}
      /\ bagPc'[w] = p /\ holds'[w] = h
  BY DEF BagInv, BagTypeOK
<1> QED
  BY <1>1, GoesOn

LEMMA BagFound == ASSUME BagInv, NEW w \in Workers, FindBag(w) PROVE BagInv'
<1> DEFINE b == ask[w].bag
           after == IF ask[w].do = "line" THEN "lining" ELSE "touching"
<1>0. /\ bagPc[w] = "finding" /\ ask[w].do \in {"line", "mark"} /\ b \in Bags /\ holds[w] = {} /\ after \in BagSteps
      /\ (ask[w].do = "line" => ask[w].thing \in Things) /\ UNCHANGED <<bagRows, bagPast>> /\ "making" \in BagSteps
  BY DEF FindBag, BagInv, AtBag, AskedFor, LocksOwn, BagSteps
<1>1. CASE bagRow[b] = "there" /\ BagFoundGoto(w) /\ UNCHANGED bagWork
  <2>1. /\ UNCHANGED <<bagRows, bagPast, ask, copied, left, nextLine, theirs>>
        /\ bagPc' = [bagPc EXCEPT ![w] = after] /\ holds' = [holds EXCEPT ![w] = {}]
    BY <1>0, <1>1 DEF bagWork, BagFoundGoto, BagGoto, BagInv, BagTypeOK
  <2>2. ASSUME bagPc'[w] = after, holds'[w] = {} PROVE AtBag(w)'
    <3>1. AskedFor(w)' /\ LocksOwn(w)'
      BY <1>0, <2>1, <2>2 DEF AskedFor, LocksOwn, Copied
    <3>2. HasFound(w)'
      BY <1>0, <1>1, <2>1, <2>2 DEF HasFound, Makes, bagRows
    <3>3. HasRead(w)'
      BY <1>0, <2>2 DEF HasRead, Copied
    <3> QED BY <3>1, <3>2, <3>3 DEF AtBag
  <2> HIDE DEF after
  <2> QED BY <1>0, <2>1, <2>2, GoesOnLocking
<1>2. CASE Adds(w) /\ BagGoto(w, "making") /\ UNCHANGED bagWork
  <2>1. /\ UNCHANGED <<bagRows, bagPast, ask, copied, left, nextLine, theirs>>
        /\ bagPc' = [bagPc EXCEPT ![w] = "making"] /\ holds' = [holds EXCEPT ![w] = {}]
    BY <1>0, <1>2 DEF bagWork, BagGoto, BagInv, BagTypeOK
  <2>2. ASSUME bagPc'[w] = "making", holds'[w] = {} PROVE AtBag(w)'
    <3>1. AskedFor(w)' /\ LocksOwn(w)'
      BY <1>0, <2>1, <2>2 DEF AskedFor, LocksOwn, Copied
    <3>2. HasFound(w)' /\ HasRead(w)'
      BY <1>2, <2>1, <2>2 DEF HasFound, HasRead, Copied, Adds
    <3> QED BY <3>1, <3>2 DEF AtBag
  <2> QED BY <1>0, <2>1, <2>2, GoesOnLocking
<1>3. CASE BagDone(w)
  BY <1>0, <1>3, EndsQuietly DEF BagInv, BagTypeOK, bagPast
<1> QED
  BY <1>1, <1>2, <1>3 DEF FindBag

\* A bag that is made is nobody else's, and one that is met is a customer's.
LEMMA BagMade == ASSUME BagInv, NEW w \in Workers, MakeBag(w) PROVE BagInv'
<1> DEFINE b == ask[w].bag
           after == IF ask[w].do = "line" THEN "lining" ELSE "touching"
           h == {BagLock(b, "update")}
<1>0. /\ bagPc[w] = "making" /\ ask[w].do \in {"line", "mark"} /\ b \in Bags /\ holds[w] = {} /\ after \in BagSteps
      /\ (ask[w].do = "line" => ask[w].thing \in Things) /\ UNCHANGED <<bagRows, bagPast>> /\ Adds(w)
  BY DEF MakeBag, BagInv, AtBag, AskedFor, LocksOwn, HasFound, BagSteps
<1>1. CASE /\ b \in Owners \/ bagRow[b] = "none"
           /\ OnBag(w, b, "update") = {} /\ Takes(w, h)
           /\ BagFoundGoto(w) /\ UNCHANGED <<ask, copied, left, nextLine, theirs>>
  <2>1. /\ UNCHANGED <<bagRows, bagPast, ask, copied, left, nextLine, theirs>>
        /\ bagPc' = [bagPc EXCEPT ![w] = after] /\ holds' = [holds EXCEPT ![w] = h]
    BY <1>0, <1>1 DEF Takes, BagFoundGoto, BagGoto
  <2>2. h \in SUBSET Locks /\ \A c \in Bags : BagLock(c, "update") \in h => c = b
    BY <1>0 DEF BagLock, Locks, Modes
  <2>3. ASSUME bagPc'[w] = after, holds'[w] = h PROVE AtBag(w)'
    <3>1. AskedFor(w)' /\ LocksOwn(w)'
      BY <1>0, <2>1, <2>3 DEF AskedFor, LocksOwn, Copied
    <3>2. b \in Guests => bagRow[b] = "none"
      BY <1>1, BagsAssumption
    <3>3. HasFound(w)'
      BY <1>0, <2>1, <2>3, <3>2 DEF HasFound, Makes, Adds, bagRows
    <3>4. HasRead(w)'
      BY <1>0, <2>3 DEF HasRead, Copied
    <3> QED BY <3>1, <3>3, <3>4 DEF AtBag
  <2>4. \A c \in Bags : BagLock(c, "update") \in h => \A x \in Workers \ {w} : ~Makes(x, c)
    BY <1>0, <1>1, <2>2, NobodyMakes
  <2> HIDE DEF after, h
  <2> QED BY <1>0, <2>1, <2>2, <2>3, <2>4, GoesOnLocking
<1>2. CASE BagDone(w)
  BY <1>0, <1>2, EndsQuietly DEF BagInv, BagTypeOK, bagPast
<1> QED
  BY <1>1, <1>2 DEF MakeBag

LEMMA LineLocked == ASSUME BagInv, NEW w \in Workers, LockLine(w) PROVE BagInv'
<1> DEFINE b == ask[w].bag
           v == ask[w].thing
           new == ask[w].pieces > 0 /\ lines[b][v] = 0
           gone == ask[w].pieces = 0 /\ lines[b][v] = 0
<1>0. /\ bagPc[w] = "lining" /\ ask[w].do = "line" /\ b \in Bags /\ v \in Things
      /\ holds[w] \subseteq {BagLock(b, "update")} /\ UNCHANGED <<bagRows, bagPast>>
      /\ HasFound(w) /\ AskedFor(w)
  BY DEF LockLine, BagInv, AtBag, AskedFor, LocksOwn
<1>1. CASE BagDone(w)
  BY <1>0, <1>1, EndsQuietly DEF BagInv, BagTypeOK, bagPast
<1>2. CASE ~BagDone(w)
  <2> DEFINE more == IF gone THEN {} ELSE {LineLock(b, v)} \cup (IF new THEN {BagLock(b, "share")} ELSE {})
             h == holds[w] \cup more
  <2>1. /\ UNCHANGED <<bagRows, bagPast, ask, copied, left, nextLine, theirs>>
        /\ bagPc' = [bagPc EXCEPT ![w] = "touching"] /\ holds' = [holds EXCEPT ![w] = h]
    BY <1>0, <1>2 DEF LockLine, Takes, BagGoto
  <2>2. more \subseteq {LineLock(b, v), BagLock(b, "share")}
    OBVIOUS
  <2> HIDE DEF more
  <2>3. h \in SUBSET Locks
    BY <1>0, <2>2, LocksApart DEF Modes
  <2>4. \A c \in Bags : BagLock(c, "update") \in h => BagLock(c, "update") \in holds[w]
    BY <1>0, <2>2, LocksApart DEF Modes
  <2>5. \A c \in Bags : BagLock(c, "update") \in h => \A x \in Workers \ {w} : ~Makes(x, c)
    BY <2>4 DEF BagInv, OneMaker, Makes
  <2>6. ASSUME bagPc'[w] = "touching", holds'[w] = h PROVE AtBag(w)'
    <3>1. AskedFor(w)' /\ LocksOwn(w)'
      BY <1>0, <2>1, <2>2, <2>6 DEF AskedFor, LocksOwn, Copied
    <3>2. HasFound(w)'
      BY <1>0, <2>1, <2>4, <2>6 DEF HasFound, Makes, Adds, bagRows
    <3>3. HasRead(w)'
      BY <2>6 DEF HasRead, Copied
    <3> QED BY <3>1, <3>2, <3>3 DEF AtBag
  <2>7. "touching" \in BagSteps
    BY DEF BagSteps
  <2> HIDE DEF h
  <2> QED BY <2>1, <2>3, <2>5, <2>6, <2>7, GoesOnLocking
<1> QED
  BY <1>1, <1>2

\* The lines of b that change are noted by every merge that has read them.
LEMMA LateNoted ==
    ASSUME BagTypeOK, NEW w \in Workers, NEW b \in Bags, NEW vs \in SUBSET Things, NoteLate(w, b, vs),
           \A c \in Bags : \A v \in Things : lines'[c][v] # lines[c][v] =>
               (c = b /\ v \in vs) \/ (c \in Owners)
    PROVE  /\ lateLines' \in [Workers -> SUBSET Things]
           /\ \A x \in Workers \ {w} : AskedFor(x) /\ bagPc[x] \in Copied =>
                 \A v \in Things \ lateLines'[x] :
                     v \notin lateLines[x] /\ lines'[ask[x].from][v] = lines[ask[x].from][v]
<1>1. lateLines' \in [Workers -> SUBSET Things]
  BY DEF BagTypeOK, NoteLate
<1>2. ASSUME NEW x \in Workers \ {w}, AskedFor(x), bagPc[x] \in Copied, NEW v \in Things \ lateLines'[x]
      PROVE  v \notin lateLines[x] /\ lines'[ask[x].from][v] = lines[ask[x].from][v]
  <2>1. lateLines'[x] = IF ask[x].from = b THEN lateLines[x] \cup vs ELSE lateLines[x]
    BY <1>2 DEF NoteLate, Copied
  <2>2. ask[x].from \in Bags /\ ask[x].from \notin Owners
    BY <1>2, BagsAssumption DEF AskedFor, Bags
  <2> QED BY <1>2, <2>1, <2>2
<1> QED
  BY <1>1, <1>2

LEMMA BagTouched == ASSUME BagInv, NEW w \in Workers, TouchBag(w) PROVE BagInv'
<1> DEFINE b == ask[w].bag
<1>0. /\ bagPc[w] = "touching" /\ ask[w].do \in {"line", "mark"} /\ b \in Bags /\ BagDone(w) /\ UNCHANGED joins
      /\ (Makes(w, b) /\ b \in Guests => bagRow[b] = "none")
      /\ OnBag(w, b, "update") = {} /\ ask[w].pieces \in 0 .. Most /\ ask[w].mark \in Marks \cup {None}
  <2>1. ask[w] \in Asks
    BY DEF BagInv, BagTypeOK
  <2> QED BY <2>1 DEF TouchBag, BagInv, AtBag, AskedFor, HasFound, Asks
<1>1. CASE ~HasBag(w, b)
  BY <1>0, <1>1, EndsQuietly DEF TouchBag, BagInv, BagTypeOK
<1>2. CASE HasBag(w, b)
  <2>1. bagRow' = [bagRow EXCEPT ![b] = "there"] /\ (b \in Guests => bagRow[b] # "gone")
    BY <1>0, <1>2 DEF TouchBag, HasBag, Makes
  <2>2. /\ \A c \in Bags : bagRow[c] # "none" => bagRow'[c] # "none"
        /\ \A x \in Workers \ {w}, c \in Bags : Makes(x, c) => bagRow'[c] = bagRow[c]
    BY <1>0, <2>1, NobodyMakes DEF BagInv, BagTypeOK
  <2>3. /\ lines' \in [Bags -> [Things -> 0 .. Most]] /\ mark' \in [Bags -> Marks \cup {None}]
        /\ \A c \in Bags \ {b} : lines'[c] = lines[c] /\ mark'[c] = mark[c]
        /\ lateLines' \in [Workers -> SUBSET Things]
        /\ \A x \in Workers \ {w} : AskedFor(x) /\ bagPc[x] \in Copied =>
                 \A v \in Things \ lateLines'[x] :
                     v \notin lateLines[x] /\ lines'[ask[x].from][v] = lines[ask[x].from][v]
    <3>1. PICK own \in SUBSET Things : own = {v \in Things : LineLock(b, v) \in holds[w]}
      OBVIOUS
    <3>2. PICK n : n = [v \in Things |-> IF v \in own THEN ask[w].pieces ELSE lines[b][v]]
      OBVIOUS
    <3>3. /\ lines' = [lines EXCEPT ![b] = n] /\ NoteLate(w, b, own)
          /\ mark' = IF ask[w].do = "mark" THEN [mark EXCEPT ![b] = ask[w].mark] ELSE mark
      BY <1>0, <1>2, <3>1, <3>2 DEF TouchBag
    <3>4. n \in [Things -> 0 .. Most]
      BY <1>0, <3>2 DEF BagInv, BagTypeOK
    <3>5. /\ lines' \in [Bags -> [Things -> 0 .. Most]] /\ mark' \in [Bags -> Marks \cup {None}]
          /\ \A c \in Bags \ {b} : lines'[c] = lines[c] /\ mark'[c] = mark[c]
      BY <1>0, <3>3, <3>4 DEF BagInv, BagTypeOK
    <3>6. \A d \in Bags : \A v \in Things : lines'[d][v] # lines[d][v] => (d = b /\ v \in own) \/ d \in Owners
      BY <1>0, <3>2, <3>3, <3>4 DEF BagInv, BagTypeOK
    <3>7. PICK c \in Bags : c = b
      BY <1>0
    <3>8. NoteLate(w, c, own) /\ \A d \in Bags : \A v \in Things : lines'[d][v] # lines[d][v] => (d = c /\ v \in own) \/ d \in Owners
      BY <3>3, <3>6, <3>7
    <3>9. BagTypeOK
      BY DEF BagInv
    <3>10. /\ lateLines' \in [Workers -> SUBSET Things]
           /\ \A x \in Workers \ {w} : AskedFor(x) /\ bagPc[x] \in Copied =>
                 \A v \in Things \ lateLines'[x] :
                     v \notin lateLines[x] /\ lines'[ask[x].from][v] = lines[ask[x].from][v]
      <4> HIDE DEF b
      <4> QED BY <3>8, <3>9, LateNoted
    <3> QED BY <3>5, <3>10
  <2>4. BagTypeOK'
    <3>1. bagRow' \in [Bags -> {"none", "there", "gone"}] /\ joins' \in [Owners -> [Guests -> Nat]]
      BY <1>0, <2>1 DEF BagInv, BagTypeOK
    <3>2. \A c \in Bags : bagRow'[c] # "there" => lines'[c] = NoPieces /\ mark'[c] = None
      BY <1>0, <2>1, <2>3 DEF BagInv, BagTypeOK
    <3>3. BagTypeOK
      BY DEF BagInv
    <3> HIDE DEF b
    <3> QED BY <1>0, <2>3, <3>1, <3>2, <3>3, EndedTypes DEF BagTypeOK
  <2>5. \A x \in Workers \ {w} : AtBag(x)'
    <3>1. \A x \in Workers \ {w} : AskedFor(x)
      BY DEF BagInv, AtBag
    <3>2. \A x \in Workers \ {w} : /\ bagPc'[x] = bagPc[x] /\ ask'[x] = ask[x] /\ holds'[x] = holds[x]
                                    /\ copied'[x] = copied[x]
      BY <1>0, EndedTypes DEF BagInv
    <3>3. \A x \in Workers \ {w} : bagPc[x] \in Copied =>
               /\ joins'[ask[x].bag][ask[x].from] = joins[ask[x].bag][ask[x].from]
               /\ \A v \in Things \ lateLines'[x] :
                     v \notin lateLines[x] /\ lines'[ask[x].from][v] = lines[ask[x].from][v]
      BY <1>0, <2>3, <3>1
    <3> HIDE DEF b
    <3> QED BY <2>2, <3>2, <3>3, OthersAtBag
  <2>6. JoinedGone'
    BY <1>0, <2>1 DEF BagInv, JoinedGone, BagTypeOK, Bags
  <2> QED BY <1>0, <2>4, <2>5, <2>6, EndedAtBag DEF BagInv
<1> QED
  BY <1>1, <1>2

\* Where a merge is: its own bag is locked, and what it has locked are rows of it.
LEMMA MineLocked == ASSUME BagInv, NEW w \in Workers, LockMine(w) PROVE BagInv'
<1> DEFINE b == ask[w].bag
           h == {BagLock(b, "update")}
<1>0. /\ bagPc[w] = "joining" /\ ask[w].do = "merge" /\ b \in Owners /\ b \in Bags /\ ask[w].from \in Guests /\ holds[w] = {}
      /\ OnBag(w, b, "update") = {}
  BY DEF LockMine, BagInv, AtBag, AskedFor, LocksOwn, Bags
<1>1. /\ UNCHANGED <<bagRows, bagPast, ask, copied, left, nextLine, theirs>>
      /\ bagPc' = [bagPc EXCEPT ![w] = "guest"] /\ holds' = [holds EXCEPT ![w] = h]
  BY <1>0 DEF LockMine, Takes, BagGoto
<1>2. h \in SUBSET Locks /\ "guest" \in BagSteps
  BY <1>0, RowLocks DEF BagSteps
<1>3. ASSUME NEW c \in Bags, BagLock(c, "update") \in h PROVE \A x \in Workers \ {w} : ~Makes(x, c)
  <2>1. c = b
    BY <1>0, <1>3, RowLocks
  <2> QED BY <1>0, <2>1, NobodyMakes
<1>4. ASSUME bagPc'[w] = "guest", holds'[w] = h PROVE AtBag(w)'
  BY <1>0, <1>1, <1>4 DEF AtBag, AskedFor, LocksOwn, HasFound, HasRead, Makes, Copied
<1> HIDE DEF h
<1> QED BY <1>1, <1>2, <1>3, <1>4, GoesOnLocking

LEMMA GuestFound == ASSUME BagInv, NEW w \in Workers, FindGuest(w) PROVE BagInv'
<1> DEFINE u == ask[w].bag
           g == ask[w].from
<1>0. /\ bagPc[w] = "guest" /\ ask[w].do = "merge" /\ u \in Owners /\ u \in Bags /\ g \in Guests /\ g \in Bags
      /\ Makes(w, u) /\ holds[w] \subseteq {BagLock(u, "update"), BagLock(g, "delete")} \cup {LineLock(u, v) : v \in Things}
      /\ u # g
  BY BagsAssumption DEF FindGuest, BagInv, AtBag, AskedFor, LocksOwn, Bags
<1>1. CASE bagRow[g] = "there"
  <2>1. PICK n \in Things \cup {None} : nextLine' = [nextLine EXCEPT ![w] = n]
    BY <1>1 DEF FindGuest, PicksOf
  <2>2. PICK vs \in SUBSET Things : left' = [left EXCEPT ![w] = vs]
    BY <1>1 DEF FindGuest, PicksOf
  <2>3. PICK c \in [Things -> 0 .. Most] : c = lines[g]
    BY <1>0 DEF BagInv, BagTypeOK
  <2>4. /\ UNCHANGED <<bagRows, bagPast, ask, holds, theirs>> /\ copied' = [copied EXCEPT ![w] = c]
        /\ bagPc' = [bagPc EXCEPT ![w] = "copying"]
    BY <1>1, <2>3 DEF FindGuest, BagGoto, bagRows
  <2>5. /\ ask' = [ask EXCEPT ![w] = ask[w]] /\ holds' = [holds EXCEPT ![w] = holds[w]] /\ theirs' = [theirs EXCEPT ![w] = theirs[w]]
        /\ ask[w] \in Asks /\ holds[w] \in SUBSET Locks /\ theirs[w] \in Marks \cup {None} /\ "copying" \in BagSteps
        /\ bagPc'[w] = "copying" /\ copied'[w] = c /\ holds'[w] = holds[w] /\ ask'[w] = ask[w]
    BY <2>4 DEF BagInv, BagTypeOK, BagSteps
  <2>6. \A b \in Bags : BagLock(b, "update") \in holds[w] => \A x \in Workers \ {w} : ~Makes(x, b)
    BY DEF BagInv, OneMaker, Makes
  <2>7. joins[u][g] = 0
    <3>1. joins[u][g] \in Nat
      BY <1>0 DEF BagInv, BagTypeOK
    <3>2. ~(joins[u][g] > 0)
      BY <1>0, <1>1 DEF BagInv, JoinedGone
    <3> QED BY <3>1, <3>2
  <2>8. AtBag(w)'
    <3>1. AskedFor(w)' /\ LocksOwn(w)' /\ HasFound(w)'
      BY <1>0, <2>5 DEF AskedFor, LocksOwn, HasFound, Makes, Copied
    <3>2. HasRead(w)'
      BY <1>0, <1>1, <2>3, <2>4, <2>5, <2>7 DEF HasRead, Copied, bagRows, bagPast
    <3> QED BY <3>1, <3>2 DEF AtBag
  <2> HIDE DEF u, g
  <2> QED BY <2>1, <2>2, <2>4, <2>5, <2>6, <2>8, GoesOn
<1>2. CASE bagRow[g] # "there"
  <2>1. bagRow' = [bagRow EXCEPT ![u] = "there"] /\ BagDone(w) /\ UNCHANGED <<lines, mark, bagPast>>
    BY <1>2 DEF FindGuest
  <2>2. BagTypeOK'
    <3>1. bagRow' \in [Bags -> {"none", "there", "gone"}]
      BY <1>0, <2>1 DEF BagInv, BagTypeOK
    <3>2. \A c \in Bags : bagRow'[c] # "there" => lines'[c] = NoPieces /\ mark'[c] = None
      BY <1>0, <2>1 DEF BagInv, BagTypeOK
    <3> QED BY <2>1, <3>1, <3>2, EndedTypes DEF BagInv, BagTypeOK, bagPast
  <2>3. \A x \in Workers \ {w} : AtBag(x)'
    <3>1. \A c \in Bags : bagRow[c] # "none" => bagRow'[c] # "none"
      BY <1>0, <2>1 DEF BagInv, BagTypeOK
    <3>2. \A x \in Workers \ {w}, c \in Bags : Makes(x, c) => bagRow'[c] = bagRow[c]
      BY <1>0, <2>1 DEF BagInv, BagTypeOK, OneMaker
    <3>3. \A x \in Workers \ {w} : /\ bagPc'[x] = bagPc[x] /\ ask'[x] = ask[x] /\ holds'[x] = holds[x]
                                    /\ copied'[x] = copied[x]
      BY <2>1, EndedTypes DEF BagInv
    <3>4. \A x \in Workers \ {w} : bagPc[x] \in Copied =>
               /\ joins'[ask[x].bag][ask[x].from] = joins[ask[x].bag][ask[x].from]
               /\ \A v \in Things \ lateLines'[x] :
                     v \notin lateLines[x] /\ lines'[ask[x].from][v] = lines[ask[x].from][v]
      BY <2>1 DEF bagPast
    <3> QED BY <3>1, <3>2, <3>3, <3>4, OthersAtBag
  <2>4. JoinedGone'
    <3>1. \A d \in Guests : bagRow'[d] = bagRow[d]
      BY <1>0, <2>1, BagsAssumption DEF BagInv, BagTypeOK, Bags
    <3> QED BY <2>1, <3>1 DEF BagInv, JoinedGone, bagPast
  <2> QED BY <2>1, <2>2, <2>3, <2>4, EndedAtBag DEF BagInv
<1> QED
  BY <1>1, <1>2

LEMMA LineCopied == ASSUME BagInv, NEW w \in Workers, CopyLine(w) PROVE BagInv'
<1> DEFINE u == ask[w].bag
           g == ask[w].from
<1>0. /\ bagPc[w] = "copying" /\ ask[w].do = "merge" /\ u \in Owners /\ u \in Bags /\ g \in Guests
      /\ Makes(w, u) /\ holds[w] \subseteq {BagLock(u, "update"), BagLock(g, "delete")} \cup {LineLock(u, v) : v \in Things}
      /\ HasRead(w) /\ UNCHANGED <<bagRows, ask, copied, theirs, bagPast>>
  BY DEF CopyLine, BagInv, AtBag, AskedFor, LocksOwn, Bags, Copied
<1>1. \E p \in {"copying", "marking"}, h \in SUBSET Locks, l \in SUBSET Things, n \in Things \cup {None} :
        /\ bagPc' = [bagPc EXCEPT ![w] = p] /\ holds' = [holds EXCEPT ![w] = h]
        /\ left' = [left EXCEPT ![w] = l] /\ nextLine' = [nextLine EXCEPT ![w] = n]
        /\ holds[w] \subseteq h /\ h \subseteq holds[w] \cup {LineLock(u, v) : v \in Things}
  <2>0. /\ holds[w] \in SUBSET Locks /\ left[w] \in SUBSET Things /\ nextLine[w] \in Things \cup {None}
        /\ bagPc = [bagPc EXCEPT ![w] = "copying"] /\ holds = [holds EXCEPT ![w] = holds[w]]
        /\ left = [left EXCEPT ![w] = left[w]] /\ nextLine = [nextLine EXCEPT ![w] = nextLine[w]]
    BY <1>0 DEF BagInv, BagTypeOK
  <2>1. CASE nextLine[w] = None
    <3>1. BagGoto(w, "marking") /\ UNCHANGED <<holds, left, nextLine>>
      BY <2>1 DEF CopyLine
    <3> QED BY <2>0, <3>1 DEF BagGoto
  <2>2. CASE nextLine[w] # None
    <3>1. PICK h : h = holds[w] \cup {LineLock(u, nextLine[w])}
      OBVIOUS
    <3>2. PICK l : l = left[w] \ {nextLine[w]}
      OBVIOUS
    <3>3. holds' = [holds EXCEPT ![w] = h] /\ PicksOf(w, l) /\ UNCHANGED bagPc
      BY <2>2, <3>1, <3>2 DEF CopyLine, Takes
    <3>4. PICK n \in Things \cup {None} : left' = [left EXCEPT ![w] = l] /\ nextLine' = [nextLine EXCEPT ![w] = n]
      BY <2>0, <3>2, <3>3 DEF PicksOf
    <3>5. h \in SUBSET Locks /\ l \in SUBSET Things /\ h \subseteq holds[w] \cup {LineLock(u, v) : v \in Things}
      BY <1>0, <2>0, <2>2, <3>1, <3>2, RowLocks
    <3>6. bagPc' = [bagPc EXCEPT ![w] = "copying"] /\ holds[w] \subseteq h
      BY <2>0, <3>1, <3>3
    <3> QED BY <3>3, <3>4, <3>5, <3>6
  <2> QED BY <2>1, <2>2
<1>2. PICK p \in {"copying", "marking"}, h \in SUBSET Locks, l \in SUBSET Things, n \in Things \cup {None} :
        /\ bagPc' = [bagPc EXCEPT ![w] = p] /\ holds' = [holds EXCEPT ![w] = h]
        /\ left' = [left EXCEPT ![w] = l] /\ nextLine' = [nextLine EXCEPT ![w] = n]
        /\ holds[w] \subseteq h /\ h \subseteq holds[w] \cup {LineLock(u, v) : v \in Things}
  BY <1>1
<1>3. /\ ask' = [ask EXCEPT ![w] = ask[w]] /\ copied' = [copied EXCEPT ![w] = copied[w]] /\ theirs' = [theirs EXCEPT ![w] = theirs[w]]
      /\ ask[w] \in Asks /\ copied[w] \in [Things -> 0 .. Most] /\ theirs[w] \in Marks \cup {None} /\ p \in BagSteps
      /\ bagPc'[w] = p /\ holds'[w] = h /\ p # "idle"
  BY <1>0, <1>2 DEF BagInv, BagTypeOK, BagSteps
<1>4. \A b \in Bags : BagLock(b, "update") \in h => \A x \in Workers \ {w} : ~Makes(x, b)
  <2>1. \A b \in Bags : BagLock(b, "update") \in h => BagLock(b, "update") \in holds[w]
    BY <1>0, <1>2, RowLocks
  <2> QED BY <2>1 DEF BagInv, OneMaker, Makes
<1>5. AtBag(w)'
  <2>1. p \in Copied
    BY DEF Copied
  <2>2. AskedFor(w)' /\ LocksOwn(w)' /\ HasFound(w)'
    BY <1>0, <1>2, <1>3 DEF AskedFor, LocksOwn, HasFound, Makes, Copied
  <2>3. HasRead(w)'
    BY <1>0, <1>2, <1>3, <2>1 DEF HasRead, Copied, bagRows, bagPast
  <2> QED BY <2>2, <2>3 DEF AtBag
<1> QED
  BY <1>0, <1>2, <1>3, <1>4, <1>5, GoesOn

LEMMA MarkRead == ASSUME BagInv, NEW w \in Workers, ReadMark(w) PROVE BagInv'
<1>1. PICK t \in Marks \cup {None} : theirs' = [theirs EXCEPT ![w] = t]
  <2>1. ask[w].from \in Bags
    BY DEF ReadMark, BagInv, AtBag, AskedFor, Copied, Bags
  <2> QED BY <2>1 DEF ReadMark, BagInv, BagTypeOK
<1>2. /\ UNCHANGED <<bagRows, ask, holds, copied, left, nextLine, bagPast>> /\ bagPc[w] = "marking"
      /\ bagPc' = [bagPc EXCEPT ![w] = "deleting"]
  BY DEF ReadMark, BagGoto
<1>3. /\ ask' = [ask EXCEPT ![w] = ask[w]] /\ copied' = [copied EXCEPT ![w] = copied[w]] /\ holds' = [holds EXCEPT ![w] = holds[w]]
      /\ left' = [left EXCEPT ![w] = left[w]] /\ nextLine' = [nextLine EXCEPT ![w] = nextLine[w]]
      /\ ask[w] \in Asks /\ copied[w] \in [Things -> 0 .. Most] /\ holds[w] \in SUBSET Locks
      /\ left[w] \in SUBSET Things /\ nextLine[w] \in Things \cup {None} /\ "deleting" \in BagSteps
      /\ bagPc'[w] = "deleting"
  BY <1>2 DEF BagInv, BagTypeOK, BagSteps
<1>4. \A b \in Bags : BagLock(b, "update") \in holds[w] => \A x \in Workers \ {w} : ~Makes(x, b)
  BY DEF BagInv, OneMaker, Makes
<1>5. AtBag(w)'
  BY <1>2, <1>3 DEF BagInv, AtBag, AskedFor, LocksOwn, HasFound, HasRead, Makes, Copied, bagRows, bagPast
<1> QED
  BY <1>1, <1>2, <1>3, <1>4, <1>5, GoesOn

LEMMA GuestLocked == ASSUME BagInv, NEW w \in Workers, LockGuest(w) PROVE BagInv'
<1> DEFINE u == ask[w].bag
           g == ask[w].from
           h == holds[w] \cup {BagLock(g, "delete")}
<1>0. /\ bagPc[w] = "deleting" /\ u \in Owners /\ u \in Bags /\ g \in Guests /\ g \in Bags /\ AtBag(w)
      /\ holds[w] \in SUBSET Locks
  BY DEF LockGuest, BagInv, BagTypeOK, AtBag, AskedFor, Bags, Copied
<1>1. /\ UNCHANGED <<bagRows, bagPast, ask, copied, left, nextLine, theirs>>
      /\ bagPc' = [bagPc EXCEPT ![w] = "emptying"] /\ holds' = [holds EXCEPT ![w] = h]
  BY DEF LockGuest, Takes, BagGoto
<1>2. h \in SUBSET Locks /\ "emptying" \in BagSteps
  BY <1>0, RowLocks DEF BagSteps
<1>3. \A b \in Bags : BagLock(b, "update") \in h => \A x \in Workers \ {w} : ~Makes(x, b)
  <2>1. \A b \in Bags : BagLock(b, "update") \in h => BagLock(b, "update") \in holds[w]
    BY <1>0, RowLocks
  <2> QED BY <2>1 DEF BagInv, OneMaker, Makes
<1>4. ASSUME bagPc'[w] = "emptying", holds'[w] = h PROVE AtBag(w)'
  <2>1. AskedFor(w)' /\ LocksOwn(w)' /\ HasFound(w)'
    BY <1>0, <1>1, <1>4 DEF AtBag, AskedFor, LocksOwn, HasFound, Makes, Copied
  <2>2. HasRead(w)'
    BY <1>0, <1>1, <1>4 DEF AtBag, HasRead, Copied, bagRows, bagPast
  <2> QED BY <2>1, <2>2 DEF AtBag
<1> HIDE DEF h
<1> QED BY <1>1, <1>2, <1>3, <1>4, GoesOnLocking

\* Nobody makes a bag that another request merges: it was there when its lines were read.
LEMMA GuestUnmade ==
    ASSUME BagInv, NEW w \in Workers, bagPc[w] \in Copied, NEW x \in Workers
    PROVE  ~Makes(x, ask[w].from)
<1>1. ask[w].from \in Guests /\ bagRow[ask[w].from] # "none"
  BY DEF BagInv, AtBag, AskedFor, HasRead
<1> SUFFICES ASSUME Makes(x, ask[w].from) PROVE FALSE
  OBVIOUS
<1>2. bagPc[x] \in BagSteps /\ AtBag(x)
  BY DEF BagInv, BagTypeOK
<1>3. ask[w].from \in Bags /\ ask[w].from \notin Owners
  BY <1>1, BagsAssumption DEF Bags
<1>4. CASE bagPc[x] \in {"idle", "finding", "making", "joining"}
  BY <1>2, <1>4 DEF AtBag, LocksOwn, Makes
<1>5. CASE bagPc[x] \in {"lining", "touching"}
  <2>1. ask[x].bag \in Bags /\ (bagPc[x] = "touching" /\ ask[x].do = "line" => ask[x].thing \in Things)
    BY <1>2, <1>5 DEF AtBag, AskedFor
  <2>2. ask[x].bag = ask[w].from
    <3>1. CASE bagPc[x] = "lining"
      BY <1>2, <1>3, <2>1, <3>1, RowLocks DEF AtBag, LocksOwn, Makes
    <3>2. CASE bagPc[x] = "touching"
      BY <1>2, <1>3, <2>1, <3>2, Zenon DEF AtBag, LocksOwn, Makes, BagLock, LineLock
    <3> QED BY <1>5, <3>1, <3>2
  <2> QED BY <1>1, <1>2, <1>5, <2>2 DEF AtBag, HasFound
<1>6. CASE bagPc[x] \in Copied \cup {"guest"}
  <2>1. ask[x].bag \in Owners /\ ask[x].from \in Guests
    BY <1>2, <1>6 DEF AtBag, AskedFor
  <2>2. BagLock(ask[w].from, "update") \in {BagLock(ask[x].bag, "update"), BagLock(ask[x].from, "delete")}
                                              \cup {LineLock(ask[x].bag, v) : v \in Things}
    BY <1>2, <1>6 DEF AtBag, LocksOwn, Makes
  <2>3. ask[w].from = ask[x].bag
    BY <1>3, <2>1, <2>2, RowLocks DEF Bags
  <2> QED BY <1>3, <2>1, <2>3
<1> QED
  BY <1>2, <1>4, <1>5, <1>6 DEF BagSteps, Copied

\* Merging two lines is never less than the bag had.
LEMMA SumCapped == \A a \in 0 .. Most, b \in 0 .. Most : Sum(a, b) \in 0 .. Most /\ Sum(a, b) >= a
BY BagsAssumption DEF Sum

\* What a merge does to the rows.
LEMMA MergeRows ==
    ASSUME BagInv, NEW w \in Workers, Merge(w),
           NEW u \in Owners, u = ask[w].bag, NEW g \in Guests, g = ask[w].from
    PROVE  /\ bagRow' \in [Bags -> {"none", "there", "gone"}] /\ bagRow'[u] = "there" /\ bagRow'[g] = "gone"
           /\ lines' \in [Bags -> [Things -> 0 .. Most]] /\ lines'[g] = NoPieces
           /\ \A v \in Things : lines'[u][v] = IF copied[w][v] > 0 THEN Sum(lines[u][v], copied[w][v]) ELSE lines[u][v]
           /\ mark' \in [Bags -> Marks \cup {None}] /\ mark'[g] = None /\ mark'[u] = Kept(mark[u], theirs[w])
           /\ joins' \in [Owners -> [Guests -> Nat]]
           /\ \A b \in Bags \ {u, g} : bagRow'[b] = bagRow[b] /\ lines'[b] = lines[b] /\ mark'[b] = mark[b]
           /\ \A o \in Owners, f \in Guests : joins'[o][f] = IF o = u /\ f = g THEN joins[u][g] + 1 ELSE joins[o][f]
<1>0. u \in Bags /\ g \in Bags /\ u # g
  BY BagsAssumption DEF Bags
<1>1. bagRow' = [[bagRow EXCEPT ![u] = "there"] EXCEPT ![g] = "gone"] /\ bagRow \in [Bags -> {"none", "there", "gone"}]
  BY DEF Merge, DeleteCart, BagInv, BagTypeOK
<1>2. PICK n : n = [v \in Things |-> IF copied[w][v] > 0 THEN Sum(lines[u][v], copied[w][v]) ELSE lines[u][v]]
  OBVIOUS
<1>3. n \in [Things -> 0 .. Most] /\ NoPieces \in [Things -> 0 .. Most]
  <2>1. \A v \in Things : lines[u][v] \in 0 .. Most /\ copied[w][v] \in 0 .. Most
    BY <1>0 DEF BagInv, BagTypeOK
  <2>2. \A v \in Things : Sum(lines[u][v], copied[w][v]) \in 0 .. Most
    BY <2>1, SumCapped
  <2>3. 0 \in 0 .. Most
    BY BagsAssumption
  <2>4. n \in [Things -> 0 .. Most]
    BY <1>2, <2>1, <2>2
  <2> QED BY <2>3, <2>4 DEF NoPieces
<1>4. lines' = [lines EXCEPT ![u] = n, ![g] = NoPieces] /\ lines \in [Bags -> [Things -> 0 .. Most]]
  BY <1>2 DEF Merge, BagInv, BagTypeOK
<1>5. mark' = [mark EXCEPT ![u] = Kept(mark[u], theirs[w]), ![g] = None] /\ mark \in [Bags -> Marks \cup {None}]
      /\ theirs[w] \in Marks \cup {None}
  BY DEF Merge, BagInv, BagTypeOK
<1>6. joins' = [joins EXCEPT ![u] = [joins[u] EXCEPT ![g] = joins[u][g] + 1]] /\ joins \in [Owners -> [Guests -> Nat]]
  BY DEF Merge, BagInv, BagTypeOK
<1>7. /\ bagRow' \in [Bags -> {"none", "there", "gone"}] /\ bagRow'[u] = "there" /\ bagRow'[g] = "gone"
      /\ \A b \in Bags \ {u, g} : bagRow'[b] = bagRow[b]
  BY <1>0, <1>1
<1>8. /\ lines' \in [Bags -> [Things -> 0 .. Most]] /\ lines'[g] = NoPieces /\ lines'[u] = n
      /\ \A b \in Bags \ {u, g} : lines'[b] = lines[b]
  BY <1>0, <1>3, <1>4
<1>9. /\ mark' \in [Bags -> Marks \cup {None}] /\ mark'[g] = None /\ mark'[u] = Kept(mark[u], theirs[w])
      /\ \A b \in Bags \ {u, g} : mark'[b] = mark[b]
  BY <1>0, <1>5 DEF Kept
<1>10. /\ joins' \in [Owners -> [Guests -> Nat]]
       /\ \A o \in Owners, f \in Guests : joins'[o][f] = IF o = u /\ f = g THEN joins[u][g] + 1 ELSE joins[o][f]
  <2>1. joins[u][g] + 1 \in Nat
    BY <1>6
  <2> QED BY <1>6, <2>1
<1> QED
  BY <1>2, <1>7, <1>8, <1>9, <1>10

LEMMA BagMerged == ASSUME BagInv, NEW w \in Workers, Merge(w) PROVE BagInv'
<1>0. PICK u \in Owners, g \in Guests :
        u = ask[w].bag /\ g = ask[w].from /\ joins[u][g] = 0 /\ Makes(w, u) /\ bagPc[w] \in Copied /\ u # g
  BY BagsAssumption DEF Merge, BagInv, AtBag, AskedFor, LocksOwn, HasRead, Copied
<1>1. BagDone(w) /\ NoteLate(w, g, Things)
  BY <1>0 DEF Merge
<1>2. \A b \in Bags : \A v \in Things : lines'[b][v] # lines[b][v] => (b = g /\ v \in Things) \/ b \in Owners
  BY <1>0, MergeRows
<1>3. /\ lateLines' \in [Workers -> SUBSET Things]
      /\ \A x \in Workers \ {w} : AskedFor(x) /\ bagPc[x] \in Copied =>
            \A v \in Things \ lateLines'[x] :
                v \notin lateLines[x] /\ lines'[ask[x].from][v] = lines[ask[x].from][v]
  <2>1. PICK vs \in SUBSET Things : vs = Things
    OBVIOUS
  <2>2. NoteLate(w, g, vs) /\ g \in Bags /\ BagTypeOK
    BY <1>1, <2>1 DEF Bags, BagInv
  <2>3. \A b \in Bags : \A v \in Things : lines'[b][v] # lines[b][v] => (b = g /\ v \in vs) \/ b \in Owners
    BY <1>2, <2>1
  <2> QED BY <2>2, <2>3, LateNoted
<1>4. BagTypeOK'
  <2>1. \A c \in Bags : bagRow'[c] # "there" => lines'[c] = NoPieces /\ mark'[c] = None
    <3>1. /\ bagRow'[u] = "there" /\ lines'[g] = NoPieces /\ mark'[g] = None
          /\ \A b \in Bags \ {u, g} : bagRow'[b] = bagRow[b] /\ lines'[b] = lines[b] /\ mark'[b] = mark[b]
      BY <1>0, MergeRows
    <3> QED BY <3>1 DEF BagInv, BagTypeOK
  <2> QED BY <1>0, <1>1, <1>3, <2>1, MergeRows, EndedTypes DEF BagInv, BagTypeOK
<1>5. \A x \in Workers \ {w} : AtBag(x)'
  <2>0. \A x \in Workers \ {w} : AskedFor(x)
    BY DEF BagInv, AtBag
  <2>1. \A c \in Bags : bagRow[c] # "none" => bagRow'[c] # "none"
    BY <1>0, MergeRows
  <2>2. \A x \in Workers \ {w}, c \in Bags : Makes(x, c) => bagRow'[c] = bagRow[c]
    <3>1. \A x \in Workers \ {w}, c \in Bags : Makes(x, c) => c # u /\ c # g
      BY <1>0, GuestUnmade DEF BagInv, OneMaker, Bags
    <3> QED BY <1>0, <3>1, MergeRows
  <2>3. \A x \in Workers \ {w} : /\ bagPc'[x] = bagPc[x] /\ ask'[x] = ask[x] /\ holds'[x] = holds[x]
                                  /\ copied'[x] = copied[x]
    BY <1>1, EndedTypes DEF BagInv
  <2>4. ASSUME NEW x \in Workers \ {w}, bagPc[x] \in Copied
        PROVE  joins'[ask[x].bag][ask[x].from] = joins[ask[x].bag][ask[x].from]
    <3>1. ask[x].bag \in Owners /\ ask[x].from \in Guests /\ Makes(x, ask[x].bag)
      BY <2>4 DEF BagInv, AtBag, AskedFor, LocksOwn
    <3>2. ask[x].bag # u
      BY <1>0, <3>1 DEF BagInv, OneMaker, Bags
    <3> QED BY <1>0, <3>1, <3>2, MergeRows
  <2> QED BY <1>3, <2>0, <2>1, <2>2, <2>3, <2>4, OthersAtBag
<1>6. JoinedGone'
  <2>1. ASSUME NEW o \in Owners, NEW f \in Guests PROVE joins'[o][f] <= 1 /\ (joins'[o][f] > 0 => bagRow'[f] = "gone")
    <3>1. CASE f = g
      <4>1. /\ bagRow'[g] = "gone"
            /\ joins'[o][g] = IF o = u THEN joins[u][g] + 1 ELSE joins[o][g]
        BY <1>0, MergeRows
      <4>2. joins[o][g] <= 1
        BY DEF BagInv, JoinedGone
      <4> QED BY <1>0, <3>1, <4>1, <4>2
    <3>2. CASE f # g
      <4>1. f \in Bags \ {u, g}
        BY <3>2, BagsAssumption DEF Bags
      <4>2. bagRow'[f] = bagRow[f] /\ joins'[o][f] = joins[o][f]
        BY <1>0, <3>2, <4>1, MergeRows
      <4> QED BY <4>2 DEF BagInv, JoinedGone
    <3> QED BY <3>1, <3>2
  <2>2. ASSUME NEW o \in Owners PROVE bagRow'[o] # "gone"
    <3>1. o = u \/ o \in Bags \ {u, g}
      BY <1>0, BagsAssumption DEF Bags
    <3>2. bagRow'[o] = "there" \/ bagRow'[o] = bagRow[o]
      BY <1>0, <3>1, MergeRows
    <3> QED BY <3>2 DEF BagInv, JoinedGone
  <2> QED BY <2>1, <2>2 DEF JoinedGone
<1> QED
  BY <1>1, <1>4, <1>5, <1>6, EndedAtBag DEF BagInv

LEMMA BagAborted == ASSUME BagInv, NEW w \in Workers, AbortBag(w) PROVE BagInv'
<1>1. lateLines' \in [Workers -> SUBSET Things] /\ \A x \in Workers \ {w} : lateLines'[x] = lateLines[x]
  BY DEF AbortBag, BagInv, BagTypeOK
<1> QED
  BY <1>1, EndsQuietly DEF AbortBag

LEMMA BagStart == BagInit => BagInv
<1> SUFFICES ASSUME BagInit PROVE BagInv
  OBVIOUS
<1>1. NoAsk \in Asks /\ NoPieces \in [Things -> 0 .. Most] /\ NoAsk.do = "none"
  BY BagsAssumption DEF NoAsk, Asks, NoPieces
<1>2. BagTypeOK
  BY <1>1 DEF BagInit, BagTypeOK, BagSteps
<1>3. OneMaker /\ JoinedGone
  BY DEF BagInit, OneMaker, Makes, JoinedGone, Bags
<1>4. \A w \in Workers : AtBag(w)
  BY <1>1 DEF BagInit, AtBag, AskedFor, LocksOwn, HasFound, HasRead, Copied
<1> QED BY <1>2, <1>3, <1>4 DEF BagInv

LEMMA BagStep == BagInv /\ [BagNext]_bagVars => BagInv'
<1> SUFFICES ASSUME BagInv, [BagNext]_bagVars PROVE BagInv'
  OBVIOUS
<1>1. CASE BagNext
  BY <1>1, BagAsked, BagFound, BagMade, LineLocked, BagTouched, MineLocked, GuestFound, LineCopied, MarkRead, GuestLocked,
     BagMerged, BagAborted DEF BagNext, BagVictim
<1>2. CASE UNCHANGED bagVars
  <2>1. BagTypeOK' /\ OneMaker' /\ JoinedGone'
    BY <1>2 DEF BagInv, BagTypeOK, OneMaker, Makes, JoinedGone, bagVars, bagRows, bagWork, bagPast
  <2>2. \A w \in Workers : AtBag(w)'
    BY <1>2 DEF BagInv, AtBag, AskedFor, LocksOwn, HasFound, HasRead, Makes, Adds, bagVars, bagRows, bagWork, bagPast
  <2> QED BY <2>1, <2>2 DEF BagInv
<1> QED
  BY <1>1, <1>2

LEMMA BagAlways == BagSpec => []BagInv
BY BagStart, BagStep, PTL DEF BagSpec

\* A guest's bag goes into a customer's at most once, however often the sign-in is retried
\* (MergeCart and DeleteCart).
THEOREM MergedOnce == BagSpec => []JoinsOnce
<1>1. BagInv => JoinsOnce
  BY DEF BagInv, JoinedGone, JoinsOnce
<1> QED
  BY <1>1, BagAlways, PTL

\* A merge gives each line what both bags had, up to the most a line may hold.
LEMMA MergeStep ==
    ASSUME BagInv, NEW w \in Workers, Merge(w)
    PROVE  \A u \in Owners, g \in Guests : joins'[u][g] > joins[u][g] =>
          /\ mark[u] # None => mark'[u] = mark[u]
          /\ \A v \in Things :
                /\ lines'[u][v] >= lines[u][v]
                /\ \/ lines'[u][v] = Most \/ lines'[u][v] = lines[u][v] + lines[g][v]
                   \/ \E x \in Workers : bagPc[x] = "emptying" /\ ask[x].from = g /\ v \in lateLines[x]
<1> SUFFICES ASSUME NEW u \in Owners, NEW g \in Guests, joins'[u][g] > joins[u][g]
             PROVE  /\ mark[u] # None => mark'[u] = mark[u]
                    /\ \A v \in Things :
                          /\ lines'[u][v] >= lines[u][v]
                          /\ \/ lines'[u][v] = Most \/ lines'[u][v] = lines[u][v] + lines[g][v]
                             \/ \E x \in Workers : bagPc[x] = "emptying" /\ ask[x].from = g /\ v \in lateLines[x]
  OBVIOUS
<1>1. ask[w].bag \in Owners /\ ask[w].from \in Guests /\ bagPc[w] = "emptying" /\ HasRead(w)
  BY DEF Merge, BagInv, AtBag, AskedFor, Copied
<1>2. u = ask[w].bag /\ g = ask[w].from
  <2>1. joins[u][g] \in Nat
    BY DEF BagInv, BagTypeOK
  <2> QED BY <1>1, <2>1, MergeRows
<1>3. mark'[u] = Kept(mark[u], theirs[w])
  BY <1>1, <1>2, MergeRows
<1>4. ASSUME NEW v \in Things
      PROVE  /\ lines'[u][v] >= lines[u][v]
             /\ lines'[u][v] = Most \/ lines'[u][v] = lines[u][v] + lines[g][v] \/ v \in lateLines[w]
  <2>1. lines[u][v] \in 0 .. Most /\ copied[w][v] \in 0 .. Most /\ Most \in Nat
    BY BagsAssumption DEF BagInv, BagTypeOK, Bags
  <2>2. lines'[u][v] = IF copied[w][v] > 0 THEN Sum(lines[u][v], copied[w][v]) ELSE lines[u][v]
    BY <1>1, <1>2, MergeRows
  <2>3. v \in lateLines[w] \/ copied[w][v] = lines[g][v]
    BY <1>1, <1>2 DEF HasRead, Copied
  <2> QED BY <2>1, <2>2, <2>3 DEF Sum
<1> QED
  BY <1>1, <1>2, <1>3, <1>4 DEF Kept

\* A merge adds the guest's lines to the customer's as they are when it commits, save lines
\* the guest changed after they were read, and keeps the customer's own code (MergeCartItems,
\* MergeCartDiscount).
THEOREM MergesAddUp == BagSpec => MergeAddsUp
<1>1. BagInv /\ [BagNext]_bagVars =>
        [\A u \in Owners, g \in Guests : joins'[u][g] > joins[u][g] =>
          /\ mark[u] # None => mark'[u] = mark[u]
          /\ \A v \in Things :
                /\ lines'[u][v] >= lines[u][v]
                /\ \/ lines'[u][v] = Most \/ lines'[u][v] = lines[u][v] + lines[g][v]
                   \/ \E w \in Workers : bagPc[w] = "emptying" /\ ask[w].from = g /\ v \in lateLines[w]]_bagVars
  <2> SUFFICES ASSUME BagInv, BagNext, NEW u \in Owners, NEW g \in Guests, joins'[u][g] > joins[u][g]
               PROVE  /\ mark[u] # None => mark'[u] = mark[u]
                      /\ \A v \in Things :
                            /\ lines'[u][v] >= lines[u][v]
                            /\ \/ lines'[u][v] = Most \/ lines'[u][v] = lines[u][v] + lines[g][v]
                               \/ \E w \in Workers : bagPc[w] = "emptying" /\ ask[w].from = g /\ v \in lateLines[w]
    OBVIOUS
  <2>1. joins[u][g] \in Nat
    BY DEF BagInv, BagTypeOK
  <2>2. joins' # joins
    BY <2>1
  <2>3. PICK w \in Workers : Merge(w)
    BY <2>2 DEF BagNext, AskBag, FindBag, MakeBag, LockLine, TouchBag, LockMine, FindGuest, CopyLine, ReadMark, LockGuest,
                AbortBag, BagVictim, bagRows, bagPast
  <2> QED BY <2>3, MergeStep
<1> QED
  BY <1>1, BagAlways, PTL DEF BagSpec, MergeAddsUp

-----------------------------------------------------------------------------
(* Circles. *)

\* What keeps a request waiting.
LEMMA WaitsFor ==
    ASSUME BagInv, NEW x \in Workers, NEW y \in Workers, y \in BagBlockers(x), ask[x].do # "merge"
    PROVE  /\ x # y /\ bagPc[x] \in {"making", "lining", "touching"} /\ bagPc[y] # "idle"
           /\ bagPc[x] \in {"making", "touching"} => \E m \in {"update", "delete"} : BagLock(ask[x].bag, m) \in holds[y]
           /\ bagPc[x] = "lining" => \/ LineLock(ask[x].bag, ask[x].thing) \in holds[y]
                                     \/ BagLock(ask[x].bag, "delete") \in holds[y]
<1>0. bagPc[x] \in BagSteps /\ AtBag(x) /\ AtBag(y) /\ Against("update") = {"update", "delete"} /\ Against("share") = {"delete"}
  BY DEF BagInv, BagTypeOK, Against
<1>1. bagPc[x] \notin Copied \cup {"guest", "joining"}
  BY <1>0 DEF AtBag, AskedFor
<1>2. CASE bagPc[x] \in {"idle", "finding"}
  BY <1>2 DEF BagBlockers
<1>3. CASE bagPc[x] = "making"
  BY <1>0, <1>3 DEF BagBlockers, OnBag, AtBag, LocksOwn
<1>4. CASE bagPc[x] = "lining"
  BY <1>0, <1>4 DEF BagBlockers, OnBag, OnLine, AtBag, LocksOwn
<1>5. CASE bagPc[x] = "touching"
  BY <1>0, <1>5 DEF BagBlockers, OnBag, AtBag, LocksOwn
<1> QED
  BY <1>0, <1>1, <1>2, <1>3, <1>4, <1>5 DEF BagSteps, Copied

\* A request that sets a line or a code has locks of its own bag alone, and never one to delete.
LEMMA SetterHolds ==
    ASSUME BagInv, NEW y \in Workers, bagPc[y] \in {"finding", "making", "lining", "touching"}, NEW b \in Bags
    PROVE  /\ BagLock(b, "delete") \notin holds[y]
           /\ Makes(y, b) => bagPc[y] \in {"lining", "touching"} /\ ask[y].bag = b
           /\ \A v \in Things : LineLock(b, v) \in holds[y] => bagPc[y] = "touching" /\ ask[y].bag = b /\ ask[y].thing = v
<1>0. /\ AtBag(y) /\ ask[y].bag \in Bags /\ ask[y].thing \in Things \cup {None}
  <2>1. ask[y] \in Asks /\ AtBag(y)
    BY DEF BagInv, BagTypeOK
  <2> QED BY <2>1 DEF AtBag, AskedFor, Asks
<1> DEFINE c == ask[y].bag
           t == ask[y].thing
<1>1. holds[y] \subseteq {BagLock(c, "update"), BagLock(c, "share"), LineLock(c, t)}
  BY <1>0 DEF AtBag, LocksOwn
<1>2. BagLock(b, "delete") \notin {BagLock(c, "update"), BagLock(c, "share"), LineLock(c, t)}
  BY <1>0, BagsAssumption DEF BagLock, LineLock
<1>3. BagLock(b, "update") \in {BagLock(c, "update"), BagLock(c, "share"), LineLock(c, t)} => b = c
  BY DEF BagLock, LineLock
<1>4. Makes(y, b) => bagPc[y] \in {"lining", "touching"} /\ b = c
  BY <1>0, <1>1, <1>3 DEF AtBag, LocksOwn, Makes
<1>5. ASSUME NEW v \in Things, LineLock(b, v) \in holds[y] PROVE bagPc[y] = "touching" /\ b = c /\ v = t
  <2>1. LineLock(b, v) # BagLock(c, "update") /\ LineLock(b, v) # BagLock(c, "share")
    BY <1>0, RowLocks, BagsAssumption DEF LineLock, BagLock
  <2>2. LineLock(b, v) = LineLock(c, t)
    BY <1>1, <1>5, <2>1
  <2>3. b = c /\ v = t
    BY <2>2 DEF LineLock
  <2> QED BY <1>0, <1>5, <2>1, <2>3 DEF AtBag, LocksOwn
<1> QED
  BY <1>1, <1>2, <1>4, <1>5

\* Whoever waits for a bag or a line of it waits for one that set out on the same bag.
LEMMA WaitsForSetter ==
    ASSUME BagInv, NEW x \in Workers, NEW y \in Workers, y \in BagBlockers(x), ask[x].do # "merge",
           bagPc[y] \in {"making", "lining", "touching"}
    PROVE  /\ x # y /\ ask[y].bag = ask[x].bag
           /\ bagPc[x] \in {"making", "touching"} => Makes(y, ask[x].bag) /\ bagPc[y] \in {"lining", "touching"}
           /\ bagPc[x] = "lining" => bagPc[y] = "touching" /\ ask[y].thing = ask[x].thing
<1>1. x # y /\ bagPc[x] \in {"making", "lining", "touching"} /\ AtBag(x)
  BY WaitsFor DEF BagInv
<1>2. ask[x].bag \in Bags /\ (bagPc[x] = "lining" => ask[x].thing \in Things)
  BY <1>1 DEF AtBag, AskedFor
<1>3. BagLock(ask[x].bag, "delete") \notin holds[y]
  BY <1>2, SetterHolds
<1>4. CASE bagPc[x] \in {"making", "touching"}
  <2>1. Makes(y, ask[x].bag)
    BY <1>3, <1>4, WaitsFor DEF Makes
  <2> QED BY <1>1, <1>2, <1>4, <2>1, SetterHolds
<1>5. CASE bagPc[x] = "lining"
  <2>1. LineLock(ask[x].bag, ask[x].thing) \in holds[y]
    BY <1>3, <1>5, WaitsFor
  <2> QED BY <1>1, <1>2, <1>5, <2>1, SetterHolds
<1> QED
  BY <1>1, <1>4, <1>5

\* Requests that only set lines and codes wait in a circle where two set one line of a bag that
\* one of them met: somebody has a line and waits for the bag, its holder met it and waits for
\* a line, and whoever has that line waits for the bag again.
LEMMA CircleOfSetters ==
    ASSUME BagInv, NEW W \in SUBSET Workers, BagCircle(W), \A w \in W : ask[w].do # "merge"
    PROVE  \E w, x \in W :
              /\ MetBag(w) /\ bagPc[x] = "touching" /\ BagCircle({w, x})
              /\ ask[w].bag = ask[x].bag /\ ask[w].bag \in Owners /\ ask[w].thing = ask[x].thing
<1>1. W # {} /\ \A x \in W : \E y \in W : y \in BagBlockers(x)
  BY DEF BagCircle
<1>2. \A x \in W : bagPc[x] \in {"making", "lining", "touching"} /\ ask[x].bag \in Bags /\ AtBag(x)
  <2> SUFFICES ASSUME NEW x \in W PROVE bagPc[x] \in {"making", "lining", "touching"} /\ ask[x].bag \in Bags /\ AtBag(x)
    OBVIOUS
  <2>1. bagPc[x] \in {"making", "lining", "touching"} /\ AtBag(x)
    BY <1>1, WaitsFor DEF BagInv
  <2> QED BY <2>1 DEF AtBag, AskedFor
<1>3. ASSUME NEW x \in W, NEW y \in W, y \in BagBlockers(x)
      PROVE  /\ x # y /\ ask[y].bag = ask[x].bag
             /\ bagPc[x] \in {"making", "touching"} => Makes(y, ask[x].bag) /\ bagPc[y] \in {"lining", "touching"}
             /\ bagPc[x] = "lining" => bagPc[y] = "touching" /\ ask[y].thing = ask[x].thing
  BY <1>2, <1>3, WaitsForSetter
<1>4. PICK x \in W : bagPc[x] = "touching"
  BY <1>1, <1>2, <1>3
<1>5. PICK y \in W : y \in BagBlockers(x)
  BY <1>1
<1>6. Makes(y, ask[y].bag) /\ ask[y].bag = ask[x].bag /\ x # y
  BY <1>3, <1>4, <1>5
<1>7. PICK z \in W : z \in BagBlockers(y)
  BY <1>1
<1>8. bagPc[y] = "lining" /\ bagPc[z] = "touching" /\ ask[z].bag = ask[y].bag /\ ask[z].thing = ask[y].thing
  <2>1. bagPc[y] \notin {"making", "touching"}
    <3> SUFFICES ASSUME bagPc[y] \in {"making", "touching"} PROVE FALSE
      OBVIOUS
    <3>1. Makes(z, ask[y].bag) /\ y # z
      BY <1>3, <1>7
    <3> QED BY <1>2, <1>6, <3>1 DEF BagInv, OneMaker
  <2> QED BY <1>2, <1>3, <1>7, <2>1
<1>9. y \in BagBlockers(z)
  <2>1. PICK u \in W : u \in BagBlockers(z)
    BY <1>1
  <2>2. Makes(u, ask[y].bag)
    BY <1>3, <1>8, <2>1
  <2> QED BY <1>2, <1>6, <2>1, <2>2 DEF BagInv, OneMaker
<1>10. MetBag(y) /\ ask[y].bag \in Owners
  <2>1. ~Makes(x, ask[x].bag)
    BY <1>2, <1>6 DEF BagInv, OneMaker
  <2>2. bagRow[ask[y].bag] # "none"
    BY <1>2, <1>4, <1>6, <2>1 DEF AtBag, HasFound
  <2>3. Adds(y) /\ ask[y].bag \notin Guests
    BY <1>2, <1>6, <1>8, <2>2 DEF AtBag, HasFound
  <2>4. ask[y].bag \in Owners
    BY <1>2, <2>3 DEF Bags
  <2>5. bagRow[ask[y].bag] = "there"
    BY <1>2, <2>2, <2>4 DEF BagInv, BagTypeOK, JoinedGone
  <2> QED BY <1>6, <1>8, <2>3, <2>4, <2>5 DEF MetBag, Makes
<1>11. BagCircle({y, z})
  BY <1>7, <1>9 DEF BagCircle
<1> QED
  BY <1>8, <1>10, <1>11

\* Requests wait in a circle over bags only where one merges, or where two set one line of a
\* customer's bag and one of them looked for the bag before it was made (SetCartItem locks the
\* line and then the bag, but CreateUserCart the bag before them).
THEOREM EveryCircleExplained == BagSpec => []CirclesExplained
<1>1. BagInv => CirclesExplained
  <2> SUFFICES ASSUME BagInv, NEW W \in SUBSET Workers, BagCircle(W), \A w \in W : ask[w].do # "merge"
               PROVE  \E w, x \in W :
                         /\ MetBag(w) /\ bagPc[x] = "touching" /\ BagCircle({w, x})
                         /\ ask[w].bag = ask[x].bag /\ ask[w].bag \in Owners /\ ask[w].thing = ask[x].thing
    BY DEF CirclesExplained
  <2> QED BY CircleOfSetters
<1> QED
  BY <1>1, BagAlways, PTL

-----------------------------------------------------------------------------
(* Texts to customers. *)

\* The statuses an order may have had by the time it has this one.
HadBy(status) ==
    CASE status = "none"      -> {}
      [] status = "pending"   -> {"pending"}
      [] status = "confirmed" -> {"pending", "confirmed"}
      [] status = "packed"    -> {"pending", "confirmed", "packed"}
      [] status = "shipped"   -> {"pending", "confirmed", "packed", "shipped"}
      [] status = "delivered" -> {"pending", "confirmed", "packed", "shipped", "delivered"}
      [] status = "cancelled" -> {"pending", "confirmed", "packed", "cancelled"}

\* w has moved an order and is to queue the text of it.
Telling(w) == tellPc[w] \in {"telling", "queueing"}
TextOf(w) == <<move[w].order, move[w].to>>

\* A request moves an order along its life, and until it has queued the text nobody else does.
TellsOnce(w) ==
    /\ tellPc[w] # "idle" => move[w].order \in Orders /\ move[w].to \in Follows(move[w].from)
    /\ Telling(w) =>
          /\ move[w].to \in Texted \cap reached[move[w].order] /\ job[TextOf(w)] = "none"
          /\ \A x \in Workers \ {w} : Telling(x) => TextOf(x) # TextOf(w)

\* A text that was queued is true, every attempt of it that the shop did not hear of may have
\* brought it once, and it is sent but once with an answer.
JobTrue(t) ==
    /\ job[t] # "none" => t[2] \in reached[t[1]]
    /\ job[t] = "none" => got[t] = 0
    /\ job[t] = "waiting" => attempts[t] < MaxAttempts
    /\ got[t] = unheard[t] + (IF job[t] = "sent" THEN 1 ELSE 0)
    /\ got[t] + (IF job[t] \in Tried THEN 1 ELSE 0) <= attempts[t]

TextInv ==
    /\ TextTypeOK
    /\ \A o \in Orders : reached[o] \subseteq HadBy(at[o])
    /\ \A w \in Workers : TellsOnce(w)
    /\ \A t \in Texts : JobTrue(t)

\* A change of status adds to what the order has had.
LEMMA LifeGoesOn ==
    ASSUME NEW from \in Statuses \cup {"none"}, NEW to \in Follows(from)
    PROVE  to \in Statuses /\ to \notin HadBy(from) /\ HadBy(from) \cup {to} \subseteq HadBy(to)
BY DEF Follows, HadBy, Statuses

LEMMA TextStart == TextInit => TextInv
BY TextsAssumption DEF TextInit, TextInv, TextTypeOK, TellsOnce, Telling, JobTrue, Tried, HadBy, NoMove, Texts, Texted, Statuses

\* A request that ends, with the rows as they are.
LEMMA TellEnds ==
    ASSUME TextInv, NEW w \in Workers, TellDone(w), UNCHANGED <<at, gatewayOn, up, jobVars, reached, textPast>>
    PROVE  TextInv'
<1>1. TextTypeOK'
  BY DEF TextInv, TextTypeOK, TellDone, TellGoto, NoMove, jobVars, textPast, Texts
<1>2. tellPc'[w] = "idle" /\ \A x \in Workers \ {w} : tellPc'[x] = tellPc[x] /\ move'[x] = move[x]
  BY DEF TextInv, TextTypeOK, TellDone, TellGoto
<1>3. \A x \in Workers : TellsOnce(x)'
  BY <1>2 DEF TextInv, TellsOnce, Telling, TextOf, jobVars
<1>4. \A t \in Texts : JobTrue(t)'
  BY DEF TextInv, JobTrue, jobVars, textPast
<1> QED
  BY <1>1, <1>3, <1>4 DEF TextInv

\* One job goes on; what requests are about to queue is none of the jobs there are.
LEMMA JobGoesOn ==
    ASSUME TextInv, NEW t \in Texts, job[t] # "none",
           UNCHANGED <<at, gatewayOn, up, tellVars, reached>>,
           NEW j \in {"waiting", "stuck"} \cup Tried \cup Ended, NEW n \in 0 .. MaxAttempts,
           NEW g \in Nat, NEW h \in Nat,
           job' = [job EXCEPT ![t] = j], attempts' = [attempts EXCEPT ![t] = n],
           got' = [got EXCEPT ![t] = g], unheard' = [unheard EXCEPT ![t] = h],
           j = "waiting" => n < MaxAttempts,
           g = h + (IF j = "sent" THEN 1 ELSE 0),
           g + (IF j \in Tried THEN 1 ELSE 0) <= n
    PROVE  TextInv'
<1>0. MaxAttempts \in Nat /\ g \in 0 .. MaxAttempts /\ h \in 0 .. MaxAttempts
  BY TextsAssumption
<1>1. TextTypeOK'
  BY <1>0 DEF TextInv, TextTypeOK, tellVars
<1>2. j # "none" /\ job'[t] = j /\ attempts'[t] = n /\ got'[t] = g /\ unheard'[t] = h
  BY DEF TextInv, TextTypeOK, Tried, Ended
<1>3. \A s \in Texts \ {t} : job'[s] = job[s] /\ attempts'[s] = attempts[s] /\ got'[s] = got[s] /\ unheard'[s] = unheard[s]
  BY DEF TextInv, TextTypeOK
<1>4. \A s \in Texts : JobTrue(s)'
  <2>1. JobTrue(t)'
    BY <1>2 DEF TextInv, JobTrue
  <2>2. ASSUME NEW s \in Texts \ {t} PROVE JobTrue(s)'
    BY <1>3 DEF TextInv, JobTrue
  <2> QED BY <2>1, <2>2
<1>5. ASSUME NEW w \in Workers PROVE TellsOnce(w)'
  <2>1. Telling(w) => TextOf(w) # t /\ TextOf(w) \in Texts
    BY DEF TextInv, TellsOnce, Telling, TextOf, Texts
  <2> QED BY <1>3, <2>1 DEF TextInv, TellsOnce, Telling, TextOf, tellVars
<1> QED
  BY <1>1, <1>4, <1>5 DEF TextInv

\* A change that commits is one the texts may tell of.
LEMMA MoveCommits ==
    ASSUME TextInv, NEW w \in Workers, CommitMove(w)
    PROVE  TextInv'
<1> DEFINE o == move[w].order
           to == move[w].to
<1>1. CASE at[o] # move[w].from
  BY <1>1, TellEnds DEF CommitMove
<1>2. CASE at[o] = move[w].from
  <2>1. /\ o \in Orders /\ to \in Follows(at[o]) /\ at[o] \in Statuses \cup {"none"}
        /\ at' = [at EXCEPT ![o] = to] /\ reached' = [reached EXCEPT ![o] = reached[o] \cup {to}]
        /\ UNCHANGED <<gatewayOn, up, jobVars, textPast>> /\ tellPc[w] = "moving"
        /\ (to \in Texted /\ TellGoto(w, "telling") /\ UNCHANGED move) \/ TellDone(w)
    BY <1>2 DEF CommitMove, TextInv, TellsOnce, TextTypeOK
  <2>2. to \in Statuses /\ to \notin reached[o] /\ HadBy(at[o]) \cup {to} \subseteq HadBy(to)
    BY <2>1, LifeGoesOn DEF TextInv
  <2>3. TextTypeOK'
    <3>1. at' \in [Orders -> Statuses \cup {"none"}] /\ reached' \in [Orders -> SUBSET Statuses]
      BY <2>1, <2>2 DEF TextInv, TextTypeOK
    <3>2. CASE TellGoto(w, "telling") /\ UNCHANGED move
      BY <2>1, <3>1, <3>2 DEF TextInv, TextTypeOK, TellGoto, jobVars, textPast
    <3>3. CASE TellDone(w)
      BY <2>1, <3>1, <3>3 DEF TextInv, TextTypeOK, TellGoto, TellDone, NoMove, jobVars, textPast
    <3> QED BY <2>1, <3>2, <3>3
  <2>4. \A p \in Orders : reached'[p] \subseteq HadBy(at'[p])
    BY <2>1, <2>2 DEF TextInv, TextTypeOK
  <2>5. \A p \in Orders : reached[p] \subseteq reached'[p]
    BY <2>1 DEF TextInv, TextTypeOK
  <2>6. \A t \in Texts : JobTrue(t)'
    BY <2>1, <2>5 DEF TextInv, JobTrue, jobVars, textPast, Texts
  <2>7. \A x \in Workers \ {w} : tellPc'[x] = tellPc[x] /\ move'[x] = move[x]
    BY <2>1 DEF TellGoto, TellDone, TextInv, TextTypeOK
  <2>8. Telling(w)' => to \in Texted /\ move'[w] = move[w]
    BY <2>1 DEF TellGoto, TellDone, TextInv, TextTypeOK, Telling
  <2>9. \A x \in Workers \ {w} : Telling(x) => TextOf(x) # <<o, to>>
    BY <2>2 DEF TextInv, TellsOnce, TextOf
  <2>10. to \in Texted => job[<<o, to>>] = "none"
    BY <2>1, <2>2 DEF TextInv, JobTrue, Texts
  <2>11. TellsOnce(w)'
    <3>1. CASE ~Telling(w)'
      BY <2>1, <3>1 DEF TextInv, TellsOnce, TellGoto, TellDone, TextTypeOK, Telling
    <3>2. CASE Telling(w)'
      <4>1. move'[w] = move[w] /\ to \in Texted \cap reached'[o] /\ job'[<<o, to>>] = "none"
        BY <2>1, <2>8, <2>10, <3>2 DEF jobVars, TextInv, TextTypeOK
      <4>2. \A x \in Workers \ {w} : Telling(x)' => TextOf(x)' # TextOf(w)'
        BY <2>7, <2>9, <4>1 DEF Telling, TextOf
      <4>3. move'[w].order \in Orders /\ move'[w].to \in Follows(move'[w].from)
        BY <1>2, <2>1, <4>1
      <4> QED BY <4>1, <4>2, <4>3 DEF TellsOnce, TextOf
    <3> QED BY <3>1, <3>2
  <2>12. ASSUME NEW x \in Workers \ {w} PROVE TellsOnce(x)'
    <3>1. Telling(w)' => TextOf(w)' = <<o, to>>
      BY <2>8 DEF TextOf
    <3>2. ASSUME Telling(x) PROVE move[x].order \in Orders /\ move[x].to \in Texted \cap reached'[move[x].order]
      BY <2>5, <3>2 DEF TextInv, TellsOnce, Telling
    <3> QED BY <2>1, <2>7, <2>9, <3>1, <3>2 DEF TextInv, TellsOnce, Telling, TextOf, jobVars
  <2> QED BY <2>3, <2>4, <2>6, <2>11, <2>12 DEF TextInv
<1> QED
  BY <1>1, <1>2

\* A text is queued once, and only for a status the order has had.
LEMMA TextQueued ==
    ASSUME TextInv, NEW w \in Workers, QueueText(w)
    PROVE  TextInv'
<1>1. PICK t \in Texts :
      /\ t = TextOf(w) /\ Telling(w) /\ t[2] \in reached[t[1]] /\ job[t] = "none" /\ got[t] = 0 /\ unheard[t] = 0
      /\ job' = [job EXCEPT ![t] = "waiting"] /\ attempts' = [attempts EXCEPT ![t] = 0]
      /\ TellDone(w) /\ UNCHANGED <<at, gatewayOn, up, reached, textPast>>
  <2> DEFINE t == TextOf(w)
  <2>1. t \in Texts /\ Telling(w) /\ t[2] \in reached[t[1]] /\ job[t] = "none"
    BY DEF QueueText, TextInv, TellsOnce, Telling, TextOf, Texts
  <2>2. got[t] = 0 /\ unheard[t] = 0
    BY <2>1 DEF TextInv, JobTrue, TextTypeOK
  <2> QED BY <2>1, <2>2 DEF QueueText, TextOf
<1>2. MaxAttempts \in Nat \ {0}
  BY TextsAssumption
<1>3. TextTypeOK'
  BY <1>1, <1>2 DEF TextInv, TextTypeOK, TellDone, TellGoto, NoMove, textPast
<1>4. job'[t] = "waiting" /\ attempts'[t] = 0 /\ \A s \in Texts \ {t} : job'[s] = job[s] /\ attempts'[s] = attempts[s]
  BY <1>1 DEF TextInv, TextTypeOK
<1>5. JobTrue(t)'
  <2>1. got'[t] = 0 /\ unheard'[t] = 0 /\ t[2] \in reached'[t[1]] /\ job'[t] \notin Tried /\ job'[t] # "sent"
    BY <1>1, <1>4 DEF textPast, Tried
  <2> QED BY <1>2, <1>4, <2>1 DEF JobTrue
<1>6. \A s \in Texts \ {t} : JobTrue(s)'
  BY <1>1, <1>4 DEF TextInv, JobTrue, textPast
<1>7. tellPc'[w] = "idle" /\ \A x \in Workers \ {w} : tellPc'[x] = tellPc[x] /\ move'[x] = move[x]
  BY <1>1 DEF TellDone, TellGoto, TextInv, TextTypeOK
<1>8. ASSUME NEW x \in Workers \ {w} PROVE TellsOnce(x)'
  <2>1. Telling(x) => TextOf(x) # t /\ TextOf(x) \in Texts
    BY <1>1 DEF TextInv, TellsOnce, Telling, TextOf, Texts
  <2> QED BY <1>1, <1>4, <1>7, <2>1 DEF TextInv, TellsOnce, Telling, TextOf
<1>9. TellsOnce(w)'
  BY <1>7 DEF TellsOnce, Telling
<1> QED
  <2>1. \A o \in Orders : reached'[o] \subseteq HadBy(at'[o])
    BY <1>1 DEF TextInv
  <2>2. \A s \in Texts : JobTrue(s)'
    BY <1>5, <1>6
  <2>3. \A x \in Workers : TellsOnce(x)'
    BY <1>8, <1>9
  <2> QED BY <1>3, <2>1, <2>2, <2>3 DEF TextInv

\* A stop loses the requests, not the queue.
LEMMA ServerStops == ASSUME TextInv, Stop PROVE TextInv'
<1>0. MaxAttempts \in Nat
  BY TextsAssumption
<1>1. PICK taken \in SUBSET {t \in Texts : job[t] = "calling"} :
           /\ got' = [t \in Texts |-> IF t \in taken THEN got[t] + 1 ELSE got[t]]
           /\ unheard' = [t \in Texts |-> IF t \in taken THEN unheard[t] + 1 ELSE unheard[t]]
  BY DEF Stop
<1>2. ASSUME NEW t \in Texts PROVE JobTrue(t)' /\ got'[t] \in 0 .. MaxAttempts /\ unheard'[t] \in 0 .. MaxAttempts
  <2>1. /\ JobTrue(t) /\ got[t] \in Nat /\ unheard[t] \in Nat /\ attempts[t] \in 0 .. MaxAttempts
        /\ job'[t] = IF job[t] \in Tried THEN "stuck" ELSE job[t]
        /\ attempts'[t] = attempts[t] /\ reached' = reached
    BY <1>0 DEF Stop, TextInv, TextTypeOK
  <2>2. CASE t \in taken
    BY <1>0, <1>1, <2>1, <2>2 DEF JobTrue, Tried
  <2>3. CASE t \notin taken
    BY <1>0, <1>1, <2>1, <2>3 DEF JobTrue, Tried
  <2> QED BY <2>2, <2>3
<1>3. TextTypeOK'
  BY <1>1, <1>2 DEF Stop, TextInv, TextTypeOK, NoMove
<1>4. \A w \in Workers : TellsOnce(w)'
  BY DEF Stop, TellsOnce, Telling
<1> QED
  BY <1>2, <1>3, <1>4 DEF TextInv, Stop

LEMMA TextStep == TextInv /\ [TextNext]_textVars => TextInv'
<1> SUFFICES ASSUME TextInv, [TextNext]_textVars PROVE TextInv'
  OBVIOUS
<1>0. MaxAttempts \in Nat \ {0}
  BY TextsAssumption
<1>1. ASSUME NEW w \in Workers, NEW o \in Orders, NEW to \in Statuses, BeginMove(w, o, to) PROVE TextInv'
  <2>1. TextTypeOK'
    BY <1>1 DEF TextInv, TextTypeOK, BeginMove, TellGoto, jobVars, textPast
  <2>2. /\ tellPc'[w] = "moving" /\ move'[w].order = o /\ move'[w].to = to /\ move'[w].from = at[o] /\ to \in Follows(at[o])
        /\ \A x \in Workers \ {w} : tellPc'[x] = tellPc[x] /\ move'[x] = move[x]
    BY <1>1 DEF TextInv, TextTypeOK, BeginMove, TellGoto
  <2>3. \A x \in Workers : TellsOnce(x)'
    BY <1>1, <2>2 DEF TextInv, TellsOnce, Telling, TextOf, jobVars, BeginMove
  <2>4. \A t \in Texts : JobTrue(t)'
    BY <1>1 DEF TextInv, JobTrue, jobVars, textPast, BeginMove
  <2> QED BY <1>1, <2>1, <2>3, <2>4 DEF TextInv, BeginMove
<1>2. ASSUME NEW w \in Workers, CommitMove(w) PROVE TextInv'
  BY <1>2, MoveCommits
<1>3. ASSUME NEW w \in Workers, LookForGateway(w) PROVE TextInv'
  <2>1. CASE TellDone(w)
    BY <1>3, <2>1, TellEnds DEF LookForGateway
  <2>2. CASE ~TellDone(w)
    <3>1. TellGoto(w, "queueing") /\ tellPc[w] = "telling" /\ UNCHANGED <<move, at, gatewayOn, up, jobVars, reached, textPast>>
      BY <1>3, <2>2 DEF LookForGateway
    <3>2. TextTypeOK'
      BY <3>1 DEF TextInv, TextTypeOK, TellGoto, jobVars, textPast
    <3>3. (\A x \in Workers : (Telling(x)' <=> Telling(x)) /\ (tellPc'[x] = "idle" => tellPc[x] = "idle"))
          /\ \A x \in Workers : tellPc'[x] # "idle" => tellPc[x] # "idle"
      BY <3>1 DEF TextInv, TextTypeOK, TellGoto, Telling
    <3>4. \A x \in Workers : TellsOnce(x)'
      BY <3>1, <3>3 DEF TextInv, TellsOnce, TextOf, jobVars
    <3>5. \A t \in Texts : JobTrue(t)'
      BY <3>1 DEF TextInv, JobTrue, jobVars, textPast
    <3> QED BY <3>1, <3>2, <3>4, <3>5 DEF TextInv
  <2> QED BY <2>1, <2>2
<1>4. ASSUME NEW w \in Workers, QueueText(w) PROVE TextInv'
  BY <1>4, TextQueued
<1>5. ASSUME NEW w \in Workers, CutShort(w) PROVE TextInv'
  BY <1>5, TellEnds DEF CutShort
<1>6. ASSUME NEW t \in Texts, Fetch(t) \/ FindGateway(t) \/ Send(t) \/ Rescue(t) PROVE TextInv'
  <2>0. /\ job[t] \in {"none", "waiting", "stuck"} \cup Tried \cup Ended /\ attempts[t] \in 0 .. MaxAttempts
        /\ got[t] \in Nat /\ unheard[t] \in Nat /\ JobTrue(t)
        /\ got = [got EXCEPT ![t] = got[t]] /\ unheard = [unheard EXCEPT ![t] = unheard[t]]
        /\ attempts = [attempts EXCEPT ![t] = attempts[t]]
    BY DEF TextInv, TextTypeOK
  <2>1. CASE Fetch(t)
    <3>1. attempts[t] + 1 \in 0 .. MaxAttempts /\ job[t] = "waiting" /\ got[t] <= attempts[t] /\ got[t] = unheard[t]
      BY <1>0, <2>0, <2>1 DEF Fetch, JobTrue, Tried
    <3>2. "begun" \in {"waiting", "stuck"} \cup Tried \cup Ended /\ "begun" \in Tried
      BY DEF Tried
    <3>3. /\ job' = [job EXCEPT ![t] = "begun"] /\ attempts' = [attempts EXCEPT ![t] = attempts[t] + 1]
          /\ got' = [got EXCEPT ![t] = got[t]] /\ unheard' = [unheard EXCEPT ![t] = unheard[t]]
          /\ UNCHANGED <<at, gatewayOn, up, tellVars, reached>>
      BY <2>0, <2>1 DEF Fetch, textPast
    <3>4. /\ job[t] # "none" /\ got[t] = unheard[t] + (IF "begun" = "sent" THEN 1 ELSE 0)
          /\ got[t] + (IF "begun" \in Tried THEN 1 ELSE 0) <= attempts[t] + 1
      BY <2>0, <3>1, <3>2
    <3> QED BY <2>0, <3>1, <3>2, <3>3, <3>4, JobGoesOn
  <2>2. ASSUME NEW j \in {"waiting", "given_up", "dropped", "refused"}, job[t] \in Tried \cup {"stuck"},
               job' = [job EXCEPT ![t] = j], j = "waiting" => attempts[t] < MaxAttempts, UNCHANGED attempts,
               NEW k \in {0, 1}, k = 1 => job[t] \in Tried,
               got' = [got EXCEPT ![t] = got[t] + k], unheard' = [unheard EXCEPT ![t] = unheard[t] + k],
               UNCHANGED <<at, gatewayOn, up, tellVars, reached>>
        PROVE  TextInv'
    <3>1. j \in {"waiting", "stuck"} \cup Tried \cup Ended /\ j \notin Tried /\ j # "sent" /\ job[t] # "none" /\ job[t] # "sent"
      BY <2>2 DEF Tried, Ended
    <3>2. got[t] + k <= attempts[t] /\ got[t] = unheard[t]
      BY <2>0, <2>2, <3>1 DEF JobTrue
    <3>3. got[t] + k \in Nat /\ unheard[t] + k \in Nat
      BY <2>0
    <3>4. got[t] + k = (unheard[t] + k) + (IF j = "sent" THEN 1 ELSE 0) /\ (got[t] + k) + (IF j \in Tried THEN 1 ELSE 0) <= attempts[t]
      BY <2>0, <3>1, <3>2
    <3> DEFINE n == attempts[t]
    <3>5. /\ attempts' = [attempts EXCEPT ![t] = n] /\ n \in 0 .. MaxAttempts /\ (j = "waiting" => n < MaxAttempts)
          /\ job[t] # "none" /\ UNCHANGED <<at, gatewayOn, up, tellVars, reached>> /\ job' = [job EXCEPT ![t] = j]
      BY <2>0, <2>2, <3>1
    <3> DEFINE g == got[t] + k
               h == unheard[t] + k
    <3>6. g \in Nat /\ h \in Nat /\ g = h + (IF j = "sent" THEN 1 ELSE 0) /\ g + (IF j \in Tried THEN 1 ELSE 0) <= n
          /\ got' = [got EXCEPT ![t] = g] /\ unheard' = [unheard EXCEPT ![t] = h]
      BY <2>2, <3>3, <3>4
    <3> HIDE DEF g, h, n
    <3> QED BY <3>1, <3>5, <3>6, JobGoesOn
  <2>3. ASSUME Again(t) PROVE \E j \in {"waiting", "given_up"} :
            job' = [job EXCEPT ![t] = j] /\ (j = "waiting" => attempts[t] < MaxAttempts) /\ UNCHANGED attempts
    BY <2>3 DEF Again
  <2>4. CASE Rescue(t)
    BY <2>0, <2>2, <2>3, <2>4 DEF Rescue, textPast
  <2>5. CASE FindGateway(t)
    <3>1. CASE Again(t)
      BY <2>0, <2>2, <2>3, <2>5, <3>1 DEF FindGateway, textPast, Tried
    <3>2. CASE job' = [job EXCEPT ![t] = "dropped"] /\ UNCHANGED attempts
      BY <2>0, <2>2, <2>5, <3>2 DEF FindGateway, textPast, Tried
    <3>3. CASE job' = [job EXCEPT ![t] = "calling"] /\ UNCHANGED attempts
      <4>1. job[t] = "begun" /\ got[t] + 1 <= attempts[t] /\ got[t] = unheard[t]
        BY <2>0, <2>5 DEF FindGateway, JobTrue, Tried
      <4>2. "calling" \in {"waiting", "stuck"} \cup Tried \cup Ended /\ "calling" \in Tried
        BY DEF Tried
      <4>3. /\ job' = [job EXCEPT ![t] = "calling"] /\ attempts' = [attempts EXCEPT ![t] = attempts[t]]
            /\ got' = [got EXCEPT ![t] = got[t]] /\ unheard' = [unheard EXCEPT ![t] = unheard[t]]
            /\ UNCHANGED <<at, gatewayOn, up, tellVars, reached>>
        BY <2>0, <2>5, <3>3 DEF FindGateway, textPast
      <4>4. /\ job[t] # "none" /\ got[t] = unheard[t] + (IF "calling" = "sent" THEN 1 ELSE 0)
            /\ got[t] + (IF "calling" \in Tried THEN 1 ELSE 0) <= attempts[t]
        BY <2>0, <4>1, <4>2
      <4> QED BY <2>0, <4>2, <4>3, <4>4, JobGoesOn
    <3> QED BY <2>5, <3>1, <3>2, <3>3 DEF FindGateway
  <2>6. CASE Send(t)
    <3>0. job[t] = "calling" /\ got[t] + 1 <= attempts[t] /\ got[t] = unheard[t]
      BY <2>0, <2>6 DEF Send, JobTrue, Tried
    <3>1. CASE Unheard(t)
      BY <2>0, <2>2, <2>3, <2>6, <3>0, <3>1 DEF Send, Unheard, textPast, Tried
    <3>2. CASE Heard(t) /\ UNCHANGED unheard
      <4>1. CASE job' = [job EXCEPT ![t] = "refused"] /\ UNCHANGED <<attempts, got>>
        BY <2>0, <2>2, <2>6, <3>0, <3>2, <4>1 DEF Send, Tried
      <4>2. CASE job' = [job EXCEPT ![t] = "sent"] /\ got' = [got EXCEPT ![t] = got[t] + 1] /\ UNCHANGED attempts
        <5>1. "sent" \in {"waiting", "stuck"} \cup Tried \cup Ended /\ "sent" \notin Tried /\ got[t] + 1 \in Nat
          BY <2>0 DEF Tried, Ended
        <5>2. /\ job' = [job EXCEPT ![t] = "sent"] /\ attempts' = [attempts EXCEPT ![t] = attempts[t]]
              /\ got' = [got EXCEPT ![t] = got[t] + 1] /\ unheard' = [unheard EXCEPT ![t] = unheard[t]]
              /\ UNCHANGED <<at, gatewayOn, up, tellVars, reached>>
          BY <2>0, <2>6, <3>2, <4>2 DEF Send
        <5>3. /\ job[t] # "none" /\ got[t] + 1 = unheard[t] + (IF "sent" = "sent" THEN 1 ELSE 0)
              /\ (got[t] + 1) + (IF "sent" \in Tried THEN 1 ELSE 0) <= attempts[t]
          BY <2>0, <3>0, <5>1
        <5> QED BY <2>0, <5>1, <5>2, <5>3, JobGoesOn
      <4> QED BY <3>2, <4>1, <4>2 DEF Heard
    <3> QED BY <2>6, <3>1, <3>2 DEF Send
  <2> QED BY <1>6, <2>1, <2>4, <2>5, <2>6
<1>7. CASE Stop
  BY <1>7, ServerStops
<1>8. CASE Restart \/ SwitchGateway
  <2>1. UNCHANGED <<at, tellVars, jobVars, reached, textPast>> /\ up' \in BOOLEAN /\ gatewayOn' \in BOOLEAN
    BY <1>8 DEF Restart, SwitchGateway, TextInv, TextTypeOK
  <2>2. TextTypeOK'
    BY <2>1 DEF tellVars, jobVars, textPast, TextInv, TextTypeOK
  <2> QED BY <2>1, <2>2 DEF tellVars, jobVars, textPast, TextInv, TellsOnce, Telling, TextOf, JobTrue
<1>9. CASE UNCHANGED textVars
  BY <1>9 DEF textVars, tellVars, jobVars, textPast, TextInv, TextTypeOK, TellsOnce, Telling, TextOf, JobTrue
<1> QED
  BY <1>1, <1>2, <1>3, <1>4, <1>5, <1>6, <1>7, <1>8, <1>9 DEF TextNext

LEMMA TextAlways == TextSpec => []TextInv
BY TextStart, TextStep, PTL DEF TextSpec

\* A customer is told of a status only once the order has had it.
THEOREM TextsAreTrue == TextSpec => []TextsTrue
<1>1. TextInv => TextsTrue
  BY DEF TextInv, JobTrue, TextsTrue, Texts
<1> QED
  BY <1>1, TextAlways, PTL

\* A customer gets a text again only when the shop did not hear that the gateway took it.
THEOREM FewTextsSent == TextSpec => []FewTexts
<1>1. TextInv => FewTexts
  BY DEF TextInv, TextTypeOK, JobTrue, FewTexts
<1> QED
  BY <1>1, TextAlways, PTL

-----------------------------------------------------------------------------
(* Lists. *)

\* i comes before j.
Earlier(i, j) == Before(Place(i), Place(j))

\* The rows of S before i.
Ahead(S, i) == {j \in S : Earlier(j, i)}

\* The reader has got a row nobody touched if and only if it is not after the cursor.
ListInv ==
    /\ ListTypeOK
    /\ \A i \in steady :
           seen[i] = IF atEnd \/ (cursor # None /\ ~Before(cursor, Place(i))) THEN 1 ELSE 0

\* Keys and ids together put the rows in one order.
LEMMA RowsInOrder ==
    ASSUME ListTypeOK
    PROVE  /\ \A i, j \in Rows : i = j \/ Earlier(i, j) \/ Earlier(j, i)
           /\ \A i, j \in Rows : ~(Earlier(i, j) /\ Earlier(j, i))
           /\ \A i, j, k \in Rows : Earlier(i, j) /\ Earlier(j, k) => Earlier(i, k)
           /\ \A i \in Rows : ~Earlier(i, i)
<1>1. \A i \in Rows : i \in Nat /\ sortKey[i] \in Nat
  BY ListsAssumption DEF ListTypeOK
<1> QED
  BY <1>1 DEF Earlier, Before, Place

\* Some rows have a first and a last one.
LEMMA FirstAndLast ==
    ASSUME ListTypeOK, NEW S \in SUBSET Rows, S # {}
    PROVE  /\ \E m \in S : \A i \in S : i = m \/ Earlier(i, m)
           /\ \E m \in S : \A i \in S : i = m \/ Earlier(m, i)
<1> DEFINE R == {p \in S \X S : Earlier(p[1], p[2])}
           Q == {p \in S \X S : Earlier(p[2], p[1])}
<1>0. IsFiniteSet(S)
  BY ListsAssumption, FS_Subset
<1>1. /\ \A x, y \in S : x = y \/ Earlier(x, y) \/ Earlier(y, x)
      /\ \A x, y, z \in S : Earlier(x, y) /\ Earlier(y, z) => Earlier(x, z)
  BY RowsInOrder
<1>2. \A x, y \in S : (<<x, y>> \in R <=> Earlier(x, y)) /\ (<<x, y>> \in Q <=> Earlier(y, x))
  OBVIOUS
<1> HIDE DEF R, Q
<1>3. \E m \in S : \A x \in S : x = m \/ <<x, m>> \in R
  <2>1. /\ \A x, y \in S : x = y \/ <<x, y>> \in R \/ <<y, x>> \in R
        /\ \A x, y, z \in S : <<x, y>> \in R /\ <<y, z>> \in R => <<x, z>> \in R
    BY <1>1, <1>2
  <2> QED BY <1>0, <2>1, HasLast
<1>4. \E m \in S : \A x \in S : x = m \/ <<x, m>> \in Q
  <2>1. /\ \A x, y \in S : x = y \/ <<x, y>> \in Q \/ <<y, x>> \in Q
        /\ \A x, y, z \in S : <<x, y>> \in Q /\ <<y, z>> \in Q => <<x, z>> \in Q
    BY <1>1, <1>2
  <2> QED BY <1>0, <2>1, HasLast
<1> QED
  BY <1>2, <1>3, <1>4

\* A page takes the rows from the front, and when it leaves one out the next would take one more.
LEMMA PageIsFront ==
    ASSUME ListTypeOK, NEW S \in SUBSET Rows, NEW n \in Nat \ {0}
    PROVE  /\ \A i \in First(S, n), j \in S : Earlier(j, i) => j \in First(S, n)
           /\ S # {} => First(S, n) # {}
           /\ S # First(S, n) => Cardinality(First(S, n + 1)) > n
<1>0. \A T \in SUBSET S : IsFiniteSet(T) /\ Cardinality(T) \in Nat
  BY ListsAssumption, FS_Subset, FS_CardinalityType
<1>f. \A i, m \in Rows, k \in Nat : m \in S => (m \in First(S, k) <=> Cardinality(Ahead(S, m)) < k)
  BY DEF First, Ahead, Earlier
<1>a. \A i \in S : Ahead(S, i) \in SUBSET S /\ Cardinality(Ahead(S, i)) \in Nat
  BY <1>0 DEF Ahead
<1>1. ASSUME NEW i \in S, NEW j \in S, Earlier(j, i)
      PROVE  Cardinality(Ahead(S, j)) < Cardinality(Ahead(S, i))
  <2>1. Ahead(S, j) \subseteq Ahead(S, i) /\ j \in Ahead(S, i) /\ j \notin Ahead(S, j)
    BY <1>1, RowsInOrder DEF Ahead
  <2>2. IsFiniteSet(Ahead(S, i)) /\ Ahead(S, j) # Ahead(S, i)
    BY <1>0, <1>a, <2>1
  <2>3. Cardinality(Ahead(S, j)) <= Cardinality(Ahead(S, i)) /\ (Cardinality(Ahead(S, j)) = Cardinality(Ahead(S, i)) => Ahead(S, j) = Ahead(S, i))
    BY <2>1, <2>2, FS_Subset
  <2> QED BY <1>a, <2>2, <2>3
<1>2. ASSUME NEW i \in First(S, n), NEW j \in S, Earlier(j, i) PROVE j \in First(S, n)
  <2>1. i \in S /\ Cardinality(Ahead(S, i)) < n /\ i \in Rows /\ j \in Rows
    BY <1>f, <1>2 DEF First
  <2> QED BY <1>1, <1>2, <1>a, <1>f, <2>1
<1>3. ASSUME S # {} PROVE First(S, n) # {}
  <2>1. PICK m \in S : \A i \in S : i = m \/ Earlier(m, i)
    BY <1>3, FirstAndLast
  <2>2. Ahead(S, m) = {}
    BY <2>1, RowsInOrder DEF Ahead
  <2>3. Cardinality(Ahead(S, m)) = 0
    BY <2>2, FS_EmptySet
  <2> QED BY <1>f, <2>3
<1>4. ASSUME S # First(S, n) PROVE Cardinality(First(S, n + 1)) > n
  <2>0. S \ First(S, n) # {} /\ S \ First(S, n) \in SUBSET Rows /\ First(S, n) \in SUBSET S
    BY <1>4 DEF First
  <2>1. PICK x \in S \ First(S, n) : \A i \in S \ First(S, n) : i = x \/ Earlier(x, i)
    BY <2>0, FirstAndLast
  <2>2. Ahead(S, x) = First(S, n)
    <3>1. ASSUME NEW j \in Ahead(S, x) PROVE j \in First(S, n)
      BY <2>1, <3>1, RowsInOrder DEF Ahead
    <3>2. ASSUME NEW j \in First(S, n) PROVE j \in Ahead(S, x)
      <4>1. j \in S /\ x \in S /\ j # x /\ j \in Rows /\ x \in Rows
        BY <2>0, <3>2
      <4>2. ~Earlier(x, j)
        BY <1>2, <3>2, <4>1
      <4> QED BY <4>1, <4>2, RowsInOrder DEF Ahead
    <3> QED BY <3>1, <3>2
  <2>3. Cardinality(First(S, n)) <= n
    <3>1. CASE First(S, n) = {}
      BY <3>1, FS_EmptySet
    <3>2. CASE First(S, n) # {}
      <4>1. PICK m \in First(S, n) : \A i \in First(S, n) : i = m \/ Earlier(i, m)
        BY <2>0, <3>2, FirstAndLast
      <4>2. First(S, n) = Ahead(S, m) \cup {m} /\ m \notin Ahead(S, m)
        <5>1. \A j \in S : Earlier(j, m) => j \in First(S, n)
          BY <1>2, <4>1
        <5> QED BY <2>0, <4>1, <5>1, RowsInOrder DEF Ahead
      <4>3. Cardinality(Ahead(S, m)) < n /\ IsFiniteSet(Ahead(S, m)) /\ Cardinality(Ahead(S, m)) \in Nat
        BY <1>0, <1>a, <1>f, <2>0
      <4>4. Cardinality(Ahead(S, m) \cup {m}) = Cardinality(Ahead(S, m)) + 1
        BY <4>2, <4>3, FS_AddElement
      <4> QED BY <4>2, <4>3, <4>4
    <3> QED BY <3>1, <3>2
  <2>4. Cardinality(First(S, n)) \in Nat /\ IsFiniteSet(First(S, n)) /\ Cardinality(First(S, n)) >= n
    BY <1>0, <1>a, <1>f, <2>0, <2>2
  <2>5. x \in First(S, n + 1) /\ First(S, n) \subseteq First(S, n + 1)
    <3>1. Cardinality(Ahead(S, x)) < n + 1
      BY <2>2, <2>3, <2>4
    <3>2. \A j \in First(S, n) : j \in S /\ Cardinality(Ahead(S, j)) < n + 1
      BY <1>a, <1>f, <2>0
    <3> QED BY <1>f, <3>1, <3>2
  <2>6. Cardinality(First(S, n) \cup {x}) = Cardinality(First(S, n)) + 1
    BY <2>4, FS_AddElement
  <2>7. First(S, n + 1) \in SUBSET S /\ First(S, n) \cup {x} \subseteq First(S, n + 1)
    BY <2>5 DEF First
  <2>8. Cardinality(First(S, n) \cup {x}) <= Cardinality(First(S, n + 1))
    BY <1>0, <2>7, FS_Subset
  <2> QED BY <1>0, <2>3, <2>4, <2>6, <2>7, <2>8
<1> QED
  BY <1>2, <1>3, <1>4

\* The page read next holds no row shown before, and none between is left out.
LEMMA PageRead == ASSUME ListInv, ReadPage PROVE ListInv'
<1> DEFINE rows == After(cursor)
           page == First(rows, PageSize)
<1>0. /\ ListTypeOK /\ PageSize \in Nat \ {0} /\ rows \in SUBSET Rows /\ page \in SUBSET rows /\ ~atEnd
      /\ UNCHANGED <<sortKey, matching, steady>> /\ rows = After(cursor)
      /\ seen' = [i \in Rows |-> IF i \in page THEN seen[i] + 1 ELSE seen[i]]
  BY ListsAssumption DEF ListInv, ListTypeOK, After, First, ReadPage
<1>1. /\ \A i \in page, j \in rows : Earlier(j, i) => j \in page
      /\ rows # {} => page # {}
      /\ rows # page => Cardinality(First(rows, PageSize + 1)) > PageSize
  BY <1>0, PageIsFront
<1>2. \A i \in steady : i \in Rows /\ Place(i)' = Place(i) /\ (i \in rows <=> cursor = None \/ Before(cursor, Place(i)))
  BY <1>0 DEF ListTypeOK, After, Place
<1>3. \A i \in steady : seen'[i] = IF i \in page THEN 1 ELSE IF i \in rows THEN 0 ELSE 1
  BY <1>0, <1>2 DEF ListInv
<1>4. seen' \in [Rows -> Nat]
  BY <1>0 DEF ListTypeOK
<1>5. CASE Cardinality(First(rows, PageSize + 1)) > PageSize
  <2>1. UNCHANGED atEnd /\ cursor' = Place(LastOf(page))
    BY <1>5 DEF ReadPage, CursorOf
  <2>2. rows # {}
    <3>1. SUFFICES ASSUME rows = {} PROVE FALSE
      OBVIOUS
    <3>2. First(rows, PageSize + 1) = {}
      BY <3>1 DEF First
    <3> QED BY <1>0, <1>5, <3>2, FS_EmptySet
  <2>3. PICK m \in page : \A i \in page : i = m \/ Earlier(i, m)
    BY <1>0, <1>1, <2>2, FirstAndLast
  <2>4. LastOf(page) \in page /\ \A i \in page : i = LastOf(page) \/ Earlier(i, LastOf(page))
    BY <2>3 DEF LastOf, Earlier
  <2> DEFINE l == LastOf(page)
  <2> HIDE DEF l, page, rows
  <2>5. l \in page /\ l \in rows /\ l \in Rows /\ cursor' = Place(l) /\ (\A i \in page : i = l \/ Earlier(i, l))
    BY <1>0, <2>1, <2>4 DEF l
  <2>6. cursor' # None /\ cursor' \in SortKeys \X Rows
    BY <1>0, <2>5, ListsAssumption DEF Place, ListTypeOK
  <2>7. ASSUME NEW i \in steady PROVE i \in page \/ i \notin rows <=> ~Earlier(l, i)
    <3>1. CASE i \in page
      BY <1>0, <1>2, <2>5, <3>1, RowsInOrder
    <3>2. CASE i \in rows \ page
      <4>1. i # l /\ ~Earlier(i, l) /\ i \in Rows
        BY <1>0, <1>1, <2>5, <3>2
      <4> QED BY <1>0, <2>5, <3>2, <4>1, RowsInOrder
    <3>3. CASE i \notin rows
      <4>1. cursor # None /\ ~Before(cursor, Place(i)) /\ Before(cursor, Place(l)) /\ i \in Rows
        BY <1>0, <1>2, <2>5, <3>3 DEF After
      <4>2. /\ cursor[1] \in Nat /\ cursor[2] \in Nat /\ Place(i)[1] \in Nat /\ Place(i)[2] \in Nat
            /\ Place(l)[1] \in Nat /\ Place(l)[2] \in Nat
        BY <1>0, <2>5, <4>1, ListsAssumption DEF ListTypeOK, Place
      <4>3. ~Before(Place(l), Place(i))
        BY <4>1, <4>2 DEF Before
      <4>4. i \notin page
        BY <1>0, <3>3
      <4> QED BY <3>3, <4>3, <4>4 DEF Earlier
    <3> QED BY <1>0, <3>1, <3>2, <3>3
  <2>8. ASSUME NEW i \in steady
        PROVE  seen'[i] = IF atEnd' \/ (cursor' # None /\ ~Before(cursor', Place(i)')) THEN 1 ELSE 0
    BY <1>0, <1>2, <1>3, <2>1, <2>5, <2>6, <2>7 DEF Earlier
  <2> QED BY <1>0, <1>4, <2>1, <2>6, <2>8 DEF ListInv, ListTypeOK
<1>6. CASE ~(Cardinality(First(rows, PageSize + 1)) > PageSize)
  <2>1. atEnd' = TRUE /\ UNCHANGED cursor /\ page = rows
    BY <1>1, <1>6 DEF ReadPage
  <2> HIDE DEF page, rows
  <2>2. \A i \in steady : seen'[i] = 1
    BY <1>3, <2>1
  <2> QED BY <1>0, <1>4, <2>1, <2>2 DEF ListInv, ListTypeOK
<1> QED
  BY <1>5, <1>6

LEMMA ListAlways == ListSpec => []ListInv
<1>1. ListInit => ListInv
  <2> SUFFICES ASSUME ListInit PROVE ListInv
    OBVIOUS
  <2>1. ListTypeOK
    BY DEF ListInit, ListTypeOK
  <2>2. \A i \in steady : i \in Rows /\ seen[i] = 0
    BY DEF ListInit
  <2> QED BY <2>1, <2>2 DEF ListInit, ListInv
<1>2. ASSUME ListInv, [ListNext]_listVars PROVE ListInv'
  <2>1. ASSUME NEW i \in Rows, NEW k \in SortKeys, ChangeKey(i, k) PROVE ListInv'
    <3>1. steady' \subseteq steady /\ \A j \in steady' : Place(j)' = Place(j)
      BY <2>1 DEF ChangeKey, Place, ListInv, ListTypeOK
    <3>2. ListTypeOK'
      BY <1>2, <2>1 DEF ChangeKey, ListInv, ListTypeOK
    <3> QED BY <1>2, <2>1, <3>1, <3>2 DEF ChangeKey, ListInv
  <2>2. ASSUME NEW i \in Rows, ChangeMatch(i) PROVE ListInv'
    <3>1. ListTypeOK'
      BY <1>2, <2>2 DEF ChangeMatch, ListInv, ListTypeOK
    <3> QED BY <1>2, <2>2, <3>1 DEF ChangeMatch, ListInv, Place
  <2>3. CASE UNCHANGED listVars
    BY <1>2, <2>3 DEF listVars, ListInv, ListTypeOK, Place
  <2> QED BY <1>2, <2>1, <2>2, <2>3, PageRead DEF ListNext
<1> QED
  BY <1>1, <1>2, PTL DEF ListSpec

\* "So no row is skipped between pages": a row nobody touches is shown once, whatever happens to
\* the others between two pages, for every size of a page.
THEOREM RowsSeenOnce == ListSpec => []SeenOnce
<1>1. ListInv => SeenOnce
  BY DEF ListInv, SeenOnce
<1> QED
  BY <1>1, ListAlways, PTL

-----------------------------------------------------------------------------
(* The limiter. *)

\* What c may take now.
Holds(c) == IF level[c] = NoBucket THEN Full ELSE level[c]

\* The attempts let through in the last n ticks.
Hits(c, n) == SumOf(hits[c], 0 .. n - 1)

\* What a bucket holds and what was taken from it within some ticks is no more than a full bucket
\* and what flowed in since; before its last drop another bucket was there to be taken.
Filled(c, n) == Holds(c) + Every * Hits(c, n) <= Full + (n - 1) + (IF n <= fresh[c] THEN 0 ELSE Full)

\* A bucket that was dropped within the window was dropped by the last reset.
LimiterInv ==
    /\ LimiterTypeOK
    /\ \A c \in Callers : fresh[c] = Window \/ fresh[c] >= sinceReset
    /\ \A c \in Callers, n \in 1 .. Window : Filled(c, n)

\* A product grows with its second factor.
LEMMA ProductWithNext == \A a, b, k \in Nat : k * a \in Nat /\ (a <= b => k * a <= k * b) /\ k * (a + 1) = k * a + k
<1> SUFFICES ASSUME NEW a \in Nat, NEW b \in Nat, NEW k \in Nat
             PROVE  k * a \in Nat /\ (a <= b => k * a <= k * b) /\ k * (a + 1) = k * a + k
  OBVIOUS
<1>1. k * a \in Nat
  OBVIOUS
<1>2. k * (a + 1) = k * a + k
  OBVIOUS
<1>3. ASSUME a <= b PROVE k * a <= k * b
  <2>1. b - a \in Nat /\ k * (b - a) \in Nat
    BY <1>3
  <2>2. k * b = k * a + k * (b - a)
    OBVIOUS
  <2> QED BY <1>1, <2>1, <2>2
<1> QED
  BY <1>1, <1>2, <1>3

\* A full bucket lets one attempt through.
LEMMA FullIsNat == Full \in Nat /\ Full >= Every
<1>1. Every \in Nat \ {0} /\ Burst \in Nat \ {0}
  BY LimiterAssumption
<1>2. Every * 1 <= Every * Burst /\ Every * Burst \in Nat /\ Every * 1 = Every
  BY <1>1, ProductWithNext
<1> QED BY <1>1, <1>2 DEF Full

\* The ticks gone by are one age for each, and the sum over the first of them.
LEMMA SumShift ==
    ASSUME NEW m \in Nat, NEW f \in [0 .. m -> Nat], NEW g \in [0 .. m -> Nat],
           g[0] = 0, \A a \in 1 .. m : g[a] = f[a - 1]
    PROVE  \A n \in 0 .. m : SumOf(g, 0 .. n) = SumOf(f, 0 .. n - 1)
<1> DEFINE Same(n) == n <= m => SumOf(g, 0 .. n) = SumOf(f, 0 .. n - 1)
           G == {n \in Nat : Same(n)}
<1>1. 0 \in G
  <2>1. 0 .. 0 - 1 = {} /\ 0 .. 0 = {0} /\ {0} \ {0} = {}
    OBVIOUS
  <2>2. IsFiniteSet({0}) /\ Ints(g, {0}) /\ 0 \in {0}
    <3>1. IsFiniteSet({0})
      BY FS_Singleton
    <3>2. Ints(g, {0})
      BY DEF Ints
    <3> QED BY <3>1, <3>2
  <2>3. SumOf(g, {0}) = g[0] + SumOf(g, {0} \ {0})
    BY <2>2, SumRemove
  <2>4. SumOf(g, {}) = 0 /\ SumOf(f, {}) = 0
    BY SumEmpty
  <2>5. SumOf(g, 0 .. 0) = 0 /\ SumOf(f, 0 .. 0 - 1) = 0
    <3>1. SumOf(g, {0}) = 0 + 0
      BY <2>1, <2>3, <2>4
    <3>2. SumOf(g, {0}) = 0
      BY <3>1
    <3> QED BY <2>1, <2>4, <3>2
  <2> QED BY <2>5
<1>2. ASSUME NEW n \in G PROVE n + 1 \in G
  <2>1. CASE n + 1 <= m
    <3>1. n \in Nat /\ SumOf(g, 0 .. n) = SumOf(f, 0 .. n - 1)
      BY <1>2, <2>1
    <3>2. IsFiniteSet(0 .. n + 1) /\ IsFiniteSet(0 .. n) /\ Ints(g, 0 .. n + 1) /\ Ints(f, 0 .. n)
      <4>1. IsFiniteSet(0 .. n + 1) /\ IsFiniteSet(0 .. n)
      BY <3>1, FS_Interval
    <4>2. 0 .. n + 1 \subseteq 0 .. m /\ 0 .. n \subseteq 0 .. m
      BY <2>1, <3>1
    <4>3. Ints(g, 0 .. m) /\ Ints(f, 0 .. m)
      BY DEF Ints
    <4>4. Ints(g, 0 .. n + 1) /\ Ints(f, 0 .. n)
      BY <4>2, <4>3 DEF Ints
    <4> QED BY <4>1, <4>4
    <3>3. (0 .. n + 1) \ {n + 1} = 0 .. n /\ (0 .. n) \ {n} = 0 .. n - 1 /\ n + 1 \in 0 .. n + 1 /\ n \in 0 .. n
      BY <3>1
    <3>4. SumOf(g, 0 .. n + 1) = g[n + 1] + SumOf(g, (0 .. n + 1) \ {n + 1})
      BY <3>2, <3>3, SumRemove
    <3>5. SumOf(f, 0 .. n) = f[n] + SumOf(f, (0 .. n) \ {n})
      BY <3>2, <3>3, SumRemove
    <3>6. g[n + 1] = f[n]
      BY <2>1, <3>1
    <3>7. (n + 1) - 1 = n
      BY <3>1
    <3>8. SumOf(g, 0 .. n + 1) = SumOf(f, 0 .. (n + 1) - 1)
      BY <3>1, <3>3, <3>4, <3>5, <3>6, <3>7
    <3> QED BY <3>1, <3>8
  <2>2. CASE ~(n + 1 <= m)
    BY <1>2, <2>2
  <2> QED BY <2>1, <2>2
<1> HIDE DEF G
<1>3. G \in SUBSET Nat
  BY DEF G
<1>4. G = Nat
  BY <1>1, <1>2, <1>3, NatSetInduction
<1>5. ASSUME NEW n \in 0 .. m PROVE SumOf(g, 0 .. n) = SumOf(f, 0 .. n - 1)
  <2>1. n \in G /\ n <= m
    BY <1>4
  <2> QED BY <2>1 DEF G
<1> QED
  BY <1>5

\* The attempts let through are a number.
LEMMA HitsType ==
    ASSUME LimiterTypeOK, NEW c \in Callers, NEW n \in 1 .. Window
    PROVE  /\ Hits(c, n) \in Int /\ 0 .. n - 1 \subseteq Ages /\ IsFiniteSet(0 .. n - 1)
           /\ Ints(hits[c], 0 .. n - 1) /\ 0 \in 0 .. n - 1
<1>1. n \in Nat /\ n >= 1 /\ n <= Window /\ Window \in Nat
  BY LimiterAssumption
<1>2. IsFiniteSet(0 .. n - 1)
  BY <1>1, FS_Interval
<1>3. 0 .. n - 1 \subseteq Ages /\ 0 \in 0 .. n - 1
  BY <1>1 DEF Ages
<1>4. Ints(hits[c], 0 .. n - 1)
  BY <1>3 DEF LimiterTypeOK, Ints
<1>5. Hits(c, n) \in Int
  BY <1>2, <1>4, SumType DEF Hits
<1> QED
  BY <1>2, <1>3, <1>4, <1>5

LEMMA LimiterStart == LimiterInit => LimiterInv
<1> SUFFICES ASSUME LimiterInit PROVE LimiterInv
  OBVIOUS
<1>1. LimiterTypeOK
  BY LimiterAssumption DEF LimiterInit, LimiterTypeOK, NoBucket
<1>2. ASSUME NEW c \in Callers, NEW n \in 1 .. Window PROVE Filled(c, n)
  <2>1. \A x \in 0 .. n - 1 : hits[c][x] = 0
    BY <1>1, <1>2, HitsType DEF LimiterInit
  <2>2. Hits(c, n) = 0
    BY <1>1, <2>1, HitsType, SumZero DEF Hits
  <2> QED BY <1>2, <2>2, FullIsNat, LimiterAssumption DEF LimiterInit, Filled, Holds
<1> QED
  BY <1>1, <1>2 DEF LimiterInv, LimiterInit

\* With each tick as much flows in as the bound lets.
LEMMA LimiterTick == LimiterInv /\ Tick => LimiterInv'
<1> SUFFICES ASSUME LimiterInv, Tick PROVE LimiterInv'
  OBVIOUS
<1>0. Window \in Nat \ {0} /\ Forget \in Nat /\ Full \in Nat /\ Every \in Nat /\ LimiterTypeOK /\ Ages = 0 .. Window - 1
  BY LimiterAssumption, FullIsNat DEF LimiterInv, Ages
<1>1. LimiterTypeOK'
  <2>1. hits' \in [Callers -> [Ages -> Nat]]
    BY <1>0 DEF LimiterTypeOK, Tick
  <2> QED BY <1>0, <2>1 DEF LimiterTypeOK, Tick, Least, NoBucket
<1>2. \A c \in Callers : fresh'[c] = Window \/ fresh'[c] >= sinceReset'
  <2> SUFFICES ASSUME NEW c \in Callers PROVE fresh'[c] = Window \/ fresh'[c] >= sinceReset'
    OBVIOUS
  <2>1. /\ fresh[c] \in 0 .. Window /\ sinceReset \in 0 .. Forget + 1
        /\ (fresh[c] = Window \/ fresh[c] >= sinceReset)
    BY <1>0 DEF LimiterInv, LimiterTypeOK
  <2>2. fresh'[c] = Least(Window, fresh[c] + 1) /\ sinceReset' = Least(Forget + 1, sinceReset + 1)
    BY DEF Tick
  <2> QED BY <1>0, <2>1, <2>2 DEF Least
<1>3. ASSUME NEW c \in Callers, NEW n \in 1 .. Window PROVE Filled(c, n)'
  <2>1. /\ Holds(c) \in 0 .. Full /\ Holds(c)' \in 0 .. Full /\ Holds(c)' <= Holds(c) + 1
        /\ fresh[c] \in 0 .. Window /\ fresh'[c] = Least(Window, fresh[c] + 1)
    BY <1>0, <1>1 DEF LimiterTypeOK, Holds, Tick, Least, NoBucket
  <2>2. hits[c] \in [0 .. Window - 1 -> Nat] /\ hits'[c] \in [0 .. Window - 1 -> Nat]
    BY <1>0, <1>1 DEF LimiterTypeOK
  <2>3. hits'[c][0] = 0 /\ \A x \in 1 .. Window - 1 : hits'[c][x] = hits[c][x - 1]
    BY <1>0 DEF Tick
  <2>4. Hits(c, n)' = SumOf(hits[c], 0 .. (n - 1) - 1)
    <3>1. Window - 1 \in Nat /\ n - 1 \in 0 .. Window - 1
      BY <1>0
    <3>2. SumOf(hits'[c], 0 .. (n - 1)) = SumOf(hits[c], 0 .. (n - 1) - 1)
      <4> DEFINE m == Window - 1
                 f == hits[c]
                 g == hits'[c]
      <4>1. /\ m \in Nat /\ f \in [0 .. m -> Nat] /\ g \in [0 .. m -> Nat] /\ g[0] = 0
            /\ \A a \in 1 .. m : g[a] = f[a - 1]
        BY <2>2, <2>3, <3>1
      <4>2. n - 1 \in 0 .. m
        BY <3>1
      <4> HIDE DEF m, f, g
      <4>3. \A a \in 0 .. m : SumOf(g, 0 .. a) = SumOf(f, 0 .. a - 1)
        BY <4>1, SumShift
      <4> QED BY <4>2, <4>3 DEF f, g
    <3> QED BY <3>2 DEF Hits
  <2>5. CASE n = 1
    <3>1. 0 .. (n - 1) - 1 = {} /\ Every * 0 = 0
      BY <1>0, <2>5
    <3>2. Hits(c, n)' = 0
      BY <2>4, <3>1, SumEmpty
    <3>3. Every * Hits(c, n)' = 0
      BY <3>1, <3>2
    <3> QED BY <1>0, <2>1, <2>5, <3>3 DEF Filled, Least
  <2>6. CASE n # 1
    <3>1. n - 1 \in 1 .. Window
      BY <1>0, <2>6
    <3>2. Hits(c, n)' = Hits(c, n - 1)
      BY <2>4 DEF Hits
    <3>3. Filled(c, n - 1) /\ Hits(c, n - 1) \in Int
      BY <1>0, <3>1, HitsType DEF LimiterInv
    <3>4. Every * Hits(c, n - 1) \in Int /\ Every * Hits(c, n)' = Every * Hits(c, n - 1)
      BY <1>0, <3>2, <3>3
    <3>5. n <= fresh'[c] <=> n - 1 <= fresh[c]
      BY <1>0, <2>1, <3>1 DEF Least
    <3> DEFINE z == IF n - 1 <= fresh[c] THEN 0 ELSE Full
               p == Every * Hits(c, n - 1)
               q == Every * Hits(c, n)'
    <3>6. Holds(c) + p <= Full + ((n - 1) - 1) + z
      BY <3>3 DEF Filled
    <3>7. z \in Int /\ p \in Int /\ q = p /\ z = IF n <= fresh'[c] THEN 0 ELSE Full
      BY <1>0, <3>4, <3>5
    <3>8. Holds(c) \in Int /\ Holds(c)' \in Int /\ Holds(c)' <= Holds(c) + 1 /\ Full \in Int /\ n \in Int
      BY <1>0, <2>1
    <3> HIDE DEF z, p, q
    <3>9. Holds(c)' + q <= Full + (n - 1) + z
      BY ONLY <3>6, <3>7, <3>8
    <3> QED BY <3>7, <3>9 DEF Filled, q
  <2> QED BY <2>5, <2>6
<1> QED
  BY <1>1, <1>2, <1>3 DEF LimiterInv

\* An attempt that is let through is one more in every stretch that ends now.
LEMMA HitsGrow ==
    ASSUME LimiterTypeOK, NEW c \in Callers, NEW n \in 1 .. Window, NEW k \in Nat,
           hits' = [hits EXCEPT ![c][0] = hits[c][0] + k]
    PROVE  /\ Hits(c, n)' = Hits(c, n) + k /\ Hits(c, n) \in Int
           /\ \A x \in Callers \ {c} : Hits(x, n)' = Hits(x, n)
<1> DEFINE f == hits[c]
           g == [hits[c] EXCEPT ![0] = hits[c][0] + k]
           D == 0 .. n - 1
<1>1. hits' = [hits EXCEPT ![c] = g] /\ hits'[c] = g /\ \A x \in Callers \ {c} : hits'[x] = hits[x]
  BY DEF LimiterTypeOK
<1>2. IsFiniteSet(D) /\ Ints(f, D) /\ 0 \in D /\ D \subseteq Ages /\ Hits(c, n) \in Int
  BY HitsType
<1>3. g[0] = f[0] + k /\ f[0] \in Int /\ g[0] \in Int /\ \A y \in D \ {0} : g[y] = f[y]
  BY <1>2 DEF LimiterTypeOK, Ints
<1> HIDE DEF f, g, D
<1>4. SumOf(g, D) = SumOf(f, D) + (g[0] - f[0])
  BY <1>2, <1>3, SumChange
<1>5. SumOf(f, D) = Hits(c, n) /\ SumOf(g, D) = Hits(c, n)' /\ \A x \in Callers \ {c} : Hits(x, n)' = Hits(x, n)
  BY <1>1 DEF Hits, f, D
<1> QED
  BY <1>2, <1>3, <1>4, <1>5

\* An attempt let through is paid from the bucket.
LEMMA LimiterAllow == ASSUME LimiterInv, NEW c \in Callers, Allow(c) PROVE LimiterInv'
<1>0. /\ Window \in Nat \ {0} /\ Forget \in Nat /\ Forget >= Window /\ Full \in Nat /\ Full >= Every
      /\ Every \in Nat \ {0} /\ LimiterTypeOK
  BY LimiterAssumption, FullIsNat DEF LimiterInv
<1>1. \A x \in Callers : level[x] \in {NoBucket} \cup 0 .. Full /\ fresh[x] \in 0 .. Window /\ Holds(x) \in 0 .. Full
  BY <1>0 DEF LimiterTypeOK, Holds
<1>2. \A k \in Int : Every * k \in Int /\ Every * (k + 1) = Every * k + Every /\ Every * (k + 0) = Every * k
  BY <1>0
<1>3. ASSUME NEW k \in Nat, hits' = [hits EXCEPT ![c][0] = hits[c][0] + k] PROVE hits' \in [Callers -> [Ages -> Nat]]
  <2>1. 0 \in Ages
    BY <1>0 DEF Ages
  <2> QED BY <1>0, <1>3, <2>1 DEF LimiterTypeOK
<1>4. CASE sinceReset <= Forget
  <2> DEFINE k == IF Holds(c) >= Every THEN 1 ELSE 0
  <2>1. /\ UNCHANGED <<sinceReset, fresh>> /\ hits' = [hits EXCEPT ![c][0] = hits[c][0] + k]
        /\ level' = [level EXCEPT ![c] = IF Holds(c) >= Every THEN Holds(c) - Every ELSE Holds(c)]
    BY <1>0, <1>4 DEF Allow, Holds, Forgetting, LimiterTypeOK
  <2>2. LimiterTypeOK'
    <3>1. level' \in [Callers -> {NoBucket} \cup 0 .. Full]
      BY <1>0, <1>1, <2>1 DEF LimiterTypeOK
    <3>2. k \in Nat
      OBVIOUS
    <3> HIDE DEF k
    <3> QED BY <1>0, <1>3, <2>1, <3>1, <3>2 DEF LimiterTypeOK
  <2>3. Holds(c)' = Holds(c) - (IF Holds(c) >= Every THEN Every ELSE 0) /\ \A x \in Callers \ {c} : Holds(x)' = Holds(x)
    BY <1>0, <1>1, <2>1 DEF Holds, LimiterTypeOK, NoBucket
  <2>4. ASSUME NEW x \in Callers, NEW n \in 1 .. Window PROVE Filled(x, n)'
    <3>1. k \in Nat /\ (IF Holds(c) >= Every THEN k = 1 ELSE k = 0)
      <4>1. CASE Holds(c) >= Every
        BY <4>1
      <4>2. CASE ~(Holds(c) >= Every)
        BY <4>2
      <4> QED BY <4>1, <4>2
    <3> HIDE DEF k
    <3>2. /\ Hits(c, n)' = Hits(c, n) + k /\ Hits(c, n) \in Int
          /\ \A y \in Callers \ {c} : Hits(y, n)' = Hits(y, n)
      BY <1>0, <2>1, <3>1, HitsGrow
    <3>3. Filled(x, n) /\ fresh'[x] = fresh[x]
      BY <2>1 DEF LimiterInv
    <3>4. CASE x = c
      <4>1. Holds(c)' + Every * Hits(c, n)' = Holds(c) + Every * Hits(c, n)
        <5>1. CASE Holds(c) >= Every
          <6>1. k = 1 /\ Holds(c)' = Holds(c) - Every
            BY <2>3, <3>1, <5>1
          <6>2. Every * Hits(c, n)' = Every * Hits(c, n) + Every /\ Every * Hits(c, n) \in Int
            BY <1>2, <3>2, <6>1
          <6> QED BY <1>0, <1>1, <6>1, <6>2
        <5>2. CASE ~(Holds(c) >= Every)
          <6>1. k = 0 /\ Holds(c)' = Holds(c)
            BY <1>1, <2>3, <3>1, <5>2
          <6>2. Hits(c, n)' = Hits(c, n)
            BY <3>2, <6>1
          <6> QED BY <6>1, <6>2
        <5> QED BY <5>1, <5>2
      <4> QED BY <3>3, <3>4, <4>1 DEF Filled
    <3>5. CASE x # c
      BY <2>3, <3>2, <3>3, <3>5 DEF Filled
    <3> QED BY <3>4, <3>5
  <2> QED BY <2>1, <2>2, <2>4 DEF LimiterInv
<1>5. CASE sinceReset > Forget
  <2>1. /\ sinceReset' = 0 /\ level' = [x \in Callers |-> IF x = c THEN Full - Every ELSE NoBucket]
        /\ fresh' = [x \in Callers |-> IF level[x] = NoBucket THEN fresh[x] ELSE 0]
        /\ hits' = [hits EXCEPT ![c][0] = hits[c][0] + 1]
    BY <1>0, <1>5 DEF Allow, Forgetting, LimiterTypeOK
  <2>2. LimiterTypeOK'
    <3>1. level' \in [Callers -> {NoBucket} \cup 0 .. Full] /\ fresh' \in [Callers -> 0 .. Window]
      BY <1>0, <1>1, <2>1
    <3>2. hits' \in [Callers -> [Ages -> Nat]] /\ sinceReset' \in 0 .. Forget + 1
      <4>1. 1 \in Nat /\ 0 \in 0 .. Forget + 1
        BY <1>0
      <4> QED BY <1>3, <2>1, <4>1
    <3> QED BY <3>1, <3>2 DEF LimiterTypeOK
  <2>3. \A x \in Callers : fresh[x] = Window
    BY <1>0, <1>1, <1>5 DEF LimiterInv, LimiterTypeOK
  <2>4. \A x \in Callers : fresh'[x] \in 0 .. Window /\ fresh'[x] >= sinceReset'
    BY <1>0, <1>1, <2>1
  <2>5. Holds(c)' = Full - Every /\ \A x \in Callers \ {c} : Holds(x)' = Full
    BY <1>0, <2>1 DEF Holds, NoBucket
  <2>6. ASSUME NEW x \in Callers, NEW n \in 1 .. Window PROVE Filled(x, n)'
    <3>2. /\ Hits(c, n)' = Hits(c, n) + 1 /\ Hits(c, n) \in Int /\ Hits(x, n) \in Int
          /\ \A y \in Callers \ {c} : Hits(y, n)' = Hits(y, n)
      BY <1>0, <2>1, HitsGrow, HitsType
    <3>3. Holds(x) + Every * Hits(x, n) <= Full + (n - 1) /\ n \in Nat /\ n >= 1 /\ n <= Window
      BY <1>0, <2>3 DEF LimiterInv, Filled
    <3>4. Holds(x)' + Every * Hits(x, n)' = Full + Every * Hits(x, n)
      <4>1. CASE x = c
        <5>1. Every * (Hits(c, n) + 1) = Every * Hits(c, n) + Every /\ Every * Hits(c, n) \in Int
          BY <1>2, <3>2
        <5> QED BY <1>0, <2>5, <3>2, <4>1, <5>1
      <4>2. CASE x # c
        BY <2>5, <3>2, <4>2
      <4> QED BY <4>1, <4>2
    <3>5. Every * Hits(x, n) \in Int
      BY <1>2, <3>2
    <3>6. CASE level[x] = NoBucket
      <4>1. Holds(x) = Full /\ fresh'[x] = Window
        BY <2>1, <2>3, <3>6 DEF Holds
      <4> QED BY <1>0, <3>3, <3>4, <3>5, <4>1 DEF Filled
    <3>7. CASE level[x] # NoBucket
      <4>1. fresh'[x] = 0 /\ Holds(x) \in 0 .. Full
        BY <1>1, <2>1, <3>7
      <4> QED BY <1>0, <3>3, <3>4, <3>5, <4>1 DEF Filled
    <3> QED BY <3>6, <3>7
  <2> QED BY <2>2, <2>4, <2>6 DEF LimiterInv
<1> QED
  BY <1>0, <1>4, <1>5 DEF LimiterTypeOK

LEMMA LimiterAlways == LimiterSpec => []LimiterInv
<1>1. ASSUME LimiterInv, [LimiterNext]_limiterVars PROVE LimiterInv'
  <2>1. CASE UNCHANGED limiterVars
    BY <1>1, <2>1 DEF LimiterInv, limiterVars, LimiterTypeOK, Filled, Holds, Hits
  <2> QED BY <1>1, <2>1, LimiterTick, LimiterAllow DEF LimiterNext
<1> QED
  BY <1>1, LimiterStart, PTL DEF LimiterSpec

\* "At worst it hands out one fresh burst": for every rate, burst, window and caller.
THEOREM MinuteBounded == LimiterSpec => []MinuteBound
<1>1. LimiterInv => MinuteBound
  <2> SUFFICES ASSUME LimiterInv, NEW c \in Callers
               PROVE  Passed(c) <= Burst + ((Window - 1) \div Every) + (IF fresh[c] < Window THEN Burst ELSE 0)
    BY DEF MinuteBound
  <2>0. Window \in Nat \ {0} /\ Every \in Nat \ {0} /\ Burst \in Nat \ {0} /\ LimiterTypeOK /\ Full = Every * Burst
    BY LimiterAssumption DEF LimiterInv, Full
  <2> DEFINE P == Hits(c, Window)
             q == (Window - 1) \div Every
             b == Burst + (IF fresh[c] < Window THEN Burst ELSE 0)
  <2>1. Passed(c) = P
    BY MapIsSum, Zenon DEF Passed, Hits, Ages
  <2>2. P \in Int /\ Holds(c) \in Nat /\ fresh[c] \in 0 .. Window
    BY <2>0, HitsType, FullIsNat DEF Holds, LimiterTypeOK
  <2>3. q \in Nat /\ Window - 1 < Every * q + Every /\ b \in Nat
    BY <2>0
  <2>4. Full + (IF Window <= fresh[c] THEN 0 ELSE Full) = Every * b
    BY <2>0, <2>2
  <2>5. Filled(c, Window)
    BY <2>0 DEF LimiterInv
  <2>6. P <= b + q
    <3> HIDE DEF P, q, b
    <3>1. SUFFICES ASSUME P >= (b + q) + 1 PROVE FALSE
      BY <2>2, <2>3
    <3>2. Every * ((b + q) + 1) <= Every * P /\ P \in Nat
      BY <2>0, <2>2, <2>3, <3>1, ProductWithNext
    <3>3. Every * ((b + q) + 1) = Every * b + Every * q + Every
      BY <2>0, <2>3
    <3>4. Every * b \in Int /\ Every * q \in Int /\ Every * P \in Int
      BY <2>0, <2>2, <2>3
    <3>5. Holds(c) + Every * P <= Every * b + (Window - 1)
      BY <2>0, <2>2, <2>4, <2>5, <3>4, FullIsNat DEF Filled, P
    <3> QED BY <2>0, <2>2, <2>3, <3>2, <3>3, <3>4, <3>5
  <2> QED BY <2>0, <2>1, <2>2, <2>3, <2>6
<1> QED
  BY <1>1, LimiterAlways, PTL

-----------------------------------------------------------------------------
(* The audit log. *)

\* What the row was at some time, as the entries tell: what it is, what one of them put there, or
\* what the first found.
Was(x) ==
    \/ x = row
    \/ \E j \in Entries : log[j].after = x \/ (log[j].before = x /\ \A k \in Entries : j <= k)

\* Only the save that has written the row goes on to its entry, whose id comes after all others,
\* and what a save took for the row before it was there.
AuditAtWork ==
    \A w \in Workers :
        /\ auditPc[w] \in {"logging", "committing"} <=> editor = w
        /\ auditPc[w] = "reading" => writes[w] # None
        /\ auditPc[w] = "writing" /\ writes[w] # None => before[w] # None /\ Was(before[w])
        /\ auditPc[w] \in {"logging", "committing"} => before[w] # None /\ Was(before[w]) /\ row # None
        /\ auditPc[w] = "committing" =>
               entryId[w] \in Ids /\ entryId[w] < nextId /\ \A i \in Entries : i < entryId[w]

AuditInv == AuditTypeOK /\ AuditAtWork /\ AuditTells

\* A save that ends leaves the others' work, when the rows stay.
LEMMA AuditDoneInv ==
    ASSUME AuditInv, NEW w \in Workers, AuditDone(w), UNCHANGED <<row, nextId, log>>
    PROVE  AuditInv'
<1>1. AuditTypeOK' /\ AuditTells'
  BY AuditAssumption DEF AuditInv, AuditTypeOK, AuditTells, AuditDone, AuditGoto, Entries
<1>2. \A x : Was(x)' <=> Was(x)
  BY DEF Was, Entries
<1>3. AuditAtWork'
  BY <1>2, AuditAssumption DEF AuditInv, AuditTypeOK, AuditAtWork, AuditDone, AuditGoto, Entries
<1> QED
  BY <1>1, <1>3 DEF AuditInv

\* A step of one save that leaves what is committed alone.
LEMMA AuditMove ==
    ASSUME AuditInv, NEW w \in Workers, UNCHANGED <<row, log>>, nextId' \in {nextId, nextId + 1},
           AuditTypeOK',
           \A v \in Workers \ {w} :
               /\ auditPc'[v] = auditPc[v] /\ writes'[v] = writes[v] /\ before'[v] = before[v]
               /\ entryId'[v] = entryId[v] /\ (editor' = v <=> editor = v),
           /\ auditPc'[w] \in {"logging", "committing"} <=> editor' = w
           /\ auditPc'[w] = "reading" => writes'[w] # None
           /\ auditPc'[w] = "writing" /\ writes'[w] # None => before'[w] # None /\ Was(before'[w])
           /\ auditPc'[w] \in {"logging", "committing"} => before'[w] # None /\ Was(before'[w]) /\ row # None
           /\ auditPc'[w] = "committing" =>
                  entryId'[w] \in Ids /\ entryId'[w] < nextId' /\ \A i \in Entries : i < entryId'[w]
    PROVE  AuditInv'
<1>1. AuditTells'
  BY DEF AuditInv, AuditTells, Entries
<1>2. (\A x : Was(x)' <=> Was(x)) /\ Entries' = Entries /\ nextId' >= nextId /\ Ids' = Ids
  BY DEF Was, Entries, Ids, AuditInv, AuditTypeOK
<1>3. ASSUME NEW v \in Workers \ {w}
      PROVE  /\ auditPc'[v] \in {"logging", "committing"} <=> editor' = v
             /\ auditPc'[v] = "reading" => writes'[v] # None
             /\ auditPc'[v] = "writing" /\ writes'[v] # None => before'[v] # None /\ Was(before'[v])
             /\ auditPc'[v] \in {"logging", "committing"} => before'[v] # None /\ Was(before'[v]) /\ row # None
             /\ auditPc'[v] = "committing" =>
                  entryId'[v] \in Ids /\ entryId'[v] < nextId' /\ \A i \in Entries : i < entryId'[v]
  BY <1>2, AuditAssumption DEF AuditInv, AuditAtWork, AuditTypeOK, Ids
<1>4. AuditAtWork'
  BY <1>2, <1>3 DEF AuditAtWork
<1> QED
  BY <1>1, <1>4 DEF AuditInv

\* A commit adds an entry that tells of the row as it was and as it is now.
LEMMA AuditCommit ==
    ASSUME AuditInv, NEW w \in Workers, CommitSave(w)
    PROVE  AuditInv'
<1> DEFINE i == entryId[w]
           e == [before |-> before[w], after |-> writes[w]]
<1>1. /\ i \in Ids /\ i < nextId /\ (\A j \in Entries : j < i) /\ before[w] \in Contents /\ Was(before[w])
      /\ writes[w] \in Contents \cup {None} /\ editor = w /\ auditPc[w] = "committing"
  BY DEF CommitSave, AuditInv, AuditAtWork, AuditTypeOK
<1>2. e \in [before : Contents, after : Contents \cup {None}] /\ e # None
  BY <1>1, AuditAssumption
<1>3. log' = [log EXCEPT ![i] = e] /\ row' = writes[w] /\ nextId' = nextId
  BY DEF CommitSave
<1> HIDE DEF e
<1>t. log' = [j \in Ids |-> IF j = i THEN e ELSE log[j]]
  BY <1>1, <1>3 DEF AuditInv, AuditTypeOK
<1>4. /\ Entries' = Entries \cup {i} /\ log'[i] = e /\ \A j \in Entries : log'[j] = log[j]
  BY <1>1, <1>2, <1>t DEF Entries, Ids
<1>5. AuditTypeOK'
  <2>1. log' \in [Ids -> [before : Contents, after : Contents \cup {None}] \cup {None}]
    BY <1>1, <1>2, <1>t DEF AuditInv, AuditTypeOK
  <2>2. nextId' \in 1 .. MaxEntries + 1 /\ \A j \in Entries' : j < nextId'
    BY <1>1, <1>3, <1>4 DEF AuditInv, AuditTypeOK
  <2>3. /\ row' \in Contents \cup {None} /\ editor' \in Workers \cup {None}
        /\ auditPc' \in [Workers -> {"idle", "reading", "writing", "logging", "committing"}]
        /\ writes' \in [Workers -> Contents \cup {None}] /\ before' \in [Workers -> Contents \cup {None}]
    BY <1>1, <1>3 DEF AuditInv, AuditTypeOK, CommitSave, AuditDone, AuditGoto
  <2>4. entryId' \in [Workers -> 0 .. MaxEntries]
    BY AuditAssumption DEF AuditInv, AuditTypeOK, CommitSave, AuditDone
  <2> QED BY <2>1, <2>2, <2>3, <2>4 DEF AuditTypeOK
<1>6. e.before = before[w] /\ e.after = writes[w]
  BY DEF e
<1>7. Entries \subseteq Nat /\ i \in Nat /\ IsFiniteSet(Entries)
  <2>1. IsFiniteSet(1 .. MaxEntries)
    BY FS_Interval, AuditAssumption
  <2>2. Entries \subseteq 1 .. MaxEntries /\ 1 .. MaxEntries \subseteq Nat
    BY DEF Entries, Ids
  <2> QED BY <1>1, <2>1, <2>2, FS_Subset DEF Ids
\* What was the row still tells of itself: the row as it was is what the last entry put there.
<1>8. \E j \in Entries' : log'[j].after = row \/ (log'[j].before = row /\ \A k \in Entries' : j <= k)
  <2>1. CASE Entries = {}
    <3>1. before[w] = row
      BY <1>1, <2>1 DEF Was
    <3> QED BY <1>4, <1>6, <1>7, <2>1, <3>1
  <2>2. CASE Entries # {}
    <3>1. PICK m \in Entries : \A j \in Entries : j <= m
      BY <1>7, <2>2, Greatest
    <3>2. log[m].after = row
      BY <3>1 DEF AuditInv, AuditTells
    <3> QED BY <1>4, <3>1, <3>2
  <2> QED BY <2>1, <2>2
<1>9. ASSUME NEW x, Was(x)
      PROVE  \E j \in Entries' : log'[j].after = x \/ (log'[j].before = x /\ \A k \in Entries' : j <= k)
  <2>1. CASE x = row
    BY <1>8, <2>1
  <2>2. ASSUME NEW j \in Entries, log[j].after = x \/ (log[j].before = x /\ \A k \in Entries : j <= k)
        PROVE  log'[j].after = x \/ (log'[j].before = x /\ \A k \in Entries' : j <= k)
    BY <1>1, <1>4, <1>7, <2>2
  <2> QED BY <1>4, <1>9, <2>1, <2>2 DEF Was
<1>10. AuditTells'
  <2>1. ASSUME NEW n \in Entries', \A j \in Entries' : j <= n PROVE log'[n].after = row'
    <3>1. n = i
      BY <1>1, <1>4, <1>7, <2>1
    <3> QED BY <1>3, <1>4, <1>6, <3>1
  <2>2. ASSUME NEW n \in Entries
        PROVE  \E j \in Entries' :
                  \/ j < n /\ log'[j].after = log'[n].before
                  \/ (\A k \in Entries' : j <= k) /\ log'[j].before = log'[n].before
    <3>1. PICK j \in Entries : \/ j < n /\ log[j].after = log[n].before
                               \/ (\A k \in Entries : j <= k) /\ log[j].before = log[n].before
      BY DEF AuditInv, AuditTells
    <3> QED BY <1>1, <1>4, <1>7, <3>1
  <2>3. \E j \in Entries' :
           \/ j < i /\ log'[j].after = log'[i].before
           \/ (\A k \in Entries' : j <= k) /\ log'[j].before = log'[i].before
    <3>1. PICK j \in Entries' : log'[j].after = before[w] \/ (log'[j].before = before[w] /\ \A k \in Entries' : j <= k)
      BY <1>1, <1>9
    <3> QED
      <4>1. CASE Entries = {}
        BY <1>4, <1>6, <1>7, <4>1
      <4>2. CASE Entries # {}
        <5>1. CASE j = i /\ log'[j].after = before[w]
          <6>1. PICK k \in Entries : log'[k].after = before[w] \/ (log'[k].before = before[w] /\ \A l \in Entries' : k <= l)
            <7>1. CASE before[w] = row
              <8>1. PICK m \in Entries : \A l \in Entries : l <= m
                BY <1>7, <4>2, Greatest
              <8>2. log[m].after = row
                BY <8>1 DEF AuditInv, AuditTells
              <8> QED BY <1>4, <7>1, <8>1, <8>2
            <7>2. CASE before[w] # row
              BY <1>1, <1>4, <1>7, <7>2 DEF Was
            <7> QED BY <7>1, <7>2
          <6> QED BY <1>1, <1>4, <1>6, <1>7, <6>1
        <5>2. CASE ~(j = i /\ log'[j].after = before[w])
          BY <1>1, <1>4, <1>6, <1>7, <3>1, <5>2
        <5> QED BY <5>1, <5>2
      <4> QED BY <4>1, <4>2
  <2> QED BY <1>4, <2>1, <2>2, <2>3 DEF AuditTells
<1>11. AuditAtWork'
  <2>1. ASSUME NEW x, Was(x) PROVE Was(x)'
    BY <1>9, <2>1 DEF Was
  <2>2. auditPc'[w] = "idle" /\ editor' = None /\ w # None
    BY <1>1, AuditAssumption DEF CommitSave, AuditDone, AuditGoto, AuditInv, AuditTypeOK
  <2>3. ASSUME NEW v \in Workers \ {w}
        PROVE  /\ auditPc'[v] = auditPc[v] /\ writes'[v] = writes[v] /\ before'[v] = before[v]
               /\ auditPc[v] \notin {"logging", "committing"} /\ editor' # v
    BY <1>1, <2>2, AuditAssumption DEF CommitSave, AuditDone, AuditGoto, AuditInv, AuditTypeOK, AuditAtWork
  <2> QED BY <2>1, <2>2, <2>3 DEF AuditAtWork, AuditInv
<1> QED
  BY <1>5, <1>10, <1>11 DEF AuditInv

LEMMA AuditStep == AuditInv /\ [AuditNext]_auditVars => AuditInv'
<1> SUFFICES ASSUME AuditInv, [AuditNext]_auditVars PROVE AuditInv'
  OBVIOUS
<1>0. \A w \in Workers : w # None
  BY AuditAssumption
<1>1. ASSUME NEW w \in Workers, NEW x \in Contents \cup {None}, AskSave(w, x) PROVE AuditInv'
  <2>1. AuditTypeOK'
    BY <1>1 DEF AuditInv, AuditTypeOK, AskSave, AuditGoto, Entries
  <2> QED BY <1>0, <1>1, <2>1, AuditMove DEF AskSave, AuditGoto, AuditInv, AuditAtWork, AuditTypeOK
<1>2. ASSUME NEW w \in Workers, ReadBefore(w) PROVE AuditInv'
  <2>1. CASE row = None
    BY <1>2, <2>1, AuditDoneInv DEF ReadBefore
  <2>2. CASE row # None
    <3>1. AuditTypeOK'
      BY <1>2, <2>2 DEF AuditInv, AuditTypeOK, ReadBefore, AuditGoto, Entries
    <3>2. Was(row)
      BY DEF Was
    <3> QED BY <1>0, <1>2, <2>2, <3>1, <3>2, AuditMove DEF ReadBefore, AuditGoto, AuditInv, AuditAtWork, AuditTypeOK
  <2> QED BY <2>1, <2>2
<1>3. ASSUME NEW w \in Workers, WriteRow(w) PROVE AuditInv'
  <2>1. CASE row = None
    BY <1>3, <2>1, AuditDoneInv DEF WriteRow
  <2>2. CASE row # None
    <3>1. AuditTypeOK'
      BY <1>3, <2>2 DEF AuditInv, AuditTypeOK, WriteRow, AuditGoto, Entries
    <3>2. Was(row) /\ before'[w] # None /\ Was(before'[w])
      BY <1>3, <2>2 DEF Was, WriteRow, AuditInv, AuditAtWork, AuditTypeOK
    <3>3. auditPc'[w] = "logging" /\ editor' = w
      BY <1>3, <2>2 DEF WriteRow, AuditGoto, AuditInv, AuditTypeOK
    <3>4. UNCHANGED <<row, log, nextId>> /\ \A v \in Workers \ {w} :
               /\ auditPc'[v] = auditPc[v] /\ writes'[v] = writes[v] /\ before'[v] = before[v]
               /\ entryId'[v] = entryId[v] /\ (editor' = v <=> editor = v)
      BY <1>0, <1>3, <2>2 DEF WriteRow, AuditGoto, AuditInv, AuditTypeOK
    <3> QED BY <2>2, <3>1, <3>2, <3>3, <3>4, AuditMove
  <2> QED BY <2>1, <2>2
<1>4. ASSUME NEW w \in Workers, InsertAudit(w) PROVE AuditInv'
  <2>1. AuditTypeOK'
    <3>1. nextId \in 1 .. MaxEntries /\ nextId' = nextId + 1 /\ UNCHANGED <<row, editor, log, writes, before>>
      BY <1>4, AuditAssumption DEF AuditInv, AuditTypeOK, InsertAudit
    <3>2. entryId' \in [Workers -> 0 .. MaxEntries]
      BY <1>4, <3>1 DEF AuditInv, AuditTypeOK, InsertAudit
    <3>3. auditPc' \in [Workers -> {"idle", "reading", "writing", "logging", "committing"}]
      BY <1>4 DEF AuditInv, AuditTypeOK, InsertAudit, AuditGoto
    <3>4. nextId' \in 1 .. MaxEntries + 1 /\ \A i \in Entries : i \in Nat /\ i < nextId'
      BY <3>1, AuditAssumption DEF AuditInv, AuditTypeOK, Entries, Ids
    <3>5. Entries' = Entries
      BY <3>1 DEF Entries
    <3> QED BY <3>1, <3>2, <3>3, <3>4, <3>5 DEF AuditInv, AuditTypeOK
  <2>2. /\ auditPc'[w] = "committing" /\ editor' = w /\ entryId'[w] = nextId /\ nextId \in Ids
        /\ nextId' = nextId + 1 /\ before'[w] # None /\ Was(before'[w]) /\ row # None
        /\ \A i \in Entries : i < nextId
    BY <1>4 DEF InsertAudit, AuditGoto, AuditInv, AuditTypeOK, AuditAtWork, Ids
  <2>3. UNCHANGED <<row, log>> /\ \A v \in Workers \ {w} :
               /\ auditPc'[v] = auditPc[v] /\ writes'[v] = writes[v] /\ before'[v] = before[v]
               /\ entryId'[v] = entryId[v] /\ (editor' = v <=> editor = v)
    BY <1>4 DEF InsertAudit, AuditGoto, AuditInv, AuditTypeOK
  <2>4. entryId'[w] \in Ids /\ entryId'[w] < nextId' /\ \A i \in Entries : i < entryId'[w]
    BY <2>2 DEF Ids
  <2> QED BY <2>1, <2>2, <2>3, <2>4, AuditMove
<1>5. ASSUME NEW w \in Workers, CommitSave(w) PROVE AuditInv'
  BY <1>5, AuditCommit
<1>6. ASSUME NEW w \in Workers, AbortSave(w) PROVE AuditInv'
  BY <1>6, AuditDoneInv DEF AbortSave
<1>7. CASE UNCHANGED auditVars
  BY <1>7 DEF auditVars, auditReqs, AuditInv, AuditTypeOK, AuditAtWork, AuditTells, Was, Entries
<1> QED
  BY <1>1, <1>2, <1>3, <1>4, <1>5, <1>6, <1>7 DEF AuditNext

LEMMA AuditAlways == AuditSpec => []AuditInv
<1>1. AuditInit => AuditInv
  BY AuditAssumption DEF AuditInit, AuditInv, AuditTypeOK, AuditAtWork, AuditTells, Entries, Ids, Was
<1> QED
  BY <1>1, AuditStep, PTL DEF AuditSpec

\* "Records a change in the transaction that made it, so the two can never disagree": the log
\* ends with what the row holds and tells of nothing that was not, however saves overlap and fail.
THEOREM LogTells == AuditSpec => []AuditTells
<1>1. AuditInv => AuditTells
  BY DEF AuditInv
<1> QED
  BY <1>1, AuditAlways, PTL

-----------------------------------------------------------------------------
(* All of them. *)

\* Whatever part runs, a step is one of each part's or leaves it alone.
LEMMA ShopStep ==
    [ShopNext]_shopVars =>
        /\ [BagNext]_bagVars /\ [ProductNext]_productVars /\ [TextNext]_textVars
        /\ [PricingNext]_pricingVars /\ [ListNext]_listVars /\ [LimiterNext]_limiterVars
        /\ [AuditNext]_auditVars
<1>1. ASSUME NEW p \in Parts, Resting(p)
      PROVE  /\ p = "bags" => UNCHANGED bagVars
             /\ p = "products" => UNCHANGED productVars
             /\ p = "texts" => UNCHANGED textVars
             /\ p = "pricing" => UNCHANGED pricingVars
             /\ p = "lists" => UNCHANGED listVars
             /\ p = "limiter" => UNCHANGED limiterVars
             /\ p = "audit" => UNCHANGED auditVars
  BY <1>1 DEF Resting, Parts
<1>2. ASSUME UNCHANGED shopVars
      PROVE  /\ UNCHANGED bagVars /\ UNCHANGED productVars /\ UNCHANGED textVars
             /\ UNCHANGED pricingVars /\ UNCHANGED listVars /\ UNCHANGED limiterVars
             /\ UNCHANGED auditVars
  BY <1>2 DEF shopVars
<1>3. ASSUME ShopNext
      PROVE  /\ [BagNext]_bagVars /\ [ProductNext]_productVars /\ [TextNext]_textVars
             /\ [PricingNext]_pricingVars /\ [ListNext]_listVars /\ [LimiterNext]_limiterVars
             /\ [AuditNext]_auditVars
  BY <1>1, <1>3 DEF ShopNext, Parts
<1> QED
  BY <1>2, <1>3

\* So each part behaves as its own specification says.
LEMMA ShopParts ==
    ShopSpec => /\ BagSpec /\ ProductSpec /\ TextSpec /\ PricingSpec /\ ListSpec /\ LimiterSpec
                /\ AuditSpec
<1>1. ShopInit => /\ BagInit /\ ProductInit /\ TextInit /\ PricingInit /\ ListInit /\ LimiterInit
                  /\ AuditInit
  BY DEF ShopInit
<1> QED
  BY <1>1, ShopStep, PTL
  DEF ShopSpec, BagSpec, ProductSpec, TextSpec, PricingSpec, ListSpec, LimiterSpec, AuditSpec

\* Every table of these parts holds what its type says, and no row that refers to one that is gone.
THEOREM ShopTypesCorrect == ShopSpec => []ShopTypeOK
<1>1. /\ BagInv => BagTypeOK
      /\ TextInv => TextTypeOK
      /\ ListInv => ListTypeOK
      /\ LimiterInv => LimiterTypeOK
      /\ AuditInv => AuditTypeOK
  BY DEF BagInv, TextInv, ListInv, LimiterInv, AuditInv
<1>2. (/\ BagTypeOK /\ ProductTypeOK /\ TextTypeOK /\ PricingTypeOK /\ ListTypeOK /\ LimiterTypeOK
       /\ AuditTypeOK) => ShopTypeOK
  BY DEF ShopTypeOK
<1> QED
  BY <1>1, <1>2, ShopParts, BagAlways, ProductTypesCorrect, TextAlways, PricingTypesCorrect, ListAlways,
     LimiterAlways, AuditAlways, PTL
===============================================================================
