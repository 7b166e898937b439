------------------------------ MODULE Reviews ------------------------------
(***************************************************************************)
(* The reviews of one product (httpapi/social.go) and the count and star   *)
(* total that a trigger keeps on its row (migration 00011).  The trigger   *)
(* counts as of the start of its statement, which may then wait for the    *)
(* product's row.                                                          *)
(***************************************************************************)
EXTENDS Requests, Integers, FiniteSetsExt

CONSTANTS
    Customers,    \* customers who may review it
    Ratings

ASSUME ReviewsAssumption ==
    /\ IsFiniteSet(Customers) /\ Ratings \subseteq 1 .. 5
    /\ None \notin Customers \cup Workers

VARIABLES
    stars,     \* stars[u]: the rating u gave, 0 for no review
    hidden,    \* users whose review the shop has hidden
    tally,     \* products.rating_count and rating_total
    reviewPc,  \* reviewPc[w]: what request w does next
    op,        \* op[w]: what it is asked to do
    user,      \* user[w]: whose review it changes
    mine,      \* mine[w]: that review as changed, not yet committed
    counted,   \* counted[w]: what its trigger counted
    passed,    \* history: requests that had counted when another one committed
    drift      \* history: whether the last to commit was one of those

reviewRows == <<stars, hidden, tally>>
reviewWork == <<op, user, mine, counted>>
past == <<passed, drift>>
reviewVars == <<reviewRows, reviewPc, reviewWork, past>>

Ops == [do : {"save"}, rating : Ratings] \cup [do : {"delete", "hide", "show"}, rating : {0}]
NoOp == [do |-> "none", rating |-> 0]
Row == [stars : Ratings \cup {0}, hidden : BOOLEAN]
NoRow == [stars |-> 0, hidden |-> FALSE]

\* count(*) and sum(rating) of the reviews on show when u's is as given.
CountOf(u, r) ==
    LET given == [x \in Customers |-> IF x = u THEN r.stars ELSE stars[x]]
        shown == {x \in Customers : given[x] # 0 /\ IF x = u THEN ~r.hidden ELSE x \notin hidden}
    IN  [count |-> Cardinality(shown), total |-> MapThenSumSet(LAMBDA x : given[x], shown)]

ReviewInit ==
    /\ stars = [u \in Customers |-> 0]
    /\ hidden = {}
    /\ tally = [count |-> 0, total |-> 0]
    /\ reviewPc = [w \in Workers |-> "idle"]
    /\ op = [w \in Workers |-> NoOp]
    /\ user = [w \in Workers |-> None]
    /\ mine = [w \in Workers |-> NoRow]
    /\ counted = [w \in Workers |-> [count |-> 0, total |-> 0]]
    /\ passed = {}
    /\ drift = FALSE

ReviewGoto(w, step) == reviewPc' = [reviewPc EXCEPT ![w] = step]

ReviewDone(w) ==
    /\ ReviewGoto(w, "idle")
    /\ op' = [op EXCEPT ![w] = NoOp]
    /\ user' = [user EXCEPT ![w] = None]
    /\ mine' = [mine EXCEPT ![w] = NoRow]
    /\ counted' = [counted EXCEPT ![w] = [count |-> 0, total |-> 0]]

\* SaveMyReview, DeleteMyReview or ModerateReview.
AskReview(w, o, u) ==
    /\ reviewPc[w] = "idle"
    /\ ReviewGoto(w, "changing")
    /\ op' = [op EXCEPT ![w] = o]
    /\ user' = [user EXCEPT ![w] = u]
    /\ UNCHANGED <<reviewRows, mine, counted, past>>

\* Mutant: writing a review again shows it.
ChangedShown(w) ==
    CASE op[w].do = "save"   -> [stars |-> op[w].rating, hidden |-> FALSE]
      [] op[w].do = "delete" -> NoRow
      [] OTHER -> [stars |-> stars[user[w]], hidden |-> op[w].do = "hide"]

\* The row after the statement: a customer's edit keeps hidden as it is.
Changed(w) ==
    CASE op[w].do = "save"   -> [stars |-> op[w].rating, hidden |-> user[w] \in hidden]
      [] op[w].do = "delete" -> NoRow
      [] OTHER -> [stars |-> stars[user[w]], hidden |-> op[w].do = "hide"]

\* Another open transaction has written this review.
RowTaken(w) ==
    \E x \in Workers \ {w} : user[x] = user[w] /\ reviewPc[x] \in {"counting", "locking", "committing"}

\* Mutant: the trigger is not there for deletions (AFTER INSERT OR UPDATE).
ChangeUncounted(w) ==
    /\ reviewPc[w] = "changing"
    /\ ~RowTaken(w)
    /\ IF op[w].do # "save" /\ stars[user[w]] = 0
       THEN ReviewDone(w)
       ELSE /\ mine' = [mine EXCEPT ![w] = Changed(w)]
            /\ ReviewGoto(w, IF op[w].do = "delete" THEN "committing" ELSE "counting")
            /\ counted' = [counted EXCEPT ![w] = tally]
            /\ UNCHANGED <<op, user>>
    /\ UNCHANGED <<reviewRows, past>>

\* The insert, update or delete; there is nothing to delete or hide without a review.
ChangeRow(w) ==
    /\ reviewPc[w] = "changing"
    /\ ~RowTaken(w)
    /\ IF op[w].do # "save" /\ stars[user[w]] = 0
       THEN ReviewDone(w)
       ELSE /\ mine' = [mine EXCEPT ![w] = Changed(w)]
            /\ ReviewGoto(w, "counting")
            /\ UNCHANGED <<op, user, counted>>
    /\ UNCHANGED <<reviewRows, past>>

\* reviews_tally begins: it sees what is committed, and its own change.
CountReviews(w) ==
    /\ reviewPc[w] = "counting"
    /\ counted' = [counted EXCEPT ![w] = CountOf(user[w], mine[w])]
    /\ passed' = passed \ {w}
    /\ ReviewGoto(w, "locking")
    /\ UNCHANGED <<reviewRows, op, user, mine, drift>>

\* It waits for the product's row; what it counted is not counted again.
LockProduct(w) ==
    /\ reviewPc[w] = "locking"
    /\ \A x \in Workers : reviewPc[x] # "committing"
    /\ ReviewGoto(w, "committing")
    /\ UNCHANGED <<reviewRows, reviewWork, past>>

CommitReview(w) ==
    /\ reviewPc[w] = "committing"
    /\ stars' = [stars EXCEPT ![user[w]] = mine[w].stars]
    /\ hidden' = IF mine[w].hidden THEN hidden \cup {user[w]} ELSE hidden \ {user[w]}
    /\ tally' = counted[w]
    /\ passed' = (passed \cup {x \in Workers : reviewPc[x] = "locking"}) \ {w}
    /\ drift' = (w \in passed)
    /\ ReviewDone(w)

\* The client goes away or the server stops.
AbortReview(w) ==
    /\ reviewPc[w] # "idle"
    /\ ReviewDone(w)
    /\ passed' = passed \ {w}
    /\ UNCHANGED <<reviewRows, drift>>

ReviewNext ==
    \/ \E w \in Workers, o \in Ops, u \in Customers : AskReview(w, o, u)
    \/ \E w \in Workers :
        ChangeRow(w) \/ CountReviews(w) \/ LockProduct(w) \/ CommitReview(w) \/ AbortReview(w)

ReviewSpec == ReviewInit /\ [][ReviewNext]_reviewVars

-----------------------------------------------------------------------------
(* Properties. *)

Shown == {u \in Customers : stars[u] # 0 /\ u \notin hidden}

\* Types, and that only a review that exists is hidden.
ReviewTypeOK ==
    /\ stars \in [Customers -> Ratings \cup {0}]
    /\ hidden \subseteq {u \in Customers : stars[u] # 0}
    /\ tally.count \in 0 .. Cardinality(Customers) /\ tally.total \in 0 .. 5 * Cardinality(Customers)
    /\ reviewPc \in [Workers -> {"idle", "changing", "counting", "locking", "committing"}]
    /\ op \in [Workers -> Ops \cup {NoOp}]
    /\ user \in [Workers -> Customers \cup {None}]
    /\ mine \in [Workers -> Row]
    /\ passed \subseteq Workers /\ drift \in BOOLEAN

\* The tally is the count and the star total of the reviews on show, unless the change that
\* committed last had counted before the one ahead of it committed; the next change that counts
\* after it repairs it.
TallyUnlessOverlapped ==
    ~drift => tally = [count |-> Cardinality(Shown), total |-> MapThenSumSet(LAMBDA u : stars[u], Shown)]

\* Only the shop shows a review it has hidden; its author may edit it at that very time.
HiddenStays ==
    [][\A u \in hidden : stars'[u] # 0 /\ u \notin hidden' =>
        \E w \in Workers : reviewPc[w] = "committing" /\ user[w] = u /\ op[w].do = "show"]_reviewVars

\* Each product keeps its visible reviews' count and star total (migration 00011).
TallyKept ==
    tally = [count |-> Cardinality(Shown), total |-> MapThenSumSet(LAMBDA u : stars[u], Shown)]
=============================================================================
