-------------------------------- MODULE Lists --------------------------------
(***************************************************************************)
(* Lists read page by page (listProducts and its cursors in                *)
(* httpapi/products.go; reviews, customers, orders and the audit log are   *)
(* paged alike).  A page is one statement: the rows that match and come    *)
(* after the cursor, in the order of a sort key and then the id, and one   *)
(* row more to see whether another page follows.  Between two pages staff  *)
(* change rows.                                                            *)
(***************************************************************************)
EXTENDS Requests, Integers, FiniteSets

CONSTANTS
    Rows,      \* ids, as numbers: they have an order
    SortKeys,  \* prices, times or names, as numbers
    PageSize

ASSUME ListsAssumption ==
    /\ Rows \subseteq Nat /\ IsFiniteSet(Rows) /\ SortKeys \subseteq Nat
    /\ PageSize \in Nat \ {0}
    /\ None \notin (SortKeys \X Rows)

VARIABLES
    sortKey,   \* sortKey[i]: what the list is sorted by
    matching,  \* rows that are there and meet the filters
    cursor,    \* next_cursor of the last page, None for the first one
    atEnd,     \* whether the last page had none
    seen,      \* history: seen[i]: how often the reader has got row i
    steady     \* history: rows that matched with one key since the first page

listVars == <<sortKey, matching, cursor, atEnd, seen, steady>>

ListInit ==
    /\ sortKey \in [Rows -> SortKeys]
    /\ matching \in SUBSET Rows
    /\ cursor = None
    /\ atEnd = FALSE
    /\ seen = [i \in Rows |-> 0]
    /\ steady = matching

\* ORDER BY key, id; the descending sorts are this one backwards.
Place(i) == <<sortKey[i], i>>
Before(a, b) == a[1] < b[1] \/ (a[1] = b[1] /\ a[2] < b[2])

\* The keyset condition: (key, id) > (cursor's key, cursor's id).
After(c) == {i \in matching : c = None \/ Before(c, Place(i))}

\* LIMIT: the first n of S.
First(S, n) == {i \in S : Cardinality({j \in S : Before(Place(j), Place(i))}) < n}

LastOf(S) == CHOOSE i \in S : \A j \in S : j = i \/ Before(Place(j), Place(i))

\* Mutant: the key loses its last digits on the way (a time cut to whole seconds, say).
CursorRounded(S) ==
    LET last == Place(LastOf(First(S, PageSize))) IN <<last[1] - (last[1] % 2), last[2]>>

\* next_cursor, of the last row the page shows; its key keeps its full precision.
CursorOf(S) == Place(LastOf(First(S, PageSize)))

ReadPage ==
    LET rows == After(cursor)
        page == First(rows, PageSize)
    IN  /\ ~atEnd
        /\ seen' = [i \in Rows |-> IF i \in page THEN seen[i] + 1 ELSE seen[i]]
        /\ IF Cardinality(First(rows, PageSize + 1)) > PageSize
           THEN cursor' = CursorOf(rows) /\ UNCHANGED atEnd
           ELSE atEnd' = TRUE /\ UNCHANGED cursor
        /\ UNCHANGED <<sortKey, matching, steady>>

\* A price, a name or a review's time changes; a creation time never does.
ChangeKey(i, k) ==
    /\ k # sortKey[i]
    /\ sortKey' = [sortKey EXCEPT ![i] = k]
    /\ steady' = steady \ {i}
    /\ UNCHANGED <<matching, cursor, atEnd, seen>>

\* A row is made or deleted, or meets the filters no longer or again.
ChangeMatch(i) ==
    /\ matching' = IF i \in matching THEN matching \ {i} ELSE matching \cup {i}
    /\ steady' = steady \ {i}
    /\ UNCHANGED <<sortKey, cursor, atEnd, seen>>

ListNext ==
    \/ ReadPage
    \/ \E i \in Rows : ChangeMatch(i) \/ \E k \in SortKeys : ChangeKey(i, k)

ListSpec == ListInit /\ [][ListNext]_listVars

-----------------------------------------------------------------------------
(* Properties. *)

ListTypeOK ==
    /\ sortKey \in [Rows -> SortKeys]
    /\ matching \subseteq Rows /\ steady \subseteq matching
    /\ cursor = None \/ cursor \in SortKeys \X Rows
    /\ atEnd \in BOOLEAN
    /\ seen \in [Rows -> Nat]

\* "So no row is skipped between pages" (products.go:274): a row nobody touches is shown at
\* most once, and by the last page it has been, however other rows move, come and go between
\* the pages and however many have the same key.
SeenOnce ==
    \A i \in steady :
        /\ seen[i] <= 1
        /\ atEnd => seen[i] = 1
=============================================================================
