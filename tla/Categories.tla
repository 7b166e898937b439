----------------------------- MODULE Categories -----------------------------
(***************************************************************************)
(* The tree of categories and the products in it (httpapi/catalog.go).  A  *)
(* save looks at the tree before it writes and locks nothing of it in      *)
(* between; foreign keys keep what a row refers to.                        *)
(***************************************************************************)
EXTENDS Requests, Integers, FiniteSets

CONSTANTS
    Cats,      \* rows of categories: a bound
    Products

ASSUME CategoriesAssumption == IsFiniteSet(Cats) /\ None \notin Cats \cup Products \cup Workers

VARIABLES
    there,       \* the categories that exist
    parent,      \* parent[c]: categories.parent_id
    home,        \* home[p]: products.category_id
    categoryPc,  \* categoryPc[w]: what save w does next
    row,         \* row[w]: the category or product it saves, None for a category with no row yet
    under,       \* under[w]: the category to put it in
    stale        \* history: saves during which another category was moved after they looked

tables == <<there, parent, home>>
categoryReqs == <<categoryPc, row, under>>
categoryVars == <<tables, categoryReqs, stale>>

CategoryInit ==
    /\ there = {}
    /\ parent = [c \in Cats |-> None]
    /\ home = [p \in Products |-> None]
    /\ categoryPc = [w \in Workers |-> "idle"]
    /\ row = [w \in Workers |-> None]
    /\ under = [w \in Workers |-> None]
    /\ stale = {}

CategoryGoto(w, step) == categoryPc' = [categoryPc EXCEPT ![w] = step]

CategoryDone(w) ==
    /\ CategoryGoto(w, "idle")
    /\ row' = [row EXCEPT ![w] = None]
    /\ under' = [under EXCEPT ![w] = None]

\* CreateCategory (r is None), UpdateCategory or UpdateProduct.
SaveRow(w, r, c) ==
    /\ categoryPc[w] = "idle"
    /\ r \in there \cup Products \cup {None}
    /\ CategoryGoto(w, IF c = None THEN "writing" ELSE "finding")
    /\ row' = [row EXCEPT ![w] = r]
    /\ under' = [under EXCEPT ![w] = c]
    /\ stale' = stale \ {w}
    /\ UNCHANGED tables

\* CategoryByID of the category it goes under.
FindParent(w) ==
    /\ categoryPc[w] = "finding"
    /\ IF under[w] \notin there
       THEN CategoryDone(w)
       ELSE /\ CategoryGoto(w, IF row[w] \in Cats THEN "checking" ELSE "writing")
            /\ UNCHANGED <<row, under>>
    /\ UNCHANGED <<tables, stale>>

\* Mutant: only the category and the one right above it are looked at.
AboveOne(c) == {x \in there : x = c \/ (c \in there /\ x = parent[c])}

\* The category and those above it, as CategoryIsAncestor climbs.
Above(c) ==
    LET climb[n \in 0 .. Cardinality(Cats)] ==
            IF n = 0 THEN {c} \cap there
            ELSE climb[n - 1] \cup ({parent[x] : x \in climb[n - 1]} \ {None})
    IN  climb[Cardinality(Cats)]

InLoop(c) == parent[c] # None /\ c \in Above(parent[c])

\* The climb (UNION ALL) ends when it meets the category or the top; in a loop it has no end, and
\* the save waits until it is given up.
CheckLoop(w) ==
    /\ categoryPc[w] = "checking"
    /\ IF row[w] \in Above(under[w])
       THEN CategoryDone(w) /\ UNCHANGED stale
       ELSE /\ \A c \in Above(under[w]) : ~InLoop(c)
            /\ CategoryGoto(w, "writing")
            /\ stale' = stale \ {w}
            /\ UNCHANGED <<row, under>>
    /\ UNCHANGED tables

\* Rows and referenced rows that an open transaction has locked.
Writing(x) == categoryPc[x] = "committing"

\* Written, not yet committed.  The row must still be there, and so must its category.
WriteRow(w) ==
    /\ categoryPc[w] = "writing"
    /\ \A x \in Workers : Writing(x) => row[x] # row[w]
    /\ IF under[w] \notin there \cup {None} \/ (row[w] \in Cats /\ row[w] \notin there)
       THEN CategoryDone(w)
       ELSE /\ CategoryGoto(w, "committing")
            /\ \/ row[w] # None /\ UNCHANGED row
               \/ /\ row[w] = None
                  /\ \E c \in Cats \ there :
                        /\ \A x \in Workers : c \notin {row[x], under[x]}
                        /\ row' = [row EXCEPT ![w] = c]
            /\ UNCHANGED under
    /\ UNCHANGED <<tables, stale>>

CommitRow(w) ==
    /\ categoryPc[w] = "committing"
    /\ IF row[w] \in Products
       THEN home' = [home EXCEPT ![row[w]] = under[w]] /\ UNCHANGED <<there, parent, stale>>
       ELSE /\ there' = there \cup {row[w]}
            /\ parent' = [parent EXCEPT ![row[w]] = under[w]]
            /\ stale' = stale \cup {x \in Workers \ {w} : categoryPc[x] \in {"writing", "committing"}}
            /\ UNCHANGED home
    /\ CategoryDone(w)

\* The client goes away, the server stops, or the web address is taken.
AbortRow(w) ==
    /\ categoryPc[w] # "idle"
    /\ CategoryDone(w)
    /\ UNCHANGED <<tables, stale>>

\* Mutant: the rows under it are not asked (REFERENCES without RESTRICT).
UnusedAlways(c) == c \in Cats

\* No row refers to it (ON DELETE RESTRICT).
Unused(c) == (\A x \in there : parent[x] # c) /\ (\A p \in Products : home[p] # c)

\* DeleteCategory waits for a save that has written it or a row that refers to it.
DeleteCategory(c) ==
    /\ c \in there
    /\ \A w \in Workers : Writing(w) => c \notin {row[w], under[w]}
    /\ Unused(c)
    /\ there' = there \ {c}
    /\ parent' = [parent EXCEPT ![c] = None]
    /\ UNCHANGED <<home, categoryReqs, stale>>

CategoryNext ==
    \/ \E w \in Workers, r \in Cats \cup Products \cup {None}, c \in Cats \cup {None} : SaveRow(w, r, c)
    \/ \E w \in Workers :
        FindParent(w) \/ CheckLoop(w) \/ WriteRow(w) \/ CommitRow(w) \/ AbortRow(w)
    \/ \E c \in Cats : DeleteCategory(c)

CategorySpec == CategoryInit /\ [][CategoryNext]_categoryVars

-----------------------------------------------------------------------------
(* Properties. *)

\* Types, and that nothing refers to a category that is gone: neither a category nor a product,
\* whatever is deleted while a save runs.
CategoryTypeOK ==
    /\ there \subseteq Cats
    /\ parent \in [Cats -> there \cup {None}]
    /\ home \in [Products -> there \cup {None}]
    /\ categoryPc \in [Workers -> {"idle", "finding", "checking", "writing", "committing"}]
    /\ row \in [Workers -> Cats \cup Products \cup {None}]
    /\ under \in [Workers -> Cats \cup {None}]
    /\ stale \subseteq Workers

\* a is in every set of categories that holds c and whatever is above its members.
Over(a, c) ==
    \A S \in SUBSET there :
        c \in S /\ (\A x \in S : parent[x] \in S \cup {None}) => a \in S

\* A save about to commit puts a category below itself only when another category was moved
\* after it looked.
OnlyStaleLoops ==
    \A w \in Workers : Writing(w) /\ row[w] \in there /\ under[w] # None /\ Over(row[w], under[w])
        => w \in stale
=============================================================================
