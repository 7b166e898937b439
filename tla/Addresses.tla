----------------------------- MODULE Addresses -----------------------------
(***************************************************************************)
(* Web addresses of products and categories (uniqueSlug in                 *)
(* httpapi/catalog.go).  A save looks in both tables for the address it    *)
(* wants, without a lock, and writes later; the unique indexes of          *)
(* migration 00003 cover a table each.                                     *)
(***************************************************************************)
EXTENDS Requests, Integers

CONSTANTS
    ProductPages,   \* rows of products: a bound
    CategoryPages,  \* rows of categories: a bound
    Slugs,          \* web addresses
    MaxTries        \* how often a save looks: 5 in the code

ASSUME AddressesAssumption ==
    /\ ProductPages \cap CategoryPages = {}
    /\ None \notin Slugs \cup ProductPages \cup CategoryPages
    /\ MaxTries \in Nat \ {0}

VARIABLES
    slug,     \* slug[p]: the address of p as committed, None for no row
    slugPc,   \* slugPc[w]: what save w does next
    target,   \* target[w]: the row it saves
    creates,  \* creates[w]: whether it makes that row
    wish,     \* wish[w]: the address it looks for, then writes
    byHand,   \* byHand[w]: whether that was typed in, not made from the name
    looks,    \* looks[w]: how often it has looked
    unseen,   \* history: unseen[w]: rows that took what w wants after it looked
    excused   \* history: pairs of rows with one address of which one was unseen

slugReqs == <<slugPc, target, creates, wish, byHand, looks>>
slugPast == <<unseen, excused>>
slugVars == <<slug, slugReqs, slugPast>>

Pages == ProductPages \cup CategoryPages

SameTable(p, q) == p \in ProductPages <=> q \in ProductPages

SlugInit ==
    /\ slug = [p \in Pages |-> None]
    /\ slugPc = [w \in Workers |-> "idle"]
    /\ target = [w \in Workers |-> None]
    /\ creates = [w \in Workers |-> FALSE]
    /\ wish = [w \in Workers |-> None]
    /\ byHand = [w \in Workers |-> FALSE]
    /\ looks = [w \in Workers |-> 0]
    /\ unseen = [w \in Workers |-> {}]
    /\ excused = {}

SlugGoto(w, step) == slugPc' = [slugPc EXCEPT ![w] = step]

SlugDone(w) ==
    /\ SlugGoto(w, "idle")
    /\ target' = [target EXCEPT ![w] = None]
    /\ creates' = [creates EXCEPT ![w] = FALSE]
    /\ wish' = [wish EXCEPT ![w] = None]
    /\ byHand' = [byHand EXCEPT ![w] = FALSE]
    /\ looks' = [looks EXCEPT ![w] = 0]

\* What others have taken is of interest only while w has looked and not written.
Forgets(w) == unseen' = [unseen EXCEPT ![w] = {}]

\* A save of a row that is there, or of a new one, with an address or a name to make one from.
AskSlug(w, p, a, hand) ==
    /\ slugPc[w] = "idle"
    /\ slug[p] = None => \A x \in Workers : target[x] # p
    /\ SlugGoto(w, "looking")
    /\ target' = [target EXCEPT ![w] = p]
    /\ creates' = [creates EXCEPT ![w] = slug[p] = None]
    /\ wish' = [wish EXCEPT ![w] = a]
    /\ byHand' = [byHand EXCEPT ![w] = hand]
    /\ UNCHANGED <<slug, looks, slugPast>>

\* Mutant: a product is looked for among products, a category among categories.
SlugTakenThere(p, a) == \E q \in Pages \ {p} : slug[q] = a /\ SameTable(p, q)

\* SlugTaken: another row of either table has it.
SlugTaken(p, a) == \E q \in Pages \ {p} : slug[q] = a

\* uniqueSlug: one that was byHand and is taken is refused; one made from the name gets a
\* random end, which may be taken again.
Look(w) ==
    /\ slugPc[w] = "looking"
    /\ \/ /\ ~SlugTaken(target[w], wish[w])
          /\ SlugGoto(w, "writing")
          /\ byHand' = [byHand EXCEPT ![w] = FALSE]
          /\ looks' = [looks EXCEPT ![w] = 0]
          /\ UNCHANGED wish
       \/ /\ SlugTaken(target[w], wish[w]) /\ ~byHand[w] /\ looks[w] + 1 < MaxTries
          /\ looks' = [looks EXCEPT ![w] = looks[w] + 1]
          /\ \E a \in Slugs : wish' = [wish EXCEPT ![w] = a]
          /\ UNCHANGED <<slugPc, byHand>>
    /\ UNCHANGED <<slug, target, creates, slugPast>>

GiveUp(w) ==
    /\ slugPc[w] = "looking"
    /\ SlugTaken(target[w], wish[w])
    /\ byHand[w] \/ looks[w] + 1 = MaxTries
    /\ SlugDone(w)
    /\ UNCHANGED <<slug, slugPast>>

\* The write of an open transaction, and what others wait for: its row, the address it
\* leaves and the one it takes.
Saved(x) == slugPc[x] = "committing"
InTheWay(w, x) ==
    /\ x # w /\ Saved(x)
    /\ \/ target[x] = target[w]
       \/ SameTable(target[x], target[w]) /\ wish[w] \in {wish[x], slug[target[x]]}

\* CreateProduct, UpdateProduct, CreateCategory or UpdateCategory: a row that was deleted since is
\* not found, and an address another row of its table has by now fails the index.
WriteSlug(w) ==
    LET p == target[w] IN
    /\ slugPc[w] = "writing"
    /\ \A x \in Workers : ~InTheWay(w, x)
    /\ IF (slug[p] = None /\ ~creates[w]) \/ \E q \in Pages \ {p} : SameTable(p, q) /\ slug[q] = wish[w]
       THEN SlugDone(w) /\ Forgets(w)
       ELSE SlugGoto(w, "committing") /\ UNCHANGED <<target, creates, wish, byHand, looks, unseen>>
    /\ UNCHANGED <<slug, excused>>

CommitSlug(w) ==
    LET p == target[w]  a == wish[w] IN
    /\ slugPc[w] = "committing"
    /\ slug' = [slug EXCEPT ![p] = a]
    /\ excused' = {e \in excused : p \notin e} \cup {{p, q} : q \in {x \in unseen[w] : slug[x] = a}}
    /\ unseen' = [x \in Workers |->
           IF x = w THEN {}
           ELSE IF slugPc[x] \in {"writing", "committing"} /\ wish[x] = a THEN unseen[x] \cup {p}
           ELSE unseen[x]]
    /\ SlugDone(w)

\* A refusal, a client that goes away, a server that stops.
AbortSlug(w) ==
    /\ slugPc[w] # "idle"
    /\ SlugDone(w) /\ Forgets(w)
    /\ UNCHANGED <<slug, excused>>

\* DeleteProduct or DeleteCategory, which waits for a save that has written the row.
DeletePage(p) ==
    /\ slug[p] # None
    /\ \A x \in Workers : Saved(x) => target[x] # p
    /\ slug' = [slug EXCEPT ![p] = None]
    /\ excused' = {e \in excused : p \notin e}
    /\ UNCHANGED <<slugReqs, unseen>>

SlugNext ==
    \/ \E w \in Workers :
        \/ \E p \in Pages, a \in Slugs, hand \in BOOLEAN : AskSlug(w, p, a, hand)
        \/ Look(w) \/ GiveUp(w) \/ WriteSlug(w) \/ CommitSlug(w) \/ AbortSlug(w)
    \/ \E p \in Pages : DeletePage(p)

SlugSpec == SlugInit /\ [][SlugNext]_slugVars

-----------------------------------------------------------------------------
(* Properties. *)

SlugTypeOK ==
    /\ slug \in [Pages -> Slugs \cup {None}]
    /\ slugPc \in [Workers -> {"idle", "looking", "writing", "committing"}]
    /\ target \in [Workers -> Pages \cup {None}]
    /\ creates \in [Workers -> BOOLEAN]
    /\ wish \in [Workers -> Slugs \cup {None}]
    /\ byHand \in [Workers -> BOOLEAN]
    /\ looks \in [Workers -> 0 .. MaxTries]
    /\ unseen \in [Workers -> SUBSET Pages]
    /\ \A e \in excused : e \subseteq Pages

\* "Another product or category already uses this web address" (catalog.go:189): two rows have one
\* address only if they are a product and a category, and one of them was saved after the
\* other's save had looked and before it committed.
AddressesApart ==
    \A p, q \in Pages :
        p # q /\ slug[p] # None /\ slug[p] = slug[q] => ~SameTable(p, q) /\ {p, q} \in excused
=============================================================================
