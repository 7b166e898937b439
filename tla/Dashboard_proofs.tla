--------------------------- MODULE Dashboard_proofs ---------------------------
(* Machine-checked proofs about the other tables of the dashboard, and about all of them together. *)
EXTENDS MCDashboard, Office_proofs, Sums, TLAPS

-----------------------------------------------------------------------------
(* Categories. *)

\* A category that is gone is under none; one being written goes under one that is there.
GoneRefers == \A c \in Cats \ there : parent[c] = None
RowsWritten ==
    \A w \in Workers : Writing(w) =>
        row[w] \in Cats \cup Products /\ under[w] \in there \cup {None}

\* A save since whose look no other category was moved makes no loop.
Apart(w) == row[w] \in there /\ under[w] \in there => ~Over(row[w], under[w])
Looked == \A w \in Workers \ stale : categoryPc[w] \in {"writing", "committing"} => Apart(w)

CategoryInv == CategoryTypeOK /\ GoneRefers /\ RowsWritten /\ Looked

-----------------------------------------------------------------------------
(* What the climb finds. *)

Steps == Cardinality(Cats)

\* The climb from c in numbered steps.
Climbs(f, c) ==
    f = [n \in 0 .. Steps |-> IF n = 0 THEN {c} \cap there
                              ELSE f[n - 1] \cup ({parent[x] : x \in f[n - 1]} \ {None})]

\* The climb has a number of steps.
LEMMA StepCount == Steps \in Nat
BY CategoriesAssumption, FS_CardinalityType DEF Steps

\* There is such a climb: that of n steps gives that of one more.
LEMMA ClimbExists == ASSUME NEW c PROVE \E f : Climbs(f, c)
<1> DEFINE Next(S) == S \cup ({parent[x] : x \in S} \ {None})
           Part(f, n) == \A k \in 0 .. n : f[k] = IF k = 0 THEN {c} \cap there ELSE Next(f[k - 1])
           G == {n \in Nat : \E f : Part(f, n)}
<1>1. 0 \in G
  <2> DEFINE f == [k \in {0} |-> {c} \cap there]
  <2>1. Part(f, 0)
    OBVIOUS
  <2> QED BY <2>1
<1>2. ASSUME NEW n \in G PROVE n + 1 \in G
  <2>1. PICK f : Part(f, n)
    BY <1>2
  <2> DEFINE g == [k \in 0 .. n + 1 |-> IF k <= n THEN f[k] ELSE Next(f[n])]
  <2>2. \A k \in 0 .. n : g[k] = f[k]
    OBVIOUS
  <2>3. g[n + 1] = Next(f[n])
    OBVIOUS
  <2> HIDE DEF g, Next
  <2>4. ASSUME NEW k \in 0 .. n + 1 PROVE g[k] = IF k = 0 THEN {c} \cap there ELSE Next(g[k - 1])
    <3>1. CASE k = n + 1
      BY <2>2, <2>3, <3>1
    <3>2. CASE k = 0
      BY <2>1, <2>2, <3>2
    <3>3. CASE k \in 1 .. n
      <4>1. k - 1 \in 0 .. n /\ k \in 0 .. n /\ k # 0
        BY <3>3
      <4>2. f[k] = Next(f[k - 1])
        BY <2>1, <4>1
      <4> QED BY <2>2, <4>1, <4>2
    <3> QED BY <3>1, <3>2, <3>3
  <2>5. Part(g, n + 1)
    BY <2>4
  <2> HIDE DEF Part
  <2> QED BY <2>5
<1>3. Steps \in G
  <2> HIDE DEF G
  <2>1. G \in SUBSET Nat
    BY DEF G
  <2> QED BY <1>1, <1>2, <2>1, NatSetInduction, StepCount
<1>4. PICK f : Part(f, Steps)
  BY <1>3
<1> DEFINE g == [k \in 0 .. Steps |-> f[k]]
<1>5. Climbs(g, c)
  <2>1. ASSUME NEW k \in 0 .. Steps PROVE g[k] = IF k = 0 THEN {c} \cap there ELSE Next(g[k - 1])
    <3>1. g[k] = f[k] /\ (k # 0 => g[k - 1] = f[k - 1])
      BY StepCount
    <3> HIDE DEF g, Next
    <3> QED BY <1>4, <3>1
  <2>2. g = [k \in 0 .. Steps |-> g[k]]
    OBVIOUS
  <2> HIDE DEF g
  <2>3. g = [k \in 0 .. Steps |-> IF k = 0 THEN {c} \cap there ELSE Next(g[k - 1])]
    BY <2>1, <2>2
  <2> QED BY <2>3 DEF Climbs
<1> QED
  BY <1>5

\* Above(c) holds c, is all there, and is closed: the climb has as many steps as there are categories.
LEMMA AboveClosed ==
    ASSUME CategoryTypeOK, NEW c \in there
    PROVE  /\ Above(c) \subseteq there /\ c \in Above(c)
           /\ \A x \in Above(c) : parent[x] \in Above(c) \cup {None}
<1>1. PICK f : f = (CHOOSE g : Climbs(g, c))
  OBVIOUS
<1>2. Climbs(f, c) /\ Above(c) = f[Steps]
  <2>1. Climbs(f, c)
    BY <1>1, ClimbExists
  <2>2. Above(c) = f[Steps]
    BY <1>1 DEF Above, Climbs, Steps
  <2> QED BY <2>1, <2>2
<1> DEFINE Shut(S) == \A x \in S : parent[x] \in S \cup {None}
           Good(n) == /\ f[n] \subseteq there /\ c \in f[n]
                      /\ Cardinality(f[n]) >= n + 1 \/ Shut(f[n])
           G == {n \in Nat : n <= Steps => Good(n)}
<1>3. there \subseteq Cats /\ IsFiniteSet(there)
  BY CategoriesAssumption, FS_Subset DEF CategoryTypeOK
<1>4. 0 \in G
  <2>1. f[0] = {c}
    BY <1>2, StepCount DEF Climbs
  <2>2. Cardinality({c}) = 1
    BY FS_Singleton
  <2> QED BY <2>1, <2>2
<1>5. ASSUME NEW n \in G PROVE n + 1 \in G
  <2>1. SUFFICES ASSUME n + 1 <= Steps PROVE Good(n + 1)
    OBVIOUS
  <2>2. Good(n) /\ n \in Nat
    BY <2>1, StepCount
  <2>3. f[n + 1] = f[n] \cup ({parent[x] : x \in f[n]} \ {None})
    BY <1>2, <2>1, StepCount DEF Climbs
  <2>4. f[n + 1] \subseteq there /\ c \in f[n + 1]
    BY <1>3, <2>2, <2>3 DEF CategoryTypeOK
  <2>5. CASE Shut(f[n])
    <3>1. f[n + 1] = f[n]
      BY <2>3, <2>5
    <3> QED BY <2>4, <2>5, <3>1
  <2>6. CASE ~Shut(f[n])
    <3>1. PICK x \in f[n] : parent[x] \notin f[n] \cup {None}
      BY <2>6
    <3>2. parent[x] \in f[n + 1] /\ f[n] \subseteq f[n + 1]
      BY <2>3, <3>1
    <3> DEFINE S == f[n]
               T == f[n + 1]
    <3>3. IsFiniteSet(T) /\ IsFiniteSet(S) /\ Cardinality(S) \in Nat /\ Cardinality(T) \in Nat
      BY <1>3, <2>2, <2>4, FS_Subset, FS_CardinalityType
    <3>4. S \subseteq T /\ S # T
      BY <3>1, <3>2
    <3>5. Cardinality(S) < Cardinality(T)
      <4> HIDE DEF S, T
      <4> QED BY <3>3, <3>4, FS_Subset
    <3>6. Cardinality(S) >= n + 1
      BY <2>2, <2>6
    <3>7. Cardinality(T) >= (n + 1) + 1
      BY ONLY <2>2, <3>3, <3>5, <3>6
    <3> QED BY <2>4, <3>7
  <2> QED BY <2>5, <2>6
<1>6. Good(Steps)
  <2> HIDE DEF G
  <2>1. G \in SUBSET Nat
    BY DEF G
  <2>2. Steps \in G
    BY <1>4, <1>5, <2>1, NatSetInduction, StepCount
  <2> QED BY <2>2, StepCount DEF G
<1>7. ~(Cardinality(f[Steps]) >= Steps + 1)
  <2> DEFINE S == f[Steps]
  <2>1. S \subseteq Cats
    BY <1>3, <1>6
  <2>2. Cardinality(S) <= Steps /\ Cardinality(S) \in Nat
    <3> HIDE DEF S
    <3> QED BY <2>1, CategoriesAssumption, FS_Subset, FS_CardinalityType DEF Steps
  <2> HIDE DEF S
  <2>3. ~(Cardinality(S) >= Steps + 1)
    BY <2>2, StepCount
  <2> QED BY <2>3 DEF S
<1> QED
  BY <1>2, <1>6, <1>7

\* The climb of CategoryIsAncestor, which takes as many steps as there are categories, finds
\* what is in every set that holds c and whatever is above its members: no more and no less.
THEOREM AboveIsOver ==
    ASSUME CategoryTypeOK, NEW c \in there, NEW a PROVE a \in Above(c) <=> Over(a, c)
<1>1. ASSUME a \in Above(c), NEW S \in SUBSET there, c \in S, \A x \in S : parent[x] \in S \cup {None}
      PROVE  a \in S
  <2>1. PICK f : f = (CHOOSE g : Climbs(g, c))
    OBVIOUS
  <2>2. Climbs(f, c)
    BY <2>1, ClimbExists
  <2>3. Above(c) = f[Steps]
    BY <2>1 DEF Above, Climbs, Steps
  <2> DEFINE G == {n \in Nat : n <= Steps => f[n] \subseteq S}
  <2>4. 0 \in G
    BY <1>1, <2>2, StepCount DEF Climbs
  <2>5. ASSUME NEW n \in G PROVE n + 1 \in G
    <3>1. SUFFICES ASSUME n + 1 <= Steps PROVE f[n + 1] \subseteq S
      OBVIOUS
    <3>2. f[n] \subseteq S
      BY <3>1, StepCount
    <3>3. f[n + 1] = f[n] \cup ({parent[x] : x \in f[n]} \ {None})
      BY <2>2, <3>1, StepCount DEF Climbs
    <3> QED BY <1>1, <3>2, <3>3
  <2> HIDE DEF G
  <2>6. G \in SUBSET Nat
    BY DEF G
  <2>7. Steps \in G
    BY <2>4, <2>5, <2>6, NatSetInduction, StepCount
  <2> QED BY <1>1, <2>3, <2>7, StepCount DEF G
<1>2. ASSUME Over(a, c) PROVE a \in Above(c)
  BY <1>2, AboveClosed DEF Over
<1> QED
  BY <1>1, <1>2 DEF Over

\* What the check of a save makes sure of.
LEMMA CheckedApart ==
    ASSUME CategoryTypeOK, NEW w \in Workers, row[w] \notin Above(under[w])
    PROVE  Apart(w)
BY AboveIsOver DEF Apart

-----------------------------------------------------------------------------

LEMMA CategoryInitial == CategoryInit => CategoryInv
BY DEF CategoryInit, CategoryInv, CategoryTypeOK, GoneRefers, RowsWritten, Looked, Apart, Writing

\* A save that ends keeps its types and leaves the others' work.
LEMMA CategoryDoneRests ==
    ASSUME CategoryTypeOK, NEW w \in Workers, CategoryDone(w)
    PROVE  /\ (categoryPc \in [Workers -> {"idle", "finding", "checking", "writing", "committing"}])'
           /\ (row \in [Workers -> Cats \cup Products \cup {None}])'
           /\ (under \in [Workers -> Cats \cup {None}])'
           /\ categoryPc'[w] = "idle"
           /\ \A x \in Workers \ {w} :
                  categoryPc'[x] = categoryPc[x] /\ row'[x] = row[x] /\ under'[x] = under[x]
BY DEF CategoryTypeOK, CategoryDone, CategoryGoto

\* Nothing refers to a category that is gone, and none being written will.
LEMMA CategoryRefers ==
    ASSUME CategoryInv, CategoryNext PROVE CategoryTypeOK' /\ GoneRefers' /\ RowsWritten'
<1> DEFINE Goal == CategoryTypeOK' /\ GoneRefers' /\ RowsWritten'
<1>u. CategoryTypeOK /\ GoneRefers /\ RowsWritten
  BY DEF CategoryInv
<1>d. ASSUME NEW w \in Workers, CategoryDone(w), UNCHANGED <<tables, stale>> PROVE Goal
  <2>1. CategoryTypeOK'
    BY <1>u, <1>d, CategoryDoneRests DEF CategoryTypeOK, tables
  <2>2. GoneRefers'
    BY <1>u, <1>d DEF GoneRefers, tables
  <2>3. RowsWritten'
    BY <1>u, <1>d, CategoryDoneRests DEF RowsWritten, Writing, tables
  <2> QED BY <2>1, <2>2, <2>3
<1>1. ASSUME NEW w \in Workers, NEW r \in Cats \cup Products \cup {None}, NEW c \in Cats \cup {None},
             SaveRow(w, r, c) PROVE Goal
  <2>1. CategoryTypeOK'
    BY <1>u, <1>1 DEF CategoryTypeOK, SaveRow, CategoryGoto, tables
  <2>2. GoneRefers'
    BY <1>u, <1>1 DEF GoneRefers, SaveRow, tables
  <2>3. RowsWritten'
    BY <1>u, <1>1 DEF RowsWritten, Writing, SaveRow, CategoryGoto, CategoryTypeOK, tables
  <2> QED BY <2>1, <2>2, <2>3
<1>2. ASSUME NEW w \in Workers, FindParent(w) PROVE Goal
  <2>1. CASE under[w] \notin there
    BY <1>2, <1>d, <2>1 DEF FindParent
  <2>2. CASE under[w] \in there
    <3>1. UNCHANGED <<there, parent, home, stale, row, under>>
      BY <1>2, <2>2 DEF FindParent, tables
    <3>2. CategoryTypeOK' /\ GoneRefers' /\ RowsWritten'
      BY <1>u, <1>2, <2>2, <3>1
      DEF FindParent, CategoryGoto, CategoryTypeOK, GoneRefers, RowsWritten, Writing
    <3> QED BY <3>2
  <2> QED BY <2>1, <2>2
<1>3. ASSUME NEW w \in Workers, CheckLoop(w) PROVE Goal
  <2>1. CASE row[w] \in Above(under[w])
    BY <1>3, <1>d, <2>1 DEF CheckLoop
  <2>2. CASE row[w] \notin Above(under[w])
    <3>1. /\ UNCHANGED <<there, parent, home, row, under>> /\ stale' = stale \ {w}
          /\ CategoryGoto(w, "writing")
      BY <1>3, <2>2 DEF CheckLoop, tables
    <3>2. CategoryTypeOK' /\ GoneRefers' /\ RowsWritten'
      BY <1>u, <3>1 DEF CategoryGoto, CategoryTypeOK, GoneRefers, RowsWritten, Writing
    <3> QED BY <3>2
  <2> QED BY <2>1, <2>2
<1>4. ASSUME NEW w \in Workers, WriteRow(w) PROVE Goal
  <2> DEFINE gone == under[w] \notin there \cup {None} \/ (row[w] \in Cats /\ row[w] \notin there)
  <2>1. CASE gone
    BY <1>4, <1>d, <2>1 DEF WriteRow
  <2>2. CASE ~gone
    <3>1. /\ UNCHANGED <<there, parent, home, stale, under>> /\ CategoryGoto(w, "committing")
          /\ under[w] \in there \cup {None}
      BY <1>4, <2>2 DEF WriteRow, tables
    <3>2. PICK c \in Cats \cup Products : row' = [row EXCEPT ![w] = c]
      <4>1. CASE row[w] # None /\ UNCHANGED row
        <5>1. row[w] \in Cats \cup Products
          BY <1>u, <4>1 DEF CategoryTypeOK
        <5>2. row' = [row EXCEPT ![w] = row[w]]
          BY <1>u, <4>1 DEF CategoryTypeOK
        <5> QED BY <5>1, <5>2
      <4>2. CASE \E c \in Cats : row' = [row EXCEPT ![w] = c]
        BY <4>2
      <4> QED BY <1>4, <2>2, <4>1, <4>2 DEF WriteRow
    <3>3. CategoryTypeOK' /\ GoneRefers' /\ RowsWritten'
      BY <1>u, <3>1, <3>2 DEF CategoryGoto, CategoryTypeOK, GoneRefers, RowsWritten, Writing
    <3> QED BY <3>3
  <2> QED BY <2>1, <2>2
<1>5. ASSUME NEW w \in Workers, CommitRow(w) PROVE Goal
  <2>1. row[w] \in Cats \cup Products /\ under[w] \in there \cup {None} /\ CategoryDone(w)
    BY <1>u, <1>5 DEF CommitRow, RowsWritten, Writing
  <2>2. there \subseteq there' /\ there' \subseteq Cats /\ stale' \subseteq Workers
    BY <1>u, <1>5, <2>1 DEF CommitRow, CategoryTypeOK
  <2>3. (parent \in [Cats -> there \cup {None}])' /\ (home \in [Products -> there \cup {None}])'
    BY <1>u, <1>5, <2>1, <2>2 DEF CommitRow, CategoryTypeOK
  <2>4. CategoryTypeOK'
    BY <1>u, <2>1, <2>2, <2>3, CategoryDoneRests DEF CategoryTypeOK
  <2>5. GoneRefers'
    BY <1>u, <1>5, <2>1 DEF GoneRefers, CommitRow, CategoryTypeOK
  <2>6. RowsWritten'
    BY <1>u, <2>1, <2>2, CategoryDoneRests DEF RowsWritten, Writing
  <2> QED BY <2>4, <2>5, <2>6
<1>6. ASSUME NEW w \in Workers, AbortRow(w) PROVE Goal
  BY <1>6, <1>d DEF AbortRow
<1>7. ASSUME NEW c \in Cats, DeleteCategory(c) PROVE Goal
  <2>1. there' = there \ {c} /\ parent' = [parent EXCEPT ![c] = None] /\ UNCHANGED <<home, stale>>
        /\ UNCHANGED <<categoryPc, row, under>>
    BY <1>7 DEF DeleteCategory, categoryReqs
  <2>2. \A x \in Cats \ {c} : parent[x] # c
    BY <1>u, <1>7, CategoriesAssumption DEF DeleteCategory, Unused, GoneRefers
  <2>3. CategoryTypeOK'
    BY <1>u, <1>7, <2>1, <2>2 DEF CategoryTypeOK, DeleteCategory, Unused
  <2>4. GoneRefers'
    BY <1>u, <2>1 DEF GoneRefers, CategoryTypeOK
  <2>5. RowsWritten'
    BY <1>u, <1>7, <2>1 DEF RowsWritten, Writing, DeleteCategory
  <2> QED BY <2>3, <2>4, <2>5
<1> HIDE DEF Goal
<1>8. Goal
  BY <1>1, <1>2, <1>3, <1>4, <1>5, <1>6, <1>7 DEF CategoryNext
<1> QED
  BY <1>8 DEF Goal

\* A delete takes away no path: the category it takes is above none.
LEMMA DeleteKeepsApart ==
    ASSUME CategoryInv, NEW c \in Cats, DeleteCategory(c), NEW w \in Workers, Apart(w)
    PROVE  Apart(w)'
<1>1. there' = there \ {c} /\ parent' = [parent EXCEPT ![c] = None] /\ UNCHANGED <<row, under>>
      /\ parent \in [Cats -> there \cup {None}] /\ c \in there /\ there \subseteq Cats
      /\ \A x \in there : parent[x] # c
  BY DEF DeleteCategory, categoryReqs, CategoryInv, CategoryTypeOK, Unused
<1>2. SUFFICES ASSUME row[w] \in there \ {c}, under[w] \in there \ {c}
               PROVE  ~Over(row[w], under[w])'
  BY <1>1 DEF Apart
<1>3. PICK S \in SUBSET there :
          under[w] \in S /\ (\A x \in S : parent[x] \in S \cup {None}) /\ row[w] \notin S
  BY <1>2 DEF Apart, Over
<1>4. PICK T : T = S \ {c}
  OBVIOUS
<1>5. T \in SUBSET there' /\ under[w] \in T /\ row[w] \notin T
  BY <1>1, <1>2, <1>3, <1>4
<1>6. \A x \in T : parent'[x] \in T \cup {None}
  BY <1>1, <1>3, <1>4
<1> QED
  BY <1>1, <1>5, <1>6 DEF Over

\* A save whose path nobody changed is where it was.
LEMMA ApartSame ==
    ASSUME NEW w \in Workers, Apart(w), UNCHANGED <<there, parent>>,
           row'[w] = row[w], under'[w] = under[w]
    PROVE  Apart(w)'
BY DEF Apart, Over

\* A save that looked, and was not overtaken since, makes no loop.
LEMMA CategoryLooked == ASSUME CategoryInv, CategoryNext PROVE Looked'
<1> DEFINE At == {"writing", "committing"}
<1>u. CategoryTypeOK /\ RowsWritten /\ Looked
  BY DEF CategoryInv
<1>n. \A w \in Workers : under[w] = None \/ row[w] \notin Cats => Apart(w)
  BY <1>u, CategoriesAssumption DEF Apart, CategoryTypeOK
<1>d. ASSUME NEW w \in Workers, CategoryDone(w), UNCHANGED <<tables, stale>> PROVE Looked'
  <2>1. ASSUME NEW x \in Workers, x \notin stale', categoryPc'[x] \in At PROVE Apart(x)'
    <3>1. x # w /\ categoryPc[x] \in At /\ row'[x] = row[x] /\ under'[x] = under[x] /\ x \notin stale
          /\ UNCHANGED <<there, parent>>
      BY <1>u, <1>d, <2>1, CategoryDoneRests DEF tables
    <3>2. Apart(x)
      BY <1>u, <3>1 DEF Looked
    <3> QED BY <3>1, <3>2, ApartSame
  <2> QED BY <2>1 DEF Looked
<1>o. ASSUME NEW w \in Workers, UNCHANGED <<there, parent>>, Apart(w)',
             \A x \in Workers \ {w} : /\ categoryPc'[x] = categoryPc[x] /\ row'[x] = row[x]
                                      /\ under'[x] = under[x] /\ (x \in stale' <=> x \in stale)
      PROVE  Looked'
  <2>1. ASSUME NEW x \in Workers, x \notin stale', categoryPc'[x] \in At PROVE Apart(x)'
    <3>1. CASE x = w
      BY <1>o, <3>1
    <3>2. CASE x # w
      <4>1. categoryPc[x] \in At /\ x \notin stale
        BY <1>o, <2>1, <3>2
      <4>2. Apart(x)
        BY <1>u, <4>1 DEF Looked
      <4> QED BY <1>o, <3>2, <4>2, ApartSame
    <3> QED BY <3>1, <3>2
  <2> QED BY <2>1 DEF Looked
<1>e. \A w \in Workers : (under[w] = None \/ row[w] \notin there)' => Apart(w)'
  <2>1. None \notin there'
    BY CategoryRefers, CategoriesAssumption DEF CategoryTypeOK
  <2> QED BY <2>1 DEF Apart
<1>r. ASSUME NEW w \in Workers, UNCHANGED <<there, parent, stale, row, under>>, Apart(w) \/ categoryPc'[w] \notin At,
             \A x \in Workers \ {w} : categoryPc'[x] = categoryPc[x]
      PROVE  Looked'
  <2>1. ASSUME NEW x \in Workers, x \notin stale', categoryPc'[x] \in At PROVE Apart(x)'
    <3>1. Apart(x)
      BY <1>u, <1>r, <2>1 DEF Looked
    <3> QED BY <1>r, <3>1, ApartSame
  <2> QED BY <2>1 DEF Looked
<1>1. ASSUME NEW w \in Workers, NEW r \in Cats \cup Products \cup {None}, NEW c \in Cats \cup {None},
             SaveRow(w, r, c) PROVE Looked'
  <2>1. /\ UNCHANGED <<there, parent>>
        /\ \A x \in Workers \ {w} : /\ categoryPc'[x] = categoryPc[x] /\ row'[x] = row[x]
                                    /\ under'[x] = under[x] /\ (x \in stale' <=> x \in stale)
    BY <1>u, <1>1 DEF SaveRow, CategoryGoto, CategoryTypeOK, tables
  <2>2. CASE c = None
    <3>1. under'[w] = None
      BY <1>u, <1>1, <2>2 DEF SaveRow, CategoryTypeOK
    <3> QED BY <1>e, <1>o, <2>1, <3>1
  <2>3. CASE c # None
    <3>1. categoryPc'[w] = "finding"
      BY <1>u, <1>1, <2>3 DEF SaveRow, CategoryGoto, CategoryTypeOK
    <3>2. ASSUME NEW x \in Workers, x \notin stale', categoryPc'[x] \in At PROVE Apart(x)'
      <4>1. x # w /\ categoryPc[x] \in At /\ x \notin stale
        BY <2>1, <3>1, <3>2
      <4>2. Apart(x)
        BY <1>u, <4>1 DEF Looked
      <4> QED BY <2>1, <4>1, <4>2, ApartSame
    <3> QED BY <3>2 DEF Looked
  <2> QED BY <2>2, <2>3
<1>2. ASSUME NEW w \in Workers, FindParent(w) PROVE Looked'
  <2>1. CASE under[w] \notin there
    BY <1>2, <1>d, <2>1 DEF FindParent
  <2>2. CASE under[w] \in there
    <3>1. UNCHANGED <<there, parent, stale, row, under>> /\ \A x \in Workers \ {w} : categoryPc'[x] = categoryPc[x]
      BY <1>u, <1>2, <2>2 DEF FindParent, CategoryGoto, CategoryTypeOK, tables
    <3>2. Apart(w) \/ categoryPc'[w] \notin At
      BY <1>u, <1>n, <1>2, <2>2 DEF FindParent, CategoryGoto, CategoryTypeOK
    <3> QED BY <1>r, <3>1, <3>2
  <2> QED BY <2>1, <2>2
<1>3. ASSUME NEW w \in Workers, CheckLoop(w) PROVE Looked'
  <2>1. CASE row[w] \in Above(under[w])
    BY <1>3, <1>d, <2>1 DEF CheckLoop
  <2>2. CASE row[w] \notin Above(under[w])
    <3>1. /\ UNCHANGED <<there, parent, row, under>>
          /\ \A x \in Workers \ {w} : categoryPc'[x] = categoryPc[x] /\ (x \in stale' <=> x \in stale)
      BY <1>u, <1>3, <2>2 DEF CheckLoop, CategoryGoto, CategoryTypeOK, tables
    <3>2. Apart(w)'
      BY <1>u, <2>2, <3>1, CheckedApart, ApartSame
    <3> QED BY <1>o, <3>1, <3>2
  <2> QED BY <2>1, <2>2
<1>4. ASSUME NEW w \in Workers, WriteRow(w) PROVE Looked'
  <2> DEFINE gone == under[w] \notin there \cup {None} \/ (row[w] \in Cats /\ row[w] \notin there)
  <2>1. CASE gone
    BY <1>4, <1>d, <2>1 DEF WriteRow
  <2>2. CASE ~gone
    <3>1. /\ UNCHANGED <<there, parent, stale, under>>
          /\ \A x \in Workers \ {w} : categoryPc'[x] = categoryPc[x]
          /\ categoryPc[w] = "writing"
      BY <1>u, <1>4, <2>2 DEF WriteRow, CategoryGoto, CategoryTypeOK, tables
    <3>2. CASE UNCHANGED row
      <4>1. ASSUME NEW x \in Workers, x \notin stale', categoryPc'[x] \in At PROVE Apart(x)'
        <5>1. Apart(x)
          BY <1>u, <3>1, <4>1 DEF Looked
        <5> QED BY <3>1, <3>2, <5>1, ApartSame
      <4> QED BY <4>1 DEF Looked
    <3>3. CASE \E c \in Cats \ there : row' = [row EXCEPT ![w] = c]
      <4>1. row'[w] \notin there' /\ \A x \in Workers \ {w} : row'[x] = row[x]
        BY <1>u, <3>1, <3>3 DEF CategoryTypeOK
      <4>2. Apart(w)'
        BY <1>e, <4>1
      <4> QED BY <1>o, <3>1, <4>1, <4>2
    <3> QED BY <1>4, <2>2, <3>2, <3>3 DEF WriteRow
  <2> QED BY <2>1, <2>2
<1>5. ASSUME NEW w \in Workers, CommitRow(w) PROVE Looked'
  <2>1. CASE row[w] \in Products
    <3>1. UNCHANGED <<there, parent, stale>> /\ CategoryDone(w)
      BY <1>5, <2>1 DEF CommitRow
    <3>2. ASSUME NEW x \in Workers, x \notin stale', categoryPc'[x] \in At PROVE Apart(x)'
      <4>1. x # w /\ categoryPc[x] \in At /\ row'[x] = row[x] /\ under'[x] = under[x] /\ x \notin stale
        BY <1>u, <3>1, <3>2, CategoryDoneRests
      <4>2. Apart(x)
        BY <1>u, <4>1 DEF Looked
      <4> QED BY <3>1, <4>1, <4>2, ApartSame
    <3> QED BY <3>2 DEF Looked
  <2>2. CASE row[w] \notin Products
    <3>1. /\ stale' = stale \cup {x \in Workers \ {w} : categoryPc[x] \in At} /\ CategoryDone(w)
      BY <1>5, <2>2 DEF CommitRow
    <3>2. ASSUME NEW x \in Workers, x \notin stale', categoryPc'[x] \in At PROVE FALSE
      BY <1>u, <3>1, <3>2, CategoryDoneRests
    <3> QED BY <3>2 DEF Looked
  <2> QED BY <2>1, <2>2
<1>6. ASSUME NEW w \in Workers, AbortRow(w) PROVE Looked'
  BY <1>6, <1>d DEF AbortRow
<1>7. ASSUME NEW c \in Cats, DeleteCategory(c) PROVE Looked'
  BY <1>u, <1>7, DeleteKeepsApart DEF Looked, DeleteCategory, categoryReqs
<1> QED
  BY <1>1, <1>2, <1>3, <1>4, <1>5, <1>6, <1>7 DEF CategoryNext

LEMMA CategoryStep == CategoryInv /\ [CategoryNext]_categoryVars => CategoryInv'
<1>1. ASSUME CategoryInv, CategoryNext PROVE CategoryInv'
  BY <1>1, CategoryRefers, CategoryLooked DEF CategoryInv
<1>2. ASSUME CategoryInv, UNCHANGED categoryVars PROVE CategoryInv'
  BY <1>2 DEF CategoryInv, CategoryTypeOK, GoneRefers, RowsWritten, Writing, Looked, Apart, Over,
              categoryVars, tables, categoryReqs
<1> QED
  BY <1>1, <1>2

LEMMA CategoryAlways == CategorySpec => []CategoryInv
BY CategoryInitial, CategoryStep, PTL DEF CategorySpec

\* Nothing refers to a category that is gone.
THEOREM CategoryTypesCorrect == CategorySpec => []CategoryTypeOK
<1>1. CategoryInv => CategoryTypeOK
  BY DEF CategoryInv
<1> QED
  BY <1>1, CategoryAlways, PTL

\* A save closes a loop only when another category was moved after it looked.
THEOREM LoopsOnlyStale == CategorySpec => []OnlyStaleLoops
<1>1. ASSUME CategoryInv PROVE OnlyStaleLoops
  BY <1>1 DEF CategoryInv, Looked, RowsWritten, Apart, Writing, OnlyStaleLoops
<1> QED
  BY <1>1, CategoryAlways, PTL

-----------------------------------------------------------------------------
(* Web addresses. *)

\* A save at work has a row and an address.
Wants(w) == slugPc[w] # "idle" => target[w] \in Pages /\ wish[w] \in Slugs

\* Rows that have the address w has looked for and found free took it unseen.
TakenUnseen(w) ==
    slugPc[w] \in {"writing", "committing"} =>
        \A q \in Pages \ {target[w]} : slug[q] = wish[w] => q \in unseen[w]

\* An address written is no other row's of that table, and no other open save's.
AloneInTable(w) ==
    Saved(w) =>
        /\ \A q \in Pages \ {target[w]} : SameTable(target[w], q) => slug[q] # wish[w]
        /\ \A x \in Workers \ {w} : Saved(x) =>
              target[x] # target[w] /\ (SameTable(target[x], target[w]) => wish[x] # wish[w])

SlugInv ==
    /\ SlugTypeOK /\ AddressesApart
    /\ \A w \in Workers : Wants(w) /\ TakenUnseen(w) /\ AloneInTable(w)

LEMMA SlugStart == SlugInit => SlugInv
<1> SUFFICES ASSUME SlugInit PROVE SlugInv
  OBVIOUS
<1>1. SlugTypeOK
  BY AddressesAssumption DEF SlugInit, SlugTypeOK
<1> QED
  BY <1>1, AddressesAssumption DEF SlugInit, SlugInv, AddressesApart, Wants, TakenUnseen, AloneInTable, Saved

\* A step of w that writes no row, after which w is where it should be and has no write open.
LEMMA SlugQuiet ==
    ASSUME SlugInv, NEW w \in Workers, SlugTypeOK', UNCHANGED <<slug, excused>>,
           \A x \in Workers \ {w} : /\ slugPc'[x] = slugPc[x] /\ target'[x] = target[x]
                                    /\ wish'[x] = wish[x] /\ unseen'[x] = unseen[x],
           slugPc'[w] # "committing", Wants(w)', TakenUnseen(w)'
    PROVE  SlugInv'
<1>1. AddressesApart'
  BY DEF SlugInv, AddressesApart
<1>2. ASSUME NEW x \in Workers PROVE Wants(x)' /\ TakenUnseen(x)' /\ AloneInTable(x)'
  <2>0. Wants(x) /\ TakenUnseen(x) /\ AloneInTable(x)
    BY DEF SlugInv
  <2>1. CASE x = w
    BY <2>1 DEF AloneInTable, Saved
  <2>2. CASE x # w
    BY <2>0, <2>2 DEF Wants, TakenUnseen, AloneInTable, Saved
  <2> QED BY <2>1, <2>2
<1> QED
  BY <1>1, <1>2 DEF SlugInv

\* A save that ends without a change of the rows.
LEMMA SlugEnds ==
    ASSUME SlugInv, NEW w \in Workers, SlugDone(w), UNCHANGED <<slug, excused>>,
           unseen' = unseen \/ Forgets(w)
    PROVE  SlugInv'
<1>1. /\ slugPc'[w] = "idle"
      /\ \A x \in Workers \ {w} : /\ slugPc'[x] = slugPc[x] /\ target'[x] = target[x]
                                  /\ wish'[x] = wish[x] /\ unseen'[x] = unseen[x]
  BY DEF SlugInv, SlugTypeOK, SlugDone, SlugGoto, Forgets
<1>2. SlugTypeOK'
  <2>1. 0 \in 0 .. MaxTries
    BY AddressesAssumption
  <2>2. unseen' \in [Workers -> SUBSET Pages]
    BY DEF SlugInv, SlugTypeOK, Forgets
  <2> QED BY <2>1, <2>2 DEF SlugInv, SlugTypeOK, SlugDone, SlugGoto
<1>3. Wants(w)' /\ TakenUnseen(w)'
  BY <1>1 DEF Wants, TakenUnseen
<1> QED
  BY <1>1, <1>2, <1>3, SlugQuiet

\* A save that starts has looked at nothing.
LEMMA SlugAsked ==
    ASSUME SlugInv, NEW w \in Workers, NEW p \in Pages, NEW a \in Slugs, NEW hand \in BOOLEAN, AskSlug(w, p, a, hand)
    PROVE  SlugInv'
<1>1. /\ slugPc'[w] = "looking" /\ target'[w] = p /\ wish'[w] = a /\ UNCHANGED <<slug, excused>>
      /\ \A x \in Workers \ {w} : /\ slugPc'[x] = slugPc[x] /\ target'[x] = target[x]
                                  /\ wish'[x] = wish[x] /\ unseen'[x] = unseen[x]
  BY DEF SlugInv, SlugTypeOK, AskSlug, SlugGoto, slugPast
<1>2. SlugTypeOK'
  BY DEF SlugInv, SlugTypeOK, AskSlug, SlugGoto, slugPast
<1>3. Wants(w)' /\ TakenUnseen(w)'
  BY <1>1 DEF Wants, TakenUnseen
<1> QED
  BY <1>1, <1>2, <1>3, SlugQuiet

\* A look finds the address free or goes on to the next.
LEMMA SlugLooked == ASSUME SlugInv, NEW w \in Workers, Look(w) PROVE SlugInv'
<1>0. slugPc[w] = "looking" /\ target[w] \in Pages /\ wish[w] \in Slugs /\ UNCHANGED <<slug, target, creates, unseen, excused>>
  BY DEF Look, SlugInv, Wants, slugPast
<1>1. CASE /\ ~SlugTaken(target[w], wish[w]) /\ SlugGoto(w, "writing")
           /\ byHand' = [byHand EXCEPT ![w] = FALSE] /\ looks' = [looks EXCEPT ![w] = 0] /\ UNCHANGED wish
  <2>1. /\ slugPc'[w] = "writing"
        /\ \A x \in Workers \ {w} : /\ slugPc'[x] = slugPc[x] /\ target'[x] = target[x]
                                    /\ wish'[x] = wish[x] /\ unseen'[x] = unseen[x]
    BY <1>0, <1>1 DEF SlugInv, SlugTypeOK, SlugGoto
  <2>2. SlugTypeOK'
    <3>1. 0 \in 0 .. MaxTries
      BY AddressesAssumption
    <3> QED BY <1>0, <1>1, <3>1 DEF SlugInv, SlugTypeOK, SlugGoto
  <2>3. Wants(w)' /\ TakenUnseen(w)'
    BY <1>0, <1>1 DEF Wants, TakenUnseen, SlugTaken
  <2> QED BY <1>0, <2>1, <2>2, <2>3, SlugQuiet
<1>2. CASE /\ SlugTaken(target[w], wish[w]) /\ ~byHand[w] /\ looks[w] + 1 < MaxTries
           /\ looks' = [looks EXCEPT ![w] = looks[w] + 1]
           /\ \E a \in Slugs : wish' = [wish EXCEPT ![w] = a]
           /\ UNCHANGED <<slugPc, byHand>>
  <2>0. PICK a \in Slugs : wish' = [wish EXCEPT ![w] = a]
    BY <1>2
  <2>1. /\ slugPc'[w] = "looking" /\ wish'[w] \in Slugs
        /\ \A x \in Workers \ {w} : /\ slugPc'[x] = slugPc[x] /\ target'[x] = target[x]
                                    /\ wish'[x] = wish[x] /\ unseen'[x] = unseen[x]
    BY <1>0, <1>2, <2>0 DEF SlugInv, SlugTypeOK
  <2>2. SlugTypeOK'
    <3>1. looks[w] + 1 \in 0 .. MaxTries
      BY <1>2, AddressesAssumption DEF SlugInv, SlugTypeOK
    <3> QED BY <1>0, <1>2, <2>0, <3>1 DEF SlugInv, SlugTypeOK
  <2>3. Wants(w)' /\ TakenUnseen(w)'
    BY <1>0, <2>1 DEF Wants, TakenUnseen
  <2> QED BY <1>0, <2>1, <2>2, <2>3, SlugQuiet
<1> QED
  BY <1>1, <1>2 DEF Look

\* The unique index lets one row of a table have an address.
LEMMA SlugWritten == ASSUME SlugInv, NEW w \in Workers, WriteSlug(w) PROVE SlugInv'
<1> DEFINE p == target[w]
<1>0. /\ slugPc[w] = "writing" /\ p \in Pages /\ wish[w] \in Slugs /\ UNCHANGED <<slug, excused>>
      /\ \A x \in Workers : ~InTheWay(w, x)
  BY DEF WriteSlug, SlugInv, Wants
<1>1. CASE SlugDone(w) /\ Forgets(w)
  BY <1>0, <1>1, SlugEnds
<1>2. CASE ~(SlugDone(w) /\ Forgets(w))
  <2>1. /\ \A q \in Pages \ {p} : SameTable(p, q) => slug[q] # wish[w]
        /\ slugPc' = [slugPc EXCEPT ![w] = "committing"] /\ UNCHANGED <<target, creates, wish, byHand, looks, unseen>>
    BY <1>2 DEF WriteSlug, SlugGoto
  <2>2. SlugTypeOK' /\ AddressesApart'
    BY <1>0, <2>1 DEF SlugInv, SlugTypeOK, AddressesApart
  <2>3. slugPc'[w] = "committing" /\ \A x \in Workers \ {w} : slugPc'[x] = slugPc[x]
    BY <2>1 DEF SlugInv, SlugTypeOK
  <2>4. \A x \in Workers \ {w} : Saved(x) =>
            target[x] # target[w] /\ (SameTable(target[x], target[w]) => wish[x] # wish[w])
    BY <1>0 DEF InTheWay
  <2>5. ASSUME NEW x \in Workers PROVE Wants(x)' /\ TakenUnseen(x)' /\ AloneInTable(x)'
    <3>0. Wants(x) /\ TakenUnseen(x) /\ AloneInTable(x)
      BY DEF SlugInv
    <3>1. CASE x = w
      BY <1>0, <2>1, <2>3, <2>4, <3>0, <3>1 DEF Wants, TakenUnseen, AloneInTable, Saved
    <3>2. CASE x # w
      BY <1>0, <2>1, <2>3, <2>4, <3>0, <3>2 DEF Wants, TakenUnseen, AloneInTable, Saved, SameTable
    <3> QED BY <3>1, <3>2
  <2> QED BY <2>2, <2>5 DEF SlugInv
<1> QED
  BY <1>1, <1>2

\* A commit takes an address from under those that had looked before.
LEMMA SlugCommitted == ASSUME SlugInv, NEW w \in Workers, CommitSlug(w) PROVE SlugInv'
<1> DEFINE p == target[w]
           a == wish[w]
<1>0. /\ slugPc[w] = "committing" /\ p \in Pages /\ a \in Slugs /\ SlugDone(w) /\ Saved(w)
      /\ slug' = [slug EXCEPT ![p] = a]
      /\ excused' = {e \in excused : p \notin e} \cup {{p, q} : q \in {x \in unseen[w] : slug[x] = a}}
      /\ TakenUnseen(w) /\ AloneInTable(w)
  BY DEF CommitSlug, SlugInv, Wants, Saved
<1>1. /\ slugPc'[w] = "idle"
      /\ \A x \in Workers \ {w} : slugPc'[x] = slugPc[x] /\ target'[x] = target[x] /\ wish'[x] = wish[x]
  BY <1>0 DEF SlugInv, SlugTypeOK, SlugDone, SlugGoto
<1>2. /\ unseen' \in [Workers -> SUBSET Pages]
      /\ \A x \in Workers \ {w} : slugPc[x] \in {"writing", "committing"} =>
            unseen[x] \subseteq unseen'[x] /\ (wish[x] = a => p \in unseen'[x])
  BY <1>0 DEF CommitSlug, SlugInv, SlugTypeOK
<1>3. SlugTypeOK'
  <2>1. 0 \in 0 .. MaxTries
    BY AddressesAssumption
  <2>2. slug' \in [Pages -> Slugs \cup {None}]
    BY <1>0 DEF SlugInv, SlugTypeOK
  <2>3. \A e \in excused' : e \subseteq Pages
    BY <1>0 DEF SlugInv, SlugTypeOK
  <2> QED BY <1>0, <1>2, <2>1, <2>2, <2>3 DEF SlugInv, SlugTypeOK, SlugDone, SlugGoto
<1>4. \A q \in Pages : slug'[q] = IF q = p THEN a ELSE slug[q]
  BY <1>0 DEF SlugInv, SlugTypeOK
<1>5. ASSUME NEW q \in Pages, NEW r \in Pages, q # r, slug'[q] # None, slug'[q] = slug'[r]
      PROVE  ~SameTable(q, r) /\ {q, r} \in excused'
  <2>1. CASE q # p /\ r # p
    <3>1. ~SameTable(q, r) /\ {q, r} \in excused
      BY <1>4, <1>5, <2>1 DEF SlugInv, AddressesApart
    <3>2. p \notin {q, r}
      BY <2>1
    <3> QED BY <1>0, <3>1, <3>2
  <2>2. ASSUME NEW s \in Pages \ {p}, slug[s] = a
        PROVE  ~SameTable(p, s) /\ {p, s} \in excused'
    <3>1. s \in unseen[w]
      BY <1>0, <2>2 DEF TakenUnseen
    <3>2. ~SameTable(p, s)
      BY <1>0, <2>2 DEF AloneInTable
    <3> QED BY <1>0, <2>2, <3>1, <3>2
  <2>3. CASE q = p
    BY <1>4, <1>5, <2>2, <2>3
  <2>4. CASE r = p
    <3>1. {q, r} = {p, q}
      BY <2>4
    <3>2. SameTable(q, r) <=> SameTable(p, q)
      BY <2>4 DEF SameTable
    <3> HIDE DEF p, a
    <3> QED BY <1>4, <1>5, <2>2, <2>4, <3>1, <3>2
  <2> QED BY <2>1, <2>3, <2>4
<1>6. ASSUME NEW x \in Workers PROVE Wants(x)' /\ TakenUnseen(x)' /\ AloneInTable(x)'
  <2>0. Wants(x) /\ TakenUnseen(x) /\ AloneInTable(x)
    BY DEF SlugInv
  <2>1. CASE x = w
    BY <1>1, <2>1 DEF Wants, TakenUnseen, AloneInTable, Saved
  <2>2. CASE x # w
    <3>1. Wants(x)'
      BY <1>1, <2>0, <2>2 DEF Wants
    <3>2. TakenUnseen(x)'
      BY <1>1, <1>2, <1>4, <2>0, <2>2 DEF TakenUnseen
    <3>3. AloneInTable(x)'
      <4>1. Saved(x) => target[x] # p /\ (SameTable(target[x], p) => wish[x] # a)
        BY <1>0, <2>2 DEF AloneInTable
      <4>2. ASSUME Saved(x), NEW q \in Pages \ {target[x]}, SameTable(target[x], q) PROVE slug'[q] # wish[x]
        BY <1>4, <2>0, <4>1, <4>2 DEF AloneInTable
      <4> QED BY <1>1, <2>0, <2>2, <4>2 DEF AloneInTable, Saved
    <3> QED BY <3>1, <3>2, <3>3
  <2> QED BY <2>1, <2>2
<1> QED
  BY <1>3, <1>5, <1>6 DEF SlugInv, AddressesApart

\* A row that goes leaves its address to others.
LEMMA PageDeleted == ASSUME SlugInv, NEW p \in Pages, DeletePage(p) PROVE SlugInv'
<1>1. /\ \A q \in Pages : slug'[q] = IF q = p THEN None ELSE slug[q]
      /\ UNCHANGED <<slugPc, target, creates, wish, byHand, looks, unseen>>
      /\ excused' = {e \in excused : p \notin e}
  BY DEF DeletePage, SlugInv, SlugTypeOK, slugReqs
<1>2. SlugTypeOK'
  BY <1>1 DEF SlugInv, SlugTypeOK, DeletePage
<1>3. AddressesApart'
  <2> SUFFICES ASSUME NEW q \in Pages, NEW r \in Pages, q # r, slug'[q] # None, slug'[q] = slug'[r]
               PROVE  ~SameTable(q, r) /\ {q, r} \in excused'
    BY DEF AddressesApart
  <2>1. q # p /\ r # p
    BY <1>1
  <2>2. ~SameTable(q, r) /\ {q, r} \in excused
    BY <1>1, <2>1 DEF SlugInv, AddressesApart
  <2>3. p \notin {q, r}
    BY <2>1
  <2> QED BY <1>1, <2>2, <2>3
<1>4. ASSUME NEW x \in Workers PROVE Wants(x)' /\ TakenUnseen(x)' /\ AloneInTable(x)'
  <2>0. Wants(x) /\ TakenUnseen(x) /\ AloneInTable(x)
    BY DEF SlugInv
  <2>1. slugPc[x] # "idle" => wish[x] # None
    BY <2>0, AddressesAssumption DEF Wants
  <2>2. Wants(x)'
    BY <1>1, <2>0 DEF Wants
  <2>3. TakenUnseen(x)'
    BY <1>1, <2>0, <2>1 DEF TakenUnseen
  <2>4. AloneInTable(x)'
    BY <1>1, <2>0, <2>1 DEF AloneInTable, Saved
  <2> QED BY <2>2, <2>3, <2>4
<1> QED
  BY <1>2, <1>3, <1>4 DEF SlugInv

LEMMA SlugAlways == SlugSpec => []SlugInv
<1>1. SlugInv /\ [SlugNext]_slugVars => SlugInv'
  <2> SUFFICES ASSUME SlugInv, [SlugNext]_slugVars PROVE SlugInv'
    OBVIOUS
  <2>1. CASE SlugNext
    <3>1. ASSUME NEW w \in Workers, GiveUp(w) PROVE SlugInv'
      BY <3>1, SlugEnds DEF GiveUp, slugPast
    <3>2. ASSUME NEW w \in Workers, AbortSlug(w) PROVE SlugInv'
      BY <3>2, SlugEnds DEF AbortSlug
    <3> QED BY <2>1, <3>1, <3>2, SlugAsked, SlugLooked, SlugWritten, SlugCommitted, PageDeleted DEF SlugNext
  <2>2. CASE UNCHANGED slugVars
    BY <2>2 DEF SlugInv, SlugTypeOK, AddressesApart, Wants, TakenUnseen, AloneInTable, Saved, slugVars, slugReqs, slugPast
  <2> QED BY <2>1, <2>2
<1> QED
  BY <1>1, SlugStart, PTL DEF SlugSpec

\* Two rows have one web address only if they are a product and a category and one was saved
\* between the other's look and its commit (uniqueSlug, the unique indexes).
THEOREM AddressesStayApart == SlugSpec => []AddressesApart
<1>1. SlugInv => AddressesApart
  BY DEF SlugInv
<1> QED
  BY <1>1, SlugAlways, PTL

-----------------------------------------------------------------------------
(* Reviews. *)

Customer == Cardinality(Customers)
Tallies == [count : 0 .. Customer, total : 0 .. 5 * Customer]
Changing == {"counting", "locking", "committing"}
Counted == {"locking", "committing"}

\* Whoever is at work has been asked something, about a customer.
Asked == \A w \in Workers : reviewPc[w] # "idle" => user[w] \in Customers /\ op[w] \in Ops

\* The product's row, and each review, has one holder.
OneCommits == \A w, x \in Workers : reviewPc[w] = "committing" /\ reviewPc[x] = "committing" => w = x
OneChanges ==
    \A w, x \in Workers :
        reviewPc[w] \in Changing /\ reviewPc[x] \in Changing /\ user[w] = user[x] => w = x

\* A held review is as committed, but for what was asked.
OwnRow(w) ==
    /\ op[w].do = "save" => (mine[w].hidden <=> user[w] \in hidden) /\ mine[w].stars = op[w].rating
    /\ op[w].do = "delete" => mine[w] = NoRow
    /\ op[w].do \in {"hide", "show"} =>
           /\ mine[w].hidden <=> op[w].do = "hide"
           /\ mine[w].stars = stars[user[w]] /\ stars[user[w]] # 0
Own == \A w \in Workers : reviewPc[w] \in Changing => OwnRow(w)

\* A count nobody committed past is still what the commit will make true.
Counts ==
    \A w \in Workers \ passed : reviewPc[w] \in Counted => counted[w] = CountOf(user[w], mine[w])

ReviewInv ==
    /\ ReviewTypeOK
    /\ counted \in [Workers -> Tallies]
    /\ Asked /\ OneCommits /\ OneChanges /\ Own /\ Counts
    /\ TallyUnlessOverlapped

\* The ratings, and the reviews on show, that CountOf takes.
Given(u, r) == [x \in Customers |-> IF x = u THEN r.stars ELSE stars[x]]
OnShow(u, r) ==
    {x \in Customers : Given(u, r)[x] # 0 /\ IF x = u THEN ~r.hidden ELSE x \notin hidden}

CountsAreSums ==
    \A u, r : CountOf(u, r) = [count |-> Cardinality(OnShow(u, r)),
                              total |-> SumOf(Given(u, r), OnShow(u, r))]

\* CountOf counts and sums the reviews on show.
LEMMA CountIsSum == CountsAreSums
<1> SUFFICES ASSUME NEW u, NEW r
             PROVE  CountOf(u, r) = [count |-> Cardinality(OnShow(u, r)),
                                     total |-> SumOf(Given(u, r), OnShow(u, r))]
  BY DEF CountsAreSums
<1> DEFINE given == Given(u, r)
           shown == OnShow(u, r)
<1>1. CountOf(u, r) = [count |-> Cardinality(shown), total |-> MapThenSumSet(LAMBDA x : given[x], shown)]
  BY DEF CountOf, Given, OnShow
<1> HIDE DEF given, shown
<1>2. MapThenSumSet(LAMBDA x : given[x], shown) = SumOf(given, shown)
  BY MapIsSum, Zenon
<1>3. CountOf(u, r) = [count |-> Cardinality(shown), total |-> SumOf(given, shown)]
  BY <1>1, <1>2, Zenon
<1> QED
  BY <1>3 DEF given, shown

\* The customers are finitely many.
LEMMA CustomerCount == Customer \in Nat
BY ReviewsAssumption, FS_CardinalityType DEF Customer

\* No review is a tally too.
LEMMA EmptyTally == [count |-> 0, total |-> 0] \in Tallies
BY CustomerCount DEF Tallies

\* What a request counts is within the bounds.
LEMMA CountType ==
    ASSUME ReviewTypeOK, NEW u \in Customers, NEW r \in Row
    PROVE  CountOf(u, r) \in Tallies
<1> DEFINE given == Given(u, r)
           shown == OnShow(u, r)
<1>1. CountOf(u, r) = [count |-> Cardinality(shown), total |-> SumOf(given, shown)]
  BY CountIsSum DEF CountsAreSums
<1>2. shown \subseteq Customers /\ \A x \in Customers : given[x] \in 0 .. 5
  <2>1. Ratings \cup {0} \subseteq 0 .. 5
    BY ReviewsAssumption
  <2>2. \A x \in Customers : given[x] \in Ratings \cup {0}
    BY DEF Given, ReviewTypeOK, Row
  <2> QED BY <2>1, <2>2 DEF OnShow
<1> HIDE DEF given, shown
<1>3. IsFiniteSet(shown) /\ Cardinality(shown) \in 0 .. Customer
  <2>1. IsFiniteSet(shown) /\ Cardinality(shown) <= Customer
    BY <1>2, ReviewsAssumption, FS_Subset DEF Customer
  <2> QED BY <2>1, FS_CardinalityType
<1>5. SumOf(given, shown) \in 0 .. 5 * Cardinality(shown)
  BY <1>2, <1>3, SumBound
<1>6. SumOf(given, shown) \in 0 .. 5 * Customer
  BY <1>3, <1>5, CustomerCount
<1> QED
  BY <1>1, <1>3, <1>6 DEF Tallies

LEMMA ReviewInitial == ReviewInit => ReviewInv
<1> SUFFICES ASSUME ReviewInit PROVE ReviewInv
  OBVIOUS
<1>1. ReviewTypeOK /\ counted \in [Workers -> Tallies] /\ tally \in Tallies
  BY EmptyTally, CustomerCount DEF ReviewInit, ReviewTypeOK, Customer, Tallies, NoOp, NoRow, Row
<1>2. Asked /\ OneCommits /\ OneChanges /\ Own /\ Counts
  BY DEF ReviewInit, Asked, OneCommits, OneChanges, Own, Counts, Changing, Counted
<1>3. TallyUnlessOverlapped
  <2>1. Shown = {} /\ tally = [count |-> 0, total |-> 0]
    BY DEF ReviewInit, Shown
  <2>2. Cardinality({}) = 0
    BY FS_EmptySet
  <2>3. MapThenSumSet(LAMBDA u : stars[u], {}) = SumOf(stars, {})
    BY MapIsSum, Zenon
  <2>4. SumOf(stars, {}) = 0
    BY SumEmpty
  <2> QED BY <2>1, <2>2, <2>3, <2>4, Zenon DEF TallyUnlessOverlapped
<1> QED
  BY <1>1, <1>2, <1>3 DEF ReviewInv

\* What a request counted is what its commit leaves on show.
LEMMA CountsAsCommitted ==
    ASSUME ReviewTypeOK, NEW w \in Workers, user[w] \in Customers, CommitReview(w),
           counted[w] = CountOf(user[w], mine[w])
    PROVE  tally' = [count |-> Cardinality(Shown'), total |-> SumOf(stars', Shown')]
<1> DEFINE u == user[w]
           r == mine[w]
<1>1. tally' = [count |-> Cardinality(OnShow(u, r)), total |-> SumOf(Given(u, r), OnShow(u, r))]
  BY CountIsSum DEF CommitReview, CountsAreSums
<1>2. Given(u, r) = stars'
  BY DEF CommitReview, ReviewTypeOK, Given
<1>3. OnShow(u, r) = Shown'
  BY <1>2 DEF CommitReview, Shown, ReviewTypeOK, Row, OnShow
<1> QED
  BY <1>1, <1>2, <1>3

\* Other requests' counts stand while the reviews do.
LEMMA CountSame ==
    ASSUME UNCHANGED <<stars, hidden>>
    PROVE  \A v, r : CountOf(v, r)' = CountOf(v, r)
<1>1. \A v, r : Given(v, r)' = Given(v, r) /\ OnShow(v, r)' = OnShow(v, r)
  BY DEF Given, OnShow
<1>2. CountsAreSums /\ CountsAreSums'
  BY CountIsSum, PTL
<1> QED
  BY <1>1, <1>2 DEF CountsAreSums

\* A review that is hidden is there.
LEMMA StarsAndHidden ==
    ASSUME ReviewTypeOK, NEW w \in Workers, user[w] \in Customers, op[w] \in Ops, OwnRow(w)
    PROVE  mine[w].hidden => mine[w].stars # 0
BY ReviewsAssumption DEF ReviewTypeOK, OwnRow, Ops, NoRow, Row
\* The reviews' types.
LEMMA ReviewTypes == ASSUME ReviewInv, ReviewNext PROVE ReviewTypeOK' /\ (counted \in [Workers -> Tallies])'
<1>u. ReviewTypeOK /\ counted \in [Workers -> Tallies] /\ Asked /\ Own
  BY DEF ReviewInv
<1>e. [count |-> 0, total |-> 0] \in Tallies
  BY EmptyTally
<1> DEFINE Rest == /\ reviewPc \in [Workers -> {"idle", "changing", "counting", "locking", "committing"}]
                   /\ op \in [Workers -> Ops \cup {NoOp}]
                   /\ user \in [Workers -> Customers \cup {None}]
                   /\ mine \in [Workers -> Row]
                   /\ counted \in [Workers -> Tallies]
                   /\ passed \subseteq Workers /\ drift \in BOOLEAN
           Base == /\ stars \in [Customers -> Ratings \cup {0}]
                   /\ hidden \subseteq {u \in Customers : stars[u] # 0}
                   /\ tally.count \in 0 .. Customer /\ tally.total \in 0 .. 5 * Customer
<1>b. Base /\ Rest
  BY <1>u DEF ReviewTypeOK, Customer
<1>c. ASSUME UNCHANGED reviewRows PROVE Base'
  BY <1>b, <1>c DEF reviewRows
<1> SUFFICES Base' /\ Rest'
  BY DEF ReviewTypeOK, Customer
<1>d. ASSUME NEW w \in Workers, ReviewDone(w) PROVE
          /\ (reviewPc \in [Workers -> {"idle", "changing", "counting", "locking", "committing"}])'
          /\ (op \in [Workers -> Ops \cup {NoOp}])'
          /\ (user \in [Workers -> Customers \cup {None}])'
          /\ (mine \in [Workers -> Row])'
          /\ (counted \in [Workers -> Tallies])'
  BY <1>b, <1>d, <1>e DEF ReviewDone, ReviewGoto, NoRow, Row
<1>1. ASSUME NEW w \in Workers, NEW o \in Ops, NEW u \in Customers, AskReview(w, o, u) PROVE Base' /\ Rest'
  <2>1. Base'
    BY <1>1, <1>c DEF AskReview
  <2>2. Rest'
    BY <1>1, <1>b DEF AskReview, ReviewGoto, past
  <2> QED BY <2>1, <2>2
<1>2. ASSUME NEW w \in Workers, ChangeRow(w) PROVE Base' /\ Rest'
  <2>1. Base'
    BY <1>2, <1>c DEF ChangeRow
  <2>2. CASE op[w].do # "save" /\ stars[user[w]] = 0
    <3>1. ReviewDone(w) /\ UNCHANGED past
      BY <1>2, <2>2 DEF ChangeRow
    <3> QED BY <1>d, <1>b, <2>1, <3>1 DEF past
  <2>3. CASE ~(op[w].do # "save" /\ stars[user[w]] = 0)
    <3>1. user[w] \in Customers /\ op[w] \in Ops
      BY <1>2, <1>u DEF ChangeRow, Asked
    <3>2. Changed(w) \in Row
      BY <1>b, <3>1 DEF Changed, Row, NoRow, Ops
    <3>3. Rest'
      BY <1>2, <1>b, <2>3, <3>2 DEF ChangeRow, ReviewGoto, past
    <3> QED BY <2>1, <3>3
  <2> QED BY <2>2, <2>3
<1>3. ASSUME NEW w \in Workers, CountReviews(w) PROVE Base' /\ Rest'
  <2>1. Base'
    BY <1>3, <1>c DEF CountReviews
  <2>2. user[w] \in Customers /\ mine[w] \in Row
    BY <1>3, <1>u, <1>b DEF CountReviews, Asked
  <2>3. CountOf(user[w], mine[w]) \in Tallies
    BY <1>u, <2>2, CountType
  <2>4. Rest'
    BY <1>3, <1>b, <2>3 DEF CountReviews, ReviewGoto
  <2> QED BY <2>1, <2>4
<1>4. ASSUME NEW w \in Workers, LockProduct(w) PROVE Base' /\ Rest'
  <2>1. Base'
    BY <1>4, <1>c DEF LockProduct
  <2>2. Rest'
    BY <1>4, <1>b DEF LockProduct, ReviewGoto, past, reviewWork
  <2> QED BY <2>1, <2>2
<1>5. ASSUME NEW w \in Workers, CommitReview(w) PROVE Base' /\ Rest'
  <2>1. user[w] \in Customers /\ op[w] \in Ops /\ OwnRow(w) /\ mine[w] \in Row /\ counted[w] \in Tallies
    BY <1>5, <1>u, <1>b DEF CommitReview, Asked, Own, Changing
  <2>2. mine[w].hidden => mine[w].stars # 0
    BY <1>u, <2>1, StarsAndHidden
  <2>3. (stars \in [Customers -> Ratings \cup {0}])'
    BY <1>5, <1>b, <2>1 DEF CommitReview, Row
  <2>4. (hidden \subseteq {u \in Customers : stars[u] # 0})'
    BY <1>5, <1>b, <2>1, <2>2, <2>3 DEF CommitReview, Row
  <2>5. (tally.count \in 0 .. Customer /\ tally.total \in 0 .. 5 * Customer)'
    BY <1>5, <2>1 DEF CommitReview, Tallies
  <2>6. Rest'
    BY <1>5, <1>d, <1>b DEF CommitReview
  <2> QED BY <2>3, <2>4, <2>5, <2>6
<1>6. ASSUME NEW w \in Workers, AbortReview(w) PROVE Base' /\ Rest'
  <2>1. Base'
    BY <1>6, <1>c DEF AbortReview
  <2>2. Rest'
    BY <1>6, <1>d, <1>b DEF AbortReview
  <2> QED BY <2>1, <2>2
<1> HIDE DEF Base, Rest
<1> QED
  BY <1>1, <1>2, <1>3, <1>4, <1>5, <1>6 DEF ReviewNext

\* A request that goes to rest says nothing more.
LEMMA ReviewDoneRests ==
    ASSUME ReviewTypeOK, NEW w \in Workers, ReviewDone(w)
    PROVE  /\ reviewPc'[w] = "idle"
           /\ \A x \in Workers \ {w} :
                  /\ reviewPc'[x] = reviewPc[x] /\ op'[x] = op[x] /\ user'[x] = user[x]
                  /\ mine'[x] = mine[x]
BY DEF ReviewTypeOK, ReviewDone, ReviewGoto

\* Each request has the row it changes, and the product's, to itself.
LEMMA ReviewLocks ==
    ASSUME ReviewInv, ReviewNext PROVE Asked' /\ OneCommits' /\ OneChanges'
<1> USE DEF Changing
<1>u. ReviewTypeOK /\ Asked /\ OneCommits /\ OneChanges
  BY DEF ReviewInv
<1>d. ASSUME NEW w \in Workers, ReviewDone(w) PROVE Asked' /\ OneCommits' /\ OneChanges'
  BY <1>u, <1>d, ReviewDoneRests DEF Asked, OneCommits, OneChanges
<1>1. ASSUME NEW w \in Workers, NEW o \in Ops, NEW u \in Customers, AskReview(w, o, u)
      PROVE Asked' /\ OneCommits' /\ OneChanges'
  BY <1>u, <1>1 DEF AskReview, ReviewGoto, Asked, OneCommits, OneChanges, ReviewTypeOK
<1>2. ASSUME NEW w \in Workers, ChangeRow(w) PROVE Asked' /\ OneCommits' /\ OneChanges'
  <2>1. CASE ReviewDone(w)
    BY <1>d, <2>1
  <2>2. CASE ReviewGoto(w, "counting") /\ UNCHANGED <<op, user>>
    BY <1>u, <1>2, <2>2 DEF ChangeRow, RowTaken, ReviewGoto, Asked, OneCommits, OneChanges, ReviewTypeOK
  <2> QED BY <1>2, <2>1, <2>2 DEF ChangeRow
<1>3. ASSUME NEW w \in Workers, CountReviews(w) PROVE Asked' /\ OneCommits' /\ OneChanges'
  BY <1>u, <1>3 DEF CountReviews, ReviewGoto, Asked, OneCommits, OneChanges, ReviewTypeOK
<1>4. ASSUME NEW w \in Workers, LockProduct(w) PROVE Asked' /\ OneCommits' /\ OneChanges'
  BY <1>u, <1>4 DEF LockProduct, ReviewGoto, reviewWork, Asked, OneCommits, OneChanges, ReviewTypeOK
<1>5. ASSUME NEW w \in Workers, CommitReview(w) PROVE Asked' /\ OneCommits' /\ OneChanges'
  BY <1>d, <1>5 DEF CommitReview
<1>6. ASSUME NEW w \in Workers, AbortReview(w) PROVE Asked' /\ OneCommits' /\ OneChanges'
  BY <1>d, <1>6 DEF AbortReview
<1> QED
  BY <1>1, <1>2, <1>3, <1>4, <1>5, <1>6 DEF ReviewNext

\* What is committed of another's review does not change under its holder.
LEMMA ReviewsOwn == ASSUME ReviewInv, ReviewNext PROVE Own'
<1> USE DEF Changing
<1>u. ReviewTypeOK /\ Asked /\ OneCommits /\ OneChanges /\ Own
  BY DEF ReviewInv
<1>o. ASSUME NEW x \in Workers, reviewPc[x] \in Changing, stars'[user[x]] = stars[user[x]],
             user[x] \in hidden' <=> user[x] \in hidden,
             op'[x] = op[x], user'[x] = user[x], mine'[x] = mine[x]
      PROVE  OwnRow(x)'
  BY <1>u, <1>o DEF Own, OwnRow
<1>d. ASSUME NEW w \in Workers, ReviewDone(w), UNCHANGED reviewRows PROVE Own'
  BY <1>u, <1>d, <1>o, ReviewDoneRests DEF Own, reviewRows
<1>1. ASSUME NEW w \in Workers, NEW o \in Ops, NEW u \in Customers, AskReview(w, o, u) PROVE Own'
  <2>1. ASSUME NEW x \in Workers, reviewPc'[x] \in Changing PROVE OwnRow(x)'
    <3>1. x # w
      BY <1>u, <1>1, <2>1 DEF AskReview, ReviewGoto, ReviewTypeOK
    <3> QED BY <1>u, <1>1, <1>o, <2>1, <3>1 DEF AskReview, ReviewGoto, ReviewTypeOK, reviewRows
  <2> QED BY <2>1 DEF Own
<1>2. ASSUME NEW w \in Workers, ChangeRow(w) PROVE Own'
  <2>1. CASE op[w].do # "save" /\ stars[user[w]] = 0
    BY <1>2, <1>d, <2>1 DEF ChangeRow
  <2>2. CASE ~(op[w].do # "save" /\ stars[user[w]] = 0)
    <3>1. user[w] \in Customers /\ op[w] \in Ops
      BY <1>2, <1>u DEF ChangeRow, Asked
    <3>2. mine'[w] = Changed(w) /\ UNCHANGED <<op, user, stars, hidden>>
      BY <1>2, <1>u, <2>2 DEF ChangeRow, ReviewTypeOK, reviewRows
    <3>3. OwnRow(w)'
      <4>1. op'[w] = op[w] /\ user'[w] = user[w] /\ op[w].do \in {"save", "delete", "hide", "show"}
        BY <3>1, <3>2 DEF Ops
      <4>2. CASE op[w].do = "save"
        <5>1. PICK b \in BOOLEAN : b <=> user[w] \in hidden
          BY Zenon
        <5>2. mine'[w] = [stars |-> op[w].rating, hidden |-> user[w] \in hidden]
          BY <3>2, <4>2 DEF Changed
        <5>3. b = (user[w] \in hidden)
          BY <5>1, Zenon
        <5>4. mine'[w] = [stars |-> op[w].rating, hidden |-> b]
          BY <5>2, <5>3, Zenon
        <5> QED BY <3>2, <4>1, <4>2, <5>1, <5>4 DEF OwnRow
      <4>3. CASE op[w].do = "delete"
        BY <3>2, <4>1, <4>3 DEF OwnRow, Changed
      <4>4. CASE op[w].do \in {"hide", "show"}
        <5>1. mine'[w] = [stars |-> stars[user[w]], hidden |-> op[w].do = "hide"]
          BY <3>2, <4>4 DEF Changed
        <5>2. PICK b \in BOOLEAN : b <=> op[w].do = "hide"
          BY Zenon
        <5>3. b = (op[w].do = "hide")
          BY <5>2, Zenon
        <5>4. mine'[w] = [stars |-> stars[user[w]], hidden |-> b]
          BY <5>1, <5>3, Zenon
        <5> QED BY <2>2, <3>2, <4>1, <4>4, <5>2, <5>4 DEF OwnRow
      <4> QED BY <4>1, <4>2, <4>3, <4>4
    <3>4. ASSUME NEW x \in Workers \ {w}, reviewPc'[x] \in Changing PROVE OwnRow(x)'
      BY <1>2, <1>u, <1>o, <2>2, <3>2, <3>4 DEF ChangeRow, ReviewGoto, ReviewTypeOK
    <3> QED BY <3>3, <3>4 DEF Own
  <2> QED BY <2>1, <2>2
<1>3. ASSUME NEW w \in Workers, CountReviews(w) PROVE Own'
  BY <1>u, <1>3, <1>o DEF CountReviews, ReviewGoto, ReviewTypeOK, reviewRows, Own
<1>4. ASSUME NEW w \in Workers, LockProduct(w) PROVE Own'
  BY <1>u, <1>4, <1>o DEF LockProduct, ReviewGoto, ReviewTypeOK, reviewRows, reviewWork, Own
<1>5. ASSUME NEW w \in Workers, CommitReview(w) PROVE Own'
  <2>1. ASSUME NEW x \in Workers, reviewPc'[x] \in Changing PROVE OwnRow(x)'
    <3>1. x # w /\ reviewPc[x] \in Changing /\ op'[x] = op[x] /\ user'[x] = user[x] /\ mine'[x] = mine[x]
      BY <1>u, <1>5, <2>1, ReviewDoneRests DEF CommitReview
    <3>2. user[x] # user[w] /\ user[x] \in Customers
      BY <1>u, <1>5, <3>1 DEF CommitReview, OneChanges, Asked
    <3> QED BY <1>u, <1>5, <1>o, <3>1, <3>2 DEF CommitReview, ReviewTypeOK
  <2> QED BY <2>1 DEF Own
<1>6. ASSUME NEW w \in Workers, AbortReview(w) PROVE Own'
  BY <1>d, <1>6 DEF AbortReview
<1> QED
  BY <1>1, <1>2, <1>3, <1>4, <1>5, <1>6 DEF ReviewNext

\* Only a commit of the product's row makes a count old, and then its request is one passed.
LEMMA ReviewCounts == ASSUME ReviewInv, ReviewNext PROVE Counts'
<1> USE DEF Counted
<1>u. ReviewTypeOK /\ counted \in [Workers -> Tallies] /\ OneCommits /\ Counts
  BY DEF ReviewInv
<1>o. ASSUME UNCHANGED <<stars, hidden>>, NEW x \in Workers \ passed, reviewPc[x] \in Counted,
             user'[x] = user[x], mine'[x] = mine[x], counted'[x] = counted[x]
      PROVE  counted'[x] = CountOf(user[x], mine[x])'
  <2>1. counted[x] = CountOf(user[x], mine[x])
    BY <1>u, <1>o DEF Counts
  <2>2. PICK v : v = user[x]
    OBVIOUS
  <2>3. PICK r : r = mine[x]
    OBVIOUS
  <2>4. CountOf(v, r)' = CountOf(v, r)
    BY <1>o, CountSame
  <2>5. CountOf(user[x], mine[x])' = CountOf(v, r)'
    BY <1>o, <2>2, <2>3 DEF CountOf
  <2> QED BY <1>o, <2>1, <2>2, <2>3, <2>4, <2>5
<1>d. ASSUME NEW w \in Workers, ReviewDone(w), UNCHANGED <<stars, hidden>>, passed \ {w} \subseteq passed'
      PROVE  Counts'
  <2>1. ASSUME NEW x \in Workers, x \notin passed', reviewPc'[x] \in Counted
        PROVE  counted'[x] = CountOf(user[x], mine[x])'
    <3>1. x # w /\ reviewPc[x] \in Counted
      BY <1>u, <1>d, <2>1, ReviewDoneRests
    <3>2. user'[x] = user[x] /\ mine'[x] = mine[x] /\ counted'[x] = counted[x] /\ x \notin passed
      BY <1>u, <1>d, <2>1, <3>1 DEF ReviewDone, ReviewTypeOK
    <3> QED BY <1>d, <1>o, <3>1, <3>2
  <2> QED BY <2>1 DEF Counts
<1>1. ASSUME NEW w \in Workers, NEW o \in Ops, NEW u \in Customers, AskReview(w, o, u) PROVE Counts'
  <2>1. ASSUME NEW x \in Workers, x \notin passed', reviewPc'[x] \in Counted
        PROVE  counted'[x] = CountOf(user[x], mine[x])'
    <3>1. x # w /\ reviewPc[x] \in Counted /\ user'[x] = user[x] /\ mine'[x] = mine[x] /\ counted'[x] = counted[x]
          /\ x \notin passed /\ UNCHANGED <<stars, hidden>>
      BY <1>u, <1>1, <2>1 DEF AskReview, ReviewGoto, ReviewTypeOK, reviewRows, past
    <3> QED BY <1>o, <3>1
  <2> QED BY <2>1 DEF Counts
<1>2. ASSUME NEW w \in Workers, ChangeRow(w) PROVE Counts'
  <2>1. CASE ReviewDone(w)
    BY <1>2, <1>d, <2>1 DEF ChangeRow, reviewRows, past
  <2>2. CASE ~ReviewDone(w)
    <3>1. ASSUME NEW x \in Workers, x \notin passed', reviewPc'[x] \in Counted
          PROVE  counted'[x] = CountOf(user[x], mine[x])'
      <4>1. x # w /\ reviewPc[x] \in Counted /\ user'[x] = user[x] /\ mine'[x] = mine[x] /\ counted'[x] = counted[x]
            /\ x \notin passed /\ UNCHANGED <<stars, hidden>>
        BY <1>u, <1>2, <2>2, <3>1 DEF ChangeRow, ReviewGoto, ReviewTypeOK, reviewRows, past
      <4> QED BY <1>o, <4>1
    <3> QED BY <3>1 DEF Counts
  <2> QED BY <2>1, <2>2
<1>3. ASSUME NEW w \in Workers, CountReviews(w) PROVE Counts'
  <2>1. ASSUME NEW x \in Workers, x \notin passed', reviewPc'[x] \in Counted, x # w
        PROVE  counted'[x] = CountOf(user[x], mine[x])'
    <3>1. reviewPc[x] \in Counted /\ user'[x] = user[x] /\ mine'[x] = mine[x] /\ counted'[x] = counted[x]
          /\ x \notin passed /\ UNCHANGED <<stars, hidden>>
      BY <1>u, <1>3, <2>1 DEF CountReviews, ReviewGoto, ReviewTypeOK, reviewRows
    <3> QED BY <1>o, <3>1
  <2>2. counted'[w] = CountOf(user[w], mine[w])'
    <3>1. PICK v : v = user[w]
      OBVIOUS
    <3>2. PICK r : r = mine[w]
      OBVIOUS
    <3>3. UNCHANGED <<stars, hidden, user, mine>> /\ counted'[w] = CountOf(v, r)
      BY <1>u, <1>3, <3>1, <3>2 DEF CountReviews, reviewRows
    <3>4. CountOf(v, r)' = CountOf(v, r)
      BY <3>3, CountSame
    <3>5. CountOf(user[w], mine[w])' = CountOf(v, r)'
      BY <3>1, <3>2, <3>3 DEF CountOf
    <3> QED BY <3>3, <3>4, <3>5
  <2> QED BY <2>1, <2>2 DEF Counts
<1>4. ASSUME NEW w \in Workers, LockProduct(w) PROVE Counts'
  <2>1. ASSUME NEW x \in Workers, x \notin passed', reviewPc'[x] \in Counted
        PROVE  counted'[x] = CountOf(user[x], mine[x])'
    <3>1. reviewPc[x] \in Counted /\ user'[x] = user[x] /\ mine'[x] = mine[x] /\ counted'[x] = counted[x]
          /\ x \notin passed /\ UNCHANGED <<stars, hidden>>
      BY <1>u, <1>4, <2>1 DEF LockProduct, ReviewGoto, ReviewTypeOK, reviewRows, reviewWork, past
    <3> QED BY <1>o, <3>1
  <2> QED BY <2>1 DEF Counts
<1>5. ASSUME NEW w \in Workers, CommitReview(w) PROVE Counts'
  <2>1. ASSUME NEW x \in Workers, x \notin passed', reviewPc'[x] \in Counted PROVE FALSE
    <3>1. x # w /\ reviewPc[x] \in Counted
      BY <1>u, <1>5, <2>1, ReviewDoneRests DEF CommitReview
    <3>2. reviewPc[x] = "committing"
      BY <1>5, <2>1, <3>1 DEF CommitReview
    <3> QED BY <1>u, <1>5, <3>1, <3>2 DEF CommitReview, OneCommits
  <2> QED BY <2>1 DEF Counts
<1>6. ASSUME NEW w \in Workers, AbortReview(w) PROVE Counts'
  BY <1>6, <1>d DEF AbortReview, reviewRows
<1> QED
  BY <1>1, <1>2, <1>3, <1>4, <1>5, <1>6 DEF ReviewNext

\* The tally kept, as a sum.
LEMMA TallyIsSum ==
    TallyUnlessOverlapped <=>
        (~drift => tally = [count |-> Cardinality(Shown), total |-> SumOf(stars, Shown)])
<1>1. MapThenSumSet(LAMBDA u : stars[u], Shown) = SumOf(stars, Shown)
  BY MapIsSum, Zenon
<1>2. TallyUnlessOverlapped <=>
        (~drift => tally = [count |-> Cardinality(Shown),
                            total |-> MapThenSumSet(LAMBDA u : stars[u], Shown)])
  BY Zenon DEF TallyUnlessOverlapped
<1> QED
  BY <1>1, <1>2, Zenon

\* The tally is kept while neither it nor the reviews change.
LEMMA TallyStutters ==
    ASSUME TallyUnlessOverlapped, UNCHANGED <<stars, hidden, tally, drift>> PROVE TallyUnlessOverlapped'
<1>1. Shown' = Shown
  BY DEF Shown
<1>2. (TallyUnlessOverlapped <=>
        (~drift => tally = [count |-> Cardinality(Shown), total |-> SumOf(stars, Shown)]))'
  BY TallyIsSum, PTL
<1> QED
  BY <1>1, <1>2, TallyIsSum

\* The tally changes only by a commit.
LEMMA ReviewsTallied == ASSUME ReviewInv, ReviewNext PROVE TallyUnlessOverlapped'
<1>u. ReviewTypeOK /\ Asked /\ Counts /\ TallyUnlessOverlapped
  BY DEF ReviewInv
<1>2. ASSUME NEW w \in Workers, CommitReview(w) PROVE TallyUnlessOverlapped'
  <2>1. SUFFICES ASSUME ~drift' PROVE TallyUnlessOverlapped'
    BY Zenon DEF TallyUnlessOverlapped
  <2>2. w \notin passed /\ user[w] \in Customers /\ counted[w] = CountOf(user[w], mine[w])
    BY <1>u, <1>2, <2>1 DEF CommitReview, Asked, Counts, Counted
  <2>3. tally' = [count |-> Cardinality(Shown'), total |-> SumOf(stars', Shown')]
    BY <1>u, <1>2, <2>2, CountsAsCommitted
  <2>4. (TallyUnlessOverlapped <=>
          (~drift => tally = [count |-> Cardinality(Shown), total |-> SumOf(stars, Shown)]))'
    BY TallyIsSum, PTL
  <2> QED BY <2>3, <2>4
<1>3. ASSUME NEW w \in Workers, NEW o \in Ops, NEW u \in Customers, AskReview(w, o, u)
      PROVE TallyUnlessOverlapped'
  BY <1>u, <1>3, TallyStutters DEF AskReview, reviewRows, past
<1>4. ASSUME NEW w \in Workers, ChangeRow(w) \/ CountReviews(w) \/ LockProduct(w) \/ AbortReview(w)
      PROVE TallyUnlessOverlapped'
  <2>1. UNCHANGED <<stars, hidden, tally, drift>>
    BY <1>4 DEF ChangeRow, CountReviews, LockProduct, AbortReview, reviewRows, past
  <2> QED BY <1>u, <2>1, TallyStutters
<1> HIDE DEF TallyUnlessOverlapped
<1> QED
  BY <1>2, <1>3, <1>4 DEF ReviewNext

LEMMA ReviewStutter == ASSUME ReviewInv, UNCHANGED reviewVars PROVE ReviewInv'
<1> USE DEF reviewVars, reviewRows, reviewWork, past
<1>1. ReviewTypeOK' /\ (counted \in [Workers -> Tallies])'
  BY DEF ReviewInv, ReviewTypeOK
<1>2. Asked' /\ OneCommits' /\ OneChanges' /\ Own'
  BY DEF ReviewInv, Asked, OneCommits, OneChanges, Own, OwnRow
<1>3. Counts'
  <2>1. ASSUME NEW x \in Workers, x \notin passed', reviewPc'[x] \in Counted
        PROVE  counted'[x] = CountOf(user[x], mine[x])'
    <3>1. PICK v : v = user[x]
      OBVIOUS
    <3>2. PICK r : r = mine[x]
      OBVIOUS
    <3>3. CountOf(v, r)' = CountOf(v, r)
      BY CountSame
    <3>4. CountOf(user[x], mine[x])' = CountOf(v, r)'
      BY <3>1, <3>2 DEF CountOf
    <3> QED BY <2>1, <3>1, <3>2, <3>3, <3>4 DEF ReviewInv, Counts
  <2> QED BY <2>1 DEF Counts
<1>4. TallyUnlessOverlapped'
  BY TallyStutters DEF ReviewInv
<1> QED
  BY <1>1, <1>2, <1>3, <1>4 DEF ReviewInv

LEMMA ReviewStep == ReviewInv /\ [ReviewNext]_reviewVars => ReviewInv'
<1>1. ASSUME ReviewInv, ReviewNext PROVE ReviewInv'
  BY <1>1, ReviewTypes, ReviewLocks, ReviewsOwn, ReviewCounts, ReviewsTallied DEF ReviewInv
<1> QED
  BY <1>1, ReviewStutter

LEMMA ReviewAlways == ReviewSpec => []ReviewInv
BY ReviewInitial, ReviewStep, PTL DEF ReviewSpec

\* The reviews are always of their types, and only a review that exists is hidden.
THEOREM ReviewTypesCorrect == ReviewSpec => []ReviewTypeOK
<1>1. ReviewInv => ReviewTypeOK
  BY DEF ReviewInv
<1> QED
  BY <1>1, ReviewAlways, PTL

\* The tally is right unless the last change to commit had counted before the one ahead of it.
THEOREM TallyStays == ReviewSpec => []TallyUnlessOverlapped
<1>1. ReviewInv => TallyUnlessOverlapped
  BY DEF ReviewInv
<1> QED
  BY <1>1, ReviewAlways, PTL

\* Only the shop shows a review it has hidden.
THEOREM HiddenOnesStay == ReviewSpec => HiddenStays
<1> DEFINE Shows == \A u \in hidden : stars'[u] # 0 /\ u \notin hidden' =>
        \E w \in Workers : reviewPc[w] = "committing" /\ user[w] = u /\ op[w].do = "show"
<1>1. ASSUME ReviewInv, [ReviewNext]_reviewVars PROVE Shows
  <2>1. SUFFICES ASSUME NEW u \in hidden, stars'[u] # 0, u \notin hidden'
                 PROVE  \E w \in Workers : reviewPc[w] = "committing" /\ user[w] = u /\ op[w].do = "show"
    OBVIOUS
  <2>2. PICK w \in Workers : CommitReview(w)
    <3>1. hidden' # hidden
      BY <2>1
    <3>2. ReviewNext
      BY <1>1, <3>1 DEF reviewVars, reviewRows
    <3> QED
      BY <3>1, <3>2 DEF ReviewNext, AskReview, ChangeRow, CountReviews, LockProduct, AbortReview, reviewRows
  <2>3. user[w] \in Customers /\ op[w] \in Ops /\ OwnRow(w) /\ reviewPc[w] = "committing" /\ ReviewTypeOK
    BY <1>1, <2>2 DEF CommitReview, ReviewInv, Asked, Own, Changing
  <2>4. user[w] = u /\ ~mine[w].hidden
    BY <2>1, <2>2 DEF CommitReview
  <2>5. mine[w].stars # 0
    BY <2>1, <2>2, <2>3, <2>4 DEF CommitReview, ReviewTypeOK
  <2>6. op[w].do = "show"
    BY <2>1, <2>3, <2>4, <2>5 DEF OwnRow, Ops, NoRow
  <2> QED BY <2>3, <2>4, <2>6
<1> HIDE DEF Shows
<1>2. ReviewInv /\ [ReviewNext]_reviewVars => [Shows]_reviewVars
  BY <1>1
<1> QED
  BY <1>2, ReviewAlways, PTL DEF ReviewSpec, HiddenStays, Shows

-----------------------------------------------------------------------------
(* Delivery histories. *)

LookupTypes ==
    /\ checks \subseteq Panels
    /\ lookPc \in [Views -> {"idle", "reading", "asking", "saving"}]
    /\ waiting \in [Views -> SUBSET Panels]
    /\ answers \in [Views -> Seq(Panels)]
    /\ saved \in [Views -> SUBSET Panels]
    /\ records \in [Views -> [Panels -> {"none", "kept", "answered", "error"}]]

\* What the page says of its couriers agrees with what it heard and saved.
Agrees(w) ==
    /\ \A c \in Panels :
           records[w][c] = "answered" <=> c \in saved[w] \/ \E i \in DOMAIN answers[w] : answers[w][i] = c
    /\ lookPc[w] \in {"idle", "reading"} => answers[w] = <<>> /\ saved[w] = {}
    /\ \A c \in waiting[w] : records[w][c] # "answered"

LookupInv == LookupTypes /\ \A w \in Views : Agrees(w)

LEMMA LookupInitial == LookupInit => LookupInv
<1> SUFFICES ASSUME LookupInit PROVE LookupTypes /\ \A w \in Views : Agrees(w)
  BY DEF LookupInv
<1>1. LookupTypes
  BY DEF LookupInit, LookupTypes, NoRecords
<1>2. ASSUME NEW w \in Views PROVE Agrees(w)
  BY DEF LookupInit, Agrees, NoRecords
<1> QED
  BY <1>1, <1>2

\* A page changes nothing of another's.
LEMMA OtherPages ==
    ASSUME NEW w \in Views, NEW x \in Views, Agrees(x), lookPc'[x] = lookPc[x],
           waiting'[x] = waiting[x], answers'[x] = answers[x], saved'[x] = saved[x],
           records'[x] = records[x]
    PROVE  Agrees(x)'
BY DEF Agrees

\* A page that ends holds nothing.
LEMMA LookEnds ==
    ASSUME LookupInv, NEW w \in Views, LookDone(w), checks' \subseteq Panels PROVE LookupInv'
<1>1. LookupTypes /\ \A x \in Views : Agrees(x)
  BY DEF LookupInv
<1>2. LookupTypes'
  BY <1>1 DEF LookupTypes, LookDone, LookGoto, NoRecords
<1>3. ASSUME NEW x \in Views PROVE Agrees(x)'
  <2>1. CASE x # w
    <3>1. /\ lookPc'[x] = lookPc[x] /\ waiting'[x] = waiting[x] /\ answers'[x] = answers[x]
          /\ saved'[x] = saved[x] /\ records'[x] = records[x]
      BY <1>1, <2>1 DEF LookupTypes, LookDone, LookGoto
    <3> QED BY <1>1, <3>1, OtherPages
  <2>2. CASE x = w
    <3>1. answers'[x] = <<>> /\ saved'[x] = {} /\ waiting'[x] = {} /\ records'[x] = NoRecords
      BY <1>1, <2>2 DEF LookupTypes, LookDone
    <3> QED BY <3>1 DEF Agrees, NoRecords
  <2> QED BY <2>1, <2>2
<1> QED
  BY <1>2, <1>3 DEF LookupInv
\* What the step says of the page it is about is all there is to prove.
LEMMA OnePage ==
    ASSUME LookupInv, LookupTypes', NEW w \in Views, Agrees(w)',
           \A x \in Views \ {w} : /\ lookPc'[x] = lookPc[x] /\ waiting'[x] = waiting[x]
                                  /\ answers'[x] = answers[x] /\ saved'[x] = saved[x]
                                  /\ records'[x] = records[x]
    PROVE  LookupInv'
<1>1. ASSUME NEW x \in Views PROVE Agrees(x)'
  BY OtherPages DEF LookupInv
<1> QED
  BY <1>1 DEF LookupInv

LEMMA LookupStep == LookupInv /\ [LookupNext]_lookupVars => LookupInv'
<1> DEFINE Others(w) ==
        \A x \in Views \ {w} : /\ lookPc'[x] = lookPc[x] /\ waiting'[x] = waiting[x]
                               /\ answers'[x] = answers[x] /\ saved'[x] = saved[x]
                               /\ records'[x] = records[x]
<1> SUFFICES ASSUME LookupInv, [LookupNext]_lookupVars PROVE LookupInv'
  OBVIOUS
<1>u. LookupTypes /\ \A w \in Views : Agrees(w)
  BY DEF LookupInv
<1>1. ASSUME NEW w \in Views, OpenOrder(w) PROVE LookupInv'
  <2>1. LookupTypes'
    BY <1>u, <1>1 DEF LookupTypes, OpenOrder, LookGoto
  <2>2. Others(w)
    BY <1>u, <1>1 DEF LookupTypes, OpenOrder, LookGoto
  <2>3. Agrees(w)'
    BY <1>u, <1>1 DEF Agrees, OpenOrder
  <2> QED BY <2>1, <2>2, <2>3, OnePage
<1>2. ASSUME NEW w \in Views, NEW on \in SUBSET Panels, AskCouriers(w, on) PROVE LookupInv'
  <2>1. LookupTypes'
    BY <1>u, <1>2 DEF LookupTypes, AskCouriers, LookGoto
  <2>2. Others(w)
    BY <1>u, <1>2 DEF LookupTypes, AskCouriers, LookGoto
  <2>3. Agrees(w)'
    <3>1. answers'[w] = <<>> /\ saved'[w] = {} /\ waiting'[w] = on \ checks
          /\ records'[w] = [c \in Panels |-> IF c \in on \cap checks THEN "kept" ELSE "none"]
      BY <1>u, <1>2 DEF LookupTypes, AskCouriers, Agrees
    <3> QED BY <3>1 DEF Agrees
  <2> QED BY <2>1, <2>2, <2>3, OnePage
<1>3. ASSUME NEW w \in Views, NEW c \in Panels, Answer(w, c) PROVE LookupInv'
  <2>0. Agrees(w) /\ lookPc[w] = "asking" /\ c \in waiting[w] /\ lookPc' = lookPc /\ saved' = saved
        /\ waiting' = [waiting EXCEPT ![w] = waiting[w] \ {c}] /\ checks' = checks
        /\ answers[w] \in Seq(Panels)
    BY <1>u, <1>3 DEF Answer, LookupTypes
  <2>1. CASE /\ answers' = [answers EXCEPT ![w] = Append(answers[w], c)]
             /\ records' = [records EXCEPT ![w] = [records[w] EXCEPT ![c] = "answered"]]
    <3>1. LookupTypes'
      BY <1>u, <2>0, <2>1 DEF LookupTypes
    <3>2. Others(w)
      BY <1>u, <2>0, <2>1 DEF LookupTypes
    <3>3. Agrees(w)'
      <4> DEFINE s == answers[w]
      <4>1. answers'[w] = Append(s, c) /\ records'[w] = [records[w] EXCEPT ![c] = "answered"]
            /\ waiting'[w] = waiting[w] \ {c} /\ records[w] \in [Panels -> {"none", "kept", "answered", "error"}]
        BY <1>u, <2>0, <2>1 DEF LookupTypes
      <4>2. \A d \in Panels : (\E i \in DOMAIN Append(s, c) : Append(s, c)[i] = d)
                                 <=> d = c \/ \E i \in DOMAIN s : s[i] = d
        <5>1. /\ DOMAIN Append(s, c) = 1 .. Len(s) + 1 /\ DOMAIN s = 1 .. Len(s) /\ Len(s) \in Nat
              /\ \A i \in 1 .. Len(s) : Append(s, c)[i] = s[i]
              /\ Append(s, c)[Len(s) + 1] = c
          BY <2>0
        <5> HIDE DEF s
        <5> QED BY <5>1
      <4> HIDE DEF s
      <4>3. \A d \in Panels : records[w][d] = "answered" <=> d \in saved[w] \/ \E i \in DOMAIN s : s[i] = d
        BY <2>0 DEF Agrees, s
      <4>4. \A d \in Panels :
               records'[w][d] = "answered" <=> d \in saved'[w] \/ \E i \in DOMAIN answers'[w] : answers'[w][i] = d
        BY <2>0, <4>1, <4>2, <4>3
      <4>5. \A d \in waiting'[w] : records'[w][d] # "answered"
        BY <2>0, <4>1 DEF Agrees
      <4> QED BY <2>0, <4>4, <4>5 DEF Agrees
    <3> QED BY <3>1, <3>2, <3>3, OnePage
  <2>2. CASE /\ records' = [records EXCEPT ![w] = [records[w] EXCEPT ![c] = "error"]]
             /\ answers' = answers
    <3>1. LookupTypes'
      BY <1>u, <2>0, <2>2 DEF LookupTypes
    <3>2. Others(w)
      BY <1>u, <2>0, <2>2 DEF LookupTypes
    <3>3. Agrees(w)'
      <4>1. records'[w] = [records[w] EXCEPT ![c] = "error"]
            /\ waiting'[w] = waiting[w] \ {c} /\ records[w] \in [Panels -> {"none", "kept", "answered", "error"}]
        BY <1>u, <2>0, <2>2 DEF LookupTypes
      <4>2. records[w][c] # "answered"
        BY <2>0 DEF Agrees
      <4> QED BY <2>0, <2>2, <4>1, <4>2 DEF Agrees
    <3> QED BY <3>1, <3>2, <3>3, OnePage
  <2> QED BY <1>3, <2>1, <2>2 DEF Answer
<1>4. ASSUME NEW w \in Views, TimeOut(w) PROVE LookupInv'
  <2>1. LookupTypes'
    <3>1. [c \in Panels |-> IF c \in waiting[w] THEN "error" ELSE records[w][c]]
              \in [Panels -> {"none", "kept", "answered", "error"}]
      BY <1>u DEF LookupTypes
    <3> QED BY <1>u, <1>4, <3>1 DEF LookupTypes, TimeOut
  <2>2. Others(w)
    BY <1>u, <1>4 DEF LookupTypes, TimeOut
  <2>3. Agrees(w)'
    <3>1. records'[w] = [c \in Panels |-> IF c \in waiting[w] THEN "error" ELSE records[w][c]]
          /\ waiting'[w] = {} /\ lookPc' = lookPc /\ answers' = answers /\ saved' = saved
      BY <1>u, <1>4 DEF LookupTypes, TimeOut
    <3>2. Agrees(w)
      BY <1>u
    <3> QED BY <3>1, <3>2 DEF Agrees
  <2> QED BY <2>1, <2>2, <2>3, OnePage
<1>5. ASSUME NEW w \in Views, AllHeard(w) PROVE LookupInv'
  <2>1. CASE LookDone(w)
    BY <1>u, <1>5, <2>1, LookEnds DEF AllHeard, LookupTypes
  <2>2. CASE LookGoto(w, "saving") /\ UNCHANGED <<waiting, answers, saved, records>>
    <3>1. LookupTypes'
      BY <1>u, <1>5, <2>2 DEF LookupTypes, AllHeard, LookGoto
    <3>2. Others(w)
      BY <1>u, <2>2 DEF LookupTypes, LookGoto
    <3>3. Agrees(w)'
      BY <1>u, <2>2 DEF Agrees, LookGoto, LookupTypes
    <3> QED BY <3>1, <3>2, <3>3, OnePage
  <2> QED BY <1>5, <2>1, <2>2 DEF AllHeard
<1>6. ASSUME NEW w \in Views, SaveCheck(w) PROVE LookupInv'
  <2> DEFINE s == answers[w]
  <2>0. /\ Agrees(w) /\ lookPc[w] = "saving" /\ s \in Seq(Panels) /\ s # <<>>
        /\ lookPc' = lookPc /\ waiting' = waiting /\ records' = records /\ checks' = checks
        /\ saved' = [saved EXCEPT ![w] = saved[w] \cup {Head(s)}]
        /\ answers' = [answers EXCEPT ![w] = Tail(s)]
    BY <1>u, <1>6 DEF SaveCheck, LookupTypes
  <2>h. Head(s) \in Panels /\ Tail(s) \in Seq(Panels)
    <3> HIDE DEF s
    <3> QED BY <2>0
  <2>1. LookupTypes'
    <3> HIDE DEF s
    <3> QED BY <1>u, <2>0, <2>h DEF LookupTypes
  <2>2. Others(w)
    BY <1>u, <2>0 DEF LookupTypes
  <2>3. \A d \in Panels : (\E i \in DOMAIN s : s[i] = d)
                             <=> d = Head(s) \/ \E i \in DOMAIN Tail(s) : Tail(s)[i] = d
    <3>1. /\ DOMAIN s = 1 .. Len(s) /\ DOMAIN Tail(s) = 1 .. Len(s) - 1 /\ Len(s) \in Nat /\ Len(s) > 0
          /\ \A i \in 1 .. Len(s) - 1 : Tail(s)[i] = s[i + 1]
          /\ Head(s) = s[1]
      <4> HIDE DEF s
      <4> QED BY <2>0
    <3> HIDE DEF s
    <3>2. ASSUME NEW d \in Panels, NEW i \in DOMAIN s, s[i] = d
          PROVE  d = Head(s) \/ \E j \in DOMAIN Tail(s) : Tail(s)[j] = d
      <4>1. CASE i = 1
        BY <3>1, <3>2, <4>1
      <4>2. CASE i # 1
        <5>1. i - 1 \in DOMAIN Tail(s) /\ Tail(s)[i - 1] = s[(i - 1) + 1] /\ (i - 1) + 1 = i
          BY <3>1, <4>2
        <5> QED BY <3>2, <5>1
      <4> QED BY <4>1, <4>2
    <3>3. ASSUME NEW d \in Panels, d = Head(s) \/ \E j \in DOMAIN Tail(s) : Tail(s)[j] = d
          PROVE  \E i \in DOMAIN s : s[i] = d
      <4>1. CASE d = Head(s)
        BY <3>1, <4>1
      <4>2. ASSUME NEW j \in DOMAIN Tail(s), Tail(s)[j] = d PROVE \E i \in DOMAIN s : s[i] = d
        <5>1. j + 1 \in DOMAIN s /\ s[j + 1] = d
          BY <3>1, <4>2
        <5> QED BY <5>1
      <4> QED BY <3>3, <4>1, <4>2
    <3> QED BY <3>2, <3>3
  <2>4. Agrees(w)'
    <3>1. answers'[w] = Tail(s) /\ saved'[w] = saved[w] \cup {Head(s)}
      BY <1>u, <2>0 DEF LookupTypes
    <3>2. \A d \in Panels : records[w][d] = "answered" <=> d \in saved[w] \/ \E i \in DOMAIN s : s[i] = d
      BY <2>0 DEF Agrees
    <3> HIDE DEF s
    <3> QED BY <2>0, <2>3, <3>1, <3>2 DEF Agrees
  <2> QED BY <2>1, <2>2, <2>4, OnePage
<1>7. ASSUME NEW w \in Views, CommitChecks(w) PROVE LookupInv'
  BY <1>u, <1>7, LookEnds DEF CommitChecks, LookupTypes
<1>8. ASSUME NEW w \in Views, AbortLookup(w) PROVE LookupInv'
  BY <1>u, <1>8, LookEnds DEF AbortLookup, LookupTypes
<1>9. ASSUME NEW c \in Panels, Expire(c) PROVE LookupInv'
  <2>1. LookupTypes'
    BY <1>u, <1>9 DEF LookupTypes, Expire
  <2>2. ASSUME NEW w \in Views PROVE Agrees(w)'
    BY <1>u, <1>9, OtherPages DEF Expire
  <2> QED BY <2>1, <2>2 DEF LookupInv
<1>10. ASSUME UNCHANGED lookupVars PROVE LookupInv'
  <2>1. LookupTypes'
    BY <1>u, <1>10 DEF LookupTypes, lookupVars
  <2>2. ASSUME NEW w \in Views PROVE Agrees(w)'
    BY <1>u, <1>10, OtherPages DEF lookupVars
  <2> QED BY <2>1, <2>2 DEF LookupInv
<1> QED
  BY <1>1, <1>2, <1>3, <1>4, <1>5, <1>6, <1>7, <1>8, <1>9, <1>10 DEF LookupNext, LookupVictim

LEMMA LookupAlways == LookupInit /\ [][LookupNext]_lookupVars => []LookupInv
BY LookupInitial, LookupStep, PTL

\* The invariant holds the types.
LEMMA LookupInvType == LookupInv => LookupTypeOK
BY DEF LookupInv, LookupTypes, Agrees, LookupTypeOK

\* A page says "answered" of exactly the couriers that answered and that it saves.
THEOREM LookupTypesCorrect == LookupSpec => []LookupTypeOK
BY LookupAlways, LookupInvType, PTL DEF LookupSpec

-----------------------------------------------------------------------------
(* All of them. *)

dashboardVars == <<part, teamVars, zoneVars, providerVars, categoryVars, slugVars,
                   reviewVars, lookupVars>>

\* Whatever part runs, a step is one of each part's or leaves it alone.
LEMMA DashboardStep ==
    [DashboardNext]_dashboardVars =>
        /\ [TeamNext]_teamVars /\ [ZoneNext]_zoneVars /\ [ProviderNext]_providerVars
        /\ [CategoryNext]_categoryVars /\ [SlugNext]_slugVars /\ [ReviewNext]_reviewVars
        /\ [LookupNext]_lookupVars
<1>1. ASSUME NEW p \in Parts \ {part}, AtRest(p), part \in Parts
      PROVE  /\ p = "team" => UNCHANGED teamVars
             /\ p = "zones" => UNCHANGED zoneVars
             /\ p = "providers" => UNCHANGED providerVars
             /\ p = "categories" => UNCHANGED categoryVars
             /\ p = "addresses" => UNCHANGED slugVars
             /\ p = "reviews" => UNCHANGED reviewVars
             /\ p = "lookups" => UNCHANGED lookupVars
  BY <1>1 DEF AtRest, Parts
<1>2. ASSUME UNCHANGED dashboardVars
      PROVE  /\ UNCHANGED teamVars /\ UNCHANGED zoneVars /\ UNCHANGED providerVars
             /\ UNCHANGED categoryVars /\ UNCHANGED slugVars /\ UNCHANGED reviewVars
             /\ UNCHANGED lookupVars
  BY <1>2 DEF dashboardVars
<1>3. ASSUME DashboardNext
      PROVE  /\ [TeamNext]_teamVars /\ [ZoneNext]_zoneVars /\ [ProviderNext]_providerVars
             /\ [CategoryNext]_categoryVars /\ [SlugNext]_slugVars /\ [ReviewNext]_reviewVars
             /\ [LookupNext]_lookupVars
  BY <1>1, <1>3 DEF DashboardNext, Parts
<1> QED
  BY <1>2, <1>3

\* So each part behaves as its own specification says.
LEMMA DashboardParts ==
    DashboardSpec => /\ TeamSpec /\ ZoneSpec /\ ProviderSpec /\ CategorySpec /\ SlugSpec /\ ReviewSpec
                     /\ LookupInit /\ [][LookupNext]_lookupVars
<1>1. DashboardInit => /\ TeamInit /\ ZoneInit /\ ProviderInit /\ CategoryInit /\ SlugInit /\ ReviewInit
                       /\ LookupInit
  BY DEF DashboardInit
<1>2. DashboardSpec => DashboardInit /\ [][DashboardNext]_dashboardVars
  BY DEF DashboardSpec, dashboardVars
<1> QED
  BY <1>1, <1>2, DashboardStep, PTL
  DEF TeamSpec, ZoneSpec, ProviderSpec, CategorySpec, SlugSpec, ReviewSpec

\* Every table of the dashboard holds what its type says, and no row that refers to one that is gone.
THEOREM DashboardTypesCorrect == DashboardSpec => []DashboardTypeOK
<1>1. SlugInv => SlugTypeOK
  BY DEF SlugInv
<1>2. (/\ TeamTypeOK /\ ZoneTypeOK /\ ProviderTypeOK /\ CategoryTypeOK /\ SlugTypeOK /\ ReviewTypeOK
       /\ LookupTypeOK) => DashboardTypeOK
  BY DEF DashboardTypeOK
<1> QED
  BY <1>1, <1>2, DashboardParts, TeamTypesCorrect, ZoneTypesCorrect, ProviderTypesCorrect,
     CategoryTypesCorrect, SlugAlways, ReviewTypesCorrect, LookupAlways, LookupInvType, PTL
===============================================================================
