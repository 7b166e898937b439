-------------------------------- MODULE Audit --------------------------------
(***************************************************************************)
(* The audit log (audit in httpapi/admin.go) beside the one row it tells   *)
(* of: the shop's settings, or a discount.  A save reads the row for the   *)
(* entry's before, updates it, and writes its entry, in one transaction;   *)
(* nothing locks the row between the first two.                            *)
(***************************************************************************)
EXTENDS Requests, Integers

CONSTANTS
    Contents,   \* what the row can hold
    MaxEntries  \* ids the log's identity column gives: a bound

ASSUME AuditAssumption ==
    /\ None \notin Contents \cup Workers
    /\ None \notin [before : Contents, after : Contents \cup {None}]
    /\ MaxEntries \in Nat

VARIABLES
    row,      \* the row as committed, None once it is deleted
    editor,   \* the save that has written the row and not committed
    nextId,   \* the next id of the log; a save that rolls back leaves a gap
    log,      \* log[i]: the entry with id i as committed, None for none
    auditPc,  \* auditPc[w]: what save w does next
    writes,   \* writes[w]: what it puts in the row, None to delete it
    before,   \* before[w]: the row as it read it
    entryId   \* entryId[w]: the id of its entry

auditReqs == <<auditPc, writes, before, entryId>>
auditVars == <<row, editor, nextId, log, auditReqs>>

Ids == 1 .. MaxEntries

AuditInit ==
    /\ row \in Contents
    /\ editor = None
    /\ nextId = 1
    /\ log = [i \in Ids |-> None]
    /\ auditPc = [w \in Workers |-> "idle"]
    /\ writes = [w \in Workers |-> None]
    /\ before = [w \in Workers |-> None]
    /\ entryId = [w \in Workers |-> 0]

AuditGoto(w, step) == auditPc' = [auditPc EXCEPT ![w] = step]

AuditDone(w) ==
    /\ AuditGoto(w, "idle")
    /\ writes' = [writes EXCEPT ![w] = None]
    /\ before' = [before EXCEPT ![w] = None]
    /\ entryId' = [entryId EXCEPT ![w] = 0]
    /\ editor' = IF editor = w THEN None ELSE editor

\* UpdateStore or saveDiscount reads the row before it writes; DeleteDiscount does not.
AskSave(w, x) ==
    /\ auditPc[w] = "idle" /\ nextId <= MaxEntries
    /\ AuditGoto(w, IF x = None THEN "writing" ELSE "reading")
    /\ writes' = [writes EXCEPT ![w] = x]
    /\ UNCHANGED <<row, editor, nextId, log, before, entryId>>

\* GetStoreSettings, DiscountByID: a row that is gone is not found.
ReadBefore(w) ==
    /\ auditPc[w] = "reading"
    /\ IF row # None
       THEN /\ before' = [before EXCEPT ![w] = row]
            /\ AuditGoto(w, "writing")
            /\ UNCHANGED <<editor, writes, entryId>>
       ELSE AuditDone(w)
    /\ UNCHANGED <<row, nextId, log>>

\* UpdateStoreSettings, UpdateDiscount or DeleteDiscount waits for the row; the last returns
\* what it held.
WriteRow(w) ==
    /\ auditPc[w] = "writing"
    /\ editor = None
    /\ IF row # None
       THEN /\ editor' = w
            /\ before' = [before EXCEPT ![w] = IF writes[w] = None THEN row ELSE before[w]]
            /\ AuditGoto(w, "logging")
            /\ UNCHANGED <<writes, entryId>>
       ELSE AuditDone(w)
    /\ UNCHANGED <<row, nextId, log>>

\* Mutant: the entry is written through the pool, not the transaction.
InsertAuditApart(w) ==
    /\ auditPc[w] = "logging" /\ nextId <= MaxEntries
    /\ entryId' = [entryId EXCEPT ![w] = nextId]
    /\ log' = [log EXCEPT ![nextId] = [before |-> before[w], after |-> writes[w]]]
    /\ nextId' = nextId + 1
    /\ AuditGoto(w, "committing")
    /\ UNCHANGED <<row, editor, writes, before>>

\* InsertAudit takes an id, which no transaction gives back.
InsertAudit(w) ==
    /\ auditPc[w] = "logging" /\ nextId <= MaxEntries
    /\ entryId' = [entryId EXCEPT ![w] = nextId]
    /\ nextId' = nextId + 1
    /\ AuditGoto(w, "committing")
    /\ UNCHANGED <<row, editor, log, writes, before>>

CommitSave(w) ==
    /\ auditPc[w] = "committing"
    /\ row' = writes[w]
    /\ log' = [log EXCEPT ![entryId[w]] = [before |-> before[w], after |-> writes[w]]]
    /\ AuditDone(w)
    /\ UNCHANGED nextId

\* A client that goes away, a server that stops.
AbortSave(w) ==
    /\ auditPc[w] # "idle"
    /\ AuditDone(w)
    /\ UNCHANGED <<row, nextId, log>>

AuditNext == \E w \in Workers :
    \/ \E x \in Contents \cup {None} : AskSave(w, x)
    \/ ReadBefore(w) \/ WriteRow(w) \/ InsertAudit(w) \/ CommitSave(w) \/ AbortSave(w)

AuditSpec == AuditInit /\ [][AuditNext]_auditVars

-----------------------------------------------------------------------------
(* Properties. *)

Entries == {i \in Ids : log[i] # None}

AuditTypeOK ==
    /\ row \in Contents \cup {None}
    /\ editor \in Workers \cup {None}
    /\ nextId \in 1 .. MaxEntries + 1
    /\ log \in [Ids -> [before : Contents, after : Contents \cup {None}] \cup {None}]
    /\ \A i \in Entries : i < nextId
    /\ auditPc \in [Workers -> {"idle", "reading", "writing", "logging", "committing"}]
    /\ writes \in [Workers -> Contents \cup {None}]
    /\ before \in [Workers -> Contents \cup {None}]
    /\ entryId \in [Workers -> 0 .. MaxEntries]

\* "Records a change in the transaction that made it, so the two can never disagree"
\* (admin.go:184): read by id, which is how ListAudit reads it, the log ends with what the row
\* holds, and what an entry says was there before had been, however saves overlap and fail.
AuditTells ==
    \A i \in Entries :
        /\ (\A j \in Entries : j <= i) => log[i].after = row
        /\ \E j \in Entries :
              \/ j < i /\ log[j].after = log[i].before
              \/ (\A k \in Entries : j <= k) /\ log[j].before = log[i].before  \* as it was at first
=============================================================================
