------------------------------ MODULE Lookups ------------------------------
(***************************************************************************)
(* What couriers know of a customer's phone number                         *)
(* (OrderDeliveryHistory in httpapi/history.go, courier/history.go).  A    *)
(* page takes answers younger than a day from phone_checks, asks the other *)
(* couriers side by side, and saves what they say in one transaction, in   *)
(* the order they answered.  One phone number: pages of different ones     *)
(* share no row.                                                           *)
(***************************************************************************)
EXTENDS Integers, Sequences

CONSTANTS
    Panels,  \* couriers whose merchant panel can be asked
    Views    \* pages that may be open at once: a bound

VARIABLES
    checks,    \* couriers with a check younger than a day
    lookPc,    \* lookPc[w]: what page w does next
    waiting,   \* waiting[w]: couriers it has asked and not heard from
    answers,   \* answers[w]: those that answered and are still to be saved, in that order
    saved,     \* saved[w]: those it has saved and not committed, whose rows it locks
    records    \* records[w]: what the page says of each courier

lookupVars == <<checks, lookPc, waiting, answers, saved, records>>

NoRecords == [c \in Panels |-> "none"]

LookupInit ==
    /\ checks = {}
    /\ lookPc = [w \in Views |-> "idle"]
    /\ waiting = [w \in Views |-> {}]
    /\ answers = [w \in Views |-> <<>>]
    /\ saved = [w \in Views |-> {}]
    /\ records = [w \in Views |-> NoRecords]

LookGoto(w, step) == lookPc' = [lookPc EXCEPT ![w] = step]

LookDone(w) ==
    /\ LookGoto(w, "idle")
    /\ waiting' = [waiting EXCEPT ![w] = {}]
    /\ answers' = [answers EXCEPT ![w] = <<>>]
    /\ saved' = [saved EXCEPT ![w] = {}]
    /\ records' = [records EXCEPT ![w] = NoRecords]

OpenOrder(w) ==
    /\ lookPc[w] = "idle"
    /\ LookGoto(w, "reading")
    /\ UNCHANGED <<checks, waiting, answers, saved, records>>

\* RecentPhoneChecks, then the couriers that are switched on: those without a check are asked.
AskCouriers(w, on) ==
    /\ lookPc[w] = "reading"
    /\ LookGoto(w, "asking")
    /\ waiting' = [waiting EXCEPT ![w] = on \ checks]
    /\ records' = [records EXCEPT ![w] = [c \in Panels |-> IF c \in on \cap checks THEN "kept" ELSE "none"]]
    /\ UNCHANGED <<checks, answers, saved>>

\* courier.History ends, and its goroutine notes the answer or the error under the mutex.
Answer(w, c) ==
    /\ lookPc[w] = "asking" /\ c \in waiting[w]
    /\ waiting' = [waiting EXCEPT ![w] = waiting[w] \ {c}]
    /\ \/ /\ answers' = [answers EXCEPT ![w] = Append(answers[w], c)]
          /\ records' = [records EXCEPT ![w] = [records[w] EXCEPT ![c] = "answered"]]
       \/ /\ records' = [records EXCEPT ![w] = [records[w] EXCEPT ![c] = "error"]]
          /\ UNCHANGED answers
    /\ UNCHANGED <<checks, lookPc, saved>>

\* Mutant: the couriers are asked with the request's context, which has no end of its own.
TimeOutNever(w) == lookPc[w] = "asking" /\ FALSE

\* lookupCtx: after twelve seconds whoever has not answered is an error.
TimeOut(w) ==
    /\ lookPc[w] = "asking" /\ waiting[w] # {}
    /\ waiting' = [waiting EXCEPT ![w] = {}]
    /\ records' = [records EXCEPT ![w] = [c \in Panels |-> IF c \in waiting[w] THEN "error" ELSE records[w][c]]]
    /\ UNCHANGED <<checks, lookPc, answers, saved>>

\* wg.Wait, and the page if there is nothing to save.
AllHeard(w) ==
    /\ lookPc[w] = "asking" /\ waiting[w] = {}
    /\ IF answers[w] = <<>>
       THEN LookDone(w)
       ELSE LookGoto(w, "saving") /\ UNCHANGED <<waiting, answers, saved, records>>
    /\ UNCHANGED checks

\* The page that keeps w from saving its next check.
SaversOf(w) ==
    IF lookPc[w] = "saving" /\ answers[w] # <<>>
    THEN {x \in Views \ {w} : Head(answers[w]) \in saved[x]}
    ELSE {}

\* SavePhoneCheck: waits for whoever has written the courier's row for this number.
SaveCheck(w) ==
    /\ lookPc[w] = "saving" /\ answers[w] # <<>>
    /\ SaversOf(w) = {}
    /\ saved' = [saved EXCEPT ![w] = saved[w] \cup {Head(answers[w])}]
    /\ answers' = [answers EXCEPT ![w] = Tail(answers[w])]
    /\ UNCHANGED <<checks, lookPc, waiting, records>>

CommitChecks(w) ==
    /\ lookPc[w] = "saving" /\ answers[w] = <<>>
    /\ checks' = checks \cup saved[w]
    /\ LookDone(w)

\* A client that goes away, a server that stops, an account whose keys cannot be opened.
AbortLookup(w) ==
    /\ lookPc[w] # "idle"
    /\ LookDone(w)
    /\ UNCHANGED checks

\* Pages that saved two couriers in opposite orders wait for each other until PostgreSQL ends
\* one; its answers are lost, and its page is an error.
LookupVictim(w) ==
    /\ \E W \in SUBSET Views : w \in W /\ \A x \in W : SaversOf(x) \cap W # {}
    /\ AbortLookup(w)

\* A day goes by.
Expire(c) ==
    /\ c \in checks
    /\ checks' = checks \ {c}
    /\ UNCHANGED <<lookPc, waiting, answers, saved, records>>

LookupNext ==
    \/ \E w \in Views :
        \/ OpenOrder(w) \/ \E on \in SUBSET Panels : AskCouriers(w, on)
        \/ \E c \in Panels : Answer(w, c)
        \/ TimeOut(w) \/ AllHeard(w) \/ SaveCheck(w) \/ CommitChecks(w)
        \/ AbortLookup(w) \/ LookupVictim(w)
    \/ \E c \in Panels : Expire(c)

\* The server goes on with what it has, the clock with twelve seconds, PostgreSQL gives a row to
\* each who waits for it, and finds a circle that stays.  Nothing makes a courier answer.
LookupFairness == \A w \in Views : SF_lookupVars(
    \/ \E on \in SUBSET Panels : AskCouriers(w, on)
    \/ TimeOut(w) \/ AllHeard(w) \/ SaveCheck(w) \/ CommitChecks(w) \/ LookupVictim(w))

LookupSpec == LookupInit /\ [][LookupNext]_lookupVars /\ LookupFairness

-----------------------------------------------------------------------------
(* Properties. *)

\* Types, and that a page says something of each courier it asked and has done with.
LookupTypeOK ==
    /\ checks \subseteq Panels
    /\ lookPc \in [Views -> {"idle", "reading", "asking", "saving"}]
    /\ waiting \in [Views -> SUBSET Panels]
    /\ answers \in [Views -> Seq(Panels)]
    /\ saved \in [Views -> SUBSET Panels]
    /\ records \in [Views -> [Panels -> {"none", "kept", "answered", "error"}]]
    /\ \A w \in Views, c \in Panels :
           records[w][c] = "answered" <=> c \in saved[w] \/ \E i \in DOMAIN answers[w] : answers[w][i] = c

\* "Couriers are asked side by side, and none may hold the page up for long" (history.go:54): a
\* page that was opened ends, though couriers never answer and pages wait for each other's rows.
LookupsEnd == \A w \in Views : lookPc[w] # "idle" ~> lookPc[w] = "idle"
=============================================================================
