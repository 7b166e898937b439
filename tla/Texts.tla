------------------------------- MODULE Texts -------------------------------
(***************************************************************************)
(* Texts to customers (httpapi/notify.go, sms/).  A request that moved an  *)
(* order commits, then looks whether an SMS gateway is on and queues a job *)
(* with River, which tries it a few times.  Nothing ties the commit to the *)
(* queueing, and a gateway may take a text without the shop hearing of it. *)
(***************************************************************************)
EXTENDS Requests, Integers, FiniteSets

CONSTANTS
    Orders,
    MaxAttempts,  \* InsertOpts.MaxAttempts: 5 in the code
    Slots,        \* MaxWorkers: 10 in the code
    MaxChanges    \* statuses an order goes through: a bound

Statuses == {"pending", "confirmed", "packed", "shipped", "delivered", "cancelled"}

\* Packed orders aren't worth a text.
Texted == Statuses \ {"packed"}
Texts == Orders \X Texted

ASSUME TextsAssumption ==
    /\ MaxAttempts \in Nat \ {0} /\ Slots \in Nat \ {0}
    /\ MaxChanges \in Nat

VARIABLES
    at,         \* at[o]: the order's status, "none" before it is placed
    gatewayOn,  \* whether an SMS gateway is switched on
    up,         \* whether the server runs
    tellPc,     \* tellPc[w]: what request w does next
    move,       \* move[w]: the order it moves, from where, and where to
    job,        \* job[t]: where River has the job of text t
    attempts,   \* attempts[t]: how often it was begun
    reached,    \* history: reached[o]: statuses the order has had
    got,        \* history: got[t]: how often the customer got it
    unheard     \* history: unheard[t]: those of them the shop did not hear of

tellVars == <<tellPc, move>>
jobVars == <<job, attempts>>
textPast == <<got, unheard>>
textVars == <<at, gatewayOn, up, tellVars, jobVars, reached, textPast>>

NoMove == [order |-> None, from |-> "none", to |-> "none"]

\* nextStatuses; an order is placed as pending, and a parcel is booked from confirmed too.
Follows(from) ==
    CASE from = "none"      -> {"pending"}
      [] from = "pending"   -> {"confirmed", "cancelled"}
      [] from = "confirmed" -> {"packed", "shipped", "cancelled"}
      [] from = "packed"    -> {"shipped", "cancelled"}
      [] from = "shipped"   -> {"delivered"}
      [] OTHER              -> {}

TextInit ==
    /\ at = [o \in Orders |-> "none"]
    /\ gatewayOn \in BOOLEAN
    /\ up = TRUE
    /\ tellPc = [w \in Workers |-> "idle"]
    /\ move = [w \in Workers |-> NoMove]
    /\ job = [t \in Texts |-> "none"]
    /\ attempts = [t \in Texts |-> 0]
    /\ reached = [o \in Orders |-> {}]
    /\ got = [t \in Texts |-> 0]
    /\ unheard = [t \in Texts |-> 0]

-----------------------------------------------------------------------------
(* The request. *)

TellGoto(w, step) == tellPc' = [tellPc EXCEPT ![w] = step]

TellDone(w) ==
    /\ TellGoto(w, "idle")
    /\ move' = [move EXCEPT ![w] = NoMove]

\* A checkout, a move by hand or a parcel's news, from a status its sender has seen.
BeginMove(w, o, to) ==
    /\ up /\ tellPc[w] = "idle"
    /\ to \in Follows(at[o]) /\ Cardinality(reached[o]) < MaxChanges
    /\ at[o] = "none" => \A x \in Workers : move[x].order # o
    /\ TellGoto(w, "moving")
    /\ move' = [move EXCEPT ![w] = [order |-> o, from |-> at[o], to |-> to]]
    /\ UNCHANGED <<at, gatewayOn, up, jobVars, reached, textPast>>

\* Mutant: an order that was not where the request thought is taken for moved.
CommitMoveUnseen(w) ==
    LET m == move[w] IN
    /\ tellPc[w] = "moving"
    /\ IF at[m.order] = m.from
       THEN /\ at' = [at EXCEPT ![m.order] = m.to]
            /\ reached' = [reached EXCEPT ![m.order] = reached[m.order] \cup {m.to}]
       ELSE UNCHANGED <<at, reached>>
    /\ TellGoto(w, "telling") /\ UNCHANGED move
    /\ UNCHANGED <<gatewayOn, up, jobVars, textPast>>

\* The transaction: SetOrderStatus moves the order if it still is where it was seen.
CommitMove(w) ==
    LET m == move[w] IN
    /\ tellPc[w] = "moving"
    /\ IF at[m.order] = m.from
       THEN /\ at' = [at EXCEPT ![m.order] = m.to]
            /\ reached' = [reached EXCEPT ![m.order] = reached[m.order] \cup {m.to}]
            /\ IF m.to \in Texted
               THEN TellGoto(w, "telling") /\ UNCHANGED move
               ELSE TellDone(w)
       ELSE TellDone(w) /\ UNCHANGED <<at, reached>>
    /\ UNCHANGED <<gatewayOn, up, jobVars, textPast>>

\* textCustomer reads which gateway is on.
LookForGateway(w) ==
    /\ tellPc[w] = "telling"
    /\ IF gatewayOn THEN TellGoto(w, "queueing") /\ UNCHANGED move ELSE TellDone(w)
    /\ UNCHANGED <<at, gatewayOn, up, jobVars, reached, textPast>>

\* jobs.Insert.
QueueText(w) ==
    LET t == <<move[w].order, move[w].to>> IN
    /\ tellPc[w] = "queueing"
    /\ job' = [job EXCEPT ![t] = "waiting"]
    /\ attempts' = [attempts EXCEPT ![t] = 0]
    /\ TellDone(w)
    /\ UNCHANGED <<at, gatewayOn, up, reached, textPast>>

\* A refusal, a client that goes away (its context is that of every statement, the queueing
\* included), or an insert that fails, which is only logged.
CutShort(w) ==
    /\ tellPc[w] # "idle"
    /\ TellDone(w)
    /\ UNCHANGED <<at, gatewayOn, up, jobVars, reached, textPast>>

-----------------------------------------------------------------------------
(* The job. *)

Tried == {"begun", "calling"}

\* River hands a job to a free slot and counts the attempt.
Fetch(t) ==
    /\ up /\ job[t] = "waiting"
    /\ Cardinality({s \in Texts : job[s] \in Tried}) < Slots
    /\ job' = [job EXCEPT ![t] = "begun"]
    /\ attempts' = [attempts EXCEPT ![t] = attempts[t] + 1]
    /\ UNCHANGED <<at, gatewayOn, up, tellVars, reached, textPast>>

\* An attempt that returned an error: another one, as long as some are left.
Again(t) ==
    /\ job' = [job EXCEPT ![t] = IF attempts[t] < MaxAttempts THEN "waiting" ELSE "given_up"]
    /\ UNCHANGED attempts

\* Mutant: with the gateway off the job is put off (river.JobSnooze), which does not count.
FindGatewaySnoozing(t) ==
    /\ up /\ job[t] = "begun"
    /\ \/ gatewayOn /\ job' = [job EXCEPT ![t] = "calling"] /\ UNCHANGED attempts
       \/ ~gatewayOn /\ job' = [job EXCEPT ![t] = "waiting"] /\ attempts' = [attempts EXCEPT ![t] = attempts[t] - 1]
       \/ Again(t)
    /\ UNCHANGED <<at, gatewayOn, up, tellVars, reached, textPast>>

\* Work reads which gateway is on now; reading it, or opening its keys, may fail.
FindGateway(t) ==
    /\ up /\ job[t] = "begun"
    /\ \/ /\ job' = [job EXCEPT ![t] = IF gatewayOn THEN "calling" ELSE "dropped"]
          /\ UNCHANGED attempts
       \/ Again(t)
    /\ UNCHANGED <<at, gatewayOn, up, tellVars, reached, textPast>>

\* Mutant: any reply but "sent" is tried again, one that says the text was queued too.
HeardTwice(t) ==
    \/ /\ got' = [got EXCEPT ![t] = got[t] + 1]
       /\ Again(t)
    \/ /\ job' = [job EXCEPT ![t] = "refused"]
       /\ UNCHANGED <<attempts, got>>

\* A reply that can be read: the text is taken, or refused for good (sms.Refused, JobCancel).
Heard(t) ==
    \/ /\ job' = [job EXCEPT ![t] = "sent"]
       /\ got' = [got EXCEPT ![t] = got[t] + 1]
       /\ UNCHANGED attempts
    \/ /\ job' = [job EXCEPT ![t] = "refused"]
       /\ UNCHANGED <<attempts, got>>

\* No reply within 20 seconds, or none that can be read, or the server is stopping: the text
\* may have been taken all the same.
Unheard(t) ==
    /\ \/ got' = [got EXCEPT ![t] = got[t] + 1] /\ unheard' = [unheard EXCEPT ![t] = unheard[t] + 1]
       \/ UNCHANGED textPast
    /\ Again(t)

\* sms.Send.
Send(t) ==
    /\ up /\ job[t] = "calling"
    /\ \/ Heard(t) /\ UNCHANGED unheard
       \/ Unheard(t)
    /\ UNCHANGED <<at, gatewayOn, up, tellVars, reached>>

\* The server stops without a word (a crash, or jobs not done 15 seconds after a signal):
\* requests are gone, jobs stay marked as running, and what they were sending may arrive.  A
\* stop between the gateway's reply and River's record of the job is one of these: the reply
\* was read, but as nothing was recorded the text counts as unheard.
Stop ==
    /\ up /\ up' = FALSE
    /\ tellPc' = [w \in Workers |-> "idle"]
    /\ move' = [w \in Workers |-> NoMove]
    /\ job' = [t \in Texts |-> IF job[t] \in Tried THEN "stuck" ELSE job[t]]
    /\ \E taken \in SUBSET {t \in Texts : job[t] = "calling"} :
           /\ got' = [t \in Texts |-> IF t \in taken THEN got[t] + 1 ELSE got[t]]
           /\ unheard' = [t \in Texts |-> IF t \in taken THEN unheard[t] + 1 ELSE unheard[t]]
    /\ UNCHANGED <<at, gatewayOn, attempts, reached>>

Restart ==
    /\ ~up /\ up' = TRUE
    /\ UNCHANGED <<at, gatewayOn, tellVars, jobVars, reached, textPast>>

\* River's rescuer: a job that has been running for an hour has lost its server, for none
\* takes longer than a minute.
Rescue(t) ==
    /\ up /\ job[t] = "stuck"
    /\ Again(t)
    /\ UNCHANGED <<at, gatewayOn, up, tellVars, reached, textPast>>

SwitchGateway ==
    /\ gatewayOn' = ~gatewayOn
    /\ UNCHANGED <<at, up, tellVars, jobVars, reached, textPast>>

TextNext ==
    \/ \E w \in Workers :
        \/ \E o \in Orders, to \in Statuses : BeginMove(w, o, to)
        \/ CommitMove(w) \/ LookForGateway(w) \/ QueueText(w) \/ CutShort(w)
    \/ \E t \in Texts : Fetch(t) \/ FindGateway(t) \/ Send(t) \/ Rescue(t)
    \/ Stop \/ Restart \/ SwitchGateway

\* River takes some waiting job and some stuck one if there are such again and again, a call
\* ends within 20 seconds, and a server that has stopped is started again.  Nothing makes
\* customers, staff or stops happen.
TextFairness ==
    /\ WF_textVars(Restart)
    /\ SF_textVars(\E t \in Texts : Fetch(t))
    /\ WF_textVars(\E t \in Texts : FindGateway(t) \/ Send(t))
    /\ SF_textVars(\E t \in Texts : Rescue(t))

TextSpec == TextInit /\ [][TextNext]_textVars /\ TextFairness

-----------------------------------------------------------------------------
(* Properties. *)

Ended == {"sent", "dropped", "refused", "given_up"}

TextTypeOK ==
    /\ at \in [Orders -> Statuses \cup {"none"}]
    /\ gatewayOn \in BOOLEAN /\ up \in BOOLEAN
    /\ tellPc \in [Workers -> {"idle", "moving", "telling", "queueing"}]
    /\ move \in [Workers -> [order : Orders \cup {None}, from : Statuses \cup {"none"}, to : Statuses \cup {"none"}]]
    /\ job \in [Texts -> {"none", "waiting", "stuck"} \cup Tried \cup Ended]
    /\ attempts \in [Texts -> 0 .. MaxAttempts]
    /\ reached \in [Orders -> SUBSET Statuses]
    /\ got \in [Texts -> 0 .. MaxAttempts]
    /\ unheard \in [Texts -> 0 .. MaxAttempts]

\* A customer is told of a status only once the order has had it: a change that was rolled
\* back, refused or overtaken by another one sends nothing.
TextsTrue == \A o \in Orders, s \in Texted : got[<<o, s>>] > 0 => s \in reached[o]

\* A customer gets a text twice only when the shop did not hear that the gateway took it,
\* whoever clicks twice and however the server stops.
FewTexts == \A t \in Texts : got[t] <= unheard[t] + 1

\* A text that was queued comes to an end: sent, refused, dropped or given up.
TextsEnd == \A t \in Texts : (job[t] \notin Ended \cup {"none"}) ~> (job[t] \in Ended)
=============================================================================
