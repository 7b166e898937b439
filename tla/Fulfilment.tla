----------------------------- MODULE Fulfilment -----------------------------
(***************************************************************************)
(* An order after it is placed: paying it online (httpapi/payments.go),    *)
(* sending it with a courier (httpapi/shipments.go) and moving it by hand. *)
(*                                                                         *)
(* A request that talks to a courier does so between two transactions,     *)
(* with what the first one read.  Such a request is a worker; one action   *)
(* is one transaction, or one call with its answer.  The others are one    *)
(* transaction each, serialised by the row they update first.              *)
(***************************************************************************)
EXTENDS Integers, FiniteSets

CONSTANTS
    Workers,    \* requests about parcels that may be under way at once
    Orders,
    Payments,   \* tries at paying (payments.tran_id): a bound
    Parcels,    \* consignments the courier may give out: a bound
    Crashes,    \* whether a request may be cut short by its client or the server
    None        \* SQL NULL, and "no such row"

Status == {"pending", "confirmed", "packed", "shipped", "delivered", "cancelled"}

\* The courier's own words for where a parcel is.
CourierWords == {"in_review", "partial_delivered", "delivered", "cancelled"}

ASSUME FulfilmentAssumption ==
    /\ Crashes \in BOOLEAN
    /\ None \notin Workers \cup Orders \cup Payments \cup Parcels
    /\ None \notin Status

VARIABLES
    status,   \* orders.status
    method,   \* orders.payment_method
    paid,     \* orders.paid_at is set
    notes,    \* how many "Paid ... online" entries the order's timeline has
    word,     \* shipments.courier_status, "none" for no shipment
    cod,      \* shipments.cod_amount: whether the rider collects the total
    parcel,   \* shipments.consignment_id
    of,       \* of[p]: the order payment p is for, None before it exists
    state,    \* payments.status
    settled,  \* payments the customer has made at the gateway
    sent,     \* sent[q]: the order parcel q was booked for at the courier
    carries,  \* carries[q]: whether its rider collects the total
    where,    \* where[q]: the courier's word for it
    pc,       \* pc[w]: what worker w's request does next
    about,    \* about[w]: the order it is about
    from,     \* from[w]: that order's status when it was read
    due,      \* due[w]: whether the rider is to collect, worked out then
    got,      \* got[w]: the parcel the courier booked or is asked about
    heard     \* heard[w]: the courier's answer about it

orders   == <<status, method, paid, notes>>
shipment == <<word, cod, parcel>>
payments == <<of, state, settled>>
courier  == <<sent, carries, where>>
reqs     == <<pc, about, from, due, got, heard>>
vars     == <<orders, shipment, payments, courier, reqs>>

Steps == {"idle", "claiming", "calling", "saving", "releasing", "asking", "hearing"}

\* A request that has claimed its order's parcel.
Booking == {"calling", "saving", "releasing"}

TypeOK ==
    /\ status \in [Orders -> Status]
    /\ method \in [Orders -> {"cod", "online"}]
    /\ paid \in [Orders -> BOOLEAN]
    /\ notes \in [Orders -> Nat]
    /\ word \in [Orders -> {"none", "booking"} \cup CourierWords]
    /\ cod \in [Orders -> BOOLEAN]
    /\ parcel \in [Orders -> Parcels \cup {None}]
    /\ of \in [Payments -> Orders \cup {None}]
    /\ state \in [Payments -> {"pending", "paid"}]
    /\ settled \subseteq Payments
    /\ sent \in [Parcels -> Orders \cup {None}]
    /\ carries \in [Parcels -> BOOLEAN]
    /\ where \in [Parcels -> CourierWords]
    /\ pc \in [Workers -> Steps]
    /\ about \in [Workers -> Orders \cup {None}]
    /\ from \in [Workers -> Status \cup {None}]
    /\ due \in [Workers -> BOOLEAN]
    /\ got \in [Workers -> Parcels \cup {None}]
    /\ heard \in [Workers -> CourierWords \cup {None}]

Init ==
    /\ status = [o \in Orders |-> "pending"]
    /\ method \in [Orders -> {"cod", "online"}]
    /\ paid = [o \in Orders |-> FALSE]
    /\ notes = [o \in Orders |-> 0]
    /\ word = [o \in Orders |-> "none"]
    /\ cod = [o \in Orders |-> FALSE]
    /\ parcel = [o \in Orders |-> None]
    /\ of = [p \in Payments |-> None]
    /\ state = [p \in Payments |-> "pending"]
    /\ settled = {}
    /\ sent = [q \in Parcels |-> None]
    /\ carries = [q \in Parcels |-> FALSE]
    /\ where = [q \in Parcels |-> "in_review"]
    /\ pc = [w \in Workers |-> "idle"]
    /\ about = [w \in Workers |-> None]
    /\ from = [w \in Workers |-> None]
    /\ due = [w \in Workers |-> FALSE]
    /\ got = [w \in Workers |-> None]
    /\ heard = [w \in Workers |-> None]

Goto(w, step) == pc' = [pc EXCEPT ![w] = step]

\* The request answers.
Finish(w) ==
    /\ Goto(w, "idle")
    /\ about' = [about EXCEPT ![w] = None]
    /\ from' = [from EXCEPT ![w] = None]
    /\ due' = [due EXCEPT ![w] = FALSE]
    /\ got' = [got EXCEPT ![w] = None]
    /\ heard' = [heard EXCEPT ![w] = None]

-----------------------------------------------------------------------------
(* Moving an order by hand. *)

NextStatuses(s) ==
    CASE s = "pending"   -> {"confirmed", "cancelled"}
      [] s = "confirmed" -> {"packed", "cancelled"}
      [] s = "packed"    -> {"shipped", "cancelled"}
      [] s = "shipped"   -> {"delivered"}
      [] OTHER           -> {}

SetOrderStatus(o, to) ==
    /\ to \in NextStatuses(status[o])
    /\ status' = [status EXCEPT ![o] = to]
    /\ UNCHANGED <<method, paid, notes, shipment, payments, courier, reqs>>

-----------------------------------------------------------------------------
(* Paying online. *)

\* A pending payment is kept before the gateway is called, and stays when it refuses.
StartPayment(p, o) ==
    /\ of[p] = None
    /\ method[o] = "online"
    /\ ~paid[o]
    /\ status[o] # "cancelled"
    /\ of' = [of EXCEPT ![p] = o]
    /\ UNCHANGED <<orders, shipment, state, settled, courier, reqs>>

\* The customer pays at the gateway, at any time and as often as there are payments.
Settle(p) ==
    /\ of[p] # None
    /\ settled' = settled \cup {p}
    /\ UNCHANGED <<orders, shipment, of, state, courier, reqs>>

\* Mutant: MarkOrderPaid without its paid_at IS NULL.
FirstPaymentAlways(o) == o \in Orders

\* MarkOrderPaid: only an order not paid yet.
FirstPayment(o) == ~paid[o]

\* The gateway vouches for the payment, then it and its order are marked paid.  A second
\* call about the payment changes nothing; a second payment leaves its order as it is.
ConfirmPayment(p) ==
    LET o == of[p] IN
    /\ p \in settled
    /\ state[p] = "pending"
    /\ state' = [state EXCEPT ![p] = "paid"]
    /\ IF FirstPayment(o)
       THEN /\ paid' = [paid EXCEPT ![o] = TRUE]
            /\ notes' = [notes EXCEPT ![o] = notes[o] + 1]
       ELSE UNCHANGED <<paid, notes>>
    /\ UNCHANGED <<status, method, shipment, of, settled, courier, reqs>>

SwitchToCOD(o) ==
    /\ method[o] = "online"
    /\ ~paid[o]
    /\ status[o] = "pending"
    /\ method' = [method EXCEPT ![o] = "cod"]
    /\ UNCHANGED <<status, paid, notes, shipment, payments, courier, reqs>>

-----------------------------------------------------------------------------
(* BookShipment. *)

Sendable == {"confirmed", "packed"}

\* Mutant: collects by how the order was to be paid.
CollectsCash(o) == method[o] = "cod"

\* The rider of an order paid online collects nothing.
Collects(o) == ~paid[o]

\* OrderByNumber: the order must be one to send; what the rider collects is settled here.
BeginBooking(w, o) ==
    /\ pc[w] = "idle"
    /\ status[o] \in Sendable
    /\ Goto(w, "claiming")
    /\ about' = [about EXCEPT ![w] = o]
    /\ from' = [from EXCEPT ![w] = status[o]]
    /\ due' = [due EXCEPT ![w] = Collects(o)]
    /\ UNCHANGED <<orders, shipment, payments, courier, got, heard>>

\* Mutant: the claim is an upsert.
UnclaimedAlways(o) == o \in Orders

\* ON CONFLICT (order_id) DO NOTHING: an order has one shipment.
Unclaimed(o) == word[o] = "none"

\* ReserveShipment, "so a second click finds it taken instead of booking twice".
ClaimParcel(w) ==
    LET o == about[w] IN
    /\ pc[w] = "claiming"
    /\ \/ /\ Unclaimed(o)
          /\ word' = [word EXCEPT ![o] = "booking"]
          /\ cod' = [cod EXCEPT ![o] = due[w]]
          /\ parcel' = [parcel EXCEPT ![o] = None]
          /\ Goto(w, "calling")
          /\ UNCHANGED <<about, from, due, got, heard>>
       \/ /\ ~Unclaimed(o)
          /\ Finish(w)
          /\ UNCHANGED shipment
    /\ UNCHANGED <<orders, payments, courier>>

\* courier.Book reaches the courier; its answer comes back, or does not within 20 seconds.
CourierBooks(w, q) ==
    /\ pc[w] = "calling"
    /\ sent[q] = None
    /\ sent' = [sent EXCEPT ![q] = about[w]]
    /\ carries' = [carries EXCEPT ![q] = due[w]]
    /\ \/ Goto(w, "saving") /\ got' = [got EXCEPT ![w] = q]
       \/ Goto(w, "releasing") /\ UNCHANGED got
    /\ UNCHANGED <<orders, shipment, payments, where, about, from, due, heard>>

\* The courier refuses, or cannot be reached.
CourierRefuses(w) ==
    /\ pc[w] = "calling"
    /\ Goto(w, "releasing")
    /\ UNCHANGED <<orders, shipment, payments, courier, about, from, due, got, heard>>

\* DropShipment: only a claim, never a parcel that was booked.
ReleaseParcel(w) ==
    LET o == about[w] IN
    /\ pc[w] = "releasing"
    /\ IF word[o] = "booking"
       THEN word' = [word EXCEPT ![o] = "none"]
       ELSE UNCHANGED word
    /\ Finish(w)
    /\ UNCHANGED <<orders, cod, parcel, payments, courier>>

\* Mutant: the order is moved to shipped whatever it has become.
StillAny(w) == about[w] \in Orders

\* moveOrder's SetOrderStatus: only from the status the request saw.
StillAsSeen(w) == status[about[w]] = from[w]

\* Mutant: the consignment is kept in a transaction of its own.
SaveBookingApart(w) ==
    LET o == about[w] IN
    /\ pc[w] = "saving"
    /\ word' = [word EXCEPT ![o] = "in_review"]
    /\ parcel' = [parcel EXCEPT ![o] = got[w]]
    /\ status' = [status EXCEPT ![o] = IF StillAsSeen(w) THEN "shipped" ELSE status[o]]
    /\ Finish(w)
    /\ UNCHANGED <<method, paid, notes, cod, payments, courier>>

\* BookedShipment and the move to shipped, together or not at all.
SaveBooking(w) ==
    LET o == about[w] IN
    /\ pc[w] = "saving"
    /\ IF word[o] # "none" /\ StillAsSeen(w)
       THEN /\ word' = [word EXCEPT ![o] = "in_review"]
            /\ parcel' = [parcel EXCEPT ![o] = got[w]]
            /\ status' = [status EXCEPT ![o] = "shipped"]
       ELSE UNCHANGED <<word, parcel, status>>
    /\ Finish(w)
    /\ UNCHANGED <<method, paid, notes, cod, payments, courier>>

-----------------------------------------------------------------------------
(* RefreshShipment. *)

BeginRefresh(w, o) ==
    /\ pc[w] = "idle"
    /\ parcel[o] # None
    /\ Goto(w, "asking")
    /\ about' = [about EXCEPT ![w] = o]
    /\ got' = [got EXCEPT ![w] = parcel[o]]
    /\ UNCHANGED <<orders, shipment, payments, courier, from, due, heard>>

\* Mutant: the courier's error is logged and the request goes on.
AskCourierAnyway(w) ==
    /\ pc[w] = "asking"
    /\ Goto(w, "hearing")
    /\ \/ heard' = [heard EXCEPT ![w] = where[got[w]]]
       \/ UNCHANGED heard
    /\ UNCHANGED <<orders, shipment, payments, courier, about, from, due, got>>

\* courier.Status, without a transaction: the word may be old when it is saved.
AskCourier(w) ==
    /\ pc[w] = "asking"
    /\ \/ /\ Goto(w, "hearing")
          /\ heard' = [heard EXCEPT ![w] = where[got[w]]]
          /\ UNCHANGED <<about, from, due, got>>
       \/ Finish(w)
    /\ UNCHANGED <<orders, shipment, payments, courier>>

Delivered(s) == s \in {"delivered", "partial_delivered"}

\* SetShipmentStatus, and shipped to delivered once the courier says so.
SaveStatus(w) ==
    LET o == about[w] IN
    /\ pc[w] = "hearing"
    /\ word' = [word EXCEPT ![o] = heard[w]]
    /\ IF Delivered(heard[w]) /\ status[o] = "shipped"
       THEN status' = [status EXCEPT ![o] = "delivered"]
       ELSE UNCHANGED status
    /\ Finish(w)
    /\ UNCHANGED <<method, paid, notes, cod, parcel, payments, courier>>

-----------------------------------------------------------------------------
\* The courier carries a parcel; what it has delivered or sent back stays so.
Carry(q, s) ==
    /\ sent[q] # None
    /\ where[q] = "in_review"
    /\ where' = [where EXCEPT ![q] = s]
    /\ UNCHANGED <<orders, shipment, payments, sent, carries, reqs>>

\* The client goes away, which cancels every later statement of its request, the server
\* stops, or a transaction fails: what was committed stays.
Die(w) ==
    /\ Crashes
    /\ pc[w] # "idle"
    /\ Finish(w)
    /\ UNCHANGED <<orders, shipment, payments, courier>>

Request(w) ==
    \/ \E o \in Orders : BeginBooking(w, o) \/ BeginRefresh(w, o)
    \/ ClaimParcel(w) \/ CourierRefuses(w) \/ ReleaseParcel(w) \/ SaveBooking(w)
    \/ \E q \in Parcels : CourierBooks(w, q)
    \/ AskCourier(w) \/ SaveStatus(w)
    \/ Die(w)

Next ==
    \/ \E w \in Workers : Request(w)
    \/ \E o \in Orders, to \in Status : SetOrderStatus(o, to)
    \/ \E o \in Orders : SwitchToCOD(o)
    \/ \E p \in Payments, o \in Orders : StartPayment(p, o)
    \/ \E p \in Payments : Settle(p) \/ ConfirmPayment(p)
    \/ \E q \in Parcels, s \in CourierWords : Carry(q, s)

Spec == Init /\ [][Next]_vars

-----------------------------------------------------------------------------
(* Properties. *)

\* A request that has claimed a parcel is alone with it until it ends: its claim is there,
\* no other request books the order, and nothing overwrites the claim meanwhile.
OneClaim ==
    \A w \in Workers : pc[w] \in Booking =>
        /\ word[about[w]] = "booking"
        /\ parcel[about[w]] = None
        /\ \A u \in Workers \ {w} : ~(pc[u] \in Booking /\ about[u] = about[w])

\* A parcel the shop has recorded is the courier's parcel for that order, collecting what
\* was recorded, and the order has left: it is shipped or delivered, never cancelled.
RecordedParcel ==
    \A o \in Orders : parcel[o] # None =>
        /\ sent[parcel[o]] = o
        /\ carries[parcel[o]] = cod[o]
        /\ word[o] \in CourierWords
        /\ status[o] \in {"shipped", "delivered"}

\* An order is paid exactly when one of its payments is, and its timeline says so once,
\* however often and for however many payments the gateway calls.
PaidOnce ==
    \A o \in Orders :
        /\ paid[o] <=> \E p \in Payments : of[p] = o /\ state[p] = "paid"
        /\ notes[o] = IF paid[o] THEN 1 ELSE 0

\* Nothing goes out for free: a rider who collects nothing carries a paid order.
FreeMeansPaid ==
    \A q \in Parcels : sent[q] # None /\ ~carries[q] => paid[sent[q]]

\* The requests together keep the promise of an order's life.
Life == INSTANCE OrderLife WITH booked <- [o \in Orders |-> parcel[o] # None]
LifeSpec == Life!Spec

\* A shipment says "booking" while a call to the courier is under way.
BookingMeansUnderWay ==
    \A o \in Orders : word[o] = "booking" =>
        \E w \in Workers : pc[w] \in Booking /\ about[w] = o
=============================================================================
