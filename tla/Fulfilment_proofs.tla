------------------------- MODULE Fulfilment_proofs -------------------------
(* Machine-checked proofs about Fulfilment, for every size of its constants. *)
EXTENDS Fulfilment, TLAPS

USE FulfilmentAssumption

-----------------------------------------------------------------------------
(* Types. *)

\* What a request at work knows.
AtWork ==
    \A w \in Workers :
        /\ pc[w] # "idle" => about[w] \in Orders
        /\ pc[w] \in {"claiming"} \cup Booking => from[w] \in Sendable
        /\ pc[w] \in {"saving", "asking", "hearing"} => got[w] \in Parcels
        /\ pc[w] = "hearing" => heard[w] \in CourierWords

ReqTypeOK ==
    /\ pc \in [Workers -> Steps]
    /\ about \in [Workers -> Orders \cup {None}]
    /\ from \in [Workers -> Status \cup {None}]
    /\ due \in [Workers -> BOOLEAN]
    /\ got \in [Workers -> Parcels \cup {None}]
    /\ heard \in [Workers -> CourierWords \cup {None}]

\* A request that ends leaves its worker idle and the others as they were.
LEMMA FinishType ==
    ASSUME TypeOK, AtWork, NEW w \in Workers, Finish(w)
    PROVE  ReqTypeOK' /\ AtWork'
<1>1. ReqTypeOK'
  BY DEF TypeOK, ReqTypeOK, Finish, Goto, Steps
<1>2. AtWork'
  BY DEF TypeOK, AtWork, Finish, Goto, Booking
<1>. QED
  BY <1>1, <1>2

LEMMA TypeStep == TypeOK /\ AtWork /\ [Next]_vars => TypeOK' /\ AtWork'
<1> SUFFICES ASSUME TypeOK, AtWork, [Next]_vars PROVE TypeOK' /\ AtWork'
  OBVIOUS
<1>1. ASSUME NEW w \in Workers, Request(w) PROVE TypeOK' /\ AtWork'
  <2>1. ASSUME NEW o \in Orders, BeginBooking(w, o) PROVE TypeOK' /\ AtWork'
    <3>1. TypeOK'
      BY <2>1 DEF TypeOK, BeginBooking, Goto, Steps, Sendable, Status, Collects,
                  orders, shipment, payments, courier
    <3>2. AtWork'
      BY <2>1 DEF TypeOK, AtWork, BeginBooking, Goto, Booking
    <3>. QED BY <3>1, <3>2
  <2>2. ASSUME NEW o \in Orders, BeginRefresh(w, o) PROVE TypeOK' /\ AtWork'
    <3>1. TypeOK'
      BY <2>2 DEF TypeOK, BeginRefresh, Goto, Steps, orders, shipment, payments, courier
    <3>2. AtWork'
      BY <2>2 DEF TypeOK, AtWork, BeginRefresh, Goto, Booking
    <3>. QED BY <3>1, <3>2
  <2>3. CASE ClaimParcel(w)
    <3>1. CASE Finish(w)
      BY <2>3, <3>1, FinishType DEF TypeOK, ReqTypeOK, ClaimParcel, orders, shipment, payments, courier
    <3>2. CASE ~Finish(w)
      <4>1. TypeOK'
        BY <2>3, <3>2 DEF TypeOK, ClaimParcel, Goto, Steps, orders, payments, courier
      <4>2. AtWork'
        BY <2>3, <3>2 DEF TypeOK, AtWork, ClaimParcel, Goto, Booking
      <4>. QED BY <4>1, <4>2
    <3>. QED BY <3>1, <3>2
  <2>4. ASSUME NEW q \in Parcels, CourierBooks(w, q) PROVE TypeOK' /\ AtWork'
    <3>1. TypeOK'
      BY <2>4 DEF TypeOK, AtWork, CourierBooks, Goto, Steps, orders, shipment, payments
    <3>2. AtWork'
      BY <2>4 DEF TypeOK, AtWork, CourierBooks, Goto, Booking
    <3>. QED BY <3>1, <3>2
  <2>5. CASE CourierRefuses(w)
    <3>1. TypeOK'
      BY <2>5 DEF TypeOK, CourierRefuses, Goto, Steps, orders, shipment, payments, courier
    <3>2. AtWork'
      BY <2>5 DEF TypeOK, AtWork, CourierRefuses, Goto, Booking
    <3>. QED BY <3>1, <3>2
  <2>6. CASE ReleaseParcel(w)
    BY <2>6, FinishType DEF TypeOK, ReqTypeOK, ReleaseParcel, orders, payments, courier
  <2>7. CASE SaveBooking(w)
    <3>1. got[w] \in Parcels
      BY <2>7 DEF AtWork, SaveBooking
    <3>2. word' \in [Orders -> {"none", "booking"} \cup CourierWords]
          /\ parcel' \in [Orders -> Parcels \cup {None}] /\ status' \in [Orders -> Status]
      BY <2>7, <3>1 DEF TypeOK, SaveBooking, CourierWords, Status
    <3>. QED BY <2>7, <3>2, FinishType DEF TypeOK, ReqTypeOK, SaveBooking, payments, courier
  <2>8. CASE AskCourier(w)
    <3>1. CASE Finish(w)
      BY <2>8, <3>1, FinishType DEF TypeOK, ReqTypeOK, AskCourier, orders, shipment, payments, courier
    <3>2. CASE ~Finish(w)
      <4>1. where[got[w]] \in CourierWords
        BY <2>8 DEF TypeOK, AtWork, AskCourier
      <4>2. TypeOK'
        BY <2>8, <3>2, <4>1 DEF TypeOK, AskCourier, Goto, Steps, orders, shipment, payments, courier
      <4>3. AtWork'
        BY <2>8, <3>2, <4>1 DEF TypeOK, AtWork, AskCourier, Goto, Booking
      <4>. QED BY <4>2, <4>3
    <3>. QED BY <3>1, <3>2
  <2>9. CASE SaveStatus(w)
    <3>1. word' \in [Orders -> {"none", "booking"} \cup CourierWords]
          /\ status' \in [Orders -> Status]
      BY <2>9 DEF TypeOK, AtWork, SaveStatus, Status
    <3>. QED BY <2>9, <3>1, FinishType DEF TypeOK, ReqTypeOK, SaveStatus, payments, courier
  <2>10. CASE Die(w)
    BY <2>10, FinishType DEF TypeOK, ReqTypeOK, Die, orders, shipment, payments, courier
  <2>. QED
    BY <1>1, <2>1, <2>2, <2>3, <2>4, <2>5, <2>6, <2>7, <2>8, <2>9, <2>10 DEF Request
<1>2. ASSUME UNCHANGED reqs PROVE AtWork'
  BY <1>2 DEF AtWork, reqs
<1>3. ASSUME NEW o \in Orders, NEW to \in Status, SetOrderStatus(o, to) PROVE TypeOK'
  BY <1>3 DEF TypeOK, SetOrderStatus, shipment, payments, courier, reqs
<1>4. ASSUME NEW o \in Orders, SwitchToCOD(o) PROVE TypeOK'
  BY <1>4 DEF TypeOK, SwitchToCOD, shipment, payments, courier, reqs
<1>5. ASSUME NEW p \in Payments, NEW o \in Orders, StartPayment(p, o) PROVE TypeOK'
  BY <1>5 DEF TypeOK, StartPayment, orders, shipment, courier, reqs
<1>6. ASSUME NEW p \in Payments, Settle(p) PROVE TypeOK'
  BY <1>6 DEF TypeOK, Settle, orders, shipment, courier, reqs
<1>7. ASSUME NEW p \in Payments, ConfirmPayment(p) PROVE TypeOK'
  <2>1. paid' \in [Orders -> BOOLEAN] /\ state' \in [Payments -> {"pending", "paid"}]
    BY <1>7 DEF TypeOK, ConfirmPayment
  <2>2. notes' \in [Orders -> Nat]
    <3>1. notes' = notes \/ notes' = [notes EXCEPT ![of[p]] = notes[of[p]] + 1]
      BY <1>7 DEF ConfirmPayment
    <3>2. CASE of[p] \in Orders
      BY <3>1, <3>2 DEF TypeOK
    <3>3. CASE of[p] \notin Orders
      BY <3>1, <3>3 DEF TypeOK
    <3>. QED BY <3>2, <3>3
  <2>. QED BY <1>7, <2>1, <2>2 DEF TypeOK, ConfirmPayment, shipment, courier, reqs
<1>8. ASSUME NEW q \in Parcels, NEW s \in CourierWords, Carry(q, s) PROVE TypeOK'
  BY <1>8 DEF TypeOK, Carry, orders, shipment, payments, reqs
<1>9. CASE UNCHANGED vars
  BY <1>9, <1>2 DEF TypeOK, vars, orders, shipment, payments, courier, reqs
<1>10. (\E w \in Workers : Request(w)) \/ UNCHANGED reqs
  BY DEF Next, SetOrderStatus, SwitchToCOD, StartPayment, Settle, ConfirmPayment, Carry, vars
<1>11. TypeOK'
  BY <1>1, <1>3, <1>4, <1>5, <1>6, <1>7, <1>8, <1>9 DEF Next
<1>12. AtWork'
  BY <1>1, <1>2, <1>10
<1>. QED
  BY <1>11, <1>12

\* Every variable keeps its type in every reachable state, and a request at work knows its
\* order, what it saw of it, and the parcel it speaks of.
THEOREM TypeCorrect == Spec => [](TypeOK /\ AtWork)
<1>1. Init => TypeOK /\ AtWork
  BY DEF Init, TypeOK, AtWork, Status, Steps, CourierWords, Booking
<1>. QED
  BY <1>1, TypeStep, PTL DEF Spec

-----------------------------------------------------------------------------
(* Claims. *)

\* What request w relies on from one of its transactions to the next.
Holds(w) ==
    /\ pc[w] \in Booking =>
          word[about[w]] = "booking" /\ parcel[about[w]] = None /\ cod[about[w]] = due[w]
    /\ pc[w] = "saving" => sent[got[w]] = about[w] /\ carries[got[w]] = due[w]
    /\ pc[w] \in {"asking", "hearing"} => parcel[about[w]] = got[w]

Alone(w, u) == ~(pc[w] \in Booking /\ pc[u] \in Booking /\ about[w] = about[u])

\* OneClaim is not inductive without what the row says of the claim's amount, what the
\* courier answered, and that a refresh never finds its parcel replaced.
ClaimInv ==
    /\ \A w \in Workers : Holds(w)
    /\ \A w, u \in Workers : w # u => Alone(w, u)
    /\ RecordedParcel

\* Work that a step does not touch stays as it was.
LEMMA OthersKeep ==
    ASSUME TypeOK, NEW w \in Workers, NEW u \in Workers, u # w, Request(w)
    PROVE  /\ pc'[u] = pc[u] /\ about'[u] = about[u] /\ from'[u] = from[u]
           /\ due'[u] = due[u] /\ got'[u] = got[u] /\ heard'[u] = heard[u]
<1>. USE DEF TypeOK
<1>1. ASSUME Finish(w)
      PROVE  UNCHANGED <<pc[u], about[u], from[u], due[u], got[u], heard[u]>>
  BY <1>1 DEF Finish, Goto
<1>2. ASSUME NEW o \in Orders, BeginBooking(w, o) \/ BeginRefresh(w, o)
      PROVE  UNCHANGED <<pc[u], about[u], from[u], due[u], got[u], heard[u]>>
  BY <1>2 DEF BeginBooking, BeginRefresh, Goto
<1>3. ASSUME NEW q \in Parcels, CourierBooks(w, q)
      PROVE  UNCHANGED <<pc[u], about[u], from[u], due[u], got[u], heard[u]>>
  BY <1>3 DEF CourierBooks, Goto
<1>4. CASE ClaimParcel(w)
  BY <1>1, <1>4 DEF ClaimParcel, Goto
<1>5. CASE CourierRefuses(w)
  BY <1>5 DEF CourierRefuses, Goto
<1>6. CASE AskCourier(w)
  BY <1>1, <1>6 DEF AskCourier, Goto
<1>7. CASE ReleaseParcel(w) \/ SaveBooking(w) \/ SaveStatus(w) \/ Die(w)
  BY <1>1, <1>7 DEF ReleaseParcel, SaveBooking, SaveStatus, Die
<1>. QED
  BY <1>2, <1>3, <1>4, <1>5, <1>6, <1>7 DEF Request

\* Work that ends is at rest.
LEMMA FinishIdles ==
    ASSUME TypeOK, NEW w \in Workers, Finish(w)
    PROVE  pc'[w] = "idle"
  BY DEF TypeOK, Finish, Goto

\* A request leaves alone the shipment of an order that another one is about, unless they
\* are about the same one, and the parcels other orders have at the courier.
LEMMA ClaimOther ==
    ASSUME TypeOK, AtWork, ClaimInv, NEW w \in Workers, NEW u \in Workers, u # w, Request(w)
    PROVE  Holds(u)'
<1>0. pc'[u] = pc[u] /\ about'[u] = about[u] /\ due'[u] = due[u] /\ got'[u] = got[u]
  BY OthersKeep
<1>. DEFINE o == about[u]
<1>1. ASSUME pc[u] \in Booking
      PROVE  word'[o] = word[o] /\ parcel'[o] = parcel[o] /\ cod'[o] = cod[o]
  <2>1. o \in Orders /\ word[o] = "booking" /\ parcel[o] = None /\ Alone(w, u)
    BY <1>1 DEF ClaimInv, Holds, AtWork, Booking
  <2>2. CASE ClaimParcel(w)
    <3>1. UNCHANGED shipment \/ (word[about[w]] = "none" /\ about[w] # o)
      BY <2>1, <2>2 DEF ClaimParcel, Unclaimed
    <3>. QED BY <2>1, <2>2, <3>1 DEF ClaimParcel, TypeOK, shipment
  <2>3. CASE ReleaseParcel(w) \/ SaveBooking(w)
    <3>1. about[w] # o
      BY <1>1, <2>1, <2>3 DEF Alone, ReleaseParcel, SaveBooking, Booking
    <3>. QED BY <2>1, <2>3, <3>1 DEF ReleaseParcel, SaveBooking, TypeOK
  <2>4. CASE SaveStatus(w)
    <3>1. about[w] # o
      BY <2>1, <2>4 DEF ClaimInv, Holds, SaveStatus, AtWork
    <3>. QED BY <2>1, <2>4, <3>1 DEF SaveStatus, TypeOK
  <2>5. UNCHANGED shipment \/ ClaimParcel(w) \/ ReleaseParcel(w) \/ SaveBooking(w) \/ SaveStatus(w)
    BY DEF Request, BeginBooking, BeginRefresh, CourierBooks, CourierRefuses, AskCourier, Die
  <2>. QED BY <2>2, <2>3, <2>4, <2>5 DEF shipment
<1>2. ASSUME pc[u] = "saving"
      PROVE  sent'[got[u]] = sent[got[u]] /\ carries'[got[u]] = carries[got[u]]
  <2>1. got[u] \in Parcels /\ sent[got[u]] # None
    BY <1>2 DEF AtWork, ClaimInv, Holds, TypeOK
  <2>2. ASSUME NEW q \in Parcels, CourierBooks(w, q)
        PROVE  sent'[got[u]] = sent[got[u]] /\ carries'[got[u]] = carries[got[u]]
    BY <2>1, <2>2 DEF CourierBooks, TypeOK
  <2>3. UNCHANGED courier \/ \E q \in Parcels : CourierBooks(w, q)
    BY DEF Request, BeginBooking, BeginRefresh, ClaimParcel, CourierRefuses, ReleaseParcel,
           SaveBooking, AskCourier, SaveStatus, Die
  <2>. QED BY <2>2, <2>3 DEF courier
<1>3. ASSUME pc[u] \in {"asking", "hearing"} PROVE parcel'[o] = parcel[o]
  <2>1. o \in Orders /\ parcel[o] # None /\ word[o] \notin {"none", "booking"}
    BY <1>3 DEF AtWork, ClaimInv, Holds, RecordedParcel, CourierWords
  <2>2. CASE ClaimParcel(w)
    <3>1. UNCHANGED shipment \/ about[w] # o
      BY <2>1, <2>2 DEF ClaimParcel, Unclaimed
    <3>. QED BY <2>1, <2>2, <3>1 DEF ClaimParcel, TypeOK, shipment
  <2>3. CASE SaveBooking(w)
    <3>1. about[w] # o
      BY <2>1, <2>3 DEF ClaimInv, Holds, SaveBooking, Booking
    <3>. QED BY <2>1, <2>3, <3>1 DEF SaveBooking, TypeOK
  <2>4. parcel' = parcel \/ ClaimParcel(w) \/ SaveBooking(w)
    BY DEF Request, BeginBooking, BeginRefresh, CourierBooks, CourierRefuses, ReleaseParcel,
           AskCourier, SaveStatus, Die, shipment
  <2>. QED BY <2>2, <2>3, <2>4
<1>4. Holds(u)
  BY DEF ClaimInv
<1>. QED
  BY <1>0, <1>1, <1>2, <1>3, <1>4 DEF Holds, Booking

\* A request keeps what it holds of its own order.
LEMMA ClaimOwn ==
    ASSUME TypeOK, AtWork, ClaimInv, NEW w \in Workers, Request(w)
    PROVE  Holds(w)'
<1>0. Holds(w)
  BY DEF ClaimInv
<1>1. CASE Finish(w)
  BY <1>1, FinishIdles DEF Holds, Booking
<1>2. ASSUME NEW o \in Orders, BeginBooking(w, o) PROVE Holds(w)'
  BY <1>2 DEF BeginBooking, Goto, Holds, Booking, TypeOK
<1>3. ASSUME NEW o \in Orders, BeginRefresh(w, o) PROVE Holds(w)'
  BY <1>3 DEF BeginRefresh, Goto, Holds, Booking, TypeOK, shipment
<1>4. CASE ClaimParcel(w) /\ ~Finish(w)
  BY <1>4 DEF ClaimParcel, Goto, Holds, Booking, TypeOK, AtWork
<1>5. ASSUME NEW q \in Parcels, CourierBooks(w, q) PROVE Holds(w)'
  BY <1>0, <1>5 DEF CourierBooks, Goto, Holds, Booking, TypeOK, shipment
<1>6. CASE CourierRefuses(w)
  BY <1>0, <1>6 DEF CourierRefuses, Goto, Holds, Booking, TypeOK, shipment
<1>7. CASE AskCourier(w) /\ ~Finish(w)
  BY <1>0, <1>7 DEF AskCourier, Goto, Holds, Booking, TypeOK, shipment
<1>. QED
  BY <1>1, <1>2, <1>3, <1>4, <1>5, <1>6, <1>7
     DEF Request, ReleaseParcel, SaveBooking, SaveStatus, Die

\* Two requests never book for one order.
LEMMA AloneStep ==
    ASSUME TypeOK, AtWork, ClaimInv, NEW w \in Workers, NEW u \in Workers, u # w, Request(w)
    PROVE  Alone(w, u)' /\ Alone(u, w)'
<1>0. pc'[u] = pc[u] /\ about'[u] = about[u]
  BY OthersKeep
<1>1. pc'[w] \in Booking => \/ pc[w] \in Booking /\ about'[w] = about[w]
                            \/ word[about[w]] = "none" /\ about'[w] = about[w]
  <2>1. CASE Finish(w)
    BY <2>1, FinishIdles DEF Booking
  <2>2. ASSUME NEW o \in Orders, BeginBooking(w, o) \/ BeginRefresh(w, o) PROVE pc'[w] \notin Booking
    BY <2>2 DEF BeginBooking, BeginRefresh, Goto, TypeOK, Booking
  <2>3. CASE ClaimParcel(w) /\ ~Finish(w)
    BY <2>3 DEF ClaimParcel, Unclaimed
  <2>4. ASSUME NEW q \in Parcels, CourierBooks(w, q) PROVE pc[w] \in Booking /\ about'[w] = about[w]
    BY <2>4 DEF CourierBooks, Booking
  <2>5. CASE CourierRefuses(w)
    BY <2>5 DEF CourierRefuses, Booking
  <2>6. CASE AskCourier(w) /\ ~Finish(w)
    BY <2>6 DEF AskCourier, Goto, TypeOK, Booking
  <2>. QED BY <2>1, <2>2, <2>3, <2>4, <2>5, <2>6
           DEF Request, ReleaseParcel, SaveBooking, SaveStatus, Die
<1>2. pc[u] \in Booking => word[about[u]] = "booking"
  BY DEF ClaimInv, Holds
<1>3. Alone(w, u)
  BY DEF ClaimInv
<1>. QED
  BY <1>0, <1>1, <1>2, <1>3 DEF Alone

\* A record that is written is of the parcel booked.
LEMMA RecordStep ==
    ASSUME TypeOK, AtWork, ClaimInv, NEW w \in Workers, Request(w)
    PROVE  RecordedParcel'
<1>. USE DEF TypeOK
<1>0. RecordedParcel /\ Holds(w)
  BY DEF ClaimInv
<1>1. CASE ClaimParcel(w)
  BY <1>0, <1>1 DEF RecordedParcel, ClaimParcel, orders, courier, shipment
<1>2. CASE ReleaseParcel(w)
  <2>1. parcel[about[w]] = None
    BY <1>0, <1>2 DEF Holds, ReleaseParcel, Booking
  <2>. QED BY <1>0, <1>2, <2>1 DEF RecordedParcel, ReleaseParcel, orders, courier
<1>3. ASSUME NEW q \in Parcels, CourierBooks(w, q) PROVE RecordedParcel'
  BY <1>0, <1>3 DEF RecordedParcel, CourierBooks, orders, shipment
<1>4. CASE SaveBooking(w)
  <2>. DEFINE o == about[w]
  <2>1. /\ o \in Orders /\ got[w] \in Parcels
        /\ sent[got[w]] = o /\ carries[got[w]] = due[w] /\ cod[o] = due[w] /\ parcel[o] = None
    BY <1>0, <1>4 DEF Holds, SaveBooking, AtWork, Booking
  <2>2. CASE UNCHANGED <<word, parcel, status>>
    BY <1>0, <1>4, <2>2 DEF RecordedParcel, SaveBooking, courier
  <2>3. CASE ~UNCHANGED <<word, parcel, status>>
    <3>1. /\ word' = [word EXCEPT ![o] = "in_review"] /\ parcel' = [parcel EXCEPT ![o] = got[w]]
          /\ status' = [status EXCEPT ![o] = "shipped"] /\ UNCHANGED <<cod, courier>>
      BY <1>4, <2>3 DEF SaveBooking
    <3>2. ASSUME NEW p \in Orders, parcel'[p] # None
          PROVE  /\ sent'[parcel'[p]] = p /\ carries'[parcel'[p]] = cod'[p]
                 /\ word'[p] \in CourierWords /\ status'[p] \in {"shipped", "delivered"}
      <4>1. CASE p = o
        BY <2>1, <3>1, <4>1 DEF courier, CourierWords
      <4>2. CASE p # o
        BY <1>0, <3>1, <3>2, <4>2 DEF courier, RecordedParcel
      <4>. QED BY <4>1, <4>2
    <3>. QED BY <3>2 DEF RecordedParcel
  <2>. QED BY <2>2, <2>3
<1>5. CASE SaveStatus(w)
  <2>1. heard[w] \in CourierWords /\ about[w] \in Orders
    BY <1>5 DEF AtWork, SaveStatus
  <2>. QED BY <1>0, <1>5, <2>1 DEF RecordedParcel, SaveStatus, courier
<1>6. CASE UNCHANGED <<orders, shipment, courier>>
  BY <1>0, <1>6 DEF RecordedParcel, orders, shipment, courier
<1>. QED
  BY <1>1, <1>2, <1>3, <1>4, <1>5, <1>6
     DEF Request, BeginBooking, BeginRefresh, CourierRefuses, AskCourier, Die

LEMMA ClaimStep == TypeOK /\ AtWork /\ ClaimInv /\ [Next]_vars => ClaimInv'
<1> SUFFICES ASSUME TypeOK, AtWork, ClaimInv, [Next]_vars PROVE ClaimInv'
  OBVIOUS
<1>1. ASSUME NEW w \in Workers, Request(w) PROVE ClaimInv'
  <2>1. ASSUME NEW u \in Workers PROVE Holds(u)'
    BY <1>1, ClaimOwn, ClaimOther
  <2>2. ASSUME NEW u \in Workers, NEW x \in Workers, u # x PROVE Alone(u, x)'
    <3>1. CASE u = w \/ x = w
      BY <1>1, <2>2, <3>1, AloneStep
    <3>2. CASE u # w /\ x # w
      BY <1>1, <2>2, <3>2, OthersKeep DEF ClaimInv, Alone
    <3>. QED BY <3>1, <3>2
  <2>. QED BY <1>1, <2>1, <2>2, RecordStep DEF ClaimInv
<1>2. ASSUME UNCHANGED <<shipment, sent, carries, reqs>>, RecordedParcel' PROVE ClaimInv'
  BY <1>2 DEF ClaimInv, Holds, Alone, shipment, reqs
<1>3. ASSUME UNCHANGED <<shipment, sent, carries, status>> PROVE RecordedParcel'
  BY <1>3 DEF ClaimInv, RecordedParcel, shipment
<1>4. ASSUME NEW o \in Orders, NEW to \in Status, SetOrderStatus(o, to) PROVE ClaimInv'
  <2>1. RecordedParcel'
    BY <1>4 DEF SetOrderStatus, NextStatuses, ClaimInv, RecordedParcel, TypeOK, shipment, courier
  <2>. QED BY <1>2, <1>4, <2>1 DEF SetOrderStatus, courier
<1>5. CASE \/ \E o \in Orders : SwitchToCOD(o)
           \/ \E p \in Payments, o \in Orders : StartPayment(p, o)
           \/ \E p \in Payments : Settle(p) \/ ConfirmPayment(p)
           \/ \E q \in Parcels, s \in CourierWords : Carry(q, s)
           \/ UNCHANGED vars
  <2>1. UNCHANGED <<shipment, sent, carries, reqs, status>>
    BY <1>5 DEF SwitchToCOD, StartPayment, Settle, ConfirmPayment, Carry, vars, courier, orders
  <2>. QED BY <1>2, <1>3, <2>1
<1>. QED
  BY <1>1, <1>4, <1>5 DEF Next

LEMMA ClaimsHold == Spec => []ClaimInv
<1>1. Init => ClaimInv
  BY DEF Init, ClaimInv, Holds, Alone, RecordedParcel, Booking
<1>. QED
  BY <1>1, ClaimStep, TypeCorrect, PTL DEF Spec

\* However many clicks book an order, one request at a time has its claim, and its row
\* stays as that request left it.
THEOREM ClaimedOnce == Spec => []OneClaim
<1>1. ClaimInv => OneClaim
  BY DEF ClaimInv, OneClaim, Holds, Alone
<1>. QED
  BY <1>1, ClaimsHold, PTL

\* What the shop has recorded of a parcel is what the courier has, and its order has left.
THEOREM RecordsTrue == Spec => []RecordedParcel
<1>1. ClaimInv => RecordedParcel
  BY DEF ClaimInv
<1>. QED
  BY <1>1, ClaimsHold, PTL

-----------------------------------------------------------------------------
(* Payments. *)

\* PaidOnce needs to know that only a payment that exists is settled, and only a settled
\* one is paid.
PayInv ==
    /\ PaidOnce
    /\ \A p \in Payments : /\ p \in settled => of[p] \in Orders
                           /\ state[p] = "paid" => p \in settled

LEMMA PayStep == TypeOK /\ AtWork /\ PayInv /\ [Next]_vars => PayInv'
<1> SUFFICES ASSUME TypeOK, AtWork, PayInv, [Next]_vars PROVE PayInv'
  OBVIOUS
<1>1. ASSUME UNCHANGED <<paid, notes, payments>> PROVE PayInv'
  BY <1>1 DEF PayInv, PaidOnce, payments
<1>2. ASSUME NEW p \in Payments, NEW o \in Orders, StartPayment(p, o) PROVE PayInv'
  <2>1. of[p] = None /\ of' = [of EXCEPT ![p] = o] /\ state' = state /\ settled' = settled
        /\ paid' = paid /\ notes' = notes
    BY <1>2 DEF StartPayment, orders
  <2>2. state[p] # "paid"
    BY <2>1 DEF PayInv
  <2>3. ASSUME NEW x \in Payments, state[x] = "paid" PROVE of'[x] = of[x]
    BY <2>1, <2>2, <2>3 DEF TypeOK
  <2>4. \A x \in Payments : x \in settled => of'[x] \in Orders
    BY <2>1 DEF PayInv, TypeOK
  <2>. QED BY <2>1, <2>3, <2>4 DEF PayInv, PaidOnce
<1>3. ASSUME NEW p \in Payments, Settle(p) PROVE PayInv'
  <2>1. of[p] \in Orders /\ settled' = settled \cup {p} /\ UNCHANGED <<of, state, paid, notes>>
    BY <1>3 DEF Settle, orders, TypeOK
  <2>. QED BY <2>1 DEF PayInv, PaidOnce
<1>4. ASSUME NEW p \in Payments, ConfirmPayment(p) PROVE PayInv'
  <2>. DEFINE o == of[p]
  <2>1. /\ o \in Orders /\ p \in settled /\ UNCHANGED <<of, settled>>
        /\ state' = [state EXCEPT ![p] = "paid"]
    BY <1>4 DEF ConfirmPayment, PayInv
  <2>2. /\ paid' = IF paid[o] THEN paid ELSE [paid EXCEPT ![o] = TRUE]
        /\ notes' = IF paid[o] THEN notes ELSE [notes EXCEPT ![o] = notes[o] + 1]
    BY <1>4, <2>1 DEF ConfirmPayment, FirstPayment, TypeOK
  <2>3. ASSUME NEW x \in Orders
        PROVE  /\ paid'[x] <=> \E y \in Payments : of'[y] = x /\ state'[y] = "paid"
               /\ notes'[x] = IF paid'[x] THEN 1 ELSE 0
    <3>1. CASE x = o
      <4>1. state'[p] = "paid" /\ of'[p] = x
        BY <2>1, <3>1 DEF TypeOK
      <4>2. paid'[x] /\ notes'[x] = 1
        BY <2>2, <3>1 DEF TypeOK, PayInv, PaidOnce
      <4>. QED BY <4>1, <4>2
    <3>2. CASE x # o
      <4>1. paid'[x] = paid[x] /\ notes'[x] = notes[x]
        BY <2>2, <3>2 DEF TypeOK
      <4>2. \A y \in Payments : of[y] = x => state'[y] = state[y]
        BY <2>1, <3>2 DEF TypeOK
      <4>. QED BY <2>1, <4>1, <4>2 DEF PayInv, PaidOnce
    <3>. QED BY <3>1, <3>2
  <2>4. \A x \in Payments : state'[x] = "paid" => x \in settled'
    BY <2>1 DEF PayInv, TypeOK
  <2>. QED BY <2>1, <2>3, <2>4 DEF PayInv, PaidOnce
<1>5. \/ UNCHANGED <<paid, notes, payments>>
      \/ \E p \in Payments, o \in Orders : StartPayment(p, o)
      \/ \E p \in Payments : Settle(p) \/ ConfirmPayment(p)
  BY DEF Next, Request, BeginBooking, BeginRefresh, ClaimParcel, CourierBooks, CourierRefuses,
         ReleaseParcel, SaveBooking, AskCourier, SaveStatus, Die, SetOrderStatus, SwitchToCOD,
         Carry, vars, orders
<1>. QED
  BY <1>1, <1>2, <1>3, <1>4, <1>5

\* An order is paid exactly when one of its payments is, and says so once, however often the
\* gateway and the customer report them.
THEOREM PaidOnceOnly == Spec => []PaidOnce
<1>1. Init => PayInv
  BY DEF Init, PayInv, PaidOnce
<1>2. PayInv => PaidOnce
  BY DEF PayInv
<1>. QED
  BY <1>1, <1>2, PayStep, TypeCorrect, PTL DEF Spec

\* A request that is to send a parcel for nothing saw its order paid.
FreeInv ==
    /\ FreeMeansPaid
    /\ \A w \in Workers : pc[w] \in {"claiming"} \cup Booking /\ ~due[w] => paid[about[w]]

LEMMA FreeStep == TypeOK /\ AtWork /\ FreeInv /\ [Next]_vars => FreeInv'
<1> SUFFICES ASSUME TypeOK, AtWork, FreeInv, [Next]_vars PROVE FreeInv'
  OBVIOUS
<1>1. \A o \in Orders : paid[o] => paid'[o]
  BY DEF Next, Request, BeginBooking, BeginRefresh, ClaimParcel, CourierBooks, CourierRefuses,
         ReleaseParcel, SaveBooking, AskCourier, SaveStatus, Die, SetOrderStatus, SwitchToCOD,
         StartPayment, Settle, ConfirmPayment, Carry, vars, orders, TypeOK
<1>2. ASSUME NEW w \in Workers, Request(w)
      PROVE  pc'[w] \in {"claiming"} \cup Booking /\ ~due'[w] => paid'[about'[w]]
  <2>0. ASSUME pc[w] \in {"claiming"} \cup Booking, about'[w] = about[w], due'[w] = due[w]
        PROVE  ~due'[w] => paid'[about'[w]]
    BY <1>1, <2>0 DEF FreeInv, AtWork, Booking
  <2>1. CASE Finish(w)
    BY <2>1, FinishIdles DEF Booking
  <2>2. ASSUME NEW o \in Orders, BeginBooking(w, o)
        PROVE  ~due'[w] => paid'[about'[w]]
    BY <2>2 DEF BeginBooking, Collects, TypeOK, orders
  <2>3. ASSUME NEW o \in Orders, BeginRefresh(w, o) PROVE pc'[w] \notin {"claiming"} \cup Booking
    BY <2>3 DEF BeginRefresh, Goto, TypeOK, Booking
  <2>4. CASE ClaimParcel(w) /\ ~Finish(w)
    BY <2>0, <2>4 DEF ClaimParcel
  <2>5. ASSUME NEW q \in Parcels, CourierBooks(w, q) PROVE ~due'[w] => paid'[about'[w]]
    BY <2>0, <2>5 DEF CourierBooks, Booking
  <2>6. CASE CourierRefuses(w)
    BY <2>0, <2>6 DEF CourierRefuses, Booking
  <2>7. CASE AskCourier(w) /\ ~Finish(w)
    BY <2>7 DEF AskCourier, Goto, TypeOK, Booking
  <2>8. CASE ReleaseParcel(w) \/ SaveBooking(w) \/ SaveStatus(w) \/ Die(w)
    BY <2>1, <2>8 DEF ReleaseParcel, SaveBooking, SaveStatus, Die
  <2>. QED BY <1>2, <2>1, <2>2, <2>3, <2>4, <2>5, <2>6, <2>7, <2>8 DEF Request
<1>3. ASSUME NEW u \in Workers
      PROVE  pc'[u] \in {"claiming"} \cup Booking /\ ~due'[u] => paid'[about'[u]]
  <2>1. ASSUME pc'[u] = pc[u], about'[u] = about[u], due'[u] = due[u]
        PROVE  pc'[u] \in {"claiming"} \cup Booking /\ ~due'[u] => paid'[about'[u]]
    BY <1>1, <2>1 DEF FreeInv, AtWork, Booking
  <2>2. ASSUME NEW w \in Workers, Request(w)
        PROVE  pc'[u] \in {"claiming"} \cup Booking /\ ~due'[u] => paid'[about'[u]]
    BY <1>2, <2>1, <2>2, OthersKeep
  <2>3. (\E w \in Workers : Request(w)) \/ UNCHANGED reqs
    BY DEF Next, SetOrderStatus, SwitchToCOD, StartPayment, Settle, ConfirmPayment, Carry, vars
  <2>. QED BY <2>1, <2>2, <2>3 DEF reqs
<1>4. FreeMeansPaid'
  <2>1. ASSUME NEW w \in Workers, NEW q \in Parcels, CourierBooks(w, q) PROVE FreeMeansPaid'
    <3>1. about[w] \in Orders /\ (~due[w] => paid[about[w]])
      BY <2>1 DEF CourierBooks, AtWork, FreeInv, Booking
    <3>. QED BY <1>1, <2>1, <3>1 DEF CourierBooks, FreeInv, FreeMeansPaid, TypeOK
  <2>2. UNCHANGED <<sent, carries>> \/ \E w \in Workers, q \in Parcels : CourierBooks(w, q)
    BY DEF Next, Request, BeginBooking, BeginRefresh, ClaimParcel, CourierRefuses,
         ReleaseParcel, SaveBooking, AskCourier, SaveStatus, Die, SetOrderStatus, SwitchToCOD,
         StartPayment, Settle, ConfirmPayment, Carry, vars, courier
  <2>3. CASE UNCHANGED <<sent, carries>>
    BY <1>1, <2>3 DEF FreeInv, FreeMeansPaid, TypeOK
  <2>. QED BY <2>1, <2>2, <2>3
<1>. QED
  BY <1>3, <1>4 DEF FreeInv

\* A rider who collects nothing carries a paid order, however the payment and the booking
\* interleave.
THEOREM FreeOnlyPaid == Spec => []FreeMeansPaid
<1>1. Init => FreeInv
  BY DEF Init, FreeInv, FreeMeansPaid, Booking
<1>2. FreeInv => FreeMeansPaid
  BY DEF FreeInv
<1>. QED
  BY <1>1, <1>2, FreeStep, TypeCorrect, PTL DEF Spec

-----------------------------------------------------------------------------
(* The order's life. *)

\* Every step of every request is a step of the order's life, or none.
THEOREM KeepsLife == Spec => LifeSpec
<1>1. Init => Life!Init
  <2> SUFFICES ASSUME Init PROVE Life!Init
    OBVIOUS
  <2>1. [o \in Orders |-> parcel[o] # None] = [o \in Orders |-> FALSE]
    BY DEF Init
  <2>. QED BY <2>1 DEF Init, Life!Init
<1>2. TypeOK /\ AtWork /\ ClaimInv /\ [Next]_vars => [Life!Next]_(Life!vars)
  <2> SUFFICES ASSUME TypeOK, AtWork, ClaimInv, [Next]_vars
               PROVE  Life!Next \/ UNCHANGED Life!vars
    OBVIOUS
  <2>. USE DEF Life!vars
  <2>1. CASE UNCHANGED <<status, paid, parcel>>
    BY <2>1
  <2>2. ASSUME NEW o \in Orders, NEW to \in Status, SetOrderStatus(o, to)
        PROVE  Life!Next
    <3>1. Life!Move(o, to)
      BY <2>2 DEF SetOrderStatus, NextStatuses, Life!Move, Life!Moves, shipment
    <3>2. to \in {"confirmed", "packed", "shipped", "delivered", "cancelled"}
      BY <2>2 DEF SetOrderStatus, NextStatuses
    <3>. QED BY <3>1, <3>2 DEF Life!Next
  <2>3. ASSUME NEW p \in Payments, ConfirmPayment(p), ~UNCHANGED <<status, paid, parcel>>
        PROVE  Life!Next
    <3>1. ~paid[of[p]] /\ paid' = [paid EXCEPT ![of[p]] = TRUE] /\ UNCHANGED <<status, parcel>>
      BY <2>3 DEF ConfirmPayment, FirstPayment, shipment
    <3>2. of[p] \in Orders
      BY <2>3, <3>1 DEF TypeOK
    <3>3. Life!Pay(of[p])
      BY <3>1 DEF Life!Pay
    <3>. QED BY <3>2, <3>3 DEF Life!Next
  <2>4. ASSUME NEW w \in Workers, ClaimParcel(w) PROVE UNCHANGED Life!vars
    <3>1. UNCHANGED <<status, paid>>
      BY <2>4 DEF ClaimParcel, orders
    <3>2. CASE UNCHANGED shipment
      BY <3>1, <3>2 DEF shipment
    <3>3. CASE ~UNCHANGED shipment
      <4>1. about[w] \in Orders /\ word[about[w]] = "none"
            /\ parcel' = [parcel EXCEPT ![about[w]] = None]
        BY <2>4, <3>3 DEF ClaimParcel, Unclaimed, AtWork
      <4>2. parcel[about[w]] = None
        BY <4>1 DEF ClaimInv, RecordedParcel, CourierWords
      <4>3. parcel' = parcel
        BY <4>1, <4>2 DEF TypeOK
      <4>. QED BY <3>1, <4>3
    <3>. QED BY <3>2, <3>3
  <2>5. ASSUME NEW w \in Workers, SaveBooking(w), ~UNCHANGED <<status, paid, parcel>>
        PROVE  Life!Next
    <3>0. PICK o \in Orders : o = about[w]
      BY <2>5 DEF SaveBooking, AtWork
    <3>1. status[o] \in Sendable /\ got[w] \in Parcels /\ parcel[o] = None
      BY <2>5, <3>0 DEF SaveBooking, StillAsSeen, AtWork, ClaimInv, Holds, Booking
    <3>2. /\ parcel' = [parcel EXCEPT ![o] = got[w]] /\ status' = [status EXCEPT ![o] = "shipped"]
          /\ paid' = paid
      BY <2>5, <3>0 DEF SaveBooking
    <3>3. [p \in Orders |-> parcel'[p] # None]
            = [[p \in Orders |-> parcel[p] # None] EXCEPT ![o] = TRUE]
      BY <3>1, <3>2 DEF TypeOK
    <3>4. Life!Book(o)
      BY <3>1, <3>2, <3>3 DEF Life!Book, Sendable
    <3>. QED BY <3>4 DEF Life!Next
  <2>6. ASSUME NEW w \in Workers, SaveStatus(w), ~UNCHANGED <<status, paid, parcel>>
        PROVE  Life!Next
    <3>1. /\ status[about[w]] = "shipped" /\ status' = [status EXCEPT ![about[w]] = "delivered"]
          /\ UNCHANGED <<paid, parcel>> /\ about[w] \in Orders
      BY <2>6 DEF SaveStatus, AtWork
    <3>2. Life!Move(about[w], "delivered")
      BY <3>1 DEF Life!Move, Life!Moves
    <3>. QED BY <3>1, <3>2 DEF Life!Next
  <2>7. \/ UNCHANGED <<status, paid, parcel>>
        \/ \E o \in Orders, to \in Status : SetOrderStatus(o, to)
        \/ \E p \in Payments : ConfirmPayment(p)
        \/ \E w \in Workers : ClaimParcel(w) \/ SaveBooking(w) \/ SaveStatus(w)
    BY DEF Next, Request, BeginBooking, BeginRefresh, CourierBooks, CourierRefuses, ReleaseParcel,
           AskCourier, Die, SwitchToCOD, StartPayment, Settle, Carry, vars, orders, shipment
  <2>. QED BY <2>1, <2>2, <2>3, <2>4, <2>5, <2>6, <2>7
<1>. QED
  BY <1>1, <1>2, TypeCorrect, ClaimsHold, PTL DEF Spec, LifeSpec, Life!Spec
=============================================================================
