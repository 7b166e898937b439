----------------------------- MODULE OrderLife -----------------------------
(***************************************************************************)
(* What the shop promises about a placed order, whatever requests handle   *)
(* it side by side: its status only moves on, it is paid once, and its     *)
(* parcel leaves together with its move to shipped.                        *)
(***************************************************************************)
CONSTANT Orders

VARIABLES
    status,   \* where the order is
    paid,     \* whether it was paid online
    booked    \* whether a courier has its parcel, as far as the shop knows

vars == <<status, paid, booked>>

Moves(from) ==
    CASE from = "pending"   -> {"confirmed", "cancelled"}
      [] from = "confirmed" -> {"packed", "cancelled"}
      [] from = "packed"    -> {"shipped", "cancelled"}
      [] from = "shipped"   -> {"delivered"}
      [] OTHER              -> {}

Init ==
    /\ status = [o \in Orders |-> "pending"]
    /\ paid = [o \in Orders |-> FALSE]
    /\ booked = [o \in Orders |-> FALSE]

Move(o, to) ==
    /\ to \in Moves(status[o])
    /\ status' = [status EXCEPT ![o] = to]
    /\ UNCHANGED <<paid, booked>>

\* A cancelled order may still be paid: the money was on its way.
Pay(o) ==
    /\ ~paid[o]
    /\ paid' = [paid EXCEPT ![o] = TRUE]
    /\ UNCHANGED <<status, booked>>

Book(o) ==
    /\ status[o] \in {"confirmed", "packed"}
    /\ ~booked[o]
    /\ status' = [status EXCEPT ![o] = "shipped"]
    /\ booked' = [booked EXCEPT ![o] = TRUE]
    /\ UNCHANGED paid

Next ==
    \E o \in Orders :
        \/ \E to \in {"confirmed", "packed", "shipped", "delivered", "cancelled"} : Move(o, to)
        \/ Pay(o)
        \/ Book(o)

Spec == Init /\ [][Next]_vars
=============================================================================
