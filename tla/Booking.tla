------------------------------ MODULE Booking ------------------------------
(***************************************************************************)
(* What the order and payment services promise together, without requests, *)
(* rows or the gateway's protocol: an order is placed for a cart, its      *)
(* payment may be settled, an order is booked only once it is settled (or  *)
(* is to be paid in cash), and a cart is closed only once one of its       *)
(* orders is booked.  Nothing is ever unplaced, unsettled, unbooked or     *)
(* reopened.  OrderPayment implements this specification.                  *)
(***************************************************************************)

CONSTANTS Orders,   \* orders that may be placed
          Carts     \* carts they may be placed for

VARIABLES cartOf,   \* the cart each order is for (fixed)
          cash,     \* the orders to be paid in cash (fixed)
          placed,   \* orders that exist
          settled,  \* orders whose payment the gateway has taken
          booked,   \* orders the shop has accepted
          closed    \* carts that take no further items

vars == <<cartOf, cash, placed, settled, booked, closed>>

Init ==
  /\ cartOf \in [Orders -> Carts]
  /\ cash \in SUBSET Orders
  /\ placed = {}
  /\ settled = {}
  /\ booked = {}
  /\ closed = {}

Place(k) ==
  /\ k \notin placed
  /\ placed' = placed \cup {k}
  /\ UNCHANGED <<cartOf, cash, settled, booked, closed>>

Settle(k) ==
  /\ k \in placed \ (settled \cup cash)
  /\ settled' = settled \cup {k}
  /\ UNCHANGED <<cartOf, cash, placed, booked, closed>>

Book(k) ==
  /\ k \in placed \ booked
  /\ k \in settled \cup cash
  /\ booked' = booked \cup {k}
  /\ UNCHANGED <<cartOf, cash, placed, settled, closed>>

Close(c) ==
  /\ c \notin closed
  /\ \E k \in booked : cartOf[k] = c
  /\ closed' = closed \cup {c}
  /\ UNCHANGED <<cartOf, cash, placed, settled, booked>>

Next ==
  \/ \E k \in Orders : Place(k) \/ Settle(k) \/ Book(k)
  \/ \E c \in Carts : Close(c)

Spec == Init /\ [][Next]_vars

=============================================================================
