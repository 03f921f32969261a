---------------------------- MODULE OrderPayment ----------------------------
(***************************************************************************)
(* The money path of the shop: POST /order from the point where the order  *)
(* row is written (OrderService.createOrder, PaymentService.processPayment *)
(* and the three initiate strategies), the customer's visit to the         *)
(* GP webpay gateway, and GET /payment/return                              *)
(* (PaymentService.processPaymentResult and updateOrderAfterPayment).      *)
(*                                                                         *)
(* Every request is a little process: one action per stretch of code       *)
(* between two awaits, that is, one per database statement.  Requests      *)
(* interleave at the awaits, nothing here runs in a database transaction,  *)
(* and any statement may fail and end its request with an error.           *)
(*                                                                         *)
(* A checkout creates at most one order and that order at most one         *)
(* payment, so a checkout request, its order and its payment share one     *)
(* name k.                                                                 *)
(***************************************************************************)
EXTENDS Naturals, FiniteSets

CONSTANTS Checkouts,    \* POST /order requests, and the orders they create
          Returns,      \* GET /payment/return requests
          Carts,        \* carts
          Amounts,      \* order totals, in tenths of a cent
          MaxFailures,  \* bound: how many requests may fail
          NoOrder       \* a return request that has not arrived yet

ASSUME AmountsAssumption  == Amounts \subseteq Nat
ASSUME FailuresAssumption == MaxFailures \in Nat
ASSUME NoOrderAssumption  == NoOrder \notin Checkouts

\* At any time only finitely many return requests have arrived.
ASSUME ReturnsAssumption == IsFiniteSet(Returns)

VARIABLES req,            \* what each checkout asks for (fixed)
          checkout,       \* where each checkout request stands
          orderStatus,    \* orders.order_status, "none" while no row exists
          totalPaid,      \* orders.total_paid, in cents
          paymentStatus,  \* payments.status, "none" while no row exists
          prcode,         \* payments.prcode and srcode
          cartStatus,     \* carts.status
          gateway,        \* the gateway's own record of each ORDERNUMBER
          shown,          \* signed results the customer's browser holds
          ret,            \* the return requests and their local variables
          failures        \* requests that failed so far

orderVars   == <<orderStatus, totalPaid>>
paymentVars == <<paymentStatus, prcode>>
gatewayVars == <<gateway, shown>>
vars == <<req, checkout, orderVars, paymentVars, cartStatus, gatewayVars,
          ret, failures>>

-----------------------------------------------------------------------------
PaymentMethod == {"CASH", "CARD", "PREPAYMENT"}
OrderStatus   == {"PROCESSING", "PARTIALLY_PAID", "CONFIRMED"}
PaymentStatus == {"UNPAID", "PAID"}
CartStatus    == {"ACTIVE", "ORDERED"}

\* Order states in which the shop has accepted the order.
Booked == {"PARTIALLY_PAID", "CONFIRMED"}

(***************************************************************************)
(* The PRCODE/SRCODE pairs the code tells apart: 0/0, 50/0, 14/0, and any  *)
(* other.                                                                  *)
(***************************************************************************)
Decisions == {"ok", "cancelled", "declined"}
Codes     == Decisions \cup {"duplicate"}

AnyCode(code) == code # "declined"

isPaymentSuccess(code) == code = "ok"

(***************************************************************************)
(* Money.  An in-memory total is an exact Decimal, here in tenths of a     *)
(* cent; columns are Decimal(10,2) and the gateway is told whole cents,    *)
(* both rounded half up.  A prepayment is a fifth of the exact total.      *)
(***************************************************************************)
convertAmountToCents(m) == (m + 5) \div 10
prepaymentCents(m)      == (m + 25) \div 50

storedTotal(k) == convertAmountToCents(req[k].amount)

paymentAmount(k) ==
  IF req[k].method = "PREPAYMENT" THEN prepaymentCents(req[k].amount)
                                  ELSE convertAmountToCents(req[k].amount)

\* The AMOUNT of the payment URL: the whole total, whatever the method.
gatewayAmount(k) == convertAmountToCents(req[k].amount)

Charged(k) == IF gateway[k] = "ok" THEN gatewayAmount(k) ELSE 0

CreditOrderTotal(k, seen) == seen + gatewayAmount(k)

newTotalPaid(k, seen) == seen + paymentAmount(k)

StatusOffByOne(paid, total) ==
  IF paid <= total THEN "PARTIALLY_PAID" ELSE "CONFIRMED"

StatusOutsideEnum(paid, total) ==
  IF paid < total THEN "PARTIALLY_PAID" ELSE "PAID"

newOrderStatus(paid, total) ==
  IF paid < total THEN "PARTIALLY_PAID" ELSE "CONFIRMED"

-----------------------------------------------------------------------------
CheckoutState == {"requested", "createPayment", "confirmOrder", "closeCart",
                  "answered", "failed"}
ReturnState   == {"idle", "updatePayment", "readOrder", "updateOrder",
                  "closeCart", "redirected", "failed"}

Request == [cart : Carts, method : PaymentMethod, amount : Amounts]
Return  == [pc : ReturnState, order : Checkouts \cup {NoOrder},
            code : Codes, seen : Nat]

Init ==
  /\ req \in [Checkouts -> Request]
  /\ checkout = [k \in Checkouts |-> "requested"]
  /\ orderStatus = [k \in Checkouts |-> "none"]
  /\ totalPaid = [k \in Checkouts |-> 0]
  /\ paymentStatus = [k \in Checkouts |-> "none"]
  /\ prcode = [k \in Checkouts |-> "none"]
  /\ cartStatus = [c \in Carts |-> "ACTIVE"]
  /\ gateway = [k \in Checkouts |-> "open"]
  /\ shown = [k \in Checkouts |-> {}]
  /\ ret = [r \in Returns |-> [pc |-> "idle", order |-> NoOrder,
                               code |-> "declined", seen |-> 0]]
  /\ failures = 0

-----------------------------------------------------------------------------
(***************************************************************************)
(* The checkout request.                                                   *)
(***************************************************************************)

CloseCartFirst(method) == IF method = "CASH" THEN "closeCart" ELSE "answered"

(***************************************************************************)
(* PaymentStrategyFactory.getInitiateStrategy.  The card and prepayment    *)
(* strategies only build a URL, so the request is answered in the same     *)
(* stretch of code; the cash strategy goes on to update the order.         *)
(***************************************************************************)
getInitiateStrategy(method) ==
  IF method = "CASH" THEN "confirmOrder" ELSE "answered"

(***************************************************************************)
(* prisma.order.create.  The status of the cart is not looked at: a cart   *)
(* may be ordered again.                                                   *)
(***************************************************************************)
CreateOrder(k) ==
  /\ checkout[k] = "requested"
  /\ checkout' = [checkout EXCEPT ![k] = "createPayment"]
  /\ orderStatus' = [orderStatus EXCEPT ![k] = "PROCESSING"]
  /\ UNCHANGED <<req, totalPaid, paymentVars, cartStatus, gatewayVars, ret,
                 failures>>

CreatePayment(k) ==
  /\ checkout[k] = "createPayment"
  /\ checkout' = [checkout EXCEPT ![k] = getInitiateStrategy(req[k].method)]
  /\ paymentStatus' = [paymentStatus EXCEPT ![k] = "UNPAID"]
  /\ UNCHANGED <<req, orderVars, prcode, cartStatus, gatewayVars, ret,
                 failures>>

AnswerBeforeClosing(k) ==
  /\ checkout[k] = "confirmOrder"
  /\ checkout' = [checkout EXCEPT ![k] = "answered"]
  /\ orderStatus' = [orderStatus EXCEPT ![k] = "CONFIRMED"]
  /\ UNCHANGED <<req, totalPaid, paymentVars, cartStatus, gatewayVars, ret,
                 failures>>

CashConfirmOrder(k) ==
  /\ checkout[k] = "confirmOrder"
  /\ checkout' = [checkout EXCEPT ![k] = "closeCart"]
  /\ orderStatus' = [orderStatus EXCEPT ![k] = "CONFIRMED"]
  /\ UNCHANGED <<req, totalPaid, paymentVars, cartStatus, gatewayVars, ret,
                 failures>>

CloseEveryCart(k) ==
  /\ checkout[k] = "closeCart"
  /\ checkout' = [checkout EXCEPT ![k] = "answered"]
  /\ cartStatus' = [c \in Carts |-> "ORDERED"]
  /\ UNCHANGED <<req, orderVars, paymentVars, gatewayVars, ret, failures>>

CashCloseCart(k) ==
  /\ checkout[k] = "closeCart"
  /\ checkout' = [checkout EXCEPT ![k] = "answered"]
  /\ cartStatus' = [cartStatus EXCEPT ![req[k].cart] = "ORDERED"]
  /\ UNCHANGED <<req, orderVars, paymentVars, gatewayVars, ret, failures>>

\* Any awaited statement may throw: the rows written so far stay.
CheckoutFail(k) ==
  /\ checkout[k] \notin {"answered", "failed"}
  /\ failures < MaxFailures
  /\ checkout' = [checkout EXCEPT ![k] = "failed"]
  /\ failures' = failures + 1
  /\ UNCHANGED <<req, orderVars, paymentVars, cartStatus, gatewayVars, ret>>

-----------------------------------------------------------------------------
(***************************************************************************)
(* The gateway (not part of this repository), as the code relies on it:    *)
(* the first visit to a payment URL is decided once, a later visit with    *)
(* the same ORDERNUMBER is answered with PRCODE 14, and every answer is a  *)
(* signed redirect that the browser may follow at any time, any number of  *)
(* times, or never.                                                        *)
(***************************************************************************)
HasPaymentUrl(k) == checkout[k] = "answered" /\ req[k].method # "CASH"

GatewayDecide(k) ==
  /\ HasPaymentUrl(k)
  /\ gateway[k] = "open"
  /\ \E code \in Decisions :
       /\ gateway' = [gateway EXCEPT ![k] = code]
       /\ shown' = [shown EXCEPT ![k] = @ \cup {code}]
  /\ UNCHANGED <<req, checkout, orderVars, paymentVars, cartStatus, ret,
                 failures>>

GatewayRevisit(k) ==
  /\ HasPaymentUrl(k)
  /\ gateway[k] # "open"
  /\ "duplicate" \notin shown[k]
  /\ shown' = [shown EXCEPT ![k] = @ \cup {"duplicate"}]
  /\ UNCHANGED <<req, checkout, orderVars, paymentVars, cartStatus, gateway,
                 ret, failures>>

-----------------------------------------------------------------------------
(***************************************************************************)
(* The return request.  The signature of a genuine result verifies.  The   *)
(* payment row that findUnique returns is only used for columns that never *)
(* change (id, order_id, amount, token), and it exists because a result is *)
(* only shown for a URL that was built after the row was written, so that  *)
(* read is part of the start.                                              *)
(***************************************************************************)
ReturnStart(r, k, code) ==
  /\ ret[r].pc = "idle"
  /\ code \in shown[k]
  /\ ret' = [ret EXCEPT ![r] = [@ EXCEPT !.pc = "updatePayment",
                                         !.order = k, !.code = code]]
  /\ UNCHANGED <<req, checkout, orderVars, paymentVars, cartStatus,
                 gatewayVars, failures>>

ReturnUpdatePayment(r) ==
  LET k    == ret[r].order
      paid == isPaymentSuccess(ret[r].code)
  IN /\ ret[r].pc = "updatePayment"
     /\ paymentStatus' =
          [paymentStatus EXCEPT ![k] = IF paid THEN "PAID" ELSE "UNPAID"]
     /\ prcode' = [prcode EXCEPT ![k] = ret[r].code]
     /\ ret' = [ret EXCEPT ![r].pc =
                  IF paid THEN "readOrder" ELSE "redirected"]
     /\ UNCHANGED <<req, checkout, orderVars, cartStatus, gatewayVars,
                    failures>>

ReturnReadOrder(r) ==
  /\ ret[r].pc = "readOrder"
  /\ ret' = [ret EXCEPT ![r] = [@ EXCEPT !.pc = "updateOrder",
                                !.seen = totalPaid[ret[r].order]]]
  /\ UNCHANGED <<req, checkout, orderVars, paymentVars, cartStatus,
                 gatewayVars, failures>>

RedirectBeforeClosing(r) ==
  LET k    == ret[r].order
      paid == newTotalPaid(k, ret[r].seen)
  IN /\ ret[r].pc = "updateOrder"
     /\ totalPaid' = [totalPaid EXCEPT ![k] = paid]
     /\ orderStatus' =
          [orderStatus EXCEPT ![k] = newOrderStatus(paid, storedTotal(k))]
     /\ ret' = [ret EXCEPT ![r].pc = "redirected"]
     /\ UNCHANGED <<req, checkout, paymentVars, cartStatus, gatewayVars,
                    failures>>

ReturnUpdateOrder(r) ==
  LET k    == ret[r].order
      paid == newTotalPaid(k, ret[r].seen)
  IN /\ ret[r].pc = "updateOrder"
     /\ totalPaid' = [totalPaid EXCEPT ![k] = paid]
     /\ orderStatus' =
          [orderStatus EXCEPT ![k] = newOrderStatus(paid, storedTotal(k))]
     /\ ret' = [ret EXCEPT ![r].pc = "closeCart"]
     /\ UNCHANGED <<req, checkout, paymentVars, cartStatus, gatewayVars,
                    failures>>

ReturnCloseCart(r) ==
  /\ ret[r].pc = "closeCart"
  /\ cartStatus' = [cartStatus EXCEPT ![req[ret[r].order].cart] = "ORDERED"]
  /\ ret' = [ret EXCEPT ![r].pc = "redirected"]
  /\ UNCHANGED <<req, checkout, orderVars, paymentVars, gatewayVars, failures>>

ReturnFail(r) ==
  /\ ret[r].pc \notin {"idle", "redirected", "failed"}
  /\ failures < MaxFailures
  /\ ret' = [ret EXCEPT ![r].pc = "failed"]
  /\ failures' = failures + 1
  /\ UNCHANGED <<req, checkout, orderVars, paymentVars, cartStatus,
                 gatewayVars>>

(***************************************************************************)
(* POST /payment/status: the two columns and the message the customer is   *)
(* given for them.                                                         *)
(***************************************************************************)
getStatus(k) ==
  [status  |-> paymentStatus[k],
   message |-> CASE prcode[k] = "duplicate" -> "error"
                 [] prcode[k] = "cancelled" -> "cancelled"
                 [] OTHER                   -> ""]

-----------------------------------------------------------------------------
CheckoutStep(k) == CreatePayment(k) \/ CashConfirmOrder(k) \/ CashCloseCart(k)
GatewayStep(k)  == GatewayDecide(k) \/ GatewayRevisit(k)
ReturnStep(r)   == \/ ReturnUpdatePayment(r) \/ ReturnReadOrder(r)
                   \/ ReturnUpdateOrder(r) \/ ReturnCloseCart(r)

Next ==
  \/ \E k \in Checkouts :
       CreateOrder(k) \/ CheckoutStep(k) \/ CheckoutFail(k) \/ GatewayStep(k)
  \/ \E r \in Returns :
       \/ \E k \in Checkouts : \E code \in Codes : ReturnStart(r, k, code)
       \/ ReturnStep(r)
       \/ ReturnFail(r)

Spec == Init /\ [][Next]_vars

(***************************************************************************)
(* A request that has begun is driven to its end by the event loop; that a *)
(* customer orders, pays or comes back is not promised, and nor is that a  *)
(* statement succeeds.                                                     *)
(***************************************************************************)
Fairness ==
  /\ \A k \in Checkouts : WF_vars(CheckoutStep(k))
  /\ \A r \in Returns : WF_vars(ReturnStep(r))

FairSpec == Spec /\ Fairness

-----------------------------------------------------------------------------
\* Type correctness: every row and every request stays within its type, and
\* a return request that has arrived names an order.
TypeOK ==
  /\ req \in [Checkouts -> Request]
  /\ checkout \in [Checkouts -> CheckoutState]
  /\ orderStatus \in [Checkouts -> OrderStatus \cup {"none"}]
  /\ totalPaid \in [Checkouts -> Nat]
  /\ paymentStatus \in [Checkouts -> PaymentStatus \cup {"none"}]
  /\ prcode \in [Checkouts -> Codes \cup {"none"}]
  /\ cartStatus \in [Carts -> CartStatus]
  /\ gateway \in [Checkouts -> Decisions \cup {"open"}]
  /\ shown \in [Checkouts -> SUBSET Codes]
  /\ ret \in [Returns -> Return]
  /\ \A r \in Returns : ret[r].pc # "idle" => ret[r].order \in Checkouts
  /\ failures \in 0..MaxFailures

\* No credit without charge: whatever return requests are repeated, reordered
\* or abandoned half way, an order is credited or booked, and a payment marked
\* PAID, only if the gateway took the money (or the order is paid in cash).
NoCreditWithoutCharge ==
  \A k \in Checkouts :
    \/ totalPaid[k] > 0
    \/ paymentStatus[k] = "PAID"
    \/ orderStatus[k] \in Booked /\ req[k].method # "CASH"
    => gateway[k] = "ok"

\* Return requests that may have credited order k.
Credits(k) == {r \in Returns : /\ ret[r].order = k
                               /\ ret[r].code = "ok"
                               /\ ret[r].pc \in {"closeCart", "redirected",
                                                 "failed"}}

\* total_paid is a whole number of payments, one for each return request that
\* credited it or fewer (concurrent ones overwrite each other): updating the
\* order from a total read two statements earlier invents no other amount.
CreditsAreWholePayments ==
  \A k \in Checkouts :
    \E n \in 0..Cardinality(Credits(k)) : totalPaid[k] = n * paymentAmount(k)

\* The status of an order agrees with its total_paid although both are
\* computed from a stale read: what is short of the price is PARTIALLY_PAID,
\* what covers it CONFIRMED, and an order in PROCESSING has been paid nothing.
\* An order paid in cash is confirmed with nothing recorded as paid.
StatusMatchesPaid ==
  \A k \in Checkouts :
    IF req[k].method = "CASH"
    THEN totalPaid[k] = 0 /\ orderStatus[k] # "PARTIALLY_PAID"
    ELSE CASE orderStatus[k] = "CONFIRMED"      -> totalPaid[k] >= storedTotal(k)
           [] orderStatus[k] = "PARTIALLY_PAID" -> totalPaid[k] < storedTotal(k)
           [] OTHER                             -> totalPaid[k] = 0

\* A cart is closed only when one of its orders is booked: a failure between
\* any two statements never costs a customer a cart without an order.
CartClosedOnlyWhenBooked ==
  \A c \in Carts :
    cartStatus[c] = "ORDERED" =>
      \E k \in Checkouts : req[k].cart = c /\ orderStatus[k] \in Booked

BookedAndClosed(k) ==
  orderStatus[k] \in Booked /\ cartStatus[req[k].cart] = "ORDERED"

\* The answer the customer gets is true when it is given and stays true: a
\* redirect after a successful result means that the order is booked, credited
\* with at least one payment and its cart closed; a cash checkout that was
\* answered is confirmed and its cart closed.  No later, slower or repeated
\* request takes that back.
AnsweredMeansBooked ==
  /\ \A r \in Returns :
       ret[r].pc = "redirected" /\ ret[r].code = "ok" =>
         /\ BookedAndClosed(ret[r].order)
         /\ totalPaid[ret[r].order] >= paymentAmount(ret[r].order)
  /\ \A k \in Checkouts :
       checkout[k] = "answered" /\ req[k].method = "CASH" =>
         orderStatus[k] = "CONFIRMED" /\ BookedAndClosed(k)

\* A successful result that reaches the server books the order and closes its
\* cart, unless a statement of that very request fails.
SuccessfulResultIsBooked ==
  \A r \in Returns :
    (ret[r].pc = "updatePayment" /\ ret[r].code = "ok") ~>
      \/ ret[r].pc = "failed"
      \/ \E k \in Checkouts : ret[r].order = k /\ BookedAndClosed(k)

\* A cash order that was written is confirmed and its cart closed, unless a
\* statement of its request fails.
CashOrderIsBooked ==
  \A k \in Checkouts :
    (orderStatus[k] = "PROCESSING" /\ req[k].method = "CASH") ~>
      (checkout[k] = "failed" \/ BookedAndClosed(k))

(***************************************************************************)
(* Refinement: what the requests do, statement by statement, is Booking.   *)
(***************************************************************************)
B == INSTANCE Booking WITH
       Orders  <- Checkouts,
       cartOf  <- [k \in Checkouts |-> req[k].cart],
       cash    <- {k \in Checkouts : req[k].method = "CASH"},
       placed  <- {k \in Checkouts : orderStatus[k] # "none"},
       settled <- {k \in Checkouts : gateway[k] = "ok"},
       booked  <- {k \in Checkouts : orderStatus[k] \in Booked},
       closed  <- {c \in Carts : cartStatus[c] = "ORDERED"}

\* The services implement Booking: an order is booked only after its payment
\* was settled or to be paid in cash, a cart closed only after an order of it
\* was booked, and none of these is ever undone, by any request in any order.
BookingSpec == B!Spec

-----------------------------------------------------------------------------
(***************************************************************************)
(* Claims of the schema and the messages that the code does not keep.      *)
(***************************************************************************)

\* orders.total_paid (schema.prisma:143) is what was paid for the order: it
\* never exceeds what the gateway charged.
TotalPaidWithinCharge == \A k \in Checkouts : totalPaid[k] <= Charged(k)

\* payments.amount (schema.prisma:244) is the amount of the payment: a payment
\* that succeeded was charged exactly that (payment.service.ts:37-41 makes it
\* a fifth of the total for a prepayment).
ChargeIsPaymentAmount ==
  \A k \in Checkouts : gateway[k] = "ok" => Charged(k) = paymentAmount(k)

\* POST /payment/status says that the payment failed (payment.service.ts:169)
\* only for an order that is not booked.
StatusMessageIsTrue ==
  \A k \in Checkouts :
    getStatus(k).message = "error" => orderStatus[k] \notin Booked
=============================================================================
