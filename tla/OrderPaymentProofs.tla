------------------------- MODULE OrderPaymentProofs -------------------------
(***************************************************************************)
(* What holds of OrderPayment for any number of checkouts, return          *)
(* requests, carts and failures, and any prices.                           *)
(***************************************************************************)
EXTENDS OrderPayment, FiniteSetTheorems, TLAPS

-----------------------------------------------------------------------------
\* Both roundings map whole tenths of a cent to whole cents.
LEMMA CentsAreNat ==
  ASSUME NEW m \in Nat
  PROVE  convertAmountToCents(m) \in Nat /\ prepaymentCents(m) \in Nat
BY DEF convertAmountToCents, prepaymentCents

\* What is to be paid for an order, and its stored price, are whole cents.
LEMMA AmountsAreNat ==
  ASSUME TypeOK, NEW k \in Checkouts
  PROVE  paymentAmount(k) \in Nat /\ storedTotal(k) \in Nat
<1>1. req[k].amount \in Nat
  BY AmountsAssumption DEF TypeOK, Request
<1> QED
  BY <1>1, CentsAreNat DEF paymentAmount, storedTotal

-----------------------------------------------------------------------------
\* Every step keeps every row and every request within its type
\* (the handlers of POST /order and GET /payment/return).
LEMMA TypeStep == TypeOK /\ [Next]_vars => TypeOK'
<1> SUFFICES ASSUME TypeOK, [Next]_vars
             PROVE  TypeOK'
  OBVIOUS
<1> USE DEF TypeOK
<1>1. ASSUME NEW k \in Checkouts, CreateOrder(k)
      PROVE  TypeOK'
  BY <1>1 DEF CreateOrder, CheckoutState, OrderStatus, paymentVars, gatewayVars
<1>2. ASSUME NEW k \in Checkouts, CreatePayment(k)
      PROVE  TypeOK'
  BY <1>2 DEF CreatePayment, getInitiateStrategy, CheckoutState,
              PaymentStatus, orderVars, gatewayVars
<1>3. ASSUME NEW k \in Checkouts, CashConfirmOrder(k)
      PROVE  TypeOK'
  BY <1>3 DEF CashConfirmOrder, CheckoutState, OrderStatus, paymentVars,
              gatewayVars
<1>4. ASSUME NEW k \in Checkouts, CashCloseCart(k)
      PROVE  TypeOK'
  BY <1>4 DEF CashCloseCart, CheckoutState, CartStatus, orderVars,
              paymentVars, gatewayVars
<1>5. ASSUME NEW k \in Checkouts, CheckoutFail(k)
      PROVE  TypeOK'
  BY <1>5, FailuresAssumption
     DEF CheckoutFail, CheckoutState, orderVars, paymentVars, gatewayVars
<1>6. ASSUME NEW k \in Checkouts, GatewayDecide(k)
      PROVE  TypeOK'
  BY <1>6 DEF GatewayDecide, Decisions, Codes, orderVars, paymentVars
<1>7. ASSUME NEW k \in Checkouts, GatewayRevisit(k)
      PROVE  TypeOK'
  BY <1>7 DEF GatewayRevisit, Codes, orderVars, paymentVars
<1>8. ASSUME NEW r \in Returns, NEW k \in Checkouts, NEW code \in Codes,
             ReturnStart(r, k, code)
      PROVE  TypeOK'
  BY <1>8 DEF ReturnStart, Return, ReturnState, orderVars, paymentVars,
              gatewayVars
<1>9. ASSUME NEW r \in Returns, ReturnUpdatePayment(r)
      PROVE  TypeOK'
  BY <1>9 DEF ReturnUpdatePayment, Return, ReturnState, PaymentStatus,
              orderVars, gatewayVars
<1>10. ASSUME NEW r \in Returns, ReturnReadOrder(r)
       PROVE  TypeOK'
  BY <1>10 DEF ReturnReadOrder, Return, ReturnState, orderVars, paymentVars,
               gatewayVars
<1>11. ASSUME NEW r \in Returns, ReturnUpdateOrder(r)
       PROVE  TypeOK'
  <2>1. /\ ret[r].order \in Checkouts
        /\ newTotalPaid(ret[r].order, ret[r].seen) \in Nat
    BY <1>11, AmountsAreNat DEF ReturnUpdateOrder, newTotalPaid, Return
  <2> QED
    BY <1>11, <2>1
       DEF ReturnUpdateOrder, newOrderStatus, OrderStatus, Return, ReturnState,
           paymentVars, gatewayVars
<1>12. ASSUME NEW r \in Returns, ReturnCloseCart(r)
       PROVE  TypeOK'
  <2>1. cartStatus' \in [Carts -> CartStatus]
    BY <1>12 DEF ReturnCloseCart, CartStatus
  <2>2. /\ ret' \in [Returns -> Return]
        /\ \A q \in Returns :
             ret'[q].pc # "idle" => ret'[q].order \in Checkouts
    BY <1>12 DEF ReturnCloseCart, Return, ReturnState
  <2> QED
    BY <1>12, <2>1, <2>2
       DEF ReturnCloseCart, orderVars, paymentVars, gatewayVars
<1>13. ASSUME NEW r \in Returns, ReturnFail(r)
       PROVE  TypeOK'
  BY <1>13, FailuresAssumption
     DEF ReturnFail, Return, ReturnState, orderVars, paymentVars, gatewayVars
<1>14. CASE UNCHANGED vars
  BY <1>14 DEF vars, orderVars, paymentVars, gatewayVars
<1> QED
  BY <1>1, <1>2, <1>3, <1>4, <1>5, <1>6, <1>7, <1>8, <1>9, <1>10, <1>11,
     <1>12, <1>13, <1>14
     DEF Next, CheckoutStep, GatewayStep, ReturnStep

\* Type correctness, whatever the constants.
THEOREM TypeCorrect == Spec => []TypeOK
<1>1. Init => TypeOK
  BY FailuresAssumption
     DEF Init, TypeOK, CheckoutState, OrderStatus, PaymentStatus, Codes,
         CartStatus, Decisions, Return, ReturnState
<1> QED
  BY <1>1, TypeStep, PTL DEF Spec

-----------------------------------------------------------------------------
(***************************************************************************)
(* The inductive invariant.  The safety properties do not carry themselves:*)
(* they rest on where each request stands and on what it knows there.      *)
(***************************************************************************)

\* Where a checkout stands tells what it has written.
CheckoutProgress ==
  \A k \in Checkouts :
    /\ checkout[k] = "requested" => orderStatus[k] = "none"
    /\ checkout[k] \in {"createPayment", "confirmOrder", "closeCart",
                        "answered"} => orderStatus[k] # "none"
    /\ checkout[k] \in {"confirmOrder", "closeCart"} => req[k].method = "CASH"
    /\ checkout[k] = "closeCart" => orderStatus[k] = "CONFIRMED"
    /\ checkout[k] = "answered" /\ req[k].method = "CASH" =>
         orderStatus[k] = "CONFIRMED" /\ BookedAndClosed(k)

\* The gateway knows only payments it was given a URL for, and shows success
\* only for those it decided that way.
GatewayHonest ==
  \A k \in Checkouts :
    /\ gateway[k] # "open" => HasPaymentUrl(k)
    /\ shown[k] # {} => gateway[k] # "open"
    /\ "ok" \in shown[k] => gateway[k] = "ok"

\* A return request carries a result that was shown, works on the order only
\* for a successful one, and has booked the order before it closes the cart
\* and closed the cart before it answers.
ReturnProgress ==
  \A r \in Returns :
    LET k == ret[r].order IN
    ret[r].pc # "idle" =>
      /\ ret[r].code \in shown[k]
      /\ ret[r].pc \in {"readOrder", "updateOrder", "closeCart"} =>
           ret[r].code = "ok"
      /\ ret[r].pc = "closeCart" =>
           orderStatus[k] \in Booked /\ totalPaid[k] >= paymentAmount(k)
      /\ ret[r].pc = "redirected" /\ ret[r].code = "ok" =>
           BookedAndClosed(k) /\ totalPaid[k] >= paymentAmount(k)

IInv ==
  /\ TypeOK
  /\ CheckoutProgress
  /\ GatewayHonest
  /\ ReturnProgress
  /\ NoCreditWithoutCharge
  /\ CartClosedOnlyWhenBooked

\* The inductive invariant holds initially.
LEMMA InitIInv == Init => IInv
<1> SUFFICES ASSUME Init
             PROVE  IInv
  OBVIOUS
<1>1. TypeOK
  BY FailuresAssumption
     DEF Init, TypeOK, CheckoutState, OrderStatus, PaymentStatus, Codes,
         CartStatus, Decisions, Return, ReturnState
<1>2. CheckoutProgress /\ GatewayHonest
  BY DEF Init, CheckoutProgress, GatewayHonest
<1>3. ReturnProgress
  BY DEF Init, ReturnProgress
<1>4. NoCreditWithoutCharge /\ CartClosedOnlyWhenBooked
  BY DEF Init, NoCreditWithoutCharge, CartClosedOnlyWhenBooked, Booked
<1> QED
  BY <1>1, <1>2, <1>3, <1>4 DEF IInv

(***************************************************************************)
(* The step lemmas below split Next into its actions.                      *)
(***************************************************************************)

\* What a step leaves alone: orders stay booked and credited with a payment,
\* carts closed, the gateway's word stands and what it has shown stays shown.
Kept ==
  /\ req' = req
  /\ \A k \in Checkouts :
       /\ orderStatus[k] # "none" => orderStatus'[k] # "none"
       /\ orderStatus[k] \in Booked => orderStatus'[k] \in Booked
       /\ gateway[k] # "open" => gateway'[k] = gateway[k]
       /\ shown[k] \subseteq shown'[k]
       /\ HasPaymentUrl(k) => HasPaymentUrl(k)'
       /\ BookedAndClosed(k) => BookedAndClosed(k)'
       /\ totalPaid[k] >= paymentAmount(k) =>
            (totalPaid[k] >= paymentAmount(k))'
  /\ \A c \in Carts : cartStatus[c] = "ORDERED" => cartStatus'[c] = "ORDERED"

\* No step takes any of it back.
LEMMA KeptStep ==
  ASSUME IInv, [Next]_vars
  PROVE  Kept
<1> USE DEF orderVars, paymentVars, gatewayVars, IInv, TypeOK,
           Request, Kept, Booked, HasPaymentUrl, BookedAndClosed
<1>0. ASSUME req' = req, NEW k \in Checkouts
      PROVE  paymentAmount(k)' = paymentAmount(k)
  BY <1>0 DEF paymentAmount
<1>1. ASSUME NEW k \in Checkouts, CreateOrder(k)
      PROVE  Kept
  BY <1>1, <1>0 DEF CreateOrder, CheckoutProgress
<1>2. ASSUME NEW k \in Checkouts, CreatePayment(k)
      PROVE  Kept
  BY <1>2, <1>0 DEF CreatePayment
<1>3. ASSUME NEW k \in Checkouts, CashConfirmOrder(k)
      PROVE  Kept
  BY <1>3, <1>0 DEF CashConfirmOrder
<1>4. ASSUME NEW k \in Checkouts, CashCloseCart(k)
      PROVE  Kept
  BY <1>4, <1>0 DEF CashCloseCart
<1>5. ASSUME NEW k \in Checkouts, CheckoutFail(k)
      PROVE  Kept
  BY <1>5, <1>0 DEF CheckoutFail
<1>6. ASSUME NEW k \in Checkouts, GatewayDecide(k)
      PROVE  Kept
  BY <1>6, <1>0 DEF GatewayDecide, GatewayHonest
<1>7. ASSUME NEW k \in Checkouts, GatewayRevisit(k)
      PROVE  Kept
  BY <1>7, <1>0 DEF GatewayRevisit
<1>8. ASSUME NEW r \in Returns, NEW k \in Checkouts, NEW code \in Codes,
             ReturnStart(r, k, code)
      PROVE  Kept
  BY <1>8, <1>0 DEF ReturnStart
<1>9. ASSUME NEW r \in Returns, ReturnUpdatePayment(r)
      PROVE  Kept
  BY <1>9, <1>0 DEF ReturnUpdatePayment
<1>10. ASSUME NEW r \in Returns, ReturnReadOrder(r)
       PROVE  Kept
  BY <1>10, <1>0 DEF ReturnReadOrder
<1>11. ASSUME NEW r \in Returns, ReturnUpdateOrder(r)
       PROVE  Kept
  <2>1. /\ ret[r].order \in Checkouts
        /\ newTotalPaid(ret[r].order, ret[r].seen) >=
             paymentAmount(ret[r].order)
    BY <1>11, AmountsAreNat DEF ReturnUpdateOrder, Return, newTotalPaid
  <2> QED
    BY <1>11, <2>1, <1>0 DEF ReturnUpdateOrder, newOrderStatus
<1>12. ASSUME NEW r \in Returns, ReturnCloseCart(r)
       PROVE  Kept
  BY <1>12, <1>0 DEF ReturnCloseCart
<1>13. ASSUME NEW r \in Returns, ReturnFail(r)
       PROVE  Kept
  BY <1>13, <1>0 DEF ReturnFail
<1>14. CASE UNCHANGED vars
  BY <1>14, <1>0 DEF vars
<1> QED
  BY <1>1, <1>2, <1>3, <1>4, <1>5, <1>6, <1>7,
     <1>8, <1>9, <1>10, <1>11, <1>12, <1>13, <1>14
     DEF Next, CheckoutStep, GatewayStep, ReturnStep

\* A checkout has written what its position says, after every step.
LEMMA CheckoutProgressStep ==
  ASSUME IInv, [Next]_vars, Kept, TypeOK'
  PROVE  CheckoutProgress'
<1> USE DEF orderVars, paymentVars, gatewayVars, IInv, TypeOK,
           CheckoutProgress, Booked, BookedAndClosed
<1>1. ASSUME NEW k \in Checkouts, CreateOrder(k)
      PROVE  CheckoutProgress'
  BY <1>1 DEF CreateOrder
<1>2. ASSUME NEW k \in Checkouts, CreatePayment(k)
      PROVE  CheckoutProgress'
  BY <1>2 DEF CreatePayment, getInitiateStrategy
<1>3. ASSUME NEW k \in Checkouts, CashConfirmOrder(k)
      PROVE  CheckoutProgress'
  BY <1>3 DEF CashConfirmOrder
<1>4. ASSUME NEW k \in Checkouts, CashCloseCart(k)
      PROVE  CheckoutProgress'
  BY <1>4 DEF CashCloseCart
<1>5. ASSUME NEW k \in Checkouts, CheckoutFail(k)
      PROVE  CheckoutProgress'
  BY <1>5 DEF CheckoutFail
<1>6. ASSUME NEW k \in Checkouts, GatewayDecide(k)
      PROVE  CheckoutProgress'
  BY <1>6 DEF GatewayDecide
<1>7. ASSUME NEW k \in Checkouts, GatewayRevisit(k)
      PROVE  CheckoutProgress'
  BY <1>7 DEF GatewayRevisit
<1>8. ASSUME NEW r \in Returns, NEW k \in Checkouts, NEW code \in Codes,
             ReturnStart(r, k, code)
      PROVE  CheckoutProgress'
  BY <1>8 DEF ReturnStart
<1>9. ASSUME NEW r \in Returns, ReturnUpdatePayment(r)
      PROVE  CheckoutProgress'
  BY <1>9 DEF ReturnUpdatePayment
<1>10. ASSUME NEW r \in Returns, ReturnReadOrder(r)
       PROVE  CheckoutProgress'
  BY <1>10 DEF ReturnReadOrder
<1>11. ASSUME NEW r \in Returns, ReturnUpdateOrder(r)
       PROVE  CheckoutProgress'
  BY <1>11 DEF ReturnUpdateOrder, Return, newOrderStatus, ReturnProgress,
                 GatewayHonest, HasPaymentUrl
<1>12. ASSUME NEW r \in Returns, ReturnCloseCart(r)
       PROVE  CheckoutProgress'
  BY <1>12 DEF ReturnCloseCart
<1>13. ASSUME NEW r \in Returns, ReturnFail(r)
       PROVE  CheckoutProgress'
  BY <1>13 DEF ReturnFail
<1>14. CASE UNCHANGED vars
  BY <1>14 DEF vars
<1> QED
  BY <1>1, <1>2, <1>3, <1>4, <1>5, <1>6, <1>7,
     <1>8, <1>9, <1>10, <1>11, <1>12, <1>13, <1>14
     DEF Next, CheckoutStep, GatewayStep, ReturnStep

\* The gateway stays honest through every step.
LEMMA GatewayHonestStep ==
  ASSUME IInv, [Next]_vars
  PROVE  GatewayHonest'
<1> USE DEF orderVars, paymentVars, gatewayVars, IInv, TypeOK,
           GatewayHonest, HasPaymentUrl
<1>1. ASSUME NEW k \in Checkouts, CreateOrder(k)
      PROVE  GatewayHonest'
  BY <1>1 DEF CreateOrder
<1>2. ASSUME NEW k \in Checkouts, CreatePayment(k)
      PROVE  GatewayHonest'
  BY <1>2 DEF CreatePayment
<1>3. ASSUME NEW k \in Checkouts, CashConfirmOrder(k)
      PROVE  GatewayHonest'
  BY <1>3 DEF CashConfirmOrder
<1>4. ASSUME NEW k \in Checkouts, CashCloseCart(k)
      PROVE  GatewayHonest'
  BY <1>4 DEF CashCloseCart
<1>5. ASSUME NEW k \in Checkouts, CheckoutFail(k)
      PROVE  GatewayHonest'
  BY <1>5 DEF CheckoutFail
<1>6. ASSUME NEW k \in Checkouts, GatewayDecide(k)
      PROVE  GatewayHonest'
  BY <1>6 DEF GatewayDecide, Decisions
<1>7. ASSUME NEW k \in Checkouts, GatewayRevisit(k)
      PROVE  GatewayHonest'
  BY <1>7 DEF GatewayRevisit
<1>8. ASSUME NEW r \in Returns, NEW k \in Checkouts, NEW code \in Codes,
             ReturnStart(r, k, code)
      PROVE  GatewayHonest'
  BY <1>8 DEF ReturnStart
<1>9. ASSUME NEW r \in Returns, ReturnUpdatePayment(r)
      PROVE  GatewayHonest'
  BY <1>9 DEF ReturnUpdatePayment
<1>10. ASSUME NEW r \in Returns, ReturnReadOrder(r)
       PROVE  GatewayHonest'
  BY <1>10 DEF ReturnReadOrder
<1>11. ASSUME NEW r \in Returns, ReturnUpdateOrder(r)
       PROVE  GatewayHonest'
  BY <1>11 DEF ReturnUpdateOrder
<1>12. ASSUME NEW r \in Returns, ReturnCloseCart(r)
       PROVE  GatewayHonest'
  BY <1>12 DEF ReturnCloseCart
<1>13. ASSUME NEW r \in Returns, ReturnFail(r)
       PROVE  GatewayHonest'
  BY <1>13 DEF ReturnFail
<1>14. CASE UNCHANGED vars
  BY <1>14 DEF vars
<1> QED
  BY <1>1, <1>2, <1>3, <1>4, <1>5, <1>6, <1>7,
     <1>8, <1>9, <1>10, <1>11, <1>12, <1>13, <1>14
     DEF Next, CheckoutStep, GatewayStep, ReturnStep

\* A return request knows and has done what its position says, after every
\* step of any request.
LEMMA ReturnProgressStep ==
  ASSUME IInv, [Next]_vars, Kept
  PROVE  ReturnProgress'
<1> USE DEF orderVars, paymentVars, gatewayVars, IInv, TypeOK,
           ReturnProgress, Return, Kept
<1>0. ASSUME NEW k \in Checkouts
      PROVE  paymentAmount(k)' = paymentAmount(k)
  BY DEF paymentAmount
<1>1. ASSUME NEW k \in Checkouts, CreateOrder(k)
      PROVE  ReturnProgress'
  BY <1>1, <1>0 DEF CreateOrder
<1>2. ASSUME NEW k \in Checkouts, CreatePayment(k)
      PROVE  ReturnProgress'
  BY <1>2, <1>0 DEF CreatePayment
<1>3. ASSUME NEW k \in Checkouts, CashConfirmOrder(k)
      PROVE  ReturnProgress'
  BY <1>3, <1>0 DEF CashConfirmOrder
<1>4. ASSUME NEW k \in Checkouts, CashCloseCart(k)
      PROVE  ReturnProgress'
  BY <1>4, <1>0 DEF CashCloseCart
<1>5. ASSUME NEW k \in Checkouts, CheckoutFail(k)
      PROVE  ReturnProgress'
  BY <1>5, <1>0 DEF CheckoutFail
<1>6. ASSUME NEW k \in Checkouts, GatewayDecide(k)
      PROVE  ReturnProgress'
  BY <1>6, <1>0 DEF GatewayDecide
<1>7. ASSUME NEW k \in Checkouts, GatewayRevisit(k)
      PROVE  ReturnProgress'
  BY <1>7, <1>0 DEF GatewayRevisit
<1>8. ASSUME NEW r \in Returns, NEW k \in Checkouts, NEW code \in Codes,
             ReturnStart(r, k, code)
      PROVE  ReturnProgress'
  BY <1>8, <1>0 DEF ReturnStart
<1>9. ASSUME NEW r \in Returns, ReturnUpdatePayment(r)
      PROVE  ReturnProgress'
  BY <1>9, <1>0 DEF ReturnUpdatePayment, isPaymentSuccess
<1>10. ASSUME NEW r \in Returns, ReturnReadOrder(r)
       PROVE  ReturnProgress'
  BY <1>10, <1>0 DEF ReturnReadOrder
<1>11. ASSUME NEW r \in Returns, ReturnUpdateOrder(r)
       PROVE  ReturnProgress'
  <2>1. /\ ret[r].order \in Checkouts
        /\ newTotalPaid(ret[r].order, ret[r].seen) >=
             paymentAmount(ret[r].order)
    BY <1>11, AmountsAreNat DEF ReturnUpdateOrder, newTotalPaid
  <2>2. /\ orderStatus'[ret[r].order] \in Booked
        /\ (totalPaid[ret[r].order])' >= paymentAmount(ret[r].order)
    BY <1>11, <2>1 DEF ReturnUpdateOrder, newOrderStatus, Booked
  <2> QED
    BY <1>11, <2>1, <2>2, <1>0 DEF ReturnUpdateOrder
<1>12. ASSUME NEW r \in Returns, ReturnCloseCart(r)
       PROVE  ReturnProgress'
  BY <1>12, <1>0 DEF ReturnCloseCart, BookedAndClosed, Booked, Request
<1>13. ASSUME NEW r \in Returns, ReturnFail(r)
       PROVE  ReturnProgress'
  BY <1>13, <1>0 DEF ReturnFail
<1>14. CASE UNCHANGED vars
  BY <1>14, <1>0 DEF vars
<1> QED
  BY <1>1, <1>2, <1>3, <1>4, <1>5, <1>6, <1>7,
     <1>8, <1>9, <1>10, <1>11, <1>12, <1>13, <1>14
     DEF Next, CheckoutStep, GatewayStep, ReturnStep

\* No step credits or books an order that was not charged.
LEMMA NoCreditStep ==
  ASSUME IInv, [Next]_vars, Kept
  PROVE  NoCreditWithoutCharge'
<1> USE DEF orderVars, paymentVars, gatewayVars, IInv, TypeOK,
           NoCreditWithoutCharge, Kept, Booked
<1>1. ASSUME NEW k \in Checkouts, CreateOrder(k)
      PROVE  NoCreditWithoutCharge'
  BY <1>1 DEF CreateOrder
<1>2. ASSUME NEW k \in Checkouts, CreatePayment(k)
      PROVE  NoCreditWithoutCharge'
  BY <1>2 DEF CreatePayment
<1>3. ASSUME NEW k \in Checkouts, CashConfirmOrder(k)
      PROVE  NoCreditWithoutCharge'
  BY <1>3 DEF CashConfirmOrder, CheckoutProgress
<1>4. ASSUME NEW k \in Checkouts, CashCloseCart(k)
      PROVE  NoCreditWithoutCharge'
  BY <1>4 DEF CashCloseCart
<1>5. ASSUME NEW k \in Checkouts, CheckoutFail(k)
      PROVE  NoCreditWithoutCharge'
  BY <1>5 DEF CheckoutFail
<1>6. ASSUME NEW k \in Checkouts, GatewayDecide(k)
      PROVE  NoCreditWithoutCharge'
  BY <1>6 DEF GatewayDecide
<1>7. ASSUME NEW k \in Checkouts, GatewayRevisit(k)
      PROVE  NoCreditWithoutCharge'
  BY <1>7 DEF GatewayRevisit
<1>8. ASSUME NEW r \in Returns, NEW k \in Checkouts, NEW code \in Codes,
             ReturnStart(r, k, code)
      PROVE  NoCreditWithoutCharge'
  BY <1>8 DEF ReturnStart
<1>9. ASSUME NEW r \in Returns, ReturnUpdatePayment(r)
      PROVE  NoCreditWithoutCharge'
  BY <1>9 DEF ReturnUpdatePayment, Return, ReturnProgress, GatewayHonest,
                 isPaymentSuccess
<1>10. ASSUME NEW r \in Returns, ReturnReadOrder(r)
       PROVE  NoCreditWithoutCharge'
  BY <1>10 DEF ReturnReadOrder
<1>11. ASSUME NEW r \in Returns, ReturnUpdateOrder(r)
       PROVE  NoCreditWithoutCharge'
  BY <1>11 DEF ReturnUpdateOrder, Return, ReturnProgress, GatewayHonest
<1>12. ASSUME NEW r \in Returns, ReturnCloseCart(r)
       PROVE  NoCreditWithoutCharge'
  BY <1>12 DEF ReturnCloseCart
<1>13. ASSUME NEW r \in Returns, ReturnFail(r)
       PROVE  NoCreditWithoutCharge'
  BY <1>13 DEF ReturnFail
<1>14. CASE UNCHANGED vars
  BY <1>14 DEF vars
<1> QED
  BY <1>1, <1>2, <1>3, <1>4, <1>5, <1>6, <1>7,
     <1>8, <1>9, <1>10, <1>11, <1>12, <1>13, <1>14
     DEF Next, CheckoutStep, GatewayStep, ReturnStep

\* No step closes a cart of which no order is booked.
LEMMA ClosedStep ==
  ASSUME IInv, [Next]_vars, Kept
  PROVE  CartClosedOnlyWhenBooked'
<1> USE DEF orderVars, paymentVars, gatewayVars, IInv, TypeOK,
           CartClosedOnlyWhenBooked, Kept
<1>1. ASSUME NEW k \in Checkouts, CreateOrder(k)
      PROVE  CartClosedOnlyWhenBooked'
  BY <1>1 DEF CreateOrder
<1>2. ASSUME NEW k \in Checkouts, CreatePayment(k)
      PROVE  CartClosedOnlyWhenBooked'
  BY <1>2 DEF CreatePayment
<1>3. ASSUME NEW k \in Checkouts, CashConfirmOrder(k)
      PROVE  CartClosedOnlyWhenBooked'
  BY <1>3 DEF CashConfirmOrder
<1>4. ASSUME NEW k \in Checkouts, CashCloseCart(k)
      PROVE  CartClosedOnlyWhenBooked'
  BY <1>4 DEF CashCloseCart, CheckoutProgress, Booked, Request
<1>5. ASSUME NEW k \in Checkouts, CheckoutFail(k)
      PROVE  CartClosedOnlyWhenBooked'
  BY <1>5 DEF CheckoutFail
<1>6. ASSUME NEW k \in Checkouts, GatewayDecide(k)
      PROVE  CartClosedOnlyWhenBooked'
  BY <1>6 DEF GatewayDecide
<1>7. ASSUME NEW k \in Checkouts, GatewayRevisit(k)
      PROVE  CartClosedOnlyWhenBooked'
  BY <1>7 DEF GatewayRevisit
<1>8. ASSUME NEW r \in Returns, NEW k \in Checkouts, NEW code \in Codes,
             ReturnStart(r, k, code)
      PROVE  CartClosedOnlyWhenBooked'
  BY <1>8 DEF ReturnStart
<1>9. ASSUME NEW r \in Returns, ReturnUpdatePayment(r)
      PROVE  CartClosedOnlyWhenBooked'
  BY <1>9 DEF ReturnUpdatePayment
<1>10. ASSUME NEW r \in Returns, ReturnReadOrder(r)
       PROVE  CartClosedOnlyWhenBooked'
  BY <1>10 DEF ReturnReadOrder
<1>11. ASSUME NEW r \in Returns, ReturnUpdateOrder(r)
       PROVE  CartClosedOnlyWhenBooked'
  BY <1>11 DEF ReturnUpdateOrder
<1>12. ASSUME NEW r \in Returns, ReturnCloseCart(r)
       PROVE  CartClosedOnlyWhenBooked'
  BY <1>12 DEF ReturnCloseCart, ReturnProgress, Return
<1>13. ASSUME NEW r \in Returns, ReturnFail(r)
       PROVE  CartClosedOnlyWhenBooked'
  BY <1>13 DEF ReturnFail
<1>14. CASE UNCHANGED vars
  BY <1>14 DEF vars
<1> QED
  BY <1>1, <1>2, <1>3, <1>4, <1>5, <1>6, <1>7,
     <1>8, <1>9, <1>10, <1>11, <1>12, <1>13, <1>14
     DEF Next, CheckoutStep, GatewayStep, ReturnStep

\* The inductive invariant is inductive.
LEMMA StepIInv == IInv /\ [Next]_vars => IInv'
<1> SUFFICES ASSUME IInv, [Next]_vars
             PROVE  IInv'
  OBVIOUS
<1>1. TypeOK'
  BY TypeStep DEF IInv
<1>2. Kept
  BY KeptStep
<1>3. CheckoutProgress'
  BY <1>1, <1>2, CheckoutProgressStep
<1>4. GatewayHonest' /\ ReturnProgress'
  BY <1>2, GatewayHonestStep, ReturnProgressStep
<1>5. NoCreditWithoutCharge' /\ CartClosedOnlyWhenBooked'
  BY <1>2, NoCreditStep, ClosedStep
<1> QED
  BY <1>1, <1>3, <1>4, <1>5 DEF IInv

LEMMA InvIInv == Spec => []IInv
BY InitIInv, StepIInv, PTL DEF Spec

-----------------------------------------------------------------------------
\* No interleaving, repetition or failure of requests credits or books an
\* order, or marks its payment PAID, that the gateway has not charged.
THEOREM CreditsAreCharged == Spec => []NoCreditWithoutCharge
<1>1. IInv => NoCreditWithoutCharge
  BY DEF IInv
<1> QED
  BY <1>1, InvIInv, PTL

\* No failure closes a cart without an order.
THEOREM ClosedCartsAreBooked == Spec => []CartClosedOnlyWhenBooked
<1>1. IInv => CartClosedOnlyWhenBooked
  BY DEF IInv
<1> QED
  BY <1>1, InvIInv, PTL

\* What a customer was told of a successful payment or a cash order is true
\* from then on.
THEOREM AnswersAreTrue == Spec => []AnsweredMeansBooked
<1>1. IInv => AnsweredMeansBooked
  BY DEF IInv, CheckoutProgress, ReturnProgress, AnsweredMeansBooked
<1> QED
  BY <1>1, InvIInv, PTL

\* No step parts the status of an order from its total_paid.
LEMMA StatusStep ==
  ASSUME IInv, [Next]_vars, StatusMatchesPaid
  PROVE  StatusMatchesPaid'
<1> USE DEF orderVars, paymentVars, gatewayVars, IInv, TypeOK,
           StatusMatchesPaid
<1>0. ASSUME req' = req, NEW k \in Checkouts
      PROVE  storedTotal(k)' = storedTotal(k)
  BY <1>0 DEF storedTotal
<1>1. ASSUME NEW k \in Checkouts, CreateOrder(k)
      PROVE  StatusMatchesPaid'
  BY <1>1, <1>0 DEF CreateOrder, CheckoutProgress
<1>2. ASSUME NEW k \in Checkouts, CreatePayment(k)
      PROVE  StatusMatchesPaid'
  BY <1>2, <1>0 DEF CreatePayment
<1>3. ASSUME NEW k \in Checkouts, CashConfirmOrder(k)
      PROVE  StatusMatchesPaid'
  BY <1>3, <1>0 DEF CashConfirmOrder, CheckoutProgress
<1>4. ASSUME NEW k \in Checkouts, CashCloseCart(k)
      PROVE  StatusMatchesPaid'
  BY <1>4, <1>0 DEF CashCloseCart
<1>5. ASSUME NEW k \in Checkouts, CheckoutFail(k)
      PROVE  StatusMatchesPaid'
  BY <1>5, <1>0 DEF CheckoutFail
<1>6. ASSUME NEW k \in Checkouts, GatewayDecide(k)
      PROVE  StatusMatchesPaid'
  BY <1>6, <1>0 DEF GatewayDecide
<1>7. ASSUME NEW k \in Checkouts, GatewayRevisit(k)
      PROVE  StatusMatchesPaid'
  BY <1>7, <1>0 DEF GatewayRevisit
<1>8. ASSUME NEW r \in Returns, NEW k \in Checkouts, NEW code \in Codes,
             ReturnStart(r, k, code)
      PROVE  StatusMatchesPaid'
  BY <1>8, <1>0 DEF ReturnStart
<1>9. ASSUME NEW r \in Returns, ReturnUpdatePayment(r)
      PROVE  StatusMatchesPaid'
  BY <1>9, <1>0 DEF ReturnUpdatePayment
<1>10. ASSUME NEW r \in Returns, ReturnReadOrder(r)
       PROVE  StatusMatchesPaid'
  BY <1>10, <1>0 DEF ReturnReadOrder
<1>11. ASSUME NEW r \in Returns, ReturnUpdateOrder(r)
       PROVE  StatusMatchesPaid'
  <2>1. /\ ret[r].order \in Checkouts
        /\ req[ret[r].order].method # "CASH"
        /\ newTotalPaid(ret[r].order, ret[r].seen) \in Nat
        /\ storedTotal(ret[r].order) \in Nat
    BY <1>11, AmountsAreNat
       DEF ReturnUpdateOrder, newTotalPaid, Return, ReturnProgress,
           GatewayHonest, HasPaymentUrl
  <2> QED
    BY <1>11, <2>1, <1>0 DEF ReturnUpdateOrder, newOrderStatus
<1>12. ASSUME NEW r \in Returns, ReturnCloseCart(r)
       PROVE  StatusMatchesPaid'
  BY <1>12, <1>0 DEF ReturnCloseCart
<1>13. ASSUME NEW r \in Returns, ReturnFail(r)
       PROVE  StatusMatchesPaid'
  BY <1>13, <1>0 DEF ReturnFail
<1>14. CASE UNCHANGED vars
  BY <1>14, <1>0 DEF vars
<1> QED
  BY <1>1, <1>2, <1>3, <1>4, <1>5, <1>6, <1>7,
     <1>8, <1>9, <1>10, <1>11, <1>12, <1>13, <1>14
     DEF Next, CheckoutStep, GatewayStep, ReturnStep

\* However stale the total a return request adds to, the status it writes is
\* the one that total calls for.
THEOREM StatusIsRight == Spec => []StatusMatchesPaid
<1>1. Init => StatusMatchesPaid
  BY DEF Init, StatusMatchesPaid
<1>2. IInv /\ StatusMatchesPaid /\ [Next]_vars => StatusMatchesPaid'
  BY StatusStep
<1> QED
  BY <1>1, <1>2, InvIInv, PTL DEF Spec

-----------------------------------------------------------------------------
(***************************************************************************)
(* total_paid is a whole number of payments.  It is written from a total   *)
(* read two statements earlier, so what is invariant is that every such    *)
(* total, too, is one payment for each credit up to now, or fewer.         *)
(***************************************************************************)
Whole(k, paid) ==
  \E n \in 0..Cardinality(Credits(k)) : paid = n * paymentAmount(k)

SeenIsWhole ==
  \A r \in Returns :
    ret[r].pc = "updateOrder" => Whole(ret[r].order, ret[r].seen)

\* The requests that may have credited an order are finitely many.
LEMMA CreditsAreFinite ==
  ASSUME NEW k
  PROVE  IsFiniteSet(Credits(k)) /\ Cardinality(Credits(k)) \in Nat
<1>1. Credits(k) \subseteq Returns
  BY DEF Credits
<1> QED
  BY <1>1, ReturnsAssumption, FS_Subset, FS_CardinalityType

\* One payment more is a whole number of payments.
LEMMA OneMore ==
  ASSUME NEW n \in Nat, NEW a \in Nat
  PROVE  n * a + a = (n + 1) * a
OBVIOUS

\* A whole number of payments stays one: credits are not taken back.
LEMMA WholeStays ==
  ASSUME TypeOK, req' = req, NEW k \in Checkouts, NEW paid, Whole(k, paid),
         Credits(k) \subseteq Credits(k)', IsFiniteSet(Credits(k)')
  PROVE  \E n \in 0..Cardinality(Credits(k)') : paid = n * paymentAmount(k)'
<1>1. Cardinality(Credits(k)) <= Cardinality(Credits(k)')
  BY FS_Subset
<1>2. /\ Cardinality(Credits(k)) \in Nat
      /\ Cardinality(Credits(k)') \in Nat
  BY CreditsAreFinite, FS_CardinalityType
<1>3. PICK n \in 0..Cardinality(Credits(k)) : paid = n * paymentAmount(k)
  BY DEF Whole
<1>4. n \in 0..Cardinality(Credits(k)')
  BY <1>1, <1>2, <1>3
<1>5. paymentAmount(k)' = paymentAmount(k)
  BY DEF paymentAmount
<1> QED
  BY <1>3, <1>4, <1>5

\* The requests that may have credited an order stay finitely many, and none of
\* them leaves that state.
LEMMA CreditsStay ==
  ASSUME TypeOK, [Next]_vars, NEW k \in Checkouts
  PROVE  Credits(k) \subseteq Credits(k)' /\ IsFiniteSet(Credits(k)')
<1> USE DEF TypeOK, Credits, Return
<1>1. Credits(k)' \subseteq Returns
  OBVIOUS
<1>2. IsFiniteSet(Credits(k)')
  BY <1>1, ReturnsAssumption, FS_Subset
<1>3. ASSUME ret' = ret
      PROVE  Credits(k) \subseteq Credits(k)'
  BY <1>3
<1>4. ASSUME NEW l \in Checkouts,
             \/ CreateOrder(l) \/ CheckoutStep(l) \/ CheckoutFail(l)
             \/ GatewayStep(l)
      PROVE  ret' = ret
  BY <1>4 DEF CreateOrder, CheckoutStep, CreatePayment, CashConfirmOrder,
              CashCloseCart, CheckoutFail, GatewayStep, GatewayDecide,
              GatewayRevisit
<1>5. ASSUME NEW r \in Returns, NEW l \in Checkouts, NEW code \in Codes,
             ReturnStart(r, l, code)
      PROVE  Credits(k) \subseteq Credits(k)'
  BY <1>5 DEF ReturnStart
<1>6. ASSUME NEW r \in Returns, ReturnStep(r)
      PROVE  Credits(k) \subseteq Credits(k)'
  <2>1. CASE ReturnUpdatePayment(r)
    BY <2>1 DEF ReturnUpdatePayment
  <2>2. CASE ReturnReadOrder(r)
    BY <2>2 DEF ReturnReadOrder
  <2>3. CASE ReturnUpdateOrder(r)
    BY <2>3 DEF ReturnUpdateOrder
  <2>4. CASE ReturnCloseCart(r)
    BY <2>4 DEF ReturnCloseCart
  <2> QED
    BY <1>6, <2>1, <2>2, <2>3, <2>4 DEF ReturnStep
<1>7. ASSUME NEW r \in Returns, ReturnFail(r)
      PROVE  Credits(k) \subseteq Credits(k)'
  BY <1>7 DEF ReturnFail
<1>8. ASSUME UNCHANGED vars
      PROVE  ret' = ret
  BY <1>8 DEF vars
<1> QED
  BY <1>2, <1>3, <1>4, <1>5, <1>6, <1>7, <1>8 DEF Next

\* What a return request adds to a total that is whole is whole again, with
\* that request among the credits.
LEMMA CreditStep ==
  ASSUME IInv, SeenIsWhole, NEW r \in Returns, ReturnUpdateOrder(r),
         NEW k, k = ret[r].order
  PROVE  \E n \in 0..Cardinality(Credits(k)') :
           totalPaid'[k] = n * paymentAmount(k)'
<1>1. /\ k \in Checkouts /\ ret[r].code = "ok" /\ ret[r].pc = "updateOrder"
      /\ paymentAmount(k) \in Nat
  BY AmountsAreNat DEF ReturnUpdateOrder, IInv, TypeOK, ReturnProgress
<1>2. PICK n \in 0..Cardinality(Credits(k)) :
        ret[r].seen = n * paymentAmount(k)
  BY <1>1 DEF SeenIsWhole, Whole
<1>3. Credits(k)' = Credits(k) \cup {r} /\ r \notin Credits(k)
  <2>1. /\ ret'[r].order = k /\ ret'[r].code = "ok" /\ ret'[r].pc = "closeCart"
        /\ \A q \in Returns : q # r => ret'[q] = ret[q]
    BY <1>1 DEF ReturnUpdateOrder, IInv, TypeOK, Return
  <2> QED
    BY <1>1, <2>1 DEF Credits
<1>4. /\ Cardinality(Credits(k)) \in Nat
      /\ Cardinality(Credits(k)') = Cardinality(Credits(k)) + 1
  BY <1>3, CreditsAreFinite, FS_AddElement
<1>5. /\ totalPaid'[k] = n * paymentAmount(k) + paymentAmount(k)
      /\ paymentAmount(k)' = paymentAmount(k)
  <2>1. totalPaid' = [totalPaid EXCEPT ![k] = newTotalPaid(k, ret[r].seen)]
    BY DEF ReturnUpdateOrder
  <2>2. req' = req
    BY DEF ReturnUpdateOrder
  <2>3. totalPaid'[k] = ret[r].seen + paymentAmount(k)
    BY <1>1, <2>1 DEF IInv, TypeOK, newTotalPaid
  <2>4. paymentAmount(k)' = paymentAmount(k)
    BY <2>2 DEF paymentAmount
  <2> QED
    BY <1>2, <2>3, <2>4
<1>6. n + 1 \in 0..Cardinality(Credits(k)')
  BY <1>2, <1>4
<1>7. n \in Nat
  BY <1>4
<1>8. totalPaid'[k] = (n + 1) * paymentAmount(k)'
  BY <1>1, <1>5, <1>7, OneMore
<1> QED
  BY <1>6, <1>8

\* Every step leaves totals, and totals that were read, whole.
LEMMA WholeStep ==
  ASSUME IInv, CreditsAreWholePayments, SeenIsWhole, [Next]_vars
  PROVE  CreditsAreWholePayments' /\ SeenIsWhole'
<1>1. req' = req
  BY KeptStep DEF Kept
<1>2. TypeOK
  BY DEF IInv
<1>3. ASSUME NEW k \in Checkouts, NEW paid, Whole(k, paid)
      PROVE  \E n \in 0..Cardinality(Credits(k)') :
               paid = n * paymentAmount(k)'
  BY <1>1, <1>2, <1>3, WholeStays, CreditsStay
<1>4. ASSUME NEW k \in Checkouts
      PROVE  Whole(k, totalPaid[k])
  BY DEF CreditsAreWholePayments, Whole
<1>5. ASSUME NEW r \in Returns, ret'[r].pc = "updateOrder"
      PROVE  /\ ret'[r].order = ret[r].order /\ ret[r].order \in Checkouts
             /\ Whole(ret[r].order, ret'[r].seen)
  <2> USE DEF TypeOK, Return
  <2>1. CASE ret' = ret
    BY <1>2, <1>5, <2>1 DEF SeenIsWhole
  <2>2. ASSUME NEW l \in Checkouts,
               \/ CreateOrder(l) \/ CheckoutStep(l) \/ CheckoutFail(l)
               \/ GatewayStep(l)
        PROVE  ret' = ret
    BY <2>2 DEF CreateOrder, CheckoutStep, CreatePayment, CashConfirmOrder,
                CashCloseCart, CheckoutFail, GatewayStep, GatewayDecide,
                GatewayRevisit
  <2>3. ASSUME NEW q \in Returns, ReturnReadOrder(q)
        PROVE  /\ ret'[r].order = ret[r].order /\ ret[r].order \in Checkouts
               /\ Whole(ret[r].order, ret'[r].seen)
    <3>1. CASE q = r
      <4>1. /\ ret'[r].order = ret[r].order /\ ret[r].order \in Checkouts
            /\ ret'[r].seen = totalPaid[ret[r].order]
        BY <1>2, <2>3, <3>1 DEF ReturnReadOrder
      <4> QED
        BY <1>4, <4>1
    <3>2. CASE q # r
      <4>1. ret'[r] = ret[r]
        BY <1>2, <2>3, <3>2 DEF ReturnReadOrder
      <4> QED
        BY <1>2, <1>5, <4>1 DEF SeenIsWhole
    <3> QED
      BY <3>1, <3>2
  <2>4. ASSUME NEW q \in Returns,
               \/ \E l \in Checkouts : \E code \in Codes :
                    ReturnStart(q, l, code)
               \/ ReturnUpdatePayment(q) \/ ReturnUpdateOrder(q)
               \/ ReturnCloseCart(q) \/ ReturnFail(q)
        PROVE  ret'[r] = ret[r]
    <3>1. \A p \in Returns : p # q => ret'[p] = ret[p]
      <4>1. CASE \E l \in Checkouts : \E code \in Codes :
                   ReturnStart(q, l, code)
        BY <1>2, <4>1 DEF ReturnStart
      <4>2. CASE ReturnUpdatePayment(q)
        BY <1>2, <4>2 DEF ReturnUpdatePayment
      <4>3. CASE ReturnUpdateOrder(q)
        BY <1>2, <4>3 DEF ReturnUpdateOrder
      <4>4. CASE ReturnCloseCart(q) \/ ReturnFail(q)
        BY <1>2, <4>4 DEF ReturnCloseCart, ReturnFail
      <4> QED
        BY <2>4, <4>1, <4>2, <4>3, <4>4
    <3>2. ret'[q].pc # "updateOrder"
      <4>1. CASE \E l \in Checkouts : \E code \in Codes :
                   ReturnStart(q, l, code)
        BY <1>2, <4>1 DEF ReturnStart
      <4>2. CASE ReturnUpdatePayment(q)
        BY <1>2, <4>2 DEF ReturnUpdatePayment
      <4>3. CASE ReturnUpdateOrder(q)
        BY <1>2, <4>3 DEF ReturnUpdateOrder
      <4>4. CASE ReturnCloseCart(q) \/ ReturnFail(q)
        BY <1>2, <4>4 DEF ReturnCloseCart, ReturnFail
      <4> QED
        BY <2>4, <4>1, <4>2, <4>3, <4>4
    <3> QED
      BY <1>5, <3>1, <3>2
  <2>5. CASE ret'[r] = ret[r]
    BY <1>2, <1>5, <2>5 DEF SeenIsWhole
  <2>6. ASSUME UNCHANGED vars
        PROVE  ret' = ret
    BY <2>6 DEF vars
  <2> QED
    BY <2>1, <2>2, <2>3, <2>4, <2>5, <2>6 DEF Next, ReturnStep
<1>6. ASSUME NEW k \in Checkouts, totalPaid'[k] # totalPaid[k]
      PROVE  \E r \in Returns : ReturnUpdateOrder(r) /\ k = ret[r].order
  <2>1. ASSUME NEW l \in Checkouts,
               \/ CreateOrder(l) \/ CheckoutStep(l) \/ CheckoutFail(l)
               \/ GatewayStep(l)
        PROVE  totalPaid' = totalPaid
    BY <2>1 DEF CreateOrder, CheckoutStep, CreatePayment, CashConfirmOrder,
                CashCloseCart, CheckoutFail, GatewayStep, GatewayDecide,
                GatewayRevisit, orderVars
  <2>2. ASSUME NEW r \in Returns,
               \/ \E l \in Checkouts : \E code \in Codes :
                    ReturnStart(r, l, code)
               \/ ReturnUpdatePayment(r) \/ ReturnReadOrder(r)
               \/ ReturnCloseCart(r) \/ ReturnFail(r)
        PROVE  totalPaid' = totalPaid
    BY <2>2 DEF ReturnStart, ReturnUpdatePayment, ReturnReadOrder,
                ReturnCloseCart, ReturnFail, orderVars
  <2>3. ASSUME NEW r \in Returns, ReturnUpdateOrder(r)
        PROVE  k = ret[r].order
    BY <1>2, <1>6, <2>3 DEF ReturnUpdateOrder, TypeOK
  <2>4. ASSUME UNCHANGED vars
        PROVE  totalPaid' = totalPaid
    BY <2>4 DEF vars, orderVars
  <2> QED
    BY <1>6, <2>1, <2>2, <2>3, <2>4 DEF Next, ReturnStep
<1>7. SeenIsWhole'
  <2>1. ASSUME NEW r \in Returns, ret'[r].pc = "updateOrder"
        PROVE  Whole(ret[r].order, ret[r].seen)'
    <3>1. PICK o \in Checkouts : o = ret'[r].order /\ Whole(o, ret'[r].seen)
      BY <1>5, <2>1
    <3>2. PICK n \in 0..Cardinality(Credits(o)') :
                 ret'[r].seen = n * paymentAmount(o)'
      BY <1>3, <3>1
    <3>3. Credits(o)' = Credits(ret[r].order)'
      BY <3>1 DEF Credits
    <3>4. paymentAmount(o)' = paymentAmount(ret[r].order)'
      BY <3>1 DEF paymentAmount
    <3> QED
      BY <3>2, <3>3, <3>4 DEF Whole
  <2> QED
    BY <2>1 DEF SeenIsWhole
<1>8. CreditsAreWholePayments'
  <2>1. ASSUME NEW k \in Checkouts
        PROVE  \E n \in 0..Cardinality(Credits(k)') :
                 totalPaid'[k] = n * paymentAmount(k)'
    <3>1. CASE totalPaid'[k] = totalPaid[k]
      BY <1>3, <1>4, <3>1
    <3>2. CASE totalPaid'[k] # totalPaid[k]
      BY <1>6, <3>2, CreditStep
    <3> QED
      BY <3>1, <3>2
  <2> QED
    BY <2>1 DEF CreditsAreWholePayments
<1> QED
  BY <1>7, <1>8

\* However the reads and writes of return requests overlap, total_paid is a
\* whole number of payments, at most one for each request that credited it.
THEOREM CreditsAreWhole == Spec => []CreditsAreWholePayments
<1>1. Init => CreditsAreWholePayments /\ SeenIsWhole
  <2> SUFFICES ASSUME Init
               PROVE  CreditsAreWholePayments /\ SeenIsWhole
    OBVIOUS
  <2>1. TypeOK
    BY InitIInv DEF IInv
  <2>2. ASSUME NEW k \in Checkouts
        PROVE  totalPaid[k] = 0 * paymentAmount(k)
    BY <2>1, AmountsAreNat DEF Init
  <2>3. ASSUME NEW k \in Checkouts
        PROVE  0 \in 0..Cardinality(Credits(k))
    BY CreditsAreFinite
  <2>4. SeenIsWhole
    BY DEF Init, SeenIsWhole
  <2> QED
    BY <2>2, <2>3, <2>4 DEF CreditsAreWholePayments
<1>2. IInv /\ CreditsAreWholePayments /\ SeenIsWhole /\ [Next]_vars
        => CreditsAreWholePayments' /\ SeenIsWhole'
  BY WholeStep
<1> QED
  BY <1>1, <1>2, InvIInv, PTL DEF Spec

-----------------------------------------------------------------------------
\* Every statement of every request is a step of Booking, or changes nothing
\* that Booking sees.
LEMMA BookingStep ==
  ASSUME IInv, [Next]_vars
  PROVE  [B!Next]_(B!vars)
<1> USE DEF orderVars, paymentVars, gatewayVars, IInv, TypeOK,
           B!vars, B!Next, Booked
<1>1. ASSUME NEW k \in Checkouts, CreateOrder(k)
      PROVE  [B!Next]_(B!vars)
  BY <1>1 DEF CreateOrder, CheckoutProgress, B!Place
<1>2. ASSUME NEW k \in Checkouts, CreatePayment(k)
      PROVE  [B!Next]_(B!vars)
  BY <1>2 DEF CreatePayment
<1>3. ASSUME NEW k \in Checkouts, CashConfirmOrder(k)
      PROVE  [B!Next]_(B!vars)
  BY <1>3 DEF CashConfirmOrder, CheckoutProgress, B!Book
<1>4. ASSUME NEW k \in Checkouts, CashCloseCart(k)
      PROVE  [B!Next]_(B!vars)
  BY <1>4 DEF CashCloseCart, CheckoutProgress, Request, B!Close
<1>5. ASSUME NEW k \in Checkouts, CheckoutFail(k)
      PROVE  [B!Next]_(B!vars)
  BY <1>5 DEF CheckoutFail
<1>6. ASSUME NEW k \in Checkouts, GatewayDecide(k)
      PROVE  [B!Next]_(B!vars)
  BY <1>6 DEF GatewayDecide, CheckoutProgress, HasPaymentUrl, B!Settle
<1>7. ASSUME NEW k \in Checkouts, GatewayRevisit(k)
      PROVE  [B!Next]_(B!vars)
  BY <1>7 DEF GatewayRevisit
<1>8. ASSUME NEW r \in Returns, NEW k \in Checkouts, NEW code \in Codes,
             ReturnStart(r, k, code)
      PROVE  [B!Next]_(B!vars)
  BY <1>8 DEF ReturnStart
<1>9. ASSUME NEW r \in Returns, ReturnUpdatePayment(r)
      PROVE  [B!Next]_(B!vars)
  BY <1>9 DEF ReturnUpdatePayment
<1>10. ASSUME NEW r \in Returns, ReturnReadOrder(r)
       PROVE  [B!Next]_(B!vars)
  BY <1>10 DEF ReturnReadOrder
<1>11. ASSUME NEW r \in Returns, ReturnUpdateOrder(r)
       PROVE  [B!Next]_(B!vars)
  <2> DEFINE k == ret[r].order
  <2>1. k \in Checkouts /\ orderStatus[k] # "none" /\ gateway[k] = "ok"
    BY <1>11 DEF ReturnUpdateOrder, Return, ReturnProgress, GatewayHonest,
                HasPaymentUrl, CheckoutProgress
  <2>2. \E status \in {"PARTIALLY_PAID", "CONFIRMED"} :
          orderStatus' = [orderStatus EXCEPT ![k] = status]
    BY <1>11 DEF ReturnUpdateOrder, newOrderStatus
  <2>3. CASE orderStatus[k] \in Booked
    BY <1>11, <2>1, <2>2, <2>3 DEF ReturnUpdateOrder
  <2>4. CASE orderStatus[k] \notin Booked
    <3>1. {j \in Checkouts : orderStatus'[j] \in Booked} =
            {j \in Checkouts : orderStatus[j] \in Booked} \cup {k}
      BY <2>1, <2>2
    <3>2. {j \in Checkouts : orderStatus'[j] # "none"} =
            {j \in Checkouts : orderStatus[j] # "none"}
      BY <2>1, <2>2
    <3>3. UNCHANGED <<req, gateway, cartStatus>>
      BY <1>11 DEF ReturnUpdateOrder
    <3>4. B!Book(k)
      BY <2>1, <2>4, <3>1, <3>2, <3>3 DEF B!Book
    <3> QED
      BY <2>1, <3>4 DEF B!Book
  <2> QED
    BY <2>3, <2>4
<1>12. ASSUME NEW r \in Returns, ReturnCloseCart(r)
       PROVE  [B!Next]_(B!vars)
  BY <1>12 DEF ReturnCloseCart, Return, ReturnProgress, Request, B!Close
<1>13. ASSUME NEW r \in Returns, ReturnFail(r)
       PROVE  [B!Next]_(B!vars)
  BY <1>13 DEF ReturnFail
<1>14. CASE UNCHANGED vars
  BY <1>14 DEF vars
<1> QED
  BY <1>1, <1>2, <1>3, <1>4, <1>5, <1>6, <1>7,
     <1>8, <1>9, <1>10, <1>11, <1>12, <1>13, <1>14
     DEF Next, CheckoutStep, GatewayStep, ReturnStep

\* OrderPayment implements Booking.
THEOREM ImplementsBooking == Spec => BookingSpec
<1>1. Init => B!Init
  BY DEF Init, B!Init, Request, Booked
<1>2. IInv /\ [Next]_vars => [B!Next]_(B!vars)
  BY BookingStep
<1> QED
  BY <1>1, <1>2, InvIInv, PTL DEF Spec, BookingSpec, B!Spec
=============================================================================
