-------------------------------- MODULE Shop --------------------------------
(***************************************************************************)
(* The shop put together: requests to /cart (Cart), POST /order up to the  *)
(* order row (OrderIntake) and from there to the booked order              *)
(* (OrderPayment) share the tables carts, cart_items and                   *)
(* cart_item_options.  The cart service changes items and options, which   *)
(* an order reads; the payment service closes carts, which the cart        *)
(* service then no longer finds; the total that the order computes is the  *)
(* amount that is paid.                                                    *)
(*                                                                         *)
(* Each component's model makes assumptions of what the others do to the   *)
(* tables it reads.  That the shop implements all three discharges them.   *)
(***************************************************************************)
EXTENDS Integers, FiniteSets, FiniteSetsExt

CONSTANTS \* Cart
          Requests, Owners, OldOwner, OldRow, Services, Slots, Prices,
          NewPrices, MaxCartFailures, NoOwner, NoItem, NoCart,
          \* OrderIntake
          Checkouts, WeekdayOf, DateOf, Options, Catalogues,
          MaxIntakeFailures, NoPrice, NoDocument,
          \* OrderPayment
          Returns, Amounts, MaxPaymentFailures, NoOrder

VARIABLES \* Cart
          ask, cartOwner, total, tx, overlapped, cartFailures,
          \* shared
          cartStatus, items, options,
          \* OrderIntake
          catalogue, now, written, intake, changed, intakeFailures,
          \* OrderPayment
          req, checkout, orderStatus, totalPaid, paymentStatus, prcode,
          gateway, shown, ret, paymentFailures

C == INSTANCE Cart WITH
       MaxFailures <- MaxCartFailures, failures <- cartFailures

P == INSTANCE OrderPayment WITH
       Carts <- C!CartIds, MaxFailures <- MaxPaymentFailures,
       failures <- paymentFailures

\* The rows an order reads; it does not look at the item's own totals.
RowRead(i) ==
  IF items[i] = NoItem THEN NoItem
  ELSE [cart |-> items[i].cart, key |-> items[i].key, by |-> items[i].by]

I == INSTANCE OrderIntake WITH
       Orders      <- Checkouts,
       Carts       <- C!CartIds,
       Items       <- C!ItemIds,
       StartCarts  <- {C!OldCarts},
       StartItems  <- {[i \in C!ItemIds |->
                          IF i \in C!OldItems
                          THEN [cart |-> OldRow[i].cart, key |-> OldRow[i].key,
                                by |-> i]
                          ELSE NoItem]},
       MaxTime     <- 0,
       MaxFailures <- MaxIntakeFailures,
       cartOf      <- [k \in Checkouts |-> req[k].cart],
       carts       <- {c \in C!CartIds : cartOwner[c] # NoOwner},
       items       <- [i \in C!ItemIds |-> RowRead(i)],
       failures    <- intakeFailures

\* What the models of the components assume of their constants.  (An order
\* reads the rows of the cart service, and OldRowsAssumption says what they are
\* at the start.)
ASSUME CartAssumptions ==
  /\ C!PricesAssumption /\ C!FailuresAssumption /\ C!NamesAssumption
  /\ C!FiniteAssumption
  /\ C!OldRowsAssumption /\ C!NoItemAssumption

ASSUME PaymentAssumptions ==
  /\ P!AmountsAssumption /\ P!FailuresAssumption /\ P!NoOrderAssumption
  /\ P!ReturnsAssumption

ASSUME IntakeAssumptions ==
  /\ I!BoundsAssumption /\ NoItem \notin I!Row
  /\ I!CataloguesAssumption /\ I!OptionsAssumption

tables      == <<cartOwner, total, items, options>>
cartVars    == <<ask, tx, overlapped, cartFailures>>
intakeVars  == <<catalogue, now, intake, intakeFailures>>
paymentVars == <<req, checkout, orderStatus, totalPaid, paymentStatus, prcode,
                 gateway, shown, ret, paymentFailures>>
vars == <<tables, cartStatus, cartVars, written, changed, intakeVars,
          paymentVars>>

Init ==
  /\ C!Init /\ P!Init
  /\ I!Init

-----------------------------------------------------------------------------
\* A statement of a request to /cart.
CartStep(r) ==
  /\ C!Step(r) \/ C!Fail(r)
  /\ written' = written \cup
                  {items'[i].by : i \in {j \in C!ItemIds : items'[j] # NoItem}}
  /\ UNCHANGED <<intakeVars, paymentVars>>
  /\ I!NoteChange

\* A statement of POST /order or an answer of the content system.  All of it
\* is within a day; OrderIntake by itself lets days pass.
IntakeStep(k) ==
  /\ UNCHANGED <<tables, cartStatus, cartVars, written, paymentVars>>
  /\ I!Read(k)

\* The order row: the totals accumulated are the order's.  req[k].amount is
\* not looked at before; it is chosen at the start and met here.
PlaceOrder(k) ==
  /\ req[k].amount = intake[k].total.current
  /\ UNCHANGED <<tables, cartVars, written>>
  /\ P!CreateOrder(k)
  /\ I!CreateOrder(k)

\* What follows once there is an order, the gateway and GET /payment/return;
\* an order that fails before is a failure of the intake.
PaymentStep ==
  /\ \/ \E k \in Checkouts :
          \/ P!CheckoutStep(k) \/ P!GatewayStep(k)
          \/ checkout[k] # "requested" /\ P!CheckoutFail(k)
     \/ \E r \in Returns :
          \/ \E k \in Checkouts, code \in P!Codes : P!ReturnStart(r, k, code)
          \/ P!ReturnStep(r) \/ P!ReturnFail(r)
  /\ UNCHANGED <<tables, cartVars, written, changed, intakeVars>>

Next ==
  \/ \E r \in Requests : CartStep(r)
  \/ \E k \in Checkouts : IntakeStep(k) \/ PlaceOrder(k)
  \/ PaymentStep

Spec == Init /\ [][Next]_vars

-----------------------------------------------------------------------------
\* A cart is closed only for what its order lists: every item of an ordered
\* cart, at the version that was read, is a service of a booked order of the
\* cart, unless the cart changed after that order had read it (which neither
\* the order nor the cart service notices: a request that found the cart
\* active may still add to it).
ClosedCartIsOrdered ==
  \A c \in C!CartIds : cartStatus[c] = "ORDERED" =>
    \E k \in Checkouts :
      /\ req[k].cart = c /\ orderStatus[k] \in P!Booked
      /\ changed[k] = "no" =>
           \A i \in C!ItemsOf(c) :
             /\ i \in DOMAIN intake[k].services
             /\ intake[k].rows[i].by = items[i].by
             /\ intake[k].opts[i] = options[i]

\* An order is for what is in the cart, and whoever pays in full is charged for
\* nothing else: unless the cart changed meanwhile, the order's total, and what
\* the gateway charges for it, are what the participants in the cart cost, all
\* of them together, at the prices of the days on which the order fetched them.
\* What a prepayment may be charged is OrderPayment's ChargeIsPaymentAmount.
CartIsWhatIsCharged ==
  \A k \in Checkouts : changed[k] = "no" =>
    LET Cost(i) == I!ServiceTotals(
                     I!PricesAt(RowRead(i), intake[k].services[i].day),
                     I!OptionRows(options[i])).current
        due     == MapThenSumSet(Cost, C!ItemsOf(req[k].cart))
    IN /\ orderStatus[k] # "none" =>
            P!storedTotal(k) = P!convertAmountToCents(due)
       /\ P!Charged(k) > 0 /\ req[k].method # "PREPAYMENT" =>
            P!Charged(k) = P!convertAmountToCents(due)

\* The cart service keeps to its specification, in which an order closes a
\* cart that exists and is active, once, and does nothing else to it.
CartSpec == C!Spec

\* So does the order service, in which items change one row, or one service or
\* the whole cart at a time, each with its options and by a request of its own.
IntakeSpec == I!Spec

\* So does the payment service, in which only booked orders change the status
\* of a cart, for good, although the cart service creates carts meanwhile.
PaymentSpec == P!Spec
=============================================================================
