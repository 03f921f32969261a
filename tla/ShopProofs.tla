----------------------------- MODULE ShopProofs -----------------------------
(***************************************************************************)
(* What holds of Shop for any number of requests, carts, orders and        *)
(* returns, and any prices: the shop implements the models of its parts,   *)
(* and so what is proved of these holds of the shop.                       *)
(***************************************************************************)
EXTENDS Shop, TLAPS

(***************************************************************************)
(* The parts as Shop instantiates them, with what is proved of them.       *)
(***************************************************************************)
CP == INSTANCE CartProofs WITH
        MaxFailures <- MaxCartFailures, failures <- cartFailures

PP == INSTANCE OrderPaymentProofs WITH
        Carts <- C!CartIds, MaxFailures <- MaxPaymentFailures,
        failures <- paymentFailures

IP == INSTANCE OrderIntakeProofs WITH
        Orders      <- Checkouts,
        Carts       <- C!CartIds,
        Items       <- C!ItemIds,
        StartCarts  <- {C!OldCarts},
        StartItems  <- {[i \in C!ItemIds |->
                           IF i \in C!OldItems
                           THEN [cart |-> OldRow[i].cart, key |-> OldRow[i].key,
                                 by |-> i]
                           ELSE NoItem]},
        MaxTime     <- 0,
        MaxFailures <- MaxIntakeFailures,
        cartOf      <- [k \in Checkouts |-> req[k].cart],
        carts       <- {c \in C!CartIds : cartOwner[c] # NoOwner},
        items       <- [i \in C!ItemIds |-> RowRead(i)],
        failures    <- intakeFailures

-----------------------------------------------------------------------------
(***************************************************************************)
(* A definition of CP is that of C, under another name; so are those of PP *)
(* and P, and of IP and I.                                                 *)
(***************************************************************************)
LEMMA SameCart ==
  /\ C!CartIds = CP!CartIds /\ C!ItemIds = CP!ItemIds /\ C!vars = CP!vars
  /\ C!Init <=> CP!Init
  /\ \A r : C!Step(r) \/ C!Fail(r) <=> CP!Step(r) \/ CP!Fail(r)
  /\ \A c : C!CloseCart(c) <=> CP!CloseCart(c)
BY DEF
      C!OldCarts, CP!OldCarts, C!OldItems, CP!OldItems, C!CartIds, CP!CartIds,
      C!ItemIds, CP!ItemIds, C!Keys, CP!Keys, C!cartVars, CP!cartVars,
      C!rowVars, CP!rowVars, C!vars, CP!vars, C!Ask, CP!Ask, C!Row, CP!Row,
      C!Exists, CP!Exists, C!ItemsOf, CP!ItemsOf, C!PricesIn, CP!PricesIn,
      C!Sum, CP!Sum, C!SumOf, CP!SumOf, C!Init, CP!Init, C!Locked, CP!Locked,
      C!NewRow, CP!NewRow, C!Seen, CP!Seen, C!Duplicates, CP!Duplicates,
      C!KeyPending, CP!KeyPending, C!Goto, CP!Goto, C!Write, CP!Write,
      C!FirstStatement, CP!FirstStatement, C!FindCart, CP!FindCart,
      C!CreateCart, CP!CreateCart, C!InsertItem, CP!InsertItem,
      C!InsertConflict, CP!InsertConflict, C!FindItem, CP!FindItem,
      C!FindDuplicate, CP!FindDuplicate, C!UpdateItem, CP!UpdateItem,
      C!UpdateConflict, CP!UpdateConflict, C!DeleteOptions, CP!DeleteOptions,
      C!CreateOptions, CP!CreateOptions, C!FindItemOfService,
      CP!FindItemOfService, C!DeleteItem, CP!DeleteItem, C!ListItems,
      CP!ListItems, C!DeleteItems, CP!DeleteItems, C!SumItems, CP!SumItems,
      C!UpdateCart, CP!UpdateCart, C!Reread, CP!Reread, C!Fail, CP!Fail,
      C!CloseCart, CP!CloseCart, C!Step, CP!Step, C!FoldFunction,
      CP!FoldFunction, C!FoldFunctionOnSet, CP!FoldFunctionOnSet,
      C!MapThenFoldSet, CP!MapThenFoldSet

LEMMA SamePayment ==
  /\ P!vars = PP!vars
  /\ P!Init <=> PP!Init
  /\ \A k : P!CreateOrder(k) <=> PP!CreateOrder(k)
  /\ \A k : /\ P!CheckoutStep(k) <=> PP!CheckoutStep(k)
            /\ P!CheckoutFail(k) <=> PP!CheckoutFail(k)
            /\ P!GatewayStep(k) <=> PP!GatewayStep(k)
  /\ \A r, k, code : P!ReturnStart(r, k, code) <=> PP!ReturnStart(r, k, code)
  /\ \A r : /\ P!ReturnStep(r) <=> PP!ReturnStep(r)
            /\ P!ReturnFail(r) <=> PP!ReturnFail(r)
BY DEF
      P!orderVars, PP!orderVars, P!paymentVars, PP!paymentVars, P!gatewayVars,
      PP!gatewayVars, P!vars, PP!vars, P!PaymentMethod, PP!PaymentMethod,
      P!OrderStatus, PP!OrderStatus, P!PaymentStatus, PP!PaymentStatus,
      P!CartStatus, PP!CartStatus, P!Booked, PP!Booked, P!Decisions,
      PP!Decisions, P!Codes, PP!Codes, P!isPaymentSuccess,
      PP!isPaymentSuccess, P!convertAmountToCents, PP!convertAmountToCents,
      P!prepaymentCents, PP!prepaymentCents, P!storedTotal, PP!storedTotal,
      P!paymentAmount, PP!paymentAmount, P!gatewayAmount, PP!gatewayAmount,
      P!Charged, PP!Charged, P!newTotalPaid, PP!newTotalPaid,
      P!newOrderStatus, PP!newOrderStatus, P!CheckoutState, PP!CheckoutState,
      P!ReturnState, PP!ReturnState, P!Request, PP!Request, P!Return,
      PP!Return, P!Init, PP!Init, P!getInitiateStrategy,
      PP!getInitiateStrategy, P!CreateOrder, PP!CreateOrder, P!CreatePayment,
      PP!CreatePayment, P!CashConfirmOrder, PP!CashConfirmOrder,
      P!CashCloseCart, PP!CashCloseCart, P!CheckoutFail, PP!CheckoutFail,
      P!HasPaymentUrl, PP!HasPaymentUrl, P!GatewayDecide, PP!GatewayDecide,
      P!GatewayRevisit, PP!GatewayRevisit, P!ReturnStart, PP!ReturnStart,
      P!ReturnUpdatePayment, PP!ReturnUpdatePayment, P!ReturnReadOrder,
      PP!ReturnReadOrder, P!ReturnUpdateOrder, PP!ReturnUpdateOrder,
      P!ReturnCloseCart, PP!ReturnCloseCart, P!ReturnFail, PP!ReturnFail,
      P!CheckoutStep, PP!CheckoutStep, P!GatewayStep, PP!GatewayStep,
      P!ReturnStep, PP!ReturnStep

LEMMA SamePricing ==
  ASSUME NEW prices, NEW people
  PROVE  /\ I!ServiceTotals(prices, people) = IP!ServiceTotals(prices, people)
         /\ I!PriceMissing(prices, people) <=> IP!PriceMissing(prices, people)
<1>1. \A c, list : I!findPrice(c, list) = IP!findPrice(c, list)
  BY DEF I!findPrice, IP!findPrice, I!SelectInSeq, IP!SelectInSeq, I!Min, IP!Min
<1>2. I!servicePriceData(prices, people) = IP!servicePriceData(prices, people)
  BY <1>1 DEF I!servicePriceData, IP!servicePriceData
<1>3. \A data : I!FoldLeft(I!AddTotals, I!Zero, data)
                  = IP!FoldLeft(IP!AddTotals, IP!Zero, data)
  BY DEF I!FoldLeft, IP!FoldLeft, I!AddTotals, IP!AddTotals, I!Zero, IP!Zero,
         I!MapThenFoldSet, IP!MapThenFoldSet, I!Max, IP!Max
<1>4. I!ServiceTotals(prices, people) = IP!ServiceTotals(prices, people)
  BY <1>2, <1>3 DEF I!ServiceTotals, IP!ServiceTotals
<1>5. I!PriceMissing(prices, people) <=> IP!PriceMissing(prices, people)
  BY <1>1 DEF I!PriceMissing, IP!PriceMissing
<1> QED
  BY <1>4, <1>5

LEMMA SameOffers ==
  ASSUME NEW offers, NEW c, NEW date, NEW day
  PROVE  I!FirstOffered(c, offers, date, day)
           = IP!FirstOffered(c, offers, date, day)
BY DEF I!FirstOffered, IP!FirstOffered, I!InForce, IP!InForce,
       I!FoldLeft, IP!FoldLeft,
       I!MapThenFoldSet, IP!MapThenFoldSet, I!Max, IP!Max,
       I!findPrice, IP!findPrice, I!SelectInSeq, IP!SelectInSeq, I!Min, IP!Min

LEMMA SamePrices ==
  ASSUME NEW row, NEW day
  PROVE  /\ I!PricesAt(row, day) = IP!PricesAt(row, day)
         /\ I!Document(row) = IP!Document(row)
<1>1. ASSUME NEW doc, NEW date
      PROVE  I!getExcursionPrices(doc, date, day)
               = IP!getExcursionPrices(doc, date, day)
  <2>1. \A p, q : I!OrElse(p, q) = IP!OrElse(p, q)
    BY DEF I!OrElse, IP!OrElse
  <2>2. \A c : I!SpecialPrice(doc, c, date, day)
                 = IP!SpecialPrice(doc, c, date, day)
    BY <2>1, SameOffers DEF I!SpecialPrice, IP!SpecialPrice
  <2> QED
    BY <2>1, <2>2 DEF I!getExcursionPrices, IP!getExcursionPrices
<1> QED
  BY <1>1 DEF I!PricesAt, IP!PricesAt, I!Document, IP!Document

LEMMA SameOptions == \A W : I!OptionRows(W) = IP!OptionRows(W)
BY DEF I!OptionRows, IP!OptionRows, I!FoldSet, IP!FoldSet, I!MapThenFoldSet,
       IP!MapThenFoldSet

LEMMA SameTotals ==
  \A s, t : I!Accumulate(s, t) = IP!Accumulate(s, t)
BY DEF I!Accumulate, IP!Accumulate, I!AddTotals, IP!AddTotals

LEMMA SameFetch ==
  ASSUME NEW k, NEW i
  PROVE  I!FetchPrices(k, i) <=> IP!FetchPrices(k, i)
<1> DEFINE in == intake[k]
           Answered(pending, missing, fetched, sum) ==
             /\ in.pc = "fetchPrices" /\ i \in pending
             /\ intake' = [intake EXCEPT ![k] =
                  IF missing
                  THEN [in EXCEPT !.pc = "refused"]
                  ELSE [in EXCEPT !.services = fetched, !.total = sum]]
           Fetched(totals) ==
             [j \in DOMAIN in.services \cup {i} |->
                IF j = i THEN [totals |-> totals, day |-> now]
                         ELSE in.services[j]]
           prices == I!PricesAt(in.rows[i], now)
           rows   == I!OptionRows(in.opts[i])
           none   == I!Document(in.rows[i]) = NoDocument
           same   == IP!PricesAt(in.rows[i], now)
           these  == IP!OptionRows(in.opts[i])
           gone   == IP!Document(in.rows[i]) = NoDocument
           kept   == UNCHANGED <<[l \in Checkouts |-> req[l].cart], catalogue,
                                 now, I!cartVars, changed, intakeFailures>>
           still  == UNCHANGED <<[l \in Checkouts |-> req[l].cart], catalogue,
                                 now, IP!cartVars, changed, intakeFailures>>
<1>1. I!Pending(k) = IP!Pending(k) /\ (kept <=> still)
  BY DEF I!Pending, IP!Pending, I!cartVars, IP!cartVars
<1>2. rows = these /\ prices = same /\ (none <=> gone)
  BY SameOptions, SamePrices
<1>3. /\ I!ServiceTotals(prices, rows) = IP!ServiceTotals(prices, rows)
      /\ I!PriceMissing(prices, rows) <=> IP!PriceMissing(prices, rows)
  BY SamePricing
<1>4. \A t : I!Accumulate(in.total, t) = IP!Accumulate(in.total, t)
  BY SameTotals
<1>5. I!FetchPrices(k, i) <=>
        /\ Answered(I!Pending(k), none \/ I!PriceMissing(prices, rows),
                    Fetched(I!ServiceTotals(prices, rows)),
                    I!Accumulate(in.total, I!ServiceTotals(prices, rows)))
        /\ kept
  BY DEF I!FetchPrices
<1>6. IP!FetchPrices(k, i) <=>
        /\ Answered(IP!Pending(k), gone \/ IP!PriceMissing(same, these),
                    Fetched(IP!ServiceTotals(same, these)),
                    IP!Accumulate(in.total, IP!ServiceTotals(same, these)))
        /\ still
  BY DEF IP!FetchPrices
<1> HIDE DEF Answered, Fetched, prices, rows, none, same, these, gone, in,
             kept, still
<1> QED
  BY <1>1, <1>2, <1>3, <1>4, <1>5, <1>6

LEMMA SameIntake ==
  /\ I!vars = IP!vars
  /\ I!Init <=> IP!Init
  /\ I!NoteChange <=> IP!NoteChange
  /\ I!CartStep <=> IP!CartStep
  /\ I!Tick <=> IP!Tick
  /\ \A k : I!CreateOrder(k) <=> IP!CreateOrder(k)
  /\ \A k : I!Read(k) <=> IP!Read(k)
<1> USE DEF
      I!cartVars, IP!cartVars, I!vars, IP!vars, I!Row, IP!Row, I!ItemsOf,
      IP!ItemsOf, I!Init, IP!Init, I!Touched, IP!Touched, I!NoteChange,
      IP!NoteChange, I!PutItem, IP!PutItem, I!RemoveItems, IP!RemoveItems,
      I!OpenCart, IP!OpenCart, I!Tick, IP!Tick, I!Pending, IP!Pending,
      I!ReadItems, IP!ReadItems, I!ReadOptions, IP!ReadOptions, I!OptionRows,
      IP!OptionRows, I!Document, IP!Document, I!PricesAt, IP!PricesAt,
      I!Accumulate, IP!Accumulate, I!FetchPrices, IP!FetchPrices,
      I!CreateOrder, IP!CreateOrder, I!Fail, IP!Fail, I!CartStep, IP!CartStep,
      I!Read, IP!Read, I!Zero, IP!Zero, I!AddTotals, IP!AddTotals,
      I!findPrice, IP!findPrice, I!InForce, IP!InForce, I!FirstOffered,
      IP!FirstOffered, I!OrElse, IP!OrElse, I!SpecialPrice, IP!SpecialPrice,
      I!getExcursionPrices, IP!getExcursionPrices, I!PriceMissing,
      IP!PriceMissing, I!servicePriceData, IP!servicePriceData,
      I!ServiceTotals, IP!ServiceTotals
<1>1. /\ I!vars = IP!vars
      /\ I!Init <=> IP!Init
      /\ I!NoteChange <=> IP!NoteChange
      /\ I!CartStep <=> IP!CartStep
      /\ I!Tick <=> IP!Tick
      /\ \A k : I!CreateOrder(k) <=> IP!CreateOrder(k)
  OBVIOUS
<1>2. ASSUME NEW k
      PROVE  I!Read(k) <=> IP!Read(k)
  <2>1. I!ReadItems(k) <=> IP!ReadItems(k)
    OBVIOUS
  <2>2. I!ReadOptions(k) <=> IP!ReadOptions(k)
    OBVIOUS
  <2>3. I!Fail(k) <=> IP!Fail(k)
    OBVIOUS
  <2> HIDE DEF I!ReadItems, IP!ReadItems, I!ReadOptions, IP!ReadOptions,
               I!FetchPrices, IP!FetchPrices, I!Fail, IP!Fail
  <2>4. \A i : I!FetchPrices(k, i) <=> IP!FetchPrices(k, i)
    BY SameFetch
  <2> QED
    BY <2>1, <2>2, <2>3, <2>4
<1> QED
  BY <1>1, <1>2, Zenon

\* The assumptions of the parts.
LEMMA CartAssumed ==
  /\ CP!PricesAssumption /\ CP!FailuresAssumption /\ CP!NamesAssumption
  /\ CP!FiniteAssumption
  /\ CP!OldRowsAssumption /\ CP!NoItemAssumption
<1>1. /\ CP!PricesAssumption /\ CP!FailuresAssumption /\ CP!NamesAssumption
      /\ CP!OldRowsAssumption /\ CP!NoItemAssumption
  BY CartAssumptions
  DEF C!PricesAssumption, CP!PricesAssumption, C!FailuresAssumption,
      CP!FailuresAssumption, C!NamesAssumption, CP!NamesAssumption,
      C!OldRowsAssumption, CP!OldRowsAssumption, C!NoItemAssumption,
      CP!NoItemAssumption, C!OldCarts, CP!OldCarts, C!OldItems, CP!OldItems,
      C!CartIds, CP!CartIds, C!ItemIds, CP!ItemIds, C!Keys, CP!Keys, C!Row,
      CP!Row
<1>2. CP!FiniteAssumption
  BY CartAssumptions
  DEF C!FiniteAssumption, CP!FiniteAssumption, C!IsFiniteSet, CP!IsFiniteSet,
      C!ItemIds, CP!ItemIds, C!OldItems, CP!OldItems
<1> QED
  BY <1>1, <1>2

LEMMA PaymentAssumed ==
  /\ PP!AmountsAssumption /\ PP!FailuresAssumption /\ PP!NoOrderAssumption
  /\ PP!ReturnsAssumption
BY PaymentAssumptions
DEF P!AmountsAssumption, PP!AmountsAssumption, P!FailuresAssumption,
    PP!FailuresAssumption, P!NoOrderAssumption, PP!NoOrderAssumption,
    P!ReturnsAssumption, PP!ReturnsAssumption, P!IsFiniteSet, PP!IsFiniteSet

LEMMA IntakeAssumed ==
  /\ IP!BoundsAssumption /\ IP!RowsAssumption
  /\ IP!CataloguesAssumption /\ IP!OptionsAssumption
<1>1. /\ IP!BoundsAssumption /\ NoItem \notin IP!Row
      /\ IP!CataloguesAssumption /\ IP!OptionsAssumption
  BY IntakeAssumptions
  DEF I!BoundsAssumption, IP!BoundsAssumption, I!Row, IP!Row,
      I!CataloguesAssumption, IP!CataloguesAssumption, I!IsDocument,
      IP!IsDocument, I!IsPriceList, IP!IsPriceList, I!OptionsAssumption,
      IP!OptionsAssumption, I!Range, IP!Range
<1>2. ASSUME NEW i \in C!OldItems
      PROVE  [cart |-> OldRow[i].cart, key |-> OldRow[i].key, by |-> i]
               \in IP!Row
  BY <1>2, CartAssumed
  DEF CP!OldRowsAssumption, CP!OldItems, CP!OldCarts, CP!Keys, IP!Row,
      C!OldItems, C!OldCarts, C!CartIds, C!ItemIds
<1>3. IP!RowsAssumption
  BY <1>1, <1>2 DEF IP!RowsAssumption
<1> QED
  BY <1>1, <1>3

\* The invariants of the parts are inductive.
LEMMA CartInductive ==
  /\ CP!Init => CP!IInv /\ CP!KInv
  /\ CP!IInv /\ CP!KInv /\ [CP!Next]_(CP!vars) => CP!IInv' /\ CP!KInv'
BY CartAssumed, CP!InitImpliesIInv, CP!InitImpliesKInv, CP!NextKeepsIInv,
   CP!NextKeepsKInv

LEMMA PaymentInductive ==
  /\ PP!Init => PP!IInv
  /\ PP!IInv /\ [PP!Next]_(PP!vars) => PP!IInv'
BY PaymentAssumed, PP!InitIInv, PP!StepIInv

LEMMA IntakeInductive ==
  /\ IP!Init => IP!IInv
  /\ IP!IInv /\ [IP!Next]_(IP!vars) => IP!IInv'
BY IntakeAssumed, IP!InitImpliesIInv, IP!NextKeepsIInv

-----------------------------------------------------------------------------
(***************************************************************************)
(* The invariant: those of the parts, and how the parts' tables agree.     *)
(***************************************************************************)

\* An order is placed for a cart that exists.
PlacedInCarts ==
  \A k \in Checkouts :
    intake[k].pc \in {"readOptions", "fetchPrices", "created"} =>
      cartOwner[req[k].cart] # NoOwner

\* There is an order row only once the order's totals are complete.
OrdersAreCreated ==
  \A k \in Checkouts : orderStatus[k] # "none" => intake[k].pc = "created"

\* A cart that was closed has been created before.
ClosedCartsExist ==
  \A c \in C!CartIds : cartStatus[c] # "ACTIVE" => cartOwner[c] # NoOwner

\* Who has written an item is noted, and has committed.
WritersAreNoted ==
  /\ \A i \in C!ItemIds : items[i] # NoItem => items[i].by \in written
  /\ \A r \in Requests : r \in written => CP!Past(r)

\* An order is for the total that its intake has accumulated.
AmountsAreTotals ==
  \A k \in Checkouts : orderStatus[k] # "none" =>
    req[k].amount = intake[k].total.current

Link ==
  /\ PlacedInCarts /\ OrdersAreCreated /\ AmountsAreTotals
  /\ ClosedCartsExist /\ WritersAreNoted

ShopInv == CP!IInv /\ CP!KInv /\ PP!IInv /\ IP!IInv /\ Link

\* A step of the shop is a step of each part, or leaves it alone.
Parts ==
  [CP!Next]_(CP!vars) /\ [PP!Next]_(PP!vars) /\ [IP!Next]_(IP!vars)

LEMMA LinkKept ==
  ASSUME Link, UNCHANGED <<intake, cartOwner, req, items, written>>,
         \A k \in Checkouts :
           orderStatus'[k] # "none" => orderStatus[k] # "none",
         ClosedCartsExist', \A r \in Requests : CP!Past(r) => CP!Past(r)'
  PROVE  Link'
BY DEF Link, PlacedInCarts, OrdersAreCreated, AmountsAreTotals, WritersAreNoted

-----------------------------------------------------------------------------
(***************************************************************************)
(* Steps of the payment service.                                           *)
(***************************************************************************)

\* They create no order and close at most one cart.
LEMMA PaymentCloses ==
  ASSUME PP!IInv, PaymentStep
  PROVE  /\ PP!Next /\ req' = req
         /\ \A k \in Checkouts :
              orderStatus'[k] # "none" => orderStatus[k] # "none"
         /\ \/ cartStatus' = cartStatus
            \/ \E c \in C!CartIds :
                 cartStatus' = [cartStatus EXCEPT ![c] = "ORDERED"]
<1>1. PP!Next
  BY SamePayment
  DEF PaymentStep, PP!Next, P!Codes, PP!Codes, P!Decisions, PP!Decisions
<1> USE DEF PP!orderVars, PP!paymentVars, PP!gatewayVars
<1>2. ASSUME NEW k \in Checkouts, PP!CheckoutStep(k)
      PROVE  /\ req' = req
             /\ \A l \in Checkouts :
                  orderStatus'[l] # "none" => orderStatus[l] # "none"
             /\ \/ cartStatus' = cartStatus
                \/ \E c \in C!CartIds :
                     cartStatus' = [cartStatus EXCEPT ![c] = "ORDERED"]
  <2>1. req[k].cart \in C!CartIds
    BY DEF PP!IInv, PP!TypeOK, PP!Request
  <2> QED
    BY <1>2, <2>1
    DEF PP!CheckoutStep, PP!CreatePayment, PP!CashConfirmOrder,
        PP!CashCloseCart, PP!IInv, PP!TypeOK, PP!CheckoutProgress
<1>3. ASSUME NEW k \in Checkouts, PP!CheckoutFail(k) \/ PP!GatewayStep(k)
      PROVE  UNCHANGED <<req, orderStatus, cartStatus>>
  BY <1>3
  DEF PP!CheckoutFail, PP!GatewayStep, PP!GatewayDecide, PP!GatewayRevisit
<1>4. ASSUME NEW r \in Returns,
             \/ \E k \in Checkouts, code \in P!Codes :
                  PP!ReturnStart(r, k, code)
             \/ PP!ReturnUpdatePayment(r) \/ PP!ReturnReadOrder(r)
             \/ PP!ReturnFail(r)
      PROVE  UNCHANGED <<req, orderStatus, cartStatus>>
  BY <1>4
  DEF PP!ReturnStart, PP!ReturnUpdatePayment, PP!ReturnReadOrder, PP!ReturnFail
<1>5. ASSUME NEW r \in Returns, ret[r].pc # "idle"
      PROVE  ret[r].order \in Checkouts /\ req[ret[r].order].cart \in C!CartIds
  BY <1>5 DEF PP!IInv, PP!TypeOK, PP!Request
<1>6. ASSUME NEW r \in Returns, PP!ReturnUpdateOrder(r)
      PROVE  /\ UNCHANGED <<req, cartStatus>>
             /\ \A l \in Checkouts :
                  orderStatus'[l] # "none" => orderStatus[l] # "none"
  <2>1. /\ ret[r].pc = "updateOrder" /\ ret[r].order \in Checkouts
    BY <1>5, <1>6 DEF PP!ReturnUpdateOrder
  <2>2. orderStatus[ret[r].order] # "none"
    BY <2>1
    DEF PP!IInv, PP!ReturnProgress, PP!GatewayHonest, PP!HasPaymentUrl,
        PP!CheckoutProgress
  <2> QED
    BY <1>6, <2>1, <2>2 DEF PP!ReturnUpdateOrder, PP!IInv, PP!TypeOK
<1>7. ASSUME NEW r \in Returns, PP!ReturnCloseCart(r)
      PROVE  /\ UNCHANGED <<req, orderStatus>>
             /\ \E c \in C!CartIds :
                  cartStatus' = [cartStatus EXCEPT ![c] = "ORDERED"]
  BY <1>5, <1>7 DEF PP!ReturnCloseCart
<1> QED
  BY <1>1, <1>2, <1>3, <1>4, <1>6, <1>7, SamePayment
  DEF PaymentStep, PP!ReturnStep

LEMMA PaymentStepKeeps ==
  ASSUME ShopInv, PaymentStep
  PROVE  Parts /\ Link'
<1>1. /\ CP!IInv /\ PP!IInv /\ PP!Next /\ req' = req
      /\ UNCHANGED <<tables, cartVars, written, changed, intakeVars>>
  BY PaymentCloses DEF ShopInv, PaymentStep
<1>2. PP!IInv'
  BY <1>1, PaymentInductive
<1>3. ASSUME NEW c \in C!CartIds, cartStatus'[c] = "ORDERED"
      PROVE  cartOwner[c] # NoOwner
  <2>1. PICK k \in Checkouts : req[k].cart = c /\ orderStatus'[k] # "none"
    BY <1>1, <1>2, <1>3
    DEF PP!IInv, PP!CartClosedOnlyWhenBooked, PP!Booked
  <2>2. orderStatus[k] # "none"
    BY <1>1, <2>1, PaymentCloses
  <2> QED
    BY <2>1, <2>2 DEF ShopInv, Link, OrdersAreCreated, PlacedInCarts
<1>4. ClosedCartsExist'
  <2>1. \A c \in C!CartIds : cartStatus'[c] \in {"ACTIVE", "ORDERED"}
    BY <1>2 DEF PP!IInv, PP!TypeOK, PP!CartStatus
  <2> QED
    BY <1>1, <1>3, <2>1 DEF ClosedCartsExist, tables
<1>5. Link'
  BY <1>1, <1>4, PaymentCloses, LinkKept
  DEF ShopInv, tables, cartVars, intakeVars, CP!Past
<1>6. ASSUME cartStatus' = cartStatus
      PROVE  UNCHANGED CP!vars
  BY <1>1, <1>6
  DEF CP!vars, CP!cartVars, CP!rowVars, tables, cartVars
<1>7. ASSUME cartStatus' # cartStatus
      PROVE  CP!Next
  <2>1. PICK c \in C!CartIds :
          cartStatus' = [cartStatus EXCEPT ![c] = "ORDERED"]
    BY <1>1, <1>7, PaymentCloses
  <2>2. cartStatus \in [C!CartIds -> {"ACTIVE", "ORDERED"}]
    BY <1>1, SameCart DEF CP!IInv, CP!Shape
  <2>3. cartStatus[c] = "ACTIVE" /\ cartStatus'[c] = "ORDERED"
    BY <1>7, <2>1, <2>2
  <2>4. CP!CloseCart(c)
    BY <1>1, <1>3, <2>1, <2>3
    DEF CP!CloseCart, CP!rowVars, tables, cartVars
  <2> QED
    BY <2>4, SameCart DEF CP!Next
<1>8. UNCHANGED IP!vars
  BY <1>1 DEF IP!vars, IP!cartVars, tables, intakeVars, RowRead
<1> QED
  BY <1>1, <1>5, <1>6, <1>7, <1>8 DEF Parts

-----------------------------------------------------------------------------
(***************************************************************************)
(* Steps of the order service.                                             *)
(***************************************************************************)

\* Steps of an order's own, up to its row, keep the invariant's links.
LEMMA IntakeMoves ==
  ASSUME ShopInv, NEW k \in Checkouts, I!Read(k) \/ I!CreateOrder(k)
  PROVE  /\ IP!Next
         /\ \A l \in Checkouts \ {k} : intake'[l] = intake[l]
         /\ intake[k].pc # "created"
         /\ intake'[k].pc \in {"readOptions", "fetchPrices", "created"} =>
              cartOwner[req[k].cart] # NoOwner
         /\ I!CreateOrder(k) =>
              intake'[k].pc = "created" /\ intake'[k].total = intake[k].total
         /\ changed' = changed
<1>1. IP!IInv /\ (IP!Read(k) \/ IP!CreateOrder(k))
  BY SameIntake DEF ShopInv
<1>2. IP!Next
  BY <1>1 DEF IP!Next
<1> DEFINE cartsNow == {c \in C!CartIds : cartOwner[c] # NoOwner}
           cartsOf  == [l \in Checkouts |-> req[l].cart]
<1>3. /\ changed' = changed
      /\ \A l \in Checkouts \ {k} : intake'[l] = intake[l]
      /\ intake[k].pc # "created"
      /\ intake'[k].pc \in {"readOptions", "fetchPrices", "created"} =>
           \/ intake[k].pc \in {"readOptions", "fetchPrices"}
           \/ cartsOf[k] \in cartsNow
      /\ IP!CreateOrder(k) =>
           /\ intake[k].pc = "fetchPrices" /\ intake'[k].pc = "created"
           /\ intake'[k].total = intake[k].total
  BY <1>1, IntakeAssumed, IP!Moves
<1>4. cartsOf[k] \in cartsNow => cartOwner[req[k].cart] # NoOwner
  OBVIOUS
<1>5. intake[k].pc \in {"readOptions", "fetchPrices"} =>
        cartOwner[req[k].cart] # NoOwner
  BY DEF ShopInv, Link, PlacedInCarts
<1> HIDE DEF cartsNow, cartsOf
<1> QED
  BY <1>2, <1>3, <1>4, <1>5, SameIntake

LEMMA IntakeStepKeeps ==
  ASSUME ShopInv, NEW k \in Checkouts, IntakeStep(k)
  PROVE  Parts /\ Link'
<1>1. /\ UNCHANGED <<tables, cartStatus, cartVars, written, paymentVars>>
      /\ I!Read(k)
  BY DEF IntakeStep
<1>2. UNCHANGED CP!vars /\ UNCHANGED PP!vars
  BY <1>1
  DEF tables, cartVars, paymentVars, CP!vars, CP!cartVars, CP!rowVars, PP!vars,
      PP!orderVars, PP!paymentVars, PP!gatewayVars
<1>3. PlacedInCarts'
  BY <1>1, IntakeMoves
  DEF ShopInv, Link, PlacedInCarts, tables, paymentVars
<1>4. OrdersAreCreated' /\ AmountsAreTotals'
  BY <1>1, IntakeMoves
  DEF ShopInv, Link, OrdersAreCreated, AmountsAreTotals, paymentVars
<1>5. ClosedCartsExist' /\ WritersAreNoted'
  BY <1>1
  DEF ShopInv, Link, ClosedCartsExist, WritersAreNoted, tables, cartVars,
      CP!Past
<1> QED
  BY <1>1, <1>2, <1>3, <1>4, <1>5, IntakeMoves DEF Parts, Link

LEMMA PlaceOrderKeeps ==
  ASSUME ShopInv, NEW k \in Checkouts, PlaceOrder(k)
  PROVE  Parts /\ Link'
<1>1. /\ UNCHANGED <<tables, cartVars, written>>
      /\ PP!CreateOrder(k) /\ I!CreateOrder(k)
  BY SamePayment DEF PlaceOrder
<1>2. PP!Next
  BY <1>1 DEF PP!Next, PP!CheckoutStep
<1>3. /\ UNCHANGED <<req, cartStatus>>
      /\ \A l \in Checkouts \ {k} : orderStatus'[l] = orderStatus[l]
  BY <1>1 DEF PP!CreateOrder, ShopInv, PP!IInv, PP!TypeOK
<1>4. UNCHANGED CP!vars
  BY <1>1, <1>3 DEF tables, cartVars, CP!vars, CP!cartVars, CP!rowVars
<1>5. PlacedInCarts'
  BY <1>1, <1>3, IntakeMoves DEF ShopInv, Link, PlacedInCarts, tables
<1>6. OrdersAreCreated' /\ AmountsAreTotals'
  <2>1. req[k].amount = intake'[k].total.current
    BY <1>1, IntakeMoves DEF PlaceOrder
  <2> QED
    BY <1>1, <1>3, <2>1, IntakeMoves
    DEF ShopInv, Link, OrdersAreCreated, AmountsAreTotals
<1>7. ClosedCartsExist' /\ WritersAreNoted'
  BY <1>1, <1>3
  DEF ShopInv, Link, ClosedCartsExist, WritersAreNoted, tables, cartVars,
      CP!Past
<1> QED
  BY <1>1, <1>2, <1>4, <1>5, <1>6, <1>7, IntakeMoves DEF Parts, Link

-----------------------------------------------------------------------------
(***************************************************************************)
(* Steps of the cart service.                                              *)
(***************************************************************************)

\* What an order reads of a row, and that it tells rows from none.
ShownRow(row) ==
  IF row = NoItem THEN NoItem
  ELSE [cart |-> row.cart, key |-> row.key, by |-> row.by]

LEMMA ShownRows ==
  ASSUME NEW row \in CP!Row \cup {NoItem}
  PROVE  ShownRow(row) = NoItem <=> row = NoItem
<1>1. NoItem \notin I!Row
  BY IntakeAssumptions
<1>2. ASSUME row \in CP!Row
      PROVE  [cart |-> row.cart, key |-> row.key, by |-> row.by] \in I!Row
  BY <1>2, SameCart DEF CP!Row, CP!Keys, I!Row
<1> QED
  BY <1>1, <1>2, CartAssumed DEF ShownRow, CP!NoItemAssumption

\* The writers noted by a step of request r that shows no item of another.
LEMMA WrittenBy ==
  ASSUME ShopInv, NEW r \in Requests, CP!IInv',
         \A s \in Requests : CP!Past(s) => CP!Past(s)',
         NEW new \in SUBSET {r}, new # {} => CP!Past(r)',
         \A i \in C!ItemIds : items'[i] # NoItem =>
           \/ items[i] # NoItem /\ items'[i].by = items[i].by
           \/ items'[i].by \in new,
         written' = written \cup
           {items'[i].by : i \in {j \in C!ItemIds : items'[j] # NoItem}}
  PROVE  WritersAreNoted' /\ written \subseteq written'
         /\ written' \subseteq written \cup new
<1>1. \A i \in C!ItemIds : items'[i] # NoItem =>
        items'[i].by \in written \cup new
  BY DEF ShopInv, Link, WritersAreNoted
<1>2. written' \subseteq written \cup new
  BY <1>1
<1> QED
  BY <1>2 DEF ShopInv, Link, WritersAreNoted

\* A statement that commits nothing is not seen by anyone else.
LEMMA StatementKeeps ==
  ASSUME ShopInv, NEW r \in Requests, CartStep(r), CP!IInv',
         UNCHANGED <<cartOwner, cartStatus, items, options>>
  PROVE  [IP!Next]_(IP!vars) /\ WritersAreNoted'
<1>1. /\ UNCHANGED <<intakeVars, paymentVars>>
      /\ IP!NoteChange
      /\ CP!Step(r) \/ CP!Fail(r)
      /\ written' = written \cup
           {items'[i].by : i \in {j \in C!ItemIds : items'[j] # NoItem}}
  BY SameCart, SameIntake DEF CartStep
<1>2. \A s \in Requests : CP!Past(s) => CP!Past(s)'
  BY <1>1, CartAssumed, CP!EndedStaysEnded DEF ShopInv
<1>3. WritersAreNoted' /\ written' = written
  <2> DEFINE new == {}
  <2>1. /\ new \in SUBSET {r} /\ (new # {} => CP!Past(r)')
        /\ \A i \in C!ItemIds : items'[i] # NoItem =>
             \/ items[i] # NoItem /\ items'[i].by = items[i].by
             \/ items'[i].by \in new
    OBVIOUS
  <2> HIDE DEF new
  <2>2. /\ WritersAreNoted' /\ written \subseteq written'
        /\ written' \subseteq written \cup new
    BY <1>1, <1>2, <2>1, WrittenBy
  <2> QED
    BY <2>2 DEF new
<1>4. \A c : ~IP!Touched(c)
  BY DEF IP!Touched, RowRead
<1>5. changed' = changed
  BY <1>1, <1>4 DEF IP!NoteChange, ShopInv, IP!IInv, IP!TableOK
<1>6. UNCHANGED IP!vars
  BY <1>1, <1>3, <1>5
  DEF IP!vars, IP!cartVars, intakeVars, paymentVars, RowRead
<1> QED
  BY <1>3, <1>6

\* A cart is created for a request that has none yet.
LEMMA CreationKeeps ==
  ASSUME ShopInv, NEW r \in Requests, CartStep(r), CP!IInv', CP!CreateCart(r)
  PROVE  /\ cartStatus' = cartStatus
         /\ \A c : cartOwner[c] # NoOwner => cartOwner'[c] # NoOwner
         /\ [IP!Next]_(IP!vars) /\ WritersAreNoted'
<1>1. /\ UNCHANGED <<intakeVars, paymentVars, items, options>>
      /\ IP!NoteChange
      /\ CP!Step(r) \/ CP!Fail(r)
      /\ written' = written \cup
           {items'[i].by : i \in {j \in C!ItemIds : items'[j] # NoItem}}
  BY SameCart, SameIntake DEF CartStep, CP!CreateCart
<1>2. r \in C!CartIds
  BY SameCart DEF CP!CartIds
<1>3. cartOwner[r] = NoOwner
  BY DEF CP!CreateCart, ShopInv, CP!IInv, CP!RequestOK, CP!HasCart
<1>4. cartStatus[r] = "ACTIVE" /\ cartStatus' = cartStatus
  <2>1. cartStatus[r] = "ACTIVE"
    BY <1>2, <1>3 DEF ShopInv, Link, ClosedCartsExist
  <2>2. cartStatus = [c \in C!CartIds |-> cartStatus[c]]
    BY SameCart DEF ShopInv, CP!IInv, CP!Shape
  <2> QED
    BY <2>1, <2>2 DEF CP!CreateCart
<1>5. ask[r].owner # NoOwner
  <2>1. ask[r].owner \in Owners
    BY CartAssumed, CP!Asked DEF ShopInv, CP!IInv, CP!Shape
  <2> QED
    BY <2>1, CartAssumed DEF CP!NamesAssumption
<1>6. /\ cartOwner' = [cartOwner EXCEPT ![r] = ask[r].owner]
      /\ DOMAIN cartOwner = C!CartIds
  BY SameCart DEF CP!CreateCart, ShopInv, CP!IInv, CP!Shape
<1>7. \A s \in Requests : CP!Past(s) => CP!Past(s)'
  BY <1>1, CartAssumed, CP!EndedStaysEnded DEF ShopInv
<1>8. WritersAreNoted' /\ written' = written
  <2> DEFINE new == {}
  <2>1. /\ new \in SUBSET {r} /\ (new # {} => CP!Past(r)')
        /\ \A i \in C!ItemIds : items'[i] # NoItem =>
             \/ items[i] # NoItem /\ items'[i].by = items[i].by
             \/ items'[i].by \in new
    BY <1>1
  <2> HIDE DEF new
  <2>2. /\ WritersAreNoted' /\ written \subseteq written'
        /\ written' \subseteq written \cup new
    BY <1>1, <1>7, <2>1, WrittenBy
  <2> QED
    BY <2>2 DEF new
<1>9. \A c : ~IP!Touched(c)
  BY <1>1 DEF IP!Touched, RowRead
<1>10. changed' = changed
  BY <1>1, <1>9 DEF IP!NoteChange, ShopInv, IP!IInv, IP!TableOK
<1> DEFINE cartsNow == {c \in C!CartIds : cartOwner[c] # NoOwner}
<1>11. r \notin cartsNow /\ cartsNow' = cartsNow \cup {r}
  BY <1>2, <1>3, <1>5, <1>6
<1>12. IP!OpenCart(r)
  <2>1. UNCHANGED <<[k \in Checkouts |-> req[k].cart], catalogue, now,
                    [i \in C!ItemIds |-> RowRead(i)], options, written, intake,
                    changed, intakeFailures>>
    BY <1>1, <1>8, <1>10 DEF intakeVars, paymentVars, RowRead
  <2> HIDE DEF cartsNow
  <2> QED
    BY <1>11, <2>1 DEF IP!OpenCart, cartsNow
<1>13. IP!Next
  BY <1>2, <1>12 DEF IP!Next, IP!CartStep
<1> QED
  BY <1>3, <1>4, <1>5, <1>6, <1>8, <1>13

\* A commit puts an item or removes items as OrderIntake says.
LEMMA CommitKeeps ==
  ASSUME ShopInv, NEW r \in Requests, CartStep(r), CP!IInv', CP!UpdateCart(r)
  PROVE  /\ UNCHANGED <<cartOwner, cartStatus>>
         /\ [IP!Next]_(IP!vars) /\ WritersAreNoted'
<1>1. /\ UNCHANGED <<intakeVars, paymentVars>>
      /\ IP!NoteChange
      /\ CP!Step(r) \/ CP!Fail(r)
      /\ written' = written \cup
           {items'[i].by : i \in {j \in C!ItemIds : items'[j] # NoItem}}
  BY SameCart, SameIntake DEF CartStep
<1>2. /\ UNCHANGED <<ask, cartOwner, cartStatus>>
      /\ tx[r].cart \in C!CartIds /\ cartOwner[tx[r].cart] # NoOwner
      /\ ~CP!Past(r) /\ CP!Past(r)'
      /\ \/ \E i \in C!ItemIds : CP!Puts(r, i)
         \/ CP!Removes(r, tx[r].rows)
  BY CartAssumed, SameCart, CP!CommitsShow DEF ShopInv
<1>3. \A s \in Requests : CP!Past(s) => CP!Past(s)'
  BY <1>1, CartAssumed, CP!EndedStaysEnded DEF ShopInv
<1>4. /\ items \in [C!ItemIds -> CP!Row \cup {NoItem}]
      /\ options \in [C!ItemIds -> SUBSET C!ItemIds]
      /\ items' \in [C!ItemIds -> CP!Row \cup {NoItem}]
  BY SameCart DEF ShopInv, CP!IInv, CP!Shape
<1>5. r \in C!ItemIds /\ r \notin written
  BY <1>2, SameCart DEF CP!ItemIds, ShopInv, Link, WritersAreNoted
<1> DEFINE cartsNow == {c \in C!CartIds : cartOwner[c] # NoOwner}
           cartsOf  == [k \in Checkouts |-> req[k].cart]
           read     == [i \in C!ItemIds |-> RowRead(i)]
           c        == tx[r].cart
<1>6. /\ \A i \in C!ItemIds : read[i] = ShownRow(items[i])
      /\ \A i \in C!ItemIds : read'[i] = ShownRow(items'[i])
      /\ \A i \in C!ItemIds : read[i] = NoItem <=> items[i] = NoItem
      /\ \A i \in C!ItemIds : items[i] # NoItem =>
           read[i].cart = items[i].cart /\ read[i].key = items[i].key
  <2>1. \A i \in C!ItemIds : ShownRow(items[i]) = NoItem <=> items[i] = NoItem
    BY <1>4, ShownRows
  <2>2. /\ \A i \in C!ItemIds : read[i] = ShownRow(items[i])
        /\ \A i \in C!ItemIds : read'[i] = ShownRow(items'[i])
    BY DEF RowRead, ShownRow
  <2> HIDE DEF read
  <2>3. \A i \in C!ItemIds : read[i] = NoItem <=> items[i] = NoItem
    BY <2>1, <2>2
  <2>4. ASSUME NEW i \in C!ItemIds, items[i] # NoItem
        PROVE  read[i].cart = items[i].cart /\ read[i].key = items[i].key
    <3>1. read[i] = [cart |-> items[i].cart, key |-> items[i].key,
                     by |-> items[i].by]
      BY <2>2, <2>4 DEF ShownRow
    <3> QED
      BY <3>1
  <2> QED
    BY <2>2, <2>3, <2>4
<1>7. UNCHANGED <<cartsOf, catalogue, now, cartsNow, intake, intakeFailures>>
  BY <1>1, <1>2 DEF intakeVars, paymentVars
<1>8. c \in cartsNow
  BY <1>2
<1>9. DOMAIN read = C!ItemIds /\ DOMAIN read' = C!ItemIds
      /\ read = [i \in C!ItemIds |-> read[i]]
      /\ read' = [i \in C!ItemIds |-> read'[i]]
  OBVIOUS
<1>10. IP!ItemsOf(c) = CP!ItemsOf(c)
  <2>1. IP!ItemsOf(c) = {i \in C!ItemIds : read[i] # NoItem /\ read[i].cart = c}
    BY DEF IP!ItemsOf
  <2> HIDE DEF read, c
  <2> QED
    BY <1>6, <2>1, SameCart DEF CP!ItemsOf, CP!Exists
<1>11. ASSUME CP!Removes(r, tx[r].rows), tx[r].rows = {}
       PROVE  [IP!Next]_(IP!vars) /\ WritersAreNoted'
  <2>1. items' = items /\ options' = options
    BY <1>4, <1>11, SameCart DEF CP!Removes
  <2> QED
    BY <1>2, <2>1, StatementKeeps
<1>12. ASSUME CP!Removes(r, tx[r].rows), tx[r].rows # {}
       PROVE  [IP!Next]_(IP!vars) /\ WritersAreNoted'
  <2> DEFINE S   == tx[r].rows
             new == {}
  <2>1. /\ S # {} /\ S \subseteq IP!ItemsOf(c) /\ S \subseteq C!ItemIds
        /\ \A i \in C!ItemIds : items'[i] = IF i \in S THEN NoItem ELSE items[i]
        /\ options' = [i \in C!ItemIds |-> IF i \in S THEN {} ELSE options[i]]
    BY <1>10, <1>12, SameCart DEF CP!Removes, CP!ItemsOf
  <2>2. /\ new \in SUBSET {r} /\ (new # {} => CP!Past(r)')
        /\ \A i \in C!ItemIds : items'[i] # NoItem =>
             \/ items[i] # NoItem /\ items'[i].by = items[i].by
             \/ items'[i].by \in new
    BY <2>1
  <2> HIDE DEF new
  <2>3. /\ WritersAreNoted' /\ written \subseteq written'
        /\ written' \subseteq written \cup new
    BY <1>1, <1>3, <2>2, WrittenBy
  <2>4. written' = written
    BY <2>3 DEF new
  <2> HIDE DEF read, cartsNow, cartsOf, c, S
  <2>5. \A i \in C!ItemIds : read'[i] = IF i \in S THEN NoItem ELSE read[i]
    BY <1>6, <2>1, Zenon DEF ShownRow
  <2>6. read' = [i \in C!ItemIds |-> IF i \in S THEN NoItem ELSE read[i]]
    BY <1>9, <2>5
  <2>7. /\ S \subseteq IP!ItemsOf(c) /\ S # {}
        /\ read' = [i \in C!ItemIds |-> IF i \in S THEN NoItem ELSE read[i]]
        /\ options' = [i \in C!ItemIds |-> IF i \in S THEN {} ELSE options[i]]
        /\ IP!NoteChange
        /\ UNCHANGED <<cartsOf, catalogue, now, cartsNow, written, intake,
                       intakeFailures>>
    BY <1>1, <1>7, <2>1, <2>4, <2>6
  <2>8. IP!RemoveItems(c, S)
    BY <2>7 DEF IP!RemoveItems, read, cartsNow, cartsOf
  <2>9. c \in C!CartIds /\ S \in SUBSET IP!ItemsOf(c)
    BY <1>2, <2>7 DEF c
  <2>10. IP!Next
    BY <2>8, <2>9 DEF IP!Next, IP!CartStep
  <2> QED
    BY <2>3, <2>10
<1>13. ASSUME NEW i \in C!ItemIds, CP!Puts(r, i)
       PROVE  [IP!Next]_(IP!vars) /\ WritersAreNoted'
  <2> DEFINE key == ask[r].key
             new == {r}
             row == [cart |-> c, key |-> key, by |-> r]
  <2>1. /\ IF items[i] = NoItem THEN i = r ELSE items[i].cart = c
        /\ key \in Services \X Slots
        /\ \A j \in IP!ItemsOf(c) \ {i} : items[j].key # key
        /\ options' = [options EXCEPT ![i] = {r}]
    BY <1>10, <1>13 DEF CP!Puts, CP!Exists, CP!Keys
  <2>2. /\ items'[i] # NoItem /\ items'[i].cart = c
        /\ items'[i].key = key /\ items'[i].by = r
        /\ \A j \in C!ItemIds \ {i} : items'[j] = items[j]
    <3>1. /\ items' = [items EXCEPT ![i] = CP!NewRow(r)]
          /\ CP!NewRow(r) # NoItem
      BY <1>13 DEF CP!Puts
    <3>2. /\ CP!NewRow(r).cart = c /\ CP!NewRow(r).key = key
          /\ CP!NewRow(r).by = r
      BY <3>1 DEF CP!NewRow
    <3> QED
      BY <1>4, <3>1, <3>2
  <2>3. /\ new \in SUBSET {r} /\ (new # {} => CP!Past(r)')
        /\ \A j \in C!ItemIds : items'[j] # NoItem =>
             \/ items[j] # NoItem /\ items'[j].by = items[j].by
             \/ items'[j].by \in new
    BY <1>2, <2>2
  <2> HIDE DEF new
  <2>4. /\ WritersAreNoted' /\ written \subseteq written'
        /\ written' \subseteq written \cup new
    BY <1>1, <1>3, <2>3, WrittenBy
  <2>5. written' = written \cup {r}
    <3>1. r \in written'
      BY <2>2, <2>4 DEF WritersAreNoted
    <3> QED
      BY <2>4, <3>1 DEF new
  <2> HIDE DEF read, cartsNow, cartsOf, c, key
  <2>6. read'[i] = row /\ \A j \in C!ItemIds \ {i} : read'[j] = read[j]
    <3>1. read'[i] = ShownRow(items'[i])
      BY <1>6
    <3>2. ShownRow(items'[i]) = row
      BY <2>2 DEF ShownRow
    <3>3. \A j \in C!ItemIds \ {i} : read'[j] = read[j]
      BY <1>6, <2>2
    <3> QED
      BY <3>1, <3>2, <3>3
  <2> HIDE DEF row
  <2>7. read' = [read EXCEPT ![i] = row]
    BY <1>9, <2>6
  <2>8. /\ c \in cartsNow
        /\ IF read[i] = NoItem THEN i = r ELSE read[i].cart = c
        /\ r \notin written
        /\ \A j \in IP!ItemsOf(c) \ {i} : read[j].key # key
        /\ read' = [read EXCEPT ![i] = row]
        /\ options' = [options EXCEPT ![i] = {r}]
        /\ written' = written \cup {r}
        /\ IP!NoteChange
        /\ UNCHANGED <<cartsOf, catalogue, now, cartsNow, intake,
                       intakeFailures>>
    <3>1. \A j \in IP!ItemsOf(c) : j \in C!ItemIds /\ items[j] # NoItem
      BY <1>10, SameCart DEF CP!ItemsOf, CP!Exists
    <3> QED
      BY <1>1, <1>5, <1>6, <1>7, <1>8, <2>1, <2>5, <2>7, <3>1
  <2>9. IP!PutItem(c, i, r, key)
    BY <2>8 DEF IP!PutItem, read, cartsNow, cartsOf, row
  <2>10. c \in C!CartIds
    BY <1>2 DEF c
  <2>11. IP!Next
    BY <1>5, <2>1, <2>9, <2>10 DEF IP!Next, IP!CartStep
  <2> QED
    BY <2>4, <2>11
<1> QED
  BY <1>2, <1>11, <1>12, <1>13

LEMMA CartStepKeeps ==
  ASSUME ShopInv, NEW r \in Requests, CartStep(r)
  PROVE  Parts /\ Link'
<1>1. /\ UNCHANGED <<intakeVars, paymentVars>>
      /\ CP!Step(r) \/ CP!Fail(r)
  BY SameCart DEF CartStep
<1>2. CP!Next
  BY <1>1 DEF CP!Next
<1>3. CP!IInv'
  BY <1>2, CartInductive DEF ShopInv
<1>4. /\ cartStatus' = cartStatus
      /\ \A c : cartOwner[c] # NoOwner => cartOwner'[c] # NoOwner
      /\ [IP!Next]_(IP!vars) /\ WritersAreNoted'
  <2>1. CASE CP!CreateCart(r)
    BY <1>3, <2>1, CreationKeeps
  <2>2. CASE CP!UpdateCart(r)
    <3>1. /\ UNCHANGED <<cartOwner, cartStatus>>
          /\ [IP!Next]_(IP!vars) /\ WritersAreNoted'
      BY <1>3, <2>2, CommitKeeps
    <3> QED
      BY <3>1
  <2>3. CASE ~CP!CreateCart(r) /\ ~CP!UpdateCart(r)
    <3>1. UNCHANGED <<cartOwner, cartStatus, items, options>>
      BY <1>1, <2>3, CartAssumed, CP!OnlyCommitsShow
    <3>2. [IP!Next]_(IP!vars) /\ WritersAreNoted'
      BY <1>3, <3>1, StatementKeeps
    <3> QED
      BY <3>1, <3>2
  <2> QED
    BY <2>1, <2>2, <2>3
<1>5. UNCHANGED PP!vars
  BY <1>1, <1>4
  DEF paymentVars, PP!vars, PP!orderVars, PP!paymentVars, PP!gatewayVars
<1>6. /\ PlacedInCarts' /\ OrdersAreCreated' /\ AmountsAreTotals'
      /\ ClosedCartsExist'
  BY <1>1, <1>4
  DEF ShopInv, Link, PlacedInCarts, OrdersAreCreated, AmountsAreTotals,
      ClosedCartsExist, intakeVars, paymentVars
<1> QED
  BY <1>2, <1>4, <1>5, <1>6 DEF Parts, Link

-----------------------------------------------------------------------------
(***************************************************************************)
(* The shop implements its parts.                                          *)
(***************************************************************************)
LEMMA InitImpliesShopInv ==
  Init => CP!Init /\ PP!Init /\ IP!Init /\ ShopInv
<1> SUFFICES ASSUME Init PROVE CP!Init /\ PP!Init /\ IP!Init /\ ShopInv
  OBVIOUS
<1>1. CP!Init /\ PP!Init /\ IP!Init
  BY SameCart, SamePayment, SameIntake DEF Init
<1>2. PlacedInCarts
  BY <1>1 DEF IP!Init, PlacedInCarts
<1>3. OrdersAreCreated /\ AmountsAreTotals
  BY <1>1 DEF PP!Init, OrdersAreCreated, AmountsAreTotals
<1>4. ClosedCartsExist
  BY <1>1, SameCart DEF CP!Init, ClosedCartsExist
<1>5. WritersAreNoted
  <2> DEFINE read == [i \in C!ItemIds |-> RowRead(i)]
  <2>1. /\ \A i \in C!ItemIds : items[i] # NoItem =>
               items[i].by = i /\ i \in C!OldItems
    BY <1>1, SameCart DEF CP!Init, CP!OldItems, C!OldItems
  <2>2. written = {i \in C!ItemIds : read[i] # NoItem}
    BY <1>1 DEF IP!Init
  <2>3. \A i \in C!ItemIds : read[i] # NoItem <=> items[i] # NoItem
    <3>1. items \in [C!ItemIds -> CP!Row \cup {NoItem}]
      BY <1>1, CartInductive, SameCart DEF CP!IInv, CP!Shape
    <3>2. \A i \in C!ItemIds : ShownRow(items[i]) = NoItem <=> items[i] = NoItem
      BY <3>1, ShownRows
    <3>3. \A i \in C!ItemIds : read[i] = ShownRow(items[i])
      BY DEF RowRead, ShownRow
    <3> HIDE DEF read
    <3> QED
      BY <3>2, <3>3
  <2> HIDE DEF read
  <2>4. \A r \in Requests : r \notin written
    BY <2>1, <2>2, <2>3, CartAssumed
    DEF CP!NamesAssumption, CP!OldItems, C!OldItems
  <2> QED
    BY <2>1, <2>2, <2>3, <2>4 DEF WritersAreNoted
<1> QED
  BY <1>1, <1>2, <1>3, <1>4, <1>5, CartInductive, PaymentInductive,
     IntakeInductive
  DEF ShopInv, Link

LEMMA StepKeepsShopInv == ShopInv /\ [Next]_vars => ShopInv' /\ Parts
<1> SUFFICES ASSUME ShopInv, [Next]_vars PROVE Link' /\ Parts
  BY CartInductive, PaymentInductive, IntakeInductive DEF ShopInv, Parts
<1>1. CASE Next
  BY <1>1, CartStepKeeps, IntakeStepKeeps, PlaceOrderKeeps, PaymentStepKeeps
  DEF Next
<1>2. CASE UNCHANGED vars
  <2>1. UNCHANGED <<CP!vars, PP!vars, IP!vars>>
    BY <1>2
    DEF vars, tables, cartVars, intakeVars, paymentVars, CP!vars, CP!cartVars,
        CP!rowVars, PP!vars, PP!orderVars, PP!paymentVars, PP!gatewayVars,
        IP!vars, IP!cartVars, RowRead
  <2>2. Link'
    BY <1>2
    DEF vars, tables, cartVars, intakeVars, paymentVars, ShopInv, Link,
        PlacedInCarts, OrdersAreCreated, AmountsAreTotals, ClosedCartsExist,
        WritersAreNoted, CP!Past
  <2> QED
    BY <2>1, <2>2 DEF Parts
<1> QED
  BY <1>1, <1>2

LEMMA Invariance == Spec => []ShopInv
BY InitImpliesShopInv, StepKeepsShopInv, PTL DEF Spec

\* Whatever orders and payments do to carts meanwhile, the cart service runs as
\* Cart says: an order closes a cart that exists and is active, and does
\* nothing else to the tables.  So all that CartProofs proves holds of the shop.
THEOREM CartIsImplemented == Spec => CartSpec
<1>1. CP!Next => C!Next
  BY SameCart DEF CP!Next, C!Next
<1>2. UNCHANGED CP!vars => UNCHANGED C!vars
  BY
  DEF C!cartVars, CP!cartVars, C!rowVars, CP!rowVars, C!vars, CP!vars
<1>3. ShopInv /\ [Next]_vars => [C!Next]_(C!vars)
  BY <1>1, <1>2, StepKeepsShopInv DEF Parts
<1>4. Init => C!Init
  BY DEF Init
<1> QED
  BY <1>3, <1>4, Invariance, PTL DEF Spec, CartSpec, C!Spec

\* Whatever carts are created and changed meanwhile, orders are paid as
\* OrderPayment says.
THEOREM PaymentIsImplemented == Spec => PaymentSpec
<1>1. PP!Next => P!Next
  BY SamePayment
  DEF PP!Next, P!Next, P!Codes, PP!Codes, P!Decisions, PP!Decisions
<1>2. UNCHANGED PP!vars => UNCHANGED P!vars
  BY
  DEF P!orderVars, PP!orderVars, P!paymentVars, PP!paymentVars,
      P!gatewayVars, PP!gatewayVars, P!vars, PP!vars
<1>3. ShopInv /\ [Next]_vars => [P!Next]_(P!vars)
  BY <1>1, <1>2, StepKeepsShopInv DEF Parts
<1>4. Init => P!Init
  BY DEF Init
<1> QED
  BY <1>3, <1>4, Invariance, PTL DEF Spec, PaymentSpec, P!Spec

\* Requests to /cart change the items that orders read as OrderIntake says:
\* one item is put, with options and a name of its own and under a key that no
\* other has, or some items of a cart go, and nobody sees half of it.
THEOREM IntakeIsImplemented == Spec => IntakeSpec
<1>1. IP!Next => I!Next
  BY SameIntake DEF IP!Next, I!Next
<1>2. UNCHANGED IP!vars => UNCHANGED I!vars
  BY
  DEF I!cartVars, IP!cartVars, I!vars, IP!vars
<1>3. ShopInv /\ [Next]_vars => [I!Next]_(I!vars)
  BY <1>1, <1>2, StepKeepsShopInv DEF Parts
<1>4. Init => I!Init
  BY DEF Init
<1> QED
  BY <1>3, <1>4, Invariance, PTL DEF Spec, IntakeSpec, I!Spec

\* Unless the cart has changed since it was read, an order has a service for
\* each item the cart has, as it is.
LEMMA OrderedItems ==
  ASSUME ShopInv, NEW k \in Checkouts, intake[k].pc = "created",
         changed[k] = "no"
  PROVE  /\ DOMAIN intake[k].services = C!ItemsOf(req[k].cart)
         /\ \A i \in C!ItemsOf(req[k].cart) :
              /\ intake[k].rows[i] = RowRead(i)
              /\ intake[k].rows[i].by = items[i].by
              /\ intake[k].opts[i] = options[i]
<1> DEFINE c       == req[k].cart
           read    == [i \in C!ItemIds |-> RowRead(i)]
           cartsOf == [l \in Checkouts |-> req[l].cart]
           seen    == {i \in C!ItemIds : read[i] # NoItem /\ read[i].cart = c}
<1>1. /\ intake[k].rows = [i \in seen |-> read[i]]
      /\ DOMAIN intake[k].services = seen
      /\ \A i \in seen : intake[k].opts[i] = {read[i].by}
  <2>1. /\ intake[k].rows = IP!RowsNow(k)
        /\ DOMAIN intake[k].services = DOMAIN intake[k].rows
        /\ \A i \in DOMAIN intake[k].rows :
             intake[k].opts[i] = {intake[k].rows[i].by}
    BY DEF ShopInv, IP!IInv, IP!ReadOK
  <2>2. IP!RowsNow(k) = [i \in seen |-> read[i]]
    BY DEF IP!RowsNow, IP!ItemsOf
  <2> HIDE DEF seen, read
  <2> QED
    BY <2>1, <2>2
<1>2. ASSUME NEW i \in C!ItemIds
      PROVE  /\ i \in seen <=> i \in C!ItemsOf(c)
             /\ i \in seen => /\ read[i].by = items[i].by
                             /\ options[i] = {items[i].by}
  <2>1. /\ items[i] \in CP!Row \cup {NoItem}
        /\ items[i] # NoItem => options[i] = {items[i].by}
    BY SameCart DEF ShopInv, CP!IInv, CP!OptionsAgree, CP!Exists, CP!Shape
  <2>2. read[i] = ShownRow(items[i])
    BY DEF RowRead, ShownRow
  <2>3. ShownRow(items[i]) = NoItem <=> items[i] = NoItem
    BY <2>1, ShownRows
  <2>4. items[i] # NoItem => /\ ShownRow(items[i]).cart = items[i].cart
                             /\ ShownRow(items[i]).by = items[i].by
    BY DEF ShownRow
  <2>5. i \in C!ItemsOf(c) <=> items[i] # NoItem /\ items[i].cart = c
    BY DEF C!ItemsOf, C!Exists
  <2>6. i \in seen <=> read[i] # NoItem /\ read[i].cart = c
    OBVIOUS
  <2> HIDE DEF read, seen
  <2> QED
    BY <2>1, <2>2, <2>3, <2>4, <2>5, <2>6
<1>3. seen = C!ItemsOf(c)
  BY <1>2 DEF C!ItemsOf, C!Exists
<1>4. \A i \in seen : read[i] = RowRead(i)
  OBVIOUS
<1>5. \A i \in seen : i \in C!ItemIds
  OBVIOUS
<1> HIDE DEF read, seen
<1>6. ASSUME NEW i \in seen
      PROVE  /\ intake[k].rows[i] = RowRead(i)
             /\ intake[k].rows[i].by = items[i].by
             /\ intake[k].opts[i] = options[i]
  <2>1. intake[k].rows[i] = read[i] /\ intake[k].opts[i] = {read[i].by}
    BY <1>1
  <2> QED
    BY <1>2, <1>4, <1>5, <2>1
<1> QED
  BY <1>1, <1>3, <1>6

\* A cart is closed only by a booked order of its own, and that order lists
\* every item the cart has, as it is, unless the cart changed behind its back.
THEOREM ClosedCartsAreOrdered == Spec => []ClosedCartIsOrdered
<1>1. ASSUME ShopInv, NEW c \in C!CartIds, cartStatus[c] = "ORDERED"
      PROVE  \E k \in Checkouts :
               /\ req[k].cart = c /\ orderStatus[k] \in P!Booked
               /\ changed[k] = "no" =>
                    \A i \in C!ItemsOf(c) :
                      /\ i \in DOMAIN intake[k].services
                      /\ intake[k].rows[i].by = items[i].by
                      /\ intake[k].opts[i] = options[i]
  <2>1. PICK k \in Checkouts : req[k].cart = c /\ orderStatus[k] \in PP!Booked
    BY <1>1 DEF ShopInv, PP!IInv, PP!CartClosedOnlyWhenBooked
  <2>2. orderStatus[k] \in P!Booked /\ intake[k].pc = "created"
    BY <1>1, <2>1 DEF ShopInv, Link, OrdersAreCreated, P!Booked, PP!Booked
  <2> QED
    BY <1>1, <2>1, <2>2, OrderedItems
<1>2. ShopInv => ClosedCartIsOrdered
  BY <1>1 DEF ClosedCartIsOrdered
<1> QED
  BY <1>2, Invariance, PTL

\* What is charged for an item is what its participants cost, and these add up.
IntakeAddsUp ==
  /\ IP!TInv
  /\ \A k \in Checkouts : \A i \in DOMAIN intake[k].services :
       IP!ChargedAtItsDay(k, i)

\* What the order service promises by itself holds in the shop.
LEMMA IntakeInShop == Spec => []IntakeAddsUp
<1>1. Init => IP!Init
  BY InitImpliesShopInv
<1>2. ShopInv /\ [Next]_vars => [IP!Next]_(IP!vars)
  BY StepKeepsShopInv DEF Parts
<1>3. Spec => IP!Spec
  BY <1>1, <1>2, Invariance, PTL DEF Spec, IP!Spec
<1>4. IP!Spec => [](IP!TInv /\ IP!TotalsAreNatural)
  BY IntakeAssumed, IP!TotalsInvariance
<1>5. IP!Spec => [](\A k \in Checkouts : \A i \in DOMAIN intake[k].services :
                      IP!ChargedAtItsDay(k, i))
  BY IntakeAssumed, IP!ChargesAreOfTheirDay
<1> QED
  BY <1>3, <1>4, <1>5, PTL DEF IntakeAddsUp

\* Whatever carts, orders and payments do meanwhile, an order is for what its
\* cart's participants cost on the days their prices were fetched on, and no
\* one who pays in full is charged anything else, unless the cart changed behind
\* its back.
THEOREM ChargesAreForCarts == Spec => []CartIsWhatIsCharged
<1>1. ASSUME ShopInv, IntakeAddsUp, NEW k \in Checkouts, changed[k] = "no",
             orderStatus[k] # "none"
      PROVE  LET Cost(i) == I!ServiceTotals(
                              I!PricesAt(RowRead(i), intake[k].services[i].day),
                              I!OptionRows(options[i])).current
             IN req[k].amount = MapThenSumSet(Cost, C!ItemsOf(req[k].cart))
  <2> DEFINE Cost(i) == I!ServiceTotals(
                          I!PricesAt(RowRead(i), intake[k].services[i].day),
                          I!OptionRows(options[i])).current
             D == C!ItemsOf(req[k].cart)
             f == IP!Currents(intake[k].services)
             Adds(h) == h = [s \in SUBSET D |->
                               IF s = {} THEN 0
                               ELSE LET x == CHOOSE x \in s : TRUE
                                    IN  f[x] + h[s \ {x}]]
             Maps(h) == h = [s \in SUBSET D |->
                               IF s = {} THEN 0
                               ELSE LET x == CHOOSE x \in s : TRUE
                                    IN  Cost(x) + h[s \ {x}]]
  <2>1. intake[k].pc = "created" /\ req[k].amount = intake[k].total.current
    BY <1>1 DEF ShopInv, Link, OrdersAreCreated, AmountsAreTotals
  <2>2. /\ DOMAIN intake[k].services = D
        /\ \A i \in D : /\ intake[k].rows[i] = RowRead(i)
                        /\ intake[k].opts[i] = options[i]
    BY <1>1, <2>1, OrderedItems
  <2>3. intake[k].total.current = IP!SumOf(f)
    <3>1. intake[k].total =
            [base    |-> IP!SumOf(IP!Bases(intake[k].services)),
             current |-> IP!SumOf(IP!Currents(intake[k].services))]
      BY <1>1 DEF IntakeAddsUp, IP!TInv, IP!TotalsOK
    <3> HIDE DEF D, Cost, Adds, Maps
    <3> QED
      BY <3>1
  <2>4. ASSUME NEW i \in D
        PROVE  f[i] = Cost(i)
    <3>1. intake[k].services[i].totals =
            IP!ServiceTotals(
              IP!PricesAt(intake[k].rows[i], intake[k].services[i].day),
              IP!OptionRows(intake[k].opts[i]))
      BY <1>1, <2>2, <2>4
      DEF IntakeAddsUp, IP!ChargedAtItsDay, IP!Participants
    <3>2. f[i] = intake[k].services[i].totals.current
      BY <2>2, <2>4 DEF IP!Currents
    <3> QED
      BY <2>2, <2>4, <3>1, <3>2, SamePricing, SamePrices, SameOptions
  <2>5. DOMAIN f = D
    BY <2>2 DEF IP!Currents
  <2>6. IP!SumOf(f) = (CHOOSE h : Adds(h))[D]
    <3> HIDE DEF f, D
    <3> QED
      BY <2>5 DEF IP!SumOf, IP!MapThenSumSet, IP!MapThenFoldSet
  <2>7. MapThenSumSet(Cost, D) = (CHOOSE h : Maps(h))[D]
    BY DEF MapThenSumSet, MapThenFoldSet
  <2> HIDE DEF f, D, Cost
  <2>8. \A h : Adds(h) <=> Maps(h)
    BY <2>4
  <2> HIDE DEF Adds, Maps
  <2>9. (CHOOSE h : Adds(h))[D] = (CHOOSE h : Maps(h))[D]
    BY <2>8
  <2> QED
    BY <2>1, <2>3, <2>6, <2>7, <2>9 DEF Cost, D
<1>2. ASSUME ShopInv, NEW k \in Checkouts, P!Charged(k) > 0
      PROVE  /\ orderStatus[k] # "none"
             /\ P!Charged(k) = P!convertAmountToCents(req[k].amount)
  <2>1. gateway[k] = "ok"
    BY <1>2 DEF P!Charged
  <2> QED
    BY <1>2, <2>1
    DEF ShopInv, PP!IInv, PP!GatewayHonest, PP!HasPaymentUrl,
        PP!CheckoutProgress, P!Charged, P!gatewayAmount
<1>3. ShopInv /\ IntakeAddsUp => CartIsWhatIsCharged
  <2> SUFFICES ASSUME ShopInv, IntakeAddsUp, NEW k \in Checkouts,
                      changed[k] = "no"
               PROVE  LET Cost(i) ==
                            I!ServiceTotals(
                              I!PricesAt(RowRead(i), intake[k].services[i].day),
                              I!OptionRows(options[i])).current
                          due == MapThenSumSet(Cost, C!ItemsOf(req[k].cart))
                      IN /\ orderStatus[k] # "none" =>
                              P!storedTotal(k) = P!convertAmountToCents(due)
                         /\ P!Charged(k) > 0 /\ req[k].method # "PREPAYMENT" =>
                              P!Charged(k) = P!convertAmountToCents(due)
    BY DEF CartIsWhatIsCharged
  <2> DEFINE Cost(i) == I!ServiceTotals(
                          I!PricesAt(RowRead(i), intake[k].services[i].day),
                          I!OptionRows(options[i])).current
             due == MapThenSumSet(Cost, C!ItemsOf(req[k].cart))
  <2>1. orderStatus[k] # "none" => req[k].amount = due
    BY <1>1
  <2> HIDE DEF due
  <2>2. P!storedTotal(k) = P!convertAmountToCents(req[k].amount)
    BY DEF P!storedTotal
  <2>3. P!Charged(k) > 0 =>
          /\ orderStatus[k] # "none"
          /\ P!Charged(k) = P!convertAmountToCents(req[k].amount)
    BY <1>2
  <2>4. /\ orderStatus[k] # "none" =>
             P!storedTotal(k) = P!convertAmountToCents(due)
        /\ P!Charged(k) > 0 /\ req[k].method # "PREPAYMENT" =>
             P!Charged(k) = P!convertAmountToCents(due)
    <3> HIDE DEF P!Charged, P!convertAmountToCents
    <3> QED
      BY <2>1, <2>2, <2>3
  <2> QED
    BY <2>4 DEF due
<1> QED
  BY <1>3, Invariance, IntakeInShop, PTL

\* What the parts promise by themselves holds where they share tables: of the
\* cart service, whatever orders close its carts; of the order service, whatever
\* the cart service commits; and of payments, whatever carts there are.
THEOREM PromisesHold ==
  Spec => /\ CP!OwnItemsOnly
          /\ [](CP!OptionsAgree /\ CP!TotalUnlessOverlapped)
          /\ [](IP!OrderIsItsCart /\ IP!RefusedOnlyWithoutPrice)
          /\ [](IP!PriceIsInForce /\ IP!TotalIsSumOfServices)
          /\ PP!BookingSpec
          /\ [](PP!NoCreditWithoutCharge /\ PP!AnsweredMeansBooked)
          /\ [](PP!CreditsAreWholePayments /\ PP!StatusMatchesPaid)
<1>1. Init => CP!Init /\ PP!Init /\ IP!Init
  BY InitImpliesShopInv
<1>2. ShopInv /\ [Next]_vars => /\ [CP!Next]_(CP!vars)
                               /\ [PP!Next]_(PP!vars)
                               /\ [IP!Next]_(IP!vars)
  BY StepKeepsShopInv DEF Parts
<1>3. Spec => CP!Spec
  BY <1>1, <1>2, Invariance, PTL DEF Spec, CP!Spec
<1>4. Spec => IP!Spec
  BY <1>1, <1>2, Invariance, PTL DEF Spec, IP!Spec
<1>5. Spec => PP!Spec
  BY <1>1, <1>2, Invariance, PTL DEF Spec, PP!Spec
<1>6. CP!Spec => CP!OwnItemsOnly
  BY CartAssumed, CP!OwnersChangeTheirItems
<1>7. CP!Spec => []CP!OptionsAgree
  BY CartAssumed, CP!OptionsFollowItems
<1>8. CP!Spec => []CP!TotalUnlessOverlapped
  BY CartAssumed, CP!TotalsAreSums
<1>9. IP!Spec => []IP!OrderIsItsCart
  BY IntakeAssumed, IP!OrdersAreTheirCarts
<1>10. IP!Spec => []IP!RefusedOnlyWithoutPrice
  BY IntakeAssumed, IP!RefusalsHaveAReason
<1>11. IP!Spec => []IP!PriceIsInForce
  BY IntakeAssumed, IP!PricesAreInForce
<1>12. IP!Spec => []IP!TotalIsSumOfServices
  BY IntakeAssumed, IP!NoServiceIsLost
<1>13. PP!Spec => PP!BookingSpec
  BY PaymentAssumed, PP!ImplementsBooking
<1>14. PP!Spec => []PP!NoCreditWithoutCharge
  BY PaymentAssumed, PP!CreditsAreCharged
<1>15. PP!Spec => []PP!AnsweredMeansBooked
  BY PaymentAssumed, PP!AnswersAreTrue
<1>16. PP!Spec => []PP!CreditsAreWholePayments
  BY PaymentAssumed, PP!CreditsAreWhole
<1>17. PP!Spec => []PP!StatusMatchesPaid
  BY PaymentAssumed, PP!StatusIsRight
<1> QED
  BY <1>3, <1>4, <1>5, <1>6, <1>7, <1>8, <1>9, <1>10, <1>11, <1>12, <1>13,
     <1>14, <1>15, <1>16, <1>17, PTL
=============================================================================
