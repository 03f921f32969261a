------------------------- MODULE OrderIntakeProofs -------------------------
(***************************************************************************)
(* What holds of OrderIntake for any number of orders, carts, items and    *)
(* catalogues, and any time and number of failures.                        *)
(***************************************************************************)
EXTENDS OrderIntake, PricingProofs

-----------------------------------------------------------------------------
(***************************************************************************)
(* The inductive invariant.                                                *)
(***************************************************************************)

\* The rows of the table are rows, and each has its writer's options.
TableOK ==
  /\ items \in [Items -> Row \cup {NoItem}]
  /\ options = [i \in Items |-> IF items[i] = NoItem THEN {}
                                                     ELSE {items[i].by}]
  /\ cartOf \in [Orders -> Carts]
  /\ changed \in [Orders -> {"no", "reading", "later"}]

\* The local variables of a request.
Locals(in) == [pc |-> in.pc, rows |-> in.rows, opts |-> in.opts,
               services |-> in.services, total |-> in.total]

LocalsOK ==
  /\ intake = [k \in Orders |-> intake[k]]
  /\ \A k \in Orders : intake[k] = Locals(intake[k])

\* What order k would read now.
RowsNow(k) == [i \in ItemsOf(cartOf[k]) |-> items[i]]

\* What a request knows of its cart at each of its statements.
ReadOK(k) ==
  LET in == intake[k]
  IN /\ in.pc = "requested" => changed[k] = "no"
     /\ in.pc = "readOptions" => changed[k] \in {"no", "reading"}
     /\ in.pc \in {"requested", "readOptions"} => DOMAIN in.services = {}
     /\ in.pc \in {"readOptions", "fetchPrices", "created"} /\ changed[k] = "no"
          => in.rows = RowsNow(k)
     /\ in.pc \in {"fetchPrices", "created"} /\ changed[k] # "reading"
          => \A i \in DOMAIN in.rows : in.opts[i] = {in.rows[i].by}
     /\ DOMAIN in.services \subseteq DOMAIN in.rows
     /\ in.pc = "created" => DOMAIN in.services = DOMAIN in.rows

IInv == TableOK /\ LocalsOK /\ \A k \in Orders : ReadOK(k)

-----------------------------------------------------------------------------
(***************************************************************************)
(* Steps of requests to /cart.                                             *)
(***************************************************************************)

\* If the items of k's cart are not touched, k would read what it would have.
LEMMA UntouchedRows ==
  ASSUME TableOK, TableOK', UNCHANGED cartOf,
         NEW k \in Orders, ~Touched(cartOf[k])
  PROVE  RowsNow(k)' = RowsNow(k)
<1> DEFINE c == cartOf[k]
<1>1. \A i \in Items : i \in ItemsOf(c) => items'[i] = items[i]
  BY RowsAssumption DEF ItemsOf, Touched, TableOK
<1>2. \A i \in Items : i \in ItemsOf(c)' => items'[i] = items[i]
  BY RowsAssumption DEF ItemsOf, Touched, TableOK
<1>3. ItemsOf(c)' = ItemsOf(c)
  BY <1>1, <1>2 DEF ItemsOf
<1>4. \A i \in ItemsOf(c) : items'[i] = items[i]
  BY <1>1 DEF ItemsOf
<1> QED
  BY <1>3, <1>4 DEF RowsNow

\* Whatever changes the items, what requests know of them stays true.
LEMMA NotedChangeKeepsIInv ==
  ASSUME IInv, NoteChange, TableOK', UNCHANGED <<cartOf, intake>>
  PROVE  IInv'
<1>1. LocalsOK'
  BY DEF IInv, LocalsOK, Locals
<1>2. ASSUME NEW k \in Orders
      PROVE  ReadOK(k)'
  <2>1. CASE changed[k] # "no" \/ intake[k].pc = "requested"
               \/ ~Touched(cartOf[k])
    <3>1. changed'[k] = changed[k]
      BY <2>1 DEF NoteChange
    <3>2. intake[k].pc = "requested" \/ changed[k] # "no"
            \/ RowsNow(k)' = RowsNow(k)
      BY <2>1, UntouchedRows DEF IInv
    <3> QED
      BY <3>1, <3>2 DEF IInv, ReadOK
  <2>2. CASE /\ changed[k] = "no" /\ intake[k].pc # "requested"
             /\ Touched(cartOf[k])
    <3>1. changed'[k] = IF intake[k].pc = "readOptions" THEN "reading"
                                                       ELSE "later"
      BY <2>2 DEF NoteChange
    <3> QED
      BY <2>2, <3>1 DEF IInv, ReadOK
  <2> QED
    BY <2>1, <2>2
<1> QED
  BY <1>1, <1>2 DEF IInv

LEMMA PutItemKeepsIInv ==
  ASSUME IInv, NEW c \in Carts, NEW i \in Items, NEW w \in Items,
         NEW key \in Services \X Slots, PutItem(c, i, w, key)
  PROVE  IInv'
<1> DEFINE row == [cart |-> c, key |-> key, by |-> w]
<1>1. row \in Row /\ row # NoItem
  BY RowsAssumption DEF Row
<1>2. items' \in [Items -> Row \cup {NoItem}]
  BY <1>1 DEF PutItem, IInv, TableOK
<1>3. options' = [j \in Items |-> IF items'[j] = NoItem THEN {}
                                                       ELSE {items'[j].by}]
  BY <1>1 DEF PutItem, IInv, TableOK
<1>4. TableOK'
  BY <1>2, <1>3 DEF PutItem, NoteChange, IInv, TableOK
<1> QED
  BY <1>4, NotedChangeKeepsIInv DEF PutItem

LEMMA RemoveItemsKeepsIInv ==
  ASSUME IInv, NEW c \in Carts, NEW S \in SUBSET Items, RemoveItems(c, S)
  PROVE  IInv'
<1>1. items' \in [Items -> Row \cup {NoItem}]
  BY DEF RemoveItems, IInv, TableOK
<1>2. options' = [j \in Items |-> IF items'[j] = NoItem THEN {}
                                                       ELSE {items'[j].by}]
  BY DEF RemoveItems, IInv, TableOK
<1>3. TableOK'
  BY <1>1, <1>2 DEF RemoveItems, NoteChange, IInv, TableOK
<1> QED
  BY <1>3, NotedChangeKeepsIInv DEF RemoveItems

-----------------------------------------------------------------------------
(***************************************************************************)
(* Steps of orders.                                                        *)
(***************************************************************************)

\* An update of a local variable.
LEMMA LocalUpdated ==
  ASSUME NEW in, in = Locals(in), NEW v
  PROVE  /\ [in EXCEPT !.pc = v] = Locals([in EXCEPT !.pc = v])
         /\ [in EXCEPT !.rows = v] = Locals([in EXCEPT !.rows = v])
         /\ [in EXCEPT !.opts = v] = Locals([in EXCEPT !.opts = v])
         /\ [in EXCEPT !.services = v] = Locals([in EXCEPT !.services = v])
         /\ [in EXCEPT !.total = v] = Locals([in EXCEPT !.total = v])
BY DEF Locals

\* A step of request k leaves the tables and what others know as they are.
LEMMA OwnStepKeepsIInv ==
  ASSUME IInv, NEW k \in Orders, NEW in,
         UNCHANGED <<cartOf, items, options, changed>>,
         intake' = [intake EXCEPT ![k] = in],
         in = Locals(in), ReadOK(k)'
  PROVE  IInv'
<1>1. TableOK'
  BY DEF IInv, TableOK
<1>2. LocalsOK'
  <2>1. intake'[k] = in /\ \A j \in Orders \ {k} : intake'[j] = intake[j]
    BY DEF IInv, LocalsOK
  <2>2. intake' = [j \in Orders |-> intake'[j]]
    BY DEF IInv, LocalsOK
  <2> QED
    BY <2>1, <2>2 DEF IInv, LocalsOK, Locals
<1>3. ASSUME NEW j \in Orders \ {k}
      PROVE  ReadOK(j)'
  <2>1. intake'[j] = intake[j]
    BY DEF IInv, LocalsOK
  <2>2. RowsNow(j)' = RowsNow(j)
    BY DEF RowsNow, ItemsOf
  <2> QED
    BY <2>1, <2>2 DEF IInv, ReadOK
<1> QED
  BY <1>1, <1>2, <1>3 DEF IInv

LEMMA ReadItemsKeepsIInv ==
  ASSUME IInv, NEW k \in Orders, ReadItems(k)
  PROVE  IInv'
<1> DEFINE in == IF cartOf[k] \in carts
                 THEN [intake[k] EXCEPT !.pc = "readOptions",
                                        !.rows = RowsNow(k)]
                 ELSE [intake[k] EXCEPT !.pc = "failed"]
<1>1. intake' = [intake EXCEPT ![k] = in]
  BY DEF ReadItems, RowsNow
<1>2. in = Locals(in)
  BY DEF IInv, LocalsOK, Locals
<1>3. intake'[k] = in
  BY <1>1 DEF IInv, LocalsOK
<1>4. RowsNow(k)' = RowsNow(k)
  BY DEF ReadItems, cartVars, RowsNow, ItemsOf
<1>5. ReadOK(k)'
  <2>1. /\ changed'[k] = "no"
        /\ DOMAIN intake[k].services = {}
    BY DEF ReadItems, IInv, ReadOK
  <2>2. CASE cartOf[k] \in carts
    <3>1. /\ in.pc = "readOptions" /\ in.rows = RowsNow(k)
          /\ in.services = intake[k].services
      BY <2>2 DEF IInv, LocalsOK, Locals
    <3> QED
      BY <1>3, <1>4, <2>1, <3>1 DEF ReadOK
  <2>3. CASE cartOf[k] \notin carts
    <3>1. in.pc = "failed" /\ in.services = intake[k].services
      BY <2>3 DEF IInv, LocalsOK, Locals
    <3> QED
      BY <1>3, <2>1, <3>1 DEF ReadOK
  <2> QED
    BY <2>2, <2>3
<1> QED
  BY <1>1, <1>2, <1>5, OwnStepKeepsIInv DEF ReadItems, cartVars

LEMMA ReadOptionsKeepsIInv ==
  ASSUME IInv, NEW k \in Orders, ReadOptions(k)
  PROVE  IInv'
<1> DEFINE opts == [i \in DOMAIN intake[k].rows |-> options[i]]
           in   == [intake[k] EXCEPT !.pc = "fetchPrices", !.opts = opts]
<1>1. intake' = [intake EXCEPT ![k] = in]
  BY DEF ReadOptions
<1>2. in = Locals(in)
  <2> DEFINE mid == [intake[k] EXCEPT !.pc = "fetchPrices"]
  <2>1. mid = Locals(mid)
    BY LocalUpdated DEF IInv, LocalsOK
  <2> HIDE DEF mid, opts
  <2>2. [mid EXCEPT !.opts = opts] = Locals([mid EXCEPT !.opts = opts])
    BY <2>1, LocalUpdated
  <2> QED
    BY <2>2 DEF mid
<1>3. intake'[k] = in
  BY <1>1 DEF IInv, LocalsOK
<1>4. /\ in.pc = "fetchPrices" /\ in.opts = opts /\ in.rows = intake[k].rows
      /\ in.services = intake[k].services
  BY DEF IInv, LocalsOK, Locals
<1>5. changed[k] # "reading" => intake[k].rows = RowsNow(k)
  BY DEF ReadOptions, IInv, ReadOK
<1>6. changed[k] # "reading" =>
        \A i \in DOMAIN intake[k].rows : opts[i] = {intake[k].rows[i].by}
  BY <1>5 DEF RowsNow, ItemsOf, IInv, TableOK
<1>7. RowsNow(k)' = RowsNow(k)
  BY DEF ReadOptions, cartVars, RowsNow, ItemsOf
<1>8. ReadOK(k)'
  BY <1>3, <1>4, <1>5, <1>6, <1>7 DEF ReadOptions, IInv, ReadOK
<1> QED
  BY <1>1, <1>2, <1>8, OwnStepKeepsIInv DEF ReadOptions, cartVars

LEMMA FetchPricesKeepsIInv ==
  ASSUME IInv, NEW k \in Orders, NEW i \in Items, FetchPrices(k, i)
  PROVE  IInv'
<1> DEFINE row      == intake[k].rows[i]
           rows     == OptionRows(intake[k].opts[i])
           totals   == ServiceTotals(PricesAt(row, now), rows)
           services == [j \in DOMAIN intake[k].services \cup {i} |->
                          IF j = i THEN [totals |-> totals, day |-> now]
                                   ELSE intake[k].services[j]]
           total    == Accumulate(intake[k].total, totals)
           refused  == \/ Document(row) = NoDocument
                       \/ PriceMissing(PricesAt(row, now), rows)
<1>1. intake' = [intake EXCEPT ![k] =
                   IF refused THEN [intake[k] EXCEPT !.pc = "refused"]
                   ELSE [intake[k] EXCEPT !.services = services,
                                          !.total = total]]
  BY DEF FetchPrices
<1>2. /\ intake[k].pc = "fetchPrices" /\ i \in DOMAIN intake[k].rows
      /\ UNCHANGED <<cartOf, items, options, changed>>
  BY DEF FetchPrices, Pending, cartVars
<1>3. DOMAIN services = DOMAIN intake[k].services \cup {i}
  OBVIOUS
<1> HIDE DEF services, total, refused
<1>4. CASE refused
  <2> DEFINE in == [intake[k] EXCEPT !.pc = "refused"]
  <2>1. intake' = [intake EXCEPT ![k] = in]
    BY <1>1, <1>4
  <2>2. in = Locals(in)
    BY LocalUpdated DEF IInv, LocalsOK
  <2>3. /\ intake'[k].pc = "refused"
        /\ intake'[k].services = intake[k].services
        /\ intake'[k].rows = intake[k].rows
    BY <2>1 DEF IInv, LocalsOK, Locals
  <2>4. ReadOK(k)'
    BY <2>3 DEF IInv, ReadOK
  <2> QED
    BY <1>2, <2>1, <2>2, <2>4, OwnStepKeepsIInv
<1>5. CASE ~refused
  <2> DEFINE mid == [intake[k] EXCEPT !.services = services]
             in  == [mid EXCEPT !.total = total]
  <2>1. intake' = [intake EXCEPT ![k] = in]
    BY <1>1, <1>5
  <2>2. mid = Locals(mid)
    BY LocalUpdated DEF IInv, LocalsOK
  <2>3. /\ mid.services = services
        /\ mid.pc = intake[k].pc /\ mid.rows = intake[k].rows
        /\ mid.opts = intake[k].opts
    BY DEF IInv, LocalsOK, Locals
  <2> HIDE DEF mid
  <2>4. in = Locals(in)
    BY <2>2, LocalUpdated
  <2>5. /\ intake'[k].services = services
        /\ intake'[k].pc = "fetchPrices"
        /\ intake'[k].rows = intake[k].rows
        /\ intake'[k].opts = intake[k].opts
    BY <1>2, <2>1, <2>2, <2>3 DEF IInv, LocalsOK, Locals
  <2>6. RowsNow(k)' = RowsNow(k)
    BY <1>2 DEF RowsNow, ItemsOf
  <2>7. ReadOK(k)'
    BY <1>2, <1>3, <2>5, <2>6 DEF IInv, ReadOK
  <2> QED
    BY <1>2, <2>1, <2>4, <2>7, OwnStepKeepsIInv
<1> QED
  BY <1>4, <1>5

LEMMA CreateOrderKeepsIInv ==
  ASSUME IInv, NEW k \in Orders, CreateOrder(k)
  PROVE  IInv'
<1> DEFINE in == [intake[k] EXCEPT !.pc = "created"]
<1>1. /\ intake' = [intake EXCEPT ![k] = in]
      /\ UNCHANGED <<cartOf, items, options, changed>>
  BY DEF CreateOrder, cartVars
<1>2. in = Locals(in)
  BY LocalUpdated DEF IInv, LocalsOK
<1>3. /\ intake'[k].pc = "created"
      /\ intake'[k].services = intake[k].services
      /\ intake'[k].rows = intake[k].rows
      /\ intake'[k].opts = intake[k].opts
  BY <1>1 DEF IInv, LocalsOK, Locals
<1>4. RowsNow(k)' = RowsNow(k)
  BY <1>1 DEF RowsNow, ItemsOf
<1>5. DOMAIN intake[k].services = DOMAIN intake[k].rows
  BY DEF CreateOrder, Pending, IInv, ReadOK
<1>6. ReadOK(k)'
  BY <1>1, <1>3, <1>4, <1>5 DEF CreateOrder, IInv, ReadOK
<1> QED
  BY <1>1, <1>2, <1>6, OwnStepKeepsIInv

LEMMA FailKeepsIInv ==
  ASSUME IInv, NEW k \in Orders, Fail(k)
  PROVE  IInv'
<1> DEFINE in == [intake[k] EXCEPT !.pc = "failed"]
<1>1. /\ intake' = [intake EXCEPT ![k] = in]
      /\ UNCHANGED <<cartOf, items, options, changed>>
  BY DEF Fail, cartVars
<1>2. in = Locals(in)
  BY LocalUpdated DEF IInv, LocalsOK
<1>3. /\ intake'[k].pc = "failed"
      /\ intake'[k].services = intake[k].services
      /\ intake'[k].rows = intake[k].rows
  BY <1>1 DEF IInv, LocalsOK, Locals
<1>4. ReadOK(k)'
  BY <1>3 DEF IInv, ReadOK
<1> QED
  BY <1>1, <1>2, <1>4, OwnStepKeepsIInv

\* Where a request stands after a step of its own: it is past its first
\* statement only if its cart exists, and its order is created once.
LEMMA Moves ==
  ASSUME IInv, NEW k \in Orders, Read(k) \/ CreateOrder(k)
  PROVE  /\ UNCHANGED <<cartOf, catalogue, now, cartVars, changed>>
         /\ \A j \in Orders \ {k} : intake'[j] = intake[j]
         /\ intake[k].pc # "created"
         /\ intake'[k].pc \in {"readOptions", "fetchPrices", "created"} =>
              \/ intake[k].pc \in {"readOptions", "fetchPrices"}
              \/ cartOf[k] \in carts
         /\ CreateOrder(k) =>
              /\ intake[k].pc = "fetchPrices" /\ intake'[k].pc = "created"
              /\ intake'[k].total = intake[k].total
<1>1. UNCHANGED <<cartOf, catalogue, now, cartVars, changed>>
  BY Zenon DEF Read, ReadItems, ReadOptions, FetchPrices, Fail, CreateOrder
<1>2. intake[k].pc # "created"
  BY Zenon DEF Read, ReadItems, ReadOptions, FetchPrices, Fail, CreateOrder
<1>3. \A j \in Orders \ {k} : intake'[j] = intake[j]
  <2>1. ASSUME NEW in, intake' = [intake EXCEPT ![k] = in]
        PROVE  \A j \in Orders \ {k} : intake'[j] = intake[j]
    BY <2>1 DEF IInv, LocalsOK
  <2>2. \E in : intake' = [intake EXCEPT ![k] = in]
    BY Zenon DEF Read, ReadItems, ReadOptions, FetchPrices, Fail, CreateOrder
  <2> QED
    BY <2>1, <2>2
<1>4. intake[k].pc \in {"readOptions", "fetchPrices"} \/ ReadItems(k)
  BY Zenon DEF Read, ReadOptions, FetchPrices, Fail, CreateOrder
<1>5. ASSUME ReadItems(k), cartOf[k] \notin carts
      PROVE  intake'[k].pc = "failed"
  BY <1>5 DEF ReadItems, IInv, LocalsOK, Locals
<1>6. ASSUME CreateOrder(k)
      PROVE  /\ intake[k].pc = "fetchPrices" /\ intake'[k].pc = "created"
             /\ intake'[k].total = intake[k].total
  BY <1>6 DEF CreateOrder, IInv, LocalsOK, Locals
<1> QED
  BY <1>1, <1>2, <1>3, <1>4, <1>5, <1>6

-----------------------------------------------------------------------------
(***************************************************************************)
(* The invariant, and what follows from it.                                *)
(***************************************************************************)
LEMMA InitImpliesIInv == Init => IInv
<1> SUFFICES ASSUME Init PROVE IInv
  OBVIOUS
<1>1. TableOK
  BY RowsAssumption DEF Init, TableOK
<1>2. LocalsOK
  BY DEF Init, LocalsOK, Locals
<1>3. ASSUME NEW k \in Orders PROVE ReadOK(k)
  BY DEF Init, ReadOK
<1> QED
  BY <1>1, <1>2, <1>3 DEF IInv

LEMMA UnchangedKeepsIInv ==
  ASSUME IInv, UNCHANGED <<cartOf, items, options, intake, changed>>
  PROVE  IInv'
BY DEF IInv, TableOK, LocalsOK, Locals, ReadOK, RowsNow, ItemsOf

LEMMA NextKeepsIInv == IInv /\ [Next]_vars => IInv'
<1> SUFFICES ASSUME IInv, [Next]_vars PROVE IInv'
  OBVIOUS
<1>1. CASE CartStep
  <2>1. ASSUME NEW c \in Carts, OpenCart(c) PROVE IInv'
    BY <2>1, UnchangedKeepsIInv DEF OpenCart
  <2>2. \A c \in Carts : ItemsOf(c) \subseteq Items
    BY DEF ItemsOf
  <2> QED
    BY <1>1, <2>1, <2>2, PutItemKeepsIInv, RemoveItemsKeepsIInv DEF CartStep
<1>2. CASE Tick
  BY <1>2, UnchangedKeepsIInv DEF Tick, cartVars
<1>3. ASSUME NEW k \in Orders, Read(k) \/ CreateOrder(k) PROVE IInv'
  BY <1>3, ReadItemsKeepsIInv, ReadOptionsKeepsIInv, FetchPricesKeepsIInv,
     CreateOrderKeepsIInv, FailKeepsIInv DEF Read
<1>4. CASE UNCHANGED vars
  BY <1>4, UnchangedKeepsIInv DEF vars, cartVars
<1> QED
  BY <1>1, <1>2, <1>3, <1>4 DEF Next

LEMMA Invariance == Spec => []IInv
BY InitImpliesIInv, NextKeepsIInv, PTL DEF Spec

\* However the reads of an order and the changes of its cart interleave, the
\* order lists each item with its own participants unless the cart changed
\* between the two reads, and is exactly the cart unless it changed after them.
THEOREM OrdersAreTheirCarts == Spec => []OrderIsItsCart
<1>1. ASSUME IInv, NEW k \in Orders, intake[k].pc = "created",
             changed[k] = "no"
      PROVE  /\ DOMAIN intake[k].services = ItemsOf(cartOf[k])
             /\ \A i \in DOMAIN intake[k].rows : intake[k].rows[i] = items[i]
  <2>1. /\ intake[k].rows = RowsNow(k)
        /\ DOMAIN intake[k].services = DOMAIN intake[k].rows
    BY <1>1 DEF IInv, ReadOK
  <2> QED
    BY <2>1 DEF RowsNow
<1>2. ASSUME IInv, NEW k \in Orders, intake[k].pc = "created",
             changed[k] # "reading"
      PROVE  \A i \in DOMAIN intake[k].rows :
               intake[k].opts[i] = {intake[k].rows[i].by}
  BY <1>2 DEF IInv, ReadOK
<1>3. IInv => OrderIsItsCart
  BY <1>1, <1>2 DEF OrderIsItsCart
<1> QED
  BY <1>3, Invariance, PTL

-----------------------------------------------------------------------------
(***************************************************************************)
(* What an order charges, and why it is refused.                           *)
(***************************************************************************)

\* Some item of order k is of a service without a document, or has a
\* participant without a base price.
Unpriced(k) ==
  \E i \in DOMAIN intake[k].rows :
    LET doc == Document(intake[k].rows[i])
    IN \/ doc = NoDocument
       \/ \E p \in Range(Participants(k, i)) :
            \A q \in Range(doc.base) : q.category # p.category

\* What was charged for item i: the prices of the day they were fetched on.
ChargedAtItsDay(k, i) ==
  LET in == intake[k]
  IN in.services[i].totals =
       ServiceTotals(PricesAt(in.rows[i], in.services[i].day),
                     Participants(k, i))

\* The option rows an item may have: those of one request, or none any more.
Writers == {{}} \cup {{w} : w \in Items}

\* Item i was charged at prices there were for all of its participants.
Charged(k, i) ==
  LET in == intake[k]
  IN /\ ChargedAtItsDay(k, i)
     /\ in.opts[i] \in Writers
     /\ Document(in.rows[i]) # NoDocument
     /\ ~PriceMissing(PricesAt(in.rows[i], in.services[i].day),
                      Participants(k, i))

PricingOK(k) ==
  LET in == intake[k]
  IN /\ \A i \in DOMAIN in.rows : i \in Items /\ in.rows[i] \in Row
     /\ in.pc = "fetchPrices" =>
          \A i \in DOMAIN in.rows : in.opts[i] \in Writers
     /\ in.pc = "refused" => Unpriced(k)
     /\ \A i \in DOMAIN in.services : Charged(k, i)

PInv == catalogue \in Catalogues /\ \A k \in Orders : PricingOK(k)

\* A price is missing only for a participant without a base price.
LEMMA MissingPrice ==
  ASSUME catalogue \in Catalogues, NEW row \in Row, NEW people,
         Document(row) # NoDocument, PriceMissing(PricesAt(row, now), people)
  PROVE  \E p \in Range(people) :
           \A q \in Range(Document(row).base) : q.category # p.category
<1> DEFINE doc    == Document(row)
           prices == PricesAt(row, now)
<1>1. row.key[1] \in Services
  BY DEF Row
<1>2. IsDocument(doc)
  BY <1>1, CataloguesAssumption DEF Document
<1>3. PICK i \in DOMAIN people :
        \/ findPrice(people[i].category, prices.base) = NoPrice
        \/ findPrice(people[i].category, prices.current) = NoPrice
  BY DEF PriceMissing
<1> DEFINE c == people[i].category
<1>4. /\ prices.base = doc.base /\ IsPriceList(prices.current)
      /\ Named(c, prices.current) = Named(c, doc.base)
  BY <1>2, CurrentPrices DEF PricesAt
<1>5. IsPriceList(doc.base)
  BY <1>2 DEF IsDocument
<1> HIDE DEF prices, doc, c
<1>6. Named(c, doc.base) = {}
  BY <1>3, <1>4, <1>5, NamedIsFound DEF c
<1>7. \A q \in Range(doc.base) : q.category # c
  BY <1>5, <1>6 DEF Named, Range, IsPriceList
<1>8. people[i] \in Range(people)
  BY DEF Range
<1> QED
  BY <1>7, <1>8 DEF doc, c

\* A step that leaves request k's rows, options and services keeps what it
\* charges, and one that leaves its rows and options keeps why it is refused.
LEMMA ChargesStay ==
  ASSUME NEW k \in Orders, NEW i \in DOMAIN intake[k].services,
         UNCHANGED catalogue, Charged(k, i),
         intake'[k].rows = intake[k].rows, intake'[k].opts = intake[k].opts,
         intake'[k].services[i] = intake[k].services[i]
  PROVE  Charged(k, i)'
BY DEF Charged, ChargedAtItsDay, Participants, PricesAt, Document

LEMMA UnpricedStays ==
  ASSUME NEW k \in Orders, UNCHANGED catalogue, Unpriced(k),
         intake'[k].rows = intake[k].rows, intake'[k].opts = intake[k].opts
  PROVE  Unpriced(k)'
<1>1. PICK i \in DOMAIN intake[k].rows :
        LET doc == Document(intake[k].rows[i])
        IN \/ doc = NoDocument
           \/ \E p \in Range(Participants(k, i)) :
                \A q \in Range(doc.base) : q.category # p.category
  BY DEF Unpriced
<1>2. /\ i \in DOMAIN intake'[k].rows
      /\ Document(intake[k].rows[i])' = Document(intake[k].rows[i])
      /\ Participants(k, i)' = Participants(k, i)
  BY DEF Participants, Document
<1> QED
  BY <1>1, <1>2 DEF Unpriced

\* A step of request k leaves what other requests know as it is.
LEMMA OwnStepKeepsPInv ==
  ASSUME IInv, PInv, NEW k \in Orders, NEW in,
         UNCHANGED catalogue, intake' = [intake EXCEPT ![k] = in],
         PricingOK(k)'
  PROVE  PInv'
<1>1. ASSUME NEW j \in Orders \ {k}
      PROVE  PricingOK(j)'
  <2>1. intake'[j] = intake[j] /\ PricingOK(j)
    BY DEF IInv, LocalsOK, PInv
  <2>2. \A i \in DOMAIN intake[j].services : Charged(j, i)'
    BY <2>1, ChargesStay DEF PricingOK
  <2>3. intake'[j].pc = "refused" => Unpriced(j)'
    BY <2>1, UnpricedStays DEF PricingOK
  <2> QED
    BY <2>1, <2>2, <2>3 DEF PricingOK
<1> QED
  BY <1>1 DEF PInv

\* A request that only moves on keeps what it knows.
LEMMA MovingOnKeepsPInv ==
  ASSUME IInv, PInv, NEW k \in Orders, NEW pc \in {"created", "failed"},
         UNCHANGED catalogue, intake' = [intake EXCEPT ![k].pc = pc]
  PROVE  PInv'
<1> DEFINE in == [intake[k] EXCEPT !.pc = pc]
<1>1. intake' = [intake EXCEPT ![k] = in]
  OBVIOUS
<1>2. /\ intake'[k].pc = pc /\ intake'[k].rows = intake[k].rows
      /\ intake'[k].opts = intake[k].opts
      /\ intake'[k].services = intake[k].services
  BY <1>1 DEF IInv, LocalsOK, Locals
<1>3. PricingOK(k)
  BY DEF PInv
<1>4. \A i \in DOMAIN intake[k].services : Charged(k, i)'
  BY <1>2, <1>3, ChargesStay DEF PricingOK
<1>5. PricingOK(k)'
  BY <1>2, <1>3, <1>4 DEF PricingOK
<1> HIDE DEF in
<1> QED
  BY <1>1, <1>5, OwnStepKeepsPInv

LEMMA ReadItemsKeepsPInv ==
  ASSUME IInv, PInv, NEW k \in Orders, ReadItems(k)
  PROVE  PInv'
<1>1. CASE cartOf[k] \notin carts
  <2>1. intake' = [intake EXCEPT ![k].pc = "failed"]
    BY <1>1 DEF ReadItems
  <2>2. UNCHANGED catalogue
    BY DEF ReadItems
  <2> QED
    BY <2>1, <2>2, MovingOnKeepsPInv
<1>2. CASE cartOf[k] \in carts
  <2> DEFINE in == [intake[k] EXCEPT !.pc = "readOptions",
                                     !.rows = RowsNow(k)]
  <2>1. intake' = [intake EXCEPT ![k] = in] /\ UNCHANGED catalogue
    BY <1>2 DEF ReadItems, RowsNow
  <2>2. /\ intake'[k].pc = "readOptions" /\ intake'[k].rows = RowsNow(k)
        /\ intake'[k].services = intake[k].services
    <3>1. intake'[k] = in
      BY <2>1 DEF IInv, LocalsOK
    <3>2. /\ in.pc = "readOptions" /\ in.rows = RowsNow(k)
          /\ in.services = intake[k].services
      BY DEF IInv, LocalsOK, Locals
    <3> HIDE DEF in
    <3> QED
      BY <3>1, <3>2
  <2>3. DOMAIN intake[k].services = {}
    BY DEF ReadItems, IInv, ReadOK
  <2>4. \A i \in DOMAIN RowsNow(k) : i \in Items /\ RowsNow(k)[i] \in Row
    BY DEF RowsNow, ItemsOf, IInv, TableOK
  <2>5. PricingOK(k)'
    BY <2>2, <2>3, <2>4 DEF PricingOK
  <2> HIDE DEF in
  <2> QED
    BY <2>1, <2>5, OwnStepKeepsPInv
<1> QED
  BY <1>1, <1>2

LEMMA ReadOptionsKeepsPInv ==
  ASSUME IInv, PInv, NEW k \in Orders, ReadOptions(k)
  PROVE  PInv'
<1> DEFINE opts == [i \in DOMAIN intake[k].rows |-> options[i]]
           in   == [intake[k] EXCEPT !.pc = "fetchPrices", !.opts = opts]
<1>1. intake' = [intake EXCEPT ![k] = in] /\ UNCHANGED catalogue
  BY DEF ReadOptions
<1>2. /\ intake'[k].pc = "fetchPrices" /\ intake'[k].rows = intake[k].rows
      /\ intake'[k].services = intake[k].services
  <2>1. intake'[k] = in
    BY <1>1 DEF IInv, LocalsOK
  <2>2. /\ in.pc = "fetchPrices" /\ in.rows = intake[k].rows
        /\ in.services = intake[k].services
    BY DEF IInv, LocalsOK, Locals
  <2> HIDE DEF in
  <2> QED
    BY <2>1, <2>2
<1>3. DOMAIN intake[k].services = {}
  BY DEF ReadOptions, IInv, ReadOK
<1>4. /\ intake'[k].opts = opts
      /\ \A i \in DOMAIN intake[k].rows : i \in Items /\ opts[i] \in Writers
  <2>1. intake'[k] = in
    BY <1>1 DEF IInv, LocalsOK
  <2>2. in.opts = opts
    BY DEF IInv, LocalsOK, Locals
  <2>3. \A i \in Items : options[i] \in Writers
    BY DEF IInv, TableOK, Row, Writers
  <2>4. \A i \in DOMAIN intake[k].rows : i \in Items
    BY DEF PInv, PricingOK
  <2> HIDE DEF in
  <2> QED
    BY <2>1, <2>2, <2>3, <2>4
<1> HIDE DEF opts
<1>5. PricingOK(k)'
  BY <1>2, <1>3, <1>4 DEF PInv, PricingOK
<1> HIDE DEF in
<1> QED
  BY <1>1, <1>5, OwnStepKeepsPInv

LEMMA FetchPricesKeepsPInv ==
  ASSUME IInv, PInv, NEW k \in Orders, NEW i \in Items, FetchPrices(k, i)
  PROVE  PInv'
<1> DEFINE row      == intake[k].rows[i]
           rows     == OptionRows(intake[k].opts[i])
           totals   == ServiceTotals(PricesAt(row, now), rows)
           services == [j \in DOMAIN intake[k].services \cup {i} |->
                          IF j = i THEN [totals |-> totals, day |-> now]
                                   ELSE intake[k].services[j]]
           total    == Accumulate(intake[k].total, totals)
           refused  == \/ Document(row) = NoDocument
                       \/ PriceMissing(PricesAt(row, now), rows)
<1>1. intake' = [intake EXCEPT ![k] =
                   IF refused THEN [intake[k] EXCEPT !.pc = "refused"]
                   ELSE [intake[k] EXCEPT !.services = services,
                                          !.total = total]]
  BY DEF FetchPrices
<1>2. /\ intake[k].pc = "fetchPrices" /\ i \in DOMAIN intake[k].rows
      /\ UNCHANGED <<catalogue, now>>
  BY DEF FetchPrices, Pending
<1>3. PricingOK(k) /\ row \in Row /\ catalogue \in Catalogues
  BY <1>2 DEF PInv, PricingOK
<1>4. refused => Unpriced(k)
  <2>1. ASSUME Document(row) # NoDocument,
               PriceMissing(PricesAt(row, now), rows)
        PROVE  \E p \in Range(rows) :
                 \A q \in Range(Document(row).base) : q.category # p.category
    BY <1>3, <2>1, MissingPrice
  <2> QED
    BY <1>2, <2>1 DEF Unpriced, Participants
<1>5. /\ DOMAIN services = DOMAIN intake[k].services \cup {i}
      /\ services[i].totals = totals /\ services[i].day = now
      /\ \A j \in DOMAIN intake[k].services : j # i =>
           services[j] = intake[k].services[j]
  OBVIOUS
<1>6. /\ totals = ServiceTotals(PricesAt(row, now), rows)
      /\ ~refused => /\ Document(row) # NoDocument
                     /\ ~PriceMissing(PricesAt(row, now), rows)
      /\ intake[k].opts[i] \in Writers
  BY <1>2, <1>3 DEF PricingOK
<1> HIDE DEF services, total, totals, refused
<1>7. CASE refused
  <2> DEFINE in == [intake[k] EXCEPT !.pc = "refused"]
  <2>1. intake' = [intake EXCEPT ![k] = in]
    BY <1>1, <1>7
  <2>2. /\ intake'[k].rows = intake[k].rows /\ intake'[k].opts = intake[k].opts
        /\ intake'[k].services = intake[k].services
        /\ intake'[k].pc = "refused"
    BY <2>1 DEF IInv, LocalsOK, Locals
  <2>3. Unpriced(k)'
    BY <1>2, <1>4, <1>7, <2>2, UnpricedStays
  <2>4. \A j \in DOMAIN intake[k].services : Charged(k, j)'
    BY <1>2, <1>3, <2>2, ChargesStay DEF PricingOK
  <2>5. PricingOK(k)'
    BY <1>3, <2>2, <2>3, <2>4 DEF PricingOK
  <2> HIDE DEF in
  <2> QED
    BY <1>2, <2>1, <2>5, OwnStepKeepsPInv
<1>8. CASE ~refused
  <2> DEFINE in == [intake[k] EXCEPT !.services = services, !.total = total]
  <2>1. intake' = [intake EXCEPT ![k] = in]
    BY <1>1, <1>8
  <2>2. /\ intake'[k].rows = intake[k].rows /\ intake'[k].opts = intake[k].opts
        /\ intake'[k].pc = "fetchPrices" /\ intake'[k].services = services
    <3>1. intake'[k] = in
      BY <2>1 DEF IInv, LocalsOK
    <3>2. /\ in.rows = intake[k].rows /\ in.opts = intake[k].opts
          /\ in.pc = intake[k].pc /\ in.services = services
      BY DEF IInv, LocalsOK, Locals
    <3> HIDE DEF in
    <3> QED
      BY <1>2, <3>1, <3>2
  <2>3. Charged(k, i)'
    BY <1>2, <1>5, <1>6, <1>8, <2>2, Zenon
    DEF Charged, ChargedAtItsDay, Participants, PricesAt, Document
  <2>4. \A j \in DOMAIN intake[k].services : j # i => Charged(k, j)'
    BY <1>2, <1>3, <1>5, <2>2, ChargesStay DEF PricingOK
  <2>5. PricingOK(k)'
    BY <1>2, <1>3, <1>5, <2>2, <2>3, <2>4 DEF PricingOK
  <2> HIDE DEF in
  <2> QED
    BY <1>2, <2>1, <2>5, OwnStepKeepsPInv
<1> QED
  BY <1>7, <1>8

LEMMA NextKeepsPInv == IInv /\ PInv /\ [Next]_vars => PInv'
<1> SUFFICES ASSUME IInv, PInv, [Next]_vars PROVE PInv'
  OBVIOUS
<1>1. ASSUME UNCHANGED <<catalogue, intake>>
      PROVE  PInv'
  BY <1>1 DEF PInv, PricingOK, Charged, ChargedAtItsDay, Unpriced, Participants,
              PricesAt, Document
<1>2. CASE CartStep
  BY <1>1, <1>2 DEF CartStep, PutItem, RemoveItems, OpenCart
<1>3. CASE Tick \/ UNCHANGED vars
  BY <1>1, <1>3 DEF Tick, vars
<1>4. ASSUME NEW k \in Orders, CreateOrder(k) \/ Fail(k)
      PROVE  PInv'
  <2>1. /\ UNCHANGED catalogue
        /\ \E pc \in {"created", "failed"} :
             intake' = [intake EXCEPT ![k].pc = pc]
    BY <1>4 DEF CreateOrder, Fail
  <2> QED
    BY <2>1, MovingOnKeepsPInv
<1>5. ASSUME NEW k \in Orders, Read(k) \/ CreateOrder(k)
      PROVE  PInv'
  BY <1>4, <1>5, ReadItemsKeepsPInv, ReadOptionsKeepsPInv, FetchPricesKeepsPInv
  DEF Read
<1> QED
  BY <1>2, <1>3, <1>5 DEF Next

LEMMA PricingInvariance == Spec => []PInv
<1>1. Init => PInv
  BY DEF Init, PInv, PricingOK
<1> QED
  BY <1>1, NextKeepsPInv, Invariance, PTL DEF Spec

\* However promotions, corrections and base prices combine, a request is refused
\* for a missing price only if a participant has no base price, for every
\* catalogue.
THEOREM RefusalsHaveAReason == Spec => []RefusedOnlyWithoutPrice
<1>1. PInv => RefusedOnlyWithoutPrice
  BY DEF PInv, PricingOK, Unpriced, RefusedOnlyWithoutPrice
<1> QED
  BY <1>1, PricingInvariance, PTL

\* What is charged for an item is what its own participants cost at the prices
\* of the day they were fetched on, to the end of the request, whatever answers
\* come in and cart changes are made later.
THEOREM ChargesAreOfTheirDay ==
  Spec => [](\A k \in Orders : \A i \in DOMAIN intake[k].services :
               ChargedAtItsDay(k, i))
<1>1. PInv => \A k \in Orders : \A i \in DOMAIN intake[k].services :
                ChargedAtItsDay(k, i)
  BY DEF PInv, PricingOK, Charged
<1> QED
  BY <1>1, PricingInvariance, PTL

-----------------------------------------------------------------------------
(***************************************************************************)
(* What an item costs.                                                     *)
(***************************************************************************)

\* Participants are rows of one request, or none.
LEMMA OptionRowsAreParticipants ==
  ASSUME NEW W \in Writers
  PROVE  \E n \in Nat :
           /\ OptionRows(W) \in Seq(Range(OptionRows(W)))
           /\ DOMAIN OptionRows(W) = 1..n
           /\ \A j \in 1..n : OptionRows(W)[j].quantity \in Nat
<1> DEFINE IsIter(g) ==
             g = [s \in SUBSET W |->
                    IF s = {} THEN <<>>
                    ELSE LET x == CHOOSE x \in s : TRUE
                         IN  Options[x] \o g[s \ {x}]]
           iter == CHOOSE g : IsIter(g)
<1>1. OptionRows(W) = iter[W]
  BY DEF OptionRows, FoldSet, MapThenFoldSet
<1>2. CASE W = {}
  <2> DEFINE h == [s \in SUBSET W |-> <<>>]
  <2>1. IsIter(h)
    BY <1>2
  <2>2. IsIter(iter)
    <3> HIDE DEF IsIter, h
    <3> QED
      BY <2>1
  <2>3. iter[W] = <<>>
    <3> HIDE DEF iter
    <3> QED
      BY <1>2, <2>2
  <2> HIDE DEF iter
  <2>4. OptionRows(W) = <<>> /\ 0 \in Nat /\ 1..0 = {}
    BY <1>1, <2>3
  <2> QED
    BY <2>4
<1>3. ASSUME NEW w \in Items, W = {w}
      PROVE  OptionRows(W) = Options[w] \o <<>>
  <2> DEFINE h == [s \in SUBSET W |-> IF s = {} THEN <<>>
                                      ELSE Options[w] \o <<>>]
  <2>1. ASSUME NEW s \in SUBSET W, s # {}
        PROVE  (CHOOSE x \in s : TRUE) = w /\ s \ {w} = {}
    BY <1>3, <2>1
  <2>2. h[{}] = <<>>
    OBVIOUS
  <2>3. IsIter(h)
    BY <2>1, <2>2
  <2>4. IsIter(iter)
    <3> HIDE DEF IsIter, h
    <3> QED
      BY <2>3
  <2>5. iter[{}] = <<>>
    <3> HIDE DEF iter
    <3> QED
      BY <2>4
  <2>6. iter[W] = Options[w] \o iter[{}]
    <3>1. W # {} /\ W \in SUBSET W
      BY <1>3
    <3>2. (CHOOSE x \in W : TRUE) = w /\ W \ {w} = {}
      BY <2>1, <3>1
    <3> HIDE DEF iter
    <3> QED
      BY <2>4, <3>1, <3>2
  <2> HIDE DEF iter
  <2> QED
    BY <1>1, <2>5, <2>6
<1>4. ASSUME NEW w \in Items, W = {w}
      PROVE  \E n \in Nat :
               /\ OptionRows(W) \in Seq(Range(OptionRows(W)))
               /\ DOMAIN OptionRows(W) = 1..n
               /\ \A j \in 1..n : OptionRows(W)[j].quantity \in Nat
  <2> DEFINE rows == Options[w]
             T    == Range(rows)
             all  == rows \o <<>>
  <2>1. /\ rows \in Seq(T) /\ \A p \in T : p.quantity \in Nat
    BY OptionsAssumption
  <2>2. OptionRows(W) = all
    BY <1>3, <1>4
  <2> HIDE DEF rows, T
  <2>3. all \in Seq(T) /\ Len(all) \in Nat /\ DOMAIN all = 1..Len(all)
    BY <2>1
  <2>4. \A j \in 1..Len(all) : all[j] \in T
    BY <2>3
  <2> HIDE DEF all
  <2>5. all = [j \in 1..Len(all) |-> all[j]]
    BY <2>3
  <2>6. \A j \in 1..Len(all) : all[j] \in Range(all)
    BY <2>3 DEF Range
  <2>7. all \in Seq(Range(all))
    BY <2>3, <2>5, <2>6
  <2> QED
    BY <2>1, <2>2, <2>3, <2>4, <2>7
<1> QED
  BY <1>2, <1>4 DEF Writers

\* A service that is charged has a document, its participants have base prices,
\* and its totals are the sums of what they cost.
LEMMA ChargedAddsUp ==
  ASSUME IInv, PInv, NEW k \in Orders, NEW i \in DOMAIN intake[k].services
  PROVE  LET in     == intake[k]
             doc    == Document(in.rows[i])
             people == Participants(k, i)
             prices == PricesAt(in.rows[i], in.services[i].day)
         IN /\ IsDocument(doc) /\ prices.base = doc.base
            /\ \E n \in Nat :
                 /\ DOMAIN people = 1..n
                 /\ \A j \in 1..n : Named(people[j].category, doc.base) # {}
                 /\ Costs(people, prices.current) \in [1..n -> Nat]
            /\ in.services[i].totals = ServiceTotals(prices, people)
            /\ in.services[i].totals.current
                 = SumOf(Costs(people, prices.current))
            /\ in.services[i].totals \in Totals(Nat)
<1> DEFINE in     == intake[k]
           doc    == Document(in.rows[i])
           day    == in.services[i].day
           people == Participants(k, i)
           prices == PricesAt(in.rows[i], day)
<1>1. Charged(k, i)
  BY DEF PInv, PricingOK
<1>2. in.rows[i] \in Row /\ catalogue \in Catalogues
  BY DEF PInv, PricingOK, IInv, ReadOK
<1>3. IsDocument(doc)
  BY <1>1, <1>2, CataloguesAssumption DEF Charged, Document, Row
<1>4. PICK n \in Nat : /\ DOMAIN people = 1..n
                       /\ \A j \in 1..n : people[j].quantity \in Nat
  BY <1>1, OptionRowsAreParticipants DEF Charged, Participants
<1>5. prices = getExcursionPrices(doc, DateOf[in.rows[i].key[2]], day)
  BY DEF PricesAt
<1>6. ~PriceMissing(prices, people)
  BY <1>1 DEF Charged
<1>7. in.services[i].totals = ServiceTotals(prices, people)
  BY <1>1 DEF Charged, ChargedAtItsDay
<1> HIDE DEF prices, people, doc
<1>8. prices.base = doc.base
  BY <1>3, <1>5, CurrentPrices
<1>9. AddUp(doc, prices, people, n)
  <2> DEFINE date == DateOf[in.rows[i].key[2]]
  <2> HIDE DEF in, day, date
  <2>1. prices = getExcursionPrices(doc, date, day)
    BY <1>5 DEF date
  <2>2. AreParticipants(people, n)
    BY <1>4 DEF AreParticipants
  <2> QED
    BY <1>3, <1>6, <2>1, <2>2, ServiceTotalsAddUp
<1> QED
  <2>1. in.services[i].totals.current = SumOf(Costs(people, prices.current))
    BY <1>7, <1>9 DEF AddUp
  <2> QED
    BY <1>3, <1>4, <1>7, <1>8, <1>9, <2>1, Zenon DEF AddUp, prices, people, doc

\* What the loops find for a category is what it is offered at.
LEMMA CurrentIsQuoted ==
  ASSUME NEW doc, IsDocument(doc), NEW c, Named(c, doc.base) # {},
         NEW date, NEW day
  PROVE  findPrice(c, getExcursionPrices(doc, date, day).current)
           = Quoted(doc, c, date, day)
<1> DEFINE P == doc.promotions
           K == doc.corrections
           offers == P \o K
           names(list) == \E p \in Range(list) : p.category = c
           applies(o) == /\ o.from <= day /\ day <= o.to
                         /\ o.from <= date /\ date <= o.to
                         /\ WeekdayOf[date] \in o.weekdays
                         /\ names(o.prices)
           A  == {i \in 1..Len(offers) : applies(offers[i])}
           JP == OffersIn(c, P, date, day)
           JK == OffersIn(c, K, date, day)
           i  == IF A # {} THEN Min(A) ELSE 0
           chosen == IF i = 0 THEN doc.base ELSE offers[i].prices
<1>1. Quoted(doc, c, date, day)
        = chosen[SelectInSeq(chosen, LAMBDA p : p.category = c)].price
  BY DEF Quoted, SelectInSeq
<1>2. ASSUME NEW list, IsPriceList(list)
      PROVE  /\ names(list) <=> Named(c, list) # {}
             /\ names(list) <=> findPrice(c, list) # NoPrice
             /\ names(list) =>
                  list[SelectInSeq(list, LAMBDA p : p.category = c)].price
                    = findPrice(c, list)
  <2>1. DOMAIN list = 1..Len(list) /\ Len(list) \in Nat
    BY <1>2 DEF IsPriceList
  <2>2. names(list) <=> Named(c, list) # {}
    BY <2>1 DEF Named, Range
  <2>3. names(list) <=> findPrice(c, list) # NoPrice
    BY <1>2, <2>2, NamedIsFound
  <2>4. ASSUME SelectInSeq(list, LAMBDA p : p.category = c) = 0
        PROVE  findPrice(c, list) = NoPrice
    BY <2>4 DEF findPrice
  <2>5. ASSUME SelectInSeq(list, LAMBDA p : p.category = c) # 0
        PROVE  list[SelectInSeq(list, LAMBDA p : p.category = c)].price
                 = findPrice(c, list)
    BY <2>5 DEF findPrice
  <2> QED
    BY <2>2, <2>3, <2>4, <2>5
<1>3. /\ Len(P) \in Nat /\ Len(K) \in Nat
      /\ P \in Seq(Range(P)) /\ K \in Seq(Range(K))
      /\ Len(offers) = Len(P) + Len(K)
      /\ \A j \in 1..Len(P) : offers[j] = P[j] /\ IsPriceList(P[j].prices)
      /\ \A j \in 1..Len(K) : /\ offers[Len(P) + j] = K[j]
                              /\ IsPriceList(K[j].prices)
  <2>1. P \in Seq(Range(P)) /\ K \in Seq(Range(K))
    BY DEF IsDocument
  <2>2. /\ \A o \in Range(P) : IsPriceList(o.prices)
        /\ \A o \in Range(K) : IsPriceList(o.prices)
    BY DEF IsDocument
  <2> DEFINE S == Range(P)
             T == Range(K)
  <2>3. \A j \in DOMAIN P : P[j] \in S
    BY DEF Range
  <2>4. \A j \in DOMAIN K : K[j] \in T
    BY DEF Range
  <2> HIDE DEF P, K, S, T
  <2>5. /\ Len(P) \in Nat /\ DOMAIN P = 1..Len(P)
        /\ Len(K) \in Nat /\ DOMAIN K = 1..Len(K)
    BY <2>1 DEF S, T
  <2>6. /\ Len(offers) = Len(P) + Len(K)
        /\ \A j \in 1..Len(P) : offers[j] = P[j]
    BY <2>1, <2>5 DEF S, T
  <2>7. ASSUME NEW j \in 1..Len(K)
        PROVE  offers[Len(P) + j] = K[j]
    BY <2>1, <2>5 DEF S, T
  <2> QED
    BY <2>1, <2>2, <2>3, <2>4, <2>5, <2>6, <2>7 DEF S, T
<1> HIDE DEF names, P, K, offers
<1>4. \A j \in 1..Len(P) : j \in A <=> j \in JP
  <2> SUFFICES ASSUME NEW j \in 1..Len(P) PROVE j \in A <=> j \in JP
    OBVIOUS
  <2>1. j \in 1..Len(offers) /\ offers[j] = P[j]
    BY <1>3
  <2>2. names(P[j].prices) <=> findPrice(c, P[j].prices) # NoPrice
    BY <1>2, <1>3
  <2> QED
    BY <2>1, <2>2 DEF OffersIn, InForce
<1>5. \A j \in 1..Len(K) : Len(P) + j \in A <=> j \in JK
  <2> SUFFICES ASSUME NEW j \in 1..Len(K)
               PROVE  Len(P) + j \in A <=> j \in JK
    OBVIOUS
  <2>1. Len(P) + j \in 1..Len(offers) /\ offers[Len(P) + j] = K[j]
    BY <1>3
  <2>2. names(K[j].prices) <=> findPrice(c, K[j].prices) # NoPrice
    BY <1>2, <1>3
  <2> QED
    BY <2>1, <2>2 DEF OffersIn, InForce
<1>6. JP \in SUBSET (1..Len(P)) /\ JK \in SUBSET (1..Len(K))
      /\ A \in SUBSET (1..(Len(P) + Len(K)))
  BY <1>3 DEF OffersIn
<1>7. SpecialPrice(doc, c, date, day) =
        OrElse(IF JP = {} THEN NoPrice ELSE findPrice(c, P[Min(JP)].prices),
               IF JK = {} THEN NoPrice ELSE findPrice(c, K[Min(JK)].prices))
  <2>0. P \in Seq(Range(P)) /\ K \in Seq(Range(K))
    BY <1>3
  <2>1. FirstOffered(c, P, date, day)
          = IF JP = {} THEN NoPrice ELSE findPrice(c, P[Min(JP)].prices)
    BY <2>0, FirstIsOffered
  <2>2. FirstOffered(c, K, date, day)
          = IF JK = {} THEN NoPrice ELSE findPrice(c, K[Min(JK)].prices)
    BY <2>0, FirstIsOffered
  <2> HIDE DEF JP, JK
  <2> QED
    BY <2>1, <2>2 DEF SpecialPrice, P, K
<1>8. findPrice(c, getExcursionPrices(doc, date, day).current)
        = OrElse(SpecialPrice(doc, c, date, day), findPrice(c, doc.base))
  BY CurrentPrices
<1>9. ASSUME JP # {}
      PROVE  chosen = P[Min(JP)].prices /\ names(chosen)
  <2> DEFINE m == Min(JP)
  <2> HIDE DEF A, JP
  <2>1. JP \in SUBSET Nat /\ A \in SUBSET Nat /\ A # {}
    <3>1. Len(P) \in Nat /\ Len(K) \in Nat
      BY <1>3
    <3>2. JP \in SUBSET Nat /\ A \in SUBSET Nat
      BY <1>6, <3>1
    <3>3. PICK j \in JP : TRUE
      BY <1>9
    <3>4. j \in A
      BY <1>4, <1>6, <3>3
    <3> QED
      BY <3>2, <3>4
  <2>2. m \in JP /\ \A j \in JP : m <= j
    BY <1>9, <2>1, MinIsMember
  <2>3. Min(A) \in A /\ \A j \in A : Min(A) <= j
    BY <2>1, MinIsMember
  <2> HIDE DEF m
  <2>4. m \in 1..Len(P) /\ m \in A
    BY <1>4, <1>6, <2>2
  <2>5. Min(A) \in JP
    BY <1>3, <1>4, <1>6, <2>3, <2>4
  <2>6. Min(A) = m
    <3>1. m <= Min(A) /\ Min(A) <= m
      BY <2>2, <2>3, <2>4, <2>5
    <3>2. m \in Nat /\ Min(A) \in Nat
      BY <2>1, <2>2, <2>3
    <3> QED
      BY <3>1, <3>2
  <2>7. i = m /\ i # 0 /\ chosen = P[m].prices
    BY <1>3, <2>1, <2>4, <2>6
  <2>8. names(offers[m].prices)
    BY <2>4 DEF A
  <2> QED
    BY <1>3, <2>4, <2>7, <2>8 DEF m
<1>10. ASSUME JP = {}, JK # {}
       PROVE  chosen = K[Min(JK)].prices /\ names(chosen)
  <2> DEFINE m == Min(JK)
             n == Len(P) + m
  <2> HIDE DEF A, JP, JK
  <2>1. JK \in SUBSET Nat
    BY <1>6
  <2>2. m \in JK /\ \A j \in JK : m <= j
    BY <1>10, <2>1, MinIsMember
  <2> HIDE DEF m
  <2>3. m \in 1..Len(K) /\ n \in A
    BY <1>5, <1>6, <2>2
  <2>4. A \in SUBSET Nat /\ A # {}
    BY <1>6, <2>3
  <2>5. Min(A) \in A /\ \A j \in A : Min(A) <= j
    BY <2>4, MinIsMember
  <2>6. \A j \in A : j - Len(P) \in 1..Len(K) /\ j = Len(P) + (j - Len(P))
    BY <1>3, <1>4, <1>6, <1>10
  <2>7. Min(A) - Len(P) \in JK
    BY <1>5, <2>5, <2>6
  <2>8. Min(A) = n
    <3>1. m <= Min(A) - Len(P) /\ Min(A) <= n
      BY <2>2, <2>3, <2>5, <2>7
    <3>2. m \in Nat /\ Min(A) \in Nat
      BY <2>1, <2>2, <2>4, <2>5
    <3>3. Len(P) \in Nat
      BY <1>3
    <3> QED
      BY <3>1, <3>2, <3>3
  <2>9. i = n /\ i # 0 /\ chosen = K[m].prices
    BY <1>3, <2>3, <2>4, <2>8
  <2>10. names(offers[n].prices)
    BY <2>3 DEF A
  <2> QED
    BY <1>3, <2>3, <2>9, <2>10 DEF m
<1>11. ASSUME JP = {}, JK = {}
       PROVE  chosen = doc.base /\ names(chosen)
  <2>1. A = {}
    <3> SUFFICES ASSUME NEW j \in A PROVE FALSE
      OBVIOUS
    <3> HIDE DEF A, JP, JK
    <3>1. j \in 1..(Len(P) + Len(K)) /\ j \notin 1..Len(P)
      BY <1>4, <1>6, <1>11
    <3>2. j - Len(P) \in 1..Len(K) /\ j = Len(P) + (j - Len(P))
      BY <1>3, <3>1
    <3> QED
      BY <1>5, <1>11, <3>2
  <2>2. IsPriceList(doc.base)
    BY DEF IsDocument
  <2> HIDE DEF A
  <2> QED
    BY <1>2, <2>1, <2>2
<1>12. IsPriceList(chosen) /\ names(chosen)
  <2>1. IsPriceList(doc.base)
    BY DEF IsDocument
  <2>2. ASSUME JP # {} PROVE IsPriceList(chosen)
    <3>1. JP \in SUBSET Nat
      BY <1>6
    <3> HIDE DEF JP, chosen
    <3>2. Min(JP) \in JP
      BY <2>2, <3>1, MinIsMember
    <3>3. IsPriceList(P[Min(JP)].prices)
      BY <1>3, <1>6, <3>2
    <3> QED
      BY <1>9, <2>2, <3>3
  <2>3. ASSUME JP = {}, JK # {} PROVE IsPriceList(chosen)
    <3>1. JK \in SUBSET Nat
      BY <1>6
    <3> HIDE DEF JK, JP, chosen
    <3>2. Min(JK) \in JK
      BY <2>3, <3>1, MinIsMember
    <3>3. IsPriceList(K[Min(JK)].prices)
      BY <1>3, <1>6, <3>2
    <3> QED
      BY <1>10, <2>3, <3>3
  <2> HIDE DEF JP, JK, chosen
  <2> QED
    BY <1>9, <1>10, <1>11, <2>1, <2>2, <2>3
<1> HIDE DEF chosen, JP, JK
<1>13. Quoted(doc, c, date, day) = findPrice(c, chosen)
  BY <1>1, <1>2, <1>12
<1>14. findPrice(c, chosen) # NoPrice
  BY <1>2, <1>12
<1> QED
  BY <1>7, <1>8, <1>9, <1>10, <1>11, <1>13, <1>14 DEF OrElse

\* However promotions, corrections and base prices combine and whenever the
\* answers come in, each participant is charged what his category is offered at
\* on the day the price is fetched, for every catalogue.
THEOREM PricesAreInForce == Spec => []PriceIsInForce
<1>1. ASSUME IInv, PInv, NEW k \in Orders, NEW i \in DOMAIN intake[k].services
      PROVE  LET row       == intake[k].rows[i]
                 people    == Participants(k, i)
                 price(p)  == Quoted(Document(row), p.category,
                                     DateOf[row.key[2]],
                                     intake[k].services[i].day)
                 charge(j) == price(people[j]) * people[j].quantity
             IN intake[k].services[i].totals.current =
                  MapThenSumSet(charge, DOMAIN people)
  <2> DEFINE row    == intake[k].rows[i]
             day    == intake[k].services[i].day
             date   == DateOf[row.key[2]]
             doc    == Document(row)
             people == Participants(k, i)
             prices == PricesAt(row, day)
             costs  == Costs(people, prices.current)
             D      == DOMAIN people
             charge(j) == Quoted(doc, people[j].category, date, day)
                            * people[j].quantity
             Adds(h) ==
               h = [s \in SUBSET D |->
                      IF s = {} THEN 0
                      ELSE LET x == CHOOSE x \in s : TRUE
                           IN  costs[x] + h[s \ {x}]]
             Charges(h) ==
               h = [s \in SUBSET D |->
                      IF s = {} THEN 0
                      ELSE LET x == CHOOSE x \in s : TRUE
                           IN  charge(x) + h[s \ {x}]]
  <2>1. PICK n \in Nat : /\ D = 1..n
                         /\ \A j \in 1..n :
                              Named(people[j].category, doc.base) # {}
    BY <1>1, ChargedAddsUp
  <2>2. IsDocument(doc)
    BY <1>1, ChargedAddsUp
  <2>3. intake[k].services[i].totals.current = SumOf(costs)
    BY <1>1, ChargedAddsUp
  <2>4. prices = getExcursionPrices(doc, date, day)
    BY DEF PricesAt
  <2>5. DOMAIN costs = D
    BY DEF Costs
  <2>6. \A j \in D : costs[j] = findPrice(people[j].category, prices.current)
                                  * people[j].quantity
    BY DEF Costs
  <2> HIDE DEF doc, people, prices, costs, date, day, row
  <2>7. \A j \in D : costs[j] = charge(j)
    <3> SUFFICES ASSUME NEW j \in D PROVE costs[j] = charge(j)
      OBVIOUS
    <3>1. findPrice(people[j].category, prices.current)
            = Quoted(doc, people[j].category, date, day)
      BY <2>1, <2>2, <2>4, CurrentIsQuoted
    <3> QED
      BY <2>6, <3>1
  <2> HIDE DEF charge, D
  <2>8. \A h : Adds(h) <=> Charges(h)
    BY <2>7
  <2>9. (CHOOSE h : Adds(h))[D] = (CHOOSE h : Charges(h))[D]
    <3> HIDE DEF Adds, Charges
    <3> QED
      BY <2>8
  <2>10. SumOf(costs) = (CHOOSE h : Adds(h))[D]
    BY <2>5 DEF SumOf, MapThenSumSet, MapThenFoldSet
  <2>11. MapThenSumSet(charge, D) = (CHOOSE h : Charges(h))[D]
    BY DEF MapThenSumSet, MapThenFoldSet
  <2>12. intake[k].services[i].totals.current = MapThenSumSet(charge, D)
    BY <2>3, <2>9, <2>10, <2>11
  <2> QED
    BY <2>12 DEF charge, D, people, doc, date, day, row
<1>2. IInv /\ PInv => PriceIsInForce
  BY <1>1 DEF PriceIsInForce
<1> QED
  BY <1>2, Invariance, PricingInvariance, PTL

\* The cart's totals of an item at the prices of the day and the order's are the
\* same, and so are those of its option rows, whoever participates.
THEOREM CartsAgreeWithOrders == Spec => []CartAgreesWithOrder
<1>1. ASSUME IInv, PInv, NEW k \in Orders, NEW i \in DOMAIN intake[k].services,
             NEW prices,
             prices = PricesAt(intake[k].rows[i], intake[k].services[i].day),
             NEW rows, rows = Participants(k, i),
             NEW priced,
             priced = [j \in DOMAIN rows |->
                     [base     |-> findPrice(rows[j].category, prices.base),
                      current  |-> findPrice(rows[j].category, prices.current),
                      quantity |-> rows[j].quantity]]
      PROVE  /\ calculateCartItemTotals(priced) = intake[k].services[i].totals
             /\ FoldLeft(AddTotals, Zero, prepareCartItemOptions(priced))
                  = intake[k].services[i].totals
  <2> DEFINE data == servicePriceData(prices, rows)
             D    == DOMAIN rows
             calc(x) == calculateOptionTotals(priced[x])
             Adds(h) ==
               h = [s \in SUBSET D |->
                      IF s = {} THEN Zero
                      ELSE AddTotals(h[s \ {Max(s)}], data[Max(s)])]
             Calculates(h) ==
               h = [s \in SUBSET D |->
                      IF s = {} THEN Zero
                      ELSE AddTotals(h[s \ {Max(s)}], calc(Max(s)))]
  <2>1. PICK n \in Nat : D = 1..n
    BY <1>1, ChargedAddsUp
  <2>2. intake[k].services[i].totals = ServiceTotals(prices, rows)
    BY <1>1, ChargedAddsUp
  <2>3. \A s \in SUBSET D : s # {} => Max(s) \in D
    <3> HIDE DEF D
    <3> QED
      BY <2>1, MaxIsMember
  <2>4. /\ DOMAIN data = D /\ DOMAIN priced = D
        /\ \A x \in D : calc(x) = data[x]
    BY <1>1 DEF servicePriceData, calculateOptionTotals
  <2>5. prepareCartItemOptions(priced) = data
    BY <1>1 DEF servicePriceData, prepareCartItemOptions, calculateOptionTotals
  <2>6. \A h : Adds(h) <=> Calculates(h)
    <3> HIDE DEF data, calc, D
    <3> QED
      BY <2>3, <2>4
  <2>7. (CHOOSE h : Adds(h))[D] = (CHOOSE h : Calculates(h))[D]
    <3> HIDE DEF Adds, Calculates
    <3> QED
      BY <2>6
  <2>8. ServiceTotals(prices, rows) = (CHOOSE h : Adds(h))[D]
    BY <2>4 DEF ServiceTotals, FoldLeft, MapThenFoldSet
  <2>9. calculateCartItemTotals(priced) = (CHOOSE h : Calculates(h))[D]
    <3> HIDE DEF data, D
    <3> QED
      BY <2>4 DEF calculateCartItemTotals, FoldLeft, MapThenFoldSet
  <2>10. ServiceTotals(prices, rows) = FoldLeft(AddTotals, Zero, data)
    BY DEF ServiceTotals
  <2> HIDE DEF Adds, Calculates, data, D
  <2> QED
    BY <2>2, <2>5, <2>7, <2>8, <2>9, <2>10
<1>2. IInv /\ PInv => CartAgreesWithOrder
  BY <1>1 DEF CartAgreesWithOrder
<1> QED
  BY <1>2, Invariance, PricingInvariance, PTL

-----------------------------------------------------------------------------
(***************************************************************************)
(* The total of an order.                                                  *)
(***************************************************************************)
Bases(services)    == [i \in DOMAIN services |-> services[i].totals.base]
Currents(services) == [i \in DOMAIN services |-> services[i].totals.current]

\* The services come in one by one, each with its totals.
TotalsOK(k) ==
  LET in == intake[k]
  IN /\ IsFiniteSet(DOMAIN in.services)
     /\ in.total = [base    |-> SumOf(Bases(in.services)),
                    current |-> SumOf(Currents(in.services))]

TInv == \A k \in Orders : TotalsOK(k)

TotalsAreNatural ==
  \A k \in Orders : \A i \in DOMAIN intake[k].services :
    intake[k].services[i].totals \in Totals(Nat)

LEMMA TotalsAreNumbers == IInv /\ PInv => TotalsAreNatural
BY ChargedAddsUp DEF TotalsAreNatural

\* An answer adds one service and its totals, and no other step touches them.
LEMMA ServicesComeOneByOne ==
  ASSUME IInv, NEW k \in Orders, Read(k) \/ CreateOrder(k)
  PROVE  \/ /\ intake'[k].services = intake[k].services
            /\ intake'[k].total = intake[k].total
         \/ \E i \in Items :
              /\ i \notin DOMAIN intake[k].services
              /\ DOMAIN intake'[k].services = DOMAIN intake[k].services \cup {i}
              /\ \A j \in DOMAIN intake[k].services :
                   intake'[k].services[j] = intake[k].services[j]
              /\ intake'[k].total = AddTotals(intake[k].total,
                                              intake'[k].services[i].totals)
<1>1. ASSUME NEW in, intake' = [intake EXCEPT ![k] = in]
      PROVE  intake'[k] = in
  BY <1>1 DEF IInv, LocalsOK
<1>2. CASE ReadItems(k)
  <2> DEFINE in == IF cartOf[k] \in carts
                   THEN [intake[k] EXCEPT !.pc = "readOptions",
                                          !.rows = RowsNow(k)]
                   ELSE [intake[k] EXCEPT !.pc = "failed"]
  <2>1. intake'[k] = in
    BY <1>1, <1>2, Zenon DEF ReadItems, RowsNow
  <2>2. in.services = intake[k].services /\ in.total = intake[k].total
    BY DEF IInv, LocalsOK, Locals
  <2> HIDE DEF in
  <2> QED
    BY <2>1, <2>2
<1>3. CASE ReadOptions(k)
  <2> DEFINE opts == [i \in DOMAIN intake[k].rows |-> options[i]]
             in   == [intake[k] EXCEPT !.pc = "fetchPrices", !.opts = opts]
  <2>1. intake'[k] = in
    BY <1>1, <1>3 DEF ReadOptions
  <2>2. in.services = intake[k].services /\ in.total = intake[k].total
    BY DEF IInv, LocalsOK, Locals
  <2> HIDE DEF in
  <2> QED
    BY <2>1, <2>2
<1>4. ASSUME NEW i \in Items, FetchPrices(k, i)
      PROVE  \/ /\ intake'[k].services = intake[k].services
                /\ intake'[k].total = intake[k].total
             \/ /\ i \notin DOMAIN intake[k].services
                /\ DOMAIN intake'[k].services
                     = DOMAIN intake[k].services \cup {i}
                /\ \A j \in DOMAIN intake[k].services :
                     intake'[k].services[j] = intake[k].services[j]
                /\ intake'[k].total = AddTotals(intake[k].total,
                                                intake'[k].services[i].totals)
  <2> DEFINE row      == intake[k].rows[i]
             rows     == OptionRows(intake[k].opts[i])
             totals   == ServiceTotals(PricesAt(row, now), rows)
             services == [j \in DOMAIN intake[k].services \cup {i} |->
                            IF j = i THEN [totals |-> totals, day |-> now]
                                     ELSE intake[k].services[j]]
             total    == Accumulate(intake[k].total, totals)
             refused  == \/ Document(row) = NoDocument
                         \/ PriceMissing(PricesAt(row, now), rows)
             in       == IF refused THEN [intake[k] EXCEPT !.pc = "refused"]
                         ELSE [intake[k] EXCEPT !.services = services,
                                                !.total = total]
  <2>1. intake'[k] = in
    BY <1>1, <1>4, Zenon DEF FetchPrices
  <2>2. i \notin DOMAIN intake[k].services
    BY <1>4 DEF FetchPrices, Pending
  <2>3. /\ DOMAIN services = DOMAIN intake[k].services \cup {i}
        /\ services[i].totals = totals
        /\ \A j \in DOMAIN intake[k].services :
             j # i => services[j] = intake[k].services[j]
    OBVIOUS
  <2>4. total = AddTotals(intake[k].total, totals)
    BY DEF Accumulate
  <2> HIDE DEF services, total, totals, refused
  <2>5. IF refused THEN /\ in.services = intake[k].services
                        /\ in.total = intake[k].total
                   ELSE in.services = services /\ in.total = total
    BY DEF IInv, LocalsOK, Locals
  <2> HIDE DEF in
  <2> QED
    BY <2>1, <2>2, <2>3, <2>4, <2>5
<1>5. CASE Fail(k) \/ CreateOrder(k)
  <2>1. PICK pc : intake' = [intake EXCEPT ![k].pc = pc]
    BY <1>5 DEF Fail, CreateOrder
  <2>2. intake'[k] = [intake[k] EXCEPT !.pc = pc]
    BY <2>1 DEF IInv, LocalsOK
  <2>3. /\ [intake[k] EXCEPT !.pc = pc].services = intake[k].services
        /\ [intake[k] EXCEPT !.pc = pc].total = intake[k].total
    BY DEF IInv, LocalsOK, Locals
  <2> QED
    BY <2>2, <2>3
<1> QED
  BY <1>2, <1>3, <1>4, <1>5 DEF Read

LEMMA NextKeepsTInv ==
  IInv /\ TotalsAreNatural /\ TotalsAreNatural' /\ TInv /\ [Next]_vars => TInv'
<1> SUFFICES ASSUME IInv, TotalsAreNatural, TotalsAreNatural', TInv, [Next]_vars
             PROVE  TInv'
  OBVIOUS
<1>1. ASSUME UNCHANGED intake
      PROVE  TInv'
  BY <1>1 DEF TInv, TotalsOK
<1>2. CASE CartStep
  BY <1>1, <1>2 DEF CartStep, PutItem, RemoveItems, OpenCart
<1>3. CASE Tick \/ UNCHANGED vars
  BY <1>1, <1>3 DEF Tick, vars
<1>4. ASSUME NEW k \in Orders, Read(k) \/ CreateOrder(k)
      PROVE  TInv'
  <2>1. ASSUME NEW j \in Orders \ {k} PROVE TotalsOK(j)'
    <3>1. intake'[j] = intake[j]
      BY <1>4, Moves
    <3> QED
      BY <3>1 DEF TInv, TotalsOK
  <2>2. CASE /\ intake'[k].services = intake[k].services
             /\ intake'[k].total = intake[k].total
    <3>1. TotalsOK(k)'
      BY <2>2 DEF TInv, TotalsOK
    <3> QED
      BY <2>1, <3>1 DEF TInv
  <2>3. ASSUME NEW i \in Items, i \notin DOMAIN intake[k].services,
               DOMAIN intake'[k].services = DOMAIN intake[k].services \cup {i},
               \A j \in DOMAIN intake[k].services :
                 intake'[k].services[j] = intake[k].services[j],
               intake'[k].total = AddTotals(intake[k].total,
                                            intake'[k].services[i].totals)
        PROVE  TInv'
    <3> DEFINE old == intake[k].services
               new == intake'[k].services
               S   == DOMAIN old
    <3>1. IsFiniteSet(S) /\ IsFiniteSet(S \cup {i})
      BY FS_AddElement DEF TInv, TotalsOK
    <3>2. /\ \A j \in S : old[j].totals \in Totals(Nat)
          /\ \A j \in S \cup {i} : new[j].totals \in Totals(Nat)
      BY <2>3 DEF TotalsAreNatural
    <3>3. /\ DOMAIN new = S \cup {i} /\ i \notin S
          /\ \A j \in S : new[j] = old[j]
      BY <2>3
    <3> HIDE DEF old, new, S
    <3>4. SumOf(Bases(new)) = SumOf(Bases(old)) + new[i].totals.base
      <4> DEFINE f == Bases(new)
                 h == Bases(old)
      <4>1. f \in [S \cup {i} -> Int] /\ h \in [S -> Int]
        BY <3>2, <3>3 DEF Bases, Totals, S
      <4>2. f[i] = new[i].totals.base /\ \A j \in S : f[j] = h[j]
        BY <3>3 DEF Bases, S
      <4> HIDE DEF f, h
      <4>3. IsFiniteSet(S) /\ i \notin S
        BY <3>1, <3>3
      <4>4. SumOf(f) = SumOf(h) + f[i]
        BY <4>1, <4>2, <4>3, SumGrows
      <4> QED
        BY <4>2, <4>4 DEF f, h
    <3>5. SumOf(Currents(new)) = SumOf(Currents(old)) + new[i].totals.current
      <4> DEFINE f == Currents(new)
                 h == Currents(old)
      <4>1. f \in [S \cup {i} -> Int] /\ h \in [S -> Int]
        BY <3>2, <3>3 DEF Currents, Totals, S
      <4>2. f[i] = new[i].totals.current /\ \A j \in S : f[j] = h[j]
        BY <3>3 DEF Currents, S
      <4> HIDE DEF f, h
      <4>3. IsFiniteSet(S) /\ i \notin S
        BY <3>1, <3>3
      <4>4. SumOf(f) = SumOf(h) + f[i]
        BY <4>1, <4>2, <4>3, SumGrows
      <4> QED
        BY <4>2, <4>4 DEF f, h
    <3>6. intake[k].total = [base    |-> SumOf(Bases(old)),
                             current |-> SumOf(Currents(old))]
      BY DEF TInv, TotalsOK, old
    <3>7. intake'[k].total = AddTotals(intake[k].total, new[i].totals)
      BY <2>3 DEF new
    <3>8. intake'[k].total = [base    |-> SumOf(Bases(new)),
                              current |-> SumOf(Currents(new))]
      BY <3>4, <3>5, <3>6, <3>7 DEF AddTotals
    <3>9. TotalsOK(k)'
      BY <3>1, <3>3, <3>8 DEF TotalsOK, new
    <3> QED
      BY <2>1, <3>9 DEF TInv
  <2> QED
    BY <1>4, <2>2, <2>3, ServicesComeOneByOne
<1> QED
  BY <1>2, <1>3, <1>4 DEF Next

LEMMA TotalsInvariance == Spec => [](TInv /\ TotalsAreNatural)
<1>1. Init => TInv
  <2> SUFFICES ASSUME Init, NEW k \in Orders PROVE TotalsOK(k)
    BY DEF TInv
  <2>1. intake[k].services = <<>> /\ intake[k].total = Zero
    BY DEF Init
  <2> DEFINE none == intake[k].services
  <2>2. DOMAIN none = {}
    BY <2>1
  <2> HIDE DEF none
  <2>3. SumOf(Bases(none)) = 0 /\ SumOf(Currents(none)) = 0
    BY <2>2, SumOfNothing DEF Bases, Currents
  <2> QED
    BY <2>1, <2>2, <2>3, FS_EmptySet DEF TotalsOK, Zero, none
<1> QED
  BY <1>1, NextKeepsTInv, TotalsAreNumbers, Invariance, PricingInvariance, PTL
  DEF Spec

\* Whatever the order in which the answers for the services come in, and however
\* many there are, no service's totals are lost from those of the order.
THEOREM NoServiceIsLost == Spec => []TotalIsSumOfServices
<1>1. ASSUME TInv, NEW k \in Orders
      PROVE  LET services == intake[k].services
             IN intake[k].total =
                  [base    |-> MapThenSumSet(LAMBDA i : services[i].totals.base,
                                             DOMAIN services),
                   current |-> MapThenSumSet(
                                 LAMBDA i : services[i].totals.current,
                                 DOMAIN services)]
  <2> DEFINE services == intake[k].services
             D == DOMAIN services
  <2>1. MapThenSumSet(LAMBDA i : services[i].totals.base, D)
          = SumOf(Bases(services))
    <3> DEFINE f == Bases(services)
               Adds(h) ==
                 h = [s \in SUBSET D |->
                        IF s = {} THEN 0
                        ELSE LET x == CHOOSE x \in s : TRUE
                             IN  f[x] + h[s \ {x}]]
               Maps(h) ==
                 h = [s \in SUBSET D |->
                        IF s = {} THEN 0
                        ELSE LET x == CHOOSE x \in s : TRUE
                             IN  services[x].totals.base + h[s \ {x}]]
    <3>1. DOMAIN f = D /\ \A x \in D : f[x] = services[x].totals.base
      BY DEF Bases
    <3> HIDE DEF f, services, D
    <3>2. \A h : Adds(h) <=> Maps(h)
      BY <3>1
    <3>3. (CHOOSE h : Adds(h))[D] = (CHOOSE h : Maps(h))[D]
      <4> HIDE DEF Adds, Maps
      <4> QED
        BY <3>2
    <3>4. SumOf(f) = (CHOOSE h : Adds(h))[D]
      BY <3>1 DEF SumOf, MapThenSumSet, MapThenFoldSet
    <3>5. MapThenSumSet(LAMBDA i : services[i].totals.base, D)
            = (CHOOSE h : Maps(h))[D]
      BY DEF MapThenSumSet, MapThenFoldSet
    <3> HIDE DEF Adds, Maps
    <3> QED
      BY <3>3, <3>4, <3>5 DEF f
  <2>2. MapThenSumSet(LAMBDA i : services[i].totals.current, D)
          = SumOf(Currents(services))
    <3> DEFINE f == Currents(services)
               Adds(h) ==
                 h = [s \in SUBSET D |->
                        IF s = {} THEN 0
                        ELSE LET x == CHOOSE x \in s : TRUE
                             IN  f[x] + h[s \ {x}]]
               Maps(h) ==
                 h = [s \in SUBSET D |->
                        IF s = {} THEN 0
                        ELSE LET x == CHOOSE x \in s : TRUE
                             IN  services[x].totals.current + h[s \ {x}]]
    <3>1. DOMAIN f = D /\ \A x \in D : f[x] = services[x].totals.current
      BY DEF Currents
    <3> HIDE DEF f, services, D
    <3>2. \A h : Adds(h) <=> Maps(h)
      BY <3>1
    <3>3. (CHOOSE h : Adds(h))[D] = (CHOOSE h : Maps(h))[D]
      <4> HIDE DEF Adds, Maps
      <4> QED
        BY <3>2
    <3>4. SumOf(f) = (CHOOSE h : Adds(h))[D]
      BY <3>1 DEF SumOf, MapThenSumSet, MapThenFoldSet
    <3>5. MapThenSumSet(LAMBDA i : services[i].totals.current, D)
            = (CHOOSE h : Maps(h))[D]
      BY DEF MapThenSumSet, MapThenFoldSet
    <3> HIDE DEF Adds, Maps
    <3> QED
      BY <3>3, <3>4, <3>5 DEF f
  <2>3. intake[k].total = [base    |-> SumOf(Bases(services)),
                           current |-> SumOf(Currents(services))]
    BY <1>1 DEF TInv, TotalsOK
  <2> QED
    BY <2>1, <2>2, <2>3
<1>2. TInv => TotalIsSumOfServices
  BY <1>1, Zenon DEF TotalIsSumOfServices
<1> QED
  BY <1>2, TotalsInvariance, PTL

-----------------------------------------------------------------------------
(***************************************************************************)
(* Types.                                                                  *)
(***************************************************************************)
PositionOK(k) ==
  LET in == intake[k]
  IN /\ in.pc \in Position
     /\ in.pc \in {"fetchPrices", "created"} => DOMAIN in.opts = DOMAIN in.rows

KInv ==
  /\ now \in 0..MaxTime /\ failures \in 0..MaxFailures
  /\ options \in [Items -> SUBSET written] /\ written \subseteq Items
  /\ \A k \in Orders : PositionOK(k)

\* A request reads the options of the items it has read, before it goes on.
LEMMA OptionsAreRead ==
  ASSUME IInv, KInv, NEW k \in Orders, Read(k) \/ CreateOrder(k)
  PROVE  PositionOK(k)'
<1>1. ASSUME NEW in, intake' = [intake EXCEPT ![k] = in]
      PROVE  intake'[k] = in
  BY <1>1 DEF IInv, LocalsOK
<1>2. CASE ReadItems(k)
  <2> DEFINE in == IF cartOf[k] \in carts
                   THEN [intake[k] EXCEPT !.pc = "readOptions",
                                          !.rows = RowsNow(k)]
                   ELSE [intake[k] EXCEPT !.pc = "failed"]
  <2>1. intake'[k] = in
    BY <1>1, <1>2 DEF ReadItems, RowsNow
  <2>2. in.pc \in {"readOptions", "failed"}
    BY DEF IInv, LocalsOK, Locals
  <2> HIDE DEF in
  <2> QED
    BY <2>1, <2>2 DEF PositionOK, Position
<1>3. CASE ReadOptions(k)
  <2> DEFINE opts == [i \in DOMAIN intake[k].rows |-> options[i]]
             in   == [intake[k] EXCEPT !.pc = "fetchPrices", !.opts = opts]
  <2>1. intake'[k] = in
    BY <1>1, <1>3 DEF ReadOptions
  <2>2. /\ in.pc = "fetchPrices" /\ in.opts = opts
        /\ in.rows = intake[k].rows
    BY DEF IInv, LocalsOK, Locals
  <2>3. DOMAIN opts = DOMAIN intake[k].rows
    OBVIOUS
  <2> HIDE DEF in, opts
  <2> QED
    BY <2>1, <2>2, <2>3 DEF PositionOK, Position
<1>4. ASSUME NEW i \in Items, FetchPrices(k, i)
      PROVE  PositionOK(k)'
  <2> DEFINE row      == intake[k].rows[i]
             rows     == OptionRows(intake[k].opts[i])
             totals   == ServiceTotals(PricesAt(row, now), rows)
             services == [j \in DOMAIN intake[k].services \cup {i} |->
                            IF j = i THEN [totals |-> totals, day |-> now]
                                     ELSE intake[k].services[j]]
             total    == Accumulate(intake[k].total, totals)
             refused  == \/ Document(row) = NoDocument
                         \/ PriceMissing(PricesAt(row, now), rows)
             in       == IF refused THEN [intake[k] EXCEPT !.pc = "refused"]
                         ELSE [intake[k] EXCEPT !.services = services,
                                                !.total = total]
  <2>1. intake'[k] = in
    BY <1>1, <1>4, Zenon DEF FetchPrices
  <2> HIDE DEF services, total, totals, refused
  <2>2. /\ in.pc \in {"refused", intake[k].pc}
        /\ in.rows = intake[k].rows /\ in.opts = intake[k].opts
    BY DEF IInv, LocalsOK, Locals
  <2> HIDE DEF in
  <2> QED
    BY <2>1, <2>2 DEF KInv, PositionOK, Position
<1>5. CASE Fail(k) \/ CreateOrder(k)
  <2>1. PICK pc : /\ intake' = [intake EXCEPT ![k].pc = pc]
                  /\ \/ pc = "failed"
                     \/ pc = "created" /\ intake[k].pc = "fetchPrices"
    BY <1>5 DEF Fail, CreateOrder
  <2>2. intake'[k] = [intake[k] EXCEPT !.pc = pc]
    BY <2>1 DEF IInv, LocalsOK
  <2>3. /\ intake'[k].pc = pc /\ intake'[k].opts = intake[k].opts
        /\ intake'[k].rows = intake[k].rows
    BY <2>2 DEF IInv, LocalsOK, Locals
  <2> QED
    BY <2>1, <2>3 DEF KInv, PositionOK, Position
<1> QED
  BY <1>2, <1>3, <1>4, <1>5 DEF Read

LEMMA NextKeepsKInv == IInv /\ KInv /\ [Next]_vars => KInv'
<1> SUFFICES ASSUME IInv, KInv, [Next]_vars PROVE KInv'
  OBVIOUS
<1>1. ASSUME UNCHANGED <<intake, failures>>,
             now' \in 0..MaxTime, written' \subseteq Items,
             options' \in [Items -> SUBSET written']
      PROVE  KInv'
  BY <1>1 DEF KInv, PositionOK
<1>2. CASE CartStep
  <2>1. ASSUME NEW c \in Carts, NEW i \in Items, NEW w \in Items,
               NEW key \in Services \X Slots, PutItem(c, i, w, key)
        PROVE  KInv'
    <3>1. options' \in [Items -> SUBSET written'] /\ written' \subseteq Items
      BY <2>1 DEF PutItem, KInv
    <3> QED
      BY <1>1, <2>1, <3>1 DEF PutItem, KInv
  <2>2. ASSUME NEW c \in Carts, NEW S \in SUBSET Items, RemoveItems(c, S)
        PROVE  KInv'
    <3>1. options' \in [Items -> SUBSET written']
      BY <2>2 DEF RemoveItems, KInv
    <3> QED
      BY <1>1, <2>2, <3>1 DEF RemoveItems, KInv
  <2>3. ASSUME NEW c \in Carts, OpenCart(c)
        PROVE  KInv'
    BY <1>1, <2>3 DEF OpenCart, KInv
  <2>4. \A c \in Carts : ItemsOf(c) \subseteq Items
    BY DEF ItemsOf
  <2> QED
    BY <1>2, <2>1, <2>2, <2>3, <2>4 DEF CartStep
<1>3. CASE Tick
  <2>1. now' \in 0..MaxTime
    BY <1>3, BoundsAssumption DEF Tick, KInv
  <2> QED
    BY <1>1, <1>3, <2>1 DEF Tick, cartVars, KInv
<1>4. ASSUME NEW k \in Orders, Read(k) \/ CreateOrder(k)
      PROVE  KInv'
  <2>1. /\ UNCHANGED <<now, cartVars>>
        /\ \A j \in Orders \ {k} : intake'[j] = intake[j]
    BY <1>4, Moves
  <2>2. failures' \in 0..MaxFailures
    <3>1. \/ failures' = failures
          \/ failures < MaxFailures /\ failures' = failures + 1
      BY <1>4, Zenon
      DEF Read, ReadItems, ReadOptions, FetchPrices, Fail, CreateOrder
    <3>2. MaxFailures \in Nat /\ failures \in 0..MaxFailures
      BY BoundsAssumption DEF KInv
    <3> QED
      BY <3>1, <3>2
  <2>3. PositionOK(k)'
    BY <1>4, OptionsAreRead
  <2>4. \A j \in Orders \ {k} : PositionOK(j)'
    BY <2>1 DEF KInv, PositionOK
  <2> QED
    BY <2>1, <2>2, <2>3, <2>4 DEF KInv, cartVars
<1>5. CASE UNCHANGED vars
  BY <1>1, <1>5 DEF vars, cartVars, KInv
<1> QED
  BY <1>2, <1>3, <1>4, <1>5 DEF Next

LEMMA TypeInvariance == Spec => []KInv
<1>1. Init => KInv
  <2> SUFFICES ASSUME Init PROVE KInv
    OBVIOUS
  <2>1. now \in 0..MaxTime /\ failures \in 0..MaxFailures
    BY BoundsAssumption DEF Init
  <2>2. options \in [Items -> SUBSET written] /\ written \subseteq Items
    BY DEF Init
  <2>3. \A k \in Orders : PositionOK(k)
    BY DEF Init, PositionOK, Position
  <2> QED
    BY <2>1, <2>2, <2>3 DEF KInv
<1> QED
  BY <1>1, NextKeepsKInv, Invariance, PTL DEF Spec

\* The type invariant; totals are natural numbers, as prices and numbers of
\* participants are.
THEOREM TypeCorrect == Spec => []TypeOK
<1>1. ASSUME TInv, TotalsAreNatural, NEW k \in Orders
      PROVE  {intake[k].total.base, intake[k].total.current} \subseteq Nat
  <2> DEFINE S == DOMAIN intake[k].services
             b == Bases(intake[k].services)
             c == Currents(intake[k].services)
  <2>1. IsFiniteSet(S)
    BY <1>1 DEF TInv, TotalsOK
  <2>2. b \in [S -> Nat] /\ c \in [S -> Nat]
    BY <1>1 DEF TotalsAreNatural, Totals, Bases, Currents
  <2>3. intake[k].total = [base |-> SumOf(b), current |-> SumOf(c)]
    BY <1>1 DEF TInv, TotalsOK
  <2> HIDE DEF S, b, c
  <2>4. SumOf(b) \in Nat /\ SumOf(c) \in Nat
    BY <2>1, <2>2, SumIsNat
  <2> QED
    BY <2>3, <2>4
<1>2. ASSUME IInv, PInv, KInv, TInv, TotalsAreNatural
      PROVE  TypeOK
  <2>1. /\ now \in 0..MaxTime /\ failures \in 0..MaxFailures
        /\ options \in [Items -> SUBSET written] /\ written \subseteq Items
        /\ items \in [Items -> Row \cup {NoItem}]
        /\ changed \in [Orders -> {"no", "reading", "later"}]
    BY <1>2 DEF KInv, IInv, TableOK
  <2>2. ASSUME NEW k \in Orders
        PROVE  /\ intake[k].pc \in Position
               /\ \A i \in DOMAIN intake[k].rows :
                    i \in Items /\ intake[k].rows[i] \in Row
               /\ intake[k].pc \in {"fetchPrices", "created"} =>
                    DOMAIN intake[k].opts = DOMAIN intake[k].rows
               /\ DOMAIN intake[k].services \subseteq DOMAIN intake[k].rows
    BY <1>2 DEF KInv, PositionOK, PInv, PricingOK, IInv, ReadOK
  <2> QED
    BY <1>1, <1>2, <2>1, <2>2 DEF TypeOK
<1>3. IInv /\ PInv /\ KInv /\ TInv /\ TotalsAreNatural => TypeOK
  BY <1>2
<1> QED
  BY <1>3, Invariance, PricingInvariance, TypeInvariance, TotalsInvariance, PTL
=============================================================================
