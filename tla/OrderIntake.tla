---------------------------- MODULE OrderIntake ----------------------------
(***************************************************************************)
(* POST /order from the account of the customer (modelled in Session) to   *)
(* the order row (OrderPayment carries on from there): the cart is read,   *)
(* the prices of its items are fetched from the content system in          *)
(* parallel, the totals are accumulated as the answers come in, and the    *)
(* order is written.  Meanwhile requests change the cart and days pass.    *)
(*                                                                         *)
(* Prisma reads a cart with its items and their options in one query per   *)
(* table and no transaction: the options may be newer than their item.     *)
(*                                                                         *)
(* An item row bears the name of the request that wrote it last (by), and  *)
(* options holds, for each item, whose option rows it has; Options is what *)
(* those rows say.                                                         *)
(***************************************************************************)
EXTENDS Pricing

CONSTANTS Orders,       \* POST /order requests, and the orders they create
          Carts,        \* carts there are or may be
          Items,        \* cart items, and requests that write them
          Services,     \* what can be booked
          Slots,        \* when it can be booked (type, date and time)
          DateOf,       \* the day of each slot
          Options,      \* the participants each request asks for
          Catalogues,   \* what the content system may hold, by service
          StartCarts,   \* the carts there may be at the start
          StartItems,   \* the items in them: possible tables cart_items
          MaxTime,      \* bound: the last day
          MaxFailures,  \* bound: how many statements may fail
          NoItem, NoDocument

ASSUME BoundsAssumption == {MaxTime, MaxFailures} \subseteq Nat

VARIABLES cartOf,     \* the cart each order is for (fixed)
          catalogue,  \* the content system (fixed; offers begin and end)
          now,        \* the day
          carts,      \* carts that exist
          items,      \* the table cart_items
          options,    \* whose option rows each item has
          written,    \* requests that have written an item
          intake,     \* where each order stands, and its local variables
          changed,    \* whether and when its cart was changed under its hands
          failures    \* statements that failed so far

cartVars == <<carts, items, options, written>>
vars == <<cartOf, catalogue, now, cartVars, intake, changed, failures>>

Row == [cart : Carts, key : Services \X Slots, by : Items]

ItemsOf(c) == {i \in Items : items[i] # NoItem /\ items[i].cart = c}

Position == {"requested", "readOptions", "fetchPrices", "created", "refused",
             "failed"}

Init ==
  /\ cartOf \in [Orders -> Carts]
  /\ catalogue \in Catalogues
  /\ now = 0
  /\ carts \in StartCarts
  /\ items \in StartItems
  /\ \A i \in Items : items[i] # NoItem => items[i].cart \in carts
  /\ written = {i \in Items : items[i] # NoItem}
  /\ options = [i \in Items |-> IF items[i] = NoItem THEN {} ELSE {i}]
  /\ intake = [k \in Orders |-> [pc |-> "requested", rows |-> <<>>,
                                 opts |-> <<>>, services |-> <<>>,
                                 total |-> Zero]]
  /\ changed = [k \in Orders |-> "no"]
  /\ failures = 0

\* At the start every item is as the request that added it wrote it.
ASSUME RowsAssumption ==
  /\ NoItem \notin Row
  /\ StartItems \subseteq [Items -> Row \cup {NoItem}]
  /\ \A table \in StartItems : \A i \in Items :
       table[i] # NoItem => table[i].by = i

\* What the lists of a document name has a price.
ASSUME CataloguesAssumption ==
  \A documents \in Catalogues : \A s \in Services :
    documents[s] # NoDocument =>
      IsDocument(documents[s])

\* A participant row asks for a number of participants (ItemOptionDto).
ASSUME OptionsAssumption ==
  \A w \in Items :
    /\ Options[w] \in Seq(Range(Options[w]))
    /\ \A p \in Range(Options[w]) : p.quantity \in Nat

-----------------------------------------------------------------------------
(***************************************************************************)
(* What goes on meanwhile: requests to /cart commit (Cart), days pass.     *)
(***************************************************************************)
Touched(c) ==
  \E i \in Items : /\ items'[i] # items[i]
                   /\ \E row \in {items[i], items'[i]} \ {NoItem} : row.cart = c

\* Notes for which orders a change of items comes too late, and when.
NoteChange ==
  changed' = [k \in Orders |->
    IF changed[k] # "no" \/ intake[k].pc = "requested" \/ ~Touched(cartOf[k])
    THEN changed[k]
    ELSE IF intake[k].pc = "readOptions" THEN "reading" ELSE "later"]

\* An item is added by request w, which names it, or updated by w.
PutItem(c, i, w, key) ==
  /\ c \in carts
  /\ IF items[i] = NoItem THEN i = w ELSE items[i].cart = c
  /\ w \notin written
  /\ \A j \in ItemsOf(c) \ {i} : items[j].key # key
  /\ items' = [items EXCEPT ![i] = [cart |-> c, key |-> key, by |-> w]]
  /\ options' = [options EXCEPT ![i] = {w}]
  /\ written' = written \cup {w}
  /\ NoteChange
  /\ UNCHANGED <<cartOf, catalogue, now, carts, intake, failures>>

RemoveItems(c, S) ==
  /\ S \subseteq ItemsOf(c) /\ S # {}
  /\ items' = [i \in Items |-> IF i \in S THEN NoItem ELSE items[i]]
  /\ options' = [i \in Items |-> IF i \in S THEN {} ELSE options[i]]
  /\ NoteChange
  /\ UNCHANGED <<cartOf, catalogue, now, carts, written, intake, failures>>

OpenCart(c) ==
  /\ c \notin carts
  /\ carts' = carts \cup {c}
  /\ UNCHANGED <<cartOf, catalogue, now, items, options, written, intake,
                 changed, failures>>

Tick ==
  /\ now < MaxTime
  /\ now' = now + 1
  /\ UNCHANGED <<cartOf, catalogue, cartVars, intake, changed, failures>>

-----------------------------------------------------------------------------
(***************************************************************************)
(* createOrder.                                                            *)
(***************************************************************************)
Pending(k) == DOMAIN intake[k].rows \ DOMAIN intake[k].services

\* One item of each service only, as if rows were collected by service_id.
ReadServices(k) ==
  LET found == ItemsOf(cartOf[k])
      one   == {i \in found : i = CHOOSE j \in found :
                                    items[j].key[1] = items[i].key[1]}
  IN /\ intake[k].pc = "requested"
     /\ cartOf[k] \in carts
     /\ intake' = [intake EXCEPT ![k] = [@ EXCEPT
                     !.pc = "readOptions", !.rows = [i \in one |-> items[i]]]]
     /\ UNCHANGED <<cartOf, catalogue, now, cartVars, changed, failures>>

\* A cart that does not exist ends the request with an error (a TypeError).
ReadItems(k) ==
  /\ intake[k].pc = "requested"
  /\ intake' = [intake EXCEPT ![k] =
       IF cartOf[k] \in carts
       THEN [@ EXCEPT !.pc = "readOptions",
                      !.rows = [i \in ItemsOf(cartOf[k]) |-> items[i]]]
       ELSE [@ EXCEPT !.pc = "failed"]]
  /\ UNCHANGED <<cartOf, catalogue, now, cartVars, changed, failures>>

\* The options of other items too, as if the query named no items.
ReadAllOptions(k) ==
  /\ intake[k].pc = "readOptions"
  /\ intake' = [intake EXCEPT ![k] = [@ EXCEPT
                  !.pc = "fetchPrices", !.opts = options]]
  /\ UNCHANGED <<cartOf, catalogue, now, cartVars, changed, failures>>

ReadOptions(k) ==
  /\ intake[k].pc = "readOptions"
  /\ intake' = [intake EXCEPT ![k] = [@ EXCEPT
                  !.pc = "fetchPrices",
                  !.opts = [i \in DOMAIN intake[k].rows |-> options[i]]]]
  /\ UNCHANGED <<cartOf, catalogue, now, cartVars, changed, failures>>

\* The option rows that the requests W wrote.
OptionRows(W) == FoldSet(LAMBDA w, rows : Options[w] \o rows, <<>>, W)

Document(row)      == catalogue[row.key[1]]
PricesAt(row, day) == getExcursionPrices(Document(row), DateOf[row.key[2]], day)

\* The total as it was before the first answer came in, plus t.
ForgetOthers(total, t) == AddTotals(Zero, t)

Accumulate(total, t) == AddTotals(total, t)

(***************************************************************************)
(* An answer of the content system for one item: its prices as of now.     *)
(* The callback runs without an await from there to the new totals.  When  *)
(* it throws, Promise.all rejects and the request ends with an error; the  *)
(* other callbacks then only touch local variables nobody reads.           *)
(***************************************************************************)
FetchPrices(k, i) ==
  LET in      == intake[k]
      row     == in.rows[i]
      rows    == OptionRows(in.opts[i])
      totals  == ServiceTotals(PricesAt(row, now), rows)
      fetched == [j \in DOMAIN in.services \cup {i} |->
                    IF j = i THEN [totals |-> totals, day |-> now]
                             ELSE in.services[j]]
  IN /\ in.pc = "fetchPrices" /\ i \in Pending(k)
     /\ intake' = [intake EXCEPT ![k] =
          IF \/ Document(row) = NoDocument
             \/ PriceMissing(PricesAt(row, now), rows)
          THEN [in EXCEPT !.pc = "refused"]
          ELSE [in EXCEPT !.services = fetched,
                          !.total = Accumulate(in.total, totals)]]
     /\ UNCHANGED <<cartOf, catalogue, now, cartVars, changed, failures>>

\* The status of the cart is not looked at, nor whether it has items.
CreateOrder(k) ==
  /\ intake[k].pc = "fetchPrices" /\ Pending(k) = {}
  /\ intake' = [intake EXCEPT ![k].pc = "created"]
  /\ UNCHANGED <<cartOf, catalogue, now, cartVars, changed, failures>>

\* A statement or a fetch fails.
Fail(k) ==
  /\ intake[k].pc \in {"readOptions", "fetchPrices"}
  /\ failures < MaxFailures
  /\ intake' = [intake EXCEPT ![k].pc = "failed"]
  /\ failures' = failures + 1
  /\ UNCHANGED <<cartOf, catalogue, now, cartVars, changed>>

-----------------------------------------------------------------------------
CartStep ==
  \E c \in Carts :
    \/ \E i \in Items, w \in Items \ written, key \in Services \X Slots :
         PutItem(c, i, w, key)
    \/ \E S \in SUBSET ItemsOf(c) : RemoveItems(c, S)
    \/ OpenCart(c)

Read(k) ==
  \/ ReadItems(k) \/ ReadOptions(k)
  \/ \E i \in Items : FetchPrices(k, i)
  \/ Fail(k)

Next ==
  \/ CartStep \/ Tick
  \/ \E k \in Orders : Read(k) \/ CreateOrder(k)

Spec == Init /\ [][Next]_vars

-----------------------------------------------------------------------------
\* Type correctness: rows, sets of option rows and answers stay within their
\* types, and options and answers are those of the items that were read.
TypeOK ==
  /\ now \in 0..MaxTime
  /\ items \in [Items -> Row \cup {NoItem}]
  /\ options \in [Items -> SUBSET written] /\ written \subseteq Items
  /\ \A k \in Orders :
       /\ intake[k].pc \in Position
       /\ \A i \in DOMAIN intake[k].rows :
            i \in Items /\ intake[k].rows[i] \in Row
       /\ intake[k].pc \in {"fetchPrices", "created"} =>
            DOMAIN intake[k].opts = DOMAIN intake[k].rows
       /\ DOMAIN intake[k].services \subseteq DOMAIN intake[k].rows
       /\ {intake[k].total.base, intake[k].total.current} \subseteq Nat
  /\ changed \in [Orders -> {"no", "reading", "later"}]
  /\ failures \in 0..MaxFailures

Participants(k, i) == OptionRows(intake[k].opts[i])

(***************************************************************************)
(* What category c is offered at: the first list that names it, among the  *)
(* promotions that apply, then the corrections that apply, then the base   *)
(* prices.                                                                 *)
(***************************************************************************)
Quoted(doc, c, date, day) ==
  LET names(list) == \E p \in Range(list) : p.category = c
      applies(o)  == /\ o.from <= day /\ day <= o.to
                     /\ o.from <= date /\ date <= o.to
                     /\ WeekdayOf[date] \in o.weekdays
                     /\ names(o.prices)
      offers == doc.promotions \o doc.corrections
      i      == SelectInSeq(offers, applies)
      chosen == IF i = 0 THEN doc.base ELSE offers[i].prices
  IN chosen[SelectInSeq(chosen, LAMBDA p : p.category = c)].price

\* A service is charged, for each participant, what the content system offers
\* his category on the day the price is fetched, however early exits of the
\* loops over promotions and corrections (SanityService.getExcursionPrices)
\* combine.
PriceIsInForce ==
  \A k \in Orders : \A i \in DOMAIN intake[k].services :
    LET row       == intake[k].rows[i]
        people    == Participants(k, i)
        price(p)  == Quoted(Document(row), p.category, DateOf[row.key[2]],
                            intake[k].services[i].day)
        charge(j) == price(people[j]) * people[j].quantity
    IN intake[k].services[i].totals.current =
         MapThenSumSet(charge, DOMAIN people)

\* Whatever the order in which answers come in, no service's totals are lost
\* from the order's totals (totalOrderBasePrice and totalOrderCurrentPrice are
\* shared by callbacks that run concurrently).
TotalIsSumOfServices ==
  \A k \in Orders :
    LET services == intake[k].services
    IN intake[k].total =
         [base    |-> MapThenSumSet(LAMBDA i : services[i].totals.base,
                                    DOMAIN services),
          current |-> MapThenSumSet(LAMBDA i : services[i].totals.current,
                                    DOMAIN services)]

\* An order lists the items of its cart, each with the participants it had
\* when its row was written; but the participants may be another version's if
\* the cart changed between the two reads, and the items no longer the cart's
\* if it changed while prices were fetched.
OrderIsItsCart ==
  \A k \in Orders : intake[k].pc = "created" =>
    LET in == intake[k]
    IN /\ changed[k] # "reading" =>
            \A i \in DOMAIN in.rows : in.opts[i] = {in.rows[i].by}
       /\ changed[k] = "no" =>
            /\ DOMAIN in.services = ItemsOf(cartOf[k])
            /\ \A i \in DOMAIN in.rows : in.rows[i] = items[i]

\* A request is refused for a missing price only if the service is unknown or
\* has no base price for some participant: that no promotion or correction
\* names his category is no reason.
RefusedOnlyWithoutPrice ==
  \A k \in Orders : intake[k].pc = "refused" =>
    \E i \in DOMAIN intake[k].rows :
      LET doc == Document(intake[k].rows[i])
      IN \/ doc = NoDocument
         \/ \E p \in Range(Participants(k, i)) :
              \A q \in Range(doc.base) : q.category # p.category

\* The cart and the order compute totals separately and agree: an item whose
\* options were written with the prices of the day is ordered at the total of
\* the cart item (calculateCartItemTotals), which is that of its option rows
\* (prepareCartItemOptions).
CartAgreesWithOrder ==
  \A k \in Orders : \A i \in DOMAIN intake[k].services :
    LET rows   == Participants(k, i)
        prices == PricesAt(intake[k].rows[i], intake[k].services[i].day)
        priced == [j \in DOMAIN rows |->
                     [base     |-> findPrice(rows[j].category, prices.base),
                      current  |-> findPrice(rows[j].category, prices.current),
                      quantity |-> rows[j].quantity]]
    IN /\ calculateCartItemTotals(priced) = intake[k].services[i].totals
       /\ FoldLeft(AddTotals, Zero, prepareCartItemOptions(priced))
            = intake[k].services[i].totals
=============================================================================
