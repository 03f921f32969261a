------------------------------ MODULE Pricing ------------------------------
(***************************************************************************)
(* What a service costs: the choice among its promotions, its price        *)
(* corrections and its base prices (SanityService.getExcursionPrices), the *)
(* totals an order computes from it (OrderService.createOrder) and the     *)
(* totals the cart computes from the prices the browser sends              *)
(* (price-calculations.util.ts).                                           *)
(*                                                                         *)
(* A document of the content system has base prices, promotions and        *)
(* corrections.  A price list is a sequence of categories with a price, an *)
(* offer a list that applies on some weekdays between two days.  Moments   *)
(* and dates are whole days.  Prices are integers in one unit.             *)
(***************************************************************************)
EXTENDS Integers, SequencesExt

CONSTANTS WeekdayOf,  \* the weekday of each day
          NoPrice     \* null: a list names no price for a category

(***************************************************************************)
(* Documents: what a list names has a price.                               *)
(***************************************************************************)
IsPriceList(list) ==
  /\ list \in Seq(Range(list))
  /\ \A p \in Range(list) :
       /\ p = [category |-> p.category, price |-> p.price]
       /\ p.price \in Nat /\ p.price # NoPrice

IsDocument(doc) ==
  /\ IsPriceList(doc.base)
  /\ \A offers \in {doc.promotions, doc.corrections} :
       /\ offers \in Seq(Range(offers))
       /\ \A o \in Range(offers) : IsPriceList(o.prices)

Zero == [base |-> 0, current |-> 0]

AddTotals(s, t) == [base |-> s.base + t.base, current |-> s.current + t.current]

-----------------------------------------------------------------------------
(***************************************************************************)
(* getExcursionPrices.                                                     *)
(***************************************************************************)

\* The first price of the list for category c.
findPrice(c, prices) ==
  LET i == SelectInSeq(prices, LAMBDA p : p.category = c)
  IN IF i = 0 THEN NoPrice ELSE prices[i].price

\* The query: offers that run now and on the date that is booked.
InForce(o, date, now) ==
  o.from <= now /\ now <= o.to /\ o.from <= date /\ date <= o.to

\* The first offer of the day, whether or not it names the category.
FirstOfferOfTheDay(c, offers, date, now) ==
  LET i == SelectInSeq(offers, LAMBDA o : /\ InForce(o, date, now)
                                          /\ WeekdayOf[date] \in o.weekdays)
  IN IF i = 0 THEN NoPrice ELSE findPrice(c, offers[i].prices)

\* The loop over the offers in force: those of another weekday are skipped, and
\* the first that names the category ends it.
FirstOffered(c, offers, date, now) ==
  FoldLeft(LAMBDA found, o :
             IF /\ found = NoPrice
                /\ InForce(o, date, now) /\ WeekdayOf[date] \in o.weekdays
             THEN findPrice(c, o.prices) ELSE found,
           NoPrice, offers)

OrElse(price, other) == IF price = NoPrice THEN other ELSE price

\* A promotion goes before a correction, for each category by itself.
SpecialPrice(doc, c, date, now) ==
  OrElse(FirstOffered(c, doc.promotions, date, now),
         FirstOffered(c, doc.corrections, date, now))

SpecialPricesOnly(doc, date, now) ==
  [base    |-> doc.base,
   current |-> [i \in DOMAIN doc.base |->
                  [doc.base[i] EXCEPT !.price =
                     SpecialPrice(doc, doc.base[i].category, date, now)]]]

\* Every category with a base price has a current price.
getExcursionPrices(doc, date, now) ==
  [base    |-> doc.base,
   current |-> [i \in DOMAIN doc.base |->
                  [doc.base[i] EXCEPT !.price =
                     OrElse(SpecialPrice(doc, doc.base[i].category, date, now),
                            @)]]]

-----------------------------------------------------------------------------
(***************************************************************************)
(* An order's totals for the participants of a service.                    *)
(***************************************************************************)
PriceMissing(prices, options) ==
  \E i \in DOMAIN options :
    NoPrice \in {findPrice(options[i].category, prices.base),
                 findPrice(options[i].category, prices.current)}

servicePriceData(prices, options) ==
  [i \in DOMAIN options |->
     [base    |-> findPrice(options[i].category, prices.base)
                    * options[i].quantity,
      current |-> findPrice(options[i].category, prices.current)
                    * options[i].quantity]]

ServiceTotals(prices, options) ==
  FoldLeft(AddTotals, Zero, servicePriceData(prices, options))

-----------------------------------------------------------------------------
(***************************************************************************)
(* The cart's totals, of options with the prices that the browser sent.    *)
(***************************************************************************)
UnitPrices(o) == [base |-> o.base, current |-> o.current]

calculateOptionTotals(o) ==
  [base |-> o.base * o.quantity, current |-> o.current * o.quantity]

calculateCartItemTotals(options) ==
  FoldLeft(LAMBDA sum, o : AddTotals(sum, calculateOptionTotals(o)),
           Zero, options)

\* The totals of the option rows that are written with the item.
prepareCartItemOptions(options) ==
  [i \in DOMAIN options |-> calculateOptionTotals(options[i])]
=============================================================================
