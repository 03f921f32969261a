--------------------------- MODULE MCOrderIntake ---------------------------
(***************************************************************************)
(* Instances of OrderIntake for TLC.  The day of the second slot, tomorrow,*)
(* is another weekday than today, the day of the first.                    *)
(***************************************************************************)
EXTENDS OrderIntake, TLC

CONSTANTS c1, i1, i2, i3, s1, s2, t1, t2, adult, child, today, tomorrow

Weekday == 0 :> today @@ 1 :> tomorrow
Date    == t1 :> 0 @@ t2 :> 1

\* Participants of both categories, and a row of quantity zero.
Asked == i1 :> <<[category |-> adult, quantity |-> 2],
                 [category |-> child, quantity |-> 1]>>
      @@ i2 :> <<[category |-> adult, quantity |-> 1]>>
      @@ i3 :> <<[category |-> child, quantity |-> 3],
                 [category |-> adult, quantity |-> 0]>>

PriceFor(c, price) == <<[category |-> c, price |-> price]>>
BothPrices(a, c)   == PriceFor(adult, a) \o PriceFor(child, c)

OfferOf(prices, days, from, to) ==
  [prices |-> prices, weekdays |-> days, from |-> from, to |-> to]

\* A promotion for children, one that ends today, one for both categories
\* that begins and applies tomorrow only, and a correction that raises prices.
ForChildren  == OfferOf(PriceFor(child, 40), {today, tomorrow}, 0, 1)
EndsToday    == OfferOf(PriceFor(adult, 70), {today, tomorrow}, 0, 0)
TomorrowOnly == OfferOf(BothPrices(80, 30), {tomorrow}, 0, 1)
HighSeason   == OfferOf(BothPrices(130, 60), {today, tomorrow}, 0, 1)

DocumentOf(base, promotions, corrections) ==
  [base |-> base, promotions |-> promotions, corrections |-> corrections]

Base  == BothPrices(100, 50)
Fixed == DocumentOf(BothPrices(20, 10), <<>>, <<>>)

\* The service s1 has two promotions and a correction, or a promotion that
\* ends, or a correction alone, or no base price for children, and then s2 has
\* no document.
Documents ==
  {s1 :> DocumentOf(Base, <<ForChildren, TomorrowOnly>>, <<HighSeason>>)
     @@ s2 :> Fixed,
   s1 :> DocumentOf(Base, <<EndsToday, ForChildren>>, <<>>) @@ s2 :> Fixed,
   s1 :> DocumentOf(Base, <<>>, <<HighSeason>>) @@ s2 :> Fixed,
   s1 :> DocumentOf(PriceFor(adult, 100), <<ForChildren>>, <<>>)
     @@ s2 :> NoDocument}

\* The cart c1 exists or is opened later.
NoneOrOne == {{}, {c1}}

\* The cart holds nothing, one item, or two items of one or of two services.
ItemRow(i, s, t) == [cart |-> c1, key |-> <<s, t>>, by |-> i]
Empty  == [i \in Items |-> NoItem]
Tables == {Empty,
           [Empty EXCEPT ![i1] = ItemRow(i1, s1, t1)],
           [Empty EXCEPT ![i1] = ItemRow(i1, s1, t1),
                         ![i2] = ItemRow(i2, s2, t2)],
           [Empty EXCEPT ![i1] = ItemRow(i1, s1, t1),
                         ![i2] = ItemRow(i2, s1, t2)]}
=============================================================================
