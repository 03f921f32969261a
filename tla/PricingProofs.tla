--------------------------- MODULE PricingProofs ---------------------------
(***************************************************************************)
(* What the loops of Pricing find and add up, for documents and            *)
(* participants of any number.                                             *)
(***************************************************************************)
EXTENDS Pricing, FoldTheorems

-----------------------------------------------------------------------------
(***************************************************************************)
(* Price lists.                                                            *)
(***************************************************************************)
Named(c, list) == {i \in 1..Len(list) : list[i].category = c}

\* What a list names it names at a first place, and has a price for.
LEMMA NamedIsFound ==
  ASSUME NEW c, NEW list, IsPriceList(list)
  PROVE  IF Named(c, list) = {}
         THEN findPrice(c, list) = NoPrice
         ELSE /\ Min(Named(c, list)) \in Named(c, list)
              /\ \A i \in Named(c, list) : Min(Named(c, list)) <= i
              /\ findPrice(c, list) = list[Min(Named(c, list))].price
              /\ findPrice(c, list) \in Nat /\ findPrice(c, list) # NoPrice
<1> DEFINE I == Named(c, list)
<1>1. SelectInSeq(list, LAMBDA p : p.category = c)
        = IF I # {} THEN Min(I) ELSE 0
  BY DEF SelectInSeq, Named
<1>2. CASE I = {}
  BY <1>1, <1>2 DEF findPrice
<1>3. CASE I # {}
  <2>1. I \in SUBSET Nat
    BY DEF Named
  <2> HIDE DEF I
  <2>2. Min(I) \in I /\ \A i \in I : Min(I) <= i
    BY <1>3, <2>1, MinIsMember
  <2>3. Min(I) \in 1..Len(list)
    BY <2>2 DEF I, Named
  <2>4. findPrice(c, list) = list[Min(I)].price
    BY <1>1, <1>3, <2>3 DEF findPrice
  <2>5. list[Min(I)] \in Range(list)
    BY <2>3 DEF Range, IsPriceList
  <2> QED
    BY <1>3, <2>2, <2>4, <2>5 DEF IsPriceList, I
<1> QED
  BY <1>2, <1>3

-----------------------------------------------------------------------------
(***************************************************************************)
(* The loop over offers.                                                   *)
(***************************************************************************)
OffersIn(c, offers, date, now) ==
  {j \in 1..Len(offers) : /\ InForce(offers[j], date, now)
                          /\ WeekdayOf[date] \in offers[j].weekdays
                          /\ findPrice(c, offers[j].prices) # NoPrice}

\* The loop ends with the first offer that applies and names the category.
THEOREM FirstIsOffered ==
  ASSUME NEW c, NEW offers, offers \in Seq(Range(offers)), NEW date, NEW now
  PROVE  FirstOffered(c, offers, date, now) =
           IF OffersIn(c, offers, date, now) = {} THEN NoPrice
           ELSE findPrice(c,
                  offers[Min(OffersIn(c, offers, date, now))].prices)
<1> DEFINE S     == DOMAIN offers
           J     == OffersIn(c, offers, date, now)
           ok(i) == /\ InForce(offers[i], date, now)
                    /\ WeekdayOf[date] \in offers[i].weekdays
           price(i) == findPrice(c, offers[i].prices)
           Found == [s \in SUBSET S |-> IF J \cap s = {} THEN NoPrice
                                        ELSE price(Min(J \cap s))]
           IsIter(g) ==
             g = [s \in SUBSET S |->
                    IF s = {} THEN NoPrice
                    ELSE IF g[s \ {Max(s)}] = NoPrice /\ ok(Max(s))
                         THEN price(Max(s)) ELSE g[s \ {Max(s)}]]
           iter == CHOOSE g : IsIter(g)
<1>1. /\ Len(offers) \in Nat /\ S = 1..Len(offers) /\ IsFiniteSet(S)
      /\ J \in SUBSET S /\ \A i \in S : i \in J <=> ok(i) /\ price(i) # NoPrice
  BY FS_Interval DEF OffersIn
<1>2. FirstOffered(c, offers, date, now) = iter[S]
  BY DEF FirstOffered, FoldLeft, MapThenFoldSet
<1> HIDE DEF ok, price, J
<1>3. ASSUME NEW s \in SUBSET S, s # {}
      PROVE  /\ Max(s) \in s
             /\ Found[s] = IF Found[s \ {Max(s)}] = NoPrice /\ ok(Max(s))
                           THEN price(Max(s)) ELSE Found[s \ {Max(s)}]
  <2> DEFINE m == Max(s)
             t == s \ {m}
  <2>1. m \in s /\ \A y \in s : y <= m
    BY <1>1, <1>3, MaxIsMember
  <2> HIDE DEF m
  <2>2. Found[s] = IF J \cap s = {} THEN NoPrice ELSE price(Min(J \cap s))
    OBVIOUS
  <2>3. Found[t] = IF J \cap t = {} THEN NoPrice ELSE price(Min(J \cap t))
    OBVIOUS
  <2> HIDE DEF Found, IsIter, iter
  <2>4. CASE J \cap t = {}
    <3>1. CASE m \in J
      <4>1. J \cap s = {m}
        BY <2>1, <2>4, <3>1
      <4>2. m \in Nat
        BY <1>1, <2>1
      <4>3. Min({m}) = m
        BY <4>2, MinIsMember
      <4> QED
        BY <1>1, <2>1, <2>2, <2>3, <2>4, <3>1, <4>1, <4>3 DEF m
    <3>2. CASE m \notin J
      <4>1. J \cap s = {}
        BY <2>1, <2>4, <3>2
      <4>2. ok(m) => price(m) = NoPrice
        BY <1>1, <2>1, <3>2
      <4> QED
        BY <2>1, <2>2, <2>3, <2>4, <4>1, <4>2 DEF m
    <3> QED
      BY <3>1, <3>2
  <2>5. CASE J \cap t # {}
    <3> DEFINE x == Min(J \cap t)
               y == Min(J \cap s)
    <3>1. J \cap t \in SUBSET Nat /\ J \cap s \in SUBSET Nat
      BY <1>1
    <3>2. x \in J \cap t /\ \A z \in J \cap t : x <= z
      BY <2>5, <3>1, MinIsMember
    <3>3. y \in J \cap s /\ \A z \in J \cap s : y <= z
      BY <2>5, <3>1, MinIsMember
    <3> HIDE DEF x, y
    <3>4. x \in s /\ x # m /\ x <= m /\ x \in Nat /\ m \in Nat /\ y \in Nat
      BY <1>1, <2>1, <3>1, <3>2, <3>3
    <3>5. y <= x
      BY <3>2, <3>3, <3>4
    <3>6. y \in J \cap t
      BY <3>3, <3>4, <3>5
    <3>7. x <= y
      BY <3>2, <3>6
    <3>8. x = y
      BY <3>4, <3>5, <3>7
    <3>9. price(x) # NoPrice
      BY <1>1, <3>2
    <3>10. Found[t] = price(x) /\ Found[s] = price(x)
      BY <2>2, <2>3, <2>5, <3>3, <3>8 DEF x, y
    <3> QED
      BY <2>1, <3>9, <3>10 DEF m
  <2> QED
    BY <2>4, <2>5
<1>4. Found[{}] = NoPrice
  OBVIOUS
<1>5. IsIter(Found)
  <2>1. Found = [s \in SUBSET S |-> Found[s]]
    OBVIOUS
  <2> HIDE DEF Found
  <2> QED
    BY <1>3, <1>4, <2>1
<1>6. IsIter(iter)
  <2> HIDE DEF IsIter, Found
  <2> QED
    BY <1>5
<1> DEFINE G == {s \in SUBSET S : iter[s] = Found[s]}
<1>7. ASSUME NEW s \in SUBSET S, \A t \in SUBSET s : t # s => t \in G
      PROVE  iter[s] = Found[s]
  <2> HIDE DEF iter, Found
  <2>1. CASE s = {}
    BY <1>4, <1>6, <2>1
  <2>2. CASE s # {}
    <3>1. iter[s \ {Max(s)}] = Found[s \ {Max(s)}]
      BY <1>3, <1>7, <2>2
    <3>2. iter[s] = IF iter[s \ {Max(s)}] = NoPrice /\ ok(Max(s))
                    THEN price(Max(s)) ELSE iter[s \ {Max(s)}]
      BY <1>6, <2>2
    <3>3. Found[s] = IF Found[s \ {Max(s)}] = NoPrice /\ ok(Max(s))
                     THEN price(Max(s)) ELSE Found[s \ {Max(s)}]
      BY <1>3, <2>2
    <3> QED
      BY <3>1, <3>2, <3>3
  <2> QED
    BY <2>1, <2>2
<1>8. \A s \in SUBSET S : s \in G
  <2>1. \A s \in SUBSET S : (\A t \in SUBSET s : t # s => t \in G) => s \in G
    BY <1>7
  <2>2. IsFiniteSet(S)
    BY <1>1
  <2> HIDE DEF G, S
  <2> QED
    BY <2>1, <2>2, SetInduction
<1>9. iter[S] = Found[S] /\ J \cap S = J
  BY <1>1, <1>8
<1> HIDE DEF iter
<1> QED
  BY <1>2, <1>9 DEF J, price

\* A special price is the price of some offer.
LEMMA SpecialIsPrice ==
  ASSUME NEW doc, IsDocument(doc), NEW c, NEW date, NEW now
  PROVE  SpecialPrice(doc, c, date, now) \in Nat \cup {NoPrice}
<1>1. ASSUME NEW offers \in {doc.promotions, doc.corrections}
      PROVE  FirstOffered(c, offers, date, now) \in Nat \cup {NoPrice}
  <2> DEFINE J == OffersIn(c, offers, date, now)
  <2>1. offers \in Seq(Range(offers))
    BY DEF IsDocument
  <2>2. ASSUME J # {}
        PROVE  findPrice(c, offers[Min(J)].prices) \in Nat \cup {NoPrice}
    <3>1. J \in SUBSET Nat
      BY DEF OffersIn
    <3> HIDE DEF J
    <3>2. Min(J) \in J
      BY <2>2, <3>1, MinIsMember
    <3>3. offers[Min(J)] \in Range(offers)
      <4>1. PICK m : m = Min(J)
        OBVIOUS
      <4>2. m \in 1..Len(offers)
        BY <3>2, <4>1 DEF J, OffersIn
      <4>3. 1..Len(offers) = DOMAIN offers
        BY <2>1
      <4> QED
        BY <4>1, <4>2, <4>3 DEF Range
    <3>4. IsPriceList(offers[Min(J)].prices)
      BY <3>3 DEF IsDocument
    <3> QED
      BY <3>4, NamedIsFound
  <2> HIDE DEF J
  <2> QED
    BY <2>1, <2>2, FirstIsOffered DEF J
<1> QED
  BY <1>1 DEF SpecialPrice, OrElse

\* The current prices are a list of the categories of the base prices, each at
\* its special price or else at its base price.
LEMMA CurrentPrices ==
  ASSUME NEW doc, IsDocument(doc), NEW date, NEW now
  PROVE  LET prices == getExcursionPrices(doc, date, now)
         IN /\ prices.base = doc.base /\ IsPriceList(prices.current)
            /\ \A c : Named(c, prices.current) = Named(c, doc.base)
            /\ \A c : Named(c, doc.base) # {} =>
                 findPrice(c, prices.current) =
                   OrElse(SpecialPrice(doc, c, date, now),
                          findPrice(c, doc.base))
<1> DEFINE base    == doc.base
           special(c) == SpecialPrice(doc, c, date, now)
           current == [i \in DOMAIN base |->
                         [base[i] EXCEPT !.price =
                            OrElse(SpecialPrice(doc, base[i].category, date,
                                                now), @)]]
           prices  == getExcursionPrices(doc, date, now)
<1>1. prices.base = base /\ prices.current = current
  BY DEF getExcursionPrices
<1>2. /\ Len(base) \in Nat /\ DOMAIN base = 1..Len(base)
      /\ Len(current) = Len(base) /\ DOMAIN current = 1..Len(base)
  BY DEF IsDocument, IsPriceList
<1>3. ASSUME NEW i \in 1..Len(base)
      PROVE  /\ base[i] = [category |-> base[i].category,
                           price |-> base[i].price]
             /\ base[i].price \in Nat /\ base[i].price # NoPrice
  BY <1>2 DEF Range, IsDocument, IsPriceList
<1>4. ASSUME NEW i \in 1..Len(base)
      PROVE  current[i] = [category |-> base[i].category,
                           price |-> OrElse(special(base[i].category),
                                            base[i].price)]
  <2>1. PICK v : v = OrElse(special(base[i].category), base[i].price)
    OBVIOUS
  <2>2. current[i] = [base[i] EXCEPT !.price = v]
    BY <1>2, <2>1
  <2> HIDE DEF base, special, current, prices
  <2>3. base[i] = [category |-> base[i].category, price |-> base[i].price]
    BY <1>3
  <2>4. [base[i] EXCEPT !.price = v]
          = [category |-> base[i].category, price |-> v]
    BY <2>3
  <2> QED
    BY <2>1, <2>2, <2>4
<1>5. ASSUME NEW i \in 1..Len(base)
      PROVE  /\ current[i].category = base[i].category
             /\ current[i].price = OrElse(special(base[i].category),
                                          base[i].price)
             /\ current[i] = [category |-> current[i].category,
                              price |-> current[i].price]
             /\ current[i].price \in Nat /\ current[i].price # NoPrice
  <2> DEFINE v == OrElse(special(base[i].category), base[i].price)
  <2>1. special(base[i].category) \in Nat \cup {NoPrice}
    BY SpecialIsPrice
  <2> HIDE DEF base, special, current, prices
  <2>2. v \in Nat /\ v # NoPrice
    BY <1>3, <2>1 DEF OrElse
  <2> HIDE DEF v
  <2>3. current[i] = [category |-> base[i].category, price |-> v]
    BY <1>4 DEF v
  <2>4. current[i].category = base[i].category /\ current[i].price = v
    BY <2>3
  <2> QED
    BY <2>2, <2>3, <2>4 DEF v
<1> HIDE DEF special, current, base, prices
<1>6. IsPriceList(current)
  <2>1. current \in Seq(Range(current))
    <3>1. current = [i \in 1..Len(base) |-> current[i]]
      BY <1>2 DEF current
    <3>2. \A i \in 1..Len(base) : current[i] \in Range(current)
      BY <1>2 DEF Range
    <3> QED
      BY <1>2, <3>1, <3>2
  <2> QED
    BY <1>2, <1>5, <2>1 DEF IsPriceList, Range
<1>7. ASSUME NEW c
      PROVE  Named(c, current) = Named(c, base)
  BY <1>2, <1>5 DEF Named
<1>8. ASSUME NEW c, Named(c, base) # {}
      PROVE  findPrice(c, current) = OrElse(special(c), findPrice(c, base))
  <2> DEFINE i == Min(Named(c, base))
  <2>1. IsPriceList(base)
    BY DEF IsDocument, base
  <2>2. i \in Named(c, base) /\ findPrice(c, base) = base[i].price
    BY <1>8, <2>1, NamedIsFound
  <2>3. findPrice(c, current) = current[i].price
    BY <1>6, <1>7, <1>8, NamedIsFound
  <2> HIDE DEF i
  <2> QED
    BY <1>5, <2>2, <2>3 DEF Named
<1> QED
  BY <1>1, <1>6, <1>7, <1>8 DEF base, prices, special

-----------------------------------------------------------------------------
(***************************************************************************)
(* Totals.                                                                 *)
(***************************************************************************)
Totals(V) == [base : V, current : V]

\* Accumulated totals are the sums of what was accumulated.
LEMMA TotalsAddUp ==
  ASSUME NEW n \in Nat, NEW seq \in [1..n -> Totals(Int)]
  PROVE  FoldLeft(AddTotals, Zero, seq) =
           [base    |-> SumOf([j \in 1..n |-> seq[j].base]),
            current |-> SumOf([j \in 1..n |-> seq[j].current])]
<1> DEFINE S  == 1..n
           fb == [j \in 1..n |-> seq[j].base]
           fc == [j \in 1..n |-> seq[j].current]
           IsIter(g) ==
             g = [s \in SUBSET DOMAIN seq |->
                    IF s = {} THEN Zero
                    ELSE AddTotals(g[s \ {Max(s)}], seq[Max(s)])]
           iter == CHOOSE g : IsIter(g)
<1>1. IsFiniteSet(S) /\ DOMAIN seq = S
  BY FS_Interval
<1>2. fb \in [S -> Int] /\ fc \in [S -> Int]
  BY DEF Totals
<1>3. PICK gb : Sums(fb, gb) /\ SumOf(fb) = gb[S]
  <2> HIDE DEF fb, S
  <2> QED
    BY <1>1, <1>2, SumsExist
<1>4. PICK gc : Sums(fc, gc) /\ SumOf(fc) = gc[S]
  <2> HIDE DEF fc, S
  <2> QED
    BY <1>1, <1>2, SumsExist
<1> DEFINE sums == [s \in SUBSET S |-> [base |-> gb[s], current |-> gc[s]]]
<1>5. FoldLeft(AddTotals, Zero, seq) = iter[S]
  BY <1>1 DEF FoldLeft, MapThenFoldSet
<1>6. ASSUME NEW s \in SUBSET S, s # {}
      PROVE  /\ Max(s) \in s
             /\ sums[s] = AddTotals(sums[s \ {Max(s)}], seq[Max(s)])
  <2>1. Max(s) \in s
    BY <1>6, MaxIsMember
  <2> DEFINE m == Max(s)
             t == s \ {m}
  <2> HIDE DEF m
  <2>2. m \in S /\ m \in s
    BY <2>1 DEF m
  <2>3. gb[s] = fb[m] + gb[t] /\ fb[m] \in Int /\ gb[t] \in Int
    BY <1>2, <1>3, <2>2 DEF Sums
  <2>4. gc[s] = fc[m] + gc[t] /\ fc[m] \in Int /\ gc[t] \in Int
    BY <1>2, <1>4, <2>2 DEF Sums
  <2>5. fb[m] = seq[m].base /\ fc[m] = seq[m].current
    BY <2>2
  <2>6. sums[s] = [base |-> gb[s], current |-> gc[s]]
    OBVIOUS
  <2>7. sums[t] = [base |-> gb[t], current |-> gc[t]]
    OBVIOUS
  <2> HIDE DEF sums, fb, fc, t
  <2>8. sums[s] = AddTotals(sums[t], seq[m])
    BY <2>3, <2>4, <2>5, <2>6, <2>7 DEF AddTotals
  <2> QED
    BY <2>1, <2>8 DEF m, t
<1>7. sums[{}] = Zero
  BY <1>3, <1>4 DEF Sums, Zero
<1>8. IsIter(sums)
  <2>1. sums = [s \in SUBSET S |-> sums[s]]
    OBVIOUS
  <2> HIDE DEF sums
  <2> QED
    BY <1>1, <1>6, <1>7, <2>1
<1>9. IsIter(iter)
  <2> HIDE DEF IsIter, sums
  <2> QED
    BY <1>8
<1> DEFINE G == {s \in SUBSET S : iter[s] = sums[s]}
<1>10. ASSUME NEW s \in SUBSET S, \A t \in SUBSET s : t # s => t \in G
       PROVE  iter[s] = sums[s]
  <2> HIDE DEF iter, sums
  <2>1. CASE s = {}
    BY <1>1, <1>7, <1>9, <2>1
  <2>2. CASE s # {}
    <3>1. iter[s \ {Max(s)}] = sums[s \ {Max(s)}]
      BY <1>6, <1>10, <2>2
    <3>2. iter[s] = AddTotals(iter[s \ {Max(s)}], seq[Max(s)])
      BY <1>1, <1>9, <2>2
    <3>3. sums[s] = AddTotals(sums[s \ {Max(s)}], seq[Max(s)])
      BY <1>6, <2>2
    <3> QED
      BY <3>1, <3>2, <3>3
  <2> QED
    BY <2>1, <2>2
<1>11. \A s \in SUBSET S : s \in G
  <2>1. \A s \in SUBSET S : (\A t \in SUBSET s : t # s => t \in G) => s \in G
    BY <1>10
  <2>2. IsFiniteSet(S)
    BY <1>1
  <2> HIDE DEF G, S
  <2> QED
    BY <2>1, <2>2, SetInduction
<1>12. iter[S] = [base |-> gb[S], current |-> gc[S]]
  <2> HIDE DEF iter
  <2> QED
    BY <1>11
<1> HIDE DEF iter, sums, fb, fc
<1> QED
  BY <1>3, <1>4, <1>5, <1>12 DEF fb, fc

\* What the rows of participants cost at the prices of a list.
Costs(people, list) ==
  [j \in DOMAIN people |->
     findPrice(people[j].category, list) * people[j].quantity]

\* The rows of n kinds of participants, with how many there are of each.
AreParticipants(people, n) ==
  DOMAIN people = 1..n /\ \A j \in 1..n : people[j].quantity \in Nat

\* Every participant has a base price, and the totals of a service are the sums
\* of what its participants cost.
AddUp(doc, prices, people, n) ==
  /\ \A j \in 1..n : Named(people[j].category, doc.base) # {}
  /\ Costs(people, prices.base) \in [1..n -> Nat]
  /\ Costs(people, prices.current) \in [1..n -> Nat]
  /\ ServiceTotals(prices, people)
       = [base    |-> SumOf(Costs(people, prices.base)),
          current |-> SumOf(Costs(people, prices.current))]
  /\ ServiceTotals(prices, people) \in Totals(Nat)

\* So it is if no price is missing.
LEMMA ServiceTotalsAddUp ==
  ASSUME NEW doc, IsDocument(doc), NEW date, NEW now,
         NEW prices, prices = getExcursionPrices(doc, date, now),
         NEW n \in Nat, NEW people, AreParticipants(people, n),
         ~PriceMissing(prices, people)
  PROVE  AddUp(doc, prices, people, n)
<1> DEFINE b == Costs(people, prices.base)
           d == Costs(people, prices.current)
           data == servicePriceData(prices, people)
<1> USE DEF AreParticipants
<1>1. /\ prices.base = doc.base
      /\ IsPriceList(prices.base) /\ IsPriceList(prices.current)
  BY CurrentPrices DEF IsDocument
<1>2. ASSUME NEW j \in 1..n
      PROVE  /\ Named(people[j].category, doc.base) # {}
             /\ findPrice(people[j].category, prices.base) \in Nat
             /\ findPrice(people[j].category, prices.current) \in Nat
             /\ people[j].quantity \in Nat
  BY <1>1, NamedIsFound DEF PriceMissing
<1>3. ASSUME NEW x \in Nat, NEW y \in Nat PROVE x * y \in Nat
  BY <1>3
<1>4. b \in [1..n -> Nat] /\ d \in [1..n -> Nat]
  BY <1>2, <1>3 DEF Costs
<1>5. data = [j \in 1..n |-> [base |-> b[j], current |-> d[j]]]
  BY DEF servicePriceData, Costs
<1> HIDE DEF b, d, data
<1>6. data \in [1..n -> Totals(Int)]
  BY <1>4, <1>5 DEF Totals
<1>7. /\ [j \in 1..n |-> data[j].base] = b
      /\ [j \in 1..n |-> data[j].current] = d
  BY <1>4, <1>5
<1>8. ServiceTotals(prices, people) = [base |-> SumOf(b), current |-> SumOf(d)]
  BY <1>6, <1>7, TotalsAddUp DEF ServiceTotals, data
<1>9. SumOf(b) \in Nat /\ SumOf(d) \in Nat
  <2>1. IsFiniteSet(1..n)
    BY FS_Interval
  <2> QED
    BY <1>4, <2>1, SumIsNat
<1>10. ServiceTotals(prices, people) \in Totals(Nat)
  BY <1>8, <1>9 DEF Totals
<1> QED
  BY <1>2, <1>4, <1>8, <1>10 DEF b, d, AddUp
=============================================================================
