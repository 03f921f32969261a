------------------------------- MODULE MCShop -------------------------------
(***************************************************************************)
(* An instance of Shop for TLC: the owner o1 has an active cart with one   *)
(* item; whoever is added or updated asks for one adult.                   *)
(***************************************************************************)
EXTENDS Shop, TLC

CONSTANTS o1, c1, i1, s1, t1, t2, adult, today

OneCart == c1 :> o1
OneItem == i1 :> [cart |-> c1, key |-> <<s1, t1>>, price |-> 100]

AddedPrice   == {100}
UpdatedPrice == {200}

Weekday == 0 :> today
Date    == [t \in {t1, t2} |-> 0]
Asked   == [i \in {i1} \cup Requests |->
              <<[category |-> adult, quantity |-> IF i = i1 THEN 1 ELSE 2]>>]
OneService ==
  {s1 :> [base |-> <<[category |-> adult, price |-> 50]>>,
          promotions |-> <<>>, corrections |-> <<>>]}

\* The totals of the carts there can be: a service in two slots is at most two
\* items, of at most two adults each.
CartTotals == {0, 50, 100, 150, 200}

\* Requests to /cart carry names without meaning.  The properties treat them
\* alike and, refinements included, concern single states and steps only.
AnyRequest == Permutations(Requests)
=============================================================================
