------------------------------- MODULE MCCart -------------------------------
(***************************************************************************)
(* Instances of Cart for TLC.  The owner o1 starts with an active cart     *)
(* that holds one item.                                                    *)
(***************************************************************************)
EXTENDS Cart, TLC

CONSTANTS o1, c1, i1, s1, t1

OneCart == c1 :> o1
OneItem == i1 :> [cart |-> c1, key |-> <<s1, t1>>, price |-> 150]

\* An update always changes the price of an item.
AddedPrice   == {100}
UpdatedPrice == {250}

\* The names of requests carry no meaning, for the safety run.
AnyRequest == Permutations(Requests)
=============================================================================
