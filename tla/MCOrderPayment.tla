--------------------------- MODULE MCOrderPayment ---------------------------
(***************************************************************************)
(* Instances of OrderPayment for TLC.  10.04 EUR (and its 2.01 EUR         *)
(* prepayment, rounded up from 2.008) is a price five prepayments overshoot*)
(* and four fall short of; 50.00 EUR one that five prepayments meet.       *)
(***************************************************************************)
EXTENDS OrderPayment, TLC

\* 10.04 EUR and 50.00 EUR in tenths of a cent.
RoundedAmount == {10040}
BothAmounts   == {10040, 50000}

\* Identities carry no meaning, for the safety runs.
AnyNames == Permutations(Checkouts) \cup Permutations(Returns)
              \cup Permutations(Carts)
=============================================================================
