\* One order and up to five deliveries of its result, in flight together: a
\* prepaid order can pass its price, and lost updates can be told apart.
SPECIFICATION Spec
CONSTANTS
  Checkouts = {k1}
  Returns = {r1, r2, r3, r4, r5}
  Carts = {c1}
  Amounts <- BothAmounts
  MaxFailures = 1
  NoOrder = NoOrder
SYMMETRY AnyNames
INVARIANTS
  CreditsAreWholePayments
  StatusMatchesPaid
\* Requests are finitely many: when they have all ended the system stops.
CHECK_DEADLOCK FALSE
