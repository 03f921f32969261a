\* Two checkouts of any method, perhaps of the same cart, two return requests
\* that may carry the same result, and a failure; fairness of the requests that
\* have begun; no symmetry, since liveness is checked.
SPECIFICATION FairSpec
CONSTANTS
  Checkouts = {k1, k2}
  Returns = {r1, r2}
  Carts = {c1, c2}
  Amounts <- RoundedAmount
  MaxFailures = 1
  NoOrder = NoOrder
INVARIANTS
  TypeOK
  NoCreditWithoutCharge
  CartClosedOnlyWhenBooked
  AnsweredMeansBooked
PROPERTIES
  BookingSpec
  SuccessfulResultIsBooked
  CashOrderIsBooked
\* Requests are finitely many: when they have all ended the system stops.
CHECK_DEADLOCK FALSE
