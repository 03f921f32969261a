\* The same result delivered twice is credited twice.
SPECIFICATION Spec
CONSTANTS
  Checkouts = {k1}
  Returns = {r1, r2}
  Carts = {c1}
  Amounts <- RoundedAmount
  MaxFailures = 0
  NoOrder = NoOrder
INVARIANT TotalPaidWithinCharge
CHECK_DEADLOCK FALSE
