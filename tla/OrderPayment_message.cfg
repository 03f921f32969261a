\* A revisited payment URL relabels a payment that succeeded.
SPECIFICATION Spec
CONSTANTS
  Checkouts = {k1}
  Returns = {r1, r2}
  Carts = {c1}
  Amounts <- RoundedAmount
  MaxFailures = 0
  NoOrder = NoOrder
INVARIANT StatusMessageIsTrue
CHECK_DEADLOCK FALSE
