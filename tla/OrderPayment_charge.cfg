\* A prepayment is charged in full.
SPECIFICATION Spec
CONSTANTS
  Checkouts = {k1}
  Returns = {r1, r2}
  Carts = {c1}
  Amounts <- RoundedAmount
  MaxFailures = 0
  NoOrder = NoOrder
INVARIANT ChargeIsPaymentAmount
CHECK_DEADLOCK FALSE
