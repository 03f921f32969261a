\* Two requests to /cart, a checkout of any method and a return, of one cart and
\* the cart made when it is closed; statements fail in the payment service.
SPECIFICATION Spec
CONSTANTS
  Requests = {r1, r2}
  Owners = {o1}
  OldOwner <- OneCart
  OldRow <- OneItem
  Services = {s1}
  Slots = {t1, t2}
  Prices <- AddedPrice
  NewPrices <- UpdatedPrice
  MaxCartFailures = 0
  NoOwner = NoOwner
  NoItem = NoItem
  NoCart = NoCart
  Checkouts = {k1}
  WeekdayOf <- Weekday
  DateOf <- Date
  Options <- Asked
  Catalogues <- OneService
  MaxIntakeFailures = 0
  NoPrice = NoPrice
  NoDocument = NoDocument
  Returns = {q1}
  Amounts <- CartTotals
  MaxPaymentFailures = 1
  NoOrder = NoOrder
  o1 = o1
  c1 = c1
  i1 = i1
  s1 = s1
  t1 = t1
  t2 = t2
  adult = adult
  today = today
SYMMETRY AnyRequest
INVARIANTS
  ClosedCartIsOrdered
  CartIsWhatIsCharged
PROPERTIES
  CartSpec
  IntakeSpec
  PaymentSpec
\* Requests are finitely many: when they have all ended the system stops.
CHECK_DEADLOCK FALSE
