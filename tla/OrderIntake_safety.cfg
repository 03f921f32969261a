\* One order of a cart with up to three items, while requests change the cart,
\* a day passes and offers begin and end.
SPECIFICATION Spec
CONSTANTS
  Orders = {k1}
  Carts = {c1}
  Items = {i1, i2, i3}
  Services = {s1, s2}
  Slots = {t1, t2}
  WeekdayOf <- Weekday
  DateOf <- Date
  Options <- Asked
  Catalogues <- Documents
  StartCarts <- NoneOrOne
  StartItems <- Tables
  MaxTime = 1
  MaxFailures = 1
  NoPrice = NoPrice
  NoItem = NoItem
  NoDocument = NoDocument
  c1 = c1
  i1 = i1
  i2 = i2
  i3 = i3
  s1 = s1
  s2 = s2
  t1 = t1
  t2 = t2
  adult = adult
  child = child
  today = today
  tomorrow = tomorrow
INVARIANTS
  TypeOK
  PriceIsInForce
  TotalIsSumOfServices
  OrderIsItsCart
  RefusedOnlyWithoutPrice
  CartAgreesWithOrder
\* Days end and requests end: then the system stops.
CHECK_DEADLOCK FALSE
