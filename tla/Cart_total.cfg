\* Two overlapping requests leave a total that is not the sum.
SPECIFICATION Spec
CONSTANTS
  Requests = {r1, r2}
  Owners = {o1}
  OldOwner <- OneCart
  OldRow <- OneItem
  Services = {s1}
  Slots = {t1, t2}
  Prices <- AddedPrice
  NewPrices <- UpdatedPrice
  MaxFailures = 0
  NoOwner = NoOwner
  NoItem = NoItem
  NoCart = NoCart
  o1 = o1
  c1 = c1
  i1 = i1
  s1 = s1
  t1 = t1
INVARIANT TotalIsSum
\* Requests are finitely many: when they have all ended the system stops.
CHECK_DEADLOCK FALSE
