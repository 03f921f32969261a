\* Four requests of any kind on one account over four seconds, one of which
\* may fail.
SPECIFICATION Spec
CONSTANTS
  Requests = {r1, r2, r3, r4}
  Users = {u1}
  TokenLife = 2
  SessionLife = 2
  MaxTime = 3
  MaxFailures = 1
  NoUser = NoUser
  NoRequest = NoRequest
  NoToken = NoToken
SYMMETRY AnyNames
INVARIANTS
  TypeOK
  AccountKeepsItsOwner
  GivenTokenWorks
  ExchangedOncePerIssue
\* Requests are finitely many: when they have all ended the system stops.
CHECK_DEADLOCK FALSE
