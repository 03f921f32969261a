\* Two refreshes with one token: the loser is told to try again in vain.
SPECIFICATION Spec
CONSTANTS
  Requests = {r1, r2, r3}
  Users = {u1}
  TokenLife = 2
  SessionLife = 2
  MaxTime = 2
  MaxFailures = 0
  NoUser = NoUser
  NoRequest = NoRequest
  NoToken = NoToken
PROPERTY RetryIsPossible
\* Requests are finitely many: when they have all ended the system stops.
CHECK_DEADLOCK FALSE
