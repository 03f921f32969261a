------------------------------ MODULE Session ------------------------------
(***************************************************************************)
(* Accounts and sessions: POST /auth/register, /auth/login, /auth/refresh  *)
(* and /auth/logout (AuthService over UserService, SessionService and      *)
(* TokenService), POST /user, and the account that an order creates for an *)
(* e-mail that has none (OrderService.createOrder).                        *)
(*                                                                         *)
(* One action per awaited statement; each commits by itself.  A refresh    *)
(* token is a JSON web token of the user and the second it was issued in,  *)
(* so two tokens of one user and second are the same token.  A session row *)
(* keeps the current token of a device; a refresh exchanges it for         *)
(* another.  A request creates at most one account and one session, which  *)
(* bear its name.  An account stands for its e-mail.                       *)
(***************************************************************************)
EXTENDS Naturals, FiniteSets

CONSTANTS Requests,     \* requests to /auth, and orders
          Users,        \* e-mails
          TokenLife,    \* seconds a refresh token verifies
          SessionLife,  \* seconds a session lasts from its last token
          MaxTime,      \* bound: the last second
          MaxFailures,  \* bound: how many requests may fail
          NoUser, NoRequest, NoToken

ASSUME TimeAssumption ==
  {TokenLife, SessionLife, MaxTime, MaxFailures} \subseteq Nat
\* At any time only finitely many requests have arrived.
ASSUME RequestsAssumption == IsFiniteSet(Requests)
ASSUME NoNamesAssumption ==
  /\ NoUser \notin Users /\ NoRequest \notin Requests
  /\ NoToken \notin [user : Users, iat : 0..MaxTime]

VARIABLES now,       \* the clock, in seconds
          creator,   \* users: the request that created each account
          sessions,  \* sessions, by the request that created them
          pc,        \* where each request stands
          req,       \* what it asks for, once it has arrived
          loc,       \* its local variables
          failures   \* requests that failed so far

rowVars == <<creator, sessions>>
reqVars == <<pc, req, loc>>
vars    == <<now, rowVars, reqVars, failures>>

Token   == [user : Users, iat : 0..MaxTime]
Session == [user : Users, token : Token, active : BOOLEAN]

\* A row that does not exist.
NoSession == [user |-> NoUser, token |-> NoToken, active |-> FALSE]

Op == {"register", "create", "order", "login", "refresh", "logout"}

Position == {"idle", "register", "findUser", "createUser", "issue",
             "createSession", "findSession", "updateSession", "expire",
             "endSession", "answered", "refused", "tryAgain", "failed"}

\* lookup and creating are the two branches of register.
Request == [op : Op \cup {"none"}, user : Users \cup {NoUser},
            old : Token \cup {NoToken}]
Local   == [lookup : {"none", "pending", "found", "notFound"},
            creating : BOOLEAN, session : Requests \cup {NoRequest},
            new : Token \cup {NoToken}]

Init ==
  /\ now = 0
  /\ creator = [u \in Users |-> NoRequest]
  /\ sessions = [x \in Requests |-> NoSession]
  /\ pc = [r \in Requests |-> "idle"]
  /\ req = [r \in Requests |-> [op |-> "none", user |-> NoUser,
                                old |-> NoToken]]
  /\ loc = [r \in Requests |-> [lookup |-> "none", creating |-> FALSE,
                                session |-> NoRequest, new |-> NoToken]]
  /\ failures = 0

-----------------------------------------------------------------------------
\* Sessions with token t; the unique index keeps them to one.
Holding(t) == {x \in Requests : sessions[x].token = t}

\* Tokens that customers were given.
Given == {loc[r].new : r \in {q \in Requests : pc[q] = "answered"}} \ {NoToken}

\* jwt.verify, and sessions.expires_at: the latter is computed in the stretch of
\* code that issues the session's token and always written with it.
Verifies(t) == now < t.iat + TokenLife
Expired(t)  == now >= t.iat + SessionLife

Goto(r, l) == pc' = [pc EXCEPT ![r] = l]

-----------------------------------------------------------------------------
(***************************************************************************)
(* Arrivals.  A token is verified before the first statement.              *)
(***************************************************************************)
Begin(r, op, u, t, l) ==
  /\ pc[r] = "idle"
  /\ req' = [req EXCEPT ![r] = [op |-> op, user |-> u, old |-> t]]
  /\ Goto(r, l)
  /\ UNCHANGED <<now, rowVars, failures>>

Register(r, u) ==
  /\ Begin(r, "register", u, NoToken, "register")
  /\ loc' = [loc EXCEPT ![r] = [@ EXCEPT !.lookup = "pending",
                                         !.creating = TRUE]]

Enter(r, u) ==
  /\ \/ Begin(r, "login", u, NoToken, "findUser")
     \/ Begin(r, "order", u, NoToken, "findUser")
     \/ Begin(r, "create", u, NoToken, "createUser")
  /\ UNCHANGED loc

Present(r, t) ==
  /\ IF Verifies(t)
     THEN \/ Begin(r, "refresh", t.user, t, "findSession")
          \/ Begin(r, "logout", t.user, t, "endSession")
     ELSE \E op \in {"refresh", "logout"} : Begin(r, op, t.user, t, "failed")
  /\ UNCHANGED loc

-----------------------------------------------------------------------------
(***************************************************************************)
(* register: the e-mail is looked up and the account created in parallel   *)
(* (Promise.all); when one of them fails the request is answered, but the  *)
(* other still runs.                                                       *)
(***************************************************************************)
RegisterLookUp(r) ==
  /\ loc[r].lookup = "pending"
  /\ loc' = [loc EXCEPT ![r].lookup = IF creator[req[r].user] = NoRequest
                                      THEN "notFound" ELSE "found"]
  /\ UNCHANGED <<now, rowVars, pc, req, failures>>

UpsertUser(r) ==
  /\ loc[r].creating
  /\ creator' = [creator EXCEPT ![req[r].user] = r]
  /\ loc' = [loc EXCEPT ![r].creating = FALSE]
  /\ UNCHANGED <<now, sessions, pc, req, failures>>

RegisterCreate(r) ==
  LET u == req[r].user
  IN /\ loc[r].creating
     /\ loc' = [loc EXCEPT ![r].creating = FALSE]
     /\ \/ /\ creator[u] = NoRequest
           /\ creator' = [creator EXCEPT ![u] = r]
           /\ UNCHANGED pc
        \/ /\ creator[u] # NoRequest                                \* P2002
           /\ Goto(r, IF pc[r] = "register" THEN "refused" ELSE pc[r])
           /\ UNCHANGED creator
     /\ UNCHANGED <<now, sessions, req, failures>>

RegisterJoin(r) ==
  /\ pc[r] = "register"
  /\ loc[r].lookup # "pending" /\ ~loc[r].creating
  /\ Goto(r, IF loc[r].lookup = "found" THEN "refused" ELSE "issue")
  /\ UNCHANGED <<now, rowVars, req, loc, failures>>

-----------------------------------------------------------------------------
(***************************************************************************)
(* login, and the account an order needs.  Whether the password is right   *)
(* is left open.                                                           *)
(***************************************************************************)
FindUser(r) ==
  LET exists == creator[req[r].user] # NoRequest
  IN /\ pc[r] = "findUser"
     /\ \/ req[r].op = "login" /\ exists  /\ Goto(r, "issue")
        \/ req[r].op = "login"            /\ Goto(r, "failed")
        \/ req[r].op = "order" /\ exists  /\ Goto(r, "answered")
        \/ req[r].op = "order" /\ ~exists /\ Goto(r, "createUser")
     /\ UNCHANGED <<now, rowVars, req, loc, failures>>

CreateUser(r) ==
  LET u == req[r].user
  IN /\ pc[r] = "createUser"
     /\ \/ /\ creator[u] = NoRequest
           /\ creator' = [creator EXCEPT ![u] = r]
           /\ Goto(r, "answered")
        \/ /\ creator[u] # NoRequest                                \* P2002
           /\ Goto(r, "refused")
           /\ UNCHANGED creator
     /\ UNCHANGED <<now, sessions, req, loc, failures>>

(***************************************************************************)
(* issueTokens.  A refresh checks first that the session it found has not  *)
(* expired meanwhile.                                                      *)
(***************************************************************************)
NewToken(r) ==
  [user |-> IF req[r].op = "refresh" THEN sessions[loc[r].session].user
                                     ELSE req[r].user,
   iat  |-> now]

IssueTokens(r) ==
  LET refresh == req[r].op = "refresh"
  IN /\ pc[r] = "issue"
     /\ \/ /\ refresh /\ Expired(req[r].old)
           /\ Goto(r, "expire")
           /\ UNCHANGED loc
        \/ /\ ~(refresh /\ Expired(req[r].old))
           /\ Goto(r, IF refresh THEN "updateSession" ELSE "createSession")
           /\ loc' = [loc EXCEPT ![r].new = NewToken(r)]
     /\ UNCHANGED <<now, rowVars, req, failures>>

CreateSession(r) ==
  LET t == loc[r].new
  IN /\ pc[r] = "createSession"
     /\ \/ /\ Holding(t) = {}
           /\ sessions' = [sessions EXCEPT ![r] = [user |-> req[r].user,
                                                   token |-> t,
                                                   active |-> TRUE]]
           /\ Goto(r, "answered")
        \/ /\ Holding(t) # {}                                       \* P2002
           /\ Goto(r, "failed")
           /\ UNCHANGED sessions
     /\ UNCHANGED <<now, creator, req, loc, failures>>

-----------------------------------------------------------------------------
(***************************************************************************)
(* refresh.                                                                *)
(***************************************************************************)
FindSession(r) ==
  LET t    == req[r].old
      live == {x \in Holding(t) : ~Expired(t) /\ sessions[x].active}
  IN /\ pc[r] = "findSession"
     /\ \/ /\ live = {}
           /\ Goto(r, "failed")
           /\ UNCHANGED loc
        \/ \E x \in live :
             /\ Goto(r, "issue")
             /\ loc' = [loc EXCEPT ![r].session = x]
     /\ UNCHANGED <<now, rowVars, req, failures>>

\* One of the sessions X gets r's new token, unless there is none (P2025) or
\* another session has that token (P2002).
Exchange(r, X) ==
  LET t    == loc[r].new
      free == {x \in X : Holding(t) \subseteq {x}}
  IN /\ pc[r] = "updateSession"
     /\ \/ /\ free = {}
           /\ Goto(r, "tryAgain")
           /\ UNCHANGED sessions
        \/ \E x \in free :
             /\ sessions' = [sessions EXCEPT ![x].token = t]
             /\ Goto(r, "answered")
     /\ UNCHANGED <<now, creator, req, loc, failures>>

UpdateSessionById(r) == Exchange(r, {loc[r].session})

UpdateSessionOfUser(r) ==
  Exchange(r, {x \in Requests : sessions[x].user = req[r].user})

\* The row is named by the token presented, not by the row that was found.
UpdateSession(r) == Exchange(r, Holding(req[r].old))

-----------------------------------------------------------------------------
(***************************************************************************)
(* invalidateSession, by a logout or a refresh that came too late.         *)
(***************************************************************************)
Invalidate(r, changed) ==
  LET X == Holding(req[r].old)
  IN /\ pc[r] \in {"endSession", "expire"}
     /\ sessions' = [x \in Requests |-> IF x \in X THEN changed[x]
                                                   ELSE sessions[x]]
     /\ Goto(r, IF X # {} /\ pc[r] = "endSession" THEN "answered" ELSE "failed")
     /\ UNCHANGED <<now, creator, req, loc, failures>>

ForgetToken(r) ==
  Invalidate(r, [x \in Requests |-> [sessions[x] EXCEPT !.token = NoToken]])

InvalidateSession(r) ==
  Invalidate(r, [x \in Requests |-> [sessions[x] EXCEPT !.active = FALSE]])

-----------------------------------------------------------------------------
(***************************************************************************)
(* A statement fails; what was written before it stays.  When it is        *)
(* register's lookup, the account may still be created afterwards.         *)
(***************************************************************************)
Fail(r) ==
  /\ pc[r] \notin {"idle", "answered", "refused", "tryAgain", "failed"}
  /\ failures < MaxFailures
  /\ failures' = failures + 1
  /\ Goto(r, IF pc[r] = "updateSession" THEN "tryAgain" ELSE "failed")
  /\ \E creating \in {FALSE, loc[r].creating} :
       loc' = [loc EXCEPT ![r].creating = creating]
  /\ UNCHANGED <<now, rowVars, req>>

Tick ==
  /\ now < MaxTime
  /\ now' = now + 1
  /\ UNCHANGED <<rowVars, reqVars, failures>>

Arrive(r) ==
  \/ \E u \in Users : Register(r, u) \/ Enter(r, u)
  \/ \E t \in Given : Present(r, t)

Step(r) ==
  \/ RegisterLookUp(r) \/ RegisterCreate(r) \/ RegisterJoin(r)
  \/ FindUser(r) \/ CreateUser(r) \/ IssueTokens(r) \/ CreateSession(r)
  \/ FindSession(r) \/ UpdateSession(r) \/ InvalidateSession(r)

Next ==
  \/ Tick
  \/ \E r \in Requests : Arrive(r) \/ Step(r) \/ Fail(r)

Spec == Init /\ [][Next]_vars

-----------------------------------------------------------------------------
\* Type correctness.
TypeOK ==
  /\ now \in 0..MaxTime
  /\ creator \in [Users -> Requests \cup {NoRequest}]
  /\ sessions \in [Requests -> Session \cup {NoSession}]
  /\ pc \in [Requests -> Position]
  /\ req \in [Requests -> Request]
  /\ loc \in [Requests -> Local]
  /\ failures \in 0..MaxFailures

\* However registrations, orders and new users with one e-mail overlap, the
\* account belongs to the registration that was answered (a session bears its
\* name), and who is refused is refused because there is an account.
AccountKeepsItsOwner ==
  \A r \in Requests :
    /\ req[r].op = "register" /\ pc[r] \in {"issue", "createSession", "answered"}
         => creator[req[r].user] = r
    /\ pc[r] = "refused" => creator[req[r].user] # NoRequest

\* Requests that may have ended a session: a logout, or a refresh that found its
\* session and then issued no tokens.
MayEndSession(q) ==
  \/ req[q].op = "logout"
  \/ /\ req[q].op = "refresh" /\ pc[q] = "failed"
     /\ loc[q].session # NoRequest /\ loc[q].new = NoToken

\* A token that was given with a login, a registration or a refresh works until
\* somebody presents that very token: an active session of its user has it.  No
\* request of another device takes it away, and a refresh that was overtaken
\* hands out no token that is worth nothing, unless a session of that user was
\* being ended at the time.
GivenTokenWorks ==
  \A r \in Requests :
    pc[r] = "answered" /\ loc[r].new # NoToken =>
      \/ \E x \in Holding(loc[r].new) :
           sessions[x].active /\ sessions[x].user = loc[r].new.user
      \/ \E q \in Requests \ {r} : req[q].old = loc[r].new
      \/ /\ req[r].op = "refresh"
         /\ \E q \in Requests : req[q].user = req[r].user /\ MayEndSession(q)

Issues(t)    == {r \in Requests : /\ pc[r] = "answered"
                                  /\ loc[r].new = t /\ req[r].old # t}
Exchanges(t) == {r \in Requests : /\ pc[r] = "answered"
                                  /\ req[r].op = "refresh"
                                  /\ req[r].old = t /\ loc[r].new # t}

\* A refresh token is exchanged at most once for each time it was issued, even
\* by refreshes that all found the session before any of them updated it.
ExchangedOncePerIssue ==
  \A t \in Given : Cardinality(Exchanges(t)) <= Cardinality(Issues(t))

-----------------------------------------------------------------------------
\* auth.service.ts:115 asks a customer whose session was not updated to try
\* again: the session is then still there under the token that was presented.
RetryIsPossible ==
  [][\A r \in Requests :
       pc[r] # "tryAgain" /\ pc'[r] = "tryAgain" =>
         Holding(req[r].old) # {}]_vars
=============================================================================
