--------------------------- MODULE SessionProofs ---------------------------
(***************************************************************************)
(* What holds of Session for any number of requests and users, and any     *)
(* lifetimes.                                                              *)
(***************************************************************************)
EXTENDS Session, FiniteSetTheorems, TLAPS

-----------------------------------------------------------------------------
(***************************************************************************)
(* The inductive invariant: where a request stands tells what it has       *)
(* learnt and written.                                                     *)
(***************************************************************************)

\* What is known of a request at each of its statements.
RequestProgress ==
  \A r \in Requests :
    /\ pc[r] = "idle" => req[r].op = "none" /\ req[r].old = NoToken
    /\ pc[r] # "idle" => req[r].op \in Op /\ req[r].user \in Users
    /\ pc[r] = "register" => req[r].op = "register"
    /\ pc[r] = "findUser" => req[r].op \in {"login", "order"}
    /\ pc[r] = "createUser" => req[r].op \in {"create", "order"}
    /\ pc[r] \in {"findSession", "updateSession", "expire"}
         => req[r].op = "refresh"
    /\ pc[r] = "endSession" => req[r].op = "logout"
    /\ req[r].op \in {"refresh", "logout"}
         => req[r].old \in Token /\ req[r].old.user = req[r].user
    /\ req[r].op = "refresh" /\ pc[r] \in {"issue", "expire"}
         => /\ loc[r].session \in Requests
            /\ sessions[loc[r].session] \in Session
            /\ sessions[loc[r].session].user = req[r].user
    /\ pc[r] \notin {"createSession", "updateSession", "answered",
                     "tryAgain", "failed"} => loc[r].new = NoToken
    /\ pc[r] \in {"createSession", "updateSession"} => loc[r].new \in Token
    /\ loc[r].new # NoToken => loc[r].new.user = req[r].user
    /\ pc[r] = "createSession" => req[r].op \in {"register", "login"}
    /\ pc[r] = "issue" => req[r].op \in {"register", "login", "refresh"}
    /\ req[r].op \notin {"refresh", "logout"} => req[r].old = NoToken
    /\ loc[r].creating => req[r].op = "register"
    /\ loc[r].lookup # "none" => req[r].op = "register"

\* The row that bears a request's name is written with its answer.
RowsAreAnswers ==
  \A r \in Requests : pc[r] # "answered" => sessions[r] = NoSession

\* A session's token is one of its own user.
TokensNameUsers ==
  \A x \in Requests :
    sessions[x] \in Session => sessions[x].user = sessions[x].token.user

\* Only a request of its user ends a session.
EndedByRequest ==
  \A x \in Requests :
    sessions[x] \in Session /\ ~sessions[x].active =>
      \E q \in Requests : /\ req[q].user = sessions[x].user
                          /\ MayEndSession(q)

\* An account that a registration has created is its own from then on.
AccountProgress ==
  \A r \in Requests :
    /\ req[r].op = "register"
         /\ pc[r] \in {"register", "issue", "createSession", "answered"}
         /\ ~loc[r].creating
       => creator[req[r].user] = r
    /\ req[r].op = "register"
         /\ pc[r] \in {"issue", "createSession", "answered"}
       => ~loc[r].creating
    /\ loc[r].lookup = "found" => creator[req[r].user] # NoRequest
    /\ pc[r] = "refused" => creator[req[r].user] # NoRequest

IInv ==
  /\ TypeOK
  /\ RequestProgress
  /\ RowsAreAnswers
  /\ TokensNameUsers
  /\ EndedByRequest
  /\ AccountProgress
  /\ GivenTokenWorks

-----------------------------------------------------------------------------
\* A missing row is no session, and a missing token no token.
LEMMA Missing == NoSession \notin Session /\ NoToken \notin Token
BY NoNamesAssumption DEF NoSession, Session, Token

\* A row that holds a token is a session.
LEMMA HoldersAreSessions ==
  ASSUME TypeOK, NEW t \in Token, NEW x \in Holding(t)
  PROVE  x \in Requests /\ sessions[x] \in Session /\ sessions[x].token = t
BY Missing DEF TypeOK, Holding, NoSession

\* Tokens that customers hold are tokens, of users.
LEMMA GivenAreTokens ==
  ASSUME TypeOK, NEW t \in Given
  PROVE  t \in Token /\ t.user \in Users
BY DEF TypeOK, Given, Local, Token

\* What register does to a request's variables keeps their type.
LEMMA LocalFields ==
  ASSUME TypeOK, NEW r \in Requests, NEW b \in BOOLEAN
  PROVE  /\ [loc EXCEPT ![r].creating = b] \in [Requests -> Local]
         /\ [loc EXCEPT ![r] = [@ EXCEPT !.lookup = "pending",
                                        !.creating = TRUE]]
              \in [Requests -> Local]
         /\ loc[r].creating \in BOOLEAN
<1>1. loc[r] \in Local
  BY DEF TypeOK
<1>2. [loc[r] EXCEPT !.creating = b] \in Local
  BY <1>1 DEF Local
<1>3. [loc[r] EXCEPT !.lookup = "pending", !.creating = TRUE] \in Local
  BY <1>1 DEF Local
<1>4. loc[r].creating \in BOOLEAN
  BY <1>1 DEF Local
<1> QED
  BY <1>2, <1>3, <1>4 DEF TypeOK

\* A request that fails keeps what it has learnt.
LEMMA FailKeeps ==
  ASSUME TypeOK, NEW r \in Requests, Fail(r)
  PROVE  /\ loc' \in [Requests -> Local]
         /\ \A q \in Requests :
              /\ loc'[q].new = loc[q].new /\ loc'[q].session = loc[q].session
              /\ loc'[q].lookup = loc[q].lookup
              /\ loc'[q].creating => loc[q].creating
<1>1. PICK c \in {FALSE, loc[r].creating} :
        loc' = [loc EXCEPT ![r].creating = c]
  BY DEF Fail
<1>2. c \in BOOLEAN
  BY LocalFields
<1>3. loc' \in [Requests -> Local]
  BY <1>1, <1>2, LocalFields
<1>4. \A q \in Requests :
        /\ loc'[q].new = loc[q].new /\ loc'[q].session = loc[q].session
        /\ loc'[q].lookup = loc[q].lookup
        /\ loc'[q].creating => loc[q].creating
  BY <1>1 DEF TypeOK, Local
<1> QED
  BY <1>3, <1>4

\* The inductive invariant holds initially.
LEMMA InitIInv == Init => IInv
<1> SUFFICES ASSUME Init
             PROVE  IInv
  OBVIOUS
<1>1. TypeOK
  BY TimeAssumption DEF Init, TypeOK, Position, NoSession, Request, Local
<1>2. RequestProgress /\ AccountProgress
  BY DEF Init, RequestProgress, AccountProgress
<1>3. RowsAreAnswers /\ TokensNameUsers /\ EndedByRequest
  BY Missing DEF Init, RowsAreAnswers, TokensNameUsers, EndedByRequest
<1>4. GivenTokenWorks
  BY DEF Init, GivenTokenWorks
<1> QED
  BY <1>1, <1>2, <1>3, <1>4 DEF IInv

(***************************************************************************)
(* The step lemmas below split Next into its actions.                      *)
(***************************************************************************)

\* Every step keeps every row and every request within its type (AuthService
\* and the services it calls).
LEMMA TypeStep ==
  ASSUME TypeOK, RequestProgress, [Next]_vars
  PROVE  TypeOK'
<1> USE DEF TypeOK, rowVars, Position
<1>1. ASSUME NEW r \in Requests, NEW u \in Users, Register(r, u)
      PROVE  TypeOK'
  <2>1. loc' \in [Requests -> Local]
    BY <1>1, LocalFields DEF Register
  <2> QED
    BY <1>1, <2>1 DEF Register, Begin, Goto, Op, Request
<1>2. ASSUME NEW r \in Requests, NEW u \in Users, Enter(r, u)
      PROVE  TypeOK'
  BY <1>2 DEF Enter, Begin, Goto, Op, Request
<1>3. ASSUME NEW r \in Requests, NEW t \in Given, Present(r, t)
      PROVE  TypeOK'
  BY <1>3, GivenAreTokens DEF Present, Begin, Goto, Op, Request
<1>4. ASSUME NEW r \in Requests, RegisterLookUp(r)
      PROVE  TypeOK'
  BY <1>4 DEF RegisterLookUp, Local
<1>5. ASSUME NEW r \in Requests, RegisterCreate(r)
      PROVE  TypeOK'
  <2>1. loc' \in [Requests -> Local]
    BY <1>5, LocalFields DEF RegisterCreate
  <2>2. req[r].user \in Users /\ req' = req
    BY <1>5 DEF RegisterCreate, RequestProgress, Local, Op
  <2> QED
    BY <1>5, <2>1, <2>2 DEF RegisterCreate, Goto
<1>6. ASSUME NEW r \in Requests, RegisterJoin(r)
      PROVE  TypeOK'
  BY <1>6 DEF RegisterJoin, Goto
<1>7. ASSUME NEW r \in Requests, FindUser(r)
      PROVE  TypeOK'
  BY <1>7 DEF FindUser, Goto
<1>8. ASSUME NEW r \in Requests, CreateUser(r)
      PROVE  TypeOK'
  BY <1>8 DEF CreateUser, Goto
<1>9. ASSUME NEW r \in Requests, IssueTokens(r)
      PROVE  TypeOK'
  <2>1. NewToken(r) \in Token
    BY <1>9 DEF IssueTokens, NewToken, RequestProgress, Token
  <2> QED
    BY <1>9, <2>1 DEF IssueTokens, Goto, Local
<1>10. ASSUME NEW r \in Requests, CreateSession(r)
       PROVE  TypeOK'
  <2>1. req[r].user \in Users /\ loc[r].new \in Token
    BY <1>10 DEF CreateSession, RequestProgress
  <2>2. [user |-> req[r].user, token |-> loc[r].new, active |-> TRUE]
          \in Session
    BY <2>1 DEF Session
  <2>3. sessions' \in [Requests -> Session \cup {NoSession}]
    BY <1>10, <2>2 DEF CreateSession
  <2> QED
    BY <1>10, <2>3 DEF CreateSession, Goto
<1>11. ASSUME NEW r \in Requests, FindSession(r)
       PROVE  TypeOK'
  BY <1>11 DEF FindSession, Goto, Holding, Local
<1>12. ASSUME NEW r \in Requests, UpdateSession(r)
       PROVE  TypeOK'
  <2>1. req[r].old \in Token /\ loc[r].new \in Token
    BY <1>12 DEF UpdateSession, Exchange, RequestProgress
  <2>2. ASSUME NEW x \in Holding(req[r].old)
        PROVE  [sessions EXCEPT ![x].token = loc[r].new]
                 \in [Requests -> Session \cup {NoSession}]
    BY <2>1, HoldersAreSessions DEF Session
  <2> QED
    BY <1>12, <2>2 DEF UpdateSession, Exchange, Goto
<1>13. ASSUME NEW r \in Requests, InvalidateSession(r)
       PROVE  TypeOK'
  <2>1. req[r].old \in Token
    BY <1>13 DEF InvalidateSession, Invalidate, RequestProgress
  <2>2. \A x \in Holding(req[r].old) : sessions[x] \in Session
    BY <2>1, HoldersAreSessions
  <2>3. sessions' \in [Requests -> Session \cup {NoSession}]
    BY <1>13, <2>2 DEF InvalidateSession, Invalidate, Session
  <2> QED
    BY <1>13, <2>3 DEF InvalidateSession, Invalidate, Goto
<1>14. ASSUME NEW r \in Requests, Fail(r)
       PROVE  TypeOK'
  <2>1. loc' \in [Requests -> Local]
    BY <1>14, FailKeeps
  <2>2. failures' \in 0..MaxFailures
    BY <1>14, TimeAssumption DEF Fail
  <2> QED
    BY <1>14, <2>1, <2>2 DEF Fail, Goto
<1>15. CASE Tick
  BY <1>15, TimeAssumption DEF Tick, rowVars, reqVars
<1>16. CASE UNCHANGED vars
  BY <1>16, TimeAssumption DEF vars, rowVars, reqVars
<1> QED
  BY <1>1, <1>2, <1>3, <1>4, <1>5, <1>6, <1>7, <1>8,
     <1>9, <1>10, <1>11, <1>12, <1>13, <1>14, <1>15, <1>16
     DEF Next, Arrive, Step

\* A refresh and a logout leave every session a session of its user.
LEMMA SessionsStay ==
  ASSUME IInv, NEW r \in Requests, UpdateSession(r) \/ InvalidateSession(r)
  PROVE  \A y \in Requests : sessions[y] \in Session =>
           sessions'[y] \in Session /\ sessions'[y].user = sessions[y].user
<1> USE DEF IInv, TypeOK
<1>1. CASE UpdateSession(r)
  <2>1. req[r].old \in Token /\ loc[r].new \in Token
    BY <1>1 DEF UpdateSession, Exchange, RequestProgress
  <2>2. ASSUME NEW x \in Holding(req[r].old),
               sessions' = [sessions EXCEPT ![x].token = loc[r].new],
               NEW y \in Requests, sessions[y] \in Session
        PROVE  sessions'[y] \in Session /\ sessions'[y].user = sessions[y].user
    BY <2>1, <2>2 DEF Session
  <2> QED
    BY <1>1, <2>2 DEF UpdateSession, Exchange
<1>2. CASE InvalidateSession(r)
  BY <1>2 DEF InvalidateSession, Invalidate, Session
<1> QED
  BY <1>1, <1>2

\* Every step keeps what is known of each request.
LEMMA RequestProgressStep ==
  ASSUME IInv, [Next]_vars
  PROVE  RequestProgress'
<1> USE DEF IInv, TypeOK, RequestProgress, Request, Local, rowVars
<1>1. ASSUME NEW r \in Requests, NEW u \in Users, Register(r, u)
      PROVE  RequestProgress'
  BY <1>1 DEF Register, Begin, Goto, Op
<1>2. ASSUME NEW r \in Requests, NEW u \in Users, Enter(r, u)
      PROVE  RequestProgress'
  BY <1>2 DEF Enter, Begin, Goto, Op
<1>3. ASSUME NEW r \in Requests, NEW t \in Given, Present(r, t)
      PROVE  RequestProgress'
  BY <1>3, GivenAreTokens, Missing DEF Present, Begin, Goto, Op
<1>4. ASSUME NEW r \in Requests, RegisterLookUp(r)
      PROVE  RequestProgress'
  BY <1>4 DEF RegisterLookUp
<1>5. ASSUME NEW r \in Requests, RegisterCreate(r)
      PROVE  RequestProgress'
  BY <1>5 DEF RegisterCreate, Goto
<1>6. ASSUME NEW r \in Requests, RegisterJoin(r)
      PROVE  RequestProgress'
  BY <1>6 DEF RegisterJoin, Goto
<1>7. ASSUME NEW r \in Requests, FindUser(r)
      PROVE  RequestProgress'
  BY <1>7 DEF FindUser, Goto
<1>8. ASSUME NEW r \in Requests, CreateUser(r)
      PROVE  RequestProgress'
  BY <1>8 DEF CreateUser, Goto
<1>9. ASSUME NEW r \in Requests, IssueTokens(r)
      PROVE  RequestProgress'
  <2>1. NewToken(r) \in Token /\ NewToken(r).user = req[r].user
    BY <1>9 DEF IssueTokens, NewToken, Token
  <2> QED
    BY <1>9, <2>1 DEF IssueTokens, Goto
<1>10. ASSUME NEW r \in Requests, CreateSession(r)
       PROVE  RequestProgress'
  <2>1. sessions[r] = NoSession
    BY <1>10 DEF CreateSession, RowsAreAnswers
  <2>2. \A x \in Requests : sessions[x] \in Session => sessions'[x] = sessions[x]
    BY <1>10, <2>1, Missing DEF CreateSession
  <2> QED
    BY <1>10, <2>2 DEF CreateSession, Goto
<1>11. ASSUME NEW r \in Requests, FindSession(r)
       PROVE  RequestProgress'
  <2>1. req[r].old \in Token /\ req[r].op = "refresh"
    BY <1>11 DEF FindSession
  <2>2. \A x \in Holding(req[r].old) :
          /\ x \in Requests /\ sessions[x] \in Session
          /\ sessions[x].user = req[r].user
    BY <2>1, HoldersAreSessions DEF TokensNameUsers
  <2> QED
    BY <1>11, <2>1, <2>2 DEF FindSession, Goto
<1>12. ASSUME NEW r \in Requests, UpdateSession(r)
       PROVE  RequestProgress'
  <2>1. \A y \in Requests : sessions[y] \in Session =>
          sessions'[y] \in Session /\ sessions'[y].user = sessions[y].user
    BY <1>12, SessionsStay
  <2>2. /\ pc[r] = "updateSession" /\ req' = req /\ loc' = loc
        /\ \E l \in {"answered", "tryAgain"} : pc' = [pc EXCEPT ![r] = l]
    BY <1>12 DEF UpdateSession, Exchange, Goto
  <2> QED
    BY <2>1, <2>2
<1>13. ASSUME NEW r \in Requests, InvalidateSession(r)
       PROVE  RequestProgress'
  <2>1. \A y \in Requests : sessions[y] \in Session =>
          sessions'[y] \in Session /\ sessions'[y].user = sessions[y].user
    BY <1>13, SessionsStay
  <2>2. /\ pc[r] \in {"endSession", "expire"} /\ req' = req /\ loc' = loc
        /\ \E l \in {"answered", "failed"} : pc' = [pc EXCEPT ![r] = l]
    BY <1>13 DEF InvalidateSession, Invalidate, Goto
  <2> QED
    BY <2>1, <2>2
<1>14. ASSUME NEW r \in Requests, Fail(r)
       PROVE  RequestProgress'
  <2>1. \A q \in Requests :
          /\ loc'[q].new = loc[q].new /\ loc'[q].session = loc[q].session
          /\ loc'[q].lookup = loc[q].lookup
          /\ loc'[q].creating => loc[q].creating
    BY <1>14, FailKeeps
  <2>2. /\ pc[r] # "idle" /\ req' = req /\ sessions' = sessions
        /\ \E l \in {"tryAgain", "failed"} : pc' = [pc EXCEPT ![r] = l]
    BY <1>14 DEF Fail, Goto
  <2> QED
    BY <2>1, <2>2
<1>15. CASE Tick
  BY <1>15 DEF Tick, rowVars, reqVars
<1>16. CASE UNCHANGED vars
  BY <1>16 DEF vars, rowVars, reqVars
<1> QED
  BY <1>1, <1>2, <1>3, <1>4, <1>5, <1>6, <1>7, <1>8,
     <1>9, <1>10, <1>11, <1>12, <1>13, <1>14, <1>15, <1>16
     DEF Next, Arrive, Step

\* Every row is written with the answer of the request whose name it bears.
LEMMA RowsStep ==
  ASSUME IInv, [Next]_vars
  PROVE  RowsAreAnswers'
<1> USE DEF IInv, TypeOK, RowsAreAnswers, rowVars
<1>1. ASSUME NEW r \in Requests, NEW u \in Users, Register(r, u)
      PROVE  RowsAreAnswers'
  BY <1>1 DEF Register, Begin, Goto
<1>2. ASSUME NEW r \in Requests, NEW u \in Users, Enter(r, u)
      PROVE  RowsAreAnswers'
  BY <1>2 DEF Enter, Begin, Goto
<1>3. ASSUME NEW r \in Requests, NEW t \in Given, Present(r, t)
      PROVE  RowsAreAnswers'
  BY <1>3 DEF Present, Begin, Goto
<1>4. ASSUME NEW r \in Requests, RegisterLookUp(r)
      PROVE  RowsAreAnswers'
  BY <1>4 DEF RegisterLookUp
<1>5. ASSUME NEW r \in Requests, RegisterCreate(r)
      PROVE  RowsAreAnswers'
  BY <1>5 DEF RegisterCreate, Goto
<1>6. ASSUME NEW r \in Requests, RegisterJoin(r)
      PROVE  RowsAreAnswers'
  BY <1>6 DEF RegisterJoin, Goto
<1>7. ASSUME NEW r \in Requests, FindUser(r)
      PROVE  RowsAreAnswers'
  BY <1>7 DEF FindUser, Goto
<1>8. ASSUME NEW r \in Requests, CreateUser(r)
      PROVE  RowsAreAnswers'
  BY <1>8 DEF CreateUser, Goto
<1>9. ASSUME NEW r \in Requests, IssueTokens(r)
      PROVE  RowsAreAnswers'
  BY <1>9 DEF IssueTokens, Goto
<1>10. ASSUME NEW r \in Requests, CreateSession(r)
       PROVE  RowsAreAnswers'
  BY <1>10 DEF CreateSession, Goto
<1>11. ASSUME NEW r \in Requests, FindSession(r)
       PROVE  RowsAreAnswers'
  BY <1>11 DEF FindSession, Goto
<1>12. ASSUME NEW r \in Requests, UpdateSession(r)
       PROVE  RowsAreAnswers'
  <2>1. req[r].old \in Token
    BY <1>12 DEF UpdateSession, Exchange, RequestProgress
  <2>2. \A x \in Holding(req[r].old) : pc[x] = "answered"
    BY <2>1, HoldersAreSessions, Missing
  <2> QED
    BY <1>12, <2>2 DEF UpdateSession, Exchange, Goto
<1>13. ASSUME NEW r \in Requests, InvalidateSession(r)
       PROVE  RowsAreAnswers'
  <2>1. req[r].old \in Token
    BY <1>13 DEF InvalidateSession, Invalidate, RequestProgress
  <2>2. \A x \in Holding(req[r].old) : pc[x] = "answered"
    BY <2>1, HoldersAreSessions, Missing
  <2> QED
    BY <1>13, <2>2 DEF InvalidateSession, Invalidate, Goto
<1>14. ASSUME NEW r \in Requests, Fail(r)
       PROVE  RowsAreAnswers'
  BY <1>14 DEF Fail, Goto
<1>15. CASE Tick
  BY <1>15 DEF Tick, rowVars, reqVars
<1>16. CASE UNCHANGED vars
  BY <1>16 DEF vars, rowVars, reqVars
<1> QED
  BY <1>1, <1>2, <1>3, <1>4, <1>5, <1>6, <1>7, <1>8,
     <1>9, <1>10, <1>11, <1>12, <1>13, <1>14, <1>15, <1>16
     DEF Next, Arrive, Step

\* Every step leaves a session's token with its user.
LEMMA TokensNameUsersStep ==
  ASSUME IInv, [Next]_vars
  PROVE  TokensNameUsers'
<1> USE Missing DEF IInv, TypeOK, TokensNameUsers, rowVars
<1>1. ASSUME NEW r \in Requests, NEW u \in Users, Register(r, u)
      PROVE  TokensNameUsers'
  BY <1>1 DEF Register, Begin, Goto
<1>2. ASSUME NEW r \in Requests, NEW u \in Users, Enter(r, u)
      PROVE  TokensNameUsers'
  BY <1>2 DEF Enter, Begin, Goto
<1>3. ASSUME NEW r \in Requests, NEW t \in Given, Present(r, t)
      PROVE  TokensNameUsers'
  BY <1>3 DEF Present, Begin, Goto
<1>4. ASSUME NEW r \in Requests, RegisterLookUp(r)
      PROVE  TokensNameUsers'
  BY <1>4 DEF RegisterLookUp
<1>5. ASSUME NEW r \in Requests, RegisterCreate(r)
      PROVE  TokensNameUsers'
  BY <1>5 DEF RegisterCreate, Goto
<1>6. ASSUME NEW r \in Requests, RegisterJoin(r)
      PROVE  TokensNameUsers'
  BY <1>6 DEF RegisterJoin, Goto
<1>7. ASSUME NEW r \in Requests, FindUser(r)
      PROVE  TokensNameUsers'
  BY <1>7 DEF FindUser, Goto
<1>8. ASSUME NEW r \in Requests, CreateUser(r)
      PROVE  TokensNameUsers'
  BY <1>8 DEF CreateUser, Goto
<1>9. ASSUME NEW r \in Requests, IssueTokens(r)
      PROVE  TokensNameUsers'
  BY <1>9 DEF IssueTokens, Goto
<1>10. ASSUME NEW r \in Requests, CreateSession(r)
       PROVE  TokensNameUsers'
  BY <1>10 DEF CreateSession, Goto, RequestProgress, Session
<1>11. ASSUME NEW r \in Requests, FindSession(r)
       PROVE  TokensNameUsers'
  BY <1>11 DEF FindSession, Goto
<1>12. ASSUME NEW r \in Requests, UpdateSession(r)
       PROVE  TokensNameUsers'
  <2>1. /\ req[r].old \in Token /\ loc[r].new \in Token
        /\ req[r].old.user = loc[r].new.user
    BY <1>12 DEF UpdateSession, Exchange, RequestProgress
  <2>2. \A x \in Holding(req[r].old) :
          sessions[x] \in Session /\ sessions[x].user = loc[r].new.user
    BY <2>1, HoldersAreSessions
  <2>3. ASSUME NEW x \in Holding(req[r].old),
               sessions' = [sessions EXCEPT ![x].token = loc[r].new]
        PROVE  TokensNameUsers'
    BY <2>2, <2>3 DEF Session
  <2> QED
    BY <1>12, <2>3 DEF UpdateSession, Exchange
<1>13. ASSUME NEW r \in Requests, InvalidateSession(r)
       PROVE  TokensNameUsers'
  <2>1. req[r].old \in Token
    BY <1>13 DEF InvalidateSession, Invalidate, RequestProgress
  <2>2. \A x \in Holding(req[r].old) : sessions[x] \in Session
    BY <2>1, HoldersAreSessions
  <2> QED
    BY <1>13, <2>2 DEF InvalidateSession, Invalidate, Session
<1>14. ASSUME NEW r \in Requests, Fail(r)
       PROVE  TokensNameUsers'
  BY <1>14 DEF Fail, Goto
<1>15. CASE Tick
  BY <1>15 DEF Tick, rowVars, reqVars
<1>16. CASE UNCHANGED vars
  BY <1>16 DEF vars, rowVars, reqVars
<1> QED
  BY <1>1, <1>2, <1>3, <1>4, <1>5, <1>6, <1>7, <1>8,
     <1>9, <1>10, <1>11, <1>12, <1>13, <1>14, <1>15, <1>16
     DEF Next, Arrive, Step

\* What a step leaves alone: what was presented and given, and what ended a
\* session.
Kept ==
  \A q \in Requests :
    /\ req[q].old # NoToken => req'[q] = req[q]
    /\ MayEndSession(q) => MayEndSession(q)' /\ req'[q] = req[q]
    /\ pc[q] = "answered" => req'[q] = req[q] /\ loc'[q].new = loc[q].new

\* No step takes any of that back.
LEMMA KeptStep ==
  ASSUME IInv, [Next]_vars
  PROVE  Kept
<1> USE DEF IInv, TypeOK, RequestProgress, Kept, MayEndSession, Local, rowVars
<1>1. ASSUME NEW r \in Requests, NEW u \in Users, Register(r, u)
      PROVE  Kept
  BY <1>1 DEF Register, Begin, Goto
<1>2. ASSUME NEW r \in Requests, NEW u \in Users, Enter(r, u)
      PROVE  Kept
  BY <1>2 DEF Enter, Begin, Goto
<1>3. ASSUME NEW r \in Requests, NEW t \in Given, Present(r, t)
      PROVE  Kept
  BY <1>3 DEF Present, Begin, Goto
<1>4. ASSUME NEW r \in Requests, RegisterLookUp(r)
      PROVE  Kept
  BY <1>4 DEF RegisterLookUp
<1>5. ASSUME NEW r \in Requests, RegisterCreate(r)
      PROVE  Kept
  BY <1>5 DEF RegisterCreate, Goto
<1>6. ASSUME NEW r \in Requests, RegisterJoin(r)
      PROVE  Kept
  BY <1>6 DEF RegisterJoin, Goto
<1>7. ASSUME NEW r \in Requests, FindUser(r)
      PROVE  Kept
  BY <1>7 DEF FindUser, Goto
<1>8. ASSUME NEW r \in Requests, CreateUser(r)
      PROVE  Kept
  BY <1>8 DEF CreateUser, Goto
<1>9. ASSUME NEW r \in Requests, IssueTokens(r)
      PROVE  Kept
  BY <1>9 DEF IssueTokens, Goto
<1>10. ASSUME NEW r \in Requests, CreateSession(r)
       PROVE  Kept
  BY <1>10 DEF CreateSession, Goto
<1>11. ASSUME NEW r \in Requests, FindSession(r)
       PROVE  Kept
  BY <1>11 DEF FindSession, Goto
<1>12. ASSUME NEW r \in Requests, UpdateSession(r)
       PROVE  Kept
  BY <1>12 DEF UpdateSession, Exchange, Goto
<1>13. ASSUME NEW r \in Requests, InvalidateSession(r)
       PROVE  Kept
  BY <1>13 DEF InvalidateSession, Invalidate, Goto
<1>14. ASSUME NEW r \in Requests, Fail(r)
       PROVE  Kept
  BY <1>14 DEF Fail, Goto
<1>15. CASE Tick
  BY <1>15 DEF Tick, rowVars, reqVars
<1>16. CASE UNCHANGED vars
  BY <1>16 DEF vars, rowVars, reqVars
<1> QED
  BY <1>1, <1>2, <1>3, <1>4, <1>5, <1>6, <1>7, <1>8,
     <1>9, <1>10, <1>11, <1>12, <1>13, <1>14, <1>15, <1>16
     DEF Next, Arrive, Step

\* Every step that ends a session is the step of a request of its user.
LEMMA EndedStep ==
  ASSUME IInv, [Next]_vars, Kept
  PROVE  EndedByRequest'
<1> USE Missing DEF IInv, TypeOK, EndedByRequest, Kept, rowVars
<1>1. ASSUME NEW r \in Requests, NEW u \in Users, Register(r, u)
      PROVE  EndedByRequest'
  BY <1>1 DEF Register, Begin, Goto
<1>2. ASSUME NEW r \in Requests, NEW u \in Users, Enter(r, u)
      PROVE  EndedByRequest'
  BY <1>2 DEF Enter, Begin, Goto
<1>3. ASSUME NEW r \in Requests, NEW t \in Given, Present(r, t)
      PROVE  EndedByRequest'
  BY <1>3 DEF Present, Begin, Goto
<1>4. ASSUME NEW r \in Requests, RegisterLookUp(r)
      PROVE  EndedByRequest'
  BY <1>4 DEF RegisterLookUp
<1>5. ASSUME NEW r \in Requests, RegisterCreate(r)
      PROVE  EndedByRequest'
  BY <1>5 DEF RegisterCreate, Goto
<1>6. ASSUME NEW r \in Requests, RegisterJoin(r)
      PROVE  EndedByRequest'
  BY <1>6 DEF RegisterJoin, Goto
<1>7. ASSUME NEW r \in Requests, FindUser(r)
      PROVE  EndedByRequest'
  BY <1>7 DEF FindUser, Goto
<1>8. ASSUME NEW r \in Requests, CreateUser(r)
      PROVE  EndedByRequest'
  BY <1>8 DEF CreateUser, Goto
<1>9. ASSUME NEW r \in Requests, IssueTokens(r)
      PROVE  EndedByRequest'
  BY <1>9 DEF IssueTokens, Goto
<1>10. ASSUME NEW r \in Requests, CreateSession(r)
       PROVE  EndedByRequest'
  BY <1>10 DEF CreateSession, Goto
<1>11. ASSUME NEW r \in Requests, FindSession(r)
       PROVE  EndedByRequest'
  BY <1>11 DEF FindSession, Goto
<1>12. ASSUME NEW r \in Requests, UpdateSession(r)
       PROVE  EndedByRequest'
  <2>1. req[r].old \in Token
    BY <1>12 DEF UpdateSession, Exchange, RequestProgress
  <2>2. \A x \in Holding(req[r].old) : sessions[x] \in Session
    BY <2>1, HoldersAreSessions
  <2>3. ASSUME NEW x \in Holding(req[r].old),
               sessions' = [sessions EXCEPT ![x].token = loc[r].new]
        PROVE  EndedByRequest'
    BY <2>2, <2>3 DEF Session
  <2> QED
    BY <1>12, <2>3 DEF UpdateSession, Exchange
<1>13. ASSUME NEW r \in Requests, InvalidateSession(r)
       PROVE  EndedByRequest'
  <2>1. req[r].old \in Token /\ req[r].old.user = req[r].user
    BY <1>13 DEF InvalidateSession, Invalidate, RequestProgress
  <2>2. \A x \in Holding(req[r].old) :
          sessions[x] \in Session /\ sessions[x].user = req[r].user
    BY <2>1, HoldersAreSessions DEF TokensNameUsers
  <2>3. CASE Holding(req[r].old) = {}
    BY <1>13, <2>3 DEF InvalidateSession, Invalidate
  <2>4. CASE Holding(req[r].old) # {}
    <3>1. MayEndSession(r)' /\ req'[r].user = req[r].user
      BY <1>13, <2>4, NoNamesAssumption
         DEF InvalidateSession, Invalidate, Goto, MayEndSession, RequestProgress
    <3> QED
      BY <1>13, <2>2, <3>1 DEF InvalidateSession, Invalidate, Session
  <2> QED
    BY <2>3, <2>4
<1>14. ASSUME NEW r \in Requests, Fail(r)
       PROVE  EndedByRequest'
  BY <1>14 DEF Fail, Goto
<1>15. CASE Tick
  BY <1>15 DEF Tick, rowVars, reqVars
<1>16. CASE UNCHANGED vars
  BY <1>16 DEF vars, rowVars, reqVars
<1> QED
  BY <1>1, <1>2, <1>3, <1>4, <1>5, <1>6, <1>7, <1>8,
     <1>9, <1>10, <1>11, <1>12, <1>13, <1>14, <1>15, <1>16
     DEF Next, Arrive, Step

\* An account never changes hands.
LEMMA AccountStep ==
  ASSUME IInv, [Next]_vars
  PROVE  AccountProgress'
<1> USE NoNamesAssumption
    DEF IInv, TypeOK, RequestProgress, AccountProgress, Request, Local, rowVars
<1>1. ASSUME NEW r \in Requests, NEW u \in Users, Register(r, u)
      PROVE  AccountProgress'
  BY <1>1 DEF Register, Begin, Goto
<1>2. ASSUME NEW r \in Requests, NEW u \in Users, Enter(r, u)
      PROVE  AccountProgress'
  BY <1>2 DEF Enter, Begin, Goto
<1>3. ASSUME NEW r \in Requests, NEW t \in Given, Present(r, t)
      PROVE  AccountProgress'
  BY <1>3 DEF Present, Begin, Goto
<1>4. ASSUME NEW r \in Requests, RegisterLookUp(r)
      PROVE  AccountProgress'
  BY <1>4 DEF RegisterLookUp
<1>5. ASSUME NEW r \in Requests, RegisterCreate(r)
      PROVE  AccountProgress'
  BY <1>5 DEF RegisterCreate, Goto
<1>6. ASSUME NEW r \in Requests, RegisterJoin(r)
      PROVE  AccountProgress'
  BY <1>6 DEF RegisterJoin, Goto
<1>7. ASSUME NEW r \in Requests, FindUser(r)
      PROVE  AccountProgress'
  BY <1>7 DEF FindUser, Goto
<1>8. ASSUME NEW r \in Requests, CreateUser(r)
      PROVE  AccountProgress'
  BY <1>8 DEF CreateUser, Goto
<1>9. ASSUME NEW r \in Requests, IssueTokens(r)
      PROVE  AccountProgress'
  <2>1. /\ creator' = creator /\ req' = req /\ pc[r] = "issue"
        /\ \E l \in {"expire", "updateSession", "createSession"} :
             pc' = [pc EXCEPT ![r] = l]
    BY <1>9 DEF IssueTokens, Goto
  <2>2. \A q \in Requests : /\ loc'[q].creating = loc[q].creating
                            /\ loc'[q].lookup = loc[q].lookup
    BY <1>9 DEF IssueTokens
  <2> QED
    BY <2>1, <2>2
<1>10. ASSUME NEW r \in Requests, CreateSession(r)
       PROVE  AccountProgress'
  BY <1>10 DEF CreateSession, Goto
<1>11. ASSUME NEW r \in Requests, FindSession(r)
       PROVE  AccountProgress'
  BY <1>11 DEF FindSession, Goto
<1>12. ASSUME NEW r \in Requests, UpdateSession(r)
       PROVE  AccountProgress'
  BY <1>12 DEF UpdateSession, Exchange, Goto
<1>13. ASSUME NEW r \in Requests, InvalidateSession(r)
       PROVE  AccountProgress'
  BY <1>13 DEF InvalidateSession, Invalidate, Goto
<1>14. ASSUME NEW r \in Requests, Fail(r)
       PROVE  AccountProgress'
  BY <1>14 DEF Fail, Goto
<1>15. CASE Tick
  BY <1>15 DEF Tick, rowVars, reqVars
<1>16. CASE UNCHANGED vars
  BY <1>16 DEF vars, rowVars, reqVars
<1> QED
  BY <1>1, <1>2, <1>3, <1>4, <1>5, <1>6, <1>7, <1>8,
     <1>9, <1>10, <1>11, <1>12, <1>13, <1>14, <1>15, <1>16
     DEF Next, Arrive, Step

\* Request r was given a token that works, or that was presented or ended.
Works(r) ==
  \/ \E x \in Holding(loc[r].new) :
       sessions[x].active /\ sessions[x].user = loc[r].new.user
  \/ \E q \in Requests \ {r} : req[q].old = loc[r].new
  \/ /\ req[r].op = "refresh"
     /\ \E q \in Requests : req[q].user = req[r].user /\ MayEndSession(q)

\* A given token works until it is presented.
LEMMA GivenStep ==
  ASSUME IInv, [Next]_vars, Kept
  PROVE  GivenTokenWorks'
<1> USE Missing DEF IInv, TypeOK, GivenTokenWorks, Kept, Holding, rowVars
<1>1. ASSUME NEW r \in Requests, NEW u \in Users, Register(r, u)
      PROVE  GivenTokenWorks'
  BY <1>1 DEF Register, Begin, Goto
<1>2. ASSUME NEW r \in Requests, NEW u \in Users, Enter(r, u)
      PROVE  GivenTokenWorks'
  <2>1. \E l \in {"findUser", "createUser"} : pc' = [pc EXCEPT ![r] = l]
    BY <1>2 DEF Enter, Begin, Goto
  <2>2. sessions' = sessions /\ loc' = loc
    BY <1>2 DEF Enter, Begin
  <2>3. \A q \in Requests : pc'[q] = "answered" => pc[q] = "answered"
    BY <2>1
  <2> QED
    BY <2>2, <2>3
<1>3. ASSUME NEW r \in Requests, NEW t \in Given, Present(r, t)
      PROVE  GivenTokenWorks'
  BY <1>3 DEF Present, Begin, Goto
<1>4. ASSUME NEW r \in Requests, RegisterLookUp(r)
      PROVE  GivenTokenWorks'
  BY <1>4 DEF RegisterLookUp
<1>5. ASSUME NEW r \in Requests, RegisterCreate(r)
      PROVE  GivenTokenWorks'
  BY <1>5 DEF RegisterCreate, Goto
<1>6. ASSUME NEW r \in Requests, RegisterJoin(r)
      PROVE  GivenTokenWorks'
  BY <1>6 DEF RegisterJoin, Goto
<1>7. ASSUME NEW r \in Requests, FindUser(r)
      PROVE  GivenTokenWorks'
  BY <1>7 DEF FindUser, Goto, RequestProgress
<1>8. ASSUME NEW r \in Requests, CreateUser(r)
      PROVE  GivenTokenWorks'
  BY <1>8 DEF CreateUser, Goto, RequestProgress
<1>9. ASSUME NEW r \in Requests, IssueTokens(r)
      PROVE  GivenTokenWorks'
  BY <1>9 DEF IssueTokens, Goto
<1>10. ASSUME NEW r \in Requests, CreateSession(r)
       PROVE  GivenTokenWorks'
  <2>1. /\ sessions[r] = NoSession /\ loc[r].new \in Token
        /\ loc[r].new.user = req[r].user
    BY <1>10 DEF CreateSession, RowsAreAnswers, RequestProgress
  <2>2. CASE Holding(loc[r].new) # {}
    BY <1>10, <2>2 DEF CreateSession, Goto
  <2>3. CASE /\ sessions' = [sessions EXCEPT ![r] = [user |-> req[r].user,
                                                    token |-> loc[r].new,
                                                    active |-> TRUE]]
             /\ pc' = [pc EXCEPT ![r] = "answered"]
    <3>1. SUFFICES ASSUME NEW q \in Requests, pc'[q] = "answered",
                          loc'[q].new # NoToken
                   PROVE  Works(q)'
      BY DEF Works
    <3>2. CASE q = r
      <4>1. /\ sessions'[r].token = loc'[r].new /\ sessions'[r].active
            /\ sessions'[r].user = loc'[r].new.user
        BY <1>10, <2>1, <2>3 DEF CreateSession
      <4> QED
        BY <3>2, <4>1 DEF Works
    <3>3. CASE q # r
      <4>1. Works(q) /\ loc'[q].new = loc[q].new
        BY <1>10, <2>3, <3>1, <3>3 DEF CreateSession, Works
      <4>2. \A x \in Holding(loc[q].new) : sessions'[x] = sessions[x]
        BY <2>1, <2>3, <3>1, <4>1 DEF NoSession
      <4> QED
        BY <1>10, <3>1, <4>1, <4>2 DEF CreateSession, Works
    <3> QED
      BY <3>2, <3>3
  <2> QED
    BY <1>10, <2>2, <2>3 DEF CreateSession, Goto
<1>11. ASSUME NEW r \in Requests, FindSession(r)
       PROVE  GivenTokenWorks'
  BY <1>11 DEF FindSession, Goto
<1>12. ASSUME NEW r \in Requests, UpdateSession(r)
       PROVE  GivenTokenWorks'
  <2>1. /\ req[r].old \in Token /\ loc[r].new \in Token
        /\ loc[r].new.user = req[r].user /\ req[r].op = "refresh"
        /\ req[r].old.user = req[r].user
    BY <1>12 DEF UpdateSession, Exchange, RequestProgress
  <2>2. CASE sessions' = sessions /\ pc' = [pc EXCEPT ![r] = "tryAgain"]
    BY <1>12, <2>2 DEF UpdateSession, Exchange
  <2>3. ASSUME NEW x \in Holding(req[r].old),
               sessions' = [sessions EXCEPT ![x].token = loc[r].new],
               pc' = [pc EXCEPT ![r] = "answered"]
        PROVE  GivenTokenWorks'
    <3>1. SUFFICES ASSUME NEW q \in Requests, pc'[q] = "answered",
                          loc'[q].new # NoToken
                   PROVE  Works(q)'
      BY DEF Works
    <3>2. /\ x \in Requests /\ sessions[x] \in Session
          /\ sessions[x].token = req[r].old
      BY <2>1, HoldersAreSessions
    <3>3. /\ sessions'[x].token = loc[r].new
          /\ sessions'[x].active = sessions[x].active
          /\ sessions'[x].user = sessions[x].user
          /\ sessions[x].user = req[r].user
      BY <2>1, <2>3, <3>2 DEF Session, TokensNameUsers
    <3>4. req' = req /\ loc' = loc
      BY <1>12 DEF UpdateSession, Exchange
    <3>5. CASE q = r /\ sessions[x].active
      BY <2>1, <3>2, <3>3, <3>4, <3>5 DEF Works
    <3>6. CASE q = r /\ ~sessions[x].active
      <4>1. PICK e \in Requests : req[e].user = req[r].user /\ MayEndSession(e)
        BY <3>2, <3>3, <3>6 DEF EndedByRequest
      <4> QED
        BY <2>1, <3>4, <3>6, <4>1 DEF Works
    <3>7. CASE q # r
      <4>1. Works(q) /\ pc[q] = "answered"
        BY <2>3, <3>1, <3>4, <3>7 DEF Works
      <4>2. ASSUME NEW y \in Holding(loc[q].new), sessions[y].active,
                   sessions[y].user = loc[q].new.user
            PROVE  Works(q)'
        <5>1. CASE y = x
          BY <3>2, <3>4, <3>7, <4>2, <5>1 DEF Works
        <5>2. CASE y # x
          BY <2>3, <3>2, <3>4, <4>2, <5>2 DEF Works
        <5> QED
          BY <5>1, <5>2
      <4>3. CASE \E e \in Requests \ {q} : req[e].old = loc[q].new
        BY <3>4, <4>3 DEF Works
      <4>4. CASE /\ req[q].op = "refresh"
                 /\ \E e \in Requests : /\ req[e].user = req[q].user
                                        /\ MayEndSession(e)
        BY <3>4, <4>4 DEF Works
      <4> QED
        BY <4>1, <4>2, <4>3, <4>4 DEF Works
    <3> QED
      BY <3>5, <3>6, <3>7
  <2> QED
    BY <1>12, <2>2, <2>3 DEF UpdateSession, Exchange, Goto
<1>13. ASSUME NEW r \in Requests, InvalidateSession(r)
       PROVE  GivenTokenWorks'
  <2>1. loc[r].new = NoToken /\ req' = req /\ loc' = loc
    BY <1>13 DEF InvalidateSession, Invalidate, RequestProgress
  <2>2. SUFFICES ASSUME NEW q \in Requests, pc'[q] = "answered",
                        loc'[q].new # NoToken
                 PROVE  Works(q)'
    BY DEF Works
  <2>3. q # r /\ pc[q] = "answered" /\ Works(q)
    BY <1>13, <2>1, <2>2 DEF InvalidateSession, Invalidate, Goto, Works
  <2>4. ASSUME NEW y \in Holding(loc[q].new), sessions[y].active,
               sessions[y].user = loc[q].new.user
        PROVE  Works(q)'
    <3>1. CASE y \in Holding(req[r].old)
      BY <2>1, <2>3, <2>4, <3>1 DEF Works
    <3>2. CASE y \notin Holding(req[r].old)
      BY <1>13, <2>1, <2>4, <3>2 DEF InvalidateSession, Invalidate, Works
    <3> QED
      BY <3>1, <3>2
  <2>5. CASE \E e \in Requests \ {q} : req[e].old = loc[q].new
    BY <2>1, <2>5 DEF Works
  <2>6. CASE /\ req[q].op = "refresh"
             /\ \E e \in Requests : req[e].user = req[q].user /\ MayEndSession(e)
    BY <2>1, <2>6 DEF Works
  <2> QED
    BY <2>3, <2>4, <2>5, <2>6 DEF Works
<1>14. ASSUME NEW r \in Requests, Fail(r)
       PROVE  GivenTokenWorks'
  BY <1>14 DEF Fail, Goto
<1>15. CASE Tick
  BY <1>15 DEF Tick, rowVars, reqVars
<1>16. CASE UNCHANGED vars
  BY <1>16 DEF vars, rowVars, reqVars
<1> QED
  BY <1>1, <1>2, <1>3, <1>4, <1>5, <1>6, <1>7, <1>8,
     <1>9, <1>10, <1>11, <1>12, <1>13, <1>14, <1>15, <1>16
     DEF Next, Arrive, Step

\* The inductive invariant is preserved by every step.
LEMMA StepIInv == IInv /\ [Next]_vars => IInv'
<1> SUFFICES ASSUME IInv, [Next]_vars
             PROVE  IInv'
  OBVIOUS
<1>1. Kept
  BY KeptStep
<1> QED
  BY <1>1, TypeStep, RequestProgressStep, RowsStep, TokensNameUsersStep,
     EndedStep, AccountStep, GivenStep
     DEF IInv

\* The inductive invariant holds throughout.
THEOREM InvIInv == Spec => []IInv
BY InitIInv, StepIInv, PTL DEF Spec

\* Rows and requests stay within their types, for any number of requests.
THEOREM TypeCorrect == Spec => []TypeOK
<1>1. IInv => TypeOK
  BY DEF IInv
<1> QED
  BY <1>1, InvIInv, PTL

\* However registrations, orders and new users overlap, an account belongs to
\* the registration that was answered.
THEOREM AccountsKeepTheirOwners == Spec => []AccountKeepsItsOwner
<1>1. IInv => AccountKeepsItsOwner
  BY DEF IInv, AccountProgress, AccountKeepsItsOwner
<1> QED
  BY <1>1, InvIInv, PTL

\* No request takes away a token that another one was given, except by
\* presenting it or by ending the session.
THEOREM GivenTokensWork == Spec => []GivenTokenWorks
<1>1. IInv => GivenTokenWorks
  BY DEF IInv
<1> QED
  BY <1>1, InvIInv, PTL

-----------------------------------------------------------------------------
(***************************************************************************)
(* Exchanges are bounded by issues.  The invariant is a balance: a session *)
(* that still has a token is an exchange of it that may yet happen, so     *)
(* exchanges and holders together never exceed the times it was issued.    *)
(***************************************************************************)
Balance(t) ==
  Cardinality(Exchanges(t)) + Cardinality(Holding(t)) <= Cardinality(Issues(t))

Balanced == \A t \in Token : Balance(t)

\* A step that neither issues, exchanges nor moves token t.
Untouched(t) ==
  /\ Exchanges(t)' = Exchanges(t)
  /\ Issues(t)' = Issues(t)
  /\ Holding(t)' = Holding(t)

\* What the balance counts is finite.
LEMMA CountsAreFinite ==
  ASSUME NEW t
  PROVE  /\ IsFiniteSet(Exchanges(t)) /\ Cardinality(Exchanges(t)) \in Nat
         /\ IsFiniteSet(Holding(t)) /\ Cardinality(Holding(t)) \in Nat
         /\ IsFiniteSet(Issues(t)) /\ Cardinality(Issues(t)) \in Nat
<1>1. /\ Exchanges(t) \subseteq Requests
      /\ Holding(t) \subseteq Requests
      /\ Issues(t) \subseteq Requests
  BY DEF Exchanges, Holding, Issues
<1> QED
  BY <1>1, RequestsAssumption, FS_Subset, FS_CardinalityType

\* A step that does not count a token leaves its balance.
LEMMA UntouchedBalance ==
  ASSUME NEW t, Balance(t), Untouched(t)
  PROVE  Balance(t)'
BY DEF Balance, Untouched

\* A token that a row gets was issued to the request that writes the row.
LEMMA IssuedBalance ==
  ASSUME NEW t, NEW x, NEW r, Balance(t),
         Exchanges(t)' = Exchanges(t),
         Holding(t)' = Holding(t) \cup {x},
         r \notin Issues(t), Issues(t)' = Issues(t) \cup {r}
  PROVE  Balance(t)'
<1>1. Cardinality(Issues(t)') = Cardinality(Issues(t)) + 1
  BY CountsAreFinite, FS_AddElement
<1>2. Cardinality(Holding(t)') <= Cardinality(Holding(t)) + 1
  <2>1. Cardinality(Holding(t) \cup {x}) =
          IF x \in Holding(t) THEN Cardinality(Holding(t))
                              ELSE Cardinality(Holding(t)) + 1
    BY CountsAreFinite, FS_AddElement
  <2> QED
    BY <2>1, CountsAreFinite
<1>3. /\ Cardinality(Holding(t)') \in Nat
      /\ Cardinality(Holding(t)) \in Nat /\ Cardinality(Issues(t)) \in Nat
      /\ Cardinality(Exchanges(t)) \in Nat
  <2>1. IsFiniteSet(Holding(t)')
    BY CountsAreFinite, FS_AddElement
  <2> QED
    BY <2>1, CountsAreFinite, FS_CardinalityType
<1> QED
  BY <1>1, <1>2, <1>3 DEF Balance

\* A row that gives a token up pays for the exchange of it.
LEMMA ExchangedBalance ==
  ASSUME NEW t, NEW x \in Holding(t), NEW r, Balance(t),
         Exchanges(t)' = Exchanges(t) \cup {r},
         Holding(t)' = Holding(t) \ {x},
         Issues(t)' = Issues(t)
  PROVE  Balance(t)'
<1>1. Cardinality(Holding(t)') = Cardinality(Holding(t)) - 1
  BY CountsAreFinite, FS_RemoveElement
<1>2. Cardinality(Exchanges(t)') <= Cardinality(Exchanges(t)) + 1
  <2>1. Cardinality(Exchanges(t) \cup {r}) =
          IF r \in Exchanges(t) THEN Cardinality(Exchanges(t))
                                ELSE Cardinality(Exchanges(t)) + 1
    BY CountsAreFinite, FS_AddElement
  <2> QED
    BY <2>1, CountsAreFinite
<1>3. /\ Cardinality(Exchanges(t)') \in Nat
      /\ Cardinality(Holding(t)) \in Nat /\ Cardinality(Issues(t)) \in Nat
      /\ Cardinality(Exchanges(t)) \in Nat
  <2>1. IsFiniteSet(Exchanges(t)')
    BY CountsAreFinite, FS_AddElement
  <2> QED
    BY <2>1, CountsAreFinite, FS_CardinalityType
<1> QED
  BY <1>1, <1>2, <1>3 DEF Balance

\* Every step keeps the balance of every token.
LEMMA BalanceStep ==
  ASSUME IInv, Balanced, [Next]_vars, NEW t \in Token
  PROVE  Balance(t)'
<1>0. t # NoToken /\ Balance(t)
  BY Missing DEF Balanced
<1> USE <1>0 DEF IInv, TypeOK, Untouched, Exchanges, Issues, Holding, rowVars
<1>1. ASSUME NEW r \in Requests, NEW u \in Users, Register(r, u)
      PROVE  Untouched(t)
  BY <1>1 DEF Register, Begin, Goto, Local
<1>2. ASSUME NEW r \in Requests, NEW u \in Users, Enter(r, u)
      PROVE  Untouched(t)
  <2>1. \E l \in {"findUser", "createUser"} : pc' = [pc EXCEPT ![r] = l]
    BY <1>2 DEF Enter, Begin, Goto
  <2>2. /\ sessions' = sessions /\ loc' = loc /\ pc[r] = "idle"
        /\ \A q \in Requests : q # r => req'[q] = req[q]
    BY <1>2 DEF Enter, Begin
  <2> QED
    BY <2>1, <2>2
<1>3. ASSUME NEW r \in Requests, NEW s \in Given, Present(r, s)
      PROVE  Untouched(t)
  <2>1. \E l \in Position \ {"answered"} : pc' = [pc EXCEPT ![r] = l]
    BY <1>3 DEF Present, Begin, Goto, Position
  <2>2. /\ sessions' = sessions /\ loc' = loc /\ pc[r] = "idle"
        /\ \A q \in Requests : q # r => req'[q] = req[q]
    BY <1>3 DEF Present, Begin
  <2> QED
    BY <2>1, <2>2
<1>4. ASSUME NEW r \in Requests, RegisterLookUp(r)
      PROVE  Untouched(t)
  BY <1>4 DEF RegisterLookUp, Local
<1>5. ASSUME NEW r \in Requests, RegisterCreate(r)
      PROVE  Untouched(t)
  BY <1>5 DEF RegisterCreate, Goto, Local
<1>6. ASSUME NEW r \in Requests, RegisterJoin(r)
      PROVE  Untouched(t)
  BY <1>6 DEF RegisterJoin, Goto
<1>7. ASSUME NEW r \in Requests, FindUser(r)
      PROVE  Untouched(t)
  BY <1>7 DEF FindUser, Goto, RequestProgress
<1>8. ASSUME NEW r \in Requests, CreateUser(r)
      PROVE  Untouched(t)
  BY <1>8 DEF CreateUser, Goto, RequestProgress
<1>9. ASSUME NEW r \in Requests, IssueTokens(r)
      PROVE  Untouched(t)
  BY <1>9 DEF IssueTokens, Goto
<1>10. ASSUME NEW r \in Requests, CreateSession(r)
       PROVE  Balance(t)'
  <2>1. /\ sessions[r] = NoSession /\ req[r].op # "refresh"
        /\ req[r].old # loc[r].new /\ pc[r] = "createSession"
    BY <1>10, Missing DEF CreateSession, RowsAreAnswers, RequestProgress
  <2>2. loc' = loc /\ req' = req
    BY <1>10 DEF CreateSession
  <2>3. CASE sessions' = sessions /\ pc' = [pc EXCEPT ![r] = "failed"]
    <3>1. Untouched(t)
      BY <2>1, <2>2, <2>3
    <3> QED
      BY <3>1, UntouchedBalance
  <2>4. CASE /\ sessions' = [sessions EXCEPT ![r] = [user |-> req[r].user,
                                                    token |-> loc[r].new,
                                                    active |-> TRUE]]
             /\ pc' = [pc EXCEPT ![r] = "answered"]
    <3>1. /\ sessions'[r].token = loc[r].new /\ sessions[r].token = NoToken
          /\ \A y \in Requests : y # r => sessions'[y] = sessions[y]
      BY <2>1, <2>4 DEF NoSession
    <3>2. Exchanges(t)' = Exchanges(t)
      BY <2>1, <2>2, <2>4
    <3>3. CASE t = loc[r].new
      <4>1. Holding(t)' = Holding(t) \cup {r}
        BY <3>1, <3>3
      <4>2. r \notin Issues(t) /\ Issues(t)' = Issues(t) \cup {r}
        BY <2>1, <2>2, <2>4, <3>3
      <4> QED
        BY <3>2, <4>1, <4>2, IssuedBalance
    <3>4. CASE t # loc[r].new
      <4>1. Holding(t)' = Holding(t)
        BY <3>1, <3>4
      <4>2. Issues(t)' = Issues(t)
        BY <2>1, <2>2, <2>4, <3>4
      <4> QED
        BY <3>2, <4>1, <4>2, UntouchedBalance
    <3> QED
      BY <3>3, <3>4
  <2> QED
    BY <1>10, <2>3, <2>4 DEF CreateSession, Goto
<1>11. ASSUME NEW r \in Requests, FindSession(r)
       PROVE  Untouched(t)
  BY <1>11 DEF FindSession, Goto
<1>12. ASSUME NEW r \in Requests, UpdateSession(r)
       PROVE  Balance(t)'
  <2>1. /\ req[r].old \in Token /\ loc[r].new \in Token
        /\ req[r].op = "refresh" /\ pc[r] = "updateSession"
        /\ req' = req /\ loc' = loc
    BY <1>12 DEF UpdateSession, Exchange, RequestProgress
  <2>2. CASE sessions' = sessions /\ pc' = [pc EXCEPT ![r] = "tryAgain"]
    <3>1. Untouched(t)
      BY <2>1, <2>2
    <3> QED
      BY <3>1, UntouchedBalance
  <2>3. ASSUME NEW x \in Holding(req[r].old),
               sessions' = [sessions EXCEPT ![x].token = loc[r].new],
               pc' = [pc EXCEPT ![r] = "answered"]
        PROVE  Balance(t)'
    <3>1. /\ x \in Requests /\ sessions[x] \in Session
          /\ sessions[x].token = req[r].old
      BY <2>1, HoldersAreSessions
    <3>2. /\ sessions'[x].token = loc[r].new
          /\ \A y \in Requests : y # x => sessions'[y] = sessions[y]
      BY <2>3, <3>1 DEF Session
    <3>3. /\ pc'[r] = "answered"
          /\ \A q \in Requests : q # r => pc'[q] = pc[q]
      BY <2>3
    <3>4. CASE \/ t # req[r].old /\ t # loc[r].new
              \/ req[r].old = loc[r].new
      <4>1. Holding(t)' = Holding(t)
        BY <3>1, <3>2, <3>4
      <4>2. Exchanges(t)' = Exchanges(t) /\ Issues(t)' = Issues(t)
        BY <2>1, <3>3, <3>4
      <4> QED
        BY <4>1, <4>2, UntouchedBalance
    <3>5. CASE t = loc[r].new /\ t # req[r].old
      <4>1. Holding(t)' = Holding(t) \cup {x}
        BY <3>1, <3>2, <3>5
      <4>2. Exchanges(t)' = Exchanges(t)
        BY <2>1, <3>3, <3>5
      <4>3. r \notin Issues(t) /\ Issues(t)' = Issues(t) \cup {r}
        BY <2>1, <3>3, <3>5
      <4> QED
        BY <4>1, <4>2, <4>3, IssuedBalance
    <3>6. CASE t = req[r].old /\ t # loc[r].new
      <4>1. x \in Holding(t) /\ Holding(t)' = Holding(t) \ {x}
        BY <3>1, <3>2, <3>6
      <4>2. Exchanges(t)' = Exchanges(t) \cup {r}
        BY <2>1, <3>3, <3>6
      <4>3. Issues(t)' = Issues(t)
        BY <2>1, <3>3, <3>6
      <4> QED
        BY <4>1, <4>2, <4>3, ExchangedBalance
    <3> QED
      BY <3>4, <3>5, <3>6
  <2> QED
    BY <1>12, <2>2, <2>3 DEF UpdateSession, Exchange, Goto
<1>13. ASSUME NEW r \in Requests, InvalidateSession(r)
       PROVE  Untouched(t)
  <2>1. loc[r].new = NoToken /\ req[r].op \in {"refresh", "logout"}
    BY <1>13 DEF InvalidateSession, Invalidate, RequestProgress
  <2>2. \A x \in Requests : sessions'[x].token = sessions[x].token
    BY <1>13 DEF InvalidateSession, Invalidate
  <2>3. pc[r] = "expire" => pc'[r] = "failed"
    BY <1>13 DEF InvalidateSession, Invalidate, Goto
  <2> QED
    BY <1>13, <2>1, <2>2, <2>3
    DEF InvalidateSession, Invalidate, Goto, RequestProgress
<1>14. ASSUME NEW r \in Requests, Fail(r)
       PROVE  Untouched(t)
  <2>1. /\ \A q \in Requests : loc'[q].new = loc[q].new
        /\ req' = req /\ sessions' = sessions
    BY <1>14, FailKeeps DEF Fail
  <2> QED
    BY <1>14, <2>1 DEF Fail, Goto
<1>15. ASSUME Tick
       PROVE  Untouched(t)
  BY <1>15 DEF Tick, rowVars, reqVars
<1>16. ASSUME UNCHANGED vars
       PROVE  Untouched(t)
  BY <1>16 DEF vars, rowVars, reqVars
<1> QED
  BY <1>1, <1>2, <1>3, <1>4, <1>5, <1>6, <1>7, <1>8, <1>9, <1>10, <1>11,
     <1>12, <1>13, <1>14, <1>15, <1>16, UntouchedBalance
  DEF Next, Arrive, Step

\* However refreshes with one token overlap, it is exchanged at most once for
\* each time it was issued.
THEOREM TokensAreExchangedOnce == Spec => []ExchangedOncePerIssue
<1>1. Init => Balanced
  <2> SUFFICES ASSUME Init, NEW t \in Token
               PROVE  Balance(t)
    BY DEF Balanced
  <2>1. Exchanges(t) = {} /\ Holding(t) = {} /\ Issues(t) = {}
    BY Missing DEF Init, NoSession, Exchanges, Holding, Issues
  <2> QED
    BY <2>1, FS_EmptySet DEF Balance
<1>2. IInv /\ Balanced /\ [Next]_vars => Balanced'
  BY BalanceStep DEF Balanced
<1>3. IInv /\ Balanced => ExchangedOncePerIssue
  <2> SUFFICES ASSUME IInv, Balanced, NEW t \in Given
               PROVE  Cardinality(Exchanges(t)) <= Cardinality(Issues(t))
    BY DEF ExchangedOncePerIssue
  <2>1. Balance(t)
    BY GivenAreTokens DEF IInv, Balanced
  <2> QED
    BY <2>1, CountsAreFinite DEF Balance
<1> QED
  BY <1>1, <1>2, <1>3, InvIInv, PTL DEF Spec
=============================================================================
