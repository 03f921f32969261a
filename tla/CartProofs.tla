----------------------------- MODULE CartProofs -----------------------------
(***************************************************************************)
(* What holds of Cart for any number of requests, owners, carts and items, *)
(* and any prices.                                                         *)
(***************************************************************************)
EXTENDS Cart, TLAPS

\* The name SumOf is also one of Cart.
F == INSTANCE FoldTheorems

-----------------------------------------------------------------------------
(***************************************************************************)
(* The inductive invariant.                                                *)
(***************************************************************************)

\* The local variables of a request.
Locals(t) == [pc |-> t.pc, cart |-> t.cart, item |-> t.item, rows |-> t.rows,
              gone |-> t.gone, sum |-> t.sum, stale |-> t.stale]

LocalsOK == \A r \in Requests : tx[r] = Locals(tx[r])

\* The statements of each operation between getting a cart and the answer.
Course(op) ==
  CASE op = "add"    -> {"insertItem", "sumItems", "updateCart", "reread"}
    [] op = "update" -> {"findItem", "findDuplicate", "updateItem",
                         "deleteOptions", "createOptions", "sumItems",
                         "updateCart", "reread"}
    [] op = "remove" -> {"findItem", "deleteItem", "sumItems", "updateCart"}
    [] op = "clear"  -> {"listItems", "deleteItems", "updateCart"}
    [] op = "get"    -> {}

OnCourse(r) ==
  tx[r].pc \in {"start", "createCart", "answered", "failed"}
                 \cup Course(ask[r].op)

\* A request works on a cart of its owner.
HasCart(r) ==
  /\ tx[r].pc \in {"start", "createCart"} => cartOwner[r] = NoOwner
  /\ tx[r].pc \notin {"start", "createCart", "failed"} =>
       tx[r].cart \in CartIds /\ cartOwner[tx[r].cart] = ask[r].owner

\* The transaction of r has ended.
Past(r) == tx[r].pc \in {"reread", "answered", "failed"}

\* Item i was once in r's cart, and is in no other.
Known(r, i) ==
  /\ i \in Requests => Past(i)
  /\ Exists(i) => items[i].cart = tx[r].cart

\* A request knows the item it has found.
FoundItem(r) ==
  /\ ask[r].op = "update" /\ ~Past(r)
       /\ tx[r].pc \notin {"start", "createCart", "findItem"}
       => Known(r, ask[r].item)
  /\ ask[r].op = "remove" /\ ~Past(r)
       /\ tx[r].pc \notin {"start", "createCart", "findItem"}
       => tx[r].item \in ItemIds /\ Known(r, tx[r].item)

Writing == {"deleteOptions", "createOptions", "sumItems", "updateCart"}

\* What a request has written is its own new row, or rows of its cart, and it
\* has seen all the options of the row that it updates.
WrittenRows(r) ==
  /\ tx[r].rows # {} => tx[r].pc \in Writing
  /\ ask[r].op = "add" => /\ tx[r].gone = {}
                          /\ tx[r].pc \in Writing => tx[r].rows = {r}
  /\ ask[r].op = "update" /\ tx[r].pc \in Writing => tx[r].rows = {ask[r].item}
  /\ ask[r].op = "update" /\ tx[r].pc \in Writing \ {"deleteOptions"}
       => tx[r].gone = options[ask[r].item]
  /\ ask[r].op # "add" =>
       \A i \in tx[r].rows : Exists(i) /\ items[i].cart = tx[r].cart

\* A sum that is not stale is that of the items the request sees.
SumIsSeen(r) ==
  /\ tx[r].pc \in {"start", "createCart", "listItems", "deleteItems"} =>
       tx[r].sum = 0
  /\ ~tx[r].stale =>
       /\ tx[r].pc = "deleteItems" => tx[r].gone = ItemsOf(tx[r].cart)
       /\ tx[r].pc = "updateCart" => tx[r].sum = SumOf(Seen(r), tx[r].cart)

RequestOK(r) ==
  OnCourse(r) /\ HasCart(r) /\ FoundItem(r) /\ WrittenRows(r) /\ SumIsSeen(r)

\* No row is written by two open transactions.
LocksExclude ==
  \A r, s \in Requests : r # s => tx[r].rows \cap tx[s].rows = {}

\* An item is in a cart that exists, and the request that adds it has committed.
ItemsAreKept ==
  \A i \in ItemIds : Exists(i) => /\ cartOwner[items[i].cart] # NoOwner
                                  /\ i \in Requests => Past(i)

IInv ==
  /\ Shape
  /\ LocalsOK
  /\ \A r \in Requests : RequestOK(r)
  /\ LocksExclude
  /\ ItemsAreKept
  /\ OptionsAgree
  /\ TotalUnlessOverlapped

-----------------------------------------------------------------------------
(***************************************************************************)
(* Sums, asks and new rows.                                                *)
(***************************************************************************)

\* Nothing costs nothing.
LEMMA EmptySum == ASSUME NEW prices, DOMAIN prices = {} PROVE Sum(prices) = 0
<1> DEFINE f == [s \in SUBSET {} |-> 0]
<1>1. Sum(prices) = FoldFunctionOnSet(+, 0, prices, {})
  BY DEF Sum, FoldFunction
<1> QED
  BY <1>1 DEF FoldFunctionOnSet, MapThenFoldSet

\* The sum depends only on the cart's own rows.
LEMMA SameSum ==
  ASSUME NEW rows, NEW others, NEW c,
         \A i \in ItemIds :
           /\ rows[i] # NoItem /\ rows[i].cart = c
                <=> others[i] # NoItem /\ others[i].cart = c
           /\ rows[i] # NoItem /\ rows[i].cart = c => rows[i] = others[i]
  PROVE  SumOf(rows, c) = SumOf(others, c)
<1>1. PricesIn(rows, c) = PricesIn(others, c)
  BY DEF PricesIn
<1> QED
  BY <1>1 DEF SumOf

\* A cart without items has total zero.
LEMMA NoItemsNoSum ==
  ASSUME NEW rows, NEW c,
         \A i \in ItemIds : ~(rows[i] # NoItem /\ rows[i].cart = c)
  PROVE  SumOf(rows, c) = 0
<1>1. DOMAIN PricesIn(rows, c) = {}
  BY DEF PricesIn
<1> QED
  BY <1>1, EmptySum DEF SumOf

LEMMA Asked ==
  ASSUME ask \in [Requests -> Ask], NEW r \in Requests
  PROVE  /\ ask[r].op \in {"add", "update", "remove", "clear", "get"}
         /\ ask[r].owner \in Owners
         /\ ask[r].op \in {"add", "update"} =>
              /\ ask[r].key \in Keys
              /\ ask[r].price \in Nat
         /\ ask[r].op = "update" => ask[r].item \in ItemIds
<1>1. ask[r] \in Ask
  OBVIOUS
<1> QED
  BY <1>1, PricesAssumption DEF Ask

\* What a request writes of an item in its cart is a row of that cart.
LEMMA NewRows ==
  ASSUME ask \in [Requests -> Ask], NEW r \in Requests, tx[r].cart \in CartIds
  PROVE  /\ ask[r].op \in {"add", "update"} =>
              /\ NewRow(r) \in Row /\ NewRow(r) # NoItem
              /\ NewRow(r).cart = tx[r].cart /\ NewRow(r).by = r
         /\ ask[r].op \notin {"add", "update"} => NewRow(r) = NoItem
<1>1. r \in ItemIds
  BY DEF ItemIds
<1> QED
  BY <1>1, Asked, NoItemAssumption DEF NewRow, Row

-----------------------------------------------------------------------------
(***************************************************************************)
(* Steps that only change the local variables of a request.                *)
(***************************************************************************)
Local(pc, cart, item, rows, gone, sum, stale) ==
  [pc |-> pc, cart |-> cart, item |-> item, rows |-> rows, gone |-> gone,
   sum |-> sum, stale |-> stale]

Typed(t) ==
  /\ t = Locals(t)
  /\ t.pc \in Position
  /\ t.cart \in CartIds \cup {NoCart}
  /\ t.item \in ItemIds \cup {NoItem}
  /\ t.rows \in SUBSET ItemIds
  /\ t.gone \in SUBSET ItemIds
  /\ t.stale \in BOOLEAN

\* The updates of a request's local variables that there are.
LEMMA Went ==
  ASSUME NEW t, t = Locals(t), NEW pc
  PROVE  [t EXCEPT !.pc = pc]
           = Local(pc, t.cart, t.item, t.rows, t.gone, t.sum, t.stale)
BY DEF Locals, Local

LEMMA WentWithCart ==
  ASSUME NEW t, t = Locals(t), NEW pc, NEW v
  PROVE  [t EXCEPT !.pc = pc, !.cart = v]
           = Local(pc, v, t.item, t.rows, t.gone, t.sum, t.stale)
<1> DEFINE u == Local(pc, t.cart, t.item, t.rows, t.gone, t.sum, t.stale)
<1>1. [t EXCEPT !.pc = pc] = u
  BY Went
<1>2. [u EXCEPT !.cart = v]
        = Local(pc, v, t.item, t.rows, t.gone, t.sum, t.stale)
  BY DEF Local
<1> HIDE DEF u
<1>3. [t EXCEPT !.pc = pc, !.cart = v] = [u EXCEPT !.cart = v]
  BY <1>1
<1> QED
  BY <1>2, <1>3

LEMMA WentWithItem ==
  ASSUME NEW t, t = Locals(t), NEW pc, NEW v
  PROVE  [t EXCEPT !.pc = pc, !.item = v]
           = Local(pc, t.cart, v, t.rows, t.gone, t.sum, t.stale)
<1> DEFINE u == Local(pc, t.cart, t.item, t.rows, t.gone, t.sum, t.stale)
<1>1. [t EXCEPT !.pc = pc] = u
  BY Went
<1>2. [u EXCEPT !.item = v]
        = Local(pc, t.cart, v, t.rows, t.gone, t.sum, t.stale)
  BY DEF Local
<1> HIDE DEF u
<1>3. [t EXCEPT !.pc = pc, !.item = v] = [u EXCEPT !.item = v]
  BY <1>1
<1> QED
  BY <1>2, <1>3

LEMMA WentWithRows ==
  ASSUME NEW t, t = Locals(t), NEW pc, NEW v
  PROVE  [t EXCEPT !.pc = pc, !.rows = v]
           = Local(pc, t.cart, t.item, v, t.gone, t.sum, t.stale)
<1> DEFINE u == Local(pc, t.cart, t.item, t.rows, t.gone, t.sum, t.stale)
<1>1. [t EXCEPT !.pc = pc] = u
  BY Went
<1>2. [u EXCEPT !.rows = v]
        = Local(pc, t.cart, t.item, v, t.gone, t.sum, t.stale)
  BY DEF Local
<1> HIDE DEF u
<1>3. [t EXCEPT !.pc = pc, !.rows = v] = [u EXCEPT !.rows = v]
  BY <1>1
<1> QED
  BY <1>2, <1>3

LEMMA WentWithGone ==
  ASSUME NEW t, t = Locals(t), NEW pc, NEW v
  PROVE  [t EXCEPT !.pc = pc, !.gone = v]
           = Local(pc, t.cart, t.item, t.rows, v, t.sum, t.stale)
<1> DEFINE u == Local(pc, t.cart, t.item, t.rows, t.gone, t.sum, t.stale)
<1>1. [t EXCEPT !.pc = pc] = u
  BY Went
<1>2. [u EXCEPT !.gone = v]
        = Local(pc, t.cart, t.item, t.rows, v, t.sum, t.stale)
  BY DEF Local
<1> HIDE DEF u
<1>3. [t EXCEPT !.pc = pc, !.gone = v] = [u EXCEPT !.gone = v]
  BY <1>1
<1> QED
  BY <1>2, <1>3

LEMMA WentWithSum ==
  ASSUME NEW t, t = Locals(t), NEW pc, NEW v
  PROVE  [t EXCEPT !.pc = pc, !.sum = v]
           = Local(pc, t.cart, t.item, t.rows, t.gone, v, t.stale)
<1> DEFINE u == Local(pc, t.cart, t.item, t.rows, t.gone, t.sum, t.stale)
<1>1. [t EXCEPT !.pc = pc] = u
  BY Went
<1>2. [u EXCEPT !.sum = v]
        = Local(pc, t.cart, t.item, t.rows, t.gone, v, t.stale)
  BY DEF Local
<1> HIDE DEF u
<1>3. [t EXCEPT !.pc = pc, !.sum = v] = [u EXCEPT !.sum = v]
  BY <1>1
<1> QED
  BY <1>2, <1>3

LEMMA WentRows ==
  ASSUME NEW t, t = Locals(t), NEW v
  PROVE  [t EXCEPT !.rows = v]
           = Local(t.pc, t.cart, t.item, v, t.gone, t.sum, t.stale)
BY DEF Locals, Local

LEMMA WentStale ==
  ASSUME NEW t, t = Locals(t), NEW v
  PROVE  [t EXCEPT !.stale = v]
           = Local(t.pc, t.cart, t.item, t.rows, t.gone, t.sum, v)
BY DEF Locals, Local

\* What a request sees depends on its own writes and the committed items.
LEMMA SameSeen ==
  ASSUME NEW s \in Requests, UNCHANGED <<ask, items>>,
         tx'[s].rows = tx[s].rows, tx'[s].cart = tx[s].cart
  PROVE  Seen(s)' = Seen(s)
BY DEF Seen, NewRow

\* What a step of r leaves true of the requests.
LEMMA OwnStep ==
  ASSUME IInv, NEW r \in Requests, NEW t, Typed(t),
         tx' = [tx EXCEPT ![r] = t], UNCHANGED <<ask, items, options>>,
         Past(r) => Past(r)',
         \A s \in Requests \ {r} : t.rows \cap tx[s].rows = {}
  PROVE  /\ DOMAIN tx' = Requests
         /\ tx'[r] = t
         /\ \A s \in Requests : Typed(tx'[s])
         /\ \A s \in Requests : Past(s) => Past(s)'
         /\ LocksExclude'
         /\ \A s \in Requests \ {r} :
              /\ tx'[s] = tx[s]
              /\ OnCourse(s)' /\ FoundItem(s)' /\ WrittenRows(s)'
              /\ SumIsSeen(s)'
<1>1. /\ DOMAIN tx' = Requests
      /\ tx'[r] = t
      /\ \A s \in Requests \ {r} : tx'[s] = tx[s]
  BY DEF IInv, Shape
<1>2. \A s \in Requests : Typed(tx'[s])
  BY <1>1 DEF IInv, Shape, LocalsOK, Typed
<1>3. \A s \in Requests : Past(s) => Past(s)'
  BY <1>1 DEF Past
<1>4. LocksExclude'
  BY <1>1 DEF IInv, LocksExclude
<1>5. ASSUME NEW s \in Requests \ {r}
      PROVE  OnCourse(s)' /\ FoundItem(s)' /\ WrittenRows(s)' /\ SumIsSeen(s)'
  <2>1. RequestOK(s) /\ tx'[s] = tx[s]
    BY <1>1 DEF IInv
  <2>2. OnCourse(s)'
    BY <2>1 DEF RequestOK, OnCourse, Course
  <2>3. FoundItem(s)'
    BY <1>3, <2>1 DEF RequestOK, FoundItem, Known, Exists, Past
  <2>4. WrittenRows(s)'
    BY <2>1 DEF RequestOK, WrittenRows, Exists, Writing
  <2>5. SumIsSeen(s)'
    <3>1. Seen(s)' = Seen(s)
      BY <2>1, SameSeen
    <3> QED
      BY <2>1, <3>1 DEF RequestOK, SumIsSeen, SumOf, PricesIn, ItemsOf, Exists
  <2> QED
    BY <2>2, <2>3, <2>4, <2>5
<1> QED
  BY <1>1, <1>2, <1>3, <1>4, <1>5

\* Such a step keeps the invariant if it does for r.
LEMMA OwnStepKeepsIInv ==
  ASSUME IInv, NEW r \in Requests, NEW t, Typed(t),
         tx' = [tx EXCEPT ![r] = t],
         UNCHANGED <<ask, cartVars, rowVars, overlapped>>,
         failures' \in 0..MaxFailures,
         Past(r) => Past(r)',
         \A s \in Requests \ {r} : t.rows \cap tx[s].rows = {},
         RequestOK(r)'
  PROVE  IInv'
<1> USE DEF cartVars, rowVars
<1>1. /\ DOMAIN tx' = Requests
      /\ \A s \in Requests : Typed(tx'[s]) /\ (Past(s) => Past(s)')
      /\ LocksExclude'
      /\ \A s \in Requests \ {r} :
           /\ tx'[s] = tx[s]
           /\ OnCourse(s)' /\ FoundItem(s)' /\ WrittenRows(s)'
           /\ SumIsSeen(s)'
  BY OwnStep
<1>2. Shape'
  BY <1>1 DEF IInv, Shape, Typed
<1>3. LocalsOK'
  BY <1>1 DEF LocalsOK, Typed
<1>4. \A s \in Requests : RequestOK(s)'
  <2>1. \A s \in Requests \ {r} : HasCart(s)'
    BY <1>1 DEF IInv, RequestOK, HasCart
  <2> QED
    BY <1>1, <2>1 DEF RequestOK
<1>5. ItemsAreKept'
  BY <1>1 DEF IInv, ItemsAreKept, Exists
<1>6. OptionsAgree' /\ TotalUnlessOverlapped'
  BY DEF IInv, OptionsAgree, TotalUnlessOverlapped, Exists, SumOf, PricesIn
<1> QED
  BY <1>1, <1>2, <1>3, <1>4, <1>5, <1>6 DEF IInv

LEMMA Own ==
  ASSUME IInv, NEW r \in Requests
  PROVE  /\ Typed(tx[r]) /\ RequestOK(r)
         /\ DOMAIN tx = Requests
BY DEF IInv, Shape, LocalsOK, Typed

\* A request may end with an error anywhere.
LEMMA FailedKeepsIInv ==
  ASSUME IInv, NEW r \in Requests,
         tx' = [tx EXCEPT ![r] = Local("failed", tx[r].cart, tx[r].item, {},
                                       tx[r].gone, tx[r].sum, tx[r].stale)],
         UNCHANGED <<ask, cartVars, rowVars, overlapped>>,
         failures' \in 0..MaxFailures
  PROVE  IInv'
<1> DEFINE t == Local("failed", tx[r].cart, tx[r].item, {}, tx[r].gone,
                      tx[r].sum, tx[r].stale)
<1>1. Typed(t) /\ tx'[r] = t
  BY Own DEF Typed, Local, Locals, Position
<1>2. Past(r)'
  BY <1>1 DEF Past, Local
<1>3. RequestOK(r)'
  <2>1. ask'[r].op = ask[r].op /\ WrittenRows(r)
    BY Own DEF RequestOK
  <2>2. OnCourse(r)' /\ HasCart(r)' /\ FoundItem(r)' /\ SumIsSeen(r)'
    BY <1>1, <1>2
    DEF Local, OnCourse, HasCart, FoundItem, SumIsSeen
  <2>3. WrittenRows(r)'
    BY <1>1, <2>1 DEF Local, WrittenRows, Writing
  <2> QED
    BY <2>2, <2>3 DEF RequestOK
<1>4. \A s \in Requests \ {r} : t.rows \cap tx[s].rows = {}
  BY DEF Local
<1> QED
  BY <1>1, <1>2, <1>3, <1>4, OwnStepKeepsIInv

LEMMA GoneWrongKeepsIInv ==
  ASSUME IInv, NEW r \in Requests, tx[r].rows = {}, Goto(r, "failed")
  PROVE  IInv'
<1> DEFINE t == Local("failed", tx[r].cart, tx[r].item, tx[r].rows,
                      tx[r].gone, tx[r].sum, tx[r].stale)
<1>0. [tx[r] EXCEPT !.pc = "failed"] = t
  BY Own, Went DEF Typed
<1>1. tx' = [tx EXCEPT ![r] = t]
  BY <1>0 DEF Goto
<1> QED
  BY <1>1, FailedKeepsIInv DEF Goto, IInv, Shape

LEMMA FailKeepsIInv ==
  ASSUME IInv, NEW r \in Requests, Fail(r)
  PROVE  IInv'
<1> DEFINE t == Local("failed", tx[r].cart, tx[r].item, {}, tx[r].gone,
                      tx[r].sum, tx[r].stale)
<1>0. [tx[r] EXCEPT !.pc = "failed", !.rows = {}] = t
  BY Own, WentWithRows DEF Typed
<1>1. tx' = [tx EXCEPT ![r] = t]
  BY <1>0 DEF Fail
<1>2. failures' \in 0..MaxFailures
  BY FailuresAssumption DEF Fail, IInv, Shape
<1> QED
  BY <1>1, <1>2, FailedKeepsIInv DEF Fail

LEMMA FindCartKeepsIInv ==
  ASSUME IInv, NEW r \in Requests, FindCart(r)
  PROVE  IInv'
<1> DEFINE active == {c \in CartIds : /\ cartOwner[c] = ask[r].owner
                                      /\ cartStatus[c] = "ACTIVE"}
<1>1. /\ Typed(tx[r]) /\ RequestOK(r) /\ tx[r].pc = "start"
      /\ ask[r].op \in {"add", "update", "remove", "clear", "get"}
  BY Own, Asked DEF FindCart, IInv, Shape
<1>2. CASE active = {} /\ Goto(r, "createCart")
  <2> DEFINE t == Local("createCart", tx[r].cart, tx[r].item, tx[r].rows,
                        tx[r].gone, tx[r].sum, tx[r].stale)
  <2>1. tx' = [tx EXCEPT ![r] = t]
    BY <1>1, <1>2, Went DEF Goto, Typed
  <2>2. Typed(t) /\ tx'[r] = t
    BY <1>1, <2>1, Own DEF Typed, Position, Local, Locals
  <2>3. RequestOK(r)'
    BY <1>1, <1>2, <2>2
    DEF Goto, cartVars, RequestOK, OnCourse, HasCart, FoundItem, WrittenRows,
        SumIsSeen, Writing, Local
  <2> QED
    BY <1>1, <1>2, <2>1, <2>2, <2>3, OwnStepKeepsIInv
    DEF Goto, Past, IInv, Shape, LocksExclude, Local
<1>3. ASSUME NEW c \in active,
             tx' = [tx EXCEPT ![r] = [@ EXCEPT !.pc = FirstStatement(ask[r].op),
                                               !.cart = c]],
             UNCHANGED <<ask, cartVars, rowVars, overlapped, failures>>
      PROVE  IInv'
  <2>1. PICK pc : pc = FirstStatement(ask[r].op)
    OBVIOUS
  <2>2. /\ pc \in Position \cap (Course(ask[r].op) \cup {"answered"})
        /\ pc \in {"insertItem", "findItem", "listItems", "answered"}
        /\ ask[r].op \in {"update", "remove"} => pc = "findItem"
    BY <1>1, <2>1 DEF FirstStatement, Course, Position
  <2> DEFINE t == Local(pc, c, tx[r].item, tx[r].rows, tx[r].gone, tx[r].sum,
                        tx[r].stale)
  <2>3. [tx[r] EXCEPT !.pc = pc, !.cart = c] = t
    BY <1>1, WentWithCart DEF Typed
  <2>4. tx' = [tx EXCEPT ![r] = t]
    BY <1>3, <2>1, <2>3
  <2>5. Typed(t) /\ tx'[r] = t
    BY <1>1, <2>2, <2>4, Own DEF Typed, Local, Locals
  <2>6. RequestOK(r)'
    <3> UNCHANGED <<ask, cartOwner, options, items>>
      BY <1>3 DEF cartVars, rowVars
    <3>0. cartOwner[c] = ask[r].owner /\ c \in CartIds
      OBVIOUS
    <3>1. OnCourse(r)'
      BY <2>2, <2>5 DEF OnCourse, Local
    <3>2. HasCart(r)'
      BY <2>2, <2>5, <3>0 DEF HasCart, Local
    <3>3. FoundItem(r)'
      BY <2>2, <2>5 DEF FoundItem, Local
    <3>4. WrittenRows(r)'
      BY <1>1, <2>2, <2>5
      DEF RequestOK, WrittenRows, Writing, Local
    <3>5. SumIsSeen(r)'
      BY <1>1, <2>2, <2>5
      DEF RequestOK, SumIsSeen, Local
    <3> QED
      BY <3>1, <3>2, <3>3, <3>4, <3>5 DEF RequestOK
  <2>7. ~Past(r) /\ t.rows = {}
    BY <1>1 DEF Past, RequestOK, WrittenRows, Writing, Local
  <2> QED
    BY <1>3, <2>4, <2>5, <2>6, <2>7, OwnStepKeepsIInv DEF IInv, Shape
<1> QED
  BY <1>2, <1>3 DEF FindCart

\* A request that has what its next statement needs goes on to it.
LEMMA GoesOnKeepsIInv ==
  ASSUME IInv, NEW r \in Requests, NEW pc, Goto(r, pc),
         \/ /\ tx[r].pc = "findItem" /\ pc = "findDuplicate"
            /\ ask[r].op = "update" /\ ask[r].item \in ItemsOf(tx[r].cart)
         \/ tx[r].pc = "findDuplicate" /\ pc = "updateItem"
         \/ tx[r].pc = "createOptions" /\ pc = "sumItems"
         \/ tx[r].pc = "reread" /\ pc = "answered"
  PROVE  IInv'
<1> DEFINE t == Local(pc, tx[r].cart, tx[r].item, tx[r].rows, tx[r].gone,
                      tx[r].sum, tx[r].stale)
<1>1. Typed(tx[r]) /\ RequestOK(r) /\ pc \in Position
  BY Own DEF Position
<1>2. tx' = [tx EXCEPT ![r] = t]
  <2>1. [tx[r] EXCEPT !.pc = pc] = t
    BY <1>1, Went DEF Typed
  <2> QED
    BY <2>1 DEF Goto
<1>3. Typed(t) /\ tx'[r] = t
  BY <1>1, <1>2, Own DEF Typed, Local, Locals
<1>4. UNCHANGED <<ask, cartVars, rowVars, overlapped, failures>>
  BY DEF Goto
<1>5. ask[r].op \in {"add", "update", "remove", "clear", "get"}
  BY Asked DEF IInv, Shape
<1>6. RequestOK(r)'
  <2> UNCHANGED <<ask, cartOwner, options, items>>
    BY <1>4 DEF cartVars, rowVars
  <2>1. OnCourse(r)'
    BY <1>1, <1>3, <1>5 DEF RequestOK, OnCourse, Course, Local
  <2>2. HasCart(r)'
    BY <1>1, <1>3 DEF RequestOK, HasCart, Local
  <2>3. FoundItem(r)'
    <3>1. \A i \in Requests : Past(i) => Past(i)'
      BY <1>2, <1>3 DEF Past, Local, IInv, Shape
    <3>2. ask[r].item \in ItemsOf(tx[r].cart) => Known(r, ask[r].item)
      BY DEF IInv, ItemsAreKept, Known, ItemsOf
    <3> QED
      BY <1>1, <1>3, <3>1, <3>2
      DEF RequestOK, FoundItem, Known, Exists, Past, Local
  <2>4. WrittenRows(r)'
    BY <1>1, <1>3, <1>5
    DEF RequestOK, OnCourse, Course, WrittenRows, Writing, Exists, Local
  <2>5. SumIsSeen(r)'
    BY <1>1, <1>3 DEF RequestOK, SumIsSeen, Local
  <2> QED
    BY <2>1, <2>2, <2>3, <2>4, <2>5 DEF RequestOK
<1>7. Past(r) => Past(r)'
  BY <1>3 DEF Past, Local
<1>8. \A s \in Requests \ {r} : t.rows \cap tx[s].rows = {}
  BY DEF IInv, LocksExclude, Local
<1> QED
  BY <1>2, <1>3, <1>4, <1>6, <1>7, <1>8, OwnStepKeepsIInv DEF IInv, Shape

\* A request writes rows that nobody else has locked.
LEMMA WriteKeepsIInv ==
  ASSUME IInv, NEW r \in Requests, NEW rows \in SUBSET ItemIds,
         NEW pc \in {"deleteOptions", "sumItems", "updateCart"},
         Write(r, rows, pc), ~Past(r),
         \A i \in rows : ~Locked(i, r),
         tx'[r] = Local(pc, tx[r].cart, tx[r].item, rows, tx[r].gone,
                        tx[r].sum, tx[r].stale) => RequestOK(r)'
  PROVE  IInv'
<1> DEFINE t == Local(pc, tx[r].cart, tx[r].item, rows, tx[r].gone,
                      tx[r].sum, tx[r].stale)
<1>1. Typed(tx[r]) /\ pc \in Position
  BY Own DEF Position
<1>2. tx' = [tx EXCEPT ![r] = t]
  <2>1. [tx[r] EXCEPT !.pc = pc, !.rows = rows] = t
    BY <1>1, WentWithRows DEF Typed
  <2> QED
    BY <2>1 DEF Write
<1>3. Typed(t) /\ tx'[r] = t
  BY <1>1, <1>2, Own DEF Typed, Local, Locals
<1>4. UNCHANGED <<ask, cartVars, rowVars, overlapped, failures>>
  BY DEF Write
<1>5. \A s \in Requests \ {r} : t.rows \cap tx[s].rows = {}
  BY DEF Locked, Local
<1> QED
  BY <1>2, <1>3, <1>4, <1>5, OwnStepKeepsIInv DEF IInv, Shape

LEMMA InsertItemKeepsIInv ==
  ASSUME IInv, NEW r \in Requests, InsertItem(r)
  PROVE  IInv'
<1>1. /\ tx[r].pc = "insertItem" /\ r \in ItemIds /\ RequestOK(r)
      /\ UNCHANGED <<ask, cartOwner, options, items>>
  BY Own DEF InsertItem, Write, ItemIds, cartVars, rowVars
<1>2. ask[r].op = "add"
  BY <1>1, Asked DEF IInv, Shape, RequestOK, OnCourse, Course
<1>3. \A s \in Requests \ {r} : r \notin tx[s].rows
  <2>1. ASSUME NEW s \in Requests \ {r}, r \in tx[s].rows
        PROVE  FALSE
    <3>1. ask[s].op = "add" => tx[s].rows \subseteq {s}
      BY <2>1, Own DEF RequestOK, WrittenRows
    <3>2. Exists(r)
      BY <2>1, <3>1, Own DEF RequestOK, WrittenRows
    <3> QED
      BY <1>1, <3>2 DEF IInv, ItemsAreKept, Past
  <2> QED
    BY <2>1
<1>4. ASSUME tx'[r] = Local("sumItems", tx[r].cart, tx[r].item, {r},
                            tx[r].gone, tx[r].sum, tx[r].stale)
      PROVE  RequestOK(r)'
  <2>1. OnCourse(r)' /\ HasCart(r)'
    BY <1>1, <1>2, <1>4 DEF RequestOK, OnCourse, Course, HasCart, Local
  <2>2. FoundItem(r)' /\ WrittenRows(r)' /\ SumIsSeen(r)'
    BY <1>1, <1>2, <1>4
    DEF RequestOK, FoundItem, WrittenRows, SumIsSeen, Writing, Local
  <2> QED
    BY <2>1, <2>2 DEF RequestOK
<1> QED
  BY <1>1, <1>3, <1>4, WriteKeepsIInv DEF InsertItem, Locked, Past

LEMMA UpdateItemKeepsIInv ==
  ASSUME IInv, NEW r \in Requests, UpdateItem(r)
  PROVE  IInv'
<1>1. /\ tx[r].pc = "updateItem" /\ Exists(ask[r].item) /\ RequestOK(r)
      /\ ~Locked(ask[r].item, r)
      /\ UNCHANGED <<ask, cartOwner, options, items>>
  BY Own DEF UpdateItem, Write, cartVars, rowVars
<1>2. ask[r].op = "update" /\ ask[r].item \in ItemIds
  BY <1>1, Asked DEF IInv, Shape, RequestOK, OnCourse, Course
<1>3. Known(r, ask[r].item)
  BY <1>1, <1>2 DEF RequestOK, FoundItem, Past
<1>4. ASSUME tx'[r] = Local("deleteOptions", tx[r].cart, tx[r].item,
                            {ask[r].item}, tx[r].gone, tx[r].sum, tx[r].stale)
      PROVE  RequestOK(r)'
  <2>1. OnCourse(r)' /\ HasCart(r)'
    BY <1>1, <1>2, <1>4 DEF RequestOK, OnCourse, Course, HasCart, Local
  <2>2. FoundItem(r)'
    <3>1. ask[r].item \in Requests => ask[r].item # r /\ Past(ask[r].item)'
      BY <1>1, <1>3 DEF Known, Past, UpdateItem, Write
    <3> QED
      BY <1>1, <1>2, <1>3, <1>4, <3>1 DEF FoundItem, Known, Exists, Local
  <2>3. WrittenRows(r)'
    BY <1>1, <1>2, <1>3, <1>4
    DEF RequestOK, WrittenRows, Writing, Known, Exists, Local
  <2>4. SumIsSeen(r)'
    BY <1>4 DEF SumIsSeen, Local
  <2> QED
    BY <2>1, <2>2, <2>3, <2>4 DEF RequestOK
<1> QED
  BY <1>1, <1>2, <1>4, WriteKeepsIInv DEF UpdateItem, Past

LEMMA DeleteItemKeepsIInv ==
  ASSUME IInv, NEW r \in Requests, DeleteItem(r)
  PROVE  IInv'
<1>1. /\ tx[r].pc = "deleteItem" /\ RequestOK(r) /\ ~Locked(tx[r].item, r)
  BY Own DEF DeleteItem
<1>2. ask[r].op = "remove"
  BY <1>1, Asked DEF IInv, Shape, RequestOK, OnCourse, Course
<1>3. tx[r].item \in ItemIds /\ Known(r, tx[r].item) /\ tx[r].rows = {}
  BY <1>1, <1>2 DEF RequestOK, FoundItem, Past, WrittenRows, Writing
<1>4. CASE Exists(tx[r].item) /\ Write(r, {tx[r].item}, "sumItems")
  <2> UNCHANGED <<ask, cartOwner, options, items>>
    BY <1>4 DEF Write, cartVars, rowVars
  <2>1. ASSUME tx'[r] = Local("sumItems", tx[r].cart, tx[r].item,
                              {tx[r].item}, tx[r].gone, tx[r].sum,
                              tx[r].stale)
        PROVE  RequestOK(r)'
    <3>1. OnCourse(r)' /\ HasCart(r)'
      BY <1>1, <1>2, <2>1 DEF RequestOK, OnCourse, Course, HasCart, Local
    <3>2. FoundItem(r)'
      <4>1. tx[r].item \in Requests => Past(tx[r].item)'
        BY <1>1, <1>3, <1>4 DEF Known, Past, Write
      <4> QED
        BY <1>2, <1>3, <2>1, <4>1 DEF FoundItem, Known, Exists, Local
    <3>3. WrittenRows(r)' /\ SumIsSeen(r)'
      BY <1>2, <1>3, <1>4, <2>1
      DEF WrittenRows, SumIsSeen, Writing, Known, Exists, Local
    <3> QED
      BY <3>1, <3>2, <3>3 DEF RequestOK
  <2> QED
    BY <1>1, <1>3, <1>4, <2>1, WriteKeepsIInv DEF Past
<1>5. CASE Goto(r, "failed")
  BY <1>3, <1>5, GoneWrongKeepsIInv
<1> QED
  BY <1>4, <1>5 DEF DeleteItem

LEMMA DeleteItemsKeepsIInv ==
  ASSUME IInv, NEW r \in Requests, DeleteItems(r)
  PROVE  IInv'
<1> DEFINE rows == tx[r].gone \cap ItemsOf(tx[r].cart)
<1>1. /\ tx[r].pc = "deleteItems" /\ RequestOK(r) /\ rows \in SUBSET ItemIds
      /\ \A i \in rows : ~Locked(i, r)
      /\ UNCHANGED <<ask, cartOwner, options, items>>
  BY Own DEF DeleteItems, Write, cartVars, rowVars, ItemsOf
<1>2. ask[r].op = "clear"
  BY <1>1, Asked DEF IInv, Shape, RequestOK, OnCourse, Course
<1>3. ASSUME tx'[r] = Local("updateCart", tx[r].cart, tx[r].item, rows,
                            tx[r].gone, tx[r].sum, tx[r].stale)
      PROVE  RequestOK(r)'
  <2>1. OnCourse(r)' /\ HasCart(r)' /\ FoundItem(r)'
    BY <1>1, <1>2, <1>3
    DEF RequestOK, OnCourse, Course, HasCart, FoundItem, Local
  <2>2. WrittenRows(r)'
    BY <1>1, <1>2, <1>3 DEF WrittenRows, Writing, ItemsOf, Exists, Local
  <2>3. SumIsSeen(r)'
    <3>1. ASSUME ~tx[r].stale
          PROVE  SumOf(Seen(r), tx[r].cart)' = 0
      <4>1. rows = ItemsOf(tx[r].cart)
        BY <1>1, <3>1 DEF RequestOK, SumIsSeen
      <4>2. NewRow(r)' = NoItem
        BY <1>2, <1>1 DEF NewRow
      <4>3. /\ tx'[r].rows = rows /\ tx'[r].cart = tx[r].cart
            /\ items' = items
        BY <1>1, <1>3 DEF Local
      <4>4. \A i \in ItemIds :
              ~(Seen(r)'[i] # NoItem /\ Seen(r)'[i].cart = tx[r].cart)
        BY <4>1, <4>2, <4>3 DEF Seen, ItemsOf, Exists
      <4> QED
        BY <4>3, <4>4, NoItemsNoSum
    <3> QED
      BY <1>1, <1>3, <3>1 DEF RequestOK, SumIsSeen, Local
  <2> QED
    BY <2>1, <2>2, <2>3 DEF RequestOK
<1> QED
  BY <1>1, <1>3, WriteKeepsIInv DEF DeleteItems, Past

LEMMA DeleteOptionsKeepsIInv ==
  ASSUME IInv, NEW r \in Requests, DeleteOptions(r)
  PROVE  IInv'
<1> DEFINE gone == options[ask[r].item]
           t    == Local("createOptions", tx[r].cart, tx[r].item, tx[r].rows,
                         gone, tx[r].sum, tx[r].stale)
<1>1. Typed(tx[r]) /\ RequestOK(r) /\ tx[r].pc = "deleteOptions"
  BY Own DEF DeleteOptions
<1>2. ask[r].op = "update" /\ ask[r].item \in ItemIds
  BY <1>1, Asked DEF IInv, Shape, RequestOK, OnCourse, Course
<1>3. tx' = [tx EXCEPT ![r] = t]
  <2>1. [tx[r] EXCEPT !.pc = "createOptions", !.gone = gone] = t
    BY <1>1, WentWithGone DEF Typed
  <2> QED
    BY <2>1 DEF DeleteOptions
<1>4. gone \in SUBSET ItemIds
  BY <1>2 DEF IInv, Shape
<1>5. Typed(t) /\ tx'[r] = t
  BY <1>1, <1>3, <1>4, Own DEF Typed, Local, Locals, Position
<1>6. UNCHANGED <<ask, cartVars, rowVars, overlapped, failures>>
  BY DEF DeleteOptions
<1>7. RequestOK(r)'
  <2> UNCHANGED <<ask, cartOwner, options, items>>
    BY <1>6 DEF cartVars, rowVars
  <2>1. OnCourse(r)' /\ HasCart(r)'
    BY <1>1, <1>2, <1>5 DEF RequestOK, OnCourse, Course, HasCart, Local
  <2>2. FoundItem(r)'
    <3>1. Known(r, ask[r].item)
      BY <1>1, <1>2 DEF RequestOK, FoundItem, Past
    <3>2. ask[r].item \in Requests => Past(ask[r].item)'
      BY <1>1, <3>1 DEF Known, Past, DeleteOptions
    <3> QED
      BY <1>2, <1>5, <3>1, <3>2 DEF FoundItem, Known, Exists, Local
  <2>3. WrittenRows(r)' /\ SumIsSeen(r)'
    BY <1>1, <1>2, <1>5
    DEF RequestOK, WrittenRows, SumIsSeen, Writing, Exists, Local
  <2> QED
    BY <2>1, <2>2, <2>3 DEF RequestOK
<1>8. ~Past(r) /\ \A s \in Requests \ {r} : t.rows \cap tx[s].rows = {}
  BY <1>1 DEF Past, IInv, LocksExclude, Local
<1> QED
  BY <1>3, <1>5, <1>6, <1>7, <1>8, OwnStepKeepsIInv DEF IInv, Shape

LEMMA FindItemOfServiceKeepsIInv ==
  ASSUME IInv, NEW r \in Requests, FindItemOfService(r)
  PROVE  IInv'
<1> DEFINE found == {i \in ItemsOf(tx[r].cart) :
                       items[i].key[1] = ask[r].service}
<1>1. /\ Typed(tx[r]) /\ RequestOK(r)
      /\ tx[r].pc = "findItem" /\ ask[r].op = "remove"
  BY Own DEF FindItemOfService
<1>2. tx[r].rows = {}
  BY <1>1 DEF RequestOK, WrittenRows, Writing
<1>3. CASE Goto(r, "failed")
  BY <1>2, <1>3, GoneWrongKeepsIInv
<1>4. ASSUME NEW i \in found,
             tx' = [tx EXCEPT ![r] = [@ EXCEPT !.pc = "deleteItem",
                                               !.item = i]],
             UNCHANGED <<ask, cartVars, rowVars, overlapped, failures>>
      PROVE  IInv'
  <2> DEFINE t == Local("deleteItem", tx[r].cart, i, tx[r].rows, tx[r].gone,
                        tx[r].sum, tx[r].stale)
  <2>1. tx' = [tx EXCEPT ![r] = t]
    <3>1. [tx[r] EXCEPT !.pc = "deleteItem", !.item = i] = t
      BY <1>1, WentWithItem DEF Typed
    <3> QED
      BY <1>4, <3>1
  <2>2. i \in ItemIds /\ Known(r, i)
    BY DEF IInv, ItemsAreKept, Known, ItemsOf
  <2>3. Typed(t) /\ tx'[r] = t
    BY <1>1, <2>1, <2>2, Own DEF Typed, Local, Locals, Position
  <2>4. RequestOK(r)'
    <3> UNCHANGED <<ask, cartOwner, options, items>>
      BY <1>4 DEF cartVars, rowVars
    <3>1. OnCourse(r)' /\ HasCart(r)'
      BY <1>1, <2>3 DEF RequestOK, OnCourse, Course, HasCart, Local
    <3>2. FoundItem(r)'
      <4>1. i \in Requests => Past(i)'
        BY <1>1, <2>1, <2>2 DEF Known, Past, IInv, Shape
      <4> QED
        BY <1>1, <2>2, <2>3, <4>1 DEF FoundItem, Known, Exists, Local
    <3>3. WrittenRows(r)' /\ SumIsSeen(r)'
      BY <1>1, <1>2, <2>3 DEF WrittenRows, SumIsSeen, Writing, Local
    <3> QED
      BY <3>1, <3>2, <3>3 DEF RequestOK
  <2>5. ~Past(r) /\ t.rows = {}
    BY <1>1, <1>2 DEF Past, Local
  <2> QED
    BY <1>4, <2>1, <2>3, <2>4, <2>5, OwnStepKeepsIInv DEF IInv, Shape
<1> QED
  BY <1>3, <1>4 DEF FindItemOfService

LEMMA ListItemsKeepsIInv ==
  ASSUME IInv, NEW r \in Requests, ListItems(r)
  PROVE  IInv'
<1> DEFINE gone == ItemsOf(tx[r].cart)
           t    == Local("deleteItems", tx[r].cart, tx[r].item, tx[r].rows,
                         gone, tx[r].sum, tx[r].stale)
<1>1. Typed(tx[r]) /\ RequestOK(r) /\ tx[r].pc = "listItems"
  BY Own DEF ListItems
<1>2. ask[r].op = "clear"
  BY <1>1, Asked DEF IInv, Shape, RequestOK, OnCourse, Course
<1>3. tx' = [tx EXCEPT ![r] = t]
  <2>1. [tx[r] EXCEPT !.pc = "deleteItems", !.gone = gone] = t
    BY <1>1, WentWithGone DEF Typed
  <2> QED
    BY <2>1 DEF ListItems
<1>4. gone \in SUBSET ItemIds
  BY DEF ItemsOf
<1>5. Typed(t) /\ tx'[r] = t
  BY <1>1, <1>3, <1>4, Own DEF Typed, Local, Locals, Position
<1>6. UNCHANGED <<ask, cartVars, rowVars, overlapped, failures>>
  BY DEF ListItems
<1>7. RequestOK(r)'
  <2> UNCHANGED <<ask, cartOwner, options, items>>
    BY <1>6 DEF cartVars, rowVars
  <2>1. OnCourse(r)' /\ HasCart(r)' /\ FoundItem(r)' /\ WrittenRows(r)'
    BY <1>1, <1>2, <1>5
    DEF RequestOK, OnCourse, Course, HasCart, FoundItem, WrittenRows, Writing,
        Local
  <2>2. SumIsSeen(r)'
    <3>1. ItemsOf(tx[r].cart)' = gone
      BY <1>5 DEF ItemsOf, Exists, Local
    <3> QED
      BY <1>1, <1>5, <3>1 DEF RequestOK, SumIsSeen, Local
  <2> QED
    BY <2>1, <2>2 DEF RequestOK
<1>8. ~Past(r) /\ \A s \in Requests \ {r} : t.rows \cap tx[s].rows = {}
  BY <1>1 DEF Past, IInv, LocksExclude, Local
<1> QED
  BY <1>3, <1>5, <1>6, <1>7, <1>8, OwnStepKeepsIInv DEF IInv, Shape

LEMMA SumItemsKeepsIInv ==
  ASSUME IInv, NEW r \in Requests, SumItems(r)
  PROVE  IInv'
<1> DEFINE sum == SumOf(Seen(r), tx[r].cart)
           t   == Local("updateCart", tx[r].cart, tx[r].item, tx[r].rows,
                        tx[r].gone, sum, tx[r].stale)
<1>1. Typed(tx[r]) /\ RequestOK(r) /\ tx[r].pc = "sumItems"
  BY Own DEF SumItems
<1>2. ask[r].op \in {"add", "update", "remove"}
  BY <1>1, Asked DEF IInv, Shape, RequestOK, OnCourse, Course
<1>3. tx' = [tx EXCEPT ![r] = t]
  <2>1. [tx[r] EXCEPT !.pc = "updateCart", !.sum = sum] = t
    BY <1>1, WentWithSum DEF Typed
  <2> QED
    BY <2>1 DEF SumItems
<1> HIDE DEF sum
<1>4. Typed(t) /\ tx'[r] = t
  BY <1>1, <1>3, Own DEF Typed, Local, Locals, Position
<1>5. UNCHANGED <<ask, cartVars, rowVars, overlapped, failures>>
  BY DEF SumItems
<1>6. RequestOK(r)'
  <2> UNCHANGED <<ask, cartOwner, options, items>>
    BY <1>5 DEF cartVars, rowVars
  <2>1. OnCourse(r)' /\ HasCart(r)'
    BY <1>1, <1>2, <1>4 DEF RequestOK, OnCourse, Course, HasCart, Local
  <2>2. FoundItem(r)'
    <3>1. \A i \in Requests : Past(i) => Past(i)'
      BY <1>1, <1>3 DEF Past, IInv, Shape
    <3> QED
      BY <1>1, <1>4, <3>1
      DEF RequestOK, FoundItem, Known, Exists, Past, Local
  <2>3. WrittenRows(r)'
    BY <1>1, <1>4 DEF RequestOK, WrittenRows, Writing, Exists, Local
  <2>4. SumIsSeen(r)'
    <3>1. SumOf(Seen(r), tx[r].cart)' = sum
      <4>1. tx'[r].rows = tx[r].rows /\ tx'[r].cart = tx[r].cart
        BY <1>4 DEF Local
      <4>2. Seen(r)' = Seen(r)
        BY <4>1, SameSeen
      <4> QED
        BY <4>1, <4>2 DEF sum
    <3> QED
      BY <1>4, <3>1 DEF SumIsSeen, Local
  <2> QED
    BY <2>1, <2>2, <2>3, <2>4 DEF RequestOK
<1>7. ~Past(r) /\ \A s \in Requests \ {r} : t.rows \cap tx[s].rows = {}
  BY <1>1 DEF Past, IInv, LocksExclude, Local
<1> QED
  BY <1>3, <1>4, <1>5, <1>6, <1>7, OwnStepKeepsIInv DEF IInv, Shape

LEMMA GotosKeepIInv ==
  ASSUME IInv, NEW r \in Requests,
         \/ InsertConflict(r) \/ FindItem(r) \/ FindDuplicate(r)
         \/ UpdateConflict(r) \/ CreateOptions(r) \/ Reread(r)
  PROVE  IInv'
<1>1. tx[r].pc \notin Writing => tx[r].rows = {}
  BY Own DEF RequestOK, WrittenRows
<1>2. CASE InsertConflict(r) \/ UpdateConflict(r)
  BY <1>1, <1>2, GoneWrongKeepsIInv
  DEF InsertConflict, UpdateConflict, Writing
<1>3. CASE FindItem(r) \/ FindDuplicate(r)
  BY <1>1, <1>3, GoneWrongKeepsIInv, GoesOnKeepsIInv
  DEF FindItem, FindDuplicate, Writing
<1>4. CASE CreateOptions(r) \/ Reread(r)
  BY <1>4, GoesOnKeepsIInv DEF CreateOptions, Reread
<1> QED
  BY <1>2, <1>3, <1>4

-----------------------------------------------------------------------------
(***************************************************************************)
(* Steps on carts.                                                         *)
(***************************************************************************)
LEMMA CloseCartKeepsIInv ==
  ASSUME IInv, NEW c \in CartIds, CloseCart(c)
  PROVE  IInv'
<1>1. /\ ask' = ask /\ cartOwner' = cartOwner /\ total' = total
      /\ items' = items /\ options' = options /\ tx' = tx
      /\ overlapped' = overlapped /\ failures' = failures
      /\ cartStatus' \in [CartIds -> {"ACTIVE", "ORDERED"}]
  BY DEF CloseCart, rowVars, IInv, Shape
<1>2. Shape'
  BY <1>1 DEF IInv, Shape
<1>3. ASSUME NEW r \in Requests
      PROVE  RequestOK(r)'
  <2>1. RequestOK(r) /\ Seen(r)' = Seen(r)
    BY <1>1 DEF IInv, Seen, NewRow
  <2> QED
    BY <1>1, <2>1
    DEF RequestOK, OnCourse, HasCart, FoundItem, Known, Exists, Past,
        WrittenRows, SumIsSeen, SumOf, PricesIn, ItemsOf
<1>4. LocalsOK' /\ LocksExclude' /\ ItemsAreKept'
  BY <1>1 DEF IInv, LocalsOK, Locals, LocksExclude, ItemsAreKept, Exists, Past
<1>5. OptionsAgree' /\ TotalUnlessOverlapped'
  BY <1>1
  DEF IInv, OptionsAgree, TotalUnlessOverlapped, Exists, SumOf, PricesIn
<1> QED
  BY <1>2, <1>3, <1>4, <1>5 DEF IInv

LEMMA CreateCartKeepsIInv ==
  ASSUME IInv, NEW r \in Requests, CreateCart(r)
  PROVE  IInv'
<1>1. /\ Typed(tx[r]) /\ RequestOK(r) /\ tx[r].pc = "createCart"
      /\ ask[r].op \in {"add", "update", "remove", "clear", "get"}
      /\ ask[r].owner \in Owners /\ r \in CartIds
  BY Own, Asked DEF CreateCart, IInv, Shape, CartIds
<1>2. PICK pc : pc = FirstStatement(ask[r].op)
  OBVIOUS
<1>3. /\ pc \in Position \cap (Course(ask[r].op) \cup {"answered"})
      /\ pc \in {"insertItem", "findItem", "listItems", "answered"}
      /\ ask[r].op \in {"update", "remove"} => pc = "findItem"
  BY <1>1, <1>2 DEF FirstStatement, Course, Position
<1> DEFINE t == Local(pc, r, tx[r].item, tx[r].rows, tx[r].gone, tx[r].sum,
                      tx[r].stale)
<1>4. tx' = [tx EXCEPT ![r] = t]
  <2>1. [tx[r] EXCEPT !.pc = pc, !.cart = r] = t
    BY <1>1, WentWithCart DEF Typed
  <2> QED
    BY <1>2, <2>1 DEF CreateCart
<1>5. Typed(t) /\ t.rows = {}
  BY <1>1, <1>3
  DEF Typed, Local, Locals, RequestOK, WrittenRows, Writing
<1>6. /\ UNCHANGED <<ask, items, options, overlapped, failures>>
      /\ cartOwner' = [cartOwner EXCEPT ![r] = ask[r].owner]
      /\ cartStatus' = [cartStatus EXCEPT ![r] = "ACTIVE"]
      /\ total' = [total EXCEPT ![r] = 0]
  BY DEF CreateCart
<1>7. /\ DOMAIN tx' = Requests
      /\ tx'[r] = t
      /\ \A s \in Requests : Typed(tx'[s]) /\ (Past(s) => Past(s)')
      /\ LocksExclude'
      /\ \A s \in Requests \ {r} :
           /\ tx'[s] = tx[s]
           /\ OnCourse(s)' /\ FoundItem(s)' /\ WrittenRows(s)'
           /\ SumIsSeen(s)'
  <2>1. ~Past(r) /\ \A s \in Requests \ {r} : t.rows \cap tx[s].rows = {}
    BY <1>1, <1>5 DEF Past
  <2> HIDE DEF t
  <2>2. UNCHANGED <<ask, items, options>>
    BY <1>6
  <2> QED
    BY <1>4, <1>5, <2>1, <2>2, OwnStep
<1>8. cartOwner[r] = NoOwner /\ cartOwner'[r] = ask[r].owner
  BY <1>1, <1>6 DEF RequestOK, HasCart, IInv, Shape
<1>9. \A s \in Requests \ {r} : HasCart(s)'
  <2>1. ASSUME NEW s \in Requests \ {r}
        PROVE  HasCart(s)'
    <3>1. RequestOK(s) /\ tx'[s] = tx[s] /\ ask[s].owner \in Owners
      BY <1>7, Own, Asked DEF IInv, Shape
    <3>2. s \in CartIds /\ cartOwner'[s] = cartOwner[s]
      BY <1>6 DEF CartIds, IInv, Shape
    <3>3. tx[s].pc \notin {"start", "createCart", "failed"} => tx[s].cart # r
      BY <1>8, <3>1, NamesAssumption DEF RequestOK, HasCart
    <3> QED
      BY <1>6, <3>1, <3>2, <3>3 DEF RequestOK, HasCart, IInv, Shape
  <2> QED
    BY <2>1
<1>10. RequestOK(r)'
  <2>1. OnCourse(r)'
    BY <1>3, <1>6, <1>7 DEF OnCourse, Local
  <2>2. HasCart(r)'
    BY <1>1, <1>3, <1>6, <1>7, <1>8 DEF HasCart, Local
  <2>3. FoundItem(r)'
    BY <1>3, <1>6, <1>7 DEF FoundItem, Local
  <2>4. WrittenRows(r)'
    BY <1>1, <1>3, <1>5, <1>6, <1>7
    DEF RequestOK, WrittenRows, Writing, Local
  <2>5. SumIsSeen(r)'
    BY <1>1, <1>3, <1>6, <1>7 DEF RequestOK, SumIsSeen, Local
  <2> QED
    BY <2>1, <2>2, <2>3, <2>4, <2>5 DEF RequestOK
<1>11. Shape'
  BY <1>1, <1>6, <1>7 DEF IInv, Shape, Typed
<1>12. ItemsAreKept'
  BY <1>1, <1>6, <1>7, NamesAssumption
  DEF IInv, ItemsAreKept, Exists, Shape
<1>13. TotalUnlessOverlapped'
  <2>1. \A i \in ItemIds : ~(items[i] # NoItem /\ items[i].cart = r)
    BY <1>8 DEF IInv, ItemsAreKept, Exists
  <2>2. SumOf(items, r) = 0
    BY <2>1, NoItemsNoSum
  <2> QED
    BY <1>1, <1>6, <2>2 DEF IInv, Shape, TotalUnlessOverlapped
<1>14. OptionsAgree' /\ LocalsOK'
  BY <1>6, <1>7 DEF IInv, OptionsAgree, Exists, LocalsOK, Typed
<1> QED
  BY <1>7, <1>9, <1>10, <1>11, <1>12, <1>13, <1>14 DEF IInv, RequestOK

-----------------------------------------------------------------------------
(***************************************************************************)
(* The commit of a transaction.                                            *)
(***************************************************************************)

\* A commit writes rows of its own cart, as items that exist or as a new one.
LEMMA Committing ==
  ASSUME IInv, NEW r \in Requests, UpdateCart(r)
  PROVE  /\ Typed(tx[r]) /\ RequestOK(r) /\ tx[r].cart \in CartIds
         /\ cartOwner[tx[r].cart] = ask[r].owner /\ ask[r].owner \in Owners
         /\ ask[r].op \in {"add", "update", "remove", "clear"}
         /\ tx[r].rows \subseteq ItemIds
         /\ items' \in [ItemIds -> Row \cup {NoItem}]
         /\ \A i \in ItemIds :
              items'[i] = IF i \in tx[r].rows THEN NewRow(r) ELSE items[i]
         /\ \A i \in tx[r].rows :
              IF ask[r].op = "add"
              THEN i = r /\ ~Exists(r)
              ELSE Exists(i) /\ items[i].cart = tx[r].cart
         /\ UNCHANGED <<ask, cartOwner, cartStatus, failures>>
<1>1. /\ Typed(tx[r]) /\ RequestOK(r) /\ tx[r].pc = "updateCart"
      /\ ask[r].op \in {"add", "update", "remove", "clear", "get"}
      /\ ask[r].owner \in Owners
  BY Own, Asked DEF UpdateCart, IInv, Shape
<1>2. ask[r].op # "get"
  BY <1>1 DEF RequestOK, OnCourse, Course
<1>3. tx[r].cart \in CartIds /\ cartOwner[tx[r].cart] = ask[r].owner
  BY <1>1 DEF RequestOK, HasCart
<1>4. items' = Seen(r) /\ UNCHANGED <<ask, cartOwner, cartStatus, failures>>
  BY DEF UpdateCart, cartVars
<1>5. NewRow(r) \in Row \cup {NoItem}
  BY <1>1, <1>3, NewRows DEF IInv, Shape
<1>6. /\ items' \in [ItemIds -> Row \cup {NoItem}]
      /\ \A i \in ItemIds :
           items'[i] = IF i \in tx[r].rows THEN NewRow(r) ELSE items[i]
  BY <1>4, <1>5 DEF Seen, IInv, Shape
<1>7. ~Exists(r)
  BY <1>1 DEF IInv, ItemsAreKept, Past, ItemIds
<1>8. \A i \in tx[r].rows :
        IF ask[r].op = "add"
        THEN i = r /\ ~Exists(r)
        ELSE Exists(i) /\ items[i].cart = tx[r].cart
  BY <1>1, <1>7 DEF RequestOK, WrittenRows, Writing
<1> QED
  BY <1>1, <1>2, <1>3, <1>4, <1>6, <1>8 DEF Typed

\* It leaves the rows of other carts as they are.
LEMMA OtherCartsAreKept ==
  ASSUME IInv, NEW r \in Requests, UpdateCart(r), NEW d, d # tx[r].cart
  PROVE  \A i \in ItemIds :
           /\ items'[i] # NoItem /\ items'[i].cart = d
                <=> items[i] # NoItem /\ items[i].cart = d
           /\ items'[i] # NoItem /\ items'[i].cart = d => items'[i] = items[i]
<1>1. NewRow(r) = NoItem \/ NewRow(r).cart = tx[r].cart
  BY Committing, NewRows DEF IInv, Shape
<1> QED
  BY <1>1, Committing DEF Exists

\* What becomes of r's local variables.
LEMMA CommittedLocals ==
  ASSUME IInv, NEW r \in Requests, UpdateCart(r)
  PROVE  /\ DOMAIN tx' = Requests
         /\ Typed(tx'[r])
         /\ tx'[r].pc = IF ask[r].op \in {"add", "update"} THEN "reread"
                                                          ELSE "answered"
         /\ tx'[r].cart = tx[r].cart /\ tx'[r].gone = tx[r].gone
         /\ tx'[r].rows = {} /\ tx'[r].sum = tx[r].sum
<1>1. PICK pc : pc = IF ask[r].op \in {"add", "update"} THEN "reread"
                                                       ELSE "answered"
  OBVIOUS
<1>2. DOMAIN tx' = Requests /\ tx'[r] = [tx[r] EXCEPT !.rows = {}, !.pc = pc]
  BY <1>1 DEF UpdateCart
<1> DEFINE t == Local(pc, tx[r].cart, tx[r].item, {}, tx[r].gone, tx[r].sum,
                      tx[r].stale)
           u == Local(tx[r].pc, tx[r].cart, tx[r].item, {}, tx[r].gone,
                      tx[r].sum, tx[r].stale)
<1>3. tx'[r] = t
  <2>1. [tx[r] EXCEPT !.rows = {}] = u
    BY Own, WentRows DEF Typed
  <2>2. [u EXCEPT !.pc = pc] = t
    BY DEF Local
  <2> HIDE DEF t, u
  <2> QED
    BY <1>2, <2>1, <2>2
<1>4. pc \in Position
  BY <1>1 DEF Position
<1> QED
  BY <1>1, <1>2, <1>3, <1>4, Own DEF Typed, Local, Locals

\* The other requests only learn that a sum of theirs is stale.
LEMMA OtherLocals ==
  ASSUME IInv, NEW r \in Requests, UpdateCart(r), NEW s \in Requests \ {r}
  PROVE  /\ Typed(tx'[s])
         /\ tx'[s].pc = tx[s].pc /\ tx'[s].cart = tx[s].cart
         /\ tx'[s].item = tx[s].item /\ tx'[s].rows = tx[s].rows
         /\ tx'[s].gone = tx[s].gone /\ tx'[s].sum = tx[s].sum
         /\ ~tx'[s].stale =>
              /\ ~tx[s].stale
              /\ tx[s].pc \in {"deleteItems", "updateCart"} =>
                   tx[s].cart # tx[r].cart
<1>1. tx'[s] = IF /\ tx[s].cart = tx[r].cart
                  /\ tx[s].pc \in {"deleteItems", "updateCart"}
               THEN [tx[s] EXCEPT !.stale = TRUE]
               ELSE tx[s]
  BY DEF UpdateCart
<1>2. Typed(tx[s])
  BY Own
<1>3. CASE /\ tx[s].cart = tx[r].cart
           /\ tx[s].pc \in {"deleteItems", "updateCart"}
  <2>1. tx'[s] = Local(tx[s].pc, tx[s].cart, tx[s].item, tx[s].rows,
                       tx[s].gone, tx[s].sum, TRUE)
    BY <1>1, <1>2, <1>3, WentStale DEF Typed
  <2> QED
    BY <1>2, <2>1 DEF Typed, Local, Locals
<1>4. CASE ~(/\ tx[s].cart = tx[r].cart
             /\ tx[s].pc \in {"deleteItems", "updateCart"})
  BY <1>1, <1>2, <1>4
<1> QED
  BY <1>3, <1>4

\* What a request that does not commit knows stays true.
LEMMA OthersKeepOn ==
  ASSUME IInv, NEW r \in Requests, UpdateCart(r), NEW s \in Requests \ {r}
  PROVE  RequestOK(s)'
<1>1. /\ tx'[s].pc = tx[s].pc /\ tx'[s].cart = tx[s].cart
      /\ tx'[s].item = tx[s].item /\ tx'[s].rows = tx[s].rows
      /\ tx'[s].gone = tx[s].gone /\ tx'[s].sum = tx[s].sum
      /\ ~tx'[s].stale =>
           /\ ~tx[s].stale
           /\ tx[s].pc \in {"deleteItems", "updateCart"} =>
                tx[s].cart # tx[r].cart
  BY OtherLocals
<1>2. RequestOK(s) /\ ask' = ask /\ cartOwner' = cartOwner
  BY Own, Committing
<1>3. \A q \in Requests : Past(q) => Past(q)'
  BY CommittedLocals, OtherLocals DEF Past
<1>4. OnCourse(s)' /\ HasCart(s)'
  BY <1>1, <1>2 DEF RequestOK, OnCourse, HasCart
<1>5. ASSUME NEW i \in ItemIds, Known(s, i)
      PROVE  Known(s, i)'
  <2>1. CASE i \notin tx[r].rows
    BY <1>1, <1>3, <1>5, <2>1, Committing DEF Known, Exists
  <2>2. CASE i \in tx[r].rows /\ ask[r].op = "add"
    <3>1. i = r /\ ~Past(r)
      BY <2>2, Committing DEF UpdateCart, Past
    <3> QED
      BY <1>5, <3>1 DEF Known
  <2>3. CASE i \in tx[r].rows /\ ask[r].op # "add"
    <3>1. tx[s].cart = tx[r].cart
      BY <1>5, <2>3, Committing DEF Known
    <3>2. items'[i] = NoItem \/ items'[i].cart = tx[r].cart
      BY <2>3, Committing, NewRows DEF IInv, Shape
    <3> QED
      BY <1>1, <1>3, <1>5, <3>1, <3>2 DEF Known, Exists
  <2> QED
    BY <2>1, <2>2, <2>3
<1>6. FoundItem(s)'
  <2>1. ask[s].op = "update" => ask[s].item \in ItemIds
    BY Asked DEF IInv, Shape
  <2>2. Past(s)' <=> Past(s)
    BY <1>1 DEF Past
  <2> QED
    BY <1>1, <1>2, <1>5, <2>1, <2>2 DEF RequestOK, FoundItem
<1>7. WrittenRows(s)'
  <2>1. \A i \in tx[s].rows : /\ i \in ItemIds /\ i \notin tx[r].rows
                              /\ items'[i] = items[i]
                              /\ options'[i] = options[i]
    <3>1. tx[s].rows \subseteq ItemIds /\ tx[s].rows \cap tx[r].rows = {}
      BY Own DEF Typed, IInv, LocksExclude
    <3>2. \A i \in ItemIds \ tx[r].rows : items'[i] = items[i]
      BY Committing
    <3>3. \A i \in ItemIds \ tx[r].rows : options'[i] = options[i]
      BY DEF UpdateCart
    <3> QED
      BY <3>1, <3>2, <3>3
  <2> QED
    BY <1>1, <1>2, <2>1 DEF RequestOK, WrittenRows, Writing, Exists
<1>8. SumIsSeen(s)'
  <2>1. ASSUME tx[s].cart # tx[r].cart
        PROVE  /\ ItemsOf(tx[s].cart)' = ItemsOf(tx[s].cart)
               /\ SumOf(Seen(s), tx[s].cart)' = SumOf(Seen(s), tx[s].cart)
    <3> DEFINE c == tx[s].cart
    <3>1. \A i \in ItemIds :
            /\ items'[i] # NoItem /\ items'[i].cart = c
                 <=> items[i] # NoItem /\ items[i].cart = c
            /\ items'[i] # NoItem /\ items'[i].cart = c => items'[i] = items[i]
      BY <2>1, OtherCartsAreKept
    <3>2. ItemsOf(tx[s].cart)' = ItemsOf(tx[s].cart)
      BY <1>1, <3>1 DEF ItemsOf, Exists
    <3>3. \A i \in ItemIds :
            /\ Seen(s)[i] = IF i \in tx[s].rows THEN NewRow(s) ELSE items[i]
            /\ Seen(s)'[i] = IF i \in tx[s].rows THEN NewRow(s) ELSE items'[i]
      BY <1>1, <1>2 DEF Seen, NewRow
    <3>4. \A i \in ItemIds :
            /\ Seen(s)'[i] # NoItem /\ Seen(s)'[i].cart = c
                 <=> Seen(s)[i] # NoItem /\ Seen(s)[i].cart = c
            /\ Seen(s)'[i] # NoItem /\ Seen(s)'[i].cart = c =>
                 Seen(s)'[i] = Seen(s)[i]
      BY <3>1, <3>3
    <3>5. SumOf(Seen(s)', c) = SumOf(Seen(s), c)
      BY <3>4, SameSum
    <3> QED
      BY <1>1, <3>2, <3>5
  <2> QED
    BY <1>1, <1>2, <2>1 DEF RequestOK, SumIsSeen
<1> QED
  BY <1>4, <1>6, <1>7, <1>8 DEF RequestOK

\* The options of an item follow the row.
LEMMA OptionsFollow ==
  ASSUME IInv, NEW r \in Requests, UpdateCart(r)
  PROVE  OptionsAgree' /\ options' \in [ItemIds -> SUBSET ItemIds]
<1>1. \A i \in ItemIds :
        options'[i] = IF i \notin tx[r].rows THEN options[i]
                      ELSE IF NewRow(r) = NoItem THEN {}
                      ELSE (options[i] \ tx[r].gone) \cup {r}
  BY DEF UpdateCart
<1>2. ASSUME NEW i \in tx[r].rows, NewRow(r) # NoItem
      PROVE  options[i] \ tx[r].gone = {}
  <2>1. i \in ItemIds /\ ask[r].op \in {"add", "update"}
    BY <1>2, Committing, NewRows DEF IInv, Shape
  <2>2. CASE ask[r].op = "add"
    <3>1. ~Exists(i)
      BY <2>2, Committing
    <3> QED
      BY <2>1, <3>1 DEF IInv, OptionsAgree
  <2>3. CASE ask[r].op = "update"
    <3>1. WrittenRows(r) /\ tx[r].pc = "updateCart"
      BY Committing DEF UpdateCart, RequestOK
    <3> QED
      BY <2>3, <3>1 DEF WrittenRows, Writing
  <2> QED
    BY <2>1, <2>2, <2>3
<1>3. ASSUME NEW i \in ItemIds
      PROVE  options'[i] = IF Exists(i)' THEN {items'[i].by} ELSE {}
  <2>1. CASE i \notin tx[r].rows
    <3>1. items'[i] = items[i]
      BY <2>1, Committing
    <3>2. options[i] = IF Exists(i) THEN {items[i].by} ELSE {}
      BY DEF IInv, OptionsAgree
    <3> QED
      BY <1>1, <2>1, <3>1, <3>2 DEF Exists
  <2>2. CASE i \in tx[r].rows /\ NewRow(r) = NoItem
    BY <1>1, <2>2, Committing DEF Exists
  <2>3. CASE i \in tx[r].rows /\ NewRow(r) # NoItem
    <3>1. NewRow(r).by = r
      BY <2>3, Committing, NewRows DEF IInv, Shape
    <3> QED
      BY <1>1, <1>2, <2>3, <3>1, Committing DEF Exists
  <2> QED
    BY <2>1, <2>2, <2>3
<1>4. options' \in [ItemIds -> SUBSET ItemIds]
  <2>1. \A i \in ItemIds : options[i] \subseteq ItemIds /\ r \in ItemIds
    BY DEF IInv, Shape, ItemIds
  <2> QED
    BY <2>1 DEF UpdateCart
<1> QED
  BY <1>3, <1>4 DEF OptionsAgree

\* The total of the cart is what the transaction saw, and what there is now.
LEMMA TotalFollows ==
  ASSUME IInv, NEW r \in Requests, UpdateCart(r)
  PROVE  TotalUnlessOverlapped' /\ DOMAIN total' = CartIds
<1>1. /\ total' = [total EXCEPT ![tx[r].cart] = tx[r].sum]
      /\ overlapped' = IF tx[r].stale THEN overlapped \cup {tx[r].cart}
                                      ELSE overlapped \ {tx[r].cart}
      /\ items' = Seen(r)
  BY DEF UpdateCart
<1>2. ASSUME NEW c \in CartIds, c \notin overlapped'
      PROVE  total'[c] = SumOf(items', c)
  <2>1. CASE c = tx[r].cart
    <3>1. ~tx[r].stale
      BY <1>1, <1>2, <2>1
    <3>2. tx[r].sum = SumOf(Seen(r), c)
      BY <2>1, <3>1, Committing DEF UpdateCart, RequestOK, SumIsSeen
    <3> QED
      BY <1>1, <2>1, <3>2 DEF IInv, Shape
  <2>2. CASE c # tx[r].cart
    <3>1. SumOf(items', c) = SumOf(items, c)
      BY <2>2, OtherCartsAreKept, SameSum
    <3>2. c \notin overlapped /\ total'[c] = total[c]
      BY <1>1, <1>2, <2>2 DEF IInv, Shape
    <3> QED
      BY <3>1, <3>2 DEF IInv, TotalUnlessOverlapped
  <2> QED
    BY <2>1, <2>2
<1> QED
  BY <1>1, <1>2 DEF TotalUnlessOverlapped, IInv, Shape

LEMMA UpdateCartKeepsIInv ==
  ASSUME IInv, NEW r \in Requests, UpdateCart(r)
  PROVE  IInv'
<1>1. /\ tx'[r].pc \in {"reread", "answered"} /\ tx'[r].rows = {}
      /\ tx'[r].pc = "reread" => ask[r].op \in {"add", "update"}
      /\ tx'[r].cart = tx[r].cart /\ tx'[r].gone = tx[r].gone
      /\ Past(r)'
  BY CommittedLocals DEF Past
<1>2. \A s \in Requests : Typed(tx'[s])
  BY CommittedLocals, OtherLocals
<1>3. Shape'
  <2>1. overlapped' \subseteq CartIds
    BY Committing DEF UpdateCart, IInv, Shape
  <2>2. DOMAIN tx' = Requests
    BY CommittedLocals
  <2>3. /\ ask' = ask /\ cartOwner' = cartOwner /\ cartStatus' = cartStatus
        /\ failures' = failures /\ items' \in [ItemIds -> Row \cup {NoItem}]
    BY Committing
  <2> QED
    BY <1>2, <2>1, <2>2, <2>3, OptionsFollow, TotalFollows
    DEF IInv, Shape, Typed
<1>4. RequestOK(r)'
  <2>1. RequestOK(r) /\ ask' = ask /\ cartOwner' = cartOwner
        /\ ask[r].op \in {"add", "update", "remove", "clear"}
        /\ tx[r].cart \in CartIds /\ cartOwner[tx[r].cart] = ask[r].owner
    BY Committing
  <2>2. OnCourse(r)'
    BY <1>1, <2>1 DEF OnCourse, Course, Local
  <2>3. HasCart(r)' /\ FoundItem(r)' /\ SumIsSeen(r)'
    BY <1>1, <2>1 DEF HasCart, FoundItem, SumIsSeen, Local
  <2>4. WrittenRows(r)'
    BY <1>1, <2>1 DEF RequestOK, WrittenRows, Writing, Local
  <2> QED
    BY <2>2, <2>3, <2>4 DEF RequestOK
<1>5. LocksExclude'
  <2>1. tx'[r].rows = {} /\ \A s \in Requests \ {r} : tx'[s].rows = tx[s].rows
    BY CommittedLocals, OtherLocals
  <2> QED
    BY <2>1 DEF IInv, LocksExclude
<1>6. ItemsAreKept'
  <2>1. \A s \in Requests : Past(s) => Past(s)'
    BY CommittedLocals, OtherLocals DEF Past
  <2>2. ASSUME NEW i \in ItemIds, Exists(i)'
        PROVE  /\ cartOwner'[items'[i].cart] # NoOwner
               /\ i \in Requests => Past(i)'
    <3>1. CASE i \notin tx[r].rows
      BY <2>1, <2>2, <3>1, Committing DEF IInv, ItemsAreKept, Exists
    <3>2. CASE i \in tx[r].rows
      <4>1. items'[i].cart = tx[r].cart
        BY <2>2, <3>2, Committing, NewRows DEF IInv, Shape, Exists
      <4>2. i \in Requests => Past(i)'
        BY <1>1, <2>1, <3>2, Committing DEF IInv, ItemsAreKept
      <4> QED
        BY <4>1, <4>2, Committing, NamesAssumption
    <3> QED
      BY <3>1, <3>2
  <2> QED
    BY <2>2 DEF ItemsAreKept
<1> QED
  BY <1>2, <1>3, <1>4, <1>5, <1>6, OthersKeepOn, OptionsFollow, TotalFollows
  DEF IInv, LocalsOK, Typed

-----------------------------------------------------------------------------
(***************************************************************************)
(* The invariant, and what follows from it.                                *)
(***************************************************************************)
LEMMA InitImpliesIInv == Init => IInv
<1> SUFFICES ASSUME Init PROVE IInv
  OBVIOUS
<1>1. \A r \in Requests : Typed(tx[r])
  BY DEF Init, Typed, Locals, Position
<1>2. Shape
  <2>1. cartOwner \in [CartIds -> Owners \cup {NoOwner}]
    BY OldRowsAssumption DEF Init
  <2>2. items \in [ItemIds -> Row \cup {NoItem}]
    <3>1. \A i \in OldItems :
            [cart |-> OldRow[i].cart, key |-> OldRow[i].key,
             price |-> OldRow[i].price, by |-> i] \in Row
      BY OldRowsAssumption DEF Row, CartIds, ItemIds
    <3> QED
      BY <3>1 DEF Init
  <2>3. options \in [ItemIds -> SUBSET ItemIds]
    BY DEF Init
  <2>4. /\ ask \in [Requests -> Ask] /\ DOMAIN total = CartIds
        /\ cartStatus \in [CartIds -> {"ACTIVE", "ORDERED"}]
    BY DEF Init
  <2>5. /\ DOMAIN tx = Requests /\ overlapped \subseteq CartIds
        /\ failures \in 0..MaxFailures
    BY FailuresAssumption DEF Init
  <2> QED
    BY <1>1, <2>1, <2>2, <2>3, <2>4, <2>5 DEF Shape, Typed
<1>3. \A r \in Requests : RequestOK(r)
  <2>1. \A r \in Requests : r \in CartIds /\ r \notin OldCarts
    BY NamesAssumption DEF CartIds
  <2> QED
    BY <2>1
    DEF Init, RequestOK, OnCourse, HasCart, FoundItem, WrittenRows, Writing,
        SumIsSeen
<1>4. LocksExclude
  BY DEF Init, LocksExclude
<1>5. ItemsAreKept /\ OptionsAgree
  <2>1. ASSUME NEW i \in ItemIds, Exists(i)
        PROVE  /\ i \in OldItems /\ i \notin Requests
               /\ items[i].by = i /\ items[i].cart \in OldCarts
    BY <2>1, NamesAssumption, OldRowsAssumption DEF Init, Exists
  <2>2. ASSUME NEW i \in OldItems
        PROVE  Exists(i)
    <3>1. i \in ItemIds /\ items[i].by = i /\ items[i] \in Row \cup {NoItem}
      BY <1>2 DEF Init, ItemIds, Shape
    <3>2. [cart |-> OldRow[i].cart, key |-> OldRow[i].key,
           price |-> OldRow[i].price, by |-> i] \in Row
      BY OldRowsAssumption DEF Row, CartIds, ItemIds
    <3> QED
      BY <3>1, <3>2, NoItemAssumption DEF Init, Exists
  <2>3. \A c \in OldCarts : cartOwner[c] # NoOwner
    BY OldRowsAssumption, NamesAssumption DEF Init, CartIds
  <2>4. ItemsAreKept
    BY <2>1, <2>3 DEF ItemsAreKept
  <2>5. OptionsAgree
    BY <2>1, <2>2 DEF Init, OptionsAgree
  <2> QED
    BY <2>4, <2>5
<1>6. TotalUnlessOverlapped
  BY DEF Init, TotalUnlessOverlapped
<1> QED
  BY <1>1, <1>2, <1>3, <1>4, <1>5, <1>6 DEF IInv, LocalsOK, Typed

LEMMA UnchangedKeepsIInv ==
  ASSUME IInv, UNCHANGED vars
  PROVE  IInv'
<1>1. /\ ask' = ask /\ cartOwner' = cartOwner /\ cartStatus' = cartStatus
      /\ total' = total /\ items' = items /\ options' = options /\ tx' = tx
      /\ overlapped' = overlapped /\ failures' = failures
  BY DEF vars, cartVars, rowVars
<1>2. Shape' /\ LocalsOK' /\ LocksExclude'
  BY <1>1 DEF IInv, Shape, LocalsOK, Locals, LocksExclude
<1>3. ASSUME NEW r \in Requests
      PROVE  RequestOK(r)'
  <2>1. RequestOK(r) /\ Seen(r)' = Seen(r)
    BY <1>1 DEF IInv, Seen, NewRow
  <2> QED
    BY <1>1, <2>1
    DEF RequestOK, OnCourse, HasCart, FoundItem, Known, Exists, Past,
        WrittenRows, SumIsSeen, SumOf, PricesIn, ItemsOf
<1>4. ItemsAreKept' /\ OptionsAgree' /\ TotalUnlessOverlapped'
  BY <1>1
  DEF IInv, ItemsAreKept, OptionsAgree, TotalUnlessOverlapped, Exists, Past,
      SumOf, PricesIn
<1> QED
  BY <1>2, <1>3, <1>4 DEF IInv

LEMMA NextKeepsIInv == IInv /\ [Next]_vars => IInv'
<1> SUFFICES ASSUME IInv, [Next]_vars PROVE IInv'
  OBVIOUS
<1>1. ASSUME NEW r \in Requests, Step(r)
      PROVE  IInv'
  BY <1>1, FindCartKeepsIInv, CreateCartKeepsIInv, InsertItemKeepsIInv,
     GotosKeepIInv, UpdateItemKeepsIInv, DeleteOptionsKeepsIInv,
     FindItemOfServiceKeepsIInv, DeleteItemKeepsIInv, ListItemsKeepsIInv,
     DeleteItemsKeepsIInv, SumItemsKeepsIInv, UpdateCartKeepsIInv
  DEF Step
<1>2. ASSUME NEW r \in Requests, Fail(r)
      PROVE  IInv'
  BY <1>2, FailKeepsIInv
<1>3. ASSUME NEW c \in CartIds, CloseCart(c)
      PROVE  IInv'
  BY <1>3, CloseCartKeepsIInv
<1>4. CASE UNCHANGED vars
  BY <1>4, UnchangedKeepsIInv
<1> QED
  BY <1>1, <1>2, <1>3, <1>4 DEF Next

LEMMA Invariance == Spec => []IInv
BY InitImpliesIInv, NextKeepsIInv, PTL DEF Spec

-----------------------------------------------------------------------------
(***************************************************************************)
(* Totals are numbers.                                                     *)
(***************************************************************************)
LEMMA SumIsNumber ==
  ASSUME NEW rows \in [ItemIds -> Row \cup {NoItem}], NEW c
  PROVE  SumOf(rows, c) \in Nat
<1> DEFINE S == {i \in ItemIds : rows[i] # NoItem /\ rows[i].cart = c}
<1>1. F!IsFiniteSet(S)
  <2>1. F!IsFiniteSet(ItemIds)
    BY FiniteAssumption DEF FiniteAssumption, IsFiniteSet, F!IsFiniteSet
  <2>2. S \in SUBSET ItemIds
    OBVIOUS
  <2> HIDE DEF S
  <2> QED
    BY <2>1, <2>2, F!FS_Subset
<1>2. PricesIn(rows, c) \in [S -> Nat]
  <2>1. \A i \in S : rows[i].price \in Nat
    BY DEF Row
  <2> QED
    BY <2>1 DEF PricesIn
<1>3. SumOf(rows, c) = F!SumOf(PricesIn(rows, c))
  BY DEF SumOf, Sum, FoldFunction, FoldFunctionOnSet, MapThenFoldSet,
         F!SumOf, F!MapThenSumSet, F!MapThenFoldSet
<1> HIDE DEF S
<1> QED
  BY <1>1, <1>2, <1>3, F!SumIsNat

LEMMA SeenIsTyped ==
  ASSUME IInv, NEW r \in Requests, tx[r].cart \in CartIds
  PROVE  Seen(r) \in [ItemIds -> Row \cup {NoItem}]
<1>1. NewRow(r) \in Row \cup {NoItem}
  BY NewRows DEF IInv, Shape
<1> QED
  BY <1>1 DEF Seen, IInv, Shape

\* Only two statements of a request bear on totals.
LEMMA TotalsAreLeft ==
  ASSUME IInv, NEW r \in Requests, Step(r) \/ Fail(r),
         ~CreateCart(r), ~SumItems(r), ~UpdateCart(r)
  PROVE  total' = total /\ \A s \in Requests : tx'[s].sum = tx[s].sum
<1>1. Typed(tx[r]) /\ DOMAIN tx = Requests
  BY Own DEF IInv, Shape
<1>2. ASSUME NEW t, tx' = [tx EXCEPT ![r] = t], t.sum = tx[r].sum
      PROVE  \A s \in Requests : tx'[s].sum = tx[s].sum
  BY <1>1, <1>2
<1>3. ASSUME NEW pc, Goto(r, pc)
      PROVE  total' = total /\ \A s \in Requests : tx'[s].sum = tx[s].sum
  <2>1. [tx[r] EXCEPT !.pc = pc].sum = tx[r].sum
    BY <1>1, Went DEF Typed, Local
  <2> QED
    BY <1>2, <1>3, <2>1 DEF Goto, rowVars
<1>4. ASSUME NEW rows, NEW pc, Write(r, rows, pc)
      PROVE  total' = total /\ \A s \in Requests : tx'[s].sum = tx[s].sum
  <2>1. [tx[r] EXCEPT !.pc = pc, !.rows = rows].sum = tx[r].sum
    BY <1>1, WentWithRows DEF Typed, Local
  <2> QED
    BY <1>2, <1>4, <2>1 DEF Write, rowVars
<1>5. CASE FindCart(r)
  <2>1. ASSUME NEW c, UNCHANGED rowVars,
               tx' = [tx EXCEPT ![r] = [tx[r] EXCEPT
                        !.pc = FirstStatement(ask[r].op), !.cart = c]]
        PROVE  total' = total /\ \A s \in Requests : tx'[s].sum = tx[s].sum
    <3>1. [tx[r] EXCEPT !.pc = FirstStatement(ask[r].op), !.cart = c].sum
            = tx[r].sum
      BY <1>1, WentWithCart DEF Typed, Local
    <3> QED
      BY <1>2, <2>1, <3>1 DEF rowVars
  <2> QED
    BY <1>3, <1>5, <2>1 DEF FindCart
<1>6. CASE FindItemOfService(r)
  <2>1. ASSUME NEW i, UNCHANGED rowVars,
               tx' = [tx EXCEPT ![r] = [tx[r] EXCEPT
                        !.pc = "deleteItem", !.item = i]]
        PROVE  total' = total /\ \A s \in Requests : tx'[s].sum = tx[s].sum
    <3>1. [tx[r] EXCEPT !.pc = "deleteItem", !.item = i].sum = tx[r].sum
      BY <1>1, WentWithItem DEF Typed, Local
    <3> QED
      BY <1>2, <2>1, <3>1 DEF rowVars
  <2> QED
    BY <1>3, <1>6, <2>1 DEF FindItemOfService
<1>7. ASSUME NEW pc, NEW gone, UNCHANGED rowVars,
             tx' = [tx EXCEPT ![r] = [tx[r] EXCEPT !.pc = pc, !.gone = gone]]
      PROVE  total' = total /\ \A s \in Requests : tx'[s].sum = tx[s].sum
  <2>1. [tx[r] EXCEPT !.pc = pc, !.gone = gone].sum = tx[r].sum
    BY <1>1, WentWithGone DEF Typed, Local
  <2> QED
    BY <1>2, <1>7, <2>1 DEF rowVars
<1>8. CASE DeleteOptions(r) \/ ListItems(r)
  BY <1>7, <1>8 DEF DeleteOptions, ListItems
<1>9. CASE InsertItem(r) \/ UpdateItem(r) \/ DeleteItem(r) \/ DeleteItems(r)
  BY <1>3, <1>4, <1>9 DEF InsertItem, UpdateItem, DeleteItem, DeleteItems
<1>10. CASE \/ InsertConflict(r) \/ FindItem(r) \/ FindDuplicate(r)
            \/ UpdateConflict(r) \/ CreateOptions(r) \/ Reread(r)
  BY <1>3, <1>10
  DEF InsertConflict, FindItem, FindDuplicate, UpdateConflict, CreateOptions,
      Reread
<1>11. CASE Fail(r)
  <2>1. [tx[r] EXCEPT !.pc = "failed", !.rows = {}].sum = tx[r].sum
    BY <1>1, WentWithRows DEF Typed, Local
  <2> QED
    BY <1>2, <1>11, <2>1 DEF Fail, rowVars
<1> QED
  BY <1>5, <1>6, <1>8, <1>9, <1>10, <1>11 DEF Step

LEMMA RequestsKeepNumbers ==
  ASSUME IInv, TotalsAreNumbers, NEW r \in Requests, Step(r) \/ Fail(r)
  PROVE  TotalsAreNumbers'
<1>1. Typed(tx[r]) /\ RequestOK(r) /\ DOMAIN tx = Requests
  BY Own DEF IInv, Shape
<1>2. CASE ~CreateCart(r) /\ ~SumItems(r) /\ ~UpdateCart(r)
  BY <1>2, TotalsAreLeft DEF TotalsAreNumbers
<1>3. CASE CreateCart(r)
  <2>1. [tx[r] EXCEPT !.pc = FirstStatement(ask[r].op), !.cart = r].sum
          = tx[r].sum
    BY <1>1, WentWithCart DEF Typed, Local
  <2>2. \A s \in Requests : tx'[s].sum = tx[s].sum
    BY <1>1, <1>3, <2>1 DEF CreateCart
  <2>3. total' \in [CartIds -> Nat]
    BY <1>3 DEF CreateCart, TotalsAreNumbers
  <2> QED
    BY <2>2, <2>3 DEF TotalsAreNumbers
<1>4. CASE SumItems(r)
  <2> DEFINE sum == SumOf(Seen(r), tx[r].cart)
  <2>1. sum \in Nat
    <3>1. ask[r].op \in {"add", "update", "remove", "clear", "get"}
      BY Asked DEF IInv, Shape
    <3>2. tx[r].cart \in CartIds
      BY <1>1, <1>4 DEF SumItems, RequestOK, HasCart
    <3> QED
      BY <3>2, SeenIsTyped, SumIsNumber
  <2>2. tx' = [tx EXCEPT ![r] = [tx[r] EXCEPT !.pc = "updateCart", !.sum = sum]]
    BY <1>4 DEF SumItems
  <2> HIDE DEF sum
  <2>3. [tx[r] EXCEPT !.pc = "updateCart", !.sum = sum].sum = sum
    BY <1>1, WentWithSum DEF Typed, Local
  <2>4. \A s \in Requests : tx'[s].sum \in Nat
    BY <1>1, <2>1, <2>2, <2>3 DEF TotalsAreNumbers
  <2> QED
    BY <1>4, <2>4 DEF SumItems, rowVars, TotalsAreNumbers
<1>5. CASE UpdateCart(r)
  <2>1. \A s \in Requests : tx'[s].sum = tx[s].sum
    <3>1. tx'[r].sum = tx[r].sum
      BY <1>5, CommittedLocals
    <3>2. \A s \in Requests \ {r} : tx'[s].sum = tx[s].sum
      BY <1>5, OtherLocals
    <3> QED
      BY <3>1, <3>2
  <2>2. total' = [total EXCEPT ![tx[r].cart] = tx[r].sum]
    BY <1>5 DEF UpdateCart
  <2> QED
    BY <2>1, <2>2 DEF TotalsAreNumbers
<1> QED
  BY <1>2, <1>3, <1>4, <1>5

LEMMA NextKeepsNumbers ==
  IInv /\ TotalsAreNumbers /\ [Next]_vars => TotalsAreNumbers'
<1> SUFFICES ASSUME IInv, TotalsAreNumbers, [Next]_vars PROVE TotalsAreNumbers'
  OBVIOUS
<1>1. ASSUME NEW r \in Requests, Step(r) \/ Fail(r)
      PROVE  TotalsAreNumbers'
  BY <1>1, RequestsKeepNumbers
<1>2. CASE UNCHANGED <<total, tx>>
  BY <1>2 DEF TotalsAreNumbers
<1>3. ASSUME NEW c \in CartIds, CloseCart(c)
      PROVE  TotalsAreNumbers'
  BY <1>2, <1>3 DEF CloseCart, rowVars
<1> QED
  BY <1>1, <1>2, <1>3 DEF Next, vars, rowVars

LEMMA InitialNumbers == Init => TotalsAreNumbers
<1> SUFFICES ASSUME Init PROVE TotalsAreNumbers
  OBVIOUS
<1>1. \A c \in CartIds : SumOf(items, c) \in Nat
  BY InitImpliesIInv, SumIsNumber DEF IInv, Shape
<1> QED
  BY <1>1 DEF Init, TotalsAreNumbers

-----------------------------------------------------------------------------
(***************************************************************************)
(* The theorems.                                                           *)
(***************************************************************************)

\* Carts, items, options, totals and requests stay within their types, for any
\* number of each.
THEOREM TypeCorrect == Spec => []TypeOK
<1>1. IInv => Shape
  BY DEF IInv
<1>2. Spec => []TotalsAreNumbers
  BY Invariance, InitialNumbers, NextKeepsNumbers, PTL DEF Spec
<1>3. Shape /\ TotalsAreNumbers => TypeOK
  BY DEF TypeOK
<1> QED
  BY <1>1, <1>2, <1>3, Invariance, PTL

\* The option rows of an item are exactly those of the request that wrote it:
\* no interleaving of updates, removals, clears, commits and roll-backs leaves
\* the options of two requests on one item, or those of a deleted item.
THEOREM OptionsFollowItems == Spec => []OptionsAgree
<1>1. IInv => OptionsAgree
  BY DEF IInv
<1> QED
  BY <1>1, Invariance, PTL

\* The total of a cart is the sum of its items unless the last transaction to
\* write it was overtaken between its sum and its commit.
THEOREM TotalsAreSums == Spec => []TotalUnlessOverlapped
<1>1. IInv => TotalUnlessOverlapped
  BY DEF IInv
<1> QED
  BY <1>1, Invariance, PTL

\* Items change only by the commit of a request of their cart's owner.
THEOREM OwnersChangeTheirItems == Spec => OwnItemsOnly
<1> DEFINE Owned(i, r) ==
             /\ tx[r].pc = "updateCart" /\ tx'[r].pc # "updateCart"
             /\ cartOwner[tx[r].cart] = ask[r].owner
             /\ \A row \in {items[i], items'[i]} \ {NoItem} :
                  row.cart = tx[r].cart
           A == \A i \in ItemIds :
                  items'[i] # items[i] => \E r \in Requests : Owned(i, r)
<1>1. ASSUME IInv, NEW r \in Requests, UpdateCart(r), NEW i \in ItemIds,
             items'[i] # items[i]
      PROVE  Owned(i, r)
  <2>1. i \in tx[r].rows /\ items'[i] = NewRow(r)
    BY <1>1, Committing
  <2>2. \A row \in {items[i], items'[i]} \ {NoItem} : row.cart = tx[r].cart
    <3>1. items[i] = NoItem \/ items[i].cart = tx[r].cart
      BY <1>1, <2>1, Committing DEF Exists
    <3>2. items'[i] = NoItem \/ items'[i].cart = tx[r].cart
      BY <1>1, <2>1, Committing, NewRows DEF IInv, Shape
    <3> QED
      BY <3>1, <3>2
  <2>3. tx'[r].pc # "updateCart"
    BY <1>1, CommittedLocals
  <2>4. tx[r].pc = "updateCart" /\ cartOwner[tx[r].cart] = ask[r].owner
    BY <1>1, Committing DEF UpdateCart
  <2> QED
    BY <2>2, <2>3, <2>4
<1>2. ASSUME NEW r \in Requests, Step(r), ~UpdateCart(r)
      PROVE  items' = items
  BY <1>2
  DEF Step, FindCart, CreateCart, InsertItem, InsertConflict, FindItem,
      FindDuplicate, UpdateItem, UpdateConflict, DeleteOptions, CreateOptions,
      FindItemOfService, DeleteItem, ListItems, DeleteItems, SumItems, Reread,
      Goto, Write, rowVars
<1>3. ASSUME NEW r \in Requests, Fail(r)
      PROVE  items' = items
  BY <1>3 DEF Fail, rowVars
<1>4. ASSUME NEW c \in CartIds, CloseCart(c)
      PROVE  items' = items
  BY <1>4 DEF CloseCart, rowVars
<1>5. UNCHANGED vars => items' = items
  BY DEF vars, rowVars
<1> HIDE DEF Owned
<1>6. IInv /\ [Next]_vars => A
  BY <1>1, <1>2, <1>3, <1>4, <1>5 DEF Next
<1>7. IInv /\ [Next]_vars => [A]_vars
  BY <1>6
<1> QED
  BY <1>6, Invariance, PTL DEF Spec, OwnItemsOnly, Owned

-----------------------------------------------------------------------------
(***************************************************************************)
(* Keys.  The unique index on service, type, date and time is modelled by  *)
(* what it makes a statement wait for and refuse; that it is an index,     *)
(* that is, that no two items of a cart ever have the same key, follows.   *)
(***************************************************************************)
KeysUnique ==
  \A i, j \in ItemIds :
    Exists(i) /\ Exists(j) /\ items[i].cart = items[j].cart
      /\ items[i].key = items[j].key => i = j

\* r's transaction has written a row with r's key.
HoldsKey(r) == ask[r].op \in {"add", "update"} /\ tx[r].rows # {}

\* The key that r has written is neither committed nor written by another.
KeyIsFree(r) ==
  HoldsKey(r) =>
    /\ \A j \in ItemsOf(tx[r].cart) \ tx[r].rows : items[j].key # ask[r].key
    /\ \A s \in Requests \ {r} :
         HoldsKey(s) /\ tx[s].cart = tx[r].cart => ask[s].key # ask[r].key

KInv == KeysUnique /\ \A r \in Requests : KeyIsFree(r)

\* A statement that writes a row has found its key free.
LEMMA WrittenKeyIsFree ==
  ASSUME IInv, NEW r \in Requests, ask[r].op \in {"add", "update"},
         ~KeyPending(r)
  PROVE  \A s \in Requests \ {r} :
           HoldsKey(s) /\ tx[s].cart = tx[r].cart => ask[s].key # ask[r].key
<1> SUFFICES ASSUME NEW s \in Requests \ {r}, HoldsKey(s),
                    tx[s].cart = tx[r].cart
             PROVE  ask[s].key # ask[r].key
  OBVIOUS
<1>1. PICK i \in tx[s].rows : TRUE
  BY DEF HoldsKey
<1>2. Typed(tx[s]) /\ RequestOK(s)
  BY Own
<1>3. tx[s].cart \in CartIds
  BY <1>1, <1>2 DEF RequestOK, WrittenRows, Writing, HasCart
<1>4. /\ NewRow(s) # NoItem /\ NewRow(s).cart = tx[s].cart
      /\ NewRow(s).key = ask[s].key
  BY <1>3, NewRows DEF HoldsKey, NewRow, IInv, Shape
<1> QED
  BY <1>1, <1>4 DEF KeyPending

\* What a statement may do to the rows that its transaction has written.
LEMMA StatementsWrite ==
  ASSUME IInv, NEW r \in Requests, Step(r) \/ Fail(r), ~UpdateCart(r)
  PROVE  /\ ask' = ask /\ items' = items
         /\ \A s \in Requests \ {r} : tx'[s] = tx[s]
         /\ \/ InsertItem(r) \/ UpdateItem(r)
            \/ ask[r].op \notin {"add", "update"}
            \/ tx'[r].rows = {}
            \/ tx'[r].rows = tx[r].rows /\ tx'[r].cart = tx[r].cart
<1>1. /\ Typed(tx[r]) /\ RequestOK(r) /\ DOMAIN tx = Requests
      /\ tx[r].pc \notin Writing => tx[r].rows = {}
  BY Own DEF RequestOK, WrittenRows
<1>2. ASSUME NEW t, tx' = [tx EXCEPT ![r] = t]
      PROVE  tx'[r] = t /\ \A s \in Requests \ {r} : tx'[s] = tx[s]
  BY <1>1, <1>2
<1>3. ASSUME NEW pc, Goto(r, pc)
      PROVE  /\ ask' = ask /\ items' = items
             /\ \A s \in Requests \ {r} : tx'[s] = tx[s]
             /\ tx'[r].rows = tx[r].rows /\ tx'[r].cart = tx[r].cart
  <2>1. /\ ask' = ask /\ items' = items
        /\ tx' = [tx EXCEPT ![r] = [tx[r] EXCEPT !.pc = pc]]
    BY <1>3 DEF Goto, rowVars
  <2> QED
    BY <1>1, <1>2, <2>1, Went DEF Typed, Local
<1>4. ASSUME NEW pc, NEW c, tx[r].pc \notin Writing, UNCHANGED <<ask, items>>,
             tx' = [tx EXCEPT ![r] = [tx[r] EXCEPT !.pc = pc, !.cart = c]]
      PROVE  /\ ask' = ask /\ items' = items
             /\ \A s \in Requests \ {r} : tx'[s] = tx[s]
             /\ tx'[r].rows = {}
  <2> DEFINE t == Local(pc, c, tx[r].item, tx[r].rows, tx[r].gone, tx[r].sum,
                        tx[r].stale)
  <2>1. [tx[r] EXCEPT !.pc = pc, !.cart = c] = t
    BY <1>1, WentWithCart DEF Typed
  <2>2. tx' = [tx EXCEPT ![r] = t]
    BY <1>4, <2>1
  <2> QED
    BY <1>1, <1>2, <1>4, <2>2 DEF Local
<1>11. CASE FindCart(r)
  <2>1. CASE Goto(r, "createCart")
    BY <1>3, <2>1
  <2>2. ASSUME NEW c, UNCHANGED <<ask, items>>,
               tx' = [tx EXCEPT ![r] = [tx[r] EXCEPT
                        !.pc = FirstStatement(ask[r].op), !.cart = c]]
        PROVE  /\ ask' = ask /\ items' = items
               /\ \A s \in Requests \ {r} : tx'[s] = tx[s]
               /\ tx'[r].rows = {}
    BY <1>4, <1>11, <2>2 DEF FindCart, Writing
  <2> QED
    BY <1>11, <2>1, <2>2 DEF FindCart, rowVars
<1>12. CASE CreateCart(r)
  BY <1>4, <1>12 DEF CreateCart, Writing
<1>5. CASE \/ InsertConflict(r) \/ FindItem(r) \/ FindDuplicate(r)
           \/ UpdateConflict(r) \/ CreateOptions(r) \/ Reread(r)
  BY <1>3, <1>5
  DEF InsertConflict, FindItem, FindDuplicate, UpdateConflict, CreateOptions,
      Reread
<1>6. CASE InsertItem(r) \/ UpdateItem(r)
  BY <1>1, <1>2, <1>6 DEF InsertItem, UpdateItem, Write, rowVars
<1>7. CASE DeleteOptions(r)
  <2>1. /\ ask' = ask /\ items' = items
        /\ tx' = [tx EXCEPT ![r] =
                    [tx[r] EXCEPT !.pc = "createOptions",
                                  !.gone = options[ask[r].item]]]
    BY <1>7 DEF DeleteOptions, rowVars
  <2> DEFINE t == Local("createOptions", tx[r].cart, tx[r].item, tx[r].rows,
                        options[ask[r].item], tx[r].sum, tx[r].stale)
  <2>2. [tx[r] EXCEPT !.pc = "createOptions", !.gone = options[ask[r].item]] = t
    BY <1>1, WentWithGone DEF Typed
  <2>3. tx' = [tx EXCEPT ![r] = t]
    BY <2>1, <2>2
  <2> QED
    BY <1>2, <2>1, <2>3 DEF Local
<1>8. CASE SumItems(r)
  <2>1. /\ ask' = ask /\ items' = items
        /\ tx' = [tx EXCEPT ![r] =
                    [tx[r] EXCEPT !.pc = "updateCart",
                                  !.sum = SumOf(Seen(r), tx[r].cart)]]
    BY <1>8 DEF SumItems, rowVars
  <2> DEFINE sum == SumOf(Seen(r), tx[r].cart)
             t   == Local("updateCart", tx[r].cart, tx[r].item, tx[r].rows,
                          tx[r].gone, sum, tx[r].stale)
  <2>2. [tx[r] EXCEPT !.pc = "updateCart", !.sum = sum] = t
    BY <1>1, WentWithSum DEF Typed
  <2>3. tx' = [tx EXCEPT ![r] = t]
    BY <2>1, <2>2
  <2> QED
    BY <1>2, <2>1, <2>3 DEF Local
<1>9. CASE \/ FindItemOfService(r) \/ DeleteItem(r)
           \/ ListItems(r) \/ DeleteItems(r)
  <2>1. ask[r].op \notin {"add", "update"}
    BY <1>1, <1>9, Asked
    DEF FindItemOfService, DeleteItem, ListItems, DeleteItems, RequestOK,
        OnCourse, Course
  <2>2. ask' = ask /\ items' = items /\ \E t : tx' = [tx EXCEPT ![r] = t]
    BY <1>9 DEF FindItemOfService, DeleteItem, ListItems, DeleteItems, Write,
                Goto, rowVars
  <2> QED
    BY <1>2, <2>1, <2>2
<1>10. CASE Fail(r)
  <2>1. /\ ask' = ask /\ items' = items
        /\ tx' = [tx EXCEPT ![r] =
                    [tx[r] EXCEPT !.pc = "failed", !.rows = {}]]
    BY <1>10 DEF Fail, rowVars
  <2> DEFINE t == Local("failed", tx[r].cart, tx[r].item, {}, tx[r].gone,
                        tx[r].sum, tx[r].stale)
  <2>2. [tx[r] EXCEPT !.pc = "failed", !.rows = {}] = t
    BY <1>1, WentWithRows DEF Typed
  <2>3. tx' = [tx EXCEPT ![r] = t]
    BY <2>1, <2>2
  <2> QED
    BY <1>2, <2>1, <2>3 DEF Local
<1> QED
  BY <1>5, <1>6, <1>7, <1>8, <1>9, <1>10, <1>11, <1>12 DEF Step

\* Such a step leaves every key written free.
LEMMA StatementsKeepKInv ==
  ASSUME IInv, KInv, NEW r \in Requests, Step(r) \/ Fail(r), ~UpdateCart(r)
  PROVE  KInv'
<1>1. /\ ask' = ask /\ items' = items
      /\ \A s \in Requests \ {r} : tx'[s] = tx[s]
  BY StatementsWrite
<1>2. KeysUnique'
  BY <1>1 DEF KInv, KeysUnique, Exists
<1>3. ASSUME HoldsKey(r)'
      PROVE  /\ \A j \in ItemsOf(tx[r].cart)' \ tx'[r].rows :
                  items[j].key # ask[r].key
             /\ \A s \in Requests \ {r} :
                  HoldsKey(s) /\ tx[s].cart = tx'[r].cart =>
                    ask[s].key # ask[r].key
  <2>1. CASE tx'[r].rows = tx[r].rows /\ tx'[r].cart = tx[r].cart
    BY <1>1, <1>3, <2>1 DEF KInv, KeyIsFree, HoldsKey, ItemsOf, Exists
  <2>2. CASE InsertItem(r) \/ UpdateItem(r)
    <3>1. PICK i, pc : /\ Duplicates(r, i) = {} /\ ~KeyPending(r)
                       /\ Write(r, {i}, pc)
      BY <2>2 DEF InsertItem, UpdateItem
    <3> DEFINE t == Local(pc, tx[r].cart, tx[r].item, {i}, tx[r].gone,
                          tx[r].sum, tx[r].stale)
    <3>2. [tx[r] EXCEPT !.pc = pc, !.rows = {i}] = t
      BY Own, WentWithRows DEF Typed
    <3>6. tx' = [tx EXCEPT ![r] = t]
      BY <3>1, <3>2 DEF Write
    <3>3. tx'[r].rows = {i} /\ tx'[r].cart = tx[r].cart
      BY <3>6, Own DEF Local
    <3>4. ask[r].op \in {"add", "update"}
      BY <1>1, <1>3 DEF HoldsKey
    <3>5. \A j \in ItemsOf(tx[r].cart) \ {i} : items[j].key # ask[r].key
      BY <3>1 DEF Duplicates
    <3> QED
      BY <1>1, <3>1, <3>3, <3>4, <3>5, WrittenKeyIsFree DEF ItemsOf, Exists
  <2> QED
    BY <1>1, <1>3, <2>1, <2>2, StatementsWrite DEF HoldsKey
<1>4. ASSUME NEW s \in Requests
      PROVE  KeyIsFree(s)'
  <2>1. CASE s = r
    BY <1>1, <1>3, <2>1 DEF KeyIsFree, HoldsKey
  <2>2. CASE s # r
    BY <1>1, <1>3, <2>2 DEF KInv, KeyIsFree, HoldsKey, ItemsOf, Exists
  <2> QED
    BY <2>1, <2>2
<1> QED
  BY <1>2, <1>4 DEF KInv

\* A commit writes one row with the key its transaction holds, or none.
LEMMA CommitsKeepKInv ==
  ASSUME IInv, KInv, NEW r \in Requests, UpdateCart(r)
  PROVE  KInv'
<1>1. /\ ask' = ask /\ RequestOK(r)
      /\ \A i \in ItemIds :
           items'[i] = IF i \in tx[r].rows THEN NewRow(r) ELSE items[i]
  BY Committing
<1>2. /\ HoldsKey(r) => /\ NewRow(r).cart = tx[r].cart
                        /\ NewRow(r).key = ask[r].key
      /\ ask[r].op \notin {"add", "update"} => NewRow(r) = NoItem
  BY Committing, NewRows DEF HoldsKey, NewRow, IInv, Shape
<1>3. ASSUME HoldsKey(r), NEW i \in tx[r].rows, NEW j \in tx[r].rows
      PROVE  i = j
  <2>1. tx[r].pc \in Writing
    BY <1>3 DEF UpdateCart, Writing
  <2> QED
    BY <1>1, <1>3, <2>1 DEF RequestOK, WrittenRows, HoldsKey
<1>4. \A i \in ItemIds : Exists(i)' /\ i \in tx[r].rows => HoldsKey(r)
  BY <1>1, <1>2 DEF Exists, HoldsKey
<1>5. KeysUnique'
  BY <1>1, <1>2, <1>3, <1>4
  DEF KInv, KeysUnique, KeyIsFree, ItemsOf, Exists
<1>6. ASSUME NEW s \in Requests
      PROVE  KeyIsFree(s)'
  <2>1. tx'[r].rows = {}
    BY CommittedLocals
  <2>2. \A q \in Requests \ {r} :
          tx'[q].rows = tx[q].rows /\ tx'[q].cart = tx[q].cart
    BY OtherLocals
  <2>3. CASE s = r
    BY <2>1, <2>3 DEF KeyIsFree, HoldsKey
  <2>4. CASE s # r /\ HoldsKey(s)
    <3>1. /\ KeyIsFree(s)
          /\ HoldsKey(r) /\ tx[r].cart = tx[s].cart => ask[r].key # ask[s].key
      BY <2>4 DEF KInv, KeyIsFree
    <3>2. ASSUME NEW j \in ItemsOf(tx[s].cart)', j \notin tx[s].rows
          PROVE  items'[j].key # ask[s].key
      <4>1. /\ j \in ItemIds /\ items'[j] # NoItem
            /\ items'[j].cart = tx'[s].cart /\ tx'[s].cart = tx[s].cart
        BY <2>2, <2>4, <3>2 DEF ItemsOf, Exists
      <4>2. CASE j \in tx[r].rows
        <5>1. items'[j] = NewRow(r) /\ HoldsKey(r)
          BY <1>1, <1>4, <4>1, <4>2 DEF Exists
        <5> QED
          BY <1>2, <3>1, <4>1, <5>1
      <4>3. CASE j \notin tx[r].rows
        BY <1>1, <2>4, <3>1, <3>2, <4>1, <4>3 DEF KeyIsFree, ItemsOf, Exists
      <4> QED
        BY <4>2, <4>3
    <3>3. \A q \in Requests \ {s} :
            HoldsKey(q)' => HoldsKey(q) /\ tx'[q].cart = tx[q].cart
      BY <1>1, <2>1, <2>2 DEF HoldsKey
    <3> QED
      BY <1>1, <2>2, <2>4, <3>1, <3>2, <3>3 DEF KeyIsFree, ItemsOf, Exists
  <2>5. CASE s # r /\ ~HoldsKey(s)
    BY <1>1, <2>2, <2>5 DEF KeyIsFree, HoldsKey
  <2> QED
    BY <2>3, <2>4, <2>5
<1> QED
  BY <1>5, <1>6 DEF KInv

LEMMA InitImpliesKInv == Init => KInv
<1> SUFFICES ASSUME Init PROVE KInv
  OBVIOUS
<1>1. \A i \in ItemIds : Exists(i) =>
        /\ i \in OldItems
        /\ items[i].cart = OldRow[i].cart /\ items[i].key = OldRow[i].key
  BY DEF Init, Exists
<1>2. KeysUnique
  BY <1>1, OldRowsAssumption DEF KeysUnique
<1>3. \A r \in Requests : KeyIsFree(r)
  BY DEF Init, KeyIsFree, HoldsKey
<1> QED
  BY <1>2, <1>3 DEF KInv

LEMMA NextKeepsKInv == IInv /\ KInv /\ [Next]_vars => KInv'
<1> SUFFICES ASSUME IInv, KInv, [Next]_vars PROVE KInv'
  OBVIOUS
<1>1. ASSUME NEW r \in Requests, Step(r) \/ Fail(r)
      PROVE  KInv'
  BY <1>1, StatementsKeepKInv, CommitsKeepKInv
<1>2. CASE UNCHANGED <<ask, items, tx>>
  BY <1>2 DEF KInv, KeysUnique, KeyIsFree, HoldsKey, ItemsOf, Exists
<1>3. ASSUME NEW c \in CartIds, CloseCart(c)
      PROVE  KInv'
  BY <1>2, <1>3 DEF CloseCart, rowVars
<1> QED
  BY <1>1, <1>2, <1>3 DEF Next, vars, cartVars, rowVars

\* No two items of a cart have the same key, whatever requests add, move and
\* remove them and fail at once.
THEOREM KeysStayUnique == Spec => []KeysUnique
<1>1. KInv => KeysUnique
  BY DEF KInv
<1> QED
  BY <1>1, InitImpliesIInv, InitImpliesKInv, NextKeepsIInv, NextKeepsKInv, PTL
  DEF Spec

-----------------------------------------------------------------------------
(***************************************************************************)
(* What the rest of the system sees of requests: the steps at which the    *)
(* tables change, and how.                                                 *)
(***************************************************************************)
LEMMA OnlyCommitsShow ==
  ASSUME NEW r \in Requests, Step(r) \/ Fail(r),
         ~UpdateCart(r), ~CreateCart(r)
  PROVE  UNCHANGED <<cartOwner, cartStatus, items, options>>
BY DEF
     Step, Fail, FindCart, InsertItem, InsertConflict, FindItem, FindDuplicate,
     UpdateItem, UpdateConflict, DeleteOptions, CreateOptions,
     FindItemOfService, DeleteItem, ListItems, DeleteItems, SumItems, Reread,
     Goto, Write, cartVars, rowVars

\* A request that has ended its transaction opens no other.
LEMMA EndedStaysEnded ==
  ASSUME IInv, NEW r \in Requests, Step(r) \/ Fail(r),
         NEW s \in Requests, Past(s)
  PROVE  Past(s)'
<1>1. CASE UpdateCart(r)
  <2>1. s # r
    BY <1>1 DEF UpdateCart, Past
  <2> QED
    BY <1>1, <2>1, OtherLocals DEF Past
<1>2. CASE ~UpdateCart(r) /\ s # r
  BY <1>2, StatementsWrite DEF Past
<1>3. CASE ~UpdateCart(r) /\ s = r
  <2>1. Reread(r) \/ Fail(r)
    BY <1>3
    DEF Step, FindCart, CreateCart, InsertItem, InsertConflict, FindItem,
        FindDuplicate, UpdateItem, UpdateConflict, DeleteOptions,
        CreateOptions, FindItemOfService, DeleteItem, ListItems, DeleteItems,
        SumItems, Past
  <2>2. Typed(tx[r]) /\ DOMAIN tx = Requests
    BY Own
  <2>3. CASE Reread(r)
    <3>1. tx' = [tx EXCEPT ![r].pc = "answered"]
      BY <2>3 DEF Reread, Goto
    <3> QED
      BY <1>3, <2>2, <3>1 DEF Typed, Locals, Past
  <2>4. CASE Fail(r)
    <3> DEFINE t == Local("failed", tx[r].cart, tx[r].item, {}, tx[r].gone,
                          tx[r].sum, tx[r].stale)
    <3>1. tx' = [tx EXCEPT ![r] = [tx[r] EXCEPT !.pc = "failed", !.rows = {}]]
      BY <2>4 DEF Fail
    <3>2. [tx[r] EXCEPT !.pc = "failed", !.rows = {}] = t
      BY <2>2, WentWithRows DEF Typed
    <3>3. tx' = [tx EXCEPT ![r] = t]
      BY <3>1, <3>2
    <3> QED
      BY <1>3, <2>2, <3>3 DEF Local, Past
  <2> QED
    BY <2>1, <2>3, <2>4
<1> QED
  BY <1>1, <1>2, <1>3

\* Request r has put item i into its cart with options of its own, under a key
\* that no other item of the cart has.
Puts(r, i) ==
  /\ IF Exists(i) THEN items[i].cart = tx[r].cart ELSE i = r
  /\ ask[r].key \in Keys
  /\ \A j \in ItemsOf(tx[r].cart) \ {i} : items[j].key # ask[r].key
  /\ NewRow(r) # NoItem
  /\ items' = [items EXCEPT ![i] = NewRow(r)]
  /\ options' = [options EXCEPT ![i] = {r}]

\* Rows of r's cart have been removed with their options.
Removes(r, rows) ==
  /\ rows \subseteq ItemsOf(tx[r].cart)
  /\ items' = [i \in ItemIds |-> IF i \in rows THEN NoItem ELSE items[i]]
  /\ options' = [i \in ItemIds |-> IF i \in rows THEN {} ELSE options[i]]

\* A commit puts one item or removes some, all at once and in a cart that
\* exists, and is the only one of its request.
LEMMA CommitsShow ==
  ASSUME IInv, KInv, NEW r \in Requests, UpdateCart(r)
  PROVE  /\ UNCHANGED <<ask, cartOwner, cartStatus>>
         /\ tx[r].cart \in CartIds /\ cartOwner[tx[r].cart] # NoOwner
         /\ ~Past(r) /\ Past(r)'
         /\ \/ \E i \in ItemIds : Puts(r, i)
            \/ Removes(r, tx[r].rows)
<1>1. /\ RequestOK(r) /\ tx[r].pc = "updateCart" /\ tx[r].cart \in CartIds
      /\ cartOwner[tx[r].cart] \in Owners
      /\ ask[r].op \in {"add", "update", "remove", "clear"}
      /\ UNCHANGED <<ask, cartOwner, cartStatus>>
  BY Committing DEF UpdateCart
<1>2. ~Past(r) /\ Past(r)'
  BY <1>1, CommittedLocals DEF Past
<1>3. /\ tx[r].rows \subseteq ItemIds
      /\ items' \in [ItemIds -> Row \cup {NoItem}]
      /\ \A i \in ItemIds :
           items'[i] = IF i \in tx[r].rows THEN NewRow(r) ELSE items[i]
      /\ \A i \in tx[r].rows :
           IF ask[r].op = "add"
           THEN i = r /\ ~Exists(r)
           ELSE Exists(i) /\ items[i].cart = tx[r].cart
  BY Committing
<1>4. options' = [i \in ItemIds |->
                    IF i \notin tx[r].rows THEN options[i]
                    ELSE IF NewRow(r) = NoItem THEN {}
                    ELSE (options[i] \ tx[r].gone) \cup {r}]
  BY DEF UpdateCart
<1>5. /\ items = [i \in ItemIds |-> items[i]]
      /\ options = [i \in ItemIds |-> options[i]]
      /\ OptionsAgree
  BY DEF IInv, Shape
<1>6. ASSUME ask[r].op \in {"add", "update"}
      PROVE  \E i \in ItemIds : Puts(r, i)
  <2>1. PICK i \in ItemIds : tx[r].rows = {i}
    BY <1>1, <1>3, <1>6 DEF RequestOK, WrittenRows, Writing
  <2>2. NewRow(r) # NoItem /\ ask[r].key \in Keys
    BY <1>1, <1>6, NewRows, Asked DEF IInv, Shape
  <2>3. IF Exists(i) THEN items[i].cart = tx[r].cart ELSE i = r
    BY <1>3, <2>1
  <2>4. items' = [items EXCEPT ![i] = NewRow(r)]
    BY <1>3, <1>5, <2>1
  <2>5. options[i] \ tx[r].gone = {}
    <3>1. CASE ask[r].op = "add"
      BY <1>3, <1>5, <2>1, <3>1 DEF OptionsAgree
    <3>2. CASE ask[r].op = "update"
      BY <1>1, <2>1, <3>2 DEF RequestOK, WrittenRows, Writing
    <3> QED
      BY <1>6, <3>1, <3>2
  <2>6. options' = [options EXCEPT ![i] = {r}]
    BY <1>4, <1>5, <2>1, <2>2, <2>5
  <2>7. \A j \in ItemsOf(tx[r].cart) \ {i} : items[j].key # ask[r].key
    BY <1>6, <2>1 DEF KInv, KeyIsFree, HoldsKey
  <2> QED
    BY <2>2, <2>3, <2>4, <2>6, <2>7 DEF Puts
<1>7. ASSUME ask[r].op \in {"remove", "clear"}
      PROVE  Removes(r, tx[r].rows)
  <2>1. NewRow(r) = NoItem
    BY <1>7 DEF NewRow
  <2>2. tx[r].rows \subseteq ItemsOf(tx[r].cart)
    BY <1>3, <1>7 DEF ItemsOf
  <2>3. items' = [i \in ItemIds |-> IF i \in tx[r].rows THEN NoItem
                                                       ELSE items[i]]
    BY <1>3, <2>1
  <2>4. options' = [i \in ItemIds |-> IF i \in tx[r].rows THEN {}
                                                         ELSE options[i]]
    BY <1>4, <2>1
  <2> QED
    BY <2>2, <2>3, <2>4 DEF Removes
<1> QED
  BY <1>1, <1>2, <1>6, <1>7, NamesAssumption
=============================================================================
