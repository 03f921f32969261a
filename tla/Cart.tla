-------------------------------- MODULE Cart --------------------------------
(***************************************************************************)
(* The shopping cart (CartService): every request first gets or creates    *)
(* the active cart of its owner, then changes the cart's items in one      *)
(* database transaction that ends by summing the items it sees and writing *)
(* the sum to the cart.  Orders close carts meanwhile.                     *)
(*                                                                         *)
(* Each awaited statement is an action.  Transactions run at READ          *)
(* COMMITTED: a statement sees what was committed before it began and what *)
(* its own transaction wrote; a row written by another transaction that    *)
(* is still open, and a unique key that such a row has or had, must be     *)
(* waited for.  What a transaction writes is kept in tx and reaches the    *)
(* tables when it commits.                                                 *)
(*                                                                         *)
(* A request creates at most one cart and one item, which bear its name.   *)
(* total_base_price and total_current_price are computed side by side in   *)
(* the same way; one price stands for both.                                *)
(***************************************************************************)
EXTENDS Naturals, FiniteSets, Functions

CONSTANTS Requests,    \* requests to /cart
          Owners,      \* users and guest sessions
          OldOwner,    \* the carts there are at the start, with their owners
          OldRow,      \* the items there are at the start, with their rows
          Services,    \* what can be booked
          Slots,       \* when it can be booked (type, date and time)
          Prices,      \* item totals, in cents, when an item is added
          NewPrices,   \* and when it is updated
          MaxFailures, \* bound: how many requests may fail
          NoOwner, NoItem, NoCart

ASSUME PricesAssumption   == Prices \cup NewPrices \subseteq Nat
ASSUME FailuresAssumption == MaxFailures \in Nat
OldCarts == DOMAIN OldOwner
OldItems == DOMAIN OldRow
CartIds  == OldCarts \cup Requests
ItemIds  == OldItems \cup Requests
Keys     == Services \X Slots

ASSUME NamesAssumption ==
  /\ NoOwner \notin Owners /\ NoCart \notin CartIds
  /\ OldCarts \cap Requests = {} /\ OldItems \cap Requests = {}

\* A table has finitely many rows.
ASSUME FiniteAssumption == IsFiniteSet(ItemIds)

\* At the start an owner has at most one cart and a cart each key at most once.
ASSUME OldRowsAssumption ==
  /\ OldOwner \in [OldCarts -> Owners]
  /\ OldRow \in [OldItems -> [cart : OldCarts, key : Keys, price : Nat]]
  /\ \A c, d \in OldCarts : OldOwner[c] = OldOwner[d] => c = d
  /\ \A i, j \in OldItems :
       OldRow[i].cart = OldRow[j].cart /\ OldRow[i].key = OldRow[j].key => i = j

VARIABLES ask,          \* what each request asks for (fixed)
          cartOwner,    \* carts.user_id or guest_session_id
          cartStatus,   \* carts.status
          total,        \* carts.total_current_price
          items,        \* the table cart_items
          options,      \* whose option rows each item has
          tx,           \* the requests: position and local variables
          overlapped,   \* carts whose total was last written from a stale sum
          failures      \* statements that failed so far

cartVars == <<cartOwner, cartStatus>>
rowVars  == <<total, items, options>>
vars == <<ask, cartVars, rowVars, tx, overlapped, failures>>

-----------------------------------------------------------------------------
Ask == [op : {"add"}, owner : Owners, key : Keys, price : Prices]
  \cup [op : {"update"}, owner : Owners, item : ItemIds, key : Keys,
        price : NewPrices]
  \cup [op : {"remove"}, owner : Owners, service : Services]
  \cup [op : {"clear", "get"}, owner : Owners]

\* by is the request (or, at the start, the item itself) that wrote the row.
Row == [cart : CartIds, key : Keys, price : Nat, by : ItemIds]
ASSUME NoItemAssumption == NoItem \notin Row

Position == {"start", "createCart", "insertItem", "findItem", "findDuplicate",
             "updateItem", "deleteOptions", "createOptions", "deleteItem",
             "listItems", "deleteItems", "sumItems", "updateCart", "reread",
             "answered", "failed"}

Exists(i)  == items[i] # NoItem
ItemsOf(c) == {i \in ItemIds : Exists(i) /\ items[i].cart = c}

\* The prices of the items of cart c among rows, and their sum.
PricesIn(rows, c) ==
  [i \in {j \in ItemIds : rows[j] # NoItem /\ rows[j].cart = c} |->
     rows[i].price]
Sum(prices)    == FoldFunction(+, 0, prices)
SumOf(rows, c) == Sum(PricesIn(rows, c))

Init ==
  /\ ask \in [Requests -> Ask]
  /\ cartOwner = [c \in CartIds |->
                    IF c \in OldCarts THEN OldOwner[c] ELSE NoOwner]
  /\ items = [i \in ItemIds |->
                IF i \in OldItems
                THEN [cart |-> OldRow[i].cart, key |-> OldRow[i].key,
                      price |-> OldRow[i].price, by |-> i]
                ELSE NoItem]
  /\ cartStatus = [c \in CartIds |-> "ACTIVE"]
  /\ total = [c \in CartIds |-> SumOf(items, c)]
  /\ options = [i \in ItemIds |-> IF i \in OldItems THEN {i} ELSE {}]
  /\ tx = [r \in Requests |-> [pc |-> "start", cart |-> NoCart,
                               item |-> NoItem, rows |-> {}, gone |-> {},
                               sum |-> 0, stale |-> FALSE]]
  /\ overlapped = {}
  /\ failures = 0

-----------------------------------------------------------------------------
(***************************************************************************)
(* Transactions.                                                           *)
(***************************************************************************)

\* The rows r's transaction has written are locked until it ends.
Locked(i, r) == \E s \in Requests \ {r} : i \in tx[s].rows

NewRow(r) ==
  IF ask[r].op \in {"add", "update"}
  THEN [cart |-> tx[r].cart, key |-> ask[r].key, price |-> ask[r].price,
        by |-> r]
  ELSE NoItem

\* The table cart_items as r's transaction sees it.
Seen(r) == [i \in ItemIds |-> IF i \in tx[r].rows THEN NewRow(r) ELSE items[i]]

\* A row other than i with r's cart and key, committed.
Duplicates(r, i) ==
  {j \in ItemsOf(tx[r].cart) \ {i} : items[j].key = ask[r].key}

\* The unique index makes r wait for an open transaction that has written a
\* row whose key is, or was, the one r writes.
KeyPending(r) ==
  \E s \in Requests \ {r} : \E i \in tx[s].rows :
    \E row \in {items[i], NewRow(s)} \ {NoItem} :
      row.cart = tx[r].cart /\ row.key = ask[r].key

\* r goes on to pc and nothing is committed.
Goto(r, pc) ==
  /\ tx' = [tx EXCEPT ![r].pc = pc]
  /\ UNCHANGED <<ask, cartVars, rowVars, overlapped, failures>>

\* r goes on to pc having written rows, which it locks.
Write(r, rows, pc) ==
  /\ tx' = [tx EXCEPT ![r] = [@ EXCEPT !.pc = pc, !.rows = rows]]
  /\ UNCHANGED <<ask, cartVars, rowVars, overlapped, failures>>

-----------------------------------------------------------------------------
(***************************************************************************)
(* getOrCreateActiveCart, in a transaction of its own.  No unique index    *)
(* keeps two requests from both creating a cart; of several active carts   *)
(* findFirst returns any.                                                  *)
(***************************************************************************)
FirstStatement(op) ==
  CASE op = "add"    -> "insertItem"
    [] op = "update" -> "findItem"
    [] op = "remove" -> "findItem"
    [] op = "clear"  -> "listItems"
    [] op = "get"    -> "answered"

FindCart(r) ==
  /\ tx[r].pc = "start"
  /\ LET active == {c \in CartIds : /\ cartOwner[c] = ask[r].owner
                                    /\ cartStatus[c] = "ACTIVE"}
     IN \/ /\ active = {}
           /\ Goto(r, "createCart")
        \/ \E c \in active :
             /\ tx' = [tx EXCEPT ![r] =
                         [@ EXCEPT !.pc = FirstStatement(ask[r].op),
                                   !.cart = c]]
             /\ UNCHANGED <<ask, cartVars, rowVars, overlapped, failures>>

\* A cart of the owner taken up again instead, although it was ordered.
ReopenCart(r) ==
  /\ tx[r].pc = "createCart"
  /\ \E c \in CartIds :
       /\ cartOwner[c] = ask[r].owner
       /\ cartStatus' = [cartStatus EXCEPT ![c] = "ACTIVE"]
       /\ tx' = [tx EXCEPT ![r] = [@ EXCEPT !.pc = FirstStatement(ask[r].op),
                                            !.cart = c]]
  /\ UNCHANGED <<ask, cartOwner, rowVars, overlapped, failures>>

CreateCart(r) ==
  /\ tx[r].pc = "createCart"
  /\ cartOwner' = [cartOwner EXCEPT ![r] = ask[r].owner]
  /\ cartStatus' = [cartStatus EXCEPT ![r] = "ACTIVE"]
  /\ total' = [total EXCEPT ![r] = 0]
  /\ tx' = [tx EXCEPT ![r] = [@ EXCEPT !.pc = FirstStatement(ask[r].op),
                                       !.cart = r]]
  /\ UNCHANGED <<ask, items, options, overlapped, failures>>

-----------------------------------------------------------------------------
(***************************************************************************)
(* addItem.                                                                *)
(***************************************************************************)
InsertItem(r) ==
  /\ tx[r].pc = "insertItem"
  /\ ~KeyPending(r)
  /\ Duplicates(r, r) = {}
  /\ Write(r, {r}, "sumItems")

\* P2002: the request ends with a conflict.
InsertConflict(r) ==
  /\ tx[r].pc = "insertItem"
  /\ ~KeyPending(r)
  /\ Duplicates(r, r) # {}
  /\ Goto(r, "failed")

(***************************************************************************)
(* updateItem.  The item and a duplicate are looked for first; the update  *)
(* itself names the item by its id alone.                                  *)
(***************************************************************************)
FindAnyItem(r) ==
  /\ tx[r].pc = "findItem"
  /\ ask[r].op = "update"
  /\ IF Exists(ask[r].item) THEN Goto(r, "findDuplicate") ELSE Goto(r, "failed")

FindItem(r) ==
  /\ tx[r].pc = "findItem"
  /\ ask[r].op = "update"
  /\ IF ask[r].item \in ItemsOf(tx[r].cart) THEN Goto(r, "findDuplicate")
                                            ELSE Goto(r, "failed")

FindDuplicate(r) ==
  /\ tx[r].pc = "findDuplicate"
  /\ IF Duplicates(r, ask[r].item) = {} THEN Goto(r, "updateItem")
                                        ELSE Goto(r, "failed")

\* The options replaced before the item, and so before it is locked.
OptionsBeforeItem(r) ==
  /\ tx[r].pc = "updateItem"
  /\ Exists(ask[r].item)
  /\ Write(r, {ask[r].item}, "deleteOptions")

UpdateItem(r) ==
  /\ tx[r].pc = "updateItem"
  /\ ~Locked(ask[r].item, r)
  /\ Exists(ask[r].item)
  /\ ~KeyPending(r)
  /\ Duplicates(r, ask[r].item) = {}
  /\ Write(r, {ask[r].item}, "deleteOptions")

\* P2025 or P2002: the item is gone or its new key taken since it was found.
UpdateConflict(r) ==
  /\ tx[r].pc = "updateItem"
  /\ ~Locked(ask[r].item, r)
  /\ Exists(ask[r].item) => /\ ~KeyPending(r)
                            /\ Duplicates(r, ask[r].item) # {}
  /\ Goto(r, "failed")

KeepOptions(r) ==
  /\ tx[r].pc = "deleteOptions"
  /\ Goto(r, "createOptions")

\* deleteMany deletes the option rows committed when it begins.
DeleteOptions(r) ==
  /\ tx[r].pc = "deleteOptions"
  /\ tx' = [tx EXCEPT ![r] = [@ EXCEPT !.pc = "createOptions",
                                       !.gone = options[ask[r].item]]]
  /\ UNCHANGED <<ask, cartVars, rowVars, overlapped, failures>>

CreateOptions(r) ==
  /\ tx[r].pc = "createOptions"
  /\ Goto(r, "sumItems")

(***************************************************************************)
(* removeItem: the path names a service, and any one item of that service  *)
(* in the cart is removed.                                                 *)
(***************************************************************************)
FindAgain(r) ==
  /\ tx[r].pc = "findItem"
  /\ ask[r].op = "remove"
  /\ LET found == {i \in ItemsOf(tx[r].cart) :
                     items[i].key[1] = ask[r].service}
     IN \/ found = {} /\ Goto(r, "findItem")
        \/ \E i \in found :
             /\ tx' = [tx EXCEPT ![r] = [@ EXCEPT !.pc = "deleteItem",
                                                  !.item = i]]
             /\ UNCHANGED <<ask, cartVars, rowVars, overlapped, failures>>

FindItemOfService(r) ==
  /\ tx[r].pc = "findItem"
  /\ ask[r].op = "remove"
  /\ LET found == {i \in ItemsOf(tx[r].cart) :
                     items[i].key[1] = ask[r].service}
     IN \/ found = {} /\ Goto(r, "failed")
        \/ \E i \in found :
             /\ tx' = [tx EXCEPT ![r] = [@ EXCEPT !.pc = "deleteItem",
                                                  !.item = i]]
             /\ UNCHANGED <<ask, cartVars, rowVars, overlapped, failures>>

DeleteItem(r) ==
  /\ tx[r].pc = "deleteItem"
  /\ ~Locked(tx[r].item, r)
  /\ IF Exists(tx[r].item) THEN Write(r, {tx[r].item}, "sumItems")
                           ELSE Goto(r, "failed")

(***************************************************************************)
(* clearCart: one deleteMany, which finds the rows committed when it       *)
(* begins, waits for those that are locked and deletes what is left of     *)
(* them; the total is then set to zero without a sum.                      *)
(***************************************************************************)
ListItems(r) ==
  /\ tx[r].pc = "listItems"
  /\ tx' = [tx EXCEPT ![r] = [@ EXCEPT !.pc = "deleteItems",
                                       !.gone = ItemsOf(tx[r].cart)]]
  /\ UNCHANGED <<ask, cartVars, rowVars, overlapped, failures>>

DeleteItems(r) ==
  /\ tx[r].pc = "deleteItems"
  /\ \A i \in tx[r].gone : ~Locked(i, r)
  /\ Write(r, tx[r].gone \cap ItemsOf(tx[r].cart), "updateCart")

(***************************************************************************)
(* The end of every transaction: the items are read again and summed, the  *)
(* sum is written to the cart, and all of it is committed.  A sum is stale *)
(* when another transaction on the cart has committed since it was read.   *)
(***************************************************************************)
SumOutsideTransaction(r) ==
  /\ tx[r].pc = "sumItems"
  /\ tx' = [tx EXCEPT ![r] = [@ EXCEPT !.pc = "updateCart",
                                       !.sum = SumOf(items, tx[r].cart)]]
  /\ UNCHANGED <<ask, cartVars, rowVars, overlapped, failures>>

SumItems(r) ==
  /\ tx[r].pc = "sumItems"
  /\ tx' = [tx EXCEPT ![r] = [@ EXCEPT !.pc = "updateCart",
                                       !.sum = SumOf(Seen(r), tx[r].cart)]]
  /\ UNCHANGED <<ask, cartVars, rowVars, overlapped, failures>>

UpdateCart(r) ==
  LET c == tx[r].cart
  IN /\ tx[r].pc = "updateCart"
     /\ items' = Seen(r)
     /\ options' = [i \in ItemIds |->
                      IF i \notin tx[r].rows THEN options[i]
                      ELSE IF NewRow(r) = NoItem THEN {}
                      ELSE (options[i] \ tx[r].gone) \cup {r}]
     /\ total' = [total EXCEPT ![c] = tx[r].sum]
     /\ overlapped' = IF tx[r].stale THEN overlapped \cup {c}
                                     ELSE overlapped \ {c}
     /\ tx' = [s \in Requests |->
                 IF s = r
                 THEN [tx[r] EXCEPT !.rows = {},
                                    !.pc = IF ask[r].op \in {"add", "update"}
                                           THEN "reread" ELSE "answered"]
                 ELSE IF /\ tx[s].cart = c
                         /\ tx[s].pc \in {"deleteItems", "updateCart"}
                      THEN [tx[s] EXCEPT !.stale = TRUE]
                 ELSE tx[s]]
     /\ UNCHANGED <<ask, cartVars, failures>>

\* The cart is read once more for the answer, after the transaction.
Reread(r) ==
  /\ tx[r].pc = "reread"
  /\ Goto(r, "answered")

\* A statement fails or the transaction times out: it is rolled back.
Fail(r) ==
  /\ tx[r].pc \notin {"start", "answered", "failed"}
  /\ failures < MaxFailures
  /\ tx' = [tx EXCEPT ![r] = [@ EXCEPT !.pc = "failed", !.rows = {}]]
  /\ failures' = failures + 1
  /\ UNCHANGED <<ask, cartVars, rowVars, overlapped>>

CloseAsClosed(c) ==
  /\ cartOwner[c] # NoOwner
  /\ cartStatus[c] = "ACTIVE"
  /\ cartStatus' = [cartStatus EXCEPT ![c] = "CLOSED"]
  /\ UNCHANGED <<ask, cartOwner, rowVars, tx, overlapped, failures>>

\* An order of the cart is booked (PaymentService, CashPaymentStrategy).
CloseCart(c) ==
  /\ cartOwner[c] # NoOwner
  /\ cartStatus[c] = "ACTIVE"
  /\ cartStatus' = [cartStatus EXCEPT ![c] = "ORDERED"]
  /\ UNCHANGED <<ask, cartOwner, rowVars, tx, overlapped, failures>>

-----------------------------------------------------------------------------
Step(r) ==
  \/ FindCart(r) \/ CreateCart(r)
  \/ InsertItem(r) \/ InsertConflict(r)
  \/ FindItem(r) \/ FindDuplicate(r) \/ UpdateItem(r) \/ UpdateConflict(r)
  \/ DeleteOptions(r) \/ CreateOptions(r)
  \/ FindItemOfService(r) \/ DeleteItem(r)
  \/ ListItems(r) \/ DeleteItems(r)
  \/ SumItems(r) \/ UpdateCart(r) \/ Reread(r)

Next ==
  \/ \E r \in Requests : Step(r) \/ Fail(r)
  \/ \E c \in CartIds : CloseCart(c)

Spec == Init /\ [][Next]_vars

\* The event loop and the database carry on with every request that began.
FairSpec == Spec /\ \A r \in Requests : WF_vars(tx[r].pc # "start" /\ Step(r))

-----------------------------------------------------------------------------
\* Tables and local variables have their types, but for the totals.
Shape ==
  /\ ask \in [Requests -> Ask]
  /\ cartOwner \in [CartIds -> Owners \cup {NoOwner}]
  /\ cartStatus \in [CartIds -> {"ACTIVE", "ORDERED"}]
  /\ DOMAIN total = CartIds
  /\ items \in [ItemIds -> Row \cup {NoItem}]
  /\ options \in [ItemIds -> SUBSET ItemIds]
  /\ DOMAIN tx = Requests
  /\ \A r \in Requests :
       /\ tx[r].pc \in Position
       /\ tx[r].cart \in CartIds \cup {NoCart}
       /\ tx[r].item \in ItemIds \cup {NoItem}
       /\ tx[r].rows \in SUBSET ItemIds
       /\ tx[r].gone \in SUBSET ItemIds
       /\ tx[r].stale \in BOOLEAN
  /\ overlapped \subseteq CartIds
  /\ failures \in 0..MaxFailures

\* Every total that is summed or stored is a number.
TotalsAreNumbers ==
  /\ total \in [CartIds -> Nat]
  /\ \A r \in Requests : tx[r].sum \in Nat

\* Type correctness.
TypeOK == Shape /\ TotalsAreNumbers

\* The option rows of an item are exactly those of the request that wrote its
\* price and key, also when several requests update, remove and fail on the
\* same item at once: locking the item first serialises the two statements
\* that replace its options.
OptionsAgree ==
  \A i \in ItemIds : options[i] = IF Exists(i) THEN {items[i].by} ELSE {}

\* The total of a cart is the sum of its items, unless the last transaction to
\* write it had summed before another one committed.  One transaction that ran
\* alone since its sum repairs whatever earlier ones left.
TotalUnlessOverlapped ==
  \A c \in CartIds : c \notin overlapped => total[c] = SumOf(items, c)

\* An item only ever changes by a request of the owner of its cart, although
\* update and delete name it by its id, two statements after it was looked up
\* in the cart; and what is written lies in that cart.
OwnItemsOnly ==
  [][\A i \in ItemIds : items'[i] # items[i] =>
       \E r \in Requests :
         /\ tx[r].pc = "updateCart" /\ tx'[r].pc # "updateCart"
         /\ cartOwner[tx[r].cart] = ask[r].owner
         /\ \A row \in {items[i], items'[i]} \ {NoItem} :
              row.cart = tx[r].cart]_vars

\* Every request that began comes to an answer or an error: waiting for the
\* rows and keys of open transactions never lasts for ever.
EveryRequestEnds ==
  \A r \in Requests :
    tx[r].pc # "start" ~> tx[r].pc \in {"answered", "failed"}

-----------------------------------------------------------------------------
\* carts.total_current_price (schema.prisma:274) is recomputed in the very
\* transaction that changes an item (cart.service.ts:94-115): whenever no
\* transaction on a cart is open, its total is the sum of its items.
TotalIsSum ==
  \A c \in CartIds :
    (\A r \in Requests : tx[r].cart = c =>
       tx[r].pc \in {"reread", "answered", "failed"})
    => total[c] = SumOf(items, c)
=============================================================================
