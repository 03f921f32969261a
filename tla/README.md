# Verification of travelland-backend

TLA+ models of the backend of an excursion shop (NestJS, Prisma over PostgreSQL,
the GP webpay payment gateway, the Sanity CMS), with TLC configurations that
model-check them on small instances and proofs checked by TLAPS. Paths are
relative to `src/` of the checkout (`src/modules/...` is `src/src/modules/...`
seen from the root of the project).

## 1. The system

One Node process serves HTTP requests. There is no lock and no queue in the
program: requests interleave at every `await`, and what they share is the
database. Only the cart uses database transactions (at PostgreSQL's default,
READ COMMITTED); the order and payment services write row by row, so a request
that fails half way leaves what it has written.

| component | state | operations | what is hard, what must hold |
|---|---|---|---|
| **Payment** `modules/payment` (service, strategies, `gpwebpay.service.ts`) | `payments` (amount, status, prcode, srcode), `orders.order_status`, `orders.total_paid`, `carts.status` | `processPayment` (called by the order), `GET /payment/return` (`processPaymentResult`), `POST /payment/status` | results are redirects the browser may repeat, delay or drop; read and write of `total_paid` are two statements; a failure between any two statements. Nothing is credited or booked unpaid, answers stay true, a paid result ends booked |
| **Order** `modules/order` | `orders`, its services and prices | `POST /order` (`createOrder`), order lookup | user lookup and creation race; the cart is read table by table, then prices fetched in parallel, then the order written, while the cart goes on changing; the same cart may be ordered again. An order is its cart, at the prices in force, and its totals are those of its services |
| **Cart** `modules/cart` | `carts`, `cart_items`, `cart_item_options` | get, `addItem`, `updateItem`, `removeItem`, `clearCart` | overlapping transactions at READ COMMITTED: the total is recomputed from what each sees; items are found by cart and then changed by id; options are replaced in two statements; waiting for locks |
| **Item prices** `modules/cart/utils` | none | totals of an item's options | decimal arithmetic |
| **Auth, session, token, user** | `users`, `sessions` (refresh token, `is_active`) | register, login, refresh, logout | tokens differ only by the second they are made in; lookup and creation run in parallel; refresh and logout race |
| **Sanity prices** `modules/external/sanity` | none (fetches) | `getExcursionPrices` | which of promotion, correction and base price applies to a category |
| Guest session | a cookie | middleware | none |
| Telegram, notification | none | send a message | never called: the only call is commented out (`order.service.ts:200-203`) |
| Validation, filters, configuration, bootstrap | none | | stateless |

**Interaction.** `createOrder` writes an order of the cart and calls
`processPayment`, which writes a payment and, by the method, confirms the order
and closes the cart (cash) or answers with a payment URL (card, prepayment). The
gateway sends the browser back to `/payment/return` with a signed result; that
request marks the payment, credits the order and closes the cart. A closed cart
is no longer found by the cart service, whose next request opens another. The
cart, order and payment modules are thus joined by `cart_items` and
`cart_item_options`, which the cart service writes and the order reads, by
`carts.status`, which the payment service writes and the cart service reads, and
by the order's row.

## 2. Modules

| module | models | kind |
|---|---|---|
| `Booking` | what order and payment promise together: placed, settled, booked, closed | abstract specification |
| `OrderPayment` | the checkout from `order.create` on, the gateway, the return request | component, implements `Booking` |
| `MCOrderPayment` | instances of it | for TLC |
| `OrderPaymentProofs` | its theorems | for TLAPS |
| `Cart` | `CartService` over READ COMMITTED transactions | component |
| `MCCart` | instances of it | for TLC |
| `CartProofs` | its theorems | for TLAPS |
| `Session` | accounts and sessions: register, login, refresh, logout, and the account an order creates | component |
| `MCSession` | instances of it | for TLC |
| `SessionProofs` | its theorems | for TLAPS |
| `Pricing` | `getExcursionPrices`, and the totals that orders and carts compute | operators |
| `PricingProofs` | what its loops find and add up | for TLAPS |
| `FoldTheorems` | what folds over sets and sequences compute, for any of them | for TLAPS |
| `OrderIntake` | `createOrder` from the cart to the order row, over a cart that changes and offers that begin and end; extends `Pricing` | component |
| `MCOrderIntake` | instances of it | for TLC |
| `OrderIntakeProofs` | its theorems | for TLAPS |
| `Shop` | `Cart`, `OrderIntake` and `OrderPayment` over the tables they share | composition, implements each of them |
| `MCShop` | instances of it | for TLC |
| `ShopProofs` | its theorems, from those of its parts | for TLAPS |

`OrderIntakeProofs` extends `PricingProofs`, which extends `FoldTheorems`.

### OrderPayment

A checkout makes at most one order, and that one payment, so the three share a
name `k`; a return request `r` is a record of its position and local variables
(`ret[r]`). One action is one stretch of code between two awaits.

| action | code |
|---|---|
| `CreateOrder` | `prisma.order.create`, `order.service.ts:178-198` |
| `CreatePayment` | `processPayment`: the amount, the payment row, and (card, prepayment) the URL and the answer, `payment.service.ts:28-76` |
| `CashConfirmOrder`, `CashCloseCart` | the two updates of `cash-payment.strategy.ts:13-42` |
| `CheckoutFail`, `ReturnFail` | any awaited statement throws; rows written so far stay |
| `ReturnStart` | signature check and `payment.findUnique`, `payment.service.ts:85-98` (see below) |
| `ReturnUpdatePayment` | `payment.update`, `payment.service.ts:100-117` |
| `ReturnReadOrder`, `ReturnUpdateOrder`, `ReturnCloseCart` | the three statements of `updateOrderAfterPayment`, `payment.service.ts:119-155` |
| `getStatus` | what `POST /payment/status` answers, `payment.service.ts:157-183` |
| `GatewayDecide`, `GatewayRevisit` | **external**: the gateway decides an ORDERNUMBER once and answers PRCODE 14 afterwards |

Abstractions. Money is in tenths of a cent in memory and cents in columns and at
the gateway, both rounded half up, so that a prepayment (a fifth) is rounded
where the code's is. A result is one of four PRCODE/SRCODE pairs the code tells
apart. Only genuine results are delivered: what the signature check
(`verifySignature`) rejects never reaches the code after it. `ReturnStart` merges
`payment.findUnique` into the arrival, because the columns used of that row
never change and the row exists before any result for it does. The values in
`req` (cart, method, amount) are chosen at the start and fixed; `createOrder`
does not look at the cart's status, so a closed cart may be ordered again, and
two checkouts may share a cart.

### Cart

A request is an entry of `tx`: its position, its cart, the rows its transaction
has written (`rows`), the option rows or items a `deleteMany` saw when it began
(`gone`), the sum it read. At READ COMMITTED a statement sees what was committed
before it began and its own transaction's writes: `Seen(r)`. Uncommitted writes
are kept in `tx` and reach the tables in `UpdateCart`, the last write of every
transaction and its commit. A row written by an open transaction is locked
(`Locked`), and so is a unique key it has or had (`KeyPending`).

| action | code (`cart.service.ts`) |
|---|---|
| `FindCart`, `CreateCart` | `getOrCreateActiveCart`, 433-469; of several active carts `findFirst` returns any |
| `InsertItem`, `InsertConflict` | `cartItem.create` and P2002, 53-87, 128-136 |
| `FindItem`, `FindDuplicate`, `UpdateItem`, `UpdateConflict`, `DeleteOptions`, `CreateOptions` | `updateItem`, 138-210, 251-275 |
| `FindItemOfService`, `DeleteItem` | `removeItem`, 278-301 |
| `ListItems`, `DeleteItems` | the one `deleteMany` of `clearCart`, 340-348: the rows it finds when it begins, and their deletion once none is locked |
| `SumItems` | `findMany` and `reduce`, 89-107, 212-230, 303-321 |
| `UpdateCart` | `cart.update` and the commit |
| `Reread` | the read for the answer of `addItem` and `updateItem` |
| `Fail` | an error or the transaction's timeout: rolled back |
| `CloseCart` | a booked order closes the cart (`OrderPayment`) |

Abstractions. `total_base_price` and `total_current_price` are computed side by
side; one price stands for both. A request takes the lock on its cart's row in
the same step that commits, so waiting for that lock is the order of the
`UpdateCart` steps. `DeleteItems` takes its locks in one step, where PostgreSQL
takes them one by one: deadlocks between the database's own row locks are
resolved by PostgreSQL, which aborts one transaction, and that outcome is `Fail`.
At the start an owner has at most one cart; the requests themselves may create
several.

### Session

A request is its position `pc[r]`, what it asks for `req[r]` and its local
variables `loc[r]`. It creates at most one account and one session, which bear
its name: `creator[u]` is the request that created the account of e-mail `u`
(there is one or none), `sessions[x]` the row that request `x` created.

| action | code |
|---|---|
| `Register`, `RegisterLookUp`, `RegisterCreate`, `RegisterJoin` | `register`: the lookup and `create` run in one `Promise.all`, `auth.service.ts` |
| `Enter`, `FindUser`, `CreateUser` | `login`, `POST /user`, and the user an order needs, `order.service.ts` |
| `Present` | `POST /auth/refresh` and `/auth/logout`: `jwt.verify` |
| `FindSession` | `getSessionByRefreshToken` with its check of expiry and `is_active` |
| `IssueTokens` | `generateTokens`, and a refresh's second look at the expiry |
| `CreateSession`, `UpdateSession`, `InvalidateSession` | the three writes of `session.service.ts` and their Prisma errors |
| `Fail` | any awaited statement throws; rows written so far stay |
| `Tick` | a second passes |

Abstractions. A token is its user and the second it was issued in, which is what
two tokens of one user differ by. A session's expiry is computed in the stretch
of code that issues its token and is always written with it, so that `Expired` is
a function of the token. Whether a password is right is left open. Only tokens
that customers were given are presented. `invalidateAllUserSessions` and
`getActiveSessionByRefreshToken` are never called and not modelled.

### Pricing

| operator | code |
|---|---|
| `InForce` | the filter on `promotionalPrices` and `priceCorrections` in the query, `sanity.service.ts:26-27`, for one offer |
| `findPrice`, `FirstOffered`, `SpecialPrice`, `getExcursionPrices` | `getExcursionPrices`, `sanity.service.ts:36-94`; `FirstOffered` runs over all offers and skips those that the query leaves out |
| `PriceMissing`, `servicePriceData`, `ServiceTotals` | the body of the callback, `order.service.ts:109-153` |
| `calculateOptionTotals`, `calculateCartItemTotals`, `prepareCartItemOptions` | `price-calculations.util.ts` |

Abstractions. Moments and dates are whole days, so an offer's last day is all of
it in force; `WeekdayOf` is any function of the day (the code takes the weekday
in the server's time zone). Prices are natural numbers in one unit: no total is
rounded before it is stored, which `OrderPayment` models. Every entry of a list has
a price (`IsPriceList`, `IsDocument`); a document without base prices or an offer
without weekdays or prices throws like a missing document, and `NoDocument` stands
for all of these.

### OrderIntake

An order request is the record `intake[k]`: its position, the item rows it has
read (`rows`), whose option rows it has read for each (`opts`), what it has
computed for each item (`services`) and the shared accumulator (`total`). An item
row bears the name of the request that wrote it last (`by`), and `options` says
whose option rows an item has: a torn read shows as `opts[i]` other than
`{rows[i].by}`.

| action | code (`order.service.ts`) |
|---|---|
| `ReadItems` | `cart.findFirst`: the carts and the items, 88-94; of a cart that does not exist `cartOrders.cart_items` throws |
| `ReadOptions` | the same call: the options, 94-99 |
| `FetchPrices(k, i)` | one answer of the content system and the rest of its callback, which has no further await, 103-175; a missing document or price throws and ends the request |
| `CreateOrder` | the nested `order.create`, 178-198, once `Promise.all` has all answers |
| `Fail` | a statement or a fetch fails |
| `PutItem`, `RemoveItems`, `OpenCart` | what requests to `/cart` commit meanwhile (environment) |
| `Tick` | a day passes (environment) |

Abstractions. Without `relationJoins` (no preview feature is on in
`schema.prisma`) Prisma 5 loads an `include` with one SELECT per table, outside
any transaction. The carts and the items are read in one step, since carts are
never deleted. The account (lines 72-83) is `CreateUser` of `Session`; it is
created even when the order then fails. `changed` notes for the
properties whether the cart's items changed between the two reads or after them.
The refusals of lines 51-70 (no user, unknown method, no telegram configuration)
happen before anything is read.

### Shop

`Shop` has the variables of all three components, `cartStatus`, `items` and
`options` once, and instantiates each component with its own:

- a step of a cart request (`CartStep`) is a step of `Cart`, and what it commits
  is a change of items for `OrderIntake`;
- a statement of an order request (`IntakeStep`) leaves the tables alone;
- `PlaceOrder` is `CreateOrder` of `OrderIntake` and of `OrderPayment` at once,
  and the amount of the latter is the total of the former. `req[k].amount`, which
  `OrderPayment` fixes at the start and does not use before, is chosen at the
  start and has to be met;
- `PaymentStep` is everything later in `OrderPayment`; its two steps that close a
  cart are the `CloseCart` of `Cart`.

The environment actions of the components (`CloseCart`; `PutItem`, `RemoveItems`,
`OpenCart`; an order placed at any time for any cart) are not steps of `Shop`:
that `Shop` implements `Cart`, `OrderIntake` and `OrderPayment` shows that they
cover what the other components really do.

## 3. Runs

| run | instance | shows |
|---|---|---|
| `order_safety` | 2 checkouts, 2 returns, 2 carts, 1 failure, fairness; 198 k states | `TypeOK`, `NoCreditWithoutCharge`, `CartClosedOnlyWhenBooked`, `AnsweredMeansBooked`, that the requests implement `Booking`, and `SuccessfulResultIsBooked`, `CashOrderIsBooked` |
| `order_repeats` | 1 checkout, 5 returns, two prices, 1 failure; 77 k states | `CreditsAreWholePayments`, `StatusMatchesPaid`, however reads and writes of `total_paid` overlap |
| `cart_safety` | 3 requests of one owner, 1 failure; 2.2 M states | `TypeOK`, `OptionsAgree`, `TotalUnlessOverlapped` |
| `cart_progress` | 2 requests of two owners, 1 failure, fairness; 138 k states | `OwnItemsOnly`, `EveryRequestEnds` |
| `session_safety` | 4 requests with one e-mail over 4 seconds, 1 failure; 455 k states | `TypeOK`, `AccountKeepsItsOwner`, `GivenTokenWorks`, `ExchangedOncePerIssue` |
| `intake_safety` | 1 order, a cart of up to 3 items of 2 services, 4 catalogues, 2 days, 1 failure; 945 k states | `TypeOK`, `PriceIsInForce`, `TotalIsSumOfServices`, `OrderIsItsCart`, `RefusedOnlyWithoutPrice`, `CartAgreesWithOrder` |
| `shop_safety` | 2 cart requests, 1 checkout, 1 return, carts made on the way, 1 failure in the payment service; 506 k states | `ClosedCartIsOrdered`, `CartIsWhatIsCharged` (from the cart to the order's total and, where all of it is paid at once, to the gateway), and that the shop implements `Cart`, `OrderIntake` and `OrderPayment` |
| `order_credit` | violated | `TotalPaidWithinCharge`: one result delivered twice is credited twice |
| `order_charge` | violated | `ChargeIsPaymentAmount`: the gateway takes 10.04 EUR for a prepayment recorded at 2.01 |
| `order_message` | violated | `StatusMessageIsTrue`: a revisited URL relabels a payment that succeeded |
| `cart_total` | violated | `TotalIsSum`: of two overlapping changes the later write of the total leaves out the other |
| `session_retry` | violated | `RetryIsPossible`: the loser of two refreshes with one token is asked to try again in vain |

**Bounds.** Two checkouts are needed for a cart ordered twice and two returns for
a repeated, reordered or lost update; a third request of either kind meets the
others only in pairs. Five returns of one order are what it takes for
prepayments to add up to the price: at 10.04 EUR five prepayments of 2.01
overshoot it and four fall short, at 50.00 EUR five meet it exactly. One failure
(`MaxFailures`) is enough to stop a request at each of its statements. The cart
has one service and two slots: with the item it starts with, two requests can
collide on a key, move an item onto another's key or ask for one key twice;
three requests let two overlap and a third repair what they left, or wait for
both. An update always changes the price (250 for 150 or 100), so a stale sum
always shows. Sessions of different e-mails share no row, so one e-mail is
enough. Four requests are a login, two refreshes that race for its token, and a
third party: a logout, a second device, or whoever uses the token of the winner.
A token lives for two of four seconds, so that two tokens of one second
coincide, tokens of neighbouring seconds differ, and a session can expire between
being found and being updated. Orders of different requests share nothing before
their rows are written, so one order is enough for the intake. It has up to three
items: two of one service in different slots, two of different services, and a
third that is added, or updates one of them, while the order is under way.
Between them the four catalogues hold a promotion that names one category only, one
for another weekday, one that ends with the first day, a correction that raises
prices, a category with special prices but no base price, and a missing
document; one row of participants is of quantity zero. In the composition two cart
requests are enough for one to be overtaken by the closing of the cart and the
other to open the next one. The amounts an order can have (`CartTotals`) are the
totals of all carts that come about, up to two items of two adults; an amount left
out would silently exclude the orders of that total. Its services do not fail except in payment, where a
failure leaves a booked order with an open cart, and no day passes.

The runs without symmetry are those with liveness properties and `session_retry`.
The refinements of `shop_safety` concern single states and steps and treat the
requests alike, so its symmetry is sound.
Deadlock is not checked: requests are finitely many, and when they have all
ended the system stops. `EveryRequestEnds` says what the deadlock check would.

**Fairness.** Weak fairness of the steps of requests that have begun, and only of
those: the event loop runs every callback whose statement has returned, and
PostgreSQL releases the waiters of a transaction that has ended. Nothing is
assumed about customers arriving, paying or coming back, nor about statements
succeeding. A wait in `Cart` is for a transaction that itself goes on, so weak
fairness is enough: once enabled after a wait, a step is disabled again only by
another request that ends as well.

## 4. What is proved

`OrderPaymentProofs` proves, for any number of checkouts, returns, carts and
failures:

- `TypeCorrect`: `Spec => []TypeOK`
- `CreditsAreCharged`: `Spec => []NoCreditWithoutCharge`
- `ClosedCartsAreBooked`: `Spec => []CartClosedOnlyWhenBooked`
- `AnswersAreTrue`: `Spec => []AnsweredMeansBooked`
- `StatusIsRight`: `Spec => []StatusMatchesPaid`
- `CreditsAreWhole`: `Spec => []CreditsAreWholePayments`
- `ImplementsBooking`: `Spec => BookingSpec`

from four assumptions on the constants: amounts and `MaxFailures` are natural
numbers, `NoOrder` is not an order, and the return requests are finitely many
(credits are counted).

**The argument.** The properties speak of rows; what keeps them true is where the
requests stand. `IInv` adds that:

- `CheckoutProgress` ties a checkout's position to its rows: no row before it is
  written, a cash order is confirmed by the time its cart is closed and closed by
  the time it is answered, and a payment URL exists only for a card or
  prepayment order that was placed;
- `GatewayHonest`: a result is shown only for a URL that was given out, and a
  success only if the gateway took the money;
- `ReturnProgress`: a return request carries a result that was shown; past the
  payment's update a success is being processed; at `closeCart` the order is
  booked and credited; at `redirected` the cart is closed as well.

`NoCreditWithoutCharge` is not inductive without the last two (a request in
flight could carry a success nobody was charged for), nor
`CartClosedOnlyWhenBooked` without all three. `Kept` states what no step undoes
(booked, closed, credited with at least one payment, charged, shown); it is
proved once for every action and used for the requests a step does not move.
`StatusIsRight` needs no more than `TypeOK`, since one statement writes both
columns from one number: a stale number gives a stale pair, never a torn one.
`CreditsAreWhole` adds `SeenIsWhole`: a total that a return request has read and
not yet written back is itself a whole number of payments, no more than the
requests that may have credited the order by now. Those requests only grow
(`CreditsStay`), so what was whole when it was read is whole when it is written,
and the request that writes one payment more is itself one more of them.
`ImplementsBooking` maps each action to a step of `Booking` or a stutter.

`SessionProofs` proves, for any number of requests, e-mails and seconds and any
lifetimes:

- `TypeCorrect`: `Spec => []TypeOK`
- `AccountsKeepTheirOwners`: `Spec => []AccountKeepsItsOwner`
- `GivenTokensWork`: `Spec => []GivenTokenWorks`
- `TokensAreExchangedOnce`: `Spec => []ExchangedOncePerIssue`

assuming that lifetimes and bounds are natural numbers, that the names for
"none" are not names of something and, for the last, which counts, that requests
are finitely many. Its `IInv` adds to `TypeOK`:

- `RequestProgress`: what a request has learnt at each statement; above all that
  a token it holds or was shown is one of its own user;
- `RowsAreAnswers`: a session is written with the answer of the request that
  creates it, so that `CreateSession` overwrites none;
- `TokensNameUsers`: a session's token is one of the session's user;
- `EndedByRequest`: behind an inactive session there is a logout, or a refresh
  that came too late, of its user;
- `AccountProgress`: the account is a registration's own as soon as its create
  has succeeded, even before its lookup has.

`GivenTokenWorks` needs all but the last: `UpdateSession` replaces the token of
whatever row holds the presented one. The row it takes away belonged to a
customer whose token was thereby presented; the token it hands out is worth
something unless that row had been ended meanwhile, and then `EndedByRequest`
names who did. The proof does not use the unique index on tokens: one row per
token is more than these properties need.

`TokensAreExchangedOnce` rests on a balance, for every token and not only those
given out: exchanges of it and sessions that hold it are together at most the
times it was issued. The property alone is not inductive, since it says nothing of
an exchange that may yet happen; the session that holds the token stands for it.
An issue puts the token into one row; an exchange takes it out of one, because
the update names the row by the token presented and not by the row that was found
(with `UpdateSessionById` the balance breaks: two refreshes in flight exchange
one issue). This part does use the unique index: only a row whose new token no
other row holds is written.

`CartProofs` proves, for any number of requests, owners, carts and items and any
prices:

- `TypeCorrect`: `Spec => []TypeOK`
- `OptionsFollowItems`: `Spec => []OptionsAgree`
- `TotalsAreSums`: `Spec => []TotalUnlessOverlapped`
- `OwnersChangeTheirItems`: `Spec => OwnItemsOnly`
- `KeysStayUnique`: `Spec => []KeysUnique`, no two items of a cart have the same
  service and slot

assuming that prices and `MaxFailures` are natural numbers, that requests, old
carts and old items have different names, that a table has finitely many rows (for
the type of totals only), that the carts at the start are owned
and their rows rows, that a cart has each key once at the start (for
`KeysStayUnique` only), and that `NoItem` is not a row. That an owner has one cart
at the start is assumed for TLC's instances and not used.
Its `IInv` has, besides the properties and the types of everything but totals
(`Shape`):

- `LocalsOK`: a request has its local variables and no others;
- `RequestOK`, in five parts: a request is at a statement of its own operation
  (`OnCourse`) and works on a cart of its owner (`HasCart`); the item it has found
  is in that cart or has gone, and comes back in no other (`FoundItem`); the rows
  it has written are its own new row or rows of its cart, and when it writes new
  options it has deleted all the old ones (`WrittenRows`); a sum that is not stale
  is the sum of the items as the request sees them (`SumIsSeen`);
- `LocksExclude`: no row is written by two open transactions;
- `ItemsAreKept`: an item is in a cart that exists, and the request that added it
  has committed.

Only a commit (`UpdateCart`) changes items, options and totals. It changes rows of
its own cart only (`WrittenRows`), so it leaves the carts, sums and found items of
the others alone (`OthersKeepOn`) and marks stale whoever has summed or listed the
same cart and not committed. Without
`LocksExclude` options would mix: a second update of a locked item could have
deleted the options of the row before last. Without `FoundItem`, `OwnItemsOnly`
fails: update and delete name the item by its id, two statements after it was
looked up in the cart. `IInv` never evaluates a sum: `SameSum` says that the sum of a
cart depends on its own rows only, and `NoItemsNoSum` that an empty one is zero,
which `clearCart` writes without summing. That totals are numbers
(`TotalsAreNumbers`, the other part of `TypeOK`) is shown on top of it: what a
request sums has rows, finitely many, with numbers for prices (`SumIsNumber`, from
`FoldTheorems`).

The unique index is not a constraint of the model: what it makes a statement wait
for (`KeyPending`) and refuse (`Duplicates`) is. `KeysStayUnique` says that this
amounts to an index. It rests on `KInv`: a key that an open transaction has written
is neither committed by another item of its cart nor written by another open
transaction.

`OrderIntakeProofs` proves, for any number of orders, items, carts, catalogues and
days:

- `TypeCorrect`: `Spec => []TypeOK`
- `OrdersAreTheirCarts`: `Spec => []OrderIsItsCart`
- `RefusalsHaveAReason`: `Spec => []RefusedOnlyWithoutPrice`
- `PricesAreInForce`: `Spec => []PriceIsInForce`
- `NoServiceIsLost`: `Spec => []TotalIsSumOfServices`
- `CartsAgreeWithOrders`: `Spec => []CartAgreesWithOrder`
- `ChargesAreOfTheirDay`: what is recorded for an item is, to the end of the
  request, the fold of its own participants over the prices of its own service on
  the day these were fetched

from four assumptions. `BoundsAssumption`: the bounds are natural numbers.
`RowsAssumption`: at the start the table holds rows, each as the request that added
it wrote it, and `NoItem` is not a row. `CataloguesAssumption`: what is not
`NoDocument` is a document whose lists have a price, a natural number, for each
category they name, as `getExcursionPrices` maps them (`sanity.service.ts:36-39`);
lists may be empty, name a category twice or name others than the base prices.
`OptionsAssumption`: an item's participants are a sequence of rows with a number of
people (`@Min(0)` in `ItemOptionDto`, `Int` in the schema), which may be zero. `OrdersAreTheirCarts`
needs `RowsAssumption` only. `IInv` has three parts:

- `TableOK`: an item's option rows are those of the request that wrote the item
  last. The table alone is never torn; only a reader of two tables can be;
- `LocalsOK`: a request has its local variables and no others;
- `ReadOK`: by position, what a request knows of its cart. A change after the
  first read is noted as "reading" at the earliest and as "later" after the
  second; as long as none is noted the rows it read are those it would read now,
  and unless one came between the two reads the options it read are the rows'
  own; it answers for what it read, and when the order is created for all of it.

`OrderIsItsCart` is `ReadOK` at `created`; the other positions carry it there. The
lemma behind the steps of cart requests is `UntouchedRows`: a change that touches
no item of a cart leaves what its order would read as it was. A request's answers
may come in in any order, since the invariant only counts for which items they
have.

What an order charges rests on `PInv`, beside `IInv`: rows that were read are rows,
a refused request is `Unpriced`, and each item that was answered for is `Charged`:
its totals are those of the day recorded with it, its participants are of one
writer, and none of them lacked a price. The step that matters is the answer that
refuses. `findPrice` picks the least index that names the category, so a category
that is named is found (`NamedIsFound`); the current prices name the same
categories as the base prices and fall back to them (`CurrentPrices`), whatever
the loops over promotions and corrections returned. So a price is missing only
where the base prices have none (`MissingPrice`).

*Loops.* `PriceIsInForce`, `TotalIsSumOfServices` and `CartAgreesWithOrder` are
about what loops compute, and induction cannot be cited here (see section 5).
`FoldTheorems` does without: a smallest set for which a fold went wrong would have
a smaller one for which it did (`SmallestSet`, from the well-foundedness of `<` on
the natural numbers, and `SetInduction`). From this it follows that the function a
fold is chosen to be exists, that a sum over a set does not depend on the order of
its elements (`AnyOrder`), that it grows by what an element adds (`SumGrows`), and
that two sums of the same values are the same (`SumsAgree`). `PricingProofs` gives
the same account of the code's own loops. `FirstIsOffered` says that the loop over
promotions, or corrections, ends with the first that is in force on both days, is
of the weekday *and* names the category, which the early exits are there for;
`TotalsAddUp` and `ServiceTotalsAddUp` say that accumulated totals are sums.

*Prices in force.* `CurrentIsQuoted` compares the nested loops, promotions and then
corrections and then the base price, with `Quoted`, a search for the first list in
their concatenation. With `ChargedAddsUp` that is `PricesAreInForce`.

*Totals.* `TInv` says that the services answered for are finitely many and the
shared accumulator is the sum of their totals. An answer comes for an item that has
none yet, and adds its own (`ServicesComeOneByOne`), so the sum grows by just that
(`SumGrows`): in whatever order, none twice and none lost.

*Types.* `KInv` has the types of what is not covered above, and that options have
been read for the rows that were read, and by writers that are noted.

`ShopProofs` proves, for any number of requests, carts, orders and returns:

- `CartIsImplemented`: `Spec => CartSpec`
- `IntakeIsImplemented`: `Spec => IntakeSpec`
- `PaymentIsImplemented`: `Spec => PaymentSpec`
- `ClosedCartsAreOrdered`: `Spec => []ClosedCartIsOrdered`
- `ChargesAreForCarts`: `Spec => []CartIsWhatIsCharged`
- `PromisesHold`: what is proved of the parts by themselves (`OwnItemsOnly`,
  `OptionsAgree`, `TotalUnlessOverlapped`, `OrderIsItsCart`,
  `RefusedOnlyWithoutPrice`, `PriceIsInForce`, `TotalIsSumOfServices`, `Booking`,
  `NoCreditWithoutCharge`, `AnsweredMeansBooked`, `CreditsAreWholePayments`,
  `StatusMatchesPaid`) holds of the shop

from the assumptions of the three components, which `Shop` repeats for its own
constants (`CartAssumptions`, `PaymentAssumptions`, `IntakeAssumptions`); that the
rows an order may find at the start are rows follows from the cart's. The
components' environment actions are thus discharged: what is proved of `Cart`,
`OrderIntake` and `OrderPayment` by themselves holds where they share tables.

`ShopInv` is the inductive invariants of the three components, taken over with
their proofs (`CP`, `IP` and `PP` are `CartProofs`, `OrderIntakeProofs` and
`OrderPaymentProofs` with the shop's constants and variables; the lemmas called
`Same...` say that their definitions are those of `Shop`'s `C`, `I` and `P`), and
`Link`, which says how their tables agree:

- `PlacedInCarts`: an order past its first statement is for a cart that exists;
- `OrdersAreCreated`: there is an order row only once its totals are complete;
- `AmountsAreTotals`: an order is for the total that its intake accumulated, which
  does not change any more;
- `ClosedCartsExist`: a cart that was closed has been created before;
- `WritersAreNoted`: whoever wrote an item is noted, and its transaction is over.

`StepKeepsShopInv` shows at once that a step keeps `Link` and that it is a step or
a stutter of each part, since neither can be had without the other. That a
payment may close a cart needs all of it: behind the closed cart is a booked order
(`CartClosedOnlyWhenBooked`), which was created, for a cart that exists. Of a cart
request only the creation of a cart and the commit show (`OnlyCommitsShow`). A
commit is a `PutItem` or a `RemoveItems` (`CommitsShow`): `KInv` gives the free
key, `WrittenRows` that the old options go with the old row, `WritersAreNoted` that
the request has written nothing before, and an item that is added has the name of
the request that adds it. `ClosedCartIsOrdered` then follows from `ReadOK` at
`created` and `OptionsAgree` (`OrderedItems`).

`CartIsWhatIsCharged` goes from the cart to the order's total, whatever the payment
method, and on to the gateway for customers who pay in full. Of a prepayment it says
no more than the order's total: what the gateway should take for it is finding 2.
It needs the results of all parts: that the gateway decides only what was placed
(`GatewayHonest`), that an order's amount is its intake's total
(`AmountsAreTotals`), that this is the sum of its services' totals (`TInv`, taken
over from `OrderIntakeProofs` by the refinement), that each of these is what the
participants read cost on its day (`ChargesAreOfTheirDay`), and that what was read
is what is in the cart (`OrderedItems`).

## 5. What is only model-checked, and what is not modelled

- **TLC only**: the liveness properties `SuccessfulResultIsBooked`,
  `CashOrderIsBooked` and `EveryRequestEnds` (the prover does not do fairness or
  ENABLED). Every other property of a passing run is proved. The library's
  induction theorems take an operator as a parameter and cannot be cited; where
  induction over data is needed, `FoldTheorems` argues by a smallest
  counterexample instead.
- **Not modelled**: the gateway's signature. What the code signs and verifies is
  a string over `GP_WEB_PAY_FIELD_ORDER`, and whether it is the string the
  gateway signs is not in the repository. Telegram and notification (never
  called), validation, filters, wiring, the guest cookie, the seed script, and
  tables no code uses.

## 6. Findings

1. `payment.service.ts:131`: a successful result is credited every time it is
   delivered. Reloading the return page takes a prepaid order to CONFIRMED.
2. `payment.service.ts:54`: the gateway is asked for the whole total when the
   payment's recorded amount is a fifth of it.
3. `payment.service.ts:100`: a later result overwrites the status and code of a
   payment that succeeded; the customer reads that the payment failed.
4. `cart.service.ts:109`: overlapping changes of a cart leave a total that is not
   the sum of its items, until the next change that runs alone.
5. `auth.service.ts:115`: of two refreshes with one token the second is asked to
   try again, but its session now has another token, and no attempt
   with the old one can succeed.

What holds in spite of them: an order is never booked, nor anything credited,
without a charge; every credit is a whole payment; the status agrees with the
sum credited; carts are closed only with a booked order, and for what it lists; options never
mix in the cart; an order's totals are those of its services at the prices in
force, and the order is its cart unless that changed under its hands;
an account stays with the registration that was answered, a token works until it
is presented, and is exchanged once for each time it was issued.

Two things an order may do that the models show and no document forbids: list an
item with the participants of its next version, when the item is updated between
the two reads (`changed[k] = "reading"`), and be written for an empty cart.

## 7. Plan

Every safety property, action property and refinement that a passing run checks is
proved. What is left: in `Shop`, what a cart's own total has to do with the order's,
where the prices the browser sent are those in force (`CartAgreesWithOrder` is
about one item).
