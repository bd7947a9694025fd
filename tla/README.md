# BracuMall: a formal model of the backend

This directory holds TLA+ specifications of the BracuMall backend (a NestJS
service over Prisma and MongoDB), TLC configurations that check them on small
instances, and TLAPS proofs for every size. The model is translated from
`src/src/**` and `src/prisma/schema.prisma`; each definition's lines are in
`PROJECT.json` under `map`.

BracuMall is a marketplace of a campus: sellers open stores and list products,
buyers order them, pay *outside* the system and submit a proof of payment that a
seller or an admin reviews. So the state that matters is a handful of counters
and status columns which many HTTP requests read, check and write: stock, sales
figures, order and pre-order statuses, payment statuses, coupon redemptions.

- [The system](#the-system)
- [How the code executes, and what a step is](#how-the-code-executes-and-what-a-step-is)
- [The modules](#the-modules)
- [The runs](#the-runs)
- [What the runs found](#what-the-runs-found)
- [The proofs](#the-proofs)
- [What is not modelled](#what-is-not-modelled)
- [Plan](#plan)

## The system

Every component is a Nest service with its controller. All state is in MongoDB;
apart from the presence counters of the websocket gateway and the buckets of the
rate limiter nothing lives in memory. Services call each other directly; they
interact through shared rows and through `NotificationsService.create`.

| component | state | operations that change it | talks to | what makes it correct |
|---|---|---|---|---|
| orders | `Order` (status, paymentStatus, inventoryRestored), `OrderStatusHistory` | `create`, `updateStatus`, `cancelByBuyer` | `Product` (stock, totalSold), notifications | units are taken once, returned once and counted as sold once; statuses follow `ORDER_TRANSITIONS`; the history and the notifications tell what happened |
| payment submissions | `PaymentSubmission` | `create`, `verify`, for an order, a pre-order or a donation | writes the row it pays for | one open proof per order; a verdict is given once; proof and order agree; nothing is stuck under review; a transaction id pays once |
| cart | `Cart`, `CartItem` | `addItem`, `updateItem`, `removeItem`, `clear`, `checkout` | products, coupons, orders | one line per product; checkout orders exactly what it deletes, from all sellers or from none |
| coupons | `Coupon` | `create`, `update`, `remove`; redeemed by checkout | cart | redeemed once per checkout, never beyond its limit |
| pre-orders | `PreOrder` | `create`, `updateStatus`, `cancelByBuyer` | `Product.totalSold`, payment submissions, notifications | reservations stay within the limit; every fulfilment is counted once; deposit and reservation agree; nothing reopens |
| notifications | `Notification` | `create`, `markRead`, `markAllRead` | events (push) | nobody is told what did not happen; who waits is told |
| products | `Product` | `create`, `update`, `remove`, `setActiveByAdmin` | stores, menus, categories | a product's mode, stock, menu and pre-order columns fit together |
| auth, users | `User` (code hash, expiry, attempts, lock, sessionVersion) | `register`, `login`, `verifyEmail`, `resendEmailOtp`, `forgotPassword`, `resetPassword`, `refreshToken`, `changePassword` | mail | codes expire, are counted and used once; a reset ends older sessions |
| seller applications | `SellerApplication` | `apply`, `resubmit`, `review`, `requestInfo` | stores, users | one unresolved application per user; an approval gives role, access role and store together; a verdict stands |
| stores | `Store` | `createForOwner`, `createAdminStore`, `updateCategoryAdmin`, `setAdminManaged`, profile updates | products, categories | category and mode are copied from a category that exists; the copies in products are repaired |
| access control, admin | `AccessRole`, `User.accessRoleId`, `role`, `isSuspended` | role CRUD, `ensureSystemRoles`, `assignAccessRole`, `createUser`, `setSuspended` | guards | every account has an access role that exists and is of its kind |
| categories, menus | `Category`, `Menu` | CRUD, deletion of what is in use | products, stores | no product refers to a menu or category that is gone |
| reviews | `Review` with its marks, `ratingAvg` and `ratingCount` of `Product` and `Store` | `create`, `toggleHelpful`, `reply` | orders, notifications | the figures are of exactly the reviews, the helpful count is the number of marks |
| messaging | `Conversation`, `Message` | `getOrCreate`, `getOrCreateWithAdmin`, `sendMessage`, `markRead` | notifications | two users have one conversation in a context; who is written to is told |
| events | sockets in memory | connect, disconnect; push of what the others write | users | presence agrees with the sockets |
| complaints | `Complaint` | `create`, `updateStatus`, `respond` | orders, products, stores, users (read), notifications | accused and admins hear of a complaint, the parties hear its status last of all |
| donations | `Donation` | `create` | payment submissions, platform payment methods | one proof under review at a time; donation and proof have the same verdict |
| feedback | `Feedback`, its attachment | `create` (public), `update`, `markRead` | uploads, mail, notifications | the attachment exists; the admins are told; who left an address is thanked, and marked as thanked only when that is so |
| uploads | `PrivateUpload`, files in the storage | `uploadImage`, `uploadDocument`, `readPrivate` | access control | a row names a file that exists; who has to decide on a file may open it |
| platform settings | `PlatformSettings` | first-use insert | pre-orders | there is one settings row |
| platform payment methods | `PlatformPaymentMethod` | CRUD | donations (read) | a proof names a method that was active when it was read |
| seller payment methods, wishlist, store favorites, delivery locations, hero slides | one table each | single-row writes | nothing that the others read | no state beyond one row |
| analytics, config, seeds | none | reads | | |

`PROJECT.json` lists every component with its files and its status, and the
hazards of the code at their lines.

### What is hard about it

1. **Read, then write.** A service method reads rows, checks them in TypeScript
   and writes later, usually without a condition that the rows are still what
   was checked (`updateStatus`, `verify`, every pre-order write, `addItem`).
   Node interleaves handlers at each `await`, and the service can run in several
   processes.
2. **Transactions that start late.** `$transaction` is used for placing an
   order, for a move of an order, for checkout and for claiming an order with a
   proof. What the transaction does *not* read again is as old as the first read.
   Some conditions are repeated inside (`updateMany` with `stock: { gte }`, the
   claim of a proof, the coupon limit); others are not (`inventoryRestored`, the
   old status).
3. **Sequences that are no transaction.** `verify` writes order, history and
   proof one after the other; a pre-order's status is written before its sales
   figure. A failure in between leaves the first half.
4. **Checks without an index.** "One pending proof", "a transaction id is used
   once", "one line per product", "one unresolved application" are `findFirst`
   followed by `create`; the schema has no unique index for them.
5. **Copies.** A store copies the mode of its category; a product copies the
   category and the management of its store; ratings are figures of rows
   elsewhere. Every change of an original has to find and repair its copies, and
   a copy made from an old read comes too late for that.
6. **Notifications after the fact.** They are separate writes after the commit.
7. **Handlers nobody waits for.** The websocket gateway's connect handler awaits
   the database; the disconnect handler does not wait for it.
8. **Several effects in a row, some of which may fail.** Feedback stores a file,
   inserts a row, tells the admins, sends a mail and marks the row; of these the
   third and the fourth are caught and the others are not. Files are stored before
   the rows that name them and no transaction spans the two.
9. **Permissions that belong together, asked in different places.** Who reviews a
   payment is asked in one controller and who may open its picture in another; that
   the first is never without the second is the work of one function
   (`normalizePermissions`) in a third.

## How the code executes, and what a step is

A request is a small process, a record in the variable `req` (`desk` for payment
requests, `till` for cart requests) whose field `at` says what it does next and
whose other fields are what it remembers of the rows it has read.

- **One step per database call or group of calls that nothing can tell apart.**
  A read with the checks on it is one step; each `$transaction` is one step; each
  write outside a transaction is one step; each notification is one step.
  Between two steps of one request any step of any other may happen.
- **Why a `$transaction` is one step** (except in `Reviews`). MongoDB runs it on a snapshot and aborts
  it on a write conflict, and Prisma's error then ends the request. Every
  transaction modelled here writes the rows its conditions are about (the
  products it decrements, the order it claims, the coupon it counts), so two that
  overlap on them conflict and one aborts; one that commits behaves as if it ran
  alone. `updateStatus` writes the order row without reading it: that is why its
  step uses the *remembered* row. The transactions of `reviews` are different:
  they aggregate over many rows and write the sums elsewhere, which is safe only
  *because* of the conflict on the row written. So `Reviews` does not assume it:
  there a transaction is two steps, a snapshot and a commit, and the abort on a
  write conflict is modelled.
- **Refusals.** The code's checks that only refuse and read data no property
  distinguishes (opening hours, menus, amounts, dates, prices) are covered by
  letting a request end at any step before it writes: `Fail`, `GiveUp`, `Leave`.
  Checks that matter are guards.
- **Time** shows only in `Account`, as an age: a code is less than a minute old
  (`fresh`), less than ten (`live`) or `expired`; a lock is `held` or `past`. `Age`
  and `Unlock` let it pass, at any moment.
- **Requests in `Support`** are counted (`MaxRequests`) because its rows of
  notifications, messages and files only ever grow.
- **Deaths.** `Fail` (Orders) and `Leave` (Checkout) let a request end anywhere:
  each has one commit, and what it committed stays. In `verify` and the
  pre-order requests, which write several times, dying *between* writes is an
  action of its own, `Die`, counted and bounded by `MaxFailures` / `MaxDeaths`
  so that runs can also say what holds when nothing dies.
- **Data.** Accounts, products, orders, proofs, transaction keys are model
  values. An order's items are a function from products to units; several lines
  of one product in `dto.items` are kept as the total and the largest line,
  because the read checks each line alone and the transaction decrements line by
  line. Prices, discounts, addresses and texts are left out. In
  `Checkout` a store is named by its seller, because the code groups a cart by
  seller and takes the store of a group's first line (an admin may manage several
  stores; they count as one there); a cart is named by its user.

### Requests one at a time

Each module has a free specification (`Spec`, `PaySpec`, `ShopSpec`) and a
*serial* one (`SerialSpec`, `PaySerialSpec`, `ShopSerialSpec`). The serial ones
add that requests on **one** order (one pre-order, the reservations of one
product, one cart) are served one at a time; requests on different ones still
overlap and compete for stock, sales figures and coupons. The updates of a product and the
first insert of the settings are served one at a time as well. In `Catalogue`,
`Sellers`, `Account` and `Support`, whose requests rely on single columns of rows, it is stated by `Fresh`: every
step leaves true what the requests in progress have read and rely on; a step that
would falsify it does not happen until that request is done. **Nothing in the code
enforces this.** It is the assumption its checks make, and the difference
between the two is the point: what holds of the free specification survives any
overlap; what holds only of the serial one is what two overlapping requests can
break. The tables below say which is which.

## The modules

| module | of | what it is |
|---|---|---|
| `OrderBook` | `orders.service.ts` | abstract: place, advance, deliver, cancel in one step each, no requests |
| `Orders` | `orders.service.ts` | the requests of orders, in steps |
| `OrderPayments` | `payment-submissions.service.ts`, orders | EXTENDS `Orders`: proofs for orders, over the same rows |
| `Checkout` | `cart.service.ts`, `coupons.service.ts` | EXTENDS `Orders`: carts, coupons, checkout, over the same stock |
| `PreOrders` | `pre-orders.service.ts`, payment submissions, `products.service.ts`, `platform-settings.service.ts` | offers, reservations and their deposits |
| `Catalogue` | `categories`, `stores`, `products`, `menus` services | the columns that are copied between them, and the references |
| `Sellers` | `seller-applications`, `access-control`, `admin` services, `register` | how an account gets role, access role and store |
| `Reviews` | `reviews.service.ts` | reviews, rating figures, marks; transactions as snapshot and commit |
| `Presence` | `events.gateway.ts` | sockets that come and go |
| `Account` | `auth.service.ts`, `jwt.strategy.ts`, `users.service.ts`, `admin.service.ts` | one account: codes, lockout, passwords and sessions |
| `Inbox` | `notifications.service.ts` | the rows of notifications, and the requests that write them one by one |
| `Messaging`, `Complaints`, `Uploads` | their services and controllers | EXTEND `Inbox` |
| `Feedback`, `Donations` | `feedback`, `donations`, the donation branches of payment submissions | EXTEND `Uploads`: attachments, and the permission to review |
| `Support` | | the five together: one process, one table of notifications |
| `MC*` | | instances for TLC |
| `ShopProofs` (in three parts: of `Orders`, of `Checkout`, of `OrderPayments`), `PreOrdersProofs`, `CatalogueProofs`, `SellersProofs`, `ReviewsProofs`, `AccountProofs`, `SupportProofs` | | theorems |
| `Sums` | | lemmas on sums over finite sets of rows, used by `ShopProofs` and `PreOrdersProofs` |

### Orders

| variable | in the schema |
|---|---|
| `stock`, `totalSold`, `active` | `Product.stock`, `.totalSold`, `.isActive` |
| `status`, `payment`, `restored` | `Order.status`, `.paymentStatus`, `.inventoryRestored` |
| `terms` | the columns of `Order` (and its items) written once: buyer, seller, items |
| `history` | the statuses with an `OrderStatusHistory` row |
| `inbox` | `Notification` rows about orders |
| `req` | requests in progress |

| action | code |
|---|---|
| `CreateRead`, `CreateCommit` | `create`: reads and checks; the transaction that decrements, inserts, logs |
| `UpdateStatusRead`, `UpdateStatusCommit` | `updateStatus`: reads and checks; the transaction |
| `CancelByBuyerRead`, `CancelByBuyerRecheck` | `cancelByBuyer`: its own read and checks, then `updateStatus(..., isAdmin = true)`, which reads again; the commit is the same |
| `Notify` | `notifications.create`, one row per step, in the code's order |
| `Fail` | an exception, an abort or the end of the process |
| `SetActive` | `ProductsService.remove` and `setActiveByAdmin` (products are hidden, not deleted) |

`UpdateStatusCommit` keeps the code's staleness: whether units return
(`Returns`), whether they count (`Sells`) and the flag written back
(`RestoredAfter`) come from the row as it was read.

### OrderBook, the abstract specification

`OrderBook` is what a reader of `orders.service.ts` believes it does: a shelf, a
sales ledger and a state per order; `Place` takes all units or does not happen,
`Advance` moves along `Moves`, `Deliver` counts, `Cancel` returns. `Orders`
implements it with `shelf <- stock, sold <- totalSold, state <- status`, the
items of existing orders as `units` and `ORDER_TRANSITIONS` as `Moves` — under
`SerialSpec`. The requests, the history and the notifications are invisible; the
commits are the book's steps. `OrderPayments` implements it too (`verify` may
take pending to confirmed, a move of the book).

### OrderPayments

Adds `proof` (`PaymentSubmission`), `slips` (notifications about proofs), `desk`
and `failures`.

| action | code |
|---|---|
| `SubmitRead`, `SubmitCheckKey`, `SubmitCheckOpen`, `SubmitCommit` | `create`: the order; `findFirst` on the transaction key; `findFirst` on a pending proof; the transaction with the conditional claim |
| `VerifyRead`, `VerifyReadOrder` | `verify`: the proof; the order, with the status a verified payment will give it |
| `VerifyAccept`, `VerifyLog` / `VerifyReject` | the order, then the history / the order |
| `VerifyClose` | the proof, written last and unconditionally |
| `Tell`, `GiveUp`, `Die` | the notification; an end before any write; an end between writes |

### Checkout

Adds `line` (`CartItem`), `coupon`, `code` (`Order.couponCode`) and `till`.

| action | code |
|---|---|
| `AddRead`, `AddWrite` | `addItem` |
| `ChangeRead`, `ChangeWrite` | `updateItem` |
| `RemoveItem`, `Clear` | `removeItem`, `clear`: their checks cannot become stale, so one step |
| `CreateCoupon`, `UpdateCoupon`, `RemoveCoupon` | coupons; an update may lower the limit below what was redeemed, or take it away |
| `CheckoutRead`, `CheckoutGoods`, `FindCoupon`, `CheckoutCommit` | `checkout`: the lines; their products, as they are by then; `findRedeemable`; the transaction: decrements, redemption, one order per seller, deletion of every line the cart has *by then* |
| `TellSeller`, `Leave` | the notifications; an early end |

`CheckoutRead` refuses a cart with two lines of one product because the code
compares the number of products it found with the number of lines. That a redemption
respects the limit in force is the condition of the one write that counts it
(`Redeem`), so no property repeats it; what is checked is what is counted.

### PreOrders

Its own rows (`status`, `deal`, `totalSold`, `proof`, `inbox`), its own requests.
Except `SubmitCommit` every write is a step on its own: `CreateInsert`, `Write`,
`Count`, `VerifySettle`, `VerifyClose`.

| action | code |
|---|---|
| `UpdateOfferRead`, `UpdateOfferWrite` | `ProductsService.update`, for the pre-order columns: what is sent is laid over the row that was read (`Merged`), normalized (`Normalized`), and all columns but `isPreOrder` are written back, sent or not |
| `CreateRead`, `FindPercent`, `SeedPercent`, `CheckLimit`, `CreateInsert` | `create`: the product is read once; the deposit of a reservation paid later may need the settings row, which `getSettings` inserts when it finds none; the limit that was read is compared with a sum read before the insert |
| `SettingsRead`, `SettingsInsert` | `getSettings` asked for by itself |
| `UpdateStatusRead`, `CancelByBuyerRead`, `Write`, `Count` | `updateStatus`, `cancelByBuyer` |
| `SubmitRead`, `SubmitCheckOpen`, `SubmitCommit`, `VerifyRead`, `VerifyReadPreOrder`, `VerifySettle`, `VerifyClose` | the deposit: `create` and `verify` of payment submissions |

`ReservedAsOffered` compares a reservation, at its insert, with the product as it
is *then*. A limit lowered later may be below what is reserved already; the code
leaves those reservations alone, so no state invariant says otherwise. An update
of a price or a name also writes back the pre-order columns it has read, which
undoes an overlapping change of them. Two first uses of the settings at once
insert two rows of what `schema.prisma:277` calls a singleton; `findFirst` then
returns one of them to everybody, and the serial specification excludes it.

### Catalogue

`category` is the mode of each category that exists; `store` and `product` are
rows with the copied columns; `menu` is the store of each menu.

| action | code |
|---|---|
| `CreateCategory`, `UpdateCategoryRead`/`Commit`, `RemoveCategoryRead`/`Delete` | `CategoriesService`; `Commit` is the transaction that gives the stores the mode and hides the products it no longer allows |
| `OpenRead`, `OpenCommit` | `createAdminStore`, and `createForOwner` by its callers |
| `MoveRead`, `UpdateAdminStore`, `MoveCommit` | `updateCategoryAdmin`, by itself or for `updateAdminStore`: hides misfits, moves the products |
| `SetAdminManaged` | `setAdminManaged` with the flag of the products |
| `CreateRead`, `CreateInsert`, `UpdateRead`, `UpdateWrite` | `createForStore`, `updateForStore`: the checks on the store and the menu as read; the row built from them |
| `SetActive` | `remove`, `removeForAdmin`, `setActiveByAdmin` |
| `CreateMenuRead`/`Insert`, `RemoveMenuDetach`/`Delete` | `MenusService` |
| `Fail` | the request ends |

An update that leaves the pre-order flag out does not write it
(`setsPreOrder`), so the row keeps what it has by then. `setAdminManaged(false)`
leaves pre-order products on a store that may have none: the code repairs the
flag but not the products, so no such property is stated. An admin may also switch
a misfit back on by hand; `MisfitsHidden` names that exception.

### Sellers

`role`, `access`, `custom` (custom access roles and the kind they are for),
`application`, `store` (the category a user's store was opened in) and `inbox`.

| action | code |
|---|---|
| `Register`, `CreateUserRead`/`Commit` | `AuthService.register`, `AdminService.createUser` |
| `CreateRole`, `AssignRead`/`Write`, `RemoveRoleRead`/`Delete` | `AccessControlService`, `assignAccessRole`; the deletion nulls the references |
| `ApplyRead`/`Insert`, `RequestInfoRead`/`Write`, `ResubmitRead`/`Write` | `SellerApplicationsService`: unconditional writes after a check |
| `ReviewRead`, `ReviewCommit` | `review`: the transaction, conditional on the status as read, with `Grant` |
| `TellStep`, `Fail`, `Restart` | the notification; the request ends; the process starts again: `ensureSystemRoles` fills the gaps, and without an admin the one of the configuration is inserted (`Founded`) |

### Reviews

A review has its order, product, marks (`helpful`) and `helpfulCount`.
`ofProduct` and `ofStore` say *of which reviews* the figures of a product and a
store are the average and count: that is all a property can tell apart.

| action | code |
|---|---|
| `CreateOpen` | `create`: the checks (the order delivered, the product in it and of the store the order was placed in, not yet reviewed), and the snapshot of the transaction |
| `CreateCommit` | insert under the unique index, both aggregates, written |
| `ToggleOpen`, `ToggleCommit` | `toggleHelpful`: the read row; push a mark, or write the read list without it |
| `Reply`, `TellSeller`, `Fail` | `reply`; the notification; a refusal or an abort |

`stale` is the database's memory of a write conflict: `Commit` marks every open
transaction that writes one of the rows just written, and such a transaction
cannot commit.

### Presence

`conn` and `room` are socket.io's, `presence` is the gateway's map, `awaiting` the
connect handlers in their `await`. A guest's handler has nothing to await, so
`ConnectGuest` is one step; `ConnectUser` and `LookupAnswers` are two, and
`Disconnect` may come between them.

### Account

`user` is the row. A code and an attempt at it are told apart only by whether they
match; a password is the number of times it was set again, so "made with an older
one" is an order. `issued`, `mailed`, `missed`, `redeemed`, `strikes` and
`lastReset` are what has happened, for the properties; no guard but the freshness of
a new code and the owner's knowledge of a mailed one reads them. `sessions` holds
every session ever given, with the version its tokens carry.

| action | code |
|---|---|
| `Register`, `CreateUser` | the account, with its first code or already verified |
| `ResendRead`, `ForgotRead`, `IssueWrite` | `resendEmailOtp`, `forgotPassword`: the cooldown by the row as read; the new code over whatever is stored |
| `Post`, `PostFails` | the mail; a reset code that cannot be sent is taken back, without a look at which one is stored |
| `GuessRead`, `GuessMissed` | `verifyEmail`, `resetPassword`: expiry and attempts as read, the comparison; the counter |
| `VerifyAgain`, `VerifyWrite`, `ResetWrite` | an address verified before; the code consumed, with all that goes with it |
| `LoginRight`, `LoginClear`, `LoginWrong`, `LoginStrike` | `login`: the lock as read; the counter cleared, or written from the value read |
| `Enter`, `Refresh`, `Accepted` | `generateTokens`, `refreshToken`, `JwtStrategy.validate` |
| `ChangeRead`, `ChangeWrite` | `changePassword`, which ends no session |
| `SetSuspended`, `AssignAccessRole` | the admin; a new access role ends sessions by raising the version |
| `Age`, `Unlock`, `Fail` | time; an error or the end of the process |

### Support, and the modules it composes

Each of the modules below has its rows and its actions and leaves the rows of the
others alone; what they share is the request table `req`, the notifications
(`notices`, `seen`) and `cut`, what a request that failed has left untold. `Support`
conjoins their initial states, disjoins their actions and adds `GiveUp`, the
refusal or the death of a request that has not written yet.

| module | variable | in the schema |
|---|---|---|
| `Inbox` | `notices`, `seen` | `Notification`, with `isRead` |
| `Messaging` | `conversation`, `message` | `Conversation` (`userAId`, `userBId`, the context), `Message` |
| `Complaints` | `complaint`; `word` | `Complaint`; the status in the newest notification about it, for the property |
| `Uploads` | `files`; `upload`; `grants` | the private storage; `PrivateUpload`; `AccessRole.permissions` of an admin's role |
| `Feedback` | `feedback`; `mailed` | `Feedback`; the mail sent (outside the database) |
| `Donations` | `method`, `donation`, `proof` | `PlatformPaymentMethod.isActive`, `Donation`, `PaymentSubmission` with a `donationId` |

| action | code |
|---|---|
| `Tell`, `TellDies` | `create` and `createForMany` of notifications, one row per step; the request dies in between |
| `MarkRead`, `MarkAllRead` | of notifications, by their owner |
| `ConverseRead`, `ConverseInsert` | `getOrCreate`: the two ids are sorted (`Chat`); `findFirst`, then an insert that the unique index on the three columns may refuse |
| `Send`, `ReadMessages` | `sendMessage`; `markRead` |
| `File`, `UpdateStatus`, `RespondRead`, `RespondWrite` | `create` (first the accused is told, then the admins), `updateStatus`, `respond`; no write has a condition |
| `Inform`, `InformDies` | the two parties are told the new status |
| `Save`, `UploadInsert` | `savePrivate`, then the row |
| `SetGrants` | `createRole`, `updateRole`, `assignAccessRole`, as far as an admin's permissions go, with `normalizePermissions` |
| `AdminCanRead`, `MayJudge` | `adminCanRead` of `readPrivate` (its other two ways in, for the uploader and for a seller, serve no admin); the routes that decide on payments and applications |
| `Attach`, `FeedbackInsert` | the controller stores the attachment; the service inserts the row |
| `Report`, `ReportFails`, `ReportDies` | the admins are told, or the error is caught and the request goes on, or the process ends |
| `Thank`, `ThankFails`; `MarkThanked`, `MarkDies` | the mail, or it fails; the row is marked, or the process ends before |
| `Triage`, `MarkFeedbackRead` | `update`, `markRead` of an admin |
| `Donate`, `SetMethod` | `create`; `update` and `remove` of a payment method |
| `SubmitRead`, `SubmitCheckKey`, `SubmitCheckOpen`, `SubmitInsert` | `create` of payment submissions, for a donation |
| `VerifyRead`, `VerifyDonation`, `VerifyProof`, `VerifyDies` | `verify`, for a donation: two writes in no transaction |

A proof of an order claims the order in the transaction that inserts it; a proof of
a donation claims nothing, so one is accepted for a donation already verified, and
its rejection then turns the donation to rejected. The code says nothing against it,
so `DonationDecided` asks only for the verdict of *one* of the proofs.

## The runs

All bounds are constants of the cfg: sets of ids bound how many rows are ever
created, `Requests` / `Clerks` / `Tills` how many requests are in progress at
once, `Max...` how many die. Two requests are enough for every two-party race; a
third would only repeat one of two roles. Two units of stock make two orders
compete. Symmetry is used over ids of one kind only, never in the liveness run.

| run | instance | what it shows |
|---|---|---|
| `orders_overlap` | `HealthySpec`, not serial: one order, two requests that overlap as they like, baskets of several lines that fit or not only together | no unit is lost, sales are never missed, nobody is told of what did not happen, and every status an order takes is announced to the one who waits for it |
| `orders_double_restore` | free, one order, two requests | **violated**: units invented by two cancellations |
| `payments_serial` | serial, one order, two order requests, two payment requests, two proofs, two keys, one death, every goal | no order is stuck under review (proved of every overlap below), one pending proof, verified iff paid, no cancelled order under review, the order book is implemented although `verify` writes orders too and may die half-way |
| `payments_key_race` | serial per order, two orders, one key | **violated**: one transaction id pays twice |
| `checkout_serial` | serial per cart; three people, two sellers who also buy, two orders, two lines, one coupon, of one use or of any number, which changes | one line per product, the cart is ordered exactly, redemptions are orders, no unit is lost |
| `catalogue_serial` | serial; two categories, two stores, one product, one menu, two requests | copies follow their originals, references resolve, no change puts a misfit on sale |
| `sellers_serial` | serial; two users, one custom role, two applications, one category, two requests, restarts | sellers and stores go together, one unresolved application, access roles exist and fit, verdicts stand |
| `reviews_overlap` | free; three users, three orders, each in one of two stores, over three products, two reviews, two requests | figures and counts are exact, nobody's mark is lost |
| `presence_live` | two sockets, two visitors, one account | **violated**: a socket that is gone counted as online |
| `preorders_serial` | serial; two reservations of two units, one product, paid in advance within a limit of three or later without limit or closed, two proofs, one death | reservations are what the product offers, within its limit, the sales figure is exact, deposit and reservation, nothing reopens |
| `account_serial` | serial; two requests, two codes, two attempts, two wrong passwords to a lock, two passwords after the first, one change of role | no session made with an older password is accepted after a reset (proved of every overlap below), a code is redeemed once and guessed at a bounded number of times, the lock is exact, a delivered code stands |
| `support_serial` | serial; three users of whom one is the admin, two conversations, two messages, one complaint about an order, one feedback, one upload, one donation with two proofs and two transaction ids, four requests, two at a time, any of which may die | one conversation per pair and context, nobody who has to hear of something is forgotten without a failed request to blame, the parties' last word is the status, senders are thanked or it is known why not, files exist and can be opened, a donation and its proofs agree |

In `checkout_serial`, `Requests` and `Baskets` are empty: all orders come from
checkouts. Both sellers buy from each other, so every pair of users competes for
some product; two order ids are enough for a checkout over two sellers, for two
checkouts over one, and for one that fails for want of stock. `CHECK_DEADLOCK` is
left on everywhere but in `support_serial`, whose bounded number of requests is used up in the end: products can always be shown or hidden, carts cleared,
pre-orders given up, stores managed or not, the process restarted.

In `catalogue_serial` one product is enough: no property relates two products, and
no action of one reads another. Two stores and two categories are needed for a
move. In `sellers_serial` a second category would only tell two stores of one user
apart, which cannot both exist. In `reviews_overlap` one store has two products,
so that two transactions may share the store's figures without sharing a product,
and an order with two products makes one buyer review twice; two reviews are the
two writers of every conflict. In `account_serial` two codes are one and the next: a
reset needs the account verified, and an admin creates it so without a code. The
code's five attempts and five wrong passwords are two each, so that the last
allowed one and the first have different outcomes. In `support_serial` two of the
four requests overlap and the other two prepare for them (a conversation, a
complaint, a donation with its proof, which may be there from the start); requests
that would change nothing are not served, so they use up nothing. The type invariants of
`Checkout`, `PreOrders`, `OrderPayments`, `Catalogue`, `Sellers`, `Reviews`, `Account` and `Support` are proved for every size, so
no run repeats them.

### What needs the serial assumption

| only serially | what two overlapping requests do to it |
|---|---|
| `NoUnitInvented`, `ImplementsBook` | two cancellations (deliveries) both return (count) the units |
| `TerminalIsFinal`, `HistoryIsAPath` | a move checked against an old status overwrites a terminal one |
| `CancelledNotUnderReview` | a proof is submitted between the check and the commit of a cancellation |
| `OnePendingProof` | two submissions both find no open proof |
| `VerifiedIffPaid` | two reviewers read the same open proof |
| `KeyUsedOnce` | see the finding: already broken by two different orders |
| `OneLinePerProduct`, `CartIsOrdered` | two `addItem` of one product; a line added during a checkout |
| `ReservedAsOffered`, `OverIsOver`, `DepositDecides` | two reservations read the same sum, or the seller changes the offer in between; a status written over another |
| `StoreFollowsCategory` | a store is opened in a category just counted as empty, or with a mode just changed |
| `ProductFollowsStore`, `MisfitsHidden` | a product is inserted with the columns of a store that has moved since (the comments at `products.service.ts:59-61` and `247-248` say the copy cannot drift) |
| `MenusResolve` | a product is put on a menu between the two writes that remove it |
| `OneApplication`, `ToldIsTrue` | two `apply`; a `requestInfo` or `resubmit` that writes over a verdict |
| `AccessRoleFits` | a role is assigned while it is deleted, or to an account that becomes a seller |
| `CodesAreSpent` | several guesses are let through at the limit; two resets with one code |
| `LockoutIsExact` | two wrong passwords count as one; a login that began before the lock lifts it |
| `LastWordTold` | two changes of a complaint's status: the notifications of the first arrive after those of the second |
| `DonationDecided` | two submissions for one donation both find no open proof; two reviews of one proof write different verdicts to donation and proof |
| `DeliveredStands` | a mail server that takes longer than the cooldown to fail takes back the next code |

Free of it, and proved below for every size: types (stock never negative), that no
unit is lost and no delivery uncounted (also with checkouts and with payments), the
flag, the history and the notices of orders, no order and no pre-order stuck under
review, verdict notices of payments, redemption counts, sellers
and their stores, ratings and marks, sessions after a reset, conversations,
notifications of messages, complaints, feedback, proofs and verdicts, thanks, files.

### Fairness

`HealthySpec` states weak fairness of each begun request's own next step, and that
no notification fails; a request may still fail before it commits. The justification is Node's event loop: a handler whose
database call has returned is resumed, and nothing it waits for depends on
another request. Requests of users, reviews by sellers and the showing of products
are never fair: nobody has to send them. Nothing is claimed to happen eventually
when notifications fail, since one lost with its request is never retried.

## What the runs found

1. **Units returned twice** (`orders_double_restore`). `updateStatus` decides on
   `!order.inventoryRestored` with a row read before the transaction
   (`src/src/orders/orders.service.ts:273`, read at 255). Two overlapping
   cancellations both increment the stock.
2. **One transaction id, two orders** (`payments_key_race`). The duplicate check
   is a `findFirst` before the transaction
   (`src/src/payment-submissions/payment-submissions.service.ts:126`) and the index
   on `transactionKey` is not unique, against the test "rejects a transaction ID
   already used with the same payment method".
3. **Gone, but online** (`presence_live`). `handleConnection` registers a socket
   after it has awaited its user's row and does not ask whether the socket is still
   connected (`src/src/events/events.gateway.ts:68`). If the disconnect was handled
   meanwhile, its `delete` found nothing, and the entry stays until the process
   restarts: the count, which an admin sees as `onlineNow`
   (`src/src/admin/admin.service.ts:72`), is no longer of who is there.

`cancelByBuyer` checks that the order is pending and then calls `updateStatus` as an
admin (`src/src/orders/orders.service.ts:336`), which reads the order again and takes
any that may become cancelled; a seller who confirms it between the two reads finds
it cancelled. The model has both reads (`CancelByBuyerRecheck`), and the book allows
the move, so units and history stay right. No run states that buyers cancel pending
orders only: with requests in turn it would repeat the first check, and otherwise it
fails as just said.

The remaining differences between the free and the serial specifications are in
the table above; the repository makes no statement about them beyond the checks
themselves, so they are recorded as hazards, not as findings.

## The proofs

TLC checks the instances above; the theorems hold for all users, products,
orders, proofs and requests, from the named assumptions on the constants in each
module (types and disjointness; no set has to be finite). Every proof is checked by `tlapm`.

| module | theorem | property |
|---|---|---|
| `ShopProofs`: orders | `TypeCorrect` | `TypeOK`: stock never negative |
| | `CancellationFlagged` | `CancelledIsRestored` (no run repeats it) |
| | `HistoryComplete` | the history knows the current status of every order (no run repeats it) |
| | `NoticesTrue` | `NoticesAreTrue` |
| | `SerialHistory` (serial) | `HistoryIsAPath` (no run repeats it) |
| | `SerialTerminal` (serial) | `TerminalIsFinal` (no run repeats it) |
| | `UnitsStay` | `NoUnitLost` |
| | `DeliveriesCounted` | `SalesCounted` |
| | `SerialImplementsBook` (serial) | `ImplementsBook` |
| | `SerialConserves` (serial) | `NoUnitInvented`, and the sales figures are exact |
| payments | `PayTypeCorrect` | `PayTypeOK` |
| | `ReviewNeverStuck` | `UnderReviewHasProof` |
| | `VerdictsAreWritten` | whoever was told a verdict finds the proof reviewed (no run repeats it) |
| | `PaymentsKeepUnits` | `NoUnitLost`, `SalesCounted` |
| | `OneProofAtATime` (serial) | `OnePendingProof` |
| | `VerifiedHasPaid` (serial) | `VerifiedIffPaid` |
| | `CancelledIsSettled` (serial) | `CancelledNotUnderReview` |
| | `PaymentsImplementBook` (serial) | `ImplementsBook` |
| | `PaymentsConserve` (serial) | `NoUnitInvented`, and the sales figures are exact |
| carts | `ShopTypeCorrect` | `ShopTypeOK` |
| | `CouponsCountOrders` | `RedemptionsAreOrders` |
| | `ShopKeepsUnits` | `NoUnitLost`, `SalesCounted` |
| | `CartsStayUsable` (serial) | `OneLinePerProduct` |
| | `CheckoutOrdersCart` (serial) | `CartIsOrdered` |
| `PreOrdersProofs` | `TypeCorrect` | `TypeOK` |
| | `NeverStuck` | `AwaitingHasProof` |
| | `DepositsDecide` (serial) | `DepositDecides` |
| | `OverStaysOver` (serial) | `OverIsOver` |
| | `SalesAreExact` (serial) | `SalesExact` |
| | `ReservesAsOffered` (serial) | `ReservedAsOffered` |
| `CatalogueProofs` | `TypeCorrect` | `TypeOK` |
| | `StoresMatchCategories` (serial) | `StoreFollowsCategory` |
| | `ProductsMatchStores` (serial) | `ProductFollowsStore` |
| | `MenusMatchStores` (serial) | `MenusResolve` |
| | `MisfitsStayHidden` (serial) | `MisfitsHidden` |
| `SellersProofs` | `TypeCorrect` | `TypeOK` |
| | `SellersGetStores` | `SellersHaveStores` |
| | `OneAtATime` (serial) | `OneApplication` |
| | `AccessFits` (serial) | `AccessRoleFits` |
| | `VerdictsStand` (serial) | `ToldIsTrue` |
| `ReviewsProofs` | `TypeCorrect` | `TypeOK` |
| | `FiguresAreExact` | `FiguresExact`: averages, counts and helpful counts |
| | `MarksAreKept` | `OnlyOwnMark` |
| `AccountProofs` | `TypeCorrect` | `TypeOK` |
| | `ResetsEndSessions` | `SessionsEndWithReset` |
| | `LocksExactly` (serial) | `LockoutIsExact` |
| | `CodesWorkOnce` (serial) | `CodesAreSpent` |
| | `DeliveredWorks` (serial) | `DeliveredStands` |
| `SupportProofs` | `TypeCorrect` | `TypeOK` |
| | `NotForgotten` | `NobodyForgotten` |
| | `ConversationsAreOne` | `OneConversation` |
| | `FeedbackAcknowledged` | `Acknowledged` |
| | `EvidenceOpens` | `FilesOpen` |
| | `LastWord` (serial) | `LastWordTold` |
| | `DonationsAreDecided` (serial) | `DonationDecided` |

**Orders, any overlap.** `Typed` adds to `TypeOK` that the order a request
remembers exists (`RowsExist`): a commit reads its terms. `Recorded` adds the
flag, the history and the notices, and that the notices a request has *still to
send* are true (`NoticesLeftAreTrue`), since `Notify` only moves them to the
inbox. The flag is the interesting part: a stale `false` can be written back only
together with a status other than `cancelled`, so a cancelled row carries the flag
although an overlap may clear it on a row that is not.

**Orders, one at a time.** The strengthening is `Fresh`: what a request remembers
of an order (`WhatWasRead`: the row, that the move is in the table, that a buyer's
cancellation is of a pending order) still holds when it commits, the flag is set
*only* on cancelled orders, and what was asked for is one of the baskets. It is
inductive because under `OneAtATime` every write of a row is by the request that
holds it. With it each commit is a legal move: the history grows along the path,
terminal orders do not move, and each step maps to a step of `OrderBook` or to a
stutter.

**Sums.** The models add up columns with `MapThenSumSet`. The library's induction
on finite sets takes a predicate, which the provers here cannot instantiate; its
theorem that the strict subsets of a finite set are well founded takes none. `Sums` uses it
with a *set* of good subsets in the place of the predicate (`SubsetInduction`), and so
gets that the fold is a function that exists and is unique, that any row may be
taken out first (`SumTake`), and with it that a row added or removed counts once
(`SumMoves`), that columns which agree have one sum (`SumSame`) and that a part is at
most the whole (`SumPart`). That `MapThenSumSet` is such a sum is proved for each column
by itself (`FoldIsSum`). The sums are over rows that have been inserted, and these
are finitely many in every state although the ids need not be.

**Units, any overlap.** `Accounted` says that shelf and live orders hold *at least*
what there was, and that sales are *at least* what delivered orders hold. They are
inequalities because two overlapping cancellations do return the units twice. What keeps
them is that a commit which cancels always returns the units: the flag it consults was
false (`SeenUnrestored`), since only cancelled orders carry the flag
(`OnlyCancelledRestored`) and no request that read a cancelled order may move it. A
commit of another goal may move a cancelled order back to a live one, and adds to what
live orders hold without taking from the shelf. `ShopAccounted` carries this over to
checkouts, one of which opens several orders: every product is in the order of its
seller only, so one commit takes of each product what one order then holds.

**Units, one at a time.** With `Fresh` a commit acts on an order that is live and
undelivered, so the same accounts are equalities (`Balanced`).

**Units with payments, any overlap.** Here a row *can* be flagged and live:
`verify` writes back the status it has read, so a verdict may undo a cancellation that
came in between, and the order may be cancelled again without a return of units. The
invariant `UnitsKept` therefore counts as held only the orders that are `Unreturned`:
not cancelled, not flagged, and with no trace in a request of having been either. An
order leaves that set only in the step that returns its units, or before; traces may
be forgotten, which adds to what is held. `Ended` does the same for deliveries that
a verdict may write back.

**Payments, any overlap.** `UnderReviewHasProof` is not inductive: a `verify`
closes its proof after it has written the order, so in the meantime a pending proof
may be one that is about to be closed. `UnderReview` says that an order in
`pending_verification` has a pending proof which no request at `log` or `close`
holds. The claim creates such a proof in the same transaction, and a request that
reaches `log` or `close` has just taken the order out of review. `ProofRows` says
that the rows a request works on exist and belong together. The actions of `Orders`
are dealt with once, by lemma `OrdersKeep`.

**Payments, one at a time.** `Agreed` says of every order that while a proof of it is
open the others are rejected, that a request which still has to claim the order
finds none open, and that a request at `log` or `close` has already written the
outcome it is about to record on the proof. It holds across a death between the two
writes of a review: the proof stays open, so nothing contradicts the order.

**Payments and the order book, one at a time.** `PayFresh` adds to `PayInv` that order
requests read what still holds (`Fresh`, because no clerk serves their order) and that
the status a review is about to write is the one it would compute now
(`SettleCurrent`). So a clerk either leaves statuses alone or confirms a pending
order, which is the book's `Advance`; it takes no order from the live or the
delivered ones, and the accounts of `Balanced` stand. A death between the writes
of a review changes nothing that the book sees.

**Checkout, any overlap.** `Counted` is the property with the finiteness of the
set it counts; `Coded` says that an order which does not exist carries no code and
that the coupon a checkout holds was issued by the seller of one of its groups. One
checkout adds exactly one coded order because the groups' sellers are in
bijection with the new orders.

**Carts, one at a time.** `OneLineEach` keeps the lines of a cart apart and says of a
request about to insert one that there is none of its product; no other request on
the cart can have made it since.

`BasketCurrent` adds that what a checkout is about to order is still what the lines of
its cart hold: lines come to a cart only by the request that works on it, and change
or go only so. With one line per product, the sum of a cart's lines of a
product is the quantity of that line, which `CheckoutRead` takes.

**Pre-orders, any overlap.** `Awaited` is the counterpart of `UnderReview`.
`PRE_ORDER_TRANSITIONS` has no pair out of `awaiting_payment`, so an order that
awaited a review with no proof left would stay there.

**Pre-orders, one at a time.** `Agreed` keeps what a request has read (`Right`): the
move it will write is in `PRE_ORDER_TRANSITIONS`, the pre-order it will settle awaits
the review, the proof it reviews is pending. That alone makes the terminal statuses
final. For `DepositDecides` it adds that a pre-order has one open proof and that a
request about to close an accepted one has confirmed the pre-order (`OneReview`);
whoever else works on a pre-order that awaits no review finds no open proof
(`NoneOpen`), since the request that could be closing one would be a second request
on it.

`SalesAreExact` has the accounts of a pre-order in three states: not fulfilled,
fulfilled and still to be counted by a request at `count`, counted. With one request per
pre-order the row that a request counts is fulfilled and counted by nobody else
(`SoldRight`); a death between `Write` and `Count` makes the equality an inequality,
which is what the property says. For `ReservesAsOffered` the invariant is `OfferStands`:
with one request on each product the offer a reservation has read is the offer there is, and at
`insert` there is room for it under the limit. Other steps can only take away from what
is reserved (`ReservedFalls`): a pre-order that is cancelled leaves the sum, and no
transition brings one back.

**Catalogue and sellers.** Types, and sellers with their stores, hold of every
overlap. The serial theorems have `Fresh` in their invariant: what a request read
and relies on is true when it writes, so each write makes true what the property
says of the row. `MenusResolve` also needs that the menus and the stores in a row
about to be written belong together, which no request can change. `MisfitsHidden`
follows from the copies: a change of a category reaches a store and its products
alike because both carry the category, so whatever changes the mode under a product
also looks at the product.

**Reviews, any overlap.** `Snapshots` says that a transaction which is *not stale*
has read exactly what is there now: the reviews of its product and of its store, or
the marks of its review. It is inductive because whatever changes these writes one
of the rows the transaction writes, and so makes it stale: a new review of the
product or of another product of the store writes the store's row, a mark writes
the review's. That the transaction writes what it aggregated over is the whole
argument, and the mutants that take it away break the properties.

**Account, any overlap.** `SessionsEndWithReset` is not inductive: a login carries
the session it will give from a row it read before a slow comparison. `SessionInv`
says of the sessions given *and* of those under way that none is ahead of the row's
version, and that one of the current version was made with a password no older than
the last reset. It is inductive because the reset raises the version in the same
write that sets the password: whatever was read before is of an older version from
then on. The mutant without that increment breaks it.

**Account, one at a time.** With `Fresh` the counter of the row is the number of
wrong passwords since the last lock (`StrikesCount`). For the codes `SpentInv` says
that a stored code has not been redeemed and that its counter is of the wrong codes
compared with it, and that the two kinds of code differ; a request that compared a
code still finds it stored, so redeeming it takes it away at the same time. A code
that reached its owner is not taken back because the code which a request still has
to post is the stored one, has not reached the owner, and is not posted by a second
request (`PostInv`): the cooldown keeps another request from replacing it
(`CooledDown`).

**Support, any overlap.** `Typed` adds to `TypeOK` that the rows a request works on
exist and that one about to tell somebody of a proof or a complaint has a row to
tell of. `NobodyForgotten` is inductive on it: a row is inserted, or
its verdict written, in the step that puts whom to tell into the request, and every
step of `Tell` takes one of them out by writing the notice; `ToldKept` says once
that no step of any module takes back what is told, being told or lost. `FilesOpen`
needs that a request about to insert a row has stored its file (`Kept`), and that
the permissions of every admin are closed under `normalizePermissions` since they
are only ever written through it. `OneConversation` rests on the unique index and on the
sorting: every row, and every row about to be inserted, has the smaller id first
(`Sorted`), so two rows of the same two users in one context are equal in all the
columns of the index. The mutant that leaves the ids as the caller gave them breaks
it. For `Acknowledged` a request that stops on its way leaves a trace: of a mail
that failed, or of a process that ended.

**Support, one at a time.** `LastWordTold` is inductive with `Fresh` (the complaint
still has the status that a request at `inform` tells) once nobody has heard of a
complaint that does not exist (`Unsaid`). For `DonationDecided` the invariant is
`Deciding`: of two open proofs of one donation there is one (`OneOpen`), which the
submission's check gives only while it is fresh; and a request at `close` has
already written its verdict to the donation (`Halfway`), so that closing the last
open proof leaves the donation with the verdict of a proof that is there. A death in
between leaves the proof open, and the next review writes both again.

**Only model-checked.** Liveness (`Announced`): TLAPS does not prove liveness
under fairness. It is the one property of a passing run that no theorem states. The
three violated properties are refuted by TLC and stay with it. Nothing is claimed to be proved
about the serial assumption itself: it is a hypothesis of the theorems marked
(serial), and the table above says what it costs.

## What is not modelled

- Wishlist, store favorites, seller payment methods, delivery locations, hero
  slides: each operation writes one row which nothing else reads but to refuse, so
  there is no property beyond the assignment. Analytics only reads.
- Of uploads the public images, which are saved in one step and served to everybody.
- HTTP, validation of DTOs, JWT, guards beyond the role and ownership that
  guards of actions state; prices, discounts, texts, delivery details.
- Opening hours, menus and store status: they only refuse orders. They are pure
  functions of a clock and a table and are planned as operators.
- Stock set by hand in a product's `update`. `NoUnitLost` speaks of stock that only orders touch.
- In `Support`: `lastMessageAt` (it only orders a list), amounts, dates, the texts of
  messages, complaints and feedback, and the labels of payment methods. Notifications
  about orders, pre-orders, applications and reviews are in the modules of these.
- The database itself: transactions are taken to be atomic (but see `Reviews`), single
  writes to be durable.

## Plan

The order was: the counters and statuses first (`OrderBook`, `Orders`,
`OrderPayments`, `Checkout`, `PreOrders`), then what they rest on (`Catalogue`,
`Sellers`), then `Reviews`, `Presence` and `Account`, then messaging, complaints,
uploads, feedback and donations with the notifications they share (`Support`). All
of these are there, with their runs and the theorems above. What is left:

1. **Product updates under existing orders**: stock set by hand, composed with
   `Catalogue`.
2. **Pure functions** (serving windows, the category filter, the rate limiter)
   against reference definitions.
3. **Proofs**: the order book for the whole shop, carts and payments together
   (`Checkout` and `OrderPayments` extend `Orders` separately), and the promises
   of notifications in `Checkout`.
