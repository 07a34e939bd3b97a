# TLA+ specifications of the Cent marketplace

Cent is a marketplace: a React storefront, seller and admin dashboards and an Express
backend over MongoDB and Redis, with Paystack for payments, refunds and transfers. This
directory holds TLA+ modules of its behaviour, TLC configurations that check them on
small instances, and TLAPS proofs of every safety property that a run checks, for any
number of orders, requests, pages, groups of a cart and so on. Paths are relative to the root of the repository; `order.service.js` and the like
are under `backend/src/services/`.

## 1. The system

### Components

| Component | Code | State | Operations |
|---|---|---|---|
| Checkout | `order.service.js` (`placeOrder`), `orderSplit.js` | orders, stock, coupon use, carts | one request: replay check, cart snapshot, coupon check, payment initialisation, one transaction (reserve, create one order per seller, redeem, clear the cart), answer |
| Order lifecycle | `order.service.js`, `Order.model.js` | `status`, `trackingEvents`, `paymentStatus`, `paidAt` of an order | status updates by staff and seller, stock restored by a cancellation |
| Payment webhook | `webhook.controller.js`, `markOrderPaid`, `markOrderPaymentFailed` | `paymentStatus`; what Paystack regards as delivered | `charge.success`, `charge.failed`, for all orders of a reference |
| Refunds | `requestRefund`, `approveRefund`, `rejectRefund` | `refund` sub-document | request, approve (calls Paystack), reject |
| Payouts | `payout.service.js`, `Payout.model.js` | payouts, `order.payout` | create (transaction, then transfer), retry |
| Stock | `Product.model.js`, `tryDecrementStock`, `restoreStock` | units by product and size | reserve, restore, edit |
| Coupons | `coupon.service.js` | limits, `timesUsed`, `usedBy`, `isActive` | validate, redeem, create, switch, delete |
| Cart | `cart.service.js`, `ShopContext.jsx`, `PlaceOrder.jsx` | `user.cartData`, every page's copy of it, the checkout form and its key | add, update, read, submit |
| Money | `orderSplit.js`, `currencyMath.js`, `shipping.js`, `currency.js` | the cached exchange rates | shares, discount, conversion, fees, commission, charge, payout, refund |
| Sessions | `token.service.js` | refresh tokens | issue, rotate, revoke, reuse detection |
| Accounts | `user.service.js`, `auth.js`, `adminAuth.js` | the user document | sign-up, sign-in, Google, lockout, passwords and links, staff, bans, archiving, addresses |
| Sellers | `seller.service.js`, `sellerAuth.js` | the seller document | sign-up, sign-in, bank details, certificate, approval, suspension, ban, archiving |
| Roles | `constants/roles.js`, `requirePermission` | none | which role may call which route |
| Catalogue | `product.service.js`, `cache.service.js` | products, cached reads in Redis | create, edit, remove, list |
| Reviews | `review.service.js` | reviews, the product's rating | create, delete, aggregate |
| Browser sessions | `utils/api.js` of storefront and seller app, the cookie's handlers in `user.controller.js` and `seller.controller.js` | `localStorage`, the cookie that storefront, seller app and staff share, per tab the refresh under way and the calls queued behind it | call, refresh, sign in, sign out |
| Dashboards | `admin/src/pages`, `seller/src/pages`, `frontend/src/pages/Orders.jsx` | the rows a page shows, its form, its busy controls | list, filter, change a row, send a form |
| The rest | e-mail, SMS, request pipeline, analytics, SEO, scripts, mobile client | none of its own | input and output |

### How they interact

The server's components share MongoDB documents and call one another inside one request.
Nothing locks: a request reads documents, awaits (the database, Paystack, a password
hash), and writes them back. Mongoose's `save()` sends only the paths whose value differs
from the one that was read, with no version check (replacing an array is the exception),
so two requests merge field by field. Only `placeOrder` and `createPayout` use
transactions, and both keep their calls to Paystack outside. Paystack calls back by
webhook, at least once and in no fixed order, and its API calls can be executed although
the answer is lost. Redis sits in front of product reads; when it is unreachable the code
logs that and goes on. The browsers hold copies of all of it, tabs of one browser share
storage and cookies, and answers arrive in any order or not at all.

### What is hard about it

- *Stale documents.* Every check precedes an `await`; what is saved afterwards was
  decided on what the document had been.
- *Repeated and reordered webhooks*, over the several orders of one reference.
- *Crashes and errors half-way*: between the items of a cancellation, in the loop of a
  webhook, between a transfer and the save that records it.
- *Transactions that are retried* by the driver while variables outside the callback
  keep their values; unique indices and plain writes that meet open transactions.
- *Double clicks and client retries* of a checkout, under one idempotency key.
- *One session, several holders*: tabs that refresh with one token, apps that overwrite
  one another's cookie, an administrator who closes an account while it signs in.
- *Copies*: cached reads, rows and forms on a page, optimistic carts, all of them acted
  on after what they show has changed.
- *Rounding*: amounts split, converted and rounded in several orders.

### What makes each part correct

Checkout: all or nothing, no overselling, one purchase per key, truthful answers.
Lifecycle: cancelled stock is back, no stale save rewrites the payment history. Webhook: every
charge reaches its orders, with one confirmation. Refunds: no money back without a
payment and a request. Payouts: each order at most once, under its own seller, and
`success` only for money that left. Money: shares add up, charges match orders, refunds
stay within charges. Sessions: what was ended stays ended, a token buys one successor.
Accounts and sellers: a closed account stays out, attempts and links are counted and
spent, an approved seller has a certificate, payouts go to the account on file (the last
three but for requests that overlap, section 3). Cart,
catalogue, reviews, dashboards: what is shown converges to what is stored, and edits are
lost only where requests overlap.

## 2. The modules

`MC*` modules hold the instances, `*_proofs` modules the theorems about the module they
are named after; `Settlement_proofs` begins with those about `OrderLifecycle`, which
`Settlement` extends. Modules are listed with what they build on.

### OrderDocs

The `orders` collection. `OrderDoc` keeps the status, payment, refund and payout fields;
`tracked` is the set of statuses that have a tracking event. `Saved` and `SaveOrder` are
`document.save()`: `Path` writes a field only if the handler changed it, and the
pre-save hook adds a tracking event exactly when the status path is modified.

### OrderLifecycle

`handler[w]` is a request in flight: its program counter, the documents it has read
(`seen`), the orders still to do (`todo`) and the line item it is at. `Start` is the read
that begins a request; a failed guard is an error answer and no step.

| Action | Code |
|---|---|
| `UpdateOrderStatus`, `UpdateSellerOrderStatus`, `RestockItem`, `UpdateSave` | `updateOrderStatus`, `updateSellerOrderStatus`; items are restored one write at a time, before the save |
| `Charge` | Paystack: attempts fail, at most one charge of a reference succeeds |
| `Deliver`, `MarkPaid`, `MarkFailed`, `AckWebhook` | `handlePaystackWebhook` and the two loops; `MarkPaid` is the compare-and-set |
| `RequestRefund`, `RejectRefund`, `RefundSave` | `requestRefund`, `rejectRefund` |
| `ApproveRefund`, `PaystackRefund`, `RestockItem`, `ApproveSave` | `approveRefund`; the refund is executed and answered, executed with the answer lost, or neither |
| `Crash` | a request dies; what it wrote stays |

Paystack (`Charge`, `RefundAccepted`), MongoDB and Mongoose are modelled from how the
code uses them. `restocked`, `refunds`, `mails` and `unpaid` count what the code does
and is observable from outside.

### Payouts, Settlement, SettlementLedger

`run[a]` is a request to create or retry a payout. `SelectOrders` is the read inside the
transaction, `CommitPayout` its commit: it fails when another transaction or a save has
written a selected document since the snapshot (`Conflict`), and the driver then runs the
callback again. `Transfer` is executed and answered, executed with the answer lost, or
refused; a transfer Paystack has accepted counts as executed, since the code does not
look at its `status`. `SaveSuccess`, `SaveSuccessThrows` and `SaveFailed` are the saves
inside and behind the `try`. `Settlement` runs this next to `OrderLifecycle` over the one
variable `order`. `SettlementLedger` is the promise: orders of one seller are settled
together, once, for good.

### ShopData, Checkout, AtomicCheckout

`ShopData` has the users, products, keys and the grouping of a cart by seller; a product
stands for one product in one size with tracked stock. `Checkout` follows `placeOrder`:
`Submit` (replay check), `LoadUser`, `LoadProducts`, `ValidateCoupon`,
`InitializePayment`, then inside the transaction `Reserve`, `CreateOrders`,
`RedeemCoupon`, `ClearCartAndCommit`, and then `Respond`, or `Duplicate` for a duplicate
key. MongoDB's part: the first writer `held`s a document until it ends, a later one gets
a write conflict; `missed` is what was committed since a transaction's snapshot; `Retry`
is `withTransaction` running the callback again, with `created` (the outer array
`orders`) kept. `ReadCart`, `AddToCart`, `UpdateCart` are the cart requests,
`SetSellerStatus` a seller losing or regaining approval, `ReturnToStock` a restock.
`AtomicCheckout` is the promise: a purchase in one step, or nothing.

### Money

Operators for the arithmetic (`Round`, `Converted`, `Discount`, `Allocation`,
`Commission`, `Charge`) and the steps of a checkout that are separated by awaits: `Quote`,
`Total`, `Place`. Prices, coupons and what is computed from them in the base currency are
counted in parts of a hundredth (`Grain` to each), since the validators accept any price
above zero (`product.validators.js:6,45`); what the code rounds is in whole hundredths. `RefreshRates` replaces the rates between
them; `Deliver`, `CreatePayout` and `ApproveRefund` use what the order recorded. A tie in
a rounding goes either way, as binary fractions may. Nothing bounds the order in which
groups come: `last` is any of them.

`MoneyAssumption` says what the code is configured with and lets in: a basket has a group
and no negative price, quantity, fee or coupon value (`IsBasket`: the schemas, the shipping
table and the form that creates a coupon; a coupon changed by hand, past every page, to a
negative maximum is left out), a commission and the value of a percentage coupon are whole
percents (the code takes any fraction; finer ones would scale the constants and change no
argument, but they are not modelled), the base currency has a rate
in every table, and two decimals, as the default NGN and the amounts sent to Paystack
(`paystack.service.js:30-32`). Rates are whole numbers, which leaves out none that have
finitely many decimals: only their ratio is used.

### Handlers, Sessions, Accounts, Sellers, Identity

`Handlers` is the frame of a request of the backend cut at its awaits: `req[r].pc` names
the next step, `snap` the document read, `before` (history) the requests answered when
this one began, from which `Overlap` and `Serial` are defined. `SaveChanges` is Mongoose's
`save()`. `Catalogue` and `Cart` use the same frame.

`Sessions` is `token.service.js` over the tokens of one account: `RotateFind`,
`RotateIssue`, `RotateMark`, `ReuseRevoke` are `rotateRefreshToken` (a successor is issued
before the old token is marked), `Logout`, `LogoutEverywhere` and `EndSessions` the
revocations, `TokenExpires` the TTL index. A token is named by the request that issued it.

`Accounts` has one action per await of `user.service.js`. `Authenticate` is the shared
look-up, with `RegisterFailedAttempt`, `ClearFailedAttempts` and `OpenSession` behind it;
`Register`, `GoogleLogin`, `CreateStaff` and `SeedSuperAdmin` look the e-mail up first and
meet the unique index in `CreateUser`; `SetPassword`, `SetResetLink`, `SetVerified`,
`AdminSave`, `SaveAddress` and `DropAddress` are the saves. `StaffCall` is `staffAuth` with
`requirePermission`, which read the account at every request. `Sellers` is
`seller.service.js` in the same way; `SetSellerStatus` and `WriteSellerStatus` are the
check and the update of an approval, `SaveBankDetails` the save after Paystack's answer:
bank details have an account and a holder's name, and the recipient code depends on the
account alone (`Account`), so a corrected name is saved without a new recipient.
`Identity` puts one account, of either collection, and its tokens together.

### Catalogue

One product: `CreateProduct`, `UpdateProduct`, `RemoveProduct` with `SaveEdit` and
`Invalidate` (Redis may be down, which is logged), the cache-aside read `Lookup`,
`Compute`, `Store`, expiry, a checkout's `Reserve`, and reviews: `InsertReview` and
`DropReview` followed by `Aggregate` and `WriteRating`, the aggregation and the update of
the product as two steps. Fields that only an edit writes are one value and a version.

### Browser

`api.js` in every tab over the rotation of `Sessions`: `CallApi` attaches the stored
access token, `Answered` is the response interceptor (`Waits` in the queue of a refresh
under way, or `Refreshes`), `RefreshArrives` and `SignOut` what it does with the answer,
`Unload` the navigation to the sign-in page. `store` and `cookie` are shared by the tabs;
`jar` is whether the browser keeps the cookie at all and whether it was set for a domain.
`SignIn`, `SignOutCall`, `SignedOut` are the storefront's, `Forget` is the seller app's
sign-out, which tells nobody.

The cookie is not this app's own. Storefront, seller app and the staff's sign-in all set
`refreshToken` for `/api`, and the handlers read it before the body
(`user.controller.js:100,117`, `seller.controller.js:63`). In workloads with `"shared"`
the other apps act too: `OtherSets` puts a token of theirs (`Other`) into the cookie,
`OtherPresents` has them ask for a session, or sign out, with this app's token from the
cookie, `OtherHears` is their answer, `OtherClears` a sign-out of theirs. This app then
presents `Other`: it is refused (`AskForeign`), or, when staff and customer are both users,
the storefront is given the other's session (`ForeignArrives`); and a refresh of another
app rotates this app's token and finds no account of its kind (`NoAccount`). The admin
app only sets the cookie: it neither refreshes nor signs out at the server. What the other
account's token is worth at the server is not followed.

### Cart

`page[p]` is a page of the storefront with the cart it shows and its checkout form,
`call[c]` a request of a page. `AddToCart` and `UpdateQuantity` change the copy first and
send the edit; `AddBegins`, `UpdateBegins` and `SaveCart` are the handler;
`CartArrives` replaces the copy with the answer, `EditFails` and the `Resync*` actions
fetch it again, which can fail like any read of the cart and is then only logged
(`ResyncFails`). A page learns that an answer is lost when its handler has finished: a
connection that breaks earlier is not modelled. `Submit` sends the form with its key; `CreateOrder` is the checkout in one
step, which is what `AtomicCheckout` allows to assume. `GetUserCart` is a sign-in or a
page loaded anew.

### Desk, BackOffice

`Desk` is the server side of the pages that list and change documents of one kind: `List`
(cached for products), `Read` and `Save` for the handlers that read, check and save,
`UpdateCoupon` for those that are one query, `Create` with its unique fields, `Sale` for
the checkouts going on, `MarkOrderPaid` for Paystack's event, which pays an order and
confirms it if it was placed (the event of a failed attempt, which changes nothing but the
payment status, is left out: `OrderLifecycle` has it). `Throws` is an answer without a
write: Paystack refuses the refund, or the SKU is taken, also by a product that was
removed. `RefundUnsaved` is a refund that Paystack made and whose answer, or the save after
it, was lost. Of the database's own failures only that one is modelled. The pages' Edit
form sends a typed stock as text, which `parseStock` refuses, so no submission of it
succeeds with one; only the stock it was filled with is sent. `BackOffice` is the pages: `Open`, `Turn`, `Search` ask for rows;
`ChangeStatus`, `SaveTracking`, `Decide`, `RequestRefund`, `ToggleActive`, `ChangeRole`,
`Remove` act on a row as shown; `OpenForm`, `Submit`, `CloseForm` are panels and forms;
`ListArrives`, `RowArrives`, `Leaves`, `Refetches`, `Done`, `Fails` take the answers, in
any order. A workload says which screen each of two pages shows: the administrators'
Orders, Refunds, Coupons, Staff, List, Add and Edit, the sellers' Orders and Products, a
customer's Orders.

## 3. What the runs check

| Run | Instance | Shows |
|---|---|---|
| `lifecycle_races` | one order of two items, two requests in flight, one repeated webhook or one crash | `RefundFollowsPayment`, `OneMailPerPayment`, `CancelledWasRestocked`, `PaymentHistoryKept` |
| `lifecycle_live` | two orders of one reference, a crash, fairness | `ChargeReachesOrders` |
| `settlement` | two orders, two payout runs and one other request, lost answers, a failing save or a crash | `PayoutsInv` (`PayoutsPartitionOrders`, `SuccessMeansTransferred`), `PayoutsTagEligible`, and `Settlement` implements `SettlementLedger` |
| `checkout_double_click` | a double click and another customer, the last unit of a product (one more may come back), coupon, crash, fairness | `CheckoutInv` (`StockConserved`), `OneCheckoutPerKey`, `CouponUsedPerCheckout`, `AnswerMatchesOutcome`, `Answered`, and `Checkout` implements `AtomicCheckout` |
| `checkout_sellers` | two keyless checkouts over two owners, cart edits | the refinement for split carts: every order of a purchase, or none |
| `identity` | three requests, one account, ten mixes of operations | what was ended stays ended (`EndedSessionsStayEnded`, `ClosedAccountStaysOut`), `RotationIsSingleUse`, `AttemptsCountedExactly`, `UserDocumentInv` (`ResetLinksAreSpent`, `RegistrationWins`, `AddressBookIsExact`), `SellerDocumentInv` (`ApprovedHasCertificate`, `RecipientIsTheAccountOnFile`) |
| `catalogue` | three requests on one product, Redis may fail, fairness | `ProductInv` (`ReservationsSurviveEdits`), `StaleOnlyIfOverlapped`, `ReviewsInv` (`RatingSettles`, `OneReviewEach`), `CacheConverges` |
| `browser` | three calls of two tabs, or of one tab next to other apps, an expiry, a lost answer, a foreign cookie, fairness | `BrowserInv` (`OneRefreshPerTab`, `OneTabNeverFails`), `FalseAlarmNeedsOverlap`, `SignedOutStays`, `CallsSettle` |
| `cart` | three calls of two pages, two items, a lost answer | `CartInv` (`OneOrderPerForm`), `ShownCartSettles`, `LostEditNeedsOverlap` |
| `money` | two checkouts, up to four groups, prices finer than a hundredth, several coupons, four currencies, a change of rates | `SplitInv` (`DiscountSplitExactly`, `DiscountWithinOrder`, `OrdersAddUp`, `ItemsMatchSubtotal`), `ChargeInv` (`ChargeMatchesOrders`, `RefundsWithinCharge`), `SellersGetTheirShare` |
| `backoffice` | two pages, two documents, up to four calls, a lost answer, a sale, payment events, refunds that are not saved, fourteen pairs of screens and documents | `RowsInv` (`ShownRowsSettle`, `RowsAreOfTheQuery`), `RefundDeskInv` (`TwoRefundsNeedOverlap`, `QueueLosesOnlyDecided`), `FormsInv` (`StockLostOnlyToOldForms`, `OneDocPerSubmission`), `StatusRevertsNeedAnother` |

Invariants are conjunctions of named parts, in brackets; a component's type invariant is
the first part of one of them. One run is refuted by TLC, for a sentence of the documentation the code does not
keep (quoted in `PROJECT.json`, "findings"): in `split_cart_with_key` the unique index
refuses the second order of a split cart, which has the user and key of the first.

Properties of the form "needs an overlap" say what the code promises where it takes no
lock: requests that follow one another are exact, whatever else is in flight, and only
requests that were in flight together can do harm.

### What the models also show

No run is dedicated to these behaviours; the properties are stated around them.

Orders, refunds and payouts:

- a `charge.success` repeated after a refund marks the order paid again
  (`docs/ENGINEERING_REPORT.md:56` calls the webhook idempotent);
- an old `charge.failed` takes a paid order out of "paid" (`MarkFailed` asks nothing);
- `MarkPaid` sets "confirmed" by an update, which runs no hook and adds no tracking event;
- two approvals of one request that overlap refund twice; so does a customer's request that
  read the order before an approval and is saved after it: the order is in the queue again;
- a refund that Paystack made and whose answer, or whose save, is lost leaves the order
  "requested": the next approval refunds it again, with no overlap at all;
- a payout can commit while an approval waits for Paystack, and the order is then both
  refunded and paid out (`docs/OPTION_B_README.md:14` says that refunding a paid-out order
  fails loudly); an open request does not keep an order out of a payout (`Eligible`);
- a retry after a lost answer moves the money again, under a fresh reference;
- "returned" set by staff before delivery restores no stock, and a later refund approval
  regards it as restored; an approval that read the order before a concurrent
  cancellation restores its items a second time.

Checkout, cart and money:

- a transaction that is retried reports, and mails, orders of the aborted attempt;
- two checkouts that validated the last use of a coupon both redeem it;
- the second click of a double click can read the cart the first one emptied, and is
  then answered with an error, not with the orders;
- overlapping cart edits (two tabs, a fast double click) lose one; a cart saved over a
  checkout comes back; `updateCart` has no stock check;
- after a cash order the page keeps showing the old cart until it is loaded anew;
- an edit that failed stays on the page if the read that should take it back fails too;
- the last group's share of a discount can be negative by rounding, which the schema
  refuses, or exceed its subtotal;
- prices of items are converted later than the totals, perhaps with other rates;
- at a price finer than a hundredth the charge and the orders part by the roundings (two
  orders of 10.004 are charged 20.01), and the refunds of all of them can exceed the charge;
- an unknown currency leaves amounts unconverted but labels the order;
- a payout of orders in several currencies is one sum, labelled with the first.

Accounts and browsers:

- a sign-in that runs between the revocation and the save of a ban or deactivation gets a
  session that stays until a guard reads the account; `refreshSession` does not look at
  bans;
- two refreshes that overlap both succeed; two tabs that refresh one after the other with
  the same token are taken for a theft, and every session ends;
- failed attempts that overlap are counted once;
- two resets that overlap with one link both succeed;
- two changes of a seller's bank details that overlap, one of which only corrects the
  holder's name, can leave the account of one beside the recipient of the other;
- two additions of a default address that overlap leave two defaults;
- a cookie set for a domain survives a sign-out, since `clearCookie` does not name it;
  the seller app never tells the server;
- the apps share one refresh cookie: a refresh of another app rotates this app's token and
  nobody is given the successor, a sign-out of the storefront can revoke the session of the
  seller app and leave its own alive at the server, and an app that then presents its
  stored token is taken for a thief; after a staff sign-in the storefront's next refresh
  goes on with the staff member's session.

Catalogue and dashboards:

- a read in flight with an edit can store the old value after the invalidation; it stays
  until it expires or the next edit;
- edit forms send the stock they were filled with, over pieces sold since; the seller's
  order panel always sends a status, so its note is never recorded and the customer is
  told of a change that was none, and another's change, or the webhook's "confirmed", may
  be undone;
- a stock typed on the administrators' Edit page is refused;
- an answer that arrives late closes whichever panel is open; a search beyond page 1
  makes two reads that race;
- the page of a customer offers no refund request after a rejection, though the server
  allows one.

### Bounds, and why they are enough

- *Requests.* Every race the code has is between a request that has read and one that
  writes in between: two handlers, two payout runs, and where a third request matters
  (another customer, an administrator, a second tab) three. In `Handlers`, `Cart`,
  `Browser` and `Desk` each request runs once.
- *Workloads.* A behaviour of `identity`, `catalogue`, `browser`, `cart` or `backoffice`
  is made of the operations (or screens) of one mix, chosen at the start. The mixes hold
  the operations that write the same fields or revoke the same tokens; requests of
  different mixes touch different fields, which `save()` keeps apart.
- *Orders.* Requests act on one order, webhooks on the orders of a reference: one order
  suffices for races, two for the loop and for payouts. Orders paid on delivery
  (`NoRef`) are in no run: nothing ever makes them "paid", and the theorems cover them.
- *NItems = 2* where a crash between items matters, otherwise 1.
- *MaxRestocks* saturates a counter; *MaxRefunds*, *MaxTransfers* limit what Paystack
  executes. `mails` and `unpaid` are not capped: they are bounded by the deliveries.
- *OneFault* (a constraint of `lifecycle_races`): a behaviour has a repeated webhook or a
  crash, not both; a webhook that crashed is delivered again either way.
- *OneKindOfTrouble* (a constraint of `settlement`): refunds come without transfers,
  faults and a second payout, and a second payout without faults; a fault still meets a
  second run on the same payout and the retry after it. Payouts read what a refund leaves
  behind, `paymentStatus` and `status`, at their commit only, and what happens to a payout
  afterwards does not touch the order, so that the two kinds do not meet.
- *MaxDuplicates, MaxCrashes, MaxFaults, MaxLost, MaxOutages, MaxExpiries, MaxForeign = 1*: the
  properties are broken, if at all, by a single one; more repeat the interruption.
- *OneCompany* (a constraint of `browser`): next to other apps this app has one tab, and a
  behaviour loses an answer or has its cookie replaced, not both. The other apps act from
  outside like a second tab that has another's storage; the theorems have no such bound.
- *Targets*: "delivered" and "cancelled" are the only statuses the workflow tells apart
  from the others, besides "placed" (the start) and "returned" (reached by refunds); the
  pages tell none apart, so two do.
- *MaxLoginAttempts = 2* (the code: 5): one attempt below the lock and the one that
  locks; with three requests, a third on top.
- *MaxAttempts = 2*: the second attempt of a transaction is the one that differs from
  the first; the driver's limit is 120 seconds.
- *Stock of 1 or 2 pieces*: scarce, so that reservations fail; 2 in the refuted checkout,
  where both orders must get through.
- *Baskets* hold the splits that round badly: equal shares all rounded up, and shares
  all rounded down for a last group that ships for nothing.
- *MaxForms, load.forms*: a form that is left and opened again.

### Fairness

- `WF(Continue(w))`: a request in flight is resumed by the event loop; nothing in it
  waits for another request. The same of `Advance(r)` in `Catalogue`, where Redis also
  drops what has expired (`WF` of `Expire`): every value is stored with a time to live.
- `SF` on the delivery of each event without a 200: Paystack keeps sending it and the
  server keeps accepting requests. Weak fairness would not do, as a delivery is not
  possible while all handlers are busy. A crash is never fair and is bounded.
- `WF` on each step of a checkout: the driver always answers or throws, and
  `withTransaction` has a time limit, which is why transactions that abort one another
  end (`Answered`).
- `WF` on a call of `Browser` and on a navigation: the server answers or the connection
  fails, and the browser runs the callbacks. No call is assumed to be sent, no token to
  expire, no answer to be lost, no other app to act. `CallsSettle` says that a time comes
  when no call is left, since each runs once.

The system may stop: checkouts end when all requests are answered, the orders of
`lifecycle_live` when every event has been acknowledged, and the runs in which each
request runs once when all have run, so those runs do not check deadlock. The others
never stop.

## 4. What is proved

Each theorem holds for every value of the constants that satisfies the `ASSUME`s of the
modules it extends (which TLC evaluates on the instances): any number of orders, sellers,
requests, pages, products and keys, any bound. Where a cardinality is compared the
invariant carries the finiteness of the set itself, since no constant is assumed finite.
An invariant that is not inductive is proved through a stronger one, named in the third
column.

| Theorem | States | Through |
|---|---|---|
| `Settlement_proofs!TypeCorrect` | `[]TypeOK` | itself |
| `RefundSafety` | `[]RefundFollowsPayment` | `PaymentInv` |
| `MailSafety` | `[]OneMailPerPayment` | itself, with `TypeOK` |
| `HistorySafety` | `PaymentHistoryKept` | `HistoryInv` |
| `CancelSafety` | `[]CancelledWasRestocked` | `CancelInv` |
| `PayoutSafety` | `[]PayoutsInv` | `SettlementInv` |
| `TagSafety` | `PayoutsTagEligible` | `SettlementInv` |
| `LedgerRefinement` | `ImplementsLedger` | `SettlementInv` |
| `OrdersWithPayouts` | the three invariants of the lifecycle, next to payouts | `OrdersInv` |
| `Checkout_proofs!CheckoutSafety` | `[]CheckoutInv` | `StockInv` |
| `KeySafety` | `[]OneCheckoutPerKey` | `RequestsInv` |
| `AnswerSafety` | `[]AnswerMatchesOutcome` | `RequestsInv` |
| `CouponSafety` | `[]CouponUsedPerCheckout` | `CouponInv` |
| `ShopRefinement` | `ImplementsShop` | `RequestsInv` |
| `Cart_proofs!CartSafety` | `[]CartInv` | `ServedInv` |
| `LostEditSafety` | `[]LostEditNeedsOverlap` | `ServedInv`, `EditsInv` |
| `SettleSafety` | `[]ShownCartSettles` | `ServedInv`, `SettleInv` |
| `Catalogue_proofs!ProductSafety` | `[]ProductInv` | `HandledInv` |
| `StaleSafety` | `[]StaleOnlyIfOverlapped` | `HandledInv`, `FreshInv` |
| `ReviewsSafety` | `[]ReviewsInv` | `HandledInv`, `RatingInv`, `SingleInv` |
| `Identity_proofs!RotationSafety` | `[]RotationIsSingleUse` | `SessionsInv` |
| `EndedSafety` | `[]EndedSessionsStayEnded` | `SessionsInv` |
| `ClosedSafety` | `[]ClosedAccountStaysOut` | `DocInv` |
| `SellerSafety` | `[]SellerDocumentInv` | `DocInv`, `BasicInv`, `BankInv` |
| `AttemptsSafety` | `[]AttemptsCountedExactly` | `BasicInv`, `AttemptsInv` |
| `UserSafety` | `[]UserDocumentInv` | `SessionsInv`, `RecordInv` |
| `Browser_proofs!BrowserSafety` | `[]BrowserInv` | `CallsInv`, `TabsInv`, `PeaceInv` |
| `SignedOutSafety` | `[]SignedOutStays` | `CallsInv`, `HeldInv`, `OutInv` |
| `AlarmSafety` | `[]FalseAlarmNeedsOverlap` | `CallsInv`, `HeldInv`, `AlarmInv` |
| `BackOffice_proofs!RefundDeskSafety` | `[]RefundDeskInv` | `CallsInv`, `SinglesInv`, `RefundsInv`, `QueueInv` |
| `StockSafety` | `[]StockLostOnlyToOldForms` | `ReadingsInv` |
| `DocumentsSafety` | `doc \in [Docs -> Documents]`, always | `TypedInv` |
| `FormsSafety` | `[]FormsInv` | `FormsOpen`, `RowsOpen`, `ReadingsInv`, `TypedInv`, `ContentInv` |
| `StatusSafety` | `StatusRevertsNeedAnother` | `StatusInv` |
| `RowsSafety` | `[]RowsInv` | `ReadingsInv`, `QueryInv`, `FreshInv` |
| `Money_proofs!SplitSafety` | `[]SplitInv` | `CheckoutsInv` |
| `ChargeSafety` | `[]ChargeInv` | `CheckoutsInv` |
| `ShareSafety` | `[]SellersGetTheirShare` | `CheckoutsInv`, `PaidOut` |

### Orders

A handler may save what it decided long ago. `PaymentInv` adds, for each handler, that
what it read is a past of what is stored (`Monotone`: a set `paidAt`, a started refund
workflow stay so) and that what it is about to write was true when it read
(`Established`: a request it will save was for a paid order, an approval that reached its
save had Paystack execute a refund). `HistoryInv` adds that an order with `paidAt` is not
pending; `DocStep` then says what any step does to one document, and the action property
is read off it. That property is about the payment, not about refunds: a repeated
`charge.success` takes a refunded order back to "paid", and a request saved late reopens a
completed refund, in the code and in the model. `CancelInv` adds, for a handler at its save, that every item it went past
has been restored or was not its to restore (`Restored`), and that a delivered order has
its tracking event, on which the code's decision to restore rests. One mail for each
passage into "paid" is inductive as it stands: the compare-and-set makes them one step.

### Payouts

A commit rests on the snapshot its transaction read. `SettlementInv` says the selected
orders were eligible and of one seller *in that snapshot*; `Conflict` is what carries this
over to the commit, and without it neither the tags nor the refinement hold. Before the
save of `success` a transfer has been executed (`RunEstablished`). No step of the order
workflow touches a tag (`TagsUntouched`) and no step of a payout anything but tags
(`OnlyTags`), which is why what was proved of the orders alone holds in the composition
(`OrdersWithPayouts`). For the ledger, the commit is the one step that maps to `Settle`;
every other step stutters.

### Checkout

`RequestsInv` has one clause for each label of `placeOrder` (`Progress`). From the
reservation on, the transaction holds the documents it has written, and no other does
(`HeldApart`), so that the stock it took is still there and its key still unused when it
commits; before the answer nothing of it is placed. `Commit` is the effect of
`ClearCartAndCommit` on the stored data: it is proved equal to a purchase of
`AtomicCheckout` (`CommitBuys`), cart edits and restocks to its other actions, all else to
a stutter. `StockInv` and `CouponInv` add that units sold and requests that used the
coupon are finite sets, and count them. `Users # {}` is assumed for a cart edit not yet
begun, which is stored with some user.

### Cart

`ServedInv` ties a call of a page to its handler and an order to the key of its form.
`EditsInv`: if all requests that wrote the cart were served one after the other, the cart
is what they meant; and a request at its save, if it overlaps none of them either, still
holds the cart as it is stored. `SettleInv`: a call that ran alone (`Alone`) carries the
stored cart, in its handler's answer, in the answer heard and in the page's copy, unless
its read of the cart failed (`"givenUp"`).

### Catalogue

`HandledInv` says of each await what the request holds there (`Held`), of the product that
stock and reservations add up to what was put in, and that reviewers are finitely many.
`FreshInv` follows an old value: one that is being read, or was stored, without a finished
edit belongs to a read that overlapped it. `RatingInv`: the review request that began after
all others were answered has counted, and then written, the reviews as they are. `SingleInv`
counts for each customer the requests that put a review in and those that took one out: the
unique index makes the first at most one more. The sum of the ratings is the number of
their stars (`Stars`), a cardinality, for which the library has the facts needed.

### Accounts and sessions

`SessionsInv` is about tokens. `TokensInv` says of a rotation that the token it found had
been issued, and that no answered refresh which the request could see was of that token
(`Rotation`); between the issue of a successor and the mark of the old one that is all
there is to go by, the code has no lock. `EndedInv` takes the requests that revoked every
session, answered or still to be answered (`Purged`): a live token, or one that is being
rotated, descends from a sign-in that overlapped each purge it outlived (`Spared`). Some
forty actions reduce to four shapes of what they do to the tokens: one token more, some
fewer, none changed, all gone.

`DocInv` is about documents, and `save()` makes it so: it writes the fields a handler
changed, whatever else happened since the read. An approval about to be written still has
its certificate, as nothing takes one away. `BankInv`: while no two changes of the bank
details have clashed (`BankClash`: they overlapped, with different accounts, and one found
its own account on file already), account and recipient belong together, and a change that
is with Paystack read the recipient that is stored, or that of an account another change
has replaced since (`BankReady`). `ClosedInv` has one clause for each request that
closes an account after all others which change the marks were answered (`Sole`): what it
read is still so when it saves, then the account is `Shut`, and requests begun after its
answer are `Out`.

`BasicInv` types the documents and says what a handler holds between two awaits
(`UserReady`, `SellerReady`). Every action is shown to have one of a few shapes
(`UserShape`, `SellerShape`: begins, passes by, creates, fails, clears, links, addresses);
the invariants that follow split on shapes, not on actions.

- `AttemptsInv`. `LockInv`: a sign-in that is about to save a failure has read no more
  failures than there are wrong passwords. `CountInv`: if sign-ins came one after the
  other, the one going on has read the count as it is stored, and the count is the number
  of failures since the last success, modulo the limit (`Rolls`), as reaching the limit
  sets the lock and starts again.
- `RecordInv`. `CreatorInv`: one request created the account, and until somebody asks for
  a new password its password is the one stored. `LinksInv`: a request that sets a
  password holds a link that was mailed, that no earlier reset has spent and no later mail
  replaced (`LinkOf`); after its save the link is off the document. `BookInv`: the book is
  what was added less what was removed; the version check is what makes the book that a
  save replaces the one the handler read.

`IdentityAssumption` asks of the initial documents that the schemas allow them and that
they hold no failed attempt, open link or address yet: the properties compare those with
the requests of the behaviour. A seller's document also starts with what its handlers
keep. `SellerAttemptsAssumption` and its twin for users: a limit is at least one.

### Browser sessions

`CallsInv` ties a call to the request it caused and to the token that request is given:
how often it was sent, whether it may still be retried, how far the server is. Every action
is shown to have one of eleven shapes (`Step`), over calls rather than records, and the
other invariants split on these. `TabsInv` is `OneRefreshPerTab` by calls. `HeldInv`: what
the browser stores, attaches or presents came with an answer that arrived, or from another
app, which is what makes a token that is only now being issued none of those; and as long
as no other app set the cookie, nothing of another app is found anywhere.

- `OutInv` is `SignedOutStays` from the moment the sign-out is sent: storage and cookie hold
  the same session of the account, if both hold one, so the one token that the call revokes
  is all of it. If it presented another account's, the session in storage stays alive at the
  server, but the answer empties storage, and the browser has no copy left.
- `AlarmInv` follows the reasons of an alarm: what storage and cookie hold differs from what
  any call that was answered has presented, unless a cookie set for a domain outlived a
  sign-out (`Outlives`); so a call that presents a token presented before overlaps the
  other, or the other's answer never came: it was lost, or it was another app's.
- `PeaceInv`: the hypothesis of `OneTabNeverFails` (`Peace`) cannot become true again once it
  failed, and while it lasts the session presented is live, at its one refresh is replaced
  by a live one, and nobody else is at the server (`Alone`).

### The back office

`CallsInv` types a request by the screen that sends it. Of the steps it is shown that a
request is sent, read, answered, ended, left behind or sent again (`Moves`), and of each
action what it does to the page (`RowShape`, `ArriveShape`, `LeaveShape` and so on, joined
in `StepShape`); nothing later looks at the actions. `SinglesInv`: a page that asks for its
rows once (`Single`: orders, refunds, a customer's orders, the edit form) is loading until
the answer, shows no control meanwhile, and so has no other request beside its list.

- `RefundsInv` (`DeskAssumption`: the screens of a workload are about one kind of document).
  Without a clash (`Clash`) an order's refunds are those that were not saved (`Unsaved`), or
  one more, and then the order says that its refund is completed; a decision or a request
  between its read and its write has read an order whose refund was not completed, so that
  one completed meanwhile is the other half of a clash. Whether the order is paid does not
  matter, which is why Paystack's event may pay it again.
- `QueueInv`: a row answered to a page of the queue shows at most as many requests as were
  made (`Heard`); a decision that was answered and has not reached the page has decided what
  the page shows (`Told`), which is why its row may leave (`Gone`).
- `FormsOpen` and `RowsOpen`: no two requests carry the same form, and a form that waits, or
  a row whose control is disabled, waits for a request that will still reach its page.
- `ReadingsInv` says of every row, wherever it is kept (a page, a form, an answer, Redis, a
  request on its way), that it is of a document that exists and that its stock and sales
  add up to what the product had when it was read (`IsRow`), up to stocks typed in since;
  so a form that leaves the stock as it was loses no piece unless its row was outdated.
- `TypedInv` types the fields no count depends on. With `BackOfficeAssumption` (the model
  value for "no document" is not a record) an empty row is told from a document.
- `ContentInv`: what a form writes bears its page and number, so a document made by a form
  that is still shown, or still on its way, betrays an earlier answer that was lost.
- `StatusInv`, of a seller's page whose requests came one after the other and were all
  answered (`Calm`): its rows, its panel and what it sent say the stored status, unless
  another page, or Paystack's event, wrote the status or a change of its own is under way.
- `QueryInv`: the last request of a page, with none beside it (`Last`), asks for the query
  the page names. `FreshInv` follows a request that nobody is beside and nobody follows
  (`Sole`) through its life: what it read is what is stored, what it is answered is what is
  stored (from Redis too, as every write of a product empties it: `KeysFresh`), and what
  its page shows after the answer stays so, but for what goes on without any page: the
  stock, and orders that Paystack's event wrote since the row was read (`Behind`: `events`,
  a history count, tells an older row).

### Money

The sums are folds over a set, and what a fold gives for every finite set needs an
induction. The library's induction theorems take an operator; its well-foundedness of the
strict subset ordering does not, and a *set* of subsets does as well as an operator
(`MinimalSubset`, `StrongInduction`, `SetInduction`). From the recursive function behind a
fold (`SumsUnique`, `SumsExist`) follows the one fact all others use: a sum may be taken
apart at any of its elements (`SumPick`), hence into two sets (`SumSplit`), and it is within
a bound if its terms are within theirs (`SumWithin`).

Without any state: a rounded amount is within half a unit (`RoundNear`), so is a converted
one (`ConvertedNear`), and the parts of a discount add up to it while each is within half a
hundredth for every other group (`AllocationSplits`). Two conversions of a sum and of its
terms give `ChargeNear`, the commission of a group `CommissionBounds`.

`CheckoutsInv` says of each checkout what was asked for, then that its orders came from one
split (`Totalled`) whose amounts all went through *one* table of rates, the present one
unless the rates have changed since the totals; `Place` converts the prices with the
present one, which is why `ItemsMatchSubtotal` needs that. `PaidOut`: what a payout was
made of is still there, its amounts as they were, and its amount is their sum.

The proofs corrected three bounds that the instance had not refuted. The upper bound on a
payout had been two units of the rate for each order, which holds for few groups only: the
last group's discount can exceed its subtotal by half a hundredth for each other group, and
the commission is then negative. The bound is now the sum of these excesses (`Excess`), and
`DiscountWithinOrder` says how large one can be. The share of a group in a discount is
within half a hundredth for each *other* group, not for each group; and where there is nothing to
round (`NothingToRound`: the base currency, prices in whole hundredths) refunds never exceed
the charge at all. At finer prices charge and orders are rounded apart even in the base
currency, by half a hundredth for each order and the charge.

### What stays with TLC

- Liveness (`ChargeReachesOrders`, `Answered`, `CacheConverges`, `CallsSettle`): the proof
  system has no rule for fairness. `ImplementsShop` and `ImplementsLedger` are refinements
  of safety specifications and are proved in full.
- ENABLED, and so whether a step can be taken: deadlock is checked by the runs of section 3
  whose systems never stop.

## 5. Plan

Done, in this order: the order documents, lifecycle and its proofs; payouts and the
ledger; the checkout and its abstract specification; money; accounts, sellers and
sessions; catalogue and reviews; the browser's sessions; the cart; the dashboards; then
the proofs of payouts, checkout, cart, catalogue, accounts, sessions, sellers, the
browser's sessions, the refund desk, the forms, the status shown to a seller, the rows and
the amounts.

Every safety property that a run checks is proved, and both refinements. What remains is a
wider model rather than more proofs: the profile of users and sellers, and the wishlist.

## 6. What is not modelled

- *Notifications*: e-mail and SMS are sent without waiting for them; the count of
  confirmations is all that other parts depend on.
- *Request pipeline*: Express set-up, validation schemas, rate limits, uploads, error
  answers and logging configure libraries. Inputs are those the schemas let through.
- *Analytics, SEO, configuration, scripts*: read-only reports, generated pages,
  environment parsing and seed data.
- *The mobile client*: a skeleton of a sign-in screen.
- Of modelled parts: profile fields, wishlist, preferred currency and store settings
  (single assignments nothing else reads); notes and locations of tracking events and the
  `PaymentEvent` log; pictures, wording and pagination beyond two pages; filters and
  sorting of the catalogue pages, which work on what they were answered; the seller's
  profile and payout pages and the dashboards' figures, which show one answer or send one
  form like those modelled; what Paystack does with a transfer after accepting it, as no
  handler listens for it.
