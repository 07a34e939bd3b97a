------------------------------- MODULE Checkout -------------------------------
(***************************************************************************)
(* placeOrder of backend/src/services/order.service.js, as concurrent      *)
(* requests, next to the cart handlers of cart.service.js.                 *)
(*                                                                         *)
(* Everything up to the payment initialisation happens outside the         *)
(* transaction, on snapshots read one after the other.  Inside it, MongoDB *)
(* takes a snapshot at the first operation, the first writer of a document *)
(* holds it until it commits or aborts, and a transaction that writes a    *)
(* document held by another, or committed since its own snapshot, gets a   *)
(* TransientTransactionError: withTransaction then aborts and runs the     *)
(* callback again.  A plain write waits for the holder.                    *)
(***************************************************************************)
EXTENDS ShopData, FiniteSetsExt

CONSTANTS
  Requests,      \* POST /api/orders requests, each sent once
  Buyer, Key,    \* Buyer[w] and Key[w] of request w
  WithCoupon,    \* requests that carry the coupon code
  ByPaystack,    \* requests paid through Paystack
  CartEdits,     \* cart requests, each editing many times
  InitialStock, InitialCart,
  UsageLimit, UsageLimitPerUser,   \* of the coupon
  MaxAttempts,   \* withTransaction gives up after its 120 s, here attempts
  MaxReturned,   \* units of a product that staff put back in stock
  MaxCrashes     \* requests that die half-way

ASSUME CheckoutAssumption ==
  /\ Buyer \in [Requests -> Users]
  /\ Key \in [Requests -> Keys \cup {NoKey}]
  /\ WithCoupon \subseteq Requests
  /\ ByPaystack \subseteq Requests
  /\ InitialStock \in [Products -> Nat]
  /\ InitialCart \in [Users -> Cart]
  /\ UsageLimit \in Nat /\ UsageLimitPerUser \in Nat
  /\ MaxAttempts \in Nat \ {0}
  /\ MaxReturned \in Nat /\ MaxCrashes \in Nat

VARIABLES
  stock,     \* stock[p]
  cart,      \* cart[u]: user.cartData
  placed,    \* the committed orders
  used,      \* used[u]: entries of coupon.usedBy; timesUsed is their number
  approved,  \* sellers whose status is "approved"
  req,       \* req[w]: progress of a checkout request
  reply,     \* reply[w]: its answer
  edit,      \* edit[e]: a cart request in flight
  returned, crashes

data == <<stock, cart, placed, used>>
vars == <<data, approved, req, reply, edit, returned, crashes>>

Labels == {"new", "user", "products", "coupon", "pay", "reserve", "create",
           "redeem", "clear", "duplicate", "respond", "done"}
Replies == {"none", "placed", "replay", "error", "lost"}

NewRequest == [pc |-> "new", cart |-> EmptyCart, attempt |-> 0, created |-> {},
               held |-> {}, missed |-> {}]
NoEdit == [pc |-> "idle", user |-> CHOOSE u \in Users : TRUE, read |-> EmptyCart]

Init ==
  /\ stock = InitialStock
  /\ cart = InitialCart
  /\ placed = {}
  /\ used = [u \in Users |-> 0]
  /\ approved = Sellers
  /\ req = [w \in Requests |-> NewRequest]
  /\ reply = [w \in Requests |-> [kind |-> "none", orders |-> {}]]
  /\ edit = [e \in CartEdits |-> NoEdit]
  /\ returned = [p \in Products |-> 0]
  /\ crashes = 0

-----------------------------------------------------------------------------
(* Documents, and who holds or has missed a write of them.                 *)

ProductDoc(p) == <<"product", p>>
CouponDoc == <<"coupon">>
UserDoc(u) == <<"user", u>>
KeyEntry(u, k) == <<"key", u, k>>   \* in the unique index {user, idempotencyKey}

InTransaction == {"create", "redeem", "clear"}

\* Mutation of HeldByOther: no write conflicts.
NeverHeld(w, docs) == FALSE

HeldByOther(w, docs) == \E v \in Requests \ {w} : req[v].held \cap docs # {}
Conflict(w, docs) == HeldByOther(w, docs) \/ req[w].missed \cap docs # {}
Waits(docs) == \E v \in Requests : req[v].held \cap docs # {}

\* Every open transaction learns that docs were written since its snapshot.
Missing(r, docs) ==
  [v \in Requests |-> IF r[v].pc \in InTransaction
                      THEN [r[v] EXCEPT !.missed = @ \cup docs] ELSE r[v]]

At(w, label) == req[w].pc = label
Advance(w, label) == req' = [req EXCEPT ![w].pc = label]

Answer(w, kind, orders) ==
  /\ req' = [req EXCEPT ![w] = [NewRequest EXCEPT !.pc = "done"]]
  /\ reply' = [reply EXCEPT ![w] = [kind |-> kind, orders |-> orders]]

Own(w) == OrdersFor(w, req[w].attempt, Buyer[w], Key[w], req[w].cart)

-----------------------------------------------------------------------------
(* Before the transaction                                                  *)

\* The replay check; a country the shop does not ship to is an error.
Submit(w) ==
  /\ At(w, "new")
  /\ LET known == WithKey(placed, Buyer[w], Key[w]) IN
     IF known # {} THEN Answer(w, "replay", known)
     ELSE \/ Advance(w, "user") /\ UNCHANGED reply
          \/ Answer(w, "error", {})
  /\ UNCHANGED <<data, approved, edit, returned, crashes>>

LoadUser(w) ==
  /\ At(w, "user")
  /\ req' = [req EXCEPT ![w].pc = "products", ![w].cart = cart[Buyer[w]]]
  /\ UNCHANGED <<data, approved, reply, edit, returned, crashes>>

\* buildOrderFromCart: a cart with items, all of the platform or of sellers
\* that are approved at this moment.
LoadProducts(w) ==
  /\ At(w, "products")
  /\ IF /\ InCart(req[w].cart) # {}
        /\ GroupsOf(req[w].cart) \subseteq approved \cup {Platform}
     THEN /\ Advance(w, IF w \in WithCoupon THEN "coupon"
                        ELSE IF w \in ByPaystack THEN "pay" ELSE "reserve")
          /\ UNCHANGED reply
     ELSE Answer(w, "error", {})
  /\ UNCHANGED <<data, approved, edit, returned, crashes>>

TimesUsed == MapThenSumSet(LAMBDA u : used[u], Users)

\* validateCoupon, outside the transaction.
ValidateCoupon(w) ==
  /\ At(w, "coupon")
  /\ IF TimesUsed < UsageLimit /\ used[Buyer[w]] < UsageLimitPerUser
     THEN /\ Advance(w, IF w \in ByPaystack THEN "pay" ELSE "reserve")
          /\ UNCHANGED reply
     ELSE Answer(w, "error", {})
  /\ UNCHANGED <<data, approved, edit, returned, crashes>>

\* initializeTransaction answers, or throws.
InitializePayment(w) ==
  /\ At(w, "pay")
  /\ \/ Advance(w, "reserve") /\ UNCHANGED reply
     \/ Answer(w, "error", {})
  /\ UNCHANGED <<data, approved, edit, returned, crashes>>

-----------------------------------------------------------------------------
(* The transaction                                                         *)

\* Mutation of Retry: no time limit.
RetryForever(w) ==
  /\ req' = [req EXCEPT ![w].pc = "reserve", ![w].held = {}, ![w].missed = {},
                        ![w].attempt = 0]
  /\ UNCHANGED reply

\* Abort, and run the callback again unless the time is up.  The array
\* `orders` is declared outside the callback and keeps what was pushed.
Retry(w) ==
  IF req[w].attempt < MaxAttempts
  THEN /\ req' = [req EXCEPT ![w].pc = "reserve", ![w].held = {}, ![w].missed = {}]
       /\ UNCHANGED reply
  ELSE Answer(w, "error", {})

\* Mutation of Short: no { $gte: quantity } in the update's filter.
NeverShort(w) == FALSE

Short(w) == \E p \in InCart(req[w].cart) : stock[p] < req[w].cart[p]

\* The first operation takes the snapshot; every item is decremented only
\* if its stock suffices.  Items are in no particular order here, so either
\* failure may be met first.
Reserve(w) ==
  /\ At(w, "reserve")
  /\ LET wanted == InCart(req[w].cart)
         docs == {ProductDoc(p) : p \in wanted}
         locked == HeldByOther(w, docs)
         begun == [req EXCEPT ![w].attempt = @ + 1]
     IN \/ /\ ~ locked /\ ~ Short(w)
           /\ req' = [begun EXCEPT ![w].pc = "create", ![w].held = docs]
           /\ UNCHANGED reply
        \/ /\ Short(w)
           /\ Answer(w, "error", {})
        \/ /\ locked
           /\ IF req[w].attempt + 1 < MaxAttempts
              THEN req' = begun /\ UNCHANGED reply
              ELSE Answer(w, "error", {})
  /\ UNCHANGED <<data, approved, edit, returned, crashes>>

\* Mutation of KeyTaken: no unique index.
KeyNeverTaken(w) == FALSE

\* The unique index refuses a second order with this user and key, whether
\* an earlier checkout or this very transaction inserted the first.
KeyTaken(w) ==
  Key[w] # NoKey /\ (WithKey(placed, Buyer[w], Key[w]) # {} \/ Cardinality(Own(w)) > 1)

\* orderNumber is drawn from 9000 values a day and unique as well.
NumberMayClash(w) == placed # {} \/ Cardinality(Own(w)) > 1

CreateOrders(w) ==
  /\ At(w, "create")
  /\ LET entry == IF Key[w] = NoKey THEN {} ELSE {KeyEntry(Buyer[w], Key[w])} IN
     IF Conflict(w, entry) THEN Retry(w)
     ELSE \/ /\ ~ KeyTaken(w)
             /\ req' = [req EXCEPT
                  ![w].pc = IF w \in WithCoupon THEN "redeem" ELSE "clear",
                  ![w].created = @ \cup Own(w), ![w].held = @ \cup entry]
             /\ UNCHANGED reply
          \/ /\ KeyTaken(w) \/ NumberMayClash(w)
             /\ IF Key[w] = NoKey THEN Answer(w, "error", {})
                ELSE /\ req' = [req EXCEPT ![w].pc = "duplicate", ![w].held = {},
                                           ![w].missed = {}]
                     /\ UNCHANGED reply
  /\ UNCHANGED <<data, approved, edit, returned, crashes>>

\* redeemCoupon increments without looking at the limits again.
RedeemCoupon(w) ==
  /\ At(w, "redeem")
  /\ IF Conflict(w, {CouponDoc}) THEN Retry(w)
     ELSE /\ req' = [req EXCEPT ![w].pc = "clear", ![w].held = @ \cup {CouponDoc}]
          /\ UNCHANGED reply
  /\ UNCHANGED <<data, approved, edit, returned, crashes>>

\* Mutations: stock and coupon written without the session, so that every
\* attempt of the callback leaves its mark.
StockAfterAttempts(w) == [p \in Products |-> stock[p] - req[w].attempt * req[w].cart[p]]
UsesOfAttempts(w) == req[w].attempt

StockAfter(w) == [p \in Products |-> stock[p] - req[w].cart[p]]
UsesAdded(w) == 1

\* Clearing the cart is the last write; then the transaction commits.
ClearCartAndCommit(w) ==
  /\ At(w, "clear")
  /\ LET u == Buyer[w] IN
     IF Conflict(w, {UserDoc(u)})
     THEN Retry(w) /\ UNCHANGED data
     ELSE /\ stock' = StockAfter(w)
          /\ placed' = placed \cup Own(w)
          /\ used' = IF w \in WithCoupon THEN [used EXCEPT ![u] = @ + UsesAdded(w)] ELSE used
          /\ cart' = [cart EXCEPT ![u] = EmptyCart]
          /\ req' = [Missing(req, req[w].held \cup {UserDoc(u)}) EXCEPT
               ![w] = [req[w] EXCEPT !.pc = "respond", !.held = {}, !.missed = {}]]
          /\ UNCHANGED reply
  /\ UNCHANGED <<approved, edit, returned, crashes>>

\* A fail-over or a lost connection inside the transaction.
TransientError(w) ==
  /\ req[w].pc \in InTransaction
  /\ Retry(w)
  /\ UNCHANGED <<data, approved, edit, returned, crashes>>

-----------------------------------------------------------------------------
(* After the transaction                                                   *)

\* IDEMPOTENCY_DUPLICATE: answer with the orders of the winner, if any.
Duplicate(w) ==
  /\ At(w, "duplicate")
  /\ LET winners == WithKey(placed, Buyer[w], Key[w]) IN
     IF winners # {} THEN Answer(w, "replay", winners) ELSE Answer(w, "error", {})
  /\ UNCHANGED <<data, approved, edit, returned, crashes>>

\* Confirmations for, and an answer with, everything in `orders`.
Respond(w) ==
  /\ At(w, "respond")
  /\ Answer(w, "placed", req[w].created)
  /\ UNCHANGED <<data, approved, edit, returned, crashes>>

\* The process dies, the client gives up, or the outcome of the commit stays
\* unknown for longer than withTransaction waits; an open transaction aborts.
Crash(w) ==
  /\ req[w].pc \notin {"new", "done"}
  /\ crashes < MaxCrashes
  /\ crashes' = crashes + 1
  /\ Answer(w, "lost", {})
  /\ UNCHANGED <<data, approved, edit, returned>>

-----------------------------------------------------------------------------
(* The surroundings: carts, seller approval, stock put back                *)

\* addToCart and updateCart read the whole cart ...
ReadCart(e, u) ==
  /\ edit[e].pc = "idle"
  /\ edit' = [edit EXCEPT ![e] = [pc |-> "save", user |-> u, read |-> cart[u]]]
  /\ UNCHANGED <<data, approved, req, reply, returned, crashes>>

\* ... and write the whole cart back, waiting for a checkout that holds it.
SaveCart(e, c) ==
  LET u == edit[e].user IN
  /\ edit[e].pc = "save"
  /\ ~ Waits({UserDoc(u)})
  /\ cart' = [cart EXCEPT ![u] = c]
  /\ req' = Missing(req, {UserDoc(u)})
  /\ edit' = [edit EXCEPT ![e] = NoEdit]
  /\ UNCHANGED <<stock, placed, used, approved, reply, returned, crashes>>

\* The soft stock check of addToCart reads the product before the user.
AddToCart(e, p) ==
  LET qty == edit[e].read[p] + 1 IN
  /\ edit[e].pc = "save"
  /\ qty <= MaxQty
  /\ SaveCart(e, [edit[e].read EXCEPT ![p] = qty])

UpdateCart(e, p, qty) == SaveCart(e, [edit[e].read EXCEPT ![p] = qty])

SetSellerStatus(s) ==
  /\ approved' = IF s \in approved THEN approved \ {s} ELSE approved \cup {s}
  /\ UNCHANGED <<data, req, reply, edit, returned, crashes>>

\* restoreStock of a cancellation or a refund, a plain write.
ReturnToStock(p) ==
  /\ returned[p] < MaxReturned
  /\ ~ Waits({ProductDoc(p)})
  /\ stock' = [stock EXCEPT ![p] = @ + 1]
  /\ returned' = [returned EXCEPT ![p] = @ + 1]
  /\ req' = Missing(req, {ProductDoc(p)})
  /\ UNCHANGED <<cart, placed, used, approved, reply, edit, crashes>>

-----------------------------------------------------------------------------
Step(w) ==
  \/ Submit(w) \/ LoadUser(w) \/ LoadProducts(w) \/ ValidateCoupon(w)
  \/ InitializePayment(w) \/ Reserve(w) \/ CreateOrders(w) \/ RedeemCoupon(w)
  \/ ClearCartAndCommit(w) \/ Duplicate(w) \/ Respond(w)

Surroundings ==
  \/ \E e \in CartEdits, u \in Users : ReadCart(e, u)
  \/ \E e \in CartEdits, p \in Products : AddToCart(e, p)
  \/ \E e \in CartEdits, p \in Products, qty \in 0..MaxQty : UpdateCart(e, p, qty)
  \/ \E s \in Sellers : SetSellerStatus(s)
  \/ \E p \in Products : ReturnToStock(p)

Next ==
  \/ \E w \in Requests : Step(w) \/ TransientError(w) \/ Crash(w)
  \/ Surroundings

Spec == Init /\ [][Next]_vars

\* A request the server has accepted is resumed after every await.
FairSpec == Spec /\ \A w \in Requests : WF_vars(Step(w))

Shop == INSTANCE AtomicCheckout
-----------------------------------------------------------------------------
(* Properties                                                              *)

OrderRecord ==
  [request: Requests, attempt: 1..MaxAttempts, user: Users, key: Keys \cup {NoKey},
   seller: Owners, items: Cart]
Docs == {ProductDoc(p) : p \in Products} \cup {CouponDoc}
          \cup {UserDoc(u) : u \in Users} \cup {KeyEntry(u, k) : u \in Users, k \in Keys}
RequestRecord ==
  [pc: Labels, cart: Cart, attempt: 0..MaxAttempts, created: SUBSET OrderRecord,
   held: SUBSET Docs, missed: SUBSET Docs]

\* Types of all variables.
TypeOK ==
  /\ stock \in [Products -> Nat]
  /\ cart \in [Users -> Cart]
  /\ placed \subseteq OrderRecord
  /\ used \in [Users -> Nat]
  /\ approved \subseteq Sellers
  /\ req \in [Requests -> RequestRecord]
  /\ reply \in [Requests -> [kind: Replies, orders: SUBSET OrderRecord]]
  /\ edit \in [CartEdits -> [pc: {"idle", "save"}, user: Users, read: Cart]]
  /\ returned \in [Products -> 0..MaxReturned]
  /\ crashes \in 0..MaxCrashes

\* The units of a product in committed orders, and how many they are.
UnitsSold(p) == UNION {{d} \X (1..d.items[p]) : d \in placed}
Sold(p) == Cardinality(UnitsSold(p))

\* No overselling and no leaked reservation: under concurrent checkouts,
\* aborted attempts, retries and crashes, the units of a product in stock
\* and in committed orders are the units there ever were
\* (tryDecrementStock, reserveStock, the transaction of placeOrder).
StockConserved ==
  \A p \in Products :
    /\ stock[p] >= 0
    /\ stock[p] + Sold(p) = InitialStock[p] + returned[p]

\* What checkouts keep at every step: typed state, and no piece of stock
\* sold twice, lost or made up.
CheckoutInv == TypeOK /\ StockConserved

\* A double-click or a client retry buys once: all orders with one user and
\* idempotency key come from one request (the replay check, the unique
\* index and the duplicate handling of placeOrder).
OneCheckoutPerKey ==
  \A d1, d2 \in placed :
    d1.user = d2.user /\ d1.key = d2.key /\ d1.key # NoKey => d1.request = d2.request

\* A coupon is used by a checkout, not by each of its orders or attempts:
\* its uses by a user are that user's requests with the coupon that have
\* orders (redeemCoupon inside the transaction).
CouponUsedPerCheckout ==
  \A u \in Users :
    used[u] = Cardinality({w \in WithCoupon : \E d \in placed : d.request = w /\ d.user = u})

\* An answer is the truth about what happened: an error means that the
\* request left no order, a replay shows committed orders of this user and
\* key, and a success shows all orders that were committed for the request.
AnswerMatchesOutcome ==
  \A w \in Requests :
    LET own == {d \in placed : d.request = w} IN
    /\ reply[w].kind \in {"error", "replay"} => own = {}
    /\ reply[w].kind = "replay" =>
         /\ reply[w].orders # {}
         /\ reply[w].orders \subseteq placed
         /\ \A d \in reply[w].orders : d.user = Buyer[w] /\ d.key = Key[w]
    /\ reply[w].kind = "placed" => own # {} /\ own \subseteq reply[w].orders

\* The checkouts implement the atomic one.
ImplementsShop == Shop!Spec

\* Every request gets an answer: transactions that abort each other do not
\* go on doing so for ever.
Answered == \A w \in Requests : <>(req[w].pc = "done")

-----------------------------------------------------------------------------
(* A statement of the documentation that the code does not keep            *)

\* "a cart spanning multiple sellers is split into one Order per seller":
\* only a key that some order carries makes a checkout a duplicate.
DuplicateHasWinner ==
  \A w \in Requests :
    req[w].pc = "duplicate" => WithKey(placed, Buyer[w], Key[w]) # {}
=============================================================================
