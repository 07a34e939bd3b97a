--------------------------- MODULE Checkout_proofs ---------------------------
(***************************************************************************)
(* Proofs about Checkout, for any number of requests, users, keys,         *)
(* products, sellers, attempts and crashes.                                *)
(***************************************************************************)
EXTENDS Checkout, FiniteSetTheorems, TLAPS

-----------------------------------------------------------------------------
(* The invariant.                                                          *)
(*                                                                         *)
(* What a checkout may do at its commit rests on what its transaction has  *)
(* done before, and on nobody undoing that: the documents it has written   *)
(* are held, by one transaction at a time.  So the stock it has reserved   *)
(* is still there, and its key still unused.                               *)

Ordered(w) == {d \in placed : d.request = w}

\* What a request has established when it is at a label.
Progress(w) ==
  LET r == req[w] IN
  /\ r.pc \notin {"respond", "done"} => Ordered(w) = {}
  /\ r.pc # "done" => reply[w].kind = "none"
  /\ r.pc \in {"new", "user", "products", "coupon", "pay", "reserve"}
       => r.attempt < MaxAttempts
  /\ r.pc \in {"coupon", "pay", "reserve"} \cup InTransaction => InCart(r.cart) # {}
  /\ r.pc \in InTransaction =>
       /\ r.attempt > 0
       /\ \A p \in InCart(r.cart) : ProductDoc(p) \in r.held /\ r.cart[p] <= stock[p]
  /\ r.pc \in {"redeem", "clear"} =>
       /\ Own(w) \subseteq r.created
       /\ Key[w] # NoKey => /\ KeyEntry(Buyer[w], Key[w]) \in r.held
                            /\ WithKey(placed, Buyer[w], Key[w]) = {}
  /\ r.pc = "respond" => Ordered(w) # {} /\ Ordered(w) \subseteq r.created

\* What AnswerMatchesOutcome says of one request.
Truthful(w) ==
  /\ reply[w].kind \in {"error", "replay"} => Ordered(w) = {}
  /\ reply[w].kind = "replay" =>
       /\ reply[w].orders # {}
       /\ reply[w].orders \subseteq placed
       /\ \A d \in reply[w].orders : d.user = Buyer[w] /\ d.key = Key[w]
  /\ reply[w].kind = "placed" => Ordered(w) # {} /\ Ordered(w) \subseteq reply[w].orders

HeldApart == \A v, w \in Requests : v # w => req[v].held \cap req[w].held = {}

PlacedByRequest == \A d \in placed : d.user = Buyer[d.request] /\ d.key = Key[d.request]

RequestsInv ==
  /\ TypeOK
  /\ HeldApart
  /\ PlacedByRequest
  /\ OneCheckoutPerKey
  /\ \A w \in Requests : Progress(w) /\ Truthful(w)

-----------------------------------------------------------------------------
(* Carts and the orders made of them.                                      *)

ReplyRecord == [kind: Replies, orders: SUBSET OrderRecord]

LEMMA EmptyCartType == EmptyCart \in Cart
BY ShopDataAssumption DEF EmptyCart, Cart

LEMMA ItemsType ==
  ASSUME NEW c \in Cart, NEW g
  PROVE  ItemsOf(c, g) \in Cart
BY ShopDataAssumption DEF ItemsOf, Cart

\* The orders of a cart are well formed and belong to the request.
LEMMA OrdersOfCart ==
  ASSUME NEW w \in Requests, NEW n \in 1..MaxAttempts, NEW c \in Cart
  PROVE  /\ OrdersFor(w, n, Buyer[w], Key[w], c) \subseteq OrderRecord
         /\ \A d \in OrdersFor(w, n, Buyer[w], Key[w], c) :
              d.request = w /\ d.user = Buyer[w] /\ d.key = Key[w]
         /\ InCart(c) # {} => OrdersFor(w, n, Buyer[w], Key[w], c) # {}
<1>1. GroupsOf(c) \subseteq Owners
  BY ShopDataAssumption DEF GroupsOf, InCart, Owners
<1>2. \A g \in GroupsOf(c) : OrderOf(w, n, Buyer[w], Key[w], c, g) \in OrderRecord
  BY <1>1, ItemsType, CheckoutAssumption DEF OrderOf, OrderRecord
<1>3. \A g : /\ OrderOf(w, n, Buyer[w], Key[w], c, g).request = w
             /\ OrderOf(w, n, Buyer[w], Key[w], c, g).user = Buyer[w]
             /\ OrderOf(w, n, Buyer[w], Key[w], c, g).key = Key[w]
  BY DEF OrderOf
<1>4. InCart(c) # {} => GroupsOf(c) # {}
  BY DEF GroupsOf
<1> QED
  BY <1>2, <1>3, <1>4 DEF OrdersFor

\* The same of the cart a transaction works on.
LEMMA OwnOrders ==
  ASSUME RequestsInv, NEW w \in Requests, req[w].pc \in InTransaction
  PROVE  /\ Own(w) \subseteq OrderRecord
         /\ \A d \in Own(w) : d.request = w /\ d.user = Buyer[w] /\ d.key = Key[w]
         /\ Own(w) # {}
<1>1. req[w] \in RequestRecord /\ Progress(w)
  BY DEF RequestsInv, TypeOK
<1>2. req[w].attempt \in 1..MaxAttempts /\ req[w].cart \in Cart
  BY <1>1, CheckoutAssumption DEF RequestRecord, Progress
<1>3. InCart(req[w].cart) # {}
  BY <1>1 DEF Progress
<1> QED
  BY <1>2, <1>3, OrdersOfCart DEF Own

LEMMA NewRequestType == NewRequest \in RequestRecord
BY EmptyCartType, CheckoutAssumption DEF NewRequest, RequestRecord, Labels

LEMMA NoEditType == NoEdit \in [pc: {"idle", "save"}, user: Users, read: Cart]
<1>1. (CHOOSE u \in Users : TRUE) \in Users
  BY ShopDataAssumption
<1> QED
  BY <1>1, EmptyCartType DEF NoEdit

LEMMA RequestsInit == Init => RequestsInv
<1> SUFFICES ASSUME Init PROVE RequestsInv
  OBVIOUS
<1>1. TypeOK
  BY NewRequestType, NoEditType, CheckoutAssumption, ShopDataAssumption
     DEF Init, TypeOK, Replies
<1>2. \A w \in Requests : /\ req[w] = NewRequest /\ reply[w].kind = "none"
                          /\ Ordered(w) = {}
  BY DEF Init, Ordered
<1>3. HeldApart
  BY <1>2 DEF HeldApart, NewRequest
<1>4. \A w \in Requests : Progress(w) /\ Truthful(w)
  BY <1>2, CheckoutAssumption DEF Progress, Truthful, NewRequest, InTransaction
<1> QED
  BY <1>1, <1>3, <1>4 DEF RequestsInv, Init, PlacedByRequest, OneCheckoutPerKey

-----------------------------------------------------------------------------
(* Steps of one request that commit nothing.                               *)

LEMMA RequestMoves ==
  ASSUME RequestsInv, NEW w \in Requests, UNCHANGED <<data, approved, edit, returned>>,
         crashes' \in 0..MaxCrashes,
         NEW r \in RequestRecord, req' = [req EXCEPT ![w] = r],
         NEW a \in ReplyRecord, reply' = [reply EXCEPT ![w] = a],
         \A v \in Requests \ {w} : req[v].held \cap r.held = {},
         Progress(w)', Truthful(w)'
  PROVE  RequestsInv'
<1>1. TypeOK'
  BY DEF RequestsInv, TypeOK, data, ReplyRecord
<1>2. /\ req'[w] = r
      /\ \A v \in Requests \ {w} : req'[v] = req[v] /\ reply'[v] = reply[v]
  BY DEF RequestsInv, TypeOK
<1>3. HeldApart'
  BY <1>2 DEF RequestsInv, HeldApart
<1>4. PlacedByRequest' /\ OneCheckoutPerKey'
  BY DEF RequestsInv, PlacedByRequest, OneCheckoutPerKey, data
<1>5. \A v \in Requests \ {w} : Progress(v)' /\ Truthful(v)'
  <2> SUFFICES ASSUME NEW v \in Requests \ {w} PROVE Progress(v)' /\ Truthful(v)'
    OBVIOUS
  <2>1. /\ req'[v] = req[v] /\ reply'[v] = reply[v] /\ UNCHANGED <<placed, stock>>
        /\ Progress(v) /\ Truthful(v)
    BY <1>2 DEF RequestsInv, data
  <2>2. Ordered(v)' = Ordered(v) /\ Own(v)' = Own(v)
    BY <2>1 DEF Ordered, Own
  <2> QED
    BY <2>1, <2>2 DEF Progress, Truthful
<1> QED
  BY <1>1, <1>3, <1>4, <1>5 DEF RequestsInv

\* A request is answered with the truth.
LEMMA AnswerMoves ==
  ASSUME RequestsInv, NEW w \in Requests, UNCHANGED <<data, approved, edit, returned>>,
         crashes' \in 0..MaxCrashes,
         NEW kind \in Replies \ {"none"}, NEW S \in SUBSET OrderRecord, Answer(w, kind, S),
         req[w].pc # "done",
         kind \in {"error", "replay"} => req[w].pc # "respond",
         kind = "replay" => S = WithKey(placed, Buyer[w], Key[w]) /\ S # {},
         kind = "placed" => req[w].pc = "respond" /\ S = req[w].created
  PROVE  RequestsInv'
<1> DEFINE r == [NewRequest EXCEPT !.pc = "done"]
           a == [kind |-> kind, orders |-> S]
<1>1. r \in RequestRecord /\ r.pc = "done" /\ r.held = {}
  BY NewRequestType DEF RequestRecord, Labels, NewRequest
<1>2. a \in ReplyRecord
  BY DEF ReplyRecord
<1>3. /\ req' = [req EXCEPT ![w] = r]
      /\ reply' = [reply EXCEPT ![w] = a]
      /\ req'[w] = r /\ reply'[w] = a
  BY DEF Answer, RequestsInv, TypeOK
<1>4. Progress(w)'
  BY <1>1, <1>3 DEF Progress, InTransaction
<1>5. Truthful(w)'
  <2>1. Ordered(w)' = Ordered(w) /\ UNCHANGED placed
    BY DEF Ordered, data
  <2>2. Progress(w)
    BY DEF RequestsInv
  <2>3. reply'[w].kind = kind /\ reply'[w].orders = S
    BY <1>3
  <2>4. kind \in {"error", "replay"} => Ordered(w) = {}
    BY <2>2 DEF Progress
  <2>5. kind = "placed" => Ordered(w) # {} /\ Ordered(w) \subseteq S
    BY <2>2 DEF Progress
  <2>6. kind = "replay" => /\ S # {} /\ S \subseteq placed
                           /\ \A d \in S : d.user = Buyer[w] /\ d.key = Key[w]
    BY DEF WithKey
  <2> QED
    BY <2>1, <2>3, <2>4, <2>5, <2>6 DEF Truthful
<1> HIDE DEF r, a
<1> QED
  BY <1>1, <1>2, <1>3, <1>4, <1>5, RequestMoves

\* A request goes on without an answer.
LEMMA RequestGoesOn ==
  ASSUME RequestsInv, NEW w \in Requests, UNCHANGED <<data, approved, edit, returned>>,
         UNCHANGED <<reply, crashes>>,
         NEW r \in RequestRecord, req' = [req EXCEPT ![w] = r],
         \A v \in Requests \ {w} : req[v].held \cap r.held = {},
         req[w].pc \notin {"respond", "done"},
         Progress(w)'
  PROVE  RequestsInv'
<1>1. /\ reply[w] \in ReplyRecord /\ crashes \in 0..MaxCrashes
      /\ reply' = [reply EXCEPT ![w] = reply[w]]
  BY DEF RequestsInv, TypeOK, ReplyRecord
<1>2. Ordered(w)' = Ordered(w) /\ UNCHANGED placed
  BY DEF Ordered, data
<1>3. Truthful(w)'
  BY <1>2 DEF Truthful, RequestsInv
<1> QED
  BY <1>1, <1>3, RequestMoves
\* Moving on before the transaction.
LEMMA EarlyAdvance ==
  ASSUME RequestsInv, NEW w \in Requests, UNCHANGED <<data, approved, edit, returned>>,
         UNCHANGED <<reply, crashes>>,
         NEW label \in {"user", "products", "coupon", "pay", "reserve"}, Advance(w, label),
         req[w].pc \in {"new", "user", "products", "coupon", "pay"},
         label \in {"coupon", "pay", "reserve"} => InCart(req[w].cart) # {}
  PROVE  RequestsInv'
<1> DEFINE r == [req[w] EXCEPT !.pc = label]
<1>1. req[w] \in RequestRecord /\ Progress(w)
  BY DEF RequestsInv, TypeOK
<1>2. /\ r \in RequestRecord /\ r.pc = label /\ r.held = req[w].held
      /\ r.attempt = req[w].attempt /\ r.cart = req[w].cart
  BY <1>1 DEF RequestRecord, Labels
<1>3. req' = [req EXCEPT ![w] = r] /\ req'[w] = r
  BY DEF Advance, RequestsInv, TypeOK
<1>4. Progress(w)'
  <2>1. Ordered(w)' = {} /\ reply'[w].kind = "none"
    BY <1>1 DEF Progress, Ordered, data
  <2>2. r.attempt < MaxAttempts
    BY <1>1, <1>2 DEF Progress
  <2> HIDE DEF r
  <2> QED
    BY <1>2, <1>3, <2>1, <2>2 DEF Progress, InTransaction
<1>5. \A v \in Requests \ {w} : req[v].held \cap r.held = {}
  BY <1>2 DEF RequestsInv, HeldApart
<1> HIDE DEF r
<1> QED
  BY <1>2, <1>3, <1>4, <1>5, RequestGoesOn

\* The transaction aborts and runs again, or gives up.
LEMMA RetryMoves ==
  ASSUME RequestsInv, NEW w \in Requests, UNCHANGED <<data, approved, edit, returned>>,
         UNCHANGED crashes, req[w].pc \in InTransaction, Retry(w)
  PROVE  RequestsInv'
<1>0. /\ req[w] \in RequestRecord /\ Progress(w)
      /\ crashes \in 0..MaxCrashes
  BY DEF RequestsInv, TypeOK
<1>1. CASE req[w].attempt < MaxAttempts
  <2> DEFINE r == [req[w] EXCEPT !.pc = "reserve", !.held = {}, !.missed = {}]
  <2>1. /\ r \in RequestRecord /\ r.pc = "reserve" /\ r.held = {}
        /\ r.attempt = req[w].attempt /\ r.cart = req[w].cart
    BY <1>0 DEF RequestRecord, Labels
  <2>2. req' = [req EXCEPT ![w] = r] /\ UNCHANGED reply /\ req'[w] = r
    BY <1>1 DEF Retry, RequestsInv, TypeOK
  <2>3. Progress(w)'
    <3>1. Ordered(w)' = {} /\ reply'[w].kind = "none"
      BY <1>0, <2>2 DEF Progress, Ordered, data, InTransaction
    <3>2. InCart(r.cart) # {} /\ r.attempt < MaxAttempts
      BY <1>0, <1>1, <2>1 DEF Progress
    <3> HIDE DEF r
    <3> QED
      BY <2>1, <2>2, <3>1, <3>2 DEF Progress, InTransaction
  <2> HIDE DEF r
  <2> QED
    BY <2>1, <2>2, <2>3, RequestGoesOn DEF InTransaction
<1>2. CASE ~ (req[w].attempt < MaxAttempts)
  <2>1. Answer(w, "error", {})
    BY <1>2 DEF Retry
  <2> QED
    BY <1>0, <2>1, AnswerMoves DEF Replies, InTransaction
<1> QED
  BY <1>1, <1>2

\* A request moves on within its transaction.
LEMMA TransactionMoves ==
  ASSUME RequestsInv, NEW w \in Requests, UNCHANGED <<data, approved, edit, returned>>,
         UNCHANGED <<reply, crashes>>,
         req[w].pc \in {"reserve", "create", "redeem"},
         NEW r \in RequestRecord, req' = [req EXCEPT ![w] = r],
         \A v \in Requests \ {w} : req[v].held \cap r.held = {},
         r.pc \in InTransaction, r.attempt > 0, r.cart = req[w].cart,
         \A p \in InCart(r.cart) : ProductDoc(p) \in r.held /\ r.cart[p] <= stock[p],
         r.pc \in {"redeem", "clear"} =>
           /\ OrdersFor(w, r.attempt, Buyer[w], Key[w], r.cart) \subseteq r.created
           /\ Key[w] # NoKey => /\ KeyEntry(Buyer[w], Key[w]) \in r.held
                                /\ WithKey(placed, Buyer[w], Key[w]) = {}
  PROVE  RequestsInv'
<1>1. req'[w] = r /\ UNCHANGED <<placed, stock>>
  BY DEF RequestsInv, TypeOK, data
<1>2. Progress(w)
  BY DEF RequestsInv
<1>3. Ordered(w)' = {} /\ reply'[w].kind = "none" /\ InCart(r.cart) # {}
  BY <1>2 DEF Progress, Ordered, data, InTransaction
<1>4. Own(w)' = OrdersFor(w, r.attempt, Buyer[w], Key[w], r.cart)
  BY <1>1 DEF Own
<1>5. Progress(w)'
  BY <1>1, <1>3, <1>4 DEF Progress, InTransaction
<1> QED
  BY <1>5, RequestGoesOn

LEMMA ReserveMoves ==
  ASSUME RequestsInv, NEW w \in Requests, Reserve(w)
  PROVE  RequestsInv'
<1> DEFINE docs == {ProductDoc(p) : p \in InCart(req[w].cart)}
           begun == [req[w] EXCEPT !.attempt = @ + 1]
<1>0. /\ req[w] \in RequestRecord /\ Progress(w) /\ req[w].pc = "reserve"
      /\ UNCHANGED <<data, approved, edit, returned, crashes>>
      /\ crashes \in 0..MaxCrashes
  BY DEF RequestsInv, TypeOK, Reserve, At
<1>1. req[w].attempt < MaxAttempts /\ InCart(req[w].cart) # {} /\ req[w].attempt \in Nat
  BY <1>0, CheckoutAssumption DEF Progress, RequestRecord
<1>2. /\ begun \in RequestRecord /\ begun.pc = "reserve" /\ begun.cart = req[w].cart
      /\ begun.attempt = req[w].attempt + 1 /\ begun.held = req[w].held
  BY <1>0, <1>1, CheckoutAssumption DEF RequestRecord
<1>3. CASE Answer(w, "error", {})
  BY <1>0, <1>3, AnswerMoves DEF Replies
<1>4. CASE /\ ~ HeldByOther(w, docs) /\ ~ Short(w)
           /\ req' = [[req EXCEPT ![w].attempt = @ + 1] EXCEPT
                        ![w].pc = "create", ![w].held = docs]
           /\ UNCHANGED reply
  <2> DEFINE r == [begun EXCEPT !.pc = "create", !.held = docs]
  <2>1. docs \subseteq Docs
    BY DEF Docs, InCart
  <2> HIDE DEF docs
  <2>2. /\ r \in RequestRecord /\ r.pc = "create" /\ r.held = docs
        /\ r.cart = req[w].cart /\ r.attempt > 0
    <3> HIDE DEF begun
    <3>1. r \in RequestRecord /\ r.pc = "create" /\ r.held = docs
      BY <1>2, <2>1 DEF RequestRecord, Labels
    <3>2. r.cart = req[w].cart /\ r.attempt = req[w].attempt + 1
      BY <1>2 DEF RequestRecord
    <3> QED
      BY <1>1, <3>1, <3>2
  <2>3. req' = [req EXCEPT ![w] = r]
    BY <1>0, <1>4 DEF RequestsInv, TypeOK, RequestRecord, docs
  <2>4. \A v \in Requests \ {w} : req[v].held \cap docs = {}
    BY <1>4 DEF HeldByOther, docs
  <2>5. \A p \in InCart(req[w].cart) : ProductDoc(p) \in docs /\ req[w].cart[p] <= stock[p]
    <3> SUFFICES ASSUME NEW p \in InCart(req[w].cart) PROVE req[w].cart[p] <= stock[p]
      BY DEF docs
    <3>1. stock[p] \in Nat /\ req[w].cart[p] \in Nat
      BY <1>0, ShopDataAssumption DEF RequestsInv, TypeOK, InCart, RequestRecord, Cart
    <3> QED
      BY <1>4, <3>1 DEF Short
  <2> HIDE DEF r
  <2> QED
    BY <1>0, <1>4, <2>2, <2>3, <2>4, <2>5, TransactionMoves DEF InTransaction
<1>5. CASE /\ req[w].attempt + 1 < MaxAttempts
           /\ req' = [req EXCEPT ![w].attempt = @ + 1] /\ UNCHANGED reply
  <2>1. req' = [req EXCEPT ![w] = begun] /\ req'[w] = begun
    BY <1>0, <1>5 DEF RequestsInv, TypeOK
  <2>2. Progress(w)'
    <3>1. Ordered(w)' = {} /\ reply'[w].kind = "none"
      BY <1>0, <1>5 DEF Progress, Ordered, data
    <3> HIDE DEF begun
    <3> QED
      BY <1>1, <1>2, <1>5, <2>1, <3>1 DEF Progress, InTransaction
  <2>3. \A v \in Requests \ {w} : req[v].held \cap begun.held = {}
    BY <1>2 DEF RequestsInv, HeldApart
  <2> HIDE DEF begun
  <2> QED
    BY <1>0, <1>2, <1>5, <2>1, <2>2, <2>3, RequestGoesOn
<1> QED
  BY <1>3, <1>4, <1>5 DEF Reserve

LEMMA CreateMoves ==
  ASSUME RequestsInv, NEW w \in Requests, CreateOrders(w)
  PROVE  RequestsInv'
<1> DEFINE entry == IF Key[w] = NoKey THEN {} ELSE {KeyEntry(Buyer[w], Key[w])}
<1>0. /\ req[w] \in RequestRecord /\ Progress(w) /\ req[w].pc = "create"
      /\ UNCHANGED <<data, approved, edit, returned, crashes>>
      /\ crashes \in 0..MaxCrashes
  BY DEF RequestsInv, TypeOK, CreateOrders, At
<1>1. CASE Retry(w)
  BY <1>0, <1>1, RetryMoves DEF InTransaction
<1>2. CASE Answer(w, "error", {})
  BY <1>0, <1>2, AnswerMoves DEF Replies
<1>3. CASE /\ ~ Conflict(w, entry) /\ ~ KeyTaken(w)
           /\ req' = [req EXCEPT
                ![w].pc = IF w \in WithCoupon THEN "redeem" ELSE "clear",
                ![w].created = @ \cup Own(w), ![w].held = @ \cup entry]
           /\ UNCHANGED reply
  <2> DEFINE r == [req[w] EXCEPT !.pc = IF w \in WithCoupon THEN "redeem" ELSE "clear",
                                 !.created = @ \cup Own(w), !.held = @ \cup entry]
  <2>1. entry \subseteq Docs
    BY CheckoutAssumption DEF Docs
  <2>2. Own(w) \subseteq OrderRecord
    BY <1>0, OwnOrders DEF InTransaction
  <2>3. /\ r \in RequestRecord /\ r.pc \in {"redeem", "clear"}
        /\ r.held = req[w].held \cup entry /\ r.created = req[w].created \cup Own(w)
        /\ r.cart = req[w].cart /\ r.attempt = req[w].attempt
    BY <1>0, <2>1, <2>2 DEF RequestRecord, Labels
  <2>4. req' = [req EXCEPT ![w] = r]
    BY <1>3 DEF RequestsInv, TypeOK
  <2>5. \A v \in Requests \ {w} : req[v].held \cap r.held = {}
    BY <1>3, <2>3 DEF RequestsInv, HeldApart, Conflict, HeldByOther
  <2>6. /\ req[w].attempt > 0
        /\ \A p \in InCart(req[w].cart) :
             ProductDoc(p) \in req[w].held /\ req[w].cart[p] <= stock[p]
    BY <1>0 DEF Progress, InTransaction
  <2>7. Key[w] # NoKey => WithKey(placed, Buyer[w], Key[w]) = {}
    BY <1>3 DEF KeyTaken
  <2> HIDE DEF r
  <2> QED
    BY <1>0, <1>3, <2>3, <2>4, <2>5, <2>6, <2>7, TransactionMoves DEF InTransaction, Own
<1>4. CASE /\ req' = [req EXCEPT ![w].pc = "duplicate", ![w].held = {}, ![w].missed = {}]
           /\ UNCHANGED reply
  <2> DEFINE r == [req[w] EXCEPT !.pc = "duplicate", !.held = {}, !.missed = {}]
  <2>1. r \in RequestRecord /\ r.pc = "duplicate" /\ r.held = {}
    BY <1>0 DEF RequestRecord, Labels
  <2>2. req' = [req EXCEPT ![w] = r] /\ req'[w] = r
    BY <1>4 DEF RequestsInv, TypeOK
  <2>3. Ordered(w)' = {} /\ reply'[w].kind = "none"
    BY <1>0, <1>4 DEF Progress, Ordered, data
  <2> HIDE DEF r
  <2>4. Progress(w)'
    BY <2>1, <2>2, <2>3 DEF Progress, InTransaction
  <2> QED
    BY <1>0, <1>4, <2>1, <2>2, <2>4, RequestGoesOn
<1> QED
  BY <1>1, <1>2, <1>3, <1>4 DEF CreateOrders

LEMMA RedeemMoves ==
  ASSUME RequestsInv, NEW w \in Requests, RedeemCoupon(w)
  PROVE  RequestsInv'
<1>0. /\ req[w] \in RequestRecord /\ Progress(w) /\ req[w].pc = "redeem"
      /\ UNCHANGED <<data, approved, edit, returned, crashes>>
  BY DEF RequestsInv, TypeOK, RedeemCoupon, At
<1>1. CASE Retry(w)
  BY <1>0, <1>1, RetryMoves DEF InTransaction
<1>2. CASE /\ ~ Conflict(w, {CouponDoc})
           /\ req' = [req EXCEPT ![w].pc = "clear", ![w].held = @ \cup {CouponDoc}]
           /\ UNCHANGED reply
  <2> DEFINE r == [req[w] EXCEPT !.pc = "clear", !.held = @ \cup {CouponDoc}]
  <2>1. /\ r \in RequestRecord /\ r.pc = "clear" /\ r.held = req[w].held \cup {CouponDoc}
        /\ r.created = req[w].created /\ r.cart = req[w].cart /\ r.attempt = req[w].attempt
    <3>1. CouponDoc \in Docs
      BY DEF Docs
    <3> QED
      BY <1>0, <3>1 DEF RequestRecord, Labels
  <2>2. req' = [req EXCEPT ![w] = r]
    BY <1>2 DEF RequestsInv, TypeOK
  <2>3. \A v \in Requests \ {w} : req[v].held \cap r.held = {}
    BY <1>2, <2>1 DEF RequestsInv, HeldApart, Conflict, HeldByOther
  <2>4. /\ req[w].attempt > 0
        /\ \A p \in InCart(req[w].cart) :
             ProductDoc(p) \in req[w].held /\ req[w].cart[p] <= stock[p]
        /\ Own(w) \subseteq req[w].created
        /\ Key[w] # NoKey => /\ KeyEntry(Buyer[w], Key[w]) \in req[w].held
                             /\ WithKey(placed, Buyer[w], Key[w]) = {}
    BY <1>0 DEF Progress, InTransaction
  <2> HIDE DEF r
  <2> QED
    BY <1>0, <1>2, <2>1, <2>2, <2>3, <2>4, TransactionMoves DEF InTransaction, Own
<1> QED
  BY <1>1, <1>2 DEF RedeemCoupon
-----------------------------------------------------------------------------
(* The commit, and the surroundings.                                       *)

\* To miss a write changes nothing else of a request.
LEMMA MissingFields ==
  ASSUME RequestsInv, NEW docs \in SUBSET Docs
  PROVE  /\ Missing(req, docs) \in [Requests -> RequestRecord]
         /\ \A v \in Requests :
              /\ Missing(req, docs)[v].pc = req[v].pc
              /\ Missing(req, docs)[v].cart = req[v].cart
              /\ Missing(req, docs)[v].attempt = req[v].attempt
              /\ Missing(req, docs)[v].created = req[v].created
              /\ Missing(req, docs)[v].held = req[v].held
<1> SUFFICES ASSUME NEW v \in Requests
             PROVE  /\ Missing(req, docs)[v] \in RequestRecord
                    /\ Missing(req, docs)[v].pc = req[v].pc
                    /\ Missing(req, docs)[v].cart = req[v].cart
                    /\ Missing(req, docs)[v].attempt = req[v].attempt
                    /\ Missing(req, docs)[v].created = req[v].created
                    /\ Missing(req, docs)[v].held = req[v].held
  BY DEF Missing
<1> DEFINE r == req[v]
           m == [r EXCEPT !.missed = @ \cup docs]
<1>1. r \in RequestRecord
  BY DEF RequestsInv, TypeOK
<1>2. /\ m \in RequestRecord /\ m.pc = r.pc /\ m.cart = r.cart /\ m.attempt = r.attempt
      /\ m.created = r.created /\ m.held = r.held
  BY <1>1 DEF RequestRecord
<1>3. Missing(req, docs)[v] \in {r, m}
  BY DEF Missing
<1> QED
  BY <1>1, <1>2, <1>3

\* A request that is not touched but for what it misses keeps what it has
\* established, if its reservations and its key are left alone.
LEMMA OtherKept ==
  ASSUME RequestsInv, NEW v \in Requests,
         req'[v].pc = req[v].pc, req'[v].cart = req[v].cart,
         req'[v].attempt = req[v].attempt, req'[v].created = req[v].created,
         req'[v].held = req[v].held,
         reply'[v] = reply[v],
         Ordered(v)' = Ordered(v), placed \subseteq placed',
         \A p \in Products : ProductDoc(p) \in req[v].held => stock'[p] >= stock[p],
         stock' \in [Products -> Nat],
         Key[v] # NoKey /\ KeyEntry(Buyer[v], Key[v]) \in req[v].held
           => WithKey(placed', Buyer[v], Key[v]) = WithKey(placed, Buyer[v], Key[v])
  PROVE  Progress(v)' /\ Truthful(v)'
<1>1. Progress(v) /\ Truthful(v)
  BY DEF RequestsInv
<1>2. Own(v)' = Own(v)
  BY DEF Own
<1>3. Truthful(v)'
  BY <1>1 DEF Truthful
<1>4. req[v].pc \in InTransaction =>
        \A p \in InCart(req[v].cart) : ProductDoc(p) \in req[v].held /\ req[v].cart[p] <= stock'[p]
  <2> SUFFICES ASSUME req[v].pc \in InTransaction, NEW p \in InCart(req[v].cart)
               PROVE  ProductDoc(p) \in req[v].held /\ req[v].cart[p] <= stock'[p]
    OBVIOUS
  <2>1. ProductDoc(p) \in req[v].held /\ req[v].cart[p] <= stock[p]
    BY <1>1 DEF Progress
  <2>2. stock[p] \in Nat /\ stock'[p] \in Nat /\ req[v].cart[p] \in Nat
    BY ShopDataAssumption DEF RequestsInv, TypeOK, RequestRecord, Cart, InCart
  <2>3. stock'[p] >= stock[p]
    BY <2>1 DEF InCart
  <2> QED
    BY <2>1, <2>2, <2>3
<1>5. Progress(v)'
  BY <1>1, <1>2, <1>4 DEF Progress, InTransaction
<1> QED
  BY <1>3, <1>5

\* A write outside any checkout: carts change or stock comes back.
LEMMA OutsideWrite ==
  ASSUME RequestsInv, NEW docs \in SUBSET Docs, req' = Missing(req, docs),
         UNCHANGED <<placed, reply>>,
         stock' \in [Products -> Nat], \A p \in Products : stock'[p] >= stock[p],
         TypeOK'
  PROVE  RequestsInv'
<1>1. \A v \in Requests : /\ req'[v].pc = req[v].pc
                          /\ req'[v].cart = req[v].cart
                          /\ req'[v].attempt = req[v].attempt
                          /\ req'[v].created = req[v].created
                          /\ req'[v].held = req[v].held
  BY MissingFields
<1>2. \A v \in Requests : Progress(v)' /\ Truthful(v)'
  <2> SUFFICES ASSUME NEW v \in Requests PROVE Progress(v)' /\ Truthful(v)'
    OBVIOUS
  <2>1. Ordered(v)' = Ordered(v)
    BY DEF Ordered
  <2> QED
    BY <1>1, <2>1, OtherKept
<1>3. HeldApart'
  BY <1>1 DEF RequestsInv, HeldApart
<1> QED
  BY <1>2, <1>3 DEF RequestsInv, PlacedByRequest, OneCheckoutPerKey

\* What a commit does.
Commit(w) ==
  /\ req[w].pc = "clear"
  /\ stock' = StockAfter(w)
  /\ placed' = placed \cup Own(w)
  /\ used' = IF w \in WithCoupon THEN [used EXCEPT ![Buyer[w]] = @ + 1] ELSE used
  /\ cart' = [cart EXCEPT ![Buyer[w]] = EmptyCart]
  /\ req' = [Missing(req, req[w].held \cup {UserDoc(Buyer[w])}) EXCEPT
       ![w] = [req[w] EXCEPT !.pc = "respond", !.held = {}, !.missed = {}]]
  /\ UNCHANGED <<reply, approved, edit, returned, crashes>>

\* What a commit finds: enough stock, no order of its own and none that has
\* its key, and orders to place.
LEMMA CommitFinds ==
  ASSUME RequestsInv, NEW w \in Requests, req[w].pc = "clear"
  PROVE  /\ \A p \in Products : /\ req[w].cart[p] \in Nat /\ stock[p] \in Nat
                                /\ req[w].cart[p] <= stock[p]
                                /\ req[w].cart[p] > 0 => ProductDoc(p) \in req[w].held
         /\ Ordered(w) = {}
         /\ Own(w) # {} /\ Own(w) \subseteq OrderRecord /\ Own(w) \subseteq req[w].created
         /\ \A d \in Own(w) : d.request = w /\ d.user = Buyer[w] /\ d.key = Key[w]
         /\ WithKey(placed, Buyer[w], Key[w]) = {}
         /\ Key[w] # NoKey => KeyEntry(Buyer[w], Key[w]) \in req[w].held
         /\ InCart(req[w].cart) # {} /\ req[w].attempt \in 1..MaxAttempts
         /\ req[w].cart \in Cart
<1>1. req[w] \in RequestRecord /\ Progress(w) /\ req[w].pc \in InTransaction
  BY DEF RequestsInv, TypeOK, InTransaction
<1>2. \A p \in Products : req[w].cart[p] \in Nat /\ stock[p] \in Nat
  BY <1>1, ShopDataAssumption DEF RequestsInv, TypeOK, RequestRecord, Cart
<1>3. \A p \in Products : /\ req[w].cart[p] <= stock[p]
                          /\ req[w].cart[p] > 0 => ProductDoc(p) \in req[w].held
  BY <1>1, <1>2 DEF Progress, InCart
<1>4. Key[w] = NoKey => WithKey(placed, Buyer[w], Key[w]) = {}
  BY DEF WithKey
<1>5. req[w].attempt \in 1..MaxAttempts /\ req[w].cart \in Cart
  BY <1>1, CheckoutAssumption DEF Progress, RequestRecord
<1> QED
  BY <1>1, <1>2, <1>3, <1>4, <1>5, OwnOrders DEF Progress

LEMMA CommitMoves ==
  ASSUME RequestsInv, NEW w \in Requests, Commit(w)
  PROVE  RequestsInv'
<1> DEFINE docs == req[w].held \cup {UserDoc(Buyer[w])}
           r == [req[w] EXCEPT !.pc = "respond", !.held = {}, !.missed = {}]
<1>0. /\ req[w] \in RequestRecord /\ req[w].pc = "clear"
      /\ placed' = placed \cup Own(w)
      /\ UNCHANGED <<reply, approved, edit, returned, crashes>>
      /\ Progress(w)
  BY DEF RequestsInv, TypeOK, Commit
<1>1. /\ r \in RequestRecord /\ r.pc = "respond" /\ r.held = {}
      /\ r.created = req[w].created
  BY <1>0 DEF RequestRecord, Labels
<1>2. docs \in SUBSET Docs
  <2>1. UserDoc(Buyer[w]) \in Docs
    BY CheckoutAssumption DEF Docs
  <2> QED
    BY <1>0, <2>1 DEF RequestRecord
<1>3. /\ req' \in [Requests -> RequestRecord] /\ req'[w] = r
      /\ \A v \in Requests \ {w} : /\ req'[v].pc = req[v].pc
                                   /\ req'[v].cart = req[v].cart
                                   /\ req'[v].attempt = req[v].attempt
                                   /\ req'[v].created = req[v].created
                                   /\ req'[v].held = req[v].held
  <2> DEFINE m == Missing(req, docs)
  <2>1. /\ m \in [Requests -> RequestRecord]
        /\ \A v \in Requests : /\ m[v].pc = req[v].pc
                               /\ m[v].cart = req[v].cart
                               /\ m[v].attempt = req[v].attempt
                               /\ m[v].created = req[v].created
                               /\ m[v].held = req[v].held
    BY <1>2, MissingFields
  <2>2. req' = [m EXCEPT ![w] = r]
    BY DEF Commit
  <2> HIDE DEF m, r
  <2> QED
    BY <1>1, <2>1, <2>2
<1> HIDE DEF r, docs
<1>4. stock' \in [Products -> Nat] /\ \A p \in Products : stock'[p] = stock[p] - req[w].cart[p]
  <2>1. \A p \in Products : stock[p] - req[w].cart[p] \in Nat
    BY <1>0, CommitFinds
  <2> QED
    BY <2>1 DEF Commit, StockAfter
<1>5. TypeOK'
  <2>1. placed' \subseteq OrderRecord
    BY <1>0, CommitFinds DEF RequestsInv, TypeOK
  <2>2. used' \in [Users -> Nat] /\ cart' \in [Users -> Cart]
    BY EmptyCartType, CheckoutAssumption DEF RequestsInv, TypeOK, Commit
  <2> QED
    BY <1>0, <1>3, <1>4, <2>1, <2>2 DEF RequestsInv, TypeOK
<1>6. HeldApart'
  BY <1>1, <1>3 DEF RequestsInv, HeldApart
<1>7. PlacedByRequest'
  BY <1>0, CommitFinds DEF RequestsInv, PlacedByRequest
<1>8. OneCheckoutPerKey'
  <2> SUFFICES ASSUME NEW d1 \in placed', NEW d2 \in placed', d1.user = d2.user,
                      d1.key = d2.key, d1.key # NoKey
               PROVE  d1.request = d2.request
    BY DEF OneCheckoutPerKey
  <2>1. \A d \in Own(w) : d.request = w /\ d.user = Buyer[w] /\ d.key = Key[w]
    BY <1>0, CommitFinds
  <2>2. \A d \in placed : ~ (d.user = Buyer[w] /\ d.key = Key[w] /\ d.key # NoKey)
    BY <1>0, CommitFinds DEF WithKey
  <2> QED
    BY <1>0, <2>1, <2>2 DEF RequestsInv, OneCheckoutPerKey
<1>9. Progress(w)' /\ Truthful(w)'
  <2>1. Ordered(w)' = Own(w)
    BY <1>0, CommitFinds DEF Ordered
  <2>2. reply'[w].kind = "none"
    BY <1>0 DEF Progress
  <2>3. Own(w) # {} /\ Own(w) \subseteq r.created
    BY <1>0, <1>1, CommitFinds
  <2> QED
    BY <1>1, <1>3, <2>1, <2>2, <2>3 DEF Progress, Truthful, InTransaction
<1>10. \A v \in Requests \ {w} : Progress(v)' /\ Truthful(v)'
  <2> SUFFICES ASSUME NEW v \in Requests \ {w} PROVE Progress(v)' /\ Truthful(v)'
    OBVIOUS
  <2>0. req[v].held \cap req[w].held = {}
    BY DEF RequestsInv, HeldApart
  <2>1. Ordered(v)' = Ordered(v)
    BY <1>0, CommitFinds DEF Ordered
  <2>2. \A p \in Products : ProductDoc(p) \in req[v].held => stock'[p] >= stock[p]
    <3> SUFFICES ASSUME NEW p \in Products, ProductDoc(p) \in req[v].held
                 PROVE  stock'[p] >= stock[p]
      OBVIOUS
    <3>1. /\ req[w].cart[p] \in Nat /\ stock[p] \in Nat
          /\ req[w].cart[p] > 0 => ProductDoc(p) \in req[w].held
      BY <1>0, CommitFinds
    <3>2. req[w].cart[p] = 0
      BY <2>0, <3>1
    <3> QED
      BY <1>4, <3>1, <3>2
  <2>3. Key[v] # NoKey /\ KeyEntry(Buyer[v], Key[v]) \in req[v].held
          => WithKey(placed', Buyer[v], Key[v]) = WithKey(placed, Buyer[v], Key[v])
    <3> SUFFICES ASSUME Key[v] # NoKey, KeyEntry(Buyer[v], Key[v]) \in req[v].held
                 PROVE  WithKey(placed', Buyer[v], Key[v]) = WithKey(placed, Buyer[v], Key[v])
      OBVIOUS
    <3>1. ~ (Buyer[w] = Buyer[v] /\ Key[w] = Key[v])
      BY <1>0, <2>0, CommitFinds
    <3>2. \A d \in Own(w) : ~ (d.user = Buyer[v] /\ d.key = Key[v])
      BY <1>0, <3>1, CommitFinds
    <3> QED
      BY <1>0, <3>2 DEF WithKey
  <2> QED
    BY <1>0, <1>3, <1>4, <2>1, <2>2, <2>3, OtherKept
<1> QED
  BY <1>5, <1>6, <1>7, <1>8, <1>9, <1>10 DEF RequestsInv

-----------------------------------------------------------------------------
(* Every step.                                                             *)

\* A step of a request commits, or changes no data.
LEMMA ClearIsCommit ==
  ASSUME NEW w \in Requests, ClearCartAndCommit(w)
  PROVE  \/ Commit(w)
         \/ /\ req[w].pc = "clear" /\ Retry(w)
            /\ UNCHANGED <<data, approved, edit, returned, crashes>>
BY DEF ClearCartAndCommit, Commit, At, UsesAdded

LEMMA RequestStep ==
  ASSUME RequestsInv, NEW w \in Requests, Step(w) \/ TransientError(w) \/ Crash(w)
  PROVE  RequestsInv'
<1>0. /\ req[w] \in RequestRecord /\ Progress(w) /\ crashes \in 0..MaxCrashes
      /\ placed \subseteq OrderRecord
  BY DEF RequestsInv, TypeOK
<1>1. CASE Submit(w)
  <2> DEFINE known == WithKey(placed, Buyer[w], Key[w])
  <2>1. known \in SUBSET OrderRecord
    BY <1>0 DEF WithKey
  <2>2. CASE known # {} /\ Answer(w, "replay", known)
    BY <1>0, <1>1, <2>1, <2>2, AnswerMoves DEF Submit, At, Replies
  <2>3. CASE Advance(w, "user") /\ UNCHANGED reply
    BY <1>1, <2>3, EarlyAdvance DEF Submit, At
  <2>4. CASE Answer(w, "error", {})
    BY <1>0, <1>1, <2>4, AnswerMoves DEF Submit, At, Replies
  <2> QED
    BY <1>1, <2>2, <2>3, <2>4 DEF Submit
<1>2. CASE LoadUser(w)
  <2> DEFINE r == [req[w] EXCEPT !.pc = "products", !.cart = cart[Buyer[w]]]
  <2>1. cart[Buyer[w]] \in Cart
    BY CheckoutAssumption DEF RequestsInv, TypeOK
  <2>2. /\ r \in RequestRecord /\ r.pc = "products" /\ r.held = req[w].held
        /\ r.attempt = req[w].attempt
    BY <1>0, <2>1 DEF RequestRecord, Labels
  <2>3. req' = [req EXCEPT ![w] = r] /\ req'[w] = r
    BY <1>2 DEF LoadUser, RequestsInv, TypeOK
  <2>4. \A v \in Requests \ {w} : req[v].held \cap r.held = {}
    BY <2>2 DEF RequestsInv, HeldApart
  <2>5. Progress(w)'
    <3>1. /\ Ordered(w)' = {} /\ reply'[w].kind = "none"
          /\ req[w].attempt < MaxAttempts
      BY <1>0, <1>2 DEF LoadUser, At, Progress, Ordered, data
    <3> HIDE DEF r
    <3> QED
      BY <2>2, <2>3, <3>1 DEF Progress, InTransaction
  <2> HIDE DEF r
  <2> QED
    BY <1>2, <2>2, <2>3, <2>4, <2>5, RequestGoesOn DEF LoadUser, At
<1>3. CASE LoadProducts(w)
  <2>1. CASE Answer(w, "error", {})
    BY <1>0, <1>3, <2>1, AnswerMoves DEF LoadProducts, At, Replies
  <2>2. ASSUME NEW label \in {"coupon", "pay", "reserve"}, Advance(w, label),
               UNCHANGED reply, InCart(req[w].cart) # {}
        PROVE  RequestsInv'
    BY <1>3, <2>2, EarlyAdvance DEF LoadProducts, At
  <2> QED
    BY <1>3, <2>1, <2>2 DEF LoadProducts
<1>4. CASE ValidateCoupon(w)
  <2>1. CASE Answer(w, "error", {})
    BY <1>0, <1>4, <2>1, AnswerMoves DEF ValidateCoupon, At, Replies
  <2>2. ASSUME NEW label \in {"pay", "reserve"}, Advance(w, label), UNCHANGED reply
        PROVE  RequestsInv'
    <3>1. InCart(req[w].cart) # {}
      BY <1>0, <1>4 DEF ValidateCoupon, At, Progress
    <3> QED
      BY <1>4, <2>2, <3>1, EarlyAdvance DEF ValidateCoupon, At
  <2> QED
    BY <1>4, <2>1, <2>2 DEF ValidateCoupon
<1>5. CASE InitializePayment(w)
  <2>1. CASE Answer(w, "error", {})
    BY <1>0, <1>5, <2>1, AnswerMoves DEF InitializePayment, At, Replies
  <2>2. CASE Advance(w, "reserve") /\ UNCHANGED reply
    <3>1. InCart(req[w].cart) # {}
      BY <1>0, <1>5 DEF InitializePayment, At, Progress
    <3> QED
      BY <1>5, <2>2, <3>1, EarlyAdvance DEF InitializePayment, At
  <2> QED
    BY <1>5, <2>1, <2>2 DEF InitializePayment
<1>6. CASE ClearCartAndCommit(w)
  <2>1. CASE Commit(w)
    BY <2>1, CommitMoves
  <2>2. CASE /\ req[w].pc = "clear" /\ Retry(w)
             /\ UNCHANGED <<data, approved, edit, returned, crashes>>
    BY <2>2, RetryMoves DEF InTransaction
  <2> QED
    BY <1>6, <2>1, <2>2, ClearIsCommit
<1>7. CASE TransientError(w)
  BY <1>7, RetryMoves DEF TransientError
<1>8. CASE Duplicate(w)
  <2> DEFINE winners == WithKey(placed, Buyer[w], Key[w])
  <2>1. winners \in SUBSET OrderRecord
    BY <1>0 DEF WithKey
  <2>2. CASE winners # {} /\ Answer(w, "replay", winners)
    BY <1>0, <1>8, <2>1, <2>2, AnswerMoves DEF Duplicate, At, Replies
  <2>3. CASE Answer(w, "error", {})
    BY <1>0, <1>8, <2>3, AnswerMoves DEF Duplicate, At, Replies
  <2> QED
    BY <1>8, <2>2, <2>3 DEF Duplicate
<1>9. CASE Respond(w)
  <2>1. req[w].created \in SUBSET OrderRecord
    BY <1>0 DEF RequestRecord
  <2> QED
    BY <1>0, <1>9, <2>1, AnswerMoves DEF Respond, At, Replies
<1>10. CASE Crash(w)
  <2>1. crashes' \in 0..MaxCrashes
    BY <1>0, <1>10, CheckoutAssumption DEF Crash
  <2> QED
    BY <1>10, <2>1, AnswerMoves DEF Crash, Replies
<1> QED
  BY <1>1, <1>2, <1>3, <1>4, <1>5, <1>6, <1>7, <1>8, <1>9, <1>10,
     ReserveMoves, CreateMoves, RedeemMoves DEF Step

LEMMA RequestsStep == RequestsInv /\ [Next]_vars => RequestsInv'
<1> SUFFICES ASSUME RequestsInv, [Next]_vars PROVE RequestsInv'
  OBVIOUS
<1>0. TypeOK
  BY DEF RequestsInv
<1>1. ASSUME UNCHANGED <<stock, placed, used, cart, req, reply, returned, crashes>>,
             approved' \subseteq Sellers,
             edit' \in [CartEdits -> [pc: {"idle", "save"}, user: Users, read: Cart]]
      PROVE  RequestsInv'
  BY <1>1 DEF RequestsInv, TypeOK, HeldApart, PlacedByRequest, OneCheckoutPerKey, Progress,
              Truthful, Ordered, Own
<1>2. ASSUME NEW e \in CartEdits, NEW u \in Users, ReadCart(e, u) PROVE RequestsInv'
  <2>1. edit' \in [CartEdits -> [pc: {"idle", "save"}, user: Users, read: Cart]]
    BY <1>0, <1>2 DEF ReadCart, TypeOK
  <2> QED
    BY <1>0, <1>1, <1>2, <2>1 DEF ReadCart, data, TypeOK
<1>3. ASSUME NEW e \in CartEdits, NEW c \in Cart, SaveCart(e, c) PROVE RequestsInv'
  <2> DEFINE u == edit[e].user
  <2>1. u \in Users
    BY <1>0 DEF TypeOK
  <2>2. {UserDoc(u)} \in SUBSET Docs
    BY <2>1 DEF Docs
  <2>3. TypeOK'
    <3>1. req' \in [Requests -> RequestRecord]
      BY <1>3, <2>2, MissingFields DEF SaveCart
    <3>2. cart' \in [Users -> Cart]
      BY <1>0, <1>3, <2>1 DEF SaveCart, TypeOK
    <3>3. edit' \in [CartEdits -> [pc: {"idle", "save"}, user: Users, read: Cart]]
      BY <1>0, <1>3, NoEditType DEF SaveCart, TypeOK
    <3> QED
      BY <1>0, <1>3, <3>1, <3>2, <3>3 DEF SaveCart, TypeOK
  <2>4. \A p \in Products : stock'[p] >= stock[p]
    BY <1>0, <1>3 DEF SaveCart, TypeOK
  <2> QED
    BY <1>0, <1>3, <2>2, <2>3, <2>4, OutsideWrite DEF SaveCart, TypeOK
<1>4. ASSUME NEW e \in CartEdits, NEW p \in Products, AddToCart(e, p) PROVE RequestsInv'
  <2>1. edit[e].read \in Cart
    BY <1>0 DEF TypeOK
  <2>2. [edit[e].read EXCEPT ![p] = edit[e].read[p] + 1] \in Cart
    BY <1>4, <2>1, ShopDataAssumption DEF AddToCart, Cart
  <2> QED
    BY <1>3, <1>4, <2>2 DEF AddToCart
<1>5. ASSUME NEW e \in CartEdits, NEW p \in Products, NEW qty \in 0..MaxQty,
             UpdateCart(e, p, qty)
      PROVE  RequestsInv'
  <2>1. edit[e].read \in Cart
    BY <1>0 DEF TypeOK
  <2>2. [edit[e].read EXCEPT ![p] = qty] \in Cart
    BY <2>1 DEF Cart
  <2> QED
    BY <1>3, <1>5, <2>2 DEF UpdateCart
<1>6. ASSUME NEW s \in Sellers, SetSellerStatus(s) PROVE RequestsInv'
  BY <1>0, <1>1, <1>6 DEF SetSellerStatus, data, TypeOK
<1>7. ASSUME NEW p \in Products, ReturnToStock(p) PROVE RequestsInv'
  <2>1. {ProductDoc(p)} \in SUBSET Docs
    BY DEF Docs
  <2>2. /\ stock' \in [Products -> Nat] /\ \A q \in Products : stock'[q] >= stock[q]
        /\ returned' \in [Products -> 0..MaxReturned]
    <3>1. returned[p] + 1 \in 0..MaxReturned
      BY <1>0, <1>7, CheckoutAssumption DEF ReturnToStock, TypeOK
    <3> QED
      BY <1>0, <1>7, <3>1 DEF ReturnToStock, TypeOK
  <2>3. TypeOK'
    <3>1. req' \in [Requests -> RequestRecord]
      BY <1>7, <2>1, MissingFields DEF ReturnToStock
    <3> QED
      BY <1>0, <1>7, <2>2, <3>1 DEF ReturnToStock, TypeOK
  <2> QED
    BY <1>7, <2>1, <2>2, <2>3, OutsideWrite DEF ReturnToStock
<1>8. CASE UNCHANGED vars
  BY <1>0, <1>1, <1>8 DEF vars, data, TypeOK
<1> QED
  BY <1>2, <1>4, <1>5, <1>6, <1>7, <1>8, RequestStep DEF Next, Surroundings

\* What a step does to the documents that checkouts and the shop share.
LEMMA DataSteps ==
  ASSUME RequestsInv, [Next]_vars
  PROVE  \/ \E w \in Requests : Commit(w)
         \/ \E e \in CartEdits, c \in Cart : SaveCart(e, c)
         \/ \E p \in Products : ReturnToStock(p)
         \/ UNCHANGED <<data, returned>>
<1>0. \A e \in CartEdits : edit[e].read \in Cart
  BY DEF RequestsInv, TypeOK
<1>1. ASSUME NEW w \in Requests, Step(w) \/ TransientError(w) \/ Crash(w)
      PROVE  Commit(w) \/ UNCHANGED <<data, returned>>
  BY <1>1, ClearIsCommit DEF Step, Submit, LoadUser, LoadProducts, ValidateCoupon,
     InitializePayment, Reserve, CreateOrders, RedeemCoupon, Duplicate, Respond,
     TransientError, Crash
<1>2. ASSUME NEW e \in CartEdits, NEW p \in Products, AddToCart(e, p)
      PROVE  \E c \in Cart : SaveCart(e, c)
  <2>1. [edit[e].read EXCEPT ![p] = edit[e].read[p] + 1] \in Cart
    BY <1>0, <1>2, ShopDataAssumption DEF AddToCart, Cart
  <2> QED
    BY <1>2, <2>1 DEF AddToCart
<1>3. ASSUME NEW e \in CartEdits, NEW p \in Products, NEW qty \in 0..MaxQty,
             UpdateCart(e, p, qty)
      PROVE  \E c \in Cart : SaveCart(e, c)
  <2>1. [edit[e].read EXCEPT ![p] = qty] \in Cart
    BY <1>0 DEF Cart
  <2> QED
    BY <1>3, <2>1 DEF UpdateCart
<1>4. ASSUME NEW e \in CartEdits, NEW u \in Users, ReadCart(e, u) PROVE UNCHANGED <<data, returned>>
  BY <1>4 DEF ReadCart
<1>5. ASSUME NEW s \in Sellers, SetSellerStatus(s) PROVE UNCHANGED <<data, returned>>
  BY <1>5 DEF SetSellerStatus
<1>6. CASE UNCHANGED vars
  BY <1>6 DEF vars
<1> QED
  BY <1>1, <1>2, <1>3, <1>4, <1>5, <1>6 DEF Next, Surroundings

-----------------------------------------------------------------------------
(* The coupon.                                                             *)

\* The requests of a user that used the coupon and have orders.
CouponUses(u) == {w \in WithCoupon : \E d \in placed : d.request = w /\ d.user = u}

CouponInv ==
  /\ RequestsInv
  /\ \A u \in Users : IsFiniteSet(CouponUses(u))
  /\ CouponUsedPerCheckout

LEMMA CouponInit == Init => CouponInv
<1> SUFFICES ASSUME Init PROVE CouponInv
  OBVIOUS
<1>1. \A u \in Users : CouponUses(u) = {} /\ used[u] = 0
  BY DEF Init, CouponUses
<1> QED
  BY <1>1, RequestsInit, FS_EmptySet DEF CouponInv, CouponUsedPerCheckout, CouponUses

LEMMA CouponStep == CouponInv /\ [Next]_vars => CouponInv'
<1> SUFFICES ASSUME CouponInv, [Next]_vars PROVE CouponInv'
  OBVIOUS
<1>0. /\ RequestsInv /\ RequestsInv'
      /\ \A u \in Users : IsFiniteSet(CouponUses(u)) /\ used[u] = Cardinality(CouponUses(u))
  BY RequestsStep DEF CouponInv, CouponUsedPerCheckout, CouponUses
<1>1. CASE UNCHANGED <<placed, used>>
  BY <1>0, <1>1 DEF CouponInv, CouponUsedPerCheckout, CouponUses
<1>2. ASSUME NEW w \in Requests, Commit(w) PROVE CouponInv'
  <2>1. /\ placed' = placed \cup Own(w) /\ Own(w) # {} /\ Ordered(w) = {}
        /\ \A d \in Own(w) : d.request = w /\ d.user = Buyer[w]
        /\ Buyer[w] \in Users
    BY <1>0, <1>2, CommitFinds, CheckoutAssumption DEF Commit
  <2>2. SUFFICES ASSUME NEW u \in Users
                 PROVE  /\ IsFiniteSet(CouponUses(u)')
                        /\ used'[u] = Cardinality(CouponUses(u)')
    BY <1>0 DEF CouponInv, CouponUsedPerCheckout, CouponUses
  <2>3. CASE w \in WithCoupon /\ u = Buyer[w]
    <3>1. CouponUses(u)' = CouponUses(u) \cup {w} /\ w \notin CouponUses(u)
      BY <2>1, <2>3 DEF CouponUses, Ordered
    <3>2. used'[u] = used[u] + 1
      BY <1>0, <1>2, <2>1, <2>3 DEF Commit, RequestsInv, TypeOK
    <3>3. /\ IsFiniteSet(CouponUses(u) \cup {w})
          /\ Cardinality(CouponUses(u) \cup {w}) = Cardinality(CouponUses(u)) + 1
      BY <1>0, <3>1, FS_AddElement
    <3> QED
      BY <1>0, <3>1, <3>2, <3>3
  <2>4. CASE ~ (w \in WithCoupon /\ u = Buyer[w])
    <3>1. CouponUses(u)' = CouponUses(u)
      BY <2>1, <2>4 DEF CouponUses
    <3>2. used'[u] = used[u]
      BY <1>0, <1>2, <2>1, <2>4 DEF Commit, RequestsInv, TypeOK
    <3> QED
      BY <1>0, <3>1, <3>2
  <2> QED
    BY <2>3, <2>4
<1> QED
  BY <1>0, <1>1, <1>2, DataSteps DEF SaveCart, ReturnToStock, data

-----------------------------------------------------------------------------
(* The stock.                                                              *)

StockInv ==
  /\ RequestsInv
  /\ \A p \in Products : IsFiniteSet(UnitsSold(p))
  /\ StockConserved

LEMMA StockInit == Init => StockInv
<1> SUFFICES ASSUME Init PROVE StockInv
  OBVIOUS
<1>1. \A p \in Products : UnitsSold(p) = {} /\ stock[p] = InitialStock[p] /\ returned[p] = 0
  BY DEF Init, UnitsSold
<1>2. \A p \in Products : Sold(p) = 0 /\ IsFiniteSet(UnitsSold(p))
  BY <1>1, FS_EmptySet DEF Sold
<1>3. \A p \in Products : InitialStock[p] \in Nat
  BY CheckoutAssumption
<1> QED
  BY <1>1, <1>2, <1>3, RequestsInit DEF StockInv, StockConserved

\* The orders of a cart hold each of its units once: a product is in the
\* order of its seller only.
LEMMA UnitsOfCommit ==
  ASSUME RequestsInv, NEW w \in Requests, Commit(w), NEW p \in Products,
         IsFiniteSet(UnitsSold(p))
  PROVE  /\ IsFiniteSet(UnitsSold(p)')
         /\ Sold(p)' = Sold(p) + req[w].cart[p]
<1> DEFINE c == req[w].cart
           d0 == OrderOf(w, req[w].attempt, Buyer[w], Key[w], c, ProductSeller[p])
           new == {d0} \X (1..c[p])
<1>0. /\ placed' = placed \cup Own(w) /\ c \in Cart /\ c[p] \in Nat
      /\ \A d \in Own(w) : d \notin placed
  BY CommitFinds DEF Commit, Ordered
<1>1. d0.items[p] = c[p]
  BY DEF OrderOf, ItemsOf
<1>2. \A d \in Own(w) : d # d0 => d.items[p] = 0
  <2> SUFFICES ASSUME NEW g \in GroupsOf(c), g # ProductSeller[p]
               PROVE  OrderOf(w, req[w].attempt, Buyer[w], Key[w], c, g).items[p] = 0
    BY DEF Own, OrdersFor
  <2> QED
    BY DEF OrderOf, ItemsOf
<1>3. c[p] > 0 => d0 \in Own(w)
  BY DEF Own, OrdersFor, GroupsOf, InCart
<1> HIDE DEF c, d0
<1>4. d0 \in Own(w) \/ new = {}
  BY <1>0, <1>3
<1>5. UnitsSold(p)' = UnitsSold(p) \cup new
  <2>1. UnitsSold(p)' = UnitsSold(p) \cup UNION {{d} \X (1..d.items[p]) : d \in Own(w)}
    BY <1>0 DEF UnitsSold
  <2>2. \A d \in Own(w) : d # d0 => {d} \X (1..d.items[p]) = {}
    BY <1>2
  <2>3. UNION {{d} \X (1..d.items[p]) : d \in Own(w)} = new
    BY <1>1, <1>4, <2>2
  <2> QED
    BY <2>1, <2>3
<1>6. UnitsSold(p) \cap new = {}
  BY <1>0, <1>4 DEF UnitsSold
<1>7. IsFiniteSet(new) /\ Cardinality(new) = c[p]
  <2>1. IsFiniteSet({d0}) /\ Cardinality({d0}) = 1
    BY FS_Singleton
  <2>2. IsFiniteSet(1..c[p]) /\ Cardinality(1..c[p]) = c[p]
    BY <1>0, FS_Interval
  <2>3. /\ IsFiniteSet({d0} \X (1..c[p]))
        /\ Cardinality({d0} \X (1..c[p])) = Cardinality({d0}) * Cardinality(1..c[p])
    BY <2>1, <2>2, FS_Product, Zenon
  <2>4. 1 * c[p] = c[p]
    BY <1>0
  <2> QED
    BY <2>1, <2>2, <2>3, <2>4
<1> HIDE DEF new
<1>8. /\ IsFiniteSet(UnitsSold(p) \cup new)
      /\ Cardinality(UnitsSold(p) \cup new)
           = Cardinality(UnitsSold(p)) + Cardinality(new) - Cardinality({})
  BY <1>6, <1>7, FS_Union
<1>9. Cardinality({}) = 0 /\ Cardinality(UnitsSold(p)) \in Nat
  BY FS_EmptySet, FS_CardinalityType
<1> QED
  BY <1>0, <1>5, <1>7, <1>8, <1>9 DEF Sold, c

LEMMA StockStep == StockInv /\ [Next]_vars => StockInv'
<1> SUFFICES ASSUME StockInv, [Next]_vars PROVE StockInv'
  OBVIOUS
<1>0. /\ RequestsInv /\ RequestsInv' /\ TypeOK
      /\ \A p \in Products : /\ IsFiniteSet(UnitsSold(p))
                              /\ stock[p] + Sold(p) = InitialStock[p] + returned[p]
  BY RequestsStep DEF StockInv, RequestsInv, StockConserved
<1>1. \A p \in Products : Sold(p) \in Nat /\ stock[p] \in Nat /\ returned[p] \in Nat
                          /\ InitialStock[p] \in Nat
  BY <1>0, FS_CardinalityType, CheckoutAssumption DEF Sold, TypeOK
<1>2. SUFFICES ASSUME NEW p \in Products
               PROVE  /\ IsFiniteSet(UnitsSold(p)')
                      /\ stock'[p] + Sold(p)' = InitialStock[p] + returned'[p]
  <2>1. \A p \in Products : stock'[p] >= 0
    BY <1>0 DEF RequestsInv, TypeOK
  <2> QED
    BY <1>0, <2>1 DEF StockInv, StockConserved
<1>3. ASSUME NEW w \in Requests, Commit(w)
      PROVE  /\ IsFiniteSet(UnitsSold(p)')
             /\ stock'[p] + Sold(p)' = InitialStock[p] + returned'[p]
  <2>1. IsFiniteSet(UnitsSold(p)') /\ Sold(p)' = Sold(p) + req[w].cart[p]
    BY <1>0, <1>3, UnitsOfCommit
  <2>2. stock'[p] = stock[p] - req[w].cart[p] /\ returned' = returned
    BY <1>3 DEF Commit, StockAfter
  <2>3. req[w].cart[p] \in Nat
    BY <1>0, <1>3, CommitFinds DEF Commit
  <2> QED
    BY <1>0, <1>1, <2>1, <2>2, <2>3
<1>4. ASSUME UNCHANGED placed
      PROVE  Sold(p)' = Sold(p) /\ UnitsSold(p)' = UnitsSold(p)
  BY <1>4 DEF Sold, UnitsSold
<1>5. ASSUME NEW q \in Products, ReturnToStock(q)
      PROVE  /\ IsFiniteSet(UnitsSold(p)')
             /\ stock'[p] + Sold(p)' = InitialStock[p] + returned'[p]
  <2>1. CASE p = q
    <3>1. stock'[p] = stock[p] + 1 /\ returned'[p] = returned[p] + 1 /\ UNCHANGED placed
      BY <1>0, <1>5, <2>1 DEF ReturnToStock, TypeOK
    <3>2. Sold(p)' = Sold(p) /\ IsFiniteSet(UnitsSold(p)')
      BY <1>0, <1>4, <3>1
    <3>3. /\ stock[p] \in Nat /\ Sold(p) \in Nat /\ returned[p] \in Nat
          /\ InitialStock[p] \in Nat /\ stock[p] + Sold(p) = InitialStock[p] + returned[p]
      BY <1>0, <1>1
    <3>4. (stock[p] + 1) + Sold(p) = InitialStock[p] + (returned[p] + 1)
      BY <3>3
    <3> QED
      BY <3>1, <3>2, <3>4
  <2>2. CASE p # q
    <3>1. stock'[p] = stock[p] /\ returned'[p] = returned[p] /\ UNCHANGED placed
      BY <1>0, <1>5, <2>2 DEF ReturnToStock, TypeOK
    <3> QED
      BY <1>0, <1>1, <1>4, <3>1
  <2> QED
    BY <2>1, <2>2
<1>6. \/ \E w \in Requests : Commit(w)
      \/ \E q \in Products : ReturnToStock(q)
      \/ UNCHANGED <<stock, placed, returned>>
  BY <1>0, DataSteps DEF data, SaveCart
<1> QED
  BY <1>0, <1>3, <1>4, <1>5, <1>6

-----------------------------------------------------------------------------
(* The promise of an atomic checkout.                                      *)

\* The abstract specification computes carts and orders as the program does.
LEMMA ShopOperators ==
  /\ Shop!Cart = Cart /\ Shop!EmptyCart = EmptyCart
  /\ \A c : Shop!InCart(c) = InCart(c) /\ Shop!GroupsOf(c) = GroupsOf(c)
  /\ \A u, k : Shop!WithKey(placed, u, k) = WithKey(placed, u, k)
  /\ \A w, n, u, k, c : Shop!OrdersFor(w, n, u, k, c) = OrdersFor(w, n, u, k, c)
<1>1. Shop!Cart = Cart /\ Shop!EmptyCart = EmptyCart
  BY DEF Cart, EmptyCart, Shop!Cart, Shop!EmptyCart
<1>2. \A c : Shop!InCart(c) = InCart(c) /\ Shop!GroupsOf(c) = GroupsOf(c)
  BY DEF InCart, GroupsOf, Shop!InCart, Shop!GroupsOf
<1>3. \A u, k : Shop!WithKey(placed, u, k) = WithKey(placed, u, k)
  BY DEF WithKey, Shop!WithKey
<1>4. \A w, n, u, k, c, g : Shop!OrderOf(w, n, u, k, c, g) = OrderOf(w, n, u, k, c, g)
  BY DEF OrderOf, ItemsOf, Shop!OrderOf, Shop!ItemsOf
<1>5. \A w, n, u, k, c : Shop!OrdersFor(w, n, u, k, c) = OrdersFor(w, n, u, k, c)
  BY <1>2, <1>4 DEF OrdersFor, Shop!OrdersFor
<1> QED
  BY <1>1, <1>2, <1>3, <1>5

LEMMA ShopInit == Init => Shop!Init
BY DEF Init, Shop!Init

\* A commit is the purchase of everything in the cart the request has read.
LEMMA CommitBuys ==
  ASSUME RequestsInv, NEW w \in Requests, Commit(w)
  PROVE  Shop!Buy(w, req[w].attempt, Buyer[w], Key[w], req[w].cart)
<1>1. req[w].pc = "clear"
  BY DEF Commit
<1>2. \A d \in placed : d.request # w
  BY <1>1, CommitFinds DEF Ordered
<1>3. stock' = [p \in Products |-> stock[p] - req[w].cart[p]]
  BY DEF Commit, StockAfter
<1>4. placed' = placed \cup OrdersFor(w, req[w].attempt, Buyer[w], Key[w], req[w].cart)
  BY DEF Commit, Own
<1>5. \/ UNCHANGED used
      \/ used' = [used EXCEPT ![Buyer[w]] = @ + 1]
  BY DEF Commit
<1>6. cart' = [cart EXCEPT ![Buyer[w]] = EmptyCart]
  BY DEF Commit
<1>7. /\ InCart(req[w].cart) # {} /\ WithKey(placed, Buyer[w], Key[w]) = {}
      /\ \A p \in Products : req[w].cart[p] <= stock[p]
  BY <1>1, CommitFinds
<1> QED
  BY <1>2, <1>3, <1>4, <1>5, <1>6, <1>7, ShopOperators DEF Shop!Buy

LEMMA ShopStep == RequestsInv /\ [Next]_vars => [Shop!Next]_data
<1> SUFFICES ASSUME RequestsInv, [Next]_vars PROVE [Shop!Next]_data
  OBVIOUS
<1>1. ASSUME NEW w \in Requests, Commit(w) PROVE Shop!Next
  <2>1. /\ req[w].attempt \in 1..MaxAttempts /\ req[w].cart \in Cart
        /\ Buyer[w] \in Users /\ Key[w] \in Keys \cup {NoKey}
    BY <1>1, CommitFinds, CheckoutAssumption DEF Commit
  <2>2. Shop!Buy(w, req[w].attempt, Buyer[w], Key[w], req[w].cart)
    BY <1>1, CommitBuys
  <2> QED
    BY <2>1, <2>2, ShopOperators DEF Shop!Next, Shop!Buy
<1>2. ASSUME NEW e \in CartEdits, NEW c \in Cart, SaveCart(e, c) PROVE Shop!Next
  <2>1. edit[e].user \in Users
    BY DEF RequestsInv, TypeOK
  <2>2. Shop!EditCart(edit[e].user, c)
    BY <1>2 DEF SaveCart, Shop!EditCart
  <2> QED
    BY <2>1, <2>2, ShopOperators DEF Shop!Next, Shop!EditCart
<1>3. ASSUME NEW p \in Products, ReturnToStock(p) PROVE Shop!Next
  <2>1. Shop!PutBack(p)
    BY <1>3 DEF ReturnToStock, Shop!PutBack
  <2> QED
    BY <2>1 DEF Shop!Next
<1> QED
  BY <1>1, <1>2, <1>3, DataSteps

-----------------------------------------------------------------------------
(* The theorems.                                                           *)

\* Every state is well typed, and no unit is sold twice, lost or made up.
THEOREM CheckoutSafety == Spec => []CheckoutInv
<1>1. StockInv => CheckoutInv
  BY DEF StockInv, RequestsInv, CheckoutInv
<1> QED
  BY <1>1, StockInit, StockStep, PTL DEF Spec

\* A double-click or a client retry buys once.
THEOREM KeySafety == Spec => []OneCheckoutPerKey
<1>1. RequestsInv => OneCheckoutPerKey
  BY DEF RequestsInv
<1> QED
  BY <1>1, RequestsInit, RequestsStep, PTL DEF Spec

\* No answer lies about what was bought.
THEOREM AnswerSafety == Spec => []AnswerMatchesOutcome
<1>1. RequestsInv => AnswerMatchesOutcome
  BY DEF RequestsInv, Truthful, Ordered, AnswerMatchesOutcome
<1> QED
  BY <1>1, RequestsInit, RequestsStep, PTL DEF Spec

\* A coupon is used once per checkout.
THEOREM CouponSafety == Spec => []CouponUsedPerCheckout
<1>1. CouponInv => CouponUsedPerCheckout
  BY DEF CouponInv
<1> QED
  BY <1>1, CouponInit, CouponStep, PTL DEF Spec

\* A checkout happens at once or not at all.
THEOREM ShopRefinement == Spec => ImplementsShop
<1> QED
  BY RequestsInit, RequestsStep, ShopInit, ShopStep, PTL DEF Spec, ImplementsShop, Shop!Spec,
     data, Shop!data
=============================================================================
