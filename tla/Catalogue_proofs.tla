--------------------------- MODULE Catalogue_proofs ---------------------------
(***************************************************************************)
(* Proofs about Catalogue, for any requests, cached queries, sellers,      *)
(* raters, ratings and bounds.                                             *)
(***************************************************************************)
EXTENDS Catalogue, FiniteSetTheorems, TLAPS

-----------------------------------------------------------------------------
(* The invariant.                                                          *)

RatingRecord == [rating : Nat, count : Nat]
Operations == {"none", "create", "update", "restock", "remove", "read", "reserve", "review", "unreview"}
Points == {"idle", "create", "save", "invalidate", "compute", "store", "insert", "delete", "aggregate",
           "rate", "done"}
Answers == {"none", "ok", "refused", "unseen", "hit", "computed"}
Arguments == Sellers \cup CacheKeys \cup Raters \cup {NoOne}
Documents == ProductRecord \cup RatingRecord \cup {NoOne}
HandlerRecord == [op : Operations, pc : Points, arg : Arguments, ans : Answers,
                  snap : Documents,
                  before : SUBSET Requests]

\* What a request holds at each of its awaits.  p is the product.
Held(r, h, p) ==
  /\ h.pc = "idle" => h = Idle
  /\ h.pc # "idle" => h.op \in load /\ h.op # "none"
  /\ h.ans = "ok" => h.pc = "done"
  /\ h.pc = "create" => h.op = "create" /\ h.arg \in Sellers \cup {NoOne}
  /\ h.pc = "save" => h.op \in {"update", "restock", "remove"} /\ h.snap \in ProductRecord /\ p.exists
  /\ h.pc = "invalidate" => h.op \in Edits /\ h.snap \in ProductRecord /\ h.snap.ver <= p.ver
  /\ (h.ans = "ok" /\ h.op \in Edits) => h.snap \in ProductRecord /\ h.snap.ver <= p.ver
  /\ h.pc \in {"compute", "store"} => h.op = "read" /\ h.arg \in CacheKeys
  /\ h.pc = "store" => h.snap \in ProductRecord
  /\ h.pc = "insert" => h.op = "review"
  /\ h.pc = "delete" => h.op = "unreview"
  /\ h.pc \in {"aggregate", "rate"} => h.op \in {"review", "unreview"}
  /\ (h.op \in {"review", "unreview"} /\ (h.pc # "done" \/ h.ans = "ok"))
       => h.arg \in Raters /\ p.exists
  /\ h.pc = "rate" => h.snap \in RatingRecord

RequestsInv ==
  /\ load \in Workloads
  /\ req \in [Requests -> HandlerRecord]
  /\ \A r \in Requests : Held(r, req[r], product)
  /\ \A r \in Requests : req[r].before \subseteq Finished \ {r}

\* The product, with what reservations took from it, and its reviews.
ShelfInv ==
  /\ product \in ProductRecord /\ sold \in Nat
  /\ ReservationsSurviveEdits
  /\ ~ product.exists => sold = 0 /\ product.ver = 0
  /\ cache \in [CacheKeys -> CacheRecord]
  /\ reviews \in [Raters -> Ratings \cup {0}]
  /\ IsFiniteSet(Reviewers)
  /\ Reviewers # {} => product.exists

HandledInv == RequestsInv /\ ShelfInv

-----------------------------------------------------------------------------
(* Lemmas about the average.                                               *)

LEMMA StarsFinite ==
  ASSUME reviews \in [Raters -> Ratings \cup {0}], IsFiniteSet(Reviewers)
  PROVE  Cardinality(Reviewers) \in Nat /\ SumOfRatings \in Nat
<1>1. IsFiniteSet(1 .. 5)
  <2> DEFINE n == 5
  <2>1. n \in Nat
    OBVIOUS
  <2> HIDE DEF n
  <2>2. IsFiniteSet(1 .. n)
    BY <2>1, FS_Interval
  <2> QED
    BY <2>2, Zenon DEF n
<1>2. IsFiniteSet(Reviewers \X (1 .. 5))
  BY <1>1, FS_Product
<1>3. Stars \subseteq Reviewers \X (1 .. 5)
  BY DEF Stars
<1>4. IsFiniteSet(Stars)
  BY <1>2, <1>3, FS_Subset
<1> QED
  BY <1>4, FS_CardinalityType DEF SumOfRatings

LEMMA Quotient ==
  ASSUME NEW a \in Nat, NEW b \in Nat, b > 0
  PROVE  a \div b \in Nat
OBVIOUS

\* What the aggregation writes is a rating and a count.
LEMMA RecountType ==
  ASSUME reviews \in [Raters -> Ratings \cup {0}], IsFiniteSet(Reviewers)
  PROVE  Recount \in RatingRecord
<1> DEFINE n == Cardinality(Reviewers)
           s == SumOfRatings
<1>1. n \in Nat /\ s \in Nat
  BY StarsFinite
<1> HIDE DEF n, s
<1>2. 20 * s + n \in Nat /\ 2 * n \in Nat /\ (n # 0 => 2 * n > 0)
  BY <1>1
<1>3. n # 0 => (20 * s + n) \div (2 * n) \in Nat
  BY <1>2, Quotient
<1>4. Average \in Nat
  <2>1. Average = IF n = 0 THEN 0 ELSE (20 * s + n) \div (2 * n)
    BY DEF Average, n, s
  <2> QED
    BY <1>3, <2>1
<1> QED
  BY <1>1, <1>4 DEF Recount, RatingRecord, n

-----------------------------------------------------------------------------
(* The frame of a step.                                                    *)

\* A request goes on; what it began with, it keeps.
Moves(r) ==
  /\ req[r].pc # "done" /\ UNCHANGED load
  /\ \A d \in Requests \ {r} : req'[d] = req[d]
  /\ req'[r].before = IF req[r].pc = "idle" THEN Finished ELSE req[r].before
  /\ req[r].pc # "idle" => req'[r].op = req[r].op /\ req'[r].arg = req[r].arg
  /\ req'[r].pc # "idle"

LEMMA RequestMoves ==
  ASSUME RequestsInv, NEW r \in Requests, NEW h \in HandlerRecord, req' = [req EXCEPT ![r] = h],
         UNCHANGED load, req[r].pc # "done", h.pc # "idle", Held(r, h, product'),
         h.before = IF req[r].pc = "idle" THEN Finished ELSE req[r].before,
         req[r].pc # "idle" => h.op = req[r].op /\ h.arg = req[r].arg,
         product \in ProductRecord, product' \in ProductRecord,
         product.exists => product'.exists, product.ver <= product'.ver
  PROVE  RequestsInv' /\ Moves(r) /\ req'[r] = h
<1>1. req' \in [Requests -> HandlerRecord] /\ req'[r] = h /\ \A d \in Requests \ {r} : req'[d] = req[d]
  BY DEF RequestsInv
<1>2. ASSUME NEW d \in Requests \ {r}
      PROVE  Held(d, req[d], product')
  <2>1. Held(d, req[d], product)
    BY DEF RequestsInv
  <2>2. product.ver \in Nat /\ product'.ver \in Nat
    BY DEF ProductRecord
  <2>3. ASSUME req[d].snap \in ProductRecord, req[d].snap.ver <= product.ver
        PROVE  req[d].snap.ver <= product'.ver
    <3>1. req[d].snap.ver \in Nat
      BY <2>3 DEF ProductRecord
    <3> QED
      BY <2>2, <2>3, <3>1
  <2> QED
    BY <2>1, <2>3 DEF Held
<1>3. \A d \in Requests : Held(d, req'[d], product')
  BY <1>1, <1>2
<1>4. Finished \subseteq Finished' /\ r \notin Finished
  BY <1>1 DEF Finished
<1>5. \A d \in Requests : req'[d].before \subseteq Finished \ {d}
  BY <1>1, <1>4 DEF RequestsInv
<1>6. \A d \in Requests : Held(d, req[d], product)'
  BY <1>3 DEF Held
<1>7. Moves(r)
  BY <1>1 DEF Moves
<1> QED
  BY <1>1, <1>4, <1>5, <1>6, <1>7 DEF RequestsInv

\* A request that begins.
LEMMA EnterMoves ==
  ASSUME RequestsInv, NEW r \in Requests, NEW op \in Operations, NEW x \in Arguments,
         NEW doc \in Documents, NEW pc \in Points, NEW ans \in Answers,
         Enter(r, op, x, doc, pc, ans), pc # "idle", op # "none",
         product \in ProductRecord, product' \in ProductRecord,
         product.exists => product'.exists, product.ver <= product'.ver,
         op \in load => Held(r, [op |-> op, pc |-> pc, arg |-> x, ans |-> ans, snap |-> doc, before |-> Finished],
                             product')
  PROVE  RequestsInv' /\ Moves(r) /\ req[r].pc = "idle" /\ req'[r].op = op /\ req'[r].arg = x
         /\ req'[r].pc = pc /\ req'[r].ans = ans /\ req'[r].snap = doc
<1> DEFINE h == [op |-> op, pc |-> pc, arg |-> x, ans |-> ans, snap |-> doc, before |-> Finished]
<1>1. h \in HandlerRecord
  BY DEF HandlerRecord, Finished
<1>2. /\ req[r].pc = "idle" /\ op \in load /\ UNCHANGED load /\ req' = [req EXCEPT ![r] = h]
      /\ h.op = op /\ h.pc = pc /\ h.arg = x /\ h.ans = ans /\ h.snap = doc /\ h.before = Finished
  BY DEF Enter
<1>3. Held(r, h, product')
  BY <1>2
<1> HIDE DEF h
<1>4. RequestsInv' /\ Moves(r) /\ req'[r] = h
  BY <1>1, <1>2, <1>3, RequestMoves
<1> QED
  BY <1>2, <1>4

LEMMA HandledInit == Init => HandledInv
<1> SUFFICES ASSUME Init PROVE HandledInv
  OBVIOUS
<1>1. Nothing \in ProductRecord /\ \A s \in Sellers \cup {NoOne} : Offered(s) \in ProductRecord
  BY CatalogueAssumption DEF Nothing, Offered, ProductRecord
<1>2. product \in ProductRecord
  BY <1>1 DEF Init
<1>3. Idle \in HandlerRecord
  <2>1. NoOne \in Arguments /\ {} \in SUBSET Requests
        /\ NoOne \in Documents
    BY DEF Arguments, Documents
  <2> QED
    BY <2>1 DEF Idle, HandlerRecord, Operations, Points, Answers
<1>4. RequestsInv
  BY <1>3 DEF Init, RequestsInv, Held, Idle, Edits
<1>5. ReservationsSurviveEdits
  <2>1. product = Nothing \/ \E s \in Sellers \cup {NoOne} : product = Offered(s)
    BY DEF Init
  <2>2. ~ Nothing.exists
    BY DEF Nothing
  <2>3. \A s : Offered(s).stock = InitialStock /\ Offered(s).base = InitialStock
    BY DEF Offered, Nothing
  <2>4. product.exists => product.stock = InitialStock /\ product.base = InitialStock /\ sold = 0
    BY <2>1, <2>2, <2>3 DEF Init
  <2> QED
    BY <2>4, CatalogueAssumption DEF ReservationsSurviveEdits
<1>6. Reviewers = {} /\ (~ product.exists => product.ver = 0)
  <2>1. product = Nothing \/ \E s \in Sellers \cup {NoOne} : product = Offered(s)
    BY DEF Init
  <2>2. Nothing.ver = 0 /\ \A s : Offered(s).exists
    BY DEF Nothing, Offered
  <2> QED
    BY <2>1, <2>2 DEF Init, Reviewers
<1>7. IsFiniteSet(Reviewers)
  BY <1>6, FS_EmptySet
<1> QED
  BY <1>2, <1>4, <1>5, <1>6, <1>7 DEF Init, HandledInv, ShelfInv, Miss, CacheRecord

-----------------------------------------------------------------------------
(* Every step.                                                             *)

LEMMA ProductFields ==
  ASSUME NEW p \in ProductRecord
  PROVE  /\ p.exists \in BOOLEAN /\ p.seller \in Sellers \cup {NoOne} /\ p.deleted \in BOOLEAN
         /\ p.content \in Requests \cup {NoOne} /\ p.ver \in Nat /\ p.stock \in Nat /\ p.base \in Nat
         /\ p.rating \in Nat /\ p.count \in Nat
BY DEF ProductRecord

\* A request that only begins.
Begins(r) ==
  /\ Moves(r) /\ UNCHANGED <<product, cache, reviews, sold>>
  /\ req[r].pc = "idle" /\ req'[r].ans # "ok"
  /\ req'[r].pc \in {"create", "save", "compute", "insert", "delete", "done"}

LEMMA ShelfKept == ASSUME ShelfInv, UNCHANGED <<product, cache, reviews, sold>> PROVE ShelfInv'
BY DEF ShelfInv, ReservationsSurviveEdits, Reviewers

LEMMA EnterBegins ==
  ASSUME HandledInv, NEW r \in Requests, NEW op \in Operations, NEW x \in Arguments,
         NEW doc \in Documents, NEW ans \in {"none", "hit", "refused"},
         NEW pc \in {"create", "save", "compute", "insert", "delete", "done"},
         Enter(r, op, x, doc, pc, ans), op # "none", UNCHANGED <<product, cache, reviews, sold>>,
         op \in load => Held(r, [op |-> op, pc |-> pc, arg |-> x, ans |-> ans, snap |-> doc, before |-> Finished],
                             product)
  PROVE  HandledInv' /\ Begins(r)
<1>1. RequestsInv /\ ShelfInv /\ product \in ProductRecord /\ product.ver \in Nat
  BY DEF HandledInv, ShelfInv, ProductRecord
<1>2. product.ver <= product'.ver
  BY <1>1
<1>3. pc \in Points /\ ans \in Answers /\ pc # "idle" /\ ans # "ok"
  BY DEF Points, Answers
<1>4. RequestsInv' /\ Moves(r) /\ req[r].pc = "idle" /\ req'[r].pc = pc /\ req'[r].ans = ans
  BY <1>1, <1>2, <1>3, EnterMoves
<1> QED
  BY <1>1, <1>3, <1>4, ShelfKept DEF HandledInv, Begins

LEMMA BeginStep ==
  ASSUME HandledInv, NEW r \in Requests,
         CreateProduct(r) \/ UpdateProduct(r) \/ RemoveProduct(r) \/ Lookup(r) \/ CreateReview(r) \/ DeleteReview(r)
  PROVE  HandledInv' /\ Begins(r)
<1>0. product \in ProductRecord
  BY DEF HandledInv, ShelfInv
<1>1. CASE CreateProduct(r)
  <2>1. PICK who \in Sellers \cup {NoOne} :
          Enter(r, "create", who, NoOne, "create", "none") /\ UNCHANGED <<product, cache, reviews, sold>>
    BY <1>1 DEF CreateProduct
  <2>2. "create" \in load =>
          Held(r, [op |-> "create", pc |-> "create", arg |-> who, ans |-> "none", snap |-> NoOne,
                   before |-> Finished], product)
    BY DEF Held
  <2> QED
    BY <2>1, <2>2, EnterBegins DEF Operations, Arguments, Documents
<1>2. ASSUME NEW op \in {"update", "restock", "remove"}, Edit(r, op)
      PROVE  HandledInv' /\ Begins(r)
  <2>1. PICK who \in Sellers \cup {NoOne} :
          LET ok == product.exists /\ ~NotOwner(who) IN
          /\ Enter(r, op, NoOne, product, IF ok THEN "save" ELSE "done", IF ok THEN "none" ELSE "refused")
          /\ UNCHANGED <<product, cache, reviews, sold>>
    BY <1>2 DEF Edit
  <2>2. CASE product.exists /\ ~NotOwner(who)
    <3>1. op \in load =>
            Held(r, [op |-> op, pc |-> "save", arg |-> NoOne, ans |-> "none", snap |-> product,
                     before |-> Finished], product)
      BY <1>0, <2>2 DEF Held
    <3> QED
      BY <1>0, <2>1, <2>2, <3>1, EnterBegins DEF Operations, Arguments, Documents
  <2>3. CASE ~ (product.exists /\ ~NotOwner(who))
    <3>1. op \in load =>
            Held(r, [op |-> op, pc |-> "done", arg |-> NoOne, ans |-> "refused", snap |-> product,
                     before |-> Finished], product)
      BY <1>0 DEF Held
    <3>2. Enter(r, op, NoOne, product, "done", "refused") /\ UNCHANGED <<product, cache, reviews, sold>>
      BY <2>1, <2>3
    <3> QED
      BY <1>0, <3>1, <3>2, EnterBegins DEF Operations, Arguments, Documents
  <2> QED
    BY <2>2, <2>3
<1>3. CASE Lookup(r)
  <2>1. PICK k \in CacheKeys :
          LET hit == redis.up /\ cache[k].hit IN
          /\ Enter(r, "read", k, NoOne, IF hit THEN "done" ELSE "compute", IF hit THEN "hit" ELSE "none")
          /\ UNCHANGED <<product, cache, reviews, sold>>
    BY <1>3 DEF Lookup
  <2>2. \/ Enter(r, "read", k, NoOne, "done", "hit")
        \/ Enter(r, "read", k, NoOne, "compute", "none")
    BY <2>1
  <2>3. "read" \in load =>
          /\ Held(r, [op |-> "read", pc |-> "done", arg |-> k, ans |-> "hit", snap |-> NoOne,
                      before |-> Finished], product)
          /\ Held(r, [op |-> "read", pc |-> "compute", arg |-> k, ans |-> "none", snap |-> NoOne,
                      before |-> Finished], product)
    BY DEF Held
  <2> QED
    BY <2>1, <2>2, <2>3, EnterBegins DEF Operations, Arguments, Documents
<1>4. CASE CreateReview(r)
  <2>1. PICK u \in Raters :
          LET ok == product.exists /\ ~AlreadyReviewed(u) IN
          /\ Enter(r, "review", u, NoOne, IF ok THEN "insert" ELSE "done", IF ok THEN "none" ELSE "refused")
          /\ UNCHANGED <<product, cache, reviews, sold>>
    BY <1>4 DEF CreateReview
  <2>2. \/ product.exists /\ Enter(r, "review", u, NoOne, "insert", "none")
        \/ Enter(r, "review", u, NoOne, "done", "refused")
    BY <2>1
  <2>3. "review" \in load =>
          /\ product.exists => Held(r, [op |-> "review", pc |-> "insert", arg |-> u, ans |-> "none",
                                        snap |-> NoOne, before |-> Finished], product)
          /\ Held(r, [op |-> "review", pc |-> "done", arg |-> u, ans |-> "refused", snap |-> NoOne,
                      before |-> Finished], product)
    BY DEF Held, Edits
  <2> QED
    BY <2>1, <2>2, <2>3, EnterBegins DEF Operations, Arguments, Documents
<1>5. CASE DeleteReview(r)
  <2>1. PICK u \in Reviewers :
          Enter(r, "unreview", u, NoOne, "delete", "none") /\ UNCHANGED <<product, cache, reviews, sold>>
    BY <1>5 DEF DeleteReview
  <2>2. u \in Raters /\ product.exists
    BY DEF Reviewers, HandledInv, ShelfInv
  <2>3. "unreview" \in load =>
          Held(r, [op |-> "unreview", pc |-> "delete", arg |-> u, ans |-> "none", snap |-> NoOne,
                   before |-> Finished], product)
    BY <2>2 DEF Held
  <2> QED
    BY <2>1, <2>2, <2>3, EnterBegins DEF Operations, Arguments, Documents
<1> QED
  BY <1>1, <1>2, <1>3, <1>4, <1>5 DEF UpdateProduct, RemoveProduct

\* A request that goes on from one of its awaits.
Then(r, pc, ans, doc) ==
  /\ req' = [req EXCEPT ![r] = [req[r] EXCEPT !.pc = pc, !.ans = ans, !.snap = doc]]
  /\ UNCHANGED load

\* The product only grows, and what a request takes along fits its next step.
Grows ==
  /\ product' \in ProductRecord /\ product.ver <= product'.ver
  /\ product.exists => product'.exists

Fits(r, pc, ans, doc, p) ==
  /\ req[r].pc # "idle" /\ req[r].pc # "done"
  /\ pc \in {"invalidate", "store", "aggregate", "rate", "done"}
  /\ ans = "ok" => pc = "done"
  /\ pc = "invalidate" => req[r].op \in Edits
  /\ (pc = "invalidate" \/ (ans = "ok" /\ req[r].op \in Edits)) => doc \in ProductRecord /\ doc.ver <= p.ver
  /\ pc = "store" => req[r].op = "read" /\ req[r].arg \in CacheKeys /\ doc \in ProductRecord
  /\ pc \in {"aggregate", "rate"} => req[r].op \in {"review", "unreview"}
  /\ pc = "rate" => doc \in RatingRecord

LEMMA ThenMoves ==
  ASSUME HandledInv, NEW r \in Requests, NEW pc \in Points, NEW ans \in Answers, NEW doc \in Documents,
         Then(r, pc, ans, doc), Grows, Fits(r, pc, ans, doc, product')
  PROVE  /\ RequestsInv' /\ Moves(r)
         /\ req'[r].pc = pc /\ req'[r].ans = ans /\ req'[r].snap = doc
<1> DEFINE h == [req[r] EXCEPT !.pc = pc, !.ans = ans, !.snap = doc]
<1>0. /\ RequestsInv /\ product \in ProductRecord /\ req[r] \in HandlerRecord /\ Held(r, req[r], product)
      /\ req[r].pc # "idle" /\ req[r].pc # "done" /\ pc # "idle"
  BY DEF HandledInv, RequestsInv, ShelfInv, Fits
<1>1. /\ h \in HandlerRecord /\ h.pc = pc /\ h.ans = ans /\ h.snap = doc
      /\ h.op = req[r].op /\ h.arg = req[r].arg /\ h.before = req[r].before
  BY <1>0 DEF HandlerRecord
<1>2. req' = [req EXCEPT ![r] = h] /\ UNCHANGED load
  BY DEF Then
<1> HIDE DEF h
<1>3. Held(r, h, product')
  BY <1>0, <1>1 DEF Held, Fits, Grows
<1>4. RequestsInv' /\ Moves(r) /\ req'[r] = h
  BY <1>0, <1>1, <1>2, <1>3, RequestMoves DEF Grows
<1> QED
  BY <1>1, <1>4

LEMMA ThenKeeps ==
  ASSUME RequestsInv, NEW r \in Requests, UNCHANGED load
  PROVE  /\ \A pc, doc : req' = [req EXCEPT ![r].pc = pc, ![r].snap = doc] => Then(r, pc, req[r].ans, doc)
         /\ \A pc, ans : req' = [req EXCEPT ![r].pc = pc, ![r].ans = ans] => Then(r, pc, ans, req[r].snap)
         /\ \A pc : req' = [req EXCEPT ![r].pc = pc] => Then(r, pc, req[r].ans, req[r].snap)
BY DEF RequestsInv, HandlerRecord, Then

\* A new product has all its stock, and no request sold any of it before.
LEMMA SaveNewStep ==
  ASSUME HandledInv, NEW r \in Requests, SaveNew(r)
  PROVE  /\ HandledInv' /\ Moves(r) /\ UNCHANGED <<cache, reviews>>
         /\ req'[r].pc = "invalidate" /\ req'[r].ans # "ok" /\ ~ product.exists
         /\ product.ver <= product'.ver
<1>0. /\ RequestsInv /\ ShelfInv /\ product.ver = 0
      /\ req[r] \in HandlerRecord /\ Held(r, req[r], product) /\ req[r].pc = "create"
      /\ ~ product.exists /\ sold = 0 /\ UNCHANGED <<cache, reviews, sold, load>>
  BY DEF HandledInv, RequestsInv, ShelfInv, SaveNew, At
<1> DEFINE s == req[r].arg
<1>1. s \in Sellers \cup {NoOne} /\ req[r].op = "create" /\ req[r].ans # "ok" /\ req[r].ans \in Answers
  BY <1>0 DEF Held, HandlerRecord
<1> HIDE DEF s
<1>2. /\ product' \in ProductRecord /\ product'.exists /\ product'.ver = 1
      /\ product'.stock = InitialStock /\ product'.base = InitialStock
  BY <1>1, CatalogueAssumption DEF SaveNew, Offered, Nothing, ProductRecord, s
<1>3. product.ver <= product'.ver /\ product'.ver <= product'.ver
  BY <1>0, <1>2
<1>4. Then(r, "invalidate", req[r].ans, product')
  BY <1>0 DEF SaveNew, Then, RequestsInv, HandlerRecord
<1>5. RequestsInv' /\ Moves(r) /\ req'[r].pc = "invalidate" /\ req'[r].ans = req[r].ans
  <2>1. "invalidate" \in Points /\ product' \in Documents /\ Grows
    BY <1>0, <1>2, <1>3 DEF Points, Documents, Grows
  <2>2. Fits(r, "invalidate", req[r].ans, product', product')
    BY <1>0, <1>1, <1>2, <1>3 DEF Fits, Edits
  <2> QED
    BY <1>0, <1>1, <1>4, <2>1, <2>2, ThenMoves
<1>6. ShelfInv'
  <2>1. product'.stock + sold' = product'.base
    BY <1>0, <1>2, CatalogueAssumption
  <2> QED
    BY <1>0, <1>2, <2>1 DEF ShelfInv, ReservationsSurviveEdits, Reviewers
<1> QED
  BY <1>0, <1>1, <1>3, <1>5, <1>6 DEF HandledInv

\* An edit writes the fields it assigned and that differ from what it read:
\* the stock only when it was restocked, and then the count starts anew.
LEMMA SaveEditStep ==
  ASSUME HandledInv, NEW r \in Requests, SaveEdit(r)
  PROVE  /\ HandledInv' /\ Moves(r) /\ UNCHANGED <<cache, reviews>>
         /\ req'[r].pc = "invalidate" /\ req'[r].ans # "ok" /\ product.exists
         /\ product'.rating = product.rating /\ product'.count = product.count
         /\ product.ver <= product'.ver
<1>0. /\ RequestsInv /\ ShelfInv /\ product \in ProductRecord /\ sold \in Nat
      /\ req[r] \in HandlerRecord /\ Held(r, req[r], product) /\ req[r].pc = "save"
      /\ UNCHANGED <<cache, reviews, load>>
  BY DEF HandledInv, RequestsInv, ShelfInv, SaveEdit, At
<1>1. /\ req[r].op \in {"update", "restock", "remove"} /\ Snap(r) \in ProductRecord /\ product.exists
      /\ req[r].ans # "ok" /\ req[r].ans \in Answers
  BY <1>0 DEF Held, HandlerRecord, Snap
<1> DEFINE doc == ChangedPaths(r)
           restocked == req[r].op = "restock" /\ Snap(r).stock # InitialStock
<1>2. /\ doc \in ProductRecord /\ doc.exists = product.exists
      /\ doc.stock = IF restocked THEN InitialStock ELSE product.stock
      /\ doc.rating = product.rating /\ doc.count = product.count
  <2>2. DOMAIN product = {"exists", "seller", "deleted", "content", "ver", "stock", "base", "rating", "count"}
    BY <1>0 DEF ProductRecord
  <2>3. CASE req[r].op = "update"
    <3>1. doc = [product EXCEPT !.content = IF r # Snap(r).content THEN r ELSE @]
      BY <2>2, <2>3 DEF ChangedPaths, SaveChanges, Assigned
    <3>2. ~ restocked
      BY <2>3 DEF restocked
    <3> HIDE DEF doc, restocked
    <3> QED
      BY <1>0, <3>1, <3>2 DEF ProductRecord
  <2>4. CASE req[r].op = "restock"
    <3> DEFINE a == Assigned(r)
               c == IF r # Snap(r)["content"] THEN r ELSE product["content"]
               n == IF InitialStock # Snap(r)["stock"] THEN InitialStock ELSE product["stock"]
    <3>1. a = [content |-> r, stock |-> InitialStock]
      BY <2>4 DEF Assigned
    <3>2. DOMAIN a = {"content", "stock"} /\ a["content"] = r /\ a["stock"] = InitialStock
      BY <3>1
    <3>3. doc = [f \in DOMAIN product |-> IF f \in DOMAIN a /\ a[f] # Snap(r)[f] THEN a[f] ELSE product[f]]
      BY DEF ChangedPaths, SaveChanges
    <3> HIDE DEF a
    <3>4. doc = [f \in DOMAIN product |-> IF f = "content" THEN c ELSE IF f = "stock" THEN n ELSE product[f]]
      BY <3>2, <3>3
    <3>5. (c = r \/ c = product.content) /\ n = IF Snap(r).stock # InitialStock THEN InitialStock ELSE product.stock
      OBVIOUS
    <3> HIDE DEF c, n
    <3>6. doc = [product EXCEPT !.content = c, !.stock = n]
      BY <2>2, <3>4
    <3>7. restocked <=> Snap(r).stock # InitialStock
      BY <2>4 DEF restocked
    <3> HIDE DEF doc, restocked
    <3> QED
      BY <1>0, <3>5, <3>6, <3>7, CatalogueAssumption DEF ProductRecord
  <2>5. CASE req[r].op = "remove"
    <3> DEFINE a == Assigned(r)
    <3>1. a = [deleted |-> TRUE]
      BY <2>5 DEF Assigned
    <3>2. DOMAIN a = {"deleted"} /\ a["deleted"] = TRUE
      BY <3>1
    <3>3. doc = [f \in DOMAIN product |-> IF f \in DOMAIN a /\ a[f] # Snap(r)[f] THEN a[f] ELSE product[f]]
      BY DEF ChangedPaths, SaveChanges
    <3> HIDE DEF a
    <3>4. doc = [product EXCEPT !.deleted = IF Snap(r).deleted # TRUE THEN TRUE ELSE @]
      BY <2>2, <3>2, <3>3
    <3>5. ~ restocked
      BY <2>5 DEF restocked
    <3> HIDE DEF doc, restocked
    <3> QED
      BY <1>0, <3>4, <3>5 DEF ProductRecord
  <2> HIDE DEF doc, restocked
  <2> QED
    BY <1>1, <2>3, <2>4, <2>5
<1>3. /\ product' = [doc EXCEPT !.ver = product.ver + 1, !.base = IF restocked THEN InitialStock ELSE product.base]
      /\ sold' = IF restocked THEN 0 ELSE sold
      /\ Then(r, "invalidate", req[r].ans, product')
  <2> HIDE DEF doc, restocked
  <2>1. /\ product' = [doc EXCEPT !.ver = product.ver + 1, !.base = IF restocked THEN InitialStock ELSE product.base]
        /\ sold' = IF restocked THEN 0 ELSE sold
        /\ req' = [req EXCEPT ![r].pc = "invalidate", ![r].snap = product']
    BY DEF SaveEdit, doc, restocked
  <2>2. Then(r, "invalidate", req[r].ans, product')
    <3>1. req' = [req EXCEPT ![r].pc = "invalidate", ![r].snap = product'] /\ UNCHANGED load
      BY <1>0, <2>1
    <3> QED
      BY <1>0, <3>1 DEF Then, RequestsInv, HandlerRecord
  <2> QED
    BY <2>1, <2>2
<1> HIDE DEF doc, restocked
<1>4. /\ product' \in ProductRecord /\ product'.exists /\ product'.ver = product.ver + 1
      /\ product'.stock = IF restocked THEN InitialStock ELSE product.stock
      /\ product'.base = IF restocked THEN InitialStock ELSE product.base
      /\ product'.rating = product.rating /\ product'.count = product.count
  <2>1. product.ver + 1 \in Nat /\ product.base \in Nat /\ InitialStock \in Nat
    BY <1>0, ProductFields, CatalogueAssumption
  <2> QED
    BY <1>1, <1>2, <1>3, <2>1 DEF ProductRecord
<1>5. product.ver <= product'.ver /\ product'.ver <= product'.ver
  <2>1. product.ver \in Nat
    BY <1>0, ProductFields
  <2> QED
    BY <1>4, <2>1
<1>6. RequestsInv' /\ Moves(r) /\ req'[r].pc = "invalidate" /\ req'[r].ans = req[r].ans
  <2>1. "invalidate" \in Points /\ product' \in Documents /\ Grows
    BY <1>4, <1>5 DEF Points, Documents, Grows
  <2>2. Fits(r, "invalidate", req[r].ans, product', product')
    BY <1>0, <1>1, <1>4, <1>5 DEF Fits, Edits
  <2> QED
    BY <1>0, <1>1, <1>3, <2>1, <2>2, ThenMoves
<1>7. ShelfInv'
  <2>1. product'.stock + sold' = product'.base
    BY <1>0, <1>1, <1>3, <1>4, CatalogueAssumption DEF ShelfInv, ReservationsSurviveEdits
  <2>2. sold' \in Nat
    BY <1>0, <1>3
  <2> QED
    BY <1>0, <1>4, <2>1, <2>2 DEF ShelfInv, ReservationsSurviveEdits, Reviewers
<1> QED
  BY <1>0, <1>1, <1>4, <1>5, <1>6, <1>7 DEF HandledInv

\* A step that leaves the product alone.
LEMMA StillGrows ==
  ASSUME HandledInv, UNCHANGED product
  PROVE  Grows /\ product \in ProductRecord /\ product.ver \in Nat
BY DEF HandledInv, ShelfInv, Grows, ProductRecord

LEMMA InvalidateStep ==
  ASSUME HandledInv, NEW r \in Requests, Invalidate(r)
  PROVE  /\ HandledInv' /\ Moves(r) /\ UNCHANGED <<product, reviews, sold>>
         /\ req[r].op \in Edits /\ req'[r].pc = "done" /\ req[r].ans # "ok"
         /\ cache' = Invalidated \/ (UNCHANGED cache /\ req'[r].ans # "ok")
<1>0. /\ RequestsInv /\ ShelfInv /\ req[r] \in HandlerRecord /\ Held(r, req[r], product) /\ req[r].pc = "invalidate"
      /\ UNCHANGED load /\ UNCHANGED <<product, reviews, sold>>
  BY DEF HandledInv, RequestsInv, ShelfInv, Invalidate, At
<1>1. req[r].op \in Edits /\ req[r].snap \in ProductRecord /\ req[r].snap.ver <= product.ver /\ req[r].ans # "ok"
  BY <1>0 DEF Held
<1>2. Grows
  BY <1>0, StillGrows
<1>3. PICK ans \in {"ok", "unseen"} :
        /\ req' = [req EXCEPT ![r].pc = "done", ![r].ans = ans]
        /\ (ans = "ok" /\ cache' = Invalidated) \/ (ans = "unseen" /\ UNCHANGED cache)
  BY DEF Invalidate, Answer
<1>4. Then(r, "done", ans, req[r].snap)
  BY <1>0, <1>3, ThenKeeps
<1>5. Fits(r, "done", ans, req[r].snap, product')
  BY <1>0, <1>1 DEF Fits
<1>6. "done" \in Points /\ ans \in Answers /\ req[r].snap \in Documents
  BY <1>1 DEF Points, Answers, Documents
<1>7. RequestsInv' /\ Moves(r) /\ req'[r].pc = "done" /\ req'[r].ans = ans
  BY <1>2, <1>4, <1>5, <1>6, ThenMoves
<1>8. ShelfInv'
  <2>1. cache' \in [CacheKeys -> CacheRecord]
    <3>1. Miss \in CacheRecord
      BY DEF Miss, CacheRecord
    <3> QED
      BY <1>0, <1>3, <3>1 DEF ShelfInv, Invalidated
  <2> QED
    BY <1>0, <2>1 DEF ShelfInv, ReservationsSurviveEdits, Reviewers
<1> QED
  BY <1>0, <1>1, <1>3, <1>7, <1>8 DEF HandledInv

LEMMA ComputeStep ==
  ASSUME HandledInv, NEW r \in Requests, Compute(r)
  PROVE  /\ HandledInv' /\ Moves(r) /\ UNCHANGED <<product, cache, reviews, sold>>
         /\ req'[r].op = "read" /\ req'[r].pc = "store" /\ req'[r].ans # "ok" /\ req'[r].snap = product
<1>0. /\ RequestsInv /\ ShelfInv /\ req[r] \in HandlerRecord /\ Held(r, req[r], product) /\ req[r].pc = "compute"
      /\ UNCHANGED load /\ UNCHANGED <<product, cache, reviews, sold>>
      /\ req' = [req EXCEPT ![r].pc = "store", ![r].snap = product]
  BY DEF HandledInv, RequestsInv, ShelfInv, Compute, At
<1>1. req[r].op = "read" /\ req[r].arg \in CacheKeys /\ req[r].ans # "ok" /\ req[r].ans \in Answers
  BY <1>0 DEF Held, HandlerRecord
<1>2. Grows /\ product \in ProductRecord
  BY <1>0, StillGrows
<1>3. Then(r, "store", req[r].ans, product)
  BY <1>0, ThenKeeps
<1>4. Fits(r, "store", req[r].ans, product, product')
  BY <1>0, <1>1, <1>2 DEF Fits
<1>5. "store" \in Points /\ product \in Documents
  BY <1>2 DEF Points, Documents
<1>6. /\ RequestsInv' /\ Moves(r) /\ req'[r].pc = "store" /\ req'[r].ans = req[r].ans /\ req'[r].snap = product
  BY <1>1, <1>2, <1>3, <1>4, <1>5, ThenMoves
<1> QED
  BY <1>0, <1>1, <1>6, ShelfKept DEF HandledInv, Moves

LEMMA StoreStep ==
  ASSUME HandledInv, NEW r \in Requests, Store(r)
  PROVE  /\ HandledInv' /\ Moves(r) /\ UNCHANGED <<product, reviews, sold>>
         /\ req[r].pc = "store" /\ req[r].op = "read" /\ req'[r].pc = "done" /\ req'[r].ans # "ok"
         /\ \A k \in CacheKeys : \/ cache'[k] = cache[k]
                                 \/ cache'[k].ver = Snap(r).ver /\ cache'[k].by = r
<1>0. /\ RequestsInv /\ ShelfInv /\ req[r] \in HandlerRecord /\ Held(r, req[r], product) /\ req[r].pc = "store"
      /\ UNCHANGED load /\ UNCHANGED <<product, reviews, sold>>
      /\ req' = [req EXCEPT ![r].pc = "done", ![r].ans = "computed", ![r].snap = NoOne]
  BY DEF HandledInv, RequestsInv, ShelfInv, Store, At
<1>1. req[r].op = "read" /\ req[r].arg \in CacheKeys /\ req[r].snap \in ProductRecord /\ req[r].snap.ver \in Nat
  BY <1>0 DEF Held, ProductRecord
<1>2. Grows
  BY <1>0, StillGrows
<1>3. Then(r, "done", "computed", NoOne)
  BY <1>0 DEF Then, RequestsInv, HandlerRecord
<1>4. Fits(r, "done", "computed", NoOne, product')
  BY <1>0, <1>1 DEF Fits
<1>5. "done" \in Points /\ "computed" \in Answers /\ NoOne \in Documents
  BY DEF Points, Answers, Documents
<1>6. RequestsInv' /\ Moves(r) /\ req'[r].pc = "done" /\ req'[r].ans = "computed"
  BY <1>2, <1>3, <1>4, <1>5, ThenMoves
<1> DEFINE v == [hit |-> TRUE, ver |-> Snap(r).ver, by |-> r]
<1>7. v \in CacheRecord /\ v.ver = Snap(r).ver /\ v.by = r
  BY <1>1 DEF CacheRecord, Snap
<1>8. cache' = [cache EXCEPT ![req[r].arg] = v] \/ UNCHANGED cache
  BY DEF Store
<1> HIDE DEF v
<1>9. cache \in [CacheKeys -> CacheRecord]
  BY <1>0 DEF ShelfInv
<1>10. ShelfInv'
  <2>1. cache' \in [CacheKeys -> CacheRecord]
    BY <1>7, <1>8, <1>9
  <2> QED
    BY <1>0, <2>1 DEF ShelfInv, ReservationsSurviveEdits, Reviewers
<1> QED
  BY <1>0, <1>1, <1>6, <1>7, <1>8, <1>9, <1>10 DEF HandledInv

\* A reservation takes a piece that is there.
LEMMA ReserveStep ==
  ASSUME HandledInv, NEW r \in Requests, Reserve(r)
  PROVE  /\ HandledInv' /\ Moves(r) /\ UNCHANGED <<cache, reviews>>
         /\ req'[r].op = "reserve" /\ req'[r].pc = "done"
         /\ product'.rating = product.rating /\ product'.count = product.count
         /\ product.ver = product'.ver /\ (product.exists => product'.exists)
<1>0. /\ RequestsInv /\ ShelfInv /\ product \in ProductRecord /\ sold \in Nat
      /\ UNCHANGED <<cache, reviews>>
  BY DEF HandledInv, ShelfInv, Reserve
<1>1. \/ /\ InStock /\ product' = [product EXCEPT !.stock = @ - 1] /\ sold' = sold + 1
      \/ UNCHANGED <<product, sold>>
  BY DEF Reserve
<1>2. /\ product' \in ProductRecord /\ product'.exists = product.exists /\ product'.ver = product.ver
      /\ product'.rating = product.rating /\ product'.count = product.count /\ product'.base = product.base
      /\ sold' \in Nat
      /\ \/ product.exists /\ product'.stock = product.stock - 1 /\ sold' = sold + 1
         \/ product'.stock = product.stock /\ sold' = sold
  <2>1. CASE UNCHANGED <<product, sold>>
    BY <1>0, <2>1
  <2>2. CASE InStock /\ product' = [product EXCEPT !.stock = @ - 1] /\ sold' = sold + 1
    <3>1. product.stock \in Nat /\ product.stock >= 1 /\ product.exists
      BY <1>0, <2>2, ProductFields DEF InStock
    <3>2. product.stock - 1 \in Nat /\ sold + 1 \in Nat
      BY <1>0, <3>1
    <3> QED
      BY <1>0, <2>2, <3>1, <3>2 DEF ProductRecord
  <2> QED
    BY <1>1, <2>1, <2>2
<1>3. product.ver <= product'.ver
  BY <1>0, <1>2, ProductFields
<1>4. PICK ans \in {"ok", "refused"} : Enter(r, "reserve", NoOne, NoOne, "done", ans)
  BY DEF Reserve
<1>5. "reserve" \in load =>
        Held(r, [op |-> "reserve", pc |-> "done", arg |-> NoOne, ans |-> ans, snap |-> NoOne,
                 before |-> Finished], product')
  BY DEF Held, Edits
<1>6. /\ "reserve" \in Operations /\ NoOne \in Arguments /\ NoOne \in Documents /\ "done" \in Points
      /\ ans \in Answers
  BY DEF Operations, Arguments, Documents, Points, Answers
<1>7. RequestsInv' /\ Moves(r) /\ req'[r].op = "reserve" /\ req'[r].pc = "done"
  BY <1>0, <1>2, <1>3, <1>4, <1>5, <1>6, EnterMoves
<1>8. ShelfInv'
  <2>1. product'.exists => product'.stock + sold' = product'.base
    <3>1. product.exists => product.stock + sold = product.base
      BY <1>0 DEF ShelfInv, ReservationsSurviveEdits
    <3>2. product.stock \in Nat /\ product.base \in Nat
      BY <1>0, ProductFields
    <3> QED
      BY <1>0, <1>2, <3>1, <3>2
  <2> QED
    BY <1>0, <1>2, <2>1 DEF ShelfInv, ReservationsSurviveEdits, Reviewers
<1> QED
  BY <1>0, <1>2, <1>7, <1>8 DEF HandledInv

\* The unique index lets one of two inserts of a customer through.
LEMMA InsertStep ==
  ASSUME HandledInv, NEW r \in Requests, InsertReview(r)
  PROVE  /\ HandledInv' /\ Moves(r) /\ UNCHANGED <<product, cache, sold>>
         /\ req[r].op = "review" /\ req[r].pc = "insert" /\ req[r].arg \in Raters /\ req'[r].pc # "rate"
         /\ req'[r].ans # "ok" /\ product.exists
         /\ \/ UNCHANGED reviews /\ req'[r].pc = "done"
            \/ /\ reviews[req[r].arg] = 0 /\ reviews'[req[r].arg] # 0 /\ req'[r].pc = "aggregate"
               /\ \A u \in Raters \ {req[r].arg} : reviews'[u] = reviews[u]
<1> DEFINE u == req[r].arg
<1>0. /\ RequestsInv /\ ShelfInv /\ req[r] \in HandlerRecord /\ Held(r, req[r], product) /\ req[r].pc = "insert"
      /\ UNCHANGED load /\ UNCHANGED <<product, cache, sold>>
      /\ reviews \in [Raters -> Ratings \cup {0}] /\ IsFiniteSet(Reviewers)
  BY DEF HandledInv, RequestsInv, ShelfInv, InsertReview, At
<1>1. /\ req[r].op = "review" /\ u \in Raters /\ req[r].ans # "ok" /\ req[r].ans \in Answers
      /\ req[r].snap \in Documents /\ product.exists
  BY <1>0 DEF Held, HandlerRecord
<1> HIDE DEF u
<1>2. Grows
  BY <1>0, StillGrows
<1>3. ASSUME NEW pc \in {"done", "aggregate"}, NEW ans \in Answers, ans # "ok", Then(r, pc, ans, req[r].snap)
      PROVE  RequestsInv' /\ Moves(r) /\ req'[r].pc = pc /\ req'[r].ans = ans
  <2>1. pc \in Points /\ Fits(r, pc, ans, req[r].snap, product')
    BY <1>0, <1>1, <1>3 DEF Fits, Points
  <2> QED
    BY <1>1, <1>2, <1>3, <2>1, ThenMoves
<1>4. CASE AlreadyReviewed(u)
  <2>1. req' = [req EXCEPT ![r].pc = "done", ![r].ans = "refused"] /\ UNCHANGED reviews
    BY <1>4 DEF InsertReview, Answer, u
  <2>2. Then(r, "done", "refused", req[r].snap)
    BY <1>0, <2>1, ThenKeeps
  <2>3. RequestsInv' /\ Moves(r) /\ req'[r].pc = "done" /\ req'[r].ans = "refused"
    BY <1>3, <2>2 DEF Answers
  <2> QED
    BY <1>0, <1>1, <2>1, <2>3, ShelfKept DEF HandledInv, u
<1>5. CASE ~ AlreadyReviewed(u)
  <2>1. PICK n \in Ratings : reviews' = [reviews EXCEPT ![u] = n]
    BY <1>5 DEF InsertReview, u
  <2>2. req' = [req EXCEPT ![r].pc = "aggregate"]
    BY <1>5 DEF InsertReview, Goto, u
  <2>3. Then(r, "aggregate", req[r].ans, req[r].snap)
    BY <1>0, <2>2, ThenKeeps
  <2>4. RequestsInv' /\ Moves(r) /\ req'[r].pc = "aggregate" /\ req'[r].ans # "ok"
    BY <1>1, <1>3, <2>3
  <2>5. n # 0 /\ reviews[u] = 0
    BY <1>5, CatalogueAssumption DEF AlreadyReviewed
  <2>6. /\ reviews' \in [Raters -> Ratings \cup {0}] /\ reviews'[u] = n
        /\ \A x \in Raters \ {u} : reviews'[x] = reviews[x]
    BY <1>0, <1>1, <2>1
  <2>7. Reviewers' = Reviewers \cup {u}
    BY <1>1, <2>5, <2>6 DEF Reviewers
  <2>8. IsFiniteSet(Reviewers')
    BY <1>0, <2>7, FS_AddElement
  <2>9. ShelfInv'
    BY <1>0, <1>1, <2>6, <2>8 DEF ShelfInv, ReservationsSurviveEdits
  <2> QED
    BY <1>0, <1>1, <2>4, <2>5, <2>6, <2>9 DEF HandledInv, u
<1> QED
  BY <1>4, <1>5

LEMMA DropStep ==
  ASSUME HandledInv, NEW r \in Requests, DropReview(r)
  PROVE  /\ HandledInv' /\ Moves(r) /\ UNCHANGED <<product, cache, sold>>
         /\ req[r].op = "unreview" /\ req[r].pc = "delete" /\ req[r].arg \in Raters
         /\ req'[r].pc = "aggregate" /\ req'[r].ans # "ok" /\ product.exists
         /\ reviews'[req[r].arg] = 0 /\ \A u \in Raters \ {req[r].arg} : reviews'[u] = reviews[u]
<1> DEFINE u == req[r].arg
<1>0. /\ RequestsInv /\ ShelfInv /\ req[r] \in HandlerRecord /\ Held(r, req[r], product) /\ req[r].pc = "delete"
      /\ UNCHANGED load /\ UNCHANGED <<product, cache, sold>>
      /\ reviews \in [Raters -> Ratings \cup {0}] /\ IsFiniteSet(Reviewers)
      /\ reviews' = [reviews EXCEPT ![u] = 0] /\ req' = [req EXCEPT ![r].pc = "aggregate"]
  BY DEF HandledInv, RequestsInv, ShelfInv, DropReview, At, Goto
<1>1. /\ req[r].op = "unreview" /\ u \in Raters /\ req[r].ans # "ok" /\ req[r].ans \in Answers
      /\ req[r].snap \in Documents /\ product.exists
  BY <1>0 DEF Held, HandlerRecord
<1> HIDE DEF u
<1>2. Grows
  BY <1>0, StillGrows
<1>3. Then(r, "aggregate", req[r].ans, req[r].snap)
  BY <1>0, ThenKeeps
<1>4. "aggregate" \in Points /\ Fits(r, "aggregate", req[r].ans, req[r].snap, product')
  BY <1>0, <1>1 DEF Fits, Points
<1>5. RequestsInv' /\ Moves(r) /\ req'[r].pc = "aggregate" /\ req'[r].ans # "ok"
  BY <1>1, <1>2, <1>3, <1>4, ThenMoves
<1>6. /\ reviews' \in [Raters -> Ratings \cup {0}] /\ reviews'[u] = 0
      /\ \A x \in Raters \ {u} : reviews'[x] = reviews[x]
  BY <1>0, <1>1
<1>7. Reviewers' \subseteq Reviewers
  BY <1>6 DEF Reviewers
<1>8. IsFiniteSet(Reviewers')
  BY <1>0, <1>7, FS_Subset
<1>9. ShelfInv'
  BY <1>0, <1>1, <1>6, <1>8 DEF ShelfInv, ReservationsSurviveEdits
<1> QED
  BY <1>0, <1>1, <1>5, <1>6, <1>9 DEF HandledInv, u

LEMMA AggregateStep ==
  ASSUME HandledInv, NEW r \in Requests, Aggregate(r)
  PROVE  /\ HandledInv' /\ Moves(r) /\ UNCHANGED <<product, cache, reviews, sold>>
         /\ req[r].op \in {"review", "unreview"} /\ req[r].pc = "aggregate" /\ req'[r].pc = "rate"
         /\ req'[r].ans # "ok" /\ req'[r].snap = Recount /\ product.exists
<1>0. /\ RequestsInv /\ ShelfInv /\ req[r] \in HandlerRecord /\ Held(r, req[r], product) /\ req[r].pc = "aggregate"
      /\ UNCHANGED load /\ UNCHANGED <<product, cache, reviews, sold>>
      /\ reviews \in [Raters -> Ratings \cup {0}] /\ IsFiniteSet(Reviewers)
      /\ req' = [req EXCEPT ![r].pc = "rate", ![r].snap = Recount]
  BY DEF HandledInv, RequestsInv, ShelfInv, Aggregate, At
<1>1. /\ req[r].op \in {"review", "unreview"} /\ req[r].ans # "ok" /\ req[r].ans \in Answers /\ product.exists
  BY <1>0 DEF Held, HandlerRecord
<1>2. Recount \in RatingRecord /\ Recount \in Documents /\ "rate" \in Points
  BY <1>0, RecountType DEF Documents, Points
<1>3. Grows
  BY <1>0, StillGrows
<1>4. Then(r, "rate", req[r].ans, Recount)
  BY <1>0, ThenKeeps
<1>5. Fits(r, "rate", req[r].ans, Recount, product')
  BY <1>0, <1>1, <1>2 DEF Fits
<1>6. RequestsInv' /\ Moves(r) /\ req'[r].pc = "rate" /\ req'[r].ans # "ok" /\ req'[r].snap = Recount
  BY <1>1, <1>2, <1>3, <1>4, <1>5, ThenMoves
<1> QED
  BY <1>0, <1>1, <1>6, ShelfKept DEF HandledInv

LEMMA WriteRatingStep ==
  ASSUME HandledInv, NEW r \in Requests, WriteRating(r)
  PROVE  /\ HandledInv' /\ Moves(r) /\ UNCHANGED <<cache, reviews, sold>>
         /\ req[r].op \in {"review", "unreview"} /\ req[r].pc = "rate" /\ req'[r].pc = "done" /\ req'[r].ans = "ok"
         /\ product'.rating = Snap(r).rating /\ product'.count = Snap(r).count /\ product.exists
         /\ product.ver <= product'.ver
<1>0. /\ RequestsInv /\ ShelfInv /\ req[r] \in HandlerRecord /\ Held(r, req[r], product) /\ req[r].pc = "rate"
      /\ UNCHANGED load /\ UNCHANGED <<cache, reviews, sold>> /\ product \in ProductRecord
      /\ product' = [product EXCEPT !.rating = Snap(r).rating, !.count = Snap(r).count]
      /\ req' = [req EXCEPT ![r].pc = "done", ![r].ans = "ok"]
  BY DEF HandledInv, RequestsInv, ShelfInv, WriteRating, At, Answer
<1>1. /\ req[r].op \in {"review", "unreview"} /\ product.exists /\ req[r].snap \in RatingRecord
      /\ Snap(r).rating \in Nat /\ Snap(r).count \in Nat /\ req[r].snap \in Documents
  BY <1>0 DEF Held, RatingRecord, Snap, Documents
<1>2. /\ product' \in ProductRecord /\ product'.exists /\ product'.ver = product.ver /\ product.ver \in Nat
      /\ product'.stock = product.stock /\ product'.base = product.base
      /\ product'.rating = Snap(r).rating /\ product'.count = Snap(r).count
  BY <1>0, <1>1 DEF ProductRecord
<1>3. Grows /\ product.ver <= product'.ver
  BY <1>1, <1>2 DEF Grows
<1>4. Then(r, "done", "ok", req[r].snap)
  BY <1>0, ThenKeeps
<1>5. "done" \in Points /\ "ok" \in Answers /\ Fits(r, "done", "ok", req[r].snap, product')
  BY <1>0, <1>1 DEF Fits, Points, Answers, Edits
<1>6. RequestsInv' /\ Moves(r) /\ req'[r].pc = "done" /\ req'[r].ans = "ok"
  BY <1>1, <1>3, <1>4, <1>5, ThenMoves
<1>7. ShelfInv'
  BY <1>0, <1>1, <1>2 DEF ShelfInv, ReservationsSurviveEdits, Reviewers
<1> QED
  BY <1>0, <1>1, <1>2, <1>3, <1>6, <1>7 DEF HandledInv

\* Redis forgets a value, leaves or returns.
LEMMA RedisStep ==
  ASSUME HandledInv, RedisFails \/ RedisReturns \/ \E k \in CacheKeys : Expire(k)
  PROVE  /\ HandledInv' /\ UNCHANGED <<req, load, product, reviews, sold>>
         /\ \A k \in CacheKeys : cache'[k] = cache[k] \/ cache'[k] = Miss
<1>1. UNCHANGED <<req, load, product, reviews, sold>>
  BY DEF RedisFails, RedisReturns, Expire
<1>2. RequestsInv'
  BY <1>1 DEF HandledInv, RequestsInv, Held, Finished
<1>3. cache \in [CacheKeys -> CacheRecord] /\ Miss \in CacheRecord
  BY DEF HandledInv, ShelfInv, Miss, CacheRecord
<1>4. UNCHANGED cache \/ \E k \in CacheKeys : cache' = [cache EXCEPT ![k] = Miss]
  BY DEF RedisFails, RedisReturns, Expire
<1>5. /\ cache' \in [CacheKeys -> CacheRecord]
      /\ \A k \in CacheKeys : cache'[k] = cache[k] \/ cache'[k] = Miss
  BY <1>3, <1>4
<1>6. ShelfInv'
  BY <1>1, <1>5 DEF HandledInv, ShelfInv, ReservationsSurviveEdits, Reviewers
<1> QED
  BY <1>1, <1>2, <1>5, <1>6 DEF HandledInv

LEMMA HandledStep == HandledInv /\ [Next]_cvars => HandledInv'
<1> SUFFICES ASSUME HandledInv, [Next]_cvars PROVE HandledInv'
  OBVIOUS
<1>1. CASE UNCHANGED cvars
  <2>1. RequestsInv' /\ ShelfInv'
    BY <1>1, ShelfKept DEF HandledInv, RequestsInv, Held, Finished, cvars
  <2> QED
    BY <2>1 DEF HandledInv
<1>2. CASE Next
  BY <1>2, BeginStep, SaveNewStep, SaveEditStep, InvalidateStep, ComputeStep, StoreStep, ReserveStep,
     InsertStep, DropStep, AggregateStep, WriteRatingStep, RedisStep DEF Next, Step
<1> QED
  BY <1>1, <1>2

LEMMA HandledAlways == Spec => []HandledInv
BY HandledInit, HandledStep, PTL DEF Spec

-----------------------------------------------------------------------------
(* The theorems.                                                           *)

\* The product is typed and keeps every reservation: an edit, a removal or
\* a rating saved over it does not bring a reserved piece back, although
\* each was made from a document read before.
THEOREM ProductSafety == Spec => []ProductInv
<1>1. HandledInv => ProductInv
  <2> SUFFICES ASSUME HandledInv PROVE ProductInv
    OBVIOUS
  <2>1. FrameTypeOK
    <3>1. ASSUME NEW r \in Requests
          PROVE  req[r].op \in load \cup {"none"} /\ req[r].before \subseteq Requests \ {r}
      <4>1. Held(r, req[r], product) /\ req[r].before \subseteq Finished \ {r}
        BY DEF HandledInv, RequestsInv
      <4> QED
        BY <4>1 DEF Held, Idle, Finished
    <3> QED
      BY <3>1 DEF FrameTypeOK, HandledInv, RequestsInv
  <2> QED
    BY <2>1 DEF ProductInv, CatalogueTypeOK, HandledInv, ShelfInv
<1> QED
  BY <1>1, HandledAlways, PTL

-----------------------------------------------------------------------------
(* A stale value was read while the edit was in flight.                    *)

\* An edit that was answered with Redis up.
Edited(e) == e \in Finished /\ req[e].op \in Edits /\ req[e].ans = "ok"

FreshInv ==
  /\ \A k \in CacheKeys : cache[k].hit => cache[k].by \in Finished
  /\ StaleOnlyIfOverlapped
  /\ \A r \in Requests, e \in Requests :
        (req[r].pc = "store" /\ Edited(e) /\ e \in Before(r)) => Snap(r).ver >= Snap(e).ver

\* A step that stores nothing: an edit that it answers leaves no value.
LEMMA FreshKept ==
  ASSUME HandledInv, HandledInv', FreshInv, NEW r \in Requests, Moves(r),
         \A k \in CacheKeys : cache'[k] = cache[k] \/ cache'[k] = Miss,
         Edited(r)' => \A k \in CacheKeys : cache'[k] = Miss,
         req'[r].pc = "store" => req'[r].snap = product
  PROVE  FreshInv'
<1>0. r \notin Finished /\ \A d \in Requests \ {r} : req'[d] = req[d]
  BY DEF Moves, Finished
<1>1. Finished \subseteq Finished' /\ \A e \in Requests \ {r} : Edited(e)' = Edited(e)
  BY <1>0 DEF Finished, Edited
<1>2. /\ \A d \in Requests : Before(d) \subseteq Finished
      /\ \A d \in Requests : Before(d)' \subseteq Finished' \ {d}
  BY DEF HandledInv, RequestsInv, Before
<1>3. \A k \in CacheKeys : cache'[k].hit => cache'[k] = cache[k] /\ cache[k].by \in Finished'
  BY <1>1 DEF FreshInv, Miss
<1>4. StaleOnlyIfOverlapped'
  <2> SUFFICES ASSUME NEW k \in CacheKeys, NEW e \in Requests, cache'[k].hit, Edited(e)'
               PROVE  (cache[k].ver >= Snap(e).ver \/ Overlap(cache[k].by, e))'
    BY DEF StaleOnlyIfOverlapped, Edited, Finished
  <2>1. e # r /\ cache'[k] = cache[k] /\ cache[k].by \in Finished /\ cache[k].by # r
    BY <1>0, <1>3 DEF Miss, FreshInv
  <2>2. Edited(e) /\ cache[k].hit
    BY <1>1, <2>1
  <2>3. cache[k].ver >= Snap(e).ver \/ Overlap(cache[k].by, e)
    BY <2>2 DEF FreshInv, StaleOnlyIfOverlapped, Edited
  <2>4. req'[e] = req[e] /\ req'[cache[k].by] = req[cache[k].by]
    BY <1>0, <2>1 DEF Finished
  <2> QED
    BY <2>1, <2>3, <2>4 DEF Overlap, Before, Snap
<1>5. ASSUME NEW d \in Requests, NEW e \in Requests, req'[d].pc = "store", Edited(e)', e \in Before(d)'
      PROVE  (Snap(d).ver >= Snap(e).ver)'
  <2>1. e # r
    BY <1>0, <1>2, <1>5 DEF Before
  <2>2. Edited(e) /\ req'[e] = req[e]
    BY <1>0, <1>1, <1>5, <2>1
  <2>3. CASE d = r
    <3>1. Snap(e).ver <= product.ver /\ Snap(e) \in ProductRecord /\ product \in ProductRecord
      BY <2>2 DEF HandledInv, RequestsInv, ShelfInv, Held, Edited, Snap
    <3>2. product.ver >= Snap(e).ver
      BY <3>1, ProductFields
    <3> QED
      BY <1>5, <2>2, <2>3, <3>2 DEF Snap
  <2>4. CASE d # r
    BY <1>0, <1>5, <2>2, <2>4 DEF FreshInv, Snap, Before
  <2> QED
    BY <2>3, <2>4
<1> QED
  BY <1>3, <1>4, <1>5 DEF FreshInv

\* A value that is stored: every edit answered before its read is in it.
LEMMA FreshStored ==
  ASSUME HandledInv, HandledInv', FreshInv, NEW r \in Requests, Store(r)
  PROVE  FreshInv'
<1>0. /\ r \notin Finished /\ r \in Finished' /\ \A d \in Requests \ {r} : req'[d] = req[d]
      /\ req[r].pc = "store" /\ req'[r].pc = "done" /\ req'[r].ans # "ok" /\ Before(r)' = Before(r)
      /\ \A k \in CacheKeys : cache'[k] = cache[k] \/ (cache'[k].ver = Snap(r).ver /\ cache'[k].by = r)
  BY StoreStep DEF Moves, Finished, Before
<1>1. Finished \subseteq Finished' /\ \A e \in Requests : Edited(e)' => e # r /\ Edited(e) /\ req'[e] = req[e]
  BY <1>0 DEF Finished, Edited
<1>2. \A d \in Requests : Before(d) \subseteq Finished
  BY DEF HandledInv, RequestsInv, Before
<1>3. StaleOnlyIfOverlapped'
  <2> SUFFICES ASSUME NEW k \in CacheKeys, NEW e \in Requests, cache'[k].hit, Edited(e)'
               PROVE  (cache[k].ver >= Snap(e).ver \/ Overlap(cache[k].by, e))'
    BY DEF StaleOnlyIfOverlapped, Edited, Finished
  <2>1. e # r /\ Edited(e) /\ req'[e] = req[e]
    BY <1>1
  <2>2. CASE cache'[k] = cache[k]
    <3>1. cache[k].by \in Finished /\ cache[k].by # r
      BY <1>0, <2>2 DEF FreshInv
    <3>2. cache[k].ver >= Snap(e).ver \/ Overlap(cache[k].by, e)
      BY <2>1, <2>2 DEF FreshInv, StaleOnlyIfOverlapped, Edited
    <3>3. req'[cache[k].by] = req[cache[k].by]
      BY <1>0, <3>1 DEF Finished
    <3> QED
      BY <2>1, <2>2, <3>2, <3>3 DEF Overlap, Before, Snap
  <2>3. CASE cache'[k].ver = Snap(r).ver /\ cache'[k].by = r
    <3>1. CASE e \in Before(r)
      BY <1>0, <2>1, <2>3, <3>1 DEF FreshInv, Snap
    <3>2. CASE e \notin Before(r)
      <4>1. e \notin Before(r)' /\ r \notin Before(e)'
        BY <1>0, <1>2, <2>1, <3>2 DEF Before
      <4> QED
        BY <2>3, <4>1 DEF Overlap
    <3> QED
      BY <3>1, <3>2
  <2> QED
    BY <1>0, <2>2, <2>3
<1>4. \A k \in CacheKeys : cache'[k].hit => cache'[k].by \in Finished'
  BY <1>0, <1>1 DEF FreshInv
<1>5. \A d \in Requests, e \in Requests :
        (req'[d].pc = "store" /\ Edited(e)' /\ e \in Before(d)') => (Snap(d).ver >= Snap(e).ver)'
  BY <1>0, <1>1 DEF FreshInv, Snap, Before
<1> QED
  BY <1>3, <1>4, <1>5 DEF FreshInv

LEMMA FreshStep == HandledInv /\ FreshInv /\ [Next]_cvars => FreshInv'
<1> SUFFICES ASSUME HandledInv, FreshInv, [Next]_cvars PROVE FreshInv'
  OBVIOUS
<1>0. HandledInv'
  BY HandledStep
<1>1. ASSUME UNCHANGED req, \A k \in CacheKeys : cache'[k] = cache[k] \/ cache'[k] = Miss
      PROVE  FreshInv'
  BY <1>1 DEF FreshInv, StaleOnlyIfOverlapped, Edited, Finished, Overlap, Before, Snap, Miss
<1>2. CASE UNCHANGED cvars
  BY <1>1, <1>2 DEF cvars
<1>3. CASE RedisFails \/ RedisReturns \/ \E k \in CacheKeys : Expire(k)
  BY <1>1, <1>3, RedisStep
<1>4. ASSUME NEW r \in Requests, Step(r)
      PROVE  FreshInv'
  <2>1. ASSUME Moves(r), UNCHANGED cache, req'[r].ans # "ok", req'[r].pc # "store"
        PROVE  FreshInv'
    BY <1>0, <2>1, FreshKept DEF Edited
  <2>2. CASE Store(r)
    BY <1>0, <2>2, FreshStored
  <2>3. CASE Invalidate(r)
    <3>1. /\ Moves(r) /\ req'[r].pc = "done"
          /\ cache' = Invalidated \/ (UNCHANGED cache /\ req'[r].ans # "ok")
      BY <2>3, InvalidateStep
    <3>2. /\ \A k \in CacheKeys : cache'[k] = cache[k] \/ cache'[k] = Miss
          /\ Edited(r)' => \A k \in CacheKeys : cache'[k] = Miss
      BY <3>1 DEF Invalidated, Edited
    <3> QED
      BY <1>0, <3>1, <3>2, FreshKept
  <2>4. CASE Compute(r)
    <3>1. Moves(r) /\ UNCHANGED cache /\ req'[r].snap = product /\ req'[r].ans # "ok"
      BY <2>4, ComputeStep
    <3> QED
      BY <1>0, <3>1, FreshKept DEF Edited
  <2>5. CASE Reserve(r)
    <3>1. Moves(r) /\ UNCHANGED cache /\ req'[r].op = "reserve" /\ req'[r].pc = "done"
      BY <2>5, ReserveStep
    <3> QED
      BY <1>0, <3>1, FreshKept DEF Edited, Edits
  <2>6. CASE WriteRating(r)
    <3>1. /\ Moves(r) /\ UNCHANGED cache /\ req[r].op \in {"review", "unreview"} /\ req[r].pc = "rate"
          /\ req'[r].pc = "done"
      BY <2>6, WriteRatingStep
    <3>2. req'[r].op = req[r].op
      BY <3>1 DEF Moves
    <3> QED
      BY <1>0, <3>1, <3>2, FreshKept DEF Edited, Edits
  <2>7. CASE \/ CreateProduct(r) \/ UpdateProduct(r) \/ RemoveProduct(r) \/ Lookup(r)
             \/ CreateReview(r) \/ DeleteReview(r)
    BY <2>1, <2>7, BeginStep DEF Begins
  <2>8. CASE SaveNew(r) \/ SaveEdit(r)
    BY <2>1, <2>8, SaveNewStep, SaveEditStep
  <2>9. CASE InsertReview(r) \/ DropReview(r) \/ Aggregate(r)
    BY <2>1, <2>9, InsertStep, DropStep, AggregateStep
  <2> QED
    BY <1>4, <2>2, <2>3, <2>4, <2>5, <2>6, <2>7, <2>8, <2>9 DEF Step
<1> QED
  BY <1>2, <1>3, <1>4 DEF Next

\* An edit answered with Redis up is in every cached value but one that was
\* being read while the edit was in flight: what was cached before is gone,
\* and what is read later has it.
THEOREM StaleSafety == Spec => []StaleOnlyIfOverlapped
<1>1. Init => FreshInv
  BY DEF Init, FreshInv, StaleOnlyIfOverlapped, Edited, Finished, Idle, Miss
<1>2. FreshInv => StaleOnlyIfOverlapped
  BY DEF FreshInv
<1> QED
  BY <1>1, <1>2, FreshStep, HandledAlways, PTL DEF Spec

-----------------------------------------------------------------------------
(* The rating settles on the reviews.                                      *)

\* Every other review request was answered before r began.
Last(r) == r \in Reviewing /\ Reviewing \ {r} \subseteq Before(r)

\* What the last one counted, and then wrote, is right.
Settled(r) ==
  /\ req[r].pc = "rate" => Snap(r) = Recount
  /\ req[r].ans = "ok" => product.rating = Average /\ product.count = Cardinality(Reviewers)

RatingInv == \A r \in Requests : Last(r) => Settled(r)

\* Review requests are not touched by a step of another request.
LEMMA RatingKept ==
  ASSUME RatingInv, NEW r \in Requests, Moves(r), req'[r].op \notin {"review", "unreview"},
         UNCHANGED reviews, product'.rating = product.rating, product'.count = product.count
  PROVE  RatingInv'
<1>1. r \notin Reviewing /\ r \notin Reviewing' /\ \A d \in Requests \ {r} : req'[d] = req[d]
  BY DEF Reviewing, Moves
<1>2. Reviewing' = Reviewing
  BY <1>1 DEF Reviewing
<1>3. Average' = Average /\ Recount' = Recount /\ Reviewers' = Reviewers
  BY DEF Average, Recount, SumOfRatings, Stars, Reviewers
<1> SUFFICES ASSUME NEW d \in Requests, Last(d)' PROVE Settled(d)'
  BY DEF RatingInv
<1>4. d # r /\ Last(d)
  BY <1>1, <1>2 DEF Last, Before
<1> QED
  BY <1>1, <1>3, <1>4 DEF RatingInv, Settled, Snap

\* While a review request goes on, no other is the last.
LEMMA RatingMoves ==
  ASSUME HandledInv, NEW r \in Requests, Moves(r), req'[r].op \in {"review", "unreview"},
         Last(r)' => Settled(r)'
  PROVE  RatingInv'
<1> SUFFICES ASSUME NEW d \in Requests, d # r PROVE ~ Last(d)'
  BY DEF RatingInv
<1>1. r \in Reviewing' /\ r \notin Finished /\ req'[d] = req[d]
  BY DEF Moves, Reviewing, Finished
<1>2. Before(d)' \subseteq Finished
  BY <1>1 DEF HandledInv, RequestsInv, Before
<1> QED
  BY <1>1, <1>2 DEF Last

LEMMA RatingStep == HandledInv /\ RatingInv /\ [Next]_cvars => RatingInv'
<1> SUFFICES ASSUME HandledInv, RatingInv, [Next]_cvars PROVE RatingInv'
  OBVIOUS
<1>0. HandledInv'
  BY HandledStep
<1>1. ASSUME UNCHANGED <<req, product, reviews>>
      PROVE  RatingInv'
  BY <1>1 DEF RatingInv, Last, Settled, Reviewing, Before, Snap, Recount, Average, SumOfRatings, Stars, Reviewers
<1>2. CASE UNCHANGED cvars
  BY <1>1, <1>2 DEF cvars
<1>3. CASE RedisFails \/ RedisReturns \/ \E k \in CacheKeys : Expire(k)
  BY <1>1, <1>3, RedisStep
<1>4. ASSUME NEW r \in Requests, Step(r)
      PROVE  RatingInv'
  <2>1. ASSUME Moves(r), UNCHANGED <<product, reviews>>, req'[r].ans # "ok", req'[r].pc # "rate"
        PROVE  RatingInv'
    <3>1. CASE req'[r].op \in {"review", "unreview"}
      BY <2>1, <3>1, RatingMoves DEF Settled
    <3>2. CASE req'[r].op \notin {"review", "unreview"}
      BY <2>1, <3>2, RatingKept
    <3> QED
      BY <3>1, <3>2
  <2>2. CASE \/ CreateProduct(r) \/ UpdateProduct(r) \/ RemoveProduct(r) \/ Lookup(r)
             \/ CreateReview(r) \/ DeleteReview(r)
    BY <2>1, <2>2, BeginStep DEF Begins
  <2>3. CASE Compute(r) \/ Store(r)
    BY <2>1, <2>3, ComputeStep, StoreStep
  <2>4. CASE Invalidate(r)
    <3>1. Moves(r) /\ UNCHANGED <<product, reviews>> /\ req[r].op \in Edits /\ req'[r].op = req[r].op
      BY <2>4, InvalidateStep DEF Moves, Invalidate, At
    <3> QED
      BY <3>1, RatingKept DEF Edits
  <2>5. CASE SaveEdit(r)
    <3>1. /\ Moves(r) /\ UNCHANGED reviews /\ product'.rating = product.rating /\ product'.count = product.count
          /\ req'[r].pc = "invalidate"
      BY <2>5, SaveEditStep
    <3>2. req'[r].op \notin {"review", "unreview"}
      BY <1>0, <3>1 DEF HandledInv, RequestsInv, Held, Edits
    <3> QED
      BY <3>1, <3>2, RatingKept
  <2>6. CASE Reserve(r)
    <3>1. /\ Moves(r) /\ UNCHANGED reviews /\ product'.rating = product.rating /\ product'.count = product.count
          /\ req'[r].op = "reserve"
      BY <2>6, ReserveStep
    <3> QED
      BY <3>1, RatingKept
  <2>7. CASE SaveNew(r)
    <3>1. /\ Moves(r) /\ ~ product.exists /\ req'[r].pc = "invalidate" /\ req'[r].ans # "ok"
      BY <2>7, SaveNewStep
    <3>2. ASSUME NEW d \in Requests, d \in Reviewing'
          PROVE  Settled(d)'
      <4>1. d # r
        BY <1>0, <3>1, <3>2 DEF HandledInv, RequestsInv, Held, Edits, Reviewing
      <4>2. req'[d] = req[d] /\ req[d].op \in {"review", "unreview"}
        BY <3>1, <3>2, <4>1 DEF Moves, Reviewing
      <4>3. req[d].ans # "ok" /\ req[d].pc # "rate"
        BY <3>1, <4>2 DEF HandledInv, RequestsInv, Held
      <4> QED
        BY <4>2, <4>3 DEF Settled
    <3> QED
      BY <3>2 DEF RatingInv, Last
  <2>8. CASE InsertReview(r)
    <3>1. Moves(r) /\ req[r].op = "review" /\ req[r].pc = "insert" /\ req'[r].ans # "ok" /\ req'[r].pc # "rate"
      BY <2>8, InsertStep
    <3> QED
      BY <3>1, RatingMoves DEF Moves, Settled
  <2>9. CASE DropReview(r)
    <3>1. /\ Moves(r) /\ req[r].op = "unreview" /\ req[r].pc = "delete"
          /\ req'[r].ans # "ok" /\ req'[r].pc = "aggregate"
      BY <2>9, DropStep
    <3> QED
      BY <3>1, RatingMoves DEF Moves, Settled
  <2>10. CASE Aggregate(r)
    <3>1. /\ Moves(r) /\ UNCHANGED reviews /\ req[r].op \in {"review", "unreview"} /\ req[r].pc = "aggregate"
          /\ req'[r].ans # "ok" /\ req'[r].snap = Recount
      BY <2>10, AggregateStep
    <3>2. Recount' = Recount
      BY <3>1 DEF Recount, Average, SumOfRatings, Stars, Reviewers
    <3> QED
      BY <3>1, <3>2, RatingMoves DEF Moves, Settled, Snap
  <2>11. CASE WriteRating(r)
    <3>1. /\ Moves(r) /\ UNCHANGED reviews /\ req[r].op \in {"review", "unreview"} /\ req[r].pc = "rate"
          /\ req'[r].pc = "done" /\ req'[r].op = req[r].op /\ req'[r].before = req[r].before
          /\ product'.rating = Snap(r).rating /\ product'.count = Snap(r).count
      BY <2>11, WriteRatingStep DEF Moves
    <3>2. Average' = Average /\ Reviewers' = Reviewers
      BY <3>1 DEF Average, SumOfRatings, Stars, Reviewers
    <3>3. Reviewing' = Reviewing
      BY <3>1 DEF Reviewing, Moves
    <3>4. ASSUME Last(r)'
          PROVE  Settled(r)'
      <4>1. Last(r)
        BY <3>1, <3>3, <3>4 DEF Last, Before
      <4>2. Snap(r) = Recount
        BY <3>1, <4>1 DEF RatingInv, Settled
      <4>3. product'.rating = Average /\ product'.count = Cardinality(Reviewers)
        BY <3>1, <4>2 DEF Recount
      <4> QED
        BY <3>1, <3>2, <4>3 DEF Settled
    <3> QED
      BY <3>1, <3>4, RatingMoves
  <2> QED
    BY <1>4, <2>2, <2>3, <2>4, <2>5, <2>6, <2>7, <2>8, <2>9, <2>10, <2>11 DEF Step
<1> QED
  BY <1>2, <1>3, <1>4 DEF Next

-----------------------------------------------------------------------------
(* A customer's reviews are one.                                           *)

\* The requests that put a review of u in, and those that took one out.
Inserted(u) == {r \in Reviewing : /\ req[r].op = "review" /\ req[r].arg = u
                                  /\ req[r].pc \in {"aggregate", "rate"} \/ req[r].ans = "ok"}
Dropped(u) == {r \in Reviewing : /\ req[r].op = "unreview" /\ req[r].arg = u
                                 /\ req[r].pc \in {"aggregate", "rate", "done"}}

SingleInv ==
  /\ IsFiniteSet(Reviewing)
  /\ \A u \in Raters :
        Cardinality(Inserted(u)) <= (IF reviews[u] = 0 THEN 0 ELSE 1) + Cardinality(Dropped(u))

LEMMA PartCounts ==
  ASSUME NEW S, IsFiniteSet(S), NEW T, T \subseteq S
  PROVE  /\ IsFiniteSet(T) /\ Cardinality(T) \in Nat /\ Cardinality(S) \in Nat
         /\ Cardinality(T) <= Cardinality(S)
BY FS_Subset, FS_CardinalityType

LEMMA OneMoreCounts ==
  ASSUME NEW S, IsFiniteSet(S), NEW x, x \notin S
  PROVE  IsFiniteSet(S \cup {x}) /\ Cardinality(S \cup {x}) = Cardinality(S) + 1
BY FS_AddElement

LEMMA ReviewingFinite ==
  ASSUME IsFiniteSet(Reviewing), NEW r \in Requests, Moves(r)
  PROVE  IsFiniteSet(Reviewing')
<1>1. Reviewing' \subseteq Reviewing \cup {r}
  BY DEF Reviewing, Moves
<1>2. IsFiniteSet(Reviewing \cup {r})
  BY FS_AddElement
<1> QED
  BY <1>1, <1>2, FS_Subset

\* A step of r moves no other request in or out.
LEMMA OthersCount ==
  ASSUME NEW r \in Requests, Moves(r), NEW u
  PROVE  /\ Inserted(u)' \ {r} = Inserted(u) \ {r} /\ Dropped(u)' \ {r} = Dropped(u) \ {r}
         /\ Inserted(u) \subseteq Reviewing /\ Inserted(u)' \subseteq Reviewing'
         /\ Dropped(u) \subseteq Reviewing /\ Dropped(u)' \subseteq Reviewing'
<1>1. \A d \in Requests \ {r} : req'[d] = req[d]
  BY DEF Moves
<1>2. /\ Inserted(u) \subseteq Reviewing /\ Inserted(u)' \subseteq Reviewing'
      /\ Dropped(u) \subseteq Reviewing /\ Dropped(u)' \subseteq Reviewing'
  BY DEF Inserted, Dropped
<1>3. \A d \in Requests \ {r} : /\ d \in Inserted(u)' <=> d \in Inserted(u)
                                /\ d \in Dropped(u)' <=> d \in Dropped(u)
  BY <1>1 DEF Inserted, Dropped, Reviewing
<1>4. Reviewing \subseteq Requests /\ Reviewing' \subseteq Requests
  BY DEF Reviewing
<1>5. Inserted(u)' \ {r} = Inserted(u) \ {r} /\ Dropped(u)' \ {r} = Dropped(u) \ {r}
  BY <1>2, <1>3, <1>4
<1> QED
  BY <1>2, <1>5

\* What a customer's requests did, in numbers.
LEMMA Tallied ==
  ASSUME SingleInv, NEW r \in Requests, Moves(r), NEW u \in Raters, NEW i \in {0, 1}, NEW d \in {0, 1},
         i = 0 => (r \in Inserted(u)' => r \in Inserted(u)),
         d = 1 => r \notin Dropped(u) /\ r \in Dropped(u)',
         d = 0 => (r \in Dropped(u) => r \in Dropped(u)'),
         i + (IF reviews[u] = 0 THEN 0 ELSE 1) <= d + (IF reviews'[u] = 0 THEN 0 ELSE 1)
  PROVE  (Cardinality(Inserted(u)) <= (IF reviews[u] = 0 THEN 0 ELSE 1) + Cardinality(Dropped(u)))'
<1> DEFINE I0 == Inserted(u)
           I1 == Inserted(u)'
           D0 == Dropped(u)
           D1 == Dropped(u)'
           v0 == IF reviews[u] = 0 THEN 0 ELSE 1
           v1 == IF reviews'[u] = 0 THEN 0 ELSE 1
<1>0. IsFiniteSet(Reviewing) /\ IsFiniteSet(Reviewing')
  BY ReviewingFinite DEF SingleInv
<1>1. /\ I1 \ {r} = I0 \ {r} /\ D1 \ {r} = D0 \ {r}
      /\ I0 \subseteq Reviewing /\ I1 \subseteq Reviewing' /\ D0 \subseteq Reviewing /\ D1 \subseteq Reviewing'
  BY OthersCount
<1>2. Cardinality(I0) <= v0 + Cardinality(D0) /\ v0 \in {0, 1} /\ v1 \in {0, 1} /\ i + v0 <= d + v1
  BY DEF SingleInv
<1>3. /\ i = 0 => (r \in I1 => r \in I0)
      /\ d = 1 => r \notin D0 /\ r \in D1
      /\ d = 0 => (r \in D0 => r \in D1)
  OBVIOUS
<1> SUFFICES Cardinality(I1) <= v1 + Cardinality(D1)
  OBVIOUS
<1> HIDE DEF I0, I1, D0, D1, v0, v1
<1>4. /\ IsFiniteSet(I0) /\ Cardinality(I0) \in Nat /\ IsFiniteSet(I1) /\ Cardinality(I1) \in Nat
      /\ IsFiniteSet(D0) /\ Cardinality(D0) \in Nat /\ IsFiniteSet(D1) /\ Cardinality(D1) \in Nat
  BY <1>0, <1>1, PartCounts
<1>5. Cardinality(I1) <= Cardinality(I0) + i
  <2>1. CASE I1 \subseteq I0
    BY <1>4, <2>1, PartCounts
  <2>2. CASE ~ (I1 \subseteq I0)
    <3>1. I1 \subseteq I0 \cup {r} /\ r \notin I0 /\ i = 1
      BY <1>1, <1>3, <2>2
    <3>2. IsFiniteSet(I0 \cup {r}) /\ Cardinality(I0 \cup {r}) = Cardinality(I0) + 1
      BY <1>4, <3>1, OneMoreCounts
    <3>3. Cardinality(I1) <= Cardinality(I0 \cup {r})
      BY <3>1, <3>2, PartCounts
    <3> QED
      BY <1>4, <3>1, <3>2, <3>3
  <2> QED
    BY <2>1, <2>2
<1>6. Cardinality(D1) >= Cardinality(D0) + d
  <2>1. CASE d = 0
    <3>1. D0 \subseteq D1
      BY <1>1, <1>3, <2>1
    <3> QED
      BY <1>4, <2>1, <3>1, PartCounts
  <2>2. CASE d = 1
    <3>1. D1 = D0 \cup {r} /\ r \notin D0
      BY <1>1, <1>3, <2>2
    <3> QED
      BY <1>4, <2>2, <3>1, OneMoreCounts
  <2> QED
    BY <2>1, <2>2
<1> QED
  BY <1>2, <1>4, <1>5, <1>6

\* A step that takes nobody's review out, or in.
LEMMA SingleKept ==
  ASSUME SingleInv, NEW r \in Requests, Moves(r), UNCHANGED reviews,
         \A u \in Raters : r \in Inserted(u)' => r \in Inserted(u),
         \A u \in Raters : r \in Dropped(u) => r \in Dropped(u)'
  PROVE  SingleInv'
<1>1. IsFiniteSet(Reviewing')
  BY ReviewingFinite DEF SingleInv
<1>2. ASSUME NEW u \in Raters
      PROVE  (Cardinality(Inserted(u)) <= (IF reviews[u] = 0 THEN 0 ELSE 1) + Cardinality(Dropped(u)))'
  <2>1. 0 + (IF reviews[u] = 0 THEN 0 ELSE 1) <= 0 + (IF reviews'[u] = 0 THEN 0 ELSE 1)
    OBVIOUS
  <2> QED
    BY <2>1, Tallied
<1> QED
  BY <1>1, <1>2 DEF SingleInv

LEMMA SingleStep == HandledInv /\ SingleInv /\ [Next]_cvars => SingleInv'
<1> SUFFICES ASSUME HandledInv, SingleInv, [Next]_cvars PROVE SingleInv'
  OBVIOUS
<1>0. HandledInv'
  BY HandledStep
<1>1. ASSUME UNCHANGED <<req, reviews>>
      PROVE  SingleInv'
  BY <1>1 DEF SingleInv, Inserted, Dropped, Reviewing
<1>2. CASE UNCHANGED cvars
  BY <1>1, <1>2 DEF cvars
<1>3. CASE RedisFails \/ RedisReturns \/ \E k \in CacheKeys : Expire(k)
  BY <1>1, <1>3, RedisStep
<1>4. ASSUME NEW r \in Requests, Step(r)
      PROVE  SingleInv'
  <2>1. ASSUME Moves(r), UNCHANGED reviews, req'[r].op \notin {"review", "unreview"}
        PROVE  SingleInv'
    <3>1. r \notin Reviewing /\ r \notin Reviewing'
      BY <2>1 DEF Reviewing, Moves
    <3>2. \A u \in Raters : r \notin Inserted(u)' /\ r \notin Dropped(u)
      BY <3>1 DEF Inserted, Dropped
    <3> QED
      BY <2>1, <3>2, SingleKept
  <2>2. CASE \/ CreateProduct(r) \/ UpdateProduct(r) \/ RemoveProduct(r) \/ Lookup(r)
             \/ CreateReview(r) \/ DeleteReview(r)
    <3>1. /\ Moves(r) /\ UNCHANGED reviews /\ req[r].pc = "idle" /\ req'[r].ans # "ok"
          /\ req'[r].pc \notin {"aggregate", "rate"}
      BY <2>2, BeginStep DEF Begins
    <3>2. \A u \in Raters : r \notin Inserted(u)' /\ r \notin Dropped(u)
      BY <3>1 DEF Inserted, Dropped, Reviewing
    <3> QED
      BY <3>1, <3>2, SingleKept
  <2>3. CASE SaveNew(r) \/ SaveEdit(r)
    <3>1. Moves(r) /\ UNCHANGED reviews /\ req'[r].pc = "invalidate"
      BY <2>3, SaveNewStep, SaveEditStep
    <3>2. req'[r].op \notin {"review", "unreview"}
      BY <1>0, <3>1 DEF HandledInv, RequestsInv, Held, Edits
    <3> QED
      BY <2>1, <3>1, <3>2
  <2>4. CASE Invalidate(r)
    <3>1. Moves(r) /\ UNCHANGED reviews /\ req[r].op \in Edits /\ req'[r].op = req[r].op
      BY <2>4, InvalidateStep DEF Moves, Invalidate, At
    <3> QED
      BY <2>1, <3>1 DEF Edits
  <2>5. CASE Compute(r) \/ Reserve(r)
    BY <2>1, <2>5, ComputeStep, ReserveStep
  <2>6. CASE Store(r)
    BY <2>1, <2>6, StoreStep DEF Moves
  <2>7. CASE InsertReview(r)
    <3>1. /\ Moves(r) /\ req[r].op = "review" /\ req[r].pc = "insert" /\ req'[r].op = "review"
          /\ req[r].arg \in Raters /\ req'[r].arg = req[r].arg /\ req'[r].ans # "ok"
      BY <2>7, InsertStep DEF Moves
    <3>2. \A u \in Raters : r \notin Dropped(u)
      BY <3>1 DEF Dropped
    <3>3. CASE UNCHANGED reviews /\ req'[r].pc = "done"
      <4>1. \A u \in Raters : r \notin Inserted(u)'
        BY <3>1, <3>3 DEF Inserted
      <4> QED
        BY <3>1, <3>2, <3>3, <4>1, SingleKept
    <3>4. CASE /\ reviews[req[r].arg] = 0 /\ reviews'[req[r].arg] # 0
               /\ \A u \in Raters \ {req[r].arg} : reviews'[u] = reviews[u]
      <4>1. ASSUME NEW u \in Raters
            PROVE  (Cardinality(Inserted(u)) <= (IF reviews[u] = 0 THEN 0 ELSE 1) + Cardinality(Dropped(u)))'
        <5>1. CASE u = req[r].arg
          <6>1. 1 + (IF reviews[u] = 0 THEN 0 ELSE 1) <= 0 + (IF reviews'[u] = 0 THEN 0 ELSE 1)
            BY <3>4, <5>1
          <6> QED
            BY <3>1, <3>2, <6>1, Tallied
        <5>2. CASE u # req[r].arg
          <6>1. r \notin Inserted(u)'
            BY <3>1, <5>2 DEF Inserted
          <6>2. 0 + (IF reviews[u] = 0 THEN 0 ELSE 1) <= 0 + (IF reviews'[u] = 0 THEN 0 ELSE 1)
            BY <3>4, <5>2
          <6> QED
            BY <3>1, <3>2, <6>1, <6>2, Tallied
        <5> QED
          BY <5>1, <5>2
      <4> QED
        BY <3>1, <4>1, ReviewingFinite DEF SingleInv
    <3> QED
      BY <2>7, <3>3, <3>4, InsertStep
  <2>8. CASE DropReview(r)
    <3>1. /\ Moves(r) /\ req[r].op = "unreview" /\ req[r].pc = "delete" /\ req'[r].op = "unreview"
          /\ req'[r].pc = "aggregate" /\ req[r].arg \in Raters /\ req'[r].arg = req[r].arg
          /\ reviews'[req[r].arg] = 0 /\ \A u \in Raters \ {req[r].arg} : reviews'[u] = reviews[u]
      BY <2>8, DropStep DEF Moves
    <3>2. \A u \in Raters : r \notin Dropped(u) /\ r \notin Inserted(u)'
      BY <3>1 DEF Dropped, Inserted
    <3>3. ASSUME NEW u \in Raters
          PROVE  (Cardinality(Inserted(u)) <= (IF reviews[u] = 0 THEN 0 ELSE 1) + Cardinality(Dropped(u)))'
      <4>1. CASE u = req[r].arg
        <5>1. r \in Dropped(u)'
          BY <3>1, <4>1 DEF Dropped, Reviewing
        <5>2. 0 + (IF reviews[u] = 0 THEN 0 ELSE 1) <= 1 + (IF reviews'[u] = 0 THEN 0 ELSE 1)
          OBVIOUS
        <5> QED
          BY <3>1, <3>2, <5>1, <5>2, Tallied
      <4>2. CASE u # req[r].arg
        <5>1. 0 + (IF reviews[u] = 0 THEN 0 ELSE 1) <= 0 + (IF reviews'[u] = 0 THEN 0 ELSE 1)
          BY <3>1, <4>2
        <5> QED
          BY <3>1, <3>2, <5>1, Tallied
      <4> QED
        BY <4>1, <4>2
    <3> QED
      BY <3>1, <3>3, ReviewingFinite DEF SingleInv
  <2>9. CASE Aggregate(r) \/ WriteRating(r)
    <3>1. /\ Moves(r) /\ UNCHANGED reviews /\ req[r].pc \in {"aggregate", "rate"}
          /\ req'[r].pc \in {"rate", "done"} /\ req'[r].op = req[r].op /\ req'[r].arg = req[r].arg
      BY <2>9, AggregateStep, WriteRatingStep DEF Moves
    <3>2. \A u \in Raters : /\ r \in Inserted(u)' => r \in Inserted(u)
                            /\ r \in Dropped(u) => r \in Dropped(u)'
      BY <3>1 DEF Inserted, Dropped, Reviewing
    <3> QED
      BY <3>1, <3>2, SingleKept
  <2> QED
    BY <1>4, <2>2, <2>3, <2>4, <2>5, <2>6, <2>7, <2>8, <2>9 DEF Step
<1> QED
  BY <1>2, <1>3, <1>4 DEF Next

LEMMA ReviewsInit == Init => RatingInv /\ SingleInv
<1> SUFFICES ASSUME Init PROVE RatingInv /\ SingleInv
  OBVIOUS
<1>1. Reviewing = {}
  BY DEF Init, Reviewing, Idle
<1>2. \A u : Inserted(u) = {} /\ Dropped(u) = {}
  BY <1>1 DEF Inserted, Dropped
<1>3. RatingInv
  BY <1>1 DEF RatingInv, Last
<1>4. IsFiniteSet({}) /\ Cardinality({}) = 0
  BY FS_EmptySet
<1>5. SingleInv
  BY <1>1, <1>2, <1>4 DEF SingleInv
<1> QED
  BY <1>3, <1>5

\* The rating on the product is that of its reviews once a review request
\* has run after all others, and a customer has one review for each that
\* was taken out and one more, however requests interleave.
THEOREM ReviewsSafety == Spec => []ReviewsInv
<1>1. RatingInv => RatingSettles
  BY DEF RatingInv, RatingSettles, Last, Settled, Reviewing
<1>2. ASSUME SingleInv
      PROVE  OneReviewEach
  <2> SUFFICES ASSUME NEW u \in Raters
               PROVE  Cardinality({r \in Reviewing : req[r].op = "review" /\ req[r].arg = u /\ req[r].ans = "ok"})
                        <= 1 + Cardinality({r \in Reviewing : req[r].op = "unreview" /\ req[r].arg = u})
    BY DEF OneReviewEach
  <2> DEFINE A == {r \in Reviewing : req[r].op = "review" /\ req[r].arg = u /\ req[r].ans = "ok"}
             B == {r \in Reviewing : req[r].op = "unreview" /\ req[r].arg = u}
             I == Inserted(u)
             D == Dropped(u)
             v == IF reviews[u] = 0 THEN 0 ELSE 1
  <2>1. A \subseteq I /\ D \subseteq B /\ I \subseteq Reviewing /\ B \subseteq Reviewing
    BY DEF Inserted, Dropped
  <2>2. IsFiniteSet(Reviewing) /\ Cardinality(I) <= v + Cardinality(D) /\ v \in {0, 1}
    BY <1>2 DEF SingleInv
  <2> SUFFICES Cardinality(A) <= 1 + Cardinality(B)
    OBVIOUS
  <2> HIDE DEF A, B, I, D, v
  <2>3. IsFiniteSet(I) /\ IsFiniteSet(B)
    BY <2>1, <2>2, PartCounts
  <2>4. /\ Cardinality(A) \in Nat /\ Cardinality(I) \in Nat /\ Cardinality(A) <= Cardinality(I)
        /\ Cardinality(B) \in Nat /\ Cardinality(D) \in Nat /\ Cardinality(D) <= Cardinality(B)
    BY <2>1, <2>3, PartCounts
  <2> QED
    BY <2>2, <2>4
<1>3. RatingInv /\ SingleInv => ReviewsInv
  BY <1>1, <1>2 DEF ReviewsInv
<1> QED
  BY <1>3, ReviewsInit, RatingStep, SingleStep, HandledAlways, PTL DEF Spec
=============================================================================
