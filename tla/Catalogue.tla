----------------------------- MODULE Catalogue ------------------------------
(***************************************************************************)
(* One product: its document, the cached reads of it, the reservations of  *)
(* checkouts and its reviews (product.service.js, cache.service.js,        *)
(* review.service.js).                                                     *)
(*                                                                         *)
(* The fields of the document that only an edit writes (name, price,       *)
(* sizes, images, ...) are one value, the request that wrote it last; ver  *)
(* counts the edits.  Stock is of one size.  Left out: pictures, filters   *)
(* and pages (each combination is a cache key of its own: CacheKeys).      *)
(***************************************************************************)
EXTENDS Handlers

CONSTANTS CacheKeys,     \* "single" and the list queries that were asked
          Sellers,       \* sellers; the product belongs to one or to nobody
          Raters,        \* customers who review
          Ratings,       \* the ratings they give
          InitialStock,  \* pieces in stock at first
          MaxOutages     \* times Redis becomes unreachable

ASSUME CatalogueAssumption ==
    InitialStock \in Nat /\ MaxOutages \in Nat /\ Ratings \subseteq 1 .. 5 /\ NoOne \notin Sellers

VARIABLES product,   \* the document
          cache,     \* cache[k]: the value Redis has for k
          redis,     \* is Redis reachable, and how often it was not
          reviews,   \* the review of each customer, 0 for none
          sold       \* history: pieces reserved since the stock was last set

cvars == <<req, load, product, cache, redis, reviews, sold>>

ProductRecord == [exists : BOOLEAN, seller : Sellers \cup {NoOne}, deleted : BOOLEAN,
                  content : Requests \cup {NoOne}, ver : Nat, stock : Nat, base : Nat,
                  rating : Nat, count : Nat]
Miss == [hit |-> FALSE, ver |-> 0, by |-> NoOne]
CacheRecord == [hit : BOOLEAN, ver : Nat, by : Requests \cup {NoOne}]

Nothing == [exists |-> FALSE, seller |-> NoOne, deleted |-> FALSE, content |-> NoOne, ver |-> 0,
            stock |-> 0, base |-> 0, rating |-> 0, count |-> 0]
Offered(s) == [Nothing EXCEPT !.exists = TRUE, !.seller = s, !.stock = InitialStock, !.base = InitialStock]

-----------------------------------------------------------------------------
(* Editing: an administrator (NoOne) or a seller.                          *)

NotOwner(who) == who # NoOne /\ product.seller # who

\* createProduct up to Product.create, and the creation.
CreateProduct(r) ==
    \E who \in Sellers \cup {NoOne} :
        /\ ~product.exists
        /\ Enter(r, "create", who, NoOne, "create", "none")
        /\ UNCHANGED <<product, cache, redis, reviews, sold>>

SaveNew(r) ==
    /\ At(r, "create") /\ ~product.exists
    /\ product' = [Offered(req[r].arg) EXCEPT !.content = r, !.ver = 1]
    /\ req' = [req EXCEPT ![r].pc = "invalidate", ![r].snap = product']
    /\ UNCHANGED <<cache, redis, reviews, sold>>

\* updateProduct and removeProduct: read, check the owner, save the changes.
Edit(r, op) ==
    \E who \in Sellers \cup {NoOne} :
        LET ok == product.exists /\ ~NotOwner(who) IN
        /\ Enter(r, op, NoOne, product, IF ok THEN "save" ELSE "done", IF ok THEN "none" ELSE "refused")
        /\ UNCHANGED <<product, cache, redis, reviews, sold>>

UpdateProduct(r) == Edit(r, "update") \/ Edit(r, "restock")
RemoveProduct(r) == Edit(r, "remove")

\* What each operation assigns; the stock map is replaced as a whole.
Assigned(r) ==
    CASE req[r].op = "update"  -> [content |-> r]
      [] req[r].op = "restock" -> [content |-> r, stock |-> InitialStock]
      [] req[r].op = "remove"  -> [deleted |-> TRUE]

WholeDocument(r) == [f \in DOMAIN product |-> IF f \in DOMAIN Assigned(r) THEN Assigned(r)[f] ELSE Snap(r)[f]]
ChangedPaths(r) == SaveChanges(product, Snap(r), Assigned(r))

\* A save that writes the stock starts a new count.
SaveEdit(r) ==
    /\ At(r, "save")
    /\ LET doc == ChangedPaths(r)
           restocked == req[r].op = "restock" /\ Snap(r).stock # InitialStock IN
       /\ product' = [doc EXCEPT !.ver = product.ver + 1,
                                 !.base = IF restocked THEN InitialStock ELSE product.base]
       /\ sold' = IF restocked THEN 0 ELSE sold
    /\ req' = [req EXCEPT ![r].pc = "invalidate", ![r].snap = product']
    /\ UNCHANGED <<cache, redis, reviews>>

\* invalidateByPrefix: every key of the prefix, found by a scan; a failing
\* Redis is logged and the edit is answered all the same.
SingleOnly == [cache EXCEPT !["single"] = Miss]
Invalidated == [k \in CacheKeys |-> Miss]

Invalidate(r) ==
    /\ At(r, "invalidate")
    /\ IF redis.up THEN cache' = Invalidated /\ Answer(r, "ok")
                   ELSE UNCHANGED cache /\ Answer(r, "unseen")
    /\ UNCHANGED <<product, redis, reviews, sold>>

-----------------------------------------------------------------------------
(* cached(): look, compute on a miss, store what was computed.             *)

Lookup(r) ==
    \E k \in CacheKeys :
        /\ product.exists
        /\ LET hit == redis.up /\ cache[k].hit IN
           Enter(r, "read", k, NoOne, IF hit THEN "done" ELSE "compute", IF hit THEN "hit" ELSE "none")
        /\ UNCHANGED <<product, cache, redis, reviews, sold>>

\* The compute function reads the database; its value is what is kept.
Compute(r) ==
    /\ At(r, "compute")
    /\ req' = [req EXCEPT ![r].pc = "store", ![r].snap = product]
    /\ UNCHANGED <<product, cache, redis, reviews, sold>>

Store(r) ==
    /\ At(r, "store")
    /\ req' = [req EXCEPT ![r].pc = "done", ![r].ans = "computed", ![r].snap = NoOne]
    /\ cache' = IF redis.up THEN [cache EXCEPT ![req[r].arg] = [hit |-> TRUE, ver |-> Snap(r).ver, by |-> r]]
                ELSE cache
    /\ UNCHANGED <<product, redis, reviews, sold>>

\* EX: every value is stored with a time to live.
Forever == FALSE
Lives == TRUE
Expire(k) ==
    /\ Lives /\ cache[k].hit /\ cache' = [cache EXCEPT ![k] = Miss]
    /\ UNCHANGED <<req, load, product, redis, reviews, sold>>

\* Redis becomes unreachable and comes back with what it had.
RedisFails ==
    /\ redis.up /\ redis.outages < MaxOutages /\ "read" \in load
    /\ redis' = [up |-> FALSE, outages |-> redis.outages + 1]
    /\ UNCHANGED <<req, load, product, cache, reviews, sold>>
RedisReturns ==
    /\ ~redis.up /\ redis' = [redis EXCEPT !.up = TRUE]
    /\ UNCHANGED <<req, load, product, cache, reviews, sold>>

-----------------------------------------------------------------------------
(* A checkout takes a piece: findOneAndUpdate with stock >= 1 and $inc, on *)
(* the document itself, never on a cached value.                           *)

InStock == product.exists /\ product.stock >= 1

Reserve(r) ==
    /\ Enter(r, "reserve", NoOne, NoOne, "done", IF InStock THEN "ok" ELSE "refused")
    /\ IF InStock THEN product' = [product EXCEPT !.stock = @ - 1] /\ sold' = sold + 1
                  ELSE UNCHANGED <<product, sold>>
    /\ UNCHANGED <<cache, redis, reviews>>

-----------------------------------------------------------------------------
(* Reviews: one per customer and product (a unique index), and an average  *)
(* kept on the product, computed and then written.                         *)

Reviewers == {u \in Raters : reviews[u] # 0}
Stars == {s \in Reviewers \X (1 .. 5) : s[2] <= reviews[s[1]]}
SumOfRatings == Cardinality(Stars)

\* The average to one decimal, in tenths, rounded half up.
Average == LET n == Cardinality(Reviewers) IN IF n = 0 THEN 0 ELSE (20 * SumOfRatings + n) \div (2 * n)

CountOneMore == [rating |-> Average, count |-> product.count + 1]
Recount == [rating |-> Average, count |-> Cardinality(Reviewers)]

\* The index on (product, user) is unique.
AlreadyReviewed(u) == reviews[u] # 0

CreateReview(r) ==
    \E u \in Raters :
        LET ok == product.exists /\ ~AlreadyReviewed(u) IN
        /\ Enter(r, "review", u, NoOne, IF ok THEN "insert" ELSE "done", IF ok THEN "none" ELSE "refused")
        /\ UNCHANGED <<product, cache, redis, reviews, sold>>

\* The unique index refuses the second of two inserts that both found none.
InsertReview(r) ==
    /\ At(r, "insert")
    /\ LET u == req[r].arg IN
       IF AlreadyReviewed(u) THEN Answer(r, "refused") /\ UNCHANGED reviews
       ELSE (\E n \in Ratings : reviews' = [reviews EXCEPT ![u] = n]) /\ Goto(r, "aggregate")
    /\ UNCHANGED <<product, cache, redis, sold>>

\* deleteReview: found, and its author's.
DeleteReview(r) ==
    \E u \in Reviewers :
        /\ Enter(r, "unreview", u, NoOne, "delete", "none")
        /\ UNCHANGED <<product, cache, redis, reviews, sold>>

DropReview(r) ==
    /\ At(r, "delete") /\ reviews' = [reviews EXCEPT ![req[r].arg] = 0]
    /\ Goto(r, "aggregate") /\ UNCHANGED <<product, cache, redis, sold>>

\* recalculateProductRating, the aggregation and the update.
Aggregate(r) ==
    /\ At(r, "aggregate")
    /\ req' = [req EXCEPT ![r].pc = "rate", ![r].snap = Recount]
    /\ UNCHANGED <<product, cache, redis, reviews, sold>>

WriteRating(r) ==
    /\ At(r, "rate")
    /\ product' = [product EXCEPT !.rating = Snap(r).rating, !.count = Snap(r).count]
    /\ Answer(r, "ok") /\ UNCHANGED <<cache, redis, reviews, sold>>

-----------------------------------------------------------------------------
Init ==
    /\ load \in Workloads
    /\ req = [r \in Requests |-> Idle]
    /\ product \in IF "create" \in load THEN {Nothing} ELSE {Offered(s) : s \in Sellers \cup {NoOne}}
    /\ cache = [k \in CacheKeys |-> Miss]
    /\ redis = [up |-> TRUE, outages |-> 0]
    /\ reviews = [u \in Raters |-> 0]
    /\ sold = 0

Step(r) ==
    \/ CreateProduct(r) \/ SaveNew(r) \/ UpdateProduct(r) \/ RemoveProduct(r) \/ SaveEdit(r) \/ Invalidate(r)
    \/ Lookup(r) \/ Compute(r) \/ Store(r) \/ Reserve(r)
    \/ CreateReview(r) \/ InsertReview(r) \/ DeleteReview(r) \/ DropReview(r) \/ Aggregate(r) \/ WriteRating(r)

Next == \/ \E r \in Requests : Step(r)
        \/ \E k \in CacheKeys : Expire(k)
        \/ RedisFails \/ RedisReturns

\* A handler that began goes on, and Redis drops what has expired.
Advance(r) == req[r].pc # "idle" /\ Step(r)
Fairness == /\ \A r \in Requests : WF_cvars(Advance(r))
            /\ \A k \in CacheKeys : WF_cvars(Expire(k))
Spec == Init /\ [][Next]_cvars /\ Fairness

-----------------------------------------------------------------------------
(* Properties.                                                             *)

CatalogueTypeOK ==
    /\ FrameTypeOK
    /\ product \in ProductRecord
    /\ cache \in [CacheKeys -> CacheRecord]
    /\ reviews \in [Raters -> Ratings \cup {0}]
    /\ sold \in Nat

\* Pieces are only ever taken by a reservation: what was in stock when the
\* stock was last set is on the shelf or reserved since, whatever edits of
\* other fields, reviews and removals saved documents read before.
ReservationsSurviveEdits == product.exists => product.stock + sold = product.base

\* What every save keeps of the product: its type, and each reservation.
ProductInv == CatalogueTypeOK /\ ReservationsSurviveEdits

\* With Redis reachable, an edit that was answered is in every cached
\* value, except one that a read stored which was in flight with the edit.
Edits == {"create", "update", "restock", "remove"}
StaleOnlyIfOverlapped ==
    \A k \in CacheKeys, e \in Finished :
        (cache[k].hit /\ req[e].op \in Edits /\ req[e].ans = "ok")
            => \/ cache[k].ver >= Snap(e).ver
               \/ Overlap(cache[k].by, e)

\* A stale value does not stay: the cache comes to agree with the database.
CacheConverges == <>[](\A k \in CacheKeys : cache[k].hit => cache[k].ver = product.ver)

\* Once no review request is in flight, the rating on the product is that
\* of the reviews, unless the last requests overlapped: one that ran alone
\* after all others puts right what they left.
Reviewing == {r \in Requests : req[r].op \in {"review", "unreview"} /\ req[r].pc # "idle"}
RatingSettles ==
    (/\ Reviewing \subseteq Finished
     /\ \E r \in Reviewing : req[r].ans = "ok" /\ Reviewing \ {r} \subseteq Before(r))
        => product.rating = Average /\ product.count = Cardinality(Reviewers)

\* A customer whose two reviews race has one, and one of them is refused.
OneReviewEach ==
    \A u \in Raters :
        Cardinality({r \in Reviewing : req[r].op = "review" /\ req[r].arg = u /\ req[r].ans = "ok"})
            <= 1 + Cardinality({r \in Reviewing : req[r].op = "unreview" /\ req[r].arg = u})

\* What review requests keep of product and reviews, settled and single.
ReviewsInv == RatingSettles /\ OneReviewEach
=============================================================================
