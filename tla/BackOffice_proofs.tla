-------------------------- MODULE BackOffice_proofs --------------------------
(***************************************************************************)
(* Proofs about BackOffice, for any requests, pages and documents, any     *)
(* screens over documents of one kind, any number of lost answers.         *)
(***************************************************************************)
EXTENDS BackOffice, FiniteSetTheorems, TLAPS

-----------------------------------------------------------------------------
(* What a request is, whatever the others are.                             *)

CallFields == {"st", "page", "gone", "op", "doc", "query", "put", "chose", "row", "form", "snap", "ans", "heard", "after"}
DocFields == {"live", "status", "tracking", "paid", "refund", "asked", "events", "active", "role", "content", "stock", "sold", "restocks"}
PageFields == {"up", "loading", "query", "rows", "form", "forms", "busy"}
FormFields == {"n", "doc", "row", "busy"}

\* What a screen asks for.
Fits(op, s) ==
  \/ op = "list" /\ s # "add"
  \/ op = "status" /\ s \in {"orders", "selling"}
  \/ op \in {"approve", "reject"} /\ s = "refunds"
  \/ op = "ask" /\ s = "mine"
  \/ op \in {"active", "delete", "coupon"} /\ s = "coupons"
  \/ op \in {"member", "hire"} /\ s = "staff"
  \/ op = "remove" /\ s \in {"list", "products"}
  \/ op = "add" /\ s \in {"add", "products"}
  \/ op = "edit" /\ s \in {"edit", "products"}

\* The fields a request names.
PutFits(op, F) ==
  /\ op = "status" => F \subseteq {"status", "tracking"}
  /\ op \in {"active", "member"} => F \subseteq {"active", "role"}
  /\ op \in {"coupon", "hire"} => F = {"content"}
  /\ op \in {"add", "edit"} => F = {"content", "stock"}
  /\ op \in {"list", "ask", "approve", "reject", "delete", "remove"} => F = {}

DocFits(op, s, d) ==
  /\ op = "list" => (IF s = "edit" THEN d \in load.live ELSE d = NoOne)
  /\ op \in {"coupon", "hire", "add"} => d = NoOne
  /\ op \notin {"list", "coupon", "hire", "add"} => d \in Docs

QueryFits(s, q) == (s = "list" => q \in {1, 2}) /\ (s = "selling" => q # "confirmed")

\* A request of a page.
Asking(c) ==
  /\ call[c].page \in Pages
  /\ Fits(call[c].op, Screen(call[c].page))
  /\ DocFits(call[c].op, Screen(call[c].page), call[c].doc)
  /\ QueryFits(Screen(call[c].page), call[c].query)

CallOK(c) ==
  /\ DOMAIN call[c] = CallFields
  /\ call[c].st \in {"idle", "sent", "saving", "served", "over"}
  /\ call[c].gone \in BOOLEAN
  /\ call[c].after \subseteq Over /\ c \notin call[c].after
  /\ call[c].st = "idle" => call[c] = NoCall
  /\ call[c].st # "idle" => Asking(c)
  /\ call[c].st \in {"sent", "saving", "served"} => PutFits(call[c].op, DOMAIN call[c].put)
  /\ call[c].st = "saving" => call[c].op \in ReadThenSave
  /\ call[c].st \in {"sent", "saving"} => call[c].ans = "none"
  /\ call[c].st = "served" => call[c].ans \in {"ok", "error", "unsaved"}
  /\ call[c].st = "over" => call[c].ans \in {"ok", "error", "unsaved", "lost"}
  /\ (call[c].st = "served" /\ call[c].op = "list") => (call[c].ans = "ok" /\ DOMAIN call[c].heard = Docs)

\* A form of a page.
FormOK(f, p) ==
  /\ DOMAIN f = FormFields /\ f.busy \in BOOLEAN /\ f.n \in Nat /\ f.doc \in Docs \cup {NoOne}
  /\ \/ f = NoForm
     \/ /\ f.n > 0 /\ Screen(p) \in FormOnPage \cup {"selling", "products"}
        /\ Screen(p) = "selling" => f.doc \in Docs
        /\ Screen(p) = "edit" => f.doc \in load.live
        /\ Screen(p) \in {"add", "coupons", "staff"} => f.doc = NoOne

\* What a page keeps.
RecordOK(r, p) ==
  /\ DOMAIN r = PageFields /\ DOMAIN r.rows = Docs /\ r.up \in BOOLEAN /\ r.loading \in BOOLEAN
  /\ r.forms \in Nat /\ r.form.n <= r.forms /\ r.busy \in Docs \cup {NoOne}
  /\ r.up => QueryFits(Screen(p), r.query)
  /\ r.form # NoForm => r.up
  /\ FormOK(r.form, p)

PageOK(p) == RecordOK(page[p], p)

Frame ==
  /\ load \in Workloads
  /\ DOMAIN call = Calls /\ DOMAIN doc = Docs /\ DOMAIN cached = Keys
  /\ DOMAIN refunds = Docs /\ DOMAIN owned = Docs /\ DOMAIN writer = Docs
  /\ \A k \in Keys : cached[k] # NoOne => DOMAIN cached[k] = Docs

CallsInv == Frame /\ DOMAIN page = Pages /\ (\A c \in Calls : CallOK(c)) /\ (\A p \in Pages : PageOK(p))

-----------------------------------------------------------------------------
(* What a step does to one request.                                        *)

\* A request keeps all but some of its fields.
Keeps(c, F) == DOMAIN call'[c] = CallFields /\ \A f \in CallFields \ F : call'[c][f] = call[c][f]

Left(c) == call[c].st # "idle" /\ call'[c].gone = TRUE /\ Keeps(c, {"gone"})
Sent(c) ==
  /\ call[c] = NoCall /\ DOMAIN call'[c] = CallFields
  /\ call'[c].st = "sent" /\ call'[c].gone = FALSE /\ call'[c].after = Over
  /\ call'[c].snap = NoOne /\ call'[c].ans = "none" /\ call'[c].heard = NoOne
Reads(c) ==
  /\ call[c].st = "sent" /\ call[c].op \in ReadThenSave
  /\ ~Refused(call[c].op, doc[call[c].doc])
  /\ call'[c].st = "saving" /\ call'[c].snap = doc[call[c].doc] /\ Keeps(c, {"st", "snap"})
Answers(c) ==
  /\ call[c].st \in {"sent", "saving"}
  /\ call'[c].st = "served" /\ call'[c].ans \in {"ok", "error", "unsaved"} /\ call'[c].snap = NoOne
  /\ Keeps(c, {"st", "ans", "snap", "heard"})
Ends(c) ==
  /\ call[c].st = "served" /\ call'[c].st = "over"
  /\ call'[c].ans = call[c].ans \/ (call[c].ans = "ok" /\ call'[c].ans = "lost")
  /\ call'[c].put = <<>>
  /\ Keeps(c, {"st", "ans", "put", "chose", "row", "heard"})
Again(c) ==
  /\ call[c].st = "served" /\ call[c].gone = FALSE /\ call[c].ans = "ok"
  /\ call[c].op \in {"coupon", "hire", "remove", "add", "edit"} /\ Screen(call[c].page) \notin {"add", "edit"}
  /\ call'[c].st = "sent" /\ call'[c].gone = FALSE /\ call'[c].after = call[c].after /\ call'[c].page = call[c].page
  /\ call'[c].snap = NoOne /\ call'[c].ans = "none" /\ call'[c].heard = NoOne /\ call'[c].op = "list"
  /\ call'[c].query = call[c].query /\ call'[c].doc = NoOne /\ call'[c].put = <<>>
  /\ DOMAIN call'[c] = CallFields

\* A request does one of these, or nothing.
Moves(c) ==
  \/ call'[c] = call[c]
  \/ Left(c) \/ Reads(c) \/ Ends(c) \/ Again(c)
  \/ Sent(c) /\ Asking(c)' /\ PutFits(call'[c].op, DOMAIN call'[c].put)
  \/ Answers(c) /\ (call[c].op = "list" => call'[c].ans = "ok" /\ DOMAIN call'[c].heard = Docs)

\* What a step does to a request leaves it one.
LEMMA MoveKeeps ==
  ASSUME CallsInv, NEW c \in Calls, Moves(c), UNCHANGED load, Over \subseteq Over'
  PROVE  CallOK(c)'
<1> USE DEF Asking, Screen, DocFits, QueryFits
<1>1. CallOK(c)
  BY DEF CallsInv
<1>2. CASE call'[c] = call[c]
  BY <1>1, <1>2 DEF CallOK
<1>3. CASE Left(c)
  <2>1. DOMAIN call'[c] = CallFields /\ call'[c].gone = TRUE /\ call'[c].st = call[c].st /\ call'[c].op = call[c].op
        /\ call'[c].page = call[c].page /\ call'[c].doc = call[c].doc /\ call'[c].query = call[c].query
        /\ call'[c].put = call[c].put /\ call'[c].ans = call[c].ans /\ call'[c].heard = call[c].heard
        /\ call'[c].after = call[c].after
    BY <1>3 DEF Left, Keeps, CallFields
  <2>2. call[c].st # "idle"
    BY <1>3 DEF Left
  <2> QED
    BY <1>1, <2>1, <2>2 DEF CallOK
<1>4. CASE Sent(c) /\ Asking(c)' /\ PutFits(call'[c].op, DOMAIN call'[c].put)
  <2>1. call'[c].st = "sent" /\ call'[c].gone = FALSE /\ call'[c].after = Over /\ c \notin Over
        /\ DOMAIN call'[c] = CallFields /\ call'[c].ans = "none"
    BY <1>4 DEF Sent, Over, NoCall
  <2> QED
    BY <1>4, <2>1 DEF CallOK
<1>5. CASE Reads(c)
  <2>1. DOMAIN call'[c] = CallFields /\ call'[c].st = "saving" /\ call'[c].gone = call[c].gone /\ call'[c].op = call[c].op
        /\ call'[c].page = call[c].page /\ call'[c].doc = call[c].doc /\ call'[c].query = call[c].query
        /\ call'[c].put = call[c].put /\ call'[c].ans = call[c].ans /\ call'[c].after = call[c].after
    BY <1>5 DEF Reads, Keeps, CallFields
  <2> QED
    BY <1>1, <1>5, <2>1 DEF CallOK, Reads
<1>6. CASE Answers(c) /\ (call[c].op = "list" => call'[c].ans = "ok" /\ DOMAIN call'[c].heard = Docs)
  <2>1. DOMAIN call'[c] = CallFields /\ call'[c].st = "served" /\ call'[c].gone = call[c].gone /\ call'[c].op = call[c].op
        /\ call'[c].page = call[c].page /\ call'[c].doc = call[c].doc /\ call'[c].query = call[c].query
        /\ call'[c].put = call[c].put /\ call'[c].ans \in {"ok", "error", "unsaved"} /\ call'[c].after = call[c].after
    BY <1>6 DEF Answers, Keeps, CallFields
  <2> QED
    BY <1>1, <1>6, <2>1 DEF CallOK, Answers
<1>7. CASE Ends(c)
  <2>1. DOMAIN call'[c] = CallFields /\ call'[c].st = "over" /\ call'[c].gone = call[c].gone /\ call'[c].op = call[c].op
        /\ call'[c].page = call[c].page /\ call'[c].doc = call[c].doc /\ call'[c].query = call[c].query
        /\ call'[c].ans \in {call[c].ans, "lost"} /\ call'[c].after = call[c].after
    BY <1>7 DEF Ends, Keeps, CallFields
  <2> QED
    BY <1>1, <1>7, <2>1 DEF CallOK, Ends
<1>8. CASE Again(c)
  <2>1. call[c].st = "served" /\ call[c].op \in {"coupon", "hire", "remove", "add", "edit"} /\ call'[c].st = "sent"
        /\ DOMAIN call'[c] = CallFields /\ call'[c].gone = FALSE /\ call'[c].op = "list"
        /\ call'[c].page = call[c].page /\ call'[c].doc = NoOne /\ call'[c].query = call[c].query
        /\ call'[c].put = <<>> /\ call'[c].ans = "none" /\ call'[c].after = call[c].after
    BY <1>8 DEF Again
  <2>2. Asking(c)'
    BY <1>1, <1>8, <2>1 DEF CallOK, Fits, Again
  <2>3. DOMAIN call'[c].put = {}
    BY <2>1
  <2> QED
    BY <1>1, <2>1, <2>2, <2>3 DEF CallOK, PutFits
<1> QED
  BY <1>2, <1>3, <1>4, <1>5, <1>6, <1>7, <1>8 DEF Moves

AllMove == \A c \in Calls : Moves(c)

\* What is over stays over.
LEMMA OverGrows ==
  ASSUME CallsInv, AllMove
  PROVE  Over \subseteq Over'
<1> SUFFICES ASSUME NEW c \in Over
             PROVE  c \in Over'
  OBVIOUS
<1>1. c \in Calls /\ call[c].st = "over" /\ Moves(c)
  BY DEF Over, AllMove
<1>2. call'[c].st = "over"
  BY <1>1 DEF Moves, Left, Sent, Reads, Answers, Ends, Again, Keeps, CallFields, NoCall
<1> QED
  BY <1>1, <1>2 DEF Over

\* The invariant is kept, request by request and page by page.
LEMMA Together ==
  ASSUME CallsInv, AllMove, UNCHANGED load, Frame', DOMAIN page' = Pages, \A p \in Pages : PageOK(p)'
  PROVE  CallsInv'
<1>1. Over \subseteq Over'
  BY OverGrows
<1>2. \A c \in Calls : CallOK(c)'
  BY <1>1, MoveKeeps DEF AllMove
<1> QED
  BY <1>2 DEF CallsInv

\* One request changes.
OnlyCall(c) == DOMAIN call' = Calls /\ \A e \in Calls \ {c} : call'[e] = call[e]

\* A request is answered.
LEMMA ReplyAnswers ==
  ASSUME CallsInv, NEW c \in Calls, NEW ans, NEW heard, Reply(c, ans, heard),
         call[c].st \in {"sent", "saving"}, ans \in {"ok", "error", "unsaved"},
         call[c].op = "list" => ans = "ok" /\ DOMAIN heard = Docs
  PROVE  AllMove /\ OnlyCall(c) /\ Answers(c) /\ call'[c].ans = ans /\ call'[c].heard = heard
<1>1. DOMAIN call[c] = CallFields
  BY DEF CallsInv, CallOK
<1>2. call'[c] = [call[c] EXCEPT !.st = "served", !.ans = ans, !.snap = NoOne, !.heard = heard] /\ OnlyCall(c)
  BY DEF CallsInv, Frame, Reply, OnlyCall
<1>3. Answers(c) /\ call'[c].ans = ans /\ call'[c].heard = heard
  BY <1>1, <1>2 DEF Answers, Keeps, CallFields
<1>4. Moves(c)
  BY <1>3 DEF Moves
<1>5. \A e \in Calls \ {c} : Moves(e)
  BY <1>2 DEF Moves, OnlyCall
<1> QED
  BY <1>2, <1>3, <1>4, <1>5 DEF AllMove

\* A document is read.
LEMMA ReadShape ==
  ASSUME CallsInv, NEW c \in Calls, Read(c)
  PROVE  /\ AllMove /\ OnlyCall(c) /\ Frame'
         /\ \/ Answers(c) /\ call'[c].ans = "error"
            \/ Reads(c)
<1>1. DOMAIN call[c] = CallFields /\ Frame
  BY DEF CallsInv, CallOK
<1>2. CASE Refused(call[c].op, doc[call[c].doc])
  <2>1. Reply(c, "error", NoOne) /\ call[c].st = "sent" /\ call[c].op # "list"
    BY <1>2 DEF Read, ReadThenSave
  <2>2. AllMove /\ OnlyCall(c) /\ Answers(c) /\ call'[c].ans = "error"
    BY <2>1, ReplyAnswers
  <2> QED
    BY <1>1, <2>2 DEF Read, Frame, OnlyCall
<1>3. CASE ~Refused(call[c].op, doc[call[c].doc])
  <2>1. call' = [call EXCEPT ![c].st = "saving", ![c].snap = doc[call[c].doc]] /\ call[c].st = "sent" /\ call[c].op \in ReadThenSave
    BY <1>3 DEF Read
  <2>2. call'[c] = [call[c] EXCEPT !.st = "saving", !.snap = doc[call[c].doc]] /\ OnlyCall(c)
    BY <1>1, <2>1 DEF Frame, OnlyCall
  <2>3. Reads(c)
    <3>1. call'[c].st = "saving" /\ call'[c].snap = doc[call[c].doc] /\ Keeps(c, {"st", "snap"})
      BY <1>1, <2>2 DEF Keeps, CallFields
    <3> QED
      BY <1>3, <2>1, <3>1 DEF Reads
  <2>4. Moves(c) /\ \A e \in Calls \ {c} : Moves(e)
    BY <2>2, <2>3 DEF Moves, OnlyCall
  <2> QED
    BY <1>1, <2>2, <2>3, <2>4 DEF AllMove, Read, Frame, OnlyCall
<1> QED
  BY <1>2, <1>3

\* A list is read, from the documents or from Redis.
LEMMA ListShape ==
  ASSUME CallsInv, NEW c \in Calls, List(c)
  PROVE  /\ AllMove /\ OnlyCall(c) /\ Frame' /\ Answers(c) /\ call'[c].ans = "ok"
         /\ Screen(call[c].page) \notin {"list", "edit"} =>
              call'[c].heard = View(Screen(call[c].page), call[c].query) /\ UNCHANGED cached
<1> DEFINE p == call[c].page
           V == View(Screen(p), call[c].query)
           k == CacheKey(c)
<1>1. Frame /\ Asking(c) /\ call[c].st = "sent" /\ call[c].op = "list"
  BY DEF CallsInv, CallOK, List
<1>2. DOMAIN V = Docs
  BY DEF View
<1> HIDE DEF V
<1>3. CASE Screen(p) \in {"list", "edit"}
  <2>1. k \in Keys
    BY <1>1, <1>3, DeskAssumption DEF Asking, DocFits, QueryFits, CacheKey, Keys, Frame
  <2> HIDE DEF k
  <2>2. cached' = [cached EXCEPT ![k] = IF @ = NoOne THEN V ELSE @] /\ Reply(c, "ok", cached'[k])
    BY <1>3 DEF List, V, k
  <2>3. DOMAIN cached' = Keys /\ (\A j \in Keys : cached'[j] # NoOne => DOMAIN cached'[j] = Docs) /\ DOMAIN cached'[k] = Docs
    BY <1>1, <1>2, <2>1, <2>2 DEF Frame
  <2>4. AllMove /\ OnlyCall(c) /\ Answers(c) /\ call'[c].ans = "ok"
    BY <1>1, <2>2, <2>3, ReplyAnswers
  <2> QED
    BY <1>1, <1>3, <2>3, <2>4 DEF List, Frame, OnlyCall
<1>4. CASE Screen(p) \notin {"list", "edit"}
  <2>1. Reply(c, "ok", V) /\ UNCHANGED cached
    BY <1>4 DEF List, V
  <2>2. AllMove /\ OnlyCall(c) /\ Answers(c) /\ call'[c].ans = "ok" /\ call'[c].heard = V
    BY <1>1, <1>2, <2>1, ReplyAnswers
  <2> QED
    BY <1>1, <1>4, <2>1, <2>2 DEF List, Frame, OnlyCall, V
<1> QED
  BY <1>3, <1>4

\* A document is written, a refund fails, a coupon changes, a document is made.
LEMMA SaveShape ==
  ASSUME CallsInv, NEW c \in Calls, Save(c)
  PROVE  AllMove /\ OnlyCall(c) /\ Frame' /\ Answers(c) /\ call'[c].ans = "ok"
<1>1. Frame /\ call[c].st = "saving" /\ call[c].op # "list"
  BY DEF CallsInv, CallOK, Save, ReadThenSave
<1>2. AllMove /\ OnlyCall(c) /\ Answers(c) /\ call'[c].ans = "ok"
  BY <1>1, ReplyAnswers DEF Save
<1>3. DOMAIN doc' = Docs /\ DOMAIN writer' = Docs /\ DOMAIN refunds' = Docs /\ DOMAIN owned' = Docs
  BY <1>1 DEF Save, Frame
<1>4. DOMAIN cached' = Keys /\ \A j \in Keys : cached'[j] # NoOne => DOMAIN cached'[j] = Docs
  BY <1>1 DEF Save, Frame, Nothing
<1> QED
  BY <1>1, <1>2, <1>3, <1>4 DEF Save, Frame, OnlyCall

LEMMA ThrowShape ==
  ASSUME CallsInv, NEW c \in Calls, Throws(c) \/ RefundUnsaved(c)
  PROVE  /\ AllMove /\ OnlyCall(c) /\ Frame' /\ Answers(c) /\ call[c].op \in {"add", "edit", "approve"}
         /\ call'[c].ans = (IF Throws(c) THEN "error" ELSE "unsaved")
<1>1. CASE Throws(c)
  <2>1. Reply(c, "error", NoOne) /\ call[c].st \in {"sent", "saving"} /\ call[c].op \in {"add", "edit", "approve"}
    BY <1>1 DEF Throws, SkuTaken
  <2>2. AllMove /\ OnlyCall(c) /\ Answers(c) /\ call'[c].ans = "error"
    BY <2>1, ReplyAnswers
  <2> QED
    BY <1>1, <2>1, <2>2 DEF Throws, CallsInv, Frame, OnlyCall
<1>2. CASE RefundUnsaved(c)
  <2>1. Reply(c, "unsaved", NoOne) /\ call[c].st = "saving" /\ call[c].op = "approve"
    BY <1>2 DEF RefundUnsaved
  <2>2. AllMove /\ OnlyCall(c) /\ Answers(c) /\ call'[c].ans = "unsaved"
    BY <2>1, ReplyAnswers
  <2>3. ~Throws(c)
    BY <1>2, <2>2 DEF RefundUnsaved, Throws, CallsInv, Frame, CallOK, Reply, CallFields
  <2> QED
    BY <1>2, <2>1, <2>2, <2>3 DEF RefundUnsaved, CallsInv, Frame, OnlyCall
<1> QED
  BY <1>1, <1>2

LEMMA CouponShape ==
  ASSUME CallsInv, NEW c \in Calls, UpdateCoupon(c)
  PROVE  AllMove /\ OnlyCall(c) /\ Frame' /\ Answers(c) /\ call'[c].ans # "unsaved"
<1>1. AllMove /\ OnlyCall(c) /\ Answers(c) /\ call'[c].ans # "unsaved"
  BY ReplyAnswers DEF UpdateCoupon
<1>2. DOMAIN doc' = Docs
  BY DEF UpdateCoupon, CallsInv, Frame
<1> QED
  BY <1>1, <1>2 DEF UpdateCoupon, CallsInv, Frame, OnlyCall

LEMMA CreateShape ==
  ASSUME CallsInv, NEW c \in Calls, Create(c)
  PROVE  AllMove /\ OnlyCall(c) /\ Frame' /\ Answers(c) /\ call'[c].ans # "unsaved"
<1>1. CASE Taken(c)
  <2>1. AllMove /\ OnlyCall(c) /\ Answers(c) /\ call'[c].ans # "unsaved"
    BY <1>1, ReplyAnswers DEF Create
  <2> QED
    BY <1>1, <2>1 DEF Create, CallsInv, Frame, OnlyCall
<1>2. CASE ~Taken(c)
  <2>1. AllMove /\ OnlyCall(c) /\ Answers(c) /\ call'[c].ans # "unsaved"
    BY <1>2, ReplyAnswers DEF Create
  <2>2. DOMAIN doc' = Docs /\ DOMAIN owned' = Docs
    BY <1>2 DEF Create, CallsInv, Frame
  <2>3. DOMAIN cached' = Keys /\ \A j \in Keys : cached'[j] # NoOne => DOMAIN cached'[j] = Docs
    BY <1>2 DEF Create, CallsInv, Frame, Nothing
  <2> QED
    BY <1>2, <2>1, <2>2, <2>3 DEF Create, CallsInv, Frame, OnlyCall
<1> QED
  BY <1>1, <1>2

\* Whatever the server does is a move of its requests.
LEMMA DeskMoves ==
  ASSUME CallsInv, DeskStep, UNCHANGED page
  PROVE  AllMove /\ CallsInv'
<1>1. AllMove /\ Frame'
  <2>1. CASE \E c \in Calls : List(c) \/ Read(c) \/ Save(c) \/ Throws(c) \/ RefundUnsaved(c) \/ UpdateCoupon(c) \/ Create(c)
    BY <2>1, ListShape, ReadShape, SaveShape, ThrowShape, CouponShape, CreateShape
  <2>2. CASE \E k \in Keys : Expire(k)
    BY <2>2 DEF Expire, CallsInv, Frame, AllMove, Moves
  <2>3. CASE \E d \in Docs : Sale(d) \/ MarkOrderPaid(d)
    BY <2>3 DEF Sale, MarkOrderPaid, CallsInv, Frame, AllMove, Moves
  <2> QED
    BY <2>1, <2>2, <2>3 DEF DeskStep
<1>2. UNCHANGED load
  BY DEF DeskStep, List, Read, Save, Throws, RefundUnsaved, UpdateCoupon, Create, Expire, Sale, MarkOrderPaid
<1>3. DOMAIN page' = Pages /\ \A p \in Pages : PageOK(p)'
  BY <1>2 DEF CallsInv, PageOK, RecordOK, FormOK, Screen
<1> QED
  BY <1>1, <1>2, <1>3, Together

-----------------------------------------------------------------------------
(* What a step does to one page.                                           *)

\* One page changes.
OnlyPage(p, r) == DOMAIN page' = Pages /\ page'[p] = r /\ \A q \in Pages \ {p} : page'[q] = page[q]

LEMMA PagesKept ==
  ASSUME CallsInv, NEW p \in Pages, NEW r, OnlyPage(p, r), RecordOK(r, p), UNCHANGED load
  PROVE  DOMAIN page' = Pages /\ \A q \in Pages : PageOK(q)'
<1>1. PageOK(p)'
  BY DEF OnlyPage, PageOK, RecordOK, FormOK, QueryFits, Screen
<1>2. \A q \in Pages \ {p} : PageOK(q)'
  BY DEF CallsInv, OnlyPage, PageOK, RecordOK, FormOK, QueryFits, Screen
<1> QED
  BY <1>1, <1>2 DEF OnlyPage

\* A request goes out and one page changes.
LEMMA SendKeeps ==
  ASSUME CallsInv, NEW c \in Calls, NEW r, Send(c, r), UNCHANGED desk, DOMAIN page' = Pages, \A q \in Pages : PageOK(q)',
         Sent(c), Asking(c)', PutFits(call'[c].op, DOMAIN call'[c].put)
  PROVE  AllMove /\ OnlyCall(c) /\ CallsInv'
<1>1. OnlyCall(c) /\ Frame' /\ UNCHANGED load
  BY DEF Send, CallsInv, Frame, OnlyCall, desk
<1>2. AllMove
  BY <1>1 DEF OnlyCall, AllMove, Moves
<1> QED
  BY <1>1, <1>2, Together

\* A request that goes out.
Made(r, p, op, d, q, put, chose, row, form) ==
  /\ DOMAIN r = CallFields /\ r.st = "sent" /\ r.page = p /\ r.gone = FALSE /\ r.op = op /\ r.doc = d /\ r.query = q
  /\ r.put = put /\ r.chose = chose /\ r.row = row /\ r.form = form
  /\ r.snap = NoOne /\ r.ans = "none" /\ r.heard = NoOne /\ r.after = Over

\* The fields of the requests the pages build.
LEMMA NoCallFields ==
  /\ DOMAIN NoCall = CallFields /\ NoCall.gone = FALSE /\ NoCall.put = <<>> /\ NoCall.chose = NoOne /\ NoCall.row = NoOne
  /\ NoCall.snap = NoOne /\ NoCall.ans = "none" /\ NoCall.heard = NoOne
BY DEF NoCall, CallFields

LEMMA RequestMade ==
  ASSUME NEW p, NEW op, NEW d
  PROVE  Made(Request(p, op, d), p, op, d, page[p].query, <<>>, NoOne, NoOne, page[p].form.n)
BY NoCallFields DEF Request, CallFields, Made

LEMMA Refilled ==
  ASSUME NEW b, NEW p, NEW op, NEW d, NEW q, NEW form, Made(b, p, op, d, q, <<>>, NoOne, NoOne, form),
         NEW put, NEW chose, NEW row, NEW q2
  PROVE  /\ Made([b EXCEPT !.put = put, !.row = row], p, op, d, q, put, NoOne, row, form)
         /\ Made([b EXCEPT !.put = put, !.chose = chose, !.row = row], p, op, d, q, put, chose, row, form)
         /\ Made([b EXCEPT !.query = q2], p, op, d, q2, <<>>, NoOne, NoOne, form)
BY DEF CallFields, Made

LEMMA AsksMade ==
  ASSUME NEW p, NEW q
  PROVE  Made(Asks(p, q), p, "list", NoOne, q, <<>>, NoOne, NoOne, page[p].form.n)
BY RequestMade, Refilled DEF Asks

LEMMA ActMade ==
  ASSUME NEW p, NEW op, NEW d, NEW put, NEW row
  PROVE  Made([Request(p, op, d) EXCEPT !.put = put, !.row = row], p, op, d, page[p].query, put, NoOne, row, page[p].form.n)
BY RequestMade, Refilled
LEMMA AskMade ==
  ASSUME NEW p, NEW q, NEW d, NEW n
  PROVE  Made([Asks(p, q) EXCEPT !.doc = d, !.form = n], p, "list", d, q, <<>>, NoOne, NoOne, n)
<1>1. Made(Asks(p, q), p, "list", NoOne, q, <<>>, NoOne, NoOne, page[p].form.n)
  BY AsksMade
<1> HIDE DEF Asks
<1> QED
  BY <1>1 DEF Made, CallFields

\* A request of a page goes out.
LEMMA MadeSent ==
  ASSUME CallsInv, NEW c \in Calls, NEW r, Idle(c), call'[c] = r,
         NEW p \in Pages, NEW op, NEW d, NEW q, NEW put, NEW chose, NEW row, NEW form, Made(r, p, op, d, q, put, chose, row, form),
         UNCHANGED load, Fits(op, Screen(p)), DocFits(op, Screen(p), d), QueryFits(Screen(p), q)
  PROVE  Sent(c) /\ Asking(c)'
<1>1. call[c] = NoCall
  BY DEF Idle, CallsInv, CallOK
<1>2. Asking(c)'
  BY DEF Made, Asking, DocFits, QueryFits, Screen
<1> QED
  BY <1>1, <1>2 DEF Sent, Made

\* A control of a row sends its request.
LEMMA ActSent ==
  ASSUME CallsInv, NEW c \in Calls, NEW p \in Pages, NEW op, NEW d \in Docs, NEW put, Act(c, p, op, d, put),
         page[p].up, op \notin {"none", "list", "coupon", "hire", "add"}, Fits(op, Screen(p)), PutFits(op, DOMAIN put),
         DOMAIN page' = Pages, \A q \in Pages : PageOK(q)'
  PROVE  /\ AllMove /\ OnlyCall(c) /\ CallsInv' /\ Sent(c) /\ UNCHANGED desk
         /\ Made(call'[c], p, op, d, page[p].query, put, NoOne, page[p].rows[d], page[p].form.n)
<1> DEFINE r == [Request(p, op, d) EXCEPT !.put = put, !.row = Row(p, d)]
<1>1. Send(c, r) /\ UNCHANGED desk
  BY DEF Act
<1>2. Made(r, p, op, d, page[p].query, put, NoOne, Row(p, d), page[p].form.n)
  BY ActMade
<1>3. QueryFits(Screen(p), page[p].query) /\ DocFits(op, Screen(p), d)
  BY DEF CallsInv, PageOK, RecordOK, DocFits
<1> HIDE DEF r
<1>4. call'[c] = r /\ Idle(c)
  BY <1>1 DEF Send, CallsInv, Frame
<1>5. Sent(c) /\ Asking(c)'
  BY <1>1, <1>2, <1>3, <1>4, MadeSent DEF desk
<1>6. PutFits(call'[c].op, DOMAIN call'[c].put)
  BY <1>2, <1>4 DEF Made
<1>7. AllMove /\ OnlyCall(c) /\ CallsInv'
  BY <1>1, <1>5, <1>6, SendKeeps
<1> QED
  BY <1>1, <1>2, <1>4, <1>5, <1>7 DEF Row

\* A control of a row of p was used.
RowOps == {"status", "approve", "reject", "ask", "active", "member", "delete", "remove"}
Plain(put) ==
  /\ "tracking" \in DOMAIN put => put.tracking = "number"
  /\ "active" \in DOMAIN put => put.active \in BOOLEAN
  /\ "role" \in DOMAIN put => put.role \in {"support", "admin"}
SetsField(put) == Plain(put) /\ ("status" \in DOMAIN put => put.status \in Targets)
RowShape(c, p, d) ==
  /\ Shown(p, d) /\ OnlyCall(c) /\ Sent(c) /\ UNCHANGED desk
  /\ call'[c].page = p /\ call'[c].doc = d /\ call'[c].form = page[p].form.n /\ call'[c].row = page[p].rows[d]
  /\ call'[c].op \in RowOps /\ PutFits(call'[c].op, DOMAIN call'[c].put)
  /\ "status" \in DOMAIN call'[c].put => call'[c].put.status \in Targets
  /\ Plain(call'[c].put) /\ call'[c].query = page[p].query
  /\ \/ UNCHANGED page
     \/ call'[c].op \in {"ask", "remove"} /\ page' = [page EXCEPT ![p].busy = d]

RowControl(c, p, d) ==
  \/ ChangeStatus(c, p, d) \/ SaveTracking(c, p, d) \/ Decide(c, p, d) \/ RequestRefund(c, p, d)
  \/ ToggleActive(c, p, d) \/ ChangeRole(c, p, d) \/ Remove(c, p, d)

LEMMA RowControls ==
  ASSUME CallsInv, NEW c \in Calls, NEW p \in Pages, NEW d \in Docs, RowControl(c, p, d)
  PROVE  AllMove /\ CallsInv' /\ RowShape(c, p, d)
<1>1. \E op, put :
         /\ op \in RowOps /\ Act(c, p, op, d, put) /\ Fits(op, Screen(p)) /\ PutFits(op, DOMAIN put) /\ Shown(p, d)
         /\ SetsField(put)
         /\ UNCHANGED page \/ (op \in {"ask", "remove"} /\ page' = [page EXCEPT ![p].busy = d])
  <2>1. CASE ChangeStatus(c, p, d)
    <3>1. PICK s \in Targets : Act(c, p, "status", d, [status |-> s])
      BY <2>1 DEF ChangeStatus
    <3>2. Fits("status", Screen(p)) /\ PutFits("status", DOMAIN [status |-> s]) /\ Shown(p, d) /\ UNCHANGED page
          /\ SetsField([status |-> s])
      BY <2>1 DEF ChangeStatus, Fits, PutFits, SetsField, Plain
    <3> QED
      BY <3>1, <3>2 DEF RowOps
  <2>2. CASE SaveTracking(c, p, d)
    <3>1. Act(c, p, "status", d, [tracking |-> "number"])
      BY <2>2 DEF SaveTracking
    <3>2. Fits("status", Screen(p)) /\ PutFits("status", DOMAIN [tracking |-> "number"]) /\ Shown(p, d) /\ UNCHANGED page
          /\ SetsField([tracking |-> "number"])
      BY <2>2 DEF SaveTracking, Fits, PutFits, SetsField, Plain
    <3> QED
      BY <3>1, <3>2 DEF RowOps
  <2>3. CASE Decide(c, p, d)
    <3>1. PICK op \in {"approve", "reject"} : Act(c, p, op, d, <<>>)
      BY <2>3 DEF Decide
    <3>2. Fits(op, Screen(p)) /\ PutFits(op, DOMAIN <<>>) /\ Shown(p, d) /\ UNCHANGED page /\ SetsField(<<>>)
      BY <2>3 DEF Decide, Fits, PutFits, SetsField, Plain
    <3> QED
      BY <3>1, <3>2 DEF RowOps
  <2>4. CASE RequestRefund(c, p, d)
    <3>1. Act(c, p, "ask", d, <<>>) /\ page' = [page EXCEPT ![p].busy = d]
      BY <2>4 DEF RequestRefund
    <3>2. Fits("ask", Screen(p)) /\ PutFits("ask", DOMAIN <<>>) /\ Shown(p, d) /\ SetsField(<<>>)
      BY <2>4 DEF RequestRefund, Fits, PutFits, SetsField, Plain
    <3> QED
      BY <3>1, <3>2 DEF RowOps
  <2>5. CASE ToggleActive(c, p, d)
    <3>1. PICK op \in {"member", "active"} : /\ Act(c, p, op, d, [active |-> ~Row(p, d).active])
                                             /\ op = "member" <=> Screen(p) = "staff"
      BY <2>5 DEF ToggleActive
    <3>2. Fits(op, Screen(p)) /\ PutFits(op, DOMAIN [active |-> ~Row(p, d).active]) /\ Shown(p, d) /\ UNCHANGED page
          /\ SetsField([active |-> ~Row(p, d).active])
      BY <2>5, <3>1 DEF ToggleActive, Fits, PutFits, SetsField, Plain
    <3> QED
      BY <3>1, <3>2 DEF RowOps
  <2>6. CASE ChangeRole(c, p, d)
    <3>1. PICK r \in {"support", "admin"} : Act(c, p, "member", d, [role |-> r])
      BY <2>6 DEF ChangeRole
    <3>2. Fits("member", Screen(p)) /\ PutFits("member", DOMAIN [role |-> r]) /\ Shown(p, d) /\ UNCHANGED page
          /\ SetsField([role |-> r])
      BY <2>6 DEF ChangeRole, Fits, PutFits, SetsField, Plain
    <3> QED
      BY <3>1, <3>2 DEF RowOps
  <2>7. CASE Remove(c, p, d)
    <3>1. PICK op \in {"delete", "remove"} : Act(c, p, op, d, <<>>) /\ (op = "delete" <=> Screen(p) = "coupons")
      BY <2>7 DEF Remove
    <3>2. Fits(op, Screen(p)) /\ PutFits(op, DOMAIN <<>>) /\ Shown(p, d) /\ SetsField(<<>>)
          /\ (UNCHANGED page \/ (op = "remove" /\ page' = [page EXCEPT ![p].busy = d]))
      BY <2>7, <3>1 DEF Remove, Fits, PutFits, SetsField, Plain
    <3> QED
      BY <3>1, <3>2 DEF RowOps
  <2> QED
    BY <2>1, <2>2, <2>3, <2>4, <2>5, <2>6, <2>7 DEF RowControl
<1>2. PICK op, put :
         /\ op \in RowOps /\ Act(c, p, op, d, put) /\ Fits(op, Screen(p)) /\ PutFits(op, DOMAIN put) /\ Shown(p, d)
         /\ SetsField(put)
         /\ UNCHANGED page \/ (op \in {"ask", "remove"} /\ page' = [page EXCEPT ![p].busy = d])
  BY <1>1
<1>3. DOMAIN page' = Pages /\ \A q \in Pages : PageOK(q)'
  <2>0. UNCHANGED load
    BY <1>2 DEF Act, desk
  <2>1. CASE UNCHANGED page
    BY <2>0, <2>1 DEF CallsInv, PageOK, RecordOK, FormOK, QueryFits, Screen
  <2>2. CASE page' = [page EXCEPT ![p].busy = d]
    <3>1. OnlyPage(p, [page[p] EXCEPT !.busy = d])
      BY <2>2 DEF OnlyPage, CallsInv
    <3>2. RecordOK([page[p] EXCEPT !.busy = d], p)
      BY DEF CallsInv, PageOK, RecordOK, PageFields
    <3> QED
      BY <2>0, <3>1, <3>2, PagesKept
  <2> QED
    BY <1>2, <2>1, <2>2
<1>4. page[p].up /\ Plain(put) /\ ("status" \in DOMAIN put => put.status \in Targets)
  BY <1>2 DEF Shown, SetsField
<1>5. /\ AllMove /\ OnlyCall(c) /\ CallsInv' /\ Sent(c) /\ UNCHANGED desk
      /\ Made(call'[c], p, op, d, page[p].query, put, NoOne, page[p].rows[d], page[p].form.n)
  BY <1>2, <1>3, <1>4, ActSent DEF RowOps
<1> QED
  BY <1>2, <1>4, <1>5 DEF RowShape, Made

\* A page is opened: what went before is left, and it asks for its rows.
FirstQuery(p) == IF Screen(p) = "list" THEN 1 ELSE "all"
OpenShape(c, p) ==
  /\ UNCHANGED desk /\ DOMAIN call' = Calls /\ call[c] = NoCall
  /\ \A e \in Calls \ {c} : IF call[e].page = p THEN Left(e) ELSE call'[e] = call[e]
  /\ IF Screen(p) = "add" THEN call'[c] = call[c]
     ELSE Sent(c) /\ \E d : Made(call'[c], p, "list", d, FirstQuery(p), <<>>, NoOne, NoOne, page[p].forms + 1)
  /\ DOMAIN page' = Pages /\ \A q \in Pages \ {p} : page'[q] = page[q]
  /\ page'[p].up = TRUE /\ page'[p].query = FirstQuery(p) /\ page'[p].rows = NoRows
  /\ page'[p].loading = (Screen(p) # "add") /\ page'[p].busy = NoOne
  /\ page'[p].form.busy = FALSE /\ page'[p].form.row = NoOne
  /\ page'[p].forms >= page[p].forms /\ page'[p].form.n \in {0, page[p].forms + 1}
  /\ Screen(p) = "edit" => page'[p].form.n = page[p].forms + 1 /\ page'[p].form # NoForm /\ page'[p].form.doc = call'[c].doc
  /\ Screen(p) \notin FormOnPage => page'[p].form = NoForm

LEMMA Opened ==
  ASSUME CallsInv, NEW c \in Calls, NEW p \in Pages, Open(c, p)
  PROVE  AllMove /\ CallsInv' /\ OpenShape(c, p)
<1> DEFINE q == IF Screen(p) = "list" THEN 1 ELSE "all"
           form(d) == IF Screen(p) \in FormOnPage THEN Form(p, d, NoOne) ELSE NoForm
           forms == IF Screen(p) \in FormOnPage THEN page[p].forms + 1 ELSE page[p].forms
           r(d) == [Unmounted EXCEPT !.up = TRUE, !.query = q, !.loading = Screen(p) # "add", !.forms = forms, !.form = form(d)]
<1>1. PICK d \in (IF Screen(p) = "edit" THEN load.live ELSE {NoOne}) :
         /\ call' = [x \in Calls |->
                IF x = c /\ Screen(p) # "add" THEN [Asks(p, q) EXCEPT !.doc = d, !.form = page[p].forms + 1]
                ELSE IF call[x].page = p THEN [call[x] EXCEPT !.gone = TRUE] ELSE call[x]]
         /\ page' = [page EXCEPT ![p] = r(d)]
  BY DEF Open
<1>2. Idle(c) /\ UNCHANGED desk /\ call[c] = NoCall
  BY DEF Open, Idle, CallsInv, CallOK
<1>3. \A e \in Calls : call[e].page = p => call[e].st # "idle"
  BY DeskAssumption DEF CallsInv, CallOK, NoCall
<1>4. \A e \in Calls \ {c} : IF call[e].page = p THEN Left(e) ELSE call'[e] = call[e]
  <2> SUFFICES ASSUME NEW e \in Calls \ {c}, call[e].page = p
               PROVE  Left(e)
    BY <1>1
  <2>1. call'[e] = [call[e] EXCEPT !.gone = TRUE] /\ DOMAIN call[e] = CallFields
    BY <1>1 DEF CallsInv, CallOK
  <2> QED
    BY <1>3, <2>1 DEF Left, Keeps, CallFields
<1>5. Screen(p) = "add" => call'[c] = call[c]
  BY <1>1, <1>2, <1>3 DEF NoCall
<1>6. ASSUME Screen(p) # "add"
      PROVE  /\ Sent(c) /\ Asking(c)' /\ PutFits(call'[c].op, DOMAIN call'[c].put)
             /\ Made(call'[c], p, "list", d, q, <<>>, NoOne, NoOne, page[p].forms + 1)
  <2>1. call'[c] = [Asks(p, q) EXCEPT !.doc = d, !.form = page[p].forms + 1]
    BY <1>1, <1>6
  <2> HIDE DEF q
  <2>2. Made(call'[c], p, "list", d, q, <<>>, NoOne, NoOne, page[p].forms + 1)
    <3>1. Made([Asks(p, q) EXCEPT !.doc = d, !.form = page[p].forms + 1], p, "list", d, q, <<>>, NoOne, NoOne, page[p].forms + 1)
      BY AskMade
    <3> QED
      BY <2>1, <3>1
  <2>3. Fits("list", Screen(p)) /\ DocFits("list", Screen(p), d) /\ QueryFits(Screen(p), q)
    BY <1>1, <1>6 DEF Fits, DocFits, QueryFits, q
  <2>4. Sent(c) /\ Asking(c)'
    BY <1>2, <2>2, <2>3, MadeSent DEF desk
  <2>5. PutFits(call'[c].op, DOMAIN call'[c].put)
    BY <2>2 DEF Made, PutFits
  <2> QED
    BY <2>2, <2>4, <2>5
<1>7. AllMove
  BY <1>4, <1>5, <1>6 DEF AllMove, Moves
<1>8. page[p].forms \in Nat /\ load.live \subseteq Docs
  BY DeskAssumption DEF CallsInv, PageOK, RecordOK, Frame
<1>9. form(d).n \in {0, page[p].forms + 1} /\ form(d).busy = FALSE /\ form(d).row = NoOne
      /\ (Screen(p) = "edit" => form(d).n = page[p].forms + 1 /\ form(d) # NoForm /\ form(d).doc = d)
      /\ (Screen(p) \notin FormOnPage => form(d) = NoForm) /\ FormOK(form(d), p) /\ form(d).n <= forms
  BY <1>1, <1>8 DEF Form, NoForm, FormOK, FormFields, FormOnPage
<1> HIDE DEF q, form, forms
<1>10. /\ DOMAIN r(d) = PageFields /\ r(d).up = TRUE /\ r(d).query = q /\ r(d).rows = NoRows
       /\ r(d).loading = (Screen(p) # "add") /\ r(d).busy = NoOne /\ r(d).forms = forms /\ r(d).form = form(d)
  BY DEF Unmounted, PageFields
<1>11. DOMAIN NoRows = Docs /\ QueryFits(Screen(p), q) /\ forms \in Nat /\ forms >= page[p].forms
  BY <1>8 DEF NoRows, QueryFits, forms, q
<1>12. RecordOK(r(d), p)
  BY <1>9, <1>10, <1>11 DEF RecordOK
<1>13. OnlyPage(p, r(d))
  BY <1>1 DEF OnlyPage, CallsInv
<1>14. DOMAIN page' = Pages /\ \A x \in Pages : PageOK(x)'
  BY <1>2, <1>12, <1>13, PagesKept DEF desk
<1>15. CallsInv'
  <2>1. UNCHANGED load /\ Frame'
    BY <1>1, <1>2 DEF Frame, CallsInv, desk
  <2> QED
    BY <1>7, <1>14, <2>1, Together
<1>16. OpenShape(c, p)
  <2> HIDE DEF r
  <2>1. q = FirstQuery(p)
    BY DEF q, FirstQuery
  <2>2. page'[p] = r(d) /\ \A x \in Pages \ {p} : page'[x] = page[x]
    BY <1>13 DEF OnlyPage
  <2>3. DOMAIN call' = Calls
    BY <1>1
  <2>4. Screen(p) # "add" => call'[c].doc = d
    BY <1>6 DEF Made
  <2> QED
    BY <1>2, <1>4, <1>5, <1>6, <1>9, <1>10, <1>11, <1>14, <2>1, <2>2, <2>3, <2>4 DEF OpenShape
<1> QED
  BY <1>7, <1>15, <1>16

\* A page asks for other rows: for those it will show, if it asks once.
Queried(p, q) ==
  /\ \E x \in Calls : Sent(x) /\ call'[x].page = p
  /\ \A x \in Calls : Sent(x) => call'[x].query = q \/ \E y \in Calls \ {x} : Sent(y) /\ call'[y].page = p
AskShape(p) ==
  /\ Screen(p) \in {"selling", "list"} /\ page[p].up /\ UNCHANGED desk /\ DOMAIN call' = Calls
  /\ \A x \in Calls : \/ call'[x] = call[x]
                      \/ Sent(x) /\ \E q : Made(call'[x], p, "list", NoOne, q, <<>>, NoOne, NoOne, page[p].form.n)
  /\ \E q : QueryFits(Screen(p), q) /\ page' = [page EXCEPT ![p].query = q, ![p].loading = TRUE] /\ Queried(p, q)

LEMMA AsksKeep ==
  ASSUME CallsInv, NEW p \in Pages, AskShape(p), AllMove
  PROVE  CallsInv'
<1>1. PICK q : QueryFits(Screen(p), q) /\ page' = [page EXCEPT ![p].query = q, ![p].loading = TRUE]
  BY DEF AskShape
<1> DEFINE r == [page[p] EXCEPT !.query = q, !.loading = TRUE]
<1>2. RecordOK(r, p)
  BY <1>1 DEF CallsInv, PageOK, RecordOK, PageFields
<1>3. OnlyPage(p, r)
  BY <1>1 DEF OnlyPage, CallsInv
<1> HIDE DEF r
<1>4. DOMAIN page' = Pages /\ \A x \in Pages : PageOK(x)'
  BY <1>2, <1>3, PagesKept DEF AskShape, desk
<1>5. UNCHANGED load /\ Frame'
  BY DEF AskShape, CallsInv, Frame, desk
<1> QED
  BY <1>4, <1>5, Together

LEMMA AskSent ==
  ASSUME CallsInv, NEW c \in Calls, NEW p \in Pages, Idle(c), NEW q, QueryFits(Screen(p), q),
         Screen(p) \in {"selling", "list"}, call'[c] = Asks(p, q), UNCHANGED load
  PROVE  /\ Sent(c) /\ Made(call'[c], p, "list", NoOne, q, <<>>, NoOne, NoOne, page[p].form.n) /\ Moves(c)
<1>1. Made(call'[c], p, "list", NoOne, q, <<>>, NoOne, NoOne, page[p].form.n)
  BY AsksMade
<1>2. Fits("list", Screen(p)) /\ DocFits("list", Screen(p), NoOne)
  BY DEF Fits, DocFits
<1>3. Sent(c) /\ Asking(c)'
  BY <1>1, <1>2, MadeSent
<1>4. PutFits(call'[c].op, DOMAIN call'[c].put)
  BY <1>1 DEF Made, PutFits
<1> QED
  BY <1>1, <1>3, <1>4 DEF Moves

LEMMA Turned ==
  ASSUME CallsInv, NEW c \in Calls, NEW p \in Pages, Turn(c, p)
  PROVE  AllMove /\ CallsInv' /\ AskShape(p)
<1>1. PICK q \in (IF Screen(p) = "selling" THEN {"all", "placed"} ELSE {1, 2}) :
         Send(c, Asks(p, q)) /\ page' = [page EXCEPT ![p].query = q, ![p].loading = TRUE]
  BY DEF Turn
<1>2. QueryFits(Screen(p), q) /\ Screen(p) \in {"selling", "list"} /\ page[p].up /\ UNCHANGED desk
  BY <1>1 DEF Turn, QueryFits
<1>3. Idle(c) /\ call'[c] = Asks(p, q) /\ OnlyCall(c)
  BY <1>1 DEF Send, CallsInv, Frame, OnlyCall
<1>4. Sent(c) /\ Made(call'[c], p, "list", NoOne, q, <<>>, NoOne, NoOne, page[p].form.n) /\ Moves(c)
  BY <1>2, <1>3, AskSent DEF desk
<1>5. AllMove
  BY <1>3, <1>4 DEF AllMove, OnlyCall, Moves
<1>6. Queried(p, q)
  BY <1>3, <1>4 DEF Queried, OnlyCall, Sent, Made, NoCall
<1>7. AskShape(p)
  BY <1>1, <1>2, <1>3, <1>4, <1>6 DEF AskShape, OnlyCall
<1> QED
  BY <1>5, <1>7, AsksKeep

LEMMA Searched ==
  ASSUME CallsInv, NEW c \in Calls, NEW e \in Calls, NEW p \in Pages, Search(c, e, p)
  PROVE  AllMove /\ CallsInv' /\ AskShape(p)
<1>1. /\ page[p].up /\ Screen(p) = "list" /\ Idle(c) /\ Idle(e) /\ UNCHANGED desk /\ QueryFits(Screen(p), page[p].query)
      /\ c = e => page[p].query = 1
      /\ call' = [call EXCEPT ![e] = Asks(p, 1), ![c] = Asks(p, page[p].query)]
      /\ page' = [page EXCEPT ![p].query = 1, ![p].loading = TRUE] /\ QueryFits(Screen(p), 1)
  BY DEF Search, CallsInv, PageOK, RecordOK, QueryFits
<1>2. /\ DOMAIN call' = Calls /\ call'[c] = Asks(p, page[p].query) /\ (c # e => call'[e] = Asks(p, 1))
      /\ \A x \in Calls \ {c, e} : call'[x] = call[x]
  BY <1>1 DEF CallsInv, Frame
<1>3. Sent(c) /\ Made(call'[c], p, "list", NoOne, page[p].query, <<>>, NoOne, NoOne, page[p].form.n) /\ Moves(c)
  BY <1>1, <1>2, AskSent DEF desk
<1>4. c # e => Sent(e) /\ Made(call'[e], p, "list", NoOne, 1, <<>>, NoOne, NoOne, page[p].form.n) /\ Moves(e)
  BY <1>1, <1>2, AskSent DEF desk
<1>5. AllMove
  BY <1>2, <1>3, <1>4 DEF AllMove, Moves
<1>6. Queried(p, 1)
  <2> SUFFICES ASSUME NEW x \in Calls, Sent(x)
               PROVE  call'[x].query = 1 \/ \E y \in Calls \ {x} : Sent(y) /\ call'[y].page = p
    BY <1>3 DEF Queried, Made
  <2>1. x \in {c, e}
    BY <1>2 DEF Sent, NoCall
  <2> QED
    BY <1>1, <1>3, <1>4, <2>1 DEF Made
<1>7. AskShape(p)
  BY <1>1, <1>2, <1>3, <1>4, <1>6 DEF AskShape
<1> QED
  BY <1>5, <1>7, AsksKeep

\* A form opens or closes.
FormShape(p) ==
  /\ UNCHANGED <<desk, call>> /\ page[p].up
  /\ \/ /\ page' = [page EXCEPT ![p].form = NoForm]
     \/ /\ page[p].form = NoForm
        /\ \E d \in Docs : Shown(p, d) /\ page' = [page EXCEPT ![p].form = Form(p, d, Row(p, d)), ![p].forms = @ + 1]
     \/ /\ page[p].form = NoForm /\ Screen(p) = "products"
        /\ page' = [page EXCEPT ![p].form = Form(p, NoOne, NoOne), ![p].forms = @ + 1]

LEMMA FormTurns ==
  ASSUME CallsInv, NEW p \in Pages, OpenForm(p) \/ CloseForm(p)
  PROVE  AllMove /\ CallsInv' /\ FormShape(p) /\ Screen(p) \in {"selling", "products"}
<1>1. FormShape(p) /\ Screen(p) \in {"selling", "products"} /\ UNCHANGED <<desk, call>>
  <2>1. CASE OpenForm(p)
    BY <2>1 DEF OpenForm, FormShape, Opens, Shown
  <2>2. CASE CloseForm(p)
    BY <2>2 DEF CloseForm, FormShape, CallsInv, PageOK, RecordOK, FormOK
  <2> QED
    BY <2>1, <2>2
<1>2. AllMove
  BY <1>1 DEF AllMove, Moves
<1>3. RecordOK(page[p], p) /\ page[p].up
  BY <1>1 DEF CallsInv, PageOK, FormShape
<1>4. DOMAIN page' = Pages /\ \A x \in Pages : PageOK(x)'
  <2>0. UNCHANGED load
    BY <1>1 DEF desk
  <2>1. CASE page' = [page EXCEPT ![p].form = NoForm]
    <3> DEFINE r == [page[p] EXCEPT !.form = NoForm]
    <3>1. /\ DOMAIN r = PageFields /\ r.up = page[p].up /\ r.loading = page[p].loading /\ r.query = page[p].query
          /\ r.rows = page[p].rows /\ r.forms = page[p].forms /\ r.busy = page[p].busy /\ r.form = NoForm
      BY <1>3 DEF RecordOK, PageFields
    <3>2. OnlyPage(p, r)
      BY <2>1 DEF OnlyPage, CallsInv
    <3> HIDE DEF r
    <3>3. NoForm.n = 0 /\ FormOK(NoForm, p)
      BY DEF NoForm, FormOK, FormFields
    <3>4. RecordOK(r, p)
      BY <1>3, <3>1, <3>3 DEF RecordOK
    <3> QED
      BY <2>0, <3>2, <3>4, PagesKept
  <2>2. ASSUME NEW d \in Docs \cup {NoOne}, NEW row, page' = [page EXCEPT ![p].form = Form(p, d, row), ![p].forms = @ + 1],
               d = NoOne => Screen(p) = "products"
        PROVE  DOMAIN page' = Pages /\ \A x \in Pages : PageOK(x)'
    <3> DEFINE r == [page[p] EXCEPT !.form = Form(p, d, row), !.forms = @ + 1]
    <3>1. RecordOK(r, p)
      <4> DEFINE f == Form(p, d, row)
      <4>1. f.n = page[p].forms + 1 /\ FormOK(f, p)
        BY <1>1, <1>3, <2>2, DeskAssumption DEF Form, FormOK, FormFields, RecordOK
      <4> HIDE DEF f
      <4> DEFINE s == [page[p] EXCEPT !.form = f, !.forms = @ + 1]
      <4>2. /\ DOMAIN s = PageFields /\ s.up = page[p].up /\ s.loading = page[p].loading /\ s.query = page[p].query
            /\ s.rows = page[p].rows /\ s.forms = page[p].forms + 1 /\ s.busy = page[p].busy /\ s.form = f
        BY <1>3 DEF RecordOK, PageFields
      <4>3. r = s
        BY DEF f
      <4> HIDE DEF s, r
      <4>4. RecordOK(s, p)
        BY <1>3, <4>1, <4>2 DEF RecordOK
      <4> QED
        BY <4>3, <4>4
    <3>2. OnlyPage(p, r)
      BY <2>2 DEF OnlyPage, CallsInv
    <3> HIDE DEF r
    <3> QED
      BY <2>0, <3>1, <3>2, PagesKept
  <2> QED
    BY <1>1, <2>1, <2>2, DeskAssumption DEF FormShape
<1>5. UNCHANGED load /\ Frame'
  BY <1>1 DEF CallsInv, Frame, desk
<1> QED
  BY <1>1, <1>2, <1>4, <1>5, Together

\* A form is sent.
SubmitShape(c, p) ==
  /\ page[p].form # NoForm /\ page[p].form.busy = FALSE /\ page[p].up
  /\ OnlyCall(c) /\ Sent(c) /\ UNCHANGED desk /\ Fits(SubmitOp(p), Screen(p))
  /\ Screen(p) = "edit" => page[p].form.row # NoOne
  /\ \E chose \in Choices(p) : \E put \in Puts(p, chose) :
        /\ Made(call'[c], p, SubmitOp(p), page[p].form.doc, page[p].query, put, chose, page[p].form.row, page[p].form.n)
        /\ OnlyPage(p, [page[p] EXCEPT !.form = Typed(p, chose, put)])

LEMMA SubmitFits ==
  ASSUME CallsInv, NEW p \in Pages, page[p].form # NoForm
  PROVE  /\ Fits(SubmitOp(p), Screen(p)) /\ DocFits(SubmitOp(p), Screen(p), page[p].form.doc)
         /\ \A chose : \A put \in Puts(p, chose) : PutFits(SubmitOp(p), DOMAIN put)
<1>1. FormOK(page[p].form, p) /\ load.live \subseteq Docs
  BY DeskAssumption DEF CallsInv, PageOK, RecordOK, Frame
<1>2. SubmitOp(p) \in {"status", "coupon", "hire", "add", "edit"}
  BY DEF SubmitOp
<1>3. Fits(SubmitOp(p), Screen(p)) /\ DocFits(SubmitOp(p), Screen(p), page[p].form.doc)
  BY <1>1, DeskAssumption DEF FormOK, FormOnPage, SubmitOp, Fits, DocFits
<1>4. ASSUME NEW chose, NEW put \in Puts(p, chose)
      PROVE  PutFits(SubmitOp(p), DOMAIN put)
  <2>1. CASE Screen(p) = "selling"
    <3>1. put \in PanelPut(p, chose) /\ SubmitOp(p) = "status"
      BY <1>4, <2>1 DEF Puts, SubmitOp
    <3>2. DOMAIN put \subseteq {"status", "tracking"}
      BY <3>1 DEF PanelPut
    <3> QED
      BY <3>1, <3>2 DEF PutFits
  <2>2. CASE Screen(p) \in {"coupons", "staff"}
    <3>1. put = [content |-> Content(p)] /\ SubmitOp(p) \in {"coupon", "hire"}
      BY <1>4, <2>2 DEF Puts, SubmitOp
    <3> QED
      BY <3>1 DEF PutFits
  <2>3. CASE Screen(p) \notin {"selling", "coupons", "staff"}
    <3>1. put = ProductPut(p, chose) /\ SubmitOp(p) \in {"add", "edit"}
      BY <1>4, <2>3 DEF Puts, SubmitOp
    <3>2. DOMAIN put = {"content", "stock"}
      BY <3>1 DEF ProductPut
    <3> QED
      BY <3>1, <3>2 DEF PutFits
  <2> QED
    BY <2>1, <2>2, <2>3
<1> QED
  BY <1>3, <1>4

LEMMA Submitted ==
  ASSUME CallsInv, NEW c \in Calls, NEW p \in Pages, Submit(c, p)
  PROVE  AllMove /\ CallsInv' /\ SubmitShape(c, p)
<1> DEFINE f == page[p].form
<1>1. PICK chose \in Choices(p) : \E put \in Puts(p, chose) :
          /\ Send(c, [Request(p, SubmitOp(p), f.doc) EXCEPT !.put = put, !.chose = chose, !.row = f.row])
          /\ page' = [page EXCEPT ![p].form = Typed(p, chose, put)]
  BY DEF Submit
<1>2. PICK put \in Puts(p, chose) :
          /\ Send(c, [Request(p, SubmitOp(p), f.doc) EXCEPT !.put = put, !.chose = chose, !.row = f.row])
          /\ page' = [page EXCEPT ![p].form = Typed(p, chose, put)]
  BY <1>1
<1>3. f # NoForm /\ UNCHANGED desk /\ f.busy \in BOOLEAN /\ ~f.busy
  BY DEF Submit, Busy, CallsInv, PageOK, RecordOK, FormOK
<1>4. RecordOK(page[p], p) /\ page[p].up = TRUE
  BY <1>3 DEF CallsInv, PageOK, RecordOK
<1>5. Fits(SubmitOp(p), Screen(p)) /\ DocFits(SubmitOp(p), Screen(p), f.doc) /\ PutFits(SubmitOp(p), DOMAIN put)
  BY <1>3, SubmitFits
<1>6. LET b == Request(p, SubmitOp(p), f.doc) IN
      Made([b EXCEPT !.put = put, !.chose = chose, !.row = f.row], p, SubmitOp(p), f.doc, page[p].query, put, chose, f.row, f.n)
  BY RequestMade, Refilled
<1> DEFINE r == [Request(p, SubmitOp(p), f.doc) EXCEPT !.put = put, !.chose = chose, !.row = f.row]
<1>7. Made(r, p, SubmitOp(p), f.doc, page[p].query, put, chose, f.row, f.n) /\ Send(c, r)
  BY <1>2, <1>6
<1> HIDE DEF r, f
<1>8. call'[c] = r /\ Idle(c) /\ OnlyCall(c)
  BY <1>7 DEF Send, CallsInv, Frame, OnlyCall
<1>9. QueryFits(Screen(p), page[p].query)
  BY <1>4 DEF RecordOK
<1>10. Sent(c) /\ Asking(c)'
  BY <1>3, <1>5, <1>7, <1>8, <1>9, MadeSent DEF desk
<1>11. PutFits(call'[c].op, DOMAIN call'[c].put)
  BY <1>5, <1>7, <1>8 DEF Made
<1> DEFINE g == Typed(p, chose, put)
           s == [page[p] EXCEPT !.form = g]
<1>12. DOMAIN g = FormFields /\ g.n = f.n /\ g.doc = f.doc /\ g.busy = TRUE
  BY <1>4 DEF Typed, RecordOK, FormOK, FormFields, f
<1>13. FormOK(g, p)
  BY <1>3, <1>4, <1>12 DEF FormOK, RecordOK, f
<1>14. OnlyPage(p, s)
  BY <1>2 DEF OnlyPage, CallsInv
<1> HIDE DEF g
<1>15. /\ DOMAIN s = PageFields /\ s.up = page[p].up /\ s.loading = page[p].loading /\ s.query = page[p].query
       /\ s.rows = page[p].rows /\ s.forms = page[p].forms /\ s.busy = page[p].busy /\ s.form = g
  BY <1>4 DEF RecordOK, PageFields
<1> HIDE DEF s
<1>16. RecordOK(s, p)
  BY <1>4, <1>12, <1>13, <1>15 DEF RecordOK, f
<1>17. DOMAIN page' = Pages /\ \A x \in Pages : PageOK(x)'
  BY <1>3, <1>14, <1>16, PagesKept DEF desk
<1>18. AllMove /\ CallsInv'
  BY <1>3, <1>7, <1>10, <1>11, <1>17, SendKeeps
<1>19. Screen(p) = "edit" => f.row # NoOne
  BY DEF Submit, f
<1>20. SubmitShape(c, p)
  BY <1>3, <1>4, <1>5, <1>7, <1>8, <1>10, <1>14, <1>19 DEF SubmitShape, f, s, g
<1> QED
  BY <1>18, <1>20

-----------------------------------------------------------------------------
(* What an answer does to its page.                                        *)

\* On a page that asks for its rows once, what is sent after the list was
\* answered.
Single(p) == Screen(p) \in {"orders", "refunds", "mine", "edit"}
Alive(c) == call[c].st # "idle" /\ call[c].gone = FALSE
Waiting(c) ==
  /\ Alive(c) /\ Screen(call[c].page) # "edit" => page[call[c].page].up = TRUE
  /\ Alive(c) /\ call[c].op = "list" /\ Single(call[c].page) /\ c \notin Over =>
       /\ page[call[c].page].loading = TRUE
       /\ Screen(call[c].page) = "edit" => page[call[c].page].form # NoForm /\ page[call[c].page].form.row = NoOne
OneList(a, b) ==
  Alive(a) /\ Alive(b) /\ call[a].page = call[b].page /\ Single(call[a].page) /\ call[b].op = "list" =>
    IF call[a].op = "list" THEN a = b ELSE b \in Over
SinglesInv == \A a \in Calls : Waiting(a) /\ \A b \in Calls : OneList(a, b)

\* The page, freed.
FreedRecord(r, c) ==
  LET s == page[call[c].page] IN
  /\ DOMAIN r = PageFields /\ DOMAIN r.form = FormFields
  /\ r.up = s.up /\ r.query = s.query /\ r.rows = s.rows /\ r.forms = s.forms
  /\ r.loading \in BOOLEAN /\ (r.loading = TRUE) = (s.loading = TRUE /\ call[c].op # "list")
  /\ r.busy = (IF call[c].op \in {"ask", "remove"} THEN NoOne ELSE s.busy)
  /\ r.form.n = s.form.n /\ r.form.doc = s.form.doc /\ r.form.row = s.form.row
  /\ r.form.busy \in BOOLEAN
  /\ (r.form.busy = TRUE) = (s.form.busy = TRUE /\ ~(call[c].op \in FormOps /\ s.form.n = call[c].form))
  /\ s.form = NoForm => r.form = NoForm

LEMMA FreedFields ==
  ASSUME CallsInv, NEW c \in Calls, call[c].page \in Pages
  PROVE  FreedRecord(Freed(c), c) /\ RecordOK(Freed(c), call[c].page)
<1> DEFINE s == page[call[c].page]
           old == s.form
           b == call[c].op \in {"ask", "remove"}
           l == s.loading /\ call[c].op # "list"
           k == old.busy /\ ~(call[c].op \in FormOps /\ old.n = call[c].form)
           form == [old EXCEPT !.busy = k]
           busy == IF b THEN NoOne ELSE s.busy
           r == Freed(c)
<1>1. RecordOK(s, call[c].page)
  BY DEF CallsInv, PageOK
<1>2. l \in BOOLEAN /\ k \in BOOLEAN
  OBVIOUS
<1>3. DOMAIN form = FormFields /\ form.n = old.n /\ form.doc = old.doc /\ form.row = old.row /\ form.busy = k
  BY <1>1 DEF RecordOK, FormOK, FormFields
<1>4. old = NoForm => form = NoForm
  <2>1. [NoForm EXCEPT !.busy = FALSE] = NoForm
    <3> DEFINE R == [n : {0}, doc : {NoOne}, row : {NoOne}, busy : {FALSE}]
    <3>1. NoForm \in R
      BY DEF NoForm
    <3>2. [NoForm EXCEPT !.busy = FALSE] \in R
      BY <3>1
    <3> QED
      BY <3>1, <3>2
  <2>2. ASSUME old = NoForm
        PROVE  k = FALSE
    BY <2>2 DEF NoForm
  <2> HIDE DEF k
  <2> QED
    BY <2>1, <2>2
<1>5. busy \in Docs \cup {NoOne}
  BY <1>1 DEF RecordOK
<1>6. (l = TRUE) = (s.loading = TRUE /\ call[c].op # "list")
  BY <1>1 DEF RecordOK
<1>7. (k = TRUE) = (old.busy = TRUE /\ ~(call[c].op \in FormOps /\ old.n = call[c].form))
  BY <1>1 DEF RecordOK, FormOK
<1> HIDE DEF l, k, busy
<1>8. r = [s EXCEPT !.loading = l, !.busy = busy, !.form = form]
  BY DEF Freed, l, k, busy
<1> HIDE DEF form, r
<1>9. /\ DOMAIN r = PageFields /\ r.form = form /\ r.loading = l /\ r.busy = busy
      /\ r.up = s.up /\ r.query = s.query /\ r.rows = s.rows /\ r.forms = s.forms
  BY <1>1, <1>8 DEF RecordOK, PageFields
<1>10. FreedRecord(r, c)
  BY <1>2, <1>3, <1>4, <1>6, <1>7, <1>9 DEF FreedRecord, busy
<1>11. FormOK(form, call[c].page)
  BY <1>1, <1>2, <1>3, <1>4 DEF RecordOK, FormOK
<1>12. form # NoForm => old # NoForm
  BY <1>4
<1>13. RecordOK(r, call[c].page)
  BY <1>1, <1>2, <1>3, <1>5, <1>9, <1>11, <1>12 DEF RecordOK
<1> QED
  BY <1>10, <1>13 DEF r

\* An answer arrives, or is lost.
EndShape(c) ==
  /\ Ends(c) /\ OnlyCall(c)
  /\ Screen(call[c].page) = "refunds" => call'[c].heard = call[c].heard
  /\ UNCHANGED <<load, doc, cached, writer, refunds, owned, outdated>>

LEMMA PastEnds ==
  ASSUME CallsInv, NEW c \in Calls, call[c].st = "served", NEW a, a = call[c].ans \/ (call[c].ans = "ok" /\ a = "lost"),
         \/ Closes(c) /\ a = call[c].ans
         \/ call' = [call EXCEPT ![c] = [Past(c) EXCEPT !.ans = a]]
  PROVE  Ends(c) /\ OnlyCall(c) /\ (Screen(call[c].page) = "refunds" => call'[c].heard = call[c].heard) /\ AllMove
         /\ call'[c].ans = a
<1> DEFINE h == IF Screen(call[c].page) = "refunds" THEN call[c].heard ELSE NoOne
           r == Past(c)
<1>1. DOMAIN call[c] = CallFields /\ DOMAIN call = Calls
  BY DEF CallsInv, CallOK, Frame
<1>2. /\ DOMAIN r = CallFields /\ r.st = "over" /\ r.put = <<>> /\ r.chose = NoOne /\ r.row = NoOne /\ r.heard = h
      /\ \A f \in CallFields \ {"st", "put", "chose", "row", "heard"} : r[f] = call[c][f]
  BY <1>1 DEF Past, CallFields
<1> HIDE DEF h, r
<1>3. (call'[c] = r /\ a = call[c].ans) \/ call'[c] = [r EXCEPT !.ans = a]
  BY <1>1 DEF Closes, r
<1>4. /\ DOMAIN call'[c] = CallFields /\ call'[c].st = "over" /\ call'[c].put = <<>> /\ call'[c].heard = h /\ call'[c].ans = a
      /\ \A f \in CallFields \ {"st", "put", "chose", "row", "heard", "ans"} : call'[c][f] = call[c][f]
  BY <1>2, <1>3 DEF CallFields
<1>5. Ends(c)
  BY <1>4 DEF Ends, Keeps
<1>6. OnlyCall(c)
  BY <1>1 DEF Closes, OnlyCall
<1>7. AllMove
  BY <1>5, <1>6 DEF AllMove, OnlyCall, Moves
<1> QED
  BY <1>4, <1>5, <1>6, <1>7 DEF h

LEMMA EndKeeps ==
  ASSUME CallsInv, NEW c \in Calls, EndShape(c), AllMove, NEW r, OnlyPage(call[c].page, r), RecordOK(r, call[c].page),
         call[c].page \in Pages
  PROVE  CallsInv'
<1>1. DOMAIN page' = Pages /\ \A x \in Pages : PageOK(x)'
  BY PagesKept DEF EndShape
<1>2. UNCHANGED load /\ Frame'
  BY DEF EndShape, OnlyCall, CallsInv, Frame
<1> QED
  BY <1>1, <1>2, Together

\* What every answer needs.
LEMMA AnAnswer ==
  ASSUME CallsInv, NEW c \in Calls, call[c].st = "served"
  PROVE  /\ call[c].page \in Pages /\ Asking(c) /\ FreedRecord(Freed(c), c) /\ RecordOK(Freed(c), call[c].page)
         /\ RecordOK(page[call[c].page], call[c].page) /\ call[c].gone \in BOOLEAN
<1>1. CallOK(c)
  BY DEF CallsInv
<1>2. call[c].page \in Pages /\ Asking(c) /\ call[c].gone \in BOOLEAN
  BY <1>1 DEF CallOK, Asking
<1> QED
  BY <1>2, FreedFields DEF CallsInv, PageOK

LEMMA NobodyHears ==
  ASSUME CallsInv, NEW c \in Calls, Unheard(c)
  PROVE  AllMove /\ CallsInv' /\ EndShape(c) /\ UNCHANGED page /\ call[c].gone = TRUE
<1>1. AllMove /\ EndShape(c) /\ UNCHANGED load
  BY PastEnds DEF Unheard, EndShape, desk
<1>2. DOMAIN page' = Pages /\ \A x \in Pages : PageOK(x)'
  BY <1>1 DEF Unheard, CallsInv, PageOK, RecordOK, FormOK, QueryFits, Screen
<1>3. Frame'
  BY <1>1 DEF EndShape, OnlyCall, CallsInv, Frame
<1> QED
  BY <1>1, <1>2, <1>3, AnAnswer, Together DEF Unheard

\* The rows arrive.
ArriveShape(c) ==
  LET p == call[c].page
      s == page[call[c].page] IN
  /\ EndShape(c) /\ UNCHANGED lost /\ call[c].op = "list" /\ call[c].gone = FALSE /\ call[c].ans = "ok" /\ call'[c].ans = "ok"
  /\ DOMAIN page' = Pages /\ \A q \in Pages \ {p} : page'[q] = page[q]
  /\ page'[p].loading = FALSE /\ page'[p].up = s.up /\ page'[p].query = s.query /\ page'[p].forms = s.forms
  /\ page'[p].busy = s.busy /\ page'[p].rows = (IF Screen(p) = "edit" THEN s.rows ELSE call[c].heard)
  /\ page'[p].form.n = s.form.n /\ page'[p].form.doc = s.form.doc /\ (page'[p].form.busy = TRUE) = (s.form.busy = TRUE)
  /\ page'[p].form.row = (IF Screen(p) = "edit" THEN call[c].heard[call[c].doc] ELSE s.form.row)
  /\ Screen(p) # "edit" /\ s.form = NoForm => page'[p].form = NoForm

LEMMA ListArrived ==
  ASSUME CallsInv, SinglesInv, NEW c \in Calls, ListArrives(c)
  PROVE  AllMove /\ CallsInv' /\ ArriveShape(c)
<1> DEFINE p == call[c].page
           s == page[call[c].page]
           b == Freed(c)
<1>1. call[c].st = "served" /\ call[c].op = "list" /\ ~call[c].gone /\ call[c].ans = "ok" /\ Closes(c) /\ UNCHANGED desk
  BY DEF ListArrives, Answered
<1>2. p \in Pages /\ Asking(c) /\ FreedRecord(b, c) /\ RecordOK(b, p) /\ RecordOK(s, p) /\ call[c].gone = FALSE
  BY <1>1, AnAnswer
<1>3. EndShape(c) /\ AllMove /\ call'[c].ans = "ok"
  BY <1>1, PastEnds DEF EndShape, desk
<1>4. DOMAIN call[c].heard = Docs
  BY <1>1 DEF CallsInv, CallOK
<1>5. /\ DOMAIN b = PageFields /\ DOMAIN b.form = FormFields
      /\ b.loading = FALSE /\ b.up = s.up /\ b.query = s.query /\ b.rows = s.rows /\ b.forms = s.forms /\ b.busy = s.busy
      /\ b.form.n = s.form.n /\ b.form.doc = s.form.doc /\ b.form.row = s.form.row
      /\ (b.form.busy = TRUE) = (s.form.busy = TRUE) /\ b.form.busy \in BOOLEAN /\ (s.form = NoForm => b.form = NoForm)
  BY <1>1, <1>2 DEF FreedRecord, FormOps
<1>6. CASE Screen(p) = "edit"
  <2> DEFINE row == call[c].heard[call[c].doc]
             f == [b.form EXCEPT !.row = row]
             r == [b EXCEPT !.form = f]
  <2>1. OnlyPage(p, r)
    BY <1>2, <1>6 DEF ListArrives, OnlyPage, CallsInv
  <2>2. s.form # NoForm
    BY <1>1, <1>2, <1>6 DEF SinglesInv, Waiting, Single, Alive, Over
  <2> HIDE DEF b, row
  <2>3. DOMAIN f = FormFields /\ f.n = s.form.n /\ f.doc = s.form.doc /\ f.row = row /\ f.busy = b.form.busy
    BY <1>5 DEF FormFields
  <2> HIDE DEF f
  <2>4. /\ DOMAIN r = PageFields /\ r.form = f
        /\ r.loading = FALSE /\ r.up = s.up /\ r.query = s.query /\ r.rows = s.rows /\ r.forms = s.forms /\ r.busy = s.busy
    BY <1>5 DEF PageFields
  <2>5. FormOK(f, p) /\ s.up
    BY <1>2, <1>5, <2>2, <2>3 DEF RecordOK, FormOK
  <2> HIDE DEF r
  <2>6. RecordOK(r, p)
    BY <1>2, <2>3, <2>4, <2>5 DEF RecordOK
  <2>7. CallsInv'
    BY <1>2, <1>3, <2>1, <2>6, EndKeeps
  <2>8. page'[p] = r /\ DOMAIN page' = Pages /\ \A q \in Pages \ {p} : page'[q] = page[q]
    BY <2>1 DEF OnlyPage
  <2>9. ArriveShape(c)
    BY <1>1, <1>2, <1>3, <1>5, <1>6, <2>3, <2>4, <2>8 DEF ArriveShape, row, desk
  <2> QED
    BY <1>3, <2>7, <2>9
<1>7. CASE Screen(p) # "edit"
  <2> DEFINE r == [b EXCEPT !.rows = call[c].heard]
  <2>1. OnlyPage(p, r)
    BY <1>2, <1>7 DEF ListArrives, OnlyPage, CallsInv
  <2> HIDE DEF b
  <2>2. /\ DOMAIN r = PageFields /\ r.form = b.form /\ r.rows = call[c].heard
        /\ r.loading = FALSE /\ r.up = s.up /\ r.query = s.query /\ r.forms = s.forms /\ r.busy = s.busy
    BY <1>5 DEF PageFields
  <2> HIDE DEF r
  <2>3. RecordOK(r, p)
    BY <1>2, <1>4, <1>5, <2>2 DEF RecordOK
  <2>4. CallsInv'
    BY <1>2, <1>3, <2>1, <2>3, EndKeeps
  <2>5. page'[p] = r /\ DOMAIN page' = Pages /\ \A q \in Pages \ {p} : page'[q] = page[q]
    BY <2>1 DEF OnlyPage
  <2>6. ArriveShape(c)
    BY <1>1, <1>2, <1>3, <1>5, <1>7, <2>2, <2>5 DEF ArriveShape, desk
  <2> QED
    BY <1>3, <2>4, <2>6
<1> QED
  BY <1>6, <1>7

\* What any answer but a page's last does to its page: its rows, its form
\* and the forms it has had are not in it.
FreedPage(c) ==
  LET p == call[c].page
      s == page[call[c].page] IN
  /\ DOMAIN page' = Pages /\ \A q \in Pages \ {p} : page'[q] = page[q]
  /\ page'[p].up = s.up /\ page'[p].query = s.query
  /\ page'[p].busy = (IF call[c].op \in {"ask", "remove"} THEN NoOne ELSE s.busy)
FreedForm(c) ==
  LET f == page[call[c].page].form
      g == page'[call[c].page].form IN
  /\ g.n = f.n /\ g.doc = f.doc /\ g.row = f.row /\ (f = NoForm => g = NoForm)
  /\ (g.busy = TRUE) = (f.busy = TRUE /\ ~(call[c].op \in FormOps /\ f.n = call[c].form))

\* The row arrives.
RowArriveShape(c) ==
  LET p == call[c].page
      s == page[call[c].page] IN
  /\ EndShape(c) /\ UNCHANGED lost /\ call[c].op \in {"status", "ask", "active", "member"}
  /\ call[c].gone = FALSE /\ call[c].ans = "ok" /\ call'[c].ans = "ok" /\ FreedPage(c)
  /\ page'[p].loading = s.loading /\ page'[p].forms = s.forms /\ page'[p].rows = Replaced(c, s.rows)
  /\ IF Screen(p) = "selling" THEN page'[p].form = NoForm ELSE FreedForm(c)

LEMMA RowArrived ==
  ASSUME CallsInv, NEW c \in Calls, RowArrives(c)
  PROVE  AllMove /\ CallsInv' /\ RowArriveShape(c)
<1> DEFINE p == call[c].page
           s == page[call[c].page]
           b == Freed(c)
           rows == Replaced(c, b.rows)
           f == IF Screen(p) = "selling" THEN NoForm ELSE b.form
           r == [b EXCEPT !.rows = rows, !.form = f]
<1>1. /\ call[c].st = "served" /\ call[c].op \in {"status", "ask", "active", "member"} /\ ~call[c].gone /\ call[c].ans = "ok"
      /\ Closes(c) /\ UNCHANGED desk
  BY DEF RowArrives, Answered
<1>2. p \in Pages /\ Asking(c) /\ FreedRecord(b, c) /\ RecordOK(b, p) /\ RecordOK(s, p) /\ call[c].gone = FALSE
  BY <1>1, AnAnswer
<1>3. EndShape(c) /\ AllMove /\ call'[c].ans = "ok"
  BY <1>1, PastEnds DEF EndShape, desk
<1>4. page' = [page EXCEPT ![p] = [b EXCEPT !.rows = Replaced(c, @), !.form = IF Screen(p) = "selling" THEN NoForm ELSE @]]
  BY DEF RowArrives
<1> HIDE DEF b
<1>5. OnlyPage(p, r)
  BY <1>2, <1>4 DEF OnlyPage, CallsInv
<1>6. b.rows = s.rows /\ b.loading = s.loading /\ b.forms = s.forms
  BY <1>1, <1>2 DEF FreedRecord, RecordOK
<1>7. DOMAIN rows = Docs
  BY <1>2 DEF Replaced, RecordOK
<1>8. FormOK(f, p) /\ f.n <= b.forms /\ (f # NoForm => b.form # NoForm)
  <2>1. CASE Screen(p) = "selling"
    <3>1. FormOK(NoForm, p) /\ NoForm.n = 0
      BY DEF FormOK, NoForm, FormFields
    <3> QED
      BY <1>2, <2>1, <3>1 DEF RecordOK
  <2>2. CASE Screen(p) # "selling"
    BY <1>2, <2>2 DEF RecordOK
  <2> QED
    BY <2>1, <2>2
<1> HIDE DEF rows, f
<1>9. /\ DOMAIN r = PageFields /\ r.rows = rows /\ r.form = f /\ r.up = b.up /\ r.loading = b.loading
      /\ r.query = b.query /\ r.forms = b.forms /\ r.busy = b.busy
  BY <1>2 DEF RecordOK, PageFields
<1> HIDE DEF r
<1>10. RecordOK(r, p)
  BY <1>2, <1>7, <1>8, <1>9 DEF RecordOK
<1>11. CallsInv'
  BY <1>2, <1>3, <1>5, <1>10, EndKeeps
<1>12. FreedPage(c)
  BY <1>1, <1>2, <1>5, <1>9 DEF FreedPage, FreedRecord, OnlyPage
<1>13. Screen(p) # "selling" => FreedForm(c)
  BY <1>2, <1>5, <1>9 DEF FreedForm, FreedRecord, OnlyPage, f
<1>14. RowArriveShape(c)
  <2>1. page'[p] = r
    BY <1>5 DEF OnlyPage
  <2>2. rows = Replaced(c, s.rows)
    BY <1>6 DEF rows
  <2>3. Screen(p) = "selling" => page'[p].form = NoForm
    BY <1>9, <2>1 DEF f
  <2> QED
    BY <1>1, <1>2, <1>3, <1>6, <1>9, <1>12, <1>13, <2>1, <2>2, <2>3 DEF RowArriveShape, desk
<1> QED
  BY <1>3, <1>11, <1>14

\* A row leaves.
LeaveShape(c) ==
  LET p == call[c].page
      s == page[call[c].page] IN
  /\ EndShape(c) /\ UNCHANGED lost /\ call[c].op \in {"approve", "reject", "delete", "remove"}
  /\ call[c].gone = FALSE /\ call[c].ans = "ok" /\ call'[c].ans = "ok" /\ FreedPage(c) /\ FreedForm(c)
  /\ page'[p].loading = s.loading /\ page'[p].forms = s.forms /\ page'[p].rows = [s.rows EXCEPT ![call[c].doc] = NoOne]

LEMMA RowLeft ==
  ASSUME CallsInv, NEW c \in Calls, Leaves(c)
  PROVE  AllMove /\ CallsInv' /\ LeaveShape(c)
<1> DEFINE p == call[c].page
           s == page[call[c].page]
           b == Freed(c)
           rows == [b.rows EXCEPT ![call[c].doc] = NoOne]
           r == [b EXCEPT !.rows = rows]
<1>1. /\ call[c].st = "served" /\ call[c].op \in {"approve", "reject", "delete", "remove"} /\ ~call[c].gone /\ call[c].ans = "ok"
      /\ Closes(c) /\ UNCHANGED desk
  BY DEF Leaves, Answered
<1>2. p \in Pages /\ Asking(c) /\ FreedRecord(b, c) /\ RecordOK(b, p) /\ RecordOK(s, p) /\ call[c].gone = FALSE
  BY <1>1, AnAnswer
<1>3. EndShape(c) /\ AllMove /\ call'[c].ans = "ok"
  BY <1>1, PastEnds DEF EndShape, desk
<1>4. page' = [page EXCEPT ![p] = [b EXCEPT !.rows[call[c].doc] = NoOne]]
  BY DEF Leaves
<1> HIDE DEF b
<1>5. OnlyPage(p, r)
  BY <1>2, <1>4 DEF OnlyPage, CallsInv
<1>6. b.rows = s.rows /\ b.loading = s.loading /\ b.forms = s.forms
  BY <1>1, <1>2 DEF FreedRecord, RecordOK
<1>7. DOMAIN rows = Docs
  BY <1>2 DEF RecordOK
<1>8. rows = [s.rows EXCEPT ![call[c].doc] = NoOne]
  BY <1>6
<1> HIDE DEF rows
<1>9. /\ DOMAIN r = PageFields /\ r.rows = rows /\ r.form = b.form /\ r.up = b.up /\ r.loading = b.loading
      /\ r.query = b.query /\ r.forms = b.forms /\ r.busy = b.busy
  BY <1>2 DEF RecordOK, PageFields
<1> HIDE DEF r
<1>10. RecordOK(r, p)
  BY <1>2, <1>7, <1>9 DEF RecordOK
<1>11. CallsInv'
  BY <1>2, <1>3, <1>5, <1>10, EndKeeps
<1>12. FreedPage(c) /\ FreedForm(c)
  BY <1>1, <1>2, <1>5, <1>9 DEF FreedPage, FreedForm, FreedRecord, OnlyPage
<1>13. page'[p] = r
  BY <1>5 DEF OnlyPage
<1>14. LeaveShape(c)
  BY <1>1, <1>2, <1>3, <1>6, <1>8, <1>9, <1>12, <1>13 DEF LeaveShape, desk
<1> QED
  BY <1>3, <1>11, <1>14

\* A request fails, or its answer is lost.
FailShape(c) ==
  LET p == call[c].page
      s == page[call[c].page] IN
  /\ EndShape(c) /\ call[c].gone = FALSE /\ FreedPage(c) /\ FreedForm(c)
  /\ \/ call[c].ans # "ok" /\ call'[c].ans = call[c].ans /\ UNCHANGED lost
     \/ call'[c].ans = "lost" /\ lost' = lost + 1
  /\ page'[p].loading \in BOOLEAN /\ (page'[p].loading = TRUE) = (s.loading = TRUE /\ call[c].op # "list")
  /\ page'[p].forms = s.forms /\ page'[p].rows = s.rows

LEMMA RequestFailed ==
  ASSUME CallsInv, NEW c \in Calls, Fails(c)
  PROVE  AllMove /\ CallsInv' /\ FailShape(c)
<1> DEFINE p == call[c].page
           s == page[call[c].page]
           b == Freed(c)
           a == IF call[c].ans = "ok" THEN "lost" ELSE call[c].ans
<1>1. /\ call[c].st = "served" /\ ~call[c].gone /\ UNCHANGED <<load, doc, cached, writer, refunds, owned, outdated>>
      /\ IF call[c].ans # "ok" THEN UNCHANGED lost ELSE lost' = lost + 1
      /\ page' = [page EXCEPT ![p] = b]
  BY DEF Fails, Failing
<1>2. p \in Pages /\ Asking(c) /\ FreedRecord(b, c) /\ RecordOK(b, p) /\ RecordOK(s, p) /\ call[c].gone = FALSE
  BY <1>1, AnAnswer
<1>3. DOMAIN call[c] = CallFields
  BY <1>1 DEF CallsInv, CallOK
<1>4. call' = [call EXCEPT ![c] = [Past(c) EXCEPT !.ans = a]]
  <2>1. call' = [call EXCEPT ![c] = [Past(c) EXCEPT !.ans = IF Past(c).ans = "ok" THEN "lost" ELSE Past(c).ans]]
    BY DEF Fails
  <2>2. Past(c).ans = call[c].ans
    BY <1>3 DEF Past, CallFields
  <2> QED
    BY <2>1, <2>2
<1>5. a = call[c].ans \/ (call[c].ans = "ok" /\ a = "lost")
  OBVIOUS
<1> HIDE DEF a
<1>6. EndShape(c) /\ AllMove /\ call'[c].ans = a
  BY <1>1, <1>4, <1>5, PastEnds DEF EndShape
<1> HIDE DEF b
<1>7. OnlyPage(p, b)
  BY <1>1, <1>2 DEF OnlyPage, CallsInv
<1>8. CallsInv'
  BY <1>2, <1>6, <1>7, EndKeeps
<1>9. FreedPage(c) /\ FreedForm(c)
  BY <1>2, <1>7 DEF FreedPage, FreedForm, FreedRecord, OnlyPage
<1>10. page'[p] = b
  BY <1>7 DEF OnlyPage
<1>11. \/ call[c].ans # "ok" /\ call'[c].ans = call[c].ans /\ UNCHANGED lost
       \/ call'[c].ans = "lost" /\ lost' = lost + 1
  BY <1>1, <1>3, <1>6 DEF a
<1>12. FailShape(c)
  BY <1>2, <1>6, <1>9, <1>10, <1>11 DEF FailShape, FreedRecord
<1> QED
  BY <1>6, <1>8, <1>12

\* The page asks for its rows again.
AgainShape(c) ==
  LET p == call[c].page
      s == page[call[c].page] IN
  /\ Again(c) /\ OnlyCall(c) /\ UNCHANGED desk /\ call'[c].form = s.form.n /\ FreedPage(c)
  /\ Screen(p) \in {"coupons", "staff", "list", "products"} /\ page'[p].loading = TRUE /\ page'[p].rows = s.rows
  /\ IF Screen(p) \in {"coupons", "staff"}
     THEN /\ page'[p].forms = s.forms + 1 /\ page'[p].form.n = s.forms + 1 /\ page'[p].form.busy = FALSE
          /\ page'[p].form.row = NoOne /\ page'[p].form.doc = NoOne
     ELSE page'[p].form = NoForm /\ page'[p].forms = s.forms

LEMMA Refetched ==
  ASSUME CallsInv, SinglesInv, NEW c \in Calls, Refetches(c)
  PROVE  AllMove /\ CallsInv' /\ AgainShape(c)
<1> DEFINE p == call[c].page
           s == page[call[c].page]
           b == Freed(c)
           blank == [NoForm EXCEPT !.n = s.forms + 1]
           anew == Screen(p) \in {"coupons", "staff"}
           f == IF anew THEN blank ELSE NoForm
           n == IF anew THEN s.forms + 1 ELSE s.forms
           r == [b EXCEPT !.loading = TRUE, !.form = f, !.forms = n]
           k == [Asks(p, call[c].query) EXCEPT !.after = call[c].after]
<1>1. /\ call[c].st = "served" /\ ~call[c].gone /\ call[c].ans = "ok" /\ UNCHANGED desk
      /\ call' = [call EXCEPT ![c] = k]
  BY DEF Refetches, Answered, AsksAgain
<1>2. p \in Pages /\ Asking(c) /\ FreedRecord(b, c) /\ RecordOK(b, p) /\ RecordOK(s, p) /\ call[c].gone = FALSE
  BY <1>1, AnAnswer
<1>3. b.forms = s.forms /\ b.rows = s.rows
  BY <1>2 DEF FreedRecord
<1>4. page' = [page EXCEPT ![p] = r]
  BY <1>3 DEF Refetches
<1>5. Screen(p) \in {"coupons", "staff", "list", "products"} /\ call[c].op \in {"coupon", "hire", "remove", "add", "edit"}
  BY <1>2 DEF Refetches, Asking, Fits
<1> HIDE DEF k
<1>6. call'[c] = k /\ OnlyCall(c)
  BY <1>1 DEF CallsInv, Frame, OnlyCall
<1>7. /\ DOMAIN k = CallFields /\ k.st = "sent" /\ k.page = p /\ k.gone = FALSE /\ k.op = "list" /\ k.doc = NoOne
      /\ k.query = call[c].query /\ k.put = <<>> /\ k.form = s.form.n /\ k.snap = NoOne /\ k.ans = "none"
      /\ k.heard = NoOne /\ k.after = call[c].after
  <2> DEFINE asks == Asks(p, call[c].query)
  <2>1. Made(asks, p, "list", NoOne, call[c].query, <<>>, NoOne, NoOne, page[p].form.n)
    BY AsksMade
  <2>2. k = [asks EXCEPT !.after = call[c].after]
    BY DEF k
  <2> HIDE DEF asks
  <2> QED
    BY <2>1, <2>2 DEF Made, CallFields
<1>8. Again(c) /\ call'[c].form = s.form.n
  BY <1>1, <1>2, <1>5, <1>6, <1>7 DEF Again
<1>9. AllMove
  BY <1>6, <1>8 DEF AllMove, OnlyCall, Moves
<1>10. s.forms \in Nat
  BY <1>2 DEF RecordOK
<1>11. /\ DOMAIN blank = FormFields /\ blank.n = s.forms + 1 /\ blank.busy = FALSE /\ blank.row = NoOne /\ blank.doc = NoOne
       /\ NoForm.n = 0 /\ DOMAIN NoForm = FormFields /\ NoForm.busy = FALSE /\ NoForm.doc = NoOne
       /\ NoForm.busy \in BOOLEAN /\ blank.busy \in BOOLEAN
  BY DEF NoForm, FormFields
<1> HIDE DEF blank, b
<1>12. FormOK(f, p) /\ f.n <= n /\ n \in Nat
  <2>1. FormOK(NoForm, p) /\ NoForm.n <= s.forms
    BY <1>10, <1>11 DEF FormOK
  <2>2. anew => FormOK(blank, p) /\ blank.n <= s.forms + 1
    BY <1>10, <1>11 DEF FormOK, FormOnPage
  <2> QED
    BY <1>10, <2>1, <2>2
<1>13. s.up = TRUE
  BY <1>1, <1>2, <1>5 DEF SinglesInv, Waiting, Alive
<1>14. anew => f = blank /\ n = s.forms + 1
  OBVIOUS
<1>15. ~anew => f = NoForm /\ n = s.forms
  OBVIOUS
<1> HIDE DEF f, n
<1>16. /\ DOMAIN r = PageFields /\ r.rows = b.rows /\ r.form = f /\ r.up = b.up /\ r.loading = TRUE
       /\ r.query = b.query /\ r.forms = n /\ r.busy = b.busy
  BY <1>2 DEF RecordOK, PageFields
<1> HIDE DEF r
<1>17. RecordOK(r, p)
  BY <1>2, <1>12, <1>13, <1>16 DEF RecordOK, FreedRecord
<1>18. OnlyPage(p, r)
  BY <1>2, <1>4 DEF OnlyPage, CallsInv
<1>19. DOMAIN page' = Pages /\ \A x \in Pages : PageOK(x)'
  BY <1>1, <1>2, <1>17, <1>18, PagesKept DEF desk
<1>20. CallsInv'
  <2>1. UNCHANGED load /\ Frame'
    BY <1>1, <1>6 DEF OnlyCall, CallsInv, Frame, desk
  <2> QED
    BY <1>9, <1>19, <2>1, Together
<1>21. page'[p] = r
  BY <1>18 DEF OnlyPage
<1>22. FreedPage(c)
  BY <1>2, <1>16, <1>18 DEF FreedPage, FreedRecord, OnlyPage
<1>23. AgainShape(c)
  BY <1>1, <1>2, <1>3, <1>5, <1>6, <1>8, <1>11, <1>14, <1>15, <1>16, <1>21, <1>22 DEF AgainShape
<1> QED
  BY <1>9, <1>20, <1>23

\* A form on its own page is done with.
DoneShape(c) ==
  LET p == call[c].page
      s == page[call[c].page] IN
  /\ EndShape(c) /\ UNCHANGED lost /\ call[c].op \in {"add", "edit"} /\ Screen(p) \in {"add", "edit"}
  /\ call[c].gone = FALSE /\ call[c].ans = "ok" /\ call'[c].ans = "ok"
  /\ DOMAIN page' = Pages /\ \A q \in Pages \ {p} : page'[q] = page[q]
  /\ page'[p].busy \in {s.busy, NoOne} /\ page'[p].form.busy = FALSE /\ page'[p].form.row = NoOne
  /\ page'[p].form.doc = NoOne /\ page'[p].rows \in {s.rows, NoRows}
  /\ IF Screen(p) = "edit" THEN page'[p] = [Unmounted EXCEPT !.forms = s.forms]
     ELSE /\ page'[p].up = s.up /\ page'[p].forms = s.forms + 1 /\ page'[p].form.n = s.forms + 1

LEMMA FormDone ==
  ASSUME CallsInv, SinglesInv, NEW c \in Calls, Done(c)
  PROVE  AllMove /\ CallsInv' /\ DoneShape(c)
<1> DEFINE p == call[c].page
           s == page[call[c].page]
           b == Freed(c)
           blank == [NoForm EXCEPT !.n = s.forms + 1]
           n == s.forms + 1
<1>1. /\ call[c].st = "served" /\ ~call[c].gone /\ call[c].ans = "ok" /\ UNCHANGED desk /\ Closes(c)
      /\ Screen(p) \in {"add", "edit"} /\ call[c].op \in {"add", "edit"}
  BY DEF Done, Answered
<1>2. p \in Pages /\ Asking(c) /\ FreedRecord(b, c) /\ RecordOK(b, p) /\ RecordOK(s, p) /\ call[c].gone = FALSE
  BY <1>1, AnAnswer
<1>3. EndShape(c) /\ AllMove /\ call'[c].ans = "ok"
  BY <1>1, PastEnds DEF EndShape, desk
<1>4. b.forms = s.forms /\ b.busy = s.busy /\ b.up = s.up /\ b.rows = s.rows /\ s.forms \in Nat
  BY <1>1, <1>2 DEF FreedRecord, RecordOK
<1>5. /\ DOMAIN blank = FormFields /\ blank.n = s.forms + 1 /\ blank.busy = FALSE /\ blank.row = NoOne /\ blank.doc = NoOne
      /\ NoForm.n = 0 /\ DOMAIN NoForm = FormFields /\ NoForm.busy = FALSE /\ NoForm.doc = NoOne /\ NoForm.row = NoOne
      /\ NoForm.busy \in BOOLEAN /\ blank.busy \in BOOLEAN
  BY DEF NoForm, FormFields
<1>6. CASE Screen(p) = "edit"
  <2> DEFINE r == [Unmounted EXCEPT !.forms = s.forms]
  <2>1. OnlyPage(p, r)
    BY <1>2, <1>6 DEF Done, OnlyPage, CallsInv
  <2>2. /\ DOMAIN r = PageFields /\ r.up = FALSE /\ r.loading = TRUE /\ r.rows = NoRows /\ r.form = NoForm
        /\ r.forms = s.forms /\ r.busy = NoOne /\ r.up \in BOOLEAN /\ ~r.up /\ r.loading \in BOOLEAN
    BY DEF Unmounted, PageFields
  <2>3. r = [Unmounted EXCEPT !.forms = s.forms]
    OBVIOUS
  <2> HIDE DEF r
  <2>4. DOMAIN NoRows = Docs /\ FormOK(NoForm, p)
    BY <1>5 DEF NoRows, FormOK
  <2>5. RecordOK(r, p)
    BY <1>4, <1>5, <2>2, <2>4 DEF RecordOK
  <2>6. CallsInv'
    BY <1>2, <1>3, <2>1, <2>5, EndKeeps
  <2>7. DoneShape(c)
    BY <1>1, <1>2, <1>3, <1>5, <1>6, <2>1, <2>2, <2>3 DEF DoneShape, OnlyPage, desk
  <2> QED
    BY <1>3, <2>6, <2>7
<1>7. CASE Screen(p) # "edit"
  <2> DEFINE r == [b EXCEPT !.form = blank, !.forms = n]
  <2>1. page' = [page EXCEPT ![p] = r]
    BY <1>4, <1>7 DEF Done
  <2> HIDE DEF b, blank
  <2>2. OnlyPage(p, r)
    BY <1>2, <2>1 DEF OnlyPage, CallsInv
  <2>3. /\ DOMAIN r = PageFields /\ r.rows = b.rows /\ r.form = blank /\ r.up = b.up /\ r.loading = b.loading
        /\ r.query = b.query /\ r.forms = n /\ r.busy = b.busy
    BY <1>2 DEF RecordOK, PageFields
  <2> HIDE DEF r
  <2>4. s.up = TRUE
    BY <1>1, <1>2, <1>7 DEF SinglesInv, Waiting, Alive
  <2>5. FormOK(blank, p)
    BY <1>1, <1>4, <1>5, <1>7 DEF FormOK, FormOnPage
  <2>6. RecordOK(r, p)
    BY <1>2, <1>4, <1>5, <2>3, <2>4, <2>5 DEF RecordOK
  <2>7. CallsInv'
    BY <1>2, <1>3, <2>2, <2>6, EndKeeps
  <2>8. DoneShape(c)
    BY <1>1, <1>2, <1>3, <1>4, <1>5, <1>7, <2>2, <2>3 DEF DoneShape, OnlyPage, desk
  <2> QED
    BY <1>3, <2>7, <2>8
<1> QED
  BY <1>6, <1>7

-----------------------------------------------------------------------------
(* A page that asks once is told once.                                     *)

\* Whom a step is about.
LEMMA OldAlive ==
  ASSUME CallsInv, AllMove, NEW x \in Calls, Alive(x)', ~Sent(x)
  PROVE  /\ Alive(x) /\ call'[x].page = call[x].page
         /\ call'[x].op = call[x].op \/ (Again(x) /\ ~Single(call[x].page))
<1>1. CallOK(x) /\ Moves(x)
  BY DEF CallsInv, AllMove
<1>2. CASE Again(x)
  <2>1. call[x].st # "idle" /\ Asking(x)
    BY <1>1, <1>2 DEF CallOK, Again
  <2>2. Alive(x) /\ call'[x].page = call[x].page
    BY <1>2 DEF Again, Alive
  <2>3. ~Single(call[x].page)
    BY <1>2, <2>1 DEF Single, Again, Asking, Fits
  <2> QED
    BY <1>2, <2>2, <2>3
<1>3. CASE ~Again(x)
  <2>1. call'[x].page = call[x].page /\ call'[x].op = call[x].op
    BY <1>1, <1>3 DEF Moves, Left, Reads, Answers, Ends, Keeps, CallFields
  <2>2. call[x].gone = FALSE
    BY <1>1, <1>3 DEF Moves, Left, Reads, Answers, Ends, Keeps, CallFields, Alive, CallOK
  <2>3. call[x].st # "idle"
    BY <1>1, <1>3 DEF Moves, Left, Reads, Answers, Ends, Alive
  <2> QED
    BY <2>1, <2>2, <2>3 DEF Alive
<1> QED
  BY <1>2, <1>3

LEMMA OfPage ==
  ASSUME CallsInv, NEW x \in Calls, Alive(x)
  PROVE  call[x].page \in Pages /\ Asking(x)
BY DEF CallsInv, CallOK, Alive, Asking

\* No request for the rows of p is out.
NoneWaits(p) == \A x \in Calls : Alive(x) /\ call[x].page = p /\ call[x].op = "list" => x \in Over

\* What a step may do to a page.
PageWaits(p) ==
  /\ Screen(p) # "edit" /\ page[p].up = TRUE => page'[p].up = TRUE
  /\ \/ NoneWaits(p)'
     \/ ~Single(p)
     \/ /\ page'[p].loading = page[p].loading
        /\ Screen(p) = "edit" => (page'[p].form = NoForm) = (page[p].form = NoForm) /\ page'[p].form.row = page[p].form.row
MaySend(x) ==
  LET p == call'[x].page IN
  p \in Pages /\ page[p].up = TRUE /\ (Single(p) => call'[x].op # "list" /\ NoneWaits(p))

LEMMA SinglesKept ==
  ASSUME CallsInv, CallsInv', SinglesInv, AllMove, UNCHANGED load,
         \A p \in Pages : PageWaits(p), \A x \in Calls : Sent(x) => MaySend(x)
  PROVE  SinglesInv'
<1>1. \A p : Single(p)' = Single(p) /\ Screen(p)' = Screen(p)
  BY DEF Single, Screen
<1>2. Over \subseteq Over'
  BY OverGrows
<1>3. ASSUME NEW a \in Calls
      PROVE  Waiting(a)'
  <2>1. CASE Sent(a)
    <3>1. MaySend(a)
      BY <2>1
    <3>2. page'[call'[a].page].up = TRUE \/ Screen(call'[a].page) = "edit"
      BY <3>1 DEF MaySend, PageWaits
    <3>3. ~(call'[a].op = "list" /\ Single(call'[a].page))
      BY <3>1 DEF MaySend
    <3> QED
      BY <1>1, <3>2, <3>3 DEF Waiting
  <2>2. CASE ~Sent(a) /\ Alive(a)'
    <3> DEFINE p == call[a].page
    <3>1. Alive(a) /\ call'[a].page = p /\ (call'[a].op = call[a].op \/ ~Single(p))
      BY <2>2, OldAlive
    <3>2. p \in Pages
      BY <3>1 DEF CallsInv, CallOK, Alive, Asking
    <3>3. Waiting(a) /\ PageWaits(p)
      BY <3>2 DEF SinglesInv
    <3>4. Screen(p) # "edit" => page'[p].up = TRUE
      BY <3>1, <3>3 DEF Waiting, PageWaits
    <3>5. ASSUME call'[a].op = "list", Single(p), a \notin Over'
          PROVE  /\ page'[p].loading = TRUE
                 /\ Screen(p) = "edit" => page'[p].form # NoForm /\ page'[p].form.row = NoOne
      <4>1. ~NoneWaits(p)'
        BY <2>2, <3>1, <3>5 DEF NoneWaits
      <4>2. a \notin Over /\ call[a].op = "list"
        BY <1>2, <3>1, <3>5
      <4> QED
        BY <3>1, <3>3, <3>5, <4>1, <4>2 DEF Waiting, PageWaits
    <3> HIDE DEF p
    <3> QED
      BY <1>1, <3>1, <3>4, <3>5 DEF Waiting
  <2>3. CASE ~Alive(a)'
    BY <2>3 DEF Waiting
  <2> QED
    BY <2>1, <2>2, <2>3
<1>4. ASSUME NEW a \in Calls, NEW b \in Calls
      PROVE  OneList(a, b)'
  <2> SUFFICES ASSUME Alive(a)', Alive(b)', call'[a].page = call'[b].page, Single(call'[a].page), call'[b].op = "list"
               PROVE  IF call'[a].op = "list" THEN a = b ELSE b \in Over'
    BY <1>1 DEF OneList
  <2>1. ~Sent(b)
    BY DEF MaySend
  <2>2. Alive(b) /\ call'[b].page = call[b].page /\ call[b].op = "list"
    BY <2>1, OldAlive
  <2>3. CASE Sent(a)
    <3>1. call'[a].op # "list" /\ NoneWaits(call'[a].page)
      BY <2>3 DEF MaySend
    <3> QED
      BY <1>2, <2>2, <3>1 DEF NoneWaits
  <2>4. CASE ~Sent(a)
    <3>1. Alive(a) /\ call'[a].page = call[a].page /\ call'[a].op = call[a].op
      BY <2>4, OldAlive
    <3> QED
      BY <1>2, <2>2, <3>1 DEF SinglesInv, OneList
  <2> QED
    BY <2>3, <2>4
<1> QED
  BY <1>3, <1>4 DEF SinglesInv

\* A page that is opened starts over.
LEMMA OpenSingles ==
  ASSUME CallsInv, CallsInv', SinglesInv, AllMove, NEW c \in Calls, NEW p \in Pages, OpenShape(c, p)
  PROVE  SinglesInv'
<1>1. \A q : Single(q)' = Single(q) /\ Screen(q)' = Screen(q)
  BY DEF Single, Screen, OpenShape, desk
<1>2. Over \subseteq Over'
  BY OverGrows
<1>3. ASSUME NEW x \in Calls, Alive(x)', call'[x].page = p
      PROVE  x = c /\ Sent(c)
  <2>1. CASE x # c
    <3>1. call[x].page # p
      BY <1>3, <2>1 DEF OpenShape, Left, Alive
    <3> QED
      BY <1>3, <2>1, <3>1 DEF OpenShape
  <2>2. CASE x = c
    BY <1>3, <2>2 DEF OpenShape, Alive, NoCall
  <2> QED
    BY <2>1, <2>2
<1>4. ASSUME NEW x \in Calls, Alive(x)', call'[x].page # p
      PROVE  x # c /\ call'[x] = call[x] /\ Alive(x)
  <2>1. x # c
    BY <1>4 DEF OpenShape, Alive, NoCall, Made
  <2>2. call'[x] = call[x]
    BY <1>4, <2>1 DEF OpenShape, Left, Keeps, CallFields
  <2> QED
    BY <1>4, <2>1, <2>2 DEF Alive
<1>5. ASSUME NEW x \in Calls
      PROVE  Waiting(x)'
  <2>1. CASE Alive(x)' /\ call'[x].page = p
    BY <1>1, <2>1 DEF Waiting, OpenShape, Single
  <2>2. CASE Alive(x)' /\ call'[x].page # p
    <3>1. call'[x] = call[x] /\ Waiting(x) /\ Alive(x) /\ call[x].page # p
      BY <1>4, <2>2 DEF SinglesInv
    <3>2. call[x].page \in Pages
      BY <3>1, OfPage
    <3>3. page'[call[x].page] = page[call[x].page]
      BY <3>1, <3>2 DEF OpenShape
    <3> QED
      BY <1>1, <1>2, <3>1, <3>3 DEF Waiting
  <2>3. CASE ~Alive(x)'
    BY <2>3 DEF Waiting
  <2> QED
    BY <2>1, <2>2, <2>3
<1>6. ASSUME NEW a \in Calls, NEW b \in Calls
      PROVE  OneList(a, b)'
  <2> SUFFICES ASSUME Alive(a)', Alive(b)', call'[a].page = call'[b].page, Single(call'[a].page), call'[b].op = "list"
               PROVE  IF call'[a].op = "list" THEN a = b ELSE b \in Over'
    BY <1>1 DEF OneList
  <2>1. CASE call'[a].page = p
    <3>1. a = c /\ b = c
      BY <1>3, <2>1
    <3> QED
      BY <3>1
  <2>2. CASE call'[a].page # p
    <3>1. call'[a] = call[a] /\ call'[b] = call[b] /\ Alive(a) /\ Alive(b)
      BY <1>4, <2>2
    <3> QED
      BY <1>2, <3>1 DEF SinglesInv, OneList
  <2> QED
    BY <2>1, <2>2
<1> QED
  BY <1>5, <1>6 DEF SinglesInv

\* What a step of the program is.
AnswerShape(c) ==
  \/ EndShape(c) /\ call[c].gone = TRUE /\ UNCHANGED <<page, lost>>
  \/ ArriveShape(c) \/ RowArriveShape(c) \/ LeaveShape(c) \/ AgainShape(c) \/ DoneShape(c) \/ FailShape(c)
\* A step of a page; any step.
PageShape ==
  \/ \E c \in Calls, p \in Pages : OpenShape(c, p) \/ SubmitShape(c, p) \/ \E d \in Docs : RowControl(c, p, d) /\ RowShape(c, p, d)
  \/ \E p \in Pages : AskShape(p) \/ (FormShape(p) /\ Screen(p) \in {"selling", "products"})
  \/ \E c \in Calls : AnswerShape(c)
StepShape == (DeskStep /\ UNCHANGED page) \/ PageShape

LEMMA Steps ==
  ASSUME CallsInv, SinglesInv, Next
  PROVE  AllMove /\ CallsInv' /\ StepShape
<1>1. CASE DeskStep /\ UNCHANGED page
  BY <1>1, DeskMoves DEF StepShape, PageShape
<1>2. ASSUME NEW c \in Calls, NEW p \in Pages, PageStep(c, p)
      PROVE  AllMove /\ CallsInv' /\ StepShape
  <2>1. CASE Open(c, p) \/ Submit(c, p)
    BY <2>1, Opened, Submitted DEF StepShape, PageShape
  <2>2. CASE Turn(c, p) \/ \E e \in Calls : Search(c, e, p)
    BY <2>2, Turned, Searched DEF StepShape, PageShape
  <2>3. ASSUME NEW d \in Docs, RowControl(c, p, d)
        PROVE  AllMove /\ CallsInv' /\ StepShape
    BY <2>3, RowControls DEF StepShape, PageShape
  <2>4. Open(c, p) \/ Submit(c, p) \/ Turn(c, p) \/ (\E e \in Calls : Search(c, e, p)) \/ \E d \in Docs : RowControl(c, p, d)
    BY <1>2 DEF PageStep, RowControl
  <2> QED
    BY <2>1, <2>2, <2>3, <2>4
<1>3. ASSUME NEW p \in Pages, OpenForm(p) \/ CloseForm(p)
      PROVE  AllMove /\ CallsInv' /\ StepShape
  BY <1>3, FormTurns DEF StepShape, PageShape
<1>4. ASSUME NEW c \in Calls, ListArrives(c) \/ RowArrives(c) \/ Leaves(c) \/ Refetches(c) \/ Done(c) \/ Fails(c) \/ Unheard(c)
      PROVE  AllMove /\ CallsInv' /\ StepShape
  <2>1. CASE Unheard(c)
    <3>1. AllMove /\ CallsInv' /\ EndShape(c) /\ UNCHANGED page /\ call[c].gone = TRUE
      BY <2>1, NobodyHears
    <3>2. UNCHANGED lost
      BY <2>1 DEF Unheard, desk
    <3> QED
      BY <3>1, <3>2 DEF StepShape, PageShape, AnswerShape
  <2>2. CASE ListArrives(c)
    BY <2>2, ListArrived DEF StepShape, PageShape, AnswerShape
  <2>3. CASE RowArrives(c)
    BY <2>3, RowArrived DEF StepShape, PageShape, AnswerShape
  <2>4. CASE Leaves(c)
    BY <2>4, RowLeft DEF StepShape, PageShape, AnswerShape
  <2>5. CASE Refetches(c)
    BY <2>5, Refetched DEF StepShape, PageShape, AnswerShape
  <2>6. CASE Done(c)
    BY <2>6, FormDone DEF StepShape, PageShape, AnswerShape
  <2>7. CASE Fails(c)
    BY <2>7, RequestFailed DEF StepShape, PageShape, AnswerShape
  <2> QED
    BY <1>4, <2>1, <2>2, <2>3, <2>4, <2>5, <2>6, <2>7
<1> QED
  BY <1>1, <1>2, <1>3, <1>4 DEF Next

\* A page that a step leaves alone keeps waiting.
LEMMA SamePage ==
  ASSUME NEW p \in Pages, page'[p] = page[p]
  PROVE  PageWaits(p)
BY DEF PageWaits

\* Once its list is answered, a page waits for none.
LEMMA NothingWaits ==
  ASSUME CallsInv, SinglesInv, AllMove, NEW c \in Calls, NEW p \in Pages, p = call[c].page, Alive(c), Single(p),
         UNCHANGED load, call[c].op # "list" \/ c \in Over', \A x \in Calls : ~Sent(x)
  PROVE  NoneWaits(p)'
<1> SUFFICES ASSUME NEW x \in Calls, Alive(x)', call'[x].page = p, call'[x].op = "list"
             PROVE  x \in Over'
  BY DEF NoneWaits
<1>1. Alive(x) /\ call[x].page = call[c].page /\ call[x].op = "list"
  BY OldAlive
<1>2. OneList(c, x)
  BY DEF SinglesInv
<1>3. Over \subseteq Over'
  BY OverGrows
<1> QED
  BY <1>1, <1>2, <1>3 DEF OneList

\* The server sends nothing.
LEMMA DeskQuiet ==
  ASSUME CallsInv, DeskStep
  PROVE  UNCHANGED load /\ \A x \in Calls : call'[x] = call[x] \/ Reads(x) \/ Answers(x)
<1>1. UNCHANGED load
  BY DEF DeskStep, List, Read, Save, Throws, RefundUnsaved, UpdateCoupon, Create, Expire, Sale, MarkOrderPaid
<1>2. ASSUME NEW c \in Calls, List(c) \/ Read(c) \/ Save(c) \/ Throws(c) \/ RefundUnsaved(c) \/ UpdateCoupon(c) \/ Create(c)
      PROVE  OnlyCall(c) /\ (Reads(c) \/ Answers(c))
  BY <1>2, ListShape, ReadShape, SaveShape, ThrowShape, CouponShape, CreateShape
<1>3. ASSUME (\E k \in Keys : Expire(k)) \/ \E d \in Docs : Sale(d) \/ MarkOrderPaid(d)
      PROVE  UNCHANGED call
  BY <1>3 DEF Expire, Sale, MarkOrderPaid
<1> QED
  BY <1>1, <1>2, <1>3 DEF DeskStep, OnlyCall

LEMMA SinglesStep ==
  ASSUME CallsInv, CallsInv', SinglesInv, AllMove, StepShape
  PROVE  SinglesInv'
<1>1. CASE DeskStep /\ UNCHANGED page
  <2>1. UNCHANGED load /\ \A x \in Calls : ~Sent(x)
    BY <1>1, DeskQuiet DEF Reads, Answers, Sent, NoCall
  <2>2. \A p \in Pages : PageWaits(p)
    BY <1>1, SamePage
  <2> QED
    BY <2>1, <2>2, SinglesKept
<1>2. ASSUME NEW c \in Calls, NEW p \in Pages, OpenShape(c, p)
      PROVE  SinglesInv'
  BY <1>2, OpenSingles
<1>3. ASSUME NEW c \in Calls, NEW p \in Pages, SubmitShape(c, p)
      PROVE  SinglesInv'
  <2>1. PICK chose, put : page'[p] = [page[p] EXCEPT !.form = Typed(p, chose, put)]
    BY <1>3 DEF SubmitShape, OnlyPage
  <2>2. RecordOK(page[p], p) /\ page[p].form # NoForm /\ page[p].up = TRUE
    BY <1>3 DEF SubmitShape, CallsInv, PageOK, RecordOK
  <2>3. page'[p].up = page[p].up /\ page'[p].loading = page[p].loading
    BY <2>1, <2>2 DEF RecordOK, PageFields
  <2>4. NoneWaits(p) \/ ~Single(p)
    <3>1. ASSUME Single(p)
          PROVE  Screen(p) = "edit" /\ page[p].form.row # NoOne
      BY <1>3, <2>2, <3>1 DEF RecordOK, FormOK, FormOnPage, Single, SubmitShape
    <3>2. ASSUME Single(p), NEW x \in Calls, Alive(x), call[x].page = p, call[x].op = "list"
          PROVE  x \in Over
      BY <3>1, <3>2 DEF SinglesInv, Waiting
    <3> QED
      BY <3>2 DEF NoneWaits
  <2>5. call'[c].page = p /\ call'[c].op # "list" /\ Sent(c) /\ \A x \in Calls \ {c} : call'[x] = call[x]
    BY <1>3 DEF SubmitShape, Made, OnlyCall, SubmitOp
  <2>6. \A x \in Calls : Sent(x) => MaySend(x)
    BY <2>2, <2>4, <2>5 DEF Sent, NoCall, MaySend
  <2>7. \A q \in Pages \ {p} : PageWaits(q)
    BY <1>3, SamePage DEF SubmitShape, OnlyPage
  <2>8. PageWaits(p)
    <3>1. NoneWaits(p)' \/ ~Single(p)
      BY <2>4, <2>5 DEF NoneWaits, Alive, Over
    <3> QED
      BY <2>3, <3>1 DEF PageWaits
  <2>9. UNCHANGED load
    BY <1>3 DEF SubmitShape, desk
  <2> QED
    BY <2>6, <2>7, <2>8, <2>9, SinglesKept
<1>4. ASSUME NEW c \in Calls, NEW p \in Pages, NEW d \in Docs, RowShape(c, p, d)
      PROVE  SinglesInv'
  <2>1. page[p].up = TRUE /\ page[p].loading = FALSE
    BY <1>4 DEF RowShape, Shown, CallsInv, PageOK, RecordOK
  <2>2. Single(p) => NoneWaits(p)
    BY <2>1 DEF SinglesInv, Waiting, NoneWaits
  <2>3. call'[c].page = p /\ call'[c].op # "list" /\ Sent(c) /\ \A x \in Calls \ {c} : call'[x] = call[x]
    BY <1>4 DEF RowShape, OnlyCall, RowOps
  <2>4. \A x \in Calls : Sent(x) => MaySend(x)
    BY <2>1, <2>2, <2>3 DEF Sent, NoCall, MaySend
  <2>5. /\ \A q \in Pages \ {p} : page'[q] = page[q]
        /\ page'[p].up = page[p].up /\ page'[p].loading = page[p].loading /\ page'[p].form = page[p].form
    BY <1>4 DEF RowShape, CallsInv, PageOK, RecordOK, PageFields
  <2>6. \A q \in Pages : PageWaits(q)
    BY <2>5, SamePage DEF PageWaits
  <2>7. UNCHANGED load
    BY <1>4 DEF RowShape, desk
  <2> QED
    BY <2>4, <2>6, <2>7, SinglesKept
<1>5. ASSUME NEW p \in Pages, AskShape(p)
      PROVE  SinglesInv'
  <2>1. ~Single(p) /\ page[p].up = TRUE /\ UNCHANGED load
    BY <1>5 DEF AskShape, Single, CallsInv, PageOK, RecordOK, desk
  <2>2. \A x \in Calls : Sent(x) => MaySend(x)
    BY <1>5, <2>1 DEF AskShape, Sent, NoCall, MaySend, Made
  <2>3. page'[p].up = page[p].up /\ \A q \in Pages \ {p} : page'[q] = page[q]
    BY <1>5 DEF AskShape, CallsInv, PageOK, RecordOK, PageFields
  <2>4. \A q \in Pages : PageWaits(q)
    BY <2>1, <2>3, SamePage DEF PageWaits
  <2> QED
    BY <2>1, <2>2, <2>4, SinglesKept
<1>6. ASSUME NEW p \in Pages, FormShape(p), Screen(p) \in {"selling", "products"}
      PROVE  SinglesInv'
  <2>1. ~Single(p) /\ UNCHANGED load /\ UNCHANGED call
    BY <1>6 DEF FormShape, Single, desk
  <2>2. \A x \in Calls : ~Sent(x)
    BY <2>1 DEF Sent, NoCall
  <2>3. page'[p].up = page[p].up /\ \A q \in Pages \ {p} : page'[q] = page[q]
    BY <1>6 DEF FormShape, CallsInv, PageOK, RecordOK, PageFields
  <2>4. \A q \in Pages : PageWaits(q)
    BY <2>1, <2>3, SamePage DEF PageWaits
  <2> QED
    BY <2>1, <2>2, <2>4, SinglesKept
<1>7. ASSUME NEW c \in Calls, AnswerShape(c)
      PROVE  SinglesInv'
  <2>a. call[c].st = "served"
    BY <1>7 DEF AnswerShape, EndShape, ArriveShape, RowArriveShape, LeaveShape, AgainShape, DoneShape, FailShape, Ends, Again
  <2>b. Asking(c)
    BY <2>a DEF CallsInv, CallOK
  <2>0. PICK p \in Pages : p = call[c].page
    BY <2>b DEF Asking
  <2>1. UNCHANGED load /\ OnlyCall(c) /\ call[c].st = "served" /\ (Ends(c) \/ AgainShape(c))
    BY <1>7 DEF AnswerShape, EndShape, ArriveShape, RowArriveShape, LeaveShape, AgainShape, DoneShape, FailShape, desk, Ends, Again
  <2>2. \A x \in Calls : ~Sent(x)
    BY <2>1 DEF OnlyCall, Sent, NoCall
  <2>3. \A q \in Pages \ {p} : page'[q] = page[q]
    BY <1>7, <2>0 DEF AnswerShape, ArriveShape, RowArriveShape, LeaveShape, AgainShape, DoneShape, FailShape, FreedPage
  <2>5. CASE UNCHANGED page
    BY <2>1, <2>2, <2>5, SamePage, SinglesKept
  <2>6. CASE call[c].gone = FALSE
    <3>1. Alive(c)
      BY <2>1, <2>6 DEF Alive
    <3>2. Single(p) => call[c].op # "list" \/ c \in Over'
      BY <2>0, <2>1 DEF Ends, AgainShape, Over, Single
    <3>3. NoneWaits(p)' \/ ~Single(p)
      BY <2>0, <2>1, <2>2, <3>1, <3>2, NothingWaits
    <3>4. Screen(p) # "edit" /\ page[p].up = TRUE => page'[p].up = TRUE
      BY <1>7, <2>0, <2>6 DEF AnswerShape, ArriveShape, RowArriveShape, LeaveShape, AgainShape, DoneShape, FailShape, FreedPage
    <3>5. PageWaits(p)
      BY <3>3, <3>4 DEF PageWaits
    <3>6. \A q \in Pages : PageWaits(q)
      BY <2>3, <3>5, SamePage
    <3> QED
      BY <2>1, <2>2, <3>6, SinglesKept
  <2>7. UNCHANGED page \/ call[c].gone = FALSE
    BY <1>7 DEF AnswerShape, ArriveShape, RowArriveShape, LeaveShape, AgainShape, Again, DoneShape, FailShape
  <2> QED
    BY <2>5, <2>6, <2>7
<1> QED
  BY <1>1, <1>2, <1>3, <1>4, <1>5, <1>6, <1>7 DEF StepShape, PageShape

\* At first there is neither request nor page.
LEMMA AtFirst ==
  ASSUME Init
  PROVE  CallsInv /\ SinglesInv
<1>1. Frame
  BY DEF Init, DeskInit, Frame, Nothing
<1>2. \A c \in Calls : call[c] = NoCall
  BY DEF Init, DeskInit
<1>3. ASSUME NEW c \in Calls
      PROVE  CallOK(c)
  <2>1. call[c] = NoCall
    BY <1>2
  <2>2. /\ DOMAIN NoCall = CallFields /\ NoCall.st = "idle" /\ NoCall.gone = FALSE /\ NoCall.after = {}
    BY DEF NoCall, CallFields
  <2> HIDE DEF NoCall
  <2> QED
    BY <2>1, <2>2 DEF CallOK
<1>4. ASSUME NEW p \in Pages
      PROVE  PageOK(p)
  <2>1. page[p] = Unmounted
    BY DEF Init
  <2>2. FormOK(NoForm, p)
    BY DEF FormOK, NoForm, FormFields
  <2>3. DOMAIN NoRows = Docs
    BY DEF NoRows
  <2>4. NoForm.n = 0
    BY DEF NoForm
  <2> HIDE DEF NoForm, NoRows
  <2> QED
    BY <2>1, <2>2, <2>3, <2>4 DEF PageOK, RecordOK, Unmounted, PageFields
<1>5. SinglesInv
  BY <1>2 DEF SinglesInv, Waiting, OneList, Alive, NoCall
<1> QED
  BY <1>1, <1>3, <1>4, <1>5 DEF CallsInv, Init

\* So are the calls and the lists of a single one, always.
THEOREM DeskSafety == BackOfficeSpec => [](CallsInv /\ SinglesInv)
<1>1. Init => CallsInv /\ SinglesInv
  BY AtFirst
<1>2. CallsInv /\ SinglesInv /\ [Next]_bvars => (CallsInv /\ SinglesInv)'
  <2>1. CASE Next
    BY <2>1, Steps, SinglesStep
  <2>2. ASSUME CallsInv, SinglesInv, UNCHANGED bvars
        PROVE  CallsInv' /\ SinglesInv'
    <3>1. UNCHANGED <<load, doc, cached, call, refunds, owned, writer, page>>
      BY <2>2 DEF bvars, dvars
    <3>2. CallsInv'
      BY <2>2, <3>1 DEF CallsInv, Frame, CallOK, PageOK, RecordOK, FormOK, Asking, DocFits, QueryFits, Screen, Over
    <3>3. SinglesInv'
      BY <2>2, <3>1 DEF SinglesInv, Waiting, OneList, Alive, Single, Screen, Over
    <3> QED
      BY <3>2, <3>3
  <2> QED
    BY <2>1, <2>2
<1> QED
  BY <1>1, <1>2, PTL DEF BackOfficeSpec

\* What the pages send, and what becomes of a request at its page.
LEMMA QuietMoves ==
  ASSUME CallsInv, PageShape, NEW x \in Calls
  PROVE  call'[x] = call[x] \/ Left(x) \/ Sent(x) \/ (AnswerShape(x) /\ (Ends(x) \/ Again(x)))
<1>1. ASSUME NEW c \in Calls, NEW p \in Pages, OpenShape(c, p) \/ SubmitShape(c, p) \/ \E d \in Docs : RowShape(c, p, d)
      PROVE  call'[x] = call[x] \/ Left(x) \/ Sent(x)
  BY <1>1 DEF OpenShape, SubmitShape, RowShape, OnlyCall
<1>2. ASSUME NEW p \in Pages, AskShape(p) \/ FormShape(p)
      PROVE  call'[x] = call[x] \/ Sent(x)
  BY <1>2 DEF AskShape, FormShape
<1>3. ASSUME NEW c \in Calls, AnswerShape(c)
      PROVE  call'[x] = call[x] \/ (x = c /\ (Ends(x) \/ Again(x)))
  <2>1. OnlyCall(c) /\ (Ends(c) \/ Again(c))
    BY <1>3 DEF AnswerShape, ArriveShape, RowArriveShape, LeaveShape, AgainShape, DoneShape, FailShape, EndShape
  <2> QED
    BY <2>1 DEF OnlyCall
<1> QED
  BY <1>1, <1>2, <1>3 DEF PageShape

-----------------------------------------------------------------------------
(* The refund desk: money returned, requests and decisions.                *)

Orders == \A p \in Pages : Screen(p) \in OrderScreens

Decisions == {"approve", "reject"}
Turns == {"approve", "reject", "ask"}

\* Money went back only for approvals that could not save, or some overlapped.
Within(d) == refunds[d] <= Cardinality(Unsaved(d)) \/ Clash(d)

\* A save of an order, between read and write: what changes the refund read
\* an order whose refund was not completed.
SavingOK(c) ==
  LET d == call[c].doc
      snap == call[c].snap IN
  /\ DOMAIN snap = DocFields /\ snap.asked \in Nat /\ snap.asked <= doc[d].asked
  /\ call[c].op \in Decisions => snap.refund = "requested"
  /\ call[c].op = "ask" => snap.refund \in {"none", "rejected"}
  /\ call[c].op \in Turns => Within(d)

\* Of one approval more the order says that its refund is completed.
RefundOK(d) ==
  /\ DOMAIN doc[d] = DocFields /\ doc[d].asked \in Nat /\ refunds[d] \in Nat
  /\ Within(d) \/ (refunds[d] = Cardinality(Unsaved(d)) + 1 /\ doc[d].refund = "completed")

RefundsInv ==
  IF Orders THEN /\ \A d \in Docs : RefundOK(d)
                 /\ \A c \in Calls : call[c].st = "saving" => SavingOK(c)
  ELSE \A d \in Docs : refunds[d] = 0

\* The refund queue is a screen of orders.
LEMMA Kinds ==
  ASSUME Frame, NEW p \in Pages, Screen(p) \in OrderScreens
  PROVE  Orders
<1>1. PICK kind \in {OrderScreens, {"coupons"}, {"staff"}, ProductScreens} : \A q \in Pages : load.screen[q] \in kind
  BY DeskAssumption DEF Frame
<1>2. kind = OrderScreens
  BY <1>1 DEF OrderScreens, ProductScreens, Screen
<1> QED
  BY <1>1, <1>2 DEF Orders, Screen

\* What overlapped, overlapped.
LEMMA ClashStays ==
  ASSUME CallsInv, AllMove, NEW d, Clash(d)
  PROVE  Clash(d)'
<1>1. PICK a \in Calls, b \in Calls :
        /\ call[a].op = "approve" /\ call[b].op \in {"approve", "reject", "ask"}
        /\ call[a].doc = d /\ call[b].doc = d /\ Overlap(a, b)
  BY DEF Clash
<1>2. ASSUME NEW x \in Calls, call[x].op \in {"approve", "reject", "ask"}
      PROVE  call'[x].op = call[x].op /\ call'[x].doc = call[x].doc /\ call'[x].after = call[x].after
  <2>1. Moves(x) /\ call[x] # NoCall
    BY <1>2 DEF AllMove, NoCall
  <2>2. ~Sent(x) /\ ~Again(x)
    BY <1>2, <2>1 DEF Sent, Again
  <2> QED
    BY <2>1, <2>2 DEF Moves, Left, Reads, Answers, Ends, Keeps, CallFields
<1> QED
  BY <1>1, <1>2 DEF Clash, Overlap

\* The approvals that could not save are finitely many.
LEMMA UnsavedFinite ==
  ASSUME NEW d
  PROVE  IsFiniteSet(Unsaved(d)) /\ Cardinality(Unsaved(d)) \in Nat
<1>1. Unsaved(d) \subseteq Calls
  BY DEF Unsaved
<1>2. IsFiniteSet(Unsaved(d))
  BY <1>1, DeskAssumption, FS_Subset
<1> QED
  BY <1>2, FS_CardinalityType

\* They are as they were, when no approval ends so.
AllSaved == \A x \in Calls : Answers(x) => call'[x].ans # "unsaved"
LEMMA UnsavedStays ==
  ASSUME CallsInv, AllMove, NEW d, AllSaved
  PROVE  Unsaved(d)' = Unsaved(d)
<1>1. ASSUME NEW x \in Calls
      PROVE  (call'[x].op = "approve" /\ call'[x].doc = d /\ call'[x].ans = "unsaved")
             <=> (call[x].op = "approve" /\ call[x].doc = d /\ call[x].ans = "unsaved")
  <2>1. Moves(x) /\ (Answers(x) => call'[x].ans # "unsaved") /\ CallOK(x)
    BY DEF AllMove, AllSaved, CallsInv
  <2>2. CASE call'[x] = call[x]
    BY <2>2
  <2>3. CASE Left(x) \/ Reads(x) \/ Ends(x)
    BY <2>3 DEF Left, Reads, Ends, Keeps, CallFields
  <2>4. CASE Again(x)
    BY <2>4 DEF Again
  <2>5. CASE Sent(x)
    BY <2>5 DEF Sent, NoCall
  <2>6. CASE Answers(x)
    BY <2>1, <2>6 DEF Answers, CallOK
  <2> QED
    BY <2>1, <2>2, <2>3, <2>4, <2>5, <2>6 DEF Moves
<1> QED
  BY <1>1 DEF Unsaved

\* What is within bounds stays so, when no money goes back.
LEMMA WithinStays ==
  ASSUME CallsInv, AllMove, AllSaved, NEW d, refunds'[d] = refunds[d]
  PROVE  (Within(d) => Within(d)') /\ Unsaved(d)' = Unsaved(d)
BY ClashStays, UnsavedStays DEF Within

\* What a save writes: a field of the change that differs from what was read.
LEMMA SavedFields ==
  ASSUME NEW now, NEW snap, NEW put, DOMAIN now = DocFields, DOMAIN snap = DocFields, DOMAIN put \subseteq DocFields
  PROVE  /\ DOMAIN Saved(now, snap, put) = DocFields
         /\ \A f \in DocFields :
              Saved(now, snap, put)[f] = IF f \in DOMAIN put /\ put[f] # snap[f] THEN put[f] ELSE now[f]
BY DEF Saved, Written, Changed, With, DocFields

\* What an order's handlers set.
LEMMA OrderEffects ==
  ASSUME NEW c
  PROVE  /\ call[c].op = "ask" => /\ DOMAIN Effect(c) = {"refund", "asked"} /\ Effect(c).refund = "requested"
                                  /\ Effect(c).asked = doc[call[c].doc].asked + 1
         /\ call[c].op = "approve" => DOMAIN Effect(c) = {"refund", "paid", "status"} /\ Effect(c).refund = "completed"
         /\ call[c].op = "reject" => DOMAIN Effect(c) = {"refund"} /\ Effect(c).refund = "rejected"
         /\ call[c].op = "status" => Effect(c) = call[c].put
<1>1. call[c].op = "ask" => Effect(c) = [refund |-> "requested", asked |-> doc[call[c].doc].asked + 1]
  BY DEF Effect, Restocks
<1>2. call[c].op = "approve" => Effect(c) = [refund |-> "completed", paid |-> FALSE, status |-> "returned"]
  BY DEF Effect, Restocks
<1>3. call[c].op = "reject" => Effect(c) = [refund |-> "rejected"]
  BY DEF Effect, Restocks
<1>4. call[c].op = "status" => Effect(c) = call[c].put
  BY DEF Effect, Restocks
<1> QED
  BY <1>1, <1>2, <1>3, <1>4

\* What a handler does to the fields the desk is about.
Fate(d, op) ==
  LET o == doc[d]
      n == doc'[d] IN
  /\ DOMAIN n = DocFields
  /\ op = "status" => n.refund = o.refund /\ n.asked = o.asked
  /\ op = "ask" => n.refund = "requested" /\ n.asked = o.asked + 1
  /\ op = "approve" => n.refund = "completed" /\ n.asked = o.asked
  /\ op = "reject" => n.refund = "rejected" /\ n.asked = o.asked

OrderSaved(c) ==
  LET d == call[c].doc IN
  /\ call[c].st = "saving" /\ call[c].op \in {"status", "ask", "approve", "reject"} /\ d \in Docs
  /\ \A e \in Docs \ {d} : doc'[e] = doc[e] /\ refunds'[e] = refunds[e]
  /\ Fate(d, call[c].op)
  /\ refunds'[d] = IF call[c].op = "approve" THEN refunds[d] + 1 ELSE refunds[d]

\* An order is saved.
LEMMA OrderSave ==
  ASSUME CallsInv, RefundsInv, Orders, NEW c \in Calls, Save(c)
  PROVE  OrderSaved(c)
<1> DEFINE d == call[c].doc
           snap == call[c].snap
           put == Effect(c)
           op == call[c].op
<1>1. call[c].st = "saving" /\ op \in ReadThenSave /\ Asking(c) /\ PutFits(op, DOMAIN call[c].put)
  BY DEF Save, CallsInv, CallOK
<1>2. op \in {"status", "ask", "approve", "reject"} /\ d \in Docs
  BY <1>1 DEF Asking, Fits, Orders, OrderScreens, ReadThenSave, DocFits
<1>3. RefundOK(d) /\ SavingOK(c)
  BY <1>1, <1>2 DEF RefundsInv
<1>4. DOMAIN put \subseteq DocFields
  BY <1>1, <1>2, OrderEffects DEF PutFits, DocFields
<1>5. doc' = [doc EXCEPT ![d] = Saved(doc[d], snap, put)]
      /\ refunds' = (IF op = "approve" THEN [refunds EXCEPT ![d] = @ + 1] ELSE refunds)
  BY DEF Save
<1>6. /\ doc'[d] = Saved(doc[d], snap, put)
      /\ \A e \in Docs \ {d} : doc'[e] = doc[e] /\ refunds'[e] = refunds[e]
      /\ refunds'[d] = IF op = "approve" THEN refunds[d] + 1 ELSE refunds[d]
  BY <1>2, <1>5 DEF CallsInv, Frame
<1>7. DOMAIN doc[d] = DocFields /\ DOMAIN snap = DocFields
  BY <1>3 DEF RefundOK, SavingOK
<1> HIDE DEF put
<1>8. /\ DOMAIN doc'[d] = DocFields
      /\ \A f \in DocFields : doc'[d][f] = IF f \in DOMAIN put /\ put[f] # snap[f] THEN put[f] ELSE doc[d][f]
  BY <1>4, <1>6, <1>7, SavedFields
<1>9. /\ doc'[d].refund = (IF "refund" \in DOMAIN put /\ put.refund # snap.refund THEN put.refund ELSE doc[d].refund)
      /\ doc'[d].asked = (IF "asked" \in DOMAIN put /\ put.asked # snap.asked THEN put.asked ELSE doc[d].asked)
  BY <1>8 DEF DocFields
<1>10. CASE op = "status"
  <2>1. DOMAIN put \subseteq {"status", "tracking"}
    BY <1>1, <1>10, OrderEffects DEF PutFits, put
  <2> QED
    BY <1>1, <1>2, <1>6, <1>8, <1>9, <1>10, <2>1 DEF OrderSaved, Fate
<1>11. CASE op = "ask"
  <2>1. DOMAIN put = {"refund", "asked"} /\ put.refund = "requested" /\ put.asked = doc[d].asked + 1
    BY <1>11, OrderEffects DEF put
  <2>2. snap.refund # "requested" /\ snap.asked # doc[d].asked + 1
    BY <1>3, <1>11 DEF SavingOK, RefundOK
  <2> QED
    BY <1>1, <1>2, <1>6, <1>8, <1>9, <1>11, <2>1, <2>2 DEF OrderSaved, Fate
<1>12. CASE op = "approve"
  <2>1. DOMAIN put = {"refund", "paid", "status"} /\ put.refund = "completed"
    BY <1>12, OrderEffects DEF put
  <2>2. snap.refund = "requested"
    BY <1>3, <1>12 DEF SavingOK, Decisions
  <2> QED
    BY <1>1, <1>2, <1>6, <1>8, <1>9, <1>12, <2>1, <2>2 DEF OrderSaved, Fate
<1>13. CASE op = "reject"
  <2>1. DOMAIN put = {"refund"} /\ put.refund = "rejected"
    BY <1>13, OrderEffects DEF put
  <2>2. snap.refund = "requested"
    BY <1>3, <1>13 DEF SavingOK, Decisions
  <2> QED
    BY <1>1, <1>2, <1>6, <1>8, <1>9, <1>13, <2>1, <2>2 DEF OrderSaved, Fate
<1> QED
  BY <1>2, <1>10, <1>11, <1>12, <1>13

\* Paystack's event leaves the refund alone.
OrderPaid(d) ==
  /\ UNCHANGED <<load, call, cached, refunds, owned, outdated>> /\ d \in Docs
  /\ \A e \in Docs \ {d} : doc'[e] = doc[e] /\ writer'[e] = writer[e]
  /\ \E status \in {doc[d].status, "confirmed"} :
       /\ status = "placed" => writer[d] # NoOne
       /\ doc'[d] = [doc[d] EXCEPT !.paid = TRUE, !.status = status, !.events = @ + 1]
       /\ writer'[d] = (IF status = doc[d].status THEN writer[d] ELSE Webhook)
LEMMA PaidShape ==
  ASSUME CallsInv, NEW d \in Docs, MarkOrderPaid(d)
  PROVE  Orders /\ OrderPaid(d)
<1>1. Orders
  BY Kinds DEF MarkOrderPaid, CallsInv
<1>2. PICK status \in {doc[d].status, "confirmed"} :
        /\ status = "placed" => writer[d] # NoOne
        /\ doc' = [doc EXCEPT ![d].paid = TRUE, ![d].status = status, ![d].events = @ + 1]
        /\ writer' = IF status = doc[d].status THEN writer ELSE [writer EXCEPT ![d] = Webhook]
  BY DEF MarkOrderPaid
<1>3. /\ doc'[d] = [doc[d] EXCEPT !.paid = TRUE, !.status = status, !.events = @ + 1]
      /\ writer'[d] = (IF status = doc[d].status THEN writer[d] ELSE Webhook)
      /\ \A e \in Docs \ {d} : doc'[e] = doc[e] /\ writer'[e] = writer[e]
  BY <1>2 DEF CallsInv, Frame
<1> QED
  BY <1>1, <1>2, <1>3 DEF OrderPaid, MarkOrderPaid

\* Field by field.
LEMMA PaidFields ==
  ASSUME NEW d \in Docs, OrderPaid(d), DOMAIN doc[d] = DocFields
  PROVE  /\ DOMAIN doc'[d] = DocFields
         /\ \A f \in DocFields \ {"paid", "status", "events"} : doc'[d][f] = doc[d][f]
         /\ doc'[d].paid = TRUE /\ doc'[d].events = doc[d].events + 1
         /\ doc'[d].status \in {doc[d].status, "confirmed"}
         /\ doc'[d].status # doc[d].status => writer'[d] = Webhook
         /\ doc'[d].status = doc[d].status => writer'[d] = writer[d]
<1>1. PICK status \in {doc[d].status, "confirmed"} :
        /\ doc'[d] = [doc[d] EXCEPT !.paid = TRUE, !.status = status, !.events = @ + 1]
        /\ writer'[d] = (IF status = doc[d].status THEN writer[d] ELSE Webhook)
  BY DEF OrderPaid
<1>2. PICK o : o = doc[d]
  OBVIOUS
<1>3. DOMAIN doc'[d] = DocFields
  BY <1>1, <1>2 DEF DocFields
<1>4. doc'[d].paid = TRUE /\ doc'[d].events = o.events + 1 /\ doc'[d].status = status
  BY <1>1, <1>2 DEF DocFields
<1>5. ASSUME NEW f \in DocFields \ {"paid", "status", "events"}
      PROVE  doc'[d][f] = doc[d][f]
  BY <1>1, <1>2, <1>5 DEF DocFields
<1> QED
  BY <1>1, <1>2, <1>3, <1>4, <1>5

\* What the server does to orders.
LEMMA OrderSteps ==
  ASSUME CallsInv, RefundsInv, Orders, DeskStep
  PROVE  \/ UNCHANGED <<doc, refunds>> /\ AllSaved
         \/ \E c \in Calls : (Save(c) /\ OrderSaved(c)) \/ RefundUnsaved(c)
         \/ \E d \in Docs : OrderPaid(d)
<1>0. ASSUME NEW c \in Calls, OnlyCall(c), call'[c].ans # "unsaved"
      PROVE  AllSaved
  <2>1. \A x \in Calls : Answers(x) => call'[x] # call[x]
    BY DEF Answers
  <2> QED
    BY <1>0, <2>1 DEF AllSaved, OnlyCall
<1>1. ASSUME NEW c \in Calls, List(c) \/ Read(c) \/ Throws(c)
      PROVE  UNCHANGED <<doc, refunds>> /\ AllSaved
  <2>1. UNCHANGED <<doc, refunds>>
    BY <1>1 DEF List, Read, Throws
  <2>2. OnlyCall(c) /\ call'[c].ans # "unsaved"
    BY <1>1, ListShape, ReadShape, ThrowShape DEF Reads, Keeps, CallFields, CallsInv, CallOK
  <2> QED
    BY <1>0, <2>1, <2>2
<1>2. ASSUME NEW c \in Calls, UpdateCoupon(c) \/ Create(c)
      PROVE  FALSE
  <2>1. call[c].st = "sent" /\ call[c].op \in {"active", "delete", "coupon", "hire", "add"}
    BY <1>2 DEF UpdateCoupon, Create
  <2>2. Asking(c)
    BY <2>1 DEF CallsInv, CallOK
  <2> QED
    BY <2>1, <2>2 DEF Asking, Fits, Orders, OrderScreens
<1>3. ASSUME NEW c \in Calls, Save(c)
      PROVE  Save(c) /\ OrderSaved(c)
  BY <1>3, OrderSave
<1>4. ASSUME NEW k \in Keys, Expire(k)
      PROVE  UNCHANGED <<doc, refunds>> /\ AllSaved
  BY <1>4 DEF Expire, AllSaved, Answers
<1>5. ASSUME NEW d \in Docs, Sale(d)
      PROVE  FALSE
  BY <1>5 DEF Sale, OfProducts, Orders, OrderScreens, ProductScreens
<1>6. ASSUME NEW d \in Docs, MarkOrderPaid(d)
      PROVE  OrderPaid(d)
  BY <1>6, PaidShape
<1> QED
  BY <1>1, <1>2, <1>3, <1>4, <1>5, <1>6 DEF DeskStep

\* No refund changes: what is read may be decided, or was paid for.
LEMMA RefundsRead ==
  ASSUME CallsInv, RefundsInv, AllMove, AllSaved, UNCHANGED <<load, refunds>>,
         \A d \in Docs : doc'[d].refund = doc[d].refund /\ doc'[d].asked = doc[d].asked /\ DOMAIN doc'[d] = DOMAIN doc[d]
  PROVE  RefundsInv'
<1>1. Orders' = Orders
  BY DEF Orders, Screen
<1>2. CASE ~Orders
  BY <1>1, <1>2 DEF RefundsInv
<1>3. CASE Orders
  <2>0. \A d \in Docs : (Within(d) => Within(d)') /\ Unsaved(d)' = Unsaved(d)
    BY WithinStays
  <2>1. ASSUME NEW d \in Docs
        PROVE  RefundOK(d)'
    BY <1>3, <2>0 DEF RefundsInv, RefundOK
  <2>2. ASSUME NEW c \in Calls, call'[c].st = "saving"
        PROVE  SavingOK(c)'
    <3>1. CASE Reads(c)
      <4>0. PICK d : d = call[c].doc
        OBVIOUS
      <4>1. call'[c].op = call[c].op /\ call'[c].doc = d /\ call'[c].snap = doc[d] /\ ~Refused(call[c].op, doc[d])
        BY <3>1, <4>0 DEF Reads, Keeps, CallFields
      <4>2. Asking(c) /\ call[c].op \in ReadThenSave
        BY <3>1 DEF CallsInv, CallOK, Reads
      <4>3. d \in Docs
        BY <4>0, <4>2 DEF Asking, DocFits, ReadThenSave
      <4>4. RefundOK(d)
        BY <1>3, <4>3 DEF RefundsInv
      <4>5. call[c].op \in Turns => doc[d].refund # "completed"
        BY <4>1 DEF Turns, Refused, Pending
      <4>6. call[c].op \in Turns => Within(d)'
        BY <2>0, <4>3, <4>4, <4>5 DEF RefundOK
      <4> QED
        BY <4>1, <4>3, <4>4, <4>6 DEF SavingOK, RefundOK, Refused, Pending, Decisions
    <3>2. CASE ~Reads(c)
      <4>0. PICK d : d = call[c].doc
        OBVIOUS
      <4>1. /\ call[c].st = "saving" /\ call'[c].op = call[c].op /\ call'[c].doc = d
            /\ call'[c].snap = call[c].snap
        BY <2>2, <3>2, <4>0 DEF AllMove, Moves, Left, Sent, Answers, Ends, Again, Keeps, CallFields
      <4>2. SavingOK(c) /\ Asking(c) /\ call[c].op \in ReadThenSave
        BY <1>3, <4>1 DEF RefundsInv, CallsInv, CallOK
      <4>3. d \in Docs
        BY <4>0, <4>2 DEF Asking, DocFits, ReadThenSave
      <4> QED
        BY <2>0, <4>0, <4>1, <4>2, <4>3 DEF SavingOK
    <3> QED
      BY <3>1, <3>2
  <2> QED
    BY <1>1, <1>3, <2>1, <2>2 DEF RefundsInv
<1> QED
  BY <1>2, <1>3

\* An order is saved while others are between their read and their write.
LEMMA RefundsSaved ==
  ASSUME CallsInv, RefundsInv, Orders, NEW c \in Calls, Save(c), OrderSaved(c)
  PROVE  RefundsInv'
<1> DEFINE op == call[c].op
<1>0. PICK d \in Docs : d = call[c].doc
  BY DEF OrderSaved
<1>1. AllMove /\ OnlyCall(c) /\ call'[c].st = "served" /\ call'[c].ans = "ok" /\ Orders'
  BY SaveShape DEF Answers, Save, Orders, Screen
<1>2. /\ call[c].st = "saving" /\ op \in {"status", "ask", "approve", "reject"}
      /\ \A e \in Docs \ {d} : doc'[e] = doc[e] /\ refunds'[e] = refunds[e]
      /\ Fate(d, op)
      /\ refunds'[d] = IF op = "approve" THEN refunds[d] + 1 ELSE refunds[d]
  BY <1>0 DEF OrderSaved
<1>3. SavingOK(c) /\ RefundOK(d)
  BY <1>2 DEF RefundsInv
<1>4. AllSaved
  <2>1. \A x \in Calls : Answers(x) => call'[x] # call[x]
    BY DEF Answers
  <2> QED
    BY <1>1, <2>1 DEF AllSaved, OnlyCall
<1>5. \A e \in Docs : Unsaved(e)' = Unsaved(e) /\ (Clash(e) => Clash(e)') /\ Cardinality(Unsaved(e)) \in Nat
  BY <1>1, <1>4, ClashStays, UnsavedStays, UnsavedFinite
<1>6. ASSUME NEW e \in Docs
      PROVE  RefundOK(e)'
  <2>1. CASE e # d
    <3>1. RefundOK(e)
      BY DEF RefundsInv
    <3> QED
      BY <1>2, <1>5, <2>1, <3>1 DEF RefundOK, Within
  <2>2. CASE e = d
    <3>1. DOMAIN doc'[d] = DocFields /\ doc'[d].asked \in Nat /\ refunds'[d] \in Nat
      BY <1>2, <1>3 DEF Fate, RefundOK
    <3>2. CASE op = "status"
      BY <1>2, <1>3, <1>5, <2>2, <3>1, <3>2 DEF RefundOK, Within, Fate
    <3>3. CASE op \in {"ask", "reject"}
      BY <1>0, <1>2, <1>3, <1>5, <2>2, <3>1, <3>3 DEF RefundOK, SavingOK, Within, Turns
    <3>4. CASE op = "approve"
      <4>1. Within(d) /\ refunds[d] \in Nat /\ refunds'[d] = refunds[d] + 1 /\ doc'[d].refund = "completed"
        BY <1>0, <1>2, <1>3, <3>4 DEF SavingOK, RefundOK, Turns, Fate
      <4>2. CASE refunds[d] <= Cardinality(Unsaved(d))
        <5>1. refunds'[d] <= Cardinality(Unsaved(d)') \/ refunds'[d] = Cardinality(Unsaved(d)') + 1
          BY <1>5, <4>1, <4>2
        <5> QED
          BY <2>2, <3>1, <4>1, <5>1 DEF RefundOK, Within
      <4>3. CASE Clash(d)
        BY <1>5, <2>2, <3>1, <4>3 DEF RefundOK, Within
      <4> QED
        BY <4>1, <4>2, <4>3 DEF Within
    <3> QED
      BY <1>2, <3>2, <3>3, <3>4
  <2> QED
    BY <2>1, <2>2
<1>7. ASSUME NEW x \in Calls, call'[x].st = "saving"
      PROVE  SavingOK(x)'
  <2>1. x # c /\ call'[x] = call[x] /\ call[x].st = "saving"
    BY <1>1, <1>7 DEF OnlyCall
  <2>2. SavingOK(x)
    BY <2>1 DEF RefundsInv
  <2>0. PICK e : e = call[x].doc
    OBVIOUS
  <2>3. Asking(x) /\ call[x].op \in ReadThenSave
    BY <2>1 DEF CallsInv, CallOK
  <2>4. e \in Docs
    BY <2>0, <2>3 DEF Asking, DocFits, ReadThenSave
  <2>5. CASE e # d
    BY <1>2, <1>5, <2>0, <2>1, <2>2, <2>4, <2>5 DEF SavingOK, Within
  <2>6. CASE e = d
    <3>1. call[x].op \in Turns => Within(d)'
      <4>1. CASE op = "approve"
        <5>1. c \notin call[x].after /\ x \notin call[c].after
          BY <1>2, <2>1 DEF CallsInv, CallOK, Over
        <5>2. call[x].op \in Turns => Clash(d)
          BY <1>0, <2>0, <2>1, <2>6, <4>1, <5>1 DEF Clash, Overlap, Turns
        <5> QED
          BY <1>5, <5>2 DEF Within
      <4>2. CASE op # "approve"
        BY <1>2, <1>5, <2>0, <2>2, <2>6, <4>2 DEF SavingOK, Within
      <4> QED
        BY <4>1, <4>2
    <3>2. call[x].snap.asked <= doc'[d].asked
      BY <1>2, <1>3, <2>0, <2>2, <2>6 DEF SavingOK, RefundOK, Fate
    <3> QED
      BY <2>0, <2>1, <2>2, <2>6, <3>1, <3>2 DEF SavingOK
  <2> QED
    BY <2>5, <2>6
<1> QED
  BY <1>1, <1>6, <1>7 DEF RefundsInv

\* Money goes back, and the approval cannot save.
LEMMA RefundsUnsaved ==
  ASSUME CallsInv, RefundsInv, Orders, NEW c \in Calls, RefundUnsaved(c)
  PROVE  RefundsInv'
<1>0. call[c].st = "saving" /\ call[c].op = "approve" /\ Asking(c) /\ call[c].ans = "none" /\ UNCHANGED <<load, doc>>
  BY DEF RefundUnsaved, CallsInv, CallOK
<1>1. PICK d \in Docs : d = call[c].doc
  BY <1>0 DEF Asking, DocFits
<1>2. /\ AllMove /\ OnlyCall(c) /\ Orders' /\ call'[c].st = "served" /\ call'[c].ans = "unsaved"
      /\ call'[c].op = "approve" /\ call'[c].doc = d
  <2>1. Reply(c, "unsaved", NoOne)
    BY DEF RefundUnsaved
  <2>2. AllMove /\ OnlyCall(c) /\ Answers(c) /\ call'[c].ans = "unsaved"
    BY <1>0, <2>1, ReplyAnswers
  <2> QED
    BY <1>0, <1>1, <2>2 DEF Answers, Keeps, CallFields, Orders, Screen
<1>3. refunds'[d] = refunds[d] + 1 /\ \A e \in Docs \ {d} : refunds'[e] = refunds[e]
  BY <1>1 DEF RefundUnsaved, CallsInv, Frame
<1>4. Unsaved(d)' = Unsaved(d) \cup {c} /\ c \notin Unsaved(d)
  BY <1>0, <1>2 DEF Unsaved, OnlyCall
<1>5. \A e \in Docs \ {d} : Unsaved(e)' = Unsaved(e)
  BY <1>0, <1>1, <1>2 DEF Unsaved, OnlyCall
<1>6. \A e \in Docs : Cardinality(Unsaved(e)) \in Nat /\ (Clash(e) => Clash(e)')
  BY <1>2, UnsavedFinite, ClashStays
<1>7. Cardinality(Unsaved(d)') = Cardinality(Unsaved(d)) + 1
  <2>1. IsFiniteSet(Unsaved(d))
    BY UnsavedFinite
  <2> QED
    BY <1>4, <2>1, FS_AddElement
<1>8. \A e \in Docs : refunds[e] \in Nat
  BY DEF RefundsInv, RefundOK
<1>9. \A e \in Docs : Within(e) => Within(e)'
  BY <1>3, <1>5, <1>6, <1>7, <1>8 DEF Within
<1>10. ASSUME NEW e \in Docs
       PROVE  RefundOK(e)'
  <2>1. RefundOK(e) /\ doc'[e] = doc[e]
    BY <1>0 DEF RefundsInv
  <2>2. refunds'[e] \in Nat
    BY <1>3, <1>8
  <2> QED
    BY <1>3, <1>5, <1>6, <1>7, <1>9, <2>1, <2>2 DEF RefundOK
<1>11. ASSUME NEW x \in Calls, call'[x].st = "saving"
       PROVE  SavingOK(x)'
  <2>1. x # c /\ call'[x] = call[x] /\ call[x].st = "saving"
    BY <1>2, <1>11 DEF OnlyCall
  <2>2. SavingOK(x) /\ Asking(x) /\ call[x].op \in ReadThenSave
    BY <2>1 DEF RefundsInv, CallsInv, CallOK
  <2>3. call[x].doc \in Docs
    BY <2>2 DEF Asking, DocFits, ReadThenSave
  <2> QED
    BY <1>0, <1>9, <2>1, <2>2, <2>3 DEF SavingOK
<1> QED
  BY <1>2, <1>10, <1>11 DEF RefundsInv

\* Every step.
LEMMA RefundsStep ==
  ASSUME CallsInv, RefundsInv, AllMove, StepShape
  PROVE  RefundsInv'
<1>1. CASE DeskStep
  <2>0. UNCHANGED load
    BY <1>1, DeskQuiet
  <2>1. CASE Orders
    <3>1. ASSUME NEW d \in Docs, OrderPaid(d)
          PROVE  RefundsInv'
      <4>1. AllSaved /\ UNCHANGED <<load, refunds>>
        BY <3>1 DEF OrderPaid, AllSaved, Answers
      <4>2. DOMAIN doc[d] = DocFields
        BY <2>1 DEF RefundsInv, RefundOK
      <4>3. \A e \in Docs : doc'[e].refund = doc[e].refund /\ doc'[e].asked = doc[e].asked /\ DOMAIN doc'[e] = DOMAIN doc[e]
        <5>1. DOMAIN doc'[d] = DocFields /\ doc'[d].refund = doc[d].refund /\ doc'[d].asked = doc[d].asked
          BY <3>1, <4>2, PaidFields DEF DocFields
        <5>2. \A e \in Docs \ {d} : doc'[e] = doc[e]
          BY <3>1 DEF OrderPaid
        <5> QED
          BY <4>2, <5>1, <5>2
      <4> QED
        BY <4>1, <4>3, RefundsRead
    <3>2. ASSUME UNCHANGED <<doc, refunds>> /\ AllSaved
          PROVE  RefundsInv'
      BY <2>0, <3>2, RefundsRead
    <3> QED
      BY <1>1, <2>1, <3>1, <3>2, OrderSteps, RefundsSaved, RefundsUnsaved
  <2>2. CASE ~Orders
    <3>1. UNCHANGED refunds
      <4>1. ASSUME NEW c \in Calls, Save(c) \/ RefundUnsaved(c)
            PROVE  UNCHANGED refunds
        <5>1. call[c].st = "saving" /\ Asking(c)
          BY <4>1 DEF Save, RefundUnsaved, CallsInv, CallOK
        <5>2. call[c].op # "approve"
          BY <2>2, <5>1, Kinds DEF Asking, Fits, OrderScreens, CallsInv
        <5> QED
          BY <4>1, <5>2 DEF Save, RefundUnsaved
      <4>2. ASSUME NEW c \in Calls, List(c) \/ Read(c) \/ Throws(c) \/ UpdateCoupon(c) \/ Create(c)
            PROVE  UNCHANGED refunds
        BY <4>2 DEF List, Read, Throws, UpdateCoupon, Create
      <4>3. ASSUME (\E k \in Keys : Expire(k)) \/ \E d \in Docs : Sale(d) \/ MarkOrderPaid(d)
            PROVE  UNCHANGED refunds
        BY <4>3 DEF Expire, Sale, MarkOrderPaid
      <4> QED
        BY <1>1, <4>1, <4>2, <4>3 DEF DeskStep
    <3> QED
      BY <2>0, <2>2, <3>1 DEF RefundsInv, Orders, Screen
  <2> QED
    BY <2>1, <2>2
<1>2. CASE ~DeskStep
  <2>1. ASSUME NEW c \in Calls, NEW p \in Pages, OpenShape(c, p) \/ SubmitShape(c, p) \/ \E d \in Docs : RowShape(c, p, d)
        PROVE  UNCHANGED <<load, doc, refunds>>
    BY <2>1 DEF OpenShape, SubmitShape, RowShape, desk
  <2>2. ASSUME NEW p \in Pages, AskShape(p) \/ FormShape(p)
        PROVE  UNCHANGED <<load, doc, refunds>>
    BY <2>2 DEF AskShape, FormShape, desk
  <2>3. ASSUME NEW c \in Calls, AnswerShape(c)
        PROVE  UNCHANGED <<load, doc, refunds>>
    BY <2>3 DEF AnswerShape, EndShape, ArriveShape, RowArriveShape, LeaveShape, AgainShape, DoneShape, FailShape, desk
  <2>4. PageShape
    BY <1>2 DEF StepShape
  <2>5. AllSaved
    <3>1. \A x \in Calls : call'[x] = call[x] \/ Left(x) \/ Sent(x) \/ Ends(x) \/ Again(x)
      BY <2>4, QuietMoves
    <3>2. \A x \in Calls : ~Answers(x)
      BY <3>1 DEF Left, Sent, Ends, Again, Answers, Keeps, CallFields, NoCall
    <3> QED
      BY <3>2 DEF AllSaved
  <2> QED
    BY <2>1, <2>2, <2>3, <2>4, <2>5, RefundsRead DEF PageShape
<1> QED
  BY <1>1, <1>2

-----------------------------------------------------------------------------
(* The queue: what leaves it was decided.                                  *)

\* A request was decided since a row showed it.
Decided(d, row) == doc[d].refund # "requested" \/ doc[d].asked > row.asked

\* The list a page of the queue was answered last.
Queue(b) ==
  /\ Alive(b) /\ call[b].op = "list" /\ Screen(call[b].page) = "refunds"
  /\ call[b].st \in {"served", "over"} /\ call[b].ans = "ok"

Heard(b, d) ==
  call[b].heard[d] # NoOne => call[b].heard[d].asked \in Nat /\ call[b].heard[d].asked <= doc[d].asked
Gone(b, d) ==
  (b \in Over /\ call[b].heard[d] # NoOne /\ page[call[b].page].rows[d] = NoOne) => Decided(d, call[b].heard[d])

\* A decision that was answered and is still to reach the page.
Told(a, b, d) ==
  (/\ Alive(a) /\ call[a].page = call[b].page /\ call[a].op \in Decisions /\ call[a].doc = d
   /\ call[a].st = "served" /\ call[a].ans = "ok" /\ call[b].heard[d] # NoOne)
     => Decided(d, call[b].heard[d])

QueueOK(b) == \A d \in Docs : Heard(b, d) /\ Gone(b, d) /\ \A a \in Calls : Told(a, b, d)
QueueInv == \A b \in Calls : Queue(b) => QueueOK(b)

\* What the server does keeps a decided request decided.
Advance(d) ==
  /\ doc'[d].asked \in Nat /\ doc[d].asked \in Nat
  /\ \/ doc'[d].asked = doc[d].asked + 1
     \/ doc'[d].asked = doc[d].asked /\ (doc'[d].refund = doc[d].refund \/ doc'[d].refund # "requested")

\* So a list that was answered stays right, while its page and the answered
\* decisions stay.
LEMMA QueueStays ==
  ASSUME NEW b \in Calls, QueueOK(b), UNCHANGED load, \A d \in Docs : Advance(d),
         call'[b].page = call[b].page, call'[b].heard = call[b].heard, b \in Over' => b \in Over,
         \A d \in Docs : \/ page'[call[b].page].rows[d] # NoOne
                         \/ page[call[b].page].rows[d] = NoOne
                         \/ b \notin Over
                         \/ call[b].heard[d] = NoOne
                         \/ Decided(d, call[b].heard[d]),
         \A a \in Calls : \/ \A d \in Docs : Told(a, b, d)'
                          \/ Alive(a)' => Alive(a) /\ call'[a].page = call[a].page /\ call'[a].op = call[a].op
                               /\ call'[a].doc = call[a].doc /\ (call'[a].st = "served" => call[a].st = "served")
                               /\ (call'[a].ans = "ok" => call[a].ans = "ok")
  PROVE  QueueOK(b)'
<1> SUFFICES ASSUME NEW d \in Docs
             PROVE  Heard(b, d)' /\ Gone(b, d)' /\ \A a \in Calls : Told(a, b, d)'
  BY DEF QueueOK
<1>1. Heard(b, d) /\ Gone(b, d) /\ \A a \in Calls : Told(a, b, d)
  BY DEF QueueOK
<1>2. PICK h : h = call[b].heard[d]
  OBVIOUS
<1>3. PICK p : p = call[b].page
  OBVIOUS
<1>4. Advance(d) /\ call'[b].heard[d] = h /\ call'[b].page = p
  BY <1>2, <1>3
<1>5. Heard(b, d)'
  BY <1>1, <1>2, <1>4 DEF Heard, Advance
<1>6. h # NoOne /\ Decided(d, h) => Decided(d, h)'
  BY <1>1, <1>2, <1>4 DEF Heard, Advance, Decided
<1>7. Gone(b, d)'
  <2> SUFFICES ASSUME b \in Over, h # NoOne, page'[p].rows[d] = NoOne
               PROVE  Decided(d, h)'
    BY <1>4 DEF Gone
  <2>1. Decided(d, h)
    BY <1>1, <1>2, <1>3 DEF Gone
  <2> QED
    BY <1>6, <2>1
<1>8. ASSUME NEW a \in Calls
      PROVE  Told(a, b, d)'
  <2> SUFFICES ASSUME Alive(a)', call'[a].page = p, call'[a].op \in Decisions, call'[a].doc = d,
                      call'[a].st = "served", call'[a].ans = "ok", h # NoOne,
                      ~Told(a, b, d)'
               PROVE  Decided(d, h)'
    BY <1>4 DEF Told
  <2>1. Told(a, b, d) /\ Alive(a) /\ call[a].page = p /\ call[a].op \in Decisions /\ call[a].doc = d
        /\ call[a].st = "served" /\ call[a].ans = "ok"
    BY <1>1
  <2>2. Decided(d, h)
    BY <1>2, <1>3, <2>1 DEF Told
  <2> QED
    BY <1>6, <2>2
<1> QED
  BY <1>5, <1>7, <1>8

\* Who answers a request about orders, and how.
LEMMA WhoAnswers ==
  ASSUME CallsInv, Orders, DeskStep, NEW a \in Calls, call'[a].st = "served", call[a].st # "served"
  PROVE  List(a) \/ Save(a) \/ (call'[a].ans # "ok" /\ call[a].op # "list")
<1>1. ASSUME NEW c \in Calls, OnlyCall(c)
      PROVE  a = c
  BY <1>1 DEF OnlyCall
<1>2. ASSUME NEW c \in Calls, List(c) \/ Save(c)
      PROVE  List(a) \/ Save(a)
  BY <1>1, <1>2, ListShape, SaveShape
<1>3. ASSUME NEW c \in Calls, Read(c)
      PROVE  call'[a].ans # "ok" /\ call[a].op # "list"
  <2>1. OnlyCall(c) /\ (Answers(c) \/ Reads(c))
    BY <1>3, ReadShape
  <2>2. a = c /\ ~Reads(c)
    BY <1>1, <2>1 DEF Reads
  <2>3. Refused(call[c].op, doc[call[c].doc]) /\ call[c].op # "list"
    <3>1. ASSUME ~Refused(call[c].op, doc[call[c].doc])
          PROVE  FALSE
      <4>1. call' = [call EXCEPT ![c].st = "saving", ![c].snap = doc[call[c].doc]]
        BY <1>3, <3>1 DEF Read
      <4>2. call'[c].st = "saving"
        BY <4>1 DEF CallsInv, Frame, CallOK, CallFields
      <4> QED
        BY <2>2, <4>2
    <3> QED
      BY <1>3, <3>1 DEF Read, ReadThenSave
  <2>4. Reply(c, "error", NoOne) /\ call[c].st = "sent"
    BY <1>3, <2>3 DEF Read
  <2>5. call'[c].ans = "error"
    BY <2>3, <2>4, ReplyAnswers
  <2> QED
    BY <2>2, <2>3, <2>5
<1>4. ASSUME NEW c \in Calls, Throws(c) \/ RefundUnsaved(c)
      PROVE  call'[a].ans # "ok" /\ call[a].op # "list"
  <2>1. a = c
    BY <1>1, <1>4, ThrowShape
  <2> QED
    BY <1>4, <2>1, ThrowShape DEF Throws, RefundUnsaved
<1>5. ASSUME NEW c \in Calls, UpdateCoupon(c) \/ Create(c)
      PROVE  FALSE
  <2>1. call[c].st = "sent" /\ call[c].op \in {"active", "delete", "coupon", "hire", "add"}
    BY <1>5 DEF UpdateCoupon, Create
  <2>2. Asking(c)
    BY <2>1 DEF CallsInv, CallOK
  <2> QED
    BY <2>1, <2>2 DEF Asking, Fits, Orders, OrderScreens
<1>6. ASSUME (\E k \in Keys : Expire(k)) \/ \E d \in Docs : Sale(d) \/ MarkOrderPaid(d)
      PROVE  FALSE
  BY <1>6 DEF Expire, Sale, MarkOrderPaid
<1> QED
  BY <1>2, <1>3, <1>4, <1>5, <1>6 DEF DeskStep

\* A list that is new to its page has lost no row, and no decision is out.
LEMMA FreshQueue ==
  ASSUME SinglesInv', NEW b \in Calls, Queue(b)', b \notin Over', \A d \in Docs : Heard(b, d)'
  PROVE  QueueOK(b)'
<1>1. ASSUME NEW a \in Calls, NEW d \in Docs
      PROVE  Told(a, b, d)'
  <2>1. OneList(a, b)'
    BY DEF SinglesInv
  <2> QED
    BY <2>1 DEF Told, OneList, Queue, Single, Decisions
<1> QED
  BY <1>1 DEF QueueOK, Gone

\* Decisions and requests at the server.
LEMMA QueueAtDesk ==
  ASSUME CallsInv, CallsInv', SinglesInv', RefundsInv, QueueInv, AllMove, DeskStep, UNCHANGED page,
         NEW b \in Calls, Queue(b)'
  PROVE  QueueOK(b)'
<1>0. UNCHANGED load /\ \A x \in Calls : call'[x] = call[x] \/ Reads(x) \/ Answers(x)
  BY DeskQuiet
<1>1. PICK p \in Pages : p = call'[b].page
  BY DEF CallsInv, CallOK, Queue, Alive, Asking
<1>2. Orders
  BY <1>0, <1>1, Kinds DEF Queue, OrderScreens, CallsInv, Screen
<1>3. \A d \in Docs : RefundOK(d)
  BY <1>2 DEF RefundsInv
<1>4. ASSUME NEW d \in Docs
      PROVE  Advance(d)
  <2>1. doc[d].asked \in Nat
    BY <1>3 DEF RefundOK
  <2>2. CASE UNCHANGED doc
    BY <2>1, <2>2 DEF Advance
  <2>4. ASSUME NEW e \in Docs, OrderPaid(e)
        PROVE  Advance(d)
    <3>1. d # e => doc'[d] = doc[d]
      BY <2>4 DEF OrderPaid
    <3>2. d = e => doc'[d].refund = doc[d].refund /\ doc'[d].asked = doc[d].asked
      <4>1. DOMAIN doc[e] = DocFields
        BY <1>3 DEF RefundOK
      <4> QED
        BY <2>4, <4>1, PaidFields DEF DocFields
    <3> QED
      BY <2>1, <3>1, <3>2 DEF Advance
  <2>5. ASSUME NEW c \in Calls, RefundUnsaved(c)
        PROVE  UNCHANGED doc
    BY <2>5 DEF RefundUnsaved
  <2>3. ASSUME NEW c \in Calls, OrderSaved(c)
        PROVE  Advance(d)
    <3>1. CASE d # call[c].doc
      BY <2>1, <2>3, <3>1 DEF OrderSaved, Advance
    <3>2. CASE d = call[c].doc
      BY <2>1, <2>3, <3>2 DEF OrderSaved, Advance, Fate
    <3> QED
      BY <3>1, <3>2
  <2> QED
    BY <1>2, <2>2, <2>3, <2>4, <2>5, OrderSteps
<1>5. CASE call'[b] = call[b]
  <2>1. Queue(b)
    BY <1>0, <1>5 DEF Queue, Alive, Screen
  <2>2. QueueOK(b)
    BY <2>1 DEF QueueInv
  <2>3. call'[b].page = call[b].page /\ call'[b].heard = call[b].heard /\ (b \in Over' => b \in Over)
    BY <1>5 DEF Over
  <2>4. ASSUME NEW a \in Calls
        PROVE  \/ \A d \in Docs : Told(a, b, d)'
               \/ Alive(a)' => Alive(a) /\ call'[a].page = call[a].page /\ call'[a].op = call[a].op
                               /\ call'[a].doc = call[a].doc /\ (call'[a].st = "served" => call[a].st = "served")
                               /\ (call'[a].ans = "ok" => call[a].ans = "ok")
    <3>1. CASE call'[a] = call[a]
      BY <3>1 DEF Alive
    <3>2. CASE Reads(a)
      BY <3>2 DEF Reads, Told
    <3>3. CASE Answers(a)
      <4>1. List(a) \/ Save(a) \/ (call'[a].ans # "ok" /\ call[a].op # "list")
        BY <1>2, <3>3, WhoAnswers DEF Answers
      <4>2. CASE List(a) \/ call'[a].ans # "ok"
        BY <3>3, <4>2 DEF List, Answers, Keeps, CallFields, Told, Decisions
      <4>3. CASE Save(a)
        <5>1. OrderSaved(a) /\ call'[a].op = call[a].op /\ call'[a].doc = call[a].doc
          BY <1>2, <3>3, <4>3, OrderSave DEF Answers, Keeps, CallFields
        <5>2. ASSUME NEW d \in Docs, d = call[a].doc, call[a].op \in Decisions
              PROVE  doc'[d].refund # "requested"
          BY <5>1, <5>2 DEF OrderSaved, Fate, Decisions
        <5> QED
          BY <5>1, <5>2 DEF Told, Decided
      <4> QED
        BY <4>1, <4>2, <4>3
    <3> QED
      BY <1>0, <3>1, <3>2, <3>3
  <2>5. \A d \in Docs : page'[call[b].page].rows[d] # NoOne \/ page[call[b].page].rows[d] = NoOne
    OBVIOUS
  <2> QED
    BY <1>0, <1>4, <2>2, <2>3, <2>4, <2>5, QueueStays
<1>6. CASE call'[b] # call[b]
  <2>1. Answers(b) /\ ~Reads(b)
    BY <1>0, <1>6 DEF Queue, Reads
  <2>2. call[b].op = "list" /\ call'[b].op = "list" /\ call[b].page = p /\ call'[b].st = "served" /\ call[b].st # "served"
        /\ call'[b].ans = "ok"
    BY <1>1, <2>1 DEF Answers, Keeps, CallFields, Queue
  <2>3. List(b)
    BY <1>2, <2>2, WhoAnswers DEF Save, CallsInv, CallOK, ReadThenSave
  <2>4. Screen(p) = "refunds"
    BY <1>0, <1>1 DEF Queue, Screen
  <2>5. call'[b].heard = View(Screen(p), call[b].query)
    BY <2>2, <2>3, <2>4, ListShape
  <2>6. \A d \in Docs : call'[b].heard[d] \in {doc[d], NoOne}
    BY <2>5 DEF View
  <2>7. \A d \in Docs : Heard(b, d)'
    BY <1>3, <1>4, <2>6 DEF Heard, RefundOK, Advance
  <2>8. b \notin Over'
    BY <2>2 DEF Over
  <2> QED
    BY <2>7, <2>8, FreshQueue
<1> QED
  BY <1>5, <1>6

\* An answer reaches a page of the queue, or another.
LEMMA QueueAnswered ==
  ASSUME CallsInv, SinglesInv, QueueInv, AllMove, UNCHANGED load, \A d \in Docs : Advance(d),
         NEW c \in Calls, AnswerShape(c), NEW b \in Calls, Queue(b)'
  PROVE  QueueOK(b)'
<1>1. OnlyCall(c) /\ call[c].st = "served" /\ (Ends(c) \/ AgainShape(c))
  BY DEF AnswerShape, EndShape, ArriveShape, RowArriveShape, LeaveShape, AgainShape, DoneShape, FailShape, Ends, Again
<1>2. call'[c].st \in {"over", "sent"}
  BY <1>1 DEF Ends, AgainShape, Again
<1>3. PICK p \in Pages : p = call[b].page
  <2>1. call[b].st # "idle"
    BY <1>1 DEF OnlyCall, Queue, Alive
  <2> QED
    BY <2>1 DEF CallsInv, CallOK, Asking
<1>4. call'[b].page = p /\ Screen(p) = "refunds"
  <2>1. call'[b].page = p
    BY <1>1, <1>3 DEF OnlyCall, Ends, AgainShape, Again, Keeps, CallFields
  <2> QED
    BY <2>1 DEF Queue, Screen
<1>5. CASE b = c
  <2>1. call[b].gone = FALSE /\ call[b].op = "list" /\ Ends(b)
    BY <1>1, <1>5 DEF Queue, Alive, AgainShape, Again, Ends, Keeps, CallFields
  <2>2. ArriveShape(b)
    <3>1. ~RowArriveShape(b) /\ ~LeaveShape(b) /\ ~DoneShape(b)
      BY <2>1 DEF RowArriveShape, LeaveShape, DoneShape
    <3>2. ~FailShape(b)
      BY DEF FailShape, Queue
    <3>3. ~AgainShape(b)
      BY <2>1 DEF AgainShape, Again
    <3> QED
      BY <1>5, <2>1, <3>1, <3>2, <3>3 DEF AnswerShape
  <2>3. page'[p].rows = call[b].heard /\ call'[b].heard = call[b].heard /\ call[b].ans = "ok"
    BY <1>3, <1>4, <2>2 DEF ArriveShape, EndShape
  <2>4. Queue(b) /\ b \notin Over
    BY <1>1, <1>3, <1>4, <1>5, <2>1, <2>3 DEF Queue, Alive, Over
  <2>5. QueueOK(b)
    BY <2>4 DEF QueueInv
  <2>6. ASSUME NEW d \in Docs
        PROVE  Heard(b, d)' /\ Gone(b, d)'
    <3>1. Heard(b, d) /\ Advance(d)
      BY <2>5 DEF QueueOK
    <3> QED
      BY <1>4, <2>3, <3>1 DEF Heard, Gone, Advance
  <2>7. ASSUME NEW a \in Calls, NEW d \in Docs
        PROVE  Told(a, b, d)'
    <3>1. SUFFICES ASSUME Alive(a)', call'[a].page = p, call'[a].op \in Decisions, call'[a].st = "served"
                   PROVE  FALSE
      BY <1>4 DEF Told
    <3>2. a # c /\ call'[a] = call[a]
      BY <1>1, <1>2, <3>1 DEF OnlyCall
    <3>3. Alive(a) /\ call[a].page = p /\ call[a].op \in Decisions
      BY <3>1, <3>2 DEF Alive
    <3>4. OneList(a, b)
      BY DEF SinglesInv
    <3> QED
      BY <1>3, <1>4, <2>4, <3>3, <3>4 DEF OneList, Queue, Single, Decisions
  <2> QED
    BY <2>6, <2>7 DEF QueueOK
<1>6. CASE b # c
  <2>1. call'[b] = call[b] /\ Queue(b) /\ (b \in Over' => b \in Over)
    BY <1>1, <1>6 DEF OnlyCall, Queue, Alive, Screen, Over
  <2>2. QueueOK(b)
    BY <2>1 DEF QueueInv
  <2>3. ASSUME NEW a \in Calls
        PROVE  (\A d \in Docs : Told(a, b, d)') \/ call'[a] = call[a]
    BY <1>1, <1>2 DEF OnlyCall, Told
  <2>4. ASSUME NEW d \in Docs
        PROVE  \/ page'[p].rows[d] # NoOne \/ page[p].rows[d] = NoOne
               \/ call[b].heard[d] = NoOne \/ Decided(d, call[b].heard[d])
    <3>1. CASE UNCHANGED page \/ call[c].page # p
      <4>1. page'[p] = page[p]
        BY <3>1 DEF AnswerShape, ArriveShape, RowArriveShape, LeaveShape, AgainShape, DoneShape, FailShape, FreedPage
      <4> QED
        BY <4>1
    <3>2. CASE call[c].page = p /\ call[c].gone = FALSE
      <4>1. Asking(c) /\ Alive(c)
        BY <1>1, <3>2 DEF CallsInv, CallOK, Alive
      <4>2. call[c].op \in {"list", "approve", "reject"}
        BY <1>4, <3>2, <4>1 DEF Asking, Fits
      <4>3. ~ArriveShape(c)
        <5>1. OneList(c, b)
          BY DEF SinglesInv
        <5> QED
          BY <1>3, <1>4, <1>6, <2>1, <3>2, <4>1, <5>1 DEF OneList, Queue, Single, ArriveShape
      <4>4. ~RowArriveShape(c) /\ ~DoneShape(c) /\ ~AgainShape(c)
        BY <4>2 DEF RowArriveShape, DoneShape, AgainShape, Again
      <4>5. CASE FailShape(c)
        <5>1. page'[p].rows = page[p].rows
          BY <3>2, <4>5 DEF FailShape
        <5> QED
          BY <5>1
      <4>6. CASE LeaveShape(c)
        <5>1. page'[p].rows = [page[p].rows EXCEPT ![call[c].doc] = NoOne] /\ call[c].ans = "ok" /\ call[c].op \in Decisions
          BY <3>2, <4>2, <4>6 DEF LeaveShape, Decisions
        <5>2. d # call[c].doc => page'[p].rows[d] = page[p].rows[d]
          BY <5>1 DEF CallsInv, PageOK, RecordOK
        <5>3. Told(c, b, d)
          BY <2>2 DEF QueueOK
        <5> QED
          BY <1>1, <1>3, <3>2, <4>1, <5>1, <5>2, <5>3 DEF Told
      <4>7. CASE UNCHANGED page
        BY <4>7
      <4> QED
        BY <4>3, <4>4, <4>5, <4>6, <4>7 DEF AnswerShape
    <3>3. UNCHANGED page \/ call[c].gone = FALSE
      BY DEF AnswerShape, ArriveShape, RowArriveShape, LeaveShape, AgainShape, Again, DoneShape, FailShape
    <3> QED
      BY <3>1, <3>2, <3>3
  <2>5. \A a \in Calls : \/ \A d \in Docs : Told(a, b, d)'
                         \/ Alive(a)' => Alive(a) /\ call'[a].page = call[a].page /\ call'[a].op = call[a].op
                               /\ call'[a].doc = call[a].doc /\ (call'[a].st = "served" => call[a].st = "served")
                               /\ (call'[a].ans = "ok" => call[a].ans = "ok")
    BY <2>3 DEF Alive
  <2> QED
    BY <1>3, <2>1, <2>2, <2>4, <2>5, QueueStays
<1> QED
  BY <1>5, <1>6

\* The controls of a page send requests, and take no row away; another page
\* of the queue is opened.
LEMMA QueueAsked ==
  ASSUME CallsInv, QueueInv, UNCHANGED load, \A d \in Docs : Advance(d), NEW b \in Calls, Queue(b)',
         \A a \in Calls : call'[a] = call[a] \/ Sent(a) \/ Left(a),
         ASSUME NEW p \in Pages, p = call[b].page, Screen(p) = "refunds", call'[b] = call[b]
         PROVE  page'[p].rows = page[p].rows
  PROVE  QueueOK(b)'
<1>1. call'[b] = call[b]
  BY DEF Queue, Alive, Sent, Left
<1>2. Queue(b) /\ (b \in Over' => b \in Over)
  BY <1>1 DEF Queue, Alive, Screen, Over
<1>3. QueueOK(b)
  BY <1>2 DEF QueueInv
<1>4. PICK p \in Pages : p = call[b].page
  BY <1>2 DEF CallsInv, CallOK, Asking, Queue, Alive
<1>5. page'[p].rows = page[p].rows
  BY <1>1, <1>2, <1>4 DEF Queue
<1>6. ASSUME NEW a \in Calls
      PROVE  \/ \A d \in Docs : Told(a, b, d)'
             \/ Alive(a)' => Alive(a) /\ call'[a].page = call[a].page /\ call'[a].op = call[a].op
                               /\ call'[a].doc = call[a].doc /\ (call'[a].st = "served" => call[a].st = "served")
                               /\ (call'[a].ans = "ok" => call[a].ans = "ok")
  <2>1. CASE call'[a] = call[a]
    BY <2>1 DEF Alive
  <2>2. CASE Sent(a)
    BY <2>2 DEF Sent, Told
  <2>3. CASE Left(a)
    BY <2>3 DEF Left, Alive
  <2> QED
    BY <2>1, <2>2, <2>3
<1> QED
  BY <1>1, <1>2, <1>3, <1>4, <1>5, <1>6, QueueStays

\* Every step.
LEMMA QueueStep ==
  ASSUME CallsInv, CallsInv', SinglesInv, SinglesInv', RefundsInv, QueueInv, AllMove, StepShape
  PROVE  QueueInv'
<1> SUFFICES ASSUME NEW b \in Calls, Queue(b)'
             PROVE  QueueOK(b)'
  BY DEF QueueInv
<1>1. CASE DeskStep /\ UNCHANGED page
  BY <1>1, QueueAtDesk
<1>2. CASE UNCHANGED <<load, doc>>
  <2>1. Orders
    <3>1. Asking(b)'
      BY DEF CallsInv, CallOK, Queue, Alive
    <3>2. PICK p \in Pages : p = call'[b].page
      BY <3>1 DEF Asking
    <3> QED
      BY <1>2, <3>2, Kinds DEF Queue, OrderScreens, CallsInv, Screen
  <2>2. \A d \in Docs : Advance(d)
    BY <1>2, <2>1 DEF Advance, RefundsInv, RefundOK
  <2>3. ASSUME NEW c \in Calls, NEW p \in Pages, OpenShape(c, p)
        PROVE  QueueOK(b)'
    <3>1. \A a \in Calls : call'[a] = call[a] \/ Sent(a) \/ Left(a)
      BY <2>3 DEF OpenShape
    <3>2. ASSUME NEW q \in Pages, q = call[b].page, Screen(q) = "refunds", call'[b] = call[b]
          PROVE  page'[q].rows = page[q].rows
      <4>1. q # p
        BY <2>3, <3>2 DEF OpenShape, Left, Sent, Queue, Alive, NoCall
      <4> QED
        BY <2>3, <4>1 DEF OpenShape
    <3> QED
      BY <1>2, <2>2, <3>1, <3>2, QueueAsked
  <2>4. ASSUME NEW c \in Calls, NEW p \in Pages, SubmitShape(c, p)
        PROVE  QueueOK(b)'
    <3>1. \A a \in Calls : call'[a] = call[a] \/ Sent(a) \/ Left(a)
      BY <2>4 DEF SubmitShape, OnlyCall
    <3>2. ASSUME NEW q \in Pages
          PROVE  page'[q].rows = page[q].rows
      <4>1. RecordOK(page[p], p)
        BY DEF CallsInv, PageOK
      <4> QED
        BY <2>4, <4>1 DEF SubmitShape, OnlyPage, RecordOK, PageFields
    <3> QED
      BY <1>2, <2>2, <3>1, <3>2, QueueAsked
  <2>5. ASSUME NEW c \in Calls, NEW p \in Pages, NEW d \in Docs, RowShape(c, p, d)
        PROVE  QueueOK(b)'
    <3>1. \A a \in Calls : call'[a] = call[a] \/ Sent(a) \/ Left(a)
      BY <2>5 DEF RowShape, OnlyCall
    <3>2. ASSUME NEW q \in Pages
          PROVE  page'[q].rows = page[q].rows
      BY <2>5 DEF RowShape, CallsInv, PageOK, RecordOK, PageFields
    <3> QED
      BY <1>2, <2>2, <3>1, <3>2, QueueAsked
  <2>6. ASSUME NEW p \in Pages, AskShape(p) \/ (FormShape(p) /\ Screen(p) \in {"selling", "products"})
        PROVE  QueueOK(b)'
    <3>1. \A a \in Calls : call'[a] = call[a] \/ Sent(a) \/ Left(a)
      BY <2>6 DEF AskShape, FormShape
    <3>2. ASSUME NEW q \in Pages, Screen(q) = "refunds"
          PROVE  page'[q].rows = page[q].rows
      <4>1. q # p
        BY <2>6, <3>2 DEF AskShape
      <4> QED
        BY <2>6, <4>1 DEF AskShape, FormShape, CallsInv
    <3> QED
      BY <1>2, <2>2, <3>1, <3>2, QueueAsked
  <2>7. ASSUME NEW c \in Calls, AnswerShape(c)
        PROVE  QueueOK(b)'
    BY <1>2, <2>2, <2>7, QueueAnswered
  <2> QED
    BY <1>1, <2>3, <2>4, <2>5, <2>6, <2>7 DEF StepShape, PageShape
<1>3. ASSUME NEW c \in Calls, NEW p \in Pages, OpenShape(c, p) \/ SubmitShape(c, p) \/ \E d \in Docs : RowShape(c, p, d)
      PROVE  UNCHANGED <<load, doc>>
  BY <1>3 DEF OpenShape, SubmitShape, RowShape, desk
<1>4. ASSUME NEW p \in Pages, AskShape(p) \/ FormShape(p)
      PROVE  UNCHANGED <<load, doc>>
  BY <1>4 DEF AskShape, FormShape, desk
<1>5. ASSUME NEW c \in Calls, AnswerShape(c)
      PROVE  UNCHANGED <<load, doc>>
  BY <1>5 DEF AnswerShape, EndShape, ArriveShape, RowArriveShape, LeaveShape, AgainShape, DoneShape, FailShape, desk
<1> QED
  BY <1>1, <1>2, <1>3, <1>4, <1>5 DEF StepShape, PageShape

\* Requests are decided once, and leave the queue when they are: money goes
\* back twice only if an approval of that order overlapped another, or a
\* request of the customer's; a page of the queue drops no undecided one.
THEOREM RefundDeskSafety == BackOfficeSpec => [](RefundsInv /\ RefundDeskInv)
<1>1. Init => RefundsInv /\ QueueInv
  <2> SUFFICES ASSUME Init
               PROVE  RefundsInv /\ QueueInv
    OBVIOUS
  <2>1. ASSUME NEW d \in Docs
        PROVE  DOMAIN doc[d] = DocFields /\ doc[d].asked = 0 /\ refunds[d] = 0
    BY DEF Init, DeskInit, First, Blank, DocFields
  <2>2. \A c \in Calls : call[c].st = "idle"
    BY DEF Init, DeskInit, NoCall
  <2>3. \A d \in Docs : RefundOK(d)
    BY <2>1, UnsavedFinite DEF RefundOK, Within
  <2> QED
    BY <2>1, <2>2, <2>3 DEF RefundsInv, QueueInv, Queue
<1>2. CallsInv /\ SinglesInv /\ (CallsInv /\ SinglesInv)' /\ RefundsInv /\ QueueInv /\ [Next]_bvars => (RefundsInv /\ QueueInv)'
  <2>1. CASE Next
    BY <2>1, Steps, RefundsStep, QueueStep
  <2>2. ASSUME RefundsInv, QueueInv, UNCHANGED bvars
        PROVE  RefundsInv' /\ QueueInv'
    <3>1. UNCHANGED <<load, doc, call, refunds, page>>
      BY <2>2 DEF bvars, dvars
    <3>2. RefundsInv'
      <4>1. \A d : Within(d)' = Within(d) /\ Unsaved(d)' = Unsaved(d)
        BY <3>1 DEF Within, Unsaved, Clash, Overlap
      <4>2. \A d \in Docs : RefundOK(d)' = RefundOK(d)
        BY <3>1, <4>1 DEF RefundOK
      <4>3. \A c \in Calls : SavingOK(c)' = SavingOK(c)
        BY <3>1, <4>1 DEF SavingOK
      <4> QED
        BY <2>2, <3>1, <4>2, <4>3 DEF RefundsInv, Orders, Screen
    <3>3. QueueInv'
      BY <2>2, <3>1 DEF QueueInv, QueueOK, Queue, Heard, Gone, Told, Decided, Alive, Screen, Over
    <3> QED
      BY <3>2, <3>3
  <2> QED
    BY <2>1, <2>2
<1>3. CallsInv /\ RefundsInv /\ QueueInv => RefundDeskInv
  <2> SUFFICES ASSUME CallsInv, RefundsInv, QueueInv
               PROVE  RefundDeskInv
    OBVIOUS
  <2>1. TwoRefundsNeedOverlap
    <3> SUFFICES ASSUME NEW d \in Docs, refunds[d] > 1 + Cardinality(Unsaved(d))
                 PROVE  Clash(d)
      BY DEF TwoRefundsNeedOverlap
    <3>1. Cardinality(Unsaved(d)) \in Nat
      BY UnsavedFinite
    <3>2. refunds[d] = 0 \/ RefundOK(d)
      BY DEF RefundsInv
    <3> QED
      BY <3>1, <3>2 DEF RefundOK, Within
  <2>2. QueueLosesOnlyDecided
    <3> SUFFICES ASSUME NEW c \in Over, call[c].op = "list", ~call[c].gone, call[c].ans = "ok",
                        NEW d \in Docs, Screen(call[c].page) = "refunds",
                        call[c].heard[d] # NoOne, page[call[c].page].rows[d] = NoOne
                 PROVE  doc[d].refund # "requested" \/ doc[d].asked # call[c].heard[d].asked
      BY DEF QueueLosesOnlyDecided
    <3>1. c \in Calls /\ call[c].st = "over" /\ call[c].gone = FALSE
      BY DEF Over, CallsInv, CallOK
    <3>2. Queue(c)
      BY <3>1 DEF Queue, Alive
    <3>3. Heard(c, d) /\ Gone(c, d) /\ Frame /\ Asking(c)
      BY <3>1, <3>2 DEF QueueInv, QueueOK, CallsInv, CallOK
    <3>4. Orders
      BY <3>3, Kinds DEF Asking, OrderScreens
    <3>5. doc[d].asked \in Nat
      BY <3>4 DEF RefundsInv, RefundOK
    <3> QED
      BY <3>3, <3>5 DEF Heard, Gone, Decided
  <2> QED
    BY <2>1, <2>2 DEF RefundDeskInv
<1> QED
  BY <1>1, <1>2, <1>3, DeskSafety, PTL DEF BackOfficeSpec

-----------------------------------------------------------------------------
(* Forms on their way.                                                     *)

\* A form that was sent, and whose answer the page has not had.
Flight(c) == call[c].st \in {"sent", "saving", "served"} /\ call[c].op \in FormOps /\ call[c].form > 0
Sub(c) == Flight(c) /\ call[c].op \in {"add", "edit"}

\* No two carry the same form; the one a page shows waits for its answer.
FlightOK(a) ==
  LET f == page[call[a].page].form IN
  Flight(a) =>
    /\ call[a].form \in Nat /\ call[a].form <= page[call[a].page].forms
    /\ call[a].form = f.n => call[a].gone = FALSE /\ f.busy = TRUE /\ (Sub(a) => call[a].doc = f.doc)
    /\ \A b \in Calls : Flight(b) /\ call[b].page = call[a].page /\ call[b].form = call[a].form => a = b
BusyForm(p) == page[p].form.busy = TRUE => \E a \in Calls : Flight(a) /\ call[a].page = p /\ call[a].form = page[p].form.n
BusyRow(p) ==
  page[p].busy # NoOne =>
    \E a \in Calls : /\ call[a].page = p /\ call[a].gone = FALSE /\ a \notin Over
                     /\ call[a].op \in {"ask", "remove"} /\ call[a].doc = page[p].busy
FormsOpen == (\A a \in Calls : FlightOK(a)) /\ \A p \in Pages : BusyForm(p)
RowsOpen == \A p \in Pages : BusyRow(p)

\* What a step does to the form of a page: nothing, a new number, or it is
\* sendable again.
FormKept(p) ==
  /\ page'[p].form.n = page[p].form.n /\ page'[p].form.doc = page[p].form.doc
  /\ (page'[p].form.busy = TRUE) = (page[p].form.busy = TRUE)
FormNew(p) == page'[p].form.busy = FALSE /\ (page'[p].form.n = 0 \/ page'[p].form.n > page[p].forms)
FormFree(p) ==
  /\ page'[p].form.n = page[p].form.n /\ page'[p].form.doc = page[p].form.doc /\ page'[p].form.busy # TRUE
  /\ \A x \in Calls : ~(Flight(x)' /\ call'[x].page = p /\ call'[x].form = page[p].form.n)

\* A form on its way after a step was so before it, or is sent in it.
LEMMA FlightMoves ==
  ASSUME CallsInv, AllMove, NEW x \in Calls, Flight(x)'
  PROVE  \/ Sent(x)
         \/ /\ Flight(x) /\ call'[x].page = call[x].page /\ call'[x].form = call[x].form
            /\ call'[x].op = call[x].op /\ call'[x].doc = call[x].doc
            /\ (call'[x].gone = call[x].gone \/ Left(x))
<1>1. Moves(x)
  BY DEF AllMove
<1>2. CASE call'[x] = call[x]
  BY <1>2 DEF Flight
<1>3. CASE Left(x)
  BY <1>3 DEF Left, Keeps, CallFields, Flight
<1>4. CASE Reads(x)
  BY <1>4 DEF Reads, Keeps, CallFields, Flight
<1>5. CASE Answers(x)
  BY <1>5 DEF Answers, Keeps, CallFields, Flight
<1>6. CASE Ends(x)
  BY <1>6 DEF Ends, Flight
<1>7. CASE Again(x)
  BY <1>7 DEF Again, Flight, FormOps
<1> QED
  BY <1>1, <1>2, <1>3, <1>4, <1>5, <1>6, <1>7 DEF Moves

\* No form is sent.
LEMMA FormsKept ==
  ASSUME CallsInv, CallsInv', FormsOpen, AllMove, \A x \in Calls : ~(Sent(x) /\ Flight(x)'),
         \A p \in Pages : page'[p].forms >= page[p].forms,
         \A p \in Pages :
            \/ FormKept(p) /\ (\A x \in Calls : (Flight(x) /\ call[x].page = p /\ call[x].form = page[p].form.n)
                                                   => Flight(x)' /\ ~Left(x))
            \/ FormNew(p)
            \/ FormFree(p)
  PROVE  FormsOpen'
<1>1. ASSUME NEW x \in Calls, Flight(x)'
      PROVE  /\ Flight(x) /\ call'[x].page = call[x].page /\ call'[x].form = call[x].form
             /\ call'[x].op = call[x].op /\ call'[x].doc = call[x].doc
             /\ (call'[x].gone = call[x].gone \/ Left(x))
  BY <1>1, FlightMoves
<1>2. ASSUME NEW a \in Calls, Flight(a)'
      PROVE  FlightOK(a)'
  <2>1. PICK p \in Pages : p = call[a].page
    BY <1>1, <1>2 DEF CallsInv, CallOK, Asking, Flight
  <2>2. FlightOK(a) /\ Flight(a) /\ call'[a].page = p /\ call'[a].form = call[a].form
        /\ call'[a].op = call[a].op /\ call'[a].doc = call[a].doc
    BY <1>1, <1>2, <2>1 DEF FormsOpen
  <2>3. page[p].forms \in Nat /\ page'[p].forms \in Nat /\ page'[p].form.n \in Nat /\ page'[p].forms >= page[p].forms
    BY DEF CallsInv, PageOK, RecordOK, FormOK
  <2>4. call[a].form \in Nat /\ call[a].form > 0 /\ call[a].form <= page[p].forms
    BY <2>1, <2>2 DEF FlightOK, Flight
  <2>5. ASSUME call[a].form = page'[p].form.n
        PROVE  call'[a].gone = FALSE /\ page'[p].form.busy = TRUE /\ (Sub(a) => call[a].doc = page'[p].form.doc)
    <3>a. ~FormNew(p)
      BY <2>3, <2>4, <2>5 DEF FormNew
    <3>b. ~FormFree(p)
      BY <1>2, <2>2, <2>5 DEF FormFree
    <3>c. FormKept(p) /\ (\A x \in Calls : (Flight(x) /\ call[x].page = p /\ call[x].form = page[p].form.n) => ~Left(x))
      BY <3>a, <3>b
    <3>d. page'[p].form.n = page[p].form.n
      BY <3>c DEF FormKept
    <3>1. FormKept(p) /\ ~Left(a)
      BY <2>1, <2>2, <2>5, <3>c, <3>d
    <3> QED
      BY <1>1, <1>2, <2>1, <2>2, <2>5, <3>1 DEF FlightOK, FormKept
  <2>6. Sub(a)' => Sub(a)
    BY <2>2 DEF Sub
  <2>7. ASSUME NEW b \in Calls, Flight(b)', call'[b].page = call'[a].page, call'[b].form = call'[a].form
        PROVE  a = b
    <3>1. Flight(b) /\ call[b].page = p /\ call[b].form = call[a].form
      BY <1>1, <2>2, <2>7
    <3> QED
      BY <2>1, <2>2, <3>1 DEF FlightOK
  <2>8. call'[a].form \in Nat /\ call'[a].form <= page'[call'[a].page].forms
    BY <2>2, <2>3, <2>4
  <2>9. call'[a].form = page'[call'[a].page].form.n =>
          /\ call'[a].gone = FALSE /\ page'[call'[a].page].form.busy = TRUE
          /\ Sub(a)' => call'[a].doc = page'[call'[a].page].form.doc
    BY <2>2, <2>5, <2>6
  <2> QED
    BY <2>7, <2>8, <2>9 DEF FlightOK
<1>3. ASSUME NEW p \in Pages, page'[p].form.busy = TRUE
      PROVE  \E a \in Calls : Flight(a)' /\ call'[a].page = p /\ call'[a].form = page'[p].form.n
  <2>1. FormKept(p) /\ (\A x \in Calls : (Flight(x) /\ call[x].page = p /\ call[x].form = page[p].form.n) => Flight(x)')
    BY <1>3 DEF FormNew, FormFree
  <2>2. PICK a \in Calls : Flight(a) /\ call[a].page = p /\ call[a].form = page[p].form.n
    BY <1>3, <2>1 DEF FormKept, FormsOpen, BusyForm
  <2>3. Flight(a)'
    BY <2>1, <2>2
  <2>4. call'[a].page = p /\ call'[a].form = page'[p].form.n
    BY <1>1, <2>1, <2>2, <2>3 DEF FormKept
  <2> QED
    BY <2>3, <2>4
<1> QED
  BY <1>2, <1>3 DEF FormsOpen, BusyForm, FlightOK

\* A form is sent.
LEMMA FormsSubmitted ==
  ASSUME CallsInv, CallsInv', FormsOpen, NEW c \in Calls, NEW p \in Pages, SubmitShape(c, p)
  PROVE  FormsOpen'
<1>1. PICK chose \in Choices(p) : \E put \in Puts(p, chose) :
        /\ Made(call'[c], p, SubmitOp(p), page[p].form.doc, page[p].query, put, chose, page[p].form.row, page[p].form.n)
        /\ OnlyPage(p, [page[p] EXCEPT !.form = Typed(p, chose, put)])
  BY DEF SubmitShape
<1>2. PICK put : /\ Made(call'[c], p, SubmitOp(p), page[p].form.doc, page[p].query, put, chose, page[p].form.row, page[p].form.n)
                 /\ OnlyPage(p, [page[p] EXCEPT !.form = Typed(p, chose, put)])
  BY <1>1
<1>3. /\ DOMAIN page[p] = PageFields /\ DOMAIN page[p].form = FormFields /\ page[p].form.n \in Nat /\ page[p].form.n > 0
      /\ page[p].form.n <= page[p].forms /\ page[p].forms \in Nat
  BY DEF SubmitShape, CallsInv, PageOK, RecordOK, FormOK
<1>4. /\ page'[p].form.n = page[p].form.n /\ page'[p].form.doc = page[p].form.doc /\ page'[p].form.busy = TRUE
      /\ page'[p].forms = page[p].forms
  <2>1. /\ Typed(p, chose, put).n = page[p].form.n /\ Typed(p, chose, put).doc = page[p].form.doc /\ Typed(p, chose, put).busy = TRUE
    BY <1>3 DEF Typed, FormFields
  <2>2. page'[p].form = Typed(p, chose, put) /\ page'[p].forms = page[p].forms
    <3> HIDE DEF Typed
    <3> QED
      BY <1>2, <1>3 DEF OnlyPage, PageFields
  <2> HIDE DEF Typed
  <2> QED
    BY <2>1, <2>2
<1>5. \A q \in Pages \ {p} : page'[q] = page[q]
  BY <1>2 DEF OnlyPage
<1>6. /\ call'[c].page = p /\ call'[c].form = page[p].form.n /\ call'[c].doc = page[p].form.doc
      /\ call'[c].gone = FALSE /\ call'[c].st = "sent" /\ call'[c].op \in FormOps
  BY <1>2 DEF Made, SubmitOp, FormOps
<1>7. \A x \in Calls \ {c} : call'[x] = call[x]
  BY DEF SubmitShape, OnlyCall
<1>8. \A x \in Calls : Flight(x) /\ call[x].page = p => call[x].form # page[p].form.n
  BY DEF FormsOpen, FlightOK, SubmitShape
<1>9. \A x \in Calls \ {c} : Flight(x)' = Flight(x)
  BY <1>7 DEF Flight
<1>10. ~Flight(c)
  BY DEF SubmitShape, Sent, NoCall, Flight
<1>11. ASSUME NEW a \in Calls, Flight(a)'
       PROVE  FlightOK(a)'
  <2>1. CASE a = c
    <3>1. \A b \in Calls : Flight(b)' /\ call'[b].page = call'[a].page /\ call'[b].form = call'[a].form => a = b
      BY <1>6, <1>7, <1>8, <1>9, <2>1
    <3>2. /\ call'[a].form \in Nat /\ call'[a].form <= page'[call'[a].page].forms
          /\ call'[a].gone = FALSE /\ page'[call'[a].page].form.busy = TRUE /\ call'[a].doc = page'[call'[a].page].form.doc
      BY <1>3, <1>4, <1>6, <2>1
    <3> QED
      BY <3>1, <3>2 DEF FlightOK
  <2>2. CASE a # c
    <3>1. FlightOK(a) /\ Flight(a) /\ call'[a] = call[a] /\ call[a].page \in Pages
      BY <1>7, <1>9, <1>11, <2>2 DEF FormsOpen, CallsInv, CallOK, Asking, Flight
    <3>2. \A b \in Calls : Flight(b)' /\ call'[b].page = call'[a].page /\ call'[b].form = call'[a].form => a = b
      BY <1>6, <1>7, <1>8, <1>9, <2>2, <3>1 DEF FlightOK
    <3>3. call'[a].form \in Nat /\ call'[a].form <= page'[call'[a].page].forms
      BY <1>4, <1>5, <3>1 DEF FlightOK
    <3>4. call'[a].form = page'[call'[a].page].form.n =>
            /\ call'[a].gone = FALSE /\ page'[call'[a].page].form.busy = TRUE
            /\ Sub(a)' => call'[a].doc = page'[call'[a].page].form.doc
      <4>1. CASE call[a].page = p
        BY <1>4, <1>8, <3>1, <4>1
      <4>2. CASE call[a].page # p
        BY <1>5, <3>1, <4>2 DEF FlightOK, Sub
      <4> QED
        BY <4>1, <4>2
    <3> QED
      BY <3>2, <3>3, <3>4 DEF FlightOK
  <2> QED
    BY <2>1, <2>2
<1>12. ASSUME NEW q \in Pages, page'[q].form.busy = TRUE
       PROVE  \E a \in Calls : Flight(a)' /\ call'[a].page = q /\ call'[a].form = page'[q].form.n
  <2>1. CASE q = p
    <3>1. Flight(c)'
      BY <1>3, <1>6 DEF Flight
    <3> QED
      BY <1>4, <1>6, <2>1, <3>1
  <2>2. CASE q # p
    <3>1. PICK a \in Calls : Flight(a) /\ call[a].page = q /\ call[a].form = page[q].form.n
      BY <1>5, <1>12, <2>2 DEF FormsOpen, BusyForm
    <3>2. a # c
      BY <1>10, <3>1
    <3> QED
      BY <1>5, <1>7, <1>9, <2>2, <3>1, <3>2
  <2> QED
    BY <2>1, <2>2
<1> QED
  BY <1>11, <1>12 DEF FormsOpen, BusyForm, FlightOK

\* A form the page shows keeps its request, if that one goes on.
LEMMA FormGoesOn ==
  ASSUME CallsInv, FormsOpen, NEW p \in Pages, NEW x \in Calls, Flight(x), call[x].page = p, call[x].form = page[p].form.n,
         call'[x] = call[x] \/ Reads(x) \/ Answers(x)
  PROVE  Flight(x)' /\ ~Left(x)
<1>1. call[x].gone = FALSE
  BY DEF FormsOpen, FlightOK
<1>2. call'[x].gone = FALSE
  BY <1>1 DEF Reads, Answers, Keeps, CallFields
<1>3. Flight(x)'
  BY DEF Reads, Answers, Keeps, CallFields, Flight
<1> QED
  BY <1>2, <1>3 DEF Left

\* An answer reaches the page of its form, or another.
LEMMA FormsAnswered ==
  ASSUME CallsInv, CallsInv', FormsOpen, AllMove, NEW c \in Calls, AnswerShape(c)
  PROVE  FormsOpen'
<1>1. call[c].st = "served"
  BY DEF AnswerShape, EndShape, ArriveShape, RowArriveShape, LeaveShape, AgainShape, DoneShape, FailShape, Ends, Again
<1>2. Asking(c)
  BY <1>1 DEF CallsInv, CallOK
<1>3. PICK p \in Pages : p = call[c].page
  BY <1>2 DEF Asking
<1>4. OnlyCall(c) /\ (Ends(c) \/ Again(c))
  BY DEF AnswerShape, EndShape, ArriveShape, RowArriveShape, LeaveShape, AgainShape, DoneShape, FailShape
<1>5. \A x \in Calls : ~Sent(x)
  BY <1>1, <1>4 DEF OnlyCall, Sent, NoCall
<1>6. \A q \in Pages \ {p} : page'[q] = page[q]
  BY <1>3 DEF AnswerShape, ArriveShape, RowArriveShape, LeaveShape, AgainShape, DoneShape, FailShape, FreedPage
<1>7. page[p].forms \in Nat
  BY DEF CallsInv, PageOK, RecordOK
<1>8. page'[p].forms >= page[p].forms
  <2>1. page'[p].forms = page[p].forms \/ page'[p].forms = page[p].forms + 1
    BY <1>3 DEF AnswerShape, ArriveShape, RowArriveShape, LeaveShape, AgainShape, DoneShape, FailShape, Unmounted
  <2> QED
    BY <1>7, <2>1
<1>9. ASSUME NEW q \in Pages, FormKept(q), q = p => call[c].form # page[p].form.n \/ ~Flight(c),
             NEW x \in Calls, Flight(x), call[x].page = q, call[x].form = page[q].form.n
      PROVE  Flight(x)' /\ ~Left(x)
  <2>1. x # c
    BY <1>3, <1>9
  <2> QED
    BY <1>4, <1>9, <2>1, FormGoesOn DEF OnlyCall
<1>10. \A q \in Pages \ {p} : FormKept(q)
  BY <1>6 DEF FormKept
<1>11. ~Flight(c)'
  BY <1>4 DEF Ends, Again, Flight, FormOps
<1>12. ASSUME Flight(c), call[c].form = page[p].form.n
       PROVE  \A x \in Calls : ~(Flight(x)' /\ call'[x].page = p /\ call'[x].form = page[p].form.n)
  <2>1. \A x \in Calls \ {c} : call'[x] = call[x]
    BY <1>4 DEF OnlyCall
  <2>2. \A x \in Calls \ {c} : ~(Flight(x) /\ call[x].page = p /\ call[x].form = page[p].form.n)
    BY <1>3, <1>12 DEF FormsOpen, FlightOK
  <2> QED
    BY <1>11, <2>1, <2>2 DEF Flight
<1>13. \/ FormKept(p) /\ (call[c].form # page[p].form.n \/ ~Flight(c))
       \/ FormNew(p)
       \/ FormFree(p)
  <2>1. CASE call[c].gone = TRUE /\ UNCHANGED page
    <3>1. FormKept(p)
      BY <2>1 DEF FormKept
    <3>2. ~(Flight(c) /\ call[c].form = page[p].form.n)
      BY <1>3, <2>1 DEF FormsOpen, FlightOK
    <3> QED
      BY <3>1, <3>2
  <2>2. CASE ArriveShape(c)
    BY <1>3, <2>2 DEF ArriveShape, FormKept, Flight, FormOps
  <2>3. ASSUME FreedForm(c)
        PROVE  (FormKept(p) /\ (call[c].form # page[p].form.n \/ ~Flight(c))) \/ FormFree(p)
    <3>1. CASE Flight(c) /\ call[c].form = page[p].form.n
      BY <1>3, <1>12, <2>3, <3>1 DEF FreedForm, FormFree, Flight
    <3>2. CASE page[p].form.n = call[c].form /\ call[c].op \in FormOps /\ ~Flight(c)
      <4>1. page[p].form.busy # TRUE
        <5>1. page[p].form.n = 0
          BY <1>1, <1>7, <3>2 DEF Flight, CallsInv, PageOK, RecordOK, FormOK
        <5>2. page[p].form = NoForm
          BY <5>1 DEF CallsInv, PageOK, RecordOK, FormOK
        <5> QED
          BY <5>2 DEF NoForm
      <4> QED
        BY <1>3, <2>3, <3>2, <4>1 DEF FreedForm, FormKept
    <3>3. CASE ~(page[p].form.n = call[c].form /\ call[c].op \in FormOps)
      BY <1>3, <2>3, <3>3 DEF FreedForm, FormKept, Flight
    <3> QED
      BY <3>1, <3>2, <3>3
  <2>4. CASE RowArriveShape(c)
    <3>1. CASE Screen(p) = "selling"
      BY <1>3, <2>4, <3>1 DEF RowArriveShape, FormNew, NoForm
    <3>2. CASE Screen(p) # "selling"
      BY <1>3, <2>3, <2>4, <3>2 DEF RowArriveShape
    <3> QED
      BY <3>1, <3>2
  <2>5. CASE LeaveShape(c) \/ FailShape(c)
    BY <2>3, <2>5 DEF LeaveShape, FailShape
  <2>6. CASE AgainShape(c)
    BY <1>3, <1>7, <2>6 DEF AgainShape, FormNew, NoForm
  <2>7. CASE DoneShape(c)
    BY <1>3, <1>7, <2>7 DEF DoneShape, FormNew, Unmounted, NoForm
  <2> QED
    BY <2>1, <2>2, <2>4, <2>5, <2>6, <2>7 DEF AnswerShape
<1>14. \A q \in Pages : page'[q].forms >= page[q].forms
  BY <1>6, <1>8 DEF CallsInv, PageOK, RecordOK
<1>15. ASSUME NEW q \in Pages
       PROVE  \/ FormKept(q) /\ (\A x \in Calls : (Flight(x) /\ call[x].page = q /\ call[x].form = page[q].form.n)
                                                    => Flight(x)' /\ ~Left(x))
              \/ FormNew(q)
              \/ FormFree(q)
  BY <1>9, <1>10, <1>13
<1> QED
  BY <1>5, <1>14, <1>15, FormsKept

LEMMA FormsStep ==
  ASSUME CallsInv, CallsInv', FormsOpen, AllMove, StepShape
  PROVE  FormsOpen'
<1>0. \A p \in Pages : page[p].forms \in Nat /\ page'[p].forms \in Nat
  BY DEF CallsInv, PageOK, RecordOK
<1>1. CASE DeskStep /\ UNCHANGED page
  <2>1. \A x \in Calls : call'[x] = call[x] \/ Reads(x) \/ Answers(x)
    BY <1>1, DeskQuiet
  <2>2. \A x \in Calls : ~(Sent(x) /\ Flight(x)')
    BY <2>1 DEF Reads, Answers, Sent, NoCall, Flight
  <2>3. \A p \in Pages : FormKept(p) /\ page'[p].forms >= page[p].forms
    BY <1>0, <1>1 DEF FormKept
  <2> QED
    BY <2>1, <2>2, <2>3, FormGoesOn, FormsKept
<1>2. ASSUME NEW c \in Calls, NEW p \in Pages, OpenShape(c, p)
      PROVE  FormsOpen'
  <2>1. ~Flight(c)' /\ \A x \in Calls \ {c} : call'[x] = call[x] \/ Left(x)
    BY <1>2 DEF OpenShape, Made, NoCall, Flight, FormOps
  <2>2. \A x \in Calls : ~(Sent(x) /\ Flight(x)')
    BY <2>1 DEF Left, Sent, NoCall, Flight
  <2>3. \A q \in Pages : page'[q].forms >= page[q].forms
    BY <1>0, <1>2 DEF OpenShape
  <2>4. FormNew(p)
    BY <1>0, <1>2 DEF OpenShape, FormNew
  <2>5. ASSUME NEW q \in Pages \ {p}
        PROVE  FormKept(q) /\ \A x \in Calls : (Flight(x) /\ call[x].page = q /\ call[x].form = page[q].form.n)
                                                  => Flight(x)' /\ ~Left(x)
    <3>1. FormKept(q)
      BY <1>2 DEF OpenShape, FormKept
    <3>2. ASSUME NEW x \in Calls, Flight(x), call[x].page = q, call[x].form = page[q].form.n
          PROVE  Flight(x)' /\ ~Left(x)
      <4>1. call'[x] = call[x]
        BY <1>2, <3>2 DEF OpenShape, NoCall, Flight
      <4> QED
        BY <3>2, <4>1, FormGoesOn
    <3> QED
      BY <3>1, <3>2
  <2> QED
    BY <2>2, <2>3, <2>4, <2>5, FormsKept
<1>3. ASSUME NEW c \in Calls, NEW p \in Pages, SubmitShape(c, p)
      PROVE  FormsOpen'
  BY <1>3, FormsSubmitted
<1>4. ASSUME UNCHANGED desk, \A x \in Calls : call'[x] = call[x] \/ (Sent(x) /\ ~Flight(x)'),
             \A p \in Pages : page'[p].forms >= page[p].forms /\ (FormKept(p) \/ FormNew(p))
      PROVE  FormsOpen'
  <2>1. \A x \in Calls : ~(Sent(x) /\ Flight(x)')
    BY <1>4 DEF Sent, NoCall, Flight
  <2>2. \A x \in Calls : Flight(x) => call'[x] = call[x]
    BY <1>4 DEF Sent, NoCall, Flight
  <2> QED
    BY <1>4, <2>1, <2>2, FormGoesOn, FormsKept
<1>5. ASSUME NEW c \in Calls, NEW p \in Pages, NEW d \in Docs, RowControl(c, p, d), RowShape(c, p, d)
      PROVE  FormsOpen'
  <2>1. \A q \in Pages : page'[q].forms = page[q].forms /\ page'[q].form = page[q].form
    BY <1>5 DEF RowShape, CallsInv, PageOK, RecordOK, PageFields
  <2>2. call'[c].page = p /\ call'[c].form = page[p].form.n /\ call'[c].op \in RowOps
    BY <1>5 DEF RowShape
  <2>3. Screen(p) # "selling"
    BY <1>5 DEF RowControl, ChangeStatus, SaveTracking, Decide, RequestRefund, ToggleActive, ChangeRole, Remove
  <2>4. CallOK(c)' /\ call'[c].st = "sent" /\ UNCHANGED load
    BY <1>5 DEF CallsInv, RowShape, Sent, desk
  <2>5. Fits(call'[c].op, Screen(p))
    BY <2>2, <2>4 DEF CallOK, Asking, Screen
  <2>6. call'[c].op \in FormOps => page[p].form = NoForm
    BY <2>2, <2>3, <2>5 DEF Fits, RowOps, FormOps, CallsInv, PageOK, RecordOK, FormOK, FormOnPage
  <2>7. ~Flight(c)'
    BY <2>2, <2>6 DEF Flight, NoForm
  <2>8. \A x \in Calls : call'[x] = call[x] \/ (Sent(x) /\ ~Flight(x)')
    BY <1>5, <2>7 DEF RowShape, OnlyCall
  <2>9. \A q \in Pages : page'[q].forms >= page[q].forms /\ FormKept(q)
    BY <1>0, <2>1 DEF FormKept
  <2> QED
    BY <1>4, <1>5, <2>8, <2>9 DEF RowShape
<1>6. ASSUME NEW p \in Pages, AskShape(p)
      PROVE  FormsOpen'
  <2>1. \A q \in Pages : page'[q].forms = page[q].forms /\ page'[q].form = page[q].form
    BY <1>6 DEF AskShape, CallsInv, PageOK, RecordOK, PageFields
  <2>2. \A x \in Calls : call'[x] = call[x] \/ (Sent(x) /\ ~Flight(x)')
    BY <1>6 DEF AskShape, Made, Flight, FormOps
  <2>3. \A q \in Pages : page'[q].forms >= page[q].forms /\ FormKept(q)
    BY <1>0, <2>1 DEF FormKept
  <2> QED
    BY <1>4, <1>6, <2>2, <2>3 DEF AskShape
<1>7. ASSUME NEW p \in Pages, FormShape(p)
      PROVE  FormsOpen'
  <2>1. \A q \in Pages \ {p} : page'[q] = page[q]
    BY <1>7 DEF FormShape, CallsInv
  <2>2. page'[p].forms >= page[p].forms /\ FormNew(p)
    <3>1. CASE page' = [page EXCEPT ![p].form = NoForm]
      <4>1. page'[p].form = NoForm /\ page'[p].forms = page[p].forms
        BY <3>1 DEF CallsInv, PageOK, RecordOK, PageFields
      <4> QED
        BY <1>0, <4>1 DEF FormNew, NoForm
    <3>2. ASSUME NEW d, NEW row, page' = [page EXCEPT ![p].form = Form(p, d, row), ![p].forms = @ + 1]
          PROVE  page'[p].forms >= page[p].forms /\ FormNew(p)
      <4>1. page'[p].form = Form(p, d, row) /\ page'[p].forms = page[p].forms + 1
        <5> HIDE DEF Form
        <5> QED
          BY <3>2 DEF CallsInv, PageOK, RecordOK, PageFields
      <4> QED
        BY <1>0, <4>1 DEF FormNew, Form
    <3> QED
      BY <1>7, <3>1, <3>2 DEF FormShape
  <2>3. \A q \in Pages : page'[q].forms >= page[q].forms /\ (FormKept(q) \/ FormNew(q))
    BY <1>0, <2>1, <2>2 DEF FormKept
  <2> QED
    BY <1>4, <1>7, <2>3 DEF FormShape
<1>8. ASSUME NEW c \in Calls, AnswerShape(c)
      PROVE  FormsOpen'
  BY <1>8, FormsAnswered
<1> QED
  BY <1>1, <1>2, <1>3, <1>5, <1>6, <1>7, <1>8 DEF StepShape, PageShape

\* A request of a row that its page waits for.
Pressed(a, p) == call[a].page = p /\ call[a].gone = FALSE /\ a \notin Over /\ call[a].op \in {"ask", "remove"}
Pressing(a) == call'[a].doc = call[a].doc

LEMMA RowsStep ==
  ASSUME CallsInv, CallsInv', RowsOpen, AllMove, StepShape
  PROVE  RowsOpen'
<1>0. ASSUME NEW p \in Pages, page'[p].busy = page[p].busy \/ page'[p].busy = NoOne,
             \A a \in Calls : Pressed(a, p) => Pressed(a, p)' /\ Pressing(a)
      PROVE  BusyRow(p)'
  BY <1>0 DEF RowsOpen, BusyRow, Pressed, Pressing
<1>a. ASSUME NEW a \in Calls, NEW p \in Pages, Pressed(a, p), call'[a] = call[a] \/ Reads(a) \/ Answers(a)
      PROVE  Pressed(a, p)' /\ Pressing(a)
  BY <1>a DEF Pressed, Pressing, Reads, Answers, Keeps, CallFields, Over
<1>b. ASSUME NEW a \in Calls, NEW p \in Pages, Pressed(a, p)
      PROVE  ~Sent(a) /\ call[a] # NoCall
  BY <1>b DEF Pressed, Sent, NoCall
<1>1. CASE DeskStep /\ UNCHANGED page
  <2>1. \A x \in Calls : call'[x] = call[x] \/ Reads(x) \/ Answers(x)
    BY <1>1, DeskQuiet
  <2> QED
    BY <1>0, <1>1, <1>a, <2>1 DEF RowsOpen
<1>2. ASSUME \A x \in Calls : call'[x] = call[x] \/ Sent(x),
             \A p \in Pages : page'[p].busy = page[p].busy
      PROVE  RowsOpen'
  BY <1>0, <1>2, <1>a, <1>b DEF RowsOpen
<1>3. ASSUME NEW c \in Calls, NEW p \in Pages, OpenShape(c, p)
      PROVE  RowsOpen'
  <2>1. BusyRow(p)'
    BY <1>3 DEF OpenShape, BusyRow
  <2>2. ASSUME NEW q \in Pages \ {p}
        PROVE  BusyRow(q)'
    <3>1. \A a \in Calls : Pressed(a, q) => call'[a] = call[a]
      BY <1>3, <1>b DEF OpenShape, Pressed
    <3>2. page'[q].busy = page[q].busy
      BY <1>3 DEF OpenShape
    <3> QED
      BY <1>0, <1>a, <3>1, <3>2
  <2> QED
    BY <2>1, <2>2 DEF RowsOpen
<1>4. ASSUME NEW c \in Calls, NEW p \in Pages, SubmitShape(c, p)
      PROVE  RowsOpen'
  <2>1. PICK form : OnlyPage(p, [page[p] EXCEPT !.form = form])
    BY <1>4 DEF SubmitShape
  <2>2. \A q \in Pages : page'[q].busy = page[q].busy
    BY <2>1 DEF OnlyPage, CallsInv, PageOK, RecordOK, PageFields
  <2> QED
    BY <1>2, <1>4, <2>2 DEF SubmitShape, OnlyCall
<1>5. ASSUME NEW c \in Calls, NEW p \in Pages, NEW d \in Docs, RowShape(c, p, d)
      PROVE  RowsOpen'
  <2>1. \A x \in Calls : call'[x] = call[x] \/ Sent(x)
    BY <1>5 DEF RowShape, OnlyCall
  <2>2. CASE UNCHANGED page
    BY <1>2, <2>1, <2>2
  <2>3. CASE call'[c].op \in {"ask", "remove"} /\ page' = [page EXCEPT ![p].busy = d]
    <3>1. page'[p].busy = d /\ \A q \in Pages \ {p} : page'[q] = page[q]
      BY <2>3 DEF CallsInv, PageOK, RecordOK, PageFields
    <3>2. Pressed(c, p)' /\ call'[c].doc = d
      BY <1>5, <2>3 DEF RowShape, Sent, Pressed, Over
    <3>3. BusyRow(p)'
      BY <3>1, <3>2 DEF BusyRow, Pressed
    <3>4. \A q \in Pages \ {p} : BusyRow(q)'
      BY <1>0, <1>a, <1>b, <2>1, <3>1
    <3> QED
      BY <3>3, <3>4 DEF RowsOpen
  <2> QED
    BY <1>5, <2>2, <2>3 DEF RowShape
<1>6. ASSUME NEW p \in Pages, AskShape(p)
      PROVE  RowsOpen'
  <2>1. \A q \in Pages : page'[q].busy = page[q].busy
    BY <1>6 DEF AskShape, CallsInv, PageOK, RecordOK, PageFields
  <2> QED
    BY <1>2, <1>6, <2>1 DEF AskShape
<1>7. ASSUME NEW p \in Pages, FormShape(p)
      PROVE  RowsOpen'
  <2>1. \A q \in Pages : page'[q].busy = page[q].busy
    <3>1. CASE page' = [page EXCEPT ![p].form = NoForm]
      BY <3>1 DEF CallsInv, PageOK, RecordOK, PageFields
    <3>2. ASSUME NEW form, page' = [page EXCEPT ![p].form = form, ![p].forms = @ + 1]
          PROVE  \A q \in Pages : page'[q].busy = page[q].busy
      BY <3>2 DEF CallsInv, PageOK, RecordOK, PageFields
    <3> HIDE DEF Form
    <3> QED
      BY <1>7, <3>1, <3>2 DEF FormShape
  <2> QED
    BY <1>2, <1>7, <2>1 DEF FormShape
<1>8. ASSUME NEW c \in Calls, AnswerShape(c)
      PROVE  RowsOpen'
  <2>1. call[c].st = "served"
    BY <1>8 DEF AnswerShape, EndShape, ArriveShape, RowArriveShape, LeaveShape, AgainShape, DoneShape, FailShape, Ends, Again
  <2>2. Asking(c)
    BY <2>1 DEF CallsInv, CallOK
  <2>3. PICK p \in Pages : p = call[c].page
    BY <2>2 DEF Asking
  <2>4. \A x \in Calls \ {c} : call'[x] = call[x]
    BY <1>8 DEF AnswerShape, EndShape, ArriveShape, RowArriveShape, LeaveShape, AgainShape, DoneShape, FailShape, OnlyCall
  <2>5. \A q \in Pages \ {p} : page'[q] = page[q]
    BY <1>8, <2>3 DEF AnswerShape, ArriveShape, RowArriveShape, LeaveShape, AgainShape, DoneShape, FailShape, FreedPage
  <2>6. ASSUME NEW q \in Pages \ {p}
        PROVE  BusyRow(q)'
    <3>1. \A a \in Calls : Pressed(a, q) => call'[a] = call[a]
      BY <2>3, <2>4 DEF Pressed
    <3> QED
      BY <1>0, <1>a, <2>5, <3>1
  <2>7. \/ page'[p].busy = NoOne
        \/ page'[p].busy = page[p].busy /\ ~Pressed(c, p)
    <3>1. CASE call[c].gone = TRUE /\ UNCHANGED page
      BY <3>1 DEF Pressed
    <3>2. CASE ArriveShape(c)
      BY <2>3, <3>2 DEF ArriveShape, Pressed
    <3>3. CASE FreedPage(c)
      BY <2>3, <3>3 DEF FreedPage, Pressed
    <3>4. CASE DoneShape(c)
      BY <2>3, <3>4 DEF DoneShape, Pressed
    <3> QED
      BY <1>8, <3>1, <3>2, <3>3, <3>4 DEF AnswerShape, RowArriveShape, LeaveShape, AgainShape, FailShape
  <2>8. BusyRow(p)'
    <3>1. CASE page'[p].busy = NoOne
      BY <3>1 DEF BusyRow
    <3>2. CASE page'[p].busy = page[p].busy /\ ~Pressed(c, p)
      BY <1>0, <1>a, <2>4, <3>2
    <3> QED
      BY <2>7, <3>1, <3>2
  <2> QED
    BY <2>6, <2>8 DEF RowsOpen
<1> QED
  BY <1>1, <1>3, <1>4, <1>5, <1>6, <1>7, <1>8 DEF StepShape, PageShape

\* No page is left with a form that cannot be sent, or a row whose control is
\* disabled for good: what a page waits for is a request that is still to be
\* answered, whatever was opened, closed, left or lost.
THEOREM BusySafety == BackOfficeSpec => [](FormsOpen /\ RowsOpen)
<1>1. Init => FormsOpen /\ RowsOpen
  <2> SUFFICES ASSUME Init
               PROVE  FormsOpen /\ RowsOpen
    OBVIOUS
  <2>1. \A c \in Calls : ~Flight(c)
    BY DEF Init, DeskInit, NoCall, Flight
  <2>2. \A p \in Pages : page[p].form.busy = FALSE /\ page[p].busy = NoOne
    BY DEF Init, Unmounted, NoForm
  <2> QED
    BY <2>1, <2>2 DEF FormsOpen, FlightOK, BusyForm, RowsOpen, BusyRow
<1>2. CallsInv /\ SinglesInv /\ (CallsInv /\ SinglesInv)' /\ FormsOpen /\ RowsOpen /\ [Next]_bvars => (FormsOpen /\ RowsOpen)'
  <2> SUFFICES ASSUME CallsInv, SinglesInv, CallsInv', FormsOpen, RowsOpen, [Next]_bvars
               PROVE  (FormsOpen /\ RowsOpen)'
    OBVIOUS
  <2>1. CASE Next
    BY <2>1, Steps, FormsStep, RowsStep
  <2>2. CASE UNCHANGED bvars
    BY <2>2 DEF bvars, dvars, FormsOpen, FlightOK, BusyForm, RowsOpen, BusyRow, Flight, Sub, Over
  <2> QED
    BY <2>1, <2>2
<1> QED
  BY <1>1, <1>2, DeskSafety, PTL DEF BackOfficeSpec

-----------------------------------------------------------------------------
(* Rows: what was read of a document, wherever it is kept.                 *)

Statuses == Targets \cup {"placed", "confirmed", "returned"}
OfRow(r) ==
  /\ DOMAIN r = DocFields /\ r.live \in BOOLEAN /\ r.status \in Statuses
  /\ r.refund \in {"none", "requested", "completed", "rejected"}
  /\ r.stock \in Nat /\ r.sold \in Nat /\ r.asked \in Nat /\ r.events \in Nat
DocOK(r) == OfRow(r) /\ r.restocks \in Nat
\* What a form keeps of a row when a stock was typed into it.
ByHand(r) == OfRow(r) /\ r.restocks = NoOne

Known(d) == doc[d].content # NoOne

\* A row of a product that no piece was counted wrong of: a stock was typed
\* in since, or it has every piece.
Counted(d, r) == d \notin outdated /\ r.restocks = doc[d].restocks => r.stock + r.sold = owned[d]
IsRow(d, r) == DocOK(r) /\ (OfProducts => Known(d) /\ r.restocks <= doc[d].restocks /\ Counted(d, r))
RowOf(d, r) == r = NoOne \/ IsRow(d, r)

\* A document, and an entry of Redis.
DocInv(d) ==
  /\ DocOK(doc[d]) /\ Counted(d, doc[d])
  /\ d \in load.live \/ doc[d].live = TRUE \/ doc[d].restocks > 0 => Known(d)
KeyInv(k, d) ==
  cached[k] # NoOne /\ (k[1] = "single" => d = k[2] /\ d \in load.live) => RowOf(d, cached[k][d])

\* An answer that is to reach its page.
HeardRows(c) ==
  call[c].st = "served" =>
    /\ call[c].op = "list" => \A d \in Docs : (Screen(call[c].page) = "edit" => d = call[c].doc) => RowOf(d, call[c].heard[d])
    /\ call[c].ans = "ok" /\ call[c].op \in {"status", "ask", "active", "member"} => DocOK(call[c].heard)

\* A change that was sent.
PutOK(put) ==
  /\ "status" \in DOMAIN put => put.status \in Statuses
  /\ "stock" \in DOMAIN put => put.stock \in Nat
  /\ "content" \in DOMAIN put => put.content # NoOne
\* One of a form whose stock was left as the row had it.
AsFilled(c) == call[c].op = "edit" /\ ~Restocks(c)
FilledOK(put, row) == OfRow(row) /\ put.stock = row.stock
SentRow(c) ==
  /\ call[c].st \in {"sent", "saving"} => PutOK(call[c].put) /\ (AsFilled(c) => FilledOK(call[c].put, call[c].row))
  /\ call[c].st = "sent" /\ AsFilled(c) => IsRow(call[c].doc, call[c].row) \/ ByHand(call[c].row)
\* What it is saved over.
Level(row, snap) == row.restocks = snap.restocks => row.stock + row.sold = snap.stock + snap.sold
SnapRow(c) ==
  LET d == call[c].doc
      snap == call[c].snap IN
  call[c].st = "saving" =>
    /\ DocOK(snap) /\ snap.restocks <= doc[d].restocks /\ (snap.content # NoOne => Known(d))
    /\ AsFilled(c) /\ d \notin outdated => Level(call[c].row, snap)

\* What a page shows, and what was typed over it.
FormRow(p) ==
  LET f == page[p].form IN
  /\ Screen(p) = "selling" /\ f # NoForm => DocOK(f.row)
  /\ f.row # NoOne => \/ DocOK(f.row) /\ (OfProducts => f.doc \in Docs /\ IsRow(f.doc, f.row))
                      \/ ByHand(f.row) /\ Screen(p) = "products" /\ f.doc \in Docs
PageRows(p) == \A d \in Docs : RowOf(d, page[p].rows[d])
\* Edit is answered the product it asked for.
EditList(c) ==
  Alive(c) /\ call[c].op = "list" /\ Screen(call[c].page) = "edit" /\ c \notin Over => call[c].doc = page[call[c].page].form.doc

DocsInv == \A d \in Docs : DocInv(d)
KeysInv == \A k \in Keys, d \in Docs : KeyInv(k, d)
HeardInv == \A c \in Calls : HeardRows(c)
SentInv == \A c \in Calls : SentRow(c)
SnapsInv == \A c \in Calls : SnapRow(c)
FormRowsInv == \A p \in Pages : FormRow(p)
PageRowsInv == \A p \in Pages : PageRows(p)
EditsInv == \A c \in Calls : EditList(c)
ReadingsInv == DocsInv /\ KeysInv /\ HeardInv /\ SentInv /\ SnapsInv /\ FormRowsInv /\ PageRowsInv /\ EditsInv

\* The pages of products are among themselves.
LEMMA ProductOps ==
  ASSUME CallsInv, NEW c \in Calls, call[c].st # "idle"
  PROVE  /\ OfProducts => call[c].op \in {"list", "remove", "add", "edit"} /\ Screen(call[c].page) \in ProductScreens
         /\ ~OfProducts => call[c].op \notin {"remove", "add", "edit"} /\ Screen(call[c].page) \notin ProductScreens
<1>1. Asking(c)
  BY DEF CallsInv, CallOK
<1>2. PICK kind \in {OrderScreens, {"coupons"}, {"staff"}, ProductScreens} : \A q \in Pages : load.screen[q] \in kind
  BY DeskAssumption DEF CallsInv, Frame
<1>3. CASE OfProducts
  <2>1. kind = ProductScreens
    BY <1>2, <1>3 DEF OfProducts, OrderScreens, ProductScreens, Screen
  <2> QED
    BY <1>1, <1>2, <1>3, <2>1 DEF Asking, Fits, ProductScreens, Screen
<1>4. CASE ~OfProducts
  BY <1>1, <1>4 DEF Asking, Fits, OfProducts, ProductScreens
<1> QED
  BY <1>3, <1>4

\* Fields that may be set.
SetOK(put) ==
  /\ DOMAIN put \subseteq DocFields \ {"sold", "events"}
  /\ "live" \in DOMAIN put => put.live \in BOOLEAN
  /\ "status" \in DOMAIN put => put.status \in Statuses
  /\ "refund" \in DOMAIN put => put.refund \in {"none", "requested", "completed", "rejected"}
  /\ "asked" \in DOMAIN put => put.asked \in Nat
  /\ "stock" \in DOMAIN put => put.stock \in Nat
  /\ "restocks" \in DOMAIN put => put.restocks \in Nat

LEMMA WithRow ==
  ASSUME NEW r, OfRow(r), NEW put, SetOK(put)
  PROVE  OfRow(With(r, put))
<1>1. /\ DOMAIN With(r, put) = DocFields
      /\ \A f \in DocFields : With(r, put)[f] = IF f \in DOMAIN put THEN put[f] ELSE r[f]
  BY DEF With, OfRow
<1> HIDE DEF With
<1> QED
  BY <1>1 DEF OfRow, SetOK, DocFields

LEMMA WithOK ==
  ASSUME NEW r, DocOK(r), NEW put, SetOK(put)
  PROVE  DocOK(With(r, put))
<1>1. With(r, put).restocks \in Nat
  BY DEF With, DocOK, OfRow, SetOK, DocFields
<1> QED
  BY <1>1, WithRow DEF DocOK, OfRow

LEMMA SavedOK ==
  ASSUME NEW now, DocOK(now), NEW snap, DocOK(snap), NEW put, SetOK(put)
  PROVE  DocOK(Saved(now, snap, put))
<1>1. /\ DOMAIN Saved(now, snap, put) = DocFields
      /\ \A f \in DocFields :
           Saved(now, snap, put)[f] = IF f \in DOMAIN put /\ put[f] # snap[f] THEN put[f] ELSE now[f]
  <2>1. DOMAIN now = DocFields /\ DOMAIN snap = DocFields /\ DOMAIN put \subseteq DocFields
    BY DEF DocOK, OfRow, SetOK
  <2> QED
    BY <2>1, SavedFields
<1> QED
  BY <1>1 DEF DocOK, OfRow, SetOK, DocFields

\* What a save sets.
LEMMA Effects ==
  ASSUME NEW c, call[c].op \in ReadThenSave
  PROVE  /\ call[c].op = "remove" => Effect(c) = [live |-> FALSE]
         /\ Restocks(c) => Effect(c) = [content |-> call[c].put.content, stock |-> call[c].put.stock,
                                        restocks |-> doc[call[c].doc].restocks + 1]
         /\ AsFilled(c) \/ call[c].op \in {"status", "member"} => Effect(c) = call[c].put
         /\ call[c].op = "ask" => Effect(c) = [refund |-> "requested", asked |-> doc[call[c].doc].asked + 1]
         /\ call[c].op = "approve" => Effect(c) = [refund |-> "completed", paid |-> FALSE, status |-> "returned"]
         /\ call[c].op = "reject" => Effect(c) = [refund |-> "rejected"]
<1>1. call[c].op = "remove" => Effect(c) = [live |-> FALSE]
  BY DEF Effect, Restocks
<1>2. Restocks(c) => Effect(c) = [content |-> call[c].put.content, stock |-> call[c].put.stock,
                                  restocks |-> doc[call[c].doc].restocks + 1]
  BY DEF Effect, Restocks
<1>3. AsFilled(c) \/ call[c].op \in {"status", "member"} => Effect(c) = call[c].put
  BY DEF Effect, Restocks, AsFilled
<1>4. call[c].op = "ask" => Effect(c) = [refund |-> "requested", asked |-> doc[call[c].doc].asked + 1]
  BY DEF Effect, Restocks
<1>5. call[c].op = "approve" => Effect(c) = [refund |-> "completed", paid |-> FALSE, status |-> "returned"]
  BY DEF Effect, Restocks
<1>6. call[c].op = "reject" => Effect(c) = [refund |-> "rejected"]
  BY DEF Effect, Restocks
<1> QED
  BY <1>1, <1>2, <1>3, <1>4, <1>5, <1>6

LEMMA EffectOK ==
  ASSUME CallsInv, NEW c \in Calls, call[c].st = "saving", PutOK(call[c].put), call[c].doc \in Docs, DocOK(doc[call[c].doc])
  PROVE  SetOK(Effect(c))
<1>1. call[c].op \in ReadThenSave /\ PutFits(call[c].op, DOMAIN call[c].put)
  BY DEF CallsInv, CallOK
<1>2. doc[call[c].doc].restocks + 1 \in Nat /\ doc[call[c].doc].asked + 1 \in Nat
  BY DEF DocOK, OfRow
<1>3. CASE call[c].op = "remove"
  <2>1. Effect(c) = [live |-> FALSE]
    BY <1>1, <1>3, Effects
  <2> QED
    BY <2>1 DEF SetOK, DocFields
<1>4. CASE Restocks(c)
  <2>1. Effect(c) = [content |-> call[c].put.content, stock |-> call[c].put.stock, restocks |-> doc[call[c].doc].restocks + 1]
    BY <1>1, <1>4, Effects
  <2>2. call[c].put.stock \in Nat
    BY <1>1, <1>4 DEF PutFits, PutOK, Restocks
  <2> QED
    BY <1>2, <2>1, <2>2 DEF SetOK, DocFields
<1>5. CASE AsFilled(c) \/ call[c].op \in {"status", "member"}
  <2>1. Effect(c) = call[c].put
    BY <1>1, <1>5, Effects
  <2>2. DOMAIN call[c].put \subseteq {"status", "tracking", "active", "role", "content", "stock"}
    BY <1>1, <1>5 DEF PutFits, AsFilled
  <2> QED
    BY <2>1, <2>2 DEF SetOK, PutOK, DocFields
<1>6. CASE call[c].op = "ask"
  <2>1. Effect(c) = [refund |-> "requested", asked |-> doc[call[c].doc].asked + 1]
    BY <1>1, <1>6, Effects
  <2> QED
    BY <1>2, <2>1 DEF SetOK, DocFields
<1>7. CASE call[c].op = "approve"
  <2>1. Effect(c) = [refund |-> "completed", paid |-> FALSE, status |-> "returned"]
    BY <1>1, <1>7, Effects
  <2> QED
    BY <2>1 DEF SetOK, DocFields, Statuses
<1>8. CASE call[c].op = "reject"
  <2>1. Effect(c) = [refund |-> "rejected"]
    BY <1>1, <1>8, Effects
  <2> QED
    BY <2>1 DEF SetOK, DocFields
<1> QED
  BY <1>1, <1>3, <1>4, <1>5, <1>6, <1>7, <1>8 DEF ReadThenSave, AsFilled

\* What the server does to a document keeps the rows of it.
Grow(d) ==
  /\ DocOK(doc[d]) /\ DocOK(doc'[d]) /\ doc'[d].restocks >= doc[d].restocks
  /\ Known(d) => doc'[d].content # NoOne
  /\ d \notin outdated' => d \notin outdated
  /\ Known(d) /\ doc'[d].restocks = doc[d].restocks => owned'[d] = owned[d]
NewDoc(d) ==
  /\ DocOK(doc'[d])
  /\ d \notin outdated' => doc'[d].stock + doc'[d].sold = owned'[d]
  /\ d \in load.live \/ doc'[d].live = TRUE \/ doc'[d].restocks > 0 => doc'[d].content # NoOne
Grows == UNCHANGED load /\ (\A d \in Docs : Grow(d) /\ NewDoc(d))

\* A document that a step leaves alone.
LEMMA Untold ==
  ASSUME DocsInv, NEW d \in Docs, doc'[d] = doc[d], owned'[d] = owned[d], d \in outdated' <=> d \in outdated
  PROVE  Grow(d) /\ NewDoc(d)
<1>1. DocInv(d)
  BY DEF DocsInv
<1> QED
  BY <1>1 DEF DocInv, Grow, NewDoc, Counted, DocOK, OfRow, Known

\* A product saved with the stock of its form, or another change.
LEMMA SaveGrows ==
  ASSUME CallsInv, DocsInv, SentInv, SnapsInv, NEW c \in Calls, Save(c)
  PROVE  /\ Grows /\ SetOK(Effect(c)) /\ call[c].doc \in Docs /\ DocOK(call[c].snap)
         /\ Restocks(c) => doc'[call[c].doc].restocks > doc[call[c].doc].restocks
<1> DEFINE snap == call[c].snap
           row == call[c].row
           put == Effect(c)
<1>1. call[c].st = "saving" /\ call[c].op \in ReadThenSave /\ PutFits(call[c].op, DOMAIN call[c].put) /\ Asking(c)
  BY DEF Save, CallsInv, CallOK
<1>2. PICK d \in Docs : d = call[c].doc
  BY <1>1 DEF Asking, DocFits, ReadThenSave
<1>3. DocInv(d) /\ PutOK(call[c].put) /\ (AsFilled(c) => FilledOK(call[c].put, row))
  BY <1>1 DEF DocsInv, SentInv, SentRow
<1>4. /\ DocOK(snap) /\ snap.restocks <= doc[d].restocks /\ (snap.content # NoOne => Known(d))
      /\ AsFilled(c) /\ d \notin outdated => Level(row, snap)
  BY <1>1, <1>2 DEF SnapsInv, SnapRow
<1>5. DocOK(doc[d]) /\ SetOK(put) /\ SetOK(Effect(c))
  BY <1>1, <1>2, <1>3, EffectOK DEF DocInv
<1>6. /\ UNCHANGED load /\ doc' = [doc EXCEPT ![d] = Saved(doc[d], snap, put)]
      /\ owned' = IF Restocks(c) THEN [owned EXCEPT ![d] = doc'[d].stock + doc'[d].sold] ELSE owned
      /\ outdated' = IF AsFilled(c) /\ (row.sold # snap.sold \/ row.restocks # snap.restocks) THEN outdated \cup {d} ELSE outdated
  BY <1>2 DEF Save, AsFilled
<1>7. doc'[d] = Saved(doc[d], snap, put) /\ \A e \in Docs \ {d} : doc'[e] = doc[e]
  BY <1>6 DEF CallsInv, Frame
<1>8. /\ \A e \in Docs \ {d} : owned'[e] = owned[e] /\ (e \in outdated' <=> e \in outdated)
      /\ owned'[d] = IF Restocks(c) THEN doc'[d].stock + doc'[d].sold ELSE owned[d]
      /\ d \notin outdated' => d \notin outdated /\ (AsFilled(c) => row.sold = snap.sold /\ row.restocks = snap.restocks)
  BY <1>6 DEF CallsInv, Frame
<1>9. \A e \in Docs \ {d} : Grow(e) /\ NewDoc(e)
  BY <1>7, <1>8, Untold
<1>10. DOMAIN doc[d] = DocFields /\ DOMAIN snap = DocFields /\ DOMAIN put \subseteq DocFields \ {"sold"}
  BY <1>4, <1>5 DEF DocOK, OfRow, SetOK
<1> HIDE DEF put
<1>11. \A f \in DocFields : doc'[d][f] = IF f \in DOMAIN put /\ put[f] # snap[f] THEN put[f] ELSE doc[d][f]
  BY <1>7, <1>10, SavedFields
<1>12. /\ doc'[d].sold = doc[d].sold
       /\ doc'[d].stock = IF "stock" \in DOMAIN put /\ put.stock # snap.stock THEN put.stock ELSE doc[d].stock
       /\ doc'[d].content = IF "content" \in DOMAIN put /\ put.content # snap.content THEN put.content ELSE doc[d].content
       /\ doc'[d].restocks = IF "restocks" \in DOMAIN put /\ put.restocks # snap.restocks THEN put.restocks ELSE doc[d].restocks
       /\ doc'[d].live = IF "live" \in DOMAIN put /\ put.live # snap.live THEN put.live ELSE doc[d].live
  BY <1>10, <1>11 DEF DocFields
<1>13. DocOK(doc'[d])
  BY <1>4, <1>5, <1>7, SavedOK
<1>14. doc[d].stock \in Nat /\ doc[d].sold \in Nat /\ doc[d].restocks \in Nat /\ snap.restocks \in Nat
       /\ snap.stock \in Nat /\ snap.sold \in Nat
  BY <1>4, <1>5 DEF DocOK, OfRow
<1>15. d \notin outdated => doc[d].stock + doc[d].sold = owned[d]
  BY <1>3 DEF DocInv, Counted
<1>16. CASE Restocks(c)
  <2>1. put = [content |-> call[c].put.content, stock |-> call[c].put.stock, restocks |-> doc[d].restocks + 1]
    BY <1>1, <1>2, <1>16, Effects DEF put
  <2>2. call[c].put.content # NoOne
    BY <1>1, <1>3, <1>16 DEF PutFits, PutOK, Restocks
  <2>3. doc'[d].restocks = doc[d].restocks + 1
    BY <1>4, <1>12, <1>14, <2>1
  <2>4. doc'[d].content # NoOne
    BY <1>4, <1>12, <2>1, <2>2 DEF Known
  <2>5. Grow(d) /\ NewDoc(d)
    BY <1>5, <1>8, <1>13, <1>14, <1>16, <2>3, <2>4 DEF Grow, NewDoc
  <2> QED
    BY <1>2, <1>4, <1>5, <1>6, <1>9, <1>14, <2>3, <2>5 DEF Grows
<1>17. CASE AsFilled(c)
  <2>1. put = call[c].put
    BY <1>1, <1>17, Effects DEF put
  <2>2. DOMAIN put = {"content", "stock"} /\ put.content # NoOne /\ put.stock = row.stock /\ OfRow(row)
    BY <1>1, <1>3, <1>17, <2>1 DEF PutFits, PutOK, AsFilled, FilledOK
  <2>3. doc'[d].restocks = doc[d].restocks /\ doc'[d].live = doc[d].live
    BY <1>12, <2>2
  <2>4. doc'[d].content # NoOne
    BY <1>4, <1>12, <2>2 DEF Known
  <2>5. owned'[d] = owned[d]
    BY <1>8, <1>17 DEF AsFilled
  <2>6. ASSUME d \notin outdated'
        PROVE  doc'[d].stock + doc'[d].sold = owned'[d]
    <3>1. row.stock \in Nat /\ row.stock + row.sold = snap.stock + snap.sold /\ row.sold = snap.sold
      BY <1>4, <1>8, <1>17, <2>2, <2>6 DEF Level, DocOK, OfRow
    <3>2. row.stock = snap.stock
      BY <1>14, <3>1
    <3> QED
      BY <1>8, <1>12, <1>15, <2>2, <2>5, <2>6, <3>2
  <2>7. Grow(d) /\ NewDoc(d)
    BY <1>5, <1>8, <1>13, <1>14, <2>3, <2>4, <2>5, <2>6 DEF Grow, NewDoc
  <2> QED
    BY <1>2, <1>4, <1>5, <1>6, <1>9, <1>17, <2>7 DEF Grows, AsFilled
<1>18. CASE call[c].op # "edit"
  <2>1. DOMAIN put \cap {"content", "stock", "restocks"} = {}
    <3>1. CASE call[c].op \in {"status", "member"}
      BY <1>1, <3>1, Effects DEF put, PutFits
    <3>2. CASE call[c].op \in {"ask", "approve", "reject", "remove"}
      BY <1>1, <3>2, Effects DEF put
    <3> QED
      BY <1>1, <1>18, <3>1, <3>2 DEF ReadThenSave
  <2>2. "live" \in DOMAIN put => put.live = FALSE
    <3>1. CASE call[c].op \in {"status", "member"}
      BY <1>1, <3>1, Effects DEF put, PutFits
    <3>2. CASE call[c].op \in {"ask", "approve", "reject", "remove"}
      BY <1>1, <3>2, Effects DEF put
    <3> QED
      BY <1>1, <1>18, <3>1, <3>2 DEF ReadThenSave
  <2>3. /\ doc'[d].stock = doc[d].stock /\ doc'[d].content = doc[d].content /\ doc'[d].restocks = doc[d].restocks
        /\ doc'[d].live = TRUE => doc[d].live = TRUE
    BY <1>12, <2>1, <2>2
  <2>4. owned'[d] = owned[d] /\ (d \notin outdated' => d \notin outdated)
    BY <1>8, <1>18 DEF Restocks
  <2>5. Grow(d) /\ NewDoc(d)
    BY <1>3, <1>5, <1>12, <1>13, <1>14, <1>15, <2>3, <2>4 DEF Grow, NewDoc, DocInv, Known
  <2> QED
    BY <1>2, <1>4, <1>5, <1>6, <1>9, <1>18, <2>5 DEF Grows, Restocks
<1> QED
  BY <1>16, <1>17, <1>18 DEF AsFilled

\* A coupon is switched over or deleted.
LEMMA CouponGrows ==
  ASSUME CallsInv, DocsInv, SentInv, NEW c \in Calls, UpdateCoupon(c)
  PROVE  Grows
<1>1. call[c].st = "sent" /\ call[c].op \in {"active", "delete"} /\ PutFits(call[c].op, DOMAIN call[c].put) /\ Asking(c)
  BY DEF UpdateCoupon, CallsInv, CallOK
<1>2. PICK d \in Docs : d = call[c].doc
  BY <1>1 DEF Asking, DocFits
<1>3. DocInv(d) /\ DocOK(doc[d]) /\ PutOK(call[c].put)
  BY <1>1 DEF DocsInv, SentInv, SentRow, DocInv
<1>4. UNCHANGED <<load, owned, outdated>>
  BY DEF UpdateCoupon
<1>5. CASE UNCHANGED doc
  BY <1>4, <1>5, Untold DEF Grows
<1>6. CASE ~UNCHANGED doc
  <2>1. doc' = [doc EXCEPT ![d] = IF call[c].op = "delete" THEN [doc[d] EXCEPT !.live = FALSE] ELSE With(doc[d], call[c].put)]
    BY <1>2, <1>6 DEF UpdateCoupon
  <2>2. doc'[d] = (IF call[c].op = "delete" THEN [doc[d] EXCEPT !.live = FALSE] ELSE With(doc[d], call[c].put))
        /\ \A e \in Docs \ {d} : doc'[e] = doc[e]
    BY <2>1 DEF CallsInv, Frame
  <2>3. /\ DocOK(doc'[d]) /\ doc'[d].stock = doc[d].stock /\ doc'[d].sold = doc[d].sold
        /\ doc'[d].restocks = doc[d].restocks /\ doc'[d].content = doc[d].content /\ (doc'[d].live = TRUE => doc[d].live = TRUE)
    <3>1. CASE call[c].op = "delete"
      BY <1>3, <2>2, <3>1 DEF DocOK, OfRow, DocFields
    <3>2. CASE call[c].op = "active"
      <4>1. DOMAIN call[c].put \subseteq {"active", "role"}
        BY <1>1, <3>2 DEF PutFits
      <4>2. SetOK(call[c].put)
        BY <4>1 DEF SetOK, DocFields
      <4>3. doc'[d] = With(doc[d], call[c].put)
        BY <2>2, <3>2
      <4>4. DocOK(With(doc[d], call[c].put))
        BY <1>3, <4>2, WithOK
      <4>5. \A f \in DocFields \ {"active", "role"} : doc'[d][f] = doc[d][f]
        BY <1>3, <4>1, <4>3 DEF With, DocOK, OfRow
      <4> QED
        BY <4>3, <4>4, <4>5 DEF DocFields
    <3> QED
      BY <1>1, <3>1, <3>2
  <2>4. Grow(d) /\ NewDoc(d)
    BY <1>3, <1>4, <2>3 DEF Grow, NewDoc, DocInv, Counted, DocOK, OfRow, Known
  <2>5. \A e \in Docs \ {d} : Grow(e) /\ NewDoc(e)
    BY <1>4, <2>2, Untold
  <2> QED
    BY <1>4, <2>4, <2>5 DEF Grows
<1> QED
  BY <1>5, <1>6

\* What is created: the form, and no more.
Fresh == [Blank EXCEPT !.live = TRUE]
LEMMA FreshFields ==
  /\ DocOK(Fresh) /\ Fresh.live = TRUE /\ Fresh.stock = 0 /\ Fresh.sold = 0 /\ Fresh.restocks = 0
<1>1. /\ DOMAIN Fresh = DocFields /\ Fresh.live = TRUE /\ Fresh.status = "placed" /\ Fresh.refund = "none" /\ Fresh.asked = 0
      /\ Fresh.stock = 0 /\ Fresh.sold = 0 /\ Fresh.restocks = 0 /\ Fresh.events = 0
  BY DEF Fresh, Blank, DocFields
<1> HIDE DEF Fresh
<1>2. Fresh.live \in BOOLEAN /\ Fresh.status \in Statuses
  BY <1>1 DEF Statuses
<1>3. Fresh.stock \in Nat /\ Fresh.sold \in Nat /\ Fresh.restocks \in Nat /\ Fresh.asked \in Nat
      /\ Fresh.events \in Nat
  BY <1>1
<1>4. Fresh.refund \in {"none", "requested", "completed", "rejected"}
  BY <1>1
<1> QED
  BY <1>1, <1>2, <1>3, <1>4 DEF DocOK, OfRow

LEMMA CreateGrows ==
  ASSUME CallsInv, DocsInv, SentInv, NEW c \in Calls, Create(c)
  PROVE  Grows
<1>1. call[c].st = "sent" /\ call[c].op \in {"coupon", "hire", "add"} /\ PutFits(call[c].op, DOMAIN call[c].put)
  BY DEF Create, CallsInv, CallOK
<1>2. PutOK(call[c].put) /\ "content" \in DOMAIN call[c].put /\ DOMAIN call[c].put \subseteq {"content", "stock"}
  BY <1>1 DEF SentInv, SentRow, PutFits
<1>3. UNCHANGED <<load, outdated>>
  BY DEF Create
<1>4. CASE Taken(c)
  BY <1>3, <1>4, Untold DEF Create, Grows
<1>5. CASE ~Taken(c)
  <2>1. PICK d \in Unused : /\ doc' = [doc EXCEPT ![d] = With(Fresh, call[c].put)]
                            /\ owned' = [owned EXCEPT ![d] = doc'[d].stock]
    BY <1>5 DEF Create, Fresh
  <2>2. d \in Docs /\ doc[d].content = NoOne /\ DocInv(d)
    BY DEF Unused, DocsInv
  <2> DEFINE put == call[c].put
  <2>3. /\ doc'[d] = With(Fresh, put) /\ owned'[d] = doc'[d].stock
        /\ \A e \in Docs \ {d} : doc'[e] = doc[e] /\ owned'[e] = owned[e]
    BY <2>1, <2>2 DEF CallsInv, Frame
  <2> HIDE DEF put, Fresh
  <2>4. SetOK(put) /\ "content" \in DOMAIN put /\ put.content # NoOne /\ DOMAIN put \subseteq {"content", "stock"}
    BY <1>2 DEF SetOK, PutOK, DocFields, put
  <2>5. DocOK(doc'[d])
    BY <2>3, <2>4, FreshFields, WithOK
  <2>6. \A f \in DocFields : doc'[d][f] = IF f \in DOMAIN put THEN put[f] ELSE Fresh[f]
    BY <2>3, FreshFields DEF With, DocOK, OfRow
  <2>7. doc'[d].content # NoOne /\ doc'[d].sold = 0 /\ doc'[d].restocks = 0
    BY <2>4, <2>6, FreshFields DEF DocFields
  <2>8. doc[d].restocks = 0
    BY <2>2 DEF DocInv, DocOK, OfRow, Known
  <2>9. Grow(d)
    BY <2>2, <2>5, <2>7, <2>8, <1>3 DEF Grow, DocInv, Known
  <2>10. NewDoc(d)
    BY <2>3, <2>5, <2>7 DEF NewDoc, DocOK, OfRow
  <2>11. \A e \in Docs \ {d} : Grow(e) /\ NewDoc(e)
    BY <1>3, <2>3, Untold
  <2> QED
    BY <1>3, <2>9, <2>10, <2>11 DEF Grows
<1> QED
  BY <1>4, <1>5

\* A piece is sold.
LEMMA SaleGrows ==
  ASSUME CallsInv, DocsInv, NEW d \in Docs, Sale(d)
  PROVE  Grows
<1>1. DocInv(d) /\ DocOK(doc[d])
  BY DEF DocsInv, DocInv
<1>2. doc' = [doc EXCEPT ![d] = [doc[d] EXCEPT !.stock = @ - 1, !.sold = @ + 1]] /\ UNCHANGED <<load, owned, outdated>>
      /\ doc[d].stock > 0
  BY <1>1 DEF Sale, DocOK, OfRow, DocFields
<1>3. doc'[d] = [doc[d] EXCEPT !.stock = @ - 1, !.sold = @ + 1] /\ \A e \in Docs \ {d} : doc'[e] = doc[e]
  BY <1>2 DEF CallsInv, Frame
<1>4. /\ DOMAIN doc'[d] = DocFields /\ doc'[d].stock = doc[d].stock - 1 /\ doc'[d].sold = doc[d].sold + 1
      /\ \A f \in DocFields \ {"stock", "sold"} : doc'[d][f] = doc[d][f]
  BY <1>1, <1>3 DEF DocOK, OfRow, DocFields
<1>5. /\ doc'[d].live = doc[d].live /\ doc'[d].status = doc[d].status /\ doc'[d].refund = doc[d].refund /\ doc'[d].asked = doc[d].asked
      /\ doc'[d].restocks = doc[d].restocks /\ doc'[d].content = doc[d].content
  BY <1>4 DEF DocFields
<1>6. doc'[d].stock \in Nat /\ doc'[d].sold \in Nat /\ doc'[d].stock + doc'[d].sold = doc[d].stock + doc[d].sold
  BY <1>1, <1>2, <1>4 DEF DocOK, OfRow
<1>7. Grow(d) /\ NewDoc(d)
  BY <1>1, <1>2, <1>4, <1>5, <1>6 DEF Grow, NewDoc, DocInv, Counted, DocOK, OfRow, Known
<1> QED
  BY <1>2, <1>3, <1>7, Untold DEF Grows

\* Paystack's event pays an order.
LEMMA PaidGrows ==
  ASSUME CallsInv, DocsInv, NEW d \in Docs, MarkOrderPaid(d)
  PROVE  Grows
<1>1. DocInv(d) /\ DocOK(doc[d]) /\ DOMAIN doc[d] = DocFields
  BY DEF DocsInv, DocInv, DocOK, OfRow
<1>2. OrderPaid(d)
  BY PaidShape
<1>3. UNCHANGED <<load, owned, outdated>> /\ \A e \in Docs \ {d} : doc'[e] = doc[e]
  BY <1>2 DEF OrderPaid
<1>4. /\ DOMAIN doc'[d] = DocFields /\ doc'[d].events = doc[d].events + 1 /\ doc'[d].status \in {doc[d].status, "confirmed"}
      /\ \A f \in DocFields \ {"paid", "status", "events"} : doc'[d][f] = doc[d][f]
  BY <1>1, <1>2, PaidFields
<1>5. /\ doc'[d].live = doc[d].live /\ doc'[d].refund = doc[d].refund /\ doc'[d].asked = doc[d].asked
      /\ doc'[d].stock = doc[d].stock /\ doc'[d].sold = doc[d].sold
      /\ doc'[d].restocks = doc[d].restocks /\ doc'[d].content = doc[d].content
  BY <1>4 DEF DocFields
<1>6. DocOK(doc'[d])
  BY <1>1, <1>4, <1>5 DEF DocOK, OfRow, Statuses
<1>7. Grow(d) /\ NewDoc(d)
  BY <1>1, <1>3, <1>5, <1>6 DEF Grow, NewDoc, DocInv, Counted, DocOK, OfRow, Known
<1> QED
  BY <1>3, <1>7, Untold DEF Grows

LEMMA DocsServed ==
  ASSUME CallsInv, DocsInv, SentInv, SnapsInv, DeskStep
  PROVE  Grows /\ DocsInv'
<1>1. Grows
  <2>1. ASSUME NEW c \in Calls, List(c) \/ Read(c) \/ Throws(c) \/ RefundUnsaved(c)
        PROVE  Grows
    BY <2>1, Untold DEF List, Read, Throws, RefundUnsaved, Grows
  <2>2. ASSUME NEW k \in Keys, Expire(k)
        PROVE  Grows
    BY <2>2, Untold DEF Expire, Grows
  <2> QED
    BY <2>1, <2>2, SaveGrows, CouponGrows, CreateGrows, SaleGrows, PaidGrows DEF DeskStep
<1> QED
  BY <1>1 DEF Grows, NewDoc, DocsInv, DocInv, Counted, Known

\* A row, as the documents are after a step.
RowNow(d, r) ==
  /\ DocOK(r)
  /\ OfProducts =>
       /\ doc'[d].content # NoOne /\ r.restocks <= doc'[d].restocks
       /\ d \notin outdated' /\ r.restocks = doc'[d].restocks => r.stock + r.sold = owned'[d]

\* What was a row stays one.
LEMMA RowsGrow ==
  ASSUME Grows
  PROVE  \A d \in Docs : \A r : IsRow(d, r) => RowNow(d, r)
<1> SUFFICES ASSUME NEW d \in Docs, NEW r, IsRow(d, r)
             PROVE  RowNow(d, r)
  OBVIOUS
<1>1. Grow(d)
  BY DEF Grows
<1>2. DocOK(r)
  BY DEF IsRow
<1>3. r.restocks \in Nat /\ doc[d].restocks \in Nat /\ doc'[d].restocks \in Nat
  BY <1>1, <1>2 DEF Grow, DocOK, OfRow
<1> QED
  BY <1>1, <1>2, <1>3 DEF Grow, IsRow, RowNow, Counted

\* The documents are rows of themselves.
LEMMA DocRow ==
  ASSUME DocsInv, NEW d \in Docs, NEW s, NEW q, Visible(s, q, d), s = "edit" => d \in load.live \/ doc[d].live = TRUE
  PROVE  IsRow(d, doc[d])
<1>1. DocInv(d) /\ DocOK(doc[d])
  BY DEF DocsInv, DocInv
<1>2. Known(d)
  BY <1>1 DEF DocInv, DocOK, OfRow, Visible
<1> QED
  BY <1>1, <1>2 DEF DocInv, IsRow, DocOK, OfRow

LEMMA ViewRows ==
  ASSUME DocsInv, NEW d \in Docs, NEW s, NEW q, s = "edit" => d \in load.live
  PROVE  RowOf(d, View(s, q)[d])
<1>1. View(s, q)[d] = IF Visible(s, q, d) THEN doc[d] ELSE NoOne
  BY DEF View
<1> QED
  BY <1>1, DocRow DEF RowOf

\* Entries of Redis.
LEMMA KeysServed ==
  ASSUME CallsInv, DocsInv, KeysInv, DeskStep, Grows
  PROVE  KeysInv'
<1> DEFINE Asked(k, d) == k[1] = "single" => d = k[2] /\ d \in load.live
<1>1. ASSUME NEW k \in Keys, NEW d \in Docs, cached'[k] # NoOne, Asked(k, d)
      PROVE  cached'[k][d] = NoOne \/ IsRow(d, cached'[k][d])
  <2>1. CASE cached'[k] = cached[k]
    BY <1>1, <2>1 DEF KeysInv, KeyInv, RowOf
  <2>2. CASE cached' = Nothing
    BY <1>1, <2>2 DEF Nothing
  <2>3. ASSUME NEW kk, cached' = [cached EXCEPT ![kk] = NoOne], cached'[k] # cached[k]
        PROVE  FALSE
    BY <1>1, <2>3 DEF CallsInv, Frame
  <2>4. ASSUME NEW c \in Calls, List(c), cached'[k] # cached[k]
        PROVE  cached'[k][d] = NoOne \/ IsRow(d, cached'[k][d])
    <3>1. PICK s : s = Screen(call[c].page)
      OBVIOUS
    <3>2. s \in {"list", "edit"} /\ k = CacheKey(c) /\ cached'[k] = View(s, call[c].query)
      BY <2>4, <3>1 DEF List, CallsInv, Frame
    <3>3. s = "edit" => k[1] = "single"
      BY <3>1, <3>2 DEF CacheKey
    <3>4. RowOf(d, View(s, call[c].query)[d])
      BY <1>1, <3>3, ViewRows
    <3> QED
      BY <3>2, <3>4 DEF RowOf
  <2> QED
    BY <2>1, <2>2, <2>3, <2>4 DEF DeskStep, Read, Save, Throws, RefundUnsaved, UpdateCoupon, Create, Expire, Sale, MarkOrderPaid
<1>2. ASSUME NEW k \in Keys, NEW d \in Docs, cached'[k] # NoOne, k[1] = "single" => d = k[2] /\ d \in load'.live
      PROVE  cached'[k][d] = NoOne \/ RowNow(d, cached'[k][d])
  BY <1>1, <1>2, RowsGrow DEF Grows
<1>3. UNCHANGED load
  BY DEF Grows
<1> QED
  BY <1>2, <1>3 DEF KeysInv, KeyInv, RowOf, IsRow, RowNow, Known, Counted, OfProducts, Screen

\* What a page will be answered, as the documents are after a step.
HeardNow(x) ==
  call'[x].st = "served" =>
    /\ call'[x].op = "list" => \A d \in Docs : (Screen(call'[x].page) = "edit" => d = call'[x].doc)
                                                 => call'[x].heard[d] = NoOne \/ RowNow(d, call'[x].heard[d])
    /\ call'[x].ans = "ok" /\ call'[x].op \in {"status", "ask", "active", "member"} => DocOK(call'[x].heard)

LEMMA HeardStays ==
  ASSUME HeardInv, Grows, NEW x \in Calls, call'[x] = call[x]
  PROVE  HeardNow(x)
<1>1. HeardRows(x)
  BY DEF HeardInv
<1> QED
  BY <1>1, RowsGrow DEF HeardRows, HeardNow, RowOf

\* A list is answered, from the documents or from Redis.
LEMMA HeardList ==
  ASSUME CallsInv, DocsInv, KeysInv, Grows, NEW c \in Calls, List(c)
  PROVE  HeardNow(c)
<1>1. call[c].st = "sent" /\ call[c].op = "list" /\ Asking(c)
  BY DEF List, CallsInv, CallOK
<1>2. Answers(c)
  BY ListShape
<1>3. call'[c].op = "list" /\ call'[c].page = call[c].page /\ call'[c].doc = call[c].doc
  BY <1>1, <1>2 DEF Answers, Keeps, CallFields
<1>4. ASSUME NEW d \in Docs, Screen(call[c].page) = "edit" => d = call[c].doc
      PROVE  call'[c].heard[d] = NoOne \/ IsRow(d, call'[c].heard[d])
  <2>1. PICK s : s = Screen(call[c].page)
    OBVIOUS
  <2>2. s = "edit" => d \in load.live
    BY <1>1, <1>4, <2>1 DEF Asking, DocFits
  <2>3. RowOf(d, View(s, call[c].query)[d])
    BY <2>2, ViewRows
  <2>4. CASE s \notin {"list", "edit"}
    BY <2>1, <2>3, <2>4, ListShape DEF RowOf
  <2>5. CASE s \in {"list", "edit"}
    <3>1. PICK k \in Keys : k = CacheKey(c)
      <4>1. <<"single", d>> \in Keys /\ <<"list", 1>> \in Keys /\ <<"list", 2>> \in Keys
        BY DEF Keys
      <4>2. s = "edit" => CacheKey(c) = <<"single", d>>
        BY <1>4, <2>1 DEF CacheKey
      <4>3. s = "list" => CacheKey(c) = <<"list", 1>> \/ CacheKey(c) = <<"list", 2>>
        BY <1>1, <2>1 DEF Asking, QueryFits, CacheKey
      <4> QED
        BY <2>5, <4>1, <4>2, <4>3
    <3>2. call'[c].heard = (IF cached[k] = NoOne THEN View(s, call[c].query) ELSE cached[k])
      <4>1. cached' = [cached EXCEPT ![k] = IF cached[k] = NoOne THEN View(s, call[c].query) ELSE cached[k]]
            /\ Reply(c, "ok", cached'[k])
        BY <2>1, <2>5, <3>1 DEF List
      <4>2. cached'[k] = (IF cached[k] = NoOne THEN View(s, call[c].query) ELSE cached[k])
        BY <4>1 DEF CallsInv, Frame
      <4>3. call'[c].heard = cached'[k]
        <5>1. DOMAIN call[c] = CallFields /\ DOMAIN call = Calls
          BY DEF CallsInv, CallOK, Frame
        <5> QED
          BY <4>1, <5>1 DEF Reply, CallFields
      <4> QED
        BY <4>2, <4>3
    <3>3. k[1] = "single" => d = k[2] /\ d \in load.live
      BY <1>4, <2>1, <2>2, <2>5, <3>1 DEF CacheKey
    <3>4. cached[k] # NoOne => RowOf(d, cached[k][d])
      BY <3>3 DEF KeysInv, KeyInv
    <3> QED
      BY <2>3, <3>2, <3>4 DEF RowOf
  <2> QED
    BY <2>4, <2>5
<1> QED
  BY <1>3, <1>4, RowsGrow DEF HeardNow

\* A change is answered with the document in memory.
LEMMA HeardServed ==
  ASSUME CallsInv, DocsInv, KeysInv, HeardInv, SentInv, SnapsInv, DeskStep, Grows
  PROVE  HeardInv'
<1>1. ASSUME NEW c \in Calls, Save(c)
      PROVE  HeardNow(c)
  <2>1. SetOK(Effect(c)) /\ DocOK(call[c].snap)
    BY <1>1, SaveGrows
  <2>2. DocOK(With(call[c].snap, Effect(c)))
    BY <2>1, WithOK
  <2>3. call[c].st = "saving" /\ Reply(c, "ok", With(call[c].snap, Effect(c))) /\ call[c].op # "list"
    BY <1>1 DEF Save, CallsInv, CallOK, ReadThenSave
  <2>4. Answers(c) /\ call'[c].heard = With(call[c].snap, Effect(c))
    BY <2>3, ReplyAnswers
  <2>5. call'[c].op # "list"
    BY <2>3, <2>4 DEF Answers, Keeps, CallFields
  <2> QED
    BY <2>2, <2>4, <2>5 DEF HeardNow
<1>2. ASSUME NEW c \in Calls, UpdateCoupon(c)
      PROVE  HeardNow(c)
  <2>1. call[c].st = "sent" /\ call[c].op \in {"active", "delete"} /\ Asking(c)
    BY <1>2 DEF UpdateCoupon, CallsInv, CallOK
  <2>2. PICK d \in Docs : d = call[c].doc
    BY <2>1 DEF Asking, DocFits
  <2>3. Reply(c, "error", NoOne) \/ Reply(c, "ok", doc'[d])
    BY <1>2, <2>2 DEF UpdateCoupon
  <2>4. Answers(c) /\ (call'[c].ans = "error" \/ call'[c].heard = doc'[d])
    BY <2>1, <2>3, ReplyAnswers
  <2>5. DocOK(doc'[d])
    BY DEF Grows, Grow
  <2>6. call'[c].op # "list"
    BY <2>1, <2>4 DEF Answers, Keeps, CallFields
  <2> QED
    BY <2>4, <2>5, <2>6 DEF HeardNow
<1>3. ASSUME NEW c \in Calls, Create(c)
      PROVE  HeardNow(c)
  <2>1. call[c].op \in {"coupon", "hire", "add"} /\ Answers(c)
    BY <1>3, CreateShape DEF Create
  <2>2. call'[c].op = call[c].op
    BY <2>1 DEF Answers, Keeps, CallFields
  <2> QED
    BY <2>1, <2>2 DEF HeardNow
<1>4. ASSUME NEW c \in Calls, Read(c) \/ Throws(c) \/ RefundUnsaved(c)
      PROVE  HeardNow(c)
  <2>1. call[c].op # "list" /\ (Reads(c) \/ (Answers(c) /\ call'[c].ans # "ok"))
    <3>1. CASE Throws(c) \/ RefundUnsaved(c)
      BY <3>1, ThrowShape DEF Throws, RefundUnsaved
    <3>2. CASE Read(c)
      <4>1. call[c].op \in ReadThenSave /\ call[c].st = "sent"
        BY <3>2 DEF Read
      <4>2. CASE Reply(c, "error", NoOne)
        BY <4>1, <4>2, ReplyAnswers DEF ReadThenSave
      <4>3. CASE ~Reply(c, "error", NoOne)
        <5>1. call' = [call EXCEPT ![c].st = "saving", ![c].snap = doc[call[c].doc]]
          BY <3>2, <4>3 DEF Read
        <5>2. call'[c].st = "saving"
          BY <5>1 DEF CallsInv, Frame, CallOK, CallFields
        <5>3. Answers(c) \/ Reads(c)
          BY <3>2, ReadShape
        <5> QED
          BY <4>1, <5>2, <5>3 DEF Answers, ReadThenSave
      <4> QED
        BY <4>2, <4>3
    <3> QED
      BY <1>4, <3>1, <3>2
  <2>2. call'[c].op # "list" /\ (call'[c].st = "served" => call'[c].ans # "ok")
    BY <2>1 DEF Reads, Answers, Keeps, CallFields
  <2> QED
    BY <2>2 DEF HeardNow
<1>5. ASSUME NEW c \in Calls, List(c) \/ Read(c) \/ Save(c) \/ Throws(c) \/ RefundUnsaved(c) \/ UpdateCoupon(c) \/ Create(c), NEW x \in Calls
      PROVE  HeardNow(x)
  <2>1. OnlyCall(c)
    BY <1>5, ListShape, ReadShape, SaveShape, ThrowShape, CouponShape, CreateShape
  <2> QED
    BY <1>1, <1>2, <1>3, <1>4, <1>5, <2>1, HeardList, HeardStays DEF OnlyCall
<1>6. ASSUME UNCHANGED call, NEW x \in Calls
      PROVE  HeardNow(x)
  BY <1>6, HeardStays
<1>7. \A x \in Calls : HeardNow(x)
  BY <1>5, <1>6 DEF DeskStep, Expire, Sale, MarkOrderPaid
<1>8. UNCHANGED load
  BY DEF Grows
<1> QED
  BY <1>7, <1>8 DEF HeardInv, HeardRows, HeardNow, RowOf, IsRow, RowNow, Known, Counted, OfProducts, Screen

\* Requests at the server keep what they carry.
LEMMA SentServed ==
  ASSUME CallsInv, SentInv, DeskStep, Grows
  PROVE  SentInv'
<1> SUFFICES ASSUME NEW x \in Calls, call'[x].st \in {"sent", "saving"}
             PROVE  SentRow(x)'
  BY DEF SentInv, SentRow
<1>1. call'[x] = call[x] \/ Reads(x)
  BY DeskQuiet DEF Answers
<1>2. /\ call[x].st \in {"sent", "saving"} /\ call'[x].op = call[x].op /\ call'[x].chose = call[x].chose
      /\ call'[x].put = call[x].put /\ call'[x].row = call[x].row /\ call'[x].doc = call[x].doc
      /\ call'[x].st = "sent" => call[x].st = "sent"
  BY <1>1 DEF Reads, Keeps, CallFields
<1>3. AsFilled(x)' = AsFilled(x)
  BY <1>2 DEF AsFilled, Restocks
<1>4. SentRow(x)
  BY DEF SentInv
<1>5. ASSUME call'[x].st = "sent", AsFilled(x)
      PROVE  RowNow(call[x].doc, call[x].row) \/ ByHand(call[x].row)
  <2>1. call[x].doc \in Docs
    BY <1>2, <1>5 DEF CallsInv, CallOK, Asking, DocFits, AsFilled
  <2> QED
    BY <1>2, <1>4, <1>5, <2>1, RowsGrow DEF SentRow
<1>6. PutOK(call'[x].put) /\ (AsFilled(x)' => FilledOK(call'[x].put, call'[x].row))
  BY <1>2, <1>3, <1>4 DEF SentRow
<1>7. UNCHANGED load
  BY DEF Grows
<1>8. (call'[x].st = "sent" /\ AsFilled(x)') => RowNow(call'[x].doc, call'[x].row) \/ ByHand(call'[x].row)
  BY <1>2, <1>3, <1>5
<1> QED
  BY <1>6, <1>7, <1>8 DEF SentRow, IsRow, RowNow, Known, Counted, OfProducts, Screen

LEMMA SnapsServed ==
  ASSUME CallsInv, DocsInv, SentInv, SnapsInv, DeskStep, Grows
  PROVE  SnapsInv'
<1> SUFFICES ASSUME NEW x \in Calls, call'[x].st = "saving"
             PROVE  SnapRow(x)'
  BY DEF SnapsInv, SnapRow
<1>1. call'[x] = call[x] \/ Reads(x)
  BY DeskQuiet DEF Answers
<1>2. /\ call[x].st \in {"sent", "saving"} /\ call'[x].op = call[x].op /\ call'[x].chose = call[x].chose
      /\ call'[x].row = call[x].row /\ call'[x].doc = call[x].doc /\ call[x].op \in ReadThenSave
  <2>1. call'[x] = call[x] => call[x].op \in ReadThenSave
    BY DEF CallsInv, CallOK
  <2> QED
    BY <1>1, <2>1 DEF Reads, Keeps, CallFields
<1>3. AsFilled(x)' = AsFilled(x)
  BY <1>2 DEF AsFilled, Restocks
<1>4. PICK d \in Docs : d = call[x].doc
  BY <1>2 DEF CallsInv, CallOK, Asking, DocFits, ReadThenSave
<1>5. Grow(d) /\ DocOK(doc[d]) /\ DocInv(d)
  BY DEF Grows, Grow, DocsInv
<1>6. CASE call'[x] = call[x]
  <2>1. DocOK(call[x].snap) /\ call[x].snap.restocks <= doc[d].restocks /\ (call[x].snap.content # NoOne => Known(d))
        /\ (AsFilled(x) /\ d \notin outdated => Level(call[x].row, call[x].snap))
    BY <1>4, <1>6 DEF SnapsInv, SnapRow
  <2>2. /\ call'[x].snap.restocks <= doc'[d].restocks /\ (call'[x].snap.content # NoOne => doc'[d].content # NoOne)
        /\ d \notin outdated' => d \notin outdated
    BY <1>5, <1>6, <2>1 DEF Grow, DocOK, OfRow
  <2> QED
    BY <1>3, <1>4, <1>6, <2>1, <2>2 DEF SnapRow, Known
<1>7. CASE Reads(x)
  <2>1. call'[x].snap = doc[d] /\ call[x].st = "sent"
    BY <1>4, <1>7 DEF Reads
  <2>2. ASSUME AsFilled(x), d \notin outdated'
        PROVE  Level(call[x].row, doc[d])
    <3>1. OfProducts
      BY <1>2, <2>2, ProductOps DEF AsFilled
    <3>2. CASE IsRow(d, call[x].row)
      BY <1>5, <2>2, <3>1, <3>2 DEF Grow, DocInv, IsRow, Counted, Level
    <3>3. CASE ByHand(call[x].row)
      BY <1>5, <3>3, DeskAssumption DEF ByHand, DocOK, OfRow, Level
    <3> QED
      BY <1>4, <2>1, <2>2, <3>2, <3>3 DEF SentInv, SentRow
  <2>3. doc[d].restocks <= doc'[d].restocks /\ (doc[d].content # NoOne => doc'[d].content # NoOne)
    BY <1>5 DEF Grow, Known, DocOK, OfRow
  <2> QED
    BY <1>2, <1>3, <1>4, <1>5, <2>1, <2>2, <2>3 DEF SnapRow, Known
<1> QED
  BY <1>1, <1>6, <1>7

\* What pages wait for, and show.
LEMMA EditsServed ==
  ASSUME CallsInv, EditsInv, DeskStep, UNCHANGED page
  PROVE  EditsInv'
<1> SUFFICES ASSUME NEW x \in Calls
             PROVE  EditList(x)'
  BY DEF EditsInv
<1>1. UNCHANGED load /\ (call'[x] = call[x] \/ Reads(x) \/ Answers(x))
  BY DeskQuiet
<1>2. EditList(x)
  BY DEF EditsInv
<1> QED
  BY <1>1, <1>2 DEF EditList, Alive, Over, Reads, Answers, Keeps, CallFields, Screen

LEMMA RowsServed ==
  ASSUME CallsInv, DocsInv, SentInv, SnapsInv, FormRowsInv, PageRowsInv, DeskStep, UNCHANGED page, Grows
  PROVE  FormRowsInv' /\ PageRowsInv'
<1>0. UNCHANGED load
  BY DEF Grows
<1>1. ASSUME NEW p \in Pages, NEW d \in Docs
      PROVE  page'[p].rows[d] = NoOne \/ RowNow(d, page'[p].rows[d])
  BY RowsGrow DEF PageRowsInv, PageRows, RowOf
<1>2. PageRowsInv'
  BY <1>0, <1>1 DEF PageRowsInv, PageRows, RowOf, IsRow, RowNow, Known, Counted, OfProducts, Screen
<1>3. ASSUME NEW p \in Pages
      PROVE  FormRow(p)'
  <2>1. FormRow(p)
    BY DEF FormRowsInv
  <2>2. PICK f : f = page[p].form
    OBVIOUS
  <2>3. \A d \in Docs : IsRow(d, f.row) => IsRow(d, f.row)'
    BY <1>0, RowsGrow DEF IsRow, RowNow, Known, Counted, OfProducts, Screen
  <2> QED
    BY <1>0, <2>1, <2>2, <2>3 DEF FormRow, OfProducts, Screen
<1> QED
  BY <1>2, <1>3 DEF FormRowsInv

\* What the pages do leaves the documents alone.
Desked == UNCHANGED <<load, doc, cached, owned, outdated>>
Goes(x) ==
  \/ call'[x] = call[x] \/ Left(x) \/ Ends(x) \/ Again(x)
  \/ /\ Sent(x) /\ PutOK(call'[x].put)
     /\ call'[x].op = "edit" /\ call'[x].chose = NoOne =>
          FilledOK(call'[x].put, call'[x].row) /\ (IsRow(call'[x].doc, call'[x].row) \/ ByHand(call'[x].row))

LEMMA CallsAsked ==
  ASSUME CallsInv, DocsInv, KeysInv, HeardInv, SentInv, SnapsInv, Desked, \A x \in Calls : Goes(x)
  PROVE  DocsInv' /\ KeysInv' /\ HeardInv' /\ SentInv' /\ SnapsInv'
<1>1. UNCHANGED <<load, doc, cached, owned, outdated>>
  BY DEF Desked
<1>2. DocsInv' /\ KeysInv'
  BY <1>1 DEF DocsInv, DocInv, KeysInv, KeyInv, RowOf, IsRow, Known, Counted, OfProducts, Screen
<1>3. ASSUME NEW x \in Calls
      PROVE  HeardRows(x)' /\ SnapRow(x)' /\ SentRow(x)'
  <2>1. HeardRows(x) /\ SnapRow(x) /\ SentRow(x)
    BY DEF HeardInv, SnapsInv, SentInv
  <2>2. CASE call'[x] = call[x] \/ Left(x)
    <3>1. /\ call'[x].st = call[x].st /\ call'[x].page = call[x].page /\ call'[x].op = call[x].op /\ call'[x].doc = call[x].doc
          /\ call'[x].put = call[x].put /\ call'[x].chose = call[x].chose /\ call'[x].row = call[x].row
          /\ call'[x].snap = call[x].snap /\ call'[x].ans = call[x].ans /\ call'[x].heard = call[x].heard
      BY <2>2 DEF Left, Keeps, CallFields
    <3>2. AsFilled(x)' = AsFilled(x)
      BY <3>1 DEF AsFilled, Restocks
    <3>3. HeardRows(x)'
      BY <1>1, <2>1, <3>1 DEF HeardRows, RowOf, IsRow, Known, Counted, OfProducts, Screen
    <3>4. SnapRow(x)'
      BY <1>1, <2>1, <3>1, <3>2 DEF SnapRow, Known
    <3>5. SentRow(x)'
      BY <1>1, <2>1, <3>1, <3>2 DEF SentRow, IsRow, Known, Counted, OfProducts, Screen
    <3> QED
      BY <3>3, <3>4, <3>5
  <2>3. CASE Ends(x)
    BY <2>3 DEF Ends, HeardRows, SnapRow, SentRow
  <2>4. CASE Again(x)
    <3>1. PutOK(<<>>)
      BY DEF PutOK
    <3> QED
      BY <2>4, <3>1 DEF Again, HeardRows, SnapRow, SentRow, AsFilled
  <2>5. CASE Sent(x) /\ ~(call'[x] = call[x] \/ Left(x) \/ Ends(x) \/ Again(x))
    <3>1. /\ call'[x].st = "sent" /\ PutOK(call'[x].put)
          /\ call'[x].op = "edit" /\ call'[x].chose = NoOne =>
               FilledOK(call'[x].put, call'[x].row) /\ (IsRow(call'[x].doc, call'[x].row) \/ ByHand(call'[x].row))
      BY <2>5 DEF Goes, Sent
    <3>2. AsFilled(x)' => call'[x].op = "edit" /\ call'[x].chose = NoOne
      BY DEF AsFilled, Restocks
    <3>3. HeardRows(x)' /\ SnapRow(x)'
      BY <3>1 DEF HeardRows, SnapRow
    <3>4. SentRow(x)'
      BY <1>1, <3>1, <3>2 DEF SentRow, IsRow, Known, Counted, OfProducts, Screen
    <3> QED
      BY <3>3, <3>4
  <2> QED
    BY <2>2, <2>3, <2>4, <2>5 DEF Goes
<1> QED
  BY <1>2, <1>3 DEF HeardInv, SnapsInv, SentInv

\* What becomes of the rows and the form of a page.
FormAsBefore(p) ==
  LET f == page[p].form
      g == page'[p].form IN
  g.doc = f.doc /\ g.row = f.row /\ (f = NoForm => g = NoForm)
FormEmpty(p) == page'[p].form.row = NoOne /\ (Screen(p) = "selling" => page'[p].form = NoForm)
FormGiven(p) ==
  LET g == page'[p].form IN
  DocOK(g.row) /\ (OfProducts => g.doc \in Docs /\ IsRow(g.doc, g.row))
FormTyped(p) == Screen(p) = "products" /\ page'[p].form.doc \in Docs /\ ByHand(page'[p].form.row)
RowsGiven(p) == \A d \in Docs : page'[p].rows[d] = page[p].rows[d] \/ RowOf(d, page'[p].rows[d])

LEMMA PagesAsked ==
  ASSUME FormRowsInv, PageRowsInv, Desked,
         \A p \in Pages : RowsGiven(p) /\ (FormAsBefore(p) \/ FormEmpty(p) \/ FormGiven(p) \/ FormTyped(p))
  PROVE  FormRowsInv' /\ PageRowsInv'
<1>1. UNCHANGED <<load, doc, cached, owned, outdated>>
  BY DEF Desked
<1>2. ASSUME NEW p \in Pages, NEW d \in Docs
      PROVE  RowOf(d, page'[p].rows[d])
  BY DEF RowsGiven, PageRowsInv, PageRows
<1>3. PageRowsInv'
  BY <1>1, <1>2 DEF PageRowsInv, PageRows, RowOf, IsRow, Known, Counted, OfProducts, Screen
<1>4. ASSUME NEW p \in Pages
      PROVE  FormRow(p)'
  <2>1. CASE FormAsBefore(p)
    <3>1. FormRow(p) /\ page'[p].form.doc = page[p].form.doc
          /\ page'[p].form.row = page[p].form.row /\ (page[p].form = NoForm => page'[p].form = NoForm)
      BY <2>1 DEF FormRowsInv, FormAsBefore
    <3> QED
      BY <1>1, <3>1 DEF FormRow, IsRow, Known, Counted, OfProducts, Screen
  <2>2. CASE FormEmpty(p)
    BY <1>1, <2>2 DEF FormEmpty, FormRow, Screen
  <2>3. CASE FormGiven(p)
    BY <1>1, <2>3 DEF FormGiven, FormRow, IsRow, Known, Counted, OfProducts, Screen
  <2>4. CASE FormTyped(p)
    BY <1>1, <2>4 DEF FormTyped, FormRow, Screen
  <2> QED
    BY <2>1, <2>2, <2>3, <2>4
<1> QED
  BY <1>3, <1>4 DEF FormRowsInv

LEMMA ScreenKind ==
  ASSUME CallsInv, NEW p \in Pages
  PROVE  OfProducts <=> Screen(p) \in ProductScreens
<1>1. PICK kind \in {OrderScreens, {"coupons"}, {"staff"}, ProductScreens} : \A q \in Pages : load.screen[q] \in kind
  BY DeskAssumption DEF CallsInv, Frame
<1> QED
  BY <1>1 DEF OfProducts, OrderScreens, ProductScreens, Screen

\* A form is sent with what was typed into it.
LEMMA RowsSubmitted ==
  ASSUME CallsInv, FormRowsInv, NEW c \in Calls, NEW p \in Pages, SubmitShape(c, p)
  PROVE  /\ Desked /\ \A x \in Calls : Goes(x)
         /\ \A q \in Pages : RowsGiven(q) /\ (FormAsBefore(q) \/ FormEmpty(q) \/ FormGiven(q) \/ FormTyped(q))
<1>1. PICK chose \in Choices(p) : \E put \in Puts(p, chose) :
        /\ Made(call'[c], p, SubmitOp(p), page[p].form.doc, page[p].query, put, chose, page[p].form.row, page[p].form.n)
        /\ OnlyPage(p, [page[p] EXCEPT !.form = Typed(p, chose, put)])
  BY DEF SubmitShape
<1>2. PICK put \in Puts(p, chose) :
        /\ Made(call'[c], p, SubmitOp(p), page[p].form.doc, page[p].query, put, chose, page[p].form.row, page[p].form.n)
        /\ OnlyPage(p, [page[p] EXCEPT !.form = Typed(p, chose, put)])
  BY <1>1
<1>3. /\ DOMAIN page[p] = PageFields /\ FormOK(page[p].form, p) /\ page[p].form # NoForm
      /\ DOMAIN page[p].form = FormFields /\ page[p].form.n \in Nat /\ page[p].form.n > 0 /\ page[p].form.busy = FALSE
  BY DEF SubmitShape, CallsInv, PageOK, RecordOK, FormOK
<1> DEFINE f == page[p].form
           g == page'[p].form
           r == f.row
           Hand == Screen(p) = "products" /\ chose # NoOne
<1>4. /\ g.doc = f.doc
      /\ g.row = IF r = NoOne THEN r ELSE IF Hand THEN [With(r, put) EXCEPT !.restocks = NoOne] ELSE With(r, put)
      /\ page'[p].rows = page[p].rows /\ \A q \in Pages \ {p} : page'[q] = page[q]
  <2>1. /\ Typed(p, chose, put).doc = f.doc
        /\ Typed(p, chose, put).row =
             IF r = NoOne THEN r ELSE IF Hand THEN [With(r, put) EXCEPT !.restocks = NoOne] ELSE With(r, put)
    BY <1>3 DEF Typed, FormFields
  <2>2. page'[p].form = Typed(p, chose, put) /\ page'[p].rows = page[p].rows /\ \A q \in Pages \ {p} : page'[q] = page[q]
    <3> HIDE DEF Typed
    <3> QED
      BY <1>2, <1>3 DEF OnlyPage, PageFields
  <2> HIDE DEF Typed
  <2> QED
    BY <2>1, <2>2
<1>5. /\ call'[c].put = put /\ call'[c].chose = chose /\ call'[c].row = r /\ call'[c].doc = f.doc
      /\ call'[c].op = SubmitOp(p)
  BY <1>2 DEF Made
<1>6. /\ Desked /\ Sent(c) /\ \A x \in Calls \ {c} : call'[x] = call[x]
  BY DEF SubmitShape, OnlyCall, desk, Desked
<1>7. FormRow(p)
  BY DEF FormRowsInv
<1>8. UNCHANGED <<load, doc, cached, owned, outdated>>
  BY <1>6 DEF Desked
<1> HIDE DEF f, g, r
<1>9. \A q \in Pages : RowsGiven(q)
  BY <1>4 DEF RowsGiven
<1>10. \A q \in Pages \ {p} : FormAsBefore(q)
  BY <1>4 DEF FormAsBefore
<1>11. OfRow(r) \/ r = NoOne
  BY <1>7 DEF FormRow, DocOK, OfRow, ByHand, f, r
<1>12. /\ PutOK(put) /\ SetOK(put)
       /\ SubmitOp(p) = "edit" /\ chose = NoOne => FilledOK(put, r) /\ (IsRow(f.doc, r) \/ ByHand(r))
       /\ FormEmpty(p) \/ FormGiven(p) \/ FormTyped(p)
  <2>1. CASE Screen(p) = "selling"
    <3>1. DocOK(r)
      BY <1>3, <1>7, <2>1 DEF FormRow, f, r
    <3>2. put \in PanelPut(p, chose) /\ chose \in Targets \cup {NoOne} /\ SubmitOp(p) = "status"
      BY <1>2, <2>1 DEF Puts, Choices, SubmitOp
    <3>3. DOMAIN put \subseteq {"status", "tracking"} /\ put.status = (IF chose = NoOne THEN Status(p) ELSE chose)
      BY <3>2 DEF PanelPut
    <3>4. put.status \in Statuses
      BY <3>1, <3>2, <3>3 DEF Status, DocOK, OfRow, f, r, Statuses
    <3>5. PutOK(put) /\ SetOK(put)
      BY <3>3, <3>4 DEF PutOK, SetOK, DocFields
    <3>6. DocOK(g.row)
      BY <1>4, <2>1, <3>1, <3>5, WithOK DEF DocOK, OfRow
    <3>7. ~OfProducts
      BY <2>1, ScreenKind DEF ProductScreens
    <3> QED
      BY <3>2, <3>5, <3>6, <3>7 DEF FormGiven, g
  <2>2. <<p, f.n>> # NoOne
    BY <1>3, DeskAssumption DEF f
  <2>3. CASE Screen(p) \in {"coupons", "staff"}
    <3>1. put = [content |-> <<p, f.n>>] /\ SubmitOp(p) \in {"coupon", "hire"}
      BY <1>2, <2>3 DEF Puts, SubmitOp, Content, f
    <3>2. PutOK(put) /\ SetOK(put)
      BY <2>2, <3>1 DEF PutOK, SetOK, DocFields
    <3>3. r = NoOne => FormEmpty(p)
      BY <1>4, <2>3 DEF FormEmpty, g
    <3>5. ~OfProducts
      BY <2>3, ScreenKind DEF ProductScreens
    <3>4. r # NoOne => DocOK(g.row)
      BY <1>4, <1>7, <2>3, <3>2, WithOK DEF FormRow, f, r
    <3> QED
      BY <3>1, <3>2, <3>3, <3>4, <3>5 DEF FormGiven, g
  <2>4. CASE Screen(p) \notin {"selling", "coupons", "staff"}
    <3>1. /\ put = [content |-> <<p, f.n>>, stock |-> IF chose = NoOne THEN r.stock ELSE chose]
          /\ chose = InitialStock \/ (chose = NoOne /\ r # NoOne)
          /\ SubmitOp(p) = IF f.doc = NoOne THEN "add" ELSE "edit"
      <4>1. Screen(p) = "edit" => r # NoOne
        BY DEF SubmitShape, f, r
      <4> QED
        BY <1>2, <2>4, <4>1 DEF Puts, Choices, SubmitOp, ProductPut, Content, Stock, f, r
    <3>2. put.stock \in Nat
      BY <1>11, <3>1, DeskAssumption DEF OfRow
    <3>3. PutOK(put) /\ SetOK(put)
      BY <2>2, <3>1, <3>2 DEF PutOK, SetOK, DocFields
    <3>4. Screen(p) \in {"add", "edit", "products"} /\ OfProducts
      BY <1>3, <2>4, ScreenKind DEF FormOK, FormOnPage, ProductScreens, f
    <3>5. CASE r = NoOne
      <4>1. FormEmpty(p) /\ chose # NoOne
        BY <1>4, <2>4, <3>1, <3>5, DeskAssumption DEF FormEmpty, g
      <4> QED
        BY <3>3, <4>1
    <3>6. CASE r # NoOne
      <4>1. f.doc \in Docs /\ (IsRow(f.doc, r) \/ (ByHand(r) /\ Screen(p) = "products"))
        BY <1>7, <3>4, <3>6 DEF FormRow, f, r
      <4>2. SubmitOp(p) = "edit" /\ (FilledOK(put, r) \/ chose # NoOne)
        BY <1>11, <3>1, <3>6, <4>1, DeskAssumption DEF FilledOK
      <4>3. OfRow(With(r, put)) /\ With(r, put).stock = put.stock /\ With(r, put).sold = r.sold
            /\ With(r, put).restocks = r.restocks
        <5>1. \A k \in DocFields : With(r, put)[k] = IF k \in DOMAIN put THEN put[k] ELSE r[k]
          BY <1>11, <3>6 DEF With, OfRow
        <5> QED
          BY <1>11, <3>1, <3>3, <3>6, <5>1, WithRow DEF DocFields
      <4>4. CASE chose # NoOne
        <5>1. Screen(p) = "products"
          <6>1. Screen(p) # "add"
            BY <1>3, <4>1, DeskAssumption DEF FormOK, f
          <6>2. Screen(p) # "edit"
            BY <1>2, <4>4 DEF Choices
          <6> QED
            BY <3>4, <6>1, <6>2
        <5>2. g.row = [With(r, put) EXCEPT !.restocks = NoOne]
          BY <1>4, <3>6, <4>4, <5>1 DEF Hand
        <5>3. ByHand(g.row)
          BY <4>3, <5>2 DEF ByHand, OfRow, DocFields
        <5> QED
          BY <1>4, <3>3, <4>1, <4>4, <5>1, <5>3 DEF FormTyped, g
      <4>5. CASE chose = NoOne
        <5>1. g.row = With(r, put) /\ put.stock = r.stock
          BY <1>4, <3>1, <3>6, <4>5 DEF Hand
        <5>2. CASE IsRow(f.doc, r)
          <6>1. IsRow(f.doc, g.row)
            BY <4>3, <5>1, <5>2 DEF IsRow, Counted, DocOK, OfRow
          <6> QED
            BY <1>4, <3>3, <4>1, <4>2, <4>5, <5>2, <6>1 DEF FormGiven, IsRow, g
        <5>3. CASE ByHand(r) /\ Screen(p) = "products"
          <6>1. ByHand(g.row)
            BY <4>3, <5>1, <5>3 DEF ByHand
          <6> QED
            BY <1>4, <3>3, <4>1, <4>2, <4>5, <5>3, <6>1 DEF FormTyped, g
        <5> QED
          BY <4>1, <5>2, <5>3
      <4> QED
        BY <4>4, <4>5
    <3> QED
      BY <3>5, <3>6
  <2> QED
    BY <2>1, <2>3, <2>4
<1>13. \A x \in Calls : Goes(x)
  BY <1>5, <1>6, <1>12 DEF Goes
<1> QED
  BY <1>6, <1>9, <1>10, <1>12, <1>13

\* Edit goes on waiting for its product.
LEMMA EditsAsked ==
  ASSUME CallsInv, EditsInv, UNCHANGED load,
         \A x \in Calls : \/ call'[x] = call[x] \/ Left(x) \/ Ends(x) \/ Again(x)
                          \/ call'[x].op # "list" \/ Screen(call'[x].page) # "edit",
         \A p \in Pages : Screen(p) = "edit" => page'[p].form.doc = page[p].form.doc \/ NoneWaits(p)'
  PROVE  EditsInv'
<1> SUFFICES ASSUME NEW x \in Calls, Alive(x)', call'[x].op = "list", Screen(call'[x].page) = "edit", x \notin Over'
             PROVE  call'[x].doc = page'[call'[x].page].form.doc
  BY DEF EditsInv, EditList, Screen
<1>1. call'[x] = call[x]
  <2>1. ~Left(x) /\ ~Ends(x)
    BY DEF Left, Ends, Alive, Over
  <2>2. ~Again(x)
    BY DEF Again
  <2> QED
    BY <2>1, <2>2
<1>2. Alive(x) /\ x \notin Over
  BY <1>1 DEF Alive, Over
<1>3. call[x].page \in Pages
  BY <1>2, OfPage
<1>4. page'[call[x].page].form.doc = page[call[x].page].form.doc
  BY <1>1, <1>3 DEF NoneWaits
<1> QED
  BY <1>1, <1>2, <1>4 DEF EditsInv, EditList

LEMMA ReadingsAnswered ==
  ASSUME CallsInv, SinglesInv, ReadingsInv, AllMove, NEW c \in Calls, AnswerShape(c)
  PROVE  ReadingsInv'
<1>1. call[c].st = "served"
  BY DEF AnswerShape, EndShape, ArriveShape, RowArriveShape, LeaveShape, AgainShape, DoneShape, FailShape, Ends, Again
<1>2. Asking(c)
  BY <1>1 DEF CallsInv, CallOK
<1>3. PICK p \in Pages : p = call[c].page
  BY <1>2 DEF Asking
<1>4. OnlyCall(c) /\ (Ends(c) \/ Again(c)) /\ Desked
  BY DEF AnswerShape, EndShape, ArriveShape, RowArriveShape, LeaveShape, AgainShape, DoneShape, FailShape, desk, Desked
<1>5. \A x \in Calls : Goes(x)
  BY <1>4 DEF OnlyCall, Goes
<1>6. \A q \in Pages \ {p} : page'[q] = page[q]
  BY <1>3 DEF AnswerShape, ArriveShape, RowArriveShape, LeaveShape, AgainShape, DoneShape, FailShape, FreedPage
<1>8. \A q \in Pages \ {p} : RowsGiven(q) /\ FormAsBefore(q)
  BY <1>6 DEF RowsGiven, FormAsBefore
<1>9. HeardRows(c) /\ EditList(c)
  BY DEF ReadingsInv, HeardInv, EditsInv
<1>10. ASSUME FreedForm(c)
       PROVE  FormAsBefore(p)
  BY <1>3, <1>10 DEF FreedForm, FormAsBefore
<1>11. ASSUME call[c].op \notin {"list", "remove", "add", "edit"}
       PROVE  ~OfProducts
  BY <1>1, <1>11, ProductOps
<1>12. RowsGiven(p) /\ (FormAsBefore(p) \/ FormEmpty(p) \/ FormGiven(p))
  <2>1. CASE UNCHANGED page
    BY <2>1 DEF RowsGiven, FormAsBefore
  <2>2. CASE ArriveShape(c)
    <3>1. Alive(c) /\ c \notin Over /\ call[c].op = "list"
      BY <1>1, <2>2 DEF ArriveShape, Alive, Over
    <3>2. \A d \in Docs : (Screen(p) = "edit" => d = call[c].doc) => RowOf(d, call[c].heard[d])
      BY <1>1, <1>3, <1>9, <3>1 DEF HeardRows
    <3>3. CASE Screen(p) = "edit"
      <4>1. PICK d \in Docs : d = call[c].doc
        BY <1>2, <1>3, <3>1, <3>3, DeskAssumption DEF Asking, DocFits, CallsInv, Frame
      <4>2. page'[p].form.doc = d /\ page'[p].form.row = call[c].heard[d] /\ page'[p].rows = page[p].rows
        BY <1>3, <1>9, <2>2, <3>1, <3>3, <4>1 DEF ArriveShape, EditList
      <4>3. RowOf(d, call[c].heard[d])
        BY <3>2, <4>1
      <4>4. FormEmpty(p) \/ FormGiven(p)
        BY <3>3, <4>2, <4>3 DEF FormEmpty, FormGiven, RowOf, IsRow
      <4> QED
        BY <4>2, <4>4 DEF RowsGiven
    <3>4. CASE Screen(p) # "edit"
      <4>1. RowsGiven(p)
        BY <1>3, <2>2, <3>2, <3>4 DEF ArriveShape, RowsGiven
      <4>2. FormAsBefore(p)
        BY <1>3, <2>2, <3>4 DEF ArriveShape, FormAsBefore
      <4> QED
        BY <4>1, <4>2
    <3> QED
      BY <3>3, <3>4
  <2>3. CASE RowArriveShape(c)
    <3>1. ~OfProducts /\ DocOK(call[c].heard)
      BY <1>1, <1>9, <1>11, <2>3 DEF RowArriveShape, HeardRows
    <3>2. \A d \in Docs : page'[p].rows[d] = page[p].rows[d] \/ page'[p].rows[d] = call[c].heard
      BY <1>3, <2>3 DEF RowArriveShape, Replaced, CallsInv, PageOK, RecordOK
    <3>3. RowsGiven(p)
      BY <3>1, <3>2 DEF RowsGiven, RowOf, IsRow
    <3>4. CASE Screen(p) = "selling"
      BY <1>3, <2>3, <3>3, <3>4 DEF RowArriveShape, FormEmpty, NoForm
    <3>5. CASE Screen(p) # "selling"
      BY <1>3, <1>10, <2>3, <3>3, <3>5 DEF RowArriveShape
    <3> QED
      BY <3>4, <3>5
  <2>4. CASE LeaveShape(c)
    <3>1. \A d \in Docs : page'[p].rows[d] = page[p].rows[d] \/ page'[p].rows[d] = NoOne
      BY <1>3, <2>4 DEF LeaveShape, CallsInv, PageOK, RecordOK
    <3> QED
      BY <1>10, <2>4, <3>1 DEF LeaveShape, RowsGiven, RowOf
  <2>5. CASE FailShape(c)
    BY <1>3, <1>10, <2>5 DEF FailShape, RowsGiven
  <2>6. CASE AgainShape(c)
    BY <1>3, <2>6 DEF AgainShape, RowsGiven, FormEmpty, NoForm
  <2>7. CASE DoneShape(c)
    BY <1>3, <2>7 DEF DoneShape, RowsGiven, FormEmpty, NoRows, RowOf
  <2> QED
    BY <2>1, <2>2, <2>3, <2>4, <2>5, <2>6, <2>7 DEF AnswerShape
<1>13. DocsInv' /\ KeysInv' /\ HeardInv' /\ SentInv' /\ SnapsInv'
  BY <1>4, <1>5, CallsAsked DEF ReadingsInv
<1>14. FormRowsInv' /\ PageRowsInv'
  BY <1>4, <1>8, <1>12, PagesAsked DEF ReadingsInv
<1>15. EditsInv'
  <2>1. UNCHANGED load
    BY <1>4 DEF Desked
  <2>2. ASSUME Screen(p) = "edit"
        PROVE  page'[p].form.doc = page[p].form.doc \/ NoneWaits(p)'
    <3>1. CASE UNCHANGED page
      BY <3>1
    <3>2. CASE ArriveShape(c) \/ FreedForm(c)
      BY <1>3, <3>2 DEF ArriveShape, FreedForm
    <3>3. CASE DoneShape(c)
      <4>1. Alive(c) /\ Single(p) /\ call[c].op # "list"
        BY <1>1, <2>2, <3>3 DEF DoneShape, Alive, Single
      <4>2. \A x \in Calls : ~Sent(x)
        BY <1>1, <1>4 DEF OnlyCall, Sent, NoCall
      <4> QED
        BY <1>3, <2>1, <4>1, <4>2, NothingWaits
    <3> QED
      BY <1>3, <2>2, <3>1, <3>2, <3>3 DEF AnswerShape, RowArriveShape, LeaveShape, FailShape, AgainShape
  <2>3. \A q \in Pages : Screen(q) = "edit" => page'[q].form.doc = page[q].form.doc \/ NoneWaits(q)'
    BY <1>6, <2>2
  <2>4. \A x \in Calls : call'[x] = call[x] \/ Ends(x) \/ Again(x)
    BY <1>4 DEF OnlyCall
  <2>5. EditsInv
    BY DEF ReadingsInv
  <2> QED
    BY <2>1, <2>3, <2>4, <2>5, EditsAsked
<1> QED
  BY <1>13, <1>14, <1>15 DEF ReadingsInv

\* Rows are only looked at again, filled into a form, or forgotten.
LEMMA ReadingsAsked ==
  ASSUME CallsInv, ReadingsInv, Desked, \A x \in Calls : Goes(x),
         \A p \in Pages : RowsGiven(p) /\ (FormAsBefore(p) \/ FormEmpty(p) \/ FormGiven(p) \/ FormTyped(p)),
         EditsInv'
  PROVE  ReadingsInv'
<1>1. DocsInv' /\ KeysInv' /\ HeardInv' /\ SentInv' /\ SnapsInv'
  BY CallsAsked DEF ReadingsInv
<1>2. FormRowsInv' /\ PageRowsInv'
  BY PagesAsked DEF ReadingsInv
<1> QED
  BY <1>1, <1>2 DEF ReadingsInv

\* A page is opened, a row acted on, other rows asked for.
LEMMA ReadingsOpened ==
  ASSUME CallsInv, ReadingsInv, NEW c \in Calls, NEW p \in Pages, OpenShape(c, p)
  PROVE  ReadingsInv'
<1>1. Desked /\ UNCHANGED load
  BY DEF OpenShape, desk, Desked
<1>2. call'[c] = call[c] \/ (Sent(c) /\ call'[c].put = <<>> /\ call'[c].op = "list")
  BY DEF OpenShape, Made
<1>3. PutOK(<<>>)
  BY DEF PutOK
<1>4. ASSUME NEW x \in Calls
      PROVE  Goes(x)
  <2>1. CASE x = c
    BY <1>2, <1>3, <2>1 DEF Goes
  <2>2. CASE x # c
    BY <2>2 DEF OpenShape, Goes
  <2> QED
    BY <2>1, <2>2
<1>5. RowsGiven(p)
  BY DEF OpenShape, RowsGiven, RowOf, NoRows
<1>6. FormEmpty(p)
  BY DEF OpenShape, FormEmpty, FormOnPage
<1>7. ASSUME NEW q \in Pages \ {p}
      PROVE  RowsGiven(q) /\ FormAsBefore(q)
  BY DEF OpenShape, RowsGiven, FormAsBefore
<1>8. EditsInv'
  <2> SUFFICES ASSUME NEW x \in Calls, Alive(x)', call'[x].op = "list", Screen(call'[x].page) = "edit", x \notin Over'
               PROVE  call'[x].doc = page'[call'[x].page].form.doc
    BY <1>1 DEF EditsInv, EditList, Screen
  <2>1. CASE x = c
    <3>1. call'[c] # call[c]
      BY <2>1 DEF Alive, OpenShape, NoCall
    <3>2. call'[c].page = p
      BY <3>1 DEF OpenShape, Made
    <3> QED
      BY <2>1, <3>2 DEF OpenShape
  <2>2. CASE x # c
    <3>1. ~Left(x)
      BY DEF Left, Alive
    <3>2. call'[x] = call[x] /\ call[x].page # p
      BY <2>2, <3>1 DEF OpenShape
    <3>3. Alive(x) /\ x \notin Over
      BY <3>2 DEF Alive, Over
    <3>4. call[x].page \in Pages
      BY <3>3, OfPage
    <3>5. page'[call[x].page] = page[call[x].page]
      BY <3>2, <3>4 DEF OpenShape
    <3>6. EditList(x)
      BY DEF ReadingsInv, EditsInv
    <3> QED
      BY <3>2, <3>3, <3>5, <3>6 DEF EditList
  <2> QED
    BY <2>1, <2>2
<1>9. \A q \in Pages : RowsGiven(q) /\ (FormAsBefore(q) \/ FormEmpty(q))
  BY <1>5, <1>6, <1>7
<1> QED
  BY <1>1, <1>4, <1>8, <1>9, ReadingsAsked

LEMMA ReadingsActed ==
  ASSUME CallsInv, ReadingsInv, NEW c \in Calls, NEW p \in Pages, NEW d \in Docs, RowShape(c, p, d)
  PROVE  ReadingsInv'
<1>1. Desked /\ UNCHANGED load
  BY DEF RowShape, desk, Desked
<1>2. Sent(c) /\ OnlyCall(c) /\ call'[c].op \in RowOps
  BY DEF RowShape
<1>3. PutOK(call'[c].put)
  <2>1. \/ DOMAIN call'[c].put \subseteq {"status", "tracking"}
        \/ DOMAIN call'[c].put \subseteq {"active", "role"}
        \/ DOMAIN call'[c].put = {}
    BY DEF RowShape, RowOps, PutFits
  <2>2. "stock" \notin DOMAIN call'[c].put /\ "content" \notin DOMAIN call'[c].put
    BY <2>1
  <2>3. "status" \in DOMAIN call'[c].put => call'[c].put.status \in Statuses
    BY DEF RowShape, Statuses
  <2> QED
    BY <2>2, <2>3 DEF PutOK
<1>4. Goes(c)
  BY <1>2, <1>3 DEF Goes, RowOps
<1>5. \A x \in Calls : Goes(x)
  BY <1>2, <1>4 DEF OnlyCall, Goes
<1>6. ASSUME NEW q \in Pages
      PROVE  RowsGiven(q) /\ FormAsBefore(q) /\ page'[q].form = page[q].form
  <2>1. page'[q].form = page[q].form /\ page'[q].rows = page[q].rows
    BY DEF RowShape, CallsInv, PageOK, RecordOK, PageFields
  <2> QED
    BY <2>1 DEF RowsGiven, FormAsBefore
<1>7. EditsInv'
  <2>1. \A x \in Calls : call'[x] = call[x] \/ call'[x].op # "list"
    BY <1>2 DEF OnlyCall, RowOps
  <2>2. EditsInv
    BY DEF ReadingsInv
  <2> QED
    BY <1>1, <1>6, <2>1, <2>2, EditsAsked
<1> QED
  BY <1>1, <1>5, <1>6, <1>7, ReadingsAsked

LEMMA ReadingsTurned ==
  ASSUME CallsInv, ReadingsInv, NEW p \in Pages, AskShape(p)
  PROVE  ReadingsInv'
<1>1. Desked /\ UNCHANGED load
  BY DEF AskShape, desk, Desked
<1>2. \A x \in Calls : call'[x] = call[x] \/ (Sent(x) /\ call'[x].op = "list" /\ call'[x].put = <<>> /\ call'[x].page = p)
  BY DEF AskShape, Made
<1>3. PutOK(<<>>)
  BY DEF PutOK
<1>4. \A x \in Calls : Goes(x)
  BY <1>2, <1>3 DEF Goes
<1>5. ASSUME NEW q \in Pages
      PROVE  RowsGiven(q) /\ FormAsBefore(q) /\ page'[q].form = page[q].form
  <2>1. page'[q].form = page[q].form /\ page'[q].rows = page[q].rows
    BY DEF AskShape, CallsInv, PageOK, RecordOK, PageFields
  <2> QED
    BY <2>1 DEF RowsGiven, FormAsBefore
<1>6. EditsInv'
  <2>1. \A x \in Calls : call'[x] = call[x] \/ Screen(call'[x].page) # "edit"
    BY <1>2 DEF AskShape
  <2>2. EditsInv
    BY DEF ReadingsInv
  <2> QED
    BY <1>1, <1>5, <2>1, <2>2, EditsAsked
<1> QED
  BY <1>1, <1>4, <1>5, <1>6, ReadingsAsked

\* A form is filled from a row, or closed.
LEMMA ReadingsFilled ==
  ASSUME CallsInv, ReadingsInv, NEW p \in Pages, FormShape(p), Screen(p) \in {"selling", "products"}
  PROVE  ReadingsInv'
<1>1. Desked /\ UNCHANGED load /\ call' = call
  BY DEF FormShape, desk, Desked
<1>2. \A x \in Calls : Goes(x)
  BY <1>1 DEF Goes
<1>3. \A q \in Pages \ {p} : page'[q] = page[q]
  BY DEF FormShape, CallsInv
<1>4. page'[p].rows = page[p].rows /\ (FormEmpty(p) \/ FormGiven(p))
  <2>1. CASE page' = [page EXCEPT ![p].form = NoForm]
    <3>1. page'[p].form = NoForm /\ page'[p].rows = page[p].rows
      BY <2>1 DEF CallsInv, PageOK, RecordOK, PageFields
    <3> QED
      BY <3>1 DEF FormEmpty, NoForm
  <2>2. ASSUME NEW d, NEW row, page' = [page EXCEPT ![p].form = Form(p, d, row), ![p].forms = @ + 1]
        PROVE  page'[p].form.row = row /\ page'[p].form.doc = d /\ page'[p].rows = page[p].rows
    <3>1. page'[p].form = Form(p, d, row) /\ page'[p].rows = page[p].rows
      <4> HIDE DEF Form
      <4> QED
        BY <2>2 DEF CallsInv, PageOK, RecordOK, PageFields
    <3> QED
      BY <3>1 DEF Form
  <2>3. ASSUME NEW d \in Docs, Shown(p, d), page' = [page EXCEPT ![p].form = Form(p, d, Row(p, d)), ![p].forms = @ + 1]
        PROVE  page'[p].rows = page[p].rows /\ FormGiven(p)
    <3>1. page'[p].form.row = page[p].rows[d] /\ page'[p].form.doc = d /\ page'[p].rows = page[p].rows
      BY <2>2, <2>3 DEF Row
    <3>2. IsRow(d, page[p].rows[d])
      BY <2>3 DEF Shown, ReadingsInv, PageRowsInv, PageRows, RowOf
    <3> QED
      BY <3>1, <3>2 DEF FormGiven, IsRow
  <2>4. ASSUME Screen(p) = "products", page' = [page EXCEPT ![p].form = Form(p, NoOne, NoOne), ![p].forms = @ + 1]
        PROVE  page'[p].rows = page[p].rows /\ FormEmpty(p)
    BY <2>2, <2>4 DEF FormEmpty
  <2> QED
    BY <2>1, <2>3, <2>4 DEF FormShape
<1>5. \A q \in Pages : RowsGiven(q) /\ (FormAsBefore(q) \/ FormEmpty(q) \/ FormGiven(q))
  BY <1>3, <1>4 DEF RowsGiven, FormAsBefore
<1>6. EditsInv'
  <2>1. \A q \in Pages : Screen(q) = "edit" => page'[q].form.doc = page[q].form.doc
    BY <1>3
  <2>2. EditsInv
    BY DEF ReadingsInv
  <2> QED
    BY <1>1, <2>1, <2>2, EditsAsked
<1> QED
  BY <1>1, <1>2, <1>5, <1>6, ReadingsAsked

LEMMA ReadingsStep ==
  ASSUME CallsInv, SinglesInv, ReadingsInv, AllMove, StepShape
  PROVE  ReadingsInv'
<1>1. CASE DeskStep /\ UNCHANGED page
  <2>1. DocsInv /\ KeysInv /\ HeardInv /\ SentInv /\ SnapsInv /\ FormRowsInv /\ PageRowsInv /\ EditsInv
    BY DEF ReadingsInv
  <2>2. Grows /\ DocsInv'
    BY <1>1, <2>1, DocsServed
  <2>3. KeysInv' /\ HeardInv' /\ SentInv' /\ SnapsInv' /\ EditsInv' /\ FormRowsInv' /\ PageRowsInv'
    BY <1>1, <2>1, <2>2, KeysServed, HeardServed, SentServed, SnapsServed, EditsServed, RowsServed
  <2> QED
    BY <2>2, <2>3 DEF ReadingsInv
<1>2. ASSUME NEW c \in Calls, NEW p \in Pages, SubmitShape(c, p)
      PROVE  ReadingsInv'
  <2>1. /\ Desked /\ \A x \in Calls : Goes(x)
        /\ \A q \in Pages : RowsGiven(q) /\ (FormAsBefore(q) \/ FormEmpty(q) \/ FormGiven(q) \/ FormTyped(q))
    BY <1>2, RowsSubmitted DEF ReadingsInv
  <2>2. UNCHANGED load
    BY <2>1 DEF Desked
  <2>3. call'[c].op # "list" /\ \A x \in Calls \ {c} : call'[x] = call[x]
    BY <1>2 DEF SubmitShape, Made, SubmitOp, OnlyCall
  <2>4. \A q \in Pages : page'[q].form.doc = page[q].form.doc
    <3>1. PICK chose \in Choices(p) : \E put \in Puts(p, chose) : OnlyPage(p, [page[p] EXCEPT !.form = Typed(p, chose, put)])
      BY <1>2 DEF SubmitShape
    <3>2. PICK put \in Puts(p, chose) : OnlyPage(p, [page[p] EXCEPT !.form = Typed(p, chose, put)])
      BY <3>1
    <3>3. Typed(p, chose, put).doc = page[p].form.doc
      BY DEF Typed, CallsInv, PageOK, RecordOK, FormOK, FormFields
    <3> HIDE DEF Typed
    <3>4. page'[p].form = Typed(p, chose, put) /\ \A q \in Pages \ {p} : page'[q] = page[q]
      BY <3>2 DEF OnlyPage, CallsInv, PageOK, RecordOK, PageFields
    <3> QED
      BY <3>3, <3>4
  <2>5. EditsInv'
    BY <2>2, <2>3, <2>4, EditsAsked DEF ReadingsInv
  <2> QED
    BY <2>1, <2>5, ReadingsAsked
<1> QED
  BY <1>1, <1>2, ReadingsOpened, ReadingsActed, ReadingsTurned, ReadingsFilled, ReadingsAnswered DEF StepShape, PageShape

LEMMA ReadingsInit ==
  ASSUME Init
  PROVE  ReadingsInv
<1> USE DEF Init, DeskInit
<1>1. ASSUME NEW d \in Docs
      PROVE  DocInv(d)
  <2>1. First(d) = [Blank EXCEPT !.live = TRUE, !.stock = InitialStock, !.content = <<NoOne, d>>, !.refund = load.refund,
                                 !.paid = load.paid, !.status = IF load.paid THEN "confirmed" ELSE "placed"]
    BY DEF First
  <2>2. DocOK(Blank) /\ Blank.live = FALSE /\ Blank.restocks = 0
    BY DEF DocOK, OfRow, Blank, DocFields, Statuses
  <2>3. load.refund \in {"none", "requested"}
    BY DeskAssumption
  <2>4. DocOK(First(d)) /\ First(d).restocks = 0 /\ First(d).content = <<NoOne, d>>
    BY <2>1, <2>3, DeskAssumption DEF DocOK, OfRow, Blank, DocFields, Statuses
  <2>5. <<NoOne, d>> # NoOne
    BY DeskAssumption
  <2>6. doc[d] = IF d \in load.live THEN First(d) ELSE Blank
    OBVIOUS
  <2>7. owned[d] = doc[d].stock /\ doc[d].sold = 0
    BY DEF First, Blank
  <2> HIDE DEF Init, DeskInit
  <2>8. DocOK(doc[d]) /\ doc[d].restocks = 0 /\ (d \in load.live \/ doc[d].live = TRUE => doc[d].content # NoOne)
    BY <2>2, <2>4, <2>5, <2>6
  <2>9. Counted(d, doc[d])
    BY <2>7, <2>8 DEF Counted, DocOK, OfRow
  <2> QED
    BY <2>8, <2>9 DEF DocInv, Known
<1>2. KeysInv
  BY DEF KeysInv, KeyInv, Nothing
<1>3. HeardInv /\ SentInv /\ SnapsInv /\ EditsInv
  BY DEF HeardInv, HeardRows, SentInv, SentRow, SnapsInv, SnapRow, EditsInv, EditList, Alive, NoCall
<1>4. FormRowsInv /\ PageRowsInv
  BY DEF FormRowsInv, FormRow, PageRowsInv, PageRows, RowOf, Unmounted, NoForm, NoRows
<1> QED
  BY <1>1, <1>2, <1>3, <1>4 DEF ReadingsInv, DocsInv

\* What forms and rows keep of a document is what the document was: no stock
\* typed in or piece sold after the row was read, and every piece is counted
\* (updateProduct, the forms of Edit and of the sellers' Products).
THEOREM StockSafety == BackOfficeSpec => [](ReadingsInv /\ StockLostOnlyToOldForms)
<1>1. Init => ReadingsInv
  BY ReadingsInit
<1>2. CallsInv /\ SinglesInv /\ ReadingsInv /\ [Next]_bvars => ReadingsInv'
  <2> SUFFICES ASSUME CallsInv, SinglesInv, ReadingsInv, [Next]_bvars
               PROVE  ReadingsInv'
    OBVIOUS
  <2>1. CASE Next
    BY <2>1, Steps, ReadingsStep
  <2>2. CASE UNCHANGED bvars
    BY <2>2 DEF bvars, dvars, ReadingsInv, DocsInv, DocInv, KeysInv, KeyInv, HeardInv, HeardRows, SentInv, SentRow, AsFilled,
                Restocks, SnapsInv, SnapRow, FormRowsInv, FormRow, PageRowsInv, PageRows, EditsInv, EditList,
                RowOf, IsRow, Known, Counted, OfProducts, Screen, Alive, Over
  <2> QED
    BY <2>1, <2>2
<1>3. ReadingsInv => StockLostOnlyToOldForms
  BY DEF ReadingsInv, DocsInv, DocInv, Counted, StockLostOnlyToOldForms
<1> QED
  BY <1>1, <1>2, <1>3, DeskSafety, PTL DEF BackOfficeSpec

-----------------------------------------------------------------------------
(* What a document is.                                                     *)

\* The fields that no count depends on.
Contents == (Pages \cup {NoOne}) \X Nat \cup {NoOne}
DocTyped(r) ==
  /\ r = [f \in DocFields |-> r[f]]
  /\ r.tracking \in {NoOne, "number"} /\ r.paid \in BOOLEAN /\ r.active \in BOOLEAN
  /\ r.role \in {"support", "admin"} /\ r.content \in Contents
SetTyped(put) ==
  /\ "tracking" \in DOMAIN put => put.tracking \in {NoOne, "number"}
  /\ "paid" \in DOMAIN put => put.paid \in BOOLEAN
  /\ "active" \in DOMAIN put => put.active \in BOOLEAN
  /\ "role" \in DOMAIN put => put.role \in {"support", "admin"}
  /\ "content" \in DOMAIN put => put.content \in Contents
PutTyped(put) == Plain(put) /\ ("content" \in DOMAIN put => put.content \in Contents)
ChangeTyped(c) == call[c].st \in {"sent", "saving"} => PutTyped(call[c].put)
TypedInv == doc = [d \in Docs |-> doc[d]] /\ (\A d \in Docs : DocTyped(doc[d])) /\ \A c \in Calls : ChangeTyped(c)

LEMMA ADocument ==
  ASSUME NEW r, DocOK(r), DocTyped(r)
  PROVE  r \in Documents
BY DEF DocOK, OfRow, DocTyped, DocFields, Documents, Contents, Statuses

LEMMA WithTyped ==
  ASSUME NEW r, DOMAIN r = DocFields, DocTyped(r), NEW put, SetTyped(put)
  PROVE  DocTyped(With(r, put))
<1>1. With(r, put) = [f \in DocFields |-> IF f \in DOMAIN put THEN put[f] ELSE r[f]]
  BY DEF With
<1> DEFINE w == With(r, put)
<1>2. DOMAIN w = DocFields /\ (\A f \in DocFields : w[f] = IF f \in DOMAIN put THEN put[f] ELSE r[f])
      /\ w = [f \in DocFields |-> w[f]]
  BY <1>1
<1> HIDE DEF w
<1>3. DocTyped(w)
  BY <1>2 DEF DocTyped, SetTyped, DocFields
<1> QED
  BY <1>3 DEF w

LEMMA SavedTyped ==
  ASSUME NEW now, DOMAIN now = DocFields, DocTyped(now), NEW snap, DOMAIN snap = DocFields,
         NEW put, DOMAIN put \subseteq DocFields, SetTyped(put)
  PROVE  DocTyped(Saved(now, snap, put))
<1> DEFINE w == Saved(now, snap, put)
<1>1. DOMAIN w = DocFields /\ \A f \in DocFields : w[f] = IF f \in DOMAIN put /\ put[f] # snap[f] THEN put[f] ELSE now[f]
  BY SavedFields
<1>2. w = [f \in DocFields |-> w[f]]
  BY DEF Saved
<1> HIDE DEF w
<1>3. DocTyped(w)
  BY <1>1, <1>2 DEF DocTyped, SetTyped, DocFields
<1> QED
  BY <1>3 DEF w

LEMMA EffectTyped ==
  ASSUME NEW c \in Calls, call[c].op \in ReadThenSave, PutFits(call[c].op, DOMAIN call[c].put), PutTyped(call[c].put)
  PROVE  SetTyped(Effect(c))
<1>1. CASE call[c].op = "remove"
  <2>1. Effect(c) = [live |-> FALSE]
    BY <1>1, Effects DEF ReadThenSave
  <2> QED
    BY <2>1 DEF SetTyped
<1>2. CASE Restocks(c)
  <2>1. Effect(c) = [content |-> call[c].put.content, stock |-> call[c].put.stock, restocks |-> doc[call[c].doc].restocks + 1]
    BY <1>2, Effects
  <2>2. call[c].put.content \in Contents
    BY <1>2 DEF PutFits, PutTyped, Restocks
  <2> QED
    BY <2>1, <2>2 DEF SetTyped
<1>3. CASE AsFilled(c) \/ call[c].op \in {"status", "member"}
  <2>1. Effect(c) = call[c].put
    BY <1>3, Effects
  <2>2. DOMAIN call[c].put \subseteq {"status", "tracking", "active", "role", "content", "stock"}
    BY <1>3 DEF PutFits, AsFilled
  <2> QED
    BY <2>1, <2>2 DEF SetTyped, PutTyped, Plain
<1>4. CASE call[c].op = "ask"
  <2>1. Effect(c) = [refund |-> "requested", asked |-> doc[call[c].doc].asked + 1]
    BY <1>4, Effects DEF ReadThenSave
  <2> QED
    BY <2>1 DEF SetTyped
<1>5. CASE call[c].op = "approve"
  <2>1. Effect(c) = [refund |-> "completed", paid |-> FALSE, status |-> "returned"]
    BY <1>5, Effects DEF ReadThenSave
  <2> QED
    BY <2>1 DEF SetTyped
<1>6. CASE call[c].op = "reject"
  <2>1. Effect(c) = [refund |-> "rejected"]
    BY <1>6, Effects DEF ReadThenSave
  <2> QED
    BY <2>1 DEF SetTyped
<1> QED
  BY <1>1, <1>2, <1>3, <1>4, <1>5, <1>6 DEF ReadThenSave, AsFilled

\* The documents after a step of the server: written, made, or a piece sold.
DocsTyped == doc' = [d \in Docs |-> doc'[d]] /\ \A d \in Docs : DocTyped(doc'[d])

LEMMA OneTyped ==
  ASSUME CallsInv, TypedInv, NEW d \in Docs, NEW r, doc' = [doc EXCEPT ![d] = r], DocTyped(r)
  PROVE  DocsTyped
<1>1. doc'[d] = r /\ \A e \in Docs \ {d} : doc'[e] = doc[e]
  BY DEF CallsInv, Frame
<1>2. doc' = [e \in Docs |-> doc'[e]]
  BY DEF CallsInv, Frame
<1> QED
  BY <1>1, <1>2 DEF TypedInv, DocsTyped

LEMMA SaveTyped ==
  ASSUME CallsInv, DocsInv, SentInv, SnapsInv, TypedInv, NEW c \in Calls, Save(c)
  PROVE  DocsTyped
<1> DEFINE d == call[c].doc
           r == Saved(doc[d], call[c].snap, Effect(c))
<1>1. SetOK(Effect(c)) /\ d \in Docs /\ DocOK(call[c].snap) /\ DocOK(doc[d])
  BY SaveGrows DEF DocsInv, DocInv
<1>2. call[c].op \in ReadThenSave /\ PutFits(call[c].op, DOMAIN call[c].put) /\ PutTyped(call[c].put)
  BY DEF Save, CallsInv, CallOK, TypedInv, ChangeTyped
<1>3. SetTyped(Effect(c)) /\ DocTyped(doc[d])
  BY <1>1, <1>2, EffectTyped DEF TypedInv
<1>4. DocTyped(r)
  <2>1. DOMAIN doc[d] = DocFields /\ DOMAIN call[c].snap = DocFields /\ DOMAIN Effect(c) \subseteq DocFields
    BY <1>1 DEF DocOK, OfRow, SetOK
  <2> QED
    BY <1>3, <2>1, SavedTyped
<1>5. doc' = [doc EXCEPT ![d] = r]
  BY DEF Save
<1> HIDE DEF r, d
<1> QED
  BY <1>1, <1>4, <1>5, OneTyped

LEMMA CouponTyped ==
  ASSUME CallsInv, DocsInv, TypedInv, NEW c \in Calls, UpdateCoupon(c)
  PROVE  DocsTyped
<1>1. call[c].st = "sent" /\ call[c].op \in {"active", "delete"} /\ PutFits(call[c].op, DOMAIN call[c].put) /\ Asking(c)
  BY DEF UpdateCoupon, CallsInv, CallOK
<1>2. PICK d \in Docs : d = call[c].doc
  BY <1>1 DEF Asking, DocFits
<1>3. DocOK(doc[d]) /\ DocTyped(doc[d]) /\ PutTyped(call[c].put) /\ DOMAIN doc[d] = DocFields
  BY <1>1 DEF DocsInv, DocInv, TypedInv, ChangeTyped, DocOK, OfRow
<1>4. CASE UNCHANGED doc
  BY <1>4 DEF TypedInv, DocsTyped
<1>5. CASE ~UNCHANGED doc
  <2> DEFINE r == IF call[c].op = "delete" THEN [doc[d] EXCEPT !.live = FALSE] ELSE With(doc[d], call[c].put)
  <2>1. doc' = [doc EXCEPT ![d] = r]
    BY <1>2, <1>5 DEF UpdateCoupon
  <2>2. DocTyped(r)
    <3>1. CASE call[c].op = "delete"
      <4>1. r = [doc[d] EXCEPT !.live = FALSE]
        BY <3>1
      <4>2. r = [f \in DocFields |-> r[f]] /\ r.tracking = doc[d].tracking /\ r.paid = doc[d].paid /\ r.active = doc[d].active
            /\ r.role = doc[d].role /\ r.content = doc[d].content
        BY <1>3, <4>1 DEF DocFields
      <4> HIDE DEF r
      <4> QED
        BY <1>3, <4>2 DEF DocTyped
    <3>2. CASE call[c].op = "active"
      <4>1. SetTyped(call[c].put)
        BY <1>1, <1>3, <3>2 DEF PutFits, PutTyped, Plain, SetTyped
      <4> QED
        BY <1>3, <3>2, <4>1, WithTyped
    <3> QED
      BY <1>1, <3>1, <3>2
  <2> HIDE DEF r
  <2> QED
    BY <2>1, <2>2, OneTyped
<1> QED
  BY <1>4, <1>5

LEMMA CreateTyped ==
  ASSUME CallsInv, DocsInv, TypedInv, NEW c \in Calls, Create(c)
  PROVE  DocsTyped
<1>1. call[c].st = "sent" /\ call[c].op \in {"coupon", "hire", "add"} /\ PutFits(call[c].op, DOMAIN call[c].put)
  BY DEF Create, CallsInv, CallOK
<1>2. PutTyped(call[c].put)
  BY <1>1 DEF TypedInv, ChangeTyped
<1>3. SetTyped(call[c].put)
  BY <1>1, <1>2 DEF PutTyped, PutFits, SetTyped
<1>4. CASE Taken(c)
  BY <1>4 DEF Create, TypedInv, DocsTyped
<1>5. CASE ~Taken(c)
  <2>1. PICK d \in Docs : doc' = [doc EXCEPT ![d] = With(Fresh, call[c].put)]
    BY <1>5 DEF Create, Fresh, Unused
  <2>2. DOMAIN Fresh = DocFields
    BY FreshFields DEF DocOK, OfRow
  <2>3. DocTyped(Fresh)
    <3>1. Fresh = [f \in DocFields |-> Fresh[f]]
      BY DEF Fresh, Blank, DocFields
    <3>2. Fresh.tracking = NoOne /\ Fresh.paid = FALSE /\ Fresh.active = TRUE /\ Fresh.role = "support" /\ Fresh.content = NoOne
      BY DEF Fresh, Blank
    <3> HIDE DEF Fresh
    <3> QED
      BY <3>1, <3>2 DEF DocTyped, Contents
  <2>4. DocTyped(With(Fresh, call[c].put))
    BY <1>3, <2>2, <2>3, WithTyped
  <2> QED
    BY <2>1, <2>4, OneTyped
<1> QED
  BY <1>4, <1>5

LEMMA SaleTyped ==
  ASSUME CallsInv, DocsInv, TypedInv, NEW d \in Docs, Sale(d)
  PROVE  DocsTyped
<1>1. DOMAIN doc[d] = DocFields /\ DocTyped(doc[d])
  BY DEF DocsInv, DocInv, DocOK, OfRow, TypedInv
<1> DEFINE r == [doc[d] EXCEPT !.stock = @ - 1, !.sold = @ + 1]
<1>2. doc' = [doc EXCEPT ![d] = r]
  BY <1>1 DEF Sale, DocFields
<1>3. r = [f \in DocFields |-> r[f]] /\ r.tracking = doc[d].tracking /\ r.paid = doc[d].paid /\ r.active = doc[d].active
      /\ r.role = doc[d].role /\ r.content = doc[d].content
  BY <1>1 DEF DocFields
<1> HIDE DEF r
<1>4. DocTyped(r)
  BY <1>1, <1>3 DEF DocTyped
<1> QED
  BY <1>2, <1>4, OneTyped

LEMMA PaidTyped ==
  ASSUME CallsInv, DocsInv, TypedInv, NEW d \in Docs, MarkOrderPaid(d)
  PROVE  DocsTyped
<1>1. DOMAIN doc[d] = DocFields /\ DocTyped(doc[d])
  BY DEF DocsInv, DocInv, DocOK, OfRow, TypedInv
<1>2. PICK status : doc' = [doc EXCEPT ![d].paid = TRUE, ![d].status = status, ![d].events = @ + 1]
  BY DEF MarkOrderPaid
<1> DEFINE r == [doc[d] EXCEPT !.paid = TRUE, !.status = status, !.events = @ + 1]
<1>3. doc' = [doc EXCEPT ![d] = r]
  BY <1>1, <1>2 DEF DocFields
<1>4. r = [f \in DocFields |-> r[f]] /\ r.tracking = doc[d].tracking /\ r.paid = TRUE /\ r.active = doc[d].active
      /\ r.role = doc[d].role /\ r.content = doc[d].content
  BY <1>1 DEF DocFields
<1> HIDE DEF r
<1>5. DocTyped(r)
  BY <1>1, <1>4 DEF DocTyped
<1> QED
  BY <1>3, <1>5, OneTyped

LEMMA TypedServed ==
  ASSUME CallsInv, ReadingsInv, TypedInv, DeskStep
  PROVE  TypedInv'
<1>1. DocsTyped
  <2>1. ASSUME UNCHANGED doc
        PROVE  DocsTyped
    BY <2>1 DEF TypedInv, DocsTyped
  <2>2. ASSUME NEW c \in Calls, List(c) \/ Read(c) \/ Throws(c) \/ RefundUnsaved(c)
        PROVE  UNCHANGED doc
    BY <2>2 DEF List, Read, Throws, RefundUnsaved
  <2>3. ASSUME NEW k \in Keys, Expire(k)
        PROVE  UNCHANGED doc
    BY <2>3 DEF Expire
  <2> QED
    BY <2>1, <2>2, <2>3, SaveTyped, CouponTyped, CreateTyped, SaleTyped, PaidTyped DEF DeskStep, ReadingsInv
<1>2. ASSUME NEW x \in Calls
      PROVE  ChangeTyped(x)'
  <2>1. ChangeTyped(x) /\ (call'[x] = call[x] \/ Reads(x) \/ Answers(x))
    BY DeskQuiet DEF TypedInv
  <2> QED
    BY <2>1 DEF ChangeTyped, Reads, Answers, Keeps, CallFields
<1> QED
  BY <1>1, <1>2 DEF TypedInv, DocsTyped

\* Nothing changes the workload; the server changes the documents.
LEMMA OnlyDesk ==
  ASSUME CallsInv, StepShape
  PROVE  UNCHANGED load /\ (DeskStep \/ UNCHANGED <<doc, cached, writer>>) /\ (PageShape => UNCHANGED <<doc, cached, writer>>)
<1>1. DeskStep => UNCHANGED load
  BY DeskQuiet
<1>2. ASSUME NEW c \in Calls, AnswerShape(c)
      PROVE  UNCHANGED <<load, doc, cached, writer>>
  BY <1>2 DEF AnswerShape, ArriveShape, RowArriveShape, LeaveShape, AgainShape, DoneShape, FailShape, EndShape, desk
<1>3. ASSUME NEW c \in Calls, NEW p \in Pages, OpenShape(c, p) \/ SubmitShape(c, p) \/ \E d \in Docs : RowShape(c, p, d)
      PROVE  UNCHANGED <<load, doc, cached, writer>>
  BY <1>3 DEF OpenShape, SubmitShape, RowShape, desk
<1>4. ASSUME NEW p \in Pages, AskShape(p) \/ FormShape(p)
      PROVE  UNCHANGED <<load, doc, cached, writer>>
  BY <1>4 DEF AskShape, FormShape, desk
<1> QED
  BY <1>1, <1>2, <1>3, <1>4 DEF StepShape, PageShape

\* What a page sends.
LEMMA SubmitTyped ==
  ASSUME CallsInv, NEW c \in Calls, NEW p \in Pages, SubmitShape(c, p)
  PROVE  PutTyped(call'[c].put)
<1>0. PICK chose \in Choices(p) : \E put \in Puts(p, chose) :
         Made(call'[c], p, SubmitOp(p), page[p].form.doc, page[p].query, put, chose, page[p].form.row, page[p].form.n)
  BY DEF SubmitShape
<1>1. PICK put \in Puts(p, chose) :
         Made(call'[c], p, SubmitOp(p), page[p].form.doc, page[p].query, put, chose, page[p].form.row, page[p].form.n)
  BY <1>0
<1>2. call'[c].put = put
  BY <1>1 DEF Made
<1>3. Content(p) \in Contents
  BY DEF Content, Contents, CallsInv, PageOK, RecordOK, FormOK
<1>4. CASE Screen(p) = "selling"
  <2>1. put \in PanelPut(p, chose)
    BY <1>4 DEF Puts
  <2>2. DOMAIN put \subseteq {"status", "tracking"} /\ ("tracking" \in DOMAIN put => put.tracking = "number")
    BY <2>1 DEF PanelPut
  <2> QED
    BY <1>2, <2>2 DEF PutTyped, Plain
<1>5. CASE Screen(p) \in {"coupons", "staff"}
  <2>1. put = [content |-> Content(p)]
    BY <1>5 DEF Puts
  <2> QED
    BY <1>2, <1>3, <2>1 DEF PutTyped, Plain
<1>6. CASE Screen(p) \notin {"selling", "coupons", "staff"}
  <2>1. put = [content |-> Content(p), stock |-> IF chose = NoOne THEN Stock(p) ELSE chose]
    BY <1>6 DEF Puts, ProductPut
  <2> QED
    BY <1>2, <1>3, <2>1 DEF PutTyped, Plain
<1> QED
  BY <1>4, <1>5, <1>6

LEMMA SentTypes ==
  ASSUME CallsInv, StepShape, NEW x \in Calls, Sent(x)
  PROVE  PutTyped(call'[x].put)
<1>1. call[x].st = "idle" /\ call'[x] # call[x] /\ call[x].gone = FALSE
  BY DEF Sent, NoCall
<1>2. ~(DeskStep /\ UNCHANGED page)
  BY <1>1, DeskQuiet DEF Reads, Answers
<1>3. PutTyped(<<>>)
  BY DEF PutTyped, Plain
<1>4. ASSUME NEW c \in Calls, NEW p \in Pages, OpenShape(c, p) \/ SubmitShape(c, p) \/ \E d \in Docs : RowShape(c, p, d)
      PROVE  PutTyped(call'[x].put)
  <2>1. CASE OpenShape(c, p)
    <3>1. x = c
      BY <1>1, <2>1 DEF OpenShape, Left
    <3>2. call'[x].put = <<>>
      BY <1>1, <2>1, <3>1 DEF OpenShape, Made
    <3> QED
      BY <1>3, <3>2
  <2>2. CASE SubmitShape(c, p)
    <3>1. x = c
      BY <1>1, <2>2 DEF SubmitShape, OnlyCall
    <3> QED
      BY <2>2, <3>1, SubmitTyped
  <2>3. ASSUME NEW d \in Docs, RowShape(c, p, d)
        PROVE  PutTyped(call'[x].put)
    <3>1. x = c
      BY <1>1, <2>3 DEF RowShape, OnlyCall
    <3>2. "content" \notin DOMAIN call'[c].put
      BY <2>3 DEF RowShape, RowOps, PutFits
    <3> QED
      BY <2>3, <3>1, <3>2 DEF RowShape, PutTyped
  <2> QED
    BY <1>4, <2>1, <2>2, <2>3
<1>5. ASSUME NEW p \in Pages, AskShape(p) \/ FormShape(p)
      PROVE  PutTyped(call'[x].put)
  <2>1. call'[x].put = <<>>
    BY <1>1, <1>5 DEF AskShape, FormShape, Made
  <2> QED
    BY <1>3, <2>1
<1>6. ASSUME NEW c \in Calls, AnswerShape(c)
      PROVE  FALSE
  <2>1. OnlyCall(c) /\ call[c].st = "served"
    BY <1>6 DEF AnswerShape, ArriveShape, RowArriveShape, LeaveShape, AgainShape, DoneShape, FailShape, EndShape, Ends, Again
  <2> QED
    BY <1>1, <2>1 DEF OnlyCall
<1> QED
  BY <1>2, <1>4, <1>5, <1>6 DEF StepShape, PageShape

LEMMA TypedStep ==
  ASSUME CallsInv, ReadingsInv, TypedInv, AllMove, StepShape
  PROVE  TypedInv'
<1>1. CASE DeskStep
  BY <1>1, TypedServed
<1>2. CASE ~DeskStep
  <2>1. UNCHANGED doc
    BY <1>2, OnlyDesk
  <2>2. ASSUME NEW x \in Calls
        PROVE  ChangeTyped(x)'
    <3> SUFFICES ASSUME call'[x].st \in {"sent", "saving"}
                 PROVE  PutTyped(call'[x].put)
      BY DEF ChangeTyped
    <3>1. Moves(x) /\ ChangeTyped(x) /\ CallOK(x)
      BY DEF AllMove, TypedInv, CallsInv
    <3>2. CASE Sent(x)
      BY <3>2, SentTypes
    <3>3. CASE Again(x)
      <4>1. call'[x].put = <<>>
        BY <3>3 DEF Again
      <4> QED
        BY <4>1 DEF PutTyped, Plain
    <3>4. CASE ~Sent(x) /\ ~Again(x)
      <4>1. call'[x].put = call[x].put /\ call[x].st \in {"sent", "saving"}
        BY <3>1, <3>4 DEF Moves, Left, Reads, Answers, Ends, Keeps, CallFields, CallOK
      <4> QED
        BY <3>1, <4>1 DEF ChangeTyped
    <3> QED
      BY <3>2, <3>3, <3>4
  <2> QED
    BY <2>1, <2>2 DEF TypedInv
<1> QED
  BY <1>1, <1>2

LEMMA TypedInit ==
  ASSUME Init
  PROVE  TypedInv
<1> USE DEF Init, DeskInit
<1>1. ASSUME NEW d \in Docs
      PROVE  DocTyped(doc[d])
  <2>1. Blank = [f \in DocFields |-> Blank[f]] /\ Blank.tracking = NoOne /\ Blank.paid = FALSE /\ Blank.active = TRUE
        /\ Blank.role = "support" /\ Blank.content = NoOne
    BY DEF Blank, DocFields
  <2>2. /\ First(d) = [f \in DocFields |-> First(d)[f]] /\ First(d).tracking = NoOne /\ First(d).paid = load.paid
        /\ First(d).active = TRUE /\ First(d).role = "support" /\ First(d).content = <<NoOne, d>>
    BY DEF First, Blank, DocFields
  <2>3. <<NoOne, d>> \in Contents /\ NoOne \in Contents /\ load.paid \in BOOLEAN
    BY DeskAssumption DEF Contents
  <2>4. doc[d] = IF d \in load.live THEN First(d) ELSE Blank
    OBVIOUS
  <2> HIDE DEF Init, DeskInit
  <2> QED
    BY <2>1, <2>2, <2>3, <2>4 DEF DocTyped
<1>2. doc = [d \in Docs |-> doc[d]]
  OBVIOUS
<1>3. \A c \in Calls : ChangeTyped(c)
  BY DEF ChangeTyped, NoCall
<1> HIDE DEF Init, DeskInit
<1> QED
  BY <1>1, <1>2, <1>3 DEF TypedInv

\* The documents are what the schemas say (orders, coupons, staff, products).
THEOREM DocumentsSafety == BackOfficeSpec => [](TypedInv /\ doc \in [Docs -> Documents])
<1>1. Init => TypedInv
  BY TypedInit
<1>2. CallsInv /\ SinglesInv /\ ReadingsInv /\ TypedInv /\ [Next]_bvars => TypedInv'
  <2>1. CASE Next
    BY <2>1, Steps, TypedStep
  <2>2. CASE UNCHANGED bvars
    BY <2>2 DEF bvars, dvars, TypedInv, ChangeTyped
  <2> QED
    BY <2>1, <2>2
<1>3. ReadingsInv /\ TypedInv => doc \in [Docs -> Documents]
  <2> SUFFICES ASSUME ReadingsInv, TypedInv
               PROVE  doc \in [Docs -> Documents]
    OBVIOUS
  <2>1. \A d \in Docs : doc[d] \in Documents
    BY ADocument DEF ReadingsInv, DocsInv, DocInv, TypedInv
  <2> QED
    BY <2>1 DEF TypedInv
<1> QED
  BY <1>1, <1>2, <1>3, DeskSafety, StockSafety, PTL DEF BackOfficeSpec

-----------------------------------------------------------------------------
(* What is created: one document of a form.                                *)

\* What a form writes bears its page and number.
Its(c) == <<call[c].page, call[c].form>>
Editing(c) ==
  /\ call[c].op \in {"add", "edit"}
  /\ call[c].st \in {"sent", "saving"} \/ (call[c].st = "served" /\ call[c].ans # "ok")

\* A product was there at first, or comes of a form that was opened.
Origin(d) ==
  Known(d) => \/ doc[d].content = <<NoOne, d>>
              \/ \E p \in Pages : \E n \in 1 .. page[p].forms : doc[d].content = <<p, n>>
\* A form on its way, or refused, was not saved yet, unless in the product it
\* edits.
Typing(c) ==
  Editing(c) => /\ call[c].form > 0 /\ call[c].put.content = Its(c)
                /\ lost = 0 => \A e \in Docs : doc[e].content = Its(c) => e = call[c].doc
\* Nor was the one a page shows, unless it waits for the answer.
FormUsed(p) ==
  LET f == page[p].form IN
  lost = 0 => \A d \in Docs : doc[d].content = <<p, f.n>> => f.doc = d \/ (f.doc = NoOne /\ f.busy = TRUE)
Apart(d, e) ==
  doc[d].content = doc[e].content =>
    /\ OfProducts /\ lost = 0 /\ Known(d) => d = e
    /\ ~OfProducts /\ doc[d].live = TRUE /\ doc[e].live = TRUE => d = e

ProductsMade == (\A d \in Docs : Origin(d)) /\ (\A c \in Calls : Typing(c)) /\ (\A p \in Pages : FormUsed(p))
ContentInv == lost \in Nat /\ (OfProducts => ProductsMade) /\ \A d \in Docs, e \in Docs : Apart(d, e)

\* The next form of a page has a number of its own.
LEMMA NewNumber ==
  ASSUME CallsInv, NEW d \in Docs, Origin(d), NEW p \in Pages, NEW n \in Nat, n = 0 \/ n > page[p].forms
  PROVE  doc[d].content # <<p, n>>
<1>1. <<p, n>> # NoOne
  BY DeskAssumption
<1>2. page[p].forms \in Nat
  BY DEF CallsInv, PageOK, RecordOK
<1>3. p # NoOne
  BY DeskAssumption
<1> SUFFICES ASSUME doc[d].content = <<p, n>>
             PROVE  FALSE
  OBVIOUS
<1>4. CASE Known(d)
  BY <1>2, <1>3, <1>4 DEF Origin
<1>5. CASE ~Known(d)
  BY <1>1, <1>5, DeskAssumption DEF Known
<1> QED
  BY <1>4, <1>5

\* What a step of a page does to a form on its way.
FormStill(p) ==
  /\ page'[p].form.n = page[p].form.n /\ page'[p].form.doc = page[p].form.doc
  /\ page[p].form.busy = TRUE => page'[p].form.busy = TRUE
FormRefused(p) ==
  /\ page'[p].form.n = page[p].form.n /\ page'[p].form.doc = page[p].form.doc
  /\ lost = 0 => \A d \in Docs : doc[d].content = <<p, page[p].form.n>> => page[p].form.doc = d
SentTyped(x) ==
  /\ call'[x].form > 0 /\ call'[x].put.content = <<call'[x].page, call'[x].form>>
  /\ lost = 0 => \A e \in Docs : doc[e].content = <<call'[x].page, call'[x].form>> => e = call'[x].doc

LEMMA ContentAsked ==
  ASSUME CallsInv, CallsInv', ContentInv, UNCHANGED <<load, doc>>, lost' \in Nat, lost' = 0 => lost = 0,
         \A p \in Pages : page'[p].forms >= page[p].forms,
         OfProducts => \A p \in Pages : FormStill(p) \/ FormNew(p) \/ FormRefused(p) \/ lost' # 0,
         \A x \in Calls : \/ call'[x] = call[x] \/ Left(x) \/ Ends(x) \/ Again(x)
                          \/ Sent(x) /\ (call'[x].op \in {"add", "edit"} => OfProducts /\ SentTyped(x))
  PROVE  ContentInv'
<1>0. OfProducts' = OfProducts
  BY DEF OfProducts, Screen
<1>1. \A d \in Docs, e \in Docs : Apart(d, e)'
  BY <1>0 DEF ContentInv, Apart, Known
<1>2. ASSUME OfProducts
      PROVE  ProductsMade'
  <2>1. ProductsMade
    BY <1>2 DEF ContentInv
  <2>2. ASSUME NEW d \in Docs, Known(d)'
        PROVE  \/ doc'[d].content = <<NoOne, d>>
               \/ \E p \in Pages : \E n \in 1 .. page'[p].forms : doc'[d].content = <<p, n>>
    <3>1. CASE doc[d].content = <<NoOne, d>>
      BY <3>1
    <3>2. CASE doc[d].content # <<NoOne, d>>
      <4>1. PICK p \in Pages : \E n \in 1 .. page[p].forms : doc[d].content = <<p, n>>
        BY <2>1, <2>2, <3>2 DEF ProductsMade, Origin, Known
      <4>2. PICK n \in 1 .. page[p].forms : doc[d].content = <<p, n>>
        BY <4>1
      <4>3. page[p].forms \in Nat /\ page'[p].forms \in Nat
        BY DEF CallsInv, PageOK, RecordOK
      <4>4. n \in 1 .. page'[p].forms
        BY <4>2, <4>3
      <4> QED
        BY <4>2, <4>4
    <3> QED
      BY <3>1, <3>2
  <2>3. ASSUME NEW x \in Calls
        PROVE  Typing(x)'
    <3>1. Typing(x)
      BY <2>1 DEF ProductsMade
    <3>2. CASE call'[x] = call[x] \/ Left(x)
      <4>1. /\ call'[x].st = call[x].st /\ call'[x].op = call[x].op /\ call'[x].form = call[x].form /\ call'[x].page = call[x].page
            /\ call'[x].put = call[x].put /\ call'[x].doc = call[x].doc /\ call'[x].ans = call[x].ans
        BY <3>2 DEF Left, Keeps, CallFields
      <4> QED
        BY <3>1, <4>1 DEF Typing, Editing, Its
    <3>3. CASE Ends(x) \/ Again(x)
      BY <3>3 DEF Ends, Again, Typing, Editing
    <3>4. CASE Sent(x) /\ (call'[x].op \in {"add", "edit"} => SentTyped(x))
      BY <3>4 DEF Sent, SentTyped, Typing, Editing, Its
    <3> QED
      BY <3>2, <3>3, <3>4
  <2>4. ASSUME NEW p \in Pages, lost' = 0, NEW d \in Docs, doc'[d].content = <<p, page'[p].form.n>>
        PROVE  page'[p].form.doc = d \/ (page'[p].form.doc = NoOne /\ page'[p].form.busy = TRUE)
    <3>1. CASE FormStill(p)
      BY <2>1, <2>4, <3>1 DEF FormStill, ProductsMade, FormUsed
    <3>2. CASE FormNew(p)
      <4>1. page'[p].form.n \in Nat
        BY DEF CallsInv, PageOK, RecordOK, FormOK
      <4> QED
        BY <2>1, <2>4, <3>2, <4>1, NewNumber DEF FormNew, ProductsMade
    <3> QED
      BY <1>2, <2>4, <3>1, <3>2 DEF FormRefused
  <2> QED
    BY <2>2, <2>3, <2>4 DEF ProductsMade, Origin, FormUsed
<1> QED
  BY <1>0, <1>1, <1>2 DEF ContentInv

\* A step of the server writes what one form bears into one document, or
\* none.
SameContent(d) == doc'[d].content = doc[d].content /\ (doc'[d].live = TRUE => doc[d].live = TRUE)
Writes(c, d) ==
  /\ call[c].st \in {"sent", "saving"} /\ call'[c].st = "served" /\ call'[c].ans = "ok"
  /\ doc'[d].content = call[c].put.content
  /\ \/ call[c].op = "edit" /\ d = call[c].doc
     \/ call[c].op \in {"coupon", "hire", "add"} /\ ~Taken(c)

LEMMA SaveWrites ==
  ASSUME CallsInv, DocsInv, SentInv, SnapsInv, NEW c \in Calls, Save(c)
  PROVE  /\ Answers(c) /\ call'[c].ans = "ok"
         /\ \E d \in Docs : (\A e \in Docs \ {d} : SameContent(e)) /\ (SameContent(d) \/ Writes(c, d))
<1>1. call[c].st = "saving" /\ call[c].op \in ReadThenSave /\ PutFits(call[c].op, DOMAIN call[c].put) /\ Asking(c)
  BY DEF Save, CallsInv, CallOK
<1>2. PICK d \in Docs : d = call[c].doc
  BY <1>1 DEF Asking, DocFits, ReadThenSave
<1> DEFINE snap == call[c].snap
           put == Effect(c)
<1>3. SetOK(put) /\ DocOK(snap) /\ DocOK(doc[d])
  BY <1>1, <1>2, SaveGrows DEF DocsInv, DocInv
<1>4. doc' = [doc EXCEPT ![d] = Saved(doc[d], snap, put)]
  BY <1>2 DEF Save
<1>5. doc'[d] = Saved(doc[d], snap, put) /\ \A e \in Docs \ {d} : doc'[e] = doc[e]
  BY <1>4 DEF CallsInv, Frame
<1>6. DOMAIN doc[d] = DocFields /\ DOMAIN snap = DocFields /\ DOMAIN put \subseteq DocFields
  BY <1>3 DEF DocOK, OfRow, SetOK
<1>7. put = Effect(c)
  OBVIOUS
<1> HIDE DEF put
<1>8. \A f \in DocFields : doc'[d][f] = IF f \in DOMAIN put /\ put[f] # snap[f] THEN put[f] ELSE doc[d][f]
  BY <1>5, <1>6, SavedFields
<1>9. /\ doc'[d].content = IF "content" \in DOMAIN put /\ put.content # snap.content THEN put.content ELSE doc[d].content
      /\ doc'[d].live = IF "live" \in DOMAIN put /\ put.live # snap.live THEN put.live ELSE doc[d].live
  BY <1>8 DEF DocFields
<1>10. Answers(c) /\ call'[c].ans = "ok"
  BY SaveShape
<1>11. SameContent(d) \/ Writes(c, d)
  <2>1. CASE call[c].op = "edit"
    <3>1. "live" \notin DOMAIN put /\ put.content = call[c].put.content
      <4>1. CASE Restocks(c)
        BY <1>1, <1>7, <4>1, Effects
      <4>2. CASE ~Restocks(c)
        BY <1>1, <1>7, <2>1, <4>2, Effects DEF AsFilled, PutFits
      <4> QED
        BY <4>1, <4>2
    <3> QED
      BY <1>1, <1>2, <1>9, <1>10, <2>1, <3>1 DEF SameContent, Writes, Answers
  <2>2. CASE call[c].op # "edit"
    <3>1. "content" \notin DOMAIN put /\ ("live" \in DOMAIN put => put.live = FALSE)
      <4>1. CASE call[c].op \in {"status", "member"}
        BY <1>1, <1>7, <4>1, Effects DEF PutFits
      <4>2. CASE call[c].op \in {"ask", "approve", "reject", "remove"}
        BY <1>1, <1>7, <4>2, Effects
      <4> QED
        BY <1>1, <2>2, <4>1, <4>2 DEF ReadThenSave
    <3> QED
      BY <1>9, <3>1 DEF SameContent
  <2> QED
    BY <2>1, <2>2
<1> QED
  BY <1>5, <1>10, <1>11 DEF SameContent

LEMMA CouponWrites ==
  ASSUME CallsInv, DocsInv, NEW c \in Calls, UpdateCoupon(c)
  PROVE  \A d \in Docs : SameContent(d)
<1>1. call[c].st = "sent" /\ call[c].op \in {"active", "delete"} /\ PutFits(call[c].op, DOMAIN call[c].put) /\ Asking(c)
  BY DEF UpdateCoupon, CallsInv, CallOK
<1>2. PICK d \in Docs : d = call[c].doc
  BY <1>1 DEF Asking, DocFits
<1>3. DOMAIN doc[d] = DocFields
  BY DEF DocsInv, DocInv, DocOK, OfRow
<1>4. CASE UNCHANGED doc
  BY <1>4 DEF SameContent
<1>5. CASE ~UNCHANGED doc
  <2>1. doc' = [doc EXCEPT ![d] = IF call[c].op = "delete" THEN [doc[d] EXCEPT !.live = FALSE] ELSE With(doc[d], call[c].put)]
    BY <1>2, <1>5 DEF UpdateCoupon
  <2>2. doc'[d] = (IF call[c].op = "delete" THEN [doc[d] EXCEPT !.live = FALSE] ELSE With(doc[d], call[c].put))
        /\ \A e \in Docs \ {d} : doc'[e] = doc[e]
    BY <2>1 DEF CallsInv, Frame
  <2>3. CASE call[c].op = "delete"
    BY <1>3, <2>2, <2>3 DEF SameContent, DocFields
  <2>4. CASE call[c].op = "active"
    <3>1. DOMAIN call[c].put \subseteq {"active", "role"}
      BY <1>1, <2>4 DEF PutFits
    <3>2. doc'[d].content = doc[d].content /\ doc'[d].live = doc[d].live
      BY <1>3, <2>2, <2>4, <3>1 DEF With, DocFields
    <3> QED
      BY <2>2, <3>2 DEF SameContent
  <2> QED
    BY <1>1, <2>3, <2>4
<1> QED
  BY <1>4, <1>5

LEMMA CreateWrites ==
  ASSUME CallsInv, DocsInv, NEW c \in Calls, Create(c)
  PROVE  /\ Answers(c)
         /\ \/ \A d \in Docs : SameContent(d)
            \/ \E d \in Docs : (\A e \in Docs \ {d} : SameContent(e)) /\ Writes(c, d)
<1>1. call[c].st = "sent" /\ call[c].op \in {"coupon", "hire", "add"} /\ PutFits(call[c].op, DOMAIN call[c].put)
  BY DEF Create, CallsInv, CallOK
<1>2. Answers(c)
  BY CreateShape
<1>3. CASE Taken(c)
  BY <1>2, <1>3 DEF Create, Taken, SameContent
<1>4. CASE ~Taken(c)
  <2>1. PICK d \in Unused : doc' = [doc EXCEPT ![d] = With(Fresh, call[c].put)] /\ Reply(c, "ok", doc'[d])
    BY <1>4 DEF Create, Fresh
  <2>2. doc'[d] = With(Fresh, call[c].put) /\ d \in Docs /\ \A e \in Docs \ {d} : doc'[e] = doc[e]
    BY <2>1 DEF CallsInv, Frame, Unused
  <2>3. "content" \in DOMAIN call[c].put /\ DOMAIN Fresh = DocFields
    BY <1>1, FreshFields DEF PutFits, DocOK, OfRow
  <2> HIDE DEF Fresh
  <2>4. doc'[d].content = call[c].put.content
    BY <2>2, <2>3 DEF With, DocFields
  <2>5. call'[c].ans = "ok"
    <3> DEFINE new == doc'[d]
    <3>1. Reply(c, "ok", new)
      BY <2>1
    <3> HIDE DEF new
    <3> QED
      BY <1>1, <3>1, ReplyAnswers
  <2> QED
    BY <1>1, <1>2, <1>4, <2>2, <2>4, <2>5 DEF Answers, Writes, SameContent
<1> QED
  BY <1>3, <1>4

LEMMA ContentWritten ==
  ASSUME CallsInv, DocsInv, SentInv, SnapsInv, DeskStep
  PROVE  \/ \A d \in Docs : SameContent(d)
         \/ \E c \in Calls, d \in Docs : (\A e \in Docs \ {d} : SameContent(e)) /\ Writes(c, d)
<1>1. CASE \E k \in Keys : Expire(k)
  BY <1>1 DEF Expire, SameContent
<1>2. ASSUME NEW d \in Docs, Sale(d)
      PROVE  \A e \in Docs : SameContent(e)
  <2>1. doc' = [doc EXCEPT ![d] = [doc[d] EXCEPT !.stock = @ - 1, !.sold = @ + 1]] /\ DOMAIN doc[d] = DocFields
    BY <1>2 DEF Sale, DocsInv, DocInv, DocOK, OfRow, DocFields
  <2>2. doc'[d] = [doc[d] EXCEPT !.stock = @ - 1, !.sold = @ + 1] /\ \A e \in Docs \ {d} : doc'[e] = doc[e]
    BY <2>1 DEF CallsInv, Frame
  <2>3. doc'[d].content = doc[d].content /\ doc'[d].live = doc[d].live
    BY <2>1, <2>2 DEF DocFields
  <2> QED
    BY <2>1, <2>2, <2>3 DEF SameContent
<1>3. ASSUME NEW d \in Docs, MarkOrderPaid(d)
      PROVE  \A e \in Docs : SameContent(e)
  <2>1. OrderPaid(d) /\ DOMAIN doc[d] = DocFields
    BY <1>3, PaidShape DEF DocsInv, DocInv, DocOK, OfRow
  <2>2. doc'[d].content = doc[d].content /\ doc'[d].live = doc[d].live
    BY <2>1, PaidFields DEF DocFields
  <2> QED
    BY <2>1, <2>2 DEF OrderPaid, SameContent
<1>4. ASSUME NEW c \in Calls, List(c) \/ Read(c) \/ Save(c) \/ Throws(c) \/ RefundUnsaved(c) \/ UpdateCoupon(c) \/ Create(c)
      PROVE  \/ \A d \in Docs : SameContent(d)
             \/ \E d \in Docs : (\A e \in Docs \ {d} : SameContent(e)) /\ Writes(c, d)
  <2>1. CASE List(c) \/ Throws(c) \/ RefundUnsaved(c) \/ Read(c)
    BY <2>1 DEF List, Throws, RefundUnsaved, Read, SameContent
  <2>2. CASE Save(c)
    BY <2>2, SaveWrites DEF SameContent
  <2>3. CASE UpdateCoupon(c)
    BY <2>3, CouponWrites
  <2>4. CASE Create(c)
    BY <2>4, CreateWrites
  <2> QED
    BY <1>4, <2>1, <2>2, <2>3, <2>4
<1> QED
  BY <1>1, <1>2, <1>3, <1>4 DEF DeskStep

LEMMA ContentServed ==
  ASSUME CallsInv, DocsInv, SentInv, SnapsInv, FormsOpen, ContentInv, DeskStep, UNCHANGED page
  PROVE  ContentInv'
<1>0. UNCHANGED <<load, lost>> /\ OfProducts' = OfProducts
  <2>1. UNCHANGED <<load, lost>>
    BY DEF DeskStep, List, Read, Save, Throws, RefundUnsaved, UpdateCoupon, Create, Expire, Sale, MarkOrderPaid
  <2> QED
    BY <2>1 DEF OfProducts, Screen
<1>1. \A x \in Calls : call'[x] = call[x] \/ Reads(x) \/ Answers(x)
  BY DeskQuiet
<1>2. UNCHANGED page
  OBVIOUS
<1>3. ASSUME NEW x \in Calls, Editing(x)'
      PROVE  /\ Editing(x) /\ call'[x].put = call[x].put /\ call'[x].doc = call[x].doc
             /\ call'[x].page = call[x].page /\ call'[x].form = call[x].form
             /\ call[x].st \in {"sent", "saving"} => call'[x].ans # "ok" \/ call'[x].st # "served"
  BY <1>1, <1>3 DEF Reads, Answers, Keeps, CallFields, Editing
<1>4. ASSUME OfProducts, \A d \in Docs : Origin(d)',
             lost = 0 => \A x \in Calls : Editing(x)' => \A e \in Docs : doc'[e].content = Its(x) => e = call[x].doc,
             lost = 0 => \A p \in Pages : \A d \in Docs :
               doc'[d].content = <<p, page[p].form.n>> => page[p].form.doc = d \/ (page[p].form.doc = NoOne /\ page[p].form.busy = TRUE)
      PROVE  ProductsMade'
  <2>1. ASSUME NEW x \in Calls
        PROVE  Typing(x)'
    <3>1. Typing(x)
      BY <1>4 DEF ContentInv, ProductsMade
    <3>2. ASSUME Editing(x)'
          PROVE  /\ call'[x].form > 0 /\ call'[x].put.content = Its(x)'
                 /\ lost' = 0 => \A e \in Docs : doc'[e].content = Its(x)' => e = call'[x].doc
      BY <1>0, <1>3, <1>4, <3>1, <3>2 DEF Typing, Its
    <3> QED
      BY <3>2 DEF Typing
  <2>2. \A p \in Pages : FormUsed(p)'
    BY <1>0, <1>4 DEF FormUsed
  <2> QED
    BY <1>4, <2>1, <2>2 DEF ProductsMade
<1>5. CASE \A d \in Docs : SameContent(d)
  <2>1. \A d \in Docs, e \in Docs : Apart(d, e)'
    BY <1>0, <1>5 DEF ContentInv, Apart, SameContent, Known
  <2>2. ASSUME OfProducts
        PROVE  ProductsMade'
    <3>1. ProductsMade
      BY <2>2 DEF ContentInv
    <3>2. \A d \in Docs : Origin(d)'
      BY <1>5, <3>1 DEF ProductsMade, Origin, SameContent, Known
    <3>3. lost = 0 => \A x \in Calls : Editing(x)' => \A e \in Docs : doc'[e].content = Its(x) => e = call[x].doc
      BY <1>3, <1>5, <3>1 DEF ProductsMade, Typing, SameContent
    <3>4. lost = 0 => \A p \in Pages : \A d \in Docs :
            doc'[d].content = <<p, page[p].form.n>> => page[p].form.doc = d \/ (page[p].form.doc = NoOne /\ page[p].form.busy = TRUE)
      BY <1>5, <3>1 DEF ProductsMade, FormUsed, SameContent
    <3> QED
      BY <1>4, <2>2, <3>2, <3>3, <3>4
  <2> QED
    BY <1>0, <2>1, <2>2 DEF ContentInv
<1>6. ASSUME NEW c \in Calls, NEW d \in Docs, \A e \in Docs \ {d} : SameContent(e), Writes(c, d)
      PROVE  ContentInv'
  <2>1. call[c].st \in {"sent", "saving"} /\ call'[c].st = "served" /\ Asking(c) /\ call[c].st # "idle"
    BY <1>6 DEF Writes, CallsInv, CallOK
  <2>2. PICK p \in Pages : p = call[c].page
    BY <2>1 DEF Asking
  <2>3. CASE OfProducts
    <3>1. call[c].op \in {"add", "edit"} /\ Editing(c) /\ ProductsMade /\ Typing(c)
      <4>1. call[c].op \in {"add", "edit"}
        BY <1>6, <2>1, <2>3, ProductOps DEF Writes
      <4> QED
        BY <2>1, <2>3, <4>1 DEF ContentInv, ProductsMade, Editing
    <3>2. doc'[d].content = <<p, call[c].form>> /\ (lost = 0 => \A e \in Docs : doc[e].content = <<p, call[c].form>> => e = call[c].doc)
      BY <1>6, <2>2, <3>1 DEF Writes, Typing, Its
    <3>3. call[c].op = "edit" => d = call[c].doc
      BY <1>6 DEF Writes
    <3>4. call[c].op = "add" => call[c].doc = NoOne
      BY <2>1 DEF Asking, DocFits
    <3>5. Flight(c) /\ Sub(c)
      BY <2>1, <3>1 DEF Flight, Sub, FormOps, Typing
    <3>6. call[c].form \in 1 .. page[p].forms
      BY <2>2, <3>1, <3>5 DEF FormsOpen, FlightOK, Typing, CallsInv, PageOK, RecordOK
    <3>7. ASSUME NEW x \in Calls, Editing(x)', Its(x) = <<p, call[c].form>>
          PROVE  FALSE
      <4>1. Editing(x) /\ x # c
        BY <1>3, <1>6, <2>1, <3>7 DEF Writes
      <4>2. Flight(x)
        <5>1. Typing(x)
          BY <3>1 DEF ProductsMade
        <5> QED
          BY <4>1, <5>1 DEF Flight, Editing, Typing, FormOps
      <4>3. call[x].page = call[c].page /\ call[x].form = call[c].form
        BY <2>2, <3>7 DEF Its
      <4> QED
        BY <3>5, <4>1, <4>2, <4>3 DEF FormsOpen, FlightOK
    <3>8. \A e \in Docs : Origin(e)'
      <4>1. Origin(d)'
        BY <2>2, <3>2, <3>6 DEF Origin
      <4>2. \A e \in Docs \ {d} : Origin(e)'
        BY <1>6, <3>1 DEF ProductsMade, Origin, SameContent, Known
      <4> QED
        BY <4>1, <4>2
    <3>9. ASSUME lost = 0, NEW x \in Calls, Editing(x)', NEW e \in Docs, doc'[e].content = Its(x)
          PROVE  e = call[x].doc
      <4>1. e # d
        BY <3>2, <3>7, <3>9
      <4>2. Editing(x) /\ doc[e].content = Its(x)
        BY <1>3, <1>6, <3>9, <4>1 DEF SameContent
      <4> QED
        BY <3>1, <3>9, <4>2 DEF ProductsMade, Typing
    <3>10. ASSUME lost = 0, NEW q \in Pages, NEW e \in Docs, doc'[e].content = <<q, page[q].form.n>>
           PROVE  page[q].form.doc = e \/ (page[q].form.doc = NoOne /\ page[q].form.busy = TRUE)
      <4>1. CASE e = d
        <5>1. q = p /\ page[p].form.n = call[c].form
          BY <3>2, <3>10, <4>1
        <5>2. page[p].form.busy = TRUE /\ call[c].doc = page[p].form.doc
          BY <2>2, <3>5, <5>1 DEF FormsOpen, FlightOK
        <5> QED
          BY <3>1, <3>3, <3>4, <4>1, <5>1, <5>2
      <4>2. CASE e # d
        BY <1>6, <3>1, <3>10, <4>2 DEF SameContent, ProductsMade, FormUsed
      <4> QED
        BY <4>1, <4>2
    <3>11. ASSUME lost = 0, NEW e \in Docs \ {d}
           PROVE  doc'[e].content # doc'[d].content
      <4> SUFFICES ASSUME doc'[e].content = doc'[d].content
                   PROVE  FALSE
        OBVIOUS
      <4>1. e = call[c].doc
        BY <1>6, <3>2, <3>11 DEF SameContent
      <4> QED
        BY <3>1, <3>3, <3>4, <3>11, <4>1, DeskAssumption
    <3>12. ASSUME NEW a \in Docs, NEW b \in Docs
           PROVE  Apart(a, b)'
      <4>1. CASE a = d \/ b = d
        BY <1>0, <2>3, <3>11, <4>1 DEF Apart
      <4>2. CASE a # d /\ b # d
        <5>1. Apart(a, b)
          BY DEF ContentInv
        <5> QED
          BY <1>0, <1>6, <2>3, <4>2, <5>1 DEF Apart, SameContent, Known
      <4> QED
        BY <4>1, <4>2
    <3>13. ProductsMade'
      BY <1>4, <2>3, <3>8, <3>9, <3>10
    <3> QED
      BY <1>0, <3>12, <3>13 DEF ContentInv
  <2>4. CASE ~OfProducts
    <3>1. call[c].op \notin {"add", "edit"} /\ ~Taken(c)
      BY <1>6, <2>1, <2>4, ProductOps DEF Writes
    <3>2. \A e \in Docs \ {d} : doc'[e].live = TRUE => doc'[e].content # doc'[d].content
      BY <1>6, <3>1 DEF Taken, SameContent, Writes
    <3>3. ASSUME NEW a \in Docs, NEW b \in Docs
          PROVE  Apart(a, b)'
      <4>1. CASE a = d \/ b = d
        BY <1>0, <2>4, <3>2, <4>1 DEF Apart
      <4>2. CASE a # d /\ b # d
        <5>1. Apart(a, b)
          BY DEF ContentInv
        <5> QED
          BY <1>0, <1>6, <2>4, <4>2, <5>1 DEF Apart, SameContent
      <4> QED
        BY <4>1, <4>2
    <3> QED
      BY <1>0, <2>4, <3>3 DEF ContentInv
  <2> QED
    BY <2>3, <2>4
<1> QED
  BY <1>5, <1>6, ContentWritten

\* A form that is sent was not saved yet, but in its product.
LEMMA ContentSubmitted ==
  ASSUME CallsInv, CallsInv', ContentInv, NEW c \in Calls, NEW p \in Pages, SubmitShape(c, p)
  PROVE  ContentInv'
<1>1. PICK chose \in Choices(p) : \E put \in Puts(p, chose) :
        /\ Made(call'[c], p, SubmitOp(p), page[p].form.doc, page[p].query, put, chose, page[p].form.row, page[p].form.n)
        /\ OnlyPage(p, [page[p] EXCEPT !.form = Typed(p, chose, put)])
  BY DEF SubmitShape
<1>2. PICK put \in Puts(p, chose) :
        /\ Made(call'[c], p, SubmitOp(p), page[p].form.doc, page[p].query, put, chose, page[p].form.row, page[p].form.n)
        /\ OnlyPage(p, [page[p] EXCEPT !.form = Typed(p, chose, put)])
  BY <1>1
<1>3. /\ DOMAIN page[p] = PageFields /\ DOMAIN page[p].form = FormFields /\ page[p].form.n \in Nat /\ page[p].form.n > 0
      /\ page[p].form.busy = FALSE
  BY DEF SubmitShape, CallsInv, PageOK, RecordOK, FormOK
<1>4. \A q \in Pages : page'[q].forms >= page[q].forms /\ FormStill(q)
  <2>1. Typed(p, chose, put).n = page[p].form.n /\ Typed(p, chose, put).doc = page[p].form.doc
    BY <1>3 DEF Typed, FormFields
  <2>2. page'[p].form = Typed(p, chose, put) /\ page'[p].forms = page[p].forms /\ \A q \in Pages \ {p} : page'[q] = page[q]
    <3> HIDE DEF Typed
    <3> QED
      BY <1>2, <1>3 DEF OnlyPage, PageFields
  <2> HIDE DEF Typed
  <2>3. FormStill(p) /\ \A q \in Pages \ {p} : FormStill(q)
    BY <1>3, <2>1, <2>2 DEF FormStill
  <2> QED
    BY <2>2, <2>3 DEF CallsInv, PageOK, RecordOK
<1>5. /\ call'[c].put = put /\ call'[c].doc = page[p].form.doc /\ call'[c].op = SubmitOp(p)
      /\ call'[c].form = page[p].form.n /\ call'[c].page = p
  BY <1>2 DEF Made
<1>6. UNCHANGED <<load, doc, lost>> /\ Sent(c) /\ (\A x \in Calls \ {c} : call'[x] = call[x]) /\ Fits(SubmitOp(p), Screen(p))
  BY DEF SubmitShape, OnlyCall, desk
<1>7. ASSUME call'[c].op \in {"add", "edit"}
      PROVE  OfProducts /\ SentTyped(c)
  <2>1. Screen(p) \in {"add", "edit", "products"}
    BY <1>5, <1>6, <1>7 DEF Fits
  <2>2. OfProducts
    BY <2>1, ScreenKind DEF ProductScreens
  <2>3. put.content = <<p, page[p].form.n>>
    BY <1>2, <2>1 DEF Puts, ProductPut, Content
  <2>4. FormUsed(p)
    BY <2>2 DEF ContentInv, ProductsMade
  <2> QED
    BY <1>3, <1>5, <2>2, <2>3, <2>4 DEF FormUsed, SentTyped
<1>8. \A x \in Calls : call'[x] = call[x] \/ (Sent(x) /\ (call'[x].op \in {"add", "edit"} => OfProducts /\ SentTyped(x)))
  BY <1>6, <1>7
<1>9. lost' \in Nat /\ (lost' = 0 => lost = 0)
  BY <1>6 DEF ContentInv
<1> QED
  BY <1>4, <1>6, <1>8, <1>9, ContentAsked

\* Its answer is the last of it, or was lost.
LEMMA ContentAnswered ==
  ASSUME CallsInv, CallsInv', ContentInv, FormsOpen, NEW c \in Calls, AnswerShape(c)
  PROVE  ContentInv'
<1>1. call[c].st = "served" /\ OnlyCall(c) /\ (Ends(c) \/ Again(c))
  BY DEF AnswerShape, EndShape, ArriveShape, RowArriveShape, LeaveShape, AgainShape, DoneShape, FailShape, Ends, Again
<1>2. UNCHANGED <<load, doc>>
  BY DEF AnswerShape, EndShape, ArriveShape, RowArriveShape, LeaveShape, AgainShape, DoneShape, FailShape, desk
<1>3. Asking(c)
  BY <1>1 DEF CallsInv, CallOK
<1>4. PICK p \in Pages : p = call[c].page
  BY <1>3 DEF Asking
<1>5. \A q \in Pages \ {p} : page'[q] = page[q]
  BY <1>4 DEF AnswerShape, ArriveShape, RowArriveShape, LeaveShape, AgainShape, DoneShape, FailShape, FreedPage
<1>6. page[p].forms \in Nat /\ page[p].form.n \in Nat
  BY DEF CallsInv, PageOK, RecordOK, FormOK
<1>7. \A q \in Pages : page'[q].forms >= page[q].forms
  <2>1. page'[p].forms = page[p].forms \/ page'[p].forms = page[p].forms + 1
    BY <1>4 DEF AnswerShape, ArriveShape, RowArriveShape, LeaveShape, AgainShape, DoneShape, FailShape, Unmounted
  <2> QED
    BY <1>5, <1>6, <2>1 DEF CallsInv, PageOK, RecordOK
<1>8. lost' \in Nat /\ (lost' = 0 => lost = 0)
  <2>1. lost \in Nat /\ (lost' = lost \/ lost' = lost + 1)
    BY DEF ContentInv, AnswerShape, ArriveShape, RowArriveShape, LeaveShape, AgainShape, DoneShape, FailShape, desk
  <2> QED
    BY <2>1
<1>9. ASSUME OfProducts
      PROVE  FormStill(p) \/ FormNew(p) \/ FormRefused(p) \/ lost' # 0
  <2>1. Typing(c) /\ call[c].op \in {"list", "remove", "add", "edit"} /\ lost \in Nat
    BY <1>1, <1>9, ProductOps DEF ContentInv, ProductsMade
  <2>2. ASSUME FreedForm(c), call[c].op \in {"list", "remove"}
        PROVE  FormStill(p)
    BY <1>4, <2>2 DEF FreedForm, FormStill, FormOps
  <2>3. CASE UNCHANGED page
    BY <2>3 DEF FormStill
  <2>4. CASE ArriveShape(c)
    BY <1>4, <2>4 DEF ArriveShape, FormStill
  <2>5. CASE LeaveShape(c)
    BY <2>1, <2>2, <2>5 DEF LeaveShape
  <2>6. CASE FailShape(c)
    <3>1. CASE call[c].op \in {"list", "remove"}
      BY <2>2, <2>6, <3>1 DEF FailShape
    <3>2. CASE call[c].op \in {"add", "edit"} /\ call[c].ans # "ok"
      <4>1. Editing(c) /\ Typing(c)
        BY <1>1, <2>1, <3>2 DEF Editing
      <4>2. CASE page[p].form.n = call[c].form
        <5>1. Sub(c) /\ Flight(c)
          BY <1>1, <3>2, <4>1 DEF Sub, Flight, Typing, FormOps
        <5>2. call[c].doc = page[p].form.doc
          BY <1>4, <4>2, <5>1 DEF FormsOpen, FlightOK
        <5> QED
          BY <1>4, <2>6, <4>1, <4>2, <5>2 DEF FailShape, FreedForm, FormRefused, Typing, Its
      <4>3. CASE page[p].form.n # call[c].form
        BY <1>4, <2>6, <4>3 DEF FailShape, FreedForm, FormStill
      <4> QED
        BY <4>2, <4>3
    <3>3. CASE call[c].ans = "ok"
      BY <2>6, <3>3 DEF FailShape, ContentInv
    <3> QED
      BY <2>1, <3>1, <3>2, <3>3
  <2>7. CASE AgainShape(c)
    BY <1>4, <1>6, <2>7 DEF AgainShape, FormNew, NoForm
  <2>8. CASE DoneShape(c)
    BY <1>4, <1>6, <2>8 DEF DoneShape, FormNew, Unmounted, NoForm
  <2> QED
    BY <2>1, <2>3, <2>4, <2>5, <2>6, <2>7, <2>8 DEF AnswerShape, RowArriveShape
<1>10. OfProducts => \A q \in Pages : FormStill(q) \/ FormNew(q) \/ FormRefused(q) \/ lost' # 0
  BY <1>5, <1>9 DEF FormStill
<1>11. \A x \in Calls : call'[x] = call[x] \/ Ends(x) \/ Again(x)
  BY <1>1 DEF OnlyCall
<1> QED
  BY <1>2, <1>7, <1>8, <1>10, <1>11, ContentAsked

LEMMA ContentStep ==
  ASSUME CallsInv, CallsInv', ReadingsInv, FormsOpen, ContentInv, AllMove, StepShape
  PROVE  ContentInv'
<1>0. \A p \in Pages : page[p].forms \in Nat /\ page'[p].forms \in Nat
  BY DEF CallsInv, PageOK, RecordOK
<1>1. CASE DeskStep /\ UNCHANGED page
  BY <1>1, ContentServed DEF ReadingsInv
<1>2. ASSUME UNCHANGED desk, \A p \in Pages : page'[p].forms >= page[p].forms /\ (FormStill(p) \/ FormNew(p)),
             \A x \in Calls : call'[x] = call[x] \/ Left(x) \/ (Sent(x) /\ call'[x].op \notin {"add", "edit"})
      PROVE  ContentInv'
  <2>1. UNCHANGED <<load, doc, lost>> /\ lost \in Nat
    BY <1>2 DEF desk, ContentInv
  <2> QED
    BY <1>2, <2>1, ContentAsked
<1>3. ASSUME NEW c \in Calls, NEW p \in Pages, OpenShape(c, p)
      PROVE  ContentInv'
  <2>1. \A x \in Calls : call'[x] = call[x] \/ Left(x) \/ (Sent(x) /\ call'[x].op \notin {"add", "edit"})
    BY <1>3 DEF OpenShape, Made
  <2>2. FormNew(p) /\ page'[p].forms >= page[p].forms
    BY <1>0, <1>3 DEF OpenShape, FormNew
  <2>3. \A q \in Pages \ {p} : page'[q] = page[q]
    BY <1>3 DEF OpenShape
  <2>4. \A q \in Pages : page'[q].forms >= page[q].forms /\ (FormStill(q) \/ FormNew(q))
    BY <1>0, <2>2, <2>3 DEF FormStill
  <2>5. UNCHANGED desk
    BY <1>3 DEF OpenShape
  <2> QED
    BY <1>2, <2>1, <2>4, <2>5
<1>4. ASSUME NEW c \in Calls, NEW p \in Pages, NEW d \in Docs, RowShape(c, p, d)
      PROVE  ContentInv'
  <2>1. \A q \in Pages : page'[q].forms = page[q].forms /\ page'[q].form = page[q].form
    BY <1>4 DEF RowShape, CallsInv, PageOK, RecordOK, PageFields
  <2>2. \A x \in Calls : call'[x] = call[x] \/ (Sent(x) /\ call'[x].op \notin {"add", "edit"})
    BY <1>4 DEF RowShape, OnlyCall, RowOps
  <2>3. \A q \in Pages : page'[q].forms >= page[q].forms /\ (FormStill(q) \/ FormNew(q))
    BY <1>0, <2>1 DEF FormStill
  <2>4. UNCHANGED desk
    BY <1>4 DEF RowShape
  <2> QED
    BY <1>2, <2>2, <2>3, <2>4
<1>5. ASSUME NEW p \in Pages, AskShape(p)
      PROVE  ContentInv'
  <2>1. \A q \in Pages : page'[q].forms = page[q].forms /\ page'[q].form = page[q].form
    BY <1>5 DEF AskShape, CallsInv, PageOK, RecordOK, PageFields
  <2>2. \A x \in Calls : call'[x] = call[x] \/ (Sent(x) /\ call'[x].op \notin {"add", "edit"})
    BY <1>5 DEF AskShape, Made
  <2>3. \A q \in Pages : page'[q].forms >= page[q].forms /\ (FormStill(q) \/ FormNew(q))
    BY <1>0, <2>1 DEF FormStill
  <2>4. UNCHANGED desk
    BY <1>5 DEF AskShape
  <2> QED
    BY <1>2, <2>2, <2>3, <2>4
<1>6. ASSUME NEW p \in Pages, FormShape(p)
      PROVE  ContentInv'
  <2>1. \A q \in Pages \ {p} : page'[q] = page[q]
    BY <1>6 DEF FormShape, CallsInv
  <2>2. page'[p].forms >= page[p].forms /\ FormNew(p)
    <3>1. CASE page' = [page EXCEPT ![p].form = NoForm]
      <4>1. page'[p].form = NoForm /\ page'[p].forms = page[p].forms
        BY <3>1 DEF CallsInv, PageOK, RecordOK, PageFields
      <4> QED
        BY <1>0, <4>1 DEF FormNew, NoForm
    <3>2. ASSUME NEW d, NEW row, page' = [page EXCEPT ![p].form = Form(p, d, row), ![p].forms = @ + 1]
          PROVE  page'[p].forms >= page[p].forms /\ FormNew(p)
      <4>1. page'[p].form = Form(p, d, row) /\ page'[p].forms = page[p].forms + 1
        <5> HIDE DEF Form
        <5> QED
          BY <3>2 DEF CallsInv, PageOK, RecordOK, PageFields
      <4> QED
        BY <1>0, <4>1 DEF FormNew, Form
    <3> QED
      BY <1>6, <3>1, <3>2 DEF FormShape
  <2>3. \A q \in Pages : page'[q].forms >= page[q].forms /\ (FormStill(q) \/ FormNew(q))
    BY <1>0, <2>1, <2>2 DEF FormStill
  <2>4. UNCHANGED desk /\ UNCHANGED call
    BY <1>6 DEF FormShape
  <2> QED
    BY <1>2, <2>3, <2>4
<1> QED
  BY <1>1, <1>3, <1>4, <1>5, <1>6, ContentSubmitted, ContentAnswered DEF StepShape, PageShape

LEMMA ContentInit ==
  ASSUME Init
  PROVE  ContentInv
<1>1. \A d \in Docs : doc[d].content = IF d \in load.live THEN <<NoOne, d>> ELSE NoOne
  BY DEF Init, DeskInit, First, Blank
<1>2. \A d \in Docs : doc[d].live = TRUE => d \in load.live
  BY DEF Init, DeskInit, First, Blank
<1>3. ASSUME NEW d \in Docs, NEW e \in Docs
      PROVE  Apart(d, e)
  <2>1. <<NoOne, d>> # NoOne
    BY DeskAssumption
  <2>2. ASSUME d \in load.live, doc[d].content = doc[e].content
        PROVE  d = e
    <3>1. doc[d].content = <<NoOne, d>>
      BY <1>1, <2>2
    <3>2. doc[e].content = <<NoOne, e>>
      BY <1>1, <2>1, <2>2, <3>1
    <3>3. <<NoOne, d>>[2] = <<NoOne, e>>[2]
      BY <2>2, <3>1, <3>2
    <3> QED
      BY <3>3
  <2>3. Known(d) \/ doc[d].live = TRUE => d \in load.live
    BY <1>1, <1>2 DEF Known
  <2> QED
    BY <2>2, <2>3 DEF Apart
<1>4. \A d \in Docs : Origin(d)
  BY <1>1 DEF Origin, Known
<1>5. \A c \in Calls : Typing(c)
  BY DEF Init, DeskInit, NoCall, Typing, Editing
<1>6. ASSUME NEW p \in Pages
      PROVE  FormUsed(p)
  <2>1. p # NoOne /\ <<p, page[p].form.n>> # NoOne
    BY DeskAssumption DEF Init, Unmounted, NoForm
  <2>2. ASSUME NEW d \in Docs
        PROVE  doc[d].content # <<p, page[p].form.n>>
    <3>1. <<NoOne, d>> # <<p, page[p].form.n>>
      BY <2>1
    <3> QED
      BY <1>1, <2>1, <3>1
  <2> QED
    BY <2>2 DEF FormUsed
<1>7. lost \in Nat
  BY DEF Init, DeskInit
<1> QED
  BY <1>3, <1>4, <1>5, <1>6, <1>7 DEF ContentInv, ProductsMade

\* A form creates one document, two only of a product whose first answer was
\* lost (createProduct, createCoupon, createStaff, and the forms they serve);
\* no page is left with a form or a row that waits for nothing; and no piece
\* is counted wrong but through a form filled before it was sold.
THEOREM FormsSafety == BackOfficeSpec => []FormsInv
<1>1. Init => ContentInv
  BY ContentInit
<1>2. /\ CallsInv /\ CallsInv' /\ SinglesInv /\ FormsOpen /\ ReadingsInv /\ ContentInv /\ [Next]_bvars
      => ContentInv'
  <2> SUFFICES ASSUME CallsInv, CallsInv', SinglesInv, FormsOpen, ReadingsInv, ContentInv, [Next]_bvars
               PROVE  ContentInv'
    OBVIOUS
  <2>1. CASE Next
    BY <2>1, Steps, ContentStep
  <2>2. CASE UNCHANGED bvars
    BY <2>2 DEF bvars, dvars, ContentInv, ProductsMade, Origin, Typing, Editing, Its, FormUsed, Apart, Known, OfProducts, Screen
  <2> QED
    BY <2>1, <2>2
<1>3. ASSUME CallsInv, FormsOpen, RowsOpen, doc \in [Docs -> Documents]
      PROVE  BackOfficeTypeOK
  <2>1. ASSUME NEW p \in Pages
        PROVE  /\ DOMAIN page[p] = DOMAIN Unmounted /\ (page[p].form # NoForm => page[p].up)
               /\ page[p].form.busy => \E c \in Of(p) : /\ ~call[c].gone /\ call[c].form = page[p].form.n
                                                        /\ call[c].st \in {"sent", "saving", "served"}
               /\ page[p].busy # NoOne => \E c \in Of(p) : ~call[c].gone /\ c \notin Over /\ call[c].doc = page[p].busy
    <3>1. DOMAIN page[p] = PageFields /\ DOMAIN Unmounted = PageFields /\ (page[p].form # NoForm => page[p].up)
          /\ page[p].form.busy \in BOOLEAN
      BY <1>3 DEF CallsInv, PageOK, RecordOK, FormOK, Unmounted, PageFields
    <3>2. ASSUME page[p].form.busy
          PROVE  \E c \in Of(p) : /\ ~call[c].gone /\ call[c].form = page[p].form.n
                                  /\ call[c].st \in {"sent", "saving", "served"}
      <4>1. PICK a \in Calls : Flight(a) /\ call[a].page = p /\ call[a].form = page[p].form.n
        BY <1>3, <3>1, <3>2 DEF FormsOpen, BusyForm
      <4>2. call[a].gone = FALSE
        BY <1>3, <4>1 DEF FormsOpen, FlightOK
      <4> QED
        BY <4>1, <4>2 DEF Flight, Of
    <3>3. ASSUME page[p].busy # NoOne
          PROVE  \E c \in Of(p) : ~call[c].gone /\ c \notin Over /\ call[c].doc = page[p].busy
      <4>1. PICK a \in Calls : call[a].page = p /\ call[a].gone = FALSE /\ a \notin Over /\ call[a].doc = page[p].busy
        BY <1>3, <3>3 DEF RowsOpen, BusyRow
      <4> QED
        BY <4>1 DEF Of
    <3> QED
      BY <3>1, <3>2, <3>3
  <2> QED
    BY <1>3, <2>1 DEF BackOfficeTypeOK
<1>4. ASSUME ReadingsInv, ContentInv
      PROVE  OneDocPerSubmission
  <2> SUFFICES ASSUME NEW d \in Docs, NEW e \in Docs, d # e, doc[d].live, doc[e].live, doc[d].content = doc[e].content
               PROVE  OfProducts /\ lost > 0
    BY DEF OneDocPerSubmission
  <2>1. Apart(d, e) /\ lost \in Nat
    BY <1>4 DEF ContentInv
  <2>2. doc[d].live = TRUE /\ doc[e].live = TRUE /\ Known(d)
    BY <1>4 DEF ReadingsInv, DocsInv, DocInv, DocOK, OfRow
  <2> QED
    BY <2>1, <2>2 DEF Apart
<1>5. CallsInv /\ FormsOpen /\ RowsOpen /\ ReadingsInv /\ doc \in [Docs -> Documents] /\ StockLostOnlyToOldForms /\ ContentInv => FormsInv
  BY <1>3, <1>4 DEF FormsInv
<1> QED
  BY <1>1, <1>2, <1>5, DeskSafety, BusySafety, StockSafety, DocumentsSafety, PTL DEF BackOfficeSpec

-----------------------------------------------------------------------------
(* The status a seller's page shows.                                       *)

\* A request that the server or its page has still to deal with.
Awaited(c) == call[c].st \in {"sent", "saving", "served"}

\* No other page changed the status of d; p itself is about to.
Mine(p, d) == writer[d] \in {NoOne, p}
Changing(p, d) == \E a \in Calls : Awaited(a) /\ call[a].page = p /\ call[a].op = "status" /\ call[a].doc = d
Says(p, d, r) == r.status = doc[d].status \/ Changing(p, d)

RowsSay(p) == \A d \in Docs : Mine(p, d) /\ page[p].rows[d] # NoOne => Says(p, d, page[p].rows[d])
FormSays(p) ==
  \A d \in Docs : page[p].form # NoForm /\ page[p].form.doc = d /\ Mine(p, d) => Says(p, d, page[p].form.row)
StatusSays(c, d) ==
  /\ call[c].st = "saving" => call[c].snap.status = doc[d].status
  /\ call[c].st = "served" => call[c].heard.status = doc[d].status
  /\ call[c].st \in {"sent", "saving"} /\ call[c].chose = NoOne => call[c].put.status = doc[d].status
CallSays(c, p) ==
  /\ Awaited(c) => call[c].gone = FALSE
  /\ call[c].op = "list" /\ call[c].st = "served" =>
       \A d \in Docs : Mine(p, d) /\ call[c].heard[d] # NoOne => call[c].heard[d].status = doc[d].status
  /\ call[c].op = "status" => \A d \in Docs : call[c].doc = d /\ Mine(p, d) => StatusSays(c, d)
  /\ call[c].op = "status" /\ call[c].st = "served" => call[c].ans = "ok"
PageSays(p) == RowsSay(p) /\ FormSays(p) /\ \A c \in Calls : call[c].page = p => CallSays(c, p)

\* The requests of the page come one after the other, and are all answered.
Calm(p) == Screen(p) = "selling" /\ Serial(p) /\ NoneLost(p)

\* Only the seller's panel has a number.
NumberOK(c) == call[c].op = "status" /\ Screen(call[c].page) # "selling" => call[c].form = 0
StatusInv == (\A p \in Pages : Calm(p) => PageSays(p)) /\ \A c \in Calls : NumberOK(c)

\* Whose requests overlapped, or were lost, stays so.
LEMMA CalmBefore ==
  ASSUME CallsInv, AllMove, UNCHANGED load, NEW p \in Pages, Calm(p)'
  PROVE  Calm(p)
<1>1. ASSUME NEW c \in Calls, call[c].page = p
      PROVE  /\ call'[c].page = p /\ call'[c].after = call[c].after
             /\ call[c].ans = "lost" => call'[c].ans = "lost"
  <2>1. Moves(c) /\ CallOK(c) /\ ~Sent(c)
    BY <1>1, DeskAssumption DEF AllMove, CallsInv, Sent, NoCall
  <2>2. call'[c].page = p /\ call'[c].after = call[c].after
    BY <1>1, <2>1 DEF Moves, Left, Reads, Answers, Ends, Again, Keeps, CallFields
  <2>3. ASSUME call[c].ans = "lost"
        PROVE  call'[c].ans = "lost"
    <3>1. call[c].st \notin {"sent", "saving", "served"}
      BY <2>1, <2>3 DEF CallOK
    <3>2. call'[c] = call[c] \/ Left(c)
      BY <2>1, <3>1 DEF Moves, Reads, Answers, Ends, Again
    <3> QED
      BY <2>3, <3>2 DEF Left, Keeps, CallFields
  <2> QED
    BY <2>2, <2>3
<1>2. Serial(p)
  <2> SUFFICES ASSUME NEW c \in Calls, NEW e \in Calls, call[c].page = p, call[e].page = p, Overlap(c, e)
               PROVE  FALSE
    BY DEF Serial, Of
  <2>1. Overlap(c, e)' /\ call'[c].page = p /\ call'[e].page = p
    BY <1>1 DEF Overlap
  <2> QED
    BY <2>1 DEF Calm, Serial, Of
<1>3. NoneLost(p)
  BY <1>1 DEF Calm, NoneLost, Of
<1> QED
  BY <1>2, <1>3 DEF Calm, Screen

\* Then one request is awaited at a time.
LEMMA OneAwaited ==
  ASSUME CallsInv, NEW p \in Pages, Calm(p), NEW c \in Calls, NEW e \in Calls,
         call[c].page = p, call[e].page = p, Awaited(c), Awaited(e)
  PROVE  c = e
<1>1. call[c].after \subseteq Over /\ call[e].after \subseteq Over /\ c \notin Over /\ e \notin Over
  BY DEF CallsInv, CallOK, Awaited, Over
<1>2. ~Overlap(c, e)
  BY DEF Calm, Serial, Of
<1> QED
  BY <1>1, <1>2 DEF Overlap

\* And one is sent when no other is.
LEMMA SentAlone ==
  ASSUME CallsInv, CallsInv', AllMove, NEW p \in Pages, Calm(p)', NEW c \in Calls, Sent(c), call'[c].page = p,
         NEW e \in Calls, e # c, call[e].page = p
  PROVE  e \in Over
<1>1. Moves(e) /\ ~Sent(e)
  BY DeskAssumption DEF AllMove, Sent, NoCall
<1>2. call'[e].page = p
  BY <1>1 DEF Moves, Left, Reads, Answers, Ends, Again, Keeps, CallFields
<1>3. ~Overlap(c, e)'
  BY <1>2 DEF Calm, Serial, Of
<1>4. CallOK(e)' /\ c \notin Over'
  BY DEF CallsInv, Sent, Over
<1>5. c \notin call'[e].after /\ call'[c].after = Over
  BY <1>4 DEF CallOK, Sent
<1> QED
  BY <1>3, <1>5 DEF Overlap

\* A page that a step leaves alone says what it said.
LEMMA SaysStill ==
  ASSUME NEW p \in Pages, PageSays(p), UNCHANGED <<doc, writer>>, page'[p] = page[p],
         \A x \in Calls : call[x].page = p \/ call'[x].page = p => call'[x] = call[x]
  PROVE  PageSays(p)'
<1>1. \A d \in Docs : Mine(p, d)' = Mine(p, d)
  BY DEF Mine
<1>2. \A d \in Docs : Changing(p, d) => Changing(p, d)'
  BY DEF Changing, Awaited
<1>3. RowsSay(p)' /\ FormSays(p)'
  BY <1>1, <1>2 DEF PageSays, RowsSay, FormSays, Says
<1>4. ASSUME NEW c \in Calls, call'[c].page = p
      PROVE  CallSays(c, p)'
  <2>1. call'[c] = call[c] /\ CallSays(c, p)
    BY <1>4 DEF PageSays
  <2> QED
    BY <1>1, <2>1 DEF CallSays, StatusSays, Awaited
<1> QED
  BY <1>3, <1>4 DEF PageSays

\* A save and the status: it is written if it differs from what was read, the
\* answer has it either way.
StatusSaved(c, d) ==
  /\ call[c].st = "saving" /\ call[c].doc = d /\ call[c].op \in ReadThenSave
  /\ \A e \in Docs \ {d} : doc'[e] = doc[e] /\ writer'[e] = writer[e]
  /\ writer'[d] = (IF doc'[d].status = doc[d].status THEN writer[d] ELSE call[c].page)
  /\ \/ doc'[d].status = doc[d].status /\ call'[c].heard.status = call[c].snap.status
     \/ doc'[d].status = call'[c].heard.status
  /\ call[c].op = "status" /\ call[c].put.status = call[c].snap.status => doc'[d].status = doc[d].status

LEMMA StatusSave ==
  ASSUME CallsInv, DocsInv, SentInv, SnapsInv, NEW c \in Calls, Save(c)
  PROVE  call[c].doc \in Docs /\ StatusSaved(c, call[c].doc)
<1> DEFINE snap == call[c].snap
           put == Effect(c)
<1>1. SetOK(put) /\ call[c].doc \in Docs /\ DocOK(snap)
  BY SaveGrows
<1>2. PICK d \in Docs : d = call[c].doc
  BY <1>1
<1>3. DOMAIN doc[d] = DocFields /\ DOMAIN snap = DocFields /\ DOMAIN put \subseteq DocFields
  BY <1>1 DEF DocsInv, DocInv, DocOK, OfRow, SetOK
<1>4. /\ doc' = [doc EXCEPT ![d] = Saved(doc[d], snap, put)] /\ Reply(c, "ok", With(snap, put))
      /\ writer' = IF doc'[d].status = doc[d].status THEN writer ELSE [writer EXCEPT ![d] = call[c].page]
      /\ call[c].st = "saving"
  BY <1>2 DEF Save
<1>5. call[c].op \in ReadThenSave
  BY <1>4 DEF CallsInv, CallOK
<1>6. call[c].op = "status" => put = call[c].put
  BY <1>5, Effects
<1>7. DOMAIN doc = Docs /\ DOMAIN writer = Docs
  BY DEF CallsInv, Frame
<1> HIDE DEF snap, put
<1>8. call'[c].heard = With(snap, put)
  BY <1>4, ReplyAnswers, <1>5 DEF ReadThenSave
<1>9. /\ DOMAIN With(snap, put) = DocFields
      /\ \A f \in DocFields : With(snap, put)[f] = IF f \in DOMAIN put THEN put[f] ELSE snap[f]
  BY <1>3 DEF With
<1>10. call'[c].heard.status = IF "status" \in DOMAIN put THEN put.status ELSE snap.status
  BY <1>8, <1>9 DEF DocFields
<1>11. doc'[d] = Saved(doc[d], snap, put) /\ \A e \in Docs \ {d} : doc'[e] = doc[e] /\ writer'[e] = writer[e]
  BY <1>4, <1>7
<1>12. doc'[d].status = IF "status" \in DOMAIN put /\ put.status # snap.status THEN put.status ELSE doc[d].status
  BY <1>3, <1>11, SavedFields DEF DocFields
<1>13. writer'[d] = IF doc'[d].status = doc[d].status THEN writer[d] ELSE call[c].page
  BY <1>4, <1>7
<1> QED
  BY <1>2, <1>4, <1>5, <1>6, <1>10, <1>11, <1>12, <1>13 DEF StatusSaved, snap

\* What else the server does: orders stay but for one that is paid, a list is
\* answered as they are.
Listed(x) == Answers(x) /\ call[x].op # "status" /\ (call[x].op = "list" => call'[x].heard = View(Screen(call[x].page), call[x].query))
LEMMA StatusRead ==
  ASSUME CallsInv, RefundsInv, Orders, DeskStep
  PROVE  \/ \E c \in Calls : Save(c)
         \/ \E d \in Docs : OrderPaid(d)
         \/ UNCHANGED <<doc, writer>> /\ \A x \in Calls : call'[x] = call[x] \/ Reads(x) \/ Listed(x)
<1> SUFFICES ASSUME \A c \in Calls : ~Save(c), \A d \in Docs : ~OrderPaid(d)
             PROVE  UNCHANGED <<doc, writer>> /\ \A x \in Calls : call'[x] = call[x] \/ Reads(x) \/ Listed(x)
  OBVIOUS
<1>1. ASSUME NEW c \in Calls, List(c)
      PROVE  UNCHANGED <<doc, writer>> /\ OnlyCall(c) /\ Listed(c)
  <2>1. Asking(c) /\ call[c].op = "list"
    BY <1>1 DEF CallsInv, CallOK, List
  <2>2. Screen(call[c].page) \notin {"list", "edit"}
    BY <2>1 DEF Asking, Orders, OrderScreens
  <2> QED
    BY <1>1, <2>1, <2>2, ListShape DEF List, Listed
<1>2. ASSUME NEW c \in Calls, Read(c)
      PROVE  UNCHANGED <<doc, writer>> /\ OnlyCall(c) /\ (Reads(c) \/ Listed(c))
  <2>1. OnlyCall(c) /\ (Answers(c) \/ Reads(c)) /\ call[c].op # "list"
    BY <1>2, ReadShape DEF Read, ReadThenSave
  <2>2. ASSUME Answers(c)
        PROVE  call[c].op # "status"
    <3>1. ~Reads(c)
      BY <2>2 DEF Answers, Reads
    <3>2. Refused(call[c].op, doc[call[c].doc])
      <4> SUFFICES ASSUME ~Refused(call[c].op, doc[call[c].doc])
                   PROVE  FALSE
        OBVIOUS
      <4>1. call' = [call EXCEPT ![c].st = "saving", ![c].snap = doc[call[c].doc]]
        BY <1>2 DEF Read
      <4>2. call'[c].st = "saving"
        BY <4>1 DEF CallsInv, Frame, CallOK, CallFields
      <4> QED
        BY <2>2, <4>2 DEF Answers
    <3> QED
      BY <3>2 DEF Refused
  <2> QED
    BY <1>2, <2>1, <2>2 DEF Read, Listed
<1>3. ASSUME NEW c \in Calls, Throws(c) \/ RefundUnsaved(c)
      PROVE  UNCHANGED <<doc, writer>> /\ OnlyCall(c) /\ Listed(c)
  BY <1>3, ThrowShape DEF Throws, RefundUnsaved, Listed
<1>4. ASSUME NEW k \in Keys, Expire(k)
      PROVE  UNCHANGED <<doc, writer, call>>
  BY <1>4 DEF Expire
<1>5. ASSUME NEW c \in Calls, UpdateCoupon(c) \/ Create(c)
      PROVE  FALSE
  <2>1. call[c].st = "sent" /\ call[c].op \in {"active", "delete", "coupon", "hire", "add"}
    BY <1>5 DEF UpdateCoupon, Create
  <2>2. Asking(c)
    BY <2>1 DEF CallsInv, CallOK
  <2> QED
    BY <2>1, <2>2 DEF Asking, Fits, Orders, OrderScreens
<1>6. ASSUME NEW d \in Docs, Sale(d)
      PROVE  FALSE
  BY <1>6 DEF Sale, OfProducts, Orders, OrderScreens, ProductScreens
<1>7. CASE \E c \in Calls : List(c) \/ Read(c) \/ Throws(c) \/ RefundUnsaved(c)
  BY <1>1, <1>2, <1>3, <1>7 DEF OnlyCall
<1>8. CASE \E k \in Keys : Expire(k)
  BY <1>4, <1>8
<1> QED
  BY <1>5, <1>6, <1>7, <1>8, PaidShape DEF DeskStep

\* Paystack's event: the status that it sets is not the page's own.
LEMMA SaysPaid ==
  ASSUME DocsInv, NEW p \in Pages, PageSays(p), UNCHANGED page, NEW d \in Docs, OrderPaid(d)
  PROVE  PageSays(p)'
<1>1. UNCHANGED call
  BY DEF OrderPaid
<1>2. ASSUME NEW e \in Docs, Mine(p, e)'
      PROVE  Mine(p, e) /\ doc'[e].status = doc[e].status
  <2>1. CASE e = d
    <3>1. DOMAIN doc[d] = DocFields
      BY DEF DocsInv, DocInv, DocOK, OfRow
    <3>2. writer'[d] # Webhook
      BY <1>2, <2>1, DeskAssumption DEF Mine
    <3>3. doc'[d].status = doc[d].status /\ writer'[d] = writer[d]
      BY <3>1, <3>2, PaidFields
    <3> QED
      BY <1>2, <2>1, <3>3 DEF Mine
  <2>2. CASE e # d
    BY <1>2, <2>2 DEF OrderPaid, Mine
  <2> QED
    BY <2>1, <2>2
<1>3. \A e \in Docs : Changing(p, e)' = Changing(p, e)
  BY <1>1 DEF Changing, Awaited
<1>4. RowsSay(p)' /\ FormSays(p)'
  BY <1>2, <1>3 DEF PageSays, RowsSay, FormSays, Says
<1>5. ASSUME NEW c \in Calls, call'[c].page = p
      PROVE  CallSays(c, p)'
  <2>1. call'[c] = call[c] /\ CallSays(c, p)
    BY <1>1, <1>5 DEF PageSays
  <2> QED
    BY <1>2, <2>1 DEF CallSays, StatusSays, Awaited
<1> QED
  BY <1>4, <1>5 DEF PageSays

LEMMA SaysRead ==
  ASSUME CallsInv, NEW p \in Pages, Orders, PageSays(p), UNCHANGED <<load, doc, writer, page>>,
         \A x \in Calls : call'[x] = call[x] \/ Reads(x) \/ Listed(x)
  PROVE  PageSays(p)'
<1>1. \A d \in Docs : Mine(p, d)' = Mine(p, d)
  BY DEF Mine
<1>2. ASSUME NEW x \in Calls
      PROVE  /\ call'[x].page = call[x].page /\ call'[x].op = call[x].op /\ call'[x].doc = call[x].doc
             /\ call'[x].put = call[x].put /\ call'[x].chose = call[x].chose /\ call'[x].gone = call[x].gone
             /\ Awaited(x)' = Awaited(x)
  BY <1>2 DEF Reads, Listed, Answers, Keeps, CallFields, Awaited
<1>3. \A d \in Docs : Changing(p, d) => Changing(p, d)'
  BY <1>2 DEF Changing
<1>4. RowsSay(p)' /\ FormSays(p)'
  BY <1>1, <1>3 DEF PageSays, RowsSay, FormSays, Says
<1>5. ASSUME NEW c \in Calls, call'[c].page = p
      PROVE  CallSays(c, p)'
  <2>1. call[c].page = p /\ CallSays(c, p)
    BY <1>2, <1>5 DEF PageSays
  <2>2. CASE call'[c] = call[c]
    BY <1>1, <2>1, <2>2 DEF CallSays, StatusSays, Awaited
  <2>3. CASE Reads(c)
    <3>1. call[c].st = "sent" /\ call'[c].st = "saving" /\ call'[c].snap = doc[call[c].doc]
      BY <2>3 DEF Reads
    <3>2. ASSUME call[c].op = "status", NEW d \in Docs, call[c].doc = d, Mine(p, d)
          PROVE  StatusSays(c, d)'
      BY <1>2, <2>1, <3>1, <3>2 DEF CallSays, StatusSays
    <3> QED
      BY <1>1, <1>2, <2>1, <3>1, <3>2 DEF CallSays
  <2>4. CASE Listed(c)
    <3>1. call[c].op # "status" /\ (call[c].op = "list" => call'[c].heard = View(Screen(call[c].page), call[c].query))
      BY <2>4 DEF Listed
    <3>2. ASSUME call[c].op = "list", NEW d \in Docs, call'[c].heard[d] # NoOne
          PROVE  call'[c].heard[d].status = doc'[d].status
      <4>1. call'[c].heard[d] = IF Visible(Screen(call[c].page), call[c].query, d) THEN doc[d] ELSE NoOne
        BY <3>1, <3>2 DEF View
      <4> QED
        BY <3>2, <4>1
    <3> QED
      BY <1>1, <1>2, <2>1, <3>1, <3>2 DEF CallSays
  <2> QED
    BY <2>2, <2>3, <2>4
<1> QED
  BY <1>4, <1>5 DEF PageSays

LEMMA SaysSaved ==
  ASSUME CallsInv, NEW p \in Pages, Calm(p), PageSays(p), UNCHANGED <<load, page>>,
         NEW c \in Calls, NEW d \in Docs, StatusSaved(c, d), OnlyCall(c), Answers(c), call'[c].ans = "ok"
  PROVE  PageSays(p)'
<1>1. PICK q \in Pages : q = call[c].page
  BY DEF StatusSaved, CallsInv, CallOK, Asking
<1>2. /\ call'[c].page = q /\ call'[c].op = call[c].op /\ call'[c].doc = d /\ call'[c].gone = call[c].gone
      /\ call[c].st = "saving" /\ call'[c].st = "served"
  BY <1>1 DEF Answers, Keeps, CallFields, StatusSaved
<1>3. /\ \A e \in Docs \ {d} : doc'[e] = doc[e] /\ writer'[e] = writer[e]
      /\ writer'[d] = (IF doc'[d].status = doc[d].status THEN writer[d] ELSE q)
      /\ \/ doc'[d].status = doc[d].status /\ call'[c].heard.status = call[c].snap.status
         \/ doc'[d].status = call'[c].heard.status
      /\ \A x \in Calls \ {c} : call'[x] = call[x]
  BY <1>1 DEF StatusSaved, OnlyCall
<1>4. \A e \in Docs : Changing(p, e) => Changing(p, e)'
  <2> SUFFICES ASSUME NEW e \in Docs, NEW a \in Calls,
                      Awaited(a), call[a].page = p, call[a].op = "status", call[a].doc = e
               PROVE  Changing(p, e)'
    BY DEF Changing
  <2>1. Awaited(a)' /\ call'[a].page = p /\ call'[a].op = "status" /\ call'[a].doc = e
    <3>1. CASE a = c
      BY <1>1, <1>2, <3>1 DEF Awaited, StatusSaved
    <3>2. CASE a # c
      BY <1>3, <3>2 DEF Awaited
    <3> QED
      BY <3>1, <3>2
  <2> QED
    BY <2>1 DEF Changing
<1>5. CASE q # p
  <2>1. q # NoOne
    BY DeskAssumption
  <2>2. \A e \in Docs : Mine(p, e)' => Mine(p, e) /\ doc'[e].status = doc[e].status
    BY <1>3, <1>5, <2>1 DEF Mine
  <2>3. RowsSay(p)' /\ FormSays(p)'
    BY <1>4, <2>2 DEF PageSays, RowsSay, FormSays, Says
  <2>4. ASSUME NEW x \in Calls, call'[x].page = p
        PROVE  CallSays(x, p)'
    <3>1. call'[x] = call[x] /\ CallSays(x, p)
      BY <1>2, <1>3, <1>5, <2>4 DEF PageSays
    <3> QED
      BY <2>2, <3>1 DEF CallSays, StatusSays, Awaited
  <2> QED
    BY <2>3, <2>4 DEF PageSays
<1>6. CASE q = p
  <2>1. Asking(c) /\ call[c].op \in ReadThenSave
    BY <1>2 DEF CallsInv, CallOK
  <2>2. call[c].op = "status"
    BY <1>1, <1>6, <2>1 DEF Asking, Fits, ReadThenSave, Calm
  <2>3. Changing(p, d)'
    BY <1>2, <1>6, <2>2 DEF Changing, Awaited
  <2>4. RowsSay(p)' /\ FormSays(p)'
    <3>1. \A e \in Docs \ {d} : Mine(p, e)' = Mine(p, e) /\ doc'[e] = doc[e]
      BY <1>3 DEF Mine
    <3> QED
      BY <1>4, <2>3, <3>1 DEF PageSays, RowsSay, FormSays, Says
  <2>5. CallSays(c, p)
    BY <1>1, <1>6 DEF PageSays
  <2>6. CallSays(c, p)'
    <3>1. ASSUME Mine(p, d)'
          PROVE  call'[c].heard.status = doc'[d].status
      <4>1. CASE doc'[d].status = doc[d].status
        <5>1. Mine(p, d)
          BY <1>3, <3>1, <4>1 DEF Mine
        <5>2. call[c].snap.status = doc[d].status
          BY <1>2, <2>2, <2>5, <5>1 DEF CallSays, StatusSays, StatusSaved
        <5> QED
          BY <1>3, <4>1, <5>2
      <4>2. CASE doc'[d].status # doc[d].status
        BY <1>3, <4>2
      <4> QED
        BY <4>1, <4>2
    <3>2. Mine(p, d)' => StatusSays(c, d)'
      BY <1>2, <3>1 DEF StatusSays
    <3>3. call[c].gone = FALSE
      BY <1>2, <2>5 DEF CallSays, Awaited
    <3> QED
      BY <1>2, <2>2, <3>2, <3>3 DEF CallSays
  <2>7. ASSUME NEW x \in Calls, x # c, call'[x].page = p
        PROVE  CallSays(x, p)'
    <3>1. call'[x] = call[x]
      BY <1>3, <2>7
    <3>2. ~Awaited(x)
      BY <1>1, <1>2, <1>6, <2>7, <3>1, OneAwaited DEF Awaited
    <3> QED
      BY <3>1, <3>2 DEF CallSays, StatusSays, Awaited
  <2> QED
    BY <2>4, <2>6, <2>7 DEF PageSays
<1> QED
  BY <1>5, <1>6

\* The server works.
LEMMA SaysServed ==
  ASSUME CallsInv, RefundsInv, DocsInv, SentInv, SnapsInv, NEW p \in Pages, Calm(p), PageSays(p), DeskStep, UNCHANGED page
  PROVE  PageSays(p)'
<1>1. Orders /\ UNCHANGED load
  BY Kinds, DeskQuiet DEF CallsInv, Calm, OrderScreens
<1>2. ASSUME NEW c \in Calls, Save(c)
      PROVE  PageSays(p)'
  <2>1. PICK d \in Docs : StatusSaved(c, d)
    BY <1>2, StatusSave
  <2>2. OnlyCall(c) /\ Answers(c) /\ call'[c].ans = "ok"
    BY <1>2, SaveShape
  <2> QED
    BY <1>1, <2>1, <2>2, SaysSaved
<1>3. CASE UNCHANGED <<doc, writer>> /\ \A x \in Calls : call'[x] = call[x] \/ Reads(x) \/ Listed(x)
  BY <1>1, <1>3, SaysRead
<1>4. CASE \E d \in Docs : OrderPaid(d)
  BY <1>4, SaysPaid
<1> QED
  BY <1>1, <1>2, <1>3, <1>4, StatusRead

\* A page is opened again: nothing is shown yet, nothing is awaited.
LEMMA SaysOpened ==
  ASSUME CallsInv, CallsInv', AllMove, NEW p \in Pages, Calm(p)', PageSays(p), NEW c \in Calls, NEW q \in Pages, OpenShape(c, q)
  PROVE  PageSays(p)'
<1>1. UNCHANGED <<doc, writer, load>>
  BY DEF OpenShape, desk
<1>2. CASE q # p
  <2>1. ASSUME NEW x \in Calls, call[x].page = p \/ call'[x].page = p
        PROVE  call'[x] = call[x]
    <3>1. x # c
      BY <1>2, <2>1, DeskAssumption DEF OpenShape, NoCall, Made
    <3>2. call[x].page # q
      BY <1>2, <2>1, <3>1 DEF OpenShape, Left, Keeps, CallFields
    <3> QED
      BY <3>1, <3>2 DEF OpenShape
  <2>2. page'[p] = page[p]
    BY <1>2 DEF OpenShape
  <2> QED
    BY <1>1, <2>1, <2>2, SaysStill
<1>3. CASE q = p
  <2>1. Screen(p) = "selling"
    BY <1>1 DEF Calm, Screen
  <2>2. Sent(c) /\ call'[c].op = "list" /\ call'[c].page = p
    BY <1>3, <2>1 DEF OpenShape, Made
  <2>3. page'[p].rows = NoRows /\ page'[p].form = NoForm
    BY <1>3, <2>1 DEF OpenShape, FormOnPage
  <2>4. RowsSay(p)' /\ FormSays(p)'
    BY <2>3 DEF RowsSay, FormSays, NoRows
  <2>5. ASSUME NEW x \in Calls, call'[x].page = p
        PROVE  CallSays(x, p)'
    <3>1. CASE x = c
      BY <2>2, <3>1 DEF CallSays, Sent
    <3>2. CASE x # c
      <4>1. call[x].page = p /\ call'[x].st = call[x].st
        BY <1>3, <2>5, <3>2 DEF OpenShape, Left, Keeps, CallFields
      <4>2. x \in Over
        BY <2>2, <3>2, <4>1, SentAlone
      <4> QED
        BY <4>1, <4>2 DEF CallSays, Awaited, StatusSays, Over
    <3> QED
      BY <3>1, <3>2
  <2> QED
    BY <2>4, <2>5 DEF PageSays
<1> QED
  BY <1>2, <1>3

\* Its panel sends the status it was filled with, or one that was chosen.
LEMMA SaysSubmitted ==
  ASSUME CallsInv, CallsInv', AllMove, FormRowsInv, NEW p \in Pages, Calm(p), Calm(p)', PageSays(p),
         NEW c \in Calls, NEW q \in Pages, SubmitShape(c, q)
  PROVE  PageSays(p)'
<1>1. UNCHANGED <<doc, writer, load>> /\ Sent(c) /\ \A x \in Calls \ {c} : call'[x] = call[x]
  BY DEF SubmitShape, OnlyCall, desk
<1>2. PICK chose \in Choices(q) : \E put \in Puts(q, chose) :
        /\ Made(call'[c], q, SubmitOp(q), page[q].form.doc, page[q].query, put, chose, page[q].form.row, page[q].form.n)
        /\ OnlyPage(q, [page[q] EXCEPT !.form = Typed(q, chose, put)])
  BY DEF SubmitShape
<1>3. PICK put \in Puts(q, chose) :
        /\ Made(call'[c], q, SubmitOp(q), page[q].form.doc, page[q].query, put, chose, page[q].form.row, page[q].form.n)
        /\ OnlyPage(q, [page[q] EXCEPT !.form = Typed(q, chose, put)])
  BY <1>2
<1>4. CASE q # p
  <2>1. ASSUME NEW x \in Calls, call[x].page = p \/ call'[x].page = p
        PROVE  call'[x] = call[x]
    BY <1>1, <1>3, <1>4, <2>1, DeskAssumption DEF Made, Sent, NoCall
  <2>2. page'[p] = page[p]
    BY <1>3, <1>4 DEF OnlyPage
  <2> QED
    BY <1>1, <2>1, <2>2, SaysStill
<1>5. CASE q = p
  <2> DEFINE f == page[p].form
  <2>1. Screen(p) = "selling" /\ SubmitOp(p) = "status" /\ put \in PanelPut(p, chose)
    BY <1>3, <1>5 DEF Calm, SubmitOp, Puts
  <2>2. PICK d \in Docs : d = f.doc
    BY <1>5, <2>1 DEF SubmitShape, CallsInv, PageOK, RecordOK, FormOK
  <2>3. /\ call'[c].page = p /\ call'[c].op = "status" /\ call'[c].doc = d /\ call'[c].put = put /\ call'[c].chose = chose
        /\ call'[c].st = "sent" /\ call'[c].gone = FALSE
    BY <1>1, <1>3, <1>5, <2>1, <2>2 DEF Made, Sent
  <2>4. \A x \in Calls \ {c} : call'[x].page = p => ~Awaited(x)
    BY <1>1, <2>3, SentAlone DEF Awaited, Over
  <2>5. call[c].st = "idle"
    BY <1>1 DEF Sent, NoCall
  <2>6. \A e \in Docs : ~Changing(p, e)
    BY <1>1, <2>4, <2>5 DEF Changing, Awaited
  <2>7. Mine(p, d) => f.row.status = doc[d].status
    BY <1>5, <2>2, <2>6 DEF SubmitShape, PageSays, FormSays, Says
  <2>8. put.status = (IF chose = NoOne THEN f.row.status ELSE chose)
    BY <2>1 DEF PanelPut, Status
  <2>9. Changing(p, d)'
    BY <2>3 DEF Changing, Awaited
  <2>10. page'[p].rows = page[p].rows /\ page'[p].form.doc = d
    <3> DEFINE g == Typed(p, chose, put)
    <3>1. RecordOK(page[p], p)
      BY DEF CallsInv, PageOK
    <3>2. g.doc = d
      BY <2>2, <3>1 DEF Typed, RecordOK, FormOK, FormFields
    <3>3. page'[p] = [page[p] EXCEPT !.form = g]
      BY <1>3, <1>5 DEF OnlyPage
    <3> HIDE DEF g
    <3> QED
      BY <3>1, <3>2, <3>3 DEF RecordOK, PageFields
  <2>11. RowsSay(p)' /\ FormSays(p)'
    BY <1>1, <2>6, <2>9, <2>10 DEF PageSays, RowsSay, FormSays, Says, Mine
  <2>12. CallSays(c, p)'
    BY <1>1, <2>3, <2>7, <2>8 DEF CallSays, StatusSays, Mine
  <2>13. ASSUME NEW x \in Calls, x # c, call'[x].page = p
         PROVE  CallSays(x, p)'
    BY <1>1, <2>4, <2>13 DEF CallSays, StatusSays, Awaited
  <2> QED
    BY <2>11, <2>12, <2>13 DEF PageSays
<1> QED
  BY <1>4, <1>5

\* Another filter; a panel opens, filled from its row, or closes.
LEMMA SaysTurned ==
  ASSUME CallsInv, NEW p \in Pages, PageSays(p), NEW q \in Pages, AskShape(q)
  PROVE  PageSays(p)'
<1>1. UNCHANGED <<doc, writer>>
  BY DEF AskShape, desk
<1>2. page'[p].rows = page[p].rows /\ page'[p].form = page[p].form
  BY DEF AskShape, CallsInv, PageOK, RecordOK, PageFields
<1>3. ASSUME NEW x \in Calls
      PROVE  call'[x] = call[x] \/ (call[x] = NoCall /\ call'[x].op = "list" /\ call'[x].st = "sent" /\ call'[x].gone = FALSE)
  BY DEF AskShape, Sent, Made
<1>4. \A d \in Docs : Changing(p, d) => Changing(p, d)'
  <2>0. NoCall.st = "idle"
    BY DEF NoCall
  <2>1. \A x \in Calls : Awaited(x) => call'[x] = call[x]
    BY <1>3, <2>0 DEF Awaited
  <2> QED
    BY <2>1 DEF Changing, Awaited
<1>5. RowsSay(p)' /\ FormSays(p)'
  BY <1>1, <1>2, <1>4 DEF PageSays, RowsSay, FormSays, Says, Mine
<1>6. ASSUME NEW x \in Calls, call'[x].page = p
      PROVE  CallSays(x, p)'
  <2>1. CASE call'[x] = call[x]
    <3>1. CallSays(x, p)
      BY <1>6, <2>1 DEF PageSays
    <3> QED
      BY <1>1, <2>1, <3>1 DEF CallSays, StatusSays, Awaited, Mine
  <2>2. CASE call'[x].op = "list" /\ call'[x].st = "sent" /\ call'[x].gone = FALSE
    BY <2>2 DEF CallSays
  <2> QED
    BY <1>3, <2>1, <2>2
<1> QED
  BY <1>5, <1>6 DEF PageSays

LEMMA SaysFilled ==
  ASSUME CallsInv, NEW p \in Pages, PageSays(p), Screen(p) = "selling", NEW q \in Pages, FormShape(q)
  PROVE  PageSays(p)'
<1>1. UNCHANGED <<doc, writer, call>>
  BY DEF FormShape, desk
<1>2. \A d \in Docs : Changing(p, d)' = Changing(p, d) /\ Mine(p, d)' = Mine(p, d)
  BY <1>1 DEF Changing, Awaited, Mine
<1>3. RecordOK(page[p], p)
  BY DEF CallsInv, PageOK
<1>4. ASSUME NEW form, \/ page' = [page EXCEPT ![q].form = form]
                        \/ page' = [page EXCEPT ![q].form = form, ![q].forms = @ + 1]
      PROVE  (q # p => page'[p] = page[p]) /\ (q = p => page'[p].rows = page[p].rows /\ page'[p].form = form)
  BY <1>3, <1>4 DEF RecordOK, PageFields, CallsInv
<1>5. \/ page' = [page EXCEPT ![q].form = NoForm]
      \/ \E d \in Docs : Shown(q, d) /\ page' = [page EXCEPT ![q].form = Form(q, d, Row(q, d)), ![q].forms = @ + 1]
      \/ Screen(q) = "products" /\ page' = [page EXCEPT ![q].form = Form(q, NoOne, NoOne), ![q].forms = @ + 1]
  BY DEF FormShape
<1>6. CASE q # p
  <2>1. page'[p] = page[p]
    BY <1>4, <1>5, <1>6
  <2> QED
    BY <1>1, <2>1, SaysStill
<1>7. CASE q = p
  <2>1. page'[p].rows = page[p].rows
    BY <1>4, <1>5, <1>7
  <2>2. FormSays(p)'
    <3>1. CASE page' = [page EXCEPT ![p].form = NoForm]
      <4>1. page'[p].form = NoForm
        BY <1>4, <1>7, <3>1
      <4> QED
        BY <4>1 DEF FormSays
    <3>2. ASSUME NEW d \in Docs, Shown(p, d), page' = [page EXCEPT ![p].form = Form(p, d, Row(p, d)), ![p].forms = @ + 1]
          PROVE  FormSays(p)'
      <4>1. page'[p].form = Form(p, d, Row(p, d))
        BY <1>4, <1>7, <3>2
      <4>2. page'[p].form.doc = d /\ page'[p].form.row = page[p].rows[d] /\ page[p].rows[d] # NoOne
        BY <3>2, <4>1 DEF Form, Row, Shown
      <4>3. Mine(p, d) => Says(p, d, page[p].rows[d])
        BY <4>2 DEF PageSays, RowsSay
      <4> QED
        BY <1>1, <1>2, <4>2, <4>3 DEF FormSays, Says
    <3> QED
      BY <1>5, <1>7, <3>1, <3>2
  <2>3. RowsSay(p)'
    BY <1>1, <1>2, <2>1 DEF PageSays, RowsSay, Says
  <2>4. ASSUME NEW x \in Calls, call'[x].page = p
        PROVE  CallSays(x, p)'
    <3>1. CallSays(x, p)
      BY <1>1, <2>4 DEF PageSays
    <3> QED
      BY <1>1, <1>2, <3>1 DEF CallSays, StatusSays, Awaited
  <2> QED
    BY <2>2, <2>3, <2>4 DEF PageSays
<1> QED
  BY <1>6, <1>7

\* An answer reaches the page: the rows, or the row of the order it changed.
LEMMA SaysAnswered ==
  ASSUME CallsInv, AllMove, NEW p \in Pages, Calm(p), Calm(p)', PageSays(p), NEW c \in Calls, call[c].st = "served", AnswerShape(c)
  PROVE  PageSays(p)'
<1>1. PICK q \in Pages : q = call[c].page
  BY DEF CallsInv, CallOK, Asking
<1>2. UNCHANGED <<doc, writer, load>> /\ (\A x \in Calls \ {c} : call'[x] = call[x]) /\ call'[c].page = q
      /\ (call[c].gone = TRUE \/ ~EndShape(c) \/ call'[c].st = "over")
  BY <1>1 DEF AnswerShape, ArriveShape, RowArriveShape, LeaveShape, AgainShape, DoneShape, FailShape, EndShape, OnlyCall,
              Ends, Again, Keeps, CallFields, desk
<1>3. \A x \in Pages \ {q} : page'[x] = page[x]
  BY <1>1 DEF AnswerShape, ArriveShape, RowArriveShape, LeaveShape, AgainShape, DoneShape, FailShape, FreedPage
<1>4. CASE q # p
  <2>1. \A x \in Calls : call[x].page = p \/ call'[x].page = p => call'[x] = call[x]
    BY <1>1, <1>2, <1>4
  <2>2. page'[p] = page[p]
    BY <1>3, <1>4
  <2> QED
    BY <1>2, <2>1, <2>2, SaysStill
<1>5. CASE q = p
  <2>1. CallSays(c, p) /\ Awaited(c) /\ call[c].gone = FALSE
    BY <1>1, <1>5 DEF PageSays, CallSays, Awaited
  <2>2. Asking(c) /\ CallOK(c) /\ Screen(p) = "selling" /\ call[c].op \in {"list", "status"}
    <3>1. CallOK(c) /\ Asking(c) /\ Screen(p) = "selling"
      BY DEF CallsInv, CallOK, Calm
    <3> QED
      BY <1>1, <1>5, <3>1 DEF Asking, Fits
  <2>3. ArriveShape(c) \/ RowArriveShape(c)
    <3>1. ~LeaveShape(c) /\ ~DoneShape(c) /\ ~AgainShape(c)
      BY <1>1, <1>5, <2>2 DEF LeaveShape, DoneShape, AgainShape
    <3>2. call'[c].ans # "lost"
      BY <1>2, <1>5 DEF Calm, NoneLost, Of
    <3>3. call[c].ans = "ok"
      BY <2>1, <2>2 DEF CallSays, CallOK
    <3> QED
      BY <2>1, <3>1, <3>2, <3>3 DEF AnswerShape, FailShape
  <2>4. EndShape(c) /\ call'[c].st = "over"
    BY <1>2, <2>1, <2>3 DEF ArriveShape, RowArriveShape
  <2>5. \A d \in Docs : Mine(p, d)' = Mine(p, d)
    BY <1>2 DEF Mine
  <2>6. ASSUME NEW x \in Calls, call'[x].page = p
        PROVE  CallSays(x, p)'
    <3>1. CASE x = c
      BY <2>4, <3>1 DEF CallSays, StatusSays, Awaited
    <3>2. CASE x # c
      <4>1. call'[x] = call[x] /\ CallSays(x, p)
        BY <1>2, <2>6, <3>2 DEF PageSays
      <4> QED
        BY <1>2, <2>5, <4>1 DEF CallSays, StatusSays, Awaited
    <3> QED
      BY <3>1, <3>2
  <2>7. ASSUME NEW a \in Calls, Awaited(a), call[a].page = p
        PROVE  a = c
    BY <1>1, <1>5, <2>1, <2>7, OneAwaited
  <2>8. \A d \in Docs : Changing(p, d) => call[c].op = "status" /\ call[c].doc = d
    BY <2>7 DEF Changing
  <2>9. CASE ArriveShape(c)
    <3>1. page'[p].rows = call[c].heard /\ page'[p].form.doc = page[p].form.doc /\ page'[p].form.row = page[p].form.row
          /\ (page[p].form = NoForm => page'[p].form = NoForm) /\ call[c].op = "list"
      BY <1>1, <1>5, <2>2, <2>9 DEF ArriveShape
    <3>2. RowsSay(p)'
      BY <1>2, <2>1, <2>5, <3>1 DEF RowsSay, Says, CallSays
    <3>3. FormSays(p)'
      BY <1>2, <2>5, <2>8, <3>1 DEF FormSays, PageSays, Says
    <3> QED
      BY <2>6, <3>2, <3>3 DEF PageSays
  <2>10. CASE RowArriveShape(c)
    <3>1. call[c].op = "status" /\ page'[p].rows = Replaced(c, page[p].rows) /\ page'[p].form = NoForm
      BY <1>1, <1>5, <2>2, <2>10 DEF RowArriveShape
    <3>2. PICK d \in Docs : d = call[c].doc
      BY <2>2, <3>1 DEF Asking, DocFits
    <3>3. DOMAIN page[p].rows = Docs
      BY DEF CallsInv, PageOK, RecordOK
    <3>4. /\ page'[p].rows[d] = IF page[p].rows[d] = NoOne THEN NoOne ELSE call[c].heard
          /\ \A e \in Docs \ {d} : page'[p].rows[e] = page[p].rows[e]
      BY <3>1, <3>2, <3>3 DEF Replaced
    <3>5. ASSUME NEW e \in Docs, Mine(p, e), page'[p].rows[e] # NoOne
          PROVE  page'[p].rows[e].status = doc[e].status
      <4>1. CASE e = d
        BY <2>1, <3>1, <3>2, <3>4, <3>5, <4>1 DEF CallSays, StatusSays
      <4>2. CASE e # d
        BY <2>8, <3>2, <3>4, <3>5, <4>2 DEF PageSays, RowsSay, Says
      <4> QED
        BY <4>1, <4>2
    <3>6. RowsSay(p)' /\ FormSays(p)'
      BY <1>2, <2>5, <3>1, <3>5 DEF RowsSay, FormSays, Says
    <3> QED
      BY <2>6, <3>6 DEF PageSays
  <2> QED
    BY <2>3, <2>9, <2>10
<1> QED
  BY <1>4, <1>5

\* The numbers of status changes.
LEMMA NumbersStep ==
  ASSUME CallsInv, CallsInv', AllMove, StepShape, NEW c \in Calls, NumberOK(c)
  PROVE  NumberOK(c)'
<1>1. UNCHANGED load
  BY OnlyDesk
<1>2. PICK p : p = call'[c].page
  OBVIOUS
<1> SUFFICES ASSUME call'[c].op = "status", Screen(p) # "selling"
               PROVE  call'[c].form = 0
  BY <1>1, <1>2 DEF NumberOK, Screen
<1>3. CASE ~Sent(c)
  <2>1. ~Again(c)
    BY DEF Again
  <2>2. call[c].op = "status" /\ call[c].page = p /\ call'[c].form = call[c].form
    BY <1>2, <1>3, <2>1 DEF AllMove, Moves, Left, Reads, Answers, Ends, Keeps, CallFields
  <2> QED
    BY <2>2 DEF NumberOK
<1>4. CASE Sent(c)
  <2>1. call[c] = NoCall /\ call'[c].st = "sent" /\ call[c].st = "idle"
    BY <1>4 DEF Sent, NoCall
  <2>2. ASSUME NEW q \in Pages, NEW d \in Docs, NEW x \in Calls, RowControl(x, q, d) /\ RowShape(x, q, d)
        PROVE  call'[c].form = 0
    <3>1. x = c
      BY <2>1, <2>2 DEF RowShape, OnlyCall
    <3>2. q = p /\ call'[c].form = page[q].form.n /\ call'[c].op = "status"
      BY <1>2, <2>2, <3>1 DEF RowShape
    <3>3. Screen(q) = "orders"
      <4>1. Fits("status", Screen(q))
        BY <1>1, <1>2, <2>1, <3>2 DEF CallsInv, CallOK, Asking, Screen
      <4> QED
        BY <3>2, <4>1 DEF Fits
    <3>4. page[q].form = NoForm
      BY <3>3 DEF CallsInv, PageOK, RecordOK, FormOK, FormOnPage
    <3> QED
      BY <3>2, <3>4 DEF NoForm
  <2>3. ASSUME NEW q \in Pages, NEW x \in Calls, SubmitShape(x, q)
        PROVE  FALSE
    <3>1. x = c
      BY <2>1, <2>3 DEF SubmitShape, OnlyCall
    <3>2. call'[c].page = q /\ call'[c].op = SubmitOp(q)
      BY <2>3, <3>1 DEF SubmitShape, Made
    <3> QED
      BY <1>2, <3>2 DEF SubmitOp
  <2>4. ASSUME NEW q \in Pages, NEW x \in Calls, OpenShape(x, q)
        PROVE  FALSE
    BY <2>1, <2>4 DEF OpenShape, Left, Made
  <2>5. ASSUME NEW q \in Pages, AskShape(q) \/ FormShape(q)
        PROVE  FALSE
    BY <2>1, <2>5 DEF AskShape, FormShape, Made
  <2>6. ASSUME DeskStep
        PROVE  FALSE
    BY <2>1, <2>6, DeskQuiet DEF Reads, Answers
  <2>7. ASSUME NEW x \in Calls, AnswerShape(x)
        PROVE  FALSE
    BY <2>1, <2>7 DEF AnswerShape, ArriveShape, RowArriveShape, LeaveShape, AgainShape, DoneShape, FailShape, EndShape, OnlyCall,
                      Ends, Again
  <2> QED
    BY <2>2, <2>3, <2>4, <2>5, <2>6, <2>7 DEF StepShape, PageShape
<1> QED
  BY <1>3, <1>4

\* Every step.
LEMMA StatusStep ==
  ASSUME CallsInv, CallsInv', SinglesInv, RefundsInv, ReadingsInv, StatusInv, AllMove, StepShape
  PROVE  StatusInv'
<1>1. UNCHANGED load
  BY OnlyDesk
<1>2. ASSUME NEW p \in Pages, Calm(p)'
      PROVE  PageSays(p)'
  <2>1. Calm(p) /\ PageSays(p) /\ Screen(p) = "selling"
    BY <1>1, <1>2, CalmBefore DEF StatusInv, Calm
  <2>2. CASE DeskStep /\ UNCHANGED page
    BY <2>1, <2>2, SaysServed DEF ReadingsInv
  <2>3. ASSUME NEW c \in Calls, NEW q \in Pages, OpenShape(c, q)
        PROVE  PageSays(p)'
    BY <1>2, <2>1, <2>3, SaysOpened
  <2>4. ASSUME NEW c \in Calls, NEW q \in Pages, SubmitShape(c, q)
        PROVE  PageSays(p)'
    BY <1>2, <2>1, <2>4, SaysSubmitted DEF ReadingsInv
  <2>5. ASSUME NEW c \in Calls, NEW q \in Pages, NEW d \in Docs, RowControl(c, q, d), RowShape(c, q, d)
        PROVE  PageSays(p)'
    <3>1. Screen(q) # "selling"
      BY <2>5 DEF RowControl, ChangeStatus, SaveTracking, Decide, RequestRefund, ToggleActive, ChangeRole, Remove
    <3>2. UNCHANGED <<doc, writer>> /\ page'[p] = page[p]
      BY <2>1, <2>5, <3>1 DEF RowShape, desk, CallsInv
    <3>3. \A x \in Calls : call[x].page = p \/ call'[x].page = p => call'[x] = call[x]
      BY <2>1, <2>5, <3>1, DeskAssumption DEF RowShape, OnlyCall, Sent, NoCall
    <3> QED
      BY <2>1, <3>2, <3>3, SaysStill
  <2>6. ASSUME NEW q \in Pages, AskShape(q) \/ FormShape(q)
        PROVE  PageSays(p)'
    BY <2>1, <2>6, SaysTurned, SaysFilled
  <2>7. ASSUME NEW c \in Calls, AnswerShape(c)
        PROVE  PageSays(p)'
    <3>1. call[c].st = "served"
      BY <2>7 DEF AnswerShape, ArriveShape, RowArriveShape, LeaveShape, AgainShape, DoneShape, FailShape, EndShape, Ends, Again
    <3> QED
      BY <1>2, <2>1, <2>7, <3>1, SaysAnswered
  <2> QED
    BY <2>2, <2>3, <2>4, <2>5, <2>6, <2>7 DEF StepShape, PageShape
<1>3. \A c \in Calls : NumberOK(c)'
  BY NumbersStep DEF StatusInv
<1> QED
  BY <1>2, <1>3 DEF StatusInv

\* A panel saved as it was filled changes a status only if another did.
LEMMA RevertStep ==
  ASSUME CallsInv, RefundsInv, ReadingsInv, StatusInv, StepShape, NEW c \in Calls
  PROVE  RevertNeedsAnother(c)
<1>0. PICK p, d : p = call[c].page /\ d = call[c].doc
  OBVIOUS
<1> SUFFICES ASSUME call[c].st = "saving", call'[c].st = "served", Untouched(c), doc'[d].status # doc[d].status,
                    Serial(p), NoneLost(p), writer[d] \in {NoOne, p}
             PROVE  FALSE
  BY <1>0 DEF RevertNeedsAnother
<1>1. CallOK(c) /\ Asking(c) /\ call[c].op = "status" /\ call[c].chose = NoOne
  BY DEF CallsInv, CallOK, Untouched
<1>2. p \in Pages /\ d \in Docs
  BY <1>0, <1>1 DEF Asking, DocFits
<1>3. Screen(p) = "selling"
  BY <1>0 DEF StatusInv, NumberOK, Untouched
<1>4. CallSays(c, p)
  BY <1>0, <1>2, <1>3 DEF StatusInv, Calm, PageSays
<1>5. call[c].snap.status = doc[d].status /\ call[c].put.status = doc[d].status
  BY <1>0, <1>1, <1>2, <1>4 DEF CallSays, StatusSays, Mine
<1>6. DeskStep /\ Orders
  BY <1>2, <1>3, OnlyDesk, Kinds DEF CallsInv, OrderScreens
<1>7. PICK e \in Calls : Save(e)
  <2>1. UNCHANGED call => FALSE
    OBVIOUS
  <2>2. \A x \in Docs : ~OrderPaid(x)
    BY <2>1 DEF OrderPaid
  <2> QED
    BY <1>0, <1>2, <1>6, <2>2, StatusRead
<1>8. e = c
  BY <1>7, SaveShape DEF OnlyCall
<1>9. StatusSaved(c, d)
  BY <1>0, <1>7, <1>8, StatusSave DEF ReadingsInv
<1> QED
  BY <1>1, <1>5, <1>9 DEF StatusSaved

\* A seller who saves an order without touching its status changes it only if
\* another page, or Paystack's event, changed it since (updateOrderStatus and
\* markOrderPaid next to the panel of sellers' Orders): one's own changes are
\* never undone.
THEOREM StatusSafety == BackOfficeSpec => StatusRevertsNeedAnother
<1>1. Init => StatusInv
  <2> SUFFICES ASSUME Init
               PROVE  StatusInv
    OBVIOUS
  <2>1. \A c \in Calls : call[c].st = "idle" /\ call[c].op = "none"
    BY DEF Init, DeskInit, NoCall
  <2>2. \A p \in Pages : page[p].rows = NoRows /\ page[p].form = NoForm
    BY DEF Init, Unmounted
  <2>3. \A p \in Pages : PageSays(p)
    BY <2>1, <2>2 DEF PageSays, RowsSay, FormSays, CallSays, Awaited, NoRows
  <2> QED
    BY <2>1, <2>3 DEF StatusInv, NumberOK
<1>2. CallsInv /\ CallsInv' /\ SinglesInv /\ RefundsInv /\ ReadingsInv /\ StatusInv /\ [Next]_bvars => StatusInv'
  <2>1. CASE Next
    BY <2>1, Steps, StatusStep
  <2>2. ASSUME StatusInv, UNCHANGED bvars
        PROVE  StatusInv'
    <3>1. UNCHANGED <<load, doc, call, writer, page>>
      BY <2>2 DEF bvars, dvars
    <3>2. \A p \in Pages : Calm(p)' = Calm(p)
      BY <3>1 DEF Calm, Serial, NoneLost, Of, Overlap, Screen
    <3>3. \A p \in Pages : PageSays(p) => PageSays(p)'
      BY <3>1, SaysStill
    <3> QED
      BY <2>2, <3>1, <3>2, <3>3 DEF StatusInv, NumberOK, Screen
  <2> QED
    BY <2>1, <2>2
<1>3. CallsInv /\ SinglesInv /\ RefundsInv /\ ReadingsInv /\ StatusInv /\ [Next]_bvars => [\A c \in Calls : RevertNeedsAnother(c)]_bvars
  <2> SUFFICES ASSUME CallsInv, SinglesInv, RefundsInv, ReadingsInv, StatusInv, Next
               PROVE  \A c \in Calls : RevertNeedsAnother(c)
    OBVIOUS
  <2> QED
    BY Steps, RevertStep
<1> QED
  BY <1>1, <1>2, <1>3, DeskSafety, RefundDeskSafety, StockSafety, PTL DEF BackOfficeSpec, StatusRevertsNeedAnother

-----------------------------------------------------------------------------
(* The rows a page shows, in the end.                                      *)

\* No request of its page is beside it or after it.
Last(c) == \A e \in Calls \ {c} : call[e].page = call[c].page => e \in call[c].after
QueryOK(c) ==
  LET p == call[c].page IN
  Alive(c) /\ Screen(p) \notin {"edit", "add"} /\ Last(c) => call[c].query = page[p].query
QueryInv == \A c \in Calls : QueryOK(c)

\* A request that was sent has another's page only if both were.
LEMMA LastSent ==
  ASSUME CallsInv, NEW c \in Calls, NEW x \in Calls \ {c}, Sent(x), Last(c)', call'[c].after \subseteq Over
  PROVE  call'[x].page # call'[c].page
BY DEF Last, Sent, Over, NoCall

\* Whose request is the last of its page, it was before.
LEMMA LastBefore ==
  ASSUME CallsInv, AllMove, NEW c \in Calls, Alive(c)', Last(c)', ~Sent(c)
  PROVE  /\ Alive(c) /\ Last(c) /\ call'[c].page = call[c].page /\ call'[c].query = call[c].query
         /\ call'[c].after = call[c].after /\ call[c].after \subseteq Over /\ call[c].page \in Pages
<1>1. Alive(c) /\ call'[c].page = call[c].page /\ Moves(c) /\ CallOK(c) /\ call[c].page \in Pages
  BY OldAlive, OfPage DEF AllMove, CallsInv
<1>2. call'[c].query = call[c].query /\ call'[c].after = call[c].after
  BY <1>1 DEF Moves, Left, Reads, Answers, Ends, Again, Keeps, CallFields
<1>3. Last(c)
  <2> SUFFICES ASSUME NEW e \in Calls \ {c}, call[e].page = call[c].page
               PROVE  e \in call[c].after
    BY DEF Last
  <2>1. CallOK(e) /\ Moves(e)
    BY DEF CallsInv, AllMove
  <2>2. call[e] # NoCall
    <3>1. NoCall.page = NoOne
      BY DEF NoCall
    <3> QED
      BY <1>1, <3>1, DeskAssumption
  <2>3. call'[e].page = call[e].page
    BY <2>1, <2>2 DEF Moves, Left, Sent, Reads, Answers, Ends, Again, Keeps, CallFields
  <2> QED
    BY <1>1, <1>2, <2>3 DEF Last
<1> QED
  BY <1>1, <1>2, <1>3 DEF CallOK

\* A form that opens or closes leaves the rest of its page.
LEMMA FormOnly ==
  ASSUME CallsInv, NEW q \in Pages, FormShape(q), NEW p \in Pages
  PROVE  /\ page'[p].query = page[p].query /\ page'[p].rows = page[p].rows /\ page'[p].up = page[p].up
         /\ p # q => page'[p] = page[p]
<1>1. DOMAIN page = Pages /\ DOMAIN page[p] = PageFields
  BY DEF CallsInv, PageOK, RecordOK
<1>2. ASSUME NEW f, page' = [page EXCEPT ![q].form = f]
      PROVE  /\ page'[p].query = page[p].query /\ page'[p].rows = page[p].rows /\ page'[p].up = page[p].up
             /\ p # q => page'[p] = page[p]
  BY <1>1, <1>2 DEF PageFields
<1>3. ASSUME NEW f, page' = [page EXCEPT ![q].form = f, ![q].forms = @ + 1]
      PROVE  /\ page'[p].query = page[p].query /\ page'[p].rows = page[p].rows /\ page'[p].up = page[p].up
             /\ p # q => page'[p] = page[p]
  BY <1>1, <1>3 DEF PageFields
<1> QED
  BY <1>2, <1>3 DEF FormShape

LEMMA QueryKept ==
  ASSUME CallsInv, AllMove, StepShape, NEW c \in Calls, QueryOK(c), Alive(c)', Last(c)', ~Sent(c),
         Screen(call[c].page) \notin {"edit", "add"}
  PROVE  call'[c].query = page'[call[c].page].query
<1> DEFINE p == call[c].page
<1>1. /\ Alive(c) /\ Last(c) /\ call'[c].page = p /\ call'[c].query = call[c].query /\ p \in Pages
      /\ call'[c].after = call[c].after /\ call[c].after \subseteq Over
  BY LastBefore
<1>2. call[c].query = page[p].query
  BY <1>1 DEF QueryOK
<1>3. \A x \in Calls \ {c} : Sent(x) => call'[x].page # p
  BY <1>1, LastSent
<1> SUFFICES page'[p].query = page[p].query
  BY <1>1, <1>2
<1>4. ASSUME NEW x \in Calls, NEW q \in Pages, OpenShape(x, q)
      PROVE  page'[p].query = page[p].query
  <2>1. CASE q = p
    <3>1. x # c
      BY <1>1, <1>4 DEF OpenShape, Alive, NoCall
    <3>2. Left(c)
      BY <1>4, <2>1, <3>1 DEF OpenShape
    <3> QED
      BY <3>2 DEF Left, Alive
  <2>2. CASE q # p
    BY <1>1, <1>4, <2>2 DEF OpenShape
  <2> QED
    BY <2>1, <2>2
<1>5. ASSUME NEW q \in Pages, AskShape(q)
      PROVE  page'[p].query = page[p].query
  <2>1. PICK k : page' = [page EXCEPT ![q].query = k, ![q].loading = TRUE] /\ Queried(q, k)
    BY <1>5 DEF AskShape
  <2>2. PICK x \in Calls : Sent(x) /\ call'[x].page = q
    BY <2>1 DEF Queried
  <2>3. q # p
    BY <1>3, <2>2
  <2> QED
    BY <1>1, <2>1, <2>3 DEF CallsInv
<1>6. ASSUME NEW x \in Calls, NEW q \in Pages, SubmitShape(x, q)
      PROVE  page'[p].query = page[p].query
  <2>1. PICK f : OnlyPage(q, [page[q] EXCEPT !.form = f])
    BY <1>6 DEF SubmitShape
  <2>2. DOMAIN page[q] = PageFields
    BY DEF CallsInv, PageOK, RecordOK
  <2> QED
    BY <1>1, <2>1, <2>2 DEF OnlyPage, PageFields
<1>7. ASSUME NEW x \in Calls, NEW q \in Pages, NEW d \in Docs, RowShape(x, q, d)
      PROVE  page'[p].query = page[p].query
  BY <1>1, <1>7 DEF RowShape, CallsInv, PageOK, RecordOK, PageFields
<1>8. ASSUME NEW q \in Pages, FormShape(q)
      PROVE  page'[p].query = page[p].query
  BY <1>1, <1>8, FormOnly
<1>9. ASSUME NEW x \in Calls, AnswerShape(x)
      PROVE  page'[p].query = page[p].query
  <2>1. CASE DoneShape(x)
    BY <1>1, <2>1 DEF DoneShape
  <2>2. CASE ~DoneShape(x)
    <3>1. UNCHANGED page \/ ArriveShape(x) \/ FreedPage(x)
      BY <1>9, <2>2 DEF AnswerShape, RowArriveShape, LeaveShape, AgainShape, FailShape
    <3> QED
      BY <1>1, <3>1 DEF ArriveShape, FreedPage
  <2> QED
    BY <2>1, <2>2
<1> QED
  BY <1>4, <1>5, <1>6, <1>7, <1>8, <1>9 DEF StepShape, PageShape

LEMMA QuerySent ==
  ASSUME CallsInv, StepShape, NEW c \in Calls, Sent(c), Last(c)'
  PROVE  call'[c].query = page'[call'[c].page].query
<1>1. call'[c] # call[c] /\ call[c].st = "idle" /\ call'[c].after \subseteq Over
  BY DEF Sent, NoCall
<1>2. ~(DeskStep /\ UNCHANGED page)
  BY <1>1, DeskQuiet DEF Reads, Answers
<1>3. ASSUME NEW x \in Calls, NEW q \in Pages, OpenShape(x, q)
      PROVE  call'[c].query = page'[call'[c].page].query
  <2>1. x = c
    BY <1>1, <1>3 DEF OpenShape, Left
  <2> QED
    BY <1>1, <1>3, <2>1 DEF OpenShape, Made
<1>4. ASSUME NEW q \in Pages, AskShape(q)
      PROVE  call'[c].query = page'[call'[c].page].query
  <2>1. PICK k : page' = [page EXCEPT ![q].query = k, ![q].loading = TRUE] /\ Queried(q, k)
    BY <1>4 DEF AskShape
  <2>2. call'[c].page = q
    BY <1>1, <1>4 DEF AskShape, Made
  <2>3. call'[c].query = k
    BY <1>1, <2>1, <2>2, LastSent DEF Queried
  <2> QED
    BY <2>1, <2>2, <2>3 DEF CallsInv, PageOK, RecordOK, PageFields
<1>5. ASSUME NEW x \in Calls, NEW q \in Pages, SubmitShape(x, q)
      PROVE  call'[c].query = page'[call'[c].page].query
  <2>1. x = c
    BY <1>1, <1>5 DEF SubmitShape, OnlyCall
  <2>2. call'[c].page = q /\ call'[c].query = page[q].query /\ \E f : OnlyPage(q, [page[q] EXCEPT !.form = f])
    BY <1>5, <2>1 DEF SubmitShape, Made
  <2> QED
    BY <2>2 DEF OnlyPage, CallsInv, PageOK, RecordOK, PageFields
<1>6. ASSUME NEW x \in Calls, NEW q \in Pages, NEW d \in Docs, RowShape(x, q, d)
      PROVE  call'[c].query = page'[call'[c].page].query
  <2>1. x = c
    BY <1>1, <1>6 DEF RowShape, OnlyCall
  <2> QED
    BY <1>6, <2>1 DEF RowShape, CallsInv, PageOK, RecordOK, PageFields
<1>7. ASSUME NEW q \in Pages, FormShape(q)
      PROVE  FALSE
  BY <1>1, <1>7 DEF FormShape
<1>8. ASSUME NEW x \in Calls, AnswerShape(x)
      PROVE  FALSE
  <2>1. OnlyCall(x) /\ (Ends(x) \/ Again(x))
    BY <1>8 DEF AnswerShape, ArriveShape, RowArriveShape, LeaveShape, AgainShape, DoneShape, FailShape, EndShape
  <2> QED
    BY <1>1, <2>1 DEF OnlyCall, Ends, Again
<1> QED
  BY <1>2, <1>3, <1>4, <1>5, <1>6, <1>7, <1>8 DEF StepShape, PageShape

LEMMA QueryStep ==
  ASSUME CallsInv, AllMove, StepShape, QueryInv
  PROVE  QueryInv'
<1> SUFFICES ASSUME NEW c \in Calls
             PROVE  QueryOK(c)'
  BY DEF QueryInv
<1> SUFFICES ASSUME Alive(c)', load'.screen[call'[c].page] \notin {"edit", "add"}, Last(c)'
             PROVE  call'[c].query = page'[call'[c].page].query
  BY DEF QueryOK, Screen
<1>1. CASE Sent(c)
  BY <1>1, QuerySent
<1>2. CASE ~Sent(c)
  <2>1. call'[c].page = call[c].page /\ QueryOK(c)
    BY <1>2, LastBefore DEF QueryInv
  <2>2. UNCHANGED load
    BY OnlyDesk
  <2>3. Screen(call[c].page) \notin {"edit", "add"}
    BY <2>1, <2>2 DEF Screen
  <2> QED
    BY <1>2, <2>1, <2>3, QueryKept
<1> QED
  BY <1>1, <1>2

\* Nobody else asks, and nobody has asked since.
Sole(c) == \A e \in Calls \ {c} : call[e].st = "idle" \/ e \in call[c].after

\* What a screen is answered of e when the documents are D.
Seen(D, s, q, e) ==
  IF /\ D[e].live \/ s = "edit"
     /\ s = "selling" => q = "all" \/ D[e].status = q
     /\ s = "refunds" => D[e].refund = "requested"
     /\ s = "list" => Cardinality({x \in Docs : D[x].live /\ x >= e}) = q
  THEN D[e] ELSE NoOne

\* Redis: an entry is deleted when what it was made of changes.
KeyFresh(k, d) ==
  cached[k] # NoOne /\ (k[1] = "single" => d = k[2]) =>
    Agree(cached[k][d], Seen(doc, IF k[1] = "single" THEN "edit" ELSE "list", k[2], d))
KeysFresh == OfProducts => \A k \in Keys, d \in Docs : KeyFresh(k, d)

\* Paystack's event wrote d after the row was read.
Behind(row, d) == row.events \in Nat /\ row.events < d.events
Near(row, d, seen) == (~OfProducts /\ row # NoOne /\ Behind(row, d)) \/ Agree(row, seen)

\* What a request holds, and what its page makes of the answer.
Changes == {"status", "ask", "active", "member"}
ReadNow(c) ==
  call[c].st = "saving" /\ ~OfProducts => call[c].snap = doc[call[c].doc] \/ Behind(call[c].snap, doc[call[c].doc])
AnswerNow(c) ==
  LET s == Screen(call[c].page) IN
  call[c].st = "served" =>
    /\ call[c].ans = "ok" /\ call[c].op \in Changes =>
         call[c].heard = doc[call[c].doc] \/ Behind(call[c].heard, doc[call[c].doc])
    /\ call[c].op = "list" => \A e \in Docs : (s = "edit" => e = call[c].doc)
                                                => Near(call[c].heard[e], doc[e], Seen(doc, s, call[c].query, e))
RowsNow(c) ==
  LET p == call[c].page
      d == call[c].doc IN
  IF Screen(p) = "edit" THEN page[p].form.row # NoOne /\ page[p].form.doc \in Docs /\ Same(page[p].form.row, doc[page[p].form.doc])
  ELSE IF call[c].op = "list" THEN \A e \in Docs : Near(page[p].rows[e], doc[e], Seen(doc, Screen(p), page[p].query, e))
  ELSE \/ d = NoOne \/ page[p].rows[d] = NoOne
       \/ /\ Behind(page[p].rows[d], doc[d]) \/ Same(page[p].rows[d], doc[d])
          /\ call[c].op \notin {"approve", "reject", "delete", "remove"}
ShownNow(c) == call[c].st = "over" /\ call[c].ans = "ok" /\ page[call[c].page].up = TRUE => RowsNow(c)
UpToDate(c) == Alive(c) /\ Sole(c) => ReadNow(c) /\ AnswerNow(c) /\ ShownNow(c)
FreshInv == KeysFresh /\ \A c \in Calls : UpToDate(c)

LEMMA Seeing ==
  ASSUME NEW s, NEW q, NEW e \in Docs
  PROVE  View(s, q)[e] = Seen(doc, s, q, e)
BY DEF View, Visible, OnPage, Seen

\* Whose request is alone was alone before, and the others rest.
LEMMA SoleBefore ==
  ASSUME CallsInv, AllMove, NEW c \in Calls, Alive(c)', Sole(c)', ~Sent(c)
  PROVE  /\ Alive(c) /\ Sole(c) /\ call'[c].page = call[c].page /\ call[c].page \in Pages
         /\ \A e \in Calls \ {c} : ~Sent(e) /\ call[e].st \in {"idle", "over"}
<1>1. Alive(c) /\ call'[c].page = call[c].page /\ Moves(c) /\ call[c].after \subseteq Over /\ call[c].page \in Pages
  BY OldAlive, OfPage DEF AllMove, CallsInv, CallOK
<1>2. call'[c].after = call[c].after
  BY <1>1 DEF Moves, Left, Reads, Answers, Ends, Again, Keeps, CallFields
<1>3. ASSUME NEW e \in Calls \ {c}
      PROVE  (call[e].st = "idle" /\ ~Sent(e)) \/ e \in call[c].after
  <2>1. CASE call'[e].st = "idle"
    <3>1. Moves(e)
      BY DEF AllMove
    <3>2. call'[e] = call[e]
      BY <2>1, <3>1 DEF Moves, Left, Sent, Reads, Answers, Ends, Again, Keeps, CallFields
    <3> QED
      BY <2>1, <3>2 DEF Sent
  <2>2. CASE call'[e].st # "idle"
    BY <1>2, <2>2 DEF Sole
  <2> QED
    BY <2>1, <2>2
<1>4. \A e \in call[c].after : ~Sent(e) /\ call[e].st = "over"
  BY <1>1 DEF Over, Sent, NoCall
<1> QED
  BY <1>1, <1>3, <1>4 DEF Sole

\* No document is the absence of one (BackOfficeAssumption).
Present == \A e \in Docs : doc[e] # NoOne /\ doc'[e] # NoOne

\* A sale leaves what rows say but the stock.
LEMMA SameSold ==
  ASSUME NEW d, DOMAIN d = DocFields, NEW a, NEW b, NEW e, e = [d EXCEPT !.stock = a, !.sold = b]
  PROVE  Same(d, e)
BY DEF Same, DocFields

LEMMA SoldSeen ==
  ASSUME CallsInv, DocsInv, Present, NEW d \in Docs, Sale(d)
  PROVE  /\ \A e \in Docs : \A row : Same(row, doc[e]) => Same(row, doc'[e])
         /\ \A e \in Docs : \A row, s, q : Agree(row, Seen(doc, s, q, e)) => Agree(row, Seen(doc', s, q, e))
         /\ \A e \in Docs : doc'[e].events = doc[e].events
<1>1. DOMAIN doc[d] = DocFields
  BY DEF DocsInv, DocInv, DocOK, OfRow
<1>2. doc'[d] = [doc[d] EXCEPT !.stock = @ - 1, !.sold = @ + 1] /\ \A e \in Docs \ {d} : doc'[e] = doc[e]
  BY <1>1 DEF Sale, CallsInv, Frame, DocFields
<1>3. \A e \in Docs : doc'[e].live = doc[e].live /\ doc'[e].status = doc[e].status /\ doc'[e].refund = doc[e].refund
  <2>1. doc'[d].live = doc[d].live /\ doc'[d].status = doc[d].status /\ doc'[d].refund = doc[d].refund
    BY <1>1, <1>2 DEF DocFields
  <2> QED
    BY <1>2, <2>1
<1>4. Same(doc[d], doc'[d])
  <2>1. PICK a, b : doc'[d] = [doc[d] EXCEPT !.stock = a, !.sold = b]
    BY <1>2
  <2>2. PICK r, t : r = doc[d] /\ t = doc'[d]
    OBVIOUS
  <2>3. Same(r, t)
    BY <1>1, <2>1, <2>2, SameSold
  <2> QED
    BY <2>2, <2>3
<1>5. ASSUME NEW e \in Docs, NEW row, Same(row, doc[e])
      PROVE  Same(row, doc'[e])
  BY <1>2, <1>4, <1>5 DEF Same
<1>6. ASSUME NEW e \in Docs, NEW row, NEW s, NEW q, Agree(row, Seen(doc, s, q, e))
      PROVE  Agree(row, Seen(doc', s, q, e))
  <2>1. {x \in Docs : doc'[x].live /\ x >= e} = {x \in Docs : doc[x].live /\ x >= e}
    BY <1>3
  <2>2. \/ Seen(doc, s, q, e) = NoOne /\ Seen(doc', s, q, e) = NoOne
        \/ Seen(doc, s, q, e) = doc[e] /\ Seen(doc', s, q, e) = doc'[e]
    BY <1>3, <2>1 DEF Seen
  <2> QED
    BY <1>5, <1>6, <2>2 DEF Agree, Present
<1>7. \A e \in Docs : doc'[e].events = doc[e].events
  <2>1. doc'[d].events = doc[d].events
    BY <1>1, <1>2 DEF DocFields
  <2> QED
    BY <1>2, <2>1
<1> QED
  BY <1>5, <1>6, <1>7

\* Paystack's event puts a row behind, and takes no row from a list but one
\* that is shown: no list asks for orders that are confirmed.
LEMMA PaidSeen ==
  ASSUME CallsInv, DocsInv, Present, ~OfProducts, NEW d \in Docs, OrderPaid(d)
  PROVE  /\ \A e \in Docs : \A row : Behind(row, doc[e]) => Behind(row, doc'[e])
         /\ \A e \in Docs : \A row : Same(row, doc[e]) => Behind(row, doc'[e]) \/ Same(row, doc'[e])
         /\ \A e \in Docs : \A row : row = doc[e] => Behind(row, doc'[e]) \/ row = doc'[e]
         /\ \A e \in Docs : \A row, s, q : (s = "selling" => q # "confirmed") /\ Near(row, doc[e], Seen(doc, s, q, e))
                                            => Near(row, doc'[e], Seen(doc', s, q, e))
<1>1. DOMAIN doc[d] = DocFields /\ doc[d].events \in Nat
  BY DEF DocsInv, DocInv, DocOK, OfRow
<1>2. /\ \A f \in DocFields \ {"paid", "status", "events"} : doc'[d][f] = doc[d][f]
      /\ doc'[d].events = doc[d].events + 1 /\ doc'[d].status \in {doc[d].status, "confirmed"}
  BY <1>1, PaidFields
<1>3. \A e \in Docs \ {d} : doc'[e] = doc[e]
  BY DEF OrderPaid
<1>4. ASSUME NEW row, Behind(row, doc[d])
      PROVE  Behind(row, doc'[d])
  BY <1>1, <1>2, <1>4 DEF Behind
<1>5. ASSUME NEW row, row.events = doc[d].events
      PROVE  Behind(row, doc'[d])
  BY <1>1, <1>2, <1>5 DEF Behind
<1>6. ASSUME NEW row, Same(row, doc[d])
      PROVE  row.events = doc[d].events
  <2> DEFINE A == [row EXCEPT !.stock = 0, !.sold = 0, !.restocks = 0]
             B == [doc[d] EXCEPT !.stock = 0, !.sold = 0, !.restocks = 0]
  <2>1. A = B
    BY <1>6 DEF Same
  <2>2. DOMAIN B = DocFields /\ B.events = doc[d].events
    BY <1>1 DEF DocFields
  <2>3. "events" \in DOMAIN row => A.events = row.events
    OBVIOUS
  <2>4. DOMAIN A = DOMAIN row
    OBVIOUS
  <2>5. "events" \in DOMAIN row
    BY <2>1, <2>2, <2>4 DEF DocFields
  <2> QED
    BY <2>1, <2>2, <2>3, <2>5
<1>7. \A e \in Docs : /\ doc'[e].live = doc[e].live /\ doc'[e].refund = doc[e].refund
                      /\ doc'[e].status \in {doc[e].status, "confirmed"}
  <2>1. doc'[d].live = doc[d].live /\ doc'[d].refund = doc[d].refund
    BY <1>2 DEF DocFields
  <2> QED
    BY <1>2, <1>3, <2>1
<1>8. ASSUME NEW e \in Docs, NEW row, NEW s, NEW q, s = "selling" => q # "confirmed", Near(row, doc[e], Seen(doc, s, q, e))
      PROVE  Near(row, doc'[e], Seen(doc', s, q, e))
  <2>1. {x \in Docs : doc'[x].live /\ x >= e} = {x \in Docs : doc[x].live /\ x >= e}
    BY <1>7
  <2>2. CASE e # d
    <3>1. Seen(doc', s, q, e) = Seen(doc, s, q, e)
      BY <1>3, <2>1, <2>2 DEF Seen
    <3> QED
      BY <1>3, <1>8, <2>2, <3>1
  <2>3. CASE e = d /\ ~OfProducts /\ row # NoOne /\ Behind(row, doc[d])
    BY <1>4, <2>3 DEF Near
  <2>4. CASE e = d /\ Agree(row, Seen(doc, s, q, d))
    <3>1. CASE row # NoOne
      <4>1. Seen(doc, s, q, d) # NoOne /\ Same(row, Seen(doc, s, q, d))
        BY <2>4, <3>1 DEF Agree
      <4>2. Same(row, doc[d])
        BY <4>1 DEF Seen
      <4> QED
        BY <1>5, <1>6, <2>4, <3>1, <4>2 DEF Near
    <3>2. CASE row = NoOne
      <4>1. Seen(doc, s, q, d) = NoOne
        BY <2>4, <3>2 DEF Agree
      <4>2. Seen(doc', s, q, d) = NoOne
        BY <1>7, <1>8, <2>1, <2>4, <4>1 DEF Seen, Present
      <4> QED
        BY <2>4, <3>2, <4>2 DEF Near, Agree
    <3> QED
      BY <3>1, <3>2
  <2> QED
    BY <1>8, <2>2, <2>3, <2>4 DEF Near
<1> QED
  BY <1>3, <1>4, <1>5, <1>6, <1>8

\* A document in memory, when nobody wrote it meanwhile.
LEMMA SavedIsWith ==
  ASSUME NEW r, DOMAIN r = DocFields, NEW put
  PROVE  Saved(r, r, put) = With(r, put)
BY DEF Saved, Written, Changed, With

\* Entries of Redis are what the documents are.
LEMMA KeysStay ==
  ASSUME CallsInv, DocsInv, KeysFresh, DeskStep, Present
  PROVE  KeysFresh'
<1>1. UNCHANGED load
  BY DeskQuiet
<1> SUFFICES ASSUME OfProducts, NEW k \in Keys, NEW d \in Docs, cached'[k] # NoOne, k[1] = "single" => d = k[2]
             PROVE  Agree(cached'[k][d], Seen(doc', IF k[1] = "single" THEN "edit" ELSE "list", k[2], d))
  BY <1>1 DEF KeysFresh, KeyFresh, OfProducts, Screen
<1> DEFINE s == IF k[1] = "single" THEN "edit" ELSE "list"
<1>2. cached[k] # NoOne => Agree(cached[k][d], Seen(doc, s, k[2], d))
  BY DEF KeysFresh, KeyFresh
<1> HIDE DEF s
<1>3. CASE UNCHANGED doc /\ cached'[k] = cached[k]
  BY <1>2, <1>3 DEF s
<1>4. CASE cached' = Nothing
  BY <1>4 DEF Nothing
<1>5. ASSUME NEW c \in Calls, List(c)
      PROVE  Agree(cached'[k][d], Seen(doc', s, k[2], d))
  <2>1. UNCHANGED doc
    BY <1>5 DEF List
  <2>2. CASE cached'[k] = cached[k]
    BY <1>2, <2>1, <2>2
  <2>3. CASE cached'[k] # cached[k]
    <3>1. PICK t, q : t = Screen(call[c].page) /\ q = call[c].query
      OBVIOUS
    <3>2. t \in {"list", "edit"} /\ k = CacheKey(c) /\ cached'[k] = View(t, q)
      BY <1>5, <2>3, <3>1 DEF List, CallsInv, Frame
    <3>3. cached'[k][d] = Seen(doc, t, q, d)
      BY <3>2, Seeing
    <3>4. t = s /\ (t = "list" => q = k[2])
      BY <3>1, <3>2 DEF CacheKey, s
    <3>5. Seen(doc, t, q, d) = Seen(doc, s, k[2], d)
      BY <3>2, <3>4 DEF Seen
    <3> QED
      BY <2>1, <3>3, <3>5 DEF Agree, Same
  <2> QED
    BY <2>2, <2>3
<1>6. ASSUME NEW c \in Calls, Read(c) \/ Throws(c) \/ RefundUnsaved(c)
      PROVE  UNCHANGED <<doc, cached>>
  BY <1>6 DEF Read, Throws, RefundUnsaved
<1>7. ASSUME NEW c \in Calls, Save(c) \/ UpdateCoupon(c) \/ Create(c)
      PROVE  cached' = Nothing
  <2>1. call[c].st # "idle"
    BY <1>7 DEF Save, UpdateCoupon, Create
  <2>2. call[c].op \in {"list", "remove", "add", "edit"}
    BY <2>1, ProductOps
  <2>3. CASE Save(c)
    <3>1. call[c].op \in {"edit", "remove"}
      BY <2>2, <2>3 DEF Save, CallsInv, CallOK, ReadThenSave
    <3> QED
      BY <2>3, <3>1 DEF Save
  <2>4. CASE UpdateCoupon(c)
    BY <2>2, <2>4 DEF UpdateCoupon
  <2>5. CASE Create(c)
    <3>1. call[c].op = "add" /\ ~Taken(c)
      BY <2>2, <2>5 DEF Create, Taken
    <3> QED
      BY <2>5, <3>1 DEF Create
  <2> QED
    BY <1>7, <2>3, <2>4, <2>5
<1>8. ASSUME NEW j, Expire(j)
      PROVE  UNCHANGED doc /\ cached'[k] = cached[k]
  BY <1>8 DEF Expire, CallsInv, Frame
<1>9. ASSUME NEW e \in Docs, Sale(e)
      PROVE  Agree(cached'[k][d], Seen(doc', s, k[2], d))
  <2>1. UNCHANGED cached
    BY <1>9 DEF Sale
  <2> QED
    BY <1>2, <1>9, <2>1, SoldSeen
<1>10. ASSUME NEW e \in Docs, MarkOrderPaid(e)
       PROVE  FALSE
  BY <1>10, PaidShape DEF OfProducts, Orders, OrderScreens, ProductScreens
<1> QED
  BY <1>3, <1>4, <1>5, <1>6, <1>7, <1>8, <1>9, <1>10 DEF DeskStep, s

\* A request that the server leaves alone: at most a piece is sold, or an
\* order paid.
FreshNow(c) == ReadNow(c)' /\ AnswerNow(c)' /\ ShownNow(c)'

LEMMA FreshRests ==
  ASSUME CallsInv, AllMove, DocsInv, DeskStep, UNCHANGED page, Present, NEW c \in Calls, UpToDate(c),
         Alive(c)', Sole(c)', call'[c] = call[c]
  PROVE  FreshNow(c)
<1>1. ~Sent(c)
  BY DEF Sent, NoCall
<1>2. Alive(c) /\ Sole(c) /\ \A e \in Calls \ {c} : call[e].st \in {"idle", "over"}
  BY <1>1, SoleBefore
<1>3. ReadNow(c) /\ AnswerNow(c) /\ ShownNow(c) /\ UNCHANGED load
  BY <1>2, DeskQuiet DEF UpToDate
<1>4. UNCHANGED doc \/ \E d \in Docs : Sale(d) \/ MarkOrderPaid(d)
  <2>1. ASSUME NEW x \in Calls, List(x) \/ Read(x) \/ Save(x) \/ Throws(x) \/ RefundUnsaved(x) \/ UpdateCoupon(x) \/ Create(x)
        PROVE  FALSE
    <3>1. Reads(x) \/ Answers(x)
      BY <2>1, ListShape, ReadShape, SaveShape, ThrowShape, CouponShape, CreateShape
    <3>2. call[x].st \in {"sent", "saving"} /\ call'[x].st # call[x].st
      BY <3>1 DEF Reads, Answers
    <3> QED
      BY <1>2, <3>2
  <2>2. ASSUME NEW k, Expire(k)
        PROVE  UNCHANGED doc
    BY <2>2 DEF Expire
  <2> QED
    BY <2>1, <2>2 DEF DeskStep
<1>5. CASE UNCHANGED doc
  BY <1>3, <1>5 DEF FreshNow, ReadNow, AnswerNow, ShownNow, RowsNow, Near, OfProducts, Screen
<1>6. ASSUME NEW d \in Docs, Sale(d)
      PROVE  FreshNow(c)
  <2>1. call[c].st # "idle" /\ Asking(c) /\ OfProducts
    BY <1>2, <1>6 DEF Alive, CallsInv, CallOK, Sale
  <2>2. call[c].op \notin Changes
    BY <2>1, ProductOps DEF Changes
  <2>3. /\ \A e \in Docs : \A row : Same(row, doc[e]) => Same(row, doc'[e])
        /\ \A e \in Docs : \A row, s, q :
             Near(row, doc[e], Seen(doc, s, q, e)) => Near(row, doc'[e], Seen(doc', s, q, e))
        /\ \A e \in Docs : \A row : Behind(row, doc[e]) => Behind(row, doc'[e])
    BY <1>6, SoldSeen DEF Near, Behind
  <2>4. call[c].doc \in Docs \cup {NoOne} \/ call[c].op = "list"
    BY <2>1 DEF Asking, DocFits
  <2>5. ReadNow(c)'
    BY <1>3, <2>1 DEF ReadNow, OfProducts, Screen
  <2>6. AnswerNow(c)'
    BY <1>3, <2>2, <2>3 DEF AnswerNow, Near, OfProducts, Screen
  <2>7. ShownNow(c)'
    <3> SUFFICES ASSUME call[c].st = "over", call[c].ans = "ok", page[call[c].page].up = TRUE
                 PROVE  RowsNow(c)'
      BY DEF ShownNow
    <3>1. RowsNow(c)
      BY <1>3 DEF ShownNow
    <3> QED
      BY <1>3, <2>3, <2>4, <3>1 DEF RowsNow, Near, OfProducts, Screen
  <2> QED
    BY <2>5, <2>6, <2>7 DEF FreshNow
<1>7. ASSUME NEW d \in Docs, MarkOrderPaid(d)
      PROVE  FreshNow(c)
  <2>1. Orders /\ OrderPaid(d) /\ ~OfProducts
    BY <1>7, PaidShape DEF Orders, OfProducts, OrderScreens, ProductScreens
  <2>2. PICK p \in Pages : p = call[c].page
    BY <1>2, OfPage
  <2>3. /\ \A e \in Docs : \A row : Behind(row, doc[e]) => Behind(row, doc'[e])
        /\ \A e \in Docs : \A row : Same(row, doc[e]) => Behind(row, doc'[e]) \/ Same(row, doc'[e])
        /\ \A e \in Docs : \A row : row = doc[e] => Behind(row, doc'[e]) \/ row = doc'[e]
        /\ \A e \in Docs : \A row, s, q : (s = "selling" => q # "confirmed") /\ Near(row, doc[e], Seen(doc, s, q, e))
                                           => Near(row, doc'[e], Seen(doc', s, q, e))
    BY <2>1, PaidSeen
  <2>4. /\ Asking(c) /\ Screen(p) \in OrderScreens /\ (Screen(p) = "selling" => call[c].query # "confirmed")
        /\ page[p].up = TRUE /\ Screen(p) = "selling" => page[p].query # "confirmed"
    BY <1>2, <2>1, <2>2 DEF Alive, CallsInv, CallOK, Asking, Orders, QueryFits, PageOK, RecordOK
  <2>5. call[c].doc \in Docs \cup {NoOne} /\ (call[c].op \in Changes \cup ReadThenSave => call[c].doc \in Docs)
    <3>1. Screen(call[c].page) # "edit"
      BY <2>2, <2>4 DEF OrderScreens
    <3>2. call[c].op \in Changes \cup ReadThenSave => call[c].op \notin {"list", "coupon", "hire", "add"}
      BY DEF Changes, ReadThenSave
    <3> QED
      BY <2>4, <3>1, <3>2 DEF Asking, DocFits
  <2>6. call[c].st = "saving" => call[c].op \in ReadThenSave
    BY DEF CallsInv, CallOK
  <2>7. ReadNow(c)'
    BY <1>3, <2>3, <2>5, <2>6 DEF ReadNow, OfProducts, Screen
  <2>8. AnswerNow(c)'
    BY <1>3, <2>2, <2>3, <2>4, <2>5 DEF AnswerNow, Near, OfProducts, Screen
  <2>9. ShownNow(c)'
    <3> SUFFICES ASSUME call[c].st = "over", call[c].ans = "ok", page[p].up = TRUE
                 PROVE  RowsNow(c)'
      BY <2>2 DEF ShownNow
    <3>1. RowsNow(c) /\ Screen(p) # "edit"
      BY <1>3, <2>2, <2>4 DEF ShownNow, OrderScreens
    <3>2. CASE call[c].op = "list"
      BY <1>3, <2>2, <2>3, <2>4, <3>1, <3>2 DEF RowsNow, Near, OfProducts, Screen
    <3>3. CASE call[c].op # "list"
      BY <1>3, <2>2, <2>3, <2>5, <3>1, <3>3 DEF RowsNow, Screen
    <3> QED
      BY <3>2, <3>3
  <2> QED
    BY <2>7, <2>8, <2>9 DEF FreshNow
<1> QED
  BY <1>4, <1>5, <1>6, <1>7

\* A list is the documents, whether they were read now or before.
LEMMA FreshList ==
  ASSUME CallsInv, KeysFresh, NEW c \in Calls, List(c), NEW e \in Docs,
         NEW s, s = Screen(call[c].page), s = "edit" => e = call[c].doc
  PROVE  Agree(call'[c].heard[e], Seen(doc, s, call[c].query, e))
<1>1. Asking(c)
  BY DEF List, CallsInv, CallOK
<1>2. PICK q : q = call[c].query
  OBVIOUS
<1>3. View(s, q)[e] = Seen(doc, s, q, e) /\ Agree(View(s, q)[e], View(s, q)[e])
  BY Seeing DEF Agree, Same
<1>4. CASE s \notin {"list", "edit"}
  BY <1>2, <1>3, <1>4, ListShape
<1>5. CASE s \in {"list", "edit"}
  <2>1. PICK k \in Keys : k = CacheKey(c)
    <3>1. <<"single", e>> \in Keys /\ <<"list", 1>> \in Keys /\ <<"list", 2>> \in Keys
      BY DEF Keys
    <3>2. s = "edit" => CacheKey(c) = <<"single", e>>
      BY DEF CacheKey
    <3>3. s = "list" => CacheKey(c) = <<"list", 1>> \/ CacheKey(c) = <<"list", 2>>
      BY <1>1 DEF Asking, QueryFits, CacheKey
    <3> QED
      BY <1>5, <3>1, <3>2, <3>3
  <2>2. call'[c].heard = (IF cached[k] = NoOne THEN View(s, q) ELSE cached[k])
    <3>1. cached' = [cached EXCEPT ![k] = IF cached[k] = NoOne THEN View(s, q) ELSE cached[k]] /\ Reply(c, "ok", cached'[k])
      BY <1>2, <1>5, <2>1 DEF List
    <3>2. cached'[k] = (IF cached[k] = NoOne THEN View(s, q) ELSE cached[k])
      BY <3>1 DEF CallsInv, Frame
    <3>3. DOMAIN call[c] = CallFields /\ DOMAIN call = Calls
      BY DEF CallsInv, CallOK, Frame
    <3>4. call'[c].heard = cached'[k]
      BY <3>1, <3>3 DEF Reply, CallFields
    <3> QED
      BY <3>2, <3>4
  <2>3. /\ k[1] = "single" => s = "edit" /\ e = k[2]
        /\ k[1] # "single" => s = "list" /\ q = k[2]
    BY <1>2, <1>5, <2>1 DEF CacheKey
  <2>4. OfProducts
    BY <1>1, <1>5 DEF OfProducts, ProductScreens, Asking
  <2>5. cached[k] # NoOne => Agree(cached[k][e], Seen(doc, s, k[2], e))
    BY <2>3, <2>4 DEF KeysFresh, KeyFresh
  <2>6. Seen(doc, s, k[2], e) = Seen(doc, s, q, e)
    BY <2>3 DEF Seen
  <2> QED
    BY <1>2, <1>3, <2>2, <2>5, <2>6
<1> QED
  BY <1>4, <1>5

\* A change is answered with the document, as far as it was read.
LEMMA FreshSaved ==
  ASSUME CallsInv, DocsInv, SentInv, SnapsInv, NEW c \in Calls, Save(c), ReadNow(c), call[c].op \in Changes
  PROVE  call'[c].heard = doc'[call[c].doc] \/ Behind(call'[c].heard, doc'[call[c].doc])
<1> DEFINE snap == call[c].snap
           put == Effect(c)
<1>1. call[c].st = "saving" /\ Asking(c)
  BY DEF Save, CallsInv, CallOK
<1>2. PICK d \in Docs : d = call[c].doc
  BY <1>1 DEF Asking, DocFits, Changes
<1>3. ~OfProducts
  BY <1>1, ProductOps DEF Changes
<1>4. DOMAIN doc[d] = DocFields /\ DOMAIN snap = DocFields /\ SetOK(put)
  BY <1>2, SaveGrows DEF DocsInv, DocInv, DocOK, OfRow
<1>5. doc' = [doc EXCEPT ![d] = Saved(doc[d], snap, put)] /\ Reply(c, "ok", With(snap, put))
  BY <1>2 DEF Save
<1>6. snap = doc[d] \/ Behind(snap, doc[d])
  BY <1>1, <1>2, <1>3 DEF ReadNow
<1> HIDE DEF snap, put
<1>7. call'[c].heard = With(snap, put) /\ doc'[d] = Saved(doc[d], snap, put)
  BY <1>1, <1>5, ReplyAnswers DEF Changes, CallsInv, Frame
<1>8. CASE snap = doc[d]
  BY <1>2, <1>4, <1>7, <1>8, SavedIsWith
<1>9. CASE Behind(snap, doc[d])
  <2>1. "events" \notin DOMAIN put /\ DOMAIN put \subseteq DocFields
    BY <1>4 DEF SetOK
  <2>2. With(snap, put).events = snap.events
    BY <1>4, <2>1 DEF With, DocFields
  <2>3. doc'[d].events = doc[d].events
    BY <1>4, <1>7, <2>1, SavedFields DEF DocFields
  <2> QED
    BY <1>2, <1>7, <1>9, <2>2, <2>3 DEF Behind
<1> QED
  BY <1>6, <1>8, <1>9

\* A request that the server answers.
LEMMA FreshServed ==
  ASSUME CallsInv, AllMove, DocsInv, SentInv, SnapsInv, KeysFresh, DeskStep, NEW c \in Calls, UpToDate(c),
         Alive(c)', Sole(c)', call'[c] # call[c]
  PROVE  FreshNow(c)
<1>1. ~Sent(c) /\ UNCHANGED load
  BY DeskQuiet DEF Reads, Answers, Sent, NoCall
<1>2. Alive(c) /\ Sole(c) /\ call'[c].page = call[c].page
  BY <1>1, SoleBefore
<1>3. ReadNow(c)
  BY <1>2 DEF UpToDate
<1>4. List(c) \/ Read(c) \/ Save(c) \/ Throws(c) \/ RefundUnsaved(c) \/ UpdateCoupon(c) \/ Create(c)
  <2>1. ASSUME NEW x \in Calls, List(x) \/ Read(x) \/ Save(x) \/ Throws(x) \/ RefundUnsaved(x) \/ UpdateCoupon(x) \/ Create(x)
        PROVE  x = c
    BY <2>1, ListShape, ReadShape, SaveShape, ThrowShape, CouponShape, CreateShape DEF OnlyCall
  <2>2. ~(\E k \in Keys : Expire(k)) /\ ~(\E d \in Docs : Sale(d) \/ MarkOrderPaid(d))
    BY DEF Expire, Sale, MarkOrderPaid
  <2> QED
    BY <2>1, <2>2 DEF DeskStep
<1>5. ASSUME Answers(c), call[c].op # "list",
             call'[c].ans = "ok" /\ call[c].op \in Changes =>
               call'[c].heard = doc'[call[c].doc] \/ Behind(call'[c].heard, doc'[call[c].doc])
      PROVE  FreshNow(c)
  <2>1. call'[c].st = "served" /\ call'[c].op = call[c].op /\ call'[c].doc = call[c].doc
    BY <1>5 DEF Answers, Keeps, CallFields
  <2> QED
    BY <1>5, <2>1 DEF FreshNow, ReadNow, AnswerNow, ShownNow
<1>6. CASE List(c)
  <2>1. Answers(c) /\ UNCHANGED doc /\ call[c].op = "list"
    BY <1>6, ListShape DEF List
  <2>2. /\ call'[c].st = "served" /\ call'[c].op = "list" /\ call'[c].doc = call[c].doc
        /\ call'[c].query = call[c].query
    BY <2>1 DEF Answers, Keeps, CallFields
  <2>3. AnswerNow(c)'
    <3>1. PICK s : s = Screen(call[c].page)
      OBVIOUS
    <3>2. \A e \in Docs : (s = "edit" => e = call[c].doc) => Agree(call'[c].heard[e], Seen(doc, s, call[c].query, e))
      BY <1>6, <3>1, FreshList
    <3>3. load'.screen[call'[c].page] = s
      BY <1>1, <1>2, <3>1 DEF Screen
    <3> QED
      BY <2>1, <2>2, <3>2, <3>3 DEF AnswerNow, Near, Screen, Changes
  <2> QED
    BY <2>2, <2>3 DEF FreshNow, ReadNow, ShownNow
<1>7. CASE Read(c)
  <2>1. call[c].op \in ReadThenSave /\ call[c].op # "list" /\ UNCHANGED doc
    BY <1>7 DEF Read, ReadThenSave
  <2>2. CASE Reads(c)
    <3>1. call'[c].st = "saving" /\ call'[c].snap = doc'[call'[c].doc]
      BY <2>1, <2>2 DEF Reads, Keeps, CallFields
    <3> QED
      BY <3>1 DEF FreshNow, ReadNow, AnswerNow, ShownNow
  <2>3. CASE Refused(call[c].op, doc[call[c].doc])
    <3>1. Reply(c, "error", NoOne) /\ call[c].st = "sent"
      BY <1>7, <2>3 DEF Read
    <3>2. Answers(c) /\ call'[c].ans = "error"
      BY <2>1, <3>1, ReplyAnswers
    <3> QED
      BY <1>5, <2>1, <3>2
  <2>4. CASE ~Refused(call[c].op, doc[call[c].doc])
    <3>1. call' = [call EXCEPT ![c].st = "saving", ![c].snap = doc[call[c].doc]]
      BY <1>7, <2>4 DEF Read
    <3>2. call'[c].st = "saving"
      BY <3>1 DEF CallsInv, Frame, CallOK, CallFields
    <3>3. Reads(c)
      BY <1>7, <3>2, ReadShape DEF Answers
    <3> QED
      BY <2>2, <3>3
  <2> QED
    BY <2>3, <2>4
<1>8. CASE Save(c)
  <2>1. Answers(c) /\ call[c].op # "list"
    BY <1>8, SaveShape DEF Save, CallsInv, CallOK, ReadThenSave
  <2> QED
    BY <1>3, <1>5, <1>8, <2>1, FreshSaved
<1>9. CASE Throws(c) \/ RefundUnsaved(c)
  BY <1>5, <1>9, ThrowShape DEF Throws, RefundUnsaved
<1>10. CASE UpdateCoupon(c)
  <2>1. call[c].st = "sent" /\ call[c].op \in {"active", "delete"}
    BY <1>10 DEF UpdateCoupon
  <2>2. Reply(c, "error", NoOne) \/ Reply(c, "ok", doc'[call[c].doc])
    BY <1>10 DEF UpdateCoupon
  <2>3. Answers(c) /\ (call'[c].ans = "error" \/ call'[c].heard = doc'[call[c].doc])
    BY <2>1, <2>2, ReplyAnswers
  <2> QED
    BY <1>5, <2>1, <2>3
<1>11. CASE Create(c)
  BY <1>5, <1>11, CreateShape DEF Create, Changes
<1> QED
  BY <1>4, <1>6, <1>7, <1>8, <1>9, <1>10, <1>11

\* A page whose answer came, with nobody else asking, stays as it is.
LEMMA ShownRests ==
  ASSUME CallsInv, AllMove, PageShape, NEW c \in Calls, Alive(c)', Sole(c)', call'[c] = call[c],
         NEW p \in Pages, p = call[c].page
  PROVE  /\ page'[p].rows = page[p].rows /\ page'[p].query = page[p].query /\ page'[p].up = page[p].up
         /\ Screen(p) = "edit" => page'[p].form = page[p].form
<1> DEFINE Same4 == /\ page'[p].rows = page[p].rows /\ page'[p].query = page[p].query /\ page'[p].up = page[p].up
                    /\ Screen(p) = "edit" => page'[p].form = page[p].form
<1>1. ~Sent(c)
  BY DEF Sent, NoCall
<1>2. Alive(c) /\ \A x \in Calls : ~Sent(x) /\ (call[x].st = "served" => x = c)
  BY <1>1, SoleBefore
<1>3. ASSUME NEW x \in Calls, NEW q \in Pages, OpenShape(x, q)
      PROVE  Same4
  <2>1. x # c
    BY <1>2, <1>3 DEF OpenShape, Alive, NoCall
  <2>2. q # p
    BY <1>3, <2>1 DEF OpenShape, Left, Alive
  <2> QED
    BY <1>3, <2>2 DEF OpenShape
<1>4. ASSUME NEW x \in Calls, NEW q \in Pages, SubmitShape(x, q) \/ \E d \in Docs : RowShape(x, q, d)
      PROVE  FALSE
  BY <1>2, <1>4 DEF SubmitShape, RowShape
<1>5. ASSUME NEW q \in Pages, AskShape(q)
      PROVE  FALSE
  BY <1>2, <1>5 DEF AskShape, Queried
<1>6. ASSUME NEW q \in Pages, FormShape(q), Screen(q) \in {"selling", "products"}
      PROVE  Same4
  BY <1>6, FormOnly
<1>7. ASSUME NEW x \in Calls, AnswerShape(x)
      PROVE  FALSE
  <2>1. Ends(x) \/ Again(x)
    BY <1>7 DEF AnswerShape, ArriveShape, RowArriveShape, LeaveShape, AgainShape, DoneShape, FailShape, EndShape
  <2>2. call[x].st = "served" /\ call'[x].st # "served"
    BY <2>1 DEF Ends, Again
  <2> QED
    BY <1>2, <2>2
<1> HIDE DEF Same4
<1>8. Same4
  BY <1>3, <1>4, <1>5, <1>6, <1>7 DEF PageShape
<1> QED
  BY <1>8 DEF Same4

\* An answer that arrives is what the page then shows.
LEMMA ShownArrives ==
  ASSUME CallsInv, QueryInv, ReadingsInv, Present, PageShape, NEW c \in Calls, Alive(c), Sole(c), UpToDate(c),
         UNCHANGED <<load, doc>>, AnswerShape(c), Ends(c), call'[c].ans = "ok", page'[call[c].page].up = TRUE
  PROVE  RowsNow(c)'
<1>1. PICK p \in Pages : p = call[c].page
  BY OfPage
<1>2. PICK s : s = Screen(p)
  OBVIOUS
<1>3. PICK d : d = call[c].doc
  OBVIOUS
<1>4. /\ call'[c].page = p /\ call'[c].op = call[c].op /\ call'[c].doc = d /\ load'.screen[p] = s
      /\ call[c].gone = FALSE /\ call[c].st = "served" /\ c \notin Over
  BY <1>1, <1>2, <1>3 DEF Ends, Keeps, CallFields, Screen, Alive, Over
<1>5. Fits(call[c].op, s) /\ DocFits(call[c].op, s, d) /\ load.live \subseteq Docs
  BY <1>1, <1>2, <1>3, OfPage, DeskAssumption DEF Asking, CallsInv, Frame
<1>6. AnswerNow(c)
  BY DEF UpToDate
<1>7. CASE ArriveShape(c)
  <2>1. call[c].op = "list" /\ s # "add"
    BY <1>5, <1>7 DEF ArriveShape, Fits
  <2>2. CASE s = "edit"
    <3>1. d \in Docs /\ d = page[p].form.doc
      BY <1>1, <1>2, <1>3, <1>4, <1>5, <2>1, <2>2 DEF DocFits, ReadingsInv, EditsInv, EditList
    <3>2. page'[p].form.row = call[c].heard[d] /\ page'[p].form.doc = d
      BY <1>1, <1>2, <1>3, <1>7, <2>2, <3>1 DEF ArriveShape
    <3>3. Near(call[c].heard[d], doc[d], Seen(doc, s, call[c].query, d))
      BY <1>1, <1>2, <1>3, <1>4, <1>6, <2>1, <3>1 DEF AnswerNow
    <3>4. Seen(doc, s, call[c].query, d) = doc[d] /\ doc[d] # NoOne
      BY <2>2, <3>1 DEF Seen, Present
    <3>5. call[c].heard[d] # NoOne /\ Same(call[c].heard[d], doc[d])
      BY <1>2, <2>2, <3>3, <3>4 DEF Agree, Near, OfProducts, ProductScreens
    <3> QED
      BY <1>4, <2>2, <3>1, <3>2, <3>5 DEF RowsNow, Screen
  <2>3. CASE s # "edit"
    <3>1. Last(c)
      <4> SUFFICES ASSUME NEW e \in Calls \ {c}, call[e].page = p
                   PROVE  e \in call[c].after
        BY <1>1 DEF Last
      <4>1. CallOK(e) /\ NoCall.page = NoOne /\ p # NoOne
        BY DeskAssumption DEF CallsInv, NoCall
      <4>2. call[e].st # "idle"
        BY <4>1 DEF CallOK
      <4> QED
        BY <4>2 DEF Sole
    <3>2. call[c].query = page[p].query
      BY <1>1, <1>2, <2>1, <2>3, <3>1 DEF QueryInv, QueryOK
    <3>3. page'[p].query = page[p].query /\ page'[p].rows = call[c].heard
      BY <1>1, <1>2, <1>7, <2>3 DEF ArriveShape
    <3>4. \A e \in Docs : Near(call[c].heard[e], doc[e], Seen(doc, s, call[c].query, e))
      BY <1>1, <1>2, <1>4, <1>6, <2>1, <2>3 DEF AnswerNow
    <3> QED
      BY <1>4, <2>1, <2>3, <3>2, <3>3, <3>4 DEF RowsNow, Near, OfProducts, Screen
  <2> QED
    BY <2>2, <2>3
<1>8. CASE RowArriveShape(c)
  <2>1. call[c].op \in Changes /\ s # "edit" /\ call[c].ans = "ok"
    BY <1>5, <1>8 DEF RowArriveShape, Changes, Fits
  <2>2. d \in Docs /\ (call[c].heard = doc[d] \/ Behind(call[c].heard, doc[d]))
    BY <1>3, <1>4, <1>5, <1>6, <2>1 DEF AnswerNow, DocFits, Changes
  <2>3. page'[p].rows = Replaced(c, page[p].rows) /\ DOMAIN page[p].rows = Docs
    BY <1>1, <1>8 DEF RowArriveShape, CallsInv, PageOK, RecordOK
  <2>4. page'[p].rows[d] = NoOne \/ page'[p].rows[d] = doc[d] \/ Behind(page'[p].rows[d], doc[d])
    BY <1>3, <2>2, <2>3 DEF Replaced
  <2>5. Same(doc[d], doc[d])
    BY DEF Same
  <2> QED
    BY <1>4, <2>1, <2>2, <2>4, <2>5 DEF RowsNow, Screen, Changes
<1>9. CASE LeaveShape(c)
  <2>1. call[c].op \in {"approve", "reject", "delete", "remove"} /\ s # "edit"
    BY <1>5, <1>9 DEF LeaveShape, Fits
  <2>2. d \in Docs /\ DOMAIN page[p].rows = Docs
    BY <1>5, <2>1 DEF DocFits, CallsInv, PageOK, RecordOK
  <2>3. page'[p].rows[d] = NoOne
    BY <1>1, <1>3, <1>9, <2>2 DEF LeaveShape
  <2> QED
    BY <1>4, <2>1, <2>3 DEF RowsNow, Screen
<1>10. CASE DoneShape(c)
  <2>1. s = "add"
    <3>1. s = "edit" => page'[p] = [Unmounted EXCEPT !.forms = page[p].forms]
      BY <1>1, <1>2, <1>10 DEF DoneShape
    <3>2. Unmounted.up = FALSE
      BY DEF Unmounted
    <3>3. s = "edit" => page'[p].up = FALSE
      BY <3>1, <3>2 DEF Unmounted
    <3> QED
      BY <1>1, <1>2, <1>10, <3>3 DEF DoneShape
  <2>2. call[c].op = "add" /\ d = NoOne
    BY <1>5, <1>10, <2>1 DEF DoneShape, Fits, DocFits
  <2> QED
    BY <1>4, <2>1, <2>2 DEF RowsNow, Screen
<1>11. CASE FailShape(c) \/ AgainShape(c)
  BY <1>11 DEF FailShape, AgainShape, Again, Ends
<1> QED
  BY <1>4, <1>7, <1>8, <1>9, <1>10, <1>11 DEF AnswerShape

\* What the pages do to a request nobody is beside.
LEMMA FreshQuiet ==
  ASSUME CallsInv, AllMove, QueryInv, ReadingsInv, Present, PageShape, NEW c \in Calls, UpToDate(c), Alive(c)', Sole(c)'
  PROVE  FreshNow(c)
<1>1. UNCHANGED <<load, doc>>
  BY OnlyDesk DEF StepShape
<1>2. CASE Sent(c)
  BY <1>2 DEF Sent, FreshNow, ReadNow, AnswerNow, ShownNow
<1>3. CASE call'[c] = call[c]
  <2>1. ~Sent(c)
    BY <1>3 DEF Sent, NoCall
  <2>2. Alive(c) /\ Sole(c) /\ call[c].page \in Pages
    BY <2>1, SoleBefore
  <2>3. PICK p \in Pages : p = call[c].page
    BY <2>2
  <2>4. ReadNow(c) /\ AnswerNow(c) /\ ShownNow(c)
    BY <2>2 DEF UpToDate
  <2>5. ReadNow(c)' /\ AnswerNow(c)'
    BY <1>1, <1>3, <2>4 DEF ReadNow, AnswerNow, Near, OfProducts, Screen
  <2>6. /\ page'[p].rows = page[p].rows /\ page'[p].query = page[p].query /\ page'[p].up = page[p].up
        /\ Screen(p) = "edit" => page'[p].form = page[p].form
    BY <1>3, <2>3, ShownRests
  <2>7. RowsNow(c) => RowsNow(c)'
    BY <1>1, <1>3, <2>3, <2>6 DEF RowsNow, Near, OfProducts, Screen
  <2>8. ShownNow(c)'
    BY <1>3, <2>3, <2>4, <2>6, <2>7 DEF ShownNow
  <2> QED
    BY <2>5, <2>8 DEF FreshNow
<1>4. CASE AnswerShape(c) /\ Ends(c)
  <2>1. ~Sent(c) /\ call'[c].st = "over"
    BY <1>4 DEF Sent, NoCall, Ends
  <2>2. Alive(c) /\ Sole(c) /\ call'[c].page = call[c].page
    BY <2>1, SoleBefore
  <2>3. call'[c].ans = "ok" /\ page'[call[c].page].up = TRUE => RowsNow(c)'
    BY <1>1, <1>4, <2>2, ShownArrives
  <2> QED
    BY <2>1, <2>2, <2>3 DEF FreshNow, ReadNow, AnswerNow, ShownNow
<1>5. CASE Again(c)
  BY <1>5 DEF Again, FreshNow, ReadNow, AnswerNow, ShownNow
<1>6. ~Left(c)
  BY DEF Left, Alive
<1> QED
  BY <1>2, <1>3, <1>4, <1>5, <1>6, QuietMoves

LEMMA FreshStep ==
  ASSUME CallsInv, AllMove, StepShape, QueryInv, ReadingsInv, Present, FreshInv
  PROVE  FreshInv'
<1>1. DocsInv /\ SentInv /\ SnapsInv /\ KeysFresh /\ \A c \in Calls : UpToDate(c)
  BY DEF ReadingsInv, FreshInv
<1>2. KeysFresh'
  <2>1. CASE DeskStep
    BY <1>1, <2>1, KeysStay
  <2>2. CASE ~DeskStep
    <3>1. UNCHANGED <<load, doc, cached>>
      BY <2>2, OnlyDesk
    <3> QED
      BY <1>1, <3>1 DEF KeysFresh, KeyFresh, OfProducts, Screen
  <2> QED
    BY <2>1, <2>2
<1>3. ASSUME NEW c \in Calls, Alive(c)', Sole(c)'
      PROVE  FreshNow(c)
  <2>1. CASE PageShape
    BY <1>1, <1>3, <2>1, FreshQuiet
  <2>2. CASE DeskStep /\ UNCHANGED page
    BY <1>1, <1>3, <2>2, FreshRests, FreshServed
  <2> QED
    BY <2>1, <2>2 DEF StepShape
<1> QED
  BY <1>2, <1>3 DEF FreshInv, UpToDate, FreshNow

\* What a page shows settles: after an answer that had the server to itself,
\* and was the last, its rows are the documents, and those of the query the
\* page names, whatever overlapped before (the lists of every dashboard), but
\* for an order that markOrderPaid wrote after the row was read.
THEOREM RowsSafety == BackOfficeSpec => []RowsInv
<1>1. Init => QueryInv /\ FreshInv
  <2> SUFFICES ASSUME Init
               PROVE  QueryInv /\ FreshInv
    OBVIOUS
  <2>1. cached = Nothing /\ \A c \in Calls : call[c].st = "idle"
    BY DEF Init, DeskInit, NoCall
  <2>2. KeysFresh
    BY <2>1 DEF KeysFresh, KeyFresh, Nothing
  <2> QED
    BY <2>1, <2>2 DEF QueryInv, QueryOK, FreshInv, UpToDate, Alive
<1>2. CallsInv /\ SinglesInv /\ ReadingsInv /\ QueryInv /\ FreshInv /\ doc \in [Docs -> Documents] /\ (doc \in [Docs -> Documents])'
        /\ [Next]_bvars => QueryInv' /\ FreshInv'
  <2> SUFFICES ASSUME CallsInv, SinglesInv, ReadingsInv, QueryInv, FreshInv, doc \in [Docs -> Documents],
                      (doc \in [Docs -> Documents])', [Next]_bvars
               PROVE  QueryInv' /\ FreshInv'
    OBVIOUS
  <2>1. Present
    BY BackOfficeAssumption DEF Present
  <2>2. CASE Next
    BY <2>1, <2>2, Steps, QueryStep, FreshStep
  <2>3. CASE UNCHANGED bvars
    <3>1. UNCHANGED <<load, doc, cached, call, page>>
      BY <2>3 DEF bvars, dvars
    <3>2. QueryInv'
      BY <3>1 DEF QueryInv, QueryOK, Alive, Screen, Last
    <3>3. KeysFresh'
      BY <3>1 DEF FreshInv, KeysFresh, KeyFresh, OfProducts, Screen
    <3>4. ASSUME NEW c \in Calls
          PROVE  UpToDate(c)'
      <4>1. UpToDate(c)
        BY DEF FreshInv
      <4> QED
        BY <3>1, <4>1 DEF UpToDate, Alive, Sole, ReadNow, AnswerNow, ShownNow, RowsNow, Near, OfProducts, Screen
    <3> QED
      BY <3>2, <3>3, <3>4 DEF FreshInv
  <2> QED
    BY <2>2, <2>3
<1>3. CallsInv /\ QueryInv /\ FreshInv => RowsInv
  <2> SUFFICES ASSUME CallsInv, QueryInv, FreshInv
               PROVE  RowsInv
    OBVIOUS
  <2>1. ShownRowsSettle
    <3> SUFFICES ASSUME NEW c \in Calls, Settled(c, Calls)
                 PROVE  Shows(c)
      BY DEF ShownRowsSettle
    <3>1. CallOK(c) /\ call[c].st = "over" /\ ~call[c].gone /\ call[c].ans = "ok" /\ page[call[c].page].up
      BY DEF Settled, Over, CallsInv
    <3>2. Alive(c) /\ call[c].page \in Pages /\ Asking(c)
      BY <3>1 DEF CallOK, Alive, Asking
    <3>3. PICK p \in Pages : p = call[c].page
      BY <3>2
    <3>4. Sole(c) /\ page[p].up = TRUE
      BY <3>1, <3>3 DEF Settled, Sole, CallsInv, PageOK, RecordOK
    <3>5. RowsNow(c)
      BY <3>1, <3>2, <3>3, <3>4 DEF FreshInv, UpToDate, ShownNow
    <3>6. \A e \in Docs : View(Screen(p), page[p].query)[e] = Seen(doc, Screen(p), page[p].query, e)
      BY Seeing
    <3> QED
      BY <3>3, <3>5, <3>6 DEF Shows, RowsNow, Near, Behind, Since
  <2>2. RowsAreOfTheQuery
    <3> SUFFICES ASSUME NEW c \in Calls, Settled(c, Of(call[c].page)), call[c].op = "list", Screen(call[c].page) # "edit"
                 PROVE  call[c].query = page[call[c].page].query
      BY DEF RowsAreOfTheQuery
    <3>1. CallOK(c) /\ call[c].st = "over" /\ ~call[c].gone
      BY DEF Settled, Over, CallsInv
    <3>2. Alive(c) /\ call[c].page \in Pages /\ Screen(call[c].page) # "add"
      BY <3>1 DEF CallOK, Alive, Asking, Fits
    <3>3. Last(c)
      <4> SUFFICES ASSUME NEW e \in Calls \ {c}, call[e].page = call[c].page
                   PROVE  e \in call[c].after
        BY DEF Last
      <4>1. CallOK(e) /\ NoCall.page = NoOne /\ call[c].page # NoOne
        BY <3>2, DeskAssumption DEF CallsInv, NoCall
      <4> QED
        BY <4>1 DEF CallOK, Settled, Of
    <3> QED
      BY <3>2, <3>3 DEF QueryInv, QueryOK
  <2> QED
    BY <2>1, <2>2 DEF RowsInv
<1> QED
  BY <1>1, <1>2, <1>3, DeskSafety, StockSafety, DocumentsSafety, PTL DEF BackOfficeSpec

=============================================================================
