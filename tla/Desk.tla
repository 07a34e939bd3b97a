-------------------------------- MODULE Desk --------------------------------
(***************************************************************************)
(* What the pages of the back office and a customer's order page talk to:  *)
(* the documents of one kind (orders, coupons, staff or products) and the  *)
(* handlers that list, change, create and remove them.                     *)
(*                                                                         *)
(* A document is one record for every kind; a field that its kind lacks    *)
(* keeps its first value.  A change is a payload, a record of some fields. *)
(* An order here is paid by card and not yet paid out (Settlement has the  *)
(* payouts); of Paystack's events the one that pays it is here.  What one  *)
(* handler does between its awaits to payments, stock and mails is in      *)
(* OrderLifecycle, the cache's own races in Catalogue.                     *)
(*                                                                         *)
(* Bounds: load.calls requests, each run once; MaxLost answers are lost;   *)
(* MaxSales pieces of a product are sold.                                  *)
(***************************************************************************)
EXTENDS Integers, FiniteSets

CONSTANTS Calls,      \* the requests of a behaviour
          Pages,      \* open pages
          Docs,       \* documents, by age
          NoOne,      \* absence of a document, a page, a value
          Webhook,    \* who wrote a status when Paystack's event did
          Workloads,  \* which screen each page shows, what exists at first, how many requests
          InitialStock, MaxLost, MaxSales

\* The pages of one workload are about documents of one kind.
OrderScreens == {"orders", "refunds", "selling", "mine"}
ProductScreens == {"list", "edit", "add", "products"}

ASSUME DeskAssumption ==
    /\ {InitialStock, MaxLost, MaxSales} \subseteq Nat /\ IsFiniteSet(Calls)
    /\ Docs \subseteq Nat /\ NoOne \notin Pages \cup Nat /\ Webhook \notin Pages \cup {NoOne}
    /\ NoOne \notin (Pages \cup {NoOne}) \X Nat
    /\ \A w \in Workloads :
          /\ \E kind \in {OrderScreens, {"coupons"}, {"staff"}, ProductScreens} : \A p \in Pages : w.screen[p] \in kind
          /\ w.live \subseteq Docs /\ w.refund \in {"none", "requested"} /\ w.paid \in BOOLEAN /\ {w.calls, w.forms} \subseteq Nat

VARIABLES load,     \* the workload of this behaviour
          doc,      \* the documents
          cached,   \* what Redis has: the pages of the product list, single products
          call,     \* the requests and their answers
          lost,     \* answers lost so far
          writer,   \* history: who last wrote an order's status
          refunds,  \* history: how often Paystack returned an order's money
          owned,    \* history: pieces of a product the shop has had, sold or not
          outdated  \* history: products saved with the stock of a row read before a sale or a restock

dvars == <<load, doc, cached, call, lost, writer, refunds, owned, outdated>>

\* `events` is history: how often Paystack's event wrote the order.
Blank == [live |-> FALSE, status |-> "placed", tracking |-> NoOne, paid |-> FALSE, refund |-> "none", asked |-> 0,
          events |-> 0, active |-> TRUE, role |-> "support", content |-> NoOne, stock |-> 0, sold |-> 0, restocks |-> 0]
\* An order is placed, and confirmed when it is paid.
First(d) == [Blank EXCEPT !.live = TRUE, !.stock = InitialStock, !.content = <<NoOne, d>>, !.refund = load.refund,
                          !.paid = load.paid, !.status = IF load.paid THEN "confirmed" ELSE "placed"]

\* `chose` is history: the value a form's user chose, NoOne if it was left as
\* the form was filled.  `after`: the calls that were over when this was sent.
NoCall == [st |-> "idle", page |-> NoOne, gone |-> FALSE, op |-> "none", doc |-> NoOne, query |-> "all",
           put |-> <<>>, chose |-> NoOne, row |-> NoOne, form |-> 0, snap |-> NoOne, ans |-> "none", heard |-> NoOne, after |-> {}]
Over == {c \in Calls : call[c].st = "over"}

Screen(p) == load.screen[p]
OfProducts == \E p \in Pages : Screen(p) \in ProductScreens

-----------------------------------------------------------------------------
(* Reading.                                                                *)

\* The n-th newest product is on the n-th page of the admin's list.
OnPage(d, n) == Cardinality({e \in Docs : doc[e].live /\ e >= d}) = n

Visible(s, q, d) ==
    /\ doc[d].live \/ s = "edit"
    /\ s = "selling" => q = "all" \/ doc[d].status = q
    /\ s = "refunds" => doc[d].refund = "requested"
    /\ s = "list" => OnPage(d, q)

View(s, q) == [d \in Docs |-> IF Visible(s, q, d) THEN doc[d] ELSE NoOne]

Reply(c, ans, heard) ==
    call' = [call EXCEPT ![c].st = "served", ![c].ans = ans, ![c].snap = NoOne, ![c].heard = heard]

CacheKey(c) == IF Screen(call[c].page) = "edit" THEN <<"single", call[c].doc>> ELSE <<"list", call[c].query>>
Keys == {"list"} \X {1, 2} \cup {"single"} \X Docs
Nothing == [k \in Keys |-> NoOne]

\* getAllOrders, getSellerOrders, getMyOrders, getRefundRequests, listCoupons,
\* listStaff, listSellerProducts; listProducts and getProductById are cached.
List(c) ==
    LET p == call[c].page
        k == CacheKey(c) IN
    /\ call[c].st = "sent" /\ call[c].op = "list"
    /\ IF Screen(p) \in {"list", "edit"}
       THEN /\ cached' = [cached EXCEPT ![k] = IF @ = NoOne THEN View(Screen(p), call[c].query) ELSE @]
            /\ Reply(c, "ok", cached'[k])
       ELSE Reply(c, "ok", View(Screen(p), call[c].query)) /\ UNCHANGED cached
    /\ UNCHANGED <<load, doc, lost, writer, refunds, owned, outdated>>

\* The entries expire after CACHE_TTL seconds.
Expire(k) ==
    /\ cached[k] # NoOne /\ cached' = [cached EXCEPT ![k] = NoOne]
    /\ UNCHANGED <<load, doc, call, lost, writer, refunds, owned, outdated>>

-----------------------------------------------------------------------------
(* Changing a document that was read: updateOrderStatus, requestRefund,    *)
(* approveRefund, rejectRefund, updateStaff, updateProduct, removeProduct. *)

ReadThenSave == {"status", "ask", "approve", "reject", "member", "edit", "remove"}

AnyRequest(o) == o.refund \in {"requested", "completed"}
Pending(o) == o.refund = "requested"
Refused(op, o) ==
    \/ op = "ask" /\ (~o.paid \/ o.refund \notin {"none", "rejected"})
    \/ op \in {"approve", "reject"} /\ ~Pending(o)

\* Did the form's user type a stock?
Restocks(c) == call[c].op = "edit" /\ call[c].chose # NoOne

\* What the handler sets on the document it read; asked and restocks
\* are history, the number of refund requests and of stocks typed in.
Effect(c) ==
    CASE call[c].op = "ask" -> [refund |-> "requested", asked |-> doc[call[c].doc].asked + 1]
      [] call[c].op = "approve" -> [refund |-> "completed", paid |-> FALSE, status |-> "returned"]
      [] call[c].op = "reject" -> [refund |-> "rejected"]
      [] call[c].op = "remove" -> [live |-> FALSE]
      [] Restocks(c) -> [content |-> call[c].put.content, stock |-> call[c].put.stock,
                          restocks |-> doc[call[c].doc].restocks + 1]
      [] OTHER -> call[c].put

With(d, put) == [f \in DOMAIN d |-> IF f \in DOMAIN put THEN put[f] ELSE d[f]]
Changed(snap, put) == {f \in DOMAIN put : put[f] # snap[f]}

\* save() writes the fields that differ from what was read.
WholeDocument(snap, put) == DOMAIN snap \ {"sold", "restocks", "events"}
Written(snap, put) == Changed(snap, put)
Saved(now, snap, put) ==
    [f \in DOMAIN now |-> IF f \in Written(snap, put) THEN With(snap, put)[f] ELSE now[f]]

Read(c) ==
    LET d == doc[call[c].doc] IN
    /\ call[c].st = "sent" /\ call[c].op \in ReadThenSave
    /\ IF Refused(call[c].op, d) THEN Reply(c, "error", NoOne)
       ELSE call' = [call EXCEPT ![c].st = "saving", ![c].snap = d]
    /\ UNCHANGED <<load, doc, cached, lost, writer, refunds, owned, outdated>>

\* The answer is the document in memory: what was read, with the change.
Save(c) ==
    LET d == call[c].doc
        snap == call[c].snap
        put == Effect(c) IN
    /\ call[c].st = "saving"
    /\ doc' = [doc EXCEPT ![d] = Saved(doc[d], snap, put)]
    /\ Reply(c, "ok", With(snap, put))
    /\ cached' = IF call[c].op \in {"edit", "remove"} THEN Nothing ELSE cached
    /\ writer' = IF doc'[d].status = doc[d].status THEN writer ELSE [writer EXCEPT ![d] = call[c].page]
    /\ refunds' = IF call[c].op = "approve" THEN [refunds EXCEPT ![d] = @ + 1] ELSE refunds
    /\ owned' = IF Restocks(c) THEN [owned EXCEPT ![d] = doc'[d].stock + doc'[d].sold] ELSE owned
    /\ outdated' = IF call[c].op = "edit" /\ ~Restocks(c) /\ (call[c].row.sold # snap.sold \/ call[c].row.restocks # snap.restocks)
                    THEN outdated \cup {d} ELSE outdated
    /\ UNCHANGED <<load, lost>>

\* A SKU is unique, and a product that was removed keeps its own.
SkuTaken(c) ==
    /\ <<call[c].op, call[c].st>> \in {<<"add", "sent">>, <<"edit", "saving">>}
    /\ \E d \in Docs \ {call[c].doc} : doc[d].content # NoOne

\* Nothing is written: refundTransaction throws, as Paystack is down or
\* refuses, or the SKU is another product's.
Throws(c) ==
    /\ \/ call[c].op = "approve" /\ call[c].st = "saving"
       \/ SkuTaken(c)
    /\ Reply(c, "error", NoOne)
    /\ UNCHANGED <<load, doc, cached, lost, writer, refunds, owned, outdated>>

\* Paystack returns the money, and its answer is lost, or the save fails: the
\* order stays as it was.  The page is told of an error like any other.
RefundUnsaved(c) ==
    /\ call[c].st = "saving" /\ call[c].op = "approve"
    /\ refunds' = [refunds EXCEPT ![call[c].doc] = @ + 1]
    /\ Reply(c, "unsaved", NoOne)
    /\ UNCHANGED <<load, doc, cached, lost, writer, owned, outdated>>

-----------------------------------------------------------------------------
(* Coupons are changed and deleted in one query; creations.                *)

UpdateCoupon(c) ==
    LET d == call[c].doc IN
    /\ call[c].st = "sent" /\ call[c].op \in {"active", "delete"}
    /\ IF ~doc[d].live THEN Reply(c, "error", NoOne) /\ UNCHANGED doc
       ELSE /\ doc' = [doc EXCEPT ![d] = IF call[c].op = "delete" THEN [@ EXCEPT !.live = FALSE]
                                         ELSE With(@, call[c].put)]
            /\ Reply(c, "ok", doc'[d])
    /\ UNCHANGED <<load, cached, lost, writer, refunds, owned, outdated>>

\* The code of a coupon and the e-mail of a staff member are unique.
Taken(c) == call[c].op # "add" /\ \E d \in Docs : doc[d].live /\ doc[d].content = call[c].put.content

Unused == {d \in Docs : ~doc[d].live /\ doc[d].content = NoOne}

Create(c) ==
    /\ call[c].st = "sent" /\ call[c].op \in {"coupon", "hire", "add"}
    /\ IF Taken(c) THEN Reply(c, "error", NoOne) /\ UNCHANGED <<doc, cached, owned>>
       ELSE \E d \in Unused :
               /\ \A e \in Unused : d <= e
               /\ doc' = [doc EXCEPT ![d] = With([Blank EXCEPT !.live = TRUE], call[c].put)]
               /\ Reply(c, "ok", doc'[d])
               /\ cached' = IF call[c].op = "add" THEN Nothing ELSE cached
               /\ owned' = [owned EXCEPT ![d] = doc'[d].stock]
    /\ UNCHANGED <<load, lost, writer, refunds, outdated>>

\* A checkout reserves a piece, next to all of this and past the cache.
Sale(d) ==
    /\ OfProducts /\ doc[d].live /\ doc[d].stock > 0 /\ doc[d].sold < MaxSales
    /\ doc' = [doc EXCEPT ![d].stock = @ - 1, ![d].sold = @ + 1]
    /\ UNCHANGED <<load, cached, call, lost, writer, refunds, owned, outdated>>

\* markOrderPaid: of an order that is not paid, at any time and as often.  It
\* confirms the order if it read it, any time before, as placed.
MarkOrderPaid(d) ==
    /\ \E p \in Pages : Screen(p) \in OrderScreens
    /\ doc[d].live /\ ~doc[d].paid
    /\ \E status \in {doc[d].status, "confirmed"} :
          /\ status = "placed" => writer[d] # NoOne
          /\ doc' = [doc EXCEPT ![d].paid = TRUE, ![d].status = status, ![d].events = @ + 1]
          /\ writer' = IF status = doc[d].status THEN writer ELSE [writer EXCEPT ![d] = Webhook]
    /\ UNCHANGED <<load, cached, call, lost, refunds, owned, outdated>>

DeskInit ==
    /\ load \in Workloads
    /\ doc = [d \in Docs |-> IF d \in load.live THEN First(d) ELSE Blank]
    /\ cached = Nothing /\ lost = 0
    /\ call = [c \in Calls |-> NoCall]
    /\ writer = [d \in Docs |-> NoOne] /\ refunds = [d \in Docs |-> 0]
    /\ owned = [d \in Docs |-> doc[d].stock] /\ outdated = {}

DeskStep ==
    \/ \E c \in Calls : \/ List(c) \/ Read(c) \/ Save(c) \/ UpdateCoupon(c) \/ Create(c)
                        \/ Throws(c) \/ RefundUnsaved(c)
    \/ \E k \in Keys : Expire(k)
    \/ \E d \in Docs : Sale(d) \/ MarkOrderPaid(d)
=============================================================================
