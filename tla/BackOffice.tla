----------------------------- MODULE BackOffice -----------------------------
(***************************************************************************)
(* The pages that work on lists of documents: the administrators' Orders,  *)
(* Refunds, Coupons, Staff, List, Add and Edit, the sellers' Orders and    *)
(* Products, a customer's Orders.  Each keeps the rows it was answered,    *)
(* acts on a row as shown, and takes the answer into its rows.             *)
(*                                                                         *)
(* The fields of a form are one value, content, and its stock; what a user *)
(* types is chosen when the form is sent.  Tracking number, carrier and    *)
(* date are one value.  Left out: pictures, notes, wording, and the text   *)
(* searched for in the product list.                                       *)
(*                                                                         *)
(* Bounds: those of Desk, and load.forms forms per page.                   *)
(***************************************************************************)
EXTENDS Desk

CONSTANT Targets     \* the statuses staff and sellers set

VARIABLE page        \* per page: mounted, what it asked for, its rows, its form

bvars == <<dvars, page>>
desk == <<load, doc, cached, lost, writer, refunds, owned, outdated>>

\* Documents; a page that shows none shows NoOne.
Documents ==
    [live : BOOLEAN, status : Targets \cup {"placed", "confirmed", "returned"}, tracking : {NoOne, "number"}, paid : BOOLEAN,
     refund : {"none", "requested", "completed", "rejected"}, asked : Nat, events : Nat, active : BOOLEAN, role : {"support", "admin"},
     content : (Pages \cup {NoOne}) \X Nat \cup {NoOne}, stock : Nat, sold : Nat, restocks : Nat]

ASSUME BackOfficeAssumption == NoOne \notin Documents

NoRows == [d \in Docs |-> NoOne]
NoForm == [n |-> 0, doc |-> NoOne, row |-> NoOne, busy |-> FALSE]
Unmounted == [up |-> FALSE, loading |-> TRUE, query |-> "all", rows |-> NoRows,
              form |-> NoForm, forms |-> 0, busy |-> NoOne]

\* The screens whose form is part of the page; the others open one.
FormOnPage == {"add", "edit", "coupons", "staff"}
Form(p, d, row) == [n |-> page[p].forms + 1, doc |-> d, row |-> row, busy |-> FALSE]

-----------------------------------------------------------------------------
(* Sending.                                                                *)

Idle(c) == call[c].st = "idle" /\ Cardinality({e \in Calls : call[e].st # "idle"}) < load.calls
Request(p, op, d) == [NoCall EXCEPT !.st = "sent", !.page = p, !.op = op, !.doc = d, !.query = page[p].query,
                                    !.form = page[p].form.n, !.after = Over]
Send(c, r) == Idle(c) /\ call' = [call EXCEPT ![c] = r]
Asks(p, q) == [Request(p, "list", NoOne) EXCEPT !.query = q]

\* A page is opened, or left and opened again: it asks for its rows, and
\* what the page before it waited for reaches nobody.
Open(c, p) ==
    /\ Idle(c) /\ page[p].forms < load.forms
    /\ \E d \in IF Screen(p) = "edit" THEN load.live ELSE {NoOne} :
          LET q == IF Screen(p) = "list" THEN 1 ELSE "all" IN
          /\ call' = [x \in Calls |->
                IF x = c /\ Screen(p) # "add" THEN [Asks(p, q) EXCEPT !.doc = d, !.form = page[p].forms + 1]
                ELSE IF call[x].page = p THEN [call[x] EXCEPT !.gone = TRUE] ELSE call[x]]
          /\ page' = [page EXCEPT ![p] = [Unmounted EXCEPT
                !.up = TRUE, !.query = q, !.loading = Screen(p) # "add",
                !.forms = IF Screen(p) \in FormOnPage THEN page[p].forms + 1 ELSE page[p].forms,
                !.form = IF Screen(p) \in FormOnPage THEN Form(p, d, NoOne) ELSE NoForm]]
    /\ UNCHANGED desk

\* The filters of the sellers' orders and the pages of the product list.
Turn(c, p) ==
    /\ page[p].up /\ Screen(p) \in {"selling", "list"} /\ page[p].form = NoForm
    /\ \E q \in (IF Screen(p) = "selling" THEN {"all", "placed"} ELSE {1, 2}) \ {page[p].query} :
          /\ Send(c, Asks(p, q))
          /\ page' = [page EXCEPT ![p].query = q, ![p].loading = TRUE]
    /\ UNCHANGED desk

\* onSearchSubmit: back to page 1, which asks for it by itself if another
\* was shown, and at once for the page still shown.
Search(c, e, p) ==
    /\ page[p].up /\ Screen(p) = "list" /\ Idle(c) /\ Idle(e)
    /\ (c = e) = (page[p].query = 1)
    /\ call' = [call EXCEPT ![e] = Asks(p, 1), ![c] = Asks(p, page[p].query)]
    /\ page' = [page EXCEPT ![p].query = 1, ![p].loading = TRUE]
    /\ UNCHANGED desk

-----------------------------------------------------------------------------
(* Controls of a row.                                                      *)

Shown(p, d) == page[p].up /\ ~page[p].loading /\ page[p].rows[d] # NoOne
Row(p, d) == page[p].rows[d]
Act(c, p, op, d, put) ==
    /\ Send(c, [Request(p, op, d) EXCEPT !.put = put, !.row = Row(p, d)])
    /\ UNCHANGED desk

\* The administrators' orders: the status menu and the tracking draft.
ChangeStatus(c, p, d) ==
    /\ Screen(p) = "orders" /\ Shown(p, d)
    /\ \E s \in Targets \ {Row(p, d).status} : Act(c, p, "status", d, [status |-> s])
    /\ UNCHANGED page

SaveTracking(c, p, d) ==
    /\ Screen(p) = "orders" /\ Shown(p, d)
    /\ Act(c, p, "status", d, [tracking |-> "number"]) /\ UNCHANGED page

\* Approve and reject, of every request listed.
Decide(c, p, d) ==
    /\ Screen(p) = "refunds" /\ Shown(p, d)
    /\ \E op \in {"approve", "reject"} : Act(c, p, op, d, <<>>)
    /\ UNCHANGED page

\* A customer asks for the money back, once as far as the page knows.
RefundOffered(p, d) == Row(p, d).paid /\ Row(p, d).refund = "none" /\ page[p].busy # d
RequestRefund(c, p, d) ==
    /\ Screen(p) = "mine" /\ Shown(p, d) /\ RefundOffered(p, d)
    /\ Act(c, p, "ask", d, <<>>) /\ page' = [page EXCEPT ![p].busy = d]

\* A coupon or a staff member is switched over from what the row shows.
ToggleActive(c, p, d) ==
    /\ Screen(p) \in {"coupons", "staff"} /\ Shown(p, d)
    /\ Act(c, p, IF Screen(p) = "staff" THEN "member" ELSE "active", d, [active |-> ~Row(p, d).active])
    /\ UNCHANGED page

ChangeRole(c, p, d) ==
    /\ Screen(p) = "staff" /\ Shown(p, d)
    /\ \E r \in {"support", "admin"} \ {Row(p, d).role} : Act(c, p, "member", d, [role |-> r])
    /\ UNCHANGED page

\* removeProducts, handleDelete, and the removal of a coupon.
Remove(c, p, d) ==
    /\ Screen(p) \in {"coupons", "list", "products"} /\ Shown(p, d)
    /\ Screen(p) = "products" => page[p].busy # d
    /\ Act(c, p, IF Screen(p) = "coupons" THEN "delete" ELSE "remove", d, <<>>)
    /\ page' = IF Screen(p) = "products" THEN [page EXCEPT ![p].busy = d] ELSE page

-----------------------------------------------------------------------------
(* Forms.                                                                  *)

\* The panel of an order and the form of a product, filled from the row;
\* the form of a new product.
Opens(p, form) ==
    page' = [page EXCEPT ![p].form = form, ![p].forms = @ + 1]

OpenForm(p) ==
    /\ Screen(p) \in {"selling", "products"} /\ page[p].form = NoForm /\ page[p].forms < load.forms
    /\ \/ \E d \in Docs : Shown(p, d) /\ Opens(p, Form(p, d, Row(p, d)))
       \/ page[p].up /\ Screen(p) = "products" /\ Opens(p, Form(p, NoOne, NoOne))
    /\ UNCHANGED <<desk, call>>

CloseForm(p) ==
    /\ Screen(p) \notin FormOnPage /\ page[p].form # NoForm
    /\ page' = [page EXCEPT ![p].form = NoForm]
    /\ UNCHANGED <<desk, call>>

Content(p) == <<p, page[p].form.n>>

\* The order panel sends its status, chosen or not, and the tracking unless
\* it is empty.
EmptyStatus(p) == "placed"
Status(p) == page[p].form.row.status
PanelPut(p, chose) ==
    LET put == [status |-> IF chose = NoOne THEN Status(p) ELSE chose] IN
    {put, [status |-> put.status, tracking |-> "number"]}

\* A product form sends the stock of every size, typed or not.
EmptyStock(p) == 0
Stock(p) == page[p].form.row.stock
ProductPut(p, chose) == [content |-> Content(p), stock |-> IF chose = NoOne THEN Stock(p) ELSE chose]

\* What can be chosen in a form, and what it then sends.  Edit sends a typed
\* stock as text, which parseStock refuses: nothing comes of it.
Choices(p) ==
    CASE Screen(p) = "selling" -> Targets \cup {NoOne}
      [] Screen(p) \in {"coupons", "staff", "edit"} -> {NoOne}
      [] OTHER -> {InitialStock} \cup (IF page[p].form.row = NoOne THEN {} ELSE {NoOne})
Puts(p, chose) ==
    CASE Screen(p) = "selling" -> PanelPut(p, chose)
      [] Screen(p) \in {"coupons", "staff"} -> {[content |-> Content(p)]}
      [] OTHER -> {ProductPut(p, chose)}

SubmitOp(p) ==
    CASE Screen(p) = "selling" -> "status" [] Screen(p) = "coupons" -> "coupon" [] Screen(p) = "staff" -> "hire"
      [] OTHER -> IF page[p].form.doc = NoOne THEN "add" ELSE "edit"

\* A form that fails keeps what was typed; a typed stock is that of no row
\* that was read.
Typed(p, chose, put) ==
    LET row == With(page[p].form.row, put) IN
    [page[p].form EXCEPT !.busy = TRUE, !.row =
        IF @ = NoOne THEN @ ELSE IF Screen(p) = "products" /\ chose # NoOne THEN [row EXCEPT !.restocks = NoOne] ELSE row]

Busy(p) == page[p].form.busy
Submit(c, p) ==
    /\ page[p].form # NoForm /\ ~Busy(p)
    /\ Screen(p) = "edit" => page[p].form.row # NoOne
    /\ \E chose \in Choices(p) : \E put \in Puts(p, chose) :
          /\ Send(c, [Request(p, SubmitOp(p), page[p].form.doc) EXCEPT
                         !.put = put, !.chose = chose, !.row = page[p].form.row])
          /\ page' = [page EXCEPT ![p].form = Typed(p, chose, put)]
    /\ UNCHANGED desk

-----------------------------------------------------------------------------
(* Answers.                                                                *)

Answered(c, ans) == call[c].st = "served" /\ ~call[c].gone /\ call[c].ans = ans
\* Of a call that is over, what the properties ask about is kept.
Past(c) ==
    [call[c] EXCEPT !.st = "over", !.put = <<>>, !.chose = NoOne, !.row = NoOne,
                    !.heard = IF Screen(call[c].page) = "refunds" THEN @ ELSE NoOne]
Closes(c) == call' = [call EXCEPT ![c] = Past(c)]
\* finally: what was disabled while the call ran; a control of a row has
\* nothing to do with the form.
FormOps == {"status", "coupon", "hire", "add", "edit"}
Freed(c) ==
    LET p == call[c].page IN
    [page[p] EXCEPT !.loading = @ /\ call[c].op # "list",
                    !.busy = IF call[c].op \in {"ask", "remove"} THEN NoOne ELSE @,
                    !.form.busy = @ /\ ~(call[c].op \in FormOps /\ page[p].form.n = call[c].form)]

Unheard(c) ==
    /\ call[c].st = "served" /\ call[c].gone /\ Closes(c)
    /\ UNCHANGED <<desk, page>>

\* The rows, whatever is shown by now; the form of Edit.
ListArrives(c) ==
    LET p == call[c].page IN
    /\ call[c].op = "list" /\ Answered(c, "ok") /\ Closes(c)
    /\ page' = [page EXCEPT ![p] = IF Screen(p) = "edit"
          THEN [Freed(c) EXCEPT !.form.row = call[c].heard[call[c].doc]]
          ELSE [Freed(c) EXCEPT !.rows = call[c].heard]]
    /\ UNCHANGED desk

\* The row answered replaces the row shown, if it still is; a panel closes,
\* whichever was saved.
KeptRow(c, rows) == rows
Replaced(c, rows) == [rows EXCEPT ![call[c].doc] = IF @ = NoOne THEN @ ELSE call[c].heard]
RowArrives(c) ==
    LET p == call[c].page IN
    /\ call[c].op \in {"status", "ask", "active", "member"} /\ Answered(c, "ok") /\ Closes(c)
    /\ page' = [page EXCEPT ![p] = [Freed(c) EXCEPT
                   !.rows = Replaced(c, @), !.form = IF Screen(p) = "selling" THEN NoForm ELSE @]]
    /\ UNCHANGED desk

\* A decided request, a deleted coupon and a seller's removed product leave.
Leaves(c) ==
    LET p == call[c].page IN
    /\ call[c].op \in {"approve", "reject", "delete", "remove"} /\ Screen(p) # "list"
    /\ Answered(c, "ok") /\ Closes(c)
    /\ page' = [page EXCEPT ![p] = [Freed(c) EXCEPT !.rows[call[c].doc] = NoOne]]
    /\ UNCHANGED desk

\* After a creation, a seller's edit or a removal from the product list, the
\* page asks for its rows again; a seller's form closes, another's starts anew.
AsksAgain(c) == [Asks(call[c].page, call[c].query) EXCEPT !.after = call[c].after]
Refetches(c) ==
    LET p == call[c].page
        blank == [NoForm EXCEPT !.n = page[p].forms + 1] IN
    /\ Answered(c, "ok")
    /\ \/ call[c].op \in {"coupon", "hire"}
       \/ Screen(p) = "list" /\ call[c].op = "remove"
       \/ Screen(p) = "products" /\ call[c].op \in {"add", "edit"}
    /\ call' = [call EXCEPT ![c] = AsksAgain(c)]
    /\ page' = [page EXCEPT ![p] = [Freed(c) EXCEPT
                   !.loading = TRUE, !.form = IF Screen(p) \in {"coupons", "staff"} THEN blank ELSE NoForm,
                   !.forms = IF Screen(p) \in {"coupons", "staff"} THEN @ + 1 ELSE @]]
    /\ UNCHANGED desk

\* Add empties its form; Edit goes to the list.
Done(c) ==
    LET p == call[c].page IN
    /\ Answered(c, "ok") /\ Closes(c)
    /\ Screen(p) \in {"add", "edit"} /\ call[c].op \in {"add", "edit"}
    /\ page' = [page EXCEPT ![p] = IF Screen(p) = "edit" THEN [Unmounted EXCEPT !.forms = page[p].forms]
                   ELSE [Freed(c) EXCEPT !.form = [NoForm EXCEPT !.n = page[p].forms + 1], !.forms = @ + 1]]
    /\ UNCHANGED desk

\* A refusal, or an answer that is lost: a message, and nothing else changes.
Failing(c) == Freed(c)

Fails(c) ==
    /\ call[c].st = "served" /\ ~call[c].gone
    /\ IF call[c].ans # "ok" THEN UNCHANGED lost ELSE lost < MaxLost /\ lost' = lost + 1
    /\ call' = [call EXCEPT ![c] = [Past(c) EXCEPT !.ans = IF @ = "ok" THEN "lost" ELSE @]]
    /\ page' = [page EXCEPT ![call[c].page] = Failing(c)]
    /\ UNCHANGED <<load, doc, cached, writer, refunds, owned, outdated>>

-----------------------------------------------------------------------------
Init == DeskInit /\ page = [p \in Pages |-> Unmounted]

PageStep(c, p) ==
    \/ Open(c, p) \/ Turn(c, p) \/ Submit(c, p)
    \/ \E e \in Calls : Search(c, e, p)
    \/ \E d \in Docs : \/ ChangeStatus(c, p, d) \/ SaveTracking(c, p, d) \/ Decide(c, p, d)
                       \/ RequestRefund(c, p, d) \/ ToggleActive(c, p, d) \/ ChangeRole(c, p, d)
                       \/ Remove(c, p, d)

Next ==
    \/ DeskStep /\ UNCHANGED page
    \/ \E c \in Calls, p \in Pages : PageStep(c, p)
    \/ \E p \in Pages : OpenForm(p) \/ CloseForm(p)
    \/ \E c \in Calls : \/ ListArrives(c) \/ RowArrives(c) \/ Leaves(c) \/ Refetches(c)
                        \/ Done(c) \/ Fails(c) \/ Unheard(c)

BackOfficeSpec == Init /\ [][Next]_bvars

-----------------------------------------------------------------------------
(* Properties.                                                             *)

Of(p) == {c \in Calls : call[c].page = p}
Overlap(c, e) == c # e /\ c \notin call[e].after /\ e \notin call[c].after
Serial(p) == \A c \in Of(p), e \in Of(p) : ~Overlap(c, e)
NoneLost(p) == \A c \in Of(p) : call[c].ans # "lost"
\* c reached its page, with nothing next to it and nothing after it among S.
Settled(c, S) ==
    /\ c \in Over /\ ~call[c].gone /\ call[c].ans = "ok" /\ page[call[c].page].up
    /\ \A e \in S \ {c} : call[e].st = "idle" \/ e \in call[c].after

\* Every busy control waits for a call that is still to come back: no page
\* is left with a form that cannot be sent.
BackOfficeTypeOK ==
    /\ doc \in [Docs -> Documents]
    /\ \A p \in Pages :
          /\ DOMAIN page[p] = DOMAIN Unmounted /\ (page[p].form # NoForm => page[p].up)
          /\ page[p].form.busy => \E c \in Of(p) : /\ ~call[c].gone /\ call[c].form = page[p].form.n
                                                  /\ call[c].st \in {"sent", "saving", "served"}
          /\ page[p].busy # NoOne => \E c \in Of(p) : ~call[c].gone /\ c \notin Over /\ call[c].doc = page[p].busy

\* A row is the document, stock apart: checkouts go on, and so do Paystack's
\* events.
Since(row, d) == row.events # doc[d].events
Same(row, d) == [row EXCEPT !.stock = 0, !.sold = 0, !.restocks = 0] = [d EXCEPT !.stock = 0, !.sold = 0, !.restocks = 0]
Agree(row, d) == IF row = NoOne \/ d = NoOne THEN row = d ELSE Same(row, d)
\* The page of c shows what the server has, as far as c asked for it.
Shows(c) ==
    LET p == call[c].page
        d == call[c].doc IN
    CASE Screen(p) = "edit" -> page[p].form.row # NoOne /\ Same(page[p].form.row, doc[page[p].form.doc])
      [] call[c].op = "list" /\ Screen(p) # "edit" -> \A e \in Docs :
            \/ page[p].rows[e] # NoOne /\ Since(page[p].rows[e], e)
            \/ Agree(page[p].rows[e], View(Screen(p), page[p].query)[e])
      [] OTHER -> d = NoOne \/ page[p].rows[d] = NoOne \/
                  (/\ Since(page[p].rows[d], d) \/ Same(page[p].rows[d], doc[d])
                   /\ call[c].op \notin {"approve", "reject", "delete", "remove"})

\* What a page shows settles: after an answer that had the server to itself,
\* and was the last, its rows are the documents, whatever overlapped before,
\* but for an order that Paystack's event wrote after the row was read.
ShownRowsSettle == \A c \in Calls : Settled(c, Calls) => Shows(c)

\* The rows of a page are those of the filter or the page number it shows,
\* unless two of its own calls overlapped (a search beyond page 1 makes two).
RowsAreOfTheQuery ==
    \A c \in Calls :
        (Settled(c, Of(call[c].page)) /\ call[c].op = "list" /\ Screen(call[c].page) # "edit")
            => call[c].query = page[call[c].page].query

\* A seller who saves an order without touching its status changes it only
\* if another page, or Paystack's event, changed it since: one's own changes
\* are never undone.
Untouched(c) == call[c].op = "status" /\ call[c].form # 0 /\ call[c].chose = NoOne
RevertNeedsAnother(c) ==
    LET d == call[c].doc
        p == call[c].page IN
    (/\ call[c].st = "saving" /\ call'[c].st = "served" /\ Untouched(c) /\ doc'[d].status # doc[d].status
     /\ Serial(p) /\ NoneLost(p))
        => writer[d] \notin {NoOne, p}
StatusRevertsNeedAnother == [][\A c \in Calls : RevertNeedsAnother(c)]_bvars

\* The page has no guard against a second click on Approve, and the handler
\* none against a refund it has made and could not save: money goes back once,
\* and once more for every approval that ended that way, unless an approval
\* overlapped another of that order, or its rejection or a request of the
\* customer's.
Clash(d) ==
    \E a, b \in Calls : /\ call[a].op = "approve" /\ call[b].op \in {"approve", "reject", "ask"}
                       /\ call[a].doc = d /\ call[b].doc = d /\ Overlap(a, b)
Unsaved(d) == {a \in Calls : call[a].op = "approve" /\ call[a].doc = d /\ call[a].ans = "unsaved"}
TwoRefundsNeedOverlap == \A d \in Docs : refunds[d] > 1 + Cardinality(Unsaved(d)) => Clash(d)

\* A request that left the queue was decided: one that failed stays to be
\* decided again.
QueueLosesOnlyDecided ==
    \A c \in Over : (call[c].op = "list" /\ ~call[c].gone /\ call[c].ans = "ok") =>
        LET p == call[c].page IN
        \A d \in Docs :
            (/\ Screen(p) = "refunds" /\ page[p].up
             /\ call[c].heard[d] # NoOne /\ page[p].rows[d] = NoOne)
                => doc[d].refund # "requested" \/ doc[d].asked # call[c].heard[d].asked

\* The form of a product sends the stock it was filled with: a piece is
\* counted wrong only if it was sold, or stock typed in, after the row was
\* read, or a stock typed for a submission that failed is sent again.
StockLostOnlyToOldForms ==
    \A d \in Docs : d \notin outdated => doc[d].stock + doc[d].sold = owned[d]

\* A form makes one document, two next to each other only of a product
\* whose first answer was lost.
OneDocPerSubmission ==
    \A d \in Docs, e \in Docs :
        (d # e /\ doc[d].live /\ doc[e].live /\ doc[d].content = doc[e].content) => OfProducts /\ lost > 0

\* What a page shows, in the end: the documents, of the query it names.
RowsInv == ShownRowsSettle /\ RowsAreOfTheQuery

\* Requests are decided once, and leave the queue when they are.
RefundDeskInv == TwoRefundsNeedOverlap /\ QueueLosesOnlyDecided

\* What forms keep: they can be sent again, count no piece wrong that they
\* have seen, and create one document.
FormsInv == BackOfficeTypeOK /\ StockLostOnlyToOldForms /\ OneDocPerSubmission
=============================================================================
