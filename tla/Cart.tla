-------------------------------- MODULE Cart --------------------------------
(***************************************************************************)
(* A customer's cart: the copy every open page shows and edits ahead of    *)
(* the server (ShopContext.jsx), the document the server keeps             *)
(* (cart.service.js), and the checkout form (PlaceOrder.jsx).              *)
(*                                                                         *)
(* A cart maps items (a product in a size) to quantities, 0 for an item    *)
(* that is not in it.  The checkout is one step here: that it is, next to  *)
(* edits of the cart, is what the module Checkout shows.                   *)
(*                                                                         *)
(* Bounds: each call runs once, a page shows at most MaxQty of an item,    *)
(* opens MaxForms forms, and MaxLost answers are lost in all.                     *)
(***************************************************************************)
EXTENDS Handlers

CONSTANTS Pages,     \* open pages of the storefront
          Items,     \* what can be bought
          Stock,     \* what the soft check of addToCart finds in stock
          InitialCarts,  \* carts customers come back to
          MaxQty, MaxForms, MaxLost

ASSUME CartAssumption ==
    Stock \in [Items -> Nat] /\ InitialCarts \subseteq [Items -> Nat] /\ {MaxQty, MaxForms, MaxLost} \subseteq Nat

VARIABLES cart,    \* user.cartData
          orders,  \* the keys of the orders placed
          page,    \* per page: the cart shown, signed in, the checkout form
          call,    \* the calls of the pages
          lost,    \* answers lost so far
          meant    \* history: the cart as if every edit were applied at once

cavars == <<req, load, cart, orders, page, call, lost, meant>>
server == <<req, load, cart, orders, meant>>

NoItems == [i \in Items |-> 0]
Keys == Pages \X (1 .. MaxForms)
NoCall == [st |-> "idle", op |-> "none", page |-> NoOne, item |-> NoOne, qty |-> 0,
           key |-> NoOne, form |-> NoOne, heard |-> NoOne, after |-> {}]
\* A call is over, or it was given up: it, or what it was followed by,
\* failed, and the page goes on with what it shows.
Over == {c \in Requests : call[c].st \in {"over", "givenUp"}}

\* `after` is history: the calls that were over when this one was sent.
Ready(c, op) == call[c].st = "idle" /\ op \in load
Sent(p, op) == [NoCall EXCEPT !.st = "sent", !.op = op, !.page = p, !.after = Over]
SendEdit(c, p, op, i, q) ==
    Ready(c, op) /\ call' = [call EXCEPT ![c] = [Sent(p, op) EXCEPT !.item = i, !.qty = q]]

-----------------------------------------------------------------------------
(* The page.  A guest's cart is never sent.                                *)

Shows(p, i, q) == [page EXCEPT ![p].shown[i] = q]

AddToCart(c) ==
    \E p \in Pages, i \in Items :
        /\ page[p].shown[i] < MaxQty
        /\ page' = Shows(p, i, page[p].shown[i] + 1)
        /\ page[p].user /\ SendEdit(c, p, "add", i, 1)
        /\ UNCHANGED <<server, lost>>

GuestAdds(p, i) ==
    /\ ~page[p].user /\ page[p].shown[i] < MaxQty
    /\ page' = Shows(p, i, page[p].shown[i] + 1)
    /\ UNCHANGED <<server, call, lost>>

\* The buttons of Cart.jsx: one less but not none, one more, and the bin.
Buttons(n) == {0, n + 1} \cup (IF n > 1 THEN {n - 1} ELSE {1})

UpdateQuantity(c) ==
    \E p \in Pages, i \in Items :
        /\ page[p].user /\ page[p].shown[i] > 0
        /\ \E q \in Buttons(page[p].shown[i]) :
              q <= MaxQty /\ page' = Shows(p, i, q) /\ SendEdit(c, p, "update", i, q)
        /\ UNCHANGED <<server, lost>>

\* A sign-in, which replaces a guest's cart, or a page loaded anew with a
\* stored token: what the old page waited for reaches nobody.
GetUserCart(c) ==
    \E p \in Pages :
        /\ Ready(c, "get")
        /\ call' = [d \in Requests |->
              IF d = c THEN Sent(p, "get")
              ELSE IF page[p].user /\ call[d].page = p THEN [call[d] EXCEPT !.page = NoOne] ELSE call[d]]
        /\ page' = IF page[p].user THEN [page EXCEPT ![p].shown = NoItems, ![p].form = NoOne, ![p].busy = FALSE]
                   ELSE [page EXCEPT ![p].user = TRUE]
        /\ UNCHANGED <<server, lost>>

\* The form draws its key when it is opened, again if it was left before.
OpenForm(p) ==
    /\ "order" \in load /\ page[p].forms < MaxForms
    /\ page' = [page EXCEPT ![p].form = <<p, page[p].forms + 1>>, ![p].forms = @ + 1, ![p].busy = FALSE]
    /\ UNCHANGED <<server, call, lost>>

\* A submission with items on the page, signed in, none under way.  (An
\* item just set to 0 still counts as one there: the server refuses that.)
KeyOfSubmit(c, p) == c
KeyOfForm(c, p) == page[p].form

Submit(c) ==
    \E p \in Pages :
        /\ page[p].user /\ page[p].form # NoOne /\ ~page[p].busy /\ page[p].shown # NoItems
        /\ page' = [page EXCEPT ![p].busy = TRUE]
        /\ Ready(c, "order")
        /\ call' = [call EXCEPT ![c] = [Sent(p, "order") EXCEPT !.key = KeyOfForm(c, p), !.form = page[p].form]]
        /\ UNCHANGED <<server, lost>>

-----------------------------------------------------------------------------
(* The server.                                                             *)

\* addToCart and updateCart: read, then save the whole cart.  Only an
\* addition looks at the stock.
Asked(c, op) == call[c].st = "sent" /\ call[c].op = op

AddBegins(c) ==
    /\ Asked(c, "add")
    /\ LET ok == cart[call[c].item] + 1 <= Stock[call[c].item] IN
       Enter(c, "add", NoOne, cart, IF ok THEN "save" ELSE "done", IF ok THEN "none" ELSE "error")
    /\ UNCHANGED <<cart, orders, meant, page, call, lost>>

UpdateBegins(c) ==
    /\ Asked(c, "update") /\ Enter(c, "update", NoOne, cart, "save", "none")
    /\ UNCHANGED <<cart, orders, meant, page, call, lost>>

PageCart(c) == IF call[c].page = NoOne THEN NoItems ELSE page[call[c].page].shown
Base(c) == Snap(c)
Edited(c, doc) ==
    [doc EXCEPT ![call[c].item] = IF call[c].op = "add" THEN @ + 1 ELSE call[c].qty]

SaveCart(c) ==
    /\ At(c, "save")
    /\ cart' = Edited(c, Base(c)) /\ meant' = Edited(c, meant)
    /\ req' = [req EXCEPT ![c].pc = "done", ![c].ans = "ok", ![c].snap = cart']
    /\ UNCHANGED <<orders, page, call, lost>>

GetCart(c) ==
    /\ Asked(c, "get") /\ Enter(c, "get", NoOne, cart, "done", "ok")
    /\ UNCHANGED <<cart, orders, meant, page, call, lost>>

\* createOrder: the order of the key, a refusal, or a new order and an
\* empty cart.
CreateOrder(c) ==
    LET k == call[c].key
        known == \E o \in orders : o.key = k
        new == ~known /\ cart # NoItems IN
    /\ Asked(c, "order")
    /\ Enter(c, "order", NoOne, NoOne, "done", IF known \/ new THEN "ok" ELSE "error")
    /\ IF new THEN /\ orders' = orders \cup {[key |-> k, form |-> call[c].form, of |-> cart]}
                   /\ cart' = NoItems /\ meant' = NoItems
       ELSE UNCHANGED <<orders, cart, meant>>
    /\ UNCHANGED <<page, call, lost>>

-----------------------------------------------------------------------------
(* The answer, or the news that there is none.                             *)

Answers(c) == call[c].st = "sent" /\ req[c].pc = "done" /\ call[c].page # NoOne

Unheard(c) ==
    /\ call[c].page = NoOne /\ c \notin Over /\ req[c].pc = "done"
    /\ call' = [call EXCEPT ![c].st = "over"] /\ UNCHANGED <<server, page, lost>>

\* A cart in the answer replaces what the page shows, whatever it was.
CartArrives(c) ==
    /\ Answers(c) /\ call[c].op # "order" /\ req[c].ans = "ok"
    /\ page' = [page EXCEPT ![call[c].page].shown = Snap(c)]
    /\ call' = [call EXCEPT ![c].st = "over"] /\ UNCHANGED <<server, lost>>

\* An edit that failed is taken back by asking for the cart; a failed
\* getUserCart is only logged.
Fails(c, n) ==
    /\ Answers(c) /\ (n = 1 => lost < MaxLost) /\ lost' = lost + n
    /\ UNCHANGED server

KeepEdit(c) == "over"
TakeBack(c) == IF call[c].op \in {"add", "update"} THEN "resync" ELSE "givenUp"

EditFails(c) ==
    /\ call[c].op # "order"
    /\ Fails(c, IF req[c].ans = "error" THEN 0 ELSE 1)
    /\ call' = [call EXCEPT ![c].st = TakeBack(c)] /\ UNCHANGED page

ResyncRead(c) ==
    /\ call[c].st = "resync" /\ call[c].page # NoOne
    /\ call' = [call EXCEPT ![c].st = "resynced", ![c].heard = cart] /\ UNCHANGED <<server, page, lost>>

ResyncArrives(c) ==
    /\ call[c].st = "resynced" /\ call[c].page # NoOne
    /\ page' = [page EXCEPT ![call[c].page].shown = call[c].heard]
    /\ call' = [call EXCEPT ![c].st = "over"] /\ UNCHANGED <<server, lost>>

\* It may fail too, like any getUserCart: the edit stays on the page.
ResyncFails(c) ==
    /\ call[c].st \in {"resync", "resynced"} /\ call[c].page # NoOne
    /\ lost < MaxLost /\ lost' = lost + 1
    /\ call' = [call EXCEPT ![c].st = "givenUp"] /\ UNCHANGED <<server, page>>

\* A cash order leaves the form, and what the page shows stays; a card
\* order leaves the site, and the page is loaded anew on the way back.
OrderArrives(c) ==
    /\ Answers(c) /\ call[c].op = "order" /\ req[c].ans = "ok"
    /\ \E shown \in {page[call[c].page].shown, NoItems} :
          page' = [page EXCEPT ![call[c].page].shown = shown,
                               ![call[c].page].form = NoOne, ![call[c].page].busy = FALSE]
    /\ call' = [call EXCEPT ![c].st = "over"] /\ UNCHANGED <<server, lost>>

OrderFails(c) ==
    /\ call[c].op = "order"
    /\ Fails(c, IF req[c].ans = "error" THEN 0 ELSE 1)
    /\ page' = [page EXCEPT ![call[c].page].busy = @ /\ page[call[c].page].form # call[c].form]
    /\ call' = [call EXCEPT ![c].st = "over"]

-----------------------------------------------------------------------------
Init ==
    /\ load \in Workloads /\ req = [r \in Requests |-> Idle]
    /\ cart \in InitialCarts
    /\ meant = cart /\ orders = {} /\ lost = 0
    /\ page = [p \in Pages |-> [shown |-> IF "guest" \in load THEN NoItems ELSE cart,
                                user |-> "guest" \notin load, form |-> NoOne, forms |-> 0, busy |-> FALSE]]
    /\ call = [c \in Requests |-> NoCall]

Next ==
    \/ \E c \in Requests :
          \/ AddToCart(c) \/ UpdateQuantity(c) \/ GetUserCart(c) \/ Submit(c)
          \/ AddBegins(c) \/ UpdateBegins(c) \/ SaveCart(c) \/ GetCart(c) \/ CreateOrder(c)
          \/ CartArrives(c) \/ EditFails(c) \/ ResyncRead(c) \/ ResyncArrives(c) \/ ResyncFails(c)
          \/ OrderArrives(c) \/ OrderFails(c) \/ Unheard(c)
    \/ \E p \in Pages : OpenForm(p) \/ \E i \in Items : GuestAdds(p, i)

Spec == Init /\ [][Next]_cavars

-----------------------------------------------------------------------------
(* Properties.                                                             *)

CartTypeOK ==
    /\ FrameTypeOK
    /\ cart \in [Items -> Nat] /\ meant \in [Items -> Nat]
    /\ \A p \in Pages : /\ page[p].shown \in [Items -> Nat] /\ page[p].form \in Keys \cup {NoOne}
                        /\ page[p].busy => page[p].form # NoOne
    /\ \A o \in orders : o.key \in Keys /\ o.of # NoItems
    /\ \A c \in Requests : call[c].st \in {"idle", "sent", "resync", "resynced", "over", "givenUp"}

\* A page ends up showing the server's cart: it does after an edit or a
\* read that was sent when no other call was under way and was the last,
\* whether the edit was made, refused, or its answer lost. Only when the
\* read failed as well, the call's own or the one that takes back an edit
\* that failed, is the page left with what it shows.
ShownCartSettles ==
    \A c \in Over :
        (/\ call[c].op # "order" /\ call[c].page # NoOne /\ call[c].st # "givenUp"
         /\ \A d \in Requests \ {c} : call[d].st = "idle" \/ d \in call[c].after)
            => page[call[c].page].shown = cart

\* Edits are saved as whole carts that were read before: one is lost, or a
\* cart that was ordered comes back, only if two requests overlapped.
Writers == {c \in Requests : req[c].pc = "done" /\ req[c].ans = "ok" /\ req[c].op # "get"}
LostEditNeedsOverlap == (Running = {} /\ Serial(Writers)) => cart = meant

\* However often a form is submitted, with answers lost or late, it places
\* one order.
OneOrderPerForm ==
    \A o1 \in orders, o2 \in orders : o1.form = o2.form => o1 = o2

\* What the server keeps, whatever pages send: typed carts, no empty order,
\* and one order of each form.
CartInv == CartTypeOK /\ OneOrderPerForm
=============================================================================
