------------------------------ MODULE Cart_proofs ------------------------------
(***************************************************************************)
(* Proofs about Cart, for any pages, items, calls, carts and bounds.       *)
(***************************************************************************)
EXTENDS Cart, TLAPS

-----------------------------------------------------------------------------
(* The invariant.                                                          *)

Quantities == [Items -> Nat]
Operations == {"none", "add", "update", "get", "order"}

HandlerRecord == [op : Operations, pc : {"idle", "save", "done"}, arg : {NoOne},
                  ans : {"none", "ok", "error"}, snap : Quantities \cup {NoOne},
                  before : SUBSET Requests]
CallRecord == [st : {"idle", "sent", "resync", "resynced", "over", "givenUp"}, op : Operations,
               page : Pages \cup {NoOne}, item : Items \cup {NoOne}, qty : Nat,
               key : Keys \cup {NoOne}, form : Keys \cup {NoOne},
               heard : Quantities \cup {NoOne}, after : SUBSET Requests]
PageRecord == [shown : Quantities, user : BOOLEAN, form : Keys \cup {NoOne},
               forms : Nat, busy : BOOLEAN]

Typed ==
  /\ load \in Workloads
  /\ cart \in Quantities /\ meant \in Quantities
  /\ req \in [Requests -> HandlerRecord]
  /\ call \in [Requests -> CallRecord]
  /\ page \in [Pages -> PageRecord]
  /\ \A p \in Pages : page[p].busy => page[p].form # NoOne
  /\ lost \in Nat

\* A call and its handler go together, and what they carry is there.
Served(c) ==
  LET k == call[c]
      h == req[c]
  IN
  /\ h.pc = "idle" => h.op = "none" /\ h.ans = "none" /\ h.before = {}
  /\ h.pc # "idle" => h.op = k.op /\ h.op \in load
  /\ k.st = "idle" => h.pc = "idle"
  /\ k.st # "idle" => k.op # "none"
  /\ h.pc = "save" => k.st = "sent" /\ k.op \in {"add", "update"} /\ h.snap \in Quantities
  /\ k.st \in {"resync", "resynced", "over", "givenUp"} => h.pc = "done"
  /\ h.pc = "done" /\ h.ans = "ok" /\ k.op # "order" => h.snap \in Quantities
  /\ h.pc = "done" /\ k.op = "get" => h.ans = "ok"
  /\ k.st # "idle" /\ k.op = "order" => k.key \in Keys /\ k.form = k.key
  /\ k.st # "idle" /\ k.op \in {"add", "update"} => k.item \in Items
  /\ k.st = "resynced" => k.heard \in Quantities
  /\ k.st # "idle" /\ k.page # NoOne => page[k.page].user
  /\ k.after \subseteq Over \ {c}
  /\ h.before \subseteq Finished \ {c}

\* An order carries the key of its form, and no two orders the same key.
OrdersKeyed ==
  /\ \A o \in orders : o.key \in Keys /\ o.form = o.key /\ o.of # NoItems
  /\ \A o1 \in orders, o2 \in orders : o1.key = o2.key => o1 = o2

ServedInv ==
  /\ Typed
  /\ \A c \in Requests : Served(c)
  /\ OrdersKeyed

-----------------------------------------------------------------------------
(* Lemmas.                                                                 *)

LEMMA NoItemsType == NoItems \in Quantities
BY DEF NoItems, Quantities

\* An item of a cart is set.
LEMMA SetItem ==
  ASSUME NEW q \in Quantities, NEW i, NEW n \in Nat
  PROVE  [q EXCEPT ![i] = n] \in Quantities
BY DEF Quantities

\* What a page shows is set.
LEMMA ShowsType ==
  ASSUME Typed, NEW p \in Pages, NEW i \in Items, NEW n \in Nat
  PROVE  /\ Shows(p, i, n) \in [Pages -> PageRecord]
         /\ \A o \in Pages : /\ Shows(p, i, n)[o].user = page[o].user
                             /\ Shows(p, i, n)[o].form = page[o].form
                             /\ Shows(p, i, n)[o].busy = page[o].busy
<1> DEFINE r == [page[p] EXCEPT !.shown = [@ EXCEPT ![i] = n]]
<1>1. page[p] \in PageRecord /\ page[p].shown \in Quantities
  BY DEF Typed, PageRecord
<1>2. [page[p].shown EXCEPT ![i] = n] \in Quantities
  BY <1>1, SetItem
<1>3. r \in PageRecord /\ r.user = page[p].user /\ r.form = page[p].form /\ r.busy = page[p].busy
  BY <1>1, <1>2 DEF PageRecord
<1>4. Shows(p, i, n) = [page EXCEPT ![p] = r]
  BY <1>1 DEF Shows, Typed
<1> HIDE DEF r
<1> QED
  BY <1>3, <1>4 DEF Typed

\* A call that is not touched, or only forgotten by its page, stays served.
LEMMA OthersServed ==
  ASSUME ServedInv, NEW d \in Requests, req'[d] = req[d], UNCHANGED load,
         call'[d] = call[d] \/ call'[d] = [call[d] EXCEPT !.page = NoOne],
         Over \subseteq Over', Finished \subseteq Finished',
         \A p \in Pages : page[p].user => page'[p].user
  PROVE  Served(d)'
<1>1. Served(d) /\ call[d] \in CallRecord
  BY DEF ServedInv, Typed
<1>2. /\ call'[d].st = call[d].st /\ call'[d].op = call[d].op /\ call'[d].key = call[d].key
      /\ call'[d].form = call[d].form /\ call'[d].item = call[d].item
      /\ call'[d].heard = call[d].heard /\ call'[d].after = call[d].after
      /\ call'[d].page \in {call[d].page, NoOne}
  BY <1>1 DEF CallRecord
<1>3. call[d].page \in Pages \cup {NoOne}
  BY <1>1 DEF CallRecord
<1> QED
  BY <1>1, <1>2, <1>3 DEF Served

\* What the server does with a call.
LEMMA ServerMoves ==
  ASSUME ServedInv, NEW c \in Requests, UNCHANGED <<load, page, call, lost>>,
         NEW h \in HandlerRecord, req' = [req EXCEPT ![c] = h],
         req[c].pc # "done", h.before \subseteq Finished \ {c},
         cart' \in Quantities, meant' \in Quantities, OrdersKeyed',
         call[c].st = "sent", h.op = call[c].op, h.op \in load,
         \/ h.pc = "save" /\ call[c].op \in {"add", "update"} /\ h.snap \in Quantities
         \/ /\ h.pc = "done"
            /\ h.ans = "ok" /\ call[c].op # "order" => h.snap \in Quantities
            /\ call[c].op = "get" => h.ans = "ok"
  PROVE  ServedInv'
<1>1. Typed' /\ req'[c] = h /\ \A d \in Requests \ {c} : req'[d] = req[d]
  BY DEF ServedInv, Typed
<1>2. Over' = Over /\ Finished \subseteq Finished'
  BY <1>1 DEF Over, Finished
<1>3. \A d \in Requests \ {c} : Served(d)'
  BY <1>1, <1>2, OthersServed
<1>4. Served(c)'
  BY <1>1, <1>2 DEF ServedInv, Served
<1> QED
  BY <1>1, <1>3, <1>4 DEF ServedInv

\* What a page does with a call that is under way.
LEMMA AnswerMoves ==
  ASSUME ServedInv, NEW c \in Requests, UNCHANGED server,
         NEW k \in CallRecord, call' = [call EXCEPT ![c] = k],
         call[c].st # "idle", c \notin Over, req[c].pc = "done",
         k.st \in {"resync", "resynced", "over", "givenUp"}, k.st = "resynced" => k.heard \in Quantities,
         k.op = call[c].op, k.key = call[c].key, k.form = call[c].form,
         k.item = call[c].item, k.page = call[c].page, k.after = call[c].after,
         page' \in [Pages -> PageRecord], lost' \in Nat,
         \A p \in Pages : /\ page'[p].busy => page'[p].form # NoOne
                          /\ page[p].user => page'[p].user
  PROVE  ServedInv'
<1>1. Typed' /\ call'[c] = k /\ \A d \in Requests \ {c} : call'[d] = call[d]
  BY DEF ServedInv, Typed, server
<1>2. Over \subseteq Over' /\ Finished' = Finished
  BY <1>1 DEF Over, Finished, server
<1>3. \A d \in Requests \ {c} : Served(d)'
  BY <1>1, <1>2, OthersServed DEF server
<1>4. Served(c)'
  <2>1. Served(c) /\ call[c] \in CallRecord
    BY DEF ServedInv, Typed
  <2>2. k.page \in Pages \cup {NoOne}
    BY DEF CallRecord
  <2> QED
    BY <1>1, <1>2, <2>1, <2>2 DEF Served, server
<1> QED
  BY <1>1, <1>3, <1>4 DEF ServedInv, server, OrdersKeyed

\* A page sends a call; one that is loaded anew forgets its others.
Sends(c) ==
  /\ call[c].st = "idle" /\ call'[c].st = "sent" /\ req[c].pc = "idle" /\ UNCHANGED server
  /\ \A d \in Requests \ {c} : call'[d] \in {call[d], [call[d] EXCEPT !.page = NoOne]}

LEMMA SendMoves ==
  ASSUME ServedInv, NEW c \in Requests, UNCHANGED <<server, lost>>, call[c].st = "idle",
         NEW k \in CallRecord, call' \in [Requests -> CallRecord], call'[c] = k,
         \A d \in Requests \ {c} : \/ call'[d] = call[d]
                                   \/ call'[d] = [call[d] EXCEPT !.page = NoOne],
         k.st = "sent", k.op # "none", k.after = Over,
         k.op = "order" => k.key \in Keys /\ k.form = k.key,
         k.op \in {"add", "update"} => k.item \in Items,
         page' \in [Pages -> PageRecord], k.page \in Pages, page'[k.page].user,
         \A p \in Pages : /\ page'[p].busy => page'[p].form # NoOne
                          /\ page[p].user => page'[p].user
  PROVE  ServedInv' /\ Sends(c)
<1>1. Typed'
  BY DEF ServedInv, Typed, server
<1>2. Over \subseteq Over' /\ Finished' = Finished
  BY DEF Over, Finished, server, ServedInv, Typed, CallRecord
<1>3. \A d \in Requests \ {c} : Served(d)'
  BY <1>2, OthersServed DEF server
<1>4. Served(c)'
  <2>1. Served(c) /\ c \notin Over /\ req[c].pc = "idle"
    BY DEF ServedInv, Over, Served
  <2> QED
    BY <1>2, <2>1 DEF Served, server
<1>5. Sends(c)
  BY DEF Sends, ServedInv, Served
<1> QED
  BY <1>1, <1>3, <1>4, <1>5 DEF ServedInv, server, OrdersKeyed

LEMMA SentType ==
  ASSUME NEW p \in Pages, NEW op \in Operations
  PROVE  /\ Sent(p, op) \in CallRecord
         /\ Sent(p, op).st = "sent" /\ Sent(p, op).op = op /\ Sent(p, op).page = p
         /\ Sent(p, op).after = Over
BY DEF Sent, NoCall, CallRecord, Operations, Over

\* An edit that a page has shown is sent.
LEMMA EditSent ==
  ASSUME ServedInv, NEW c \in Requests, NEW p \in Pages, NEW i \in Items,
         NEW n \in Nat, NEW q \in Nat, NEW op \in {"add", "update"}, UNCHANGED <<server, lost>>,
         page[p].user, page' = Shows(p, i, n), SendEdit(c, p, op, i, q)
  PROVE  ServedInv' /\ Sends(c)
<1> DEFINE k == [Sent(p, op) EXCEPT !.item = i, !.qty = q]
<1>1. /\ k \in CallRecord /\ k.st = "sent" /\ k.after = Over /\ k.page = p
      /\ k.op = op /\ k.item = i
  <2>1. op \in Operations
    BY DEF Operations
  <2>2. /\ Sent(p, op) \in CallRecord
        /\ Sent(p, op).st = "sent" /\ Sent(p, op).op = op /\ Sent(p, op).page = p
        /\ Sent(p, op).after = Over
    BY <2>1, SentType
  <2> QED
    BY <2>2 DEF CallRecord
<1>2. call[c].st = "idle" /\ call' = [call EXCEPT ![c] = k]
  BY DEF SendEdit, Ready
<1>3. /\ call' \in [Requests -> CallRecord] /\ call'[c] = k
      /\ \A d \in Requests \ {c} : call'[d] = call[d]
  BY <1>1, <1>2 DEF ServedInv, Typed
<1>4. /\ page' \in [Pages -> PageRecord]
      /\ \A o \in Pages : page'[o].user = page[o].user /\ (page'[o].busy => page'[o].form # NoOne)
  <2>1. Typed
    BY DEF ServedInv
  <2>2. \A o \in Pages : page[o].busy => page[o].form # NoOne
    BY <2>1 DEF Typed
  <2>3. /\ Shows(p, i, n) \in [Pages -> PageRecord]
        /\ \A o \in Pages : /\ Shows(p, i, n)[o].user = page[o].user
                            /\ Shows(p, i, n)[o].form = page[o].form
                            /\ Shows(p, i, n)[o].busy = page[o].busy
    BY <2>1, ShowsType
  <2> QED
    BY <2>2, <2>3
<1> HIDE DEF k
<1> QED
  BY <1>1, <1>2, <1>3, <1>4, SendMoves

LEMMA ServedInit == Init => ServedInv
<1> SUFFICES ASSUME Init PROVE ServedInv
  OBVIOUS
<1>1. cart \in Quantities
  BY CartAssumption DEF Init, Quantities
<1>2. \A c \in Requests : req[c] = Idle /\ call[c] = NoCall
  BY DEF Init
<1>3. Typed
  BY <1>1, NoItemsType
     DEF Init, Typed, HandlerRecord, CallRecord, PageRecord, Idle, NoCall, Operations
<1>4. \A c \in Requests : Served(c)
  BY <1>2 DEF Served, Idle, NoCall
<1> QED
  BY <1>3, <1>4 DEF ServedInv, Init, OrdersKeyed

-----------------------------------------------------------------------------
(* Every step.                                                             *)

LEMMA PageStep ==
  ASSUME ServedInv, NEW c \in Requests,
         AddToCart(c) \/ UpdateQuantity(c) \/ GetUserCart(c) \/ Submit(c)
  PROVE  ServedInv' /\ Sends(c)
<1>0. /\ Typed /\ page \in [Pages -> PageRecord] /\ call \in [Requests -> CallRecord]
      /\ \A p \in Pages : page[p].busy => page[p].form # NoOne
  BY DEF ServedInv, Typed
<1>1. ASSUME NEW p \in Pages, NEW i \in Items
      PROVE  page[p].shown[i] \in Nat
  BY <1>0 DEF PageRecord, Quantities
<1>2. CASE AddToCart(c)
  <2>1. PICK p \in Pages, i \in Items :
          /\ page' = Shows(p, i, page[p].shown[i] + 1)
          /\ page[p].user /\ SendEdit(c, p, "add", i, 1) /\ UNCHANGED <<server, lost>>
    BY <1>2 DEF AddToCart
  <2>2. page[p].shown[i] + 1 \in Nat
    BY <1>1
  <2> QED
    BY <2>1, <2>2, EditSent
<1>3. CASE UpdateQuantity(c)
  <2>1. PICK p \in Pages, i \in Items : \E q \in Buttons(page[p].shown[i]) :
          /\ page[p].user /\ page' = Shows(p, i, q)
          /\ SendEdit(c, p, "update", i, q) /\ UNCHANGED <<server, lost>>
          /\ page[p].shown[i] > 0
    BY <1>3 DEF UpdateQuantity
  <2>2. PICK q \in Buttons(page[p].shown[i]) :
          /\ page[p].user /\ page' = Shows(p, i, q)
          /\ SendEdit(c, p, "update", i, q) /\ UNCHANGED <<server, lost>>
    BY <2>1
  <2>3. q \in Nat
    BY <1>1, <2>1 DEF Buttons
  <2> QED
    BY <2>2, <2>3, EditSent
<1>4. CASE GetUserCart(c)
  <2>1. PICK p \in Pages :
          /\ Ready(c, "get") /\ UNCHANGED <<server, lost>>
          /\ call' = [d \in Requests |->
               IF d = c THEN Sent(p, "get")
               ELSE IF page[p].user /\ call[d].page = p THEN [call[d] EXCEPT !.page = NoOne] ELSE call[d]]
          /\ page' = IF page[p].user
                     THEN [page EXCEPT ![p].shown = NoItems, ![p].form = NoOne, ![p].busy = FALSE]
                     ELSE [page EXCEPT ![p].user = TRUE]
    BY <1>4 DEF GetUserCart
  <2> DEFINE k == Sent(p, "get")
  <2>2. k \in CallRecord /\ k.st = "sent" /\ k.op = "get" /\ k.page = p /\ k.after = Over
    BY SentType DEF Operations
  <2> HIDE DEF k
  <2>3. \A d \in Requests : [call[d] EXCEPT !.page = NoOne] \in CallRecord
    BY <1>0 DEF CallRecord
  <2>4. /\ call' \in [Requests -> CallRecord] /\ call'[c] = k
        /\ \A d \in Requests \ {c} : call'[d] \in {call[d], [call[d] EXCEPT !.page = NoOne]}
    BY <1>0, <2>1, <2>2, <2>3 DEF k
  <2>5. /\ page' \in [Pages -> PageRecord] /\ page'[p].user
        /\ \A o \in Pages : (page'[o].busy => page'[o].form # NoOne) /\ (page[o].user => page'[o].user)
    <3> DEFINE r == IF page[p].user
                    THEN [page[p] EXCEPT !.shown = NoItems, !.form = NoOne, !.busy = FALSE]
                    ELSE [page[p] EXCEPT !.user = TRUE]
    <3>1. /\ r \in PageRecord /\ r.user
          /\ r.busy => r.form # NoOne
      BY <1>0, NoItemsType DEF PageRecord
    <3>2. page' = [page EXCEPT ![p] = r]
      BY <1>0, <2>1
    <3> HIDE DEF r
    <3> QED
      BY <1>0, <3>1, <3>2
  <2> QED
    BY <2>1, <2>2, <2>4, <2>5, SendMoves DEF Ready
<1>5. CASE Submit(c)
  <2>1. PICK p \in Pages :
          /\ page[p].user /\ page[p].form # NoOne /\ ~ page[p].busy
          /\ page' = [page EXCEPT ![p].busy = TRUE]
          /\ Ready(c, "order") /\ UNCHANGED <<server, lost>>
          /\ call' = [call EXCEPT ![c] = [Sent(p, "order") EXCEPT !.key = page[p].form,
                                                                !.form = page[p].form]]
    BY <1>5 DEF Submit, KeyOfForm
  <2> DEFINE k == [Sent(p, "order") EXCEPT !.key = page[p].form, !.form = page[p].form]
  <2>2. page[p].form \in Keys
    BY <1>0, <2>1 DEF PageRecord
  <2>3. /\ k \in CallRecord /\ k.st = "sent" /\ k.op = "order" /\ k.page = p /\ k.after = Over
        /\ k.key = page[p].form /\ k.form = page[p].form
    <3>1. /\ Sent(p, "order") \in CallRecord /\ Sent(p, "order").st = "sent"
          /\ Sent(p, "order").op = "order" /\ Sent(p, "order").page = p
          /\ Sent(p, "order").after = Over
      BY SentType DEF Operations
    <3> QED
      BY <2>2, <3>1 DEF CallRecord
  <2>4. /\ call' \in [Requests -> CallRecord] /\ call'[c] = k
        /\ \A d \in Requests \ {c} : call'[d] = call[d]
    BY <1>0, <2>1, <2>3
  <2>5. /\ page' \in [Pages -> PageRecord] /\ page'[p].user
        /\ \A o \in Pages : (page'[o].busy => page'[o].form # NoOne) /\ (page[o].user => page'[o].user)
    BY <1>0, <2>1 DEF PageRecord
  <2> HIDE DEF k
  <2> QED
    BY <2>1, <2>2, <2>3, <2>4, <2>5, SendMoves DEF Ready
<1> QED
  BY <1>2, <1>3, <1>4, <1>5

\* A handler that begins, and what it has read.
LEMMA EnterRecord ==
  ASSUME ServedInv, NEW c \in Requests, NEW op \in Operations, NEW doc \in Quantities \cup {NoOne},
         NEW pc \in {"save", "done"}, NEW ans \in {"none", "ok", "error"},
         Enter(c, op, NoOne, doc, pc, ans)
  PROVE  \E h \in HandlerRecord :
           /\ req' = [req EXCEPT ![c] = h] /\ op \in load /\ UNCHANGED load
           /\ req[c].pc = "idle" /\ h.before \subseteq Finished \ {c}
           /\ h.op = op /\ h.pc = pc /\ h.ans = ans /\ h.snap = doc
<1> DEFINE h == [op |-> op, pc |-> pc, arg |-> NoOne, ans |-> ans, snap |-> doc, before |-> Finished]
<1>1. Finished \in SUBSET Requests /\ (req[c].pc = "idle" => c \notin Finished)
  BY DEF Finished
<1>2. h \in HandlerRecord
  BY <1>1 DEF HandlerRecord
<1>3. /\ req' = [req EXCEPT ![c] = h] /\ op \in load /\ UNCHANGED load
      /\ req[c].pc = "idle" /\ h.before \subseteq Finished \ {c}
      /\ h.op = op /\ h.pc = pc /\ h.ans = ans /\ h.snap = doc
  BY <1>1 DEF Enter
<1> HIDE DEF h
<1> QED
  BY <1>2, <1>3

\* An edit is made of the cart that was read.
LEMMA EditedType ==
  ASSUME ServedInv, NEW c \in Requests, NEW q \in Quantities,
         call[c].st = "sent", call[c].op \in {"add", "update"}
  PROVE  Edited(c, q) \in Quantities
<1>1. call[c].item \in Items /\ call[c].qty \in Nat
  BY DEF ServedInv, Served, Typed, CallRecord
<1>2. q[call[c].item] \in Nat
  BY <1>1 DEF Quantities
<1> QED
  BY <1>1, <1>2, SetItem DEF Edited

LEMMA SaveStep ==
  ASSUME ServedInv, NEW c \in Requests, SaveCart(c)
  PROVE  /\ ServedInv'
         /\ call[c].st = "sent" /\ req[c].pc = "save" /\ call[c].op # "order"
         /\ req'[c].pc = "done" /\ req'[c].ans = "ok" /\ req'[c].snap = cart'
         /\ req'[c].before = req[c].before /\ req'[c].op = req[c].op
         /\ \A d \in Requests \ {c} : req'[d] = req[d]
<1>1. /\ Served(c) /\ req[c] \in HandlerRecord /\ req[c].pc = "save"
      /\ cart \in Quantities /\ meant \in Quantities
      /\ UNCHANGED <<orders, page, call, lost, load>>
  BY DEF ServedInv, Typed, SaveCart, At
<1>2. call[c].st = "sent" /\ call[c].op \in {"add", "update"} /\ req[c].snap \in Quantities
  BY <1>1 DEF Served
<1>3. cart' \in Quantities /\ meant' \in Quantities
  BY <1>1, <1>2, EditedType DEF SaveCart, Base, Snap
<1> DEFINE h == [req[c] EXCEPT !.pc = "done", !.ans = "ok", !.snap = cart']
<1>4. /\ h \in HandlerRecord /\ h.pc = "done" /\ h.ans = "ok" /\ h.snap = cart'
      /\ h.op = req[c].op /\ h.before = req[c].before
  BY <1>1, <1>3 DEF HandlerRecord
<1>5. req' = [req EXCEPT ![c] = h]
  BY DEF SaveCart, ServedInv, Typed
<1>6. h.op = call[c].op /\ h.op \in load /\ h.before \subseteq Finished \ {c}
  BY <1>1, <1>4 DEF Served
<1>7. OrdersKeyed'
  BY <1>1 DEF ServedInv, OrdersKeyed
<1> HIDE DEF h
<1>8. ServedInv'
  BY <1>1, <1>2, <1>3, <1>4, <1>5, <1>6, <1>7, ServerMoves
<1> QED
  BY <1>1, <1>2, <1>4, <1>5, <1>8 DEF ServedInv, Typed

\* A handler that only reads, or reads before it saves.
LEMMA ReadStep ==
  ASSUME ServedInv, NEW c \in Requests, AddBegins(c) \/ UpdateBegins(c) \/ GetCart(c)
  PROVE  /\ ServedInv'
         /\ UNCHANGED <<cart, orders, meant, page, call, lost, load>>
         /\ call[c].st = "sent" /\ req[c].pc = "idle" /\ call[c].op # "order"
         /\ req'[c].snap = cart
         /\ req'[c].ans = "ok" => call[c].op = "get"
         /\ \A d \in Requests \ {c} : req'[d] = req[d]
<1>0. cart \in Quantities /\ UNCHANGED <<cart, orders, meant, page, call, lost>>
  BY DEF ServedInv, Typed, AddBegins, UpdateBegins, GetCart
<1>1. PICK op \in {"add", "update", "get"}, pc \in {"save", "done"}, ans \in {"none", "ok", "error"} :
        /\ Enter(c, op, NoOne, cart, pc, ans)
        /\ call[c].st = "sent" /\ call[c].op = op
        /\ op = "get" => pc = "done" /\ ans = "ok"
        /\ op # "get" => ans # "ok"
  <2>1. CASE AddBegins(c)
    BY <2>1 DEF AddBegins, Asked
  <2>2. CASE UpdateBegins(c)
    BY <2>2 DEF UpdateBegins, Asked
  <2>3. CASE GetCart(c)
    BY <2>3 DEF GetCart, Asked
  <2> QED
    BY <2>1, <2>2, <2>3
<1>2. op \in Operations
  BY DEF Operations
<1>3. PICK h \in HandlerRecord :
        /\ req' = [req EXCEPT ![c] = h] /\ op \in load /\ UNCHANGED load
        /\ req[c].pc = "idle" /\ h.before \subseteq Finished \ {c}
        /\ h.op = op /\ h.pc = pc /\ h.ans = ans /\ h.snap = cart
  BY <1>0, <1>1, <1>2, EnterRecord
<1>4. req'[c] = h /\ \A d \in Requests \ {c} : req'[d] = req[d]
  BY <1>3 DEF ServedInv, Typed
<1>5. OrdersKeyed' /\ meant' \in Quantities
  BY <1>0 DEF ServedInv, OrdersKeyed, Typed
<1>6. ServedInv'
  BY <1>0, <1>1, <1>3, <1>5, ServerMoves
<1> QED
  BY <1>0, <1>1, <1>3, <1>4, <1>6

\* The checkout: one order of the cart, whose key no order has, or none.
LEMMA OrderStep ==
  ASSUME ServedInv, NEW c \in Requests, CreateOrder(c)
  PROVE  /\ ServedInv'
         /\ UNCHANGED <<page, call, lost, load>>
         /\ call[c].st = "sent" /\ req[c].pc = "idle" /\ call[c].op = "order"
         /\ req'[c].pc = "done" /\ req'[c].before = Finished /\ req'[c].op = "order"
         /\ \A d \in Requests \ {c} : req'[d] = req[d]
         /\ \/ UNCHANGED <<cart, meant>>
            \/ cart' = meant' /\ req'[c].ans = "ok"
<1> DEFINE k == call[c].key
           known == \E o \in orders : o.key = k
           new == ~ known /\ cart # NoItems
           ans == IF known \/ new THEN "ok" ELSE "error"
           o == [key |-> k, form |-> call[c].form, of |-> cart]
<1>1. /\ Served(c) /\ call[c].st = "sent" /\ call[c].op = "order"
      /\ Enter(c, "order", NoOne, NoOne, "done", ans)
      /\ UNCHANGED <<page, call, lost>>
  BY DEF ServedInv, CreateOrder, Asked
<1>2. PICK h \in HandlerRecord :
        /\ req' = [req EXCEPT ![c] = h] /\ "order" \in load /\ UNCHANGED load
        /\ req[c].pc = "idle" /\ h.before \subseteq Finished \ {c}
        /\ h.op = "order" /\ h.pc = "done" /\ h.ans = ans /\ h.snap = NoOne
  <2>1. ans \in {"none", "ok", "error"} /\ "order" \in Operations
    BY DEF Operations
  <2> HIDE DEF ans
  <2> QED
    BY <1>1, <2>1, EnterRecord
<1>3. k \in Keys /\ o.key = k /\ o.form = k /\ o.of = cart
  BY <1>1 DEF Served
<1> HIDE DEF o, ans
<1>4. ASSUME new, orders' = orders \cup {o}, cart' = NoItems, meant' = NoItems
      PROVE  ServedInv'
  <2>1. OrdersKeyed'
    BY <1>3, <1>4 DEF ServedInv, OrdersKeyed
  <2> QED
    BY <1>1, <1>2, <1>4, <2>1, NoItemsType, ServerMoves
<1>5. ASSUME UNCHANGED <<orders, cart, meant>>
      PROVE  ServedInv'
  <2>1. OrdersKeyed'
    BY <1>5 DEF ServedInv, OrdersKeyed
  <2>2. cart' \in Quantities /\ meant' \in Quantities
    BY <1>5 DEF ServedInv, Typed
  <2> QED
    BY <1>1, <1>2, <2>1, <2>2, ServerMoves
<1>6. ServedInv' /\ (UNCHANGED <<cart, meant>> \/ (cart' = meant' /\ ans = "ok"))
  <2>1. \/ new /\ orders' = orders \cup {o} /\ cart' = NoItems /\ meant' = NoItems
        \/ UNCHANGED <<orders, cart, meant>>
    BY DEF CreateOrder, o
  <2>2. new => ans = "ok"
    BY DEF ans
  <2> QED
    BY <1>4, <1>5, <2>1, <2>2
<1>7. req'[c] = h /\ \A d \in Requests \ {c} : req'[d] = req[d]
  BY <1>2 DEF ServedInv, Typed
<1>8. req'[c].before = Finished
  BY <1>1 DEF Enter, ServedInv, Typed
<1> QED
  BY <1>1, <1>2, <1>6, <1>7, <1>8

\* A page hears of a call.
LEMMA HearStep ==
  ASSUME ServedInv, NEW c \in Requests,
         \/ CartArrives(c) \/ EditFails(c) \/ ResyncRead(c) \/ ResyncArrives(c) \/ ResyncFails(c)
         \/ OrderArrives(c) \/ OrderFails(c) \/ Unheard(c)
  PROVE  /\ ServedInv' /\ UNCHANGED server
         /\ req[c].pc = "done" /\ call[c].st \notin {"idle", "over", "givenUp"}
         /\ call'[c].st # "idle" /\ call'[c].page = call[c].page /\ call'[c].op = call[c].op
         /\ call'[c].after = call[c].after
         /\ \A d \in Requests \ {c} : call'[d] = call[d]
<1>0. /\ Typed /\ Served(c) /\ call[c] \in CallRecord
      /\ page \in [Pages -> PageRecord] /\ cart \in Quantities /\ lost \in Nat
      /\ \A p \in Pages : page[p].busy => page[p].form # NoOne
      /\ call[c].page \in Pages \cup {NoOne}
  BY DEF ServedInv, Typed, CallRecord
<1>1. /\ UNCHANGED server /\ req[c].pc = "done" /\ call[c].st \notin {"idle", "over", "givenUp"}
  BY <1>0 DEF CartArrives, EditFails, ResyncRead, ResyncArrives, OrderArrives, OrderFails,
     Unheard, ResyncFails, Answers, Fails, Served, Over
<1>2. SUFFICES
        \E k \in CallRecord :
          /\ call' = [call EXCEPT ![c] = k] /\ k.st \in {"resync", "resynced", "over", "givenUp"}
          /\ k.st = "resynced" => k.heard \in Quantities
          /\ k.op = call[c].op /\ k.key = call[c].key /\ k.form = call[c].form
          /\ k.item = call[c].item /\ k.page = call[c].page /\ k.after = call[c].after
          /\ page' \in [Pages -> PageRecord] /\ lost' \in Nat
          /\ \A p \in Pages : page'[p].busy => page'[p].form # NoOne
          /\ \A p \in Pages : page[p].user => page'[p].user
  <2>1. ASSUME NEW k \in CallRecord, call' = [call EXCEPT ![c] = k],
               k.st \in {"resync", "resynced", "over", "givenUp"}, k.page = call[c].page,
               k.op = call[c].op, k.after = call[c].after
        PROVE  /\ call'[c].st # "idle" /\ call'[c].page = call[c].page /\ call'[c].op = call[c].op
               /\ call'[c].after = call[c].after
               /\ \A d \in Requests \ {c} : call'[d] = call[d]
    BY <2>1 DEF ServedInv, Typed
  <2> QED
    BY <1>1, <2>1, AnswerMoves DEF Over
<1>3. ASSUME NEW st \in {"resync", "over", "givenUp"}
      PROVE  LET k == [call[c] EXCEPT !.st = st] IN
             /\ k \in CallRecord /\ k.st = st
             /\ k.op = call[c].op /\ k.key = call[c].key /\ k.form = call[c].form
             /\ k.item = call[c].item /\ k.page = call[c].page /\ k.after = call[c].after
  BY <1>0 DEF CallRecord
<1>4. ASSUME NEW p \in Pages, NEW q \in Quantities
      PROVE  /\ [page EXCEPT ![p].shown = q] \in [Pages -> PageRecord]
             /\ \A o \in Pages : /\ [page EXCEPT ![p].shown = q][o].user = page[o].user
                                 /\ [page EXCEPT ![p].shown = q][o].busy = page[o].busy
                                 /\ [page EXCEPT ![p].shown = q][o].form = page[o].form
  BY <1>0 DEF PageRecord
<1>5. CASE CartArrives(c)
  <2>1. call[c].page \in Pages /\ req[c].snap \in Quantities
    BY <1>0, <1>5 DEF CartArrives, Answers, Served
  <2>2. /\ page' \in [Pages -> PageRecord]
        /\ \A o \in Pages : page'[o].user = page[o].user /\ page'[o].busy = page[o].busy
                            /\ page'[o].form = page[o].form
    BY <1>4, <1>5, <2>1 DEF CartArrives, Snap
  <2>3. call' = [call EXCEPT ![c] = [call[c] EXCEPT !.st = "over"]] /\ UNCHANGED lost
    BY <1>0, <1>5 DEF CartArrives, ServedInv, Typed
  <2> QED
    BY <1>0, <1>3, <2>2, <2>3
<1>6. CASE EditFails(c)
  <2>1. TakeBack(c) \in {"resync", "givenUp"} /\ lost' \in Nat /\ UNCHANGED page
    BY <1>0, <1>6 DEF EditFails, Fails, TakeBack
  <2> HIDE DEF TakeBack
  <2> QED
    BY <1>0, <1>3, <1>6, <2>1 DEF EditFails
<1>7. CASE ResyncRead(c)
  <2> DEFINE k == [call[c] EXCEPT !.st = "resynced", !.heard = cart]
  <2>1. /\ k \in CallRecord /\ k.st = "resynced" /\ k.heard \in Quantities
        /\ k.op = call[c].op /\ k.key = call[c].key /\ k.form = call[c].form
        /\ k.item = call[c].item /\ k.page = call[c].page /\ k.after = call[c].after
    BY <1>0 DEF CallRecord
  <2>2. call' = [call EXCEPT ![c] = k] /\ UNCHANGED <<page, lost>>
    BY <1>0, <1>7 DEF ResyncRead, Typed
  <2> HIDE DEF k
  <2> QED
    BY <1>0, <2>1, <2>2
<1>8. CASE ResyncArrives(c)
  <2>1. call[c].page \in Pages /\ call[c].heard \in Quantities
    BY <1>0, <1>8 DEF ResyncArrives, Served
  <2>2. /\ page' \in [Pages -> PageRecord]
        /\ \A o \in Pages : page'[o].user = page[o].user /\ page'[o].busy = page[o].busy
                            /\ page'[o].form = page[o].form
    BY <1>4, <1>8, <2>1 DEF ResyncArrives
  <2>3. call' = [call EXCEPT ![c] = [call[c] EXCEPT !.st = "over"]] /\ UNCHANGED lost
    BY <1>0, <1>8 DEF ResyncArrives, ServedInv, Typed
  <2> QED
    BY <1>0, <1>3, <2>2, <2>3
<1>9. CASE OrderArrives(c)
  <2>1. call[c].page \in Pages /\ UNCHANGED lost /\ call' = [call EXCEPT ![c].st = "over"]
    BY <1>0, <1>9 DEF OrderArrives, Answers
  <2>2. /\ page' \in [Pages -> PageRecord]
        /\ \A p \in Pages : page'[p].busy => page'[p].form # NoOne
        /\ \A p \in Pages : page[p].user => page'[p].user
    <3>1. PICK shown \in {page[call[c].page].shown, NoItems} :
            page' = [page EXCEPT ![call[c].page].shown = shown,
                                 ![call[c].page].form = NoOne, ![call[c].page].busy = FALSE]
      BY <1>9 DEF OrderArrives
    <3>2. shown \in Quantities
      BY <1>0, <2>1, NoItemsType DEF PageRecord
    <3> DEFINE r == [page[call[c].page] EXCEPT !.shown = shown, !.form = NoOne, !.busy = FALSE]
    <3>3. /\ r \in PageRecord /\ r.user = page[call[c].page].user /\ ~ r.busy
      BY <1>0, <2>1, <3>2 DEF PageRecord
    <3>4. page' = [page EXCEPT ![call[c].page] = r]
      BY <1>0, <2>1, <3>1
    <3> HIDE DEF r
    <3> QED
      BY <1>0, <2>1, <3>3, <3>4
  <2> QED
    BY <1>0, <1>3, <2>1, <2>2
<1>10. CASE OrderFails(c)
  <2>1. /\ call[c].page \in Pages /\ lost' \in Nat /\ call' = [call EXCEPT ![c].st = "over"]
    BY <1>0, <1>10 DEF OrderFails, Fails, Answers
  <2>2. /\ page' \in [Pages -> PageRecord]
        /\ \A p \in Pages : page'[p].busy => page'[p].form # NoOne
        /\ \A p \in Pages : page[p].user => page'[p].user
    <3> DEFINE r == [page[call[c].page] EXCEPT
                       !.busy = @ /\ page[call[c].page].form # call[c].form]
    <3>1. /\ r \in PageRecord /\ r.user = page[call[c].page].user
          /\ r.form = page[call[c].page].form
          /\ r.busy => page[call[c].page].busy
      BY <1>0, <2>1 DEF PageRecord
    <3>2. page' = [page EXCEPT ![call[c].page] = r]
      BY <1>10 DEF OrderFails
    <3> HIDE DEF r
    <3> QED
      BY <1>0, <2>1, <3>1, <3>2
  <2> QED
    BY <1>0, <1>3, <2>1, <2>2
<1>11. CASE Unheard(c)
  BY <1>0, <1>3, <1>11 DEF Unheard
<1>12. CASE ResyncFails(c)
  <2>1. /\ lost' \in Nat /\ UNCHANGED page
        /\ call' = [call EXCEPT ![c] = [call[c] EXCEPT !.st = "givenUp"]]
    BY <1>0, <1>12 DEF ResyncFails, Typed
  <2> QED
    BY <1>0, <1>3, <2>1
<1> QED
  BY <1>5, <1>6, <1>7, <1>8, <1>9, <1>10, <1>11, <1>12

\* A page changes what it shows, or its form, on its own.
LEMMA OwnStep ==
  ASSUME ServedInv, NEW p \in Pages, OpenForm(p) \/ \E i \in Items : GuestAdds(p, i)
  PROVE  /\ ServedInv' /\ UNCHANGED <<server, call, lost>>
         /\ \A o \in Pages : page[o].user => page'[o].user /\ page'[o].shown = page[o].shown
<1>0. /\ Typed /\ page \in [Pages -> PageRecord]
      /\ \A o \in Pages : page[o].busy => page[o].form # NoOne
  BY DEF ServedInv, Typed
<1>1. ASSUME page' \in [Pages -> PageRecord], UNCHANGED <<server, call, lost>>,
             \A o \in Pages : /\ page'[o].busy => page'[o].form # NoOne
                              /\ page[o].user => page'[o].user
      PROVE  ServedInv'
  <2>1. Typed' /\ Over' = Over /\ Finished' = Finished
    BY <1>0, <1>1 DEF Typed, server, Over, Finished
  <2>2. \A d \in Requests : Served(d)'
    BY <1>1, <2>1, OthersServed DEF server
  <2> QED
    BY <1>1, <2>1, <2>2 DEF ServedInv, server, OrdersKeyed
<1>2. CASE OpenForm(p)
  <2> DEFINE n == page[p].forms + 1
             k == <<p, n>>
             r == [page[p] EXCEPT !.form = k, !.forms = n, !.busy = FALSE]
  <2>1. page[p].forms \in Nat /\ page[p].forms < MaxForms /\ MaxForms \in Nat
    BY <1>0, <1>2, CartAssumption DEF OpenForm, PageRecord
  <2>2. n \in 1 .. MaxForms /\ n \in Nat
    BY <2>1
  <2> HIDE DEF n
  <2>3. k \in Keys
    BY <2>2 DEF Keys
  <2> HIDE DEF k
  <2>4. /\ r \in PageRecord /\ ~ r.busy /\ r.user = page[p].user /\ r.shown = page[p].shown
    BY <1>0, <2>2, <2>3 DEF PageRecord
  <2>5. page' = [page EXCEPT ![p] = r] /\ UNCHANGED <<server, call, lost>>
    BY <1>0, <1>2 DEF OpenForm, k, n
  <2> HIDE DEF r
  <2> QED
    BY <1>0, <1>1, <2>4, <2>5
<1>3. ASSUME NEW i \in Items, GuestAdds(p, i)
      PROVE  /\ ServedInv' /\ UNCHANGED <<server, call, lost>>
             /\ \A o \in Pages : page[o].user => page'[o].user /\ page'[o].shown = page[o].shown
  <2>1. page[p].shown[i] + 1 \in Nat /\ ~ page[p].user
    BY <1>0, <1>3 DEF GuestAdds, PageRecord, Quantities
  <2>2. page' = Shows(p, i, page[p].shown[i] + 1) /\ UNCHANGED <<server, call, lost>>
    BY <1>3 DEF GuestAdds
  <2>3. /\ page' \in [Pages -> PageRecord]
        /\ \A o \in Pages : /\ page'[o].user = page[o].user /\ page'[o].form = page[o].form
                            /\ page'[o].busy = page[o].busy
    BY <1>0, <2>1, <2>2, ShowsType
  <2>4. \A o \in Pages : o # p => page'[o] = page[o]
    BY <1>0, <2>2 DEF Shows
  <2> QED
    BY <1>0, <1>1, <2>1, <2>2, <2>3, <2>4
<1> QED
  BY <1>2, <1>3

LEMMA ServedStep == ServedInv /\ [Next]_cavars => ServedInv'
<1> SUFFICES ASSUME ServedInv, [Next]_cavars PROVE ServedInv'
  OBVIOUS
<1>1. CASE UNCHANGED cavars
  <2>1. Typed' /\ Over' = Over /\ Finished' = Finished /\ OrdersKeyed'
    BY <1>1 DEF ServedInv, Typed, cavars, Over, Finished, OrdersKeyed
  <2>2. \A d \in Requests : Served(d)'
    BY <1>1, <2>1, OthersServed DEF cavars
  <2> QED
    BY <2>1, <2>2 DEF ServedInv
<1>2. CASE Next
  BY <1>2, PageStep, ReadStep, SaveStep, OrderStep, HearStep, OwnStep DEF Next
<1> QED
  BY <1>1, <1>2

LEMMA ServedAlways == Spec => []ServedInv
BY ServedInit, ServedStep, PTL DEF Spec

-----------------------------------------------------------------------------
(* The theorems.                                                           *)

\* What the server keeps is typed, no order is empty, and a form places one
\* order however often it is submitted: the key of its submissions is the
\* form's, and an order of that key is answered instead of placed again.
THEOREM CartSafety == Spec => []CartInv
<1>1. ServedInv => CartInv
  <2> SUFFICES ASSUME ServedInv PROVE CartInv
    OBVIOUS
  <2>1. FrameTypeOK
    <3>1. ASSUME NEW r \in Requests
          PROVE  req[r].op \in load \cup {"none"} /\ req[r].before \subseteq Requests \ {r}
      <4>1. Served(r) /\ req[r] \in HandlerRecord
        BY DEF ServedInv, Typed
      <4> QED
        BY <4>1 DEF Served, Finished
    <3> QED
      BY <3>1 DEF FrameTypeOK, ServedInv, Typed
  <2>2. CartTypeOK
    BY <2>1 DEF CartTypeOK, ServedInv, Typed, Quantities, PageRecord, CallRecord, OrdersKeyed
  <2>3. OneOrderPerForm
    BY DEF OneOrderPerForm, ServedInv, OrdersKeyed
  <2> QED
    BY <2>2, <2>3 DEF CartInv
<1> QED
  BY <1>1, ServedAlways, PTL

-----------------------------------------------------------------------------
(* Edits that overlap no other are all in the cart.                        *)

EditsInv ==
  /\ Serial(Writers) => cart = meant
  /\ \A c \in Requests : req[c].pc = "save" /\ Serial(Writers \cup {c}) => Snap(c) = cart

\* A request that finishes while another runs overlaps it.
LEMMA FinishOverlaps ==
  ASSUME ServedInv, NEW c \in Requests, NEW d \in Requests, c # d,
         req[c].pc # "done", req[d].pc # "done",
         req'[c].before \in {req[c].before, Finished}, req'[d] = req[d]
  PROVE  Overlap(c, d)'
BY DEF ServedInv, Served, Overlap, Before, Finished

LEMMA EditsStep == ServedInv /\ EditsInv /\ [Next]_cavars => EditsInv'
<1> SUFFICES ASSUME ServedInv, EditsInv, [Next]_cavars PROVE EditsInv'
  OBVIOUS
<1>0. ServedInv'
  BY ServedStep
<1>1. ASSUME UNCHANGED <<req, cart, meant>>
      PROVE  EditsInv'
  BY <1>1 DEF EditsInv, Serial, Overlap, Before, Writers, Snap
<1>2. ASSUME NEW c \in Requests, AddBegins(c) \/ UpdateBegins(c) \/ GetCart(c)
      PROVE  EditsInv'
  <2>1. /\ UNCHANGED <<cart, meant, call>> /\ req[c].pc = "idle" /\ req'[c].snap = cart
        /\ req'[c].ans = "ok" => call[c].op = "get"
        /\ \A d \in Requests \ {c} : req'[d] = req[d]
    BY <1>2, ReadStep
  <2>2. Writers' = Writers /\ c \notin Writers
    <3>1. req'[c].pc # "idle" => req'[c].op = call[c].op
      BY <1>0, <2>1 DEF ServedInv, Served
    <3>2. c \notin Writers /\ c \notin Writers'
      BY <2>1, <3>1 DEF Writers
    <3> QED
      BY <2>1, <3>2 DEF Writers
  <2>3. Serial(Writers)' => Serial(Writers)
    BY <2>1, <2>2 DEF Serial, Overlap, Before
  <2>4. ASSUME NEW d \in Requests, d # c, Serial(Writers \cup {d})'
        PROVE  Serial(Writers \cup {d})
    <3>1. \A a \in Writers \cup {d} : req'[a] = req[a]
      BY <2>1, <2>2, <2>4 DEF Writers
    <3> QED
      BY <2>2, <2>4, <3>1 DEF Serial, Overlap, Before
  <2> QED
    BY <2>1, <2>3, <2>4 DEF EditsInv, Snap
<1>3. ASSUME NEW c \in Requests, SaveCart(c)
      PROVE  EditsInv'
  <2>1. /\ req[c].pc = "save" /\ req'[c].pc = "done" /\ req'[c].ans = "ok"
        /\ req'[c].before = req[c].before /\ req'[c].op = req[c].op /\ req[c].op # "get"
        /\ \A d \in Requests \ {c} : req'[d] = req[d]
    BY <1>3, SaveStep DEF ServedInv, Served
  <2>2. Writers' = Writers \cup {c}
    BY <2>1 DEF Writers
  <2>3. ASSUME Serial(Writers)'
        PROVE  Serial(Writers) /\ Serial(Writers \cup {c})
    BY <2>1, <2>2, <2>3 DEF Serial, Overlap, Before
  <2>4. cart' = Edited(c, Snap(c)) /\ meant' = Edited(c, meant)
    BY <1>3 DEF SaveCart, Base
  <2>5. Serial(Writers)' => cart' = meant'
    BY <2>1, <2>3, <2>4 DEF EditsInv
  <2>6. ASSUME NEW d \in Requests, req'[d].pc = "save"
        PROVE  ~ Serial(Writers \cup {d})'
    <3>1. c # d /\ req[d].pc = "save" /\ req'[d] = req[d]
      BY <2>1, <2>6
    <3>2. Overlap(c, d)'
      BY <2>1, <3>1, FinishOverlaps
    <3>3. c \in (Writers \cup {d})' /\ d \in (Writers \cup {d})'
      BY <2>2
    <3> QED
      BY <3>1, <3>2, <3>3 DEF Serial
  <2> QED
    BY <2>5, <2>6 DEF EditsInv
<1>4. ASSUME NEW c \in Requests, CreateOrder(c)
      PROVE  EditsInv'
  <2>1. /\ req[c].pc = "idle" /\ req'[c].pc = "done" /\ req'[c].before = Finished
        /\ \A d \in Requests \ {c} : req'[d] = req[d]
        /\ UNCHANGED <<cart, meant>> \/ (cart' = meant' /\ req'[c].ans = "ok")
        /\ req'[c].op = "order"
    BY <1>4, OrderStep
  <2>2. c \notin Writers /\ Writers \subseteq Writers'
    BY <2>1 DEF Writers
  <2>3. Serial(Writers)' => Serial(Writers)
    <3>1. \A a \in Writers : req'[a] = req[a]
      BY <2>1, <2>2 DEF Writers
    <3> QED
      BY <2>2, <3>1 DEF Serial, Overlap, Before
  <2>4. ASSUME NEW d \in Requests, req'[d].pc = "save", Serial(Writers \cup {d})'
        PROVE  Snap(d)' = cart'
    <3>1. c # d /\ req[d].pc = "save" /\ req'[d] = req[d]
      BY <2>1, <2>4
    <3>2. c \notin Writers'
      <4>1. Overlap(c, d)'
        BY <2>1, <3>1, FinishOverlaps
      <4> QED
        BY <2>4, <3>1, <4>1 DEF Serial
    <3>3. UNCHANGED cart
      BY <2>1, <3>2 DEF Writers
    <3>4. Writers' = Writers
      BY <2>1, <2>2, <3>2 DEF Writers
    <3>5. Serial(Writers \cup {d})
      <4>1. \A a \in Writers \cup {d} : req'[a] = req[a]
        BY <2>1, <2>2, <3>1 DEF Writers
      <4> QED
        BY <2>4, <3>4, <4>1 DEF Serial, Overlap, Before
    <3> QED
      BY <3>1, <3>3, <3>5 DEF EditsInv, Snap
  <2> QED
    BY <2>1, <2>3, <2>4 DEF EditsInv
<1>5. CASE UNCHANGED cavars
  BY <1>1, <1>5 DEF cavars
<1>6. ASSUME NEW c \in Requests,
             \/ AddToCart(c) \/ UpdateQuantity(c) \/ GetUserCart(c) \/ Submit(c)
             \/ CartArrives(c) \/ EditFails(c) \/ ResyncRead(c) \/ ResyncArrives(c) \/ ResyncFails(c)
             \/ OrderArrives(c) \/ OrderFails(c) \/ Unheard(c)
      PROVE  EditsInv'
  <2>1. UNCHANGED server
    BY <1>6, PageStep, HearStep DEF Sends
  <2> QED
    BY <1>1, <2>1 DEF server
<1>7. ASSUME NEW p \in Pages, OpenForm(p) \/ \E i \in Items : GuestAdds(p, i)
      PROVE  EditsInv'
  <2>1. UNCHANGED server
    BY <1>7, OwnStep
  <2> QED
    BY <1>1, <2>1 DEF server
<1> QED
  BY <1>2, <1>3, <1>4, <1>5, <1>6, <1>7 DEF Next

\* If edits and orders did not overlap, the cart is what they meant: one
\* that finishes had read the cart as it still is.
THEOREM LostEditSafety == Spec => []LostEditNeedsOverlap
<1>1. Init => EditsInv
  BY DEF Init, EditsInv, Idle
<1>2. EditsInv => LostEditNeedsOverlap
  BY DEF EditsInv, LostEditNeedsOverlap
<1> QED
  BY <1>1, <1>2, EditsStep, ServedAlways, PTL DEF Spec

-----------------------------------------------------------------------------
(* A page settles on the server's cart.                                    *)

\* No other call was sent after c, or was under way when it was.
Alone(c) == \A d \in Requests \ {c} : call[d].st = "idle" \/ d \in call[c].after

\* What such a call has read, heard or shown is the cart.
Settles(c) ==
  (call[c].st # "idle" /\ call[c].op # "order" /\ call[c].page # NoOne /\ Alone(c)) =>
    /\ (call[c].st = "sent" /\ req[c].pc = "done" /\ req[c].ans = "ok") => req[c].snap = cart
    /\ call[c].st = "resynced" => call[c].heard = cart
    /\ call[c].st = "over" => page[call[c].page].shown = cart

SettleInv == \A c \in Requests : Settles(c)

\* A step of one call leaves another alone only if there is no other.
LEMMA OthersSettle ==
  ASSUME ServedInv, NEW c \in Requests, NEW d \in Requests, c # d,
         d \notin Over, call'[d].st # "idle",
         call'[c] = call[c] \/ call'[c] = [call[c] EXCEPT !.page = NoOne]
  PROVE  Settles(c)'
<1>1. Served(c) /\ call[c] \in CallRecord
  BY DEF ServedInv, Typed
<1>2. call'[c].after = call[c].after /\ d \notin call[c].after
  BY <1>1 DEF Served, CallRecord
<1>3. ~ Alone(c)'
  BY <1>2 DEF Alone
<1> QED
  BY <1>3 DEF Settles

\* A page that changes on its own, or not at all, settles no less.
LEMMA StillSettles ==
  ASSUME ServedInv, SettleInv, UNCHANGED <<cart, call, req, lost>>,
         \A o \in Pages : page[o].user => page'[o].shown = page[o].shown
  PROVE  SettleInv'
<1> SUFFICES ASSUME NEW c \in Requests PROVE Settles(c)'
  BY DEF SettleInv
<1>1. Served(c) /\ call[c] \in CallRecord /\ Settles(c)
  BY DEF ServedInv, Typed, SettleInv
<1>2. Alone(c)' = Alone(c)
  BY DEF Alone
<1>3. call[c].page \in Pages \cup {NoOne}
  BY <1>1 DEF CallRecord
<1> QED
  BY <1>1, <1>2, <1>3 DEF Settles, Served

LEMMA SettleStep == ServedInv /\ SettleInv /\ [Next]_cavars => SettleInv'
<1> SUFFICES ASSUME ServedInv, SettleInv, [Next]_cavars PROVE SettleInv'
  OBVIOUS
<1>1. ASSUME NEW c \in Requests,
             AddToCart(c) \/ UpdateQuantity(c) \/ GetUserCart(c) \/ Submit(c)
      PROVE  SettleInv'
  <2>1. Sends(c)
    BY <1>1, PageStep
  <2>2. \A d \in Requests \ {c} : Settles(d)'
    BY <2>1, OthersSettle DEF Sends, Over
  <2>3. Settles(c)'
    BY <2>1 DEF Sends, Settles, server
  <2> QED
    BY <2>2, <2>3 DEF SettleInv
<1>2. ASSUME NEW c \in Requests, AddBegins(c) \/ UpdateBegins(c) \/ GetCart(c)
      PROVE  SettleInv'
  <2>1. /\ UNCHANGED <<cart, call, page, lost>> /\ call[c].st = "sent" /\ req'[c].snap = cart
    BY <1>2, ReadStep
  <2>2. \A d \in Requests \ {c} : Settles(d)'
    BY <2>1, OthersSettle DEF Over
  <2>3. Settles(c)'
    BY <2>1 DEF Settles
  <2> QED
    BY <2>2, <2>3 DEF SettleInv
<1>3. ASSUME NEW c \in Requests, SaveCart(c)
      PROVE  SettleInv'
  <2>1. UNCHANGED <<call, page, lost>> /\ call[c].st = "sent" /\ req'[c].snap = cart'
    BY <1>3, SaveStep DEF SaveCart
  <2>2. \A d \in Requests \ {c} : Settles(d)'
    BY <2>1, OthersSettle DEF Over
  <2>3. Settles(c)'
    BY <2>1 DEF Settles
  <2> QED
    BY <2>2, <2>3 DEF SettleInv
<1>4. ASSUME NEW c \in Requests, CreateOrder(c)
      PROVE  SettleInv'
  <2>1. UNCHANGED <<call, page, lost>> /\ call[c].st = "sent" /\ call[c].op = "order"
    BY <1>4, OrderStep
  <2>2. \A d \in Requests \ {c} : Settles(d)'
    BY <2>1, OthersSettle DEF Over
  <2>3. Settles(c)'
    BY <2>1 DEF Settles
  <2> QED
    BY <2>2, <2>3 DEF SettleInv
<1>5. ASSUME NEW c \in Requests,
             \/ CartArrives(c) \/ EditFails(c) \/ ResyncRead(c) \/ ResyncArrives(c) \/ ResyncFails(c)
             \/ OrderArrives(c) \/ OrderFails(c) \/ Unheard(c)
      PROVE  SettleInv'
  <2>1. /\ UNCHANGED server /\ req[c].pc = "done" /\ call[c].st \notin {"idle", "over", "givenUp"}
        /\ call'[c].st # "idle" /\ call'[c].page = call[c].page /\ call'[c].op = call[c].op
        /\ call'[c].after = call[c].after
        /\ \A d \in Requests \ {c} : call'[d] = call[d]
    BY <1>5, HearStep
  <2>2. \A d \in Requests \ {c} : Settles(d)'
    BY <2>1, OthersSettle DEF Over
  <2>3. Alone(c)' = Alone(c)
    BY <2>1 DEF Alone
  <2>4. Served(c) /\ Settles(c) /\ call[c] \in CallRecord /\ call \in [Requests -> CallRecord]
        /\ page \in [Pages -> PageRecord] /\ lost \in Nat
        /\ call[c].page \in Pages \cup {NoOne}
    BY DEF ServedInv, Typed, SettleInv, CallRecord
  <2>5. UNCHANGED <<cart, req>>
    BY <2>1 DEF server
  <2>6. Settles(c)'
    <3>1. CASE CartArrives(c)
      <4>1. /\ call[c].page \in Pages /\ page'[call[c].page].shown = req[c].snap
            /\ call[c].st = "sent" /\ req[c].ans = "ok" /\ call'[c].st = "over"
        BY <2>4, <3>1 DEF CartArrives, Answers, Snap, CallRecord, PageRecord
      <4> QED
        BY <2>1, <2>3, <2>4, <2>5, <4>1 DEF Settles
    <3>2. CASE EditFails(c)
      <4>1. call'[c].st = TakeBack(c)
        BY <2>4, <3>2 DEF EditFails, CallRecord
      <4> QED
        BY <4>1 DEF Settles, TakeBack
    <3>3. CASE ResyncRead(c)
      <4>1. call'[c].st = "resynced" /\ call'[c].heard = cart
        BY <2>4, <3>3 DEF ResyncRead, CallRecord
      <4> QED
        BY <2>5, <4>1 DEF Settles
    <3>4. CASE ResyncArrives(c)
      <4>1. /\ call[c].page \in Pages /\ page'[call[c].page].shown = call[c].heard
            /\ call[c].st = "resynced" /\ call'[c].st = "over"
        BY <2>4, <3>4 DEF ResyncArrives, CallRecord, PageRecord
      <4> QED
        BY <2>1, <2>3, <2>4, <2>5, <4>1 DEF Settles
    <3>5. CASE OrderArrives(c) \/ OrderFails(c)
      BY <2>1, <3>5 DEF OrderArrives, OrderFails, Settles
    <3>6. CASE Unheard(c)
      BY <2>1, <3>6 DEF Unheard, Settles
    <3>7. CASE ResyncFails(c)
      <4>1. call'[c].st = "givenUp"
        BY <2>4, <3>7 DEF ResyncFails, CallRecord
      <4> QED
        BY <4>1 DEF Settles
    <3> QED
      BY <1>5, <3>1, <3>2, <3>3, <3>4, <3>5, <3>6, <3>7
  <2> QED
    BY <2>2, <2>6 DEF SettleInv
<1>6. ASSUME NEW p \in Pages, OpenForm(p) \/ \E i \in Items : GuestAdds(p, i)
      PROVE  SettleInv'
  <2>1. /\ UNCHANGED <<server, call, lost>>
        /\ \A o \in Pages : page[o].user => page'[o].shown = page[o].shown
    BY <1>6, OwnStep
  <2> QED
    BY <2>1, StillSettles DEF server
<1>7. CASE UNCHANGED cavars
  BY <1>7, StillSettles DEF cavars
<1> QED
  BY <1>1, <1>2, <1>3, <1>4, <1>5, <1>6, <1>7 DEF Next

\* A page shows the server's cart after an edit or a read that nothing
\* overlapped and nothing followed, its answer lost or not, unless the read
\* failed as well.
THEOREM SettleSafety == Spec => []ShownCartSettles
<1>1. Init => SettleInv
  BY DEF Init, SettleInv, Settles, NoCall
<1>2. SettleInv => ShownCartSettles
  BY DEF SettleInv, Settles, Alone, ShownCartSettles, Over
<1> QED
  BY <1>1, <1>2, SettleStep, ServedAlways, PTL DEF Spec
=============================================================================
