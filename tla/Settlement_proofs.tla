-------------------------- MODULE Settlement_proofs --------------------------
(***************************************************************************)
(* Proofs about OrderLifecycle and Settlement, for any number of orders,   *)
(* references, sellers, payouts, handlers, staff requests, crashes, faults *)
(* and repeated webhooks.  First the life of the orders by itself (Spec);  *)
(* then, with the payouts: what the payout documents say agrees with the   *)
(* tags on the orders and with the money that left, and the whole system   *)
(* implements SettlementLedger.                                            *)
(***************************************************************************)
EXTENDS Settlement, TLAPS

-----------------------------------------------------------------------------
(* What save() does to a document.                                         *)

LEMMA SavedDoc ==
  ASSUME NEW read \in OrderDoc, NEW stored \in OrderDoc, NEW s \in OrderStatus,
         NEW p \in PaymentStatus, NEW f \in RefundStatus
  PROVE  /\ Saved(read, stored, s, p, f) \in OrderDoc
         /\ Saved(read, stored, s, p, f).status = Path(read.status, s, stored.status)
         /\ Saved(read, stored, s, p, f).paymentStatus
              = Path(read.paymentStatus, p, stored.paymentStatus)
         /\ Saved(read, stored, s, p, f).refund = Path(read.refund, f, stored.refund)
         /\ Saved(read, stored, s, p, f).paidAt = stored.paidAt
         /\ Saved(read, stored, s, p, f).payout = stored.payout
         /\ Saved(read, stored, s, p, f).tracked
              = stored.tracked \cup (IF s = read.status THEN {} ELSE {s})
BY DEF Saved, OrderDoc, Path

LEMMA NewOrderType == NewOrder \in OrderDoc
BY DEF NewOrder, OrderDoc, OrderStatus, PaymentStatus, RefundStatus

LEMMA IdleType == Idle \in HandlerType
BY NewOrderType, OrderLifecycleAssumption
   DEF Idle, HandlerType, Labels, OrderStatus, Items

\* The effect of a save on the collection.
LEMMA SaveOrderEffect ==
  ASSUME order \in [Orders -> OrderDoc], NEW o \in Orders,
         NEW read \in OrderDoc, NEW s \in OrderStatus,
         NEW p \in PaymentStatus, NEW f \in RefundStatus,
         SaveOrder(o, read, s, p, f)
  PROVE  /\ order' \in [Orders -> OrderDoc]
         /\ \A q \in Orders : q # o => order'[q] = order[q]
         /\ order'[o] = Saved(read, order[o], s, p, f)
<1>1. Saved(read, order[o], s, p, f) \in OrderDoc
  BY SavedDoc
<1> QED
  BY <1>1 DEF SaveOrder
-----------------------------------------------------------------------------
(* Type correctness.                                                       *)

LEMMA TypeInit == Init => TypeOK
BY NewOrderType, IdleType, OrderLifecycleAssumption
   DEF Init, TypeOK, Items, EventKinds

\* Every step keeps the types.
LEMMA TypeStep == TypeOK /\ [Next]_vars => TypeOK'
<1> SUFFICES ASSUME TypeOK, [Next]_vars PROVE TypeOK'
  OBVIOUS
<1> USE DEF TypeOK
<1>1. ASSUME NEW w \in Handlers, NEW label \in Labels, NEW S \in SUBSET Orders,
             NEW target \in OrderStatus, NEW ref \in Refs \cup {NoRef},
             Start(w, label, S, target, ref), duplicates' \in 0..MaxDuplicates
      PROVE  TypeOK'
  BY <1>1, NewOrderType, OrderLifecycleAssumption DEF Start, HandlerType, Items
<1>2. ASSUME NEW r \in Refs, NEW kind \in EventKinds, Charge(r, kind)
      PROVE  TypeOK'
  BY <1>2 DEF Charge
<1>3. ASSUME NEW w \in Handlers, Webhook(w) PROVE TypeOK'
  <2> PICK r \in Refs, kind \in EventKinds : Deliver(w, r, kind)
    BY <1>3 DEF Webhook
  <2>1. duplicates' \in 0..MaxDuplicates
    BY OrderLifecycleAssumption DEF Deliver
  <2> QED
    BY <1>1, <2>1 DEF Deliver, OrdersOf, Labels, OrderStatus
<1>4. ASSUME NEW w \in Handlers, Request(w) PROVE TypeOK'
  <2> PICK o \in Orders :
        \/ \E to \in Targets : UpdateOrderStatus(w, o, to)
        \/ \E to \in Targets, s \in Sellers : UpdateSellerOrderStatus(w, s, o, to)
        \/ RequestRefund(w, o)
        \/ ApproveRefund(w, o)
        \/ RejectRefund(w, o)
    BY <1>4 DEF Request
  <2>1. ASSUME NEW to \in Targets, UpdateOrderStatus(w, o, to) PROVE TypeOK'
    BY <1>1, <2>1, OrderLifecycleAssumption DEF UpdateOrderStatus, Labels
  <2>2. CASE RequestRefund(w, o)
    BY <1>1, <2>2 DEF RequestRefund, Labels, OrderStatus
  <2>3. CASE ApproveRefund(w, o)
    BY <1>1, <2>3 DEF ApproveRefund, Labels, OrderStatus
  <2>4. CASE RejectRefund(w, o)
    BY <1>1, <2>4 DEF RejectRefund, Labels, OrderStatus
  <2> QED
    BY <2>1, <2>2, <2>3, <2>4 DEF UpdateSellerOrderStatus
<1>5. ASSUME NEW w \in Handlers, Continue(w) PROVE TypeOK'
  <2>1. ASSUME NEW from \in Labels, NEW next \in Labels, RestockItem(w, from, next)
        PROVE  TypeOK'
    <3> PICK o \in handler[w].todo :
          restocked' = [restocked EXCEPT ![o][handler[w].item] =
                          IF @ < MaxRestocks THEN @ + 1 ELSE @]
      BY <2>1 DEF RestockItem
    <3>1. o \in Orders /\ handler[w].item \in Items
      BY DEF HandlerType
    <3>2. restocked' \in [Orders -> [Items -> 0..MaxRestocks]]
      BY <3>1, OrderLifecycleAssumption
    <3>3. handler' \in [Handlers -> HandlerType]
      <4>1. [handler[w] EXCEPT !.pc = next] \in HandlerType
        BY DEF HandlerType
      <4>2. handler[w].item # NItems
              => [handler[w] EXCEPT !.item = @ + 1] \in HandlerType
        <5> SUFFICES ASSUME handler[w].item # NItems
                     PROVE  [handler[w] EXCEPT !.item = @ + 1] \in HandlerType
          OBVIOUS
        <5>1. handler[w].item + 1 \in Items
          BY <3>1, OrderLifecycleAssumption DEF Items
        <5> QED
          BY <5>1 DEF HandlerType
      <4> QED
        BY <2>1, <4>1, <4>2 DEF RestockItem, LastItem
    <3> QED
      BY <2>1, <3>2, <3>3 DEF RestockItem
  <2>2. CASE UpdateSave(w)
    <3> PICK o \in handler[w].todo :
          SaveOrder(o, handler[w].seen[o], handler[w].target,
                    handler[w].seen[o].paymentStatus, handler[w].seen[o].refund)
      BY <2>2 DEF UpdateSave
    <3>1. /\ o \in Orders /\ handler[w].seen[o] \in OrderDoc
          /\ handler[w].target \in OrderStatus
      BY DEF HandlerType
    <3>2. /\ handler[w].seen[o].paymentStatus \in PaymentStatus
          /\ handler[w].seen[o].refund \in RefundStatus
      BY <3>1 DEF OrderDoc
    <3>3. order' \in [Orders -> OrderDoc]
      BY <3>1, <3>2, SaveOrderEffect
    <3> QED
      BY <2>2, <3>3, IdleType DEF UpdateSave, Finish
  <2>3. CASE MarkPaid(w)
    <3> PICK o \in handler[w].todo :
          /\ IF NotYetPaid(w, o)
             THEN /\ order' = [order EXCEPT
                       ![o].paymentStatus = "paid",
                       ![o].paidAt = TRUE,
                       ![o].status = IF handler[w].seen[o].status = "placed"
                                     THEN "confirmed" ELSE order[o].status]
                  /\ mails' = [mails EXCEPT ![o] = @ + 1]
             ELSE UNCHANGED <<order, mails>>
          /\ handler' = [handler EXCEPT ![w].todo = Remaining(w, o)]
      BY <2>3 DEF MarkPaid
    <3>1. o \in Orders
      BY DEF HandlerType
    <3>2. order' \in [Orders -> OrderDoc]
      <4> DEFINE d == [order[o] EXCEPT !.paymentStatus = "paid", !.paidAt = TRUE,
                         !.status = IF handler[w].seen[o].status = "placed"
                                    THEN "confirmed" ELSE order[o].status]
      <4>0. order[o] \in OrderDoc
        BY <3>1
      <4>1. d \in OrderDoc
        BY <4>0 DEF OrderDoc, OrderStatus, PaymentStatus
      <4>2. NotYetPaid(w, o) => order' = [order EXCEPT ![o] = d]
        BY <3>1
      <4> QED
        BY <3>1, <4>1, <4>2
    <3>3. mails' \in [Orders -> Nat]
      BY <3>1
    <3>4. handler' \in [Handlers -> HandlerType]
      BY DEF HandlerType, Remaining
    <3> QED
      BY <2>3, <3>2, <3>3, <3>4 DEF MarkPaid
  <2>4. CASE MarkFailed(w)
    <3> PICK o \in handler[w].todo :
          /\ SaveOrder(o, handler[w].seen[o], handler[w].seen[o].status, "failed",
                       handler[w].seen[o].refund)
          /\ NoteUnpaid(o)
          /\ handler' = [handler EXCEPT ![w].todo = @ \ {o}]
      BY <2>4 DEF MarkFailed
    <3>1. o \in Orders /\ handler[w].seen[o] \in OrderDoc
      BY DEF HandlerType
    <3>2. order' \in [Orders -> OrderDoc]
      BY <3>1, SaveOrderEffect DEF OrderDoc, PaymentStatus
    <3>3. unpaid' \in [Orders -> Nat]
      BY <3>1 DEF NoteUnpaid
    <3>4. handler' \in [Handlers -> HandlerType]
      BY DEF HandlerType
    <3> QED
      BY <2>4, <3>2, <3>3, <3>4 DEF MarkFailed
  <2>5. CASE AckWebhook(w)
    <3>1. acked' \in [Refs -> SUBSET EventKinds]
      BY <2>5 DEF AckWebhook, EventKinds
    <3> QED
      BY <2>5, <3>1, IdleType DEF AckWebhook, Finish
  <2>6. CASE PaystackRefund(w)
    <3>1. refunds' \in [Orders -> 0..MaxRefunds]
      BY <2>6, OrderLifecycleAssumption DEF PaystackRefund, RefundAccepted, HandlerType
    <3>2. ASSUME NEW label \in Labels, Goto(w, label)
          PROVE  handler' \in [Handlers -> HandlerType]
      <4>1. [handler[w] EXCEPT !.pc = label] \in HandlerType
        BY DEF HandlerType
      <4> QED
        BY <3>2, <4>1 DEF Goto
    <3>3. handler' \in [Handlers -> HandlerType]
      BY <2>6, <3>2, IdleType DEF PaystackRefund, Finish, Labels
    <3> QED
      BY <2>6, <3>1, <3>3 DEF PaystackRefund
  <2>7. CASE ApproveSave(w)
    <3> PICK o \in handler[w].todo :
          /\ SaveOrder(o, handler[w].seen[o], "returned", "refunded", "completed")
          /\ NoteUnpaid(o)
      BY <2>7 DEF ApproveSave
    <3>1. o \in Orders /\ handler[w].seen[o] \in OrderDoc
      BY DEF HandlerType
    <3>2. order' \in [Orders -> OrderDoc]
      BY <3>1, SaveOrderEffect DEF OrderStatus, PaymentStatus, RefundStatus
    <3>3. unpaid' \in [Orders -> Nat]
      BY <3>1 DEF NoteUnpaid
    <3> QED
      BY <2>7, <3>2, <3>3, IdleType DEF ApproveSave, Finish
  <2>8. ASSUME NEW from \in Labels, NEW to \in RefundStatus, RefundSave(w, from, to)
        PROVE  TypeOK'
    <3> PICK o \in handler[w].todo :
          SaveOrder(o, handler[w].seen[o], handler[w].seen[o].status,
                    handler[w].seen[o].paymentStatus, to)
      BY <2>8 DEF RefundSave
    <3>1. o \in Orders /\ handler[w].seen[o] \in OrderDoc
      BY DEF HandlerType
    <3>2. /\ handler[w].seen[o].paymentStatus \in PaymentStatus
          /\ handler[w].seen[o].status \in OrderStatus
      BY <3>1 DEF OrderDoc
    <3>3. order' \in [Orders -> OrderDoc]
      BY <3>1, <3>2, SaveOrderEffect
    <3> QED
      BY <2>8, <3>3, IdleType DEF RefundSave, Finish
  <2>9. /\ {"upd_restock", "upd_save", "apr_restock", "apr_save", "req_save",
            "rej_save"} \subseteq Labels
        /\ {"requested", "rejected"} \subseteq RefundStatus
    BY DEF Labels, RefundStatus
  <2> QED
    BY <1>5, <2>1, <2>2, <2>3, <2>4, <2>5, <2>6, <2>7, <2>8, <2>9 DEF Continue
<1>6. ASSUME NEW w \in Handlers, Crash(w) PROVE TypeOK'
  BY <1>6, IdleType, OrderLifecycleAssumption DEF Crash, Finish
<1>7. CASE UNCHANGED vars
  BY <1>7 DEF vars, lifeVars
<1> QED
  BY <1>2, <1>3, <1>4, <1>5, <1>6, <1>7 DEF Next

\* Every reachable state is of the declared types (TypeOK).
THEOREM TypeCorrect == Spec => []TypeOK
BY TypeInit, TypeStep, PTL DEF Spec

-----------------------------------------------------------------------------
(* Refunds follow payments.                                                *)
(*                                                                         *)
(* RefundFollowsPayment is not inductive: a handler acts on what it read   *)
(* some time ago.  What it read stays true in the part that matters:       *)
(* paidAt is never taken back, a refund workflow never returns to "none",  *)
(* an executed refund stays executed and an event stays emitted.           *)

\* What a request that is about to write has established about its orders.
Established(w, o) ==
  LET pc == handler[w].pc IN
  /\ pc = "req_save" => order[o].paidAt
  /\ pc \in {"apr_paystack", "apr_restock", "apr_save", "rej_save"}
       => order[o].refund # "none"
  /\ pc \in {"apr_restock", "apr_save"} => refunds[o] > 0
  /\ pc = "apr_paystack" => handler[w].todo = {o}
  /\ pc = "paid_loop" => RefOf[o] \in Refs /\ "charge.success" \in emitted[RefOf[o]]
  /\ pc = "fail_loop" => RefOf[o] \in Refs /\ "charge.failed" \in emitted[RefOf[o]]

PaymentInv ==
  /\ TypeOK
  /\ RefundFollowsPayment
  /\ \A o \in Orders : order[o].paymentStatus = "paid" => order[o].paidAt
  /\ \A w \in Handlers : \A o \in handler[w].todo : Established(w, o)

\* What no step takes back.
Monotone ==
  /\ \A o \in Orders :
       /\ order[o].paidAt => order'[o].paidAt
       /\ order[o].refund # "none" => order'[o].refund # "none"
       /\ refunds[o] > 0 => refunds'[o] > 0
  /\ \A r \in Refs : emitted[r] \subseteq emitted'[r]

\* PaymentInv holds at first: no request is in flight.
LEMMA PaymentInit == Init => PaymentInv
<1> SUFFICES ASSUME Init PROVE PaymentInv
  OBVIOUS
<1>1. TypeOK
  BY TypeInit
<1>2. RefundFollowsPayment
  <2>1. ASSUME NEW o \in Orders
        PROVE  /\ ~ order[o].paidAt /\ order[o].refund = "none"
               /\ ~ (refunds[o] > 0)
    BY DEF Init, NewOrder
  <2> QED
    BY <2>1 DEF RefundFollowsPayment
<1> QED
  BY <1>1, <1>2 DEF Init, PaymentInv, Established, NewOrder, Idle

\* A monotone step keeps what the requests have established, if those it
\* moves on have established what they need next.
LEMMA EstablishedKept ==
  ASSUME TypeOK, Monotone, NEW w \in Handlers, NEW o \in Orders, Established(w, o),
         o \in handler'[w].todo, handler'[w].todo \subseteq handler[w].todo,
         handler'[w].pc = handler[w].pc
  PROVE  Established(w, o)'
<1>1. RefOf[o] \in Refs => emitted[RefOf[o]] \subseteq emitted'[RefOf[o]]
  BY DEF Monotone
<1> QED
  BY <1>1 DEF Established, Monotone

LEMMA PaymentKept ==
  ASSUME PaymentInv, TypeOK', Monotone, RefundFollowsPayment',
         \A o \in Orders : order'[o].paymentStatus = "paid" => order'[o].paidAt,
         \A w \in Handlers : \A o \in handler'[w].todo :
           \/ /\ handler'[w].todo \subseteq handler[w].todo
              /\ handler'[w].pc = handler[w].pc
           \/ Established(w, o)'
  PROVE  PaymentInv'
<1>1. ASSUME NEW w \in Handlers, NEW o \in handler'[w].todo
      PROVE  Established(w, o)'
  <2>1. CASE handler'[w].todo \subseteq handler[w].todo /\ handler'[w].pc = handler[w].pc
    <3>1. TypeOK /\ Established(w, o)
      BY <2>1 DEF PaymentInv
    <3>2. o \in Orders
      BY <2>1, <3>1 DEF TypeOK, HandlerType
    <3> QED
      BY <2>1, <3>1, <3>2, EstablishedKept
  <2> QED
    BY <2>1, <1>1
<1> QED
  BY <1>1 DEF PaymentInv

\* A step that leaves the documents, the refunds and the events alone keeps
\* PaymentInv, if no request begins to rely on something new.
LEMMA PaymentUnchanged ==
  ASSUME PaymentInv, TypeOK', UNCHANGED <<order, refunds>>,
         \A r \in Refs : emitted[r] \subseteq emitted'[r],
         \A w \in Handlers : \A o \in handler'[w].todo :
           \/ /\ handler'[w].todo \subseteq handler[w].todo
              /\ handler'[w].pc = handler[w].pc
           \/ Established(w, o)'
  PROVE  PaymentInv'
<1>1. Monotone
  BY DEF Monotone
<1>2. RefundFollowsPayment'
  BY DEF PaymentInv, RefundFollowsPayment
<1>3. \A o \in Orders : order'[o].paymentStatus = "paid" => order'[o].paidAt
  BY DEF PaymentInv
<1> QED
  BY <1>1, <1>2, <1>3, PaymentKept

\* One document is written: what has to hold of it.
LEMMA PaymentWritten ==
  ASSUME PaymentInv, TypeOK', UNCHANGED <<refunds, emitted>>, NEW o \in Orders,
         \A q \in Orders : q # o => order'[q] = order[q],
         order[o].paidAt => order'[o].paidAt,
         order'[o].paidAt => RefOf[o] \in Refs /\ "charge.success" \in emitted[RefOf[o]],
         order'[o].paymentStatus = "paid" => order'[o].paidAt,
         order[o].refund # "none" => order'[o].refund # "none",
         order'[o].refund # "none" => order'[o].paidAt,
         order'[o].refund = "completed" => refunds[o] > 0,
         \A w \in Handlers :
           \/ handler'[w].todo = {}
           \/ handler'[w].pc = handler[w].pc /\ handler'[w].todo \subseteq handler[w].todo
  PROVE  PaymentInv'
<1>1. Monotone
  BY DEF Monotone
<1>2. RefundFollowsPayment'
  BY DEF PaymentInv, RefundFollowsPayment, Monotone
<1>3. \A q \in Orders : order'[q].paymentStatus = "paid" => order'[q].paidAt
  BY DEF PaymentInv
<1> QED
  BY <1>1, <1>2, <1>3, PaymentKept

\* A request begins: what it reads establishes what it will rely on.
LEMMA StartKeepsPaymentInv ==
  ASSUME PaymentInv, TypeOK', NEW w \in Handlers, NEW label \in Labels,
         NEW S \in SUBSET Orders, NEW target, NEW ref, Start(w, label, S, target, ref),
         \A o \in S :
           /\ label = "req_save" => order[o].paidAt
           /\ label \in {"apr_paystack", "apr_restock", "apr_save", "rej_save"}
                => order[o].refund # "none"
           /\ label \in {"apr_restock", "apr_save"} => refunds[o] > 0
           /\ label = "apr_paystack" => S = {o}
           /\ label = "paid_loop" => RefOf[o] \in Refs /\ "charge.success" \in emitted[RefOf[o]]
           /\ label = "fail_loop" => RefOf[o] \in Refs /\ "charge.failed" \in emitted[RefOf[o]]
  PROVE  PaymentInv'
<1>1. /\ UNCHANGED <<order, refunds, emitted>>
      /\ handler'[w].pc = label /\ handler'[w].todo = S
      /\ \A v \in Handlers : v # w => handler'[v] = handler[v]
  BY DEF Start, PaymentInv, TypeOK
<1>2. \A o \in S : Established(w, o)'
  BY <1>1 DEF Established
<1> QED
  BY <1>1, <1>2, PaymentUnchanged

\* Every step keeps PaymentInv.
LEMMA PaymentStep == PaymentInv /\ [Next]_vars => PaymentInv'
<1> SUFFICES ASSUME PaymentInv, [Next]_vars PROVE PaymentInv'
  OBVIOUS
<1>0. TypeOK /\ TypeOK'
  BY TypeStep DEF PaymentInv
<1>1. ASSUME NEW r \in Refs, NEW kind \in EventKinds, Charge(r, kind) PROVE PaymentInv'
  BY <1>0, <1>1, PaymentUnchanged DEF Charge, TypeOK
<1>2. ASSUME NEW w \in Handlers, Webhook(w) PROVE PaymentInv'
  <2> PICK r \in Refs, kind \in EventKinds : Deliver(w, r, kind)
    BY <1>2 DEF Webhook
  <2>1. \A o \in OrdersOf(r) : o \in Orders /\ RefOf[o] = r
    BY DEF OrdersOf
  <2>2. /\ kind = "charge.success" => "charge.success" \in emitted[r]
        /\ OrdersOf(r) \in SUBSET Orders
    BY DEF Deliver, OrdersOf
  <2>3. CASE kind = "charge.success"
    <3>1. Start(w, "paid_loop", OrdersOf(r), "placed", r)
      BY <2>3 DEF Deliver
    <3> QED
      BY <1>0, <2>1, <2>2, <2>3, <3>1, StartKeepsPaymentInv DEF Labels
  <2>4. CASE kind # "charge.success"
    <3>1. Start(w, "fail_loop", OrdersOf(r), "placed", r)
      BY <2>4 DEF Deliver
    <3>2. "charge.failed" \in emitted[r]
      BY <2>4 DEF Deliver, EventKinds
    <3> QED
      BY <1>0, <2>1, <2>2, <2>4, <3>1, <3>2, StartKeepsPaymentInv DEF Labels
  <2> QED
    BY <2>3, <2>4
<1>3. ASSUME NEW w \in Handlers, Request(w) PROVE PaymentInv'
  <2> PICK o \in Orders :
        \/ \E to \in Targets : UpdateOrderStatus(w, o, to)
        \/ \E to \in Targets, s \in Sellers : UpdateSellerOrderStatus(w, s, o, to)
        \/ RequestRefund(w, o)
        \/ ApproveRefund(w, o)
        \/ RejectRefund(w, o)
    BY <1>3 DEF Request
  <2>1. ASSUME NEW to \in Targets, UpdateOrderStatus(w, o, to) PROVE PaymentInv'
    BY <1>0, <2>1, StartKeepsPaymentInv DEF UpdateOrderStatus, Labels
  <2>2. CASE RequestRefund(w, o)
    <3>1. order[o].paidAt
      BY <2>2 DEF RequestRefund, Refundable, PaymentInv
    <3> QED
      BY <1>0, <2>2, <3>1, StartKeepsPaymentInv DEF RequestRefund, Labels
  <2>3. CASE ApproveRefund(w, o)
    <3>1. order[o].refund # "none"
      BY <2>3 DEF ApproveRefund
    <3>2. RefOf[o] \in Refs
      BY <3>1 DEF PaymentInv, RefundFollowsPayment
    <3>3. Start(w, "apr_paystack", {o}, "returned", NoRef)
      BY <2>3, <3>2, OrderDocsAssumption DEF ApproveRefund
    <3> QED
      BY <1>0, <3>1, <3>3, StartKeepsPaymentInv DEF Labels
  <2>4. CASE RejectRefund(w, o)
    BY <1>0, <2>4, StartKeepsPaymentInv DEF RejectRefund, Labels
  <2> QED
    BY <2>1, <2>2, <2>3, <2>4 DEF UpdateSellerOrderStatus
<1>4. ASSUME NEW w \in Handlers, Continue(w) PROVE PaymentInv'
  <2> DEFINE pc == handler[w].pc
  <2>0. \A o \in handler[w].todo :
          o \in Orders /\ handler[w].seen[o] \in OrderDoc /\ order[o] \in OrderDoc
            /\ Established(w, o)
    BY <1>0 DEF TypeOK, HandlerType, PaymentInv
  <2>1. ASSUME Finish(w), UNCHANGED <<order, refunds, emitted>> PROVE PaymentInv'
    BY <1>0, <2>1, PaymentUnchanged DEF Finish, Idle, TypeOK
  <2>2. CASE RestockItem(w, "upd_restock", "upd_save")
    <3>1. /\ UNCHANGED <<order, refunds, emitted>>
          /\ handler'[w].todo = handler[w].todo
          /\ handler'[w].pc \in {"upd_restock", "upd_save"}
          /\ \A v \in Handlers : v # w => handler'[v] = handler[v]
      BY <1>0, <2>2 DEF RestockItem, TypeOK, HandlerType
    <3>2. \A o \in handler'[w].todo : Established(w, o)'
      BY <3>1 DEF Established
    <3> QED
      BY <1>0, <3>1, <3>2, PaymentUnchanged
  <2>3. CASE RestockItem(w, "apr_restock", "apr_save")
    <3>1. /\ UNCHANGED <<order, refunds, emitted>>
          /\ handler'[w].todo = handler[w].todo
          /\ pc = "apr_restock"
          /\ handler'[w].pc \in {"apr_restock", "apr_save"}
          /\ \A v \in Handlers : v # w => handler'[v] = handler[v]
      BY <1>0, <2>3 DEF RestockItem, TypeOK, HandlerType
    <3>2. \A o \in handler'[w].todo : Established(w, o)'
      BY <2>0, <3>1 DEF Established
    <3> QED
      BY <1>0, <3>1, <3>2, PaymentUnchanged
  <2>4. CASE UpdateSave(w)
    <3> PICK o \in handler[w].todo :
          SaveOrder(o, handler[w].seen[o], handler[w].target,
                    handler[w].seen[o].paymentStatus, handler[w].seen[o].refund)
      BY <2>4 DEF UpdateSave
    <3> DEFINE read == handler[w].seen[o]
    <3>1. /\ o \in Orders /\ read \in OrderDoc /\ handler[w].target \in OrderStatus
          /\ read.paymentStatus \in PaymentStatus /\ read.refund \in RefundStatus
      BY <1>0, <2>0 DEF TypeOK, HandlerType, OrderDoc
    <3>2. /\ \A q \in Orders : q # o => order'[q] = order[q]
          /\ order'[o].paymentStatus = order[o].paymentStatus
          /\ order'[o].refund = order[o].refund
          /\ order'[o].paidAt = order[o].paidAt
      BY <1>0, <2>0, <3>1, SaveOrderEffect, SavedDoc DEF TypeOK, Path
    <3>3. \A v \in Handlers : handler'[v] = handler[v] \/ handler'[v].todo = {}
      BY <1>0, <2>4 DEF UpdateSave, Finish, Idle, TypeOK
    <3> QED
      BY <1>0, <2>4, <3>1, <3>2, <3>3, PaymentWritten
         DEF UpdateSave, PaymentInv, RefundFollowsPayment
  <2>5. CASE MarkPaid(w)
    <3> PICK o \in handler[w].todo :
          /\ IF NotYetPaid(w, o)
             THEN /\ order' = [order EXCEPT
                       ![o].paymentStatus = "paid",
                       ![o].paidAt = TRUE,
                       ![o].status = IF handler[w].seen[o].status = "placed"
                                     THEN "confirmed" ELSE order[o].status]
                  /\ mails' = [mails EXCEPT ![o] = @ + 1]
             ELSE UNCHANGED <<order, mails>>
          /\ handler' = [handler EXCEPT ![w].todo = Remaining(w, o)]
      BY <2>5 DEF MarkPaid
    <3>1. /\ o \in Orders /\ RefOf[o] \in Refs
          /\ "charge.success" \in emitted[RefOf[o]]
      BY <2>0, <2>5 DEF MarkPaid, Established
    <3>2. \A v \in Handlers :
            handler'[v].pc = handler[v].pc /\ handler'[v].todo \subseteq handler[v].todo
      BY <1>0 DEF TypeOK, HandlerType, Remaining
    <3>3. CASE NotYetPaid(w, o)
      <4>1. /\ \A q \in Orders : q # o => order'[q] = order[q]
            /\ order'[o].paidAt
            /\ order'[o].refund = order[o].refund
        BY <1>0, <3>1, <3>3, <2>0 DEF TypeOK, OrderDoc
      <4> QED
        BY <1>0, <2>5, <3>1, <3>2, <4>1, PaymentWritten
           DEF MarkPaid, PaymentInv, RefundFollowsPayment
    <3>4. CASE ~ NotYetPaid(w, o)
      BY <1>0, <2>5, <3>2, <3>4, PaymentUnchanged DEF MarkPaid
    <3> QED
      BY <3>3, <3>4
  <2>6. CASE MarkFailed(w)
    <3> PICK o \in handler[w].todo :
          /\ SaveOrder(o, handler[w].seen[o], handler[w].seen[o].status, "failed",
                       handler[w].seen[o].refund)
          /\ handler' = [handler EXCEPT ![w].todo = @ \ {o}]
      BY <2>6 DEF MarkFailed
    <3> DEFINE read == handler[w].seen[o]
    <3>1. /\ o \in Orders /\ read \in OrderDoc
          /\ read.status \in OrderStatus /\ read.refund \in RefundStatus
      BY <2>0 DEF OrderDoc
    <3>2. /\ \A q \in Orders : q # o => order'[q] = order[q]
          /\ order'[o].paymentStatus = "paid" => order[o].paymentStatus = "paid"
          /\ order'[o].refund = order[o].refund
          /\ order'[o].paidAt = order[o].paidAt
      <4>1. "failed" \in PaymentStatus /\ order[o] \in OrderDoc
        BY <2>0 DEF PaymentStatus
      <4> DEFINE d == Saved(read, order[o], read.status, "failed", read.refund)
      <4>2. /\ d.paymentStatus = Path(read.paymentStatus, "failed", order[o].paymentStatus)
            /\ d.refund = Path(read.refund, read.refund, order[o].refund)
            /\ d.paidAt = order[o].paidAt
        BY <3>1, <4>1, SavedDoc
      <4>3. /\ order'[o] = d
            /\ \A q \in Orders : q # o => order'[q] = order[q]
        BY <1>0, <3>1, <4>1, SaveOrderEffect DEF TypeOK
      <4> HIDE DEF d
      <4> QED
        BY <4>2, <4>3 DEF Path
    <3>3. \A v \in Handlers :
            handler'[v].pc = handler[v].pc /\ handler'[v].todo \subseteq handler[v].todo
      BY <1>0 DEF TypeOK, HandlerType
    <3> QED
      BY <1>0, <2>6, <3>1, <3>2, <3>3, PaymentWritten
         DEF MarkFailed, PaymentInv, RefundFollowsPayment
  <2>7. CASE AckWebhook(w)
    BY <2>1, <2>7 DEF AckWebhook
  <2>8. CASE PaystackRefund(w)
    <3> PICK o \in handler[w].todo :
          \/ /\ RefundAccepted(o)
             /\ Goto(w, IF handler[w].seen[o].status \notin {"cancelled", "returned"}
                        THEN "apr_restock" ELSE "apr_save")
          \/ RefundAccepted(o) /\ Finish(w)
          \/ UNCHANGED refunds /\ Finish(w)
      BY <2>8 DEF PaystackRefund
    <3>1. /\ o \in Orders /\ order[o].refund # "none"
          /\ UNCHANGED <<order, emitted>>
      BY <2>0, <2>8 DEF PaystackRefund, Established
    <3>2. /\ \A q \in Orders : refunds[q] > 0 => refunds'[q] > 0
          /\ \A q \in Orders : q # o => refunds'[q] = refunds[q]
      BY <1>0, <3>1, OrderLifecycleAssumption DEF RefundAccepted, TypeOK
    <3>3. Monotone
      BY <3>1, <3>2 DEF Monotone
    <3>4. RefundFollowsPayment'
      BY <3>1, <3>2 DEF PaymentInv, RefundFollowsPayment
    <3>5. \A q \in Orders : order'[q].paymentStatus = "paid" => order'[q].paidAt
      BY <3>1 DEF PaymentInv
    <3>6. ASSUME NEW v \in Handlers, NEW q \in handler'[v].todo
          PROVE  \/ /\ handler'[v].todo \subseteq handler[v].todo
                    /\ handler'[v].pc = handler[v].pc
                 \/ Established(v, q)'
      <4>1. CASE v # w
        BY <1>0, <4>1 DEF Goto, Finish, TypeOK
      <4>2. CASE v = w
        <5>1. /\ RefundAccepted(o)
              /\ handler'[w].pc \in {"apr_restock", "apr_save"}
              /\ handler'[w].todo = handler[w].todo
          BY <1>0, <4>2, <3>6 DEF Goto, Finish, TypeOK, HandlerType, Idle
        <5>2. q = o
          BY <2>0, <2>8, <3>6, <4>2, <5>1 DEF PaystackRefund, Established
        <5>3. refunds'[o] > 0
          BY <1>0, <3>1, <5>1, OrderLifecycleAssumption DEF RefundAccepted, TypeOK
        <5> QED
          BY <3>1, <4>2, <5>1, <5>2, <5>3 DEF Established
      <4> QED
        BY <4>1, <4>2
    <3> QED
      BY <1>0, <3>3, <3>4, <3>5, <3>6, PaymentKept
  <2>9. CASE ApproveSave(w)
    <3> PICK o \in handler[w].todo :
          SaveOrder(o, handler[w].seen[o], "returned", "refunded", "completed")
      BY <2>9 DEF ApproveSave
    <3> DEFINE read == handler[w].seen[o]
               d == Saved(read, order[o], "returned", "refunded", "completed")
    <3>1. /\ o \in Orders /\ read \in OrderDoc /\ order[o] \in OrderDoc
          /\ order[o].refund # "none" /\ refunds[o] > 0
      BY <2>0, <2>9 DEF ApproveSave, Established
    <3>2. /\ "returned" \in OrderStatus /\ "refunded" \in PaymentStatus
          /\ "completed" \in RefundStatus
      BY DEF OrderStatus, PaymentStatus, RefundStatus
    <3>3. /\ d.paymentStatus = Path(read.paymentStatus, "refunded", order[o].paymentStatus)
          /\ d.refund = Path(read.refund, "completed", order[o].refund)
          /\ d.paidAt = order[o].paidAt
      BY <3>1, <3>2, SavedDoc
    <3>4. /\ order'[o] = d
          /\ \A q \in Orders : q # o => order'[q] = order[q]
      BY <1>0, <3>1, <3>2, SaveOrderEffect DEF TypeOK
    <3> HIDE DEF d
    <3>5. /\ order'[o].paymentStatus = "paid" => order[o].paymentStatus = "paid"
          /\ order'[o].refund # "none"
          /\ order'[o].paidAt = order[o].paidAt
      BY <3>1, <3>3, <3>4 DEF Path
    <3>6. \A v \in Handlers : handler'[v] = handler[v] \/ handler'[v].todo = {}
      BY <1>0, <2>9 DEF ApproveSave, Finish, Idle, TypeOK
    <3> QED
      BY <1>0, <2>9, <3>1, <3>4, <3>5, <3>6, PaymentWritten
         DEF ApproveSave, PaymentInv, RefundFollowsPayment
  <2>10. ASSUME NEW from \in {"req_save", "rej_save"}, NEW to \in {"requested", "rejected"},
                RefundSave(w, from, to)
         PROVE  PaymentInv'
    <3> PICK o \in handler[w].todo :
          SaveOrder(o, handler[w].seen[o], handler[w].seen[o].status,
                    handler[w].seen[o].paymentStatus, to)
      BY <2>10 DEF RefundSave
    <3> DEFINE read == handler[w].seen[o]
               d == Saved(read, order[o], read.status, read.paymentStatus, to)
    <3>1. /\ o \in Orders /\ read \in OrderDoc /\ order[o] \in OrderDoc
          /\ order[o].paidAt
      BY <2>0, <2>10 DEF RefundSave, Established, PaymentInv, RefundFollowsPayment
    <3>2. /\ read.status \in OrderStatus /\ read.paymentStatus \in PaymentStatus
          /\ to \in RefundStatus
      BY <3>1 DEF OrderDoc, RefundStatus
    <3>3. /\ d.paymentStatus = Path(read.paymentStatus, read.paymentStatus,
                                    order[o].paymentStatus)
          /\ d.refund = Path(read.refund, to, order[o].refund)
          /\ d.paidAt = order[o].paidAt
      <4>1. read \in OrderDoc /\ order[o] \in OrderDoc
        BY <3>1
      <4> QED
        BY <3>2, <4>1, SavedDoc
    <3>4. /\ order'[o] = d
          /\ \A q \in Orders : q # o => order'[q] = order[q]
      BY <1>0, <3>1, <3>2, SaveOrderEffect DEF TypeOK
    <3> HIDE DEF d
    <3>5. /\ order'[o].paidAt
          /\ order[o].refund # "none" => order'[o].refund # "none"
          /\ order'[o].refund = "completed" => order[o].refund = "completed"
      BY <3>1, <3>3, <3>4 DEF Path
    <3>6. \A v \in Handlers : handler'[v] = handler[v] \/ handler'[v].todo = {}
      BY <1>0, <2>10 DEF RefundSave, Finish, Idle, TypeOK
    <3> QED
      BY <1>0, <2>10, <3>1, <3>4, <3>5, <3>6, PaymentWritten
         DEF RefundSave, PaymentInv, RefundFollowsPayment
  <2> QED
    BY <1>4, <2>2, <2>3, <2>4, <2>5, <2>6, <2>7, <2>8, <2>9, <2>10 DEF Continue
<1>5. ASSUME NEW w \in Handlers, Crash(w) PROVE PaymentInv'
  BY <1>0, <1>5, PaymentUnchanged DEF Crash, Finish, Idle, TypeOK
<1>6. CASE UNCHANGED vars
  BY <1>0, <1>6, PaymentUnchanged DEF vars, lifeVars
<1> QED
  BY <1>1, <1>2, <1>3, <1>4, <1>5, <1>6 DEF Next

\* No order is refunded that was not charged and asked for, and no refund is
\* recorded that Paystack did not execute (RefundFollowsPayment).
THEOREM RefundSafety == Spec => []RefundFollowsPayment
<1>1. PaymentInv => RefundFollowsPayment
  BY DEF PaymentInv
<1> QED
  BY <1>1, PaymentInit, PaymentStep, PTL DEF Spec

-----------------------------------------------------------------------------
(* One confirmation per payment.                                           *)
(*                                                                         *)
(* OneMailPerPayment is inductive together with TypeOK: a document enters  *)
(* "paid" only in the compare-and-set, which sends the mail, and a save of *)
(* a stale document writes a payment status only to leave "paid".          *)

Paid(o) == order[o].paymentStatus = "paid"

\* A step that sends no mail and changes no payment keeps the balance.
LEMMA MailUnchanged ==
  ASSUME OneMailPerPayment, UNCHANGED <<mails, unpaid>>,
         \A o \in Orders : order'[o].paymentStatus = order[o].paymentStatus
  PROVE  OneMailPerPayment'
BY DEF OneMailPerPayment

\* A save of one document that counts its way out of "paid" keeps it.
LEMMA MailSaved ==
  ASSUME TypeOK, OneMailPerPayment, UNCHANGED mails, NEW o \in Orders, NoteUnpaid(o),
         \A q \in Orders : q # o => order'[q] = order[q],
         Paid(o)' => Paid(o)
  PROVE  OneMailPerPayment'
<1>1. CASE Paid(o) /\ ~ Paid(o)'
  <2>1. unpaid' = [unpaid EXCEPT ![o] = @ + 1]
    BY <1>1 DEF NoteUnpaid, Paid
  <2> QED
    BY <1>1, <2>1 DEF OneMailPerPayment, Paid, TypeOK
<1>2. CASE Paid(o) = Paid(o)'
  <2>1. UNCHANGED unpaid
    BY <1>2 DEF NoteUnpaid, Paid
  <2> QED
    BY <1>2, <2>1 DEF OneMailPerPayment, Paid
<1> QED
  BY <1>1, <1>2 DEF Paid

LEMMA MailStep == TypeOK /\ OneMailPerPayment /\ [Next]_vars => OneMailPerPayment'
<1> SUFFICES ASSUME TypeOK, OneMailPerPayment, [Next]_vars PROVE OneMailPerPayment'
  OBVIOUS
<1>1. ASSUME UNCHANGED <<order, mails, unpaid>> PROVE OneMailPerPayment'
  BY <1>1, MailUnchanged
<1>2. ASSUME NEW w \in Handlers, Webhook(w) PROVE OneMailPerPayment'
  BY <1>1, <1>2 DEF Webhook, Deliver, Start
<1>3. ASSUME NEW w \in Handlers, Request(w) PROVE OneMailPerPayment'
  BY <1>1, <1>3 DEF Request, UpdateSellerOrderStatus, UpdateOrderStatus, RequestRefund,
                    ApproveRefund, RejectRefund, Start
<1>4. ASSUME NEW w \in Handlers, Continue(w) PROVE OneMailPerPayment'
  <2>0. \A o \in handler[w].todo :
          o \in Orders /\ handler[w].seen[o] \in OrderDoc /\ order[o] \in OrderDoc
    BY DEF TypeOK, HandlerType
  <2>1. ASSUME NEW from, NEW next, RestockItem(w, from, next) PROVE OneMailPerPayment'
    BY <1>1, <2>1 DEF RestockItem
  <2>2. ASSUME NEW o \in Orders, NEW read \in OrderDoc, NEW s \in OrderStatus,
               NEW f \in RefundStatus, SaveOrder(o, read, s, read.paymentStatus, f),
               UNCHANGED <<mails, unpaid>>
        PROVE  OneMailPerPayment'
    <3>1. read.paymentStatus \in PaymentStatus /\ order[o] \in OrderDoc
      BY DEF OrderDoc, TypeOK
    <3>2. Saved(read, order[o], s, read.paymentStatus, f).paymentStatus
            = Path(read.paymentStatus, read.paymentStatus, order[o].paymentStatus)
      BY <3>1, SavedDoc
    <3>3. /\ \A q \in Orders : q # o => order'[q] = order[q]
          /\ order'[o] = Saved(read, order[o], s, read.paymentStatus, f)
      BY <2>2, <3>1, SaveOrderEffect DEF TypeOK
    <3>4. \A q \in Orders : order'[q].paymentStatus = order[q].paymentStatus
      BY <3>2, <3>3 DEF Path
    <3> QED
      BY <2>2, <3>4, MailUnchanged
  <2>3. ASSUME NEW o \in Orders, NEW read \in OrderDoc, NEW s \in OrderStatus,
               NEW p \in {"failed", "refunded"}, NEW f \in RefundStatus,
               SaveOrder(o, read, s, p, f), NoteUnpaid(o), UNCHANGED mails
        PROVE  OneMailPerPayment'
    <3>1. p \in PaymentStatus /\ order[o] \in OrderDoc
      BY DEF PaymentStatus, TypeOK
    <3>2. Saved(read, order[o], s, p, f).paymentStatus
            = Path(read.paymentStatus, p, order[o].paymentStatus)
      BY <3>1, SavedDoc
    <3>3. /\ \A q \in Orders : q # o => order'[q] = order[q]
          /\ order'[o] = Saved(read, order[o], s, p, f)
      BY <2>3, <3>1, SaveOrderEffect DEF TypeOK
    <3>4. Paid(o)' => Paid(o)
      BY <3>2, <3>3 DEF Path, Paid
    <3> QED
      BY <2>3, <3>3, <3>4, MailSaved
  <2>4. CASE UpdateSave(w)
    <3> PICK o \in handler[w].todo :
          SaveOrder(o, handler[w].seen[o], handler[w].target,
                    handler[w].seen[o].paymentStatus, handler[w].seen[o].refund)
      BY <2>4 DEF UpdateSave
    <3>1. handler[w].target \in OrderStatus /\ handler[w].seen[o].refund \in RefundStatus
      BY <2>0 DEF TypeOK, HandlerType, OrderDoc
    <3> QED
      BY <2>0, <2>2, <2>4, <3>1 DEF UpdateSave
  <2>5. ASSUME NEW from, NEW to \in {"requested", "rejected"}, RefundSave(w, from, to)
        PROVE  OneMailPerPayment'
    <3> PICK o \in handler[w].todo :
          SaveOrder(o, handler[w].seen[o], handler[w].seen[o].status,
                    handler[w].seen[o].paymentStatus, to)
      BY <2>5 DEF RefundSave
    <3>1. handler[w].seen[o].status \in OrderStatus /\ to \in RefundStatus
      BY <2>0 DEF OrderDoc, RefundStatus
    <3> QED
      BY <2>0, <2>2, <2>5, <3>1 DEF RefundSave
  <2>6. CASE MarkFailed(w)
    <3> PICK o \in handler[w].todo :
          /\ SaveOrder(o, handler[w].seen[o], handler[w].seen[o].status, "failed",
                       handler[w].seen[o].refund)
          /\ NoteUnpaid(o)
      BY <2>6 DEF MarkFailed
    <3>1. handler[w].seen[o].status \in OrderStatus /\ handler[w].seen[o].refund \in RefundStatus
      BY <2>0 DEF OrderDoc
    <3> QED
      BY <2>0, <2>3, <2>6, <3>1 DEF MarkFailed
  <2>7. CASE ApproveSave(w)
    <3> PICK o \in handler[w].todo :
          /\ SaveOrder(o, handler[w].seen[o], "returned", "refunded", "completed")
          /\ NoteUnpaid(o)
      BY <2>7 DEF ApproveSave
    <3>1. "returned" \in OrderStatus /\ "completed" \in RefundStatus
      BY DEF OrderStatus, RefundStatus
    <3> QED
      BY <2>0, <2>3, <2>7, <3>1 DEF ApproveSave
  <2>8. CASE MarkPaid(w)
    <3> PICK o \in handler[w].todo :
          IF NotYetPaid(w, o)
          THEN /\ order' = [order EXCEPT
                    ![o].paymentStatus = "paid",
                    ![o].paidAt = TRUE,
                    ![o].status = IF handler[w].seen[o].status = "placed"
                                  THEN "confirmed" ELSE order[o].status]
               /\ mails' = [mails EXCEPT ![o] = @ + 1]
          ELSE UNCHANGED <<order, mails>>
      BY <2>8 DEF MarkPaid
    <3>1. CASE NotYetPaid(w, o)
      <4>1. /\ \A q \in Orders : q # o => order'[q] = order[q] /\ mails'[q] = mails[q]
            /\ order'[o].paymentStatus = "paid"
            /\ mails'[o] = mails[o] + 1
            /\ UNCHANGED unpaid
        BY <2>0, <2>8, <3>1 DEF TypeOK, OrderDoc, MarkPaid
      <4>2. order[o].paymentStatus # "paid"
        BY <3>1 DEF NotYetPaid
      <4> QED
        BY <2>0, <4>1, <4>2 DEF OneMailPerPayment, TypeOK
    <3>2. CASE ~ NotYetPaid(w, o)
      BY <1>1, <2>8, <3>2 DEF MarkPaid
    <3> QED
      BY <3>1, <3>2
  <2>9. CASE AckWebhook(w) \/ PaystackRefund(w)
    BY <1>1, <2>9 DEF AckWebhook, PaystackRefund
  <2> QED
    BY <1>4, <2>1, <2>4, <2>5, <2>6, <2>7, <2>8, <2>9 DEF Continue
<1>5. ASSUME NEW w \in Handlers, Crash(w) PROVE OneMailPerPayment'
  BY <1>1, <1>5 DEF Crash
<1>6. ASSUME NEW r \in Refs, NEW kind \in EventKinds, Charge(r, kind)
      PROVE  OneMailPerPayment'
  BY <1>1, <1>6 DEF Charge
<1>7. CASE UNCHANGED vars
  BY <1>1, <1>7 DEF vars, lifeVars
<1> QED
  BY <1>2, <1>3, <1>4, <1>5, <1>6, <1>7 DEF Next

LEMMA MailInit == Init => OneMailPerPayment
<1> SUFFICES ASSUME Init, NEW o \in Orders
             PROVE  mails[o] = unpaid[o] + (IF order[o].paymentStatus = "paid" THEN 1 ELSE 0)
  BY DEF OneMailPerPayment
<1>1. mails[o] = 0 /\ unpaid[o] = 0 /\ order[o].paymentStatus = "pending"
  BY DEF Init, NewOrder
<1> QED
  BY <1>1

\* A customer gets one confirmation per passage into "paid", whatever races
\* and whatever is delivered again (OneMailPerPayment).
THEOREM MailSafety == Spec => []OneMailPerPayment
BY MailInit, TypeInit, TypeStep, MailStep, PTL DEF Spec

-----------------------------------------------------------------------------
(* What a step can do to a document.                                       *)

\* Some request is at this label with o among its orders, and P of it.
Writing(w, o, label) == handler[w].pc = label /\ o \in handler[w].todo

\* A step takes back neither paidAt nor a tracked status and leaves the
\* payout alone; it changes the payment status only as the webhook and the
\* approval of a refund do, and cancels only in updateOrderStatus.
DocStep(o) ==
  LET old == order[o]  new == order'[o] IN
  /\ new.payout = old.payout
  /\ old.tracked \subseteq new.tracked
  /\ old.paidAt => new.paidAt
  /\ new.paidAt => old.paidAt \/ new.paymentStatus = "paid"
  /\ \/ new.paymentStatus = old.paymentStatus
     \/ \E w \in Handlers : new.paymentStatus = "paid" /\ Writing(w, o, "paid_loop")
     \/ \E w \in Handlers : new.paymentStatus = "failed" /\ Writing(w, o, "fail_loop")
     \/ \E w \in Handlers : new.paymentStatus = "refunded" /\ Writing(w, o, "apr_save")
  /\ \/ new.status = old.status
     \/ new.status = "confirmed"
     \/ new.status \in new.tracked
  /\ \/ new.status # "cancelled"
     \/ old.status = "cancelled"
     \/ \E w \in Handlers : /\ Writing(w, o, "upd_save")
                            /\ handler[w].target = "cancelled"
                            /\ handler[w].seen[o].status # "cancelled"

LEMMA UntouchedDoc ==
  ASSUME NEW o \in Orders, order'[o] = order[o]
  PROVE  DocStep(o)
BY DEF DocStep

\* A save keeps to DocStep, if the handler may want what it saves.
LEMMA SavedDocStep ==
  ASSUME TypeOK, NEW w \in Handlers, NEW o \in handler[w].todo, NEW s \in OrderStatus,
         NEW p \in PaymentStatus, NEW f \in RefundStatus,
         SaveOrder(o, handler[w].seen[o], s, p, f),
         \/ p = handler[w].seen[o].paymentStatus
         \/ p = "failed" /\ handler[w].pc = "fail_loop"
         \/ p = "refunded" /\ handler[w].pc = "apr_save",
         \/ s \in {handler[w].seen[o].status, "returned"}
         \/ s = handler[w].target /\ handler[w].pc = "upd_save"
  PROVE  \A q \in Orders : DocStep(q)
<1> DEFINE read == handler[w].seen[o]
           d == Saved(read, order[o], s, p, f)
<1>1. o \in Orders /\ read \in OrderDoc /\ order[o] \in OrderDoc
  BY DEF TypeOK, HandlerType
<1>2. /\ d.status = Path(read.status, s, order[o].status)
      /\ d.paymentStatus = Path(read.paymentStatus, p, order[o].paymentStatus)
      /\ d.paidAt = order[o].paidAt
      /\ d.payout = order[o].payout
      /\ d.tracked = order[o].tracked \cup (IF s = read.status THEN {} ELSE {s})
  <2> HIDE DEF read
  <2> QED
    BY <1>1, SavedDoc
<1>3. /\ order'[o] = d
      /\ \A q \in Orders : q # o => order'[q] = order[q]
  BY <1>1, SaveOrderEffect DEF TypeOK
<1> HIDE DEF d
<1>4. DocStep(o)
  BY <1>2, <1>3 DEF DocStep, Path, Writing
<1> QED
  BY <1>1, <1>3, <1>4, UntouchedDoc

LEMMA DocSteps ==
  ASSUME TypeOK, [Next]_vars
  PROVE  \A o \in Orders : DocStep(o)
<1>1. ASSUME UNCHANGED order PROVE \A o \in Orders : DocStep(o)
  BY <1>1, UntouchedDoc
<1>2. ASSUME NEW w \in Handlers, Continue(w) PROVE \A o \in Orders : DocStep(o)
  <2>0. \A o \in handler[w].todo :
          o \in Orders /\ handler[w].seen[o] \in OrderDoc /\ order[o] \in OrderDoc
    BY DEF TypeOK, HandlerType
  <2>1. CASE UpdateSave(w)
    <3> PICK o \in handler[w].todo :
          SaveOrder(o, handler[w].seen[o], handler[w].target,
                    handler[w].seen[o].paymentStatus, handler[w].seen[o].refund)
      BY <2>1 DEF UpdateSave
    <3>1. /\ handler[w].target \in OrderStatus
          /\ handler[w].seen[o].paymentStatus \in PaymentStatus
          /\ handler[w].seen[o].refund \in RefundStatus
      BY <2>0 DEF TypeOK, HandlerType, OrderDoc
    <3> QED
      BY <2>1, <3>1, SavedDocStep DEF UpdateSave
  <2>2. CASE MarkPaid(w)
    <3> PICK o \in handler[w].todo :
          IF NotYetPaid(w, o)
          THEN order' = [order EXCEPT
                 ![o].paymentStatus = "paid",
                 ![o].paidAt = TRUE,
                 ![o].status = IF handler[w].seen[o].status = "placed"
                               THEN "confirmed" ELSE order[o].status]
          ELSE UNCHANGED order
      BY <2>2 DEF MarkPaid
    <3>1. CASE NotYetPaid(w, o)
      <4>1. /\ \A q \in Orders : q # o => order'[q] = order[q]
            /\ order'[o].payout = order[o].payout
            /\ order'[o].tracked = order[o].tracked
            /\ order'[o].paidAt /\ order'[o].paymentStatus = "paid"
            /\ order'[o].status \in {order[o].status, "confirmed"}
        BY <2>0, <3>1 DEF TypeOK, OrderDoc
      <4>2. DocStep(o)
        BY <2>2, <4>1 DEF DocStep, Writing, MarkPaid
      <4> QED
        BY <4>1, <4>2, UntouchedDoc
    <3> QED
      BY <1>1, <3>1
  <2>3. CASE MarkFailed(w)
    <3> PICK o \in handler[w].todo :
          SaveOrder(o, handler[w].seen[o], handler[w].seen[o].status, "failed",
                    handler[w].seen[o].refund)
      BY <2>3 DEF MarkFailed
    <3>1. /\ handler[w].seen[o].status \in OrderStatus
          /\ handler[w].seen[o].refund \in RefundStatus
          /\ "failed" \in PaymentStatus
      BY <2>0 DEF OrderDoc, PaymentStatus
    <3> QED
      BY <2>3, <3>1, SavedDocStep DEF MarkFailed
  <2>4. CASE ApproveSave(w)
    <3> PICK o \in handler[w].todo :
          SaveOrder(o, handler[w].seen[o], "returned", "refunded", "completed")
      BY <2>4 DEF ApproveSave
    <3>1. /\ "returned" \in OrderStatus /\ "refunded" \in PaymentStatus
          /\ "completed" \in RefundStatus
      BY DEF OrderStatus, PaymentStatus, RefundStatus
    <3> QED
      BY <2>4, <3>1, SavedDocStep DEF ApproveSave
  <2>5. ASSUME NEW from, NEW to \in {"requested", "rejected"}, RefundSave(w, from, to)
        PROVE  \A o \in Orders : DocStep(o)
    <3> PICK o \in handler[w].todo :
          SaveOrder(o, handler[w].seen[o], handler[w].seen[o].status,
                    handler[w].seen[o].paymentStatus, to)
      BY <2>5 DEF RefundSave
    <3>1. /\ handler[w].seen[o].status \in OrderStatus
          /\ handler[w].seen[o].paymentStatus \in PaymentStatus
          /\ to \in RefundStatus
      BY <2>0 DEF OrderDoc, RefundStatus
    <3> QED
      BY <3>1, SavedDocStep
  <2> QED
    BY <1>1, <1>2, <2>1, <2>2, <2>3, <2>4, <2>5
       DEF Continue, RestockItem, AckWebhook, PaystackRefund
<1> QED
  BY <1>1, <1>2
     DEF Next, Charge, Webhook, Deliver, Request, UpdateSellerOrderStatus,
         UpdateOrderStatus, RequestRefund, ApproveRefund, RejectRefund, Start, Crash,
         vars, lifeVars

-----------------------------------------------------------------------------
(* The payment history.                                                    *)
(*                                                                         *)
(* An order is refunded only in the save of an approval, and PaymentInv    *)
(* says that its order was paid; it remains that a paid order is no longer *)
(* "pending".                                                              *)

PaidIsNotPending == \A o \in Orders : order[o].paidAt => order[o].paymentStatus # "pending"

HistoryInv == PaymentInv /\ PaidIsNotPending

LEMMA HistoryInit == Init => HistoryInv
BY PaymentInit DEF HistoryInv, PaidIsNotPending, Init, NewOrder

LEMMA HistoryStep == HistoryInv /\ [Next]_vars => HistoryInv'
<1> SUFFICES ASSUME HistoryInv, [Next]_vars PROVE HistoryInv'
  OBVIOUS
<1>1. PaymentInv'
  BY PaymentStep DEF HistoryInv
<1>2. \A o \in Orders : DocStep(o)
  BY DocSteps DEF HistoryInv, PaymentInv
<1> QED
  BY <1>1, <1>2 DEF HistoryInv, PaidIsNotPending, DocStep

\* The payment status of an order changes for one of three reasons only,
\* whatever stale documents are saved: an event of Paystack for its own
\* reference, or the approval of a refund that was executed, of an order that
\* had been paid (PaymentHistoryKept).
THEOREM HistorySafety == Spec => PaymentHistoryKept
<1>1. HistoryInv /\ [Next]_vars => [PaymentHistory]_vars
  <2> SUFFICES ASSUME HistoryInv, [Next]_vars PROVE PaymentHistory
    OBVIOUS
  <2> DEFINE was(o) == order[o].paymentStatus
             is(o) == order'[o].paymentStatus
  <2>1. ASSUME NEW o \in Orders
        PROVE  /\ \/ is(o) = was(o)
                  \/ is(o) = "paid" /\ RefOf[o] \in Refs /\ "charge.success" \in emitted[RefOf[o]]
                  \/ is(o) = "failed" /\ RefOf[o] \in Refs /\ "charge.failed" \in emitted[RefOf[o]]
                  \/ is(o) = "refunded" /\ order[o].paidAt /\ refunds[o] > 0 /\ Approving(o)
               /\ order[o].paidAt => order'[o].paidAt
               /\ order[o].tracked \subseteq order'[o].tracked
    <3>1. DocStep(o)
      BY DocSteps DEF HistoryInv, PaymentInv
    <3>2. \A w \in Handlers : o \in handler[w].todo => Established(w, o)
      BY DEF HistoryInv, PaymentInv
    <3>3. ASSUME NEW w \in Handlers, Writing(w, o, "paid_loop")
          PROVE  RefOf[o] \in Refs /\ "charge.success" \in emitted[RefOf[o]]
      BY <3>2, <3>3 DEF Established, Writing
    <3>4. ASSUME NEW w \in Handlers, Writing(w, o, "fail_loop")
          PROVE  RefOf[o] \in Refs /\ "charge.failed" \in emitted[RefOf[o]]
      BY <3>2, <3>4 DEF Established, Writing
    <3>5. ASSUME NEW w \in Handlers, Writing(w, o, "apr_save")
          PROVE  order[o].paidAt /\ refunds[o] > 0 /\ Approving(o)
      <4>1. order[o].refund # "none" /\ refunds[o] > 0
        BY <3>2, <3>5 DEF Established, Writing
      <4>2. order[o].paidAt
        BY <4>1 DEF HistoryInv, PaymentInv, RefundFollowsPayment
      <4> QED
        BY <3>5, <4>1, <4>2 DEF Approving, Writing
    <3> QED
      BY <3>1, <3>3, <3>4, <3>5 DEF DocStep
  <2> HIDE DEF was, is
  <2> QED
    BY <2>1 DEF PaymentHistory, was, is
<1> QED
  BY <1>1, HistoryInit, HistoryStep, PTL DEF Spec, PaymentHistoryKept
-----------------------------------------------------------------------------
(* Cancelled orders and the stock.                                         *)
(*                                                                         *)
(* CancelledWasRestocked is not inductive: the save rests on what the      *)
(* request did before it.  A cancellation restores the items in order, and *)
(* it may skip that only for an order it read as cancelled, when its save  *)
(* leaves the status alone, or as delivered, which is on record.           *)

AllRestocked(o) == \A i \in Items : restocked[o][i] > 0

\* What a status update in flight has done for its order.
Restored(w, o) ==
  LET h == handler[w] IN
  /\ h.pc = "upd_restock" => /\ h.todo = {o}
                             /\ \A i \in Items : i < h.item => restocked[o][i] > 0
  /\ h.pc = "upd_save" /\ h.target = "cancelled"
       => \/ h.seen[o].status = "cancelled"
          \/ "delivered" \in order[o].tracked
          \/ AllRestocked(o)

DeliveredIsTracked ==
  \A o \in Orders : order[o].status = "delivered" => "delivered" \in order[o].tracked

CancelInv ==
  /\ TypeOK
  /\ DeliveredIsTracked
  /\ CancelledWasRestocked
  /\ \A w \in Handlers : \A o \in handler[w].todo : Restored(w, o)

LEMMA CancelInit == Init => CancelInv
<1> SUFFICES ASSUME Init PROVE CancelInv
  OBVIOUS
<1>1. TypeOK
  BY TypeInit
<1>2. \A o \in Orders : order[o].status = "placed"
  BY DEF Init, NewOrder
<1>3. \A w \in Handlers : handler[w].todo = {}
  BY DEF Init, Idle
<1> QED
  BY <1>1, <1>2, <1>3 DEF CancelInv, DeliveredIsTracked, CancelledWasRestocked

\* What is put back stays counted.
LEMMA RestockedGrows ==
  ASSUME TypeOK, [Next]_vars, NEW o \in Orders, NEW i \in Items, restocked[o][i] > 0
  PROVE  restocked'[o][i] > 0
<1>1. ASSUME NEW w \in Handlers, NEW from, NEW next, RestockItem(w, from, next)
      PROVE  restocked'[o][i] > 0
  <2> PICK q \in handler[w].todo :
        restocked' = [restocked EXCEPT ![q][handler[w].item] =
                        IF @ < MaxRestocks THEN @ + 1 ELSE @]
    BY <1>1 DEF RestockItem
  <2>1. /\ q \in Orders /\ handler[w].item \in Items
        /\ restocked[o] \in [Items -> 0..MaxRestocks]
        /\ restocked[q] \in [Items -> 0..MaxRestocks]
    BY DEF TypeOK, HandlerType
  <2>2. restocked[q][handler[w].item] \in Nat /\ restocked[o][i] \in Nat
    BY <2>1, OrderLifecycleAssumption
  <2> QED
    BY <2>1, <2>2 DEF TypeOK
<1>2. ASSUME UNCHANGED restocked PROVE restocked'[o][i] > 0
  BY <1>2
<1>3. ASSUME NEW w \in Handlers, Continue(w) PROVE restocked'[o][i] > 0
  BY <1>1, <1>2, <1>3
     DEF Continue, UpdateSave, MarkPaid, MarkFailed, AckWebhook, PaystackRefund,
         ApproveSave, RefundSave
<1>4. ASSUME NEW w \in Handlers, Webhook(w) \/ Request(w) PROVE restocked'[o][i] > 0
  BY <1>2, <1>4
     DEF Webhook, Deliver, Request, UpdateSellerOrderStatus, UpdateOrderStatus,
         RequestRefund, ApproveRefund, RejectRefund, Start
<1> QED
  BY <1>2, <1>3, <1>4 DEF Next, Charge, Crash, vars, lifeVars

\* What a request has done is kept, if the step moves it on only within
\* what it has established.
LEMMA RestoredKept ==
  ASSUME TypeOK, [Next]_vars, \A o \in Orders : DocStep(o),
         NEW w \in Handlers, NEW o \in handler'[w].todo,
         \/ /\ handler'[w] = handler[w]
            /\ Restored(w, o)
         \/ handler'[w].pc \notin {"upd_restock", "upd_save"}
  PROVE  Restored(w, o)'
<1>1. CASE handler'[w] = handler[w] /\ Restored(w, o)
  <2>1. o \in Orders
    BY <1>1 DEF TypeOK, HandlerType
  <2>2. \A i \in Items : restocked[o][i] > 0 => restocked'[o][i] > 0
    BY <2>1, RestockedGrows
  <2>3. order[o].tracked \subseteq order'[o].tracked
    BY <2>1 DEF DocStep
  <2> QED
    BY <1>1, <2>2, <2>3 DEF Restored, AllRestocked
<1>2. CASE handler'[w].pc \notin {"upd_restock", "upd_save"}
  BY <1>2 DEF Restored
<1> QED
  BY <1>1, <1>2

\* The requests of a step that is neither the start of an update nor the
\* restoring of one of its items.
LEMMA OtherHandlers ==
  ASSUME TypeOK, [Next]_vars,
         ~ \E w \in Handlers, o \in Orders, to \in Targets : UpdateOrderStatus(w, o, to),
         ~ \E w \in Handlers : RestockItem(w, "upd_restock", "upd_save")
  PROVE  \A w \in Handlers : \A o \in handler'[w].todo :
           \/ handler'[w] = handler[w]
           \/ handler'[w].pc \notin {"upd_restock", "upd_save"}
<1>1. ASSUME NEW w \in Handlers, Finish(w)
      PROVE  \A v \in Handlers : \A o \in handler'[v].todo :
               \/ handler'[v] = handler[v]
               \/ handler'[v].pc \notin {"upd_restock", "upd_save"}
  BY <1>1 DEF Finish, Idle, TypeOK
<1>2. ASSUME NEW w \in Handlers, NEW label, NEW S, NEW target, NEW ref,
             Start(w, label, S, target, ref), label \notin {"upd_restock", "upd_save"}
      PROVE  \A v \in Handlers : \/ handler'[v] = handler[v]
                                 \/ handler'[v].pc \notin {"upd_restock", "upd_save"}
  BY <1>2 DEF Start, TypeOK
<1>3. ASSUME NEW w \in Handlers, MarkPaid(w) \/ MarkFailed(w)
      PROVE  \A v \in Handlers : \/ handler'[v] = handler[v]
                                 \/ handler'[v].pc \notin {"upd_restock", "upd_save"}
  <2>1. handler[w].pc \notin {"upd_restock", "upd_save"}
    BY <1>3 DEF MarkPaid, MarkFailed
  <2>2. \E S : handler' = [handler EXCEPT ![w].todo = S]
    BY <1>3 DEF MarkPaid, MarkFailed
  <2>3. handler'[w].pc = handler[w].pc
    BY <2>2 DEF TypeOK, HandlerType
  <2> QED
    BY <2>1, <2>2, <2>3 DEF TypeOK
<1>4. ASSUME NEW w \in Handlers, RestockItem(w, "apr_restock", "apr_save")
      PROVE  \A v \in Handlers : \/ handler'[v] = handler[v]
                                 \/ handler'[v].pc \notin {"upd_restock", "upd_save"}
  BY <1>4 DEF RestockItem, TypeOK, HandlerType
<1>5. ASSUME NEW w \in Handlers, NEW label, Goto(w, label),
             label \notin {"upd_restock", "upd_save"}
      PROVE  \A v \in Handlers : \/ handler'[v] = handler[v]
                                 \/ handler'[v].pc \notin {"upd_restock", "upd_save"}
  BY <1>5 DEF Goto, TypeOK, HandlerType
<1>6. ASSUME NEW w \in Handlers, Continue(w)
      PROVE  \A v \in Handlers : \A o \in handler'[v].todo :
               \/ handler'[v] = handler[v]
               \/ handler'[v].pc \notin {"upd_restock", "upd_save"}
  <2>1. CASE UpdateSave(w) \/ AckWebhook(w) \/ ApproveSave(w)
    BY <1>1, <2>1 DEF UpdateSave, AckWebhook, ApproveSave
  <2>2. CASE RefundSave(w, "req_save", "requested") \/ RefundSave(w, "rej_save", "rejected")
    BY <1>1, <2>2 DEF RefundSave
  <2>3. CASE PaystackRefund(w)
    <3>1. Finish(w) \/ Goto(w, "apr_restock") \/ Goto(w, "apr_save")
      BY <2>3 DEF PaystackRefund
    <3> QED
      BY <1>1, <1>5, <3>1
  <2> QED
    BY <1>3, <1>4, <1>6, <2>1, <2>2, <2>3 DEF Continue
<1>7. ASSUME NEW w \in Handlers, Webhook(w) \/ Request(w)
      PROVE  \A v \in Handlers : \/ handler'[v] = handler[v]
                                 \/ handler'[v].pc \notin {"upd_restock", "upd_save"}
  <2>1. CASE Webhook(w)
    <3> PICK r \in Refs, kind \in EventKinds : Deliver(w, r, kind)
      BY <2>1 DEF Webhook
    <3> QED
      BY <1>2 DEF Deliver
  <2>2. ASSUME NEW o \in Orders, RequestRefund(w, o) \/ RejectRefund(w, o)
        PROVE  \A v \in Handlers : \/ handler'[v] = handler[v]
                                   \/ handler'[v].pc \notin {"upd_restock", "upd_save"}
    <3>1. Start(w, "req_save", {o}, "placed", NoRef) \/ Start(w, "rej_save", {o}, "placed", NoRef)
      BY <2>2 DEF RequestRefund, RejectRefund
    <3> QED
      BY <1>2, <3>1
  <2>3. ASSUME NEW o \in Orders, ApproveRefund(w, o)
        PROVE  \A v \in Handlers : \/ handler'[v] = handler[v]
                                   \/ handler'[v].pc \notin {"upd_restock", "upd_save"}
    <3> PICK label \in {"apr_paystack", "apr_restock", "apr_save"} :
          Start(w, label, {o}, "returned", NoRef)
      BY <2>3 DEF ApproveRefund
    <3> QED
      BY <1>2
  <2> QED
    BY <1>7, <2>1, <2>2, <2>3 DEF Request, UpdateSellerOrderStatus
<1> QED
  BY <1>1, <1>6, <1>7 DEF Next, Charge, Crash, vars, lifeVars

LEMMA CancelStep == CancelInv /\ [Next]_vars => CancelInv'
<1> SUFFICES ASSUME CancelInv, [Next]_vars PROVE CancelInv'
  OBVIOUS
<1>0. TypeOK /\ TypeOK'
  BY TypeStep DEF CancelInv
<1>1. \A o \in Orders : DocStep(o)
  BY DocSteps DEF CancelInv
<1>2. DeliveredIsTracked'
  BY <1>1 DEF DocStep, CancelInv, DeliveredIsTracked
<1>3. CancelledWasRestocked'
  <2> SUFFICES ASSUME NEW o \in Orders, order'[o].status = "cancelled",
                      "delivered" \notin order'[o].tracked
               PROVE  \A i \in Items : restocked'[o][i] > 0
    BY DEF CancelledWasRestocked
  <2>1. "delivered" \notin order[o].tracked
    BY <1>1 DEF DocStep
  <2>2. AllRestocked(o)
    <3>1. CASE order[o].status = "cancelled"
      BY <2>1, <3>1 DEF CancelInv, CancelledWasRestocked, AllRestocked
    <3>2. ASSUME NEW w \in Handlers, Writing(w, o, "upd_save"),
                 handler[w].target = "cancelled", handler[w].seen[o].status # "cancelled"
          PROVE  AllRestocked(o)
      BY <2>1, <3>2 DEF CancelInv, Restored, Writing
    <3> QED
      BY <1>1, <3>1, <3>2 DEF DocStep
  <2> QED
    BY <1>0, <2>2, RestockedGrows DEF AllRestocked
<1>4. ASSUME NEW w \in Handlers, NEW o \in handler'[w].todo
      PROVE  Restored(w, o)'
  <2>0. ASSUME handler'[w] = handler[w] PROVE Restored(w, o)'
    BY <1>0, <1>1, <2>0, RestoredKept DEF CancelInv
  <2>1. ASSUME NEW v \in Handlers, NEW q \in Orders, NEW to \in Targets,
               UpdateOrderStatus(v, q, to)
        PROVE  Restored(w, o)'
    <3>1. CASE v = w
      <4> DEFINE cancel == to = "cancelled" /\ RestockedOnCancel(order[q].status)
      <4>1. /\ handler'[w].pc = IF cancel THEN "upd_restock" ELSE "upd_save"
            /\ handler'[w].todo = {q}
            /\ handler'[w].seen[q] = order[q]
            /\ handler'[w].target = to
            /\ handler'[w].item = 1
            /\ UNCHANGED order
        BY <1>0, <2>1, <3>1 DEF UpdateOrderStatus, Start, TypeOK
      <4>2. q = o
        BY <1>4, <4>1
      <4>3. CASE cancel
        BY <4>1, <4>2, <4>3 DEF Restored, Items
      <4>4. CASE ~ cancel
        <5>1. to = "cancelled" => \/ order[o].status = "cancelled"
                                  \/ "delivered" \in order[o].tracked
          BY <4>2, <4>4 DEF RestockedOnCancel, CancelInv, DeliveredIsTracked
        <5> QED
          BY <4>1, <4>2, <4>4, <5>1 DEF Restored
      <4> QED
        BY <4>3, <4>4
    <3>2. CASE v # w
      BY <1>0, <2>0, <2>1, <3>2 DEF UpdateOrderStatus, Start, TypeOK
    <3> QED
      BY <3>1, <3>2
  <2>2. ASSUME NEW v \in Handlers, RestockItem(v, "upd_restock", "upd_save")
        PROVE  Restored(w, o)'
    <3>1. CASE v = w
      <4> DEFINE h == handler[w]
      <4>1. /\ h.pc = "upd_restock"
            /\ handler'[w].todo = h.todo
            /\ h.item \in Items /\ h.item \in Nat
        BY <1>0, <2>2, <3>1, OrderLifecycleAssumption
           DEF RestockItem, TypeOK, HandlerType, Items
      <4>2. /\ h.todo = {o} /\ o \in Orders
            /\ \A i \in Items : i < h.item => restocked[o][i] > 0
        BY <1>0, <1>4, <4>1 DEF CancelInv, Restored, TypeOK, HandlerType
      <4>3. restocked' = [restocked EXCEPT ![o][h.item] =
                            IF @ < MaxRestocks THEN @ + 1 ELSE @]
        BY <2>2, <3>1, <4>2 DEF RestockItem
      <4>4. \A i \in Items : i < h.item + 1 => restocked'[o][i] > 0
        <5>1. restocked[o] \in [Items -> 0..MaxRestocks]
          BY <1>0, <4>2 DEF TypeOK
        <5>2. restocked'[o][h.item] > 0
          BY <1>0, <4>1, <4>2, <4>3, <5>1, OrderLifecycleAssumption DEF TypeOK
        <5>3. \A i \in Items : i < h.item => restocked'[o][i] > 0
          BY <1>0, <4>2, RestockedGrows
        <5> QED
          BY <4>1, <5>2, <5>3 DEF Items
      <4>5. CASE LastItem(w)
        <5>1. handler'[w].pc = "upd_save"
          BY <1>0, <2>2, <3>1, <4>5 DEF RestockItem, TypeOK, HandlerType
        <5>2. AllRestocked(o)'
          BY <4>4, <4>5, OrderLifecycleAssumption DEF AllRestocked, LastItem, Items
        <5> QED
          BY <5>1, <5>2 DEF Restored
      <4>6. CASE ~ LastItem(w)
        <5>1. /\ handler'[w].pc = "upd_restock"
              /\ handler'[w].item = h.item + 1
          BY <1>0, <2>2, <3>1, <4>1, <4>6 DEF RestockItem, TypeOK, HandlerType
        <5> QED
          BY <4>1, <4>2, <4>4, <5>1 DEF Restored
      <4> QED
        BY <4>5, <4>6
    <3>2. CASE v # w
      BY <1>0, <2>0, <2>2, <3>2 DEF RestockItem, TypeOK
    <3> QED
      BY <3>1, <3>2
  <2>3. CASE /\ ~ \E v \in Handlers, q \in Orders, to \in Targets : UpdateOrderStatus(v, q, to)
             /\ ~ \E v \in Handlers : RestockItem(v, "upd_restock", "upd_save")
    <3>1. \/ handler'[w] = handler[w]
          \/ handler'[w].pc \notin {"upd_restock", "upd_save"}
      BY <1>0, <2>3, OtherHandlers
    <3> QED
      BY <1>0, <1>1, <2>0, <3>1, RestoredKept
  <2> QED
    BY <2>1, <2>2, <2>3
<1> QED
  BY <1>0, <1>2, <1>3, <1>4 DEF CancelInv

\* No cancellation loses stock, whatever races it or wherever it dies
\* (CancelledWasRestocked).
THEOREM CancelSafety == Spec => []CancelledWasRestocked
<1>1. CancelInv => CancelledWasRestocked
  BY DEF CancelInv
<1> QED
  BY <1>1, CancelInit, CancelStep, PTL DEF Spec

-----------------------------------------------------------------------------
(* The payouts: the invariant.                                             *)
(*                                                                         *)
(* PayoutsInv is not inductive: a commit rests on the snapshot its         *)
(* transaction read, and a save on the transfer before it.  The snapshot   *)
(* held eligible orders of one seller, and at the commit nothing in it has *)
(* changed; a request about to save "success" has had a transfer executed. *)
(* A payout that does not exist lists no orders.                           *)

\* What a staff request in flight has established.
RunEstablished(a) ==
  LET r == run[a] IN
  /\ r.pc \in {"transfer", "save_success", "save_failed"} => r.payout \in PayoutIds
  /\ r.pc = "save_success" => transfers[r.payout] > 0
  /\ r.pc = "commit" =>
       /\ r.sel # {}
       /\ \A o \in r.sel :
            /\ SellerOf[o] = r.seller
            /\ r.seen[o].payout = NoPayout
            /\ r.seen[o].paymentStatus = "paid"
            /\ r.seen[o].status = "delivered"

UncreatedIsEmpty == \A p \in PayoutIds : payouts[p].status = "none" => payouts[p].orders = {}

SettlementInv ==
  /\ TypeOK
  /\ PayoutsInv
  /\ UncreatedIsEmpty
  /\ \A a \in Runs : RunEstablished(a)

-----------------------------------------------------------------------------
(* Initial states.                                                         *)

LEMMA NoRunType == NoRun \in RunType
BY NewOrderType DEF NoRun, RunType, RunLabels, PayoutStatus

LEMMA SettlementInitInv == SettlementInit => SettlementInv
<1> SUFFICES ASSUME SettlementInit PROVE SettlementInv
  OBVIOUS
<1>1. TypeOK
  BY TypeInit DEF SettlementInit
<1>2. PayoutsTypeOK
  BY NoRunType, PayoutsAssumption
     DEF SettlementInit, PayoutsInit, PayoutsTypeOK, PayoutDoc, PayoutStatus
<1>3. /\ \A p \in PayoutIds : payouts[p].status = "none" /\ payouts[p].orders = {}
      /\ \A o \in Orders : order[o].payout = NoPayout
  BY DEF SettlementInit, PayoutsInit, Init, NewOrder
<1>4. PayoutsPartitionOrders
  BY <1>3, OrderDocsAssumption DEF PayoutsPartitionOrders
<1>5. \A a \in Runs : RunEstablished(a)
  BY DEF SettlementInit, PayoutsInit, NoRun, RunEstablished
<1> QED
  BY <1>1, <1>2, <1>3, <1>4, <1>5
     DEF SettlementInv, PayoutsInv, UncreatedIsEmpty, SuccessMeansTransferred

-----------------------------------------------------------------------------
(* Steps of the orders.                                                    *)

\* No step of the order workflow touches a tag.
LEMMA TagsUntouched ==
  ASSUME TypeOK, [Next]_vars
  PROVE  \A o \in Orders : order'[o].payout = order[o].payout
BY DocSteps DEF DocStep

LEMMA LifecycleKeepsSettlement ==
  ASSUME SettlementInv, Next, UNCHANGED payoutVars
  PROVE  SettlementInv'
<1>1. TypeOK /\ TypeOK'
  BY TypeStep DEF SettlementInv
<1>2. \A o \in Orders : order'[o].payout = order[o].payout
  BY <1>1, TagsUntouched
<1>3. UNCHANGED <<payouts, transfers, run, faults>>
  BY DEF payoutVars
<1>4. PayoutsInv'
  BY <1>2, <1>3
     DEF SettlementInv, PayoutsInv, PayoutsTypeOK, PayoutsPartitionOrders,
         SuccessMeansTransferred
<1>5. UncreatedIsEmpty' /\ \A a \in Runs : RunEstablished(a)'
  BY <1>3 DEF SettlementInv, UncreatedIsEmpty, RunEstablished
<1> QED
  BY <1>1, <1>4, <1>5 DEF SettlementInv

-----------------------------------------------------------------------------
(* Steps of the payouts.                                                   *)

\* A step that changes neither orders nor payouts keeps the invariant, if
\* the one request it moves on has established what it needs next.
LEMMA RunMovesOn ==
  ASSUME SettlementInv, NEW a \in Runs, UNCHANGED <<order, lifeVars, payouts>>,
         NEW r \in RunType, run' = [run EXCEPT ![a] = r],
         transfers' \in [PayoutIds -> 0..MaxTransfers],
         \A p \in PayoutIds : transfers[p] > 0 => transfers'[p] > 0,
         faults' \in 0..MaxFaults,
         RunEstablished(a)'
  PROVE  SettlementInv'
<1>1. TypeOK'
  BY DEF SettlementInv, TypeOK, lifeVars
<1>2. PayoutsTypeOK'
  BY DEF SettlementInv, PayoutsInv, PayoutsTypeOK
<1>3. PayoutsPartitionOrders' /\ UncreatedIsEmpty'
  BY DEF SettlementInv, PayoutsInv, PayoutsPartitionOrders, UncreatedIsEmpty
<1>4. SuccessMeansTransferred'
  BY DEF SettlementInv, PayoutsInv, SuccessMeansTransferred
<1>5. \A b \in Runs : RunEstablished(b)'
  <2> SUFFICES ASSUME NEW b \in Runs, b # a PROVE RunEstablished(b)'
    OBVIOUS
  <2>1. run'[b] = run[b] /\ RunEstablished(b)
    BY DEF SettlementInv, PayoutsInv, PayoutsTypeOK
  <2> QED
    BY <2>1 DEF RunEstablished
<1> QED
  BY <1>1, <1>2, <1>3, <1>4, <1>5 DEF SettlementInv, PayoutsInv

\* A save of a payout's status ends its request.
LEMMA StatusSaved ==
  ASSUME SettlementInv, NEW a \in Runs, UNCHANGED <<order, lifeVars, transfers, faults>>,
         NEW p \in PayoutIds, NEW s \in {"success", "failed"} \cup {payouts[p].status},
         payouts' = [payouts EXCEPT ![p].status = s],
         s = "success" => transfers[p] > 0,
         EndRun(a)
  PROVE  SettlementInv'
<1>1. TypeOK'
  BY DEF SettlementInv, TypeOK, lifeVars
<1>2. PayoutsTypeOK
  BY DEF SettlementInv, PayoutsInv
<1>3. /\ \A q \in PayoutIds : /\ payouts'[q].orders = payouts[q].orders
                              /\ payouts'[q].seller = payouts[q].seller
                              /\ q # p => payouts'[q].status = payouts[q].status
      /\ payouts'[p].status = s
  BY <1>2 DEF PayoutsTypeOK, PayoutDoc
<1>4. PayoutsTypeOK'
  <2>1. payouts' \in [PayoutIds -> PayoutDoc]
    BY <1>2 DEF PayoutsTypeOK, PayoutDoc, PayoutStatus
  <2> QED
    BY <1>2, <2>1, NoRunType DEF PayoutsTypeOK, EndRun
<1>5. PayoutsPartitionOrders'
  BY <1>3 DEF SettlementInv, PayoutsInv, PayoutsPartitionOrders
<1>6. UncreatedIsEmpty' /\ SuccessMeansTransferred'
  BY <1>3 DEF SettlementInv, PayoutsInv, UncreatedIsEmpty, SuccessMeansTransferred
<1>7. \A b \in Runs : RunEstablished(b)'
  <2> SUFFICES ASSUME NEW b \in Runs PROVE RunEstablished(b)'
    OBVIOUS
  <2>1. CASE b = a
    BY <1>2, <2>1 DEF EndRun, NoRun, RunEstablished, PayoutsTypeOK
  <2>2. CASE b # a
    BY <1>2, <2>2 DEF EndRun, RunEstablished, PayoutsTypeOK, SettlementInv
  <2> QED
    BY <2>1, <2>2
<1> QED
  BY <1>1, <1>4, <1>5, <1>6, <1>7 DEF SettlementInv, PayoutsInv

\* What a commit tags is what its transaction read, unchanged since.
Commits(a, p) ==
  LET sel == run[a].sel IN
  /\ sel \subseteq Orders /\ sel # {}
  /\ \A o \in sel : /\ SellerOf[o] = run[a].seller
                    /\ order[o].payout = NoPayout
                    /\ order[o].paymentStatus = "paid"
                    /\ order[o].status = "delivered"
                    /\ order'[o] = [order[o] EXCEPT !.payout = p]
                    /\ order'[o].payout = p
  /\ \A o \in Orders \ sel : order'[o] = order[o]
  /\ \A o \in Orders : order[o].payout # p

LEMMA CommitTags ==
  ASSUME SettlementInv, NEW a \in Runs, NEW p \in PayoutIds, CommitPayout(a, p)
  PROVE  Commits(a, p)
<1>1. run[a].sel \subseteq Orders
  BY DEF SettlementInv, PayoutsInv, PayoutsTypeOK, RunType
<1>2. \A o \in run[a].sel : order[o] = run[a].seen[o]
  BY DEF CommitPayout, Conflict
<1>3. RunEstablished(a) /\ run[a].pc = "commit"
  BY DEF SettlementInv, CommitPayout
<1>4. \A o \in Orders : order[o].payout # p
  BY DEF CommitPayout, SettlementInv, PayoutsInv, PayoutsPartitionOrders, UncreatedIsEmpty
<1>5. \A o \in run[a].sel : /\ order'[o] = [order[o] EXCEPT !.payout = p]
                            /\ order'[o].payout = p
  <2>1. \A o \in run[a].sel : order[o] \in OrderDoc
    BY <1>1 DEF SettlementInv, TypeOK
  <2> QED
    BY <1>1, <2>1 DEF CommitPayout, OrderDoc
<1> QED
  BY <1>1, <1>2, <1>3, <1>4, <1>5 DEF RunEstablished, CommitPayout, Commits

LEMMA CommitKeepsSettlement ==
  ASSUME SettlementInv, UNCHANGED lifeVars, NEW a \in Runs, NEW p \in PayoutIds,
         CommitPayout(a, p)
  PROVE  SettlementInv'
<1> DEFINE sel == run[a].sel
<1>0. PayoutsTypeOK /\ TypeOK /\ Commits(a, p)
  BY CommitTags DEF SettlementInv, PayoutsInv
<1>1. TypeOK'
  <2>1. \A o \in Orders : order'[o] \in OrderDoc
    <3> SUFFICES ASSUME NEW o \in Orders PROVE order'[o] \in OrderDoc
      OBVIOUS
    <3>1. order[o] \in OrderDoc
      BY <1>0 DEF TypeOK
    <3>2. [order[o] EXCEPT !.payout = p] \in OrderDoc
      BY <3>1 DEF OrderDoc
    <3> QED
      BY <1>0, <3>1, <3>2 DEF Commits
  <2>2. order' \in [Orders -> OrderDoc]
    BY <2>1 DEF CommitPayout
  <2> QED
    BY <1>0, <2>2 DEF TypeOK, lifeVars
<1>2. run[a] \in RunType
  BY <1>0 DEF PayoutsTypeOK
<1>3. /\ NewPayout(a) \in PayoutDoc
      /\ payouts'[p] = NewPayout(a)
      /\ \A q \in PayoutIds : q # p => payouts'[q] = payouts[q]
  BY <1>0, <1>2 DEF CommitPayout, NewPayout, PayoutDoc, RunType, PayoutsTypeOK, PayoutStatus
<1>4. PayoutsTypeOK'
  <2>1. [NoRun EXCEPT !.pc = "transfer", !.seller = run[a].seller,
                      !.payout = p, !.read = "pending"] \in RunType
    BY <1>2, NoRunType DEF RunType, RunLabels, PayoutStatus
  <2>2. run' \in [Runs -> RunType]
    BY <1>0, <2>1 DEF CommitPayout, PayoutsTypeOK
  <2>3. payouts' \in [PayoutIds -> PayoutDoc]
    BY <1>0, <1>3 DEF CommitPayout, PayoutsTypeOK
  <2> QED
    BY <1>0, <2>2, <2>3 DEF CommitPayout, PayoutsTypeOK
<1>5. PayoutsPartitionOrders'
  <2> SUFFICES ASSUME NEW q \in PayoutIds, NEW o \in Orders
               PROVE  /\ order'[o].payout = q <=> o \in payouts'[q].orders
                      /\ o \in payouts'[q].orders => SellerOf[o] = payouts'[q].seller
    BY DEF PayoutsPartitionOrders
  <2>1. /\ order[o].payout = q <=> o \in payouts[q].orders
        /\ o \in payouts[q].orders => SellerOf[o] = payouts[q].seller
    BY DEF SettlementInv, PayoutsInv, PayoutsPartitionOrders
  <2>2. CASE o \in sel
    <3>1. /\ order'[o].payout = p /\ order[o].payout = NoPayout
          /\ SellerOf[o] = run[a].seller
      BY <1>0, <2>2 DEF Commits
    <3> QED
      BY <1>3, <2>1, <2>2, <3>1, OrderDocsAssumption DEF NewPayout
  <2>3. CASE o \notin sel
    <3>1. order'[o] = order[o] /\ order[o].payout # p
      BY <1>0, <2>3 DEF Commits
    <3> QED
      BY <1>3, <2>1, <2>3, <3>1 DEF NewPayout
  <2> QED
    BY <2>2, <2>3
<1>6. UncreatedIsEmpty' /\ SuccessMeansTransferred'
  <2>1. payouts'[p].status = "pending"
    BY <1>3 DEF NewPayout
  <2> QED
    BY <1>3, <2>1 DEF SettlementInv, PayoutsInv, UncreatedIsEmpty,
                      SuccessMeansTransferred, CommitPayout
<1>7. \A b \in Runs : RunEstablished(b)'
  <2> SUFFICES ASSUME NEW b \in Runs PROVE RunEstablished(b)'
    OBVIOUS
  <2>1. CASE b = a
    BY <1>0, <2>1 DEF CommitPayout, NoRun, RunEstablished, PayoutsTypeOK
  <2>2. CASE b # a
    <3>1. run'[b] = run[b] /\ UNCHANGED transfers /\ RunEstablished(b)
      BY <1>0, <2>2 DEF CommitPayout, PayoutsTypeOK, SettlementInv
    <3> QED
      BY <3>1 DEF RunEstablished
  <2> QED
    BY <2>1, <2>2
<1> QED
  BY <1>1, <1>4, <1>5, <1>6, <1>7 DEF SettlementInv, PayoutsInv

LEMMA PayoutKeepsSettlement ==
  ASSUME SettlementInv, PayoutNext, UNCHANGED lifeVars
  PROVE  SettlementInv'
<1>0. /\ PayoutsTypeOK
      /\ \A a \in Runs : run[a] \in RunType /\ RunEstablished(a)
      /\ \A p \in PayoutIds : payouts[p] \in PayoutDoc
      /\ faults \in 0..MaxFaults /\ MaxFaults \in Nat /\ MaxTransfers \in Nat
  BY PayoutsAssumption DEF SettlementInv, PayoutsInv, PayoutsTypeOK
<1> PICK a \in Runs :
      \/ \E s \in Sellers : CreatePayout(a, s)
      \/ \E p \in PayoutIds : RetryFailedPayout(a, p)
      \/ PayoutRun(a)
      \/ SaveSuccessThrows(a)
      \/ RunCrash(a)
  BY DEF PayoutNext
<1>1. ASSUME NEW r \in RunType, run' = [run EXCEPT ![a] = r],
             UNCHANGED <<order, payouts, transfers>>, faults' \in 0..MaxFaults,
             r.pc \in {"idle", "select"}
      PROVE  SettlementInv'
  <2>1. RunEstablished(a)'
    BY <1>0, <1>1 DEF RunEstablished, PayoutsTypeOK
  <2> QED
    BY <1>0, <1>1, <2>1, RunMovesOn DEF PayoutsTypeOK
<1>2. ASSUME NEW s \in Sellers, CreatePayout(a, s) PROVE SettlementInv'
  <2>1. [run[a] EXCEPT !.pc = "select", !.seller = s] \in RunType
    BY <1>0 DEF RunType, RunLabels
  <2>2. /\ run' = [run EXCEPT ![a] = [run[a] EXCEPT !.pc = "select", !.seller = s]]
        /\ [run[a] EXCEPT !.pc = "select", !.seller = s].pc = "select"
    BY <1>0, <1>2 DEF CreatePayout, RunType, PayoutsTypeOK
  <2> QED
    BY <1>0, <1>1, <1>2, <2>1, <2>2 DEF CreatePayout
<1>3. ASSUME NEW p \in PayoutIds, RetryFailedPayout(a, p) PROVE SettlementInv'
  <2> DEFINE r == [NoRun EXCEPT !.pc = "transfer", !.seller = payouts[p].seller,
                                !.payout = p, !.read = payouts[p].status]
  <2>1. r \in RunType /\ r.pc = "transfer" /\ r.payout = p
    BY <1>0, NoRunType DEF RunType, RunLabels, PayoutDoc
  <2>2. run' = [run EXCEPT ![a] = r]
    BY <1>3 DEF RetryFailedPayout
  <2>3. RunEstablished(a)'
    BY <1>0, <2>1, <2>2 DEF RunEstablished, PayoutsTypeOK
  <2> QED
    BY <1>0, <1>3, <2>1, <2>2, <2>3, RunMovesOn DEF RetryFailedPayout, PayoutsTypeOK
<1>4. CASE PayoutRun(a)
  <2>1. CASE SelectOrders(a)
    <3> DEFINE sel == Eligible(run[a].seller)
               r == [run[a] EXCEPT !.pc = "commit", !.sel = sel,
                       !.seen = [o \in Orders |-> IF o \in sel THEN order[o] ELSE NewOrder]]
    <3>1. CASE sel = {}
      BY <1>0, <1>1, <2>1, <3>1, NoRunType DEF SelectOrders, EndRun, NoRun
    <3>2. CASE sel # {}
      <4>1. [o \in Orders |-> IF o \in sel THEN order[o] ELSE NewOrder] \in [Orders -> OrderDoc]
        BY NewOrderType DEF SettlementInv, TypeOK
      <4>2. r \in RunType /\ r.pc = "commit" /\ r.sel = sel /\ r.seller = run[a].seller
        BY <1>0, <4>1 DEF RunType, RunLabels, Eligible
      <4>3. run' = [run EXCEPT ![a] = r]
        BY <1>0, <2>1, <3>2 DEF SelectOrders, PayoutsTypeOK
      <4>4. \A o \in sel : /\ SellerOf[o] = run[a].seller
                           /\ r.seen[o].payout = NoPayout
                           /\ r.seen[o].paymentStatus = "paid"
                           /\ r.seen[o].status = "delivered"
        BY <1>0 DEF Eligible, RunType
      <4> HIDE DEF r, sel
      <4>5. RunEstablished(a)'
        BY <1>0, <3>2, <4>2, <4>3, <4>4 DEF RunEstablished, PayoutsTypeOK
      <4> QED
        BY <1>0, <2>1, <4>2, <4>3, <4>5, RunMovesOn DEF SelectOrders, PayoutsTypeOK
    <3> QED
      BY <3>1, <3>2
  <2>2. CASE RetryTransaction(a)
    <3>1. [run[a] EXCEPT !.pc = "select", !.sel = {}, !.seen = NoRun.seen] \in RunType
      BY <1>0, NoRunType DEF RunType, RunLabels
    <3>2. /\ run' = [run EXCEPT ![a] = [run[a] EXCEPT !.pc = "select", !.sel = {},
                                                      !.seen = NoRun.seen]]
          /\ [run[a] EXCEPT !.pc = "select", !.sel = {}, !.seen = NoRun.seen].pc = "select"
      BY <1>0, <2>2 DEF RetryTransaction, RunType, PayoutsTypeOK
    <3> QED
      BY <1>0, <1>1, <2>2, <3>1, <3>2 DEF RetryTransaction
  <2>3. ASSUME NEW p \in PayoutIds, CommitPayout(a, p) PROVE SettlementInv'
    BY <2>3, CommitKeepsSettlement
  <2>4. CASE Transfer(a)
    <3> DEFINE p == run[a].payout
    <3>1. p \in PayoutIds
      BY <1>0, <2>4 DEF Transfer, RunEstablished
    <3>2. ASSUME TransferExecuted(p)
          PROVE  /\ transfers' \in [PayoutIds -> 0..MaxTransfers]
                 /\ \A q \in PayoutIds : transfers[q] > 0 => transfers'[q] > 0
                 /\ transfers'[p] > 0
      BY <1>0, <3>1, <3>2 DEF TransferExecuted, PayoutsTypeOK
    <3>3. ASSUME NEW label \in {"save_success", "save_failed"},
                 run' = [run EXCEPT ![a].pc = label],
                 TransferExecuted(p) \/ UNCHANGED transfers,
                 label = "save_success" => TransferExecuted(p)
          PROVE  SettlementInv'
      <4> DEFINE r == [run[a] EXCEPT !.pc = label]
      <4>1. r \in RunType /\ r.pc = label /\ r.payout = p
        BY <1>0 DEF RunType, RunLabels
      <4>2. run' = [run EXCEPT ![a] = r]
        BY <3>3
      <4>3. RunEstablished(a)'
        BY <1>0, <3>1, <3>2, <3>3, <4>1, <4>2 DEF RunEstablished, PayoutsTypeOK
      <4> QED
        BY <1>0, <2>4, <3>2, <3>3, <4>1, <4>2, <4>3, RunMovesOn DEF Transfer, PayoutsTypeOK
    <3> QED
      BY <2>4, <3>3 DEF Transfer, TransferAnswered
  <2>5. CASE SaveSuccess(a)
    <3>1. run[a].payout \in PayoutIds /\ transfers[run[a].payout] > 0
      BY <1>0, <2>5 DEF SaveSuccess, RunEstablished
    <3> QED
      BY <2>5, <3>1, StatusSaved DEF SaveSuccess
  <2>6. CASE SaveFailed(a)
    <3> DEFINE p == run[a].payout
               s == Path(run[a].read, "failed", payouts[p].status)
    <3>1. p \in PayoutIds
      BY <1>0, <2>6 DEF SaveFailed, RunEstablished
    <3>2. payouts' = [payouts EXCEPT ![p].status = s]
      BY <2>6 DEF SaveFailed
    <3>3. s \in {"success", "failed"} \cup {payouts[p].status}
      BY DEF Path
    <3>4. s = "success" => transfers[p] > 0
      BY <3>1 DEF Path, SettlementInv, PayoutsInv, SuccessMeansTransferred
    <3> HIDE DEF s
    <3> QED
      BY <2>6, <3>1, <3>2, <3>3, <3>4, StatusSaved DEF SaveFailed
  <2> QED
    BY <1>4, <2>1, <2>2, <2>3, <2>4, <2>5, <2>6 DEF PayoutRun
<1>5. CASE SaveSuccessThrows(a)
  <2> DEFINE r == [run[a] EXCEPT !.pc = "save_failed", !.read = "success"]
  <2>1. r \in RunType /\ r.pc = "save_failed" /\ r.payout = run[a].payout
    BY <1>0 DEF RunType, RunLabels, PayoutStatus
  <2>2. run' = [run EXCEPT ![a] = r]
    BY <1>0, <1>5 DEF SaveSuccessThrows, PayoutsTypeOK
  <2>3. RunEstablished(a)'
    BY <1>0, <1>5, <2>1, <2>2 DEF SaveSuccessThrows, RunEstablished, PayoutsTypeOK
  <2>4. faults' \in 0..MaxFaults
    BY <1>0, <1>5 DEF SaveSuccessThrows
  <2> QED
    BY <1>0, <1>5, <2>1, <2>2, <2>3, <2>4, RunMovesOn DEF SaveSuccessThrows, PayoutsTypeOK
<1>6. CASE RunCrash(a)
  <2>1. faults' \in 0..MaxFaults
    BY <1>0, <1>6 DEF RunCrash
  <2> QED
    BY <1>1, <1>6, <2>1, NoRunType DEF RunCrash, EndRun, NoRun
<1> QED
  BY <1>2, <1>3, <1>4, <1>5, <1>6

LEMMA SettlementStep == SettlementInv /\ [SettlementNext]_settlementVars => SettlementInv'
<1> SUFFICES ASSUME SettlementInv, [SettlementNext]_settlementVars PROVE SettlementInv'
  OBVIOUS
<1>1. CASE UNCHANGED settlementVars
  BY <1>1 DEF settlementVars, lifeVars, payoutVars, SettlementInv, TypeOK, PayoutsInv,
              PayoutsTypeOK, PayoutsPartitionOrders, SuccessMeansTransferred,
              UncreatedIsEmpty, RunEstablished
<1> QED
  BY <1>1, LifecycleKeepsSettlement, PayoutKeepsSettlement DEF SettlementNext

-----------------------------------------------------------------------------
(* What payouts keep, and what they promise.                               *)

\* Payout documents, tags on orders and executed transfers agree at every
\* step, whatever staff requests, retries and faults race (PayoutsInv).
THEOREM PayoutSafety == SettlementSpec => []PayoutsInv
<1>1. SettlementInv => PayoutsInv
  BY DEF SettlementInv
<1> QED
  BY <1>1, SettlementInitInv, SettlementStep, PTL DEF SettlementSpec

\* A step changes a tag only if it is a commit, of an order that is eligible
\* at that moment.
LEMMA TagStep ==
  ASSUME SettlementInv, [SettlementNext]_settlementVars
  PROVE  \/ \A o \in Orders : order'[o].payout = order[o].payout
         \/ \E a \in Runs, p \in PayoutIds : CommitPayout(a, p)
<1>1. CASE Next /\ UNCHANGED payoutVars
  BY <1>1, TagsUntouched DEF SettlementInv
<1>2. CASE PayoutNext
  BY <1>2 DEF PayoutNext, PayoutRun, CreatePayout, RetryFailedPayout, SelectOrders,
              RetryTransaction, Transfer, SaveSuccess, SaveFailed, SaveSuccessThrows,
              RunCrash
<1> QED
  BY <1>1, <1>2 DEF SettlementNext, settlementVars

\* No order is tagged unless it is paid, delivered and free at the moment of
\* the commit, however long ago it was selected (PayoutsTagEligible).
THEOREM TagSafety == SettlementSpec => PayoutsTagEligible
<1>1. SettlementInv /\ [SettlementNext]_settlementVars => [TaggedWhileEligible]_settlementVars
  <2> SUFFICES ASSUME SettlementInv, [SettlementNext]_settlementVars,
                      NEW o \in Orders, order'[o].payout # order[o].payout
               PROVE  /\ order[o].payout = NoPayout
                      /\ order[o].paymentStatus = "paid"
                      /\ order[o].status = "delivered"
    BY DEF TaggedWhileEligible
  <2>1. PICK a \in Runs, p \in PayoutIds : CommitPayout(a, p)
    BY TagStep
  <2> QED
    BY <2>1, CommitTags DEF Commits
<1> QED
  BY <1>1, SettlementInitInv, SettlementStep, PTL DEF SettlementSpec, PayoutsTagEligible

\* The orders' tags are a ledger: each is settled at most once, for good,
\* together with orders of the same seller (ImplementsLedger).
THEOREM LedgerRefinement == SettlementSpec => ImplementsLedger
<1> DEFINE settled == [o \in Orders |-> order[o].payout]
<1>1. SettlementInit => Ledger!Init
  BY DEF SettlementInit, Init, NewOrder, Ledger!Init
<1>2. SettlementInv /\ [SettlementNext]_settlementVars => [Ledger!Next]_settled
  <2> SUFFICES ASSUME SettlementInv, [SettlementNext]_settlementVars
               PROVE  [Ledger!Next]_settled
    OBVIOUS
  <2>1. ASSUME NEW a \in Runs, NEW p \in PayoutIds, CommitPayout(a, p)
        PROVE  Ledger!Next
    <3> DEFINE sel == run[a].sel
    <3>0. Commits(a, p)
      BY <2>1, CommitTags
    <3>1. sel \in SUBSET Orders
      BY <3>0 DEF Commits
    <3>2. Ledger!Unused(p)
      BY <3>0 DEF Commits, Ledger!Unused
    <3>3. \A o \in Orders : order'[o].payout = IF o \in sel THEN p ELSE order[o].payout
      <4>1. /\ \A o \in sel : order'[o].payout = p
            /\ \A o \in Orders \ sel : order'[o] = order[o]
        BY <3>0 DEF Commits
      <4> QED
        BY <4>1
    <3>4. settled' = [o \in Orders |-> IF o \in sel THEN p ELSE settled[o]]
      BY <3>3
    <3>5. \A o1, o2 \in sel : SellerOf[o1] = SellerOf[o2]
      BY <3>0 DEF Commits
    <3>6. sel # {} /\ \A o \in sel : settled[o] = NoPayout
      <4>1. sel # {} /\ \A o \in sel : order[o].payout = NoPayout
        BY <3>0 DEF Commits
      <4> QED
        BY <3>1, <4>1
    <3> HIDE DEF sel
    <3> QED
      BY <3>1, <3>2, <3>4, <3>5, <3>6 DEF Ledger!Next, Ledger!Settle
  <2>2. CASE \A o \in Orders : order'[o].payout = order[o].payout
    BY <2>2
  <2> QED
    BY <2>1, <2>2, TagStep
<1> QED
  BY <1>1, <1>2, SettlementInitInv, SettlementStep, PTL
     DEF SettlementSpec, ImplementsLedger, Ledger!Spec
-----------------------------------------------------------------------------
(* The orders, with payouts running.                                       *)

\* Payouts write nothing of an order but its tag.
LEMMA OnlyTags ==
  ASSUME SettlementInv, PayoutNext
  PROVE  \A o \in Orders :
           /\ order'[o].status = order[o].status
           /\ order'[o].paymentStatus = order[o].paymentStatus
           /\ order'[o].paidAt = order[o].paidAt
           /\ order'[o].refund = order[o].refund
           /\ order'[o].tracked = order[o].tracked
<1>1. ASSUME NEW a \in Runs, NEW p \in PayoutIds, CommitPayout(a, p), NEW o \in Orders
      PROVE  /\ order'[o].status = order[o].status
             /\ order'[o].paymentStatus = order[o].paymentStatus
             /\ order'[o].paidAt = order[o].paidAt
             /\ order'[o].refund = order[o].refund
             /\ order'[o].tracked = order[o].tracked
  <2>1. order[o] \in OrderDoc
    BY DEF SettlementInv, TypeOK
  <2>2. Commits(a, p)
    BY <1>1, CommitTags
  <2>3. order'[o] = order[o] \/ order'[o] = [order[o] EXCEPT !.payout = p]
    BY <1>1, <2>2 DEF Commits
  <2> QED
    BY <2>1, <2>3 DEF OrderDoc
<1>2. ASSUME UNCHANGED order
      PROVE  \A o \in Orders :
               /\ order'[o].status = order[o].status
               /\ order'[o].paymentStatus = order[o].paymentStatus
               /\ order'[o].paidAt = order[o].paidAt
               /\ order'[o].refund = order[o].refund
               /\ order'[o].tracked = order[o].tracked
  BY <1>2
<1>3. UNCHANGED order \/ \E a \in Runs, p \in PayoutIds : CommitPayout(a, p)
  BY DEF PayoutNext, PayoutRun, CreatePayout, RetryFailedPayout, SelectOrders,
         RetryTransaction, Transfer, SaveSuccess, SaveFailed, SaveSuccessThrows, RunCrash
<1> QED
  BY <1>1, <1>2, <1>3

OrdersInv == SettlementInv /\ PaymentInv /\ CancelInv /\ OneMailPerPayment

LEMMA OrdersStep == OrdersInv /\ [SettlementNext]_settlementVars => OrdersInv'
<1> SUFFICES ASSUME OrdersInv, [SettlementNext]_settlementVars PROVE OrdersInv'
  OBVIOUS
<1>0. /\ SettlementInv /\ SettlementInv' /\ TypeOK /\ TypeOK'
      /\ PaymentInv /\ CancelInv /\ OneMailPerPayment
  BY SettlementStep DEF OrdersInv, SettlementInv
<1>1. CASE [Next]_vars
  BY <1>0, <1>1, PaymentStep, CancelStep, MailStep DEF OrdersInv
<1>2. CASE PayoutNext /\ UNCHANGED lifeVars
  <2>0. UNCHANGED <<handler, restocked, emitted, refunds, mails, unpaid>>
    BY <1>2 DEF lifeVars
  <2>1. \A o \in Orders :
          /\ order'[o].status = order[o].status
          /\ order'[o].paymentStatus = order[o].paymentStatus
          /\ order'[o].paidAt = order[o].paidAt
          /\ order'[o].refund = order[o].refund
          /\ order'[o].tracked = order[o].tracked
    BY <1>0, <1>2, OnlyTags
  <2>2. \A w \in Handlers : \A o \in handler[w].todo :
          o \in Orders /\ Established(w, o) /\ Restored(w, o)
    BY <1>0 DEF PaymentInv, CancelInv, TypeOK, HandlerType
  <2>3. PaymentInv'
    <3>1. \A w \in Handlers : \A o \in handler'[w].todo : Established(w, o)'
      BY <2>0, <2>1, <2>2 DEF Established
    <3>2. RefundFollowsPayment'
      BY <1>0, <2>0, <2>1 DEF PaymentInv, RefundFollowsPayment
    <3> QED
      BY <1>0, <2>1, <3>1, <3>2 DEF PaymentInv
  <2>4. CancelInv'
    <3>1. \A w \in Handlers : \A o \in handler'[w].todo : Restored(w, o)'
      BY <2>0, <2>1, <2>2 DEF Restored, AllRestocked
    <3>2. DeliveredIsTracked' /\ CancelledWasRestocked'
      BY <1>0, <2>0, <2>1 DEF CancelInv, DeliveredIsTracked, CancelledWasRestocked
    <3> QED
      BY <1>0, <3>1, <3>2 DEF CancelInv
  <2>5. OneMailPerPayment'
    BY <1>0, <2>0, <2>1 DEF OneMailPerPayment
  <2> QED
    BY <1>0, <2>3, <2>4, <2>5 DEF OrdersInv
<1> QED
  BY <1>1, <1>2 DEF SettlementNext, settlementVars, vars

\* Payouts that run next to the order workflow disturb none of its
\* guarantees: refunds, restocked cancellations and confirmations.
THEOREM OrdersWithPayouts ==
  SettlementSpec => [](RefundFollowsPayment /\ CancelledWasRestocked /\ OneMailPerPayment)
<1>1. SettlementInit => OrdersInv
  <2> SUFFICES ASSUME SettlementInit PROVE OrdersInv
    OBVIOUS
  <2>1. Init
    BY DEF SettlementInit
  <2> QED
    BY <2>1, MailInit, SettlementInitInv, PaymentInit, CancelInit DEF OrdersInv
<1>2. OrdersInv => RefundFollowsPayment /\ CancelledWasRestocked /\ OneMailPerPayment
  BY DEF OrdersInv, PaymentInv, CancelInv
<1> QED
  BY <1>1, <1>2, OrdersStep, PTL DEF SettlementSpec
=============================================================================
