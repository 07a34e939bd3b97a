--------------------------- MODULE OrderLifecycle ---------------------------
(***************************************************************************)
(* What happens to orders after checkout: the staff and seller status      *)
(* updates, the Paystack webhook and the refund workflow of                *)
(* backend/src/services/order.service.js, as concurrent HTTP requests.     *)
(*                                                                         *)
(* Every request is a handler: it reads its documents, awaits (the         *)
(* database, Paystack), and writes.  One action is what runs between two   *)
(* awaits that matter, so that the requests interleave as they do under    *)
(* Node and across server instances.  A guard a request fails is an error  *)
(* response and no step.                                                   *)
(***************************************************************************)
EXTENDS OrderDocs

CONSTANTS
  Handlers,       \* requests that can be in flight at the same time
  Targets,        \* the statuses staff and sellers set
  NItems,         \* line items per order
  MaxRestocks,    \* a line item's restock counter saturates here
  MaxRefunds,     \* Paystack refuses refunds of an order from this many on
  MaxDuplicates,  \* webhooks delivered again after a 200
  MaxCrashes      \* requests that die half-way (crash, database error)

ASSUME OrderLifecycleAssumption ==
  /\ Targets \subseteq OrderStatus
  /\ NItems \in Nat \ {0}
  /\ MaxRestocks \in Nat \ {0}
  /\ MaxRefunds \in Nat
  /\ MaxDuplicates \in Nat
  /\ MaxCrashes \in Nat

VARIABLES
  handler,     \* handler[w]: the request w is executing
  restocked,   \* restocked[o][i]: times line item i went back into stock
  emitted,     \* emitted[r]: events Paystack has for reference r
  acked,       \* acked[r]: those of them answered with a 200
  refunds,     \* refunds[o]: refunds Paystack executed for order o
  mails,       \* mails[o]: payment confirmations sent for order o
  unpaid,      \* unpaid[o]: writes that took order o out of "paid"
  duplicates, crashes

lifeVars == <<handler, restocked, emitted, acked, refunds, mails, unpaid,
              duplicates, crashes>>
vars == <<order, lifeVars>>

Items == 1..NItems
EventKinds == {"charge.success", "charge.failed"}
Labels == {"idle", "upd_restock", "upd_save", "paid_loop", "fail_loop",
           "req_save", "apr_paystack", "apr_restock", "apr_save", "rej_save"}

Idle == [pc |-> "idle", todo |-> {}, seen |-> [o \in Orders |-> NewOrder],
         target |-> "placed", ref |-> NoRef, item |-> 1]

Init ==
  /\ order = [o \in Orders |-> NewOrder]
  /\ handler = [w \in Handlers |-> Idle]
  /\ restocked = [o \in Orders |-> [i \in Items |-> 0]]
  /\ emitted = [r \in Refs |-> {}]
  /\ acked = [r \in Refs |-> {}]
  /\ refunds = [o \in Orders |-> 0]
  /\ mails = [o \in Orders |-> 0]
  /\ unpaid = [o \in Orders |-> 0]
  /\ duplicates = 0
  /\ crashes = 0

-----------------------------------------------------------------------------
(* Starting, moving on with and ending a request.                          *)

\* A request reads the documents S; only they are remembered.
Start(w, label, S, target, ref) ==
  /\ handler[w].pc = "idle"
  /\ handler' = [handler EXCEPT ![w] =
       [pc |-> label, todo |-> S,
        seen |-> [o \in Orders |-> IF o \in S THEN order[o] ELSE NewOrder],
        target |-> target, ref |-> ref, item |-> 1]]
  /\ UNCHANGED <<order, restocked, emitted, acked, refunds, mails, unpaid, crashes>>

Goto(w, label) == handler' = [handler EXCEPT ![w].pc = label]
Finish(w) == handler' = [handler EXCEPT ![w] = Idle]

NoteUnpaid(o) ==
  unpaid' = IF order[o].paymentStatus = "paid" /\ order'[o].paymentStatus # "paid"
            THEN [unpaid EXCEPT ![o] = @ + 1] ELSE unpaid

-----------------------------------------------------------------------------
(* updateOrderStatus and updateSellerOrderStatus                           *)

\* The statuses from which a cancellation puts the items back.
RestockedOnCancel(s) == s \notin {"cancelled", "delivered"}

UpdateOrderStatus(w, o, to) ==
  /\ Start(w, IF to = "cancelled" /\ RestockedOnCancel(order[o].status)
              THEN "upd_restock" ELSE "upd_save",
           {o}, to, NoRef)
  /\ UNCHANGED duplicates

UpdateSellerOrderStatus(w, s, o, to) ==
  /\ SellerOf[o] = s
  /\ UpdateOrderStatus(w, o, to)

\* Mutations of LastItem: one past the end; the first item only.
PastLastItem(w) == handler[w].item > NItems
FirstItem(w) == handler[w].item = 1

LastItem(w) == handler[w].item = NItems

\* restoreStock, one line item per step: each is a write of its own,
\* outside any transaction.
RestockItem(w, from, next) ==
  /\ handler[w].pc = from
  /\ \E o \in handler[w].todo :
       restocked' = [restocked EXCEPT ![o][handler[w].item] =
                       IF @ < MaxRestocks THEN @ + 1 ELSE @]
  /\ handler' = IF LastItem(w) THEN [handler EXCEPT ![w].pc = next]
                ELSE [handler EXCEPT ![w].item = @ + 1]
  /\ UNCHANGED <<order, emitted, acked, refunds, mails, unpaid, duplicates, crashes>>

UpdateSave(w) ==
  /\ handler[w].pc = "upd_save"
  /\ \E o \in handler[w].todo :
       LET read == handler[w].seen[o] IN
       SaveOrder(o, read, handler[w].target, read.paymentStatus, read.refund)
  /\ Finish(w)
  /\ UNCHANGED <<restocked, emitted, acked, refunds, mails, unpaid, duplicates, crashes>>

-----------------------------------------------------------------------------
(* Paystack, and the webhook: handlePaystackWebhook, markOrderPaid and     *)
(* markOrderPaymentFailed.                                                 *)

\* A payment attempt fails, or the one successful charge of a reference
\* happens.  After a success Paystack accepts no further attempt.
Charge(r, kind) ==
  /\ "charge.success" \notin emitted[r]
  /\ emitted' = [emitted EXCEPT ![r] = @ \cup {kind}]
  /\ UNCHANGED <<order, handler, restocked, acked, refunds, mails, unpaid,
                 duplicates, crashes>>

\* Events arrive in any order; one without a 200 is sent again, also while
\* an earlier delivery is still being handled, and an answered one may be
\* repeated.  The signature check lets only Paystack's events through.
Deliver(w, r, kind) ==
  /\ kind \in emitted[r]
  /\ \/ kind \notin acked[r] /\ UNCHANGED duplicates
     \/ /\ kind \in acked[r]
        /\ duplicates < MaxDuplicates
        /\ duplicates' = duplicates + 1
  /\ Start(w, IF kind = "charge.success" THEN "paid_loop" ELSE "fail_loop",
           OrdersOf(r), "placed", r)

\* Mutation of NotYetPaid: decided on the document that was read.
ReadAsNotYetPaid(w, o) == handler[w].seen[o].paymentStatus # "paid"

\* The filter { paymentStatus: { $ne: 'paid' } } of the compare-and-set.
NotYetPaid(w, o) == order[o].paymentStatus # "paid"

\* Mutation of Remaining: return, not continue, at an order already paid.
ReturnIfPaid(w, o) == IF order[o].paymentStatus = "paid" THEN {} ELSE handler[w].todo \ {o}

Remaining(w, o) == handler[w].todo \ {o}

\* One iteration of markOrderPaid: compare-and-set on the stored payment
\* status, while the choice of "confirmed" rests on the status that was read.
MarkPaid(w) ==
  /\ handler[w].pc = "paid_loop"
  /\ \E o \in handler[w].todo :
       /\ IF NotYetPaid(w, o)
          THEN /\ order' = [order EXCEPT
                    ![o].paymentStatus = "paid",
                    ![o].paidAt = TRUE,
                    ![o].status = IF handler[w].seen[o].status = "placed"
                                  THEN "confirmed" ELSE order[o].status]
               /\ mails' = [mails EXCEPT ![o] = @ + 1]
          ELSE UNCHANGED <<order, mails>>
       /\ handler' = [handler EXCEPT ![w].todo = Remaining(w, o)]
  /\ UNCHANGED <<restocked, emitted, acked, refunds, unpaid, duplicates, crashes>>

MarkFailed(w) ==
  /\ handler[w].pc = "fail_loop"
  /\ \E o \in handler[w].todo :
       LET read == handler[w].seen[o] IN
       /\ SaveOrder(o, read, read.status, "failed", read.refund)
       /\ NoteUnpaid(o)
       /\ handler' = [handler EXCEPT ![w].todo = @ \ {o}]
  /\ UNCHANGED <<restocked, emitted, acked, refunds, mails, duplicates, crashes>>

\* All orders done: the event is answered with a 200.
AckWebhook(w) ==
  /\ handler[w].pc \in {"paid_loop", "fail_loop"}
  /\ handler[w].todo = {}
  /\ acked' = [acked EXCEPT ![handler[w].ref] = @ \cup
       {IF handler[w].pc = "paid_loop" THEN "charge.success" ELSE "charge.failed"}]
  /\ Finish(w)
  /\ UNCHANGED <<order, restocked, emitted, refunds, mails, unpaid, duplicates, crashes>>

-----------------------------------------------------------------------------
(* The refund workflow: requestRefund, approveRefund, rejectRefund         *)

\* Mutation of Refundable: without the payment check.
RefundableUnpaid(o) == order[o].refund \in {"none", "rejected"}

Refundable(o) ==
  /\ order[o].paymentStatus = "paid"
  /\ order[o].refund \in {"none", "rejected"}

RequestRefund(w, o) ==
  /\ Refundable(o)
  /\ Start(w, "req_save", {o}, "placed", NoRef)
  /\ UNCHANGED duplicates

ApproveRefund(w, o) ==
  /\ order[o].refund = "requested"
  /\ order[o].payout = NoPayout
  /\ Start(w, IF RefOf[o] # NoRef THEN "apr_paystack"
              ELSE IF order[o].status \notin {"cancelled", "returned"}
              THEN "apr_restock" ELSE "apr_save",
           {o}, "returned", NoRef)
  /\ UNCHANGED duplicates

RejectRefund(w, o) ==
  /\ order[o].refund = "requested"
  /\ Start(w, "rej_save", {o}, "placed", NoRef)
  /\ UNCHANGED duplicates

RefundAccepted(o) ==
  /\ "charge.success" \in emitted[RefOf[o]]
  /\ refunds[o] < MaxRefunds
  /\ refunds' = [refunds EXCEPT ![o] = @ + 1]

\* refundTransaction: executed and answered; or the call throws, either
\* with the refund executed (the answer is lost) or without.
PaystackRefund(w) ==
  /\ handler[w].pc = "apr_paystack"
  /\ \E o \in handler[w].todo :
       \/ /\ RefundAccepted(o)
          /\ Goto(w, IF handler[w].seen[o].status \notin {"cancelled", "returned"}
                     THEN "apr_restock" ELSE "apr_save")
       \/ RefundAccepted(o) /\ Finish(w)
       \/ UNCHANGED refunds /\ Finish(w)
  /\ UNCHANGED <<order, restocked, emitted, acked, mails, unpaid, duplicates, crashes>>

ApproveSave(w) ==
  /\ handler[w].pc = "apr_save"
  /\ \E o \in handler[w].todo :
       /\ SaveOrder(o, handler[w].seen[o], "returned", "refunded", "completed")
       /\ NoteUnpaid(o)
  /\ Finish(w)
  /\ UNCHANGED <<restocked, emitted, acked, refunds, mails, duplicates, crashes>>

\* requestRefund and rejectRefund write nothing but the refund workflow.
RefundSave(w, from, to) ==
  /\ handler[w].pc = from
  /\ \E o \in handler[w].todo :
       LET read == handler[w].seen[o] IN
       SaveOrder(o, read, read.status, read.paymentStatus, to)
  /\ Finish(w)
  /\ UNCHANGED <<restocked, emitted, acked, refunds, mails, unpaid, duplicates, crashes>>

-----------------------------------------------------------------------------
\* A request dies between two steps; what it wrote stays written.
Crash(w) ==
  /\ handler[w].pc # "idle"
  /\ crashes < MaxCrashes
  /\ crashes' = crashes + 1
  /\ Finish(w)
  /\ UNCHANGED <<order, restocked, emitted, acked, refunds, mails, unpaid, duplicates>>

\* What a request in flight does next.
Continue(w) ==
  \/ RestockItem(w, "upd_restock", "upd_save")
  \/ UpdateSave(w)
  \/ MarkPaid(w)
  \/ MarkFailed(w)
  \/ AckWebhook(w)
  \/ PaystackRefund(w)
  \/ RestockItem(w, "apr_restock", "apr_save")
  \/ ApproveSave(w)
  \/ RefundSave(w, "req_save", "requested")
  \/ RefundSave(w, "rej_save", "rejected")

Request(w) ==
  \E o \in Orders :
    \/ \E to \in Targets : UpdateOrderStatus(w, o, to)
    \/ \E to \in Targets, s \in Sellers : UpdateSellerOrderStatus(w, s, o, to)
    \/ RequestRefund(w, o)
    \/ ApproveRefund(w, o)
    \/ RejectRefund(w, o)

Webhook(w) == \E r \in Refs, kind \in EventKinds : Deliver(w, r, kind)

Next ==
  \/ \E r \in Refs, kind \in EventKinds : Charge(r, kind)
  \/ \E w \in Handlers : Webhook(w) \/ Request(w) \/ Continue(w) \/ Crash(w)

Spec == Init /\ [][Next]_vars

\* A request in flight is resumed by the event loop; an event that has had
\* no 200 keeps being delivered, and the server keeps accepting it.
Fairness ==
  /\ \A w \in Handlers : WF_vars(Continue(w))
  /\ \A r \in Refs, kind \in EventKinds :
       SF_vars(kind \notin acked[r] /\ \E w \in Handlers : Deliver(w, r, kind))

FairSpec == Spec /\ Fairness
-----------------------------------------------------------------------------
(* Properties                                                              *)

HandlerType ==
  [pc: Labels, todo: SUBSET Orders, seen: [Orders -> OrderDoc],
   target: OrderStatus, ref: Refs \cup {NoRef}, item: Items]

\* Types of all variables.
TypeOK ==
  /\ order \in [Orders -> OrderDoc]
  /\ handler \in [Handlers -> HandlerType]
  /\ restocked \in [Orders -> [Items -> 0..MaxRestocks]]
  /\ emitted \in [Refs -> SUBSET EventKinds]
  /\ acked \in [Refs -> SUBSET EventKinds]
  /\ refunds \in [Orders -> 0..MaxRefunds]
  /\ mails \in [Orders -> Nat]
  /\ unpaid \in [Orders -> Nat]
  /\ duplicates \in 0..MaxDuplicates
  /\ crashes \in 0..MaxCrashes

\* No money goes back, and no refund is recorded, for an order that was not
\* charged and asked for: whatever handlers interleave, crash or repeat, a
\* refund workflow that has left "none" belongs to an order whose payment
\* Paystack confirmed, a Paystack refund to an order whose owner requested
\* it, and "completed" to one whose refund Paystack executed
\* (requestRefund, approveRefund, markOrderPaid).
RefundFollowsPayment ==
  \A o \in Orders :
    /\ order[o].paidAt => RefOf[o] \in Refs /\ "charge.success" \in emitted[RefOf[o]]
    /\ order[o].refund # "none" => order[o].paidAt
    /\ refunds[o] > 0 => order[o].refund # "none"
    /\ order[o].refund = "completed" => refunds[o] > 0

\* One payment confirmation per passage into "paid", however many deliveries
\* of the webhook race (the compare-and-set of markOrderPaid): the number of
\* mails exceeds the number of times the order left "paid" by one while it
\* is paid and by none otherwise.
OneMailPerPayment ==
  \A o \in Orders :
    mails[o] = unpaid[o] + (IF order[o].paymentStatus = "paid" THEN 1 ELSE 0)

\* Stock is never lost by a cancellation, not even by one that crashes: an
\* order that is cancelled without ever having been delivered has had every
\* line item put back (updateOrderStatus restores before it saves).
CancelledWasRestocked ==
  \A o \in Orders :
    order[o].status = "cancelled" /\ "delivered" \notin order[o].tracked
      => \A i \in Items : restocked[o][i] > 0

\* The payment status changes only for a reason, however stale the documents
\* that are saved: to "paid" or "failed" when Paystack has such an event for
\* the order's own reference, to "refunded" when the order had been paid,
\* Paystack has executed a refund of it and an approval is saving it.  It
\* never becomes "pending" again, and nothing takes paidAt or a tracked
\* status away.  (A repeated charge.success does make a refunded order paid
\* again, and a request saved late reopens a completed refund.)
Approving(o) == \E w \in Handlers : handler[w].pc = "apr_save" /\ o \in handler[w].todo

PaymentHistory ==
  \A o \in Orders :
    LET was == order[o].paymentStatus
        is == order'[o].paymentStatus
    IN  /\ \/ is = was
           \/ is = "paid" /\ RefOf[o] \in Refs /\ "charge.success" \in emitted[RefOf[o]]
           \/ is = "failed" /\ RefOf[o] \in Refs /\ "charge.failed" \in emitted[RefOf[o]]
           \/ is = "refunded" /\ order[o].paidAt /\ refunds[o] > 0 /\ Approving(o)
        /\ order[o].paidAt => order'[o].paidAt
        /\ order[o].tracked \subseteq order'[o].tracked
PaymentHistoryKept == [][PaymentHistory]_vars

\* A successful charge reaches every order of its reference, across crashes
\* in the middle of the loop, duplicates and racing requests.
ChargeReachesOrders ==
  \A r \in Refs :
    ("charge.success" \in emitted[r]) ~> (\A o \in OrdersOf(r) : order[o].paidAt)

=============================================================================
