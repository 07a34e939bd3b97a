------------------------------ MODULE OrderDocs ------------------------------
(***************************************************************************)
(* The `orders` collection of backend/src/models/Order.model.js, as far as *)
(* the payment, delivery, refund and payout code tells two documents       *)
(* apart, and the way Mongoose writes a document back.                     *)
(*                                                                         *)
(* A handler reads a document, awaits, and calls save().  Mongoose sends   *)
(* only the paths whose value differs from the one that was read, with no  *)
(* version check, so a save is a field-by-field merge into whatever the    *)
(* document has become in the meantime (SaveOrder below).                  *)
(***************************************************************************)
EXTENDS Naturals

CONSTANTS
  Orders,      \* the order documents of the instance, placed by earlier checkouts
  Refs,        \* Paystack payment references
  NoRef,       \* the reference of a cash-on-delivery order
  RefOf,       \* RefOf[o]: the reference shared by the orders of one checkout
  Sellers,     \* marketplace sellers
  Platform,    \* the owner of an order without a seller
  SellerOf,    \* SellerOf[o]: the one seller of an order, or Platform
  PayoutIds,   \* payout documents that can be created
  NoPayout     \* order.payout = null

ASSUME OrderDocsAssumption ==
  /\ NoRef \notin Refs
  /\ RefOf \in [Orders -> Refs \cup {NoRef}]
  /\ Platform \notin Sellers
  /\ SellerOf \in [Orders -> Sellers \cup {Platform}]
  /\ NoPayout \notin PayoutIds

VARIABLE order   \* order[o]: the stored document

OrderStatus == {"placed", "confirmed", "processing", "shipped",
                "out_for_delivery", "delivered", "cancelled", "returned"}
PaymentStatus == {"pending", "paid", "failed", "refunded"}
RefundStatus == {"none", "requested", "approved", "rejected", "completed"}

\* trackingEvents is kept as the set of statuses it has an entry for;
\* deliveredAt is set exactly when "delivered" gets one.
OrderDoc ==
  [status: OrderStatus, paymentStatus: PaymentStatus, paidAt: BOOLEAN,
   refund: RefundStatus, tracked: SUBSET OrderStatus,
   payout: PayoutIds \cup {NoPayout}]

\* What placeOrder stores (the pre-save hook tracks the first status).
NewOrder ==
  [status |-> "placed", paymentStatus |-> "pending", paidAt |-> FALSE,
   refund |-> "none", tracked |-> {"placed"}, payout |-> NoPayout]

OrdersOf(r) == {o \in Orders : RefOf[o] = r}

\* Mutation of Path: save() sends the whole document.
SaveWholeDocument(read, wanted, stored) == wanted

\* A path of the document that save() leaves alone unless the handler changed it.
Path(read, wanted, stored) == IF wanted = read THEN stored ELSE wanted

\* save() by a handler that read `read` and now wants status s, payment
\* status p and refund status f.  The pre-save hook adds a tracking event
\* when, and only when, the status path is modified.
Saved(read, stored, s, p, f) ==
  [stored EXCEPT
     !.status = Path(read.status, s, stored.status),
     !.paymentStatus = Path(read.paymentStatus, p, stored.paymentStatus),
     !.refund = Path(read.refund, f, stored.refund),
     !.tracked = stored.tracked \cup (IF s = read.status THEN {} ELSE {s})]

SaveOrder(o, read, s, p, f) ==
  order' = [order EXCEPT ![o] = Saved(read, order[o], s, p, f)]
=============================================================================
