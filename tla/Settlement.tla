------------------------------ MODULE Settlement ------------------------------
(***************************************************************************)
(* OrderLifecycle and Payouts over the same order collection: customers,   *)
(* staff, sellers and the webhook change orders while payouts select and   *)
(* tag them.                                                               *)
(***************************************************************************)
EXTENDS OrderLifecycle, Payouts

settlementVars == <<order, lifeVars, payoutVars>>

SettlementInit == Init /\ PayoutsInit

SettlementNext ==
  \/ Next /\ UNCHANGED payoutVars
  \/ PayoutNext /\ UNCHANGED lifeVars

SettlementSpec == SettlementInit /\ [][SettlementNext]_settlementVars

Ledger == INSTANCE SettlementLedger WITH settled <- [o \in Orders |-> order[o].payout]

-----------------------------------------------------------------------------
PayoutDoc == [status: PayoutStatus, orders: SUBSET Orders, seller: Sellers \cup {Platform}]
RunType ==
  [pc: RunLabels, seller: Sellers \cup {Platform}, sel: SUBSET Orders,
   seen: [Orders -> OrderDoc], payout: PayoutIds \cup {NoPayout}, read: PayoutStatus]

\* Types of the variables Payouts adds.
PayoutsTypeOK ==
  /\ payouts \in [PayoutIds -> PayoutDoc]
  /\ transfers \in [PayoutIds -> 0..MaxTransfers]
  /\ run \in [Runs -> RunType]
  /\ faults \in 0..MaxFaults

\* A payout document and the tags on the orders never disagree: an order
\* carries the id of a payout exactly when that payout lists it, so no order
\* is in two payouts, and a payout lists orders of its own seller only
\* (the transaction of createPayout, against concurrent runs and saves).
PayoutsPartitionOrders ==
  \A p \in PayoutIds, o \in Orders :
    /\ order[o].payout = p <=> o \in payouts[p].orders
    /\ o \in payouts[p].orders => SellerOf[o] = payouts[p].seller

\* "success" is recorded only for money that left: a payout saved as
\* successful had a transfer executed, under every order of saves of
\* concurrent runs and retries.
SuccessMeansTransferred ==
  \A p \in PayoutIds : payouts[p].status = "success" => transfers[p] > 0

\* What payouts keep at every step: documents and tags agree, and success
\* was paid.
PayoutsInv == PayoutsTypeOK /\ PayoutsPartitionOrders /\ SuccessMeansTransferred

\* An order is tagged only while it is paid, delivered and in no other
\* payout, at the moment of the commit and not only when it was selected.
TaggedWhileEligible ==
  \A o \in Orders :
    order'[o].payout # order[o].payout =>
      /\ order[o].payout = NoPayout
      /\ order[o].paymentStatus = "paid"
      /\ order[o].status = "delivered"
PayoutsTagEligible == [][TaggedWhileEligible]_settlementVars

\* The whole system implements the ledger.
ImplementsLedger == Ledger!Spec

=============================================================================
