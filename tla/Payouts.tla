------------------------------- MODULE Payouts -------------------------------
(***************************************************************************)
(* Seller payouts, backend/src/services/payout.service.js, as concurrent   *)
(* staff requests ("runs"): one MongoDB transaction selects a seller's     *)
(* eligible orders, creates the payout and tags the orders; the transfer   *)
(* happens afterwards, outside it, and its outcome is saved last.          *)
(*                                                                         *)
(* The transaction reads from a snapshot and commits only if none of the   *)
(* orders it updates has been written since: MongoDB reports a write       *)
(* conflict otherwise and withTransaction runs the callback again.  The    *)
(* updates and the commit are one step, because a plain write that meets   *)
(* an order updated by an open transaction waits for that transaction.     *)
(***************************************************************************)
EXTENDS OrderDocs

CONSTANTS
  Runs,          \* staff requests that can be in flight at the same time
  Registered,    \* sellers with a paystackRecipientCode
  MaxTransfers,  \* Paystack executes at most this many transfers of a payout
  MaxFaults      \* staff requests that crash or cannot save

ASSUME PayoutsAssumption ==
  /\ Registered \subseteq Sellers
  /\ MaxTransfers \in Nat
  /\ MaxFaults \in Nat

VARIABLES
  payouts,    \* payouts[p]: the payout document, status "none" before creation
  transfers,  \* transfers[p]: transfers Paystack executed for payout p
  run,        \* run[a]: the request a is executing
  faults

payoutVars == <<payouts, transfers, run, faults>>

RunLabels == {"idle", "select", "commit", "transfer", "save_success", "save_failed"}
PayoutStatus == {"none", "pending", "success", "failed"}

NoRun == [pc |-> "idle", seller |-> Platform, sel |-> {},
          seen |-> [o \in Orders |-> NewOrder], payout |-> NoPayout, read |-> "none"]

PayoutsInit ==
  /\ payouts = [p \in PayoutIds |-> [status |-> "none", orders |-> {}, seller |-> Platform]]
  /\ transfers = [p \in PayoutIds |-> 0]
  /\ run = [a \in Runs |-> NoRun]
  /\ faults = 0

\* Mutation of Eligible: without { payout: null }.
EligibleAgain(s) ==
  {o \in Orders : /\ SellerOf[o] = s
                  /\ order[o].paymentStatus = "paid"
                  /\ order[o].status = "delivered"}

\* getEligibleOrdersFilter
Eligible(s) ==
  {o \in Orders : /\ SellerOf[o] = s
                  /\ order[o].paymentStatus = "paid"
                  /\ order[o].status = "delivered"
                  /\ order[o].payout = NoPayout}

EndRun(a) == run' = [run EXCEPT ![a] = NoRun]

\* createPayout: the seller must exist and have bank details.
CreatePayout(a, s) ==
  /\ run[a].pc = "idle"
  /\ s \in Registered
  /\ run' = [run EXCEPT ![a].pc = "select", ![a].seller = s]
  /\ UNCHANGED <<order, payouts, transfers, faults>>

\* The transaction's snapshot read; without eligible orders it aborts.
SelectOrders(a) ==
  /\ run[a].pc = "select"
  /\ LET sel == Eligible(run[a].seller) IN
     IF sel = {} THEN EndRun(a)
     ELSE run' = [run EXCEPT ![a].pc = "commit", ![a].sel = sel,
            ![a].seen = [o \in Orders |-> IF o \in sel THEN order[o] ELSE NewOrder]]
  /\ UNCHANGED <<order, payouts, transfers, faults>>

\* Mutation of Conflict: only the tag is compared.
TagConflict(a) == \E o \in run[a].sel : order[o].payout # run[a].seen[o].payout

Conflict(a) == \E o \in run[a].sel : order[o] # run[a].seen[o]

RetryTransaction(a) ==
  /\ run[a].pc = "commit"
  /\ Conflict(a)
  /\ run' = [run EXCEPT ![a].pc = "select", ![a].sel = {}, ![a].seen = NoRun.seen]
  /\ UNCHANGED <<order, payouts, transfers, faults>>

NewPayout(a) == [status |-> "pending", orders |-> run[a].sel, seller |-> run[a].seller]

CommitPayout(a, p) ==
  /\ run[a].pc = "commit"
  /\ ~ Conflict(a)
  /\ payouts[p].status = "none"
  /\ payouts' = [payouts EXCEPT ![p] = NewPayout(a)]
  /\ order' = [o \in Orders |->
       IF o \in run[a].sel THEN [order[o] EXCEPT !.payout = p] ELSE order[o]]
  /\ run' = [run EXCEPT ![a] = [NoRun EXCEPT !.pc = "transfer", !.seller = run[a].seller,
                                             !.payout = p, !.read = "pending"]]
  /\ UNCHANGED <<transfers, faults>>

\* retryFailedPayout: any payout not known to have succeeded.
RetryFailedPayout(a, p) ==
  /\ run[a].pc = "idle"
  /\ payouts[p].status \in {"pending", "failed"}
  /\ payouts[p].seller \in Registered
  /\ run' = [run EXCEPT ![a] = [NoRun EXCEPT !.pc = "transfer", !.seller = payouts[p].seller,
                                             !.payout = p, !.read = payouts[p].status]]
  /\ UNCHANGED <<order, payouts, transfers, faults>>

TransferExecuted(p) ==
  /\ transfers[p] < MaxTransfers
  /\ transfers' = [transfers EXCEPT ![p] = @ + 1]

\* Mutation of TransferAnswered: success is assumed, not awaited.
TransferAssumed(p) == TransferExecuted(p) \/ UNCHANGED transfers

TransferAnswered(p) == TransferExecuted(p)

\* initiateTransfer under a reference no earlier attempt used, so Paystack
\* cannot recognise a repetition: executed and answered; or the call throws,
\* with the transfer executed (the answer is lost) or without.  A transfer
\* Paystack has accepted counts as executed, since the code does not look at
\* the status of the answer.
Transfer(a) ==
  /\ run[a].pc = "transfer"
  /\ \/ /\ TransferAnswered(run[a].payout)
        /\ run' = [run EXCEPT ![a].pc = "save_success"]
     \/ /\ TransferExecuted(run[a].payout) \/ UNCHANGED transfers
        /\ run' = [run EXCEPT ![a].pc = "save_failed"]
  /\ UNCHANGED <<order, payouts, faults>>

SaveSuccess(a) ==
  /\ run[a].pc = "save_success"
  /\ payouts' = [payouts EXCEPT ![run[a].payout].status = "success"]
  /\ EndRun(a)
  /\ UNCHANGED <<order, transfers, faults>>

\* save() throws inside the try block: the catch block now saves "failed",
\* over the "success" set in memory, so the path counts as modified.
SaveSuccessThrows(a) ==
  /\ run[a].pc = "save_success"
  /\ faults < MaxFaults
  /\ faults' = faults + 1
  /\ run' = [run EXCEPT ![a].pc = "save_failed", ![a].read = "success"]
  /\ UNCHANGED <<order, payouts, transfers>>

SaveFailed(a) ==
  /\ run[a].pc = "save_failed"
  /\ payouts' = [payouts EXCEPT ![run[a].payout].status = Path(run[a].read, "failed", @)]
  /\ EndRun(a)
  /\ UNCHANGED <<order, transfers, faults>>

RunCrash(a) ==
  /\ run[a].pc # "idle"
  /\ faults < MaxFaults
  /\ faults' = faults + 1
  /\ EndRun(a)
  /\ UNCHANGED <<order, payouts, transfers>>

PayoutRun(a) ==
  \/ SelectOrders(a)
  \/ RetryTransaction(a)
  \/ \E p \in PayoutIds : CommitPayout(a, p)
  \/ Transfer(a)
  \/ SaveSuccess(a)
  \/ SaveFailed(a)

PayoutNext ==
  \E a \in Runs :
    \/ \E s \in Sellers : CreatePayout(a, s)
    \/ \E p \in PayoutIds : RetryFailedPayout(a, p)
    \/ PayoutRun(a)
    \/ SaveSuccessThrows(a)
    \/ RunCrash(a)
=============================================================================
