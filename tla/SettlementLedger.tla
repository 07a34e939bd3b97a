--------------------------- MODULE SettlementLedger ---------------------------
(***************************************************************************)
(* What payouts promise, without requests, transactions or Paystack: each  *)
(* order of a seller is settled at most once, for good, together with      *)
(* orders of the same seller, under a payout that settles nothing else     *)
(* later.                                                                  *)
(***************************************************************************)
CONSTANTS Orders, PayoutIds, NoPayout, SellerOf

VARIABLE settled   \* settled[o]: the payout that settles order o

Unused(p) == \A o \in Orders : settled[o] # p

Init == settled = [o \in Orders |-> NoPayout]

Settle(p, S) ==
  /\ Unused(p)
  /\ S # {}
  /\ \A o \in S : settled[o] = NoPayout
  /\ \A o1, o2 \in S : SellerOf[o1] = SellerOf[o2]
  /\ settled' = [o \in Orders |-> IF o \in S THEN p ELSE settled[o]]

Next == \E p \in PayoutIds, S \in SUBSET Orders : Settle(p, S)

Spec == Init /\ [][Next]_settled
=============================================================================
