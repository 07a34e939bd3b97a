---------------------------- MODULE MCSettlement ----------------------------
(* Small instances of Settlement for TLC. *)
EXTENDS Settlement, TLC

CONSTANTS o1, o2, r1, s1, s2, w1, a1, a2, p1, p2

OneRef == [o \in Orders |-> r1]
OneSeller == [o \in Orders |-> s1]

\* A bound: refunds come without transfers, faults and a second payout, and
\* a second payout comes without faults.
OnePayout == \E p \in PayoutIds : payouts[p].status = "none"
OneKindOfTrouble ==
  \/ /\ \A o \in Orders : refunds[o] = 0
     /\ faults = 0 \/ OnePayout
  \/ /\ faults = 0 /\ \A p \in PayoutIds : transfers[p] = 0
     /\ OnePayout

Symmetry == Permutations(Runs) \cup Permutations(PayoutIds) \cup Permutations(Orders)
=============================================================================
