-------------------------- MODULE MCOrderLifecycle --------------------------
(* Small instances of OrderLifecycle for TLC. *)
EXTENDS OrderLifecycle, TLC

CONSTANTS o1, o2, r1, s1, w1, w2

\* Orders paid through Paystack.
OneRef == [o \in Orders |-> r1]
OneSeller == [o \in Orders |-> s1]

\* A bound: a behaviour has a repeated webhook or a crash, not both.
OneFault == duplicates + crashes <= 1

Symmetry == Permutations(Handlers)
=============================================================================
