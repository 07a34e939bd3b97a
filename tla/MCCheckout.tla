------------------------------ MODULE MCCheckout ------------------------------
(* Small instances of Checkout for TLC. *)
EXTENDS Checkout, TLC

CONSTANTS w1, w2, w3, u1, u2, k1, p1, p2, s1, e1

\* w1 and w2 are one customer's double-click, w3 is somebody else's (with,
\* by accident, the same key).
DoubleClickBuyer == [w \in Requests |-> IF w = w3 THEN u2 ELSE u1]
SameKey == [w \in Requests |-> k1]

\* No keys: every client but the storefront may leave them out.
NoKeys == [w \in Requests |-> NoKey]

\* p1 and p2 have different owners.
TwoOwners == [p \in Products |-> IF p = p1 THEN s1 ELSE Platform]

OneEach == [p \in Products |-> 1]
TwoEach == [p \in Products |-> 2]
OneEachCart == [u \in Users |-> [p \in Products |-> 1]]
=============================================================================
