---------------------------- MODULE MCBackOffice ----------------------------
(* Instances of BackOffice: two pages, two documents.                      *)
EXTENDS BackOffice, TLC

CONSTANTS p1, p2, c1, c2, c3, c4

Two(s, t, live, paid, refund, calls, forms) ==
    [screen |-> p1 :> s @@ p2 :> t, live |-> live, paid |-> paid, refund |-> refund, calls |-> calls, forms |-> forms]
MCWorkloads ==
    { Two("selling", "orders", {1}, TRUE, "none", 3, 1), Two("selling", "orders", {1, 2}, TRUE, "none", 3, 2),
      Two("selling", "orders", {1}, FALSE, "none", 3, 2),
      Two("mine", "refunds", {1}, FALSE, "none", 4, 1),
      Two("refunds", "refunds", {1}, TRUE, "requested", 4, 1),
      Two("coupons", "coupons", {1}, FALSE, "none", 3, 2), Two("staff", "staff", {1}, FALSE, "none", 3, 2),
      Two("list", "list", {1, 2}, FALSE, "none", 2, 2), Two("edit", "list", {1}, FALSE, "none", 3, 2),
      Two("list", "add", {1}, FALSE, "none", 3, 2), Two("products", "add", {}, FALSE, "none", 2, 2),
      Two("products", "add", {1, 2}, FALSE, "none", 2, 1), Two("products", "products", {1}, FALSE, "none", 2, 2),
      Two("products", "edit", {1}, FALSE, "none", 2, 2) }
Perms == Permutations(Calls)
=============================================================================
