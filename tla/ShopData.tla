------------------------------ MODULE ShopData ------------------------------
(***************************************************************************)
(* What checkout shares with the shop that surrounds it: users with carts, *)
(* products with stock, one coupon, and the grouping of a cart by seller   *)
(* (backend/src/utils/orderSplit.js).  A product stands for one product in *)
(* one size with tracked stock.                                            *)
(***************************************************************************)
EXTENDS Naturals, FiniteSets

CONSTANTS
  Users, Products,
  Keys,           \* client-supplied idempotency keys
  NoKey,          \* a request without one
  Sellers, Platform,
  ProductSeller,  \* ProductSeller[p]: the seller of a product, or Platform
  MaxQty          \* quantities in carts, at most

ASSUME ShopDataAssumption ==
  /\ Users # {}
  /\ NoKey \notin Keys
  /\ Platform \notin Sellers
  /\ ProductSeller \in [Products -> Sellers \cup {Platform}]
  /\ MaxQty \in Nat \ {0}

Owners == Sellers \cup {Platform}
Cart == [Products -> 0..MaxQty]
EmptyCart == [p \in Products |-> 0]

InCart(c) == {p \in Products : c[p] > 0}

\* groupItemsBySeller: the groups of a cart and the items of one.
GroupsOf(c) == {ProductSeller[p] : p \in InCart(c)}
ItemsOf(c, g) == [p \in Products |-> IF ProductSeller[p] = g THEN c[p] ELSE 0]

\* An order document as checkout creates it.
OrderOf(req, attempt, u, k, c, g) ==
  [request |-> req, attempt |-> attempt, user |-> u, key |-> k, seller |-> g,
   items |-> ItemsOf(c, g)]
OrdersFor(req, attempt, u, k, c) == {OrderOf(req, attempt, u, k, c, g) : g \in GroupsOf(c)}

\* Mutation of WithKey: keys are taken to be unique across users.
WithKeyOfAnyone(orders, u, k) == {d \in orders : k # NoKey /\ d.key = k}

WithKey(orders, u, k) == {d \in orders : k # NoKey /\ d.user = u /\ d.key = k}
=============================================================================
