---------------------------- MODULE AtomicCheckout ----------------------------
(***************************************************************************)
(* What checkout promises: a purchase happens at once.  It takes every     *)
(* unit from the stock, leaves one order per seller, uses the coupon at    *)
(* most once and empties the cart, or nothing of it happens; a key buys    *)
(* once.  Carts change and stock comes back in between.                    *)
(***************************************************************************)
EXTENDS ShopData

CONSTANTS Requests, InitialStock, InitialCart, MaxAttempts

VARIABLES stock, cart, placed, used

data == <<stock, cart, placed, used>>

Init ==
  /\ stock = InitialStock
  /\ cart = InitialCart
  /\ placed = {}
  /\ used = [u \in Users |-> 0]

Buy(w, n, u, k, c) ==
  /\ InCart(c) # {}
  /\ \A p \in Products : c[p] <= stock[p]
  /\ WithKey(placed, u, k) = {}
  /\ \A d \in placed : d.request # w
  /\ stock' = [p \in Products |-> stock[p] - c[p]]
  /\ placed' = placed \cup OrdersFor(w, n, u, k, c)
  /\ cart' = [cart EXCEPT ![u] = EmptyCart]
  /\ \/ UNCHANGED used
     \/ used' = [used EXCEPT ![u] = @ + 1]

EditCart(u, c) == cart' = [cart EXCEPT ![u] = c] /\ UNCHANGED <<stock, placed, used>>

PutBack(p) == stock' = [stock EXCEPT ![p] = @ + 1] /\ UNCHANGED <<cart, placed, used>>

Next ==
  \/ \E w \in Requests, n \in 1..MaxAttempts, u \in Users, k \in Keys \cup {NoKey}, c \in Cart :
       Buy(w, n, u, k, c)
  \/ \E u \in Users, c \in Cart : EditCart(u, c)
  \/ \E p \in Products : PutBack(p)

Spec == Init /\ [][Next]_data
=============================================================================
