------------------------------- MODULE MCCart -------------------------------
(* Instances of Cart: three calls from two pages, of two items.            *)
EXTENDS Cart, TLC

CONSTANTS i1, i2

MCStock == i1 :> 1 @@ i2 :> 2
MCCarts == {i1 :> 0 @@ i2 :> 1}
MCWorkloads == {{"add", "update"}, {"add", "order"}, {"add", "get", "guest"}}
Perms == Permutations(Requests) \cup Permutations(Pages)
=============================================================================
