------------------------------- MODULE MCMoney -------------------------------
(* Baskets of up to four groups.  They hold the splits that round badly:   *)
(* equal shares that are all rounded up, shares that are all rounded down  *)
(* for a last group that ships for nothing, and prices finer than a        *)
(* hundredth, which are rounded one by one in the orders and together in   *)
(* the charge.                                                             *)
EXTENDS Money

MCPercent == [g \in {"platform", "s1", "s2", "s3"} |-> IF g = "s3" THEN 50 ELSE 10]
Line(u, q) == [unit |-> Grain * u, qty |-> q]
Fine(u, q) == [unit |-> u, qty |-> q]
One(g, u, q) == [x \in {g} |-> Line(u, q)]
Two(a, b) == [x \in {"s1", "platform"} |-> IF x = "s1" THEN a ELSE b]
Four(n, m) == [x \in DOMAIN MCPercent |-> IF x = "s3" THEN Line(m, 1) ELSE Line(n, 1)]

Coupon(t, v, m, x) ==
    [type |-> t, value |-> IF t = "fixed" THEN Grain * v ELSE v, min |-> Grain * m, max |-> Grain * x]
NoCoupon == Coupon("fixed", 0, 0, 0)
Off(n) == Coupon("fixed", n, 0, 0)
Coupons == {NoCoupon, Off(2), Coupon("fixed", 98, 50, 0), Coupon("percentage", 15, 0, 0), Coupon("percentage", 50, 40, 9)}
Basket(l, c, cur) == [lines |-> l, coupon |-> c, currency |-> cur, fee |-> 17]

Few == {One("s1", 9, 3), Two(Line(33, 1), Line(9, 1)), Two(Line(5, 1), Line(61, 2))}
Finer == {Two(Fine(n, 1), Fine(m, q)) : n \in {74, 76, 125}, m \in {74, 76}, q \in {1, 3}}
Finest == [Coupon("fixed", 0, 0, 0) EXCEPT !.value = 77]
Three == [g \in {"s1", "s2", "s3"} |-> Line(7, 1)]
MCBaskets ==
    [k \in Checkouts |->
        IF k = 1 THEN {Basket(l, c, cur) : l \in Few, c \in Coupons, cur \in {"NGN", "USD", "JPY", "XOF"}}
                      \cup {Basket(l, c, cur) : l \in Finer, c \in {NoCoupon, Off(2), Finest, Coupon("percentage", 15, 0, 0)}, cur \in {"NGN", "USD"}}
                      \cup {Basket(Three, c, "USD") : c \in {Off(2), Off(10)}}
                      \cup {Basket(Four(25, 25), Off(2), "NGN"), Basket(Four(30, 10), Off(98), "NGN")}
        ELSE {Basket(One("s1", 41, 1), NoCoupon, cur) : cur \in {"NGN", "USD"}}]

\* Units of a currency for what costs 7 of the base currency, and later 9.
MCFallback == [c \in {"NGN", "USD", "JPY", "XOF"} |->
                 CASE c = "NGN" -> 7 [] c = "USD" -> 3 [] c = "JPY" -> 400 [] c = "XOF" -> 0]
MCTables == {MCFallback, [MCFallback EXCEPT !["NGN"] = 9, !["USD"] = 2]}
=============================================================================
