-------------------------------- MODULE Money --------------------------------
(***************************************************************************)
(* The amounts of a checkout and what becomes of them: the split of a cart *)
(* by seller (orderSplit.js), shipping (shipping.js), the coupon's         *)
(* discount (coupon.service.js), conversion and rounding (currencyMath.js, *)
(* currency.js), the totals of placeOrder, payouts and refunds.            *)
(*                                                                         *)
(* Prices and coupons can be finer than a hundredth: they, and what is     *)
(* computed from them in the base currency, are counted in parts, Grain to *)
(* a hundredth.  What the code rounds is in whole hundredths.  It computes *)
(* with binary fractions; a tie can go either way, the same way for all    *)
(* the ties of one step.  Groups differ in name only, one comes last.      *)
(*                                                                         *)
(* Bounds: each checkout of Checkouts runs once, with a basket of          *)
(* Baskets[k]; rates change MaxRefreshes times.                            *)
(***************************************************************************)
EXTENDS Integers, FiniteSets, Functions

CONSTANTS Checkouts, Baskets,
          Platform,          \* the group of products without a seller
          Grain,             \* the parts of a hundredth
          Base, Whole,       \* the base currency; currencies without decimals
          Tables, Fallback,  \* rates: Tables[..][c] per unit, 0 if not known
          Threshold,         \* shipping is free from here on
          Percent,           \* Percent[g]: commission of a seller
          MaxRefreshes

Groups(b) == DOMAIN b.lines

\* What the validators let through: a cart is not empty, no price, quantity,
\* fee or coupon is below zero.  A price is any number, the fees of shipping.js
\* are whole ones.
IsBasket(b) ==
    /\ Groups(b) # {} /\ IsFiniteSet(Groups(b)) /\ Groups(b) \subseteq DOMAIN Percent
    /\ \A g \in Groups(b) : {b.lines[g].unit, b.lines[g].qty} \subseteq Nat
    /\ {b.fee, b.coupon.value, b.coupon.min, b.coupon.max} \subseteq Nat
    /\ b.currency \in DOMAIN Fallback

ASSUME MoneyAssumption ==
    /\ Fallback \in Tables /\ Base \in DOMAIN Fallback \ Whole
    /\ \A t \in Tables : t \in [DOMAIN Fallback -> Nat] /\ t[Base] > 0
    /\ Grain \in Nat \ {0} /\ Threshold \in Nat /\ MaxRefreshes \in Nat
    /\ \A g \in DOMAIN Percent : Percent[g] \in 0 .. 100
    /\ \A k \in Checkouts : \A b \in Baskets[k] : IsBasket(b)

VARIABLES rates, refreshes,  \* cachedRates, and how often it changed
          co,                \* the checkouts
          payouts            \* the payouts made

mvars == <<rates, refreshes, co, payouts>>

-----------------------------------------------------------------------------
(* Rounding and conversion.                                                *)

Abs(n) == IF n < 0 THEN -n ELSE n
Unit(c) == IF c \in Whole THEN 100 ELSE 1

\* The multiple of u nearest to n / d; of two, the upper one if up.
Round(n, d, u, up) ==
    LET q == n \div (d * u)
        r == n % (d * u)
    IN  u * (IF 2 * r > d * u \/ (2 * r = d * u /\ up) THEN q + 1 ELSE q)

Known(c, table) == c # Base /\ table[c] # 0

\* convertAmount of n parts: an unknown currency leaves the amount in the base
\* currency, which is never multiplied by a rate; all are rounded.
Converted(n, c, table, up) ==
    IF Known(c, table) THEN Round(n * table[c], Grain * table[Base], Unit(c), up)
    ELSE Round(n, Grain, Unit(Base), up)

-----------------------------------------------------------------------------
(* The split of a basket.                                                  *)

SumOver(S, f) == FoldFunctionOnSet(+, 0, f, S)
Subtotals(b) == [g \in Groups(b) |-> b.lines[g].unit * b.lines[g].qty]
CartSubtotal(b) == SumOver(Groups(b), Subtotals(b))

ShippingFee(b, subtotal) == IF subtotal >= Grain * Threshold \/ subtotal = 0 THEN 0 ELSE Grain * b.fee

Least(S) == CHOOSE n \in S : \A m \in S : n <= m

\* validateCoupon: the discount is a share of the cart or an amount, at most
\* the coupon's maximum (0: none) and the cart, in hundredths of a part.
Limits(b) ==
    LET S == CartSubtotal(b)
        c == b.coupon
        asked == IF c.type = "percentage" THEN S * c.value ELSE 100 * c.value
    IN  {asked, 100 * S} \cup (IF c.max > 0 THEN {100 * c.max} ELSE {})

\* It is rounded last.
Discount(b, up) == Round(Least(Limits(b)), 100 * Grain, 1, up)

Share(b, discount, g, up) == Round(Subtotals(b)[g] * discount, CartSubtotal(b), 1, up)

\* Mutation of Allocation: the last group gets its own share, too.
EachItsShare(b, discount, last, up) == [g \in Groups(b) |-> Share(b, discount, g, up)]

\* allocateProportionally: every group but the last has its share, the last
\* has what is left, be it less than nothing.
Allocation(b, discount, last, up) ==
    LET shares == EachItsShare(b, discount, last, up)
    IN  IF discount = 0 THEN [g \in Groups(b) |-> 0]
        ELSE [shares EXCEPT ![last] = discount - SumOver(Groups(b) \ {last}, shares)]

-----------------------------------------------------------------------------
(* placeOrder, cut at its awaits.                                          *)

Start == [pc |-> "start", basket |-> 0, discount |-> 0, charged |-> 0, drift |-> FALSE, order |-> <<>>]

\* Up to validateCoupon and its answer.
Quote(k) ==
    /\ co[k].pc = "start"
    /\ \E b \in Baskets[k], up \in BOOLEAN :
          co' = [co EXCEPT ![k].basket = b,
                           ![k].pc = IF CartSubtotal(b) < b.coupon.min THEN "refused" ELSE "quoted",
                           ![k].discount = Discount(b, up)]
    /\ UNCHANGED <<rates, refreshes, payouts>>

Clipped(n) == IF n < 0 THEN 0 ELSE n

\* What a group costs, before conversion.
TotalBase(b, alloc, g) ==
    Clipped(Subtotals(b)[g] + ShippingFee(b, Subtotals(b)[g]) - Grain * alloc[g])

\* Mutation of Commission: taken on what the customer pays.
CommissionOnTotal(g, subtotal, shipping, discount, up) ==
    Round((subtotal + shipping - discount) * Percent[g], 100, 1, up)
Commission(g, subtotal, shipping, discount, up) ==
    IF g = Platform THEN 0 ELSE Round((subtotal - discount) * Percent[g], 100, 1, up)

Order(b, alloc, g, up) ==
    LET in(n) == Converted(n, b.currency, rates, up)
        subtotal == in(Subtotals(b)[g])
        shipping == in(ShippingFee(b, Subtotals(b)[g]))
        discount == in(Grain * alloc[g])
    IN  [subtotal |-> subtotal, shipping |-> shipping, discount |-> discount, base |-> alloc[g],
         total |-> in(TotalBase(b, alloc, g)),
         commission |-> Commission(g, subtotal, shipping, discount, up),
         price |-> 0, st |-> "draft", refunded |-> 0]

\* Mutation of Charge: the cart's amounts, not the sum of its orders'.
ChargeForCart(b, alloc) ==
    LET S == CartSubtotal(b) IN S + ShippingFee(b, S) - Grain * SumOver(Groups(b), alloc)
Charge(b, alloc) == SumOver(Groups(b), [g \in Groups(b) |-> TotalBase(b, alloc, g)])

\* The totals of every group and the one charge, without an await between.
Total(k) ==
    LET b == co[k].basket IN
    /\ co[k].pc = "quoted"
    /\ \E last \in Groups(b), up \in BOOLEAN :
          LET alloc == Allocation(b, co[k].discount, last, up) IN
          co' = [co EXCEPT ![k].pc = "charging",
                           ![k].order = [g \in Groups(b) |-> Order(b, alloc, g, up)],
                           ![k].charged = Converted(Charge(b, alloc), b.currency, rates, up)]
    /\ UNCHANGED <<rates, refreshes, payouts>>

\* The schema of an order: no amount below zero.
Accepts(o) == o.subtotal >= 0 /\ o.shipping >= 0 /\ o.discount >= 0 /\ o.total >= 0

\* The orders, in the transaction after the call to Paystack; the prices of
\* the items are converted only here.
Place(k) ==
    LET b == co[k].basket IN
    /\ co[k].pc = "charging"
    /\ IF \A g \in Groups(b) : Accepts(co[k].order[g])
       THEN \E up \in BOOLEAN :
              co' = [co EXCEPT ![k].pc = "placed",
                       ![k].order = [g \in Groups(b) |-> [co[k].order[g] EXCEPT !.st = "placed",
                           !.price = Converted(b.lines[g].unit, b.currency, rates, up)]]]
       ELSE co' = [co EXCEPT ![k].pc = "refused"]
    /\ UNCHANGED <<rates, refreshes, payouts>>

\* refreshRates replaces the table while checkouts are under way; a fetch
\* that fails leaves it.
RefreshRates ==
    /\ refreshes < MaxRefreshes /\ refreshes' = refreshes + 1
    /\ rates' \in Tables \ {rates}
    /\ co' = [k \in Checkouts |-> [co[k] EXCEPT !.drift = @ \/ co[k].pc = "charging"]]
    /\ UNCHANGED payouts

-----------------------------------------------------------------------------
(* Afterwards.                                                             *)

Placed == {kg \in Checkouts \X DOMAIN Percent : co[kg[1]].pc = "placed" /\ kg[2] \in DOMAIN co[kg[1]].order}
The(kg) == co[kg[1]].order[kg[2]]
CurrencyOf(kg) == co[kg[1]].basket.currency

Deliver(kg) ==
    /\ The(kg).st = "placed"
    /\ co' = [co EXCEPT ![kg[1]].order[kg[2]].st = "delivered"]
    /\ UNCHANGED <<rates, refreshes, payouts>>

\* createPayout: all delivered orders of a seller, the currency of one.
Payable(g) == {kg \in Placed : kg[2] = g /\ g # Platform /\ The(kg).st = "delivered"}
NetOf(S) == SumOver(S, [kg \in S |-> The(kg).subtotal - The(kg).commission])

CreatePayout(g) ==
    LET S == Payable(g) IN
    /\ S # {}
    /\ \E first \in S : payouts' = payouts \cup {[seller |-> g, of |-> S, amount |-> NetOf(S), currency |-> CurrencyOf(first)]}
    /\ co' = [k \in Checkouts |-> IF <<k, g>> \in S THEN [co[k] EXCEPT !.order[g].st = "paid_out"] ELSE co[k]]
    /\ UNCHANGED <<rates, refreshes>>

\* approveRefund: the whole order unless the approver says otherwise; a
\* smaller amount than that is left out.
RefundFits(kg, amount) == amount <= The(kg).total

ApproveRefund(kg) ==
    \E amount \in {The(kg).total, The(kg).total + The(kg).shipping + 1} :
        /\ The(kg).st \in {"placed", "delivered"} /\ RefundFits(kg, amount)
        /\ co' = [co EXCEPT ![kg[1]].order[kg[2]].st = "refunded", ![kg[1]].order[kg[2]].refunded = amount]
        /\ UNCHANGED <<rates, refreshes, payouts>>

-----------------------------------------------------------------------------
Init == /\ rates = Fallback /\ refreshes = 0 /\ payouts = {}
        /\ co = [k \in Checkouts |-> Start]

Next == \/ \E k \in Checkouts : Quote(k) \/ Total(k) \/ Place(k)
        \/ \E kg \in Placed : Deliver(kg) \/ ApproveRefund(kg)
        \/ \E g \in DOMAIN Percent : CreatePayout(g)
        \/ RefreshRates

Spec == Init /\ [][Next]_mvars

-----------------------------------------------------------------------------
(* Properties.                                                             *)

\* No order in the database carries a negative amount, whichever way the
\* split rounds, and none is dearer than a refund can pay back.
MoneyTypeOK ==
    /\ rates \in Tables /\ refreshes \in 0 .. MaxRefreshes
    /\ \A kg \in Placed :
          /\ {The(kg).subtotal, The(kg).shipping, The(kg).discount, The(kg).total, The(kg).price} \subseteq Nat
          /\ The(kg).st \in {"placed", "delivered", "paid_out", "refunded"}

\* The orders of a cart share the coupon's discount to the last hundredth,
\* and each has its part of it but for the rounding of the others.
DiscountSplitExactly ==
    \A k \in Checkouts : co[k].order # <<>> =>
        LET b == co[k].basket
            parts == [g \in Groups(b) |-> co[k].order[g].base]
            n == Cardinality(Groups(b))
            S == CartSubtotal(b)
        IN  /\ SumOver(Groups(b), parts) = co[k].discount
            /\ \A g \in Groups(b) : 2 * Abs(parts[g] * S - Subtotals(b)[g] * co[k].discount) <= (n - 1) * S

\* An order's discount exceeds what it is taken off by the rounding of the
\* whole discount and the other shares at most, and by that of the conversion.
DiscountWithinOrder ==
    \A k \in Checkouts : co[k].order # <<>> =>
        LET b == co[k].basket
            c == b.currency
            n == Cardinality(Groups(b))
        IN  \E t \in Tables : \A g \in Groups(b) :
              LET o == co[k].order[g] IN
              /\ 2 * (Grain * o.base - Subtotals(b)[g]) <= n * Grain
              /\ IF Known(c, t) THEN 2 * (o.discount - o.subtotal) * t[Base] <= n * t[c] + 2 * Unit(c) * t[Base]
                 ELSE 2 * (o.discount - o.subtotal) <= n + 1

\* In the base currency whole hundredths stay what they are.
NothingToRound(b) == b.currency = Base /\ \A g \in Groups(b) : b.lines[g].unit % Grain = 0

\* The customer is charged once what the orders say, up to half a unit for
\* each rounding: exactly, where there is nothing to round.
TotalOf(k) == LET o == co[k].order IN SumOver(DOMAIN o, [g \in DOMAIN o |-> o[g].total])
ChargeMatchesOrders ==
    \A k \in Checkouts : co[k].order # <<>> =>
        LET b == co[k].basket IN
        IF NothingToRound(b) THEN co[k].charged = TotalOf(k)
        ELSE 2 * Abs(co[k].charged - TotalOf(k)) <= (Cardinality(Groups(b)) + 1) * Unit(b.currency)

\* An order adds up, up to half a unit for each of its amounts.  In the base
\* currency they are not multiplied by a rate: the subtotal is that of the
\* products, rounded, and without anything to round all is exact.
OrdersAddUp ==
    \A kg \in Placed :
        LET o == The(kg)
            b == co[kg[1]].basket
            sum == o.subtotal + o.shipping - o.discount
        IN  /\ Abs(o.total - Clipped(sum)) <= 2 * Unit(b.currency)
            /\ b.currency = Base => 2 * Abs(Grain * o.subtotal - Subtotals(b)[kg[2]]) <= Grain
            /\ NothingToRound(b) => o.total = Clipped(sum) /\ Grain * o.subtotal = Subtotals(b)[kg[2]]

\* Refunds of the orders of one charge never exceed it, but for the
\* roundings, where there are any.
RefundsWithinCharge ==
    \A k \in Checkouts : co[k].pc = "placed" =>
        LET o == co[k].order
            back == SumOver(DOMAIN o, [g \in DOMAIN o |-> o[g].refunded])
            b == co[k].basket
        IN  2 * (back - co[k].charged) <=
                IF NothingToRound(b) THEN 0 ELSE (Cardinality(DOMAIN o) + 1) * Unit(b.currency)

\* A seller whose orders are in one currency is paid their subtotals less
\* the commission at least, and not more than them: discounts are the
\* platform's, shipping is not the seller's.  Only a discount rounded past
\* its order's subtotal makes the commission negative, by its share of that.
Excess(kg) == Clipped(The(kg).discount - The(kg).subtotal)
SellersGetTheirShare ==
    \A p \in payouts : (\A kg \in p.of : CurrencyOf(kg) = p.currency) =>
        LET sold == SumOver(p.of, [kg \in p.of |-> The(kg).subtotal])
            n == Cardinality(p.of)
            rate == Percent[p.seller]
        IN  /\ 100 * p.amount >= (100 - rate) * sold - 50 * n
            /\ 100 * p.amount <= 100 * sold + rate * SumOver(p.of, [kg \in p.of |-> Excess(kg)]) + 50 * n

\* The prices of an order's items give its subtotal, up to rounding, unless
\* the rates changed between the totals and the order.
ItemsMatchSubtotal ==
    \A kg \in Placed :
        LET l == co[kg[1]].basket.lines[kg[2]] IN
        co[kg[1]].drift \/ 2 * Abs(l.qty * The(kg).price - The(kg).subtotal) <= (l.qty + 1) * Unit(CurrencyOf(kg))

\* Every order of a split cart is right by itself: no negative amount, its
\* exact part of the discount, totals and prices that add up.
SplitInv == MoneyTypeOK /\ DiscountSplitExactly /\ DiscountWithinOrder /\ OrdersAddUp /\ ItemsMatchSubtotal

\* What Paystack is asked for, and asked to return, is what the orders say.
ChargeInv == ChargeMatchesOrders /\ RefundsWithinCharge
=============================================================================
