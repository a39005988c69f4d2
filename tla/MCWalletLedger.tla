--------------------------- MODULE MCWalletLedger ---------------------------
(***************************************************************************)
(* A small shop for TLC: two buyers, one product with two on the shelf.     *)
(* The second loyalty tier would fund a price below cost, so both halves    *)
(* of the discount bound are reached.                                       *)
(***************************************************************************)
EXTENDS WalletLedger

CONSTANTS a1, a2, p1, pay1, pay2, buy1, buy2, buy3, gone1, gone2

MCCost == [p \in {p1} |-> 70]
MCOpeningStock == [p \in {p1} |-> 2]

MCCampaigns == {[discount |-> 10, minOrders |-> 1, minSpend |-> 0, priority |-> 1],
                [discount |-> 40, minOrders |-> 1, minSpend |-> 100, priority |-> 2]}

Pay(a, amount, k) == [account |-> a, amount |-> amount, key |-> k]
Buy(a, final, k) ==
    [account |-> a, product |-> p1, qty |-> 1, base |-> 100, final |-> final, key |-> k]

MCTopUps == {Pay(a1, 175, pay1), Pay(a2, 100, pay2)}
MCPurchases == {Buy(a1, 100, buy1), Buy(a1, 90, buy2), Buy(a1, 72, buy2), Buy(a1, 65, buy2), Buy(a2, 100, buy3)}
=============================================================================
