----------------------------- MODULE MCWalletTx -----------------------------
(***************************************************************************)
(* One buyer with 200 to spend and two goods on one shelf.  Two sessions    *)
(* carry the same purchase (a caller that retries), a third buys the other  *)
(* good at the price the first sale entitles to, and a fifth cancels the      *)
(* first order while all that happens.                                      *)
(***************************************************************************)
EXTENDS WalletTx

CONSTANTS a1, p1, payKey, buyKey, moreKey, goneKey, o1, o2, o3, fund,
          buy, buyToo, more, cancel

MCCost == [p \in {p1} |-> 70]
MCOpeningStock == [p \in {p1} |-> 2]
MCCampaigns == {[discount |-> 10, minOrders |-> 1, minSpend |-> 0, priority |-> 1]}

Ask(kind, final, key, order) ==
    [kind |-> kind, account |-> a1, product |-> p1, qty |-> 1, base |-> 100,
     final |-> final, key |-> key, order |-> order]

MCRequest == [s \in Sessions |->
    CASE s = fund     -> Ask("topup", 200, payKey, None)
      [] s = buy      -> Ask("purchase", 100, buyKey, o1)
      [] s = buyToo   -> Ask("purchase", 100, buyKey, o2)
      [] s = more     -> Ask("purchase", 90, moreKey, o3)
      [] s = cancel   -> Ask("refund", 100, goneKey, o1)]

MCTopUps == {TopUpOf(s) : s \in Sessions \cap {fund}}
MCPurchases == {PurchaseOf(s) : s \in Sessions \cap {buy, buyToo, more}}
=============================================================================
