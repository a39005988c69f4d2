----------------------------- MODULE MCPurchase -----------------------------
(***************************************************************************)
(* Two accounts, one of which two people are linked to, and one product.    *)
(* Bob may redeem a link of the other account.  The wallet they share is    *)
(* short of what both of them may be about to spend.  Bob's message         *)
(* ends in a negotiated amount, which one handling of it buys for and       *)
(* another, as after a restart, hands to him; he says yes, yes again and no,  *)
(* in any order.  Ann's command is handled too.                             *)
(***************************************************************************)
EXTENDS Purchase, TLC

CONSTANTS a1, a2, p1, payKey, payToo, key1, key2, first, yes, again, no, deal, hand, list

MCCost == [p \in {p1} |-> 70]
MCOpeningStock == [p \in {p1} |-> 2]
MCCampaigns == {[discount |-> 10, minOrders |-> 0, minSpend |-> 0, priority |-> 1]}
MCTopUps == {[account |-> a1, amount |-> 150, key |-> payKey],
             [account |-> a2, amount |-> 100, key |-> payToo]}
MCFirstLink == [p \in People |-> a1]
MCFirstPrice == [p \in {p1} |-> 100]
MCFirstLimit == [a \in {a1, a2} |-> IF a = a1 THEN 80 ELSE 200]

Says(kind, person, base, final, free, key) ==
    [kind |-> kind, person |-> person, product |-> p1, qty |-> 1,
     base |-> base, final |-> final, negotiated |-> final # 0, free |-> free, key |-> key]

MCAsks == [h \in Attempts |->
    CASE h = first -> Says("buy", "ann", 0, 0, FALSE, key1)
      [] h \in {yes, again} -> Says("approve", "bob", 0, 0, FALSE, key2)
      [] h = no   -> Says("reject", "bob", 0, 0, FALSE, key2)
      [] h = deal -> Says("buy", "bob", 100, 90, TRUE, key2)
      [] h = list -> Says("escalate", "bob", 0, 0, TRUE, key2)
      [] h = hand -> Says("escalate", "bob", 100, 90, TRUE, key2)]

\* Which uuid an order gets makes no difference, and which tap is the second.
Symmetry == {ids @@ taps : ids \in Permutations(OrderIds), taps \in Permutations({yes, again})}

\* How an attempt ended is written once and read by nobody: states that differ in it only are one.
AllButReplies == <<vars, shopVars, trailVars, at, request, human, seen>>
=============================================================================
