----------------------------- MODULE MCReversal -----------------------------
(***************************************************************************)
(* One order of one buyer.  Two people are linked to the buyer's account;   *)
(* the first sends the command, has it handled again after a restart, and   *)
(* sends it once more in other words.  A stranger names the order too.      *)
(***************************************************************************)
EXTENDS Reversal

CONSTANTS a1, a2, p1, payKey, buyKey, key1, key2, key3, key4, o1,
          first, again, later, other, stranger

MCCost == [p \in {p1} |-> 70]
MCOpeningStock == [p \in {p1} |-> 1]

MCTopUps == {[account |-> a1, amount |-> 100, key |-> payKey]}
MCPurchases == {[account |-> a1, product |-> p1, qty |-> 1,
                 base |-> 100, final |-> 100, key |-> buyKey]}

Ask(person, account, key, reason) ==
    [person |-> person, account |-> account, order |-> o1, key |-> key, reason |-> reason]

MCAsked == [h \in Commands |->
    CASE h \in {first, again} -> Ask("ann", a1, key1, "wrong size")
      [] h = later            -> Ask("ann", a1, key2, "does not fit")
      [] h = other            -> Ask("bob", a1, key3, "too small")
      [] h = stranger         -> Ask("eve", a2, key4, "mine")]
=============================================================================
