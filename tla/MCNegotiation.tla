--------------------------- MODULE MCNegotiation ---------------------------
(***************************************************************************)
(* A product listed at 100 that costs 75, with a partner listed at 50 that  *)
(* costs 40 and is attached at 20 % off: the basket costs 107 and lists at  *)
(* 140, so a discount of a third lies below the basket's cost and, were it  *)
(* not floored, below the main product's too.  Three counters take one      *)
(* session through its three rounds, and overlap with one another and with  *)
(* an accept or a decline.                                                  *)
(***************************************************************************)
EXTENDS Negotiation, TLC

CONSTANTS c1, c2, c3, answer

MCKindOf == [r \in Requests |-> IF r = answer THEN "resolve" ELSE "counter"]

\* Nothing known, and a product that seldom comes back and sells out.
MCObservations == {[refundRate |-> None, sold |-> 0, cover |-> None],
                   [refundRate |-> 25, sold |-> 9, cover |-> 3]}

Symmetry == Permutations({c1, c2, c3})
=============================================================================
