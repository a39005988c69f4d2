----------------------------- MODULE MCShopRun -----------------------------
(***************************************************************************)
(* Two messages of one person while a stranger with a smaller budget shops  *)
(* through the same service, and one command.  The razor is quoted above    *)
(* what the stranger has and, with a bundle, within what the person has.    *)
(* The runs go through AllButSpent of the state: what no step and no        *)
(* property reads any more is left out of it.                               *)
(***************************************************************************)
EXTENDS ShopRun

CONSTANTS chat1, chat2, stranger, typed, soap, razor

MCKind == [r \in Runs |-> IF r = stranger THEN "public" ELSE IF r = typed THEN "command" ELSE "chat"]
MCCompanies == {{chat1, stranger}, {chat1, chat2}, {chat1, typed}}
MCPrice == [p \in Products |-> IF p = soap THEN 50 ELSE 80]
MCQuotes == [p \in Products |-> IF p = soap THEN {[final |-> 60, bundled |-> 0]}
                                           ELSE {[final |-> 110, bundled |-> 10]}]
MCWallets == [r \in Runs |-> IF r = stranger THEN {[balance |-> 90, limit |-> 90, budget |-> 90]}
                             ELSE {[balance |-> 200, limit |-> 120, budget |-> 0]}]

-----------------------------------------------------------------------------
\* What was shown is read until the choice, and remembered for the sake of a later message.
Chosen(r) == Step(r) \notin {"idle", "ask_shop", "choose_option"}
IfRecalled(shown) ==
    IF \E r \in Runs : Kind[r] = "chat" /\ Step(r) = "idle" THEN shown ELSE {}

FactsLeft(r) ==
    IF facts[r] = Nil \/ ~Chosen(r) THEN facts[r]
    ELSE [facts[r] EXCEPT !.prior = {},
              !.shown = IF Kind[r] = "chat" THEN IfRecalled(@) ELSE {}]

\* Of an outcome: nothing if it cannot be read, else the action and the amount it comes to.
Said(r) ==
    IF run[r].outcome = Nil \/ ~run[r].outcome.readable THEN Nil
    ELSE <<Normalized(run[r].outcome.action), SettledAmount(r, run[r].outcome)>>

RunLeft(r) ==
    IF ~Chosen(r) THEN run[r]
    ELSE [run[r] EXCEPT !.options = IfRecalled(@), !.outcome = Said(r),
              !.result = IF @ = Nil THEN Nil ELSE [@ EXCEPT !.approval = FALSE]]

SeenLeft(r) ==
    LET ends == IF run[r].result = Nil THEN {} ELSE {run[r].result.product}
    IN  IF ~Chosen(r) THEN seen[r] ELSE seen[r] \cap ({run[r].pick} \cup ends)

AllButSpent ==
    <<[r \in Runs |-> FactsLeft(r)], [r \in Runs |-> RunLeft(r)],
      [r \in Runs |-> SeenLeft(r)], IfRecalled(memory), deal, asked, sold, heard, crossed>>
=============================================================================
