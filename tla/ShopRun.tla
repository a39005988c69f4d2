------------------------------ MODULE ShopRun ------------------------------
(***************************************************************************)
(* The buyer agent's runs.  A run asks the shop what it has, chooses, has   *)
(* it priced, judges the price, and then accepts, haggles, asks the person  *)
(* or declines; a last node checks the goods and says what to do.  One      *)
(* service runs it for the person in the chat and for strangers at the      *)
(* published agent at once, and keeps each run's facts by the run.  A chat  *)
(* run then remembers what was shown and asks or buys.  The person may also *)
(* quote, accept and decline by command.  Models answer what they like: the *)
(* haggling one names the session it acts in, and nobody checks that it is  *)
(* its run's.  Any call may fail, or take effect and lose its answer.  The  *)
(* shop is kept to its promises (module Negotiation), the purchase to its   *)
(* outcomes (module Purchase).  A run wants one of a thing.                 *)
(***************************************************************************)
EXTENDS Integers, FiniteSets

CONSTANTS
    Runs,
    Companies,  \* the sets of runs that are made in one history
    Kind,       \* Kind[r]: a "chat" message, a "public" request or a typed "command"
    Products, Price,
    Quotes,     \* Quotes[p]: the opening asks the shop may make for p
    Wallets,    \* Wallets[r]: the money facts a run may begin with
    Bids,       \* amounts the haggling agent counters with or reports
    Band,       \* AutoBuyPremiumMaxPct
    Nil

QuoteRow == [final : Nat \ {0}, bundled : Nat]
WalletRow == [balance : Nat, limit : Nat, budget : Nat]
DealRow == [product : Products, ask : Nat \ {0}, bundled : Nat,
            status : {"countered", "accepted", "declined"}]
GoodsRow == [product : Products, bundled : Nat, quoted : Runs]
FactsRow(r) == [wallet : Wallets[r], prior : SUBSET Products, shown : SUBSET Products,
                priced : GoodsRow \cup {Nil}, settled : Nat]

Actions == {"buy", "ask_human", "declined"}
Routes == {"accept", "negotiate", "ask_human", "decline"}
OfferRow == [product : Products, final : Nat \ {0}, bundled : Nat]
OutcomeRow == [action : Actions \cup {"", "unknown"}, amount : Nat, readable : BOOLEAN]
EndRow == [action : Actions \cup {"failed"}, product : Products \cup {Nil}, amount : Nat,
           dated : Runs \cup {Nil}, approval : BOOLEAN]

ASSUME ShopAssumption ==
    /\ Companies \subseteq SUBSET Runs
    /\ Kind \in [Runs -> {"chat", "public", "command"}]
    /\ Price \in [Products -> Nat \ {0}]
    /\ \A p \in Products : Quotes[p] \subseteq QuoteRow
    /\ \A r \in Runs : Wallets[r] \subseteq WalletRow
    /\ Bids \subseteq Nat \ {0} /\ Band \in Nat
    /\ Nil \notin Runs \cup Products \cup Routes \cup WalletRow \cup DealRow \cup GoodsRow
                \cup OfferRow \cup OutcomeRow \cup EndRow
    /\ \A r \in Runs : Nil \notin FactsRow(r)

VARIABLES
    facts,      \* facts[r]: what the service keeps of a run under way (runState)
    run,        \* run[r]: the node to run next and what it is handed
    deal,       \* deal[r]: the shop's record of the session opened by r
    memory,     \* the products the chat remembers having been shown
    asked,      \* the purchases a person is asked about
    sold,       \* the purchases made
    seen,       \* history: seen[r]: what the shop has shown r's caller so far
    heard,      \* history: heard[r]: the session whose yes reached r last
    crossed     \* history: the sessions that an agent of another run has acted in

shopVars == <<facts, run, deal, memory, asked, sold, seen, heard, crossed>>

NoFacts == [wallet |-> Nil, prior |-> {}, shown |-> {}, priced |-> Nil, settled |-> 0]

ShopInit ==
    /\ facts = [r \in Runs |-> Nil]
    /\ \E company \in Companies :
        run = [r \in Runs |-> [step |-> IF r \in company THEN "idle" ELSE "failed", wallet |-> Nil,
                               options |-> {}, pick |-> Nil, offer |-> Nil, route |-> Nil,
                               outcome |-> Nil, result |-> Nil]]
    /\ deal = [r \in Runs |-> Nil]
    /\ memory = {} /\ asked = {} /\ sold = {}
    /\ seen = [r \in Runs |-> {}] /\ heard = [r \in Runs |-> Nil] /\ crossed = {}

-----------------------------------------------------------------------------
Step(r) == run[r].step
Goes(r, state) == run' = [run EXCEPT ![r] = state]
OfPerson(r) == Kind[r] # "public"

\* One worker answers the person's messages, in whatever order they come.
PersonWaitsForNothing ==
    \A r \in Runs : OfPerson(r) => Step(r) \in {"idle", "done", "failed"}

\* What the service keeps of the run a node belongs to, and the money facts among it
\* (mutated: of whichever run is found).
FactsOf(r) == facts[r]
WalletForAnyone(r) == facts[CHOOSE q \in Runs : facts[q] # Nil].wallet
WalletFor(r) == FactsOf(r).wallet

Ceiling(wallet) == IF wallet.budget > 0 THEN wallet.budget ELSE wallet.limit

\* The judgement becomes an edge, but no accept spends what the person does not have.
RouteFor(judged, price, wallet) ==
    LET beyond == price > wallet.balance \/ (Ceiling(wallet) > 0 /\ price > Ceiling(wallet))
    IN  IF judged = "accept" /\ beyond THEN "ask_human" ELSE judged

\* What of a run's choice was on screen: on this pass, or in what the chat remembers
\* (mutated: any product of the catalog will do).
ShownAnything(r) == Products
Shown(r) == run[r].options \cup FactsOf(r).prior

\* The price a settled outcome may name: the shop's yes before the agent's account of it
\* (mutated: the agent's account).
SettledAmountAsReported(r, outcome) == outcome.amount
SettledAmount(r, outcome) ==
    IF FactsOf(r).settled > 0 THEN FactsOf(r).settled ELSE outcome.amount

BandCrossed(amount, list) == amount > list /\ (amount - list) * 100 > list * Band

\* An action nobody defined is the person's call, no action at all a purchase.
Normalized(action) ==
    CASE action \in Actions -> action
      [] action = "" -> "buy"
      [] OTHER -> "ask_human"

ResultRow(action, product, amount, dated, approval) ==
    [action |-> action, product |-> product, amount |-> amount, dated |-> dated,
     approval |-> approval]

\* The run is over: its facts go, what it showed stays with the result (mutated: they stay).
FinishKeepingFacts(r, result) ==
    /\ Goes(r, [run[r] EXCEPT !.step = IF Kind[r] = "chat" THEN "remember" ELSE "done",
                               !.options = IF Kind[r] = "chat" THEN facts[r].shown ELSE {},
                               !.pick = Nil, !.offer = Nil, !.outcome = Nil,
                               !.result = result])
    /\ UNCHANGED facts
Finish(r, result) ==
    /\ Goes(r, [run[r] EXCEPT !.step = IF Kind[r] = "chat" THEN "remember" ELSE "done",
                               !.options = IF Kind[r] = "chat" THEN facts[r].shown ELSE {},
                               !.pick = Nil, !.offer = Nil, !.outcome = Nil,
                               !.result = result])
    /\ facts' = [facts EXCEPT ![r] = Nil]

Declines(r) == Finish(r, ResultRow("declined", Nil, 0, Nil, FALSE))

\* The quote goes to the person, as quoted, whatever broke after it.
Escalates(r) ==
    LET offer == run[r].offer
    IN  Finish(r, ResultRow("ask_human", offer.product, offer.final, r, TRUE))

Lost(r) == Finish(r, ResultRow("failed", Nil, 0, Nil, FALSE))

\* A node fails or runs out of time.  The run is handed over if an offer was the last thing
\* a node put out, and is lost otherwise.
Breaks(r) == IF Step(r) \in Routes THEN Escalates(r) ELSE Lost(r)

-----------------------------------------------------------------------------
\* A message is turned away by an open question, unless the lookup fails, and by an account
\* that is not linked or cannot be read.
TurnedAway(r) ==
    /\ Kind[r] = "chat" /\ Step(r) = "idle" /\ PersonWaitsForNothing
    /\ Goes(r, [run[r] EXCEPT !.step = "failed"])
    /\ UNCHANGED <<facts, deal, memory, asked, sold, seen, heard, crossed>>

\* A chat run is told what was shown before, if the memory can be read and has not lapsed.
BeginRun(r) ==
    /\ Kind[r] # "command" /\ Step(r) = "idle"
    /\ Kind[r] = "chat" => PersonWaitsForNothing
    /\ \E wallet \in Wallets[r], prior \in IF Kind[r] = "chat" THEN {memory, {}} ELSE {{}} :
        /\ facts' = [facts EXCEPT ![r] = [NoFacts EXCEPT !.wallet = wallet, !.prior = prior]]
        /\ Goes(r, [run[r] EXCEPT !.step = "ask_shop", !.wallet = wallet])
    /\ UNCHANGED <<deal, memory, asked, sold, seen, heard, crossed>>

\* The shop looks through what is on the shelf within the budget, and its owner pitches any
\* of it; whatever else is pitched is left out.
Affordable(budget) == {p \in Products : budget > 0 => Price[p] <= budget}
Shortlists(budget) == {pitched \cap Affordable(budget) : pitched \in SUBSET Products}

AskShop(r) ==
    /\ Step(r) = "ask_shop"
    /\ \E options \in Shortlists(WalletFor(r).limit) :
        /\ \/ options = {} /\ Declines(r)
           \/ /\ options # {}
              /\ facts' = [facts EXCEPT ![r].shown = options]
              /\ Goes(r, [run[r] EXCEPT !.step = "choose_option", !.options = options])
        /\ seen' = [q \in Runs |-> IF q = r \/ (OfPerson(q) /\ OfPerson(r))
                                   THEN seen[q] \cup options ELSE seen[q]]
    /\ UNCHANGED <<deal, memory, asked, sold, heard, crossed>>

\* The buyer's own model selects by a product's id.
Selections == Products \cup {Nil}

\* A blank choice is a judgement, one nobody was shown is refused.
Choose(r) ==
    /\ Step(r) = "choose_option"
    /\ \E choice \in Selections :
        IF choice = Nil THEN Declines(r)
        ELSE IF choice \notin Shown(r) THEN Breaks(r)
        ELSE Goes(r, [run[r] EXCEPT !.step = "fetch_offer", !.pick = choice]) /\ UNCHANGED facts
    /\ UNCHANGED <<deal, memory, asked, sold, seen, heard, crossed>>

Session(product, quote) ==
    [product |-> product, ask |-> quote.final, bundled |-> quote.bundled, status |-> "countered"]

\* The shop prices the choice; the basket is put on record for the end of the run.
FetchOffer(r) ==
    /\ Step(r) = "fetch_offer"
    /\ \E quote \in Quotes[run[r].pick] :
        LET offer == [product |-> run[r].pick, final |-> quote.final, bundled |-> quote.bundled]
        IN  /\ deal' = [deal EXCEPT ![r] = Session(run[r].pick, quote)]
            /\ \/ /\ facts' = [facts EXCEPT ![r].priced = [product |-> offer.product,
                                                           bundled |-> offer.bundled, quoted |-> r]]
                  /\ Goes(r, [run[r] EXCEPT !.step = "decide_offer", !.offer = offer])
               \/ Breaks(r)
    /\ UNCHANGED <<memory, asked, sold, seen, heard, crossed>>

\* What the model makes of the offer; a judgement that is lost or unclear is the person's.
Assessments == Routes

DecideOffer(r) ==
    /\ Step(r) = "decide_offer"
    /\ \E judged \in Assessments :
        LET route == RouteFor(judged, run[r].offer.final, WalletFor(r))
        IN  Goes(r, [run[r] EXCEPT !.step = route, !.route = route])
    /\ UNCHANGED <<facts, deal, memory, asked, sold, seen, heard, crossed>>

Outcome(action, amount, readable) == [action |-> action, amount |-> amount, readable |-> readable]
Joins(r, outcome) == Goes(r, [run[r] EXCEPT !.step = "finalize", !.outcome = outcome])

\* The shop's side of a session.
Closes(s, status, amount) ==
    /\ deal[s].status = "countered"
    /\ deal' = [deal EXCEPT ![s].status = status, ![s].ask = amount]

AcceptOffer(r) ==
    /\ Step(r) = "accept"
    /\ Closes(r, "accepted", deal[r].ask)
    /\ \/ /\ Joins(r, Outcome("buy", deal[r].ask, TRUE))
          /\ heard' = [heard EXCEPT ![r] = r]
          /\ UNCHANGED facts
       \/ Breaks(r) /\ UNCHANGED heard
    /\ UNCHANGED <<memory, asked, sold, seen, crossed>>

AskHuman(r) ==
    /\ Step(r) = "ask_human"
    /\ Joins(r, Outcome("ask_human", run[r].offer.final, TRUE))
    /\ UNCHANGED <<facts, deal, memory, asked, sold, seen, heard, crossed>>

\* A decline that does not reach the shop is a decline all the same.
DeclineOffer(r) ==
    /\ Step(r) = "decline"
    /\ Joins(r, Outcome("declined", run[r].offer.final, TRUE))
    /\ Closes(r, "declined", deal[r].ask) \/ UNCHANGED deal
    /\ UNCHANGED <<facts, memory, asked, sold, seen, heard, crossed>>

\* The haggling agent's tools act in the session the model names, whoever opened it.
ActsIn(r, s) ==
    /\ Step(r) = "negotiate" /\ deal[s] # Nil
    /\ crossed' = IF s = r THEN crossed ELSE crossed \cup {s}

\* The shop says yes in s to a call of r's; a yes that is heard is put on r's own record,
\* over one heard before.
Accepted(r, s, amount) ==
    /\ Closes(s, "accepted", amount)
    /\ \/ UNCHANGED <<facts, heard>>
       \/ /\ facts' = [facts EXCEPT ![r].settled = amount]
          /\ heard' = [heard EXCEPT ![r] = s]

\* It counters.  The shop meets it, at the bid or at its own ask, counters in turn, or has
\* had its last word.
CounterOffer(r, s) ==
    /\ ActsIn(r, s) /\ deal[s].status = "countered"
    /\ \E bid \in Bids :
        \/ \E amount \in {bid, deal[s].ask} : Accepted(r, s, amount)
        \/ Closes(s, "declined", deal[s].ask) /\ UNCHANGED <<facts, heard>>
        \/ deal' = [deal EXCEPT ![s].ask = bid] /\ UNCHANGED <<facts, heard>>
    /\ UNCHANGED <<run, memory, asked, sold, seen>>

AcceptTool(r, s) ==
    /\ ActsIn(r, s)
    /\ Accepted(r, s, deal[s].ask)
    /\ UNCHANGED <<run, memory, asked, sold, seen>>

DeclineTool(r, s) ==
    /\ ActsIn(r, s)
    /\ Closes(s, "declined", deal[s].ask)
    /\ UNCHANGED <<facts, run, memory, asked, sold, seen, heard>>

\* It reports in words of its own: what it did need not be what it says, and the amount may
\* be left out.
Report(r) ==
    /\ Step(r) = "negotiate"
    /\ \E action \in Actions \cup {"", "unknown"}, amount \in Bids \cup {0},
       status \in BOOLEAN :
        Joins(r, Outcome(action, amount, action # "" \/ status))
    /\ UNCHANGED <<facts, deal, memory, asked, sold, seen, heard, crossed>>

\* The time the price is from: the outcome's own copy does not survive the join
\* (mutated: it is asked for there only).
QuotedAtOutcome(goods) == Nil
QuotedAt(goods) == goods.quoted

\* The goods are looked up once more and the run says what to do with them.
Finalize(r) ==
    /\ Step(r) = "finalize" /\ run[r].outcome.readable
    /\ LET goods == FactsOf(r).priced
           amount == SettledAmount(r, run[r].outcome)
           action == Normalized(run[r].outcome.action)
           above == BandCrossed(amount, Price[goods.product] + goods.bundled)
       IN  Finish(r, ResultRow(action, goods.product, amount, QuotedAt(goods),
                               action = "ask_human" \/ above))
    /\ UNCHANGED <<deal, memory, asked, sold, seen, heard, crossed>>

\* Any node may fail or time out, before it did anything or with its effect as above; a run
\* that haggles past its share of events is lost, offer and all.
NodeFails(r) ==
    /\ facts[r] # Nil
    /\ Breaks(r) \/ (Step(r) = "negotiate" /\ Lost(r))
    /\ UNCHANGED <<deal, memory, asked, sold, seen, heard, crossed>>

-----------------------------------------------------------------------------
\* What was shown is remembered before anything may end the message, the failure of a run
\* included; a failed write keeps what was remembered before.
Remember(r) ==
    /\ Step(r) = "remember"
    /\ memory' \in {memory, run[r].options}
    /\ Goes(r, [run[r] EXCEPT !.options = {},
                               !.step = CASE run[r].result.action = "failed" -> "failed"
                                          [] run[r].result.action = "declined" -> "done"
                                          [] OTHER -> "spend"])
    /\ UNCHANGED <<facts, deal, asked, sold, seen, heard, crossed>>

\* No amount is the list price.
Purchase(r) ==
    LET result == run[r].result
    IN  [run |-> r, product |-> result.product, dated |-> result.dated,
         amount |-> IF result.amount = 0 THEN Price[result.product] ELSE result.amount]

\* The purchase is made, and what was shown for it forgotten once the person is told.
Buys(purchase) == sold' = sold \cup {purchase} /\ memory' \in {{}, memory}

\* The run is recorded and the product looked up, then it is asked about or bought; the gate
\* may want a person or refuse.  A failure on the way ends it with nothing done.
Spend(r) ==
    /\ Step(r) = "spend"
    /\ \/ UNCHANGED <<asked, sold, memory>>
       \/ asked' = asked \cup {Purchase(r)} /\ UNCHANGED <<sold, memory>>
       \/ run[r].result.action = "buy" /\ Buys(Purchase(r)) /\ UNCHANGED asked
    /\ Goes(r, [run[r] EXCEPT !.step = "done"])
    /\ UNCHANGED <<facts, deal, seen, heard, crossed>>

\* /approve resumes the purchase, /reject and the gate put it aside.
AnswerQuestion ==
    /\ PersonWaitsForNothing
    /\ \E purchase \in asked :
        /\ asked' = asked \ {purchase}
        /\ Buys(purchase) \/ UNCHANGED <<sold, memory>>
    /\ UNCHANGED <<facts, run, deal, seen, heard, crossed>>

\* /negotiate opens a session the person is told of, unless the answer is lost.
NegotiateCommand(r) ==
    /\ Kind[r] = "command" /\ Step(r) = "idle" /\ PersonWaitsForNothing
    /\ \E product \in Products : \E quote \in Quotes[product] :
        deal' = [deal EXCEPT ![r] = Session(product, quote)]
    /\ \E step \in {"done", "failed"} : Goes(r, [run[r] EXCEPT !.step = step])
    /\ UNCHANGED <<facts, memory, asked, sold, seen, heard, crossed>>

\* The sessions the person can name: their runs' and their own.
Known(s) == OfPerson(s) /\ deal[s] # Nil /\ Step(s) = "done"

\* /accept closes the session first and buys at the shop's answer, dated by the shop.
AcceptCommand(r, s) ==
    /\ Kind[r] = "command" /\ Step(r) = "idle" /\ PersonWaitsForNothing /\ Known(s)
    /\ Closes(s, "accepted", deal[s].ask)
    /\ \/ Goes(r, [run[r] EXCEPT !.step = "spend",
                    !.result = ResultRow("buy", deal[s].product, deal[s].ask, s, FALSE)])
       \/ Goes(r, [run[r] EXCEPT !.step = "done"])
    /\ UNCHANGED <<facts, memory, asked, sold, seen, heard, crossed>>

DeclineCommand(r, s) ==
    /\ Kind[r] = "command" /\ Step(r) = "idle" /\ PersonWaitsForNothing /\ Known(s)
    /\ Closes(s, "declined", deal[s].ask)
    /\ Goes(r, [run[r] EXCEPT !.step = "done"])
    /\ UNCHANGED <<facts, memory, asked, sold, seen, heard, crossed>>

-----------------------------------------------------------------------------
ShopNext ==
    \/ AnswerQuestion
    \/ \E r \in Runs :
        \/ TurnedAway(r) \/ BeginRun(r)
        \/ AskShop(r) \/ Choose(r) \/ FetchOffer(r) \/ DecideOffer(r)
        \/ AcceptOffer(r) \/ AskHuman(r) \/ DeclineOffer(r)
        \/ Report(r)
        \/ Finalize(r) \/ NodeFails(r) \/ Remember(r) \/ Spend(r)
        \/ NegotiateCommand(r)
    \/ \E r, s \in Runs :
        \/ CounterOffer(r, s) \/ AcceptTool(r, s) \/ DeclineTool(r, s)
        \/ AcceptCommand(r, s) \/ DeclineCommand(r, s)

ShopSpec == ShopInit /\ [][ShopNext]_shopVars

-----------------------------------------------------------------------------
\* Type invariant: the service keeps facts for exactly the runs under way, and a run past
\* its quote holds an offer for what it chose.
ShopTypeOK ==
    /\ \A r \in Runs :
        /\ Step(r) \in {"idle", "ask_shop", "choose_option", "fetch_offer", "decide_offer",
                        "finalize", "remember", "spend", "done", "failed"} \cup Routes
        /\ facts[r] # Nil <=> Step(r) \in {"ask_shop", "choose_option", "fetch_offer",
                                            "decide_offer", "finalize"} \cup Routes
        /\ facts[r] # Nil => facts[r].wallet \in Wallets[r] /\ facts[r].settled \in Nat
        /\ run[r].offer # Nil => run[r].offer.product = run[r].pick /\ deal[r] # Nil
        /\ deal[r] # Nil => deal[r].product \in Products
                             /\ deal[r].status \in {"countered", "accepted", "declined"}
    /\ memory \subseteq Products
    /\ \A p \in asked \cup sold : p.product \in Products /\ p.amount \in Nat \ {0}

\* What is bought or asked about is a deal of the shop's, end to end: the goods are those of
\* the session its price is dated by, the run's own; and what is bought on a yes that was
\* heard is bought at the amount the shop accepted.  That yes is of the session that dates
\* the price, unless the run's agent named another run's session: then the goods are one
\* session's and the amount another's, and nothing in the code tells them apart.
OneDealThroughout ==
    \A p \in asked \cup sold :
        LET s == p.dated
            t == IF Kind[p.run] = "command" THEN s ELSE heard[p.run]
        IN  /\ s # Nil /\ deal[s] # Nil /\ p.product = deal[s].product
            /\ Kind[p.run] = "chat" => s = p.run
            /\ (run[p.run].result.action = "buy" /\ t # Nil) =>
               /\ deal[t].status = "accepted" /\ deal[t].ask = p.amount
               /\ t # s => t \in crossed

\* No run takes an offer by itself beyond the money facts it began with, whoever else is
\* shopping at the time; unless another run's agent haggled in its session in between, for
\* the offer is taken at what the shop then asks, which nobody holds to the money again.
AcceptedWithinOwnMeans ==
    \A r \in Runs \ crossed :
        (run[r].route = "accept" /\ run[r].result # Nil /\ run[r].result.action = "buy") =>
            /\ run[r].result.amount <= run[r].wallet.balance
            /\ Ceiling(run[r].wallet) > 0 => run[r].result.amount <= Ceiling(run[r].wallet)

\* A run ends with nothing its own caller was not shown, on this pass or before.
NothingUnseen ==
    \A r \in Runs :
        (Kind[r] # "command" /\ run[r].result # Nil /\ run[r].result.product # Nil)
        => run[r].result.product \in seen[r]
=============================================================================
