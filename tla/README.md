# AgentMart: models, checks and proofs

AgentMart is a shop between two agents. A person talks to a *buyer* over Telegram,
the buyer's agent haggles with a *merchant* agent over HTTP, and what they settle on is
paid from a prepaid wallet that lives in Postgres. This directory holds TLA+ models of
the parts of it that are hard to test, the TLC runs that check them on small instances,
and proofs, which TLAPS checks for every instance, of every safety property the runs
check. `PROJECT.json` ties each definition to the source lines it stands for, each
run to the question it answers, each hazard of the code to the properties that watch it,
and each property to a change of the model (a plausible bug) that breaks it.

To run a check: `tlc -workers 2 -config MCReversal.cfg MCReversal`; to check proofs:
`tlapm ReversalProofs.tla`. `PROJECT.json` names the module and configuration of each run.

## 1. Inventory

| Component | Sources | State it keeps | Operations | What makes it correct |
|---|---|---|---|---|
| Wallet functions | `supabase/migrations` | balances, stock, orders, ledger, revenue, owed reversals | `credit_wallet_topup`, `fulfill_wallet_order`, `refund_wallet_order`, `campaign_for_account` | every rupee is accounted for once, whatever interleaves, drops or is retried |
| Buyer: refund and reversal | `internal/buyer/refund.go`, `reversal.go` | none of its own: the owed reversal and the order in Postgres | `/refund`: credit, look up what is owed, gateway object, its id, trail row, settle | the gateway's record of a cancellation agrees with the credit and is never lost |
| Buyer: purchase, gate, approval | `internal/buyer/purchase.go`, `approval.go`, `internal/gate`, `internal/wallet` | approval requests and audit rows in Postgres | attempt, requestApproval, ResolveApproval | nothing above the limit is spent without a yes; evidence before money |
| Buyer agent graph | `internal/shopgraph`, `internal/buyeragent`, `internal/negotiationclient`, the chat in `cmd/user/main.go` | the facts of each run under way; what the chat remembers | ask the shop, choose, fetch an offer, judge it, accept, haggle, escalate, decline, finish, remember, spend | what is bought is one deal of the buyer's own, at an amount the shop accepted, within the buyer's means, of goods the buyer saw |
| Negotiation | `internal/negotiation`, the offer node of `internal/marketgraph` | one session record per quote, in a shared key-value store with a 45-minute life | propose, counter, accept, decline | no price under the floor or over the ask, a closed deal stays closed |
| Telegram webhook intake | `cmd/user/telegram_webhook.go`, `telegram_dispatch.go` | delivery channel, one queue and goroutine per person, checkpoint | post, route, checkpoint, dispatch, handle, retire | one run per person, in order, nothing stranded |
| Telegram polling | `cmd/user/update_processing.go`, the loop in `main.go` | offset, checkpoint | poll, process, checkpoint | nothing forgotten before it was handled |
| Model chain | `internal/llmchat` | which models have spent their allowance, shared by runs | ask, retry, pause, fail over, bench, second ask | an answer of use is not dropped for one of less; a spent model is left alone |
| Catalog and tool channel | `internal/marketclient`, `internal/markettools`, `internal/catalog` | one session with the shop's tools, shared by every run | call, reconnect, dial | no session is leaked; a call alone is answered |
| Campaigns | `campaign_for_account`, `internal/campaigns` | the buyer's order history | which discount is funded | a discount rests on orders that stand |
| Account linking | `redeem_telegram_link`, `internal/linking`, `web/app/api/link-tokens` | link tokens, links | mint, redeem | a token links once; whoever acts is who is linked |
| Web: top-up, spend limit | `web/app/api/topups`, `web/app/api/razorpay/webhook`, `web/app/api/account/spend-limit` | none beyond the tables | order, confirm, webhook; change a limit | a captured payment credits once; a changed limit is audited |
| Merchant browse and agent graph | `internal/negotiation/browse.go`, `internal/marketgraph`, `internal/merchantagent` | none between requests | pitch, price, answer a counter | bounded runs; nothing is pitched that is not on the shelf |
| Trading conditions | `internal/trading` | a five-minute cache behind a mutex | refresh, read | a stale condition is only an argument |
| Gateway and database clients, health, failures, dashboard, deployment | the rest | little or none | wrappers, reports, pages | see section 7 |

**How they interact.** A Telegram update enters by the webhook or by polling, is
checkpointed and reaches one handler per person. The handler runs a command (`/buy`,
`/negotiate`, `/accept`, `/refund`, an approval button) or the buyer agent, which browses
the catalog over the tool channel, has the merchant price its choice over HTTP, thinks
through the model chain, and ends in a purchase, a question to the person or nothing.
The same agent is published: strangers' requests run through the same service beside the
person's. A purchase passes the gate (which writes its decision to `audit_log` first),
creates a gateway object and calls the wallet. A refund calls the wallet and then records
the cancellation at the gateway. Everything durable is shared through Postgres; nothing
else is shared but the webhook's channels, the session store, the facts of the runs under
way, the tool session, the bench of spent models and the trading cache.

**What is hard about it.** Six things recur. (1) Every call between two services may
fail, or take effect and lose its answer, and the caller's process may stop between any
two of them. (2) The same message may be handled again, under the same idempotency key,
after the world has moved. (3) People share an account, and runs share a service, and act
at once. (4) What was read (a limit, a price, a floor, an account, a status, a session) is
used after the next call, when it may be stale. (5) The wallet's transactions read, wait
for a lock and write. (6) What a model reports need not be what it did. The full list,
line by line, is under `hazards` in `PROJECT.json`.

## 2. Modules

```
WalletLedger ─────────────── WalletLedgerProofs     the three functions as single steps
   ├── WalletTx ──────────── WalletTxProofs         the same, statement by statement
   │     (implements WalletLedger)
   ├── Reversal ──────────── ReversalProofs         the /refund chain around refund_wallet_order
   └── Purchase ──────────── PurchaseProofs         the purchase chain around fulfill_wallet_order
Negotiation ──────────────── NegotiationProofs      one merchant session
TelegramIntake ───────────── TelegramIntakeProofs   the two ways in,
TelegramPolling ──────────── TelegramPollingProofs     alternatives of one another
ShopRun ─────────────┐                              the buyer agent's runs, and what a chat does with them
ModelChain ──────────┼────── AgentProofs            the chain of language models
CatalogChannel ──────┘                              the shared session with the shop's tools
MC<module>                                          the small instance each run checks
```

* **WalletLedger**: `balance`, `stock`, `orders`, `ledger`, `revenue`, `reversals` are the
  tables of those names. Each function is one action, guarded by its checks in their
  order of refusal; a refusal and a recognised duplicate change nothing that is modelled.
  `lapsed` is the 30-day window of `refund_wallet_order`, and a refund judges it by a
  subset `seen` of what has lapsed, since `now()` is the start of its transaction.
  `Entitlement` is `campaign_for_account`: the active campaign of highest priority whose
  thresholds the account's standing orders meet.
* **WalletTx**: a session is at one of the statements that may wait or decide (`Route`).
  `holds` are its locks: account and product rows, the purchase's advisory lock, the
  order row, the unique-index entry of a key. A read is kept in `read` and used later.
  `Drop` rolls back at any statement, and `Commit` may lose its answer. The refinement is
  `Ledger == INSTANCE WalletLedger WITH ...`, `LedgerSpec == Ledger!Spec`: the mapping is
  the tables themselves, locks and local variables being what it hides.
* **Reversal**: one action per call of a `/refund` command (`Credit`, `NoCredit`, `LookUp`,
  `Reverse`, `NameRecord`, `WriteTrail`, `Settle`), each of which may take effect
  and lose its answer; `Cut` is a failure or a stop of the process. The wallet step
  inside is `WalletLedger`'s own action.
* **Purchase**: one action per call of an attempt (account, catalog, gate, approval or
  artifact, settlement), for a typed command, a message the buyer agent turned into a
  purchase or an escalation, and a decision on an open request. `SetLimit`, `SetPrice`,
  `Relink`, `FallDue` and `Fund` are the world moving in between.
* **ShopRun**: one action per node of the buyer agent's graph (`AskShop`, `Choose`,
  `FetchOffer`, `DecideOffer`, `AcceptOffer`, `AskHuman`, `DeclineOffer`, `Finalize`), the
  haggling agent's tools and report (`CounterOffer`, `AcceptTool`, `DeclineTool`, `Report`;
  the tools act in any session there is, since the model names it and nothing checks it),
  and the chat around it (`TurnedAway`, `BeginRun`, `Remember`, `Spend`, `AnswerQuestion`, the
  `/negotiate`, `/accept` and `/decline` commands). `facts` is what the service keeps by
  run; `RouteFor` and `SettledAmount` are the two places where a rule overrules a model.
  The shop is kept to what `Negotiation` shows of it, a purchase to its outcomes in
  `Purchase`. A model's choice, judgement and report are any of a small set.
  `heard` (whose yes reached a run) and `crossed` (the sessions another run's agent acted in)
  are history: no guard reads them.
* **Negotiation**: `Propose` quotes; a counter is `Load`, `Answer` (decide, ask the
  model, clamp, write the trail) and `Put`; an accept or decline is `Load` and `Put`. The
  whole record is written back, as the store does. `EntitledFloor`, `FloorFor`,
  `MinimumOf`, `ClampToRails` and `ClampCounter` are the arithmetic of `policy.go`,
  `orchestrator.go` and `http.go`. Percentages are truncated as integers: `Share` was
  compared with the code's float64 arithmetic for every amount up to 200,000 paise and
  percentage in use, and agrees. `funded` is the discount that moves meanwhile. `most`,
  `overlapped` and `chosen` are history the properties speak of and no guard reads.
* **TelegramIntake**: `Post` is Telegram's delivery and the HTTP handler, `Take` and
  `Dispatch` the router goroutine (with the checkpoint between), `Receive`, `Finish`,
  `FindNothing` and `Retire` a person's worker, `Restart` a stop of the process.
* **TelegramPolling**: `Poll`, `Process`, `Checkpoint`, `CheckpointFails`, `Restart`.
* **ModelChain**: a call goes down the models callable now (`BeginAsk`), each of which
  answers (`Reply`, whose text, calls and answer function `Adapt` weighs), fails in a way
  that may clear (`Hiccup`, then `Retry`), or refuses (`Refuse`, which benches a model
  whose allowance is spent). A shaped call that got prose starts down the chain once more.
  `Tick` counts every timer down; `TimeUp` is the caller's own deadline.
* **CatalogChannel**: `Begin`, `Answered` and `Fails` are a call on the session held;
  `Drops`, `Dials` and `DialFails` the reconnection under the mutex; `Retries` the one
  retry; `Expires` the caller's deadline. The network may fail any call and any dial
  (`Doomed` is the call that can only fail); `ShopRestarts`, `IdlesOut` and `Close` the rest.

## 3. Runs

All bounds are constants of the configurations.

| Run | Instance | States | Shows |
|---|---|---|---|
| `ledger` | 2 buyers, 1 product of stock 2, 3 orders, 7 ledger rows; campaigns of 10 % and of 40 %, the latter below cost | 50 thousand | the invariants of `WalletLedger` |
| `tx` | 5 sessions on 1 buyer with 200: a top-up, a purchase, its retry, a second purchase, a cancellation | 122 thousand | the interleaved functions implement `WalletLedger` (`LedgerSpec`), a retried purchase is told it was a duplicate, and every call ends |
| `reversal` | 5 commands of 3 people on one order: a command, its repetition after a restart, the same person in other words, the other person on the account, a stranger | 606 thousand | the gateway's objects agree with the credit, settled is recorded, an answered command leaves nothing owing |
| `purchase` | 6 attempts of 2 people who share an account, two of them taps of one approval and one a no to it; prices 100 or 120, limits 80 or 200, one change | 695 thousand | above the limit only what a person said yes to is sold, the gate's row and the gateway object stand before every debit, a question is answered once, by the answer that comes first |
| `shop` | 2 products; two messages of one person, or a message and a command, or a message beside a stranger with a smaller budget; the agents counter with 100, and report that or nothing | 1.4 million | what is bought or asked about is of the run's own deal, at an amount the shop accepted if its yes was heard; an accept stays within the buyer's own means, and nothing unseen is bought |
| `negotiation` | list 100 cost 75, partner 50 cost 40 at 20 % off; bids 60, 85, 130; 3 counters and an answer; one move of the discount between 0 and 33 % | 3.5 million | what is agreed the wallet would settle; closed stays closed but for overlaps; an ask rises only to a floor worked out anew; the model's price is on the trail |
| `intake` | 5 updates of 2 people (one with no text), both queues of depth 1, 2 workers, 1 restart | 769 thousand | one run per person, in order, none repeated but for an unsaved checkpoint, each comes to an end |
| `polling` | 4 updates (one with no text), 3 failures | 4 thousand | nothing forgotten or passed before it was handled, in order, all handled |
| `models` | 2 models, a call of the negotiating agent (180 s) and a forced completion of a stage (90 s), 3 attempts, half a minute to a tick | 1.5 million | tools to run and shaped answers are not dropped for prose, no call that got an answer fails because its second ask did, a spent model is not asked again, no timer or list runs over |
| `channel` | 3 callers who call as often as they wish, 4 sessions | 2.4 million | no session is leaked, and a call that nothing came in between of and that the network failed at most once is answered |

Why these bounds are enough for what they are meant to reach. *Wallet*: three orders let
one be bought, cancelled and counted (or not) for a later discount, and a stock of two
lets the shelf run empty; seven rows hold every call of that instance. Five sessions
contain every pair of functions that take locks in common, and a repetition of one of
them. *Purchase, reversal*: two people on one account, one of whom may link elsewhere, and
one change of anything, are what it takes for a read to be stale at its use; the wallet is
short of what both are about to spend. Two taps of one approval, and a no, meet at each
step of one another. *Shop*: the shop's facts are kept by run, so two
runs are what it takes for one to read the other's; the razor is quoted above the
stranger's means and within the person's, and its bundle crosses the band that asks for a
person. The one bid lies above the soap's quote, below the razor's and beyond the stranger's
means, so it tells one session's amount from another's. A company of all three makes no step that one of the pairs does not, because the
person's own messages never overlap and strangers share nothing but the service.
*Negotiation*: three counters are the negotiation's own bound (`MaxRounds`), so a session
runs through all its rounds; the partner is set so that its cost moves the floor past the
ask, and 33 % lies below the basket's cost, so both halves of every maximum are met.
*Intake*: one slot and three messages from one person fill a queue while its worker
retires. *Models*: with two models a chain has a next and a last; three attempts stand for
the code's five, one being first and one in between. *Channel*: with three callers one
reconnects while a second uses the session and a third waits for the lock; four sessions
let each dial once. Order ids and the two taps (`purchase`), counters (`negotiation`) and
callers (`channel`) are symmetric; none of these checks liveness.

Two runs look at states through a `VIEW`. `purchase` leaves out how an attempt ended, which is
written once and read by no action and no property. `shop` leaves out of each run what its
remaining steps and the properties can no longer read: what was on screen once nothing will
be chosen from it, how an outcome was worded once the amount and action it comes to are
known, what was shown beyond what was picked (`AllButSpent`). Two states that look alike go on
alike, and every invariant has one value on both.

Two runs expect a violation. Each refutes one sentence of the repository:

| Run | The repository says | What happens |
|---|---|---|
| `resumes` | `internal/buyer/purchase.go:274`: a decision "resumes the original purchase" | the account is resolved anew from the Telegram id; after a `/link` another account pays |
| `below_cost` | `policy.go:121`: the orchestrator never goes below blended cost | a failed read of the partner is passed over and the floor is the main product's alone |

More divergences were met while modelling and have no run of their own:

* `web/app/api/topups/confirm/route.ts:2-4` says the later of callback and webhook is told
  the payment was already applied. The key is looked up before the account is locked and
  not again after, so the later call may fail on the unique index instead (`Commit` of
  `WalletTx` answers it "violation"). Nothing is credited twice.
* `cmd/user/main.go:410` promises "I will come back to this one straight after" of a
  message that a full queue refused and nothing keeps.
* `README.md:74` says an ask is never above the standing one. A floor that counts a partner
  the opening ask left out as out of stock, or a discount that lapsed, lifts a counter above
  it; `AskRisesOnlyToTheFloor` says it rises for no other reason.
* The header of `update_processing.go` promises to keep an update until its handler
  *succeeds*; line 19 discards the handler's error.
* `README.md:141` says nothing is spent while an answer is outstanding; a `/buy` handled
  again under its key after the limit was raised is bought at once.
* The comment at `shopgraph/builder.go:766` says a run that breaks after the quote is handed
  to the person; that is so only while an offer is the last output, so a break in the last
  node loses the run (`Breaks`), and so does one that haggles past 200 events (`Lost`).
* `shopgraph/builder.go:792-795` calls the amount of a heard yes "the shop's own statement of
  the deal". The agent's tools pass on whatever session the model names (lines 960, 969, 978)
  and record the answer under the run, so it may be the statement of another deal: the
  purchase is then of one session's goods at the amount another accepted. `OneDealThroughout`
  says this is the only way the two part. An ask another agent raised meanwhile is also what
  `acceptNode` (line 602) takes, since it does not hold the answer to the money facts again.
* A shaped call that got prose asks once more, and the second answer takes the place of the
  first whatever it is (`llmchat/chatmodel.go:223-225`), empty or unreadable included: the
  first is kept only if the second ask *fails*. `BestAnswerIsKept` claims no more than that.
* `marketclient/client.go:20` calls the re-dial transparent; a call beside others, or one whose
  dial or second try the network fails too, may fail after its one retry though the shop is
  up (`AloneIsServed` excepts both).
* `llmchat/chatmodel.go:28` says one hung endpoint cannot eat a run's budget; within a
  caller's 60 or 90 seconds a request may take all of it, since a request is given 120.

`CHECK_DEADLOCK FALSE` stands in every configuration but that of `tx`: the other models
stop when their bounded inputs (orders, commands, updates, requests, sessions) are used
up. In `WalletTx` a wait that cannot end would be a bug, so deadlock is checked and
`AllAnswered` marks the one state where stopping is right. As a dropped connection would end
any wait, it is `EveryCallEnds`, under which no connection need drop, and the theorem
`NobodyWaitsInACircle` that say waits end by themselves.

## 4. Fairness

* `tx`: weak fairness of each session's next statement. A lock that is free stays free to
  the sessions that wait for it until one takes it, each wait is for a holder that ends,
  and Postgres queues the waiters. `Drop` and the lapse of windows are not fair.
* `intake`: weak fairness of the router and of each worker (goroutines are scheduled, and
  what a handler waits for has a deadline: every HTTP client a timeout, the agent's run
  `graphRunDeadline`), strong fairness of a delivery whose answer is heard, because
  Telegram repeats a delivery until it is. Restarts are not fair.
* `polling`: weak fairness of the loop. New updates, failures and restarts are not fair.
* The other runs check safety only and assume none.

## 5. Proofs

Eight proof modules, each for all values of its model's constants that satisfy the
model's named assumption (`WalletAssumption`, `SessionAssumption`, `CommandAssumption`,
`PurchaseAssumption`, `NegotiationAssumption`, `ChannelAssumption`, ...). The assumptions
say that amounts, costs and prices are natural numbers, that percentages are percentages,
and that `None` (`Nil`, `Nothing`) is nothing else. One says more: `BenchAssumption`, that
no caller of the model chain waits as long as a model stays benched (three minutes at
most, against ten). TLC evaluates each in a run. Only the chain of models and the updates
of the webhook are assumed finite: orders, keys, sessions, runs and callers may be without
number.

| Module | Theorem | Says |
|---|---|---|
| `WalletLedgerProofs` | `TypeCorrect` | no balance and no stock goes below zero; every table keeps its shape |
| | `KeysAreSpentOnce` | no idempotency key is spent twice, across the three functions |
| | `BalancesAreExplained` | a balance is its account's last ledger row, each row moving the previous one by its amount |
| | `OrdersKeepTheirTrail` | an order is debited once and credited back at most once, for its own amount; its reversal is that credit's |
| | `SalesCoverCost` | no sale is below its list total and below cost at once |
| | `DiscountsAreEarned` | a discounted sale is within what a campaign gives the orders not refunded at that moment |
| | `StockIsConserved` | what is missing from a shelf is what the orders standing for it took |
| `WalletTxProofs` | `TransactionsAreWellFormed` | a call is at a statement of its function and holds nothing once answered |
| | `NothingReadGoesStale` | what a transaction read and decided holds at each later statement of it |
| | `TransactionsRunAlone`, `NoInterleavingShows` | every interleaving implements the ledger (the refinement `LedgerSpec`) |
| | `NobodyWaitsInACircle` | whoever is waited for waits, if at all, for a lock further up; while a call is unanswered some call waits for nobody |
| | `PaidRetriesAreRecognised` | the retry of a purchase that was paid is never refused nor failed by the unique index |
| | `InterleavedBalancesAreExplained`, `InterleavedOrdersKeepTheirTrail`, `InterleavedStockIsConserved` | the ledger's invariants, carried over |
| `ReversalProofs` | `CommandsAreWellFormed` | commands, owed reversals and objects keep their shape |
| | `CancellationsKeepToTheLedger`, `CancellationsRestockOnce` | the chain moves money by the ledger's steps alone, and restocks once |
| | `ObjectsTellOfOneCredit` | every gateway object agrees with the one credit behind it |
| | `SettledIsOnRecord`, `NothingIsLeftOwing` | settled means recorded; answered means nothing is owed |
| `PurchaseProofs` | `AttemptsAreWellFormed`, `PurchasesKeepTheBooks` | shapes, and the ledger's invariants over the chain |
| | `NoSaleWithoutEvidence` | gate row and gateway object stand before a debit |
| | `OneYesOneAttempt`, `NothingAboveTheLimitUnasked` | an attempt goes on from a yes only if the question was open and not due then, no second one does, and what was decided stays; above the limit only a yes is spent |
| `NegotiationProofs` | `DealsKeepTheirTypes` | no session goes past its last round or stands at no amount |
| | `AgreedIsSettled` | what the shop agrees to, the wallet would settle at some discount funded since the quote |
| | `ModelsPriceIsOnRecord` | no price of the model's without its row |
| | `ClosedStaysClosed`, `AsksRiseOnlyToTheFloor` | the two action properties of the run |
| `TelegramIntakeProofs` | `IntakeTypeCorrect`, `OneRunAtATime`, `NoQueueIsOrphaned` | shapes and bounds; one run a person; nothing waits without a worker |
| | `MessagesKeepTheirOrder`, `RepeatsAreExcused` | order of arrival; twice only after a restart over an unsaved checkpoint |
| `TelegramPollingProofs` | `PollingTypeCorrect`, `NoMessageIsPassedOver`, `MessagesAreHandledInOrder` | nothing is passed over, in order |
| `AgentProofs` | `ChannelTypeCorrect`, `NoSessionIsLeaked`, `AloneCallIsServed` | one open session; a call alone, failed at most once by the network, is answered |
| | `ChainTypeCorrect` | a call keeps within its tries, timers and time, and has a model left to ask while it waits |
| | `BestAnswerSurvives`, `SpentModelsAreSpared` | tools and shaped answers are not dropped for prose, nor any answer for a second ask that failed; a spent model is not asked again by the call it told |
| | `ShopTypeCorrect` | facts are kept of exactly the runs under way, each row in its shape |
| | `OneDealEndToEnd` | what is bought or asked about is of the session the run opened, and at the amount the shop accepted if its yes was heard: in that session, unless another run's agent acted in the one the yes is of |
| | `AcceptsStayWithinMeans`, `NothingUnseenIsBought` | an accept keeps to the money facts its run began with, unless another run's agent acted in its session; nothing ends in a purchase its buyer was not shown |

None of these properties is inductive as it stands. The strengthenings, and why:

* **Ledger** (`IInv`): `TypeOK`, `KeysSpentOnce`, `LedgerExplainsBalance`, `OrderMoneyTrail`
  and `NoSaleBelowCost` together. The ledger argument needs types to know what an append
  does to a sequence of rows, and the trail of an order needs the guard on keys. `AnyCall`
  is one call of any of the three functions on any request; the lemmas are about it, so
  that the modules that take wallet steps of their own (`Reversal`, `Purchase`,
  `WalletTx`) cite them. Every function that writes money writes one row through `Post`,
  so one lemma each (`TopUpPosts`, `PurchasePosts`, `RefundPosts`) reduces it to "one row
  is appended". `fulfill_wallet_order` judges the history by order *status* while
  `FundedByStandingOrders` speaks of refund rows; `StandingIsUnrefunded` makes them agree.
  `StockConserved` is a sum over a set of orders, computed by a recursive function, and the
  library's induction theorems cannot be used on it. Its lemmas go by the smallest
  counterexample: numbers have no endless descent, so a set of finite sets that is not
  empty has a smallest (`SmallestSet`). From that follow that the function of partial sums
  exists (`PartialSumsDefined`), that any member may be added last (`AnyMemberLast`), and
  that a sum grows by the value of a place that joins (`SumWithOneMore`). `StockInv` adds
  to `StockConserved` that the orders made so far are finitely many, without which a sum
  over them means nothing.
* **Transactions** (`TxInv`): two-phase locking. No lock is in two sessions' hands
  (`Apart`), and what each has read under its locks still stands (`Stands`): the order is
  refundable, the balance is the one read, the price is funded, the key is free. A step of
  another session that would disturb it needs a lock it cannot have. At the last statement
  every guard of the single-step function is then true, which is the refinement; every
  other statement leaves the tables alone. `Ledger!Spec` is `Spec` under the identity
  mapping, shown definition by definition. `PaidRetriesAreRecognised` rests on the
  purchase's advisory lock: whoever is past the look-up of its key holds it
  (`LockedKey`), so nobody else pays under that key in between. `NobodyWaitsInACircle`
  is the safety half of `EveryCallEnds`: each lock is one its holder took at a statement
  behind it (`LocksInOrder`), and the functions take key, order, account, ledger entry and
  product in that order. A purchase takes the last two the other way round, which is harmless
  only as long as no cancellation runs under a purchase's key; the theorem has that as its
  hypothesis (`KeysAreOfOneKind`), and the formats of the keys bear it out.
* **Reversal** (`RevInv`): who set out to record an order is on its account
  (`OwedByTheBuyer`), the objects agree with the reversal row and its wording
  (`ObjectsAgree`), and each command is `InGoodOrder`: at "name" its object exists, at
  "trail" the order names one, at "settle" the trail row stands too.
* **Purchase** (`PurInv`): keys are those an attempt was made under, `GateHolds` (at
  "artifact" the gate's approval of these amounts stands, at "settle" the object too) and
  `YesStands` (an attempt made on a decision has an approved row it copies the amounts of,
  and no second attempt has that row).
* **Negotiation** (`NegInv`): `DealsAreSound`, the store's and every request's copy stand at
  the list total or more, or at what the wallet settles for or more; `InHand`; and
  `OneAtATime`, that unless requests overlapped the one under way holds what the store holds
  or what became of it. Three facts of arithmetic carry it: a larger discount leaves less of
  a list total than a smaller one of that total with goods attached
  (`LargerDiscountLeavesLess`), the schedule's minimum lies between floor and ask whichever
  is higher (`MinimumLiesBetween`), and a wallet that may fund more settles for no more
  (`WalletMinimumFalls`).
* **Intake** (`Tended`, `Ordered`): a person's messages are in the channel and hands of the
  one live worker the map points to, and all that was taken, from the first handled to the
  last queued, is one rising sequence. **Polling** (`PollInv`): the batch runs on from the
  update next due. **Channel** (`LockInv`, `AloneInv`): whoever dials holds the lock and the
  session held is then closed; a call nothing came in between of is, at each of its steps,
  on a session that will do or about to dial one.
* **Model chain** (`ChainInv`, call by call): `UnderWayWell`, that a call that waits has a
  model to ask; `Gathered`, that a shaped call goes on only while it got nothing it can
  carry, and holds from its first ask an answer without the shape; and `Spared`, the one
  that is not obvious: a model that told a call its allowance is spent stays benched for
  *longer than that call has left*. Both count down together, a call never gains time, and
  by `BenchAssumption` the bench starts out longer; so when the call asks for its shape and
  goes down the chain once more, that model is not among those callable unless all are
  benched. The place asked next is the least of those left, and `FirstPlace` shows there is
  one.
* **Shop runs** (`ShopInv`, run by run): `Shaped`, facts are kept of exactly the runs under
  way; `Showed`, what a run holds, remembers and chose was shown to it; `Priced`, from its
  quote to its end a run is about one product, its basket is dated by itself and, until
  somebody haggles in its session, its offer is the shop's standing ask; `Heard`, a yes that
  was heard is the last word in the session it is of, which is the run's own or among the
  crossed, and the amount the run goes on with; `Ends` and `Commanded`, what
  that makes of a result. `ChatInv` says that one chat remembers for one person, and
  `Bought` that whatever was sold or asked about is some run's result. A step of one run
  leaves the others' rows alone (`Frame`), so each action is a lemma about its own run. Only
  the tools and the commands, which may act in a session another run opened, are about two:
  `DealsAfter` says what every session may have become, an accepted one the same; `OthersFit`
  and `UnheardHolds` that the rest is undisturbed by it, `YesHolds` that a heard yes is the
  last word of the session it is of.

Only model-checked: the liveness of three runs (`EveryCallEnds`, `EveryUpdateEnds`,
`EveryMessageIsHandled`), which is out of the prover's reach, as is `ENABLED`, which fairness
is defined by. Every invariant and every action
property the runs check is stated by a theorem.

## 6. What the models leave out

* Campaigns are constant in the wallet modules, and `bundled_paise` is left out there.
  Sums that exceed a `bigint` make Postgres raise and roll back, which is a failed call.
  In `WalletTx` calls for nothing or less, refused before any lock, are left out.
* Audit rows appear where a property speaks of them. Texts, transcripts, formatting,
  tokens, signatures and HTTP shapes do not.
* Prices, costs and campaigns are written by nobody in this repository. A price change in
  `Purchase` is the environment; in `Negotiation` price and cost stand still.
* Gate checks no attempt that reaches the gate can fail (identity, positive amounts,
  overflow), and `validateCounter`'s refusals, which the floor makes unreachable.
* In `Purchase` people start linked; unlinking does not exist. The limit that binds is
  the one the attempt read: lowering it afterwards does not stop the debit, nor
  does a raised list price, because `fulfill_wallet_order` looks at neither.
* In `TelegramIntake` the busy reply is sent whenever it is due. In `TelegramPolling`
  Telegram sends nothing below the offset, so the loop's skip never applies.
* In `ShopRun` a run wants one of a thing, and what the agent counters with is from `Bids`; it
  reports one of those or no amount at all, which is the list price (a negative one is
  refused before the gate, one of the ways `Spend` ends with nothing done). A session the model makes up
  altogether is a call that fails. `Companies` are the sets of runs that meet in one history. Consulting the
  merchant's agent and the wording of a pitch are left out, and `/buy` is `Purchase`'s.
* In `ModelChain` a tick is half a minute, so pauses are rounded up to one; a provider's own
  "retry after" is a pause of any length up to the cap.
* In `CatalogChannel` what a tool returns is one answer, and the sessions of one history
  are bounded by `MaxSessions`.

## 7. Not modelled, and what a next step would be

* **Web routes.** The top-up routes and webhook call one wallet function each, which
  `WalletTx` runs against one another; a limit change is a step of `Purchase`. The
  spend-limit route's own read, write, record and put-back are not modelled: two changes
  at once may put back a limit the other replaced. Minting and redeeming a link is one
  locked transaction.
* **Merchant agent graph.** Its price guard and record are in `Negotiation`, its shopfront
  in `ShopRun`; the graph's limits on events and time are failures of those steps.
* **Trading conditions**: a cache whose facts only argue for a price that the rails bound.
* **Command dispatch**: the reading commands and forms change nothing.
* **Clients**: the gateway and database clients are thin HTTP wrappers without retries,
  whose lost answers are steps of the models that call them.
* **Health, failures, dashboard, deployment, prose**: no state of their own. Who may read
  what is the database's row-level security.

Worth doing next, in this order: `ShopRun` composed with `Negotiation` itself in place of
its promises; the spend-limit route racing itself; a top-up's key looked up again once its
account is locked, as the confirm route's comment has it.
