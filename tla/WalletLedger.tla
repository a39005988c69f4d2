---------------------------- MODULE WalletLedger ----------------------------
(***************************************************************************)
(* The money core of AgentMart: the Postgres functions that are the only   *)
(* writers of a wallet balance.  Each one runs in a single transaction, so *)
(* here each one is a single step; WalletTx breaks the steps open into the *)
(* row locks and reads they are made of and refines this module.           *)
(*                                                                         *)
(*   credit_wallet_topup    a captured gateway payment funds a wallet      *)
(*   fulfill_wallet_order   a purchase debits it and takes stock           *)
(*   refund_wallet_order    a cancellation credits it and restocks         *)
(*                                                                         *)
(* A refusal only writes an audit row, so it changes nothing that is       *)
(* modelled here; a call that finds its key already used changes nothing   *)
(* either.                                                                 *)
(***************************************************************************)
EXTENDS Integers, Sequences, FiniteSetsExt

CONSTANTS
    Accounts, Products, Keys,
    OrderIds,       \* the uuids orders will be given
    None,           \* SQL null: no order, no row
    Cost,           \* Cost[p]: products.cost_paise
    OpeningStock,   \* OpeningStock[p]: products.stock before the first sale
    Campaigns,      \* the active rows of public.campaigns
    TopUps,         \* the funding calls callers may make
    Purchases,      \* the purchase calls callers may make
    MaxRows         \* bound: length of the ledger in a model

TopUpCall == [account: Accounts, amount: Int, key: Keys]
PurchaseCall ==
    [account: Accounts, product: Products, qty: Int, base: Int, final: Int, key: Keys]
Campaign == [discount: 0..40, minOrders: Nat, minSpend: Nat, priority: Int]

Statuses == {"fulfilled_via_wallet", "refunded_via_wallet"}
Entries == {"topup", "purchase_debit", "purchase_refund"}

OrderRow ==
    [account: Accounts, product: Products, qty: Nat \ {0}, amount: Nat \ {0}, status: Statuses]
LedgerRow ==
    [key: Keys, account: Accounts, order: OrderIds \cup {None}, entry: Entries,
     amount: Nat \ {0}, after: Nat]
RevenueRow == [base: Nat \ {0}, final: Nat \ {0}]
ReversalRow == [account: Accounts, amount: Nat \ {0}, key: Keys, settled: BOOLEAN]

ASSUME WalletAssumption ==
    /\ None \notin OrderIds \cup OrderRow \cup RevenueRow \cup ReversalRow
    /\ Cost \in [Products -> Nat]
    /\ OpeningStock \in [Products -> Nat]
    /\ Campaigns \subseteq Campaign
    /\ TopUps \subseteq TopUpCall
    /\ Purchases \subseteq PurchaseCall
    /\ MaxRows \in Nat

VARIABLES
    balance,    \* accounts.wallet_balance_paise
    stock,      \* products.stock
    orders,     \* public.orders, None for an id no row carries
    ledger,     \* public.wallet_ledger, in id order
    revenue,    \* public.merchant_revenue, one row per order
    reversals,  \* public.reversal_attempts, one row per order
    lapsed      \* orders whose refund_window_expires_at has passed

vars == <<balance, stock, orders, ledger, revenue, reversals, lapsed>>

-----------------------------------------------------------------------------
\* The unique index on wallet_ledger.idempotency_key (mutated: without the index).
KeyIsFreeWithoutIndex(k) == k \in Keys
KeyIsFree(k) == \A i \in DOMAIN ledger : ledger[i].key # k

StandingIds(status, a) ==
    {o \in OrderIds : orders[o] # None /\ orders[o].account = a /\ orders[o].status \in status}

\* The orders that earn loyalty (mutated: refunded ones still count, as they did
\* before the migration that restated campaign_for_account).
StandingOrdersOfEver(a) == StandingIds(Statuses, a)
StandingOrders(a) == StandingIds({"fulfilled_via_wallet"}, a)

SpendOver(ids) == SumFunction([o \in ids |-> orders[o].amount])
Spend(a) == SpendOver(StandingOrders(a))

\* campaign_for_account: the campaign of highest priority, then of largest discount,
\* among those the account's standing orders earn.
Earned(a) == {c \in Campaigns : /\ c.minOrders <= Cardinality(StandingOrders(a))
                                /\ c.minSpend <= Spend(a)}
RanksFirst(c, d) ==
    \/ c.priority > d.priority
    \/ c.priority = d.priority /\ c.discount >= d.discount
Chosen(a) == {c \in Earned(a) : \A d \in Earned(a) : RanksFirst(c, d)}

Entitlement(a) == IF Chosen(a) = {} THEN 0 ELSE (CHOOSE c \in Chosen(a) : TRUE).discount

\* The least a purchase may settle for below its list total.
MinimumAllowed(c) ==
    LET funded == c.base - (c.base * Entitlement(c.account)) \div 100
        cost == Cost[c.product] * c.qty
    IN  IF cost > funded THEN cost ELSE funded

\* The discount bound (mutated: the entitlement is not floored at cost).
DiscountIgnoringCost(c) ==
    c.final < c.base => c.final >= c.base - (c.base * Entitlement(c.account)) \div 100
DiscountIsFunded(c) == c.final < c.base => c.final >= MinimumAllowed(c)

AmountsAreReal(c) == c.qty > 0 /\ c.base > 0 /\ c.final > 0

-----------------------------------------------------------------------------
Init ==
    /\ balance = [a \in Accounts |-> 0]
    /\ stock = OpeningStock
    /\ orders = [o \in OrderIds |-> None]
    /\ ledger = <<>>
    /\ revenue = [o \in OrderIds |-> None]
    /\ reversals = [o \in OrderIds |-> None]
    /\ lapsed = {}

\* Appends the row and moves the balance to the figure the row records (mutated:
\* the row records the balance it started from).
PostBalanceBefore(k, a, o, entry, amount, after) ==
    /\ Len(ledger) < MaxRows
    /\ balance' = [balance EXCEPT ![a] = after]
    /\ ledger' = Append(ledger, [key |-> k, account |-> a, order |-> o, entry |-> entry,
                                 amount |-> amount, after |-> balance[a]])
Post(k, a, o, entry, amount, after) ==
    /\ Len(ledger) < MaxRows
    /\ balance' = [balance EXCEPT ![a] = after]
    /\ ledger' = Append(ledger, [key |-> k, account |-> a, order |-> o, entry |-> entry,
                                 amount |-> amount, after |-> after])

CreditWalletTopup(c) ==
    /\ c.amount > 0
    /\ KeyIsFree(c.key)
    /\ Post(c.key, c.account, None, "topup", c.amount, balance[c.account] + c.amount)
    /\ UNCHANGED <<stock, orders, revenue, reversals, lapsed>>

\* The checks of fulfill_wallet_order, each of which refuses on its own (mutated:
\* the wallet balance is not one of them).
FulfillableUnfunded(c) ==
    /\ AmountsAreReal(c)
    /\ KeyIsFree(c.key)
    /\ DiscountIsFunded(c)
    /\ stock[c.product] >= c.qty
Fulfillable(c) ==
    /\ AmountsAreReal(c)
    /\ KeyIsFree(c.key)
    /\ balance[c.account] >= c.final
    /\ DiscountIsFunded(c)
    /\ stock[c.product] >= c.qty

\* What a purchase writes once it has read the balance `before`.
RecordSale(c, o, before) ==
    /\ orders[o] = None
    /\ orders' = [orders EXCEPT ![o] =
            [account |-> c.account, product |-> c.product, qty |-> c.qty,
             amount |-> c.final, status |-> "fulfilled_via_wallet"]]
    /\ Post(c.key, c.account, o, "purchase_debit", c.final, before - c.final)
    /\ stock' = [stock EXCEPT ![c.product] = @ - c.qty]
    /\ revenue' = [revenue EXCEPT ![o] = [base |-> c.base, final |-> c.final]]
    /\ UNCHANGED <<reversals, lapsed>>

FulfillWalletOrder(c, o) == Fulfillable(c) /\ RecordSale(c, o, balance[c.account])

\* The time a refund is judged by is the start of its transaction, which may lie
\* before a window that has lapsed since: `seen` is the set that had lapsed then
\* (mutated: a refunded order is refundable again).
RefundableWhateverStatus(a, o, k, seen) ==
    /\ orders[o] # None /\ orders[o].account = a
    /\ KeyIsFree(k)
    /\ o \notin seen
Refundable(a, o, k, seen) ==
    /\ orders[o] # None /\ orders[o].account = a
    /\ KeyIsFree(k)
    /\ orders[o].status = "fulfilled_via_wallet"
    /\ o \notin seen

\* A cancellation credits the wallet, restocks, and leaves the reversal it owes
\* unless one is owed already (mutated: the goods stay sold).
OweReversal(a, o, k) ==
    reversals' = IF reversals[o] = None
                 THEN [reversals EXCEPT ![o] = [account |-> a, amount |-> orders[o].amount,
                                                key |-> k, settled |-> FALSE]]
                 ELSE reversals
RecordCancellationWithoutRestock(a, o, k, before) ==
    /\ Post(k, a, o, "purchase_refund", orders[o].amount, before + orders[o].amount)
    /\ orders' = [orders EXCEPT ![o].status = "refunded_via_wallet"]
    /\ OweReversal(a, o, k)
    /\ UNCHANGED <<stock, revenue, lapsed>>
RecordCancellation(a, o, k, before) ==
    /\ Post(k, a, o, "purchase_refund", orders[o].amount, before + orders[o].amount)
    /\ orders' = [orders EXCEPT ![o].status = "refunded_via_wallet"]
    /\ stock' = [stock EXCEPT ![orders[o].product] = @ + orders[o].qty]
    /\ OweReversal(a, o, k)
    /\ UNCHANGED <<revenue, lapsed>>

RefundWalletOrder(a, o, k, seen) ==
    Refundable(a, o, k, seen) /\ RecordCancellation(a, o, k, balance[a])

\* Time passes the end of an order's refund window.
WindowLapses(o) ==
    /\ orders[o] # None
    /\ o \notin lapsed
    /\ lapsed' = lapsed \cup {o}
    /\ UNCHANGED <<balance, stock, orders, ledger, revenue, reversals>>

\* The buyer service marks a recorded reversal as no longer owed.
SettleReversal(o) ==
    /\ reversals[o] # None
    /\ ~reversals[o].settled
    /\ reversals' = [reversals EXCEPT ![o].settled = TRUE]
    /\ UNCHANGED <<balance, stock, orders, ledger, revenue, lapsed>>

Next ==
    \/ \E c \in TopUps : CreditWalletTopup(c)
    \/ \E c \in Purchases, o \in OrderIds : FulfillWalletOrder(c, o)
    \/ \E a \in Accounts, o \in OrderIds, k \in Keys, seen \in SUBSET lapsed :
            RefundWalletOrder(a, o, k, seen)
    \/ \E o \in OrderIds : WindowLapses(o) \/ SettleReversal(o)

Spec == Init /\ [][Next]_vars

-----------------------------------------------------------------------------
\* The shape of every table, with the checks the schema puts on it: no balance
\* and no stock below zero, every amount positive.
TypeOK ==
    /\ balance \in [Accounts -> Nat]
    /\ stock \in [Products -> Nat]
    /\ orders \in [OrderIds -> OrderRow \cup {None}]
    /\ ledger \in Seq(LedgerRow)
    /\ revenue \in [OrderIds -> RevenueRow \cup {None}]
    /\ reversals \in [OrderIds -> ReversalRow \cup {None}]
    /\ lapsed \subseteq OrderIds

\* No key is spent twice, whichever of the three functions it was given to.
KeysSpentOnce ==
    \A i, j \in DOMAIN ledger : ledger[i].key = ledger[j].key => i = j

Signed(r) == IF r.entry = "purchase_debit" THEN -r.amount ELSE r.amount
Latest(a, i) == \A j \in DOMAIN ledger : j > i => ledger[j].account # a

FirstOf(i) == \A j \in 1..(i - 1) : ledger[j].account # ledger[i].account
Follows(i, j) ==
    /\ ledger[i].account = ledger[j].account
    /\ \A m \in (i + 1)..(j - 1) : ledger[m].account # ledger[j].account

BalanceIsLastRow ==
    \A a \in Accounts :
        \/ balance[a] = 0 /\ \A i \in DOMAIN ledger : ledger[i].account # a
        \/ \E i \in DOMAIN ledger :
                ledger[i].account = a /\ Latest(a, i) /\ balance[a] = ledger[i].after

RunningBalance ==
    \A j \in DOMAIN ledger :
        \/ FirstOf(j) /\ ledger[j].after = Signed(ledger[j])
        \/ \E i \in 1..(j - 1) :
                Follows(i, j) /\ ledger[j].after = ledger[i].after + Signed(ledger[j])

\* The ledger explains every balance: each row's balance is the account's previous
\* row's moved by exactly the row's amount, and the balance column is the last of
\* them.  No update of a balance by the three functions is lost or unrecorded.
LedgerExplainsBalance == BalanceIsLastRow /\ RunningBalance

RowsOf(o, entry) == {i \in DOMAIN ledger : ledger[i].order = o /\ ledger[i].entry = entry}
Records(i, o) == ledger[i].account = orders[o].account /\ ledger[i].amount = orders[o].amount

Untouched(o) ==
    /\ \A entry \in Entries : RowsOf(o, entry) = {}
    /\ reversals[o] = None
Debited(o) ==
    /\ \E d \in DOMAIN ledger : RowsOf(o, "purchase_debit") = {d} /\ Records(d, o)
    /\ RowsOf(o, "topup") = {}
Kept(o) == RowsOf(o, "purchase_refund") = {} /\ reversals[o] = None
Returned(o) ==
    \E r \in DOMAIN ledger :
        /\ RowsOf(o, "purchase_refund") = {r} /\ Records(r, o)
        /\ reversals[o] # None
        /\ reversals[o].key = ledger[r].key
        /\ reversals[o].amount = ledger[r].amount

\* An order is debited exactly once, from the account it belongs to and for the
\* amount it carries, and credited back at most once, for that same amount, exactly
\* when it stands refunded; the reversal owed for it is that credit's.
OrderMoneyTrail ==
    \A o \in OrderIds :
        /\ orders[o] = None => Untouched(o)
        /\ orders[o] # None =>
             /\ Debited(o)
             /\ orders[o].status = "fulfilled_via_wallet" => Kept(o)
             /\ orders[o].status = "refunded_via_wallet" => Returned(o)

\* No recorded sale is below its list total and below cost at once, and its
\* revenue row names the amount the order was debited.
NoSaleBelowCost ==
    \A o \in OrderIds : orders[o] # None =>
        /\ revenue[o] # None
        /\ revenue[o].final = orders[o].amount
        /\ revenue[o].final < revenue[o].base =>
                revenue[o].final >= Cost[orders[o].product] * orders[o].qty

Standing(p) == {o \in OrderIds : orders[o] # None /\ orders[o].status = "fulfilled_via_wallet"
                                                  /\ orders[o].product = p}

\* Stock missing from a shelf is stock a standing order took.
StockConserved ==
    \A p \in Products :
        OpeningStock[p] = stock[p] + SumFunction([o \in Standing(p) |-> orders[o].qty])

RefundedIn(o) == RowsOf(o, "purchase_refund") # {}
Unrefunded(a) ==
    {o \in OrderIds : orders[o] # None /\ orders[o].account = a /\ ~RefundedIn(o)}

SaleIsFunded(o) ==
    (orders[o] = None /\ orders'[o] # None /\ revenue'[o].final < revenue'[o].base) =>
        \E c \in Campaigns :
            LET history == Unrefunded(orders'[o].account)
            IN  /\ c.minOrders <= Cardinality(history)
                /\ c.minSpend <= SpendOver(history)
                /\ revenue'[o].final * 100 >= revenue'[o].base * (100 - c.discount)

\* A sale below its list total is within what some campaign gives the history the
\* ledger shows just before it: an order bought and cancelled never pays for a
\* discount, however the calls of fulfill_wallet_order and refund_wallet_order fall.
FundedByStandingOrders == [][\A o \in OrderIds : SaleIsFunded(o)]_vars
=============================================================================
