------------------------------ MODULE WalletTx ------------------------------
(***************************************************************************)
(* The three wallet functions as Postgres runs them: READ COMMITTED         *)
(* transactions that stop at every lock they may wait for, a row lock taken *)
(* by SELECT ... FOR UPDATE, an advisory lock, or the unique index entry    *)
(* another uncommitted transaction has inserted.  What a statement read is  *)
(* held in a local variable and used after later waits.  A connection may   *)
(* drop at any step, which rolls the transaction back, or after the commit, *)
(* which loses the answer only; a caller's retry is another session with    *)
(* the same key.                                                            *)
(*                                                                          *)
(* This module implements WalletLedger: LedgerSpec says that whatever the   *)
(* interleaving, the tables move as if every call had run alone.            *)
(***************************************************************************)
EXTENDS WalletLedger

CONSTANTS
    Sessions,   \* database sessions, one call each
    Request     \* Request[s]: the call session s makes

\* `order` is the uuid a purchase's row will be given, or the order to cancel.
Kinds == {"topup", "purchase", "refund"}
TopUpOf(s) ==
    [account |-> Request[s].account, amount |-> Request[s].final, key |-> Request[s].key]
PurchaseOf(s) ==
    [account |-> Request[s].account, product |-> Request[s].product, qty |-> Request[s].qty,
     base |-> Request[s].base, final |-> Request[s].final, key |-> Request[s].key]

\* (A call for nothing, or for less, is refused before it takes a lock and left out.)
ASSUME SessionAssumption ==
    \A s \in Sessions :
        /\ Request[s].kind \in Kinds
        /\ Request[s].kind = "topup" => TopUpOf(s) \in TopUps /\ TopUpOf(s).amount > 0
        /\ Request[s].kind = "purchase" =>
                /\ PurchaseOf(s) \in Purchases /\ AmountsAreReal(PurchaseOf(s))
                /\ Request[s].order \in OrderIds
        /\ Request[s].kind = "refund" =>
                /\ Request[s].account \in Accounts /\ Request[s].key \in Keys
                /\ Request[s].order \in OrderIds

VARIABLES
    at,     \* the statement each session runs next
    holds,  \* the locks each session holds until its transaction ends
    read,   \* account_row.wallet_balance_paise as each session read it
    began,  \* the windows that had lapsed when each session's transaction began
    reply   \* what the caller was told, "" before it was told anything

txVars == <<at, holds, read, began, reply>>
allVars == <<vars, txVars>>

\* The statements of each function that may wait or decide, in their order; the
\* last one also writes and commits (mutated: a purchase locks its product first).
RouteProductFirst(kind) ==
    CASE kind = "topup"    -> <<"begin", "key", "account", "entry">>
      [] kind = "purchase" -> <<"begin", "advisory", "key", "product", "account", "entry">>
      [] kind = "refund"   -> <<"begin", "key", "order", "account", "entry", "product">>
Route(kind) ==
    CASE kind = "topup"    -> <<"begin", "key", "account", "entry">>
      [] kind = "purchase" -> <<"begin", "advisory", "key", "account", "product", "entry">>
      [] kind = "refund"   -> <<"begin", "key", "order", "account", "entry", "product">>

Kind(s) == Request[s].kind
Doing(s, step) == reply[s] = "" /\ Route(Kind(s))[at[s]] = step

Advisory(s) == <<"advisory", Request[s].key>>
Entry(s) == <<"entry", Request[s].key>>
OrderLock(s) == <<"order", Request[s].order>>
AccountLock(s) == <<"account", Request[s].account>>
ProductLock(s) ==
    <<"product", IF Kind(s) = "refund" THEN orders[Request[s].order].product
                                       ELSE Request[s].product>>

\* A lock another transaction holds is waited for (mutated: it is not).
NeverWaits(s, lock) == lock \notin holds[s]
Free(s, lock) == \A t \in Sessions : lock \notin holds[t]

\* The transaction ends with an answer, "unanswered" when the connection is lost
\* first, and lets go of everything (mutated: the advisory lock is the session's, as
\* pg_advisory_lock would make it, and outlives the transaction).
AnswerKeepingAdvisory(s, answer) ==
    /\ reply' = [reply EXCEPT ![s] = answer]
    /\ holds' = [holds EXCEPT ![s] = @ \cap {Advisory(s)}]
    /\ UNCHANGED <<at, read, began>>
Answer(s, answer) ==
    /\ reply' = [reply EXCEPT ![s] = answer]
    /\ holds' = [holds EXCEPT ![s] = {}]
    /\ UNCHANGED <<at, read, began>>

Commit(s) == \E answer \in {"approved", "unanswered"} : Answer(s, answer)

\* On to the next statement, with the locks this one took.
GoOn(s, locks) ==
    /\ at' = [at EXCEPT ![s] = @ + 1]
    /\ holds' = [holds EXCEPT ![s] = @ \cup locks]
    /\ UNCHANGED reply

TxInit ==
    /\ Init
    /\ at = [s \in Sessions |-> 1]
    /\ holds = [s \in Sessions |-> {}]
    /\ read = [s \in Sessions |-> 0]
    /\ began = [s \in Sessions |-> {}]
    /\ reply = [s \in Sessions |-> ""]

-----------------------------------------------------------------------------
\* now() is fixed here for the whole transaction.
Begin(s) ==
    /\ Doing(s, "begin")
    /\ began' = [began EXCEPT ![s] = lapsed]
    /\ GoOn(s, {})
    /\ UNCHANGED <<vars, read>>

\* pg_advisory_xact_lock over the key (mutated: the function takes none).
NoAdvisoryLock(s) ==
    /\ Doing(s, "advisory")
    /\ GoOn(s, {})
    /\ UNCHANGED <<vars, read, began>>
TakeAdvisoryLock(s) ==
    /\ Doing(s, "advisory")
    /\ Free(s, Advisory(s))
    /\ GoOn(s, {Advisory(s)})
    /\ UNCHANGED <<vars, read, began>>

\* A purchase looks its key up by the order it paid, the other two by any row.
KeyIsKnown(s) ==
    \E i \in DOMAIN ledger :
        /\ ledger[i].key = Request[s].key
        /\ Kind(s) = "purchase" => ledger[i].order # None

LookUpKey(s) ==
    /\ Doing(s, "key")
    /\ IF KeyIsKnown(s) THEN Answer(s, "duplicate") ELSE GoOn(s, {}) /\ UNCHANGED <<read, began>>
    /\ UNCHANGED vars

\* The order row is waited for only if it is there and is the caller's.
LockOrder(s) ==
    LET o == Request[s].order
        found == orders[o] # None /\ orders[o].account = Request[s].account
    IN  /\ Doing(s, "order")
        /\ found => Free(s, OrderLock(s))
        /\ IF found /\ orders[o].status = "fulfilled_via_wallet" /\ o \notin began[s]
           THEN GoOn(s, {OrderLock(s)}) /\ UNCHANGED <<read, began>>
           ELSE Answer(s, "refused")
        /\ UNCHANGED vars

LockAccount(s) ==
    LET funds == balance[Request[s].account]
    IN  /\ Doing(s, "account")
        /\ Free(s, AccountLock(s))
        /\ IF Kind(s) = "purchase" /\ funds < Request[s].final
           THEN Answer(s, "refused")
           ELSE /\ GoOn(s, {AccountLock(s)})
                /\ read' = [read EXCEPT ![s] = funds]
                /\ UNCHANGED began
        /\ UNCHANGED vars

\* A purchase locks the product, and judges discount and stock.
LockProduct(s) ==
    /\ Kind(s) = "purchase" /\ Doing(s, "product")
    /\ Free(s, ProductLock(s))
    /\ IF DiscountIsFunded(PurchaseOf(s)) /\ stock[Request[s].product] >= Request[s].qty
       THEN GoOn(s, {ProductLock(s)}) /\ UNCHANGED <<read, began>>
       ELSE Answer(s, "refused")
    /\ UNCHANGED vars

\* The insert into wallet_ledger waits for an uncommitted row with its key, and
\* fails on a committed one, which aborts the transaction.
InsertEntry(s) ==
    /\ Doing(s, "entry")
    /\ Free(s, Entry(s))
    /\ IF ~KeyIsFree(Request[s].key)
       THEN Answer(s, "violation") /\ UNCHANGED vars
       ELSE CASE Kind(s) = "topup" ->
                    /\ Post(Request[s].key, Request[s].account, None, "topup",
                            Request[s].final, read[s] + Request[s].final)
                    /\ UNCHANGED <<stock, orders, revenue, reversals, lapsed>>
                    /\ Commit(s)
              [] Kind(s) = "purchase" ->
                    RecordSale(PurchaseOf(s), Request[s].order, read[s]) /\ Commit(s)
              [] Kind(s) = "refund" ->
                    GoOn(s, {Entry(s)}) /\ UNCHANGED <<vars, read, began>>

\* A refund's update of the product is the last lock it waits for.
Restock(s) ==
    /\ Kind(s) = "refund" /\ Doing(s, "product")
    /\ Free(s, ProductLock(s))
    /\ RecordCancellation(Request[s].account, Request[s].order, Request[s].key, read[s])
    /\ Commit(s)

\* The connection drops and the transaction rolls back.
Drop(s) ==
    /\ reply[s] = "" /\ at[s] > 1
    /\ Answer(s, "unanswered")
    /\ UNCHANGED vars

Step(s) ==
    \/ Begin(s) \/ TakeAdvisoryLock(s) \/ LookUpKey(s) \/ LockOrder(s)
    \/ LockAccount(s) \/ LockProduct(s) \/ InsertEntry(s) \/ Restock(s)

\* Every caller has its answer or gave up: nothing is left to run.
AllAnswered == (\A s \in Sessions : reply[s] # "") /\ UNCHANGED allVars

TxNext ==
    \/ \E s \in Sessions : Step(s) \/ Drop(s)
    \/ \E o \in OrderIds : WindowLapses(o) /\ UNCHANGED txVars
    \/ AllAnswered

\* Fair to every session: Postgres grants a lock that stays free to its waiters.
TxSpec == TxInit /\ [][TxNext]_allVars /\ \A s \in Sessions : WF_allVars(Step(s))

-----------------------------------------------------------------------------
TxTypeOK ==
    /\ TypeOK
    /\ at \in [Sessions -> Nat] /\ read \in [Sessions -> Nat]
    /\ DOMAIN holds = Sessions /\ DOMAIN began = Sessions
    /\ reply \in [Sessions -> {"", "approved", "duplicate", "refused", "violation", "unanswered"}]
    /\ \A s \in Sessions :
        /\ at[s] \in DOMAIN Route(Kind(s))
        /\ began[s] \subseteq lapsed
        /\ reply[s] # "" => holds[s] = {}

\* Whatever the interleaving, the tables move as if each call had run alone: no
\* update of a balance or of stock is lost, and nothing read before a wait (the
\* balance, the campaign history, the stock, the order's status) is stale when the
\* transaction writes.
Ledger == INSTANCE WalletLedger
    WITH balance <- balance, stock <- stock, orders <- orders, ledger <- ledger,
         revenue <- revenue, reversals <- reversals, lapsed <- lapsed
LedgerSpec == Ledger!Spec

\* A purchase retried because its answer was lost is never refused, nor failed by
\* the unique index, once the first try has been paid: it is told "duplicate".
PaidUnder(k) == \E i \in DOMAIN ledger : ledger[i].key = k /\ ledger[i].entry = "purchase_debit"
RetryIsRecognised ==
    [][\A s \in Sessions :
          (Kind(s) = "purchase" /\ reply[s] = "" /\ reply'[s] \in {"refused", "violation"})
            => ~PaidUnder(Request[s].key)]_allVars

\* No lock is waited for for ever: every call ends.
EveryCallEnds == <>(\A s \in Sessions : reply[s] # "")
=============================================================================
