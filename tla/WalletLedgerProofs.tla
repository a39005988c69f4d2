------------------------- MODULE WalletLedgerProofs -------------------------
(***************************************************************************)
(* What holds of the wallet functions for every shop, whatever its buyers,  *)
(* goods, campaigns and calls are: the shape of the tables, the account the *)
(* ledger gives of every balance and every order, and the account the       *)
(* orders give of every shelf.                                              *)
(***************************************************************************)
EXTENDS WalletLedger, FiniteSetTheorems, TLAPS

-----------------------------------------------------------------------------
\* Appending a row keeps the rows before it where they were.
LEMMA LedgerAppend ==
    ASSUME ledger \in Seq(LedgerRow), NEW r \in LedgerRow, ledger' = Append(ledger, r)
    PROVE  /\ ledger' \in Seq(LedgerRow)
           /\ Len(ledger) \in Nat
           /\ DOMAIN ledger = 1..Len(ledger)
           /\ DOMAIN ledger' = 1..(Len(ledger) + 1)
           /\ \A i \in DOMAIN ledger : ledger'[i] = ledger[i]
           /\ ledger'[Len(ledger) + 1] = r
    OBVIOUS

\* What every posting does, from the facts its caller knows of it.
LEMMA PostShape ==
    ASSUME TypeOK, NEW k \in Keys, NEW a \in Accounts, NEW o \in OrderIds \cup {None},
           NEW entry \in Entries, NEW amount \in Nat \ {0}, NEW after \in Nat,
           Post(k, a, o, entry, amount, after)
    PROVE  LET n == Len(ledger) + 1
           IN  /\ balance' = [balance EXCEPT ![a] = after]
               /\ balance' \in [Accounts -> Nat]
               /\ ledger' \in Seq(LedgerRow)
               /\ n \in Nat \ {0}
               /\ DOMAIN ledger = 1..(n - 1)
               /\ DOMAIN ledger' = 1..n
               /\ \A i \in DOMAIN ledger : ledger'[i] = ledger[i]
               /\ ledger'[n] = [key |-> k, account |-> a, order |-> o, entry |-> entry,
                                amount |-> amount, after |-> after]
<1> DEFINE r == [key |-> k, account |-> a, order |-> o, entry |-> entry,
                 amount |-> amount, after |-> after]
<1>1. r \in LedgerRow
  BY DEF LedgerRow
<1>2. ledger' = Append(ledger, r) /\ balance' = [balance EXCEPT ![a] = after]
  BY DEF Post
<1>3. ledger \in Seq(LedgerRow) /\ balance \in [Accounts -> Nat]
  BY DEF TypeOK
<1> HIDE DEF r
<1>4. /\ ledger' \in Seq(LedgerRow)
      /\ Len(ledger) \in Nat
      /\ DOMAIN ledger = 1..Len(ledger)
      /\ DOMAIN ledger' = 1..(Len(ledger) + 1)
      /\ \A i \in DOMAIN ledger : ledger'[i] = ledger[i]
      /\ ledger'[Len(ledger) + 1] = r
  BY <1>1, <1>2, <1>3, LedgerAppend
<1>5. balance' \in [Accounts -> Nat]
  BY <1>2, <1>3
<1> QED
  BY <1>2, <1>4, <1>5 DEF r

-----------------------------------------------------------------------------
\* The three calls, as the posting each one makes and what its caller may assume.
LEMMA TopUpPosts ==
    ASSUME TypeOK, NEW c \in TopUps, CreditWalletTopup(c)
    PROVE  /\ c.account \in Accounts /\ c.key \in Keys /\ c.amount \in Nat \ {0}
           /\ KeyIsFree(c.key)
           /\ balance[c.account] + c.amount \in Nat
           /\ Post(c.key, c.account, None, "topup", c.amount, balance[c.account] + c.amount)
           /\ UNCHANGED <<stock, orders, revenue, reversals, lapsed>>
<1>1. c \in TopUpCall
  BY WalletAssumption
<1>2. c.account \in Accounts /\ c.key \in Keys /\ c.amount \in Int
  BY <1>1 DEF TopUpCall
<1> QED
  BY <1>2 DEF CreditWalletTopup, TypeOK

\* A purchase debits the account for the order it makes.
LEMMA PurchasePosts ==
    ASSUME TypeOK, NEW c \in PurchaseCall, NEW o \in OrderIds, FulfillWalletOrder(c, o)
    PROVE  /\ c.account \in Accounts /\ c.product \in Products /\ c.key \in Keys
           /\ c.qty \in Nat \ {0} /\ c.base \in Nat \ {0} /\ c.final \in Nat \ {0}
           /\ KeyIsFree(c.key)
           /\ stock[c.product] >= c.qty
           /\ balance[c.account] - c.final \in Nat
           /\ orders[o] = None
           /\ orders' = [orders EXCEPT ![o] =
                [account |-> c.account, product |-> c.product, qty |-> c.qty,
                 amount |-> c.final, status |-> "fulfilled_via_wallet"]]
           /\ Post(c.key, c.account, o, "purchase_debit", c.final,
                   balance[c.account] - c.final)
           /\ stock' = [stock EXCEPT ![c.product] = @ - c.qty]
           /\ revenue' = [revenue EXCEPT ![o] = [base |-> c.base, final |-> c.final]]
           /\ UNCHANGED <<reversals, lapsed>>
<1>1. /\ c.account \in Accounts /\ c.product \in Products /\ c.key \in Keys
      /\ c.qty \in Int /\ c.base \in Int /\ c.final \in Int
  BY DEF PurchaseCall
<1>2. Fulfillable(c) /\ RecordSale(c, o, balance[c.account])
  BY DEF FulfillWalletOrder
<1>3. balance[c.account] \in Nat
  BY <1>1 DEF TypeOK
<1> QED
  BY <1>1, <1>2, <1>3 DEF Fulfillable, AmountsAreReal, RecordSale

\* A refund credits the account with what the order was debited.
LEMMA RefundPosts ==
    ASSUME TypeOK, NEW a \in Accounts, NEW o \in OrderIds, NEW k \in Keys,
           NEW seen \in SUBSET lapsed, RefundWalletOrder(a, o, k, seen)
    PROVE  /\ orders[o] \in OrderRow
           /\ orders[o].account = a
           /\ orders[o].status = "fulfilled_via_wallet"
           /\ orders[o].product \in Products /\ orders[o].qty \in Nat \ {0}
           /\ orders[o].amount \in Nat \ {0}
           /\ KeyIsFree(k)
           /\ balance[a] + orders[o].amount \in Nat
           /\ Post(k, a, o, "purchase_refund", orders[o].amount,
                   balance[a] + orders[o].amount)
           /\ orders' = [orders EXCEPT ![o].status = "refunded_via_wallet"]
           /\ stock' = [stock EXCEPT ![orders[o].product] = @ + orders[o].qty]
           /\ OweReversal(a, o, k)
           /\ UNCHANGED <<revenue, lapsed>>
<1>1. Refundable(a, o, k, seen) /\ RecordCancellation(a, o, k, balance[a])
  BY DEF RefundWalletOrder
<1>2. orders[o] \in OrderRow
  BY <1>1 DEF Refundable, TypeOK
<1>3. balance[a] \in Nat
  BY DEF TypeOK
<1> QED
  BY <1>1, <1>2, <1>3 DEF Refundable, RecordCancellation, OrderRow

\* A cancelled order keeps everything but its status.
LEMMA CancelledOrder ==
    ASSUME TypeOK, NEW o \in OrderIds, orders[o] \in OrderRow,
           orders' = [orders EXCEPT ![o].status = "refunded_via_wallet"]
    PROVE  /\ orders' \in [OrderIds -> OrderRow \cup {None}]
           /\ orders'[o] \in OrderRow
           /\ orders'[o].status = "refunded_via_wallet"
           /\ orders'[o].account = orders[o].account
           /\ orders'[o].amount = orders[o].amount
           /\ orders'[o].product = orders[o].product
           /\ orders'[o].qty = orders[o].qty
           /\ \A p \in OrderIds \ {o} : orders'[p] = orders[p]
<1> DEFINE row == [orders[o] EXCEPT !.status = "refunded_via_wallet"]
<1>1. orders \in [OrderIds -> OrderRow \cup {None}]
  BY DEF TypeOK
<1>2. /\ row \in OrderRow /\ row.status = "refunded_via_wallet"
      /\ row.account = orders[o].account /\ row.amount = orders[o].amount
      /\ row.product = orders[o].product /\ row.qty = orders[o].qty
  BY DEF OrderRow, Statuses
<1>3. orders' = [orders EXCEPT ![o] = row]
  OBVIOUS
<1> HIDE DEF row
<1> QED
  BY <1>1, <1>2, <1>3

\* No row of the orders table is null.
LEMMA RowsAreNotNone ==
    ASSUME TypeOK, NEW o \in OrderIds, orders[o] # None
    PROVE  orders[o] \in OrderRow
    BY DEF TypeOK

-----------------------------------------------------------------------------
\* A step of the tables, whichever purchases its callers make.
AnyCall ==
    \/ \E c \in TopUps : CreditWalletTopup(c)
    \/ \E c \in PurchaseCall, o \in OrderIds : FulfillWalletOrder(c, o)
    \/ \E a \in Accounts, o \in OrderIds, k \in Keys, seen \in SUBSET lapsed :
            RefundWalletOrder(a, o, k, seen)
    \/ \E o \in OrderIds : WindowLapses(o) \/ SettleReversal(o)

\* The calls of a model are among them.
LEMMA NextIsAnyCall == [Next]_vars => [AnyCall]_vars
<1>1. Purchases \subseteq PurchaseCall
  BY WalletAssumption
<1> QED
  BY <1>1 DEF Next, AnyCall

\* No call takes the tables out of the shape their columns and checks give them.
LEMMA AnyCallKeepsTypes == TypeOK /\ [AnyCall]_vars => TypeOK'
<1> SUFFICES ASSUME TypeOK, [AnyCall]_vars PROVE TypeOK'
  OBVIOUS
<1>1. ASSUME NEW c \in TopUps, CreditWalletTopup(c) PROVE TypeOK'
  <2>1. /\ c.account \in Accounts /\ c.key \in Keys /\ c.amount \in Nat \ {0}
        /\ balance[c.account] + c.amount \in Nat
        /\ Post(c.key, c.account, None, "topup", c.amount, balance[c.account] + c.amount)
        /\ UNCHANGED <<stock, orders, revenue, reversals, lapsed>>
    BY <1>1, TopUpPosts
  <2>2. balance' \in [Accounts -> Nat] /\ ledger' \in Seq(LedgerRow)
    <3>1. None \in OrderIds \cup {None} /\ "topup" \in Entries
      BY DEF Entries
    <3> QED
      BY <2>1, <3>1, PostShape
  <2> QED
    BY <2>1, <2>2 DEF TypeOK
<1>2. ASSUME NEW c \in PurchaseCall, NEW o \in OrderIds, FulfillWalletOrder(c, o)
      PROVE  TypeOK'
  <2>1. /\ c.account \in Accounts /\ c.product \in Products /\ c.key \in Keys
        /\ c.qty \in Nat \ {0} /\ c.base \in Nat \ {0} /\ c.final \in Nat \ {0}
        /\ stock[c.product] >= c.qty
        /\ balance[c.account] - c.final \in Nat
        /\ orders' = [orders EXCEPT ![o] =
                [account |-> c.account, product |-> c.product, qty |-> c.qty,
                 amount |-> c.final, status |-> "fulfilled_via_wallet"]]
        /\ Post(c.key, c.account, o, "purchase_debit", c.final,
                   balance[c.account] - c.final)
        /\ stock' = [stock EXCEPT ![c.product] = @ - c.qty]
        /\ revenue' = [revenue EXCEPT ![o] = [base |-> c.base, final |-> c.final]]
        /\ UNCHANGED <<reversals, lapsed>>
    BY <1>2, PurchasePosts
  <2>2. balance' \in [Accounts -> Nat] /\ ledger' \in Seq(LedgerRow)
    <3>1. o \in OrderIds \cup {None} /\ "purchase_debit" \in Entries
      BY DEF Entries
    <3> QED
      BY <2>1, <3>1, PostShape
  <2>3. stock' \in [Products -> Nat]
    <3>1. stock \in [Products -> Nat] /\ stock[c.product] - c.qty \in Nat
      BY <2>1 DEF TypeOK
    <3> QED
      BY <2>1, <3>1
  <2>4. orders' \in [OrderIds -> OrderRow \cup {None}]
    <3>1. [account |-> c.account, product |-> c.product, qty |-> c.qty,
           amount |-> c.final, status |-> "fulfilled_via_wallet"] \in OrderRow
      BY <2>1 DEF OrderRow, Statuses
    <3> QED
      BY <2>1, <3>1 DEF TypeOK
  <2>5. revenue' \in [OrderIds -> RevenueRow \cup {None}]
    <3>1. [base |-> c.base, final |-> c.final] \in RevenueRow
      BY <2>1 DEF RevenueRow
    <3> QED
      BY <2>1, <3>1 DEF TypeOK
  <2> QED
    BY <2>1, <2>2, <2>3, <2>4, <2>5 DEF TypeOK
<1>3. ASSUME NEW a \in Accounts, NEW o \in OrderIds, NEW k \in Keys,
             NEW seen \in SUBSET lapsed, RefundWalletOrder(a, o, k, seen)
      PROVE  TypeOK'
  <2>1. /\ orders[o] \in OrderRow
        /\ orders[o].account = a
        /\ orders[o].product \in Products /\ orders[o].qty \in Nat \ {0}
        /\ orders[o].amount \in Nat \ {0}
        /\ balance[a] + orders[o].amount \in Nat
        /\ Post(k, a, o, "purchase_refund", orders[o].amount, balance[a] + orders[o].amount)
        /\ orders' = [orders EXCEPT ![o].status = "refunded_via_wallet"]
        /\ stock' = [stock EXCEPT ![orders[o].product] = @ + orders[o].qty]
        /\ OweReversal(a, o, k)
        /\ UNCHANGED <<revenue, lapsed>>
    BY <1>3, RefundPosts
  <2>2. balance' \in [Accounts -> Nat] /\ ledger' \in Seq(LedgerRow)
    <3>1. o \in OrderIds \cup {None} /\ "purchase_refund" \in Entries
      BY DEF Entries
    <3> QED
      BY <2>1, <3>1, PostShape
  <2>3. stock' \in [Products -> Nat]
    <3>1. stock \in [Products -> Nat] /\ stock[orders[o].product] + orders[o].qty \in Nat
      BY <2>1 DEF TypeOK
    <3> QED
      BY <2>1, <3>1
  <2>4. orders' \in [OrderIds -> OrderRow \cup {None}]
    BY <2>1, CancelledOrder
  <2>5. reversals' \in [OrderIds -> ReversalRow \cup {None}]
    <3>1. [account |-> a, amount |-> orders[o].amount, key |-> k, settled |-> FALSE]
            \in ReversalRow
      BY <2>1 DEF ReversalRow
    <3> QED
      BY <2>1, <3>1 DEF OweReversal, TypeOK
  <2> QED
    BY <2>1, <2>2, <2>3, <2>4, <2>5 DEF TypeOK
<1>4. ASSUME NEW o \in OrderIds, WindowLapses(o) PROVE TypeOK'
  BY <1>4 DEF WindowLapses, TypeOK
<1>5. ASSUME NEW o \in OrderIds, SettleReversal(o) PROVE TypeOK'
  <2>1. reversals[o] \in ReversalRow
    BY <1>5 DEF SettleReversal, TypeOK
  <2> DEFINE row == [reversals[o] EXCEPT !.settled = TRUE]
  <2>2. row \in ReversalRow
    BY <2>1 DEF ReversalRow
  <2>3. reversals' = [reversals EXCEPT ![o] = row]
    BY <1>5 DEF SettleReversal
  <2> HIDE DEF row
  <2>4. reversals' \in [OrderIds -> ReversalRow \cup {None}]
    BY <2>2, <2>3 DEF TypeOK
  <2> QED
    BY <1>5, <2>4 DEF SettleReversal, TypeOK
<1>6. CASE UNCHANGED vars
  BY <1>6 DEF vars, TypeOK
<1> QED
  BY <1>1, <1>2, <1>3, <1>4, <1>5, <1>6 DEF AnyCall

\* Nor do the calls of a model.
LEMMA TypeOKStep == TypeOK /\ [Next]_vars => TypeOK'
    BY NextIsAnyCall, AnyCallKeepsTypes

\* No balance and no stock goes below zero, no row has an amount of nothing, and
\* every table keeps its columns: the checks the schema declares are never needed.
THEOREM TypeCorrect == Spec => []TypeOK
<1>1. Init => TypeOK
  BY WalletAssumption DEF Init, TypeOK
<1> QED
  BY <1>1, TypeOKStep, PTL DEF Spec

-----------------------------------------------------------------------------
(***************************************************************************)
(* The inductive invariant.  KeysSpentOnce and NoSaleBelowCost are          *)
(* inductive beside TypeOK; the running balance needs the balance column to *)
(* be the last row, since a call reads the column and not the ledger; and   *)
(* an order's trail needs both its rows and its status.                     *)
(***************************************************************************)
IInv ==
    /\ TypeOK
    /\ KeysSpentOnce
    /\ LedgerExplainsBalance
    /\ OrderMoneyTrail
    /\ NoSaleBelowCost

\* A posting under a free key leaves every key spent once.
LEMMA KeysStep ==
    ASSUME TypeOK, KeysSpentOnce,
           NEW k \in Keys, NEW a \in Accounts, NEW o \in OrderIds \cup {None},
           NEW entry \in Entries, NEW amount \in Nat \ {0}, NEW after \in Nat,
           KeyIsFree(k), Post(k, a, o, entry, amount, after)
    PROVE  KeysSpentOnce'
<1> DEFINE n == Len(ledger) + 1
<1>1. /\ n \in Nat \ {0}
      /\ DOMAIN ledger = 1..(n - 1) /\ DOMAIN ledger' = 1..n
      /\ \A i \in DOMAIN ledger : ledger'[i] = ledger[i]
      /\ ledger'[n] = [key |-> k, account |-> a, order |-> o, entry |-> entry,
                      amount |-> amount, after |-> after]
  BY PostShape
<1>5. ledger'[n].key = k
  BY <1>1
<1> HIDE DEF n
<1> SUFFICES ASSUME NEW i \in 1..n, NEW j \in 1..n, ledger'[i].key = ledger'[j].key
             PROVE  i = j
  BY <1>1 DEF KeysSpentOnce
<1>2. CASE i = n /\ j = n
  BY <1>2
<1>3. CASE i # n /\ j # n
  BY <1>1, <1>3 DEF KeysSpentOnce
<1>4. CASE (i = n) # (j = n)
  BY <1>1, <1>4, <1>5 DEF KeyIsFree
<1> QED
  BY <1>2, <1>3, <1>4

\* A posting that moves the balance by its amount leaves every balance explained.
LEMMA BalanceStep ==
    ASSUME TypeOK, LedgerExplainsBalance,
           NEW k \in Keys, NEW a \in Accounts, NEW o \in OrderIds \cup {None},
           NEW entry \in Entries, NEW amount \in Nat \ {0}, NEW after \in Nat,
           after = balance[a] + (IF entry = "purchase_debit" THEN -amount ELSE amount),
           Post(k, a, o, entry, amount, after)
    PROVE  LedgerExplainsBalance'
<1> DEFINE n == Len(ledger) + 1
<1>1. /\ n \in Nat \ {0}
      /\ DOMAIN ledger = 1..(n - 1) /\ DOMAIN ledger' = 1..n
      /\ \A i \in DOMAIN ledger : ledger'[i] = ledger[i]
      /\ ledger'[n].account = a /\ ledger'[n].after = after
      /\ ledger'[n].entry = entry /\ ledger'[n].amount = amount
      /\ balance' = [balance EXCEPT ![a] = after]
  <2>1. /\ n \in Nat \ {0}
        /\ DOMAIN ledger = 1..(n - 1) /\ DOMAIN ledger' = 1..n
        /\ \A i \in DOMAIN ledger : ledger'[i] = ledger[i]
        /\ ledger'[n] = [key |-> k, account |-> a, order |-> o, entry |-> entry,
                         amount |-> amount, after |-> after]
        /\ balance' = [balance EXCEPT ![a] = after]
    BY PostShape
  <2> QED
    BY <2>1
<1>2. balance \in [Accounts -> Nat]
  BY DEF TypeOK
<1> HIDE DEF n
<1>3. BalanceIsLastRow /\ RunningBalance
  BY DEF LedgerExplainsBalance
<1>4. BalanceIsLastRow'
  <2> SUFFICES ASSUME NEW b \in Accounts
               PROVE  \/ balance'[b] = 0 /\ \A i \in DOMAIN ledger' : ledger'[i].account # b
                      \/ \E i \in DOMAIN ledger' :
                            /\ ledger'[i].account = b
                            /\ \A j \in DOMAIN ledger' : j > i => ledger'[j].account # b
                            /\ balance'[b] = ledger'[i].after
    BY DEF BalanceIsLastRow, Latest
  <2>1. CASE b = a
    <3>1. balance'[a] = after
      BY <1>1, <1>2
    <3>2. n \in DOMAIN ledger' /\ \A j \in DOMAIN ledger' : ~(j > n)
      BY <1>1
    <3> QED
      BY <1>1, <2>1, <3>1, <3>2
  <2>2. CASE b # a
    <3>1. balance'[b] = balance[b]
      BY <1>1, <1>2, <2>2
    <3>2. CASE balance[b] = 0 /\ \A i \in DOMAIN ledger : ledger[i].account # b
      <4>1. ASSUME NEW i \in DOMAIN ledger' PROVE ledger'[i].account # b
        BY <1>1, <2>2, <3>2, i = n \/ i \in DOMAIN ledger
      <4> QED
        BY <3>1, <3>2, <4>1
    <3>3. ASSUME NEW i \in DOMAIN ledger, ledger[i].account = b, Latest(b, i),
                 balance[b] = ledger[i].after
          PROVE  \E m \in DOMAIN ledger' :
                    /\ ledger'[m].account = b
                    /\ \A j \in DOMAIN ledger' : j > m => ledger'[j].account # b
                    /\ balance'[b] = ledger'[m].after
      <4>1. i \in DOMAIN ledger' /\ ledger'[i] = ledger[i]
        BY <1>1
      <4>2. ASSUME NEW j \in DOMAIN ledger', j > i PROVE ledger'[j].account # b
        BY <1>1, <2>2, <3>3, <4>2, j = n \/ j \in DOMAIN ledger DEF Latest
      <4> QED
        BY <3>1, <3>3, <4>1, <4>2
    <3> QED
      BY <1>3, <3>2, <3>3 DEF BalanceIsLastRow
  <2> QED
    BY <2>1, <2>2
<1>5. RunningBalance'
  <2> DEFINE SignedP(i) ==
                IF ledger'[i].entry = "purchase_debit" THEN -ledger'[i].amount
                                                       ELSE ledger'[i].amount
             FirstOfP(i) == \A j \in 1..(i - 1) : ledger'[j].account # ledger'[i].account
             FollowsP(i, j) ==
                /\ ledger'[i].account = ledger'[j].account
                /\ \A m \in (i + 1)..(j - 1) : ledger'[m].account # ledger'[j].account
  <2> SUFFICES ASSUME NEW j \in 1..n
               PROVE  \/ FirstOfP(j) /\ ledger'[j].after = SignedP(j)
                      \/ \E i \in 1..(j - 1) :
                            FollowsP(i, j) /\ ledger'[j].after = ledger'[i].after + SignedP(j)
    BY <1>1 DEF RunningBalance, FirstOf, Follows, Signed
  <2>1. CASE j # n
    <3>1. j \in DOMAIN ledger
      BY <1>1, <2>1
    <3>2. \A i \in 1..j : ledger'[i] = ledger[i]
      BY <1>1, <3>1
    <3>3. SignedP(j) = Signed(ledger[j]) /\ ledger'[j] = ledger[j]
      BY <1>1, <3>1 DEF Signed
    <3>4. CASE FirstOf(j) /\ ledger[j].after = Signed(ledger[j])
      <4>1. FirstOfP(j)
        BY <1>1, <3>2, <3>4 DEF FirstOf
      <4> QED
        BY <3>3, <3>4, <4>1
    <3>5. ASSUME NEW i \in 1..(j - 1), Follows(i, j),
                 ledger[j].after = ledger[i].after + Signed(ledger[j])
          PROVE  FollowsP(i, j) /\ ledger'[j].after = ledger'[i].after + SignedP(j)
      <4>1. ledger'[i] = ledger[i] /\ ledger'[j] = ledger[j]
        BY <1>1, <3>2
      <4>2. \A m \in (i + 1)..(j - 1) : ledger'[m] = ledger[m]
        BY <1>1, <3>2
      <4> QED
        BY <3>3, <3>5, <4>1, <4>2 DEF Follows
    <3> QED
      BY <1>3, <3>1, <3>4, <3>5 DEF RunningBalance
  <2>2. CASE j = n
    <3>1. SignedP(n) = (IF entry = "purchase_debit" THEN -amount ELSE amount)
      BY <1>1
    <3>2. CASE balance[a] = 0 /\ \A i \in DOMAIN ledger : ledger[i].account # a
      <4>1. FirstOfP(n)
        BY <1>1, <3>2
      <4>2. ledger'[n].after = SignedP(n)
        BY <1>1, <3>1, <3>2
      <4> QED
        BY <2>2, <4>1, <4>2
    <3>3. ASSUME NEW i \in DOMAIN ledger, ledger[i].account = a, Latest(a, i),
                 balance[a] = ledger[i].after
          PROVE  /\ i \in 1..(n - 1)
                 /\ FollowsP(i, n)
                 /\ ledger'[n].after = ledger'[i].after + SignedP(n)
      <4>1. i \in 1..(n - 1) /\ ledger'[i] = ledger[i]
        BY <1>1
      <4>2. FollowsP(i, n)
        BY <1>1, <3>3, <4>1 DEF Latest
      <4>3. ledger'[n].after = ledger'[i].after + SignedP(n)
        BY <1>1, <3>1, <3>3, <4>1
      <4> QED
        BY <4>1, <4>2, <4>3
    <3> QED
      BY <1>3, <2>2, <3>2, <3>3 DEF BalanceIsLastRow
  <2> QED
    BY <2>1, <2>2
<1> QED
  BY <1>4, <1>5 DEF LedgerExplainsBalance

-----------------------------------------------------------------------------
\* A posting for an order adds its row to the trail of that order, and no other.
LEMMA RowsAfterPost ==
    ASSUME TypeOK, NEW k \in Keys, NEW a \in Accounts, NEW o \in OrderIds,
           NEW entry \in Entries, NEW amount \in Nat \ {0}, NEW after \in Nat,
           Post(k, a, o, entry, amount, after)
    PROVE  LET n == Len(ledger) + 1 IN
           /\ n \in DOMAIN ledger' /\ n \notin DOMAIN ledger
           /\ DOMAIN ledger \subseteq DOMAIN ledger'
           /\ \A i \in DOMAIN ledger : ledger'[i] = ledger[i]
           /\ ledger'[n].key = k /\ ledger'[n].account = a /\ ledger'[n].amount = amount
           /\ \A p \in OrderIds, e \in Entries :
                RowsOf(p, e)' = IF p = o /\ e = entry THEN RowsOf(p, e) \cup {n}
                                                      ELSE RowsOf(p, e)
<1> DEFINE n == Len(ledger) + 1
<1>1. /\ n \in Nat \ {0}
      /\ DOMAIN ledger = 1..(n - 1) /\ DOMAIN ledger' = 1..n
      /\ \A i \in DOMAIN ledger : ledger'[i] = ledger[i]
      /\ ledger'[n] = [key |-> k, account |-> a, order |-> o, entry |-> entry,
                       amount |-> amount, after |-> after]
  BY PostShape
<1> HIDE DEF n
<1>2. /\ ledger'[n].key = k /\ ledger'[n].account = a /\ ledger'[n].amount = amount
      /\ ledger'[n].order = o /\ ledger'[n].entry = entry
  BY <1>1
<1>3. ASSUME NEW p \in OrderIds, NEW e \in Entries
      PROVE  RowsOf(p, e)' = IF p = o /\ e = entry THEN RowsOf(p, e) \cup {n}
                                                   ELSE RowsOf(p, e)
  <2>1. RowsOf(p, e)' = {i \in 1..n : ledger'[i].order = p /\ ledger'[i].entry = e}
    BY <1>1 DEF RowsOf
  <2>2. RowsOf(p, e) = {i \in 1..(n - 1) : ledger'[i].order = p /\ ledger'[i].entry = e}
    BY <1>1 DEF RowsOf
  <2>3. 1..n = (1..(n - 1)) \cup {n}
    BY <1>1
  <2> QED
    BY <1>2, <2>1, <2>2, <2>3
<1>4. n \in DOMAIN ledger' /\ n \notin DOMAIN ledger /\ DOMAIN ledger \subseteq DOMAIN ledger'
  BY <1>1
<1> QED
  BY <1>1, <1>2, <1>3, <1>4 DEF n

\* A row that recorded an order still does when both are kept.
LEMMA RecordsKept ==
    ASSUME NEW i, NEW o, Records(i, o), ledger'[i] = ledger[i],
           orders'[o].account = orders[o].account, orders'[o].amount = orders[o].amount
    PROVE  Records(i, o)'
    BY DEF Records

\* An order no posting names, and whose row and reversal stay, keeps its trail.
TrailOf(o) ==
    /\ orders[o] = None => Untouched(o)
    /\ orders[o] # None =>
         /\ Debited(o)
         /\ orders[o].status = "fulfilled_via_wallet" => Kept(o)
         /\ orders[o].status = "refunded_via_wallet" => Returned(o)

\* An order that neither the posting nor the step names keeps its trail.
LEMMA OtherTrail ==
    ASSUME NEW p \in OrderIds, TrailOf(p),
           DOMAIN ledger \subseteq DOMAIN ledger',
           \A i \in DOMAIN ledger : ledger'[i] = ledger[i],
           \A e \in Entries : RowsOf(p, e)' = RowsOf(p, e),
           orders'[p] = orders[p],
           (reversals[p] = None) = (reversals'[p] = None),
           reversals'[p].key = reversals[p].key,
           reversals'[p].amount = reversals[p].amount
    PROVE  TrailOf(p)'
<1> USE DEF Entries
<1>1. Untouched(p) => Untouched(p)'
  BY DEF Untouched
<1>2. Debited(p) => Debited(p)'
  BY RecordsKept DEF Debited
<1>3. Kept(p) => Kept(p)'
  BY DEF Kept
<1>4. Returned(p) => Returned(p)'
  BY RecordsKept DEF Returned
<1> QED
  BY <1>1, <1>2, <1>3, <1>4 DEF TrailOf

\* Every step keeps every order's trail.
LEMMA TrailStep ==
    ASSUME TypeOK, TypeOK', OrderMoneyTrail, [AnyCall]_vars
    PROVE  OrderMoneyTrail'
<1>0. \A p \in OrderIds : TrailOf(p)
  BY DEF OrderMoneyTrail, TrailOf
<1> SUFFICES \A p \in OrderIds : TrailOf(p)'
  BY DEF OrderMoneyTrail, TrailOf
<1>n. PICK n \in Nat : n = Len(ledger) + 1
  BY DEF TypeOK
<1>1. ASSUME NEW c \in TopUps, CreditWalletTopup(c), NEW p \in OrderIds PROVE TrailOf(p)'
  <2>1. /\ c.account \in Accounts /\ c.key \in Keys /\ c.amount \in Nat \ {0}
        /\ balance[c.account] + c.amount \in Nat
        /\ Post(c.key, c.account, None, "topup", c.amount, balance[c.account] + c.amount)
        /\ UNCHANGED <<orders, reversals>>
    BY <1>1, TopUpPosts
  <2>2. None \in OrderIds \cup {None} /\ "topup" \in Entries /\ p # None
    BY WalletAssumption DEF Entries
  <2>3. /\ DOMAIN ledger \subseteq DOMAIN ledger'
        /\ \A i \in DOMAIN ledger : ledger'[i] = ledger[i]
        /\ \A e \in Entries : RowsOf(p, e)' = RowsOf(p, e)
    <3> DEFINE after == balance[c.account] + c.amount
               row == [key |-> c.key, account |-> c.account, order |-> None,
                       entry |-> "topup", amount |-> c.amount, after |-> after]
    <3>0. after \in Nat /\ Post(c.key, c.account, None, "topup", c.amount, after)
      BY <2>1
    <3> HIDE DEF after
    <3>1. row \in LedgerRow /\ ledger' = Append(ledger, row) /\ row.order # p
      BY <2>1, <2>2, <3>0 DEF LedgerRow, Post
    <3> HIDE DEF row
    <3>2. /\ n \in Nat \ {0}
          /\ DOMAIN ledger = 1..(n - 1) /\ DOMAIN ledger' = 1..n
          /\ \A i \in DOMAIN ledger : ledger'[i] = ledger[i]
          /\ ledger'[n] = row
      BY <1>n, <3>1, LedgerAppend DEF TypeOK
    <3>3. ASSUME NEW e \in Entries PROVE RowsOf(p, e)' = RowsOf(p, e)
      <4>1. RowsOf(p, e)' = {i \in 1..n : ledger'[i].order = p /\ ledger'[i].entry = e}
        BY <3>2 DEF RowsOf
      <4>2. RowsOf(p, e) = {i \in 1..(n - 1) : ledger'[i].order = p /\ ledger'[i].entry = e}
        BY <3>2 DEF RowsOf
      <4>3. 1..n = (1..(n - 1)) \cup {n}
        BY <3>2
      <4> QED
        BY <3>1, <3>2, <4>1, <4>2, <4>3
    <3> QED
      BY <3>2, <3>3
  <2> QED
    BY <1>0, <2>1, <2>3, OtherTrail
<1>2. ASSUME NEW c \in PurchaseCall, NEW o \in OrderIds, FulfillWalletOrder(c, o),
             NEW p \in OrderIds
      PROVE  TrailOf(p)'
  <2> DEFINE row == [account |-> c.account, product |-> c.product, qty |-> c.qty,
                     amount |-> c.final, status |-> "fulfilled_via_wallet"]
  <2>1. /\ c.account \in Accounts /\ c.key \in Keys /\ c.final \in Nat \ {0}
        /\ balance[c.account] - c.final \in Nat
        /\ orders[o] = None
        /\ orders' = [orders EXCEPT ![o] = row]
        /\ Post(c.key, c.account, o, "purchase_debit", c.final, balance[c.account] - c.final)
        /\ UNCHANGED reversals
    BY <1>2, PurchasePosts
  <2>2. o \in OrderIds \cup {None} /\ "purchase_debit" \in Entries
    BY DEF Entries
  <2>3. /\ n \in DOMAIN ledger' /\ n \notin DOMAIN ledger
        /\ DOMAIN ledger \subseteq DOMAIN ledger'
        /\ \A i \in DOMAIN ledger : ledger'[i] = ledger[i]
        /\ ledger'[n].account = c.account /\ ledger'[n].amount = c.final
        /\ \A q \in OrderIds, e \in Entries :
              RowsOf(q, e)' = IF q = o /\ e = "purchase_debit" THEN RowsOf(q, e) \cup {n}
                                                               ELSE RowsOf(q, e)
    BY <1>n, <2>1, <2>2, RowsAfterPost
  <2>4. orders \in [OrderIds -> OrderRow \cup {None}]
    BY DEF TypeOK
  <2>5. CASE p # o
    <3>1. orders'[p] = orders[p]
      BY <2>1, <2>4, <2>5
    <3> QED
      BY <1>0, <2>1, <2>3, <2>5, <3>1, OtherTrail
  <2>6. CASE p = o
    <3>1. orders'[o] = row /\ row.status = "fulfilled_via_wallet"
          /\ row.account = c.account /\ row.amount = c.final
      BY <2>1, <2>4
    <3> HIDE DEF row
    <3>2. Untouched(o)
      BY <1>0, <2>1 DEF TrailOf
    <3>3. /\ RowsOf(o, "purchase_debit")' = {n}
          /\ RowsOf(o, "purchase_refund")' = {} /\ RowsOf(o, "topup")' = {}
      BY <2>3, <3>2 DEF Untouched, Entries
    <3>4. Records(n, o)'
      BY <2>3, <3>1 DEF Records
    <3>5. Debited(o)' /\ Kept(o)'
      BY <2>1, <2>3, <3>2, <3>3, <3>4 DEF Debited, Kept, Untouched
    <3>6. orders'[o] # None
      <4>1. row \in OrderRow
        BY <1>2, PurchasePosts DEF row, OrderRow, Statuses
      <4> QED
        BY <3>1, <4>1, WalletAssumption
    <3> QED
      BY <2>6, <3>1, <3>5, <3>6 DEF TrailOf
  <2> QED
    BY <2>5, <2>6
<1>3. ASSUME NEW a \in Accounts, NEW o \in OrderIds, NEW k \in Keys,
             NEW seen \in SUBSET lapsed, RefundWalletOrder(a, o, k, seen),
             NEW p \in OrderIds
      PROVE  TrailOf(p)'
  <2> DEFINE rev == [account |-> a, amount |-> orders[o].amount, key |-> k,
                     settled |-> FALSE]
  <2>1. /\ orders[o] \in OrderRow
        /\ orders[o].account = a /\ orders[o].status = "fulfilled_via_wallet"
        /\ orders[o].amount \in Nat \ {0}
        /\ balance[a] + orders[o].amount \in Nat
        /\ Post(k, a, o, "purchase_refund", orders[o].amount, balance[a] + orders[o].amount)
        /\ orders' = [orders EXCEPT ![o].status = "refunded_via_wallet"]
        /\ OweReversal(a, o, k)
    BY <1>3, RefundPosts
  <2>2. o \in OrderIds \cup {None} /\ "purchase_refund" \in Entries
    BY DEF Entries
  <2>3. /\ n \in DOMAIN ledger' /\ n \notin DOMAIN ledger
        /\ DOMAIN ledger \subseteq DOMAIN ledger'
        /\ \A i \in DOMAIN ledger : ledger'[i] = ledger[i]
        /\ ledger'[n].key = k
        /\ ledger'[n].account = a /\ ledger'[n].amount = orders[o].amount
        /\ \A q \in OrderIds, e \in Entries :
              RowsOf(q, e)' = IF q = o /\ e = "purchase_refund" THEN RowsOf(q, e) \cup {n}
                                                                ELSE RowsOf(q, e)
    BY <1>n, <2>1, <2>2, RowsAfterPost
  <2>4. /\ orders'[o].status = "refunded_via_wallet"
        /\ orders'[o].account = orders[o].account
        /\ orders'[o].amount = orders[o].amount
        /\ orders'[o] \in OrderRow
        /\ \A q \in OrderIds \ {o} : orders'[q] = orders[q]
    BY <2>1, CancelledOrder
  <2>5. orders[o] # None /\ orders'[o] # None
    BY <2>1, <2>4, WalletAssumption
  <2>6. Debited(o) /\ Kept(o)
    BY <1>0, <2>1, <2>5 DEF TrailOf
  <2>7. reversals' = [reversals EXCEPT ![o] = rev]
    BY <2>1, <2>6 DEF Kept, OweReversal
  <2>8. reversals \in [OrderIds -> ReversalRow \cup {None}]
    BY DEF TypeOK
  <2>9. CASE p # o
    <3>1. orders'[p] = orders[p] /\ reversals'[p] = reversals[p]
      BY <2>4, <2>7, <2>8, <2>9
    <3> QED
      BY <1>0, <2>3, <2>9, <3>1, OtherTrail
  <2>10. CASE p = o
    <3>1. reversals'[o] = rev /\ rev.key = k /\ rev.amount = orders[o].amount
      BY <2>7, <2>8
    <3>2. rev # None
      <4>1. rev \in ReversalRow
        BY <2>1 DEF ReversalRow
      <4> QED
        BY <4>1, WalletAssumption
    <3> HIDE DEF rev
    <3>3. /\ RowsOf(o, "purchase_refund")' = {n}
          /\ RowsOf(o, "purchase_debit")' = RowsOf(o, "purchase_debit")
          /\ RowsOf(o, "topup")' = RowsOf(o, "topup")
      BY <2>3, <2>6 DEF Kept, Entries
    <3>4. Debited(o)'
      BY <2>3, <2>4, <2>6, <3>3, RecordsKept DEF Debited
    <3>5. Records(n, o)'
      BY <2>1, <2>3, <2>4 DEF Records
    <3>6. Returned(o)'
      BY <2>3, <3>1, <3>2, <3>3, <3>5 DEF Returned
    <3> QED
      BY <2>4, <2>5, <2>10, <3>4, <3>6 DEF TrailOf
  <2> QED
    BY <2>9, <2>10
<1>4. ASSUME NEW o \in OrderIds, WindowLapses(o), NEW p \in OrderIds PROVE TrailOf(p)'
  BY <1>0, <1>4, OtherTrail DEF WindowLapses, RowsOf
<1>5. ASSUME NEW o \in OrderIds, SettleReversal(o), NEW p \in OrderIds PROVE TrailOf(p)'
  <2>1. /\ reversals[o] # None /\ UNCHANGED <<ledger, orders>>
        /\ reversals' = [reversals EXCEPT ![o].settled = TRUE]
    BY <1>5 DEF SettleReversal
  <2>2. reversals \in [OrderIds -> ReversalRow \cup {None}]
    BY DEF TypeOK
  <2> DEFINE rev == [reversals[o] EXCEPT !.settled = TRUE]
  <2>3. /\ rev \in ReversalRow
        /\ rev.key = reversals[o].key /\ rev.amount = reversals[o].amount
    BY <2>1, <2>2 DEF ReversalRow
  <2>4. reversals' = [reversals EXCEPT ![o] = rev]
    BY <2>1
  <2> HIDE DEF rev
  <2>5. rev # None
    BY <2>3, WalletAssumption
  <2>6. /\ (reversals[p] = None) = (reversals'[p] = None)
        /\ reversals'[p].key = reversals[p].key
        /\ reversals'[p].amount = reversals[p].amount
    BY <2>1, <2>2, <2>3, <2>4, <2>5
  <2>7. \A e \in Entries : RowsOf(p, e)' = RowsOf(p, e)
    BY <2>1 DEF RowsOf
  <2> QED
    BY <1>0, <2>1, <2>6, <2>7, OtherTrail
<1>6. CASE UNCHANGED vars
  <2>1. UNCHANGED <<ledger, orders, reversals>>
    BY <1>6 DEF vars
  <2>2. \A p \in OrderIds, e \in Entries : RowsOf(p, e)' = RowsOf(p, e)
    BY <2>1 DEF RowsOf
  <2> QED
    BY <1>0, <2>1, <2>2, OtherTrail
<1> QED
  BY <1>1, <1>2, <1>3, <1>4, <1>5, <1>6 DEF AnyCall

-----------------------------------------------------------------------------
\* What the database allows for a discount is never below cost, whatever campaign
\* the buyer has.
LEMMA EntitlementIsPercent == \A a : Entitlement(a) \in 0..40
<1> SUFFICES ASSUME NEW a, Chosen(a) # {} PROVE (CHOOSE c \in Chosen(a) : TRUE).discount \in 0..40
  BY DEF Entitlement
<1>1. (CHOOSE c \in Chosen(a) : TRUE) \in Campaigns
  BY DEF Chosen, Earned
<1> QED
  BY <1>1, WalletAssumption DEF Campaign

\* A discounted purchase the wallet lets through covers its cost.
LEMMA FundedCoversCost ==
    ASSUME NEW c \in PurchaseCall, DiscountIsFunded(c), c.final < c.base
    PROVE  c.final >= Cost[c.product] * c.qty
<1>1. c.base \in Int /\ c.final \in Int /\ c.qty \in Int /\ c.product \in Products
  BY DEF PurchaseCall
<1>2. Cost[c.product] \in Nat
  BY <1>1, WalletAssumption
<1> DEFINE funded == c.base - (c.base * Entitlement(c.account)) \div 100
           cost == Cost[c.product] * c.qty
<1>3. funded \in Int /\ cost \in Int
  BY <1>1, <1>2, EntitlementIsPercent
<1>4. c.final >= (IF cost > funded THEN cost ELSE funded)
  BY DEF DiscountIsFunded, MinimumAllowed
<1> HIDE DEF funded
<1>5. c.final >= cost
  <2> HIDE DEF cost
  <2> QED
    BY <1>1, <1>3, <1>4
<1> QED
  BY <1>5

SaleCoversCost(o) ==
    orders[o] # None =>
        /\ revenue[o] # None
        /\ revenue[o].final = orders[o].amount
        /\ revenue[o].final < revenue[o].base =>
                revenue[o].final >= Cost[orders[o].product] * orders[o].qty

\* Every step keeps the sales above cost.
LEMMA CostStep ==
    ASSUME TypeOK, NoSaleBelowCost, [AnyCall]_vars
    PROVE  NoSaleBelowCost'
<1>0. \A p \in OrderIds : SaleCoversCost(p)
  BY DEF NoSaleBelowCost, SaleCoversCost
<1> SUFFICES \A p \in OrderIds : SaleCoversCost(p)'
  BY DEF NoSaleBelowCost, SaleCoversCost
<1>1. ASSUME NEW c \in TopUps, CreditWalletTopup(c), NEW p \in OrderIds
      PROVE  SaleCoversCost(p)'
  BY <1>0, <1>1 DEF CreditWalletTopup, SaleCoversCost
<1>2. ASSUME NEW c \in PurchaseCall, NEW o \in OrderIds, FulfillWalletOrder(c, o),
             NEW p \in OrderIds
      PROVE  SaleCoversCost(p)'
  <2> DEFINE row == [account |-> c.account, product |-> c.product, qty |-> c.qty,
                     amount |-> c.final, status |-> "fulfilled_via_wallet"]
             rev == [base |-> c.base, final |-> c.final]
  <2>1. /\ c.base \in Nat \ {0} /\ c.final \in Nat \ {0}
        /\ orders' = [orders EXCEPT ![o] = row] /\ revenue' = [revenue EXCEPT ![o] = rev]
    BY <1>2, PurchasePosts
  <2>2. orders \in [OrderIds -> OrderRow \cup {None}]
        /\ revenue \in [OrderIds -> RevenueRow \cup {None}]
    BY DEF TypeOK
  <2>3. CASE p # o
    BY <1>0, <2>1, <2>2, <2>3 DEF SaleCoversCost
  <2>4. CASE p = o
    <3>1. /\ orders'[p] = row /\ row.amount = c.final
          /\ row.product = c.product /\ row.qty = c.qty
          /\ revenue'[p] = rev /\ rev.base = c.base /\ rev.final = c.final
      BY <2>1, <2>2, <2>4
    <3>2. rev # None
      <4>1. rev \in RevenueRow
        BY <2>1 DEF RevenueRow
      <4> QED
        BY <4>1, WalletAssumption
    <3>3. c \in PurchaseCall /\ DiscountIsFunded(c)
      BY <1>2, WalletAssumption DEF FulfillWalletOrder, Fulfillable
    <3> HIDE DEF row, rev
    <3>4. c.final < c.base => c.final >= Cost[c.product] * c.qty
      BY <3>3, FundedCoversCost
    <3> QED
      BY <3>1, <3>2, <3>4 DEF SaleCoversCost
  <2> QED
    BY <2>3, <2>4
<1>3. ASSUME NEW a \in Accounts, NEW o \in OrderIds, NEW k \in Keys,
             NEW seen \in SUBSET lapsed, RefundWalletOrder(a, o, k, seen),
             NEW p \in OrderIds
      PROVE  SaleCoversCost(p)'
  <2>1. /\ orders[o] \in OrderRow /\ UNCHANGED revenue
        /\ orders' = [orders EXCEPT ![o].status = "refunded_via_wallet"]
    BY <1>3, RefundPosts
  <2>2. /\ orders'[o].amount = orders[o].amount
        /\ orders'[o].product = orders[o].product
        /\ orders'[o].qty = orders[o].qty
        /\ \A q \in OrderIds \ {o} : orders'[q] = orders[q]
    BY <2>1, CancelledOrder
  <2>3. orders[o] # None
    BY <2>1, WalletAssumption
  <2> QED
    BY <1>0, <2>1, <2>2, <2>3 DEF SaleCoversCost
<1>4. ASSUME NEW o \in OrderIds, WindowLapses(o) \/ SettleReversal(o), NEW p \in OrderIds
      PROVE  SaleCoversCost(p)'
  BY <1>0, <1>4 DEF WindowLapses, SettleReversal, SaleCoversCost
<1>5. CASE UNCHANGED vars
  BY <1>0, <1>5 DEF vars, SaleCoversCost
<1> QED
  BY <1>1, <1>2, <1>3, <1>4, <1>5 DEF AnyCall

-----------------------------------------------------------------------------
\* A step that moves neither ledger nor balance keeps their account.
LEMMA LedgerUnchanged ==
    ASSUME UNCHANGED <<ledger, balance>>
    PROVE  /\ KeysSpentOnce => KeysSpentOnce'
           /\ LedgerExplainsBalance => LedgerExplainsBalance'
    BY DEF KeysSpentOnce, LedgerExplainsBalance, BalanceIsLastRow, RunningBalance,
           Latest, FirstOf, Follows, Signed

\* Every step keeps the ledger's account of the balances.
LEMMA LedgerStep ==
    ASSUME TypeOK, KeysSpentOnce, LedgerExplainsBalance, [AnyCall]_vars
    PROVE  KeysSpentOnce' /\ LedgerExplainsBalance'
<1>1. ASSUME NEW c \in TopUps, CreditWalletTopup(c)
      PROVE  KeysSpentOnce' /\ LedgerExplainsBalance'
  <2> DEFINE after == balance[c.account] + c.amount
  <2>1. /\ c.account \in Accounts /\ c.key \in Keys /\ c.amount \in Nat \ {0}
        /\ KeyIsFree(c.key) /\ after \in Nat
        /\ Post(c.key, c.account, None, "topup", c.amount, after)
    BY <1>1, TopUpPosts
  <2>2. /\ None \in OrderIds \cup {None} /\ "topup" \in Entries
        /\ after = balance[c.account]
                     + (IF "topup" = "purchase_debit" THEN -c.amount ELSE c.amount)
    BY DEF Entries
  <2> HIDE DEF after
  <2> QED
    BY <2>1, <2>2, KeysStep, BalanceStep
<1>2. ASSUME NEW c \in PurchaseCall, NEW o \in OrderIds, FulfillWalletOrder(c, o)
      PROVE  KeysSpentOnce' /\ LedgerExplainsBalance'
  <2> DEFINE after == balance[c.account] - c.final
  <2>1. /\ c.account \in Accounts /\ c.key \in Keys /\ c.final \in Nat \ {0}
        /\ KeyIsFree(c.key) /\ after \in Nat
        /\ Post(c.key, c.account, o, "purchase_debit", c.final, after)
    BY <1>2, PurchasePosts
  <2>2. /\ o \in OrderIds \cup {None} /\ "purchase_debit" \in Entries
        /\ after = balance[c.account]
                     + (IF "purchase_debit" = "purchase_debit" THEN -c.final ELSE c.final)
    BY <2>1 DEF Entries, TypeOK
  <2> HIDE DEF after
  <2> QED
    BY <2>1, <2>2, KeysStep, BalanceStep
<1>3. ASSUME NEW a \in Accounts, NEW o \in OrderIds, NEW k \in Keys,
             NEW seen \in SUBSET lapsed, RefundWalletOrder(a, o, k, seen)
      PROVE  KeysSpentOnce' /\ LedgerExplainsBalance'
  <2> DEFINE amount == orders[o].amount
             after == balance[a] + amount
  <2>1. /\ amount \in Nat \ {0} /\ KeyIsFree(k) /\ after \in Nat
        /\ Post(k, a, o, "purchase_refund", amount, after)
    BY <1>3, RefundPosts
  <2>2. /\ o \in OrderIds \cup {None} /\ "purchase_refund" \in Entries
        /\ after = balance[a]
                     + (IF "purchase_refund" = "purchase_debit" THEN -amount ELSE amount)
    BY DEF Entries
  <2> HIDE DEF after, amount
  <2> QED
    BY <2>1, <2>2, KeysStep, BalanceStep
<1>4. ASSUME NEW o \in OrderIds, WindowLapses(o) \/ SettleReversal(o)
      PROVE  KeysSpentOnce' /\ LedgerExplainsBalance'
  BY <1>4, LedgerUnchanged DEF WindowLapses, SettleReversal
<1>5. CASE UNCHANGED vars
  BY <1>5, LedgerUnchanged DEF vars
<1> QED
  BY <1>1, <1>2, <1>3, <1>4, <1>5 DEF AnyCall

\* The inductive invariant is inductive, whichever purchases callers make.
LEMMA AnyCallKeepsIInv == IInv /\ [AnyCall]_vars => IInv'
    BY AnyCallKeepsTypes, LedgerStep, TrailStep, CostStep DEF IInv

\* Those of a model are among them.
LEMMA InvStep == IInv /\ [Next]_vars => IInv'
    BY NextIsAnyCall, AnyCallKeepsIInv

\* Holds before the first call.
LEMMA InvInit == Init => IInv
<1> SUFFICES ASSUME Init PROVE IInv
  OBVIOUS
<1>1. TypeOK
  BY WalletAssumption DEF Init, TypeOK
<1>2. KeysSpentOnce /\ LedgerExplainsBalance
  BY DEF Init, KeysSpentOnce, LedgerExplainsBalance, BalanceIsLastRow, RunningBalance
<1>3. OrderMoneyTrail /\ NoSaleBelowCost
  BY DEF Init, OrderMoneyTrail, NoSaleBelowCost, Untouched, RowsOf
<1> QED
  BY <1>1, <1>2, <1>3 DEF IInv

\* And holds of every behaviour.
LEMMA InvHolds == Spec => []IInv
    BY InvInit, InvStep, PTL DEF Spec

\* No idempotency key ever pays twice, whichever function it is given to.
THEOREM KeysAreSpentOnce == Spec => []KeysSpentOnce
    BY InvHolds, PTL DEF IInv

\* Every balance is what the account's own rows add up to, row by row.
THEOREM BalancesAreExplained == Spec => []LedgerExplainsBalance
    BY InvHolds, PTL DEF IInv

\* Every order is debited once for its amount and credited back at most once.
THEOREM OrdersKeepTheirTrail == Spec => []OrderMoneyTrail
    BY InvHolds, PTL DEF IInv

\* No discounted sale is below cost.
THEOREM SalesCoverCost == Spec => []NoSaleBelowCost
    BY InvHolds, PTL DEF IInv

-----------------------------------------------------------------------------
\* The orders whose status still counts are those the ledger shows no refund of.
LEMMA StandingIsUnrefunded ==
    ASSUME TypeOK, OrderMoneyTrail, NEW a
    PROVE  StandingOrders(a) = Unrefunded(a)
<1> SUFFICES ASSUME NEW o \in OrderIds, orders[o] # None
             PROVE  orders[o].status = "fulfilled_via_wallet" <=> ~RefundedIn(o)
  BY DEF StandingOrders, StandingIds, Unrefunded
<1>1. orders[o].status \in Statuses
  BY RowsAreNotNone DEF OrderRow
<1>2. orders[o].status = "fulfilled_via_wallet" => Kept(o)
  BY DEF OrderMoneyTrail
<1>3. orders[o].status = "refunded_via_wallet" => Returned(o)
  BY DEF OrderMoneyTrail
<1> QED
  BY <1>1, <1>2, <1>3 DEF Statuses, Kept, Returned, RefundedIn

\* A discount the check lets through is within one campaign the buyer has earned.
LEMMA FundedByACampaign ==
    ASSUME NEW c \in PurchaseCall, DiscountIsFunded(c), c.final < c.base
    PROVE  \E d \in Earned(c.account) : c.final * 100 >= c.base * (100 - d.discount)
<1>1. c.base \in Int /\ c.final \in Int /\ c.qty \in Int /\ c.product \in Products
  BY DEF PurchaseCall
<1>2. Cost[c.product] \in Nat
  BY <1>1, WalletAssumption
<1> DEFINE e == Entitlement(c.account)
           taken == (c.base * e) \div 100
           cost == Cost[c.product] * c.qty
<1>3. e \in 0..40 /\ cost \in Int
  BY <1>1, <1>2, EntitlementIsPercent
<1>4. c.final >= (IF cost > c.base - taken THEN cost ELSE c.base - taken)
  BY DEF DiscountIsFunded, MinimumAllowed
<1> HIDE DEF cost, e
<1>5. taken \in Int /\ taken * 100 <= c.base * e
  <2> DEFINE product == c.base * e
  <2>1. product \in Int
    BY <1>1, <1>3
  <2> HIDE DEF product
  <2>2. (product \div 100) \in Int /\ (product \div 100) * 100 <= product
    BY <2>1
  <2> QED
    BY <2>2 DEF product
<1>6. c.final >= c.base - taken
  <2> HIDE DEF taken
  <2> QED
    BY <1>1, <1>3, <1>4, <1>5
<1>7. e # 0
  <2>1. ASSUME e = 0 PROVE taken = 0
    BY <1>1, <2>1
  <2> HIDE DEF taken
  <2> QED
    BY <1>1, <1>6, <2>1
<1>8. PICK d \in Earned(c.account) : d.discount = e
  <2>1. Chosen(c.account) # {} /\ e = (CHOOSE d \in Chosen(c.account) : TRUE).discount
    BY <1>7 DEF e, Entitlement
  <2> QED
    BY <2>1 DEF Chosen
<1>9. c.final * 100 >= c.base * (100 - e)
  <2> DEFINE off == c.base * e
  <2>1. c.base * (100 - e) = c.base * 100 - off /\ off \in Int
    BY <1>1, <1>3
  <2> HIDE DEF off, taken
  <2>2. c.final * 100 >= c.base * 100 - off
    BY <1>1, <1>5, <1>6, <2>1 DEF off
  <2> QED
    BY <2>1, <2>2
<1> QED
  BY <1>8, <1>9

\* What one step needs for that, whichever purchases callers make.
LEMMA FundedStep ==
    ASSUME IInv, [AnyCall]_vars
    PROVE  [\A o \in OrderIds : SaleIsFunded(o)]_vars
<1> SUFFICES ASSUME NEW p \in OrderIds, orders[p] = None, orders'[p] # None,
                    revenue'[p].final < revenue'[p].base,
                    AnyCall
             PROVE  \E d \in Campaigns :
                      LET history == Unrefunded(orders'[p].account)
                      IN  /\ d.minOrders <= Cardinality(history)
                          /\ d.minSpend <= SpendOver(history)
                          /\ revenue'[p].final * 100
                                  >= revenue'[p].base * (100 - d.discount)
  BY DEF SaleIsFunded
<1>0. TypeOK /\ OrderMoneyTrail
  BY DEF IInv
<1>1. ASSUME NEW c \in TopUps, CreditWalletTopup(c) PROVE FALSE
  BY <1>1 DEF CreditWalletTopup
<1>2. ASSUME NEW a \in Accounts, NEW o \in OrderIds, NEW k \in Keys,
             NEW seen \in SUBSET lapsed, RefundWalletOrder(a, o, k, seen)
      PROVE  FALSE
  <2>1. /\ orders[o] \in OrderRow
        /\ orders' = [orders EXCEPT ![o].status = "refunded_via_wallet"]
    BY <1>0, <1>2, RefundPosts
  <2>2. p # o
    BY <2>1, WalletAssumption
  <2> QED
    BY <1>0, <2>1, <2>2, CancelledOrder
<1>3. ASSUME NEW o \in OrderIds, WindowLapses(o) \/ SettleReversal(o) PROVE FALSE
  BY <1>3 DEF WindowLapses, SettleReversal
<1>4. PICK c \in PurchaseCall, o \in OrderIds : FulfillWalletOrder(c, o)
  BY <1>1, <1>2, <1>3 DEF AnyCall
<1> DEFINE row == [account |-> c.account, product |-> c.product, qty |-> c.qty,
                   amount |-> c.final, status |-> "fulfilled_via_wallet"]
           rev == [base |-> c.base, final |-> c.final]
<1>5. orders' = [orders EXCEPT ![o] = row] /\ revenue' = [revenue EXCEPT ![o] = rev]
  BY <1>0, <1>4, PurchasePosts
<1>6. p = o
  BY <1>0, <1>5 DEF TypeOK
<1>7. /\ orders'[p].account = c.account
      /\ revenue'[p].final = c.final /\ revenue'[p].base = c.base
  BY <1>0, <1>5, <1>6 DEF TypeOK
<1>8. c \in PurchaseCall /\ DiscountIsFunded(c)
  BY <1>4, WalletAssumption DEF FulfillWalletOrder, Fulfillable
<1>9. PICK d \in Earned(c.account) : c.final * 100 >= c.base * (100 - d.discount)
  BY <1>7, <1>8, FundedByACampaign
<1>10. StandingOrders(c.account) = Unrefunded(c.account)
  BY <1>0, StandingIsUnrefunded
<1>11. /\ d \in Campaigns
       /\ d.minOrders <= Cardinality(Unrefunded(c.account))
       /\ d.minSpend <= SpendOver(Unrefunded(c.account))
  BY <1>9, <1>10 DEF Earned, Spend
<1> QED
  BY <1>7, <1>9, <1>11

\* Every discounted sale is within what one campaign gives for the orders the ledger
\* shows standing just before it: buying and cancelling earns no discount.
THEOREM DiscountsAreEarned == Spec => FundedByStandingOrders
<1>1. IInv /\ [Next]_vars => [\A o \in OrderIds : SaleIsFunded(o)]_vars
  BY NextIsAnyCall, FundedStep
<1> QED
  BY <1>1, InvHolds, PTL DEF Spec, FundedByStandingOrders

-----------------------------------------------------------------------------
\* Sums.  SumFunction adds up a function by taking one place of its domain after the
\* other.  No induction theorem of the library can be used on it, so what follows is
\* shown from the least set it could fail of.  SumFunction is the last value of a
\* function of partial sums, one for each set of places:
First(s) == CHOOSE x \in s : TRUE
PartialSum(f, sums, s) == IF s = {} THEN 0 ELSE f[First(s)] + sums[s \ {First(s)}]
PartialSums(f) == CHOOSE sums : sums = [s \in SUBSET DOMAIN f |-> PartialSum(f, sums, s)]

\* It is how the library defines it.
LEMMA SumIsLastPartialSum ==
    ASSUME NEW f
    PROVE  SumFunction(f) = PartialSums(f)[DOMAIN f]
  BY DEF SumFunction, SumFunctionOnSet, FoldFunctionOnSet, MapThenFoldSet, PartialSums,
         PartialSum, First

\* A set that is not empty has its first member.
LEMMA FirstIsIn == ASSUME NEW s, s # {} PROVE First(s) \in s
  BY DEF First

\* What is part of a finite set is finite, and no larger.
LEMMA SubsetsAreFinite ==
    ASSUME NEW S, IsFiniteSet(S)
    PROVE  \A s \in SUBSET S : /\ IsFiniteSet(s) /\ Cardinality(s) \in Nat
                               /\ Cardinality(s) <= Cardinality(S)
  BY FS_Subset, FS_CardinalityType

\* A set of numbers that is not empty has a least one.
LEMMA LeastNumber ==
    ASSUME NEW ns, ns \subseteq Nat, ns # {}
    PROVE  \E n \in ns : \A m \in ns : n <= m
<1>1. \E n \in ns : \A m \in ns : ~(<<m, n>> \in OpToRel(<, Nat))
  BY NatLessThanWellFounded, WFMin, Zenon
<1>2. PICK n \in ns : \A m \in ns : ~(<<m, n>> \in OpToRel(<, Nat))
  BY <1>1
<1>3. \A m \in ns : ~(m < n)
  BY <1>2 DEF OpToRel
<1> QED
  BY <1>3

\* Among sets of which there are any there is a smallest: what fails of some
\* subset fails of one that has no smaller subset it fails of.
LEMMA SmallestSet ==
    ASSUME NEW S, IsFiniteSet(S), NEW bad, bad \subseteq SUBSET S, bad # {}
    PROVE  \E s \in bad : \A x \in s : s \ {x} \notin bad
<1> DEFINE sizes == {Cardinality(s) : s \in bad}
<1>1. sizes \subseteq Nat /\ sizes # {}
  BY SubsetsAreFinite
<1>2. PICK n \in sizes : \A m \in sizes : n <= m
  BY <1>1, LeastNumber
<1>3. PICK s \in bad : n = Cardinality(s)
  BY <1>2
<1>4. ASSUME NEW x \in s, s \ {x} \in bad PROVE FALSE
  <2>1. IsFiniteSet(s) /\ Cardinality(s) \in Nat
    BY SubsetsAreFinite
  <2>2. Cardinality(s \ {x}) = Cardinality(s) - 1
    BY <2>1, FS_RemoveElement
  <2>3. n <= Cardinality(s \ {x})
    BY <1>2, <1>4
  <2> QED
    BY <1>3, <2>1, <2>2, <2>3
<1> QED
  BY <1>3, <1>4

\* There is such a function, for the sets of at most n members whatever n is: the sums
\* of those of n + 1 members are defined by the sums of smaller ones.
Small(S, n) == {s \in SUBSET S : Cardinality(s) <= n}
SumsUpTo(f, n, g) == g = [s \in Small(DOMAIN f, n) |-> PartialSum(f, g, s)]

\* Sums that reach n reach one further.
LEMMA SumsOneUp ==
    ASSUME NEW f, IsFiniteSet(DOMAIN f), NEW n \in Nat, NEW g, SumsUpTo(f, n, g)
    PROVE  \E h : SumsUpTo(f, n + 1, h)
<1> DEFINE h == [s \in Small(DOMAIN f, n + 1) |-> PartialSum(f, g, s)]
<1>1. ASSUME NEW s \in Small(DOMAIN f, n + 1), s # {}
      PROVE  s \ {First(s)} \in Small(DOMAIN f, n) /\ s \ {First(s)} \in Small(DOMAIN f, n + 1)
  <2>1. First(s) \in s
    BY <1>1, FirstIsIn
  <2>2. s \subseteq DOMAIN f /\ IsFiniteSet(s) /\ Cardinality(s) \in Nat /\ Cardinality(s) <= n + 1
    BY SubsetsAreFinite DEF Small
  <2>3. Cardinality(s \ {First(s)}) = Cardinality(s) - 1
    BY <2>1, <2>2, FS_RemoveElement
  <2>4. s \ {First(s)} \subseteq DOMAIN f
    BY <2>2
  <2> QED
    BY <2>2, <2>3, <2>4 DEF Small
<1>2. ASSUME NEW t \in Small(DOMAIN f, n), t \in Small(DOMAIN f, n + 1) PROVE h[t] = g[t]
  BY <1>2 DEF SumsUpTo
<1>3. ASSUME NEW s \in Small(DOMAIN f, n + 1) PROVE PartialSum(f, g, s) = PartialSum(f, h, s)
  <2> HIDE DEF h
  <2> QED
    BY <1>1, <1>2 DEF PartialSum
<1>4. h = [s \in Small(DOMAIN f, n + 1) |-> PartialSum(f, h, s)]
  BY <1>3, Zenon
<1> QED
  BY <1>4 DEF SumsUpTo

\* So they reach every n.
LEMMA SumsExist ==
    ASSUME NEW f, IsFiniteSet(DOMAIN f)
    PROVE  \A n \in Nat : \E g : SumsUpTo(f, n, g)
<1> DEFINE bad == {n \in Nat : ~\E g : SumsUpTo(f, n, g)}
<1>1. ASSUME NEW n \in bad, \A m \in bad : n <= m PROVE FALSE
  <2>1. CASE n = 0
    <3> DEFINE g == [s \in {{}} |-> 0]
    <3>1. Small(DOMAIN f, 0) = {{}}
      BY SubsetsAreFinite, FS_EmptySet DEF Small
    <3>2. SumsUpTo(f, 0, g)
      BY <3>1 DEF SumsUpTo, PartialSum
    <3> QED
      BY <2>1, <3>2
  <2>2. CASE n # 0
    <3>1. n - 1 \in Nat /\ n - 1 \notin bad /\ (n - 1) + 1 = n
      BY <1>1, <2>2
    <3>2. PICK g : SumsUpTo(f, n - 1, g)
      BY <3>1
    <3>3. \E h : SumsUpTo(f, (n - 1) + 1, h)
      BY <3>1, <3>2, SumsOneUp
    <3> QED
      BY <3>1, <3>3
  <2> QED
    BY <2>1, <2>2
<1>2. bad = {}
  BY <1>1, LeastNumber
<1> QED
  BY <1>2

\* The partial sums of a function with a finite domain are what their definition says.
LEMMA PartialSumsDefined ==
    ASSUME NEW f, IsFiniteSet(DOMAIN f)
    PROVE  \A s \in SUBSET DOMAIN f : PartialSums(f)[s] = PartialSum(f, PartialSums(f), s)
<1>1. Cardinality(DOMAIN f) \in Nat
  BY FS_CardinalityType
<1>2. Small(DOMAIN f, Cardinality(DOMAIN f)) = SUBSET DOMAIN f
  BY SubsetsAreFinite DEF Small
<1>3. PICK g : SumsUpTo(f, Cardinality(DOMAIN f), g)
  BY <1>1, SumsExist
<1>4. g = [s \in SUBSET DOMAIN f |-> PartialSum(f, g, s)]
  BY <1>2, <1>3 DEF SumsUpTo
<1>5. PartialSums(f) = [s \in SUBSET DOMAIN f |-> PartialSum(f, PartialSums(f), s)]
  BY <1>4, Zenon DEF PartialSums
<1> QED
  BY <1>5

\* What is said of sums of whole numbers over a finite set.
Summable(f) == IsFiniteSet(DOMAIN f) /\ \A x \in DOMAIN f : f[x] \in Int

\* Sums of whole numbers are whole.
LEMMA PartialSumsAreWhole ==
    ASSUME NEW f, Summable(f)
    PROVE  \A s \in SUBSET DOMAIN f : PartialSums(f)[s] \in Int
<1> DEFINE bad == {s \in SUBSET DOMAIN f : PartialSums(f)[s] \notin Int}
<1>1. ASSUME NEW s \in bad, \A x \in s : s \ {x} \notin bad PROVE FALSE
  <2>1. PartialSums(f)[s] = PartialSum(f, PartialSums(f), s)
    BY PartialSumsDefined DEF Summable
  <2>2. s # {}
    BY <2>1 DEF PartialSum
  <2>3. First(s) \in s /\ s \ {First(s)} \in SUBSET DOMAIN f
    BY <2>2, FirstIsIn
  <2>4. PartialSums(f)[s \ {First(s)}] \in Int /\ f[First(s)] \in Int
    BY <1>1, <2>3 DEF Summable
  <2> QED
    BY <2>1, <2>2, <2>4 DEF PartialSum
<1>2. bad = {}
  BY <1>1, SmallestSet DEF Summable
<1> QED
  BY <1>2

\* It does not matter which member is added last.
LEMMA AnyMemberLast ==
    ASSUME NEW f, Summable(f)
    PROVE  \A s \in SUBSET DOMAIN f : \A x \in s :
                PartialSums(f)[s] = f[x] + PartialSums(f)[s \ {x}]
<1> DEFINE sum == PartialSums(f)
           Last(s) == \A x \in s : sum[s] = f[x] + sum[s \ {x}]
           bad == {s \in SUBSET DOMAIN f : ~Last(s)}
<1>1. ASSUME NEW s \in SUBSET DOMAIN f, \A y \in s : Last(s \ {y}), NEW x \in s
      PROVE  sum[s] = f[x] + sum[s \ {x}]
  <2> DEFINE y == First(s)
  <2>1. y \in s
    BY <1>1, FirstIsIn
  <2>2. sum[s] = f[y] + sum[s \ {y}]
    BY <1>1, PartialSumsDefined DEF PartialSum, Summable
  <2>3. CASE x = y
    BY <2>2, <2>3
  <2>4. CASE x # y
    <3> HIDE DEF y, sum
    <3>1. x \in s \ {y} /\ y \in s \ {x} /\ (s \ {y}) \ {x} = (s \ {x}) \ {y}
      BY <1>1, <2>1, <2>4
    <3>2. sum[s \ {y}] = f[x] + sum[(s \ {y}) \ {x}]
      BY <1>1, <2>1, <3>1
    <3>3. sum[s \ {x}] = f[y] + sum[(s \ {y}) \ {x}]
      BY <1>1, <3>1
    <3>4. f[x] \in Int /\ f[y] \in Int /\ sum[(s \ {y}) \ {x}] \in Int
      BY <1>1, <2>1, PartialSumsAreWhole DEF Summable, sum
    <3> QED
      BY <2>2, <3>2, <3>3, <3>4
  <2> QED
    BY <2>3, <2>4
<1>2. ASSUME NEW s \in bad, \A x \in s : s \ {x} \notin bad PROVE FALSE
  <2>1. \A x \in s : Last(s \ {x})
    BY <1>2
  <2> HIDE DEF sum
  <2> QED
    BY <1>1, <1>2, <2>1
<1>3. bad = {}
  BY <1>2, SmallestSet DEF Summable
<1> QED
  BY <1>3

\* Sums over a set depend on the values there alone.
LEMMA SameValuesSameSums ==
    ASSUME NEW f, Summable(f), NEW g, Summable(g), NEW S,
           S \subseteq DOMAIN f, S \subseteq DOMAIN g, \A x \in S : f[x] = g[x]
    PROVE  PartialSums(f)[S] = PartialSums(g)[S]
<1> DEFINE bad == {s \in SUBSET S : PartialSums(f)[s] # PartialSums(g)[s]}
<1>1. ASSUME NEW s \in bad, \A x \in s : s \ {x} \notin bad PROVE FALSE
  <2>1. /\ PartialSums(f)[s] = PartialSum(f, PartialSums(f), s)
        /\ PartialSums(g)[s] = PartialSum(g, PartialSums(g), s)
    BY PartialSumsDefined DEF Summable
  <2>2. s # {}
    BY <2>1 DEF PartialSum
  <2>3. First(s) \in s /\ s \ {First(s)} \in SUBSET S
    BY <2>2, FirstIsIn
  <2>4. /\ PartialSums(f)[s \ {First(s)}] = PartialSums(g)[s \ {First(s)}]
        /\ f[First(s)] = g[First(s)]
    BY <1>1, <2>3
  <2> QED
    BY <2>1, <2>2, <2>4 DEF PartialSum
<1>2. IsFiniteSet(S)
  BY FS_Subset DEF Summable
<1>3. bad = {}
  BY <1>1, <1>2, SmallestSet
<1> QED
  BY <1>3

\* What is used of SumFunction: it is a whole number,
LEMMA SumIsWhole ==
    ASSUME NEW f, Summable(f)
    PROVE  SumFunction(f) \in Int
  BY SumIsLastPartialSum, PartialSumsAreWhole

\* it grows by the value of a place that joins the domain,
LEMMA SumWithOneMore ==
    ASSUME NEW f, Summable(f), NEW g, Summable(g), NEW x, x \notin DOMAIN f,
           DOMAIN g = DOMAIN f \cup {x}, \A y \in DOMAIN f : g[y] = f[y]
    PROVE  SumFunction(g) = g[x] + SumFunction(f)
<1>1. PartialSums(g)[DOMAIN g] = g[x] + PartialSums(g)[DOMAIN g \ {x}]
  BY AnyMemberLast
<1>2. DOMAIN g \ {x} = DOMAIN f
  OBVIOUS
<1>3. PartialSums(g)[DOMAIN f] = PartialSums(f)[DOMAIN f]
  BY SameValuesSameSums
<1> QED
  BY <1>1, <1>2, <1>3, SumIsLastPartialSum

\* and it is nothing over no place.
LEMMA SumOfNothing ==
    ASSUME NEW f, DOMAIN f = {}
    PROVE  SumFunction(f) = 0
  BY PartialSumsDefined, SumIsLastPartialSum, FS_EmptySet DEF PartialSum

-----------------------------------------------------------------------------
\* The orders there are, and what each one standing for a product took of it.
Sold == {o \in OrderIds : orders[o] # None}
Taken(p) == [o \in Standing(p) |-> orders[o].qty]

\* The orders made so far are finitely many, and the shelves account for them.
StockInv == IsFiniteSet(Sold) /\ StockConserved

\* What was taken of a product can be added up.
LEMMA TakenIsSummable ==
    ASSUME TypeOK, IsFiniteSet(Sold), NEW p
    PROVE  Summable(Taken(p)) /\ DOMAIN Taken(p) = Standing(p)
<1>1. Standing(p) \subseteq Sold
  BY DEF Standing, Sold
<1>2. IsFiniteSet(Standing(p))
  BY <1>1, FS_Subset
<1>3. \A o \in Standing(p) : orders[o].qty \in Int
  BY RowsAreNotNone DEF Standing, OrderRow
<1> QED
  BY <1>2, <1>3 DEF Taken, Summable

\* An order that comes to stand for a product adds what it took to the sum,
LEMMA OneMoreStands ==
    ASSUME TypeOK, TypeOK', IsFiniteSet(Sold), IsFiniteSet(Sold)', NEW p, NEW o,
           o \notin Standing(p), Standing(p)' = Standing(p) \cup {o},
           \A i \in Standing(p) : orders'[i].qty = orders[i].qty
    PROVE  SumFunction(Taken(p)') = orders'[o].qty + SumFunction(Taken(p))
<1> DEFINE f == Taken(p)
           g == Taken(p)'
<1>1. Summable(f) /\ DOMAIN f = Standing(p)
  BY TakenIsSummable
<1>2. Summable(g) /\ DOMAIN g = Standing(p) \cup {o}
  <2>1. (Summable(Taken(p)) /\ DOMAIN Taken(p) = Standing(p))'
    BY TakenIsSummable, PTL
  <2> QED
    BY <2>1 DEF Summable
<1>3. \A i \in Standing(p) : g[i] = f[i]
  BY DEF Taken
<1>4. g[o] = orders'[o].qty
  BY DEF Taken
<1> HIDE DEF f, g
<1>5. SumFunction(g) = g[o] + SumFunction(f)
  BY <1>1, <1>2, <1>3, SumWithOneMore
<1> QED
  BY <1>4, <1>5 DEF f, g

\* one that ceases to stand takes it out again,
LEMMA OneFewerStands ==
    ASSUME TypeOK, TypeOK', IsFiniteSet(Sold), IsFiniteSet(Sold)', NEW p, NEW o,
           o \in Standing(p), Standing(p)' = Standing(p) \ {o},
           \A i \in Standing(p)' : orders'[i].qty = orders[i].qty
    PROVE  SumFunction(Taken(p)) = orders[o].qty + SumFunction(Taken(p)')
<1> DEFINE f == Taken(p)
           g == Taken(p)'
<1>1. Summable(f) /\ DOMAIN f = Standing(p)
  BY TakenIsSummable
<1>2. Summable(g) /\ DOMAIN g = Standing(p) \ {o}
  <2>1. (Summable(Taken(p)) /\ DOMAIN Taken(p) = Standing(p))'
    BY TakenIsSummable, PTL
  <2> QED
    BY <2>1 DEF Summable
<1>3. \A i \in Standing(p) \ {o} : f[i] = g[i]
  BY DEF Taken
<1>4. f[o] = orders[o].qty
  BY DEF Taken
<1>5. DOMAIN f = DOMAIN g \cup {o} /\ o \notin DOMAIN g /\ \A i \in DOMAIN g : f[i] = g[i]
  BY <1>1, <1>2, <1>3
<1> HIDE DEF f, g
<1>6. SumFunction(f) = f[o] + SumFunction(g)
  BY <1>1, <1>2, <1>5, SumWithOneMore
<1> QED
  BY <1>4, <1>6 DEF f, g

\* and where none does either the sum stays.
LEMMA SameStand ==
    ASSUME NEW p, Standing(p)' = Standing(p),
           \A i \in Standing(p) : orders'[i].qty = orders[i].qty
    PROVE  SumFunction(Taken(p)') = SumFunction(Taken(p))
<1>1. Taken(p)' = Taken(p)
  BY DEF Taken
<1> QED
  BY <1>1

\* A purchase moves what it sells from the shelf to the order it makes.
LEMMA SaleMovesStock ==
    ASSUME TypeOK, TypeOK', StockInv, NEW c \in PurchaseCall, NEW o \in OrderIds,
           FulfillWalletOrder(c, o)
    PROVE  StockInv'
<1> DEFINE row == [account |-> c.account, product |-> c.product, qty |-> c.qty,
                   amount |-> c.final, status |-> "fulfilled_via_wallet"]
<1>1. /\ c.product \in Products /\ c.qty \in Nat \ {0} /\ orders[o] = None
      /\ orders' = [orders EXCEPT ![o] = row]
      /\ stock' = [stock EXCEPT ![c.product] = @ - c.qty]
  BY PurchasePosts
<1>2. orders \in [OrderIds -> OrderRow \cup {None}] /\ stock \in [Products -> Nat]
  BY DEF TypeOK
<1>3. /\ row.product = c.product /\ row.qty = c.qty /\ row.status = "fulfilled_via_wallet"
      /\ row # None
  <2>1. c.account \in Accounts /\ c.final \in Nat \ {0}
    BY PurchasePosts
  <2>2. row \in OrderRow
    BY <1>1, <2>1 DEF OrderRow, Statuses
  <2> QED
    BY <2>2, WalletAssumption
<1> HIDE DEF row
<1>4. /\ orders'[o] = row /\ \A i \in OrderIds \ {o} : orders'[i] = orders[i]
      /\ stock'[c.product] = stock[c.product] - c.qty
      /\ \A p \in Products \ {c.product} : stock'[p] = stock[p]
  BY <1>1, <1>2
<1>5. IsFiniteSet(Sold)'
  <2>1. Sold' = Sold \cup {o}
    BY <1>3, <1>4 DEF Sold
  <2>2. IsFiniteSet(Sold \cup {o})
    BY FS_AddElement DEF StockInv
  <2> QED
    BY <2>1, <2>2
<1>6. ASSUME NEW p \in Products
      PROVE  OpeningStock[p] = stock'[p] + SumFunction(Taken(p)')
  <2>1. /\ OpeningStock[p] = stock[p] + SumFunction(Taken(p))
        /\ SumFunction(Taken(p)) \in Int /\ stock[p] \in Int
    BY <1>2, TakenIsSummable, SumIsWhole DEF StockInv, StockConserved, Taken
  <2>2. CASE p = c.product
    <3>1. o \notin Standing(p) /\ Standing(p)' = Standing(p) \cup {o}
      BY <1>1, <1>3, <1>4, <2>2 DEF Standing
    <3>2. \A i \in Standing(p) : orders'[i].qty = orders[i].qty
      BY <1>1, <1>4 DEF Standing
    <3>3. SumFunction(Taken(p)') = orders'[o].qty + SumFunction(Taken(p))
      BY <1>5, <3>1, <3>2, OneMoreStands DEF StockInv
    <3>4. orders'[o].qty = c.qty
      BY <1>3, <1>4
    <3> QED
      BY <1>1, <1>4, <2>1, <2>2, <3>3, <3>4
  <2>3. CASE p # c.product
    <3>1. Standing(p)' = Standing(p)
      BY <1>1, <1>3, <1>4, <2>3 DEF Standing
    <3>2. \A i \in Standing(p) : orders'[i].qty = orders[i].qty
      BY <1>1, <1>4 DEF Standing
    <3> QED
      BY <1>4, <2>1, <2>3, <3>1, <3>2, SameStand
  <2> QED
    BY <2>2, <2>3
<1> QED
  BY <1>5, <1>6 DEF StockInv, StockConserved, Taken

\* A cancellation moves it back.
LEMMA CancellationMovesStock ==
    ASSUME TypeOK, TypeOK', StockInv, NEW a \in Accounts, NEW o \in OrderIds,
           NEW k \in Keys, NEW seen \in SUBSET lapsed, RefundWalletOrder(a, o, k, seen)
    PROVE  StockInv'
<1> DEFINE q == orders[o].product
<1>1. /\ q \in Products /\ orders[o].qty \in Nat \ {0} /\ orders[o] \in OrderRow
      /\ orders[o].status = "fulfilled_via_wallet"
      /\ stock' = [stock EXCEPT ![q] = @ + orders[o].qty]
  BY RefundPosts
<1>2. stock \in [Products -> Nat]
  BY DEF TypeOK
<1>3. /\ orders'[o] \in OrderRow /\ orders'[o].status = "refunded_via_wallet"
      /\ \A i \in OrderIds \ {o} : orders'[i] = orders[i]
  BY <1>1, RefundPosts, CancelledOrder
<1>4. orders[o] # None /\ orders'[o] # None
  BY <1>1, <1>3, WalletAssumption
<1>5. IsFiniteSet(Sold)'
  <2>1. Sold' = Sold
    BY <1>3, <1>4 DEF Sold
  <2> QED
    BY <2>1 DEF StockInv
<1>6. ASSUME NEW p \in Products
      PROVE  OpeningStock[p] = stock'[p] + SumFunction(Taken(p)')
  <2>1. /\ OpeningStock[p] = stock[p] + SumFunction(Taken(p))
        /\ SumFunction(Taken(p)) \in Int /\ stock[p] \in Int
    BY <1>2, TakenIsSummable, SumIsWhole DEF StockInv, StockConserved, Taken
  <2>2. CASE p = q
    <3>1. o \in Standing(p) /\ Standing(p)' = Standing(p) \ {o}
      BY <1>1, <1>3, <1>4, <2>2 DEF Standing
    <3>2. \A i \in Standing(p)' : orders'[i].qty = orders[i].qty
      BY <1>3, <3>1 DEF Standing
    <3>3. SumFunction(Taken(p)) = orders[o].qty + SumFunction(Taken(p)')
      BY <1>5, <3>1, <3>2, OneFewerStands DEF StockInv
    <3>4. SumFunction(Taken(p)') \in Int
      <4>1. (Summable(Taken(p)))'
        BY <1>5, TakenIsSummable, PTL
      <4>2. Summable(Taken(p)')
        BY <4>1 DEF Summable
      <4> QED
        BY <4>2, SumIsWhole
    <3>5. stock'[p] = stock[p] + orders[o].qty
      BY <1>1, <1>2, <2>2
    <3> QED
      BY <1>1, <2>1, <3>3, <3>4, <3>5
  <2>3. CASE p # q
    <3>1. Standing(p)' = Standing(p)
      BY <1>1, <1>3, <1>4, <2>3 DEF Standing
    <3>2. \A i \in Standing(p) : orders'[i].qty = orders[i].qty
      BY <1>3, <2>3 DEF Standing
    <3>3. stock'[p] = stock[p]
      BY <1>1, <1>2, <2>3
    <3> QED
      BY <2>1, <3>1, <3>2, <3>3, SameStand
  <2> QED
    BY <2>2, <2>3
<1> QED
  BY <1>5, <1>6 DEF StockInv, StockConserved, Taken

\* No other step touches shelf or order.
LEMMA StockStep ==
    ASSUME TypeOK, TypeOK', StockInv, [AnyCall]_vars
    PROVE  StockInv'
<1>1. ASSUME UNCHANGED <<stock, orders>> PROVE StockInv'
  <2>1. Sold' = Sold /\ \A p : Standing(p)' = Standing(p)
    BY <1>1 DEF Sold, Standing
  <2>2. \A p : SumFunction(Taken(p))' = SumFunction(Taken(p))
    BY <1>1, <2>1, SameStand
  <2> QED
    BY <1>1, <2>1, <2>2 DEF StockInv, StockConserved, Taken
<1>2. ASSUME NEW c \in TopUps, CreditWalletTopup(c) PROVE StockInv'
  BY <1>1, <1>2 DEF CreditWalletTopup
<1>3. ASSUME NEW o \in OrderIds, WindowLapses(o) \/ SettleReversal(o) PROVE StockInv'
  BY <1>1, <1>3 DEF WindowLapses, SettleReversal
<1>4. CASE UNCHANGED vars
  BY <1>1, <1>4 DEF vars
<1> QED
  BY <1>2, <1>3, <1>4, SaleMovesStock, CancellationMovesStock DEF AnyCall

\* Nothing is sold at first, and the shelves are full.
LEMMA StockInit == Init => StockInv
<1> SUFFICES ASSUME Init PROVE StockInv
  OBVIOUS
<1>1. Sold = {} /\ \A p : Standing(p) = {}
  BY DEF Init, Sold, Standing
<1>2. \A p : SumFunction(Taken(p)) = 0
  BY <1>1, SumOfNothing DEF Taken
<1>3. \A p \in Products : stock[p] = OpeningStock[p] /\ OpeningStock[p] \in Nat
  BY WalletAssumption DEF Init
<1> QED
  BY <1>1, <1>2, <1>3, FS_EmptySet DEF StockInv, StockConserved, Taken

\* What is missing from a shelf is what the orders standing for it took, through
\* every purchase of fulfill_wallet_order and every restock of refund_wallet_order.
THEOREM StockIsConserved == Spec => []StockConserved
<1>1. TypeOK /\ TypeOK' /\ StockInv /\ [Next]_vars => StockInv'
  BY NextIsAnyCall, StockStep
<1> QED
  BY <1>1, StockInit, TypeCorrect, PTL DEF Spec, StockInv
=============================================================================
