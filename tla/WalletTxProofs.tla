--------------------------- MODULE WalletTxProofs ---------------------------
(***************************************************************************)
(* The interleaved wallet functions implement the atomic ones, for any      *)
(* number of sessions, accounts, products and keys.  The argument is that   *)
(* of two-phase locking: a session keeps every lock it has taken until its  *)
(* transaction ends, no lock is held twice, and what a session read under   *)
(* its locks still stands when it writes.  No waiting goes round in a       *)
(* circle, because locks are taken in one order.                            *)
(***************************************************************************)
EXTENDS WalletTx, WalletLedgerProofs

\* Where each statement stands in each function.
AccountAt(s) == IF Kind(s) = "topup" THEN 3 ELSE 4
LastAt(s) == IF Kind(s) = "topup" THEN 4 ELSE 6

\* Which statement a session runs says how far its transaction has come.
LEMMA Statements ==
    ASSUME NEW s \in Sessions, at[s] \in DOMAIN Route(Kind(s))
    PROVE  /\ Kind(s) \in Kinds /\ at[s] \in 1..LastAt(s)
           /\ DOMAIN Route(Kind(s)) = 1..LastAt(s)
           /\ Doing(s, "begin") => at[s] = 1
           /\ Doing(s, "advisory") => Kind(s) = "purchase" /\ at[s] = 2
           /\ Doing(s, "key") => at[s] = IF Kind(s) = "purchase" THEN 3 ELSE 2
           /\ Doing(s, "order") => Kind(s) = "refund" /\ at[s] = 3
           /\ Doing(s, "account") => at[s] = AccountAt(s)
           /\ Doing(s, "product") => at[s] = IF Kind(s) = "refund" THEN 6 ELSE 5
           /\ Doing(s, "entry") => at[s] = IF Kind(s) = "refund" THEN 5 ELSE LastAt(s)
<1>1. Kind(s) \in Kinds
  BY SessionAssumption DEF Kind
<1>2. CASE Kind(s) = "topup"
  <2>1. Route(Kind(s)) = <<"begin", "key", "account", "entry">>
    BY <1>2 DEF Route
  <2>2. DOMAIN Route(Kind(s)) = 1..4
    BY <2>1
  <2>3. at[s] \in {1, 2, 3, 4}
    BY <2>2
  <2>4. /\ Route(Kind(s))[1] = "begin"
        /\ Route(Kind(s))[2] = "key"
        /\ Route(Kind(s))[3] = "account"
        /\ Route(Kind(s))[4] = "entry"
    BY <2>1
  <2> QED
    BY <1>1, <1>2, <2>2, <2>3, <2>4 DEF Doing, AccountAt, LastAt
<1>3. CASE Kind(s) = "purchase"
  <2>1. Route(Kind(s)) = <<"begin", "advisory", "key", "account", "product", "entry">>
    BY <1>3 DEF Route
  <2>2. DOMAIN Route(Kind(s)) = 1..6
    BY <2>1
  <2>3. at[s] \in {1, 2, 3, 4, 5, 6}
    BY <2>2
  <2>4. /\ Route(Kind(s))[1] = "begin"
        /\ Route(Kind(s))[2] = "advisory"
        /\ Route(Kind(s))[3] = "key"
        /\ Route(Kind(s))[4] = "account"
        /\ Route(Kind(s))[5] = "product"
        /\ Route(Kind(s))[6] = "entry"
    BY <2>1
  <2> QED
    BY <1>1, <1>3, <2>2, <2>3, <2>4 DEF Doing, AccountAt, LastAt
<1>4. CASE Kind(s) = "refund"
  <2>1. Route(Kind(s)) = <<"begin", "key", "order", "account", "entry", "product">>
    BY <1>4 DEF Route
  <2>2. DOMAIN Route(Kind(s)) = 1..6
    BY <2>1
  <2>3. at[s] \in {1, 2, 3, 4, 5, 6}
    BY <2>2
  <2>4. /\ Route(Kind(s))[1] = "begin"
        /\ Route(Kind(s))[2] = "key"
        /\ Route(Kind(s))[3] = "order"
        /\ Route(Kind(s))[4] = "account"
        /\ Route(Kind(s))[5] = "entry"
        /\ Route(Kind(s))[6] = "product"
    BY <2>1
  <2> QED
    BY <1>1, <1>4, <2>2, <2>3, <2>4 DEF Doing, AccountAt, LastAt
<1> QED
  BY <1>1, <1>2, <1>3, <1>4 DEF Kinds

-----------------------------------------------------------------------------
\* What a session has locked and found by the statement it is at.
Running(s) == reply[s] = ""
HasOrder(s) == Running(s) /\ Kind(s) = "refund" /\ at[s] > 3
HasAccount(s) == Running(s) /\ at[s] > AccountAt(s)
HasProduct(s) == Running(s) /\ Kind(s) = "purchase" /\ at[s] > 5
HasEntry(s) == Running(s) /\ Kind(s) = "refund" /\ at[s] > 5

OrderStands(s) ==
    LET o == Request[s].order
    IN  /\ OrderLock(s) \in holds[s]
        /\ orders[o] # None /\ orders[o].account = Request[s].account
        /\ orders[o].status = "fulfilled_via_wallet" /\ o \notin began[s]
BalanceStands(s) ==
    /\ AccountLock(s) \in holds[s]
    /\ read[s] = balance[Request[s].account]
    /\ Kind(s) = "purchase" => balance[Request[s].account] >= Request[s].final
PriceStands(s) ==
    /\ ProductLock(s) \in holds[s]
    /\ DiscountIsFunded(PurchaseOf(s)) /\ stock[Request[s].product] >= Request[s].qty
KeyStands(s) == Entry(s) \in holds[s] /\ KeyIsFree(Request[s].key)

Stands(s) ==
    /\ HasOrder(s) => OrderStands(s)
    /\ HasAccount(s) => BalanceStands(s)
    /\ HasProduct(s) => PriceStands(s)
    /\ HasEntry(s) => KeyStands(s)
Apart == \A s, t \in Sessions : s # t => holds[s] \cap holds[t] = {}

TxInv == Apart /\ \A s \in Sessions : Stands(s)

\* Sessions that have not begun hold nothing and have read nothing.
LEMMA TxInitHolds == TxInit => TxTypeOK /\ TxInv
<1> SUFFICES ASSUME TxInit PROVE TxTypeOK /\ TxInv
  OBVIOUS
<1>1. TypeOK
  <2>1. Init
    BY DEF TxInit
  <2> QED
    BY <2>1, WalletAssumption DEF Init, TypeOK
<1>2. \A s \in Sessions : at[s] = 1 /\ holds[s] = {} /\ read[s] = 0 /\ began[s] = {} /\ reply[s] = ""
  BY DEF TxInit
<1>3. \A s \in Sessions : 1 \in DOMAIN Route(Kind(s))
  BY SessionAssumption DEF Route, Kind, Kinds
<1>4. TxTypeOK
  BY <1>1, <1>2, <1>3 DEF TxInit, TxTypeOK
<1>5. \A s \in Sessions : Stands(s)
  <2> SUFFICES ASSUME NEW s \in Sessions PROVE Stands(s)
    OBVIOUS
  <2>1. ~(at[s] > 3) /\ ~(at[s] > 4) /\ ~(at[s] > 5)
    <3>1. at[s] = 1
      BY <1>2, Zenon
    <3> QED
      BY <3>1
  <2> QED
    BY <2>1 DEF Stands, HasOrder, HasAccount, HasProduct, HasEntry, AccountAt
<1> QED
  BY <1>2, <1>4, <1>5 DEF TxInv, Apart

-----------------------------------------------------------------------------
\* Counting one further.
LEMMA OneFurther ==
    ASSUME NEW n \in Nat, NEW i
    PROVE  /\ i \in 1..(n + 1) => i \in 1..n \/ i = n + 1
           /\ i \in 1..n /\ i < n => i + 1 \in 1..n
           /\ n + 1 \in Nat
OBVIOUS

\* Between two states of a table, only row x may have moved.
OnlyAt(new, old, S, x) == \A y \in S : y # x => new[y] = old[y]

\* What a write by session s leaves standing for session t, which holds none of the locks
\* that cover what is written.
LEMMA OthersStand ==
    ASSUME TypeOK, NEW s \in Sessions, NEW t \in Sessions,
           NEW account, NEW product, NEW order, NEW key, NEW row,
           row.key = key, ledger' = Append(ledger, row), row \in LedgerRow,
           OnlyAt(balance', balance, Accounts, account),
           OnlyAt(stock', stock, Products, product),
           OnlyAt(orders', orders, OrderIds, order),
           order \in OrderIds =>
               /\ orders[order] # None => orders[order].account = account
               /\ orders'[order] # None => orders'[order].account = account,
           <<"account", account>> \notin holds[t],
           stock' # stock => <<"product", product>> \notin holds[t],
           orders' # orders /\ orders[order] # None => <<"order", order>> \notin holds[t],
           <<"entry", key>> \notin holds[t],
           Stands(t), at[t] \in Nat,
           at'[t] = at[t], holds'[t] = holds[t], read'[t] = read[t], began'[t] = began[t],
           reply'[t] = reply[t]
    PROVE  Stands(t)'
<1> DEFINE a == Request[t].account
<1>0. /\ HasOrder(t)' = HasOrder(t) /\ HasAccount(t)' = HasAccount(t)
      /\ HasProduct(t)' = HasProduct(t) /\ HasEntry(t)' = HasEntry(t)
  BY DEF HasOrder, HasAccount, HasProduct, HasEntry, Running, AccountAt
<1>1. Request[t].account \in Accounts
  BY SessionAssumption, WalletAssumption
     DEF TopUpOf, PurchaseOf, TopUpCall, PurchaseCall, Kinds
<1>2. ASSUME HasAccount(t) PROVE BalanceStands(t)' /\ a # account
  BY <1>1, <1>2 DEF Stands, BalanceStands, AccountLock, Kind, OnlyAt
<1>3. ASSUME HasOrder(t) PROVE OrderStands(t)'
  <2>1. Request[t].order \in OrderIds
    BY <1>3, SessionAssumption DEF HasOrder, Kind
  <2>2. orders[Request[t].order] # None /\ <<"order", Request[t].order>> \in holds[t]
    BY <1>3 DEF Stands, OrderStands, OrderLock
  <2>3. orders'[Request[t].order] = orders[Request[t].order]
    BY <2>1, <2>2 DEF OnlyAt
  <2> QED
    BY <1>3, <2>3 DEF Stands, OrderStands, OrderLock
<1>4. ASSUME HasEntry(t) PROVE KeyStands(t)'
  <2>1. Request[t].key # key /\ KeyIsFree(Request[t].key)
    BY <1>4 DEF Stands, KeyStands, Entry
  <2>2. \A i \in DOMAIN ledger' : ledger'[i].key = key \/ (i \in DOMAIN ledger /\ ledger'[i] = ledger[i])
    <3>1. /\ Len(ledger) \in Nat /\ DOMAIN ledger = 1..Len(ledger)
          /\ DOMAIN ledger' = 1..(Len(ledger) + 1)
          /\ \A i \in DOMAIN ledger : ledger'[i] = ledger[i]
          /\ ledger'[Len(ledger) + 1] = row
      BY LedgerAppend DEF TypeOK
    <3>2. ASSUME NEW i \in DOMAIN ledger', i \notin DOMAIN ledger PROVE ledger'[i].key = key
      <4>1. i \in 1..(Len(ledger) + 1) /\ i \notin 1..Len(ledger)
        BY <3>1, <3>2, Zenon
      <4>2. i = Len(ledger) + 1
        BY <3>1, <4>1, OneFurther, Zenon
      <4> QED
        BY <3>1, <4>2, Zenon
    <3> QED
      BY <3>1, <3>2, Zenon
  <2>3. KeyIsFree(Request[t].key)'
    BY <2>1, <2>2 DEF KeyIsFree
  <2> QED
    BY <1>4, <2>3 DEF Stands, KeyStands, Entry
<1>5. ASSUME HasProduct(t) PROVE PriceStands(t)'
  <2>1. HasAccount(t) /\ a # account
    <3>1. HasAccount(t)
      BY <1>5 DEF HasProduct, HasAccount, AccountAt
    <3> QED
      BY <1>2, <3>1
  <2>2. /\ Request[t].product \in Products /\ ProductLock(t) = <<"product", Request[t].product>>
        /\ ProductLock(t)' = ProductLock(t)
    BY <1>5, SessionAssumption, WalletAssumption
       DEF HasProduct, PurchaseOf, PurchaseCall, ProductLock, Kind
  <2>3. stock'[Request[t].product] = stock[Request[t].product]
    BY <1>5, <2>2 DEF Stands, PriceStands, OnlyAt
  <2>4. StandingOrders(a)' = StandingOrders(a)
    BY <2>1 DEF StandingOrders, StandingIds, OnlyAt
  <2>5. \A o \in StandingOrders(a) : orders'[o] = orders[o]
    BY <2>1 DEF StandingOrders, StandingIds, OnlyAt
  <2>6. Spend(a)' = Spend(a)
    BY <2>4, <2>5 DEF Spend, SpendOver
  <2>7. Chosen(a)' = Chosen(a)
    BY <2>4, <2>6 DEF Chosen, Earned
  <2>8. PurchaseOf(t).account = a
    BY DEF PurchaseOf
  <2>9. DiscountIsFunded(PurchaseOf(t))' = DiscountIsFunded(PurchaseOf(t))
    BY <2>7, <2>8 DEF DiscountIsFunded, MinimumAllowed, Entitlement
  <2> QED
    BY <1>5, <2>2, <2>3, <2>9 DEF Stands, PriceStands
<1> QED
  BY <1>0, <1>2, <1>3, <1>4, <1>5 DEF Stands

-----------------------------------------------------------------------------
\* While the tables do not move, what a session found stands as long as it keeps its locks
\* and what it remembers.
LEMMA StillStands ==
    ASSUME UNCHANGED vars, NEW s \in Sessions,
           holds[s] \subseteq holds'[s], read'[s] = read[s], began'[s] = began[s]
    PROVE  /\ OrderStands(s) => OrderStands(s)'
           /\ BalanceStands(s) => BalanceStands(s)'
           /\ PriceStands(s) => PriceStands(s)'
           /\ KeyStands(s) => KeyStands(s)'
<1>0. balance' = balance /\ stock' = stock /\ orders' = orders /\ ledger' = ledger
  BY DEF vars
<1>1. OrderStands(s) => OrderStands(s)'
  BY <1>0 DEF OrderStands, OrderLock
<1>2. BalanceStands(s) => BalanceStands(s)'
  BY <1>0 DEF BalanceStands, AccountLock
<1>3. PriceStands(s) => PriceStands(s)'
  BY <1>0, ZenonT(60) DEF PriceStands, ProductLock, DiscountIsFunded, MinimumAllowed, Entitlement, Chosen,
              Earned, StandingOrders, StandingIds, Spend, SpendOver
<1>4. KeyStands(s) => KeyStands(s)'
  BY <1>0 DEF KeyStands, Entry, KeyIsFree
<1> QED
  BY <1>1, <1>2, <1>3, <1>4

\* A step that moves no table and disturbs one session only.
LEMMA QuietMove ==
    ASSUME TxInv, UNCHANGED vars, NEW s \in Sessions, NEW locks,
           \A t \in Sessions : t # s =>
               /\ at'[t] = at[t] /\ holds'[t] = holds[t] /\ read'[t] = read[t]
               /\ began'[t] = began[t] /\ reply'[t] = reply[t] /\ locks \cap holds[t] = {},
           holds'[s] \subseteq holds[s] \cup locks, Stands(s)'
    PROVE  TxInv'
<1>1. ASSUME NEW t \in Sessions, t # s PROVE Stands(t)'
  <2>1. Stands(t)
    BY DEF TxInv
  <2>2. /\ HasOrder(t)' = HasOrder(t) /\ HasAccount(t)' = HasAccount(t)
        /\ HasProduct(t)' = HasProduct(t) /\ HasEntry(t)' = HasEntry(t)
    BY <1>1 DEF HasOrder, HasAccount, HasProduct, HasEntry, Running, AccountAt
  <2>3. holds[t] \subseteq holds'[t] /\ read'[t] = read[t] /\ began'[t] = began[t]
    BY <1>1
  <2>4. /\ OrderStands(t) => OrderStands(t)'
        /\ BalanceStands(t) => BalanceStands(t)'
        /\ PriceStands(t) => PriceStands(t)'
        /\ KeyStands(t) => KeyStands(t)'
    BY <2>3, StillStands
  <2> QED
    BY <2>1, <2>2, <2>4 DEF Stands
<1>2. Apart'
  BY DEF TxInv, Apart
<1> QED
  BY <1>1, <1>2 DEF TxInv

\* A transaction that ends having written nothing.
LEMMA AnswerKeeps ==
    ASSUME TxTypeOK, TxInv, UNCHANGED vars, NEW s \in Sessions,
           NEW answer \in {"approved", "duplicate", "refused", "violation", "unanswered"},
           Answer(s, answer)
    PROVE  TxTypeOK' /\ TxInv'
<1>1. reply'[s] = answer /\ holds'[s] = {}
  BY DEF Answer, TxTypeOK
<1>2. /\ DOMAIN holds' = Sessions /\ at' = at /\ read' = read /\ began' = began /\ lapsed' = lapsed
      /\ reply' \in [Sessions -> {"", "approved", "duplicate", "refused", "violation", "unanswered"}]
  BY DEF Answer, TxTypeOK, vars
<1>3. \A t \in Sessions : t # s => holds'[t] = holds[t] /\ reply'[t] = reply[t]
  BY DEF Answer, TxTypeOK
<1>4. TypeOK'
  BY DEF TxTypeOK, TypeOK, vars
<1>5. Stands(s)'
  BY <1>1 DEF Stands, HasOrder, HasAccount, HasProduct, HasEntry, Running
<1>6. TxInv'
  <2>1. \A t \in Sessions : {} \cap holds[t] = {}
    OBVIOUS
  <2> QED
    BY <1>1, <1>2, <1>3, <1>5, <2>1, QuietMove
<1>7. ASSUME NEW t \in Sessions
      PROVE  /\ at'[t] \in DOMAIN Route(Kind(t)) /\ began'[t] \subseteq lapsed'
             /\ reply'[t] # "" => holds'[t] = {}
  BY <1>1, <1>2, <1>3 DEF TxTypeOK
<1> QED
  BY <1>2, <1>4, <1>6, <1>7 DEF TxTypeOK

\* A statement that takes its locks and goes on to the next.
LEMMA GoOnKeeps ==
    ASSUME TxTypeOK, TxInv, UNCHANGED vars, NEW s \in Sessions, NEW locks,
           GoOn(s, locks), reply[s] = "", at[s] < LastAt(s),
           \A t \in Sessions : t # s => locks \cap holds[t] = {},
           read' \in [Sessions -> Nat], DOMAIN began' = Sessions,
           \A t \in Sessions : t # s => read'[t] = read[t] /\ began'[t] = began[t],
           began'[s] \subseteq lapsed, Stands(s)'
    PROVE  TxTypeOK' /\ TxInv'
<1>1. /\ at'[s] = at[s] + 1 /\ holds'[s] = holds[s] \cup locks
      /\ \A t \in Sessions : t # s => at'[t] = at[t] /\ holds'[t] = holds[t]
      /\ DOMAIN holds' = Sessions /\ reply' = reply /\ at' \in [Sessions -> Nat]
  <2>1. at[s] + 1 \in Nat
    <3>1. at[s] \in Nat
      <4>1. at \in [Sessions -> Nat]
        BY DEF TxTypeOK
      <4> QED
        BY <4>1, Zenon
    <3> QED
      BY <3>1, OneFurther, Zenon
  <2> QED
    BY <2>1 DEF GoOn, TxTypeOK
<1>2. TypeOK'
  BY DEF TxTypeOK, TypeOK, vars
<1>3. TxInv'
  BY <1>1, QuietMove
<1>4. at'[s] \in DOMAIN Route(Kind(s))
  <2>1. at[s] \in DOMAIN Route(Kind(s))
    BY DEF TxTypeOK
  <2>2. DOMAIN Route(Kind(s)) = 1..LastAt(s) /\ at[s] \in 1..LastAt(s) /\ LastAt(s) \in Nat
    <3>1. LastAt(s) \in Nat
      BY DEF LastAt
    <3> QED
      BY <2>1, <3>1, Statements
  <2>3. at[s] + 1 \in 1..LastAt(s)
    BY <2>2, OneFurther
  <2> QED
    BY <1>1, <2>2, <2>3
<1>5. ASSUME NEW t \in Sessions
      PROVE  /\ at'[t] \in DOMAIN Route(Kind(t)) /\ began'[t] \subseteq lapsed'
             /\ reply'[t] # "" => holds'[t] = {}
  <2>1. lapsed' = lapsed
    BY DEF vars
  <2>2. CASE t = s
    BY <1>1, <1>4, <2>1, <2>2
  <2>3. CASE t # s
    BY <1>1, <2>1, <2>3 DEF TxTypeOK
  <2> QED
    BY <2>2, <2>3
<1> QED
  BY <1>1, <1>2, <1>3, <1>5 DEF TxTypeOK

\* A transaction that ends having written, and left the others what they had found.
LEMMA CommitKeeps ==
    ASSUME TxTypeOK, TxInv, TypeOK', lapsed' = lapsed, NEW s \in Sessions, Commit(s),
           \A t \in Sessions : t # s => Stands(t)'
    PROVE  TxTypeOK' /\ TxInv'
<1>0. PICK answer \in {"approved", "unanswered"} : Answer(s, answer)
  BY DEF Commit
<1>1. reply'[s] = answer /\ holds'[s] = {}
  BY <1>0 DEF Answer, TxTypeOK
<1>2. /\ DOMAIN holds' = Sessions /\ at' = at /\ read' = read /\ began' = began
      /\ reply' \in [Sessions -> {"", "approved", "duplicate", "refused", "violation", "unanswered"}]
  BY <1>0 DEF Answer, TxTypeOK
<1>3. \A t \in Sessions : t # s => holds'[t] = holds[t] /\ reply'[t] = reply[t]
  BY <1>0 DEF Answer, TxTypeOK
<1>4. Stands(s)'
  BY <1>1 DEF Stands, HasOrder, HasAccount, HasProduct, HasEntry, Running
<1>5. Apart'
  BY <1>1, <1>3 DEF TxInv, Apart
<1>6. TxInv'
  BY <1>4, <1>5 DEF TxInv
<1>7. ASSUME NEW t \in Sessions
      PROVE  /\ at'[t] \in DOMAIN Route(Kind(t)) /\ began'[t] \subseteq lapsed'
             /\ reply'[t] # "" => holds'[t] = {}
  BY <1>1, <1>2, <1>3 DEF TxTypeOK
<1> QED
  BY <1>2, <1>6, <1>7 DEF TxTypeOK

-----------------------------------------------------------------------------
\* What a session going on has done.
LEMMA Onward ==
    ASSUME TxTypeOK, NEW s \in Sessions, NEW locks, GoOn(s, locks)
    PROVE  /\ at[s] \in Nat /\ at'[s] = at[s] + 1
           /\ holds'[s] = holds[s] \cup locks /\ holds[s] \subseteq holds'[s] /\ reply' = reply
  BY DEF GoOn, TxTypeOK

\* The facts about its request a session relies on.
LEMMA Requested ==
    ASSUME NEW s \in Sessions
    PROVE  /\ Request[s].account \in Accounts /\ Request[s].key \in Keys
           /\ Kind(s) = "topup" => TopUpOf(s) \in TopUps /\ TopUpOf(s).amount > 0
           /\ Kind(s) = "purchase" =>
                /\ PurchaseOf(s) \in Purchases /\ AmountsAreReal(PurchaseOf(s))
                /\ Request[s].order \in OrderIds /\ Request[s].product \in Products
           /\ Kind(s) = "refund" => Request[s].order \in OrderIds
  BY SessionAssumption, WalletAssumption
     DEF TopUpOf, PurchaseOf, TopUpCall, PurchaseCall, Kinds, Kind

\* What the others keep when a session posts to its account.
LEMMA PostingStands ==
    ASSUME TxTypeOK, TxInv, TypeOK', NEW s \in Sessions, NEW t \in Sessions, t # s,
           NEW product, NEW order, NEW entry, NEW amount, NEW after,
           Post(Request[s].key, Request[s].account, order, entry, amount, after),
           HasAccount(s), <<"entry", Request[s].key>> \notin holds[t], Commit(s),
           OnlyAt(stock', stock, Products, product),
           OnlyAt(orders', orders, OrderIds, order),
           order \in OrderIds =>
               /\ orders[order] # None => orders[order].account = Request[s].account
               /\ orders'[order] # None => orders'[order].account = Request[s].account,
           stock' # stock => <<"product", product>> \notin holds[t],
           orders' # orders /\ orders[order] # None => <<"order", order>> \notin holds[t]
    PROVE  Stands(t)'
<1> DEFINE row == [key |-> Request[s].key, account |-> Request[s].account, order |-> order,
                   entry |-> entry, amount |-> amount, after |-> after]
           account == Request[s].account
           key == Request[s].key
<1>1. row.key = key /\ ledger' = Append(ledger, row)
  BY DEF Post
<1>2. row \in LedgerRow
  <2>1. ledger \in Seq(LedgerRow) /\ ledger' \in Seq(LedgerRow)
    BY DEF TxTypeOK, TypeOK
  <2> HIDE DEF row
  <2>2. Len(ledger) + 1 \in DOMAIN ledger' /\ ledger'[Len(ledger) + 1] = row
    BY <1>1, <2>1
  <2> QED
    BY <2>1, <2>2
<1>3. OnlyAt(balance', balance, Accounts, account)
  BY DEF Post, TxTypeOK, TypeOK, OnlyAt
<1>4. AccountLock(s) \in holds[s] /\ holds[s] \cap holds[t] = {}
  BY DEF TxInv, Stands, BalanceStands, Apart
<1>5. <<"account", account>> \notin holds[t]
  BY <1>4 DEF AccountLock
<1>6. <<"entry", key>> \notin holds[t]
  OBVIOUS
<1>7. /\ at'[t] = at[t] /\ holds'[t] = holds[t] /\ read'[t] = read[t] /\ began'[t] = began[t]
      /\ reply'[t] = reply[t]
  BY DEF Commit, Answer, TxTypeOK
<1>8. TypeOK /\ Stands(t) /\ at[t] \in Nat
  BY DEF TxTypeOK, TxInv
<1> HIDE DEF row, account, key
<1>9. order \in OrderIds =>
        /\ orders[order] # None => orders[order].account = account
        /\ orders'[order] # None => orders'[order].account = account
  BY DEF account
<1> QED
  BY <1>1, <1>2, <1>3, <1>5, <1>6, <1>7, <1>8, <1>9, OthersStand

\* A top-up that writes is credit_wallet_topup run alone.
LEMMA TopUpWrites ==
    ASSUME TxTypeOK, TxInv, NEW s \in Sessions, Kind(s) = "topup", InsertEntry(s),
           KeyIsFree(Request[s].key)
    PROVE  TxTypeOK' /\ TxInv' /\ Next
<1> DEFINE c == TopUpOf(s)
<1>1. c \in TopUps /\ c.amount > 0 /\ c.account = Request[s].account /\ c.key = Request[s].key
      /\ c.amount = Request[s].final
  BY Requested DEF TopUpOf
<1>2. HasAccount(s) /\ Free(s, Entry(s))
  <2>1. reply[s] = "" /\ at[s] = 4
    BY Statements DEF InsertEntry, TxTypeOK, Doing, LastAt
  <2>2. at[s] > 3
    <3>1. at[s] = 4
      BY <2>1, Zenon
    <3> QED
      BY <3>1
  <2>3. Free(s, Entry(s))
    BY DEF InsertEntry
  <2> QED
    BY <2>1, <2>2, <2>3 DEF HasAccount, Running, AccountAt
<1>3. read[s] = balance[c.account]
  BY <1>1, <1>2 DEF TxInv, Stands, BalanceStands
<1>4. /\ Post(Request[s].key, Request[s].account, None, "topup",
              Request[s].final, read[s] + Request[s].final)
      /\ UNCHANGED <<stock, orders, revenue, reversals, lapsed>> /\ Commit(s)
  BY DEF InsertEntry
<1>5. CreditWalletTopup(c)
  BY <1>1, <1>3, <1>4 DEF CreditWalletTopup
<1>6. Next
  BY <1>1, <1>5 DEF Next
<1>7. TypeOK'
  BY <1>6, TypeOKStep DEF TxTypeOK
<1>8. ASSUME NEW t \in Sessions, t # s PROVE Stands(t)'
  <2>1. None \notin OrderIds
    BY WalletAssumption
  <2>2. /\ stock' = stock /\ orders' = orders
        /\ OnlyAt(stock', stock, Products, None) /\ OnlyAt(orders', orders, OrderIds, None)
    BY <1>4 DEF OnlyAt
  <2>3. <<"entry", Request[s].key>> \notin holds[t]
    BY <1>2 DEF Free, Entry
  <2> QED
    BY <1>2, <1>4, <1>7, <1>8, <2>1, <2>2, <2>3, PostingStands
<1> QED
  BY <1>4, <1>6, <1>7, <1>8, CommitKeeps

\* A purchase that writes is fulfill_wallet_order run alone.
LEMMA PurchaseWrites ==
    ASSUME TxTypeOK, TxInv, NEW s \in Sessions, Kind(s) = "purchase", InsertEntry(s),
           KeyIsFree(Request[s].key)
    PROVE  TxTypeOK' /\ TxInv' /\ Next
<1> DEFINE c == PurchaseOf(s)
           o == Request[s].order
<1>1. c \in Purchases /\ AmountsAreReal(c) /\ o \in OrderIds /\ c.product \in Products
      /\ c.account = Request[s].account /\ c.key = Request[s].key
      /\ c.product = Request[s].product /\ c.qty = Request[s].qty /\ c.final = Request[s].final
  BY Requested DEF PurchaseOf
<1>2. HasAccount(s) /\ HasProduct(s) /\ Free(s, Entry(s))
  <2>1. reply[s] = "" /\ at[s] = 6
    BY Statements DEF InsertEntry, TxTypeOK, Doing, LastAt
  <2>2. at[s] > 4 /\ at[s] > 5
    <3>1. at[s] = 6
      BY <2>1, Zenon
    <3> QED
      BY <3>1
  <2>3. Free(s, Entry(s))
    BY DEF InsertEntry
  <2> QED
    BY <2>1, <2>2, <2>3 DEF HasAccount, HasProduct, Running, AccountAt
<1>3. read[s] = balance[c.account] /\ balance[c.account] >= c.final
      /\ DiscountIsFunded(c) /\ stock[c.product] >= c.qty /\ ProductLock(s) \in holds[s]
  BY <1>1, <1>2 DEF TxInv, Stands, BalanceStands, PriceStands
<1>4. RecordSale(c, o, read[s]) /\ Commit(s)
  BY DEF InsertEntry
<1>5. FulfillWalletOrder(c, o)
  BY <1>1, <1>3, <1>4 DEF FulfillWalletOrder, Fulfillable
<1>6. Next
  BY <1>1, <1>5 DEF Next
<1>7. TypeOK'
  BY <1>6, TypeOKStep DEF TxTypeOK
<1>8. ASSUME NEW t \in Sessions, t # s PROVE Stands(t)'
  <2>1. /\ orders[o] = None
        /\ Post(c.key, c.account, o, "purchase_debit", c.final, read[s] - c.final)
        /\ stock' = [stock EXCEPT ![c.product] = @ - c.qty]
        /\ orders' = [orders EXCEPT ![o] =
                [account |-> c.account, product |-> c.product, qty |-> c.qty,
                 amount |-> c.final, status |-> "fulfilled_via_wallet"]]
    BY <1>4 DEF RecordSale
  <2>2. /\ \A p \in Products : p # c.product => stock'[p] = stock[p]
        /\ \A p \in OrderIds : p # o => orders'[p] = orders[p]
        /\ orders'[o].account = c.account
    BY <1>1, <2>1 DEF TxTypeOK, TypeOK
  <2>3. <<"product", c.product>> \notin holds[t]
    <3>1. ProductLock(s) = <<"product", c.product>>
      BY <1>1 DEF ProductLock
    <3>2. holds[s] \cap holds[t] = {}
      BY <1>8 DEF TxInv, Apart
    <3> QED
      BY <1>3, <3>1, <3>2
  <2>4. Post(Request[s].key, Request[s].account, o, "purchase_debit", c.final, read[s] - c.final)
    BY <1>1, <2>1
  <2>5. <<"entry", Request[s].key>> \notin holds[t]
    BY <1>2 DEF Free, Entry
  <2>6. orders[o] = None /\ orders'[o].account = Request[s].account
    BY <1>1, <2>1, <2>2
  <2>7. HasAccount(s) /\ Commit(s)
    BY <1>2, <1>4
  <2> DEFINE product == c.product
             amount == c.final
             after == read[s] - c.final
  <2>8. /\ Post(Request[s].key, Request[s].account, o, "purchase_debit", amount, after)
        /\ OnlyAt(stock', stock, Products, product)
        /\ <<"product", product>> \notin holds[t]
    BY <2>2, <2>3, <2>4 DEF OnlyAt
  <2>9. OnlyAt(orders', orders, OrderIds, o)
    BY <2>2 DEF OnlyAt
  <2>10. o \in OrderIds =>
           /\ orders[o] # None => orders[o].account = Request[s].account
           /\ orders'[o] # None => orders'[o].account = Request[s].account
    BY <2>6
  <2>11. /\ stock' # stock => <<"product", product>> \notin holds[t]
         /\ orders' # orders /\ orders[o] # None => <<"order", o>> \notin holds[t]
    BY <2>6, <2>8
  <2> HIDE DEF c, o, product, amount, after
  <2> QED
    BY <1>7, <1>8, <2>5, <2>7, <2>8, <2>9, <2>10, <2>11, PostingStands
<1>9. lapsed' = lapsed
  BY <1>4 DEF RecordSale
<1> QED
  BY <1>4, <1>6, <1>7, <1>8, <1>9, CommitKeeps

\* A refund that writes is refund_wallet_order run alone, judged by the windows that had
\* lapsed when its transaction began.
LEMMA RefundWrites ==
    ASSUME TxTypeOK, TxInv, NEW s \in Sessions, Restock(s)
    PROVE  TxTypeOK' /\ TxInv' /\ Next
<1> DEFINE o == Request[s].order
           a == Request[s].account
           k == Request[s].key
<1>1. Kind(s) = "refund" /\ o \in OrderIds /\ a \in Accounts /\ k \in Keys
  BY Requested DEF Restock
<1>2. HasOrder(s) /\ HasAccount(s) /\ HasEntry(s)
  <2>1. reply[s] = "" /\ at[s] = 6
    BY <1>1, Statements DEF Restock, TxTypeOK, Doing
  <2>2. at[s] > 3 /\ at[s] > 4 /\ at[s] > 5
    <3>1. at[s] = 6
      BY <2>1, Zenon
    <3> QED
      BY <3>1
  <2> QED
    BY <1>1, <2>1, <2>2 DEF HasAccount, HasOrder, HasEntry, Running, AccountAt
<1>3. /\ read[s] = balance[a]
      /\ OrderLock(s) \in holds[s] /\ Entry(s) \in holds[s] /\ KeyIsFree(k)
      /\ orders[o] # None /\ orders[o].account = a
      /\ orders[o].status = "fulfilled_via_wallet" /\ o \notin began[s]
  BY <1>2 DEF TxInv, Stands, BalanceStands, OrderStands, KeyStands
<1>4. RecordCancellation(a, o, k, read[s]) /\ Commit(s) /\ Free(s, ProductLock(s))
  BY DEF Restock
<1>5. RefundWalletOrder(a, o, k, began[s])
  BY <1>3, <1>4 DEF RefundWalletOrder, Refundable
<1>6. Next
  <2>1. began[s] \in SUBSET lapsed
    BY DEF TxTypeOK
  <2> HIDE DEF a, o, k
  <2> QED
    BY <1>1, <1>5, <2>1 DEF Next
<1>7. TypeOK'
  BY <1>6, TypeOKStep DEF TxTypeOK
<1>8. ASSUME NEW t \in Sessions, t # s PROVE Stands(t)'
  <2>1. /\ Post(k, a, o, "purchase_refund", orders[o].amount, read[s] + orders[o].amount)
        /\ orders' = [orders EXCEPT ![o].status = "refunded_via_wallet"]
        /\ stock' = [stock EXCEPT ![orders[o].product] = @ + orders[o].qty]
    BY <1>4 DEF RecordCancellation
  <2>2. /\ \A p \in Products : p # orders[o].product => stock'[p] = stock[p]
        /\ \A p \in OrderIds : p # o => orders'[p] = orders[p]
    BY <2>1, ZenonT(60) DEF TxTypeOK, TypeOK
  <2>3. orders'[o].account = a
    <3>1. orders[o] \in OrderRow /\ TypeOK
      BY <1>1, <1>3, RowsAreNotNone DEF TxTypeOK
    <3> QED
      BY <1>1, <1>3, <2>1, <3>1, CancelledOrder
  <2>4. holds[s] \cap holds[t] = {}
    BY <1>8 DEF TxInv, Apart
  <2>5. <<"product", orders[o].product>> \notin holds[t]
    BY <1>1, <1>4 DEF Free, ProductLock
  <2>6. <<"order", o>> \notin holds[t]
    BY <1>3, <2>4 DEF OrderLock
  <2>7. <<"entry", k>> \notin holds[t]
    BY <1>3, <2>4 DEF Entry
  <2> DEFINE product == orders[o].product
             amount == orders[o].amount
             after == read[s] + orders[o].amount
  <2>8. /\ Post(Request[s].key, Request[s].account, o, "purchase_refund", amount, after)
        /\ OnlyAt(stock', stock, Products, product) /\ OnlyAt(orders', orders, OrderIds, o)
    BY <2>1, <2>2 DEF OnlyAt
  <2>9. HasAccount(s) /\ Commit(s) /\ <<"entry", Request[s].key>> \notin holds[t]
    BY <1>2, <1>4, <2>7
  <2>10. o \in OrderIds =>
           /\ orders[o] # None => orders[o].account = Request[s].account
           /\ orders'[o] # None => orders'[o].account = Request[s].account
    BY <1>3, <2>3
  <2>11. /\ stock' # stock => <<"product", product>> \notin holds[t]
         /\ orders' # orders /\ orders[o] # None => <<"order", o>> \notin holds[t]
    BY <2>5, <2>6
  <2> HIDE DEF a, o, k, product, amount, after
  <2> QED
    BY <1>7, <1>8, <2>8, <2>9, <2>10, <2>11, PostingStands
<1>9. lapsed' = lapsed
  BY <1>4 DEF RecordCancellation
<1> QED
  BY <1>4, <1>6, <1>7, <1>8, <1>9, CommitKeeps

-----------------------------------------------------------------------------
\* How far the early statements are from the later ones.
LEMMA EarlyOn ==
    ASSUME NEW n \in Nat, NEW m, m = n + 1, n < 3 \/ n = 3
    PROVE  n < 4 /\ n < 6 /\ ~(m > 4) /\ ~(m > 5) /\ (m > 3 => n = 3) /\ ~(n < 3 /\ n = 3)
OBVIOUS

\* The early statements: nothing is found by them.
LEMMA EarlyKeeps ==
    ASSUME TxTypeOK, TxInv, NEW s \in Sessions, NEW locks, GoOn(s, locks),
           reply[s] = "", UNCHANGED <<vars, read>>, at[s] < 3 \/ (Kind(s) = "purchase" /\ at[s] = 3),
           began' = began \/ began' = [began EXCEPT ![s] = lapsed],
           \A t \in Sessions : t # s => locks \cap holds[t] = {}
    PROVE  TxTypeOK' /\ TxInv'
<1>1. at[s] \in Nat /\ at'[s] = at[s] + 1
  BY Onward
<1>2. /\ ~(at'[s] > 4) /\ ~(at'[s] > 5) /\ (at'[s] > 3 => Kind(s) = "purchase")
      /\ at[s] < 4 /\ at[s] < 6
  <2>1. at[s] < 3 \/ at[s] = 3
    BY Zenon
  <2> QED
    BY <1>1, <2>1, EarlyOn, Zenon
<1>3. ~(Kind(s) = "topup") \/ ~(at'[s] > 3)
  BY <1>2
<1>4. Stands(s)'
  BY <1>2, <1>3 DEF Stands, HasOrder, HasAccount, HasProduct, HasEntry, AccountAt
<1>5. at[s] < LastAt(s)
  <2>1. at[s] < 4 /\ at[s] < 6
    BY <1>2, Zenon
  <2> QED
    BY <2>1, Zenon DEF LastAt
<1>6. /\ read' \in [Sessions -> Nat] /\ DOMAIN began' = Sessions
      /\ \A t \in Sessions : t # s => read'[t] = read[t] /\ began'[t] = began[t]
      /\ began'[s] \subseteq lapsed
  BY DEF TxTypeOK
<1> QED
  BY <1>4, <1>5, <1>6, GoOnKeeps

\* Looking the key up ends the transaction or finds nothing.
LEMMA KeyKeeps ==
    ASSUME TxTypeOK, TxInv, NEW s \in Sessions, LookUpKey(s)
    PROVE  TxTypeOK' /\ TxInv'
<1>1. reply[s] = "" /\ at[s] = IF Kind(s) = "purchase" THEN 3 ELSE 2
  BY Statements DEF LookUpKey, Doing, TxTypeOK
<1>2. CASE KeyIsKnown(s)
  BY <1>2, AnswerKeeps DEF LookUpKey
<1>3. CASE ~KeyIsKnown(s)
  <2>1. GoOn(s, {}) /\ UNCHANGED <<read, began>> /\ UNCHANGED vars
    BY <1>3 DEF LookUpKey
  <2>2. at[s] < 3 \/ (Kind(s) = "purchase" /\ at[s] = 3)
    <3>1. CASE Kind(s) = "purchase"
      BY <1>1, <3>1, Zenon
    <3>2. CASE Kind(s) # "purchase"
      <4>1. at[s] = 2
        BY <1>1, <3>2, Zenon
      <4>2. at[s] < 3
        BY <4>1
      <4> QED
        BY <4>2, Zenon
    <3> QED
      BY <3>1, <3>2
  <2>3. \A t \in Sessions : {} \cap holds[t] = {}
    OBVIOUS
  <2> QED
    BY <1>1, <2>1, <2>2, <2>3, EarlyKeeps
<1> QED
  BY <1>2, <1>3

\* The order a refund goes on with is locked and stands.
LEMMA OrderKeeps ==
    ASSUME TxTypeOK, TxInv, NEW s \in Sessions, LockOrder(s)
    PROVE  TxTypeOK' /\ TxInv'
<1> DEFINE o == Request[s].order
           found == orders[o] # None /\ orders[o].account = Request[s].account
           fit == found /\ orders[o].status = "fulfilled_via_wallet" /\ o \notin began[s]
<1>1. reply[s] = "" /\ at[s] = 3 /\ Kind(s) = "refund"
  BY Statements DEF LockOrder, Doing, TxTypeOK
<1>2. CASE ~fit
  BY <1>2, AnswerKeeps DEF LockOrder
<1>3. CASE fit
  <2>1. GoOn(s, {OrderLock(s)}) /\ UNCHANGED <<read, began>> /\ UNCHANGED vars /\ Free(s, OrderLock(s))
    BY <1>3 DEF LockOrder
  <2>2. at'[s] = 4 /\ OrderLock(s) \in holds'[s]
    <3>1. at'[s] = at[s] + 1 /\ holds'[s] = holds[s] \cup {OrderLock(s)}
      BY <2>1, Onward
    <3>2. at[s] = 3
      BY <1>1, Zenon
    <3>3. at'[s] = 4
      BY <3>1, <3>2
    <3> QED
      BY <3>1, <3>3
  <2>3. ~(at'[s] > 4) /\ ~(at'[s] > 5)
    <3>1. at'[s] = 4
      BY <2>2, Zenon
    <3> QED
      BY <3>1
  <2>4. OrderStands(s)'
    BY <1>3, <2>1, <2>2 DEF OrderStands, OrderLock, vars
  <2>5. Stands(s)'
    BY <1>1, <2>3, <2>4 DEF Stands, HasOrder, HasAccount, HasProduct, HasEntry, AccountAt
  <2>6. at[s] < LastAt(s)
    <3>1. at[s] = 3
      BY <1>1, Zenon
    <3>2. at[s] < 6
      BY <3>1
    <3> QED
      BY <1>1, <3>2 DEF LastAt
  <2>7. /\ \A t \in Sessions : t # s => {OrderLock(s)} \cap holds[t] = {}
        /\ read' \in [Sessions -> Nat] /\ DOMAIN began' = Sessions
        /\ \A t \in Sessions : t # s => read'[t] = read[t] /\ began'[t] = began[t]
        /\ began'[s] \subseteq lapsed
    BY <2>1 DEF TxTypeOK, Free
  <2> QED
    BY <1>1, <2>1, <2>5, <2>6, <2>7, GoOnKeeps
<1> QED
  BY <1>2, <1>3

\* The balance a session goes on with is read under the account's lock.
LEMMA AccountKeeps ==
    ASSUME TxTypeOK, TxInv, NEW s \in Sessions, LockAccount(s)
    PROVE  TxTypeOK' /\ TxInv'
<1> DEFINE funds == balance[Request[s].account]
           short == Kind(s) = "purchase" /\ funds < Request[s].final
<1>1. reply[s] = "" /\ at[s] = AccountAt(s) /\ at[s] \in Nat
  BY Statements DEF LockAccount, Doing, TxTypeOK
<1>2. CASE short
  BY <1>2, AnswerKeeps DEF LockAccount
<1>3. CASE ~short
  <2>1. /\ GoOn(s, {AccountLock(s)}) /\ UNCHANGED vars /\ Free(s, AccountLock(s))
        /\ read' = [read EXCEPT ![s] = funds] /\ began' = began
    BY <1>3 DEF LockAccount
  <2>2. /\ at'[s] = at[s] + 1 /\ holds'[s] = holds[s] \cup {AccountLock(s)}
        /\ holds[s] \subseteq holds'[s] /\ reply' = reply
    BY <2>1, Onward
  <2>3. funds \in Nat /\ Request[s].account \in Accounts
    BY Requested DEF TxTypeOK, TypeOK
  <2>4. /\ read'[s] = funds /\ read' \in [Sessions -> Nat]
        /\ \A t \in Sessions : t # s => read'[t] = read[t]
    BY <2>1, <2>3 DEF TxTypeOK
  <2>5. BalanceStands(s)'
    <3>1. balance' = balance
      BY <2>1 DEF vars
    <3>2. Kind(s) = "purchase" => funds >= Request[s].final
      <4> SUFFICES ASSUME Kind(s) = "purchase" PROVE funds >= Request[s].final
        OBVIOUS
      <4>1. Request[s].final \in Int
        BY Requested, WalletAssumption DEF PurchaseOf, PurchaseCall
      <4> QED
        BY <1>3, <2>3, <4>1
    <3> QED
      BY <2>2, <2>4, <3>1, <3>2 DEF BalanceStands, AccountLock
  <2>6. HasOrder(s)' => OrderStands(s)'
    <3> SUFFICES ASSUME HasOrder(s)' PROVE OrderStands(s)'
      OBVIOUS
    <3>1. Kind(s) = "refund"
      BY DEF HasOrder
    <3>2. at[s] = 4
      BY <1>1, <3>1 DEF AccountAt
    <3>3. at[s] > 3
      BY <3>2
    <3>4. OrderStands(s)
      BY <1>1, <3>1, <3>3 DEF HasOrder, Running, TxInv, Stands
    <3> QED
      BY <2>1, <2>2, <3>4 DEF OrderStands, OrderLock, vars
  <2>7. ~HasProduct(s)' /\ ~HasEntry(s)' /\ at[s] < LastAt(s)
    <3>1. AccountAt(s) \in {3, 4} /\ (AccountAt(s) = 3 \/ LastAt(s) = 6) /\ LastAt(s) \in {4, 6}
      BY DEF AccountAt, LastAt
    <3>2. at[s] \in {3, 4} /\ at'[s] = at[s] + 1 /\ (at[s] = 3 \/ LastAt(s) = 6)
      BY <1>1, <2>2, <3>1
    <3>3. at[s] < LastAt(s) /\ ~(at'[s] > 5)
      BY <3>1, <3>2
    <3> QED
      BY <3>3 DEF HasProduct, HasEntry
  <2>8. Stands(s)'
    BY <2>5, <2>6, <2>7 DEF Stands
  <2>9. /\ \A t \in Sessions : t # s => {AccountLock(s)} \cap holds[t] = {}
        /\ DOMAIN began' = Sessions
        /\ \A t \in Sessions : t # s => began'[t] = began[t]
        /\ began'[s] \subseteq lapsed
    BY <2>1 DEF TxTypeOK, Free
  <2> QED
    BY <1>1, <2>1, <2>4, <2>7, <2>8, <2>9, GoOnKeeps
<1> QED
  BY <1>2, <1>3

\* The price and stock a purchase goes on with are judged under the product's lock.
LEMMA ProductKeeps ==
    ASSUME TxTypeOK, TxInv, NEW s \in Sessions, LockProduct(s)
    PROVE  TxTypeOK' /\ TxInv'
<1> DEFINE fit == DiscountIsFunded(PurchaseOf(s)) /\ stock[Request[s].product] >= Request[s].qty
<1>1. reply[s] = "" /\ at[s] = 5 /\ Kind(s) = "purchase"
  BY Statements DEF LockProduct, Doing, TxTypeOK
<1>2. CASE ~fit
  BY <1>2, AnswerKeeps DEF LockProduct
<1>3. CASE fit
  <2>1. GoOn(s, {ProductLock(s)}) /\ UNCHANGED <<read, began>> /\ UNCHANGED vars /\ Free(s, ProductLock(s))
    BY <1>3 DEF LockProduct
  <2>2. /\ holds'[s] = holds[s] \cup {ProductLock(s)} /\ holds[s] \subseteq holds'[s]
        /\ read' = read /\ began' = began
    BY <2>1, Onward
  <2>3. at[s] > 4 /\ at[s] < 6
    <3>1. at[s] = 5
      BY <1>1, Zenon
    <3> QED
      BY <3>1
  <2>4. BalanceStands(s)'
    <3>1. HasAccount(s)
      BY <1>1, <2>3 DEF HasAccount, Running, AccountAt
    <3>2. BalanceStands(s)
      BY <3>1 DEF TxInv, Stands
    <3> QED
      BY <2>1, <2>2, <3>2 DEF BalanceStands, AccountLock, vars
  <2>5. PriceStands(s)'
    <3>1. stock' = stock /\ orders' = orders
      BY <2>1 DEF vars
    <3>2. ProductLock(s)' \in holds'[s]
      BY <2>2, <3>1 DEF ProductLock
    <3>3. DiscountIsFunded(PurchaseOf(s))' = DiscountIsFunded(PurchaseOf(s))
      BY <3>1 DEF DiscountIsFunded, MinimumAllowed, Entitlement, Chosen, Earned, StandingOrders,
                  StandingIds, Spend, SpendOver
    <3> QED
      BY <1>3, <3>1, <3>2, <3>3 DEF PriceStands
  <2>6. Stands(s)'
    BY <1>1, <2>4, <2>5 DEF Stands, HasOrder, HasEntry
  <2>7. /\ \A t \in Sessions : t # s => {ProductLock(s)} \cap holds[t] = {}
        /\ read' \in [Sessions -> Nat] /\ DOMAIN began' = Sessions
        /\ \A t \in Sessions : t # s => read'[t] = read[t] /\ began'[t] = began[t]
        /\ began'[s] \subseteq lapsed
    BY <2>1 DEF TxTypeOK, Free
  <2>8. at[s] < LastAt(s)
    BY <1>1, <2>3 DEF LastAt
  <2> QED
    BY <1>1, <2>1, <2>6, <2>7, <2>8, GoOnKeeps
<1> QED
  BY <1>2, <1>3

\* A refund whose key is free keeps it until it ends.
LEMMA EntryKeeps ==
    ASSUME TxTypeOK, TxInv, NEW s \in Sessions, InsertEntry(s), Kind(s) = "refund",
           KeyIsFree(Request[s].key)
    PROVE  TxTypeOK' /\ TxInv' /\ UNCHANGED vars
<1>1. reply[s] = "" /\ at[s] = 5
  BY Statements DEF InsertEntry, Doing, TxTypeOK
<1>2. GoOn(s, {Entry(s)}) /\ UNCHANGED vars /\ read' = read /\ began' = began
  BY DEF InsertEntry
<1>3. Free(s, Entry(s))
  BY DEF InsertEntry
<1>4. /\ holds'[s] = holds[s] \cup {Entry(s)} /\ holds[s] \subseteq holds'[s]
  BY <1>2, Onward
<1>5. at[s] > 3 /\ at[s] > 4 /\ at[s] < 6
  <2>1. at[s] = 5
    BY <1>1, Zenon
  <2> QED
    BY <2>1
<1>6. OrderStands(s) /\ BalanceStands(s)
  BY <1>1, <1>5 DEF HasOrder, HasAccount, Running, AccountAt, TxInv, Stands
<1>7. OrderStands(s)' /\ BalanceStands(s)' /\ KeyStands(s)'
  <2>1. OrderStands(s)' /\ BalanceStands(s)'
    BY <1>2, <1>4, <1>6, StillStands
  <2>2. ledger' = ledger
    BY <1>2 DEF vars
  <2>3. KeyStands(s)'
    BY <1>4, <2>2 DEF KeyStands, Entry, KeyIsFree
  <2> QED
    BY <2>1, <2>3
<1>8. Stands(s)'
  BY <1>7 DEF Stands, HasProduct
<1>9. /\ \A t \in Sessions : t # s => {Entry(s)} \cap holds[t] = {}
      /\ read' \in [Sessions -> Nat] /\ DOMAIN began' = Sessions
      /\ \A t \in Sessions : t # s => read'[t] = read[t] /\ began'[t] = began[t]
      /\ began'[s] \subseteq lapsed
  BY <1>2, <1>3 DEF TxTypeOK, Free
<1>10. at[s] < LastAt(s)
  BY <1>5 DEF LastAt
<1> QED
  BY <1>1, <1>2, <1>8, <1>9, <1>10, GoOnKeeps

\* Whatever a session does, it keeps the invariant and moves the tables as one call run
\* alone does, or not at all.
LEMMA SessionKeeps ==
    ASSUME TxTypeOK, TxInv, NEW s \in Sessions, Step(s) \/ Drop(s)
    PROVE  TxTypeOK' /\ TxInv' /\ [Next]_vars
<1>1. CASE Begin(s)
  <2>1. reply[s] = "" /\ at[s] = 1
    BY <1>1, Statements DEF Begin, Doing, TxTypeOK
  <2>2. at[s] < 3
    <3>1. at[s] = 1
      BY <2>1, Zenon
    <3> QED
      BY <3>1
  <2>3. GoOn(s, {}) /\ UNCHANGED <<vars, read>> /\ began' = [began EXCEPT ![s] = lapsed]
    BY <1>1 DEF Begin
  <2>4. \A t \in Sessions : t # s => {} \cap holds[t] = {}
    OBVIOUS
  <2> QED
    BY <2>1, <2>2, <2>3, <2>4, EarlyKeeps
<1>2. CASE TakeAdvisoryLock(s)
  <2>1. reply[s] = "" /\ at[s] = 2
    BY <1>2, Statements DEF TakeAdvisoryLock, Doing, TxTypeOK
  <2>2. at[s] < 3
    <3>1. at[s] = 2
      BY <2>1, Zenon
    <3> QED
      BY <3>1
  <2>3. GoOn(s, {Advisory(s)}) /\ UNCHANGED <<vars, read>> /\ began' = began
    BY <1>2 DEF TakeAdvisoryLock
  <2>4. \A t \in Sessions : t # s => {Advisory(s)} \cap holds[t] = {}
    BY <1>2 DEF TakeAdvisoryLock, Free
  <2> QED
    BY <2>1, <2>2, <2>3, <2>4, EarlyKeeps
<1>3. CASE LookUpKey(s)
  BY <1>3, KeyKeeps DEF LookUpKey
<1>4. CASE LockOrder(s)
  BY <1>4, OrderKeeps DEF LockOrder
<1>5. CASE LockAccount(s)
  BY <1>5, AccountKeeps DEF LockAccount
<1>6. CASE LockProduct(s)
  BY <1>6, ProductKeeps DEF LockProduct
<1>7. CASE InsertEntry(s)
  <2>1. CASE ~KeyIsFree(Request[s].key)
    <3>1. Answer(s, "violation") /\ UNCHANGED vars
      BY <1>7, <2>1 DEF InsertEntry
    <3> QED
      BY <3>1, AnswerKeeps
  <2>2. CASE KeyIsFree(Request[s].key)
    <3>1. Kind(s) \in {"topup", "purchase", "refund"}
      BY SessionAssumption DEF Kinds, Kind
    <3> QED
      BY <1>7, <2>2, <3>1, TopUpWrites, PurchaseWrites, EntryKeeps
  <2> QED
    BY <2>1, <2>2
<1>8. CASE Restock(s)
  BY <1>8, RefundWrites
<1>9. CASE Drop(s)
  BY <1>9, AnswerKeeps DEF Drop
<1> QED
  BY <1>1, <1>2, <1>3, <1>4, <1>5, <1>6, <1>7, <1>8, <1>9 DEF Step

\* A window that lapses while transactions run is seen by none of them.
LEMMA LapseKeeps ==
    ASSUME TxTypeOK, TxInv, NEW o \in OrderIds, WindowLapses(o), UNCHANGED txVars
    PROVE  TxTypeOK' /\ TxInv' /\ [Next]_vars
<1>1. Next
  BY DEF Next
<1>2. TypeOK'
  BY <1>1, TypeOKStep DEF TxTypeOK
<1>3. /\ at' = at /\ holds' = holds /\ read' = read /\ began' = began /\ reply' = reply
      /\ balance' = balance /\ stock' = stock /\ orders' = orders /\ ledger' = ledger
      /\ lapsed \subseteq lapsed'
  BY DEF txVars, WindowLapses
<1>4. TxTypeOK'
  BY <1>2, <1>3 DEF TxTypeOK
<1>5. ASSUME NEW s \in Sessions PROVE Stands(s)'
  <2>1. Stands(s)
    BY DEF TxInv
  <2>2. /\ OrderStands(s)' = OrderStands(s) /\ BalanceStands(s)' = BalanceStands(s)
        /\ KeyStands(s)' = KeyStands(s)
    BY <1>3 DEF OrderStands, OrderLock, BalanceStands, AccountLock, KeyStands, Entry, KeyIsFree
  <2>3. PriceStands(s)' = PriceStands(s)
    BY <1>3 DEF PriceStands, ProductLock, DiscountIsFunded, MinimumAllowed, Entitlement, Chosen,
                Earned, StandingOrders, StandingIds, Spend, SpendOver
  <2> QED
    BY <1>3, <2>1, <2>2, <2>3 DEF Stands, HasOrder, HasAccount, HasProduct, HasEntry, Running, AccountAt
<1> QED
  BY <1>1, <1>3, <1>4, <1>5 DEF TxInv, Apart

\* Every step keeps the invariant, and is in the tables a step of WalletLedger or none.
LEMMA TxStep == TxTypeOK /\ TxInv /\ [TxNext]_allVars => TxTypeOK' /\ TxInv' /\ [Next]_vars
<1> SUFFICES ASSUME TxTypeOK, TxInv, [TxNext]_allVars PROVE TxTypeOK' /\ TxInv' /\ [Next]_vars
  OBVIOUS
<1>1. ASSUME NEW s \in Sessions, Step(s) \/ Drop(s) PROVE TxTypeOK' /\ TxInv' /\ [Next]_vars
  BY <1>1, SessionKeeps
<1>2. ASSUME NEW o \in OrderIds, WindowLapses(o) /\ UNCHANGED txVars
      PROVE  TxTypeOK' /\ TxInv' /\ [Next]_vars
  BY <1>2, LapseKeeps
<1>3. ASSUME UNCHANGED allVars PROVE TxTypeOK' /\ TxInv' /\ [Next]_vars
  <2>1. UNCHANGED vars /\ at' = at /\ holds' = holds /\ read' = read /\ began' = began /\ reply' = reply
    BY <1>3 DEF allVars, txVars
  <2>2. TypeOK'
    BY <2>1 DEF TxTypeOK, TypeOK, vars
  <2>3. TxTypeOK'
    BY <2>1, <2>2 DEF TxTypeOK, vars
  <2>4. ASSUME NEW s \in Sessions PROVE Stands(s)'
    <3>1. Stands(s)
      BY DEF TxInv
    <3>2. /\ OrderStands(s) => OrderStands(s)'
          /\ BalanceStands(s) => BalanceStands(s)'
          /\ PriceStands(s) => PriceStands(s)'
          /\ KeyStands(s) => KeyStands(s)'
      BY <2>1, StillStands
    <3> QED
      BY <2>1, <3>1, <3>2 DEF Stands, HasOrder, HasAccount, HasProduct, HasEntry, Running, AccountAt
  <2> QED
    BY <2>1, <2>3, <2>4 DEF TxInv, Apart
<1> QED
  BY <1>1, <1>2, <1>3 DEF TxNext, AllAnswered

-----------------------------------------------------------------------------
\* The shape of the tables and of every session's transaction.
THEOREM TransactionsAreWellFormed == TxSpec => []TxTypeOK
<1>1. TxInit => TxTypeOK /\ TxInv
  BY TxInitHolds
<1>2. TxTypeOK /\ TxInv /\ [TxNext]_allVars => (TxTypeOK /\ TxInv)'
  BY TxStep
<1> QED
  BY <1>1, <1>2, PTL DEF TxSpec

\* What a transaction has read under its locks stands until it ends: no two sessions hold one
\* lock, and nothing another session commits makes it stale.
THEOREM NothingReadGoesStale == TxSpec => []TxInv
<1>1. TxInit => TxTypeOK /\ TxInv
  BY TxInitHolds
<1>2. TxTypeOK /\ TxInv /\ [TxNext]_allVars => (TxTypeOK /\ TxInv)'
  BY TxStep
<1> QED
  BY <1>1, <1>2, PTL DEF TxSpec

\* The interleaved functions are the atomic ones: every behaviour of the sessions is, in the
\* tables, a behaviour of WalletLedger.
THEOREM TransactionsRunAlone == TxSpec => Spec
<1>1. TxInit => TxTypeOK /\ TxInv /\ Init
  BY TxInitHolds DEF TxInit
<1>2. TxTypeOK /\ TxInv /\ [TxNext]_allVars => (TxTypeOK /\ TxInv)' /\ [Next]_vars
  BY TxStep
<1> QED
  BY <1>1, <1>2, PTL DEF TxSpec, Spec

-----------------------------------------------------------------------------
\* The instance through which WalletTx names that specification is the module itself.
LEMMA SameSum == \A f : Ledger!SumFunction(f) = SumFunction(f)
  BY Zenon DEF Ledger!SumFunction, SumFunction, Ledger!SumFunctionOnSet, SumFunctionOnSet,
     Ledger!FoldFunctionOnSet, FoldFunctionOnSet, Ledger!MapThenFoldSet, MapThenFoldSet

\* Its variables are these.
LEMMA SameVars == Ledger!vars = vars
  BY DEF Ledger!vars, vars

\* Its initial states are these.
LEMMA SameInit == Ledger!Init = Init
  BY DEF Ledger!Init, Init

\* Its orders that earn loyalty are these.
LEMMA SameHistory == \A a : Ledger!StandingOrders(a) = StandingOrders(a) /\ Ledger!Spend(a) = Spend(a)
<1> SUFFICES ASSUME NEW a
             PROVE  Ledger!StandingOrders(a) = StandingOrders(a) /\ Ledger!Spend(a) = Spend(a)
  OBVIOUS
<1>1. Ledger!StandingOrders(a) = StandingOrders(a)
  BY DEF Ledger!StandingOrders, StandingOrders, Ledger!StandingIds, StandingIds
<1>2. Ledger!Spend(a) = Spend(a)
  BY <1>1, SameSum, Zenon DEF Ledger!Spend, Spend, Ledger!SpendOver, SpendOver
<1> QED
  BY <1>1, <1>2

\* Its discount bound is this one.
LEMMA SameFunding == \A c : Ledger!DiscountIsFunded(c) = DiscountIsFunded(c)
<1>1. \A a : Ledger!Earned(a) = Earned(a)
  <2> SUFFICES ASSUME NEW a PROVE Ledger!Earned(a) = Earned(a)
    OBVIOUS
  <2>1. Ledger!StandingOrders(a) = StandingOrders(a) /\ Ledger!Spend(a) = Spend(a)
    BY SameHistory
  <2>2. \A S : Ledger!Cardinality(S) = Cardinality(S)
    BY Zenon DEF Ledger!Cardinality, Cardinality
  <2> QED
    BY <2>1, <2>2 DEF Ledger!Earned, Earned
<1>2. \A c, d : Ledger!RanksFirst(c, d) = RanksFirst(c, d)
  BY DEF Ledger!RanksFirst, RanksFirst
<1>3. \A a : Ledger!Chosen(a) = Chosen(a)
  BY <1>1, <1>2, Zenon DEF Ledger!Chosen, Chosen
<1>4. \A a : Ledger!Entitlement(a) = Entitlement(a)
  <2> SUFFICES ASSUME NEW a PROVE Ledger!Entitlement(a) = Entitlement(a)
    OBVIOUS
  <2>1. Ledger!Chosen(a) = Chosen(a)
    BY <1>3
  <2> QED
    BY <2>1 DEF Ledger!Entitlement, Entitlement
<1> QED
  BY <1>4, Zenon DEF Ledger!DiscountIsFunded, DiscountIsFunded, Ledger!MinimumAllowed, MinimumAllowed

\* Its calls are these.
LEMMA SameCalls ==
    /\ \A k, a, o, entry, amount, after :
        Ledger!Post(k, a, o, entry, amount, after) = Post(k, a, o, entry, amount, after)
    /\ \A c : Ledger!CreditWalletTopup(c) = CreditWalletTopup(c)
    /\ \A c, o : Ledger!FulfillWalletOrder(c, o) = FulfillWalletOrder(c, o)
    /\ \A a, o, k, seen : Ledger!RefundWalletOrder(a, o, k, seen) = RefundWalletOrder(a, o, k, seen)
    /\ \A o : Ledger!WindowLapses(o) = WindowLapses(o)
    /\ \A o : Ledger!SettleReversal(o) = SettleReversal(o)
<1>1. \A k, a, o, entry, amount, after :
        Ledger!Post(k, a, o, entry, amount, after) = Post(k, a, o, entry, amount, after)
  BY Zenon DEF Ledger!Post, Post
<1>2. \A k : Ledger!KeyIsFree(k) = KeyIsFree(k)
  BY Zenon DEF Ledger!KeyIsFree, KeyIsFree
<1>3. \A c : Ledger!CreditWalletTopup(c) = CreditWalletTopup(c)
  BY <1>1, <1>2, Zenon DEF Ledger!CreditWalletTopup, CreditWalletTopup
<1>4. \A c, o : Ledger!FulfillWalletOrder(c, o) = FulfillWalletOrder(c, o)
  <2>1. \A c : Ledger!Fulfillable(c) = Fulfillable(c)
    BY <1>2, SameFunding, Zenon
       DEF Ledger!Fulfillable, Fulfillable, Ledger!AmountsAreReal, AmountsAreReal
  <2>2. \A c, o, before : Ledger!RecordSale(c, o, before) = RecordSale(c, o, before)
    BY <1>1, ZenonT(90) DEF Ledger!RecordSale, RecordSale
  <2> QED
    BY <2>1, <2>2, Zenon DEF Ledger!FulfillWalletOrder, FulfillWalletOrder
<1>5. \A a, o, k, seen : Ledger!RefundWalletOrder(a, o, k, seen) = RefundWalletOrder(a, o, k, seen)
  <2>1. \A a, o, k : Ledger!OweReversal(a, o, k) = OweReversal(a, o, k)
    <3> SUFFICES ASSUME NEW a, NEW o, NEW k PROVE Ledger!OweReversal(a, o, k) = OweReversal(a, o, k)
      OBVIOUS
    <3> QED
      BY DEF Ledger!OweReversal, OweReversal
  <2>2. \A a, o, k, before : Ledger!RecordCancellation(a, o, k, before) = RecordCancellation(a, o, k, before)
    <3> SUFFICES ASSUME NEW a, NEW o, NEW k, NEW before
                 PROVE  Ledger!RecordCancellation(a, o, k, before) = RecordCancellation(a, o, k, before)
      OBVIOUS
    <3> QED
      BY <1>1, <2>1 DEF Ledger!RecordCancellation, RecordCancellation
  <2>3. \A a, o, k, seen : Ledger!Refundable(a, o, k, seen) = Refundable(a, o, k, seen)
    BY <1>2, Zenon DEF Ledger!Refundable, Refundable
  <2> QED
    BY <2>2, <2>3, Zenon DEF Ledger!RefundWalletOrder, RefundWalletOrder
<1>6. \A o : Ledger!WindowLapses(o) = WindowLapses(o)
  BY Zenon DEF Ledger!WindowLapses, WindowLapses
<1>7. \A o : Ledger!SettleReversal(o) = SettleReversal(o)
  BY Zenon DEF Ledger!SettleReversal, SettleReversal
<1> QED
  BY <1>1, <1>3, <1>4, <1>5, <1>6, <1>7

\* Its steps are these.
LEMMA SameNext == Ledger!Next = Next
  BY SameCalls, Zenon DEF Ledger!Next, Next

\* Whatever the interleaving, the tables move as if each call had run alone: the property the
\* run checks, for any number of sessions, accounts, products, orders and keys.
THEOREM NoInterleavingShows == TxSpec => LedgerSpec
<1>1. Init => Ledger!Init
  BY SameInit
<1>2. [Next]_vars => [Ledger!Next]_(Ledger!vars)
  <2>1. UNCHANGED vars => UNCHANGED Ledger!vars
    BY DEF Ledger!vars, vars
  <2> QED
    BY <2>1, SameNext
<1> QED
  BY <1>1, <1>2, TransactionsRunAlone, PTL DEF Spec, LedgerSpec, Ledger!Spec

\* So what is proved of the functions run alone holds of them interleaved, the ledger's
\* account of every balance first.
THEOREM InterleavedBalancesAreExplained == TxSpec => []LedgerExplainsBalance
  BY TransactionsRunAlone, BalancesAreExplained, PTL

\* And the money trail of every order.
THEOREM InterleavedOrdersKeepTheirTrail == TxSpec => []OrderMoneyTrail
  BY TransactionsRunAlone, OrdersKeepTheirTrail, PTL

\* And the shelves: no interleaving sells a thing twice or restocks it twice.
THEOREM InterleavedStockIsConserved == TxSpec => []StockConserved
  BY TransactionsRunAlone, StockIsConserved, PTL

-----------------------------------------------------------------------------
\* A purchase under way holds the lock of its key, and past the look-up nobody paid under it.
LockedKey(s) ==
    (Kind(s) = "purchase" /\ reply[s] = "") =>
        /\ at[s] > 2 => Advisory(s) \in holds[s]
        /\ at[s] > 3 => ~PaidUnder(Request[s].key)
DebitsNameOrders ==
    \A i \in DOMAIN ledger : ledger[i].entry = "purchase_debit" => ledger[i].order \in OrderIds
RetryInv == DebitsNameOrders /\ \A s \in Sessions : LockedKey(s)

\* A session that writes pays only for a purchase, from the last statement on.
Writes(s) ==
    \E row \in LedgerRow :
        /\ ledger' = Append(ledger, row) /\ row.key = Request[s].key /\ reply'[s] # ""
        /\ row.entry = "purchase_debit" =>
                row.order \in OrderIds /\ Kind(s) = "purchase" /\ reply[s] = "" /\ at[s] > 2

\* Every step of a session writes so or leaves the ledger alone.
LEMMA StepWrites ==
    ASSUME TxTypeOK, TxTypeOK', NEW s \in Sessions, Step(s) \/ Drop(s)
    PROVE  ledger' = ledger \/ Writes(s)
<1>1. ASSUME NEW order, NEW entry, NEW amount, NEW after,
             Post(Request[s].key, Request[s].account, order, entry, amount, after),
             Commit(s), entry = "purchase_debit" =>
                order \in OrderIds /\ Kind(s) = "purchase" /\ reply[s] = "" /\ at[s] > 2
      PROVE  Writes(s)
  <2> DEFINE row == [key |-> Request[s].key, account |-> Request[s].account, order |-> order,
                     entry |-> entry, amount |-> amount, after |-> after]
  <2>1. ledger' = Append(ledger, row)
    BY <1>1 DEF Post
  <2>2. row.key = Request[s].key /\ row.entry = entry /\ row.order = order
    OBVIOUS
  <2>3. reply'[s] # ""
    BY <1>1 DEF Commit, Answer, TxTypeOK
  <2>4. ledger \in Seq(LedgerRow) /\ ledger' \in Seq(LedgerRow)
    BY DEF TxTypeOK, TypeOK
  <2> HIDE DEF row
  <2>5. row \in LedgerRow
    <3>1. Len(ledger) + 1 \in DOMAIN ledger' /\ ledger'[Len(ledger) + 1] = row
      BY <2>1, <2>4
    <3> QED
      BY <2>4, <3>1
  <2> QED
    BY <1>1, <2>1, <2>2, <2>3, <2>5 DEF Writes
<1>2. CASE InsertEntry(s) /\ KeyIsFree(Request[s].key) /\ Kind(s) = "topup"
  BY <1>1, <1>2 DEF InsertEntry
<1>3. CASE InsertEntry(s) /\ KeyIsFree(Request[s].key) /\ Kind(s) = "purchase"
  <2>1. RecordSale(PurchaseOf(s), Request[s].order, read[s]) /\ Commit(s)
    BY <1>3 DEF InsertEntry
  <2>2. Post(Request[s].key, Request[s].account, Request[s].order, "purchase_debit",
             Request[s].final, read[s] - Request[s].final)
    BY <2>1 DEF RecordSale, PurchaseOf
  <2>3. reply[s] = "" /\ at[s] = 6
    BY <1>3, Statements DEF InsertEntry, TxTypeOK, Doing, LastAt
  <2>4. at[s] > 2
    <3>1. at[s] = 6
      BY <2>3, Zenon
    <3> QED
      BY <3>1
  <2>5. Request[s].order \in OrderIds
    BY <1>3, Requested, Zenon
  <2> QED
    BY <1>1, <1>3, <2>1, <2>2, <2>3, <2>4, <2>5
<1>4. CASE InsertEntry(s) /\ KeyIsFree(Request[s].key) /\ Kind(s) = "refund"
  BY <1>4 DEF InsertEntry, vars
<1>5. CASE Restock(s)
  BY <1>1, <1>5 DEF Restock, RecordCancellation
<1>6. CASE InsertEntry(s) /\ ~KeyIsFree(Request[s].key)
  BY <1>6 DEF InsertEntry, vars
<1>7. Kind(s) \in {"topup", "purchase", "refund"}
  BY SessionAssumption DEF Kinds, Kind
<1> QED
  BY <1>2, <1>3, <1>4, <1>5, <1>6, <1>7
     DEF Step, Drop, Begin, TakeAdvisoryLock, LookUpKey, LockOrder, LockAccount, LockProduct, vars

\* How far a step takes a purchase, and what it learns or takes on the way.
Onwards(s, from, to) ==
    /\ at[s] = from /\ at'[s] = to /\ reply'[s] = "" /\ holds[s] \subseteq holds'[s]
    /\ from = 2 => Advisory(s) \in holds'[s]
    /\ from = 3 => ~KeyIsKnown(s)
TurnedDown(s) ==
    reply'[s] # "" /\ (reply'[s] \in {"refused", "violation"} => at[s] > 3)

\* A purchase moves on by one statement, or is turned down past its look-up.
LEMMA PurchaseStep ==
    ASSUME TxTypeOK, NEW s \in Sessions, Step(s) \/ Drop(s), Kind(s) = "purchase"
    PROVE  /\ reply[s] = ""
           /\ \/ Onwards(s, 1, 2) \/ Onwards(s, 2, 3) \/ Onwards(s, 3, 4)
              \/ Onwards(s, 4, 5) \/ Onwards(s, 5, 6)
              \/ TurnedDown(s)
<1>1. ASSUME NEW from \in 1..5, at[s] = from, reply[s] = "", NEW locks, GoOn(s, locks),
             from = 2 => Advisory(s) \in locks, from = 3 => ~KeyIsKnown(s)
      PROVE  Onwards(s, from, from + 1)
  <2>1. at'[s] = at[s] + 1 /\ holds'[s] = holds[s] \cup locks /\ reply'[s] = reply[s]
    BY <1>1 DEF GoOn, TxTypeOK
  <2>2. at'[s] = from + 1
    BY <1>1, <2>1
  <2> QED
    BY <1>1, <2>1, <2>2, Zenon DEF Onwards
<1>2. ASSUME NEW answer, answer # "", Answer(s, answer),
             answer \in {"refused", "violation"} => at[s] > 3
      PROVE  TurnedDown(s)
  BY <1>2 DEF Answer, TxTypeOK, TurnedDown
<1>3. /\ 1 \in 1..5 /\ 2 \in 1..5 /\ 3 \in 1..5 /\ 4 \in 1..5 /\ 5 \in 1..5
      /\ 1 + 1 = 2 /\ 2 + 1 = 3 /\ 3 + 1 = 4 /\ 4 + 1 = 5 /\ 5 + 1 = 6
      /\ 1 # 2 /\ 1 # 3 /\ 2 # 3 /\ 3 # 2 /\ 4 # 2 /\ 4 # 3 /\ 5 # 2 /\ 5 # 3
      /\ 4 > 3 /\ 5 > 3 /\ 6 > 3
  OBVIOUS
<1>4. CASE Begin(s)
  <2>1. reply[s] = "" /\ at[s] = 1
    BY <1>4, Statements DEF Begin, Doing, TxTypeOK
  <2>2. Onwards(s, 1, 1 + 1)
    BY <1>1, <1>3, <1>4, <2>1, Zenon DEF Begin
  <2> QED
    BY <1>3, <2>1, <2>2, Zenon
<1>5. CASE TakeAdvisoryLock(s)
  <2>1. reply[s] = "" /\ at[s] = 2
    BY <1>5, Statements DEF TakeAdvisoryLock, Doing, TxTypeOK
  <2>2. Advisory(s) \in {Advisory(s)} /\ GoOn(s, {Advisory(s)})
    BY <1>5 DEF TakeAdvisoryLock
  <2>3. Onwards(s, 2, 2 + 1)
    BY <1>1, <1>3, <2>1, <2>2, Zenon
  <2> QED
    BY <1>3, <2>1, <2>3, Zenon
<1>6. CASE LookUpKey(s)
  <2>1. reply[s] = "" /\ at[s] = 3
    BY <1>6, Statements DEF LookUpKey, Doing, TxTypeOK
  <2>2. CASE KeyIsKnown(s)
    BY <1>2, <1>6, <2>1, <2>2 DEF LookUpKey
  <2>3. CASE ~KeyIsKnown(s)
    <3>1. GoOn(s, {})
      BY <1>6, <2>3 DEF LookUpKey
    <3>2. Onwards(s, 3, 3 + 1)
      BY <1>1, <1>3, <2>1, <2>3, <3>1, Zenon
    <3> QED
      BY <1>3, <2>1, <3>2, Zenon
  <2> QED
    BY <2>2, <2>3
<1>7. CASE LockOrder(s)
  BY <1>7, Statements DEF LockOrder, TxTypeOK
<1>8. CASE LockAccount(s)
  <2>1. reply[s] = "" /\ at[s] = 4
    BY <1>8, Statements DEF LockAccount, Doing, TxTypeOK, AccountAt
  <2>2. Answer(s, "refused") \/ GoOn(s, {AccountLock(s)})
    BY <1>8 DEF LockAccount
  <2>3. at[s] > 3
    BY <1>3, <2>1, Zenon
  <2>4. CASE Answer(s, "refused")
    BY <1>2, <2>1, <2>3, <2>4
  <2>5. CASE GoOn(s, {AccountLock(s)})
    <3>1. Onwards(s, 4, 4 + 1)
      BY <1>1, <1>3, <2>1, <2>5, Zenon
    <3> QED
      BY <1>3, <2>1, <3>1, Zenon
  <2> QED
    BY <2>2, <2>4, <2>5
<1>9. CASE LockProduct(s)
  <2>1. reply[s] = "" /\ at[s] = 5
    BY <1>9, Statements DEF LockProduct, Doing, TxTypeOK
  <2>2. Answer(s, "refused") \/ GoOn(s, {ProductLock(s)})
    BY <1>9 DEF LockProduct
  <2>3. at[s] > 3
    BY <1>3, <2>1, Zenon
  <2>4. CASE Answer(s, "refused")
    BY <1>2, <2>1, <2>3, <2>4
  <2>5. CASE GoOn(s, {ProductLock(s)})
    <3>1. Onwards(s, 5, 5 + 1)
      BY <1>1, <1>3, <2>1, <2>5, Zenon
    <3> QED
      BY <1>3, <2>1, <3>1, Zenon
  <2> QED
    BY <2>2, <2>4, <2>5
<1>10. CASE InsertEntry(s)
  <2>1. reply[s] = "" /\ at[s] = 6
    BY <1>10, Statements DEF InsertEntry, Doing, TxTypeOK, LastAt
  <2>2. \E answer \in {"violation", "approved", "unanswered"} : Answer(s, answer)
    BY <1>10 DEF InsertEntry, Commit
  <2>3. at[s] > 3
    BY <1>3, <2>1, Zenon
  <2> QED
    BY <1>2, <2>1, <2>2, <2>3
<1>11. CASE Restock(s)
  BY <1>11 DEF Restock
<1>12. CASE Drop(s)
  BY <1>2, <1>12 DEF Drop
<1> QED
  BY <1>4, <1>5, <1>6, <1>7, <1>8, <1>9, <1>10, <1>11, <1>12 DEF Step

\* A session's step moves no other session.
LEMMA StepIsOwn ==
    ASSUME TxTypeOK, NEW s \in Sessions, Step(s) \/ Drop(s), NEW t \in Sessions, t # s
    PROVE  at'[t] = at[t] /\ holds'[t] = holds[t] /\ reply'[t] = reply[t]
<1>1. \/ \E locks : GoOn(s, locks)
      \/ \E answer : Answer(s, answer)
  <2>1. CASE LookUpKey(s)
    BY <2>1 DEF LookUpKey
  <2>2. CASE LockOrder(s)
    BY <2>2 DEF LockOrder
  <2>3. CASE LockAccount(s)
    BY <2>3 DEF LockAccount
  <2>4. CASE LockProduct(s)
    BY <2>4 DEF LockProduct
  <2>5. CASE InsertEntry(s)
    <3>1. Kind(s) \in {"topup", "purchase", "refund"}
      BY SessionAssumption DEF Kinds, Kind
    <3> QED
      BY <2>5, <3>1 DEF InsertEntry, Commit
  <2>6. CASE Begin(s) \/ TakeAdvisoryLock(s) \/ Restock(s) \/ Drop(s)
    BY <2>6 DEF Begin, TakeAdvisoryLock, Restock, Commit, Drop
  <2> QED
    BY <2>1, <2>2, <2>3, <2>4, <2>5, <2>6 DEF Step
<1> QED
  BY <1>1 DEF GoOn, Answer, TxTypeOK

\* The places of a purchase, one after another.
LEMMA Places ==
    /\ 1 \in 1..5 /\ 2 \in 1..5 /\ 3 \in 1..5 /\ 4 \in 1..5 /\ 5 \in 1..5
    /\ 1 + 1 = 2 /\ 2 + 1 = 3 /\ 3 + 1 = 4 /\ 4 + 1 = 5 /\ 5 + 1 = 6
    /\ \A n \in 1..5 : (n + 1 > 2 => n = 2 \/ n > 2) /\ (n + 1 > 3 => n = 3 \/ n > 3)
OBVIOUS

\* Every step of a session keeps the locks of the keys, and turns no paid purchase down.
LEMMA RetryKept ==
    ASSUME TxTypeOK, TxTypeOK', TxInv, RetryInv, NEW u \in Sessions, Step(u) \/ Drop(u)
    PROVE  /\ RetryInv'
           /\ \A s \in Sessions :
                (Kind(s) = "purchase" /\ reply[s] = "" /\ reply'[s] \in {"refused", "violation"})
                    => ~PaidUnder(Request[s].key)
<1>1. ledger' = ledger \/ Writes(u)
  BY StepWrites
<1>2. /\ Len(ledger) \in Nat /\ DOMAIN ledger = 1..Len(ledger)
      /\ \A row \in LedgerRow : ledger' = Append(ledger, row) =>
            \A i \in DOMAIN ledger' : ledger'[i] = row \/ (i \in DOMAIN ledger /\ ledger'[i] = ledger[i])
  <2>1. ledger \in Seq(LedgerRow)
    BY DEF TxTypeOK, TypeOK
  <2>2. ASSUME NEW row \in LedgerRow, ledger' = Append(ledger, row), NEW i \in DOMAIN ledger'
        PROVE  ledger'[i] = row \/ (i \in DOMAIN ledger /\ ledger'[i] = ledger[i])
    BY <2>1, <2>2
  <2> QED
    BY <2>1, <2>2
<1>3. DebitsNameOrders'
  <2>1. CASE ledger' = ledger
    BY <2>1 DEF RetryInv, DebitsNameOrders
  <2>2. CASE Writes(u)
    BY <1>2, <2>2 DEF RetryInv, DebitsNameOrders, Writes
  <2> QED
    BY <1>1, <2>1, <2>2
<1>4. ASSUME NEW k, PaidUnder(k)', ~PaidUnder(k)
      PROVE  /\ k = Request[u].key /\ Kind(u) = "purchase" /\ reply[u] = "" /\ at[u] > 2
             /\ reply'[u] # ""
  <2>1. Writes(u)
    BY <1>1, <1>4 DEF PaidUnder
  <2> QED
    BY <1>2, <1>4, <2>1 DEF PaidUnder, Writes
<1>5. ASSUME NEW s \in Sessions, s # u PROVE LockedKey(s)'
  <2>1. at'[s] = at[s] /\ holds'[s] = holds[s] /\ reply'[s] = reply[s]
    BY <1>5, StepIsOwn
  <2>2. LockedKey(s) /\ LockedKey(u) /\ holds[s] \cap holds[u] = {} /\ at[s] \in Nat
    BY <1>5 DEF RetryInv, TxInv, Apart, TxTypeOK
  <2>3. ASSUME Kind(s) = "purchase", reply[s] = "", at[s] > 3, PaidUnder(Request[s].key)'
        PROVE  FALSE
    <3>1. ~PaidUnder(Request[s].key) /\ Advisory(s) \in holds[s]
      <4>1. at[s] \in Nat /\ at[s] > 3
        BY <2>2, <2>3, Zenon
      <4>2. at[s] > 2
        BY <4>1
      <4> QED
        BY <2>2, <2>3, <4>2, Zenon DEF LockedKey
    <3>2. Request[s].key = Request[u].key /\ Advisory(u) \in holds[u]
      BY <1>4, <2>2, <2>3, <3>1 DEF LockedKey
    <3> QED
      BY <2>2, <3>1, <3>2 DEF Advisory
  <2>4. Advisory(s)' = Advisory(s)
    BY DEF Advisory
  <2> QED
    BY <2>1, <2>2, <2>3, <2>4 DEF LockedKey
<1>6. LockedKey(u)'
  <2> SUFFICES ASSUME Kind(u) = "purchase", reply'[u] = ""
               PROVE  /\ at'[u] > 2 => Advisory(u) \in holds'[u]
                      /\ at'[u] > 3 => ~PaidUnder(Request[u].key)'
    BY DEF LockedKey, Advisory
  <2>1. reply[u] = "" /\ LockedKey(u)
    BY PurchaseStep DEF RetryInv
  <2>2. PICK from \in 1..5 : Onwards(u, from, from + 1)
    <3>1. \/ Onwards(u, 1, 2) \/ Onwards(u, 2, 3) \/ Onwards(u, 3, 4)
          \/ Onwards(u, 4, 5) \/ Onwards(u, 5, 6)
      BY PurchaseStep DEF TurnedDown
    <3> QED
      BY <3>1, Places, Zenon
  <2>3. at'[u] > 2 => Advisory(u) \in holds'[u]
    <3>1. at'[u] = from + 1 /\ at[u] = from
      BY <2>2, Zenon DEF Onwards
    <3>2. at'[u] > 2 => from = 2 \/ at[u] > 2
      BY <3>1, Places, Zenon
    <3> QED
      BY <2>1, <2>2, <3>2, Zenon DEF Onwards, LockedKey
  <2>4. at'[u] > 3 => ~PaidUnder(Request[u].key)
    <3>1. at'[u] = from + 1 /\ at[u] = from
      BY <2>2, Zenon DEF Onwards
    <3>2. at'[u] > 3 => from = 3 \/ at[u] > 3
      BY <3>1, Places, Zenon
    <3>3. ~KeyIsKnown(u) => ~PaidUnder(Request[u].key)
      BY WalletAssumption DEF KeyIsKnown, PaidUnder, RetryInv, DebitsNameOrders
    <3> QED
      BY <2>1, <2>2, <3>2, <3>3, Zenon DEF Onwards, LockedKey
  <2> QED
    BY <1>4, <2>3, <2>4
<1>7. ASSUME NEW s \in Sessions, Kind(s) = "purchase", reply[s] = "",
             reply'[s] \in {"refused", "violation"}
      PROVE  ~PaidUnder(Request[s].key)
  <2>1. s = u
    BY <1>7, StepIsOwn
  <2>2. at[u] > 3
    BY <1>7, <2>1, PurchaseStep, Zenon DEF Onwards, TurnedDown
  <2> QED
    BY <1>7, <2>1, <2>2, Zenon DEF RetryInv, LockedKey
<1> QED
  BY <1>3, <1>5, <1>6, <1>7 DEF RetryInv

\* A purchase retried because its answer was lost is told so once the first try has been paid,
\* never refused nor failed by the unique index, however many tries run at once.
THEOREM PaidRetriesAreRecognised == TxSpec => RetryIsRecognised
<1>1. TxInit => TxTypeOK /\ TxInv /\ RetryInv
  <2>1. ASSUME TxInit PROVE RetryInv
    <3>1. ledger = <<>> /\ \A s \in Sessions : at[s] = 1
      BY <2>1 DEF TxInit, Init
    <3>2. ASSUME NEW s \in Sessions PROVE ~(at[s] > 2) /\ ~(at[s] > 3)
      <4>1. at[s] = 1
        BY <3>1, Zenon
      <4> QED
        BY <4>1
    <3>3. DOMAIN ledger = {}
      <4>1. ledger = <<>>
        BY <3>1, Zenon
      <4> QED
        BY <4>1
    <3> QED
      BY <3>2, <3>3, Zenon DEF RetryInv, LockedKey, DebitsNameOrders
  <2> QED
    BY <2>1, TxInitHolds
<1>2. TxTypeOK /\ TxInv /\ RetryInv /\ [TxNext]_allVars =>
        /\ TxTypeOK' /\ TxInv' /\ RetryInv'
        /\ [\A s \in Sessions :
              (Kind(s) = "purchase" /\ reply[s] = "" /\ reply'[s] \in {"refused", "violation"})
                => ~PaidUnder(Request[s].key)]_allVars
  <2> SUFFICES ASSUME TxTypeOK, TxInv, RetryInv, [TxNext]_allVars
               PROVE  /\ RetryInv'
                      /\ \A s \in Sessions :
                           (Kind(s) = "purchase" /\ reply[s] = ""
                            /\ reply'[s] \in {"refused", "violation"}) => ~PaidUnder(Request[s].key)
    BY TxStep
  <2>1. TxTypeOK'
    BY TxStep
  <2>2. CASE UNCHANGED <<ledger, txVars>>
    BY <2>2 DEF txVars, RetryInv, DebitsNameOrders, LockedKey, PaidUnder, Advisory
  <2>3. ASSUME NEW u \in Sessions, Step(u) \/ Drop(u)
        PROVE  /\ RetryInv'
               /\ \A s \in Sessions :
                    (Kind(s) = "purchase" /\ reply[s] = ""
                     /\ reply'[s] \in {"refused", "violation"}) => ~PaidUnder(Request[s].key)
    BY <2>1, <2>3, RetryKept
  <2> QED
    BY <2>2, <2>3 DEF TxNext, AllAnswered, allVars, vars, WindowLapses
<1> QED
  BY <1>1, <1>2, PTL DEF TxSpec, RetryIsRecognised

-----------------------------------------------------------------------------
\* Waiting.  A statement that waits for a lock does so at one of five heights, in the order
\* in which the functions take them; a refund inserts its entry before it locks the product.
Awaits(s, height, lock) ==
    \/ height = 1 /\ Doing(s, "advisory") /\ lock = Advisory(s)
    \/ height = 2 /\ Doing(s, "order") /\ lock = OrderLock(s)
    \/ height = 3 /\ Doing(s, "account") /\ lock = AccountLock(s)
    \/ height = 4 /\ Doing(s, "entry") /\ lock = Entry(s)
    \/ height = 5 /\ Doing(s, "product") /\ lock = ProductLock(s)
WaitsFor(s, height, t) == \E lock \in holds[t] : Awaits(s, height, lock)
Waits(s) == \E height \in 1..5, t \in Sessions : WaitsFor(s, height, t)

\* Whoever is waited for waits, if at all, further up.
WaitsClimb ==
    \A s, t, u \in Sessions : \A low, high \in 1..5 :
        WaitsFor(s, low, t) /\ WaitsFor(t, high, u) => low < high
\* While a call is unanswered, some call has nothing to wait for.
SomebodyGoesOn ==
    (\E s \in Sessions : reply[s] = "") => \E s \in Sessions : reply[s] = "" /\ ~Waits(s)

\* A purchase and a cancellation are never called under one key: a cancellation's is
\* telegram:<person>:refund:<message> (refundKey), a purchase's telegram:<person>:<message>,
\* telegram:nl:... or telegram:negotiation:... (cmd/user/main.go).
KeysAreOfOneKind ==
    \A s, t \in Sessions :
        Kind(s) = "purchase" /\ Kind(t) = "refund" => Request[s].key # Request[t].key

\* Each lock of a session is one it took at a statement behind it.
Took(s, lock) ==
    \/ lock = Advisory(s) /\ Kind(s) = "purchase" /\ at[s] = 2
    \/ lock = OrderLock(s) /\ Kind(s) = "refund" /\ at[s] = 3
    \/ lock = AccountLock(s) /\ at[s] = AccountAt(s)
    \/ lock = <<"product", Request[s].product>> /\ Kind(s) = "purchase" /\ at[s] = 5
    \/ lock = Entry(s) /\ Kind(s) = "refund" /\ at[s] = 5
TookBefore(s, lock) ==
    \/ lock = Advisory(s) /\ Kind(s) = "purchase" /\ at[s] > 2
    \/ lock = OrderLock(s) /\ Kind(s) = "refund" /\ at[s] > 3
    \/ lock = AccountLock(s) /\ at[s] > AccountAt(s)
    \/ lock = <<"product", Request[s].product>> /\ Kind(s) = "purchase" /\ at[s] > 5
    \/ lock = Entry(s) /\ Kind(s) = "refund" /\ at[s] > 5
LocksInOrder == \A s \in Sessions : \A lock \in holds[s] : TookBefore(s, lock)

\* Locks of different kinds are different.
LEMMA LocksDiffer ==
    \A x, y : /\ <<"advisory", x>> # <<"order", y>> /\ <<"advisory", x>> # <<"account", y>>
              /\ <<"advisory", x>> # <<"entry", y>> /\ <<"advisory", x>> # <<"product", y>>
              /\ <<"order", x>> # <<"account", y>> /\ <<"order", x>> # <<"entry", y>>
              /\ <<"order", x>> # <<"product", y>> /\ <<"account", x>> # <<"entry", y>>
              /\ <<"account", x>> # <<"product", y>> /\ <<"entry", x>> # <<"product", y>>
              /\ <<"entry", x>> = <<"entry", y>> => x = y
  OBVIOUS

\* A step lets go of everything or moves on by a statement with what it took there.
LEMMA StepTakes ==
    ASSUME TxTypeOK, NEW s \in Sessions, Step(s) \/ Drop(s)
    PROVE  \/ holds'[s] = {}
           \/ at'[s] = at[s] + 1 /\ \A lock \in holds'[s] : lock \in holds[s] \/ Took(s, lock)
<1>1. ASSUME NEW locks, GoOn(s, locks), \A lock \in locks : Took(s, lock)
      PROVE  at'[s] = at[s] + 1 /\ \A lock \in holds'[s] : lock \in holds[s] \/ Took(s, lock)
  BY <1>1 DEF GoOn, TxTypeOK
<1>2. ASSUME NEW answer, Answer(s, answer) PROVE holds'[s] = {}
  BY <1>2 DEF Answer, TxTypeOK
<1>3. at[s] \in DOMAIN Route(Kind(s))
  BY DEF TxTypeOK
<1>4. CASE Begin(s) \/ LookUpKey(s)
  BY <1>1, <1>2, <1>4 DEF Begin, LookUpKey
<1>5. CASE TakeAdvisoryLock(s)
  <2>1. Took(s, Advisory(s))
    BY <1>3, <1>5, Statements DEF TakeAdvisoryLock, Took
  <2> QED
    BY <1>1, <1>5, <2>1 DEF TakeAdvisoryLock
<1>6. CASE LockOrder(s)
  <2>1. Took(s, OrderLock(s))
    BY <1>3, <1>6, Statements DEF LockOrder, Took
  <2> QED
    BY <1>1, <1>2, <1>6, <2>1 DEF LockOrder
<1>7. CASE LockAccount(s)
  <2>1. Took(s, AccountLock(s))
    BY <1>3, <1>7, Statements DEF LockAccount, Took
  <2> QED
    BY <1>1, <1>2, <1>7, <2>1 DEF LockAccount
<1>8. CASE LockProduct(s)
  <2>1. Took(s, ProductLock(s))
    BY <1>3, <1>8, Statements DEF LockProduct, Took, ProductLock
  <2> QED
    BY <1>1, <1>2, <1>8, <2>1 DEF LockProduct
<1>9. CASE InsertEntry(s)
  <2>1. Kind(s) = "refund" => Took(s, Entry(s))
    BY <1>3, <1>9, Statements DEF InsertEntry, Took
  <2>2. Kind(s) \in {"topup", "purchase", "refund"}
    BY SessionAssumption DEF Kinds, Kind
  <2>3. CASE \E answer : Answer(s, answer)
    BY <1>2, <2>3
  <2>4. CASE Kind(s) = "refund" /\ GoOn(s, {Entry(s)})
    BY <1>1, <2>1, <2>4
  <2> QED
    BY <1>9, <2>2, <2>3, <2>4 DEF InsertEntry, Commit
<1>10. CASE Restock(s) \/ Drop(s)
  BY <1>2, <1>10 DEF Restock, Drop, Commit
<1> QED
  BY <1>4, <1>5, <1>6, <1>7, <1>8, <1>9, <1>10 DEF Step

\* What was taken at a statement lies behind at the next.
LEMMA TakenBefore ==
    ASSUME TxTypeOK, NEW s \in Sessions, at'[s] = at[s] + 1, NEW lock,
           Took(s, lock) \/ TookBefore(s, lock)
    PROVE  TookBefore(s, lock)'
<1>1. at[s] \in Nat /\ AccountAt(s) \in Nat /\ AccountAt(s)' = AccountAt(s)
  BY DEF TxTypeOK, AccountAt, Kind
<1>2. \A n \in Nat : at[s] = n \/ at[s] > n => at'[s] > n
  BY <1>1
<1>3. /\ at[s] = 2 \/ at[s] > 2 => at'[s] > 2
      /\ at[s] = 3 \/ at[s] > 3 => at'[s] > 3
      /\ at[s] = 5 \/ at[s] > 5 => at'[s] > 5
      /\ at[s] = AccountAt(s) \/ at[s] > AccountAt(s) => at'[s] > AccountAt(s)
  BY <1>1, <1>2
<1> QED
  BY <1>1, <1>3, Zenon DEF Took, TookBefore, Advisory, OrderLock, AccountLock, Entry, Kind

\* Every session takes its locks on its way and keeps them to its end.
LEMMA LocksStayInOrder ==
    /\ TxInit => LocksInOrder
    /\ TxTypeOK /\ LocksInOrder /\ [TxNext]_allVars => LocksInOrder'
<1>1. TxInit => LocksInOrder
  BY DEF TxInit, LocksInOrder
<1>2. ASSUME TxTypeOK, LocksInOrder, NEW u \in Sessions, Step(u) \/ Drop(u),
             NEW s \in Sessions, NEW lock \in holds'[s]
      PROVE  TookBefore(s, lock)'
  <2>1. CASE s = u
    <3>1. at'[s] = at[s] + 1 /\ (lock \in holds[s] \/ Took(s, lock))
      BY <1>2, <2>1, StepTakes
    <3> QED
      BY <1>2, <3>1, TakenBefore DEF LocksInOrder
  <2>2. CASE s # u
    <3>1. at'[s] = at[s] /\ holds'[s] = holds[s]
      BY <1>2, <2>2, StepIsOwn
    <3>2. TookBefore(s, lock)
      BY <1>2, <3>1 DEF LocksInOrder
    <3> QED
      BY <3>1, <3>2, Zenon
         DEF TookBefore, AccountAt, Advisory, OrderLock, AccountLock, Entry, Kind
  <2> QED
    BY <2>1, <2>2
<1>3. ASSUME LocksInOrder, UNCHANGED txVars PROVE LocksInOrder'
  BY <1>3 DEF txVars, LocksInOrder, TookBefore, AccountAt, Advisory, OrderLock, AccountLock,
              Entry, Kind
<1>4. ASSUME TxTypeOK, LocksInOrder, [TxNext]_allVars PROVE LocksInOrder'
  <2>1. CASE \E u \in Sessions : Step(u) \/ Drop(u)
    BY <1>2, <1>4, <2>1 DEF LocksInOrder
  <2> QED
    BY <1>3, <1>4, <2>1 DEF TxNext, AllAnswered, allVars
<1> QED
  BY <1>1, <1>4

\* Who holds a lock that is waited for, and how far it has come.
LEMMA HolderIsFurther ==
    ASSUME TxTypeOK, LocksInOrder, NEW s \in Sessions, NEW t \in Sessions,
           NEW low \in 1..5, WaitsFor(s, low, t)
    PROVE  /\ reply[s] = "" /\ reply[t] = ""
           /\ low = 1 => Kind(t) = "purchase" /\ at[t] > 2
           /\ low = 2 => Kind(t) = "refund" /\ at[t] > 3
           /\ low = 3 => at[t] > AccountAt(t)
           /\ low = 4 => Kind(t) = "refund" /\ at[t] > 5 /\ Request[t].key = Request[s].key
           /\ low = 5 => Kind(t) = "purchase" /\ at[t] > 5
<1>1. PICK lock \in holds[t] : Awaits(s, low, lock)
  BY DEF WaitsFor
<1>2. reply[s] = "" /\ reply[t] = "" /\ TookBefore(t, lock)
  BY <1>1 DEF Awaits, Doing, TxTypeOK, LocksInOrder
<1>3. low = 1 => Kind(t) = "purchase" /\ at[t] > 2
  <2>1. low = 1 => lock = Advisory(s)
    BY <1>1 DEF Awaits
  <2> QED
    BY <1>2, <2>1, LocksDiffer, Zenon
       DEF TookBefore, Advisory, OrderLock, AccountLock, Entry
<1>4. low = 2 => Kind(t) = "refund" /\ at[t] > 3
  <2>1. low = 2 => lock = OrderLock(s)
    BY <1>1 DEF Awaits
  <2> QED
    BY <1>2, <2>1, LocksDiffer, Zenon
       DEF TookBefore, Advisory, OrderLock, AccountLock, Entry
<1>5. low = 3 => at[t] > AccountAt(t)
  <2>1. low = 3 => lock = AccountLock(s)
    BY <1>1 DEF Awaits
  <2> QED
    BY <1>2, <2>1, LocksDiffer, Zenon
       DEF TookBefore, Advisory, OrderLock, AccountLock, Entry
<1>6. low = 4 => Kind(t) = "refund" /\ at[t] > 5 /\ Request[t].key = Request[s].key
  <2>1. low = 4 => lock = Entry(s)
    BY <1>1 DEF Awaits
  <2> QED
    BY <1>2, <2>1, LocksDiffer, Zenon
       DEF TookBefore, Advisory, OrderLock, AccountLock, Entry
<1>7. low = 5 => Kind(t) = "purchase" /\ at[t] > 5
  <2>1. low = 5 => lock = ProductLock(s)
    BY <1>1 DEF Awaits
  <2> QED
    BY <1>2, <2>1, LocksDiffer, Zenon
       DEF TookBefore, Advisory, OrderLock, AccountLock, Entry, ProductLock
<1> QED
  BY <1>2, <1>3, <1>4, <1>5, <1>6, <1>7, Zenon

\* At which statement a session waits.
LEMMA WaiterIsAt ==
    ASSUME TxTypeOK, NEW t \in Sessions, NEW u, NEW high \in 1..5, WaitsFor(t, high, u)
    PROVE  /\ high = 1 => Kind(t) = "purchase" /\ at[t] = 2
           /\ high = 2 => Kind(t) = "refund" /\ at[t] = 3
           /\ high = 3 => at[t] = AccountAt(t)
           /\ high = 4 => at[t] = IF Kind(t) = "refund" THEN 5 ELSE LastAt(t)
           /\ high = 5 => at[t] = IF Kind(t) = "refund" THEN 6 ELSE 5
<1>1. at[t] \in DOMAIN Route(Kind(t))
  BY DEF TxTypeOK
<1> QED
  BY <1>1, Statements DEF WaitsFor, Awaits

\* So no wait leads back to where it came from.
LEMMA ClimbHolds ==
    ASSUME TxTypeOK, LocksInOrder, KeysAreOfOneKind
    PROVE  WaitsClimb
<1> SUFFICES ASSUME NEW s \in Sessions, NEW t \in Sessions, NEW u \in Sessions,
                    NEW low \in 1..5, NEW high \in 1..5,
                    WaitsFor(s, low, t), WaitsFor(t, high, u)
             PROVE  low < high
  BY DEF WaitsClimb
<1>1. /\ low = 1 => Kind(t) = "purchase" /\ at[t] > 2
      /\ low = 2 => Kind(t) = "refund" /\ at[t] > 3
      /\ low = 3 => at[t] > AccountAt(t)
      /\ low = 4 => Kind(t) = "refund" /\ at[t] > 5
      /\ low = 5 => Kind(t) = "purchase" /\ at[t] > 5
  BY HolderIsFurther
<1>2. /\ high = 1 => Kind(t) = "purchase" /\ at[t] = 2
      /\ high = 2 => Kind(t) = "refund" /\ at[t] = 3
      /\ high = 3 => at[t] = AccountAt(t)
      /\ high = 4 => at[t] = IF Kind(t) = "refund" THEN 5 ELSE LastAt(t)
      /\ high = 5 => at[t] = IF Kind(t) = "refund" THEN 6 ELSE 5
  BY WaiterIsAt
<1>3. ~(low = 5 /\ high = 4)
  <2> SUFFICES ASSUME low = 5, high = 4 PROVE FALSE
    OBVIOUS
  <2>1. Kind(u) = "refund" /\ Request[u].key = Request[t].key
    BY HolderIsFurther
  <2> QED
    BY <1>1, <2>1 DEF KeysAreOfOneKind
<1>4. at[t] \in Nat /\ AccountAt(t) \in {3, 4}
  BY DEF TxTypeOK, AccountAt
<1>5. Kind(t) # "topup" => AccountAt(t) = 4 /\ LastAt(t) = 6
  BY DEF AccountAt, LastAt
<1>6. Kind(t) = "topup" => AccountAt(t) = 3 /\ LastAt(t) = 4
  BY DEF AccountAt, LastAt
<1>7. low \in {1, 2, 3, 4, 5} /\ high \in {1, 2, 3, 4, 5}
  OBVIOUS
<1>8. CASE Kind(t) = "purchase"
  <2>1. ~(low = 2) /\ ~(low = 4) /\ ~(high = 2)
    BY <1>1, <1>2, <1>8
  <2>2. /\ low = 1 => at[t] > 2
        /\ low = 3 => at[t] > 4
        /\ low = 5 => at[t] > 5
        /\ high = 1 => at[t] = 2
        /\ high = 3 => at[t] = 4
        /\ high = 4 => at[t] = 6
        /\ high = 5 => at[t] = 5
    BY <1>1, <1>2, <1>5, <1>8
  <2> QED
    BY <1>3, <1>4, <1>7, <2>1, <2>2
<1>9. CASE Kind(t) = "refund"
  <2>1. ~(low = 1) /\ ~(low = 5) /\ ~(high = 1)
    BY <1>1, <1>2, <1>9
  <2>2. /\ low = 2 => at[t] > 3
        /\ low = 3 => at[t] > 4
        /\ low = 4 => at[t] > 5
        /\ high = 2 => at[t] = 3
        /\ high = 3 => at[t] = 4
        /\ high = 4 => at[t] = 5
        /\ high = 5 => at[t] = 6
    BY <1>1, <1>2, <1>5, <1>9
  <2> QED
    BY <1>4, <1>7, <2>1, <2>2
<1>10. CASE Kind(t) = "topup"
  <2>1. low = 3 /\ ~(high = 1) /\ ~(high = 2)
    BY <1>1, <1>2, <1>7, <1>10
  <2>2. at[t] > 3 /\ (high = 3 => at[t] = 3)
    BY <1>1, <1>2, <1>6, <1>10, <2>1
  <2> QED
    BY <1>4, <1>7, <2>1, <2>2
<1>11. Kind(t) \in {"topup", "purchase", "refund"}
  BY SessionAssumption DEF Kinds, Kind
<1> QED
  BY <1>8, <1>9, <1>10, <1>11

\* There are five heights, so a climb ends.
LEMMA NoEndlessClimb ==
    ASSUME NEW heights, heights \subseteq 1..5,
           \A low \in heights : \E high \in heights : low < high
    PROVE  heights = {}
<1>1. 5 \notin heights
  OBVIOUS
<1>2. 4 \notin heights
  BY <1>1
<1>3. 3 \notin heights
  BY <1>1, <1>2
<1>4. 2 \notin heights
  BY <1>1, <1>2, <1>3
<1>5. 1 \notin heights
  BY <1>1, <1>2, <1>3, <1>4
<1> QED
  BY <1>1, <1>2, <1>3, <1>4, <1>5

\* And at the top of every climb is a call that waits for nobody.
LEMMA TopGoesOn ==
    ASSUME TxTypeOK, LocksInOrder, WaitsClimb
    PROVE  SomebodyGoesOn
<1> SUFFICES ASSUME NEW s \in Sessions, reply[s] = "",
                    \A t \in Sessions : reply[t] = "" => Waits(t)
             PROVE  FALSE
  BY DEF SomebodyGoesOn
<1> DEFINE heights == {height \in 1..5 : \E r, t \in Sessions : WaitsFor(r, height, t)}
<1>1. ASSUME NEW low \in heights PROVE \E high \in heights : low < high
  <2>1. PICK r \in Sessions, t \in Sessions : WaitsFor(r, low, t)
    BY <1>1
  <2>2. reply[t] = ""
    BY <2>1, HolderIsFurther
  <2>3. PICK high \in 1..5, u \in Sessions : WaitsFor(t, high, u)
    BY <2>2 DEF Waits
  <2> QED
    BY <2>1, <2>3 DEF WaitsClimb
<1>2. heights \subseteq 1..5 /\ heights # {}
  BY DEF Waits
<1> HIDE DEF heights
<1>3. \A low \in heights : \E high \in heights : low < high
  BY <1>1
<1> QED
  BY <1>2, <1>3, NoEndlessClimb, Zenon

\* However many transactions overlap, they never wait for one another in a circle: each
\* waits only for calls that wait, if at all, for a lock further up, and while any is
\* unanswered one of them waits for nobody.
THEOREM NobodyWaitsInACircle ==
    ASSUME KeysAreOfOneKind
    PROVE  TxSpec => [](WaitsClimb /\ SomebodyGoesOn)
<1>1. TxTypeOK /\ LocksInOrder => WaitsClimb /\ SomebodyGoesOn
  BY ClimbHolds, TopGoesOn
<1> QED
  BY <1>1, LocksStayInOrder, TransactionsAreWellFormed, PTL DEF TxSpec
=============================================================================
