--------------------------- MODULE ReversalProofs ---------------------------
(***************************************************************************)
(* What holds of every /refund command, whoever sends how many, and         *)
(* wherever each of them fails: the gateway's objects tell of one credit    *)
(* each, and nothing is stamped settled before it is on record.             *)
(***************************************************************************)
EXTENDS Reversal, WalletLedgerProofs

Recording(h) == at[h] \in {"reverse", "name", "trail", "settle"}

\* The inputs are those of the one credit behind the order's reversal.
Agrees(x) ==
    /\ x.order \in OrderIds
    /\ reversals[x.order] # None
    /\ x.account = reversals[x.order].account /\ x.amount = reversals[x.order].amount
    /\ x.key = reversals[x.order].key
    /\ x.reason = wording[x.order].reason /\ x.run = wording[x.order].run

Named(o) == refundIds[o] \in {r.by : r \in RecordsOf(o)}

\* Every reversal is owed by the account of its order.
OwedByTheBuyer ==
    \A o \in OrderIds : reversals[o] # None =>
        /\ orders[o] # None /\ orders[o].status = "refunded_via_wallet"
        /\ reversals[o].account = orders[o].account
ObjectsAgree ==
    \A r \in gateway : r.by \in Commands /\ Agrees(r.inputs) /\ r.inputs.account = Asked[r.by].account
\* A command that records a reversal holds its inputs, for the account it was sent
\* for; what it has come past is on record; and it speaks of refunds that stand.
InGoodOrder(h) ==
    /\ Recording(h) => Agrees(owes[h]) /\ owes[h].account = Asked[h].account
    /\ at[h] \in {"name", "trail", "settle"} =>
            \E r \in gateway : r.by = h /\ r.inputs.order = owes[h].order
    /\ at[h] \in {"trail", "settle"} => Named(owes[h].order)
    /\ at[h] = "settle" => owes[h].order \in trail
    /\ h \in saw => at[h] # Waiting /\ RefundedTo(h)
    /\ (h \in saw /\ at[h] = "answered") => reversals[Asked[h].order].settled

RevInv ==
    /\ OwedByTheBuyer
    /\ ObjectsAgree
    /\ SettledMeansRecorded
    /\ \A h \in Commands : InGoodOrder(h)

\* The tables move as the wallet functions and the stamp move them.
LEMMA CommandsMoveTheLedger == RevTypeOK /\ [RevNext]_revVars => [Next]_vars
<1> SUFFICES ASSUME RevTypeOK, [RevNext]_revVars PROVE [Next]_vars
  OBVIOUS
<1>1. ASSUME NEW h \in Commands, Credit(h) PROVE Next
  <2>1. PICK seen \in SUBSET lapsed :
          RefundWalletOrder(Asked[h].account, Asked[h].order, Asked[h].key, seen)
    BY <1>1 DEF Credit
  <2>2. Asked[h].account \in Accounts /\ Asked[h].order \in OrderIds /\ Asked[h].key \in Keys
    BY CommandAssumption
  <2> QED
    BY <2>1, <2>2 DEF Next
<1>2. ASSUME NEW h \in Commands, Settle(h) PROVE [Next]_vars
  <2>1. owes[h].order \in OrderIds
    BY <1>2, CommandAssumption DEF Settle, RevTypeOK
  <2> QED
    BY <1>2, <2>1 DEF Settle, Next
<1> QED
  BY <1>1, <1>2
     DEF RevNext, Elsewhere, RefundStep, NoCredit, LookUp, Reverse, NameRecord, WriteTrail, Cut,
         Next, revVars

\* What the tables keep of a refunded order and of its reversal, whatever is done.
LEMMA RefundedStays ==
    ASSUME IInv, [Next]_vars, NEW o \in OrderIds
    PROVE  /\ orders[o] # None => orders'[o] # None /\ orders'[o].account = orders[o].account
           /\ (orders[o] # None /\ orders[o].status = "refunded_via_wallet") => orders'[o] = orders[o]
           /\ reversals[o] # None =>
                /\ reversals'[o] # None
                /\ reversals'[o].account = reversals[o].account
                /\ reversals'[o].amount = reversals[o].amount
                /\ reversals'[o].key = reversals[o].key
                /\ reversals[o].settled => reversals'[o].settled
<1>0. TypeOK /\ orders \in [OrderIds -> OrderRow \cup {None}]
      /\ reversals \in [OrderIds -> ReversalRow \cup {None}]
  BY DEF IInv, TypeOK
<1>1. ASSUME NEW c \in TopUps, CreditWalletTopup(c)
      PROVE  orders' = orders /\ reversals' = reversals
  BY <1>1 DEF CreditWalletTopup
<1>2. ASSUME NEW c \in Purchases, NEW p \in OrderIds, FulfillWalletOrder(c, p)
      PROVE  /\ reversals' = reversals
             /\ orders[o] # None => orders'[o] = orders[o]
  <2>1. /\ orders[p] = None /\ reversals' = reversals
        /\ orders' = [orders EXCEPT ![p] =
                [account |-> c.account, product |-> c.product, qty |-> c.qty,
                 amount |-> c.final, status |-> "fulfilled_via_wallet"]]
    BY <1>2 DEF FulfillWalletOrder, RecordSale
  <2> QED
    BY <1>0, <2>1
<1>3. ASSUME NEW a \in Accounts, NEW p \in OrderIds, NEW k \in Keys, NEW seen \in SUBSET lapsed,
             RefundWalletOrder(a, p, k, seen)
      PROVE  /\ orders[o] # None => orders'[o] # None /\ orders'[o].account = orders[o].account
             /\ (orders[o] # None /\ orders[o].status = "refunded_via_wallet") => orders'[o] = orders[o]
             /\ reversals[o] # None => reversals'[o] = reversals[o]
  <2>1. /\ orders[p] # None /\ orders[p].status = "fulfilled_via_wallet" /\ OweReversal(a, p, k)
        /\ orders' = [orders EXCEPT ![p].status = "refunded_via_wallet"]
    BY <1>3 DEF RefundWalletOrder, Refundable, RecordCancellation
  <2>2. orders[p] \in OrderRow
    BY <1>0, <2>1
  <2>3. orders'[p] \in OrderRow /\ orders'[p].account = orders[p].account
        /\ \A q \in OrderIds \ {p} : orders'[q] = orders[q]
    BY <1>0, <2>1, <2>2, CancelledOrder
  <2>4. orders'[p] # None
    BY <2>3, WalletAssumption
  <2>5. orders[o].status = "refunded_via_wallet" => o # p
    BY <2>1
  <2>6. reversals[o] # None => reversals'[o] = reversals[o]
    BY <1>0, <2>1 DEF OweReversal
  <2> QED
    BY <2>3, <2>4, <2>5, <2>6
<1>4. ASSUME NEW p \in OrderIds, WindowLapses(p) PROVE orders' = orders /\ reversals' = reversals
  BY <1>4 DEF WindowLapses
<1>5. ASSUME NEW p \in OrderIds, SettleReversal(p)
      PROVE  /\ orders' = orders
             /\ reversals[o] # None =>
                /\ reversals'[o] # None
                /\ reversals'[o].account = reversals[o].account
                /\ reversals'[o].amount = reversals[o].amount
                /\ reversals'[o].key = reversals[o].key
                /\ reversals[o].settled => reversals'[o].settled
  <2>1. reversals[p] # None /\ orders' = orders
        /\ reversals' = [reversals EXCEPT ![p].settled = TRUE]
    BY <1>5 DEF SettleReversal
  <2>2. CASE o # p
    BY <1>0, <2>1, <2>2
  <2>3. CASE o = p
    <3> DEFINE row == [reversals[p] EXCEPT !.settled = TRUE]
    <3>1. reversals[p] \in ReversalRow
      BY <1>0, <2>1
    <3>2. row \in ReversalRow /\ row.account = reversals[p].account /\ row.amount = reversals[p].amount
          /\ row.key = reversals[p].key /\ row.settled
      BY <3>1 DEF ReversalRow
    <3>3. reversals'[p] = row
      BY <1>0, <2>1
    <3> HIDE DEF row
    <3>4. row # None
      BY <3>2, WalletAssumption
    <3> QED
      BY <2>1, <2>3, <3>2, <3>3, <3>4
  <2> QED
    BY <2>2, <2>3
<1>6. CASE UNCHANGED vars
  BY <1>6 DEF vars
<1> QED
  BY <1>1, <1>2, <1>3, <1>4, <1>5, <1>6 DEF Next

\* Inputs that agree go on agreeing.
LEMMA AgreesStays ==
    ASSUME IInv, [Next]_vars, NEW x, Agrees(x),
           \A o \in OrderIds : reversals[o] # None => wording'[o] = wording[o]
    PROVE  Agrees(x)'
  BY RefundedStays DEF Agrees

\* A refunded order has its reversal on the books.
LEMMA RefundedIsOwed ==
    ASSUME IInv, NEW h \in Commands, RefundedTo(h)
    PROVE  reversals[Asked[h].order] # None
<1>1. Asked[h].order \in OrderIds
  BY CommandAssumption
<1> QED
  BY <1>1 DEF RefundedTo, IInv, OrderMoneyTrail, Returned

\* Only a credit owes a reversal, and it owes it to the account it credits.
LEMMA OwedStep ==
    ASSUME IInv, IInv', OwedByTheBuyer, [Next]_vars
    PROVE  OwedByTheBuyer'
<1> SUFFICES ASSUME NEW o \in OrderIds, reversals'[o] # None
             PROVE  /\ orders'[o] # None /\ orders'[o].status = "refunded_via_wallet"
                    /\ reversals'[o].account = orders'[o].account
  BY DEF OwedByTheBuyer
<1>0. reversals \in [OrderIds -> ReversalRow \cup {None}]
  BY DEF IInv, TypeOK
<1>1. orders'[o] # None /\ orders'[o].status = "refunded_via_wallet"
  <2>1. orders'[o] # None
    BY DEF IInv, OrderMoneyTrail, Untouched
  <2>2. orders'[o].status \in Statuses
    BY <2>1 DEF IInv, TypeOK, OrderRow
  <2>3. orders'[o].status # "fulfilled_via_wallet"
    BY <2>1 DEF IInv, OrderMoneyTrail, Kept
  <2> QED
    BY <2>1, <2>2, <2>3 DEF Statuses
<1>2. CASE reversals[o] # None
  BY <1>1, <1>2, RefundedStays DEF OwedByTheBuyer
<1>3. CASE reversals[o] = None
  <2>1. ASSUME NEW a \in Accounts, NEW p \in OrderIds, NEW k \in Keys, NEW seen \in SUBSET lapsed,
               RefundWalletOrder(a, p, k, seen)
        PROVE  reversals'[o].account = orders'[o].account
    <3>1. OweReversal(a, p, k) /\ orders[p] # None /\ orders[p].account = a
      BY <2>1 DEF RefundWalletOrder, Refundable, RecordCancellation
    <3>2. p = o /\ reversals'[o].account = a
      BY <1>0, <1>3, <3>1 DEF OweReversal
    <3>3. orders'[p].account = orders[p].account
      BY <3>1, RefundedStays
    <3> QED
      BY <3>1, <3>2, <3>3
  <2>2. ASSUME NEW c \in TopUps, CreditWalletTopup(c) PROVE FALSE
    BY <1>3, <2>2 DEF CreditWalletTopup
  <2>3. ASSUME NEW c \in Purchases, NEW p \in OrderIds, FulfillWalletOrder(c, p) PROVE FALSE
    BY <1>3, <2>3 DEF FulfillWalletOrder, RecordSale
  <2>4. ASSUME NEW p \in OrderIds, WindowLapses(p) PROVE FALSE
    BY <1>3, <2>4 DEF WindowLapses
  <2>5. ASSUME NEW p \in OrderIds, SettleReversal(p) PROVE FALSE
    BY <1>0, <1>3, <2>5 DEF SettleReversal
  <2>6. ~UNCHANGED vars
    BY <1>3 DEF vars
  <2> QED
    BY <1>1, <2>1, <2>2, <2>3, <2>4, <2>5, <2>6 DEF Next
<1> QED
  BY <1>2, <1>3

-----------------------------------------------------------------------------
\* A command no step touches stays in good order.
LEMMA OthersStayInOrder ==
    ASSUME IInv, RevTypeOK, [Next]_vars,
           \A o \in OrderIds : reversals[o] # None => wording'[o] = wording[o],
           gateway \subseteq gateway', trail \subseteq trail',
           \A o \in OrderIds : Named(o) => Named(o)',
           NEW g \in Commands, InGoodOrder(g),
           at'[g] = at[g], owes'[g] = owes[g], g \in saw' => g \in saw
    PROVE  InGoodOrder(g)'
<1>1. ASSUME Recording(g)' PROVE Agrees(owes[g])' /\ owes'[g].account = Asked[g].account
  <2>1. Recording(g)
    BY <1>1 DEF Recording
  <2>2. Agrees(owes[g]) /\ owes[g].account = Asked[g].account
    BY <2>1 DEF InGoodOrder
  <2> DEFINE x == owes[g]
  <2>3. Agrees(x)
    BY <2>2
  <2>4. x.order \in OrderIds /\ reversals[x.order] # None
    BY <2>3 DEF Agrees
  <2>5. /\ reversals'[x.order] # None
        /\ reversals'[x.order].account = reversals[x.order].account
        /\ reversals'[x.order].amount = reversals[x.order].amount
        /\ reversals'[x.order].key = reversals[x.order].key
        /\ wording'[x.order] = wording[x.order]
    BY <2>4, RefundedStays
  <2> QED
    BY <2>2, <2>3, <2>5 DEF Agrees
<1>2. at'[g] \in {"trail", "settle"} => Named(owes[g].order)'
  <2> SUFFICES ASSUME at[g] \in {"trail", "settle"} PROVE Named(owes[g].order)'
    OBVIOUS
  <2>1. PICK p \in OrderIds : p = owes[g].order
    BY CommandAssumption DEF RevTypeOK
  <2>2. Named(p)
    BY <2>1 DEF InGoodOrder
  <2>3. Named(p)'
    BY <2>2
  <2>4. p = owes'[g].order
    BY <2>1
  <2> QED
    BY <2>3, <2>4 DEF Named, RecordsOf
<1>3. at'[g] \in {"name", "trail", "settle"} =>
        \E r \in gateway' : r.by = g /\ r.inputs.order = owes'[g].order
  BY DEF InGoodOrder
<1>4. at'[g] = "settle" => owes'[g].order \in trail'
  BY DEF InGoodOrder
<1>5. ASSUME g \in saw'
      PROVE  /\ at'[g] # Waiting /\ RefundedTo(g)'
             /\ at'[g] = "answered" => reversals'[Asked[g].order].settled
  <2>1. at[g] # Waiting /\ RefundedTo(g) /\ (at[g] = "answered" => reversals[Asked[g].order].settled)
    BY <1>5 DEF InGoodOrder
  <2>2. Asked[g].order \in OrderIds /\ reversals[Asked[g].order] # None
    BY <2>1, RefundedIsOwed, CommandAssumption
  <2>3. RefundedTo(g)'
    BY <2>1, <2>2, RefundedStays DEF RefundedTo
  <2> QED
    BY <2>1, <2>2, <2>3, RefundedStays
<1> QED
  BY <1>1, <1>2, <1>3, <1>4, <1>5 DEF InGoodOrder

\* What a step must see to, for the invariant to survive it.
LEMMA StepKeeps ==
    ASSUME IInv, IInv', RevTypeOK, RevInv, [Next]_vars,
           \A o \in OrderIds : reversals[o] # None => wording'[o] = wording[o],
           gateway \subseteq gateway', trail \subseteq trail',
           \A r \in gateway' \ gateway :
                r.by \in Commands /\ Agrees(r.inputs)' /\ r.inputs.account = Asked[r.by].account,
           \A o \in OrderIds : Named(o) => Named(o)',
           \A o \in OrderIds : (reversals'[o] # None /\ reversals'[o].settled) =>
                \/ reversals[o] # None /\ reversals[o].settled
                \/ Named(o)' /\ o \in trail',
           \A g \in Commands :
                \/ at'[g] = at[g] /\ owes'[g] = owes[g] /\ (g \in saw' => g \in saw)
                \/ InGoodOrder(g)'
    PROVE  RevInv'
<1>1. OwedByTheBuyer'
  BY OwedStep DEF RevInv
<1>2. ASSUME NEW g \in Commands PROVE InGoodOrder(g)'
  <2>1. InGoodOrder(g)
    BY DEF RevInv
  <2> QED
    BY <2>1, OthersStayInOrder
<1>3. ObjectsAgree'
  <2> SUFFICES ASSUME NEW r \in gateway'
               PROVE  r.by \in Commands /\ Agrees(r.inputs)' /\ r.inputs.account = Asked[r.by].account
    BY DEF ObjectsAgree
  <2>1. CASE r \in gateway
    <3>1. r.by \in Commands /\ Agrees(r.inputs) /\ r.inputs.account = Asked[r.by].account
      BY <2>1 DEF RevInv, ObjectsAgree
    <3> QED
      BY <3>1, AgreesStays
  <2> QED
    BY <2>1
<1>4. SettledMeansRecorded'
  BY DEF RevInv, SettledMeansRecorded, Named
<1> QED
  BY <1>1, <1>2, <1>3, <1>4 DEF RevInv

-----------------------------------------------------------------------------
\* What every step leaves alone: the wording of what is owed, and what is on record.
LEMMA WordingStays ==
    ASSUME RevTypeOK, [RevNext]_revVars, NEW o \in OrderIds, reversals[o] # None
    PROVE  wording'[o] = wording[o]
<1>1. ASSUME NEW h \in Commands, Credit(h) PROVE wording'[o] = wording[o]
  BY <1>1 DEF Credit, RevTypeOK
<1> QED
  BY <1>1
     DEF RevNext, RefundStep, Elsewhere, cmdVars, revVars, NoCredit, LookUp, Reverse, NameRecord,
         WriteTrail, Settle, Cut

\* A step that neither settles a reversal nor touches the record keeps the invariant,
\* when the command it is a step of, if any, is in good order after it.
LEMMA QuietStepKeeps ==
    ASSUME IInv, IInv', RevTypeOK, RevInv, [RevNext]_revVars,
           gateway' = gateway, refundIds' = refundIds, trail' = trail,
           \A o \in OrderIds : (reversals'[o] # None /\ reversals'[o].settled) =>
                reversals[o] # None /\ reversals[o].settled,
           \A g \in Commands :
                \/ at'[g] = at[g] /\ owes'[g] = owes[g] /\ (g \in saw' => g \in saw)
                \/ InGoodOrder(g)'
    PROVE  RevInv'
<1>1. [Next]_vars
  BY CommandsMoveTheLedger
<1>2. \A o \in OrderIds : reversals[o] # None => wording'[o] = wording[o]
  BY WordingStays
<1>3. \A o \in OrderIds : Named(o) => Named(o)'
  BY DEF Named, RecordsOf
<1>4. gateway \subseteq gateway' /\ trail \subseteq trail' /\ gateway' \ gateway = {}
  OBVIOUS
<1> QED
  BY <1>1, <1>2, <1>3, <1>4, StepKeeps
-----------------------------------------------------------------------------
\* What a credit writes: the order stands refunded and its reversal is owed.
LEMMA CreditOwes ==
    ASSUME IInv, NEW h \in Commands, Credit(h)
    PROVE  LET o == Asked[h].order
               x == OwnReversal(h)
           IN  /\ o \in OrderIds /\ orders[o] \in OrderRow /\ orders[o].account = Asked[h].account
               /\ reversals[o] = None
               /\ reversals' = [reversals EXCEPT ![o] =
                        [account |-> Asked[h].account, amount |-> orders[o].amount,
                         key |-> Asked[h].key, settled |-> FALSE]]
               /\ orders' = [orders EXCEPT ![o].status = "refunded_via_wallet"]
               /\ wording' = [wording EXCEPT ![o] = [reason |-> Asked[h].reason, run |-> h]]
<1> DEFINE o == Asked[h].order
<1>0. /\ Asked[h].account \in Accounts /\ o \in OrderIds /\ Asked[h].key \in Keys
      /\ orders \in [OrderIds -> OrderRow \cup {None}]
  BY CommandAssumption DEF IInv, TypeOK
<1>1. PICK seen \in SUBSET lapsed : RefundWalletOrder(Asked[h].account, o, Asked[h].key, seen)
  BY DEF Credit
<1>2. /\ orders[o] # None /\ orders[o].account = Asked[h].account
      /\ orders[o].status = "fulfilled_via_wallet"
      /\ orders' = [orders EXCEPT ![o].status = "refunded_via_wallet"]
      /\ OweReversal(Asked[h].account, o, Asked[h].key)
  BY <1>1 DEF RefundWalletOrder, Refundable, RecordCancellation
<1>3. reversals[o] = None
  BY <1>0, <1>2 DEF IInv, OrderMoneyTrail, Kept
<1> QED
  BY <1>0, <1>2, <1>3 DEF OweReversal, Credit

\* The tables of the commands keep their shape, action by action.
LEMMA RevTypeStep ==
    ASSUME IInv, IInv', RevTypeOK, [RevNext]_revVars
    PROVE  RevTypeOK'
<1>0. /\ TypeOK' /\ [Next]_vars
      /\ orders \in [OrderIds -> OrderRow \cup {None}]
      /\ reversals \in [OrderIds -> ReversalRow \cup {None}]
      /\ at \in [Commands -> Ended \cup {Waiting, "look", "reverse", "name", "trail", "settle"}]
      /\ owes \in [Commands -> Inputs \cup {None}]
      /\ wording \in [OrderIds -> Wording \cup {None}]
      /\ saw \subseteq Commands /\ trail \subseteq OrderIds /\ DOMAIN refundIds = OrderIds
      /\ \A h \in Commands : at[h] \in {"reverse", "name", "trail", "settle"} =>
            owes[h] # None /\ owes[h].order = Asked[h].order
      /\ \A o \in OrderIds : wording[o] = None <=> reversals[o] = None
  BY CommandsMoveTheLedger DEF RevTypeOK, IInv, TypeOK
<1>1. ASSUME wording' = wording,
             \A o \in OrderIds : reversals'[o] # None => reversals[o] # None
      PROVE  \A o \in OrderIds : wording'[o] = None <=> reversals'[o] = None
  BY <1>0, <1>1, RefundedStays
<1>2. ASSUME NEW h \in Commands, Credit(h) PROVE RevTypeOK'
  <2> DEFINE o == Asked[h].order
             w == [reason |-> Asked[h].reason, run |-> h]
             row == [account |-> Asked[h].account, amount |-> orders[o].amount,
                     key |-> Asked[h].key, settled |-> FALSE]
  <2>1. /\ o \in OrderIds /\ orders[o] \in OrderRow /\ orders[o].account = Asked[h].account
        /\ reversals' = [reversals EXCEPT ![o] = row]
        /\ wording' = [wording EXCEPT ![o] = w]
    BY <1>2, CreditOwes
  <2>2. OwnReversal(h) \in Inputs /\ OwnReversal(h).order = o
    BY <2>1, CommandAssumption DEF OwnReversal, Inputs, OrderRow
  <2>3. w \in Wording /\ w # None
    BY CommandAssumption DEF Wording
  <2>4. row \in ReversalRow /\ row # None
    <3>1. orders[o].amount \in Nat \ {0}
      BY <2>1 DEF OrderRow
    <3>2. row \in ReversalRow
      BY <3>1, CommandAssumption DEF ReversalRow
    <3> HIDE DEF row
    <3> QED
      BY <3>2, WalletAssumption
  <2>5. /\ owes' = [owes EXCEPT ![h] = OwnReversal(h)] /\ saw' = saw \cup {h}
        /\ \/ at' = [at EXCEPT ![h] = "reverse"]
           \/ at' = [at EXCEPT ![h] = "cut"]
        /\ trail' = trail /\ refundIds' = refundIds
    BY <1>2 DEF Credit, Proceeds, GoesTo
  <2>6. OwnReversal(h) # None
    BY <2>2, CommandAssumption
  <2> HIDE DEF o, w, row
  <2>7. \A p \in OrderIds : wording'[p] = None <=> reversals'[p] = None
    BY <1>0, <2>1, <2>3, <2>4
  <2>8. /\ wording' \in [OrderIds -> Wording \cup {None}]
        /\ owes' \in [Commands -> Inputs \cup {None}]
        /\ at' \in [Commands -> Ended \cup {Waiting, "look", "reverse", "name", "trail", "settle"}]
    BY <1>0, <2>1, <2>2, <2>3, <2>5 DEF Ended
  <2>9. \A g \in Commands : at'[g] \in {"reverse", "name", "trail", "settle"} =>
            owes'[g] # None /\ owes'[g].order = Asked[g].order
    BY <1>0, <2>2, <2>5, <2>6 DEF o
  <2> QED
    BY <1>0, <2>5, <2>7, <2>8, <2>9 DEF RevTypeOK
<1>3. ASSUME NEW h \in Commands, LookUp(h) PROVE RevTypeOK'
  <2> DEFINE x == OutstandingReversal(h)
             step == IF x = None THEN "answered" ELSE "reverse"
  <2>1. x \in Inputs \cup {None} /\ (x # None => x.order = Asked[h].order)
    <3> SUFFICES ASSUME x # None PROVE x \in Inputs /\ x.order = Asked[h].order
      OBVIOUS
    <3>1. Asked[h].order \in OrderIds /\ Asked[h].account \in Accounts
      BY CommandAssumption
    <3>2. reversals[Asked[h].order] \in ReversalRow /\ wording[Asked[h].order] \in Wording
      BY <1>0, <3>1 DEF OutstandingReversal
    <3> QED
      BY <3>1, <3>2 DEF OutstandingReversal, Inputs, ReversalRow, Wording
  <2>2. /\ owes' = [owes EXCEPT ![h] = x] /\ at' = [at EXCEPT ![h] = step]
        /\ UNCHANGED <<vars, saw, wording, gateway, refundIds, trail>>
    BY <1>3 DEF LookUp, GoesTo
  <2>3. x # None \/ step = "answered"
    OBVIOUS
  <2>4. step \in {"answered", "reverse"}
    OBVIOUS
  <2> HIDE DEF x, step
  <2>5. /\ at' \in [Commands -> Ended \cup {Waiting, "look", "reverse", "name", "trail", "settle"}]
        /\ owes' \in [Commands -> Inputs \cup {None}]
    BY <1>0, <2>1, <2>2, <2>4 DEF Ended
  <2>6. \A g \in Commands : at'[g] \in {"reverse", "name", "trail", "settle"} =>
            owes'[g] # None /\ owes'[g].order = Asked[g].order
    BY <1>0, <2>1, <2>2, <2>3
  <2> QED
    BY <1>0, <2>2, <2>5, <2>6 DEF RevTypeOK, vars
<1>4. ASSUME NEW h \in Commands, owes' = owes, wording' = wording, saw' \subseteq saw \cup {h},
             trail' \subseteq trail \cup OrderIds, DOMAIN refundIds' = DOMAIN refundIds,
             \A o \in OrderIds : reversals'[o] # None => reversals[o] # None,
             NEW step \in {"look", "reverse", "name", "trail", "settle", "answered", "cut"},
             at' = [at EXCEPT ![h] = step],
             step \in {"reverse", "name", "trail", "settle"} =>
                    at[h] \in {"reverse", "name", "trail", "settle"}
      PROVE  RevTypeOK'
  <2>1. at' \in [Commands -> Ended \cup {Waiting, "look", "reverse", "name", "trail", "settle"}]
    BY <1>0, <1>4 DEF Ended
  <2>2. \A g \in Commands : at'[g] \in {"reverse", "name", "trail", "settle"} =>
            owes'[g] # None /\ owes'[g].order = Asked[g].order
    BY <1>0, <1>4
  <2> QED
    BY <1>0, <1>1, <1>4, <2>1, <2>2 DEF RevTypeOK
<1>5. ASSUME NEW h \in Commands,
             NoCredit(h) \/ Reverse(h) \/ NameRecord(h) \/ WriteTrail(h) \/ Settle(h) \/ Cut(h)
      PROVE  RevTypeOK'
  <2>1. CASE NoCredit(h)
    BY <1>4, <2>1 DEF NoCredit, GoesTo, vars
  <2>2. CASE Reverse(h)
    <3>1. at' = [at EXCEPT ![h] = "name"] \/ at' = [at EXCEPT ![h] = "cut"]
      BY <2>2 DEF Reverse, Proceeds, GoesTo
    <3> QED
      BY <1>4, <2>2, <3>1 DEF Reverse, vars
  <2>3. CASE NameRecord(h)
    <3>1. at' = [at EXCEPT ![h] = "trail"] \/ at' = [at EXCEPT ![h] = "cut"]
      BY <2>3 DEF NameRecord, Proceeds, GoesTo
    <3> QED
      BY <1>4, <2>3, <3>1 DEF NameRecord, vars
  <2>4. CASE WriteTrail(h)
    <3>1. at' = [at EXCEPT ![h] = "settle"] \/ at' = [at EXCEPT ![h] = "cut"]
      BY <2>4 DEF WriteTrail, Proceeds, GoesTo
    <3>2. owes[h].order \in OrderIds
      BY <1>0, <2>4, CommandAssumption DEF WriteTrail
    <3> QED
      BY <1>4, <2>4, <3>1, <3>2 DEF WriteTrail, vars
  <2>5. CASE Settle(h)
    <3>1. at' = [at EXCEPT ![h] = "answered"] \/ at' = [at EXCEPT ![h] = "cut"]
      BY <2>5 DEF Settle, Proceeds, GoesTo
    <3>2. \A o \in OrderIds : reversals'[o] # None => reversals[o] # None
      BY <1>0, <2>5 DEF Settle, SettleReversal, vars
    <3> QED
      BY <1>4, <2>5, <3>1, <3>2 DEF Settle, vars
  <2>6. CASE Cut(h)
    BY <1>4, <2>6 DEF Cut, GoesTo, vars
  <2> QED
    BY <1>5, <2>1, <2>2, <2>3, <2>4, <2>5, <2>6
<1>6. CASE Elsewhere
  <2>1. reversals' = reversals /\ UNCHANGED cmdVars
    BY <1>6 DEF Elsewhere, CreditWalletTopup, FulfillWalletOrder, RecordSale, WindowLapses
  <2> QED
    BY <1>0, <2>1 DEF RevTypeOK, cmdVars
<1>7. CASE UNCHANGED revVars
  BY <1>0, <1>7 DEF RevTypeOK, revVars, vars, cmdVars
<1> QED
  BY <1>2, <1>3, <1>5, <1>6, <1>7 DEF RevNext, RefundStep

\* A credit leaves its own command in good order, ready to record what it owes.
LEMMA CreditKeeps ==
    ASSUME IInv, IInv', RevTypeOK, RevInv, NEW h \in Commands, Credit(h)
    PROVE  RevInv'
<1> DEFINE o == Asked[h].order
           x == OwnReversal(h)
           row == [account |-> Asked[h].account, amount |-> orders[o].amount,
                   key |-> Asked[h].key, settled |-> FALSE]
<1>0. [RevNext]_revVars
  BY DEF RevNext, RefundStep
<1>1. /\ o \in OrderIds /\ orders[o] \in OrderRow /\ orders[o].account = Asked[h].account
      /\ reversals' = [reversals EXCEPT ![o] = row]
      /\ orders' = [orders EXCEPT ![o].status = "refunded_via_wallet"]
      /\ wording' = [wording EXCEPT ![o] = [reason |-> Asked[h].reason, run |-> h]]
  BY CreditOwes
<1>2. /\ owes' = [owes EXCEPT ![h] = x] /\ saw' = saw \cup {h}
      /\ gateway' = gateway /\ refundIds' = refundIds /\ trail' = trail
      /\ \/ at' = [at EXCEPT ![h] = "reverse"]
         \/ at' = [at EXCEPT ![h] = "cut"]
  BY DEF Credit, Proceeds, GoesTo
<1>3. /\ reversals \in [OrderIds -> ReversalRow \cup {None}]
      /\ orders \in [OrderIds -> OrderRow \cup {None}]
      /\ wording \in [OrderIds -> Wording \cup {None}]
      /\ owes \in [Commands -> Inputs \cup {None}]
      /\ DOMAIN at = Commands
  BY DEF IInv, TypeOK, RevTypeOK
<1>4. \A p \in OrderIds : (reversals'[p] # None /\ reversals'[p].settled) =>
        reversals[p] # None /\ reversals[p].settled
  BY <1>1, <1>3
<1>5. ASSUME NEW g \in Commands, g # h
      PROVE  at'[g] = at[g] /\ owes'[g] = owes[g] /\ (g \in saw' => g \in saw)
  BY <1>2, <1>3, <1>5
<1>6. InGoodOrder(h)'
  <2>1. /\ at'[h] \in {"reverse", "cut"} /\ at'[h] # Waiting /\ at'[h] # "answered"
        /\ owes'[h] = x
    BY <1>2, <1>3 DEF Waiting
  <2>2. reversals'[o] = row /\ wording'[o] = [reason |-> Asked[h].reason, run |-> h]
    BY <1>1, <1>3
  <2>3. row # None
    <3>1. orders[o].amount \in Nat \ {0}
      BY <1>1 DEF OrderRow
    <3>2. row \in ReversalRow
      BY <3>1, CommandAssumption DEF ReversalRow
    <3> HIDE DEF row
    <3> QED
      BY <3>2, WalletAssumption
  <2>4. Agrees(owes[h])' /\ owes'[h].account = Asked[h].account
    BY <1>1, <2>1, <2>2, <2>3 DEF Agrees, OwnReversal
  <2>5. RefundedTo(h)'
    <3>1. orders'[o] \in OrderRow /\ orders'[o].account = orders[o].account
          /\ orders'[o].status = "refunded_via_wallet"
      BY <1>1, CancelledOrder DEF IInv
    <3> QED
      BY <1>1, <3>1, WalletAssumption DEF RefundedTo
  <2> QED
    BY <2>1, <2>4, <2>5 DEF InGoodOrder
<1> HIDE DEF o, x, row
<1> QED
  BY <1>0, <1>2, <1>4, <1>5, <1>6, QuietStepKeeps

\* A command that is refused speaks of a refund only when it stands, and one that
\* looks up what is owed takes the inputs of the credit behind it.
LEMMA LookUpKeeps ==
    ASSUME IInv, IInv', RevTypeOK, RevInv, NEW h \in Commands, NoCredit(h) \/ LookUp(h)
    PROVE  RevInv'
<1>0. [RevNext]_revVars
  BY DEF RevNext, RefundStep
<1>1. /\ owes \in [Commands -> Inputs \cup {None}] /\ DOMAIN at = Commands
      /\ wording \in [OrderIds -> Wording \cup {None}]
      /\ reversals \in [OrderIds -> ReversalRow \cup {None}]
      /\ Asked[h].order \in OrderIds
  BY CommandAssumption DEF RevTypeOK, IInv, TypeOK
<1>2. /\ UNCHANGED <<vars, wording, gateway, refundIds, trail>>
      /\ reversals' = reversals /\ orders' = orders
  BY DEF NoCredit, LookUp, vars
<1>3. ASSUME NEW g \in Commands, g # h
      PROVE  at'[g] = at[g] /\ owes'[g] = owes[g] /\ (g \in saw' => g \in saw)
  BY <1>1, <1>3 DEF NoCredit, LookUp, GoesTo
<1>4. CASE NoCredit(h)
  <2>1. at'[h] = "look" /\ (h \in saw' => h \in saw \/ RefundedTo(h))
    BY <1>1, <1>4 DEF NoCredit, GoesTo
  <2>2. h \in saw => RefundedTo(h)
    BY DEF RevInv, InGoodOrder
  <2>3. InGoodOrder(h)'
    BY <1>2, <2>1, <2>2 DEF InGoodOrder, Recording, RefundedTo, Waiting
  <2> QED
    BY <1>0, <1>2, <1>3, <2>3, QuietStepKeeps
<1>5. CASE LookUp(h)
  <2> DEFINE o == Asked[h].order
             x == OutstandingReversal(h)
             Owed == /\ reversals[o] # None /\ reversals[o].account = Asked[h].account
                     /\ ~reversals[o].settled
  <2>1. /\ at'[h] = IF x = None THEN "answered" ELSE "reverse"
        /\ owes'[h] = x /\ saw' = saw
    BY <1>1, <1>5 DEF LookUp, GoesTo
  <2>2. h \in saw => RefundedTo(h)
    BY DEF RevInv, InGoodOrder
  <2>3. ASSUME Owed
        PROVE  /\ x \in Inputs /\ x.order = o /\ x.account = Asked[h].account
               /\ x.amount = reversals[o].amount /\ x.key = reversals[o].key
               /\ x.reason = wording[o].reason /\ x.run = wording[o].run
    <3>1. reversals[o] \in ReversalRow /\ wording[o] \in Wording
      BY <1>1, <2>3 DEF RevTypeOK
    <3> QED
      BY <1>1, <2>3, <3>1, CommandAssumption
         DEF OutstandingReversal, Inputs, ReversalRow, Wording
  <2>4. x # None <=> Owed
    BY <2>3, CommandAssumption DEF OutstandingReversal
  <2>5. Recording(h)' => Agrees(owes[h])' /\ owes'[h].account = Asked[h].account
    <3> SUFFICES ASSUME Recording(h)'
                 PROVE  Agrees(owes[h])' /\ owes'[h].account = Asked[h].account
      OBVIOUS
    <3>1. Owed
      BY <2>1, <2>4 DEF Recording
    <3> QED
      BY <1>1, <1>2, <2>1, <2>3, <3>1 DEF Agrees
  <2>6. (h \in saw /\ x = None) => reversals[o].settled
    <3> SUFFICES ASSUME h \in saw, x = None PROVE reversals[o].settled
      OBVIOUS
    <3>1. RefundedTo(h) /\ reversals[o] # None
      BY <2>2, RefundedIsOwed
    <3>2. reversals[o].account = Asked[h].account
      BY <1>1, <3>1 DEF RevInv, OwedByTheBuyer, RefundedTo
    <3> QED
      BY <2>4, <3>1, <3>2
  <2>7. InGoodOrder(h)'
    <3>1. at'[h] \notin {"name", "trail", "settle"} /\ at'[h] # Waiting
          /\ (at'[h] = "answered" => x = None)
      BY <2>1 DEF Waiting
    <3> QED
      BY <1>2, <2>1, <2>2, <2>5, <2>6, <3>1 DEF InGoodOrder, RefundedTo
  <2> QED
    BY <1>0, <1>2, <1>3, <2>1, <2>7, QuietStepKeeps
<1> QED
  BY <1>4, <1>5

\* Creating the object records the inputs the command holds.
LEMMA ReverseKeeps ==
    ASSUME IInv, IInv', RevTypeOK, RevInv, NEW h \in Commands, Reverse(h)
    PROVE  RevInv'
<1> DEFINE new == [by |-> h, inputs |-> owes[h]]
<1>0. [RevNext]_revVars /\ [Next]_vars
  BY CommandsMoveTheLedger DEF RevNext, RefundStep
<1>1. /\ gateway' = gateway \cup {new} /\ DOMAIN at = Commands
      /\ UNCHANGED <<vars, owes, saw, wording, refundIds, trail>> /\ reversals' = reversals
      /\ \/ at' = [at EXCEPT ![h] = "name"]
         \/ at' = [at EXCEPT ![h] = "cut"]
  BY DEF Reverse, Proceeds, GoesTo, vars, RevTypeOK
<1>2. Agrees(owes[h]) /\ owes[h].account = Asked[h].account
  BY DEF RevInv, InGoodOrder, Recording, Reverse
<1>3. Agrees(owes[h])'
  BY <1>1, <1>2 DEF Agrees
<1>4. new.by = h /\ new.inputs = owes[h]
  OBVIOUS
<1>5. h \in saw => RefundedTo(h)
  BY DEF RevInv, InGoodOrder
<1>6. InGoodOrder(h)'
  <2>1. at'[h] \in {"name", "cut"} /\ at'[h] # Waiting /\ at'[h] # "answered"
        /\ at'[h] \notin {"trail", "settle"}
    BY <1>1 DEF Waiting
  <2>2. \E r \in gateway' : r.by = h /\ r.inputs.order = owes'[h].order
    BY <1>1, <1>4
  <2>3. RefundedTo(h) => RefundedTo(h)'
    BY <1>1 DEF RefundedTo, vars
  <2>4. owes'[h].account = Asked[h].account
    BY <1>1, <1>2
  <2>5. h \in saw' => at'[h] # Waiting /\ RefundedTo(h)'
    BY <1>1, <1>5, <2>1, <2>3
  <2> QED
    BY <1>3, <2>1, <2>2, <2>4, <2>5 DEF InGoodOrder
<1>7. ASSUME NEW r \in gateway' \ gateway
      PROVE  r.by \in Commands /\ Agrees(r.inputs)' /\ r.inputs.account = Asked[r.by].account
  <2>1. r = new
    BY <1>1, <1>7
  <2>2. r.by = h /\ r.inputs = owes[h]
    BY <1>4, <2>1
  <2>3. Agrees(r.inputs)
    BY <1>2, <2>2
  <2>4. Agrees(r.inputs)'
    BY <1>1, <2>3 DEF Agrees
  <2> QED
    BY <1>2, <2>2, <2>4
<1>8. \A o \in OrderIds : Named(o) => Named(o)'
  BY <1>1 DEF Named, RecordsOf
<1>9. \A g \in Commands :
        \/ at'[g] = at[g] /\ owes'[g] = owes[g] /\ (g \in saw' => g \in saw)
        \/ InGoodOrder(g)'
  BY <1>1, <1>6
<1>10. /\ gateway \subseteq gateway' /\ trail \subseteq trail'
       /\ \A o \in OrderIds : reversals[o] # None => wording'[o] = wording[o]
       /\ \A o \in OrderIds : (reversals'[o] # None /\ reversals'[o].settled) =>
            \/ reversals[o] # None /\ reversals[o].settled
            \/ Named(o)' /\ o \in trail'
  BY <1>1
<1> HIDE DEF new
<1> QED
  BY <1>0, <1>7, <1>8, <1>9, <1>10, StepKeeps

\* The order is given the name of an object that is on record, and the trail row
\* follows it.
LEMMA RecordKeeps ==
    ASSUME IInv, IInv', RevTypeOK, RevInv, NEW h \in Commands, NameRecord(h) \/ WriteTrail(h)
    PROVE  RevInv'
<1>0. [RevNext]_revVars /\ [Next]_vars
  BY CommandsMoveTheLedger DEF RevNext, RefundStep
<1>1. /\ DOMAIN at = Commands /\ DOMAIN refundIds = OrderIds
      /\ UNCHANGED <<vars, owes, saw, wording, gateway>> /\ reversals' = reversals
      /\ owes[h].order \in OrderIds
  BY CommandAssumption DEF NameRecord, WriteTrail, vars, RevTypeOK
<1> DEFINE p == owes[h].order
<1>2. /\ Agrees(owes[h]) /\ owes[h].account = Asked[h].account
      /\ \E r \in gateway : r.by = h /\ r.inputs.order = p
      /\ h \in saw => RefundedTo(h)
      /\ WriteTrail(h) => Named(p)
  BY DEF RevInv, InGoodOrder, Recording, NameRecord, WriteTrail
<1>3. \A o \in OrderIds : Named(o) => Named(o)'
  <2>1. CASE NameRecord(h)
    <3>1. refundIds' = [refundIds EXCEPT ![p] = h]
      BY <2>1 DEF NameRecord
    <3> SUFFICES ASSUME NEW o \in OrderIds, Named(o) PROVE Named(o)'
      OBVIOUS
    <3>2. CASE o = p
      BY <1>1, <1>2, <3>1, <3>2 DEF Named, RecordsOf
    <3>3. CASE o # p
      BY <1>1, <3>1, <3>3 DEF Named, RecordsOf
    <3> QED
      BY <3>2, <3>3
  <2>2. CASE WriteTrail(h)
    BY <1>1, <2>2 DEF WriteTrail, Named, RecordsOf
  <2> QED
    BY <2>1, <2>2
<1>4. trail \subseteq trail' /\ (WriteTrail(h) => p \in trail')
  BY DEF NameRecord, WriteTrail
<1>5. Named(owes[h].order)'
  <2>1. CASE NameRecord(h)
    <3>1. refundIds'[p] = h
      BY <1>1, <2>1 DEF NameRecord
    <3> QED
      BY <1>1, <1>2, <3>1 DEF Named, RecordsOf
  <2>2. CASE WriteTrail(h)
    BY <1>1, <1>2, <2>2 DEF WriteTrail, Named, RecordsOf
  <2> QED
    BY <2>1, <2>2
<1>6. InGoodOrder(h)'
  <2>1. /\ at'[h] \in {"trail", "settle", "cut"} /\ at'[h] # Waiting /\ at'[h] # "answered"
        /\ at'[h] = "settle" => WriteTrail(h)
    BY <1>1 DEF NameRecord, WriteTrail, Proceeds, GoesTo, Waiting
  <2>2. Agrees(owes[h])' /\ owes'[h].account = Asked[h].account
    BY <1>1, <1>2 DEF Agrees
  <2>3. h \in saw' => RefundedTo(h)'
    BY <1>1, <1>2 DEF RefundedTo, vars
  <2>4. \E r \in gateway' : r.by = h /\ r.inputs.order = owes'[h].order
    BY <1>1, <1>2
  <2>5. at'[h] = "settle" => owes'[h].order \in trail'
    BY <1>1, <1>4, <2>1
  <2> QED
    BY <1>5, <2>1, <2>2, <2>3, <2>4, <2>5 DEF InGoodOrder
<1>7. \A g \in Commands :
        \/ at'[g] = at[g] /\ owes'[g] = owes[g] /\ (g \in saw' => g \in saw)
        \/ InGoodOrder(g)'
  BY <1>1, <1>6 DEF NameRecord, WriteTrail, Proceeds, GoesTo
<1>8. /\ gateway \subseteq gateway' /\ gateway' \ gateway = {}
      /\ \A o \in OrderIds : reversals[o] # None => wording'[o] = wording[o]
      /\ \A o \in OrderIds : (reversals'[o] # None /\ reversals'[o].settled) =>
            \/ reversals[o] # None /\ reversals[o].settled
            \/ Named(o)' /\ o \in trail'
  BY <1>1
<1> HIDE DEF p
<1> QED
  BY <1>0, <1>3, <1>4, <1>7, <1>8, StepKeeps

\* Only what is on record is stamped.
LEMMA SettleKeeps ==
    ASSUME IInv, IInv', RevTypeOK, RevInv, NEW h \in Commands, Settle(h)
    PROVE  RevInv'
<1>0. [RevNext]_revVars /\ [Next]_vars
  BY CommandsMoveTheLedger DEF RevNext, RefundStep
<1> DEFINE p == owes[h].order
<1>1. /\ DOMAIN at = Commands /\ p \in OrderIds /\ p = Asked[h].order
      /\ reversals \in [OrderIds -> ReversalRow \cup {None}]
      /\ UNCHANGED <<owes, saw, wording, gateway, refundIds, trail>>
      /\ at[h] = "settle"
  BY CommandAssumption DEF Settle, RevTypeOK, IInv, TypeOK
<1>2. /\ Agrees(owes[h]) /\ owes[h].account = Asked[h].account
      /\ Named(p) /\ p \in trail
      /\ h \in saw => RefundedTo(h)
  BY <1>1 DEF RevInv, InGoodOrder, Recording
<1>3. /\ \A o \in OrderIds \ {p} : reversals'[o] = reversals[o]
      /\ reversals[p] # None /\ orders' = orders
  BY <1>1, <1>2 DEF Settle, SettleReversal, vars, Agrees
<1>4. reversals'[p].settled
  <2>1. CASE SettleReversal(p)
    <3>1. reversals' = [reversals EXCEPT ![p].settled = TRUE] /\ reversals[p] \in ReversalRow
      BY <1>1, <1>3, <2>1 DEF SettleReversal
    <3>2. reversals'[p] = [reversals[p] EXCEPT !.settled = TRUE]
      BY <1>1, <3>1
    <3> QED
      BY <3>1, <3>2 DEF ReversalRow
  <2>2. CASE reversals[p].settled /\ UNCHANGED vars
    BY <2>2 DEF vars
  <2> QED
    BY <2>1, <2>2 DEF Settle
<1>5. \A o \in OrderIds : Named(o) => Named(o)'
  BY <1>1 DEF Named, RecordsOf
<1>6. \A o \in OrderIds : (reversals'[o] # None /\ reversals'[o].settled) =>
            \/ reversals[o] # None /\ reversals[o].settled
            \/ Named(o)' /\ o \in trail'
  BY <1>1, <1>2, <1>3, <1>5
<1>7. InGoodOrder(h)'
  <2>1. at'[h] \in {"answered", "cut"} /\ at'[h] # Waiting
    BY <1>1 DEF Settle, Proceeds, GoesTo, Waiting
  <2>2. h \in saw' => RefundedTo(h)'
    BY <1>1, <1>2, <1>3 DEF RefundedTo
  <2>3. reversals'[Asked[h].order].settled
    BY <1>1, <1>4
  <2>4. ~Recording(h)' /\ at'[h] \notin {"name", "trail", "settle"}
    BY <2>1 DEF Recording
  <2> QED
    BY <2>1, <2>2, <2>3, <2>4 DEF InGoodOrder
<1>8. \A g \in Commands :
        \/ at'[g] = at[g] /\ owes'[g] = owes[g] /\ (g \in saw' => g \in saw)
        \/ InGoodOrder(g)'
  BY <1>1, <1>7 DEF Settle, Proceeds, GoesTo
<1>9. /\ gateway \subseteq gateway' /\ gateway' \ gateway = {} /\ trail \subseteq trail'
      /\ \A o \in OrderIds : reversals[o] # None => wording'[o] = wording[o]
  BY <1>1
<1> HIDE DEF p
<1> QED
  BY <1>0, <1>5, <1>6, <1>8, <1>9, StepKeeps

\* A command that is cut ends in good order.
LEMMA CutKeeps ==
    ASSUME IInv, IInv', RevTypeOK, RevInv, NEW h \in Commands, Cut(h)
    PROVE  RevInv'
<1>0. [RevNext]_revVars
  BY DEF RevNext
<1>1. /\ DOMAIN at = Commands /\ at' = [at EXCEPT ![h] = "cut"]
      /\ UNCHANGED <<vars, owes, saw, wording, gateway, refundIds, trail>>
      /\ reversals' = reversals /\ orders' = orders
  BY DEF Cut, GoesTo, RevTypeOK, vars
<1>2. h \in saw => RefundedTo(h)
  BY DEF RevInv, InGoodOrder
<1>3. InGoodOrder(h)'
  BY <1>1, <1>2 DEF InGoodOrder, Recording, Waiting, RefundedTo
<1> QED
  BY <1>0, <1>1, <1>3, QuietStepKeeps

\* And what is bought and funded meanwhile takes nothing from any command.
LEMMA ElsewhereKeeps ==
    ASSUME IInv, IInv', RevTypeOK, RevInv, Elsewhere \/ UNCHANGED revVars
    PROVE  RevInv'
<1>0. [RevNext]_revVars
  BY DEF RevNext
<1>1. reversals' = reversals /\ UNCHANGED cmdVars
  BY DEF Elsewhere, CreditWalletTopup, FulfillWalletOrder, RecordSale, WindowLapses, revVars, vars
<1> QED
  BY <1>0, <1>1, QuietStepKeeps DEF cmdVars

\* Every step, of a command or of the rest of the shop, keeps the invariant.
LEMMA RevInvStep ==
    ASSUME IInv, IInv', RevTypeOK, RevInv, [RevNext]_revVars
    PROVE  RevInv'
  BY CreditKeeps, LookUpKeeps, ReverseKeeps, RecordKeeps, SettleKeeps, CutKeeps, ElsewhereKeeps
     DEF RevNext, RefundStep

-----------------------------------------------------------------------------
RevIInv == IInv /\ RevTypeOK /\ RevInv

\* Nothing is owed before the first step.
LEMMA RevInvInit == RevInit => RevTypeOK /\ RevInv
<1> SUFFICES ASSUME RevInit PROVE RevTypeOK /\ RevInv
  OBVIOUS
<1>1. TypeOK
  BY WalletAssumption DEF RevInit, Init, TypeOK
<1>2. /\ RevTypeOK
      /\ \A h \in Commands : ~Recording(h) /\ at[h] = Waiting /\ h \notin saw
  BY <1>1 DEF RevInit, Init, RevTypeOK, Waiting, Ended, Recording
<1>3. \A h \in Commands : InGoodOrder(h)
  BY <1>2 DEF InGoodOrder, Waiting
<1>4. OwedByTheBuyer /\ ObjectsAgree /\ SettledMeansRecorded
  BY DEF RevInit, Init, OwedByTheBuyer, ObjectsAgree, SettledMeansRecorded
<1> QED
  BY <1>2, <1>3, <1>4 DEF RevInv

\* And it holds of every behaviour.
LEMMA RevIInvHolds == RevSpec => []RevIInv
<1>1. RevInit => RevIInv
  BY RevInvInit, InvInit DEF RevIInv, RevInit
<1>2. RevIInv /\ [RevNext]_revVars => RevIInv'
  <2> SUFFICES ASSUME RevIInv, [RevNext]_revVars PROVE RevIInv'
    OBVIOUS
  <2>1. IInv'
    BY CommandsMoveTheLedger, InvStep DEF RevIInv
  <2> QED
    BY <2>1, RevTypeStep, RevInvStep DEF RevIInv
<1> QED
  BY <1>1, <1>2, PTL DEF RevSpec

\* Every table of the commands keeps its shape, and a command that records a
\* reversal records that of the order it was sent about.
THEOREM CommandsAreWellFormed == RevSpec => []RevTypeOK
  BY RevIInvHolds, PTL DEF RevIInv

\* The chain of a cancellation moves the tables as the wallet functions do and in no
\* other way: RevSpec implements the ledger, and what is proved of every ledger
\* holds of it.
THEOREM CancellationsKeepToTheLedger == RevSpec => Spec
<1>1. RevInit => Init
  BY DEF RevInit
<1>2. RevTypeOK /\ [RevNext]_revVars => [Next]_vars
  BY CommandsMoveTheLedger
<1> QED
  BY <1>1, <1>2, CommandsAreWellFormed, PTL DEF RevSpec, Spec

\* So however often a cancellation is taken up, its goods are back on the shelf once.
THEOREM CancellationsRestockOnce == RevSpec => []StockConserved
  BY CancellationsKeepToTheLedger, StockIsConserved, PTL

\* However many commands take up a cancellation and wherever each of them fails,
\* every object at the gateway tells of the one credit behind it, in that credit's
\* account, amount, key, words and run.
THEOREM ObjectsTellOfOneCredit == RevSpec => []RecordsAgree
<1>1. RevIInv => RecordsAgree
  <2> SUFFICES ASSUME RevIInv, NEW o \in OrderIds, NEW r \in RecordsOf(o)
               PROVE  /\ orders[o] # None /\ r.inputs.account = orders[o].account
                      /\ \E i \in RowsOf(o, "purchase_refund") :
                            r.inputs.key = ledger[i].key /\ r.inputs.amount = ledger[i].amount
                      /\ r.inputs.reason = wording[o].reason /\ r.inputs.run = wording[o].run
                      /\ orders[o].account = Asked[r.by].account
    BY DEF RecordsAgree
  <2>1. r \in gateway /\ r.inputs.order = o
    BY DEF RecordsOf
  <2>2. Agrees(r.inputs) /\ r.inputs.account = Asked[r.by].account
    BY <2>1 DEF RevIInv, RevInv, ObjectsAgree
  <2>3. /\ reversals[o] # None /\ r.inputs.account = reversals[o].account
        /\ r.inputs.amount = reversals[o].amount /\ r.inputs.key = reversals[o].key
        /\ r.inputs.reason = wording[o].reason /\ r.inputs.run = wording[o].run
    BY <2>1, <2>2 DEF Agrees
  <2>4. /\ orders[o] # None /\ orders[o].status = "refunded_via_wallet"
        /\ reversals[o].account = orders[o].account
    BY <2>3 DEF RevIInv, RevInv, OwedByTheBuyer
  <2>5. Returned(o)
    BY <2>4 DEF RevIInv, IInv, OrderMoneyTrail
  <2> QED
    BY <2>2, <2>3, <2>4, <2>5 DEF Returned
<1> QED
  BY <1>1, RevIInvHolds, PTL

\* A reversal is stamped settled only once the gateway holds it, the order names it
\* and the trail tells of it.
THEOREM SettledIsOnRecord == RevSpec => []SettledMeansRecorded
<1>1. RevIInv => SettledMeansRecorded
  BY DEF RevIInv, RevInv
<1> QED
  BY <1>1, RevIInvHolds, PTL

\* A command that speaks of a refund and ends without a failure leaves nothing owing,
\* whatever the commands before it left undone.
THEOREM NothingIsLeftOwing == RevSpec => []AnsweredLeavesNothingOwing
<1>1. RevIInv => AnsweredLeavesNothingOwing
  BY DEF RevIInv, RevTypeOK, RevInv, InGoodOrder, AnsweredLeavesNothingOwing
<1> QED
  BY <1>1, RevIInvHolds, PTL
=============================================================================
