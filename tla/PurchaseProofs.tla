--------------------------- MODULE PurchaseProofs ---------------------------
(***************************************************************************)
(* What holds of every purchase attempt, whoever makes how many, whatever   *)
(* changes between its calls and wherever each of them fails: nothing is    *)
(* debited without its evidence, and nothing above the limit without a yes. *)
(***************************************************************************)
EXTENDS Purchase, WalletLedgerProofs

\* An attempt pays under the key it was made under.
KeysAreKept == \A h \in Attempts : request[h].key = Asks[h].key

GateApproved(h) ==
    \E d \in decisions : /\ d.reason = "approved" /\ d.key = request[h].key
                         /\ d.base = Base(h) /\ d.final = Final(h)
ObjectStands(h) == \E r \in artifacts : r.key = request[h].key /\ r.amount = Final(h)

\* How far an attempt has come, it has the evidence for.
Held(h) ==
    /\ at[h] \in {"artifact", "settle"} =>
            GateApproved(h) /\ (Final(h) <= seen[h].limit \/ h \in human)
    /\ at[h] = "settle" => ObjectStands(h)
GateHolds == \A h \in Attempts : Held(h)

\* An attempt made on a person's decision makes the purchase of the row they said yes to.
MadeFrom(h) ==
    LET row == approvals[Asks[h].key]
    IN  /\ row # None /\ row.status = "approved" /\ row.person = Asks[h].person
        /\ row.product = request[h].product /\ row.qty = request[h].qty
        /\ row.base = request[h].base /\ row.final = request[h].final
YesStands ==
    /\ \A h \in human : at[h] # "waiting" /\ MadeFrom(h)
    /\ \A g, h \in human : Asks[g].key = Asks[h].key => g = h

EvidenceFor(i) ==
    /\ \E d \in decisions : /\ d.reason = "approved" /\ d.key = ledger[i].key
                             /\ d.final = ledger[i].amount
                             /\ d.base = revenue[ledger[i].order].base
    /\ \E r \in artifacts : r.key = ledger[i].key /\ r.amount = ledger[i].amount

PurInv == KeysAreKept /\ GateHolds /\ YesStands /\ SaleIsOnTheTrail

-----------------------------------------------------------------------------
\* The amounts an attempt works with, once it has read the list price.
LEMMA AmountsAreNumbers ==
    ASSUME PurchaseTypeOK, NEW h \in Attempts
    PROVE  /\ request[h].qty \in Nat \ {0} /\ request[h].product \in Products
           /\ request[h].key \in Keys
           /\ Amount(h) \in Nat /\ Base(h) \in Nat /\ Final(h) \in Nat
           /\ seen[h].price > 0 => Amount(h) > 0
           /\ (request[h].base # 0) => Base(h) = request[h].base
           /\ (request[h].final # 0) => Final(h) = request[h].final
<1>1. /\ request[h].qty \in Nat \ {0} /\ request[h].product \in Products /\ request[h].key \in Keys
      /\ request[h].base \in Nat /\ request[h].final \in Nat /\ seen[h].price \in Nat
  BY DEF PurchaseTypeOK, Ask, Sight
<1>2. \A m, n \in Nat : m * n \in Nat /\ ((m > 0 /\ n > 0) => m * n > 0)
  OBVIOUS
<1>3. Amount(h) \in Nat /\ (seen[h].price > 0 => Amount(h) > 0)
  BY <1>1, <1>2 DEF Amount
<1> QED
  BY <1>1, <1>3 DEF Base, Final

\* What is paid for is a purchase the wallet function takes.
LEMMA CallIsTyped ==
    ASSUME PurchaseTypeOK, NEW h \in Attempts, at[h] = "settle"
    PROVE  /\ Call(h) \in PurchaseCall
           /\ Call(h).key = request[h].key /\ Call(h).base = Base(h) /\ Call(h).final = Final(h)
<1>1. seen[h].account \in Accounts
  BY ZenonT(60) DEF PurchaseTypeOK
<1> QED
  BY <1>1, AmountsAreNumbers DEF Call, PurchaseCall

\* The tables move as the wallet functions move them.
LEMMA AttemptsMoveTheLedger == PurchaseTypeOK /\ [PurchaseNext]_purchaseVars => [AnyCall]_vars
<1> SUFFICES ASSUME PurchaseTypeOK, [PurchaseNext]_purchaseVars PROVE [AnyCall]_vars
  OBVIOUS
<1>1. ASSUME NEW h \in Attempts, Pay(h) PROVE AnyCall
  <2>1. PICK o \in OrderIds : FulfillWalletOrder(Call(h), o)
    BY <1>1 DEF Pay
  <2>2. Call(h) \in PurchaseCall
    BY <1>1, CallIsTyped DEF Pay
  <2> QED
    BY <2>1, <2>2 DEF AnyCall
<1>2. CASE Fund
  BY <1>2 DEF Fund, AnyCall
<1> QED
  BY <1>1, <1>2
     DEF PurchaseNext, AttemptStep, AskAgain, ReadAccount, ReadCatalog, RefuseAmount, Evaluate,
         Escalate, CreateApproval, Decline, Approve, CreateArtifact, PayNothing, Cut, SetLimit,
         SetPrice, Relink, FallDue, purchaseVars

-----------------------------------------------------------------------------
\* What holds of one attempt's place, sight and request.
Placed(h) ==
    /\ at[h] = "ended" <=> reply[h] # ""
    /\ at[h] \in {"catalog", "judge", "ask", "artifact", "settle"} => seen[h].account \in Accounts
    /\ at[h] \in {"judge", "ask", "artifact", "settle"} => seen[h].price > 0
    /\ at[h] \in {"ask", "artifact", "settle"} => AmountIsWhole(h)

\* One attempt moves and the others keep their places.
Moves(h) ==
    /\ at' \in [Attempts -> Steps] /\ reply' \in [Attempts -> Answers]
    /\ seen' \in [Attempts -> Sight]
    /\ \A g \in Attempts \ {h} : at'[g] = at[g] /\ reply'[g] = reply[g] /\ seen'[g] = seen[g]

\* An attempt that ends moves alone.
LEMMA EndsMoves ==
    ASSUME PurchaseTypeOK, NEW h \in Attempts, NEW answer \in Answers, Ends(h, answer)
    PROVE  Moves(h) /\ at'[h] = "ended" /\ reply'[h] = answer
<1>1. Nothing \in Sight
  BY DEF Nothing, Sight
<1>2. "ended" \in Steps
  BY DEF Steps
<1> QED
  BY <1>1, <1>2 DEF Ends, Moves, PurchaseTypeOK

\* So does one that goes on to its next call.
LEMMA GoesToMoves ==
    ASSUME PurchaseTypeOK, NEW h \in Attempts, NEW step \in Steps, GoesTo(h, step)
    PROVE  Moves(h) /\ at'[h] = step /\ UNCHANGED <<reply, seen>>
  BY DEF GoesTo, Moves, PurchaseTypeOK

\* So does one that reads.
LEMMA ReadsMoves ==
    ASSUME PurchaseTypeOK, NEW h \in Attempts, NEW what \in Sight, NEW step \in Steps,
           Reads(h, what, step)
    PROVE  Moves(h) /\ at'[h] = step /\ seen'[h] = what /\ reply' = reply
  BY DEF Reads, Moves, PurchaseTypeOK

\* The shape of the tables after one attempt has moved.
LEMMA MoveKeepsTypes ==
    ASSUME PurchaseTypeOK, TypeOK', NEW h \in Attempts, Moves(h), Placed(h)', UNCHANGED shopVars,
           request' \in [Attempts -> Ask], \A g \in Attempts \ {h} : request'[g] = request[g],
           approvals' \in [Keys -> ApprovalRow \cup {None}],
           human' \subseteq {g \in Attempts : Asks[g].kind = "approve"},
           \A r \in artifacts' : r.amount > 0
    PROVE  PurchaseTypeOK'
<1>1. ASSUME NEW g \in Attempts PROVE Placed(g)'
  <2>1. CASE g = h
    BY <2>1
  <2>2. CASE g # h
    <3>1. Placed(g)
      BY DEF Placed, PurchaseTypeOK
    <3>2. at'[g] = at[g] /\ reply'[g] = reply[g] /\ seen'[g] = seen[g] /\ request'[g] = request[g]
      BY <2>2 DEF Moves
    <3> QED
      BY <3>1, <3>2 DEF Placed, AmountIsWhole, Amount, Base, Final
  <2> QED
    BY <2>1, <2>2
<1>2. /\ price' \in [Products -> Prices] /\ limit' \in [Accounts -> Limits]
      /\ linked' \in [People -> Accounts]
  BY DEF shopVars, PurchaseTypeOK
<1> QED
  BY <1>1, <1>2 DEF PurchaseTypeOK, Placed, Moves

\* An attempt that ends is well placed.
LEMMA EndedIsPlaced ==
    ASSUME PurchaseTypeOK, NEW h \in Attempts,
           NEW answer \in {"asked", "refused", "fulfilled", "cut"}, Ends(h, answer)
    PROVE  Moves(h) /\ Placed(h)' /\ at'[h] = "ended"
<1>1. answer \in Answers /\ answer # ""
  BY DEF Answers
<1>2. Moves(h) /\ at'[h] = "ended" /\ reply'[h] = answer
  BY <1>1, EndsMoves
<1> QED
  BY <1>1, <1>2 DEF Placed

\* One that goes on to ask or to spend holds the whole amount it judged.
LEMMA GoneOnIsPlaced ==
    ASSUME PurchaseTypeOK, NEW h \in Attempts, NEW step \in {"ask", "artifact", "settle"},
           at[h] \in {"judge", "artifact"}, AmountIsWhole(h), request' = request, Proceeds(h, step)
    PROVE  Moves(h) /\ Placed(h)' /\ at'[h] \in {step, "ended"}
<1>1. CASE Ends(h, "cut")
  BY <1>1, EndedIsPlaced
<1>2. CASE GoesTo(h, step)
  <2>1. step \in Steps
    BY DEF Steps
  <2>2. Moves(h) /\ at'[h] = step /\ UNCHANGED <<reply, seen>>
    BY <1>2, <2>1, GoesToMoves
  <2>3. Placed(h)
    BY DEF Placed, PurchaseTypeOK
  <2>4. AmountIsWhole(h)'
    BY <2>2 DEF AmountIsWhole, Amount, Base, Final
  <2> QED
    BY <2>2, <2>3, <2>4 DEF Placed
<1> QED
  BY <1>1, <1>2 DEF Proceeds

\* Whether its last answer arrives or is lost.
LEMMA AnsweredIsPlaced ==
    ASSUME PurchaseTypeOK, NEW h \in Attempts,
           NEW answer \in {"asked", "refused", "fulfilled", "cut"}, EndsOrCut(h, answer)
    PROVE  Moves(h) /\ Placed(h)' /\ at'[h] = "ended"
  BY EndedIsPlaced DEF EndsOrCut

\* What the gate decides, and where the attempt goes with it.
LEMMA GateActs ==
    ASSUME PurchaseTypeOK, NEW h \in Attempts, Evaluate(h)
    PROVE  /\ Moves(h) /\ Placed(h)' /\ at'[h] \in {"artifact", "ask", "ended"}
           /\ at'[h] = "artifact" =>
                /\ seen'[h] = seen[h]
                /\ Final(h) <= seen[h].limit \/ h \in human
                /\ \E d \in decisions' : /\ d.reason = "approved" /\ d.key = request[h].key
                                         /\ d.base = Base(h) /\ d.final = Final(h)
<1>1. PICK fresh \in Fresh(h) :
        /\ decisions' = decisions \cup
                {[key |-> request[h].key, base |-> Base(h), final |-> Final(h),
                  reason |-> Verdict(h, fresh)]}
        /\ Acts(h, Verdict(h, fresh))
  BY DEF Evaluate
<1>2. at[h] = "judge" /\ AmountIsWhole(h) /\ request' = request
  BY DEF Evaluate
<1> DEFINE v == Verdict(h, fresh)
<1>3. v \in {"insufficient_stock", "human_approval_required", "insufficient_wallet_balance",
             "stale_price", "approved"}
  BY DEF Verdict
<1>4. v = "approved" => (~(seen[h].limit <= 0 \/ Final(h) > seen[h].limit) \/ h \in human)
  BY DEF Verdict
<1>5. seen[h].limit \in Nat /\ Final(h) \in Nat
  BY AmountsAreNumbers DEF PurchaseTypeOK, Sight
<1> HIDE DEF v
<1>6. Acts(h, v)
  BY <1>1 DEF v
<1>7. CASE v = "approved"
  <2>1. Proceeds(h, "artifact")
    BY <1>6, <1>7 DEF Acts
  <2>2. Moves(h) /\ Placed(h)' /\ at'[h] \in {"artifact", "ended"}
    BY <1>2, <2>1, GoneOnIsPlaced
  <2>3. at'[h] = "artifact" => seen' = seen
    <3>1. CASE Ends(h, "cut")
      BY <3>1, EndedIsPlaced
    <3>2. CASE GoesTo(h, "artifact")
      BY <3>2 DEF GoesTo
    <3> QED
      BY <2>1, <3>1, <3>2 DEF Proceeds
  <2>4. Final(h) <= seen[h].limit \/ h \in human
    BY <1>4, <1>5, <1>7
  <2>5. \E d \in decisions' : /\ d.reason = "approved" /\ d.key = request[h].key
                              /\ d.base = Base(h) /\ d.final = Final(h)
    <3> DEFINE d == [key |-> request[h].key, base |-> Base(h), final |-> Final(h), reason |-> v]
    <3>1. d \in decisions'
      BY <1>1 DEF v
    <3>2. d.reason = "approved" /\ d.key = request[h].key /\ d.base = Base(h) /\ d.final = Final(h)
      BY <1>7
    <3> QED
      BY <3>1, <3>2
  <2> QED
    BY <2>2, <2>3, <2>4, <2>5
<1>8. CASE v = "human_approval_required"
  <2>1. Proceeds(h, "ask")
    BY <1>6, <1>8 DEF Acts
  <2> QED
    BY <1>2, <2>1, GoneOnIsPlaced
<1>9. CASE v \notin {"approved", "human_approval_required"}
  <2>1. EndsOrCut(h, "refused")
    BY <1>6, <1>9 DEF Acts
  <2> QED
    BY <2>1, AnsweredIsPlaced
<1> QED
  BY <1>7, <1>8, <1>9

\* A decision changes the status of its own row, and nothing else.
LEMMA DecideChangesStatus ==
    ASSUME PurchaseTypeOK, NEW h \in Attempts, Open(h),
           NEW status \in {"approved", "rejected", "expired"}, Decide(h, status)
    PROVE  LET k == Asks[h].key
           IN  /\ k \in Keys /\ approvals[k] \in ApprovalRow /\ approvals[k].status = "pending"
               /\ approvals' \in [Keys -> ApprovalRow \cup {None}]
               /\ approvals'[k] # None
               /\ approvals'[k] = [approvals[k] EXCEPT !.status = status]
               /\ \A j \in Keys \ {k} : approvals'[j] = approvals[j]
<1> DEFINE k == Asks[h].key
           row == [approvals[k] EXCEPT !.status = status]
<1>1. k \in Keys /\ approvals \in [Keys -> ApprovalRow \cup {None}]
  BY PurchaseAssumption DEF PurchaseTypeOK, Ask
<1>2. approvals[k] \in ApprovalRow /\ approvals[k].status = "pending"
  BY <1>1 DEF Open
<1>3. row \in ApprovalRow
  BY <1>2 DEF ApprovalRow
<1>4. approvals' = [approvals EXCEPT ![k] = row]
  BY DEF Decide
<1> HIDE DEF row
<1>5. row # None
  BY <1>3, PurchaseAssumption
<1>6. /\ approvals' \in [Keys -> ApprovalRow \cup {None}] /\ approvals'[k] = row
      /\ \A j \in Keys \ {k} : approvals'[j] = approvals[j]
  BY <1>1, <1>3, <1>4
<1> QED
  BY <1>1, <1>2, <1>5, <1>6 DEF row

\* The row an attempt writes when it asks, unless its key has one.
LEMMA AskedRow ==
    ASSUME PurchaseTypeOK, NEW h \in Attempts, CreateApproval(h)
    PROVE  /\ approvals' \in [Keys -> ApprovalRow \cup {None}]
           /\ \A k \in Keys : approvals[k] # None => approvals'[k] = approvals[k]
<1> DEFINE row == [person |-> Asks[h].person, account |-> seen[h].account,
                   product |-> request[h].product, qty |-> request[h].qty,
                   base |-> Base(h), final |-> Final(h), status |-> "pending"]
<1>1. /\ approvals \in [Keys -> ApprovalRow \cup {None}] /\ request[h].key \in Keys
      /\ approvals' = IF approvals[request[h].key] # None THEN approvals
                      ELSE [approvals EXCEPT ![request[h].key] = row]
  BY AmountsAreNumbers DEF CreateApproval, PurchaseTypeOK
<1>2. at[h] = "ask" /\ AmountIsWhole(h) /\ seen[h].account \in Accounts /\ seen[h].price > 0
  BY DEF CreateApproval, PurchaseTypeOK
<1>3. /\ request[h].product \in Products /\ request[h].qty \in Nat \ {0}
      /\ Base(h) \in Nat \ {0} /\ Final(h) \in Nat \ {0} /\ Asks[h].person \in People
  BY <1>2, AmountsAreNumbers, PurchaseAssumption DEF AmountIsWhole, Ask
<1>4. row \in ApprovalRow
  BY <1>2, <1>3 DEF ApprovalRow
<1> HIDE DEF row
<1> QED
  BY <1>1, <1>4

\* Every step keeps the shape of the tables and the place of every attempt.
LEMMA PurchaseTypeStep == PurchaseTypeOK /\ [PurchaseNext]_purchaseVars => PurchaseTypeOK'
<1> SUFFICES ASSUME PurchaseTypeOK, [PurchaseNext]_purchaseVars PROVE PurchaseTypeOK'
  OBVIOUS
<1>0. TypeOK'
  BY AttemptsMoveTheLedger, AnyCallKeepsTypes DEF PurchaseTypeOK
<1>1. /\ TypeOK /\ request \in [Attempts -> Ask] /\ seen \in [Attempts -> Sight]
      /\ price \in [Products -> Prices] /\ limit \in [Accounts -> Limits]
      /\ linked \in [People -> Accounts] /\ approvals \in [Keys -> ApprovalRow \cup {None}]
      /\ human \subseteq {g \in Attempts : Asks[g].kind = "approve"}
      /\ \A r \in artifacts : r.amount > 0
  BY DEF PurchaseTypeOK
<1>2. ASSUME NEW h \in Attempts, Moves(h), Placed(h)',
             UNCHANGED <<shopVars, request, approvals, human, artifacts>>
      PROVE  PurchaseTypeOK'
  BY <1>0, <1>1, <1>2, MoveKeepsTypes
<1>3. ASSUME NEW h \in Attempts, AskAgain(h) \/ RefuseAmount(h) \/ Pay(h) \/ PayNothing(h) \/ Cut(h)
      PROVE  PurchaseTypeOK'
  <2>1. PICK answer \in {"asked", "refused", "fulfilled", "cut"} : Ends(h, answer)
    BY <1>3 DEF AskAgain, RefuseAmount, Pay, PayNothing, Cut, EndsOrCut
  <2>2. UNCHANGED <<shopVars, request, approvals, human, artifacts>>
    BY <1>3 DEF AskAgain, RefuseAmount, Pay, PayNothing, Cut, shopVars, trailVars
  <2> QED
    BY <1>2, <2>1, <2>2, EndedIsPlaced
<1>4. ASSUME NEW h \in Attempts, ReadAccount(h) PROVE PurchaseTypeOK'
  <2> DEFINE a == linked[Asks[h].person]
             what == [Nothing EXCEPT !.account = a, !.balance = balance[a], !.limit = limit[a]]
  <2>1. a \in Accounts
    BY <1>1, PurchaseAssumption DEF Ask
  <2>2. balance[a] \in Nat /\ limit[a] \in Nat
    BY <1>1, <2>1, PurchaseAssumption DEF TypeOK
  <2>3. what \in Sight /\ what.account = a
    BY <2>1, <2>2 DEF Nothing, Sight
  <2>4. Reads(h, what, "catalog") /\ UNCHANGED <<shopVars, request, approvals, human, artifacts>>
    BY <1>4 DEF ReadAccount, shopVars, trailVars
  <2>5. at[h] \in {"waiting", "account"}
    BY <1>4 DEF ReadAccount, Turn
  <2> HIDE DEF what
  <2>6. Moves(h) /\ at'[h] = "catalog" /\ seen'[h] = what /\ reply' = reply
    BY <2>3, <2>4, ReadsMoves DEF Steps
  <2>7. reply[h] = ""
    BY <2>5 DEF PurchaseTypeOK
  <2>8. Placed(h)'
    BY <2>1, <2>3, <2>6, <2>7 DEF Placed
  <2> QED
    BY <1>2, <2>4, <2>6, <2>8
<1>5. ASSUME NEW h \in Attempts, ReadCatalog(h) PROVE PurchaseTypeOK'
  <2> DEFINE p == request[h].product
             what == [seen[h] EXCEPT !.price = price[p], !.stock = stock[p]]
  <2>1. p \in Products /\ seen[h] \in Sight /\ at[h] = "catalog"
    BY <1>1, <1>5, AmountsAreNumbers DEF ReadCatalog
  <2>2. price[p] \in Nat \ {0} /\ stock[p] \in Nat
    BY <1>1, <2>1, PurchaseAssumption DEF TypeOK
  <2>3. what \in Sight /\ what.account = seen[h].account /\ what.price > 0
    <3>1. PICK v \in Sight : v = seen[h]
      BY <2>1
    <3>2. PICK m \in Nat : m = price[p] /\ m > 0
      BY <2>2
    <3>3. PICK n \in Nat : n = stock[p]
      BY <2>2
    <3> DEFINE w == [v EXCEPT !.price = m, !.stock = n]
    <3>4. w = what
      BY <3>1, <3>2, <3>3
    <3>5. w \in Sight
      BY DEF Sight
    <3>6. w.account = v.account /\ w.price = m
      BY DEF Sight
    <3> HIDE DEF w, what
    <3> QED
      BY <3>1, <3>2, <3>4, <3>5, <3>6
  <2>4. Reads(h, what, "judge") /\ UNCHANGED <<shopVars, request, approvals, human, artifacts>>
    BY <1>5 DEF ReadCatalog, shopVars, trailVars
  <2> HIDE DEF what
  <2>5. Moves(h) /\ at'[h] = "judge" /\ seen'[h] = what /\ reply' = reply
    BY <2>3, <2>4, ReadsMoves DEF Steps
  <2>6. reply[h] = "" /\ seen[h].account \in Accounts
    BY <2>1 DEF PurchaseTypeOK
  <2>7. Placed(h)'
    BY <2>3, <2>5, <2>6 DEF Placed
  <2> QED
    BY <1>2, <2>4, <2>5, <2>7
<1>6. ASSUME NEW h \in Attempts, Evaluate(h) PROVE PurchaseTypeOK'
  <2>1. UNCHANGED <<shopVars, request, approvals, human, artifacts>>
    BY <1>6 DEF Evaluate
  <2> QED
    BY <1>2, <1>6, <2>1, GateActs
<1>7. ASSUME NEW h \in Attempts, Escalate(h) PROVE PurchaseTypeOK'
  <2>1. /\ at[h] = "judge" /\ AmountIsWhole(h) /\ Proceeds(h, "ask") /\ request' = request
        /\ UNCHANGED <<shopVars, request, approvals, human, artifacts>>
    BY <1>7 DEF Escalate, Proceeds, trailVars
  <2> QED
    BY <1>2, <2>1, GoneOnIsPlaced
<1>8. ASSUME NEW h \in Attempts, CreateApproval(h) PROVE PurchaseTypeOK'
  <2>1. EndsOrCut(h, "asked") /\ UNCHANGED <<shopVars, request, human, artifacts>>
    BY <1>8 DEF CreateApproval
  <2>2. Moves(h) /\ Placed(h)'
    BY <2>1, AnsweredIsPlaced
  <2> QED
    BY <1>0, <1>1, <1>8, <2>1, <2>2, AskedRow, MoveKeepsTypes
<1>9. ASSUME NEW h \in Attempts, Decline(h) PROVE PurchaseTypeOK'
  <2>1. EndsOrCut(h, "refused") /\ UNCHANGED <<shopVars, request, human, artifacts>>
    BY <1>9 DEF Decline
  <2>2. Moves(h) /\ Placed(h)'
    BY <2>1, AnsweredIsPlaced
  <2>3. approvals' \in [Keys -> ApprovalRow \cup {None}]
    BY <1>1, <1>9, DecideChangesStatus DEF Decline
  <2> QED
    BY <1>0, <1>1, <2>1, <2>2, <2>3, MoveKeepsTypes
<1>10. ASSUME NEW h \in Attempts, Approve(h) PROVE PurchaseTypeOK'
  <2> DEFINE row == approvals[Asks[h].key]
             made == [request[h] EXCEPT !.product = row.product, !.qty = row.qty,
                                        !.base = row.base, !.final = row.final]
  <2>1. /\ at[h] = "waiting" /\ Asks[h].kind = "approve" /\ Open(h) /\ Decide(h, "approved")
        /\ request' = [request EXCEPT ![h] = made] /\ human' = human \cup {h}
        /\ Proceeds(h, "account") /\ UNCHANGED <<shopVars, artifacts>>
    BY <1>10 DEF Approve, Turn
  <2>2. row \in ApprovalRow /\ approvals' \in [Keys -> ApprovalRow \cup {None}]
    BY <2>1, DecideChangesStatus
  <2>3. made \in Ask
    <3>1. \A a \in Ask, p \in Products, q \in Nat \ {0}, m, n \in Nat :
            [a EXCEPT !.product = p, !.qty = q, !.base = m, !.final = n] \in Ask
      BY DEF Ask
    <3>2. /\ row.product \in Products /\ row.qty \in Nat \ {0} /\ row.base \in Nat
          /\ row.final \in Nat /\ request[h] \in Ask
      BY <1>1, <2>2 DEF ApprovalRow
    <3> QED
      BY <3>1, <3>2
  <2> HIDE DEF made
  <2>4. /\ request' \in [Attempts -> Ask] /\ \A g \in Attempts \ {h} : request'[g] = request[g]
        /\ human' \subseteq {g \in Attempts : Asks[g].kind = "approve"}
    BY <1>1, <2>1, <2>3
  <2>5. Moves(h) /\ Placed(h)'
    <3>1. CASE Ends(h, "cut")
      BY <3>1, EndedIsPlaced
    <3>2. CASE GoesTo(h, "account")
      <4>1. Moves(h) /\ at'[h] = "account" /\ reply' = reply
        BY <3>2, GoesToMoves DEF Steps
      <4>2. reply[h] = ""
        BY <2>1 DEF PurchaseTypeOK
      <4> QED
        BY <4>1, <4>2 DEF Placed
    <3> QED
      BY <2>1, <3>1, <3>2 DEF Proceeds
  <2> QED
    BY <1>0, <1>1, <2>1, <2>2, <2>4, <2>5, MoveKeepsTypes
<1>11. ASSUME NEW h \in Attempts, CreateArtifact(h) PROVE PurchaseTypeOK'
  <2>1. /\ at[h] = "artifact" /\ Proceeds(h, "settle") /\ request' = request
        /\ artifacts' = artifacts \cup {[key |-> request[h].key, amount |-> Final(h)]}
        /\ UNCHANGED <<shopVars, approvals, human>>
    BY <1>11 DEF CreateArtifact
  <2>2. AmountIsWhole(h) /\ Final(h) > 0
    BY <2>1 DEF PurchaseTypeOK, AmountIsWhole
  <2>3. Moves(h) /\ Placed(h)'
    BY <2>1, <2>2, GoneOnIsPlaced
  <2>4. \A r \in artifacts' : r.amount > 0
    BY <1>1, <2>1, <2>2
  <2> QED
    BY <1>0, <1>1, <2>1, <2>3, <2>4, MoveKeepsTypes
<1>12. ASSUME UNCHANGED <<attemptVars, artifacts>>,
              price' \in [Products -> Prices], limit' \in [Accounts -> Limits],
              linked' \in [People -> Accounts], approvals' = approvals
       PROVE  PurchaseTypeOK'
  BY <1>0, <1>1, <1>12 DEF PurchaseTypeOK, attemptVars, AmountIsWhole, Amount, Base, Final
<1>13. ASSUME \/ \E a \in Accounts, v \in Limits : SetLimit(a, v)
              \/ \E p \in Products, v \in Prices : SetPrice(p, v)
              \/ \E p \in People, a \in Accounts : Relink(p, a)
              \/ \E k \in Keys : FallDue(k)
              \/ Fund \/ UNCHANGED purchaseVars
       PROVE  PurchaseTypeOK'
  <2>1. UNCHANGED <<attemptVars, artifacts>> /\ approvals' = approvals
    BY <1>13 DEF SetLimit, SetPrice, Relink, FallDue, Fund, trailVars, purchaseVars
  <2>2. /\ price' \in [Products -> Prices] /\ limit' \in [Accounts -> Limits]
        /\ linked' \in [People -> Accounts]
    BY <1>1, <1>13 DEF SetLimit, SetPrice, Relink, FallDue, Fund, shopVars, purchaseVars
  <2> QED
    BY <1>12, <2>1, <2>2
<1> QED
  BY <1>3, <1>4, <1>5, <1>6, <1>7, <1>8, <1>9, <1>10, <1>11, <1>13 DEF PurchaseNext, AttemptStep

-----------------------------------------------------------------------------
\* Evidence is never taken back.
LEMMA HeldStays ==
    ASSUME NEW g \in Attempts, Held(g),
           at'[g] = at[g], request'[g] = request[g], seen'[g] = seen[g],
           decisions \subseteq decisions', artifacts \subseteq artifacts', human \subseteq human'
    PROVE  Held(g)'
<1>1. Final(g)' = Final(g) /\ Base(g)' = Base(g)
  BY DEF Final, Base, Amount
<1>2. GateApproved(g) => GateApproved(g)'
  BY <1>1 DEF GateApproved
<1>3. ObjectStands(g) => ObjectStands(g)'
  BY <1>1 DEF ObjectStands
<1> QED
  BY <1>1, <1>2, <1>3 DEF Held

\* Nor is what was paid ever short of its evidence again.
LEMMA TrailStays ==
    ASSUME SaleIsOnTheTrail, UNCHANGED <<ledger, revenue>>,
           decisions \subseteq decisions', artifacts \subseteq artifacts'
    PROVE  SaleIsOnTheTrail'
  BY DEF SaleIsOnTheTrail

\* A row somebody said yes to is never written again.
ApprovedRowsStay ==
    \A k \in Keys : (approvals[k] # None /\ approvals[k].status = "approved") =>
        approvals'[k] = approvals[k]

\* An attempt made on a yes goes on making the purchase of that row.
LEMMA YesStays ==
    ASSUME PurchaseTypeOK, YesStands, ApprovedRowsStay, request' = request, human' = human,
           \A g \in human : at'[g] # "waiting"
    PROVE  YesStands'
<1> SUFFICES ASSUME NEW g \in human PROVE MadeFrom(g)'
  BY DEF YesStands
<1>1. g \in Attempts /\ Asks[g].key \in Keys
  BY PurchaseAssumption DEF PurchaseTypeOK, Ask
<1>2. MadeFrom(g)
  BY DEF YesStands
<1>3. approvals'[Asks[g].key] = approvals[Asks[g].key]
  BY <1>1, <1>2 DEF MadeFrom, ApprovedRowsStay
<1> QED
  BY <1>2, <1>3 DEF MadeFrom

\* A step that neither pays nor acts on a decision keeps the invariant.
LEMMA QuietStepKeeps ==
    ASSUME PurchaseTypeOK, PurInv, NEW h \in Attempts, Moves(h), Held(h)', at'[h] # "waiting",
           request' = request, human' = human, ApprovedRowsStay, UNCHANGED <<ledger, revenue>>,
           decisions \subseteq decisions', artifacts \subseteq artifacts'
    PROVE  PurInv'
<1>1. ASSUME NEW g \in Attempts PROVE Held(g)'
  <2>1. CASE g # h
    BY <2>1, HeldStays DEF PurInv, GateHolds, Moves
  <2> QED
    BY <2>1
<1>2. ASSUME NEW g \in human PROVE at'[g] # "waiting"
  <2>1. g \in Attempts /\ at[g] # "waiting"
    BY DEF PurInv, YesStands, PurchaseTypeOK
  <2> QED
    BY <2>1 DEF Moves
<1>3. YesStands' /\ SaleIsOnTheTrail' /\ KeysAreKept'
  BY <1>2, YesStays, TrailStays DEF PurInv, KeysAreKept
<1> QED
  BY <1>1, <1>3 DEF PurInv, GateHolds

\* No call of an attempt but the answer to its own question writes a row that is decided.
LEMMA DecidedRowsStay ==
    ASSUME PurchaseTypeOK, NEW h \in Attempts, CreateApproval(h) \/ Decline(h)
    PROVE  ApprovedRowsStay
<1>1. CASE CreateApproval(h)
  BY <1>1, AskedRow DEF ApprovedRowsStay
<1>2. CASE Decline(h)
  <2>1. approvals' = approvals
        \/ (Open(h) /\ (Decide(h, "expired") \/ Decide(h, "rejected")))
    BY <1>2 DEF Decline
  <2>2. CASE approvals' = approvals
    BY <2>2 DEF ApprovedRowsStay
  <2>3. CASE Open(h) /\ (Decide(h, "expired") \/ Decide(h, "rejected"))
    <3>1. /\ approvals[Asks[h].key].status = "pending"
          /\ \A j \in Keys \ {Asks[h].key} : approvals'[j] = approvals[j]
      BY <2>3, DecideChangesStatus
    <3> QED
      BY <3>1 DEF ApprovedRowsStay
  <2> QED
    BY <2>1, <2>2, <2>3
<1> QED
  BY <1>1, <1>2

\* The steps before an attempt pays, one by one.
LEMMA StepBeforePaying ==
    ASSUME PurchaseTypeOK, PurchaseTypeOK', PurInv, NEW h \in Attempts,
           \/ AskAgain(h) \/ ReadAccount(h) \/ ReadCatalog(h) \/ RefuseAmount(h) \/ Evaluate(h)
           \/ Escalate(h) \/ CreateApproval(h) \/ Decline(h) \/ CreateArtifact(h)
           \/ PayNothing(h) \/ Cut(h)
    PROVE  PurInv'
<1>1. /\ request' = request /\ human' = human /\ UNCHANGED <<ledger, revenue>>
      /\ decisions \subseteq decisions' /\ artifacts \subseteq artifacts'
  BY DEF AskAgain, ReadAccount, ReadCatalog, RefuseAmount, Evaluate, Escalate, CreateApproval,
         Decline, CreateArtifact, PayNothing, Cut, trailVars, vars
<1>2. ApprovedRowsStay
  <2>1. CASE CreateApproval(h) \/ Decline(h)
    BY <2>1, DecidedRowsStay
  <2>2. CASE ~(CreateApproval(h) \/ Decline(h))
    BY <2>2 DEF AskAgain, ReadAccount, ReadCatalog, RefuseAmount, Evaluate, Escalate,
         CreateArtifact, PayNothing, Cut, trailVars, ApprovedRowsStay
  <2> QED
    BY <2>1, <2>2
<1>3. ASSUME Moves(h), Held(h)', at'[h] # "waiting" PROVE PurInv'
  BY <1>1, <1>2, <1>3, QuietStepKeeps
<1>4. ASSUME Moves(h), at'[h] \in {"catalog", "judge", "ask", "ended"} PROVE PurInv'
  BY <1>3, <1>4 DEF Held
<1>5. CASE AskAgain(h) \/ RefuseAmount(h) \/ CreateApproval(h) \/ Decline(h) \/ PayNothing(h) \/ Cut(h)
  <2>1. PICK answer \in {"asked", "refused", "fulfilled", "cut"} : Ends(h, answer)
    BY <1>5 DEF AskAgain, RefuseAmount, CreateApproval, Decline, PayNothing, Cut, EndsOrCut
  <2> QED
    BY <1>4, <2>1, EndedIsPlaced
<1>6. CASE ReadAccount(h) \/ ReadCatalog(h)
  <2>1. seen' \in [Attempts -> Sight] /\ reply' = reply
    BY <1>6 DEF ReadAccount, ReadCatalog, Reads, PurchaseTypeOK
  <2>2. /\ at' = [at EXCEPT ![h] = "catalog"] \/ at' = [at EXCEPT ![h] = "judge"]
        /\ \A g \in Attempts \ {h} : seen'[g] = seen[g]
    BY <1>6 DEF ReadAccount, ReadCatalog, Reads, PurchaseTypeOK
  <2>3. Moves(h) /\ at'[h] \in {"catalog", "judge"}
    BY <2>1, <2>2, ZenonT(60) DEF Moves, PurchaseTypeOK, Steps
  <2> QED
    BY <1>4, <2>3
<1>7. CASE Evaluate(h)
  <2>1. /\ Moves(h) /\ at'[h] \in {"artifact", "ask", "ended"}
        /\ at'[h] = "artifact" =>
                /\ seen'[h] = seen[h]
                /\ Final(h) <= seen[h].limit \/ h \in human
                /\ \E d \in decisions' : /\ d.reason = "approved" /\ d.key = request[h].key
                                         /\ d.base = Base(h) /\ d.final = Final(h)
    BY <1>7, GateActs
  <2>2. CASE at'[h] = "artifact"
    <3>1. seen'[h] = seen[h] /\ Final(h)' = Final(h) /\ Base(h)' = Base(h)
      BY <1>1, <2>1, <2>2 DEF Final, Base, Amount
    <3>2. GateApproved(h)'
      BY <1>1, <2>1, <2>2, <3>1 DEF GateApproved
    <3>3. Held(h)'
      BY <1>1, <2>1, <2>2, <3>1, <3>2 DEF Held
    <3> QED
      BY <1>3, <2>1, <2>2, <3>3
  <2> QED
    BY <1>4, <2>1, <2>2
<1>8. CASE Escalate(h)
  <2>1. at[h] = "judge" /\ AmountIsWhole(h) /\ Proceeds(h, "ask")
    BY <1>8 DEF Escalate, Proceeds
  <2>2. Moves(h) /\ at'[h] \in {"ask", "ended"}
    BY <1>1, <2>1, GoneOnIsPlaced
  <2> QED
    BY <1>4, <2>2
<1>9. CASE CreateArtifact(h)
  <2>1. /\ at[h] = "artifact" /\ Proceeds(h, "settle")
        /\ artifacts' = artifacts \cup {[key |-> request[h].key, amount |-> Final(h)]}
        /\ decisions' = decisions /\ AmountIsWhole(h)
    BY <1>9 DEF CreateArtifact, PurchaseTypeOK
  <2>2. Moves(h) /\ at'[h] \in {"settle", "ended"}
    BY <1>1, <2>1, GoneOnIsPlaced
  <2>3. CASE at'[h] = "ended"
    BY <1>4, <2>2, <2>3
  <2>4. CASE at'[h] = "settle"
    <3>1. seen' = seen
      <4>1. CASE Ends(h, "cut")
        BY <2>4, <4>1, EndedIsPlaced
      <4>2. CASE GoesTo(h, "settle")
        BY <4>2 DEF GoesTo
      <4> QED
        BY <2>1, <4>1, <4>2 DEF Proceeds
    <3>2. Final(h)' = Final(h) /\ Base(h)' = Base(h)
      BY <1>1, <3>1 DEF Final, Base, Amount
    <3>3. GateApproved(h) /\ (Final(h) <= seen[h].limit \/ h \in human)
      BY <2>1 DEF PurInv, GateHolds, Held
    <3>4. GateApproved(h)'
      BY <1>1, <2>1, <3>2, <3>3 DEF GateApproved
    <3>5. ObjectStands(h)'
      <4> DEFINE r == [key |-> request[h].key, amount |-> Final(h)]
      <4>1. r \in artifacts' /\ r.key = request'[h].key /\ r.amount = Final(h)
        BY <1>1, <2>1
      <4> QED
        BY <3>2, <4>1 DEF ObjectStands
    <3>6. Held(h)'
      BY <1>1, <3>1, <3>2, <3>3, <3>4, <3>5 DEF Held
    <3> QED
      BY <1>3, <2>2, <2>4, <3>6
  <2> QED
    BY <2>2, <2>3, <2>4
<1> QED
  BY <1>5, <1>6, <1>7, <1>8, <1>9

\* What is paid has the evidence that was gathered for it, and what was paid keeps its own.
LEMMA PayKeeps ==
    ASSUME IInv, PurchaseTypeOK, PurInv, NEW h \in Attempts, Pay(h)
    PROVE  PurInv'
<1>1. PICK o \in OrderIds : FulfillWalletOrder(Call(h), o)
  BY DEF Pay
<1>2. /\ at[h] = "settle" /\ EndsOrCut(h, "fulfilled") /\ request' = request /\ human' = human
      /\ approvals' = approvals /\ decisions' = decisions /\ artifacts' = artifacts
  BY DEF Pay, trailVars
<1> DEFINE c == Call(h)
           rev == [base |-> c.base, final |-> c.final]
<1>3. c \in PurchaseCall /\ c.key = request[h].key /\ c.base = Base(h) /\ c.final = Final(h)
  BY <1>2, CallIsTyped
<1> HIDE DEF c
<1>4. /\ c.account \in Accounts /\ c.key \in Keys /\ c.final \in Nat \ {0}
      /\ balance[c.account] - c.final \in Nat /\ orders[o] = None
      /\ Post(c.key, c.account, o, "purchase_debit", c.final, balance[c.account] - c.final)
      /\ revenue' = [revenue EXCEPT ![o] = rev]
  BY <1>1, <1>3, PurchasePosts DEF IInv, c
<1>n. PICK n \in Nat : n = Len(ledger) + 1
  BY DEF IInv, TypeOK
<1>5. /\ DOMAIN ledger = 1..(n - 1) /\ DOMAIN ledger' = 1..n /\ n \in Nat \ {0}
      /\ \A i \in DOMAIN ledger : ledger'[i] = ledger[i]
      /\ ledger'[n] = [key |-> c.key, account |-> c.account, order |-> o,
                        entry |-> "purchase_debit", amount |-> c.final,
                        after |-> balance[c.account] - c.final]
  <2>1. o \in OrderIds \cup {None} /\ "purchase_debit" \in Entries
    BY DEF Entries
  <2> QED
    BY <1>4, <1>n, <2>1, PostShape DEF IInv
<1>6. o \in DOMAIN revenue /\ revenue'[o].base = Base(h)
  BY <1>3, <1>4 DEF IInv, TypeOK
<1>7. Held(h)
  BY DEF PurInv, GateHolds
<1>8. EvidenceFor(n)'
  <2>1. /\ ledger'[n].key = request[h].key /\ ledger'[n].amount = Final(h)
        /\ revenue'[ledger'[n].order].base = Base(h)
    BY <1>3, <1>5, <1>6
  <2>2. GateApproved(h) /\ ObjectStands(h)
    BY <1>2, <1>7 DEF Held
  <2>3. PICK d \in decisions : /\ d.reason = "approved" /\ d.key = request[h].key
                              /\ d.base = Base(h) /\ d.final = Final(h)
    BY <2>2 DEF GateApproved
  <2>4. PICK r \in artifacts : r.key = request[h].key /\ r.amount = Final(h)
    BY <2>2 DEF ObjectStands
  <2> QED
    BY <1>2, <2>1, <2>3, <2>4 DEF EvidenceFor
<1>9. ASSUME NEW i \in DOMAIN ledger, ledger[i].entry = "purchase_debit" PROVE EvidenceFor(i)'
  <2>1. EvidenceFor(i)
    BY <1>9 DEF PurInv, SaleIsOnTheTrail, EvidenceFor
  <2>2. RowsOf(o, "purchase_debit") = {}
    BY <1>4 DEF IInv, OrderMoneyTrail, Untouched, Entries
  <2>3. ledger[i].order # o
    BY <1>9, <2>2 DEF RowsOf
  <2>4. revenue'[ledger[i].order] = revenue[ledger[i].order]
    BY <1>4, <2>3
  <2>5. ledger'[i] = ledger[i]
    BY <1>5
  <2> QED
    BY <1>2, <2>1, <2>4, <2>5 DEF EvidenceFor
<1>10. SaleIsOnTheTrail'
  <2> SUFFICES ASSUME NEW i \in DOMAIN ledger', ledger'[i].entry = "purchase_debit"
               PROVE  EvidenceFor(i)'
    BY DEF SaleIsOnTheTrail, EvidenceFor
  <2>1. CASE i = n
    BY <1>8, <2>1
  <2>2. CASE i # n
    <3>1. i \in DOMAIN ledger /\ ledger'[i] = ledger[i]
      BY <1>5, <2>2
    <3> QED
      BY <1>9, <3>1
  <2> QED
    BY <2>1, <2>2
<1>11. Moves(h) /\ at'[h] = "ended"
  BY <1>2, AnsweredIsPlaced
<1>12. ASSUME NEW g \in Attempts PROVE Held(g)'
  <2>1. CASE g # h
    BY <1>2, <1>11, <2>1, HeldStays DEF PurInv, GateHolds, Moves
  <2>2. CASE g = h
    BY <1>11, <2>2 DEF Held
  <2> QED
    BY <2>1, <2>2
<1>13. ASSUME NEW g \in human PROVE at'[g] # "waiting"
  <2>1. g \in Attempts /\ at[g] # "waiting"
    BY DEF PurInv, YesStands, PurchaseTypeOK
  <2> QED
    BY <1>11, <2>1 DEF Moves
<1>14. YesStands' /\ KeysAreKept'
  BY <1>2, <1>13, YesStays DEF PurInv, KeysAreKept, ApprovedRowsStay
<1> QED
  BY <1>10, <1>12, <1>14 DEF PurInv, GateHolds

\* A yes makes one attempt, and the purchase is the one on the row.
LEMMA ApproveKeeps ==
    ASSUME PurchaseTypeOK, PurInv, NEW h \in Attempts, Approve(h)
    PROVE  PurInv'
<1> DEFINE k == Asks[h].key
           row == approvals[k]
           made == [request[h] EXCEPT !.product = row.product, !.qty = row.qty,
                                      !.base = row.base, !.final = row.final]
<1>1. /\ at[h] = "waiting" /\ Open(h) /\ Decide(h, "approved")
      /\ request' = [request EXCEPT ![h] = made] /\ human' = human \cup {h}
      /\ Proceeds(h, "account") /\ UNCHANGED <<ledger, revenue, decisions, artifacts>>
  BY DEF Approve, Turn, vars
<1>2. /\ k \in Keys /\ row \in ApprovalRow /\ row.status = "pending"
      /\ approvals'[k] # None /\ approvals'[k] = [row EXCEPT !.status = "approved"]
      /\ \A j \in Keys \ {k} : approvals'[j] = approvals[j]
  BY <1>1, DecideChangesStatus
<1>3. Moves(h) /\ at'[h] \in {"account", "ended"}
  <2>1. CASE Ends(h, "cut")
    BY <2>1, EndedIsPlaced
  <2>2. CASE GoesTo(h, "account")
    BY <2>2, GoesToMoves DEF Steps
  <2> QED
    BY <1>1, <2>1, <2>2 DEF Proceeds
<1>4. /\ \A g \in Attempts \ {h} : request'[g] = request[g]
      /\ request'[h] = made /\ request[h] \in Ask
  BY <1>1 DEF PurchaseTypeOK
<1>5. /\ made.key = request[h].key /\ made.product = row.product /\ made.qty = row.qty
      /\ made.base = row.base /\ made.final = row.final
  BY <1>4 DEF Ask
<1>6. ASSUME NEW g \in human PROVE g \in Attempts /\ g # h /\ Asks[g].key # k /\ MadeFrom(g)
  <2>1. g \in Attempts /\ at[g] # "waiting" /\ MadeFrom(g)
    BY DEF PurInv, YesStands, PurchaseTypeOK
  <2> QED
    BY <1>1, <1>2, <2>1 DEF MadeFrom
<1>7. MadeFrom(h)'
  <2>1. /\ approvals'[k].status = "approved" /\ approvals'[k].person = row.person
        /\ approvals'[k].product = row.product /\ approvals'[k].qty = row.qty
        /\ approvals'[k].base = row.base /\ approvals'[k].final = row.final
    BY <1>2 DEF ApprovalRow
  <2>2. row.person = Asks[h].person
    BY <1>1 DEF Open
  <2> HIDE DEF made, row
  <2> QED
    BY <1>2, <1>4, <1>5, <2>1, <2>2 DEF MadeFrom
<1> HIDE DEF made, row
<1>8. ASSUME NEW g \in human PROVE MadeFrom(g)' /\ at'[g] # "waiting"
  <2>1. g \in Attempts /\ g # h /\ Asks[g].key # k /\ MadeFrom(g) /\ Asks[g].key \in Keys
    BY <1>6, PurchaseAssumption DEF Ask
  <2>2. approvals'[Asks[g].key] = approvals[Asks[g].key] /\ request'[g] = request[g]
    BY <1>2, <1>4, <2>1
  <2>3. at'[g] = at[g] /\ at[g] # "waiting"
    BY <1>3, <2>1 DEF Moves, PurInv, YesStands
  <2> QED
    BY <2>1, <2>2, <2>3 DEF MadeFrom
<1>9. YesStands'
  <2>1. \A f, g \in human' : Asks[f].key = Asks[g].key => f = g
    BY <1>1, <1>6 DEF PurInv, YesStands
  <2>2. \A g \in human' : at'[g] # "waiting" /\ MadeFrom(g)'
    BY <1>1, <1>3, <1>7, <1>8
  <2> QED
    BY <2>1, <2>2 DEF YesStands
<1>10. ASSUME NEW g \in Attempts PROVE Held(g)'
  <2>1. CASE g # h
    BY <1>1, <1>3, <1>4, <2>1, HeldStays DEF PurInv, GateHolds, Moves
  <2>2. CASE g = h
    BY <1>3, <2>2 DEF Held
  <2> QED
    BY <2>1, <2>2
<1>11. KeysAreKept'
  BY <1>4, <1>5 DEF PurInv, KeysAreKept
<1>12. SaleIsOnTheTrail'
  BY <1>1, TrailStays DEF PurInv
<1> QED
  BY <1>9, <1>10, <1>11, <1>12 DEF PurInv, GateHolds

\* What others do about the shop touches no attempt and no evidence.
LEMMA ElsewhereKeeps ==
    ASSUME TypeOK, PurchaseTypeOK, PurInv, UNCHANGED attemptVars,
           approvals' = approvals, decisions' = decisions, artifacts' = artifacts,
           Fund \/ UNCHANGED <<ledger, revenue>>
    PROVE  PurInv'
<1>1. at' = at /\ request' = request /\ human' = human /\ seen' = seen
  BY DEF attemptVars
<1>2. ASSUME NEW g \in Attempts PROVE Held(g)'
  BY <1>1, HeldStays DEF PurInv, GateHolds
<1>3. YesStands' /\ KeysAreKept'
  BY <1>1 DEF PurInv, YesStands, KeysAreKept, MadeFrom
<1>4. CASE UNCHANGED <<ledger, revenue>>
  BY <1>2, <1>3, <1>4, TrailStays DEF PurInv, GateHolds
<1>5. CASE Fund
  <2>1. PICK c \in TopUps : CreditWalletTopup(c)
    BY <1>5 DEF Fund
  <2>n. PICK n \in Nat : n = Len(ledger) + 1
    BY DEF TypeOK
  <2>2. /\ c.account \in Accounts /\ c.key \in Keys /\ c.amount \in Nat \ {0}
        /\ balance[c.account] + c.amount \in Nat /\ revenue' = revenue
        /\ Post(c.key, c.account, None, "topup", c.amount, balance[c.account] + c.amount)
    BY <2>1, TopUpPosts
  <2>3. None \in OrderIds \cup {None} /\ "topup" \in Entries
    BY DEF Entries
  <2>4. PICK k \in Keys, a \in Accounts, m \in Nat \ {0}, after \in Nat :
          Post(k, a, None, "topup", m, after)
    BY <2>2
  <2>5. /\ DOMAIN ledger = 1..(n - 1) /\ DOMAIN ledger' = 1..n /\ n \in Nat \ {0}
        /\ \A i \in DOMAIN ledger : ledger'[i] = ledger[i]
        /\ ledger'[n] = [key |-> k, account |-> a, order |-> None, entry |-> "topup",
                          amount |-> m, after |-> after]
    BY <2>n, <2>3, <2>4, PostShape
  <2>6. ASSUME NEW i \in DOMAIN ledger', ledger'[i].entry = "purchase_debit"
        PROVE  i \in DOMAIN ledger /\ ledger'[i] = ledger[i]
    BY <2>5, <2>6
  <2>7. SaleIsOnTheTrail'
    BY <2>2, <2>6 DEF PurInv, SaleIsOnTheTrail
  <2> QED
    BY <1>2, <1>3, <2>7 DEF PurInv, GateHolds
<1> QED
  BY <1>4, <1>5

\* Every step, of an attempt or of the rest of the shop, keeps the invariant.
LEMMA PurStep ==
    ASSUME IInv, PurchaseTypeOK, PurchaseTypeOK', PurInv, [PurchaseNext]_purchaseVars
    PROVE  PurInv'
<1>1. ASSUME NEW h \in Attempts, AttemptStep(h) PROVE PurInv'
  BY <1>1, StepBeforePaying, PayKeeps, ApproveKeeps DEF AttemptStep
<1>2. ASSUME \/ \E a \in Accounts, v \in Limits : SetLimit(a, v)
             \/ \E p \in Products, v \in Prices : SetPrice(p, v)
             \/ \E p \in People, a \in Accounts : Relink(p, a)
             \/ \E k \in Keys : FallDue(k)
             \/ Fund \/ UNCHANGED purchaseVars
      PROVE  PurInv'
  <2>1. /\ UNCHANGED attemptVars
        /\ approvals' = approvals /\ decisions' = decisions /\ artifacts' = artifacts
        /\ Fund \/ UNCHANGED <<ledger, revenue>>
    BY <1>2 DEF SetLimit, SetPrice, Relink, FallDue, Fund, trailVars, purchaseVars, vars
  <2> QED
    BY <2>1, ElsewhereKeeps DEF IInv
<1> QED
  BY <1>1, <1>2 DEF PurchaseNext

-----------------------------------------------------------------------------
PurIInv == IInv /\ PurchaseTypeOK /\ PurInv

\* Before the first attempt nothing is bought and nobody was asked.
LEMMA PurInit == PurchaseInit => PurIInv
<1> SUFFICES ASSUME PurchaseInit PROVE PurIInv
  OBVIOUS
<1>1. IInv
  BY InvInit DEF PurchaseInit
<1>2. Nothing \in Sight
  BY DEF Nothing, Sight
<1>3. PurchaseTypeOK
  BY <1>1, <1>2, PurchaseAssumption
     DEF PurchaseInit, PurchaseTypeOK, IInv, Steps, Answers
<1>4. KeysAreKept /\ YesStands
  BY DEF PurchaseInit, KeysAreKept, YesStands
<1>5. GateHolds
  BY DEF PurchaseInit, GateHolds, Held
<1>6. SaleIsOnTheTrail
  <2>1. ledger = <<>>
    BY DEF PurchaseInit, Init
  <2>2. DOMAIN ledger = {}
    BY <2>1
  <2> QED
    BY <2>2 DEF SaleIsOnTheTrail
<1> QED
  BY <1>1, <1>3, <1>4, <1>5, <1>6 DEF PurIInv, PurInv

\* And it holds of every behaviour.
LEMMA PurIInvHolds == PurchaseSpec => []PurIInv
<1>1. PurIInv /\ [PurchaseNext]_purchaseVars => PurIInv'
  <2> SUFFICES ASSUME PurIInv, [PurchaseNext]_purchaseVars PROVE PurIInv'
    OBVIOUS
  <2>1. IInv'
    BY AttemptsMoveTheLedger, AnyCallKeepsIInv DEF PurIInv
  <2> QED
    BY <2>1, PurchaseTypeStep, PurStep DEF PurIInv
<1> QED
  BY <1>1, PurInit, PTL DEF PurchaseSpec

\* Every attempt keeps its place, and works with whole amounts once it asks or spends.
THEOREM AttemptsAreWellFormed == PurchaseSpec => []PurchaseTypeOK
  BY PurIInvHolds, PTL DEF PurIInv

\* Purchases leave a ledger that explains every balance, spends every key once and
\* trails every order, and shelves that account for what was sold, whatever price,
\* limit or link changes between their calls.
THEOREM PurchasesKeepTheBooks ==
    PurchaseSpec => [](/\ KeysSpentOnce /\ LedgerExplainsBalance
                       /\ OrderMoneyTrail /\ NoSaleBelowCost /\ StockConserved)
<1>1. PurchaseInit => StockInv
  BY StockInit DEF PurchaseInit
<1>2. PurIInv /\ PurIInv' /\ StockInv /\ [PurchaseNext]_purchaseVars => StockInv'
  <2>1. PurIInv => PurchaseTypeOK /\ TypeOK
    BY DEF PurIInv, IInv
  <2>2. PurIInv' => TypeOK'
    BY DEF PurIInv, IInv
  <2> QED
    BY <2>1, <2>2, AttemptsMoveTheLedger, StockStep
<1> QED
  BY <1>1, <1>2, PurIInvHolds, PTL DEF PurchaseSpec, PurIInv, IInv, StockInv

\* Nothing is debited unless the gate approved these amounts and the gateway holds an
\* object of this amount, wherever the calls that write them fail.
THEOREM NoSaleWithoutEvidence == PurchaseSpec => []SaleIsOnTheTrail
  BY PurIInvHolds, PTL DEF PurIInv, PurInv

\* What an ask or an answer may do to what was decided before, and when a yes is gone on from.
LEMMA AnswersDecideOpenQuestions ==
    ASSUME PurchaseTypeOK, NEW h \in Attempts, AttemptStep(h), NEW k \in Keys, Decided(k)
    PROVE  approvals'[k] = approvals[k]
<1>1. approvals \in [Keys -> ApprovalRow \cup {None}]
  BY DEF PurchaseTypeOK
<1>2. CASE approvals' = approvals
  BY <1>2
<1>3. CASE CreateApproval(h)
  BY <1>1, <1>3 DEF CreateApproval, Decided
<1>4. CASE Open(h) /\ \E status \in {"approved", "rejected", "expired"} : Decide(h, status)
  <2>1. Asks[h].key # k
    BY <1>4 DEF Open, Decided
  <2> QED
    BY <1>1, <1>4, <2>1 DEF Decide
<1>5. CASE Decline(h) \/ Approve(h)
  <2>1. approvals' = approvals \/ (Open(h) /\ \E status \in {"approved", "rejected", "expired"} : Decide(h, status))
    BY <1>5 DEF Decline, Approve
  <2> QED
    BY <1>2, <1>4, <2>1
<1>6. CASE \/ AskAgain(h) \/ ReadAccount(h) \/ ReadCatalog(h) \/ RefuseAmount(h) \/ Evaluate(h)
           \/ Escalate(h) \/ CreateArtifact(h) \/ Pay(h) \/ PayNothing(h) \/ Cut(h)
  <2>1. approvals' = approvals
    BY <1>6 DEF AskAgain, ReadAccount, ReadCatalog, RefuseAmount, Evaluate, Escalate,
                CreateArtifact, Pay, PayNothing, Cut, trailVars
  <2> QED
    BY <1>2, <2>1
<1> QED
  BY <1>3, <1>5, <1>6 DEF AttemptStep

\* An attempt goes on from a yes by the one action that finds the question open.
LEMMA OnlyApproveGoesOn ==
    ASSUME [PurchaseNext]_purchaseVars, NEW h \in human' \ human
    PROVE  \E g \in Attempts : Approve(g) /\ h = g
<1>1. ASSUME NEW g \in Attempts, AttemptStep(g) PROVE Approve(g) \/ human' = human
  BY <1>1 DEF AttemptStep, AskAgain, ReadAccount, ReadCatalog, RefuseAmount, Evaluate, Escalate,
              CreateApproval, Decline, CreateArtifact, Pay, PayNothing, Cut
<1>2. ASSUME NEW g \in Attempts, Approve(g) PROVE human' = human \cup {g}
  BY <1>2 DEF Approve
<1>3. (\E g \in Attempts : AttemptStep(g)) \/ human' = human
  BY DEF PurchaseNext, SetLimit, SetPrice, Relink, FallDue, Fund, attemptVars, purchaseVars
<1> QED
  BY <1>1, <1>2, <1>3

\* A question is answered once: one attempt at most goes on from a yes, it found the question
\* open and not due, and no answer after the first changes what was decided.
THEOREM OneYesOneAttempt == PurchaseSpec => ApprovedOnce
<1>1. ASSUME PurIInv, [PurchaseNext]_purchaseVars, NEW k \in Keys, Decided(k)
      PROVE  approvals'[k] = approvals[k]
  <2>1. CASE \E h \in Attempts : AttemptStep(h)
    BY <1>1, <2>1, AnswersDecideOpenQuestions DEF PurIInv
  <2>2. CASE ~\E h \in Attempts : AttemptStep(h)
    BY <1>1, <2>2 DEF PurchaseNext, SetLimit, SetPrice, Relink, FallDue, Fund, trailVars,
                      purchaseVars
  <2> QED
    BY <2>1, <2>2
<1>2. ASSUME PurIInv, [PurchaseNext]_purchaseVars, NEW h \in human' \ human,
             NEW k, k = request[h].key
      PROVE  /\ approvals[k] # None /\ ~Decided(k) /\ k \notin overdue
             /\ \A g \in human : request[g].key # k
  <2>1. Approve(h) /\ h \in Attempts
    BY <1>2, OnlyApproveGoesOn
  <2>2. Asks[h].key = k
    BY <1>2, <2>1 DEF PurIInv, PurInv, KeysAreKept
  <2>3. approvals[k] # None /\ approvals[k].status = "pending" /\ k \notin overdue
    BY <2>1, <2>2 DEF Approve, Open
  <2>4. ASSUME NEW g \in human PROVE approvals[request[g].key].status = "approved"
    <3>1. g \in Attempts /\ request[g].key = Asks[g].key /\ MadeFrom(g)
      BY <1>2, <2>4 DEF PurIInv, PurInv, KeysAreKept, YesStands, PurchaseTypeOK
    <3> QED
      BY <3>1 DEF MadeFrom
  <2> QED
    BY <2>3, <2>4 DEF Decided
<1>3. PurIInv /\ [PurchaseNext]_purchaseVars =>
        /\ \A k \in Keys : Decided(k) => approvals'[k] = approvals[k]
        /\ \A h \in human' \ human :
             LET k == request[h].key
             IN  /\ approvals[k] # None /\ ~Decided(k) /\ k \notin overdue
                 /\ \A g \in human : request[g].key # k
  BY <1>1, <1>2
<1> QED
  BY <1>3, PurIInvHolds, PTL DEF PurchaseSpec, ApprovedOnce

\* What is bought above the limit its attempt read is what a person said yes to, down
\* to the amounts.
THEOREM NothingAboveTheLimitUnasked == PurchaseSpec => OnlyApprovedAboveLimit
<1>1. ASSUME PurIInv, NEW h \in Attempts, Sells(h), Final(h) > seen[h].limit PROVE SaidYes(h)
  <2>1. at[h] = "settle" /\ seen[h].limit \in Nat /\ Final(h) \in Nat
    BY <1>1, AmountsAreNumbers DEF Sells, PurIInv, PurchaseTypeOK, Sight
  <2>2. h \in human
    <3>1. Final(h) <= seen[h].limit \/ h \in human
      BY <1>1, <2>1 DEF PurIInv, PurInv, GateHolds, Held
    <3> QED
      BY <1>1, <2>1, <3>1
  <2>3. MadeFrom(h) /\ request[h].key = Asks[h].key /\ request[h].key \in Keys
    BY <1>1, <2>2, AmountsAreNumbers DEF PurIInv, PurInv, YesStands, KeysAreKept
  <2>4. approvals[request[h].key] \in ApprovalRow
    BY <1>1, <2>3 DEF MadeFrom, PurIInv, PurchaseTypeOK
  <2>5. request[h].base # 0 /\ request[h].final # 0
    BY <2>3, <2>4 DEF MadeFrom, ApprovalRow
  <2>6. Base(h) = request[h].base /\ Final(h) = request[h].final
    BY <1>1, <2>5, AmountsAreNumbers DEF PurIInv
  <2> QED
    BY <2>3, <2>6 DEF MadeFrom, SaidYes
<1>2. PurIInv => [\A h \in Attempts : (Sells(h) /\ Final(h) > seen[h].limit) => SaidYes(h)]_purchaseVars
  BY <1>1
<1> QED
  BY <1>2, PurIInvHolds, PTL DEF OnlyApprovedAboveLimit
=============================================================================
