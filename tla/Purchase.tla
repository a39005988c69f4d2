------------------------------ MODULE Purchase ------------------------------
(***************************************************************************)
(* One purchase attempt of the buyer, from what it reads to what it spends: *)
(* it reads the account, then the catalog, puts the amount to the gate,     *)
(* which writes its decision down before it returns it, and then either     *)
(* asks the person (create_human_approval) or records a gateway object and  *)
(* has the wallet pay (fulfill_wallet_order, a step of WalletLedger).  Each *)
(* is a call of its own.  Between them the spending limit, the list price,  *)
(* the stock, the balance and the account the person is linked to may       *)
(* change, the call may fail or lose its answer, and the process may stop;  *)
(* the same message may then be handled again under the same key.           *)
(***************************************************************************)
EXTENDS WalletLedger

CONSTANTS
    People,     \* Telegram ids
    FirstLink,  \* FirstLink[p]: the account person p is linked to at first
    FirstPrice, \* FirstPrice[p]: the list price of product p at first
    FirstLimit, \* FirstLimit[a]: the spending limit of account a at first
    Attempts,   \* messages handled, each handling an attempt of its own
    Asks,       \* Asks[h]: what attempt h was asked for
    Prices,     \* list prices a product may have
    Limits,     \* spending limits an account may have
    MaxChanges  \* bound: changes of a list price, a limit or a link

\* `kind` tells a purchase, an escalation of the buyer agent, and a decision on an open
\* request apart; `free` is a message in the person's own words, which the buyer agent
\* may turn into either of the first two.  A base or final of 0 stands for the list
\* total, as in the code, and `negotiated` for an amount agreed earlier, whose age the
\* gate looks at.
\* A quantity below one is refused before anything is read.
Ask == [kind: {"buy", "escalate", "approve", "reject"}, person: People, product: Products,
        qty: Nat \ {0}, base: Nat, final: Nat, negotiated: BOOLEAN, free: BOOLEAN, key: Keys]
\* What is kept of a question: the purchase it is about and where it stands.
ApprovalRow ==
    [person: People, account: Accounts, product: Products, qty: Nat \ {0}, base: Nat \ {0},
     final: Nat \ {0}, status: {"pending", "approved", "rejected", "expired"}]

ASSUME PurchaseAssumption ==
    /\ Asks \in [Attempts -> Ask] /\ FirstLink \in [People -> Accounts]
    /\ FirstPrice \in [Products -> Prices] /\ FirstLimit \in [Accounts -> Limits]
    /\ Prices \subseteq Nat \ {0} /\ Limits \subseteq Nat /\ MaxChanges \in Nat
    /\ None \notin ApprovalRow

VARIABLES
    price,      \* products.price_paise
    limit,      \* accounts.spend_limit_paise
    linked,     \* telegram_links: the account of each person
    changes,    \* how often one of them changed
    approvals,  \* human_approval_requests by idempotency key, None for no row
    overdue,    \* keys whose request is past its expires_at
    decisions,  \* the gate's rows in audit_log
    artifacts,  \* the objects at the gateway, by what their receipt and amount say
    at,         \* the call each attempt makes next
    request,    \* the purchase each attempt is making
    human,      \* attempts made on a person's decision
    seen,       \* what each attempt read, while it runs
    reply       \* how each attempt ended, "" before

shopVars == <<price, limit, linked, changes>>
trailVars == <<approvals, overdue, decisions, artifacts>>
attemptVars == <<at, request, human, seen, reply>>
purchaseVars == <<vars, shopVars, trailVars, attemptVars>>

Nothing == [account |-> None, balance |-> 0, limit |-> 0, price |-> 0, stock |-> 0]

PurchaseInit ==
    /\ Init
    /\ price = FirstPrice /\ limit = FirstLimit
    /\ linked = FirstLink /\ changes = 0
    /\ approvals = [k \in Keys |-> None] /\ overdue = {}
    /\ decisions = {} /\ artifacts = {}
    /\ at = [h \in Attempts |-> "waiting"]
    /\ request = Asks
    /\ human = {}
    /\ seen = [h \in Attempts |-> Nothing]
    /\ reply = [h \in Attempts |-> ""]

PaidKeys == {ledger[i].key : i \in {j \in DOMAIN ledger : ledger[j].entry = "purchase_debit"}}

\* One person's messages are handled one at a time.
Turn(h) ==
    /\ at[h] = "waiting"
    /\ \A g \in Attempts : Asks[g].person = Asks[h].person => at[g] \in {"waiting", "ended"}

Ends(h, answer) ==
    /\ at' = [at EXCEPT ![h] = "ended"]
    /\ reply' = [reply EXCEPT ![h] = answer]
    /\ seen' = [seen EXCEPT ![h] = Nothing]
GoesTo(h, step) == at' = [at EXCEPT ![h] = step] /\ UNCHANGED <<reply, seen>>
Reads(h, what, step) ==
    /\ seen' = [seen EXCEPT ![h] = what]
    /\ at' = [at EXCEPT ![h] = step]
    /\ UNCHANGED reply

\* The call took effect; its answer arrives, or is lost and ends the attempt.
Proceeds(h, step) == GoesTo(h, step) \/ Ends(h, "cut")
EndsOrCut(h, answer) == Ends(h, answer) \/ Ends(h, "cut")

Amount(h) == seen[h].price * request[h].qty
Base(h) == IF request[h].base = 0 THEN Amount(h) ELSE request[h].base
Final(h) == IF request[h].final = 0 THEN Amount(h) ELSE request[h].final
AmountIsWhole(h) == Base(h) = Amount(h) /\ Final(h) > 0

-----------------------------------------------------------------------------
\* A free message while this person has a question open gets the question again; if
\* that cannot be read, it goes on as if there were none.
OpenQuestion(h) ==
    \E k \in Keys \ overdue : /\ approvals[k] # None /\ approvals[k].status = "pending"
                             /\ approvals[k].person = Asks[h].person
AskAgain(h) ==
    /\ Turn(h) /\ Asks[h].free /\ OpenQuestion(h)
    /\ Ends(h, "asked")
    /\ UNCHANGED <<vars, shopVars, trailVars, request, human>>

ReadAccount(h) ==
    /\ \/ Turn(h) /\ Asks[h].kind \in {"buy", "escalate"}
       \/ at[h] = "account"
    /\ LET a == linked[Asks[h].person]
       IN  Reads(h, [Nothing EXCEPT !.account = a, !.balance = balance[a], !.limit = limit[a]],
                 "catalog")
    /\ UNCHANGED <<vars, shopVars, trailVars, request, human>>

ReadCatalog(h) ==
    /\ at[h] = "catalog"
    /\ LET p == request[h].product
       IN  Reads(h, [seen[h] EXCEPT !.price = price[p], !.stock = stock[p]], "judge")
    /\ UNCHANGED <<vars, shopVars, trailVars, request, human>>

\* A negotiated amount whose base is not the list total just read goes no further.
RefuseAmount(h) ==
    /\ at[h] = "judge" /\ ~AmountIsWhole(h)
    /\ Ends(h, "refused")
    /\ UNCHANGED <<vars, shopVars, trailVars, request, human>>

\* rejectionReason: the first check that fails (mutated: the limit is not one of them).
VerdictOverLimit(h, fresh) ==
    CASE seen[h].stock < request[h].qty              -> "insufficient_stock"
      [] seen[h].balance < Final(h)                  -> "insufficient_wallet_balance"
      [] ~fresh /\ h \notin human                    -> "stale_price"
      [] OTHER                                       -> "approved"
Verdict(h, fresh) ==
    CASE seen[h].stock < request[h].qty              -> "insufficient_stock"
      [] (seen[h].limit <= 0 \/ Final(h) > seen[h].limit) /\ h \notin human
                                                     -> "human_approval_required"
      [] seen[h].balance < Final(h)                  -> "insufficient_wallet_balance"
      [] ~fresh /\ h \notin human                    -> "stale_price"
      [] OTHER                                       -> "approved"

\* Only an amount agreed at another time can be older than the gate allows.
Fresh(h) == IF request[h].negotiated /\ h \notin human THEN BOOLEAN ELSE {TRUE}

Acts(h, reason) ==
    CASE reason = "approved"                -> Proceeds(h, "artifact")
      [] reason = "human_approval_required" -> Proceeds(h, "ask")
      [] OTHER                              -> EndsOrCut(h, "refused")

\* The gate decides and writes the decision down, or the attempt ends there (mutated:
\* it goes on with a decision that was not written).
EvaluateFailOpen(h) ==
    /\ at[h] = "judge" /\ AmountIsWhole(h) /\ request[h].kind # "escalate"
    /\ \E fresh \in Fresh(h) : Acts(h, Verdict(h, fresh))
    /\ UNCHANGED <<vars, shopVars, trailVars, request, human>>
Evaluate(h) ==
    /\ at[h] = "judge" /\ AmountIsWhole(h) /\ request[h].kind # "escalate"
    /\ \E fresh \in Fresh(h) :
        /\ decisions' = decisions \cup
                {[key |-> request[h].key, base |-> Base(h), final |-> Final(h),
                  reason |-> Verdict(h, fresh)]}
        /\ Acts(h, Verdict(h, fresh))
    /\ UNCHANGED <<vars, shopVars, approvals, overdue, artifacts, request, human>>

\* The buyer agent hands the amount to the person without asking the gate.
Escalate(h) ==
    /\ at[h] = "judge" /\ AmountIsWhole(h) /\ request[h].kind = "escalate"
    /\ GoesTo(h, "ask")
    /\ UNCHANGED <<vars, shopVars, trailVars, request, human>>

\* create_human_approval: one row per key, the first one; a later ask is shown that one.
CreateApproval(h) ==
    /\ at[h] = "ask"
    /\ approvals' = IF approvals[request[h].key] # None THEN approvals
                    ELSE [approvals EXCEPT ![request[h].key] =
            [person |-> Asks[h].person, account |-> seen[h].account,
             product |-> request[h].product, qty |-> request[h].qty,
             base |-> Base(h), final |-> Final(h), status |-> "pending"]]
    /\ EndsOrCut(h, "asked")
    /\ UNCHANGED <<vars, shopVars, overdue, decisions, artifacts, request, human>>

\* resolve_human_approval: a pending request of this person is decided, once (mutated:
\* whatever its status, so that a second tap or a yes after a no counts).
OpenWhateverStatus(h) ==
    approvals[Asks[h].key] # None /\ approvals[Asks[h].key].person = Asks[h].person
Open(h) ==
    LET row == approvals[Asks[h].key]
    IN  row # None /\ row.person = Asks[h].person /\ row.status = "pending"

Decide(h, status) == approvals' = [approvals EXCEPT ![Asks[h].key].status = status]

\* The decision does not stand: there is no such request, it was decided, it expired, or
\* the person says no.
Decline(h) ==
    /\ Turn(h) /\ Asks[h].kind \in {"approve", "reject"}
    /\ \/ ~Open(h) /\ UNCHANGED approvals
       \/ Open(h) /\ Asks[h].key \in overdue /\ Decide(h, "expired")
       \/ Open(h) /\ Asks[h].key \notin overdue /\ Asks[h].kind = "reject" /\ Decide(h, "rejected")
    /\ EndsOrCut(h, "refused")
    /\ UNCHANGED <<vars, shopVars, overdue, decisions, artifacts, request, human>>

\* The person says yes, and the purchase is made again from the row, all but its
\* account: that is read anew.
Approve(h) ==
    LET row == approvals[Asks[h].key]
    IN  /\ Turn(h) /\ Asks[h].kind = "approve"
        /\ Open(h) /\ Asks[h].key \notin overdue
        /\ Decide(h, "approved")
        /\ request' = [request EXCEPT ![h] =
                [@ EXCEPT !.product = row.product, !.qty = row.qty,
                          !.base = row.base, !.final = row.final]]
        /\ human' = human \cup {h}
        /\ Proceeds(h, "account")
        /\ UNCHANGED <<vars, shopVars, overdue, decisions, artifacts>>

CreateArtifact(h) ==
    /\ at[h] = "artifact"
    /\ artifacts' = artifacts \cup {[key |-> request[h].key, amount |-> Final(h)]}
    /\ Proceeds(h, "settle")
    /\ UNCHANGED <<vars, shopVars, approvals, overdue, decisions, request, human>>

Call(h) ==
    [account |-> seen[h].account, product |-> request[h].product, qty |-> request[h].qty,
     base |-> Base(h), final |-> Final(h), key |-> request[h].key]

\* The wallet pays, says the key was paid before, or refuses.
Pay(h) ==
    /\ at[h] = "settle"
    /\ \E o \in OrderIds : FulfillWalletOrder(Call(h), o)
    /\ EndsOrCut(h, "fulfilled")
    /\ UNCHANGED <<shopVars, trailVars, request, human>>
PayNothing(h) ==
    /\ at[h] = "settle" /\ ~Fulfillable(Call(h))
    /\ EndsOrCut(h, IF request[h].key \in PaidKeys THEN "fulfilled" ELSE "refused")
    /\ UNCHANGED <<vars, shopVars, trailVars, request, human>>

\* A call fails without effect, or the process stops before it.
Cut(h) ==
    /\ at[h] # "ended" /\ at[h] # "waiting"
    /\ Ends(h, "cut")
    /\ UNCHANGED <<vars, shopVars, trailVars, request, human>>

AttemptStep(h) ==
    \/ AskAgain(h) \/ ReadAccount(h) \/ ReadCatalog(h) \/ RefuseAmount(h) \/ Evaluate(h)
    \/ Escalate(h) \/ CreateApproval(h) \/ Decline(h) \/ Approve(h) \/ CreateArtifact(h) \/ Pay(h)
    \/ PayNothing(h) \/ Cut(h)

\* The dashboard changes a limit, the merchant a price; a person redeems a link of
\* another account; requests fall due.
SetLimit(a, v) ==
    /\ changes < MaxChanges /\ limit[a] # v
    /\ limit' = [limit EXCEPT ![a] = v] /\ changes' = changes + 1
    /\ UNCHANGED <<vars, price, linked, trailVars, attemptVars>>
SetPrice(p, v) ==
    /\ changes < MaxChanges /\ price[p] # v
    /\ price' = [price EXCEPT ![p] = v] /\ changes' = changes + 1
    /\ UNCHANGED <<vars, limit, linked, trailVars, attemptVars>>
Relink(p, a) ==
    /\ changes < MaxChanges /\ linked[p] # a
    /\ linked' = [linked EXCEPT ![p] = a] /\ changes' = changes + 1
    /\ UNCHANGED <<vars, price, limit, trailVars, attemptVars>>
FallDue(k) ==
    /\ approvals[k] # None /\ k \notin overdue
    /\ overdue' = overdue \cup {k}
    /\ UNCHANGED <<vars, shopVars, approvals, decisions, artifacts, attemptVars>>
Fund == \E c \in TopUps : CreditWalletTopup(c) /\ UNCHANGED <<shopVars, trailVars, attemptVars>>

PurchaseNext ==
    \/ \E h \in Attempts : AttemptStep(h)
    \/ \E a \in Accounts, v \in Limits : SetLimit(a, v)
    \/ \E p \in Products, v \in Prices : SetPrice(p, v)
    \/ \E p \in People, a \in Accounts : Relink(p, a)
    \/ \E k \in Keys : FallDue(k)
    \/ Fund

PurchaseSpec == PurchaseInit /\ [][PurchaseNext]_purchaseVars

-----------------------------------------------------------------------------
Answers == {"", "asked", "refused", "fulfilled", "cut"}
Steps == {"waiting", "account", "catalog", "judge", "ask", "artifact", "settle", "ended"}

\* An attempt that runs holds a whole amount before it asks or spends, and acts on a
\* person's decision only if it was asked to.
Sight == [account: Accounts \cup {None}, balance: Nat, limit: Nat, price: Nat, stock: Nat]
PurchaseTypeOK ==
    /\ TypeOK
    /\ price \in [Products -> Prices] /\ limit \in [Accounts -> Limits]
    /\ linked \in [People -> Accounts] /\ approvals \in [Keys -> ApprovalRow \cup {None}]
    /\ at \in [Attempts -> Steps] /\ reply \in [Attempts -> Answers]
    /\ request \in [Attempts -> Ask] /\ seen \in [Attempts -> Sight]
    /\ \A h \in Attempts :
        /\ at[h] = "ended" <=> reply[h] # ""
        /\ at[h] \in {"catalog", "judge", "ask", "artifact", "settle"} =>
                seen[h].account \in Accounts
        /\ at[h] \in {"judge", "ask", "artifact", "settle"} => seen[h].price > 0
        /\ at[h] \in {"ask", "artifact", "settle"} => AmountIsWhole(h)
    /\ human \subseteq {h \in Attempts : Asks[h].kind = "approve"}
    /\ \A r \in artifacts : r.amount > 0

\* A sale above the limit its attempt read is one a person said yes to: the approved
\* request of that key names this person, product and quantity and these very amounts,
\* whatever changed, was asked again or was handled again since it was quoted.
SaidYes(h) ==
    LET row == approvals[request[h].key]
    IN  /\ row # None /\ row.status = "approved" /\ row.person = Asks[h].person
        /\ row.product = request[h].product /\ row.qty = request[h].qty
        /\ row.base = Base(h) /\ row.final = Final(h)
Sells(h) == at[h] = "settle" /\ at'[h] = "ended" /\ Len(ledger') > Len(ledger)
OnlyApprovedAboveLimit ==
    [][\A h \in Attempts :
          (Sells(h) /\ Final(h) > seen[h].limit) => SaidYes(h)]_purchaseVars

\* No sale without its evidence: the gate's approval of exactly these amounts and a
\* gateway object of this amount stand before the wallet is debited, also when the
\* calls that write them fail or the process stops between them.
SaleIsOnTheTrail ==
    \A i \in DOMAIN ledger : ledger[i].entry = "purchase_debit" =>
        /\ \E d \in decisions : /\ d.reason = "approved" /\ d.key = ledger[i].key
                                 /\ d.final = ledger[i].amount
                                 /\ d.base = revenue[ledger[i].order].base
        /\ \E r \in artifacts : r.key = ledger[i].key /\ r.amount = ledger[i].amount

\* A question is answered once, by the answer that comes first: an attempt goes on from a yes
\* only if the question was open and not due when the yes came and no other attempt went on
\* from it, and no second tap, no, expiry or repeated ask changes what was decided.
Decided(k) == approvals[k] # None /\ approvals[k].status # "pending"
ApprovedOnce ==
    [][/\ \A k \in Keys : Decided(k) => approvals'[k] = approvals[k]
       /\ \A h \in human' \ human :
            LET k == request[h].key
            IN  /\ approvals[k] # None /\ ~Decided(k) /\ k \notin overdue
                /\ \A g \in human : request[g].key # k]_purchaseVars

\* "ResolveApproval applies a Telegram decision and resumes the original purchase": what
\* is bought on a yes is paid from the account it was asked for.
ResumesTheOriginal ==
    [][\A h \in human :
          Sells(h) => seen[h].account = approvals[request[h].key].account]_purchaseVars
=============================================================================
