------------------------------ MODULE Reversal ------------------------------
(***************************************************************************)
(* A /refund command, from the wallet credit to the record of it at the     *)
(* payment gateway.  The credit is one transaction of WalletLedger.  What   *)
(* follows is a chain of separate calls (create the gateway object, write   *)
(* its id on the order, write a trail row, mark the reversal settled), any  *)
(* of which may fail, lose its answer, or never happen because the process  *)
(* stopped.  A later command, worded differently and minted in another run, *)
(* takes up what an earlier one left owing, and commands of different       *)
(* people linked to one account overlap.                                    *)
(***************************************************************************)
EXTENDS WalletLedger

CONSTANTS
    Commands,   \* /refund commands, each handled at most once in a run of its own
    Asked       \* Asked[h]: the person, account, order, key and reason of command h

\* What stands beside an owed reversal, and what recording one at the gateway takes.
Wording == [reason: {Asked[h].reason : h \in Commands}, run: Commands]
Inputs ==
    [order: OrderIds, account: Accounts, amount: Nat \ {0}, key: Keys,
     reason: {Asked[h].reason : h \in Commands}, run: Commands]

ASSUME CommandAssumption ==
    /\ \A h \in Commands :
        Asked[h].account \in Accounts /\ Asked[h].order \in OrderIds /\ Asked[h].key \in Keys
    /\ None \notin Wording \cup Inputs

VARIABLES
    at,         \* the call each command makes next
    owes,       \* the reversal each command set out to record, None before
    saw,        \* commands whose wallet call found or left their order refunded
    wording,    \* reversal_attempts.reason and run_id, beside the row of reversals
    gateway,    \* the objects created at the gateway, one per command at most
    refundIds,  \* orders.razorpay_refund_ids, named by the command that created it
    trail       \* orders with a refund_reversed row in audit_log

cmdVars == <<at, owes, saw, wording, gateway, refundIds, trail>>
revVars == <<vars, cmdVars>>

Waiting == "waiting"
Ended == {"answered", "cut"}

RevInit ==
    /\ Init
    /\ at = [h \in Commands |-> Waiting]
    /\ owes = [h \in Commands |-> None]
    /\ saw = {}
    /\ wording = [o \in OrderIds |-> None]
    /\ gateway = {}
    /\ refundIds = [o \in OrderIds |-> None]
    /\ trail = {}

\* One person's commands are handled one at a time.
Turn(h) ==
    /\ at[h] = Waiting
    /\ \A g \in Commands : Asked[g].person = Asked[h].person => at[g] \in Ended \cup {Waiting}

GoesTo(h, step) == at' = [at EXCEPT ![h] = step]

\* The call took effect; its answer arrives, or is lost and ends the command.
Proceeds(h, step) == GoesTo(h, step) \/ GoesTo(h, "cut")

RefundedTo(h) ==
    LET o == Asked[h].order
    IN  orders[o] # None /\ orders[o].account = Asked[h].account
                         /\ orders[o].status = "refunded_via_wallet"

\* What a credit of this command's own would have recorded at the gateway.
OwnReversal(h) ==
    [order |-> Asked[h].order, account |-> Asked[h].account,
     amount |-> orders[Asked[h].order].amount, key |-> Asked[h].key,
     reason |-> Asked[h].reason, run |-> h]

\* The wallet credits the order, and writes down beside the credit what reversing it
\* takes.
Credit(h) ==
    LET c == Asked[h]
    IN  /\ Turn(h)
        /\ \E seen \in SUBSET lapsed : RefundWalletOrder(c.account, c.order, c.key, seen)
        /\ wording' = IF reversals[c.order] = None
                      THEN [wording EXCEPT ![c.order] = [reason |-> c.reason, run |-> h]]
                      ELSE wording
        /\ owes' = [owes EXCEPT ![h] = OwnReversal(h)]
        /\ saw' = saw \cup {h}
        /\ Proceeds(h, "reverse")
        /\ UNCHANGED <<gateway, refundIds, trail>>

\* The wallet refuses, or answers that this very message was credited before.
NoCredit(h) ==
    LET c == Asked[h]
    IN  /\ Turn(h)
        /\ ~Refundable(c.account, c.order, c.key, lapsed)
        /\ saw' = IF RefundedTo(h) THEN saw \cup {h} ELSE saw
        /\ GoesTo(h, "look")
        /\ UNCHANGED <<vars, owes, wording, gateway, refundIds, trail>>

\* The row an earlier command left unsettled on this order, of this account, with
\* the inputs that command used (mutated: the inputs are taken from the
\* command at hand; nothing is ever owed).
OutstandingRebuilt(h) ==
    LET o == Asked[h].order
    IN  IF reversals[o] # None /\ reversals[o].account = Asked[h].account
                               /\ ~reversals[o].settled
        THEN OwnReversal(h)
        ELSE None
NothingOutstanding(h) == None
OutstandingReversal(h) ==
    LET o == Asked[h].order
    IN  IF reversals[o] # None /\ reversals[o].account = Asked[h].account
                               /\ ~reversals[o].settled
        THEN [order |-> o, account |-> Asked[h].account, amount |-> reversals[o].amount,
              key |-> reversals[o].key, reason |-> wording[o].reason, run |-> wording[o].run]
        ELSE None

LookUp(h) ==
    /\ at[h] = "look"
    /\ owes' = [owes EXCEPT ![h] = OutstandingReversal(h)]
    /\ GoesTo(h, IF OutstandingReversal(h) = None THEN "answered" ELSE "reverse")
    /\ UNCHANGED <<vars, saw, wording, gateway, refundIds, trail>>

\* The gateway creates an object from the inputs alone.
Reverse(h) ==
    /\ at[h] = "reverse"
    /\ gateway' = gateway \cup {[by |-> h, inputs |-> owes[h]]}
    /\ Proceeds(h, "name")
    /\ UNCHANGED <<vars, owes, saw, wording, refundIds, trail>>

\* RecordReversal writes the order first and the trail row second.
NameRecord(h) ==
    /\ at[h] = "name"
    /\ refundIds' = [refundIds EXCEPT ![owes[h].order] = h]
    /\ Proceeds(h, "trail")
    /\ UNCHANGED <<vars, owes, saw, wording, gateway, trail>>

WriteTrail(h) ==
    /\ at[h] = "trail"
    /\ trail' = trail \cup {owes[h].order}
    /\ Proceeds(h, "settle")
    /\ UNCHANGED <<vars, owes, saw, wording, gateway, refundIds>>

\* The row is stamped unless an overlapping command has stamped it already.
Settle(h) ==
    /\ at[h] = "settle"
    /\ \/ SettleReversal(owes[h].order)
       \/ reversals[owes[h].order].settled /\ UNCHANGED vars
    /\ Proceeds(h, "answered")
    /\ UNCHANGED <<owes, saw, wording, gateway, refundIds, trail>>

\* A call fails without effect, or the process stops before it: the command ends
\* where it stands (mutated: a failed trail write is logged and passed over).
CutOrPassOver(h) ==
    /\ at[h] \notin Ended
    /\ at[h] = Waiting => Turn(h)
    /\ GoesTo(h, IF at[h] = "name" THEN "settle" ELSE "cut")
    /\ UNCHANGED <<vars, owes, saw, wording, gateway, refundIds, trail>>
Cut(h) ==
    /\ at[h] \notin Ended
    /\ at[h] = Waiting => Turn(h)
    /\ GoesTo(h, "cut")
    /\ UNCHANGED <<vars, owes, saw, wording, gateway, refundIds, trail>>

RefundStep(h) ==
    \/ Credit(h) \/ NoCredit(h) \/ LookUp(h) \/ Reverse(h)
    \/ NameRecord(h) \/ WriteTrail(h) \/ Settle(h)

\* The rest of the shop: wallets are funded, goods are bought, windows lapse.
Elsewhere ==
    /\ \/ \E c \in TopUps : CreditWalletTopup(c)
       \/ \E c \in Purchases, o \in OrderIds : FulfillWalletOrder(c, o)
       \/ \E o \in OrderIds : WindowLapses(o)
    /\ UNCHANGED cmdVars

RevNext == Elsewhere \/ \E h \in Commands : RefundStep(h) \/ Cut(h)

RevSpec == RevInit /\ [][RevNext]_revVars

-----------------------------------------------------------------------------
RecordsOf(o) == {r \in gateway : r.inputs.order = o}

RevTypeOK ==
    /\ TypeOK
    /\ at \in [Commands -> Ended \cup {Waiting, "look", "reverse", "name", "trail", "settle"}]
    /\ owes \in [Commands -> Inputs \cup {None}]
    /\ wording \in [OrderIds -> Wording \cup {None}]
    /\ saw \subseteq Commands /\ trail \subseteq OrderIds /\ DOMAIN refundIds = OrderIds
    /\ \A h \in Commands : at[h] \in {"reverse", "name", "trail", "settle"} =>
            owes[h] # None /\ owes[h].order = Asked[h].order
    /\ \A o \in OrderIds : wording[o] = None <=> reversals[o] = None

\* Whoever records a cancellation at the gateway, and after however many failures,
\* every object carries the account, the amount, the key, the reason and the run of
\* the one credit behind it: the inputs are the first attempt's (reversal.go and
\* owedReversal), never rebuilt from a later command, and nobody records the
\* cancellation of an order that is not theirs.
RecordsAgree ==
    \A o \in OrderIds : \A r \in RecordsOf(o) :
        /\ orders[o] # None /\ r.inputs.account = orders[o].account
        /\ \E i \in RowsOf(o, "purchase_refund") :
                r.inputs.key = ledger[i].key /\ r.inputs.amount = ledger[i].amount
        /\ r.inputs.reason = wording[o].reason /\ r.inputs.run = wording[o].run
        /\ orders[o].account = Asked[r.by].account

\* A reversal marked settled is one the gateway holds, the order names and the trail
\* tells of, however the calls of the chain failed: none is lost by being stamped
\* early.
SettledMeansRecorded ==
    \A o \in OrderIds : (reversals[o] # None /\ reversals[o].settled) =>
        /\ refundIds[o] \in {r.by : r \in RecordsOf(o)}
        /\ o \in trail

\* A command that found its order refunded, or refunded it, and ended without a
\* failure leaves nothing owing, whatever earlier commands left undone.
AnsweredLeavesNothingOwing ==
    \A h \in saw : at[h] = "answered" => reversals[Asked[h].order].settled
=============================================================================
