---------------------------- MODULE Negotiation ----------------------------
(***************************************************************************)
(* One quoted deal of the merchant, from its opening ask to its end.  The   *)
(* session is a record in a key-value store: each request reads a copy,     *)
(* works on it, asking the shop's model for a minute perhaps, and writes    *)
(* the whole record back, so requests that overlap (a counter whose caller  *)
(* gave up waiting and an accept, say) overwrite one another.  Meanwhile    *)
(* the discount the buyer is funded for moves with the orders placed and    *)
(* refunded, reads fail, answers get lost, and the record may expire.       *)
(* Sessions share nothing but that discount, so one stands for all.         *)
(***************************************************************************)
EXTENDS Integers, FiniteSets

CONSTANTS
    Price, Cost,                \* products.price_paise and cost_paise, of one unit
    Qty,                        \* units asked for
    WarrantyYears, TrustScore,  \* what an opening ask may be argued from
    PartnerPrice, PartnerCost,  \* of the product a combo attaches
    ComboPct,                   \* combo_discount_pct, 0 for no combo
    Percentages,                \* what a campaign may fund for the buyer
    Observations,               \* what trading conditions may say
    Requests,                   \* requests on the session
    KindOf,                     \* KindOf[r]: whether request r counters, or resolves the session
    Bids,                       \* amounts a buyer counters with
    Proposals,                  \* amounts the shop's model answers with
    MaxMoves,                   \* bound: changes of the funded discount
    None

MaxRounds == 3

\* The record of a session, as far as it decides anything; `chosen` is history.
Session == [ask : Nat \ {0}, bundled : Nat, named : BOOLEAN,
            status : {"countered", "accepted", "declined"}, round : 1..MaxRounds,
            floor : Nat, chosen : Nat]

ASSUME NegotiationAssumption ==
    /\ {Price, Qty} \subseteq Nat \ {0} /\ Cost \in 0..Price - 1
    /\ PartnerPrice \in Nat \ {0} /\ PartnerCost \in 0..PartnerPrice - 1 /\ ComboPct \in 0..99
    /\ {WarrantyYears, TrustScore, MaxMoves} \subseteq Nat
    /\ Percentages \subseteq 0..99 /\ 0 \in Percentages /\ None \notin Percentages
    /\ None \notin Session
    /\ KindOf \in [Requests -> {"counter", "resolve"}]
    /\ Bids \subseteq Nat \ {0} /\ Proposals \subseteq Int
    /\ Observations \subseteq [refundRate : Nat \cup {None}, sold : Nat, cover : Int \cup {None}]

VARIABLES
    funded,     \* the discount, in percent, that the buyer is funded for now
    moves,      \* how often it changed
    most,       \* history: the most it was since the session was quoted
    stored,     \* the session in the store, None before and after
    at,         \* what each request does next
    copy,       \* the session as each request holds it
    trail,      \* the amounts of the offer_priced rows in audit_log
    overlapped  \* history: whether two requests were ever under way at once

requestVars == <<at, copy>>
negotiationVars == <<funded, moves, most, stored, at, copy, trail, overlapped>>

NegotiationInit ==
    /\ funded \in Percentages /\ moves = 0 /\ most = None
    /\ stored = None
    /\ at = [r \in Requests |-> "waiting"] /\ copy = [r \in Requests |-> None]
    /\ trail = {} /\ overlapped = FALSE

-----------------------------------------------------------------------------
Least(a, b) == IF a < b THEN a ELSE b
Most(a, b) == IF a > b THEN a ELSE b

\* A share of an amount, cut off towards zero whichever its sign.  For the schedule's
\* fractions it is what the code's float64 products come to.
Share(amount, pct) == IF amount < 0 THEN -((-amount * pct) \div 100) ELSE (amount * pct) \div 100

Base == Price * Qty
Bundled == ((PartnerPrice * (100 - ComboPct)) \div 100) * Qty
PartnerShare == ((PartnerCost * (100 - ComboPct)) \div 100) * Qty

\* The uplift on a list total, in basis points: cover counts only when the refund rate
\* is known, scarcity only when it was measured.
UpliftBps(seen) ==
    LET cover == IF seen.refundRate = None THEN 0
                 ELSE (Least(WarrantyYears * 150, 600) * Most(100 - seen.refundRate, 0)) \div 100
        trust == Most(0, Least((TrustScore - 80) * 10, 300))
        scarcity == IF seen.cover # None /\ seen.cover \in 0..7 /\ seen.sold > 0 THEN 300 ELSE 0
    IN  Least(cover + trust + scarcity, 1200)

OpeningAsk(seen, bundled) == Base + ((Base * UpliftBps(seen)) \div 10000) + bundled

\* The shop's own cost of what a counter is about, as far as the partner can be read:
\* it asks for the combo's partner, whether or not the session attached it.
FloorFor(partnerRead) ==
    Cost * Qty + (IF partnerRead /\ ComboPct > 0 THEN PartnerShare ELSE 0)

\* The discount the buyer is funded for, off the list total, but never below cost
\* (mutated: cost left out).
EntitledFloorBelowCost(costFloor, listTotal, pct) == listTotal - Share(listTotal, pct)
EntitledFloor(costFloor, listTotal, pct) == Most(costFloor, listTotal - Share(listTotal, pct))

\* What the shop still demands of the distance between floor and ask, by round.
Schedule == <<100, 60, 15>>
MinimumOf(s, floor) == floor + Share(s.ask - floor, Schedule[Least(s.round, MaxRounds)])

\* The shop's last word is behind it (mutated: one round later).
ExhaustedLate(s) == s.round > MaxRounds
Exhausted(s) == s.round >= MaxRounds

\* Meeting the ask, or passing it, settles at the ask (mutated: at the bid).
MeetsAskAtTheBid(s, bid) == [s EXCEPT !.status = "accepted", !.ask = bid]
MeetsAsk(s, bid) == [s EXCEPT !.status = "accepted"]

\* clampToRails, the price guard of the shop's model: the ask wins over every floor.
ClampToRails(proposed, floor, bid, minimum, ask) ==
    LET low == Least(Most(Most(floor, bid), minimum), ask)
    IN  Least(Most(proposed, low), ask)

ClampCounter(value, low, high) == IF value < low THEN low ELSE Least(value, high)

-----------------------------------------------------------------------------
Quoted == most # None
UnderWay(r) == at[r] \in {"loaded", "put"}

GoesTo(r, step) == at' = [at EXCEPT ![r] = step]
Keeps(r, session, step) == copy' = [copy EXCEPT ![r] = session] /\ GoesTo(r, step)
Ends(r) == Keeps(r, None, "ended")

\* The opening ask goes out under a session id nobody else has.  A proposal that fails,
\* or whose answer is lost, leaves no session anyone can name.
Propose ==
    /\ ~Quoted
    /\ \E named \in BOOLEAN, seen \in Observations, attached \in {FALSE, ComboPct > 0} :
         stored' = [ask |-> OpeningAsk(seen, IF attached THEN Bundled ELSE 0),
                    bundled |-> IF attached THEN Bundled ELSE 0, named |-> named,
                    status |-> "countered", round |-> 1, floor |-> 0, chosen |-> 0]
    /\ most' = funded
    /\ UNCHANGED <<funded, moves, requestVars, trail, overlapped>>

\* Only a countered session is open to anything (mutated: every one is).
OpenWhateverStatus(r) == TRUE
Open(r) == stored.status = "countered"

\* What a request is given to work on; an accept or a decline is done at once.
Load(r) ==
    /\ at[r] = "waiting" /\ stored # None /\ Open(r)
    /\ \/ KindOf[r] = "counter" /\ Keeps(r, stored, "loaded")
       \/ /\ KindOf[r] = "resolve"
          /\ \E outcome \in {"accepted", "declined"} :
               Keeps(r, [stored EXCEPT !.status = outcome], "put")
    /\ overlapped' = (overlapped \/ \E q \in Requests \ {r} : UnderWay(q))
    /\ UNCHANGED <<funded, moves, most, stored, trail>>

\* The session is gone or closed, or what a counter needs cannot be read.  A request whose
\* session cannot be read at all is one that was never made.
TurnedAway(r) ==
    /\ Quoted
    /\ \/ at[r] = "waiting" /\ (stored # None => ~Open(r))
       \/ at[r] = "loaded"
    /\ Ends(r)
    /\ UNCHANGED <<funded, moves, most, stored, trail, overlapped>>

\* `chosen` is history: the amount the model chose, 0 when the schedule or the buyer did.
Countered(r, s, amount, chosen) ==
    Keeps(r, [s EXCEPT !.ask = amount, !.round = @ + 1, !.chosen = chosen], "put")

\* The shop's model answers inside the rails and its answer is recorded before it is
\* used; the schedule's amount stands when the model or the recording fails (mutated: the
\* model's stands all the same).
StrategistUnrecorded(r, s, bid, held) ==
    \E p \in Proposals :
        LET x == ClampToRails(p, s.floor, bid, held, copy[r].ask)
        IN  /\ trail' \in {trail, trail \cup {x}}
            /\ \/ Countered(r, s, ClampCounter(x, Most(s.floor, bid), copy[r].ask), x)
               \/ Countered(r, s, held, 0)
Strategist(r, s, bid, held) ==
    \E p \in Proposals :
        LET x == ClampToRails(p, s.floor, bid, held, copy[r].ask)
        IN  \/ /\ trail' = trail \cup {x}
               /\ Countered(r, s, ClampCounter(x, Most(s.floor, bid), copy[r].ask), x)
            \/ /\ trail' \in {trail, trail \cup {x}}
               /\ Countered(r, s, held, 0)

\* One buyer counter against the copy: met, taken, the last word, or countered in turn.
\* The discount reads as none for a buyer without a name and when its lookup fails.
Answer(r) ==
    /\ at[r] = "loaded"
    /\ \E bid \in Bids, pct \in {0, IF copy[r].named THEN funded ELSE 0}, partnerRead \in BOOLEAN :
        LET ask == copy[r].ask
            floor == EntitledFloor(FloorFor(partnerRead), Base + copy[r].bundled, pct)
            s == [copy[r] EXCEPT !.floor = floor]
            minimum == MinimumOf(s, floor)
            held == Most(floor, bid + Share(minimum - bid, 50))
        IN  \/ /\ bid >= ask
               /\ Keeps(r, MeetsAsk(s, bid), "put")
               /\ UNCHANGED trail
            \/ /\ minimum <= bid /\ bid < ask
               /\ Keeps(r, [s EXCEPT !.status = "accepted", !.ask = bid, !.chosen = 0], "put")
               /\ UNCHANGED trail
            \/ /\ bid < Least(ask, minimum) /\ Exhausted(s)
               /\ Keeps(r, [s EXCEPT !.status = "declined"], "put")
               /\ UNCHANGED trail
            \/ /\ bid < Least(ask, minimum) /\ ~Exhausted(s)
               /\ Strategist(r, s, bid, held)
    /\ UNCHANGED <<funded, moves, most, stored, overlapped>>

\* The write takes effect, its answer arriving or not, or it fails.
Put(r) ==
    /\ at[r] = "put"
    /\ stored' \in {stored, copy[r]}
    /\ Ends(r)
    /\ UNCHANGED <<funded, moves, most, trail, overlapped>>

\* The session's time in the store is over.
Expire ==
    /\ stored # None
    /\ stored' = None
    /\ UNCHANGED <<funded, moves, most, requestVars, trail, overlapped>>

\* The buyer's orders, and with them the campaign that funds a discount, change.
FundingMoves ==
    /\ moves < MaxMoves
    /\ moves' = moves + 1
    /\ funded' \in Percentages \ {funded}
    /\ most' = IF Quoted THEN Most(most, funded') ELSE None
    /\ UNCHANGED <<stored, requestVars, trail, overlapped>>

NegotiationNext ==
    \/ Propose \/ Expire \/ FundingMoves
    \/ \E r \in Requests : Load(r) \/ TurnedAway(r) \/ Answer(r) \/ Put(r)

NegotiationSpec == NegotiationInit /\ [][NegotiationNext]_negotiationVars

-----------------------------------------------------------------------------
\* Type invariant: no copy of a session goes past its last round or stands at no amount.
NegTypeOK ==
    /\ funded \in Percentages /\ most \in Percentages \cup {None} /\ moves \in 0..MaxMoves
    /\ at \in [Requests -> {"waiting", "loaded", "put", "ended"}]
    /\ stored \in Session \cup {None} /\ copy \in [Requests -> Session \cup {None}]
    /\ \A x \in trail : x > 0
    /\ overlapped \in BOOLEAN

\* fulfill_wallet_order's own bound, worked out apart from the shop's and at another
\* time: the least it takes from a buyer funded for pct, the attached goods left out.
WalletMinimum(pct) == Most(Cost * Qty, Base - Share(Base, pct))

\* Whatever the shop agrees to, over any rounds, the wallet would settle at some discount
\* the buyer was funded for since the quote: the shop never promises a price (a floor of
\* the whole basket, from an entitlement read apart) that the database always refuses.
WhatTheShopAgreesTheWalletSettles ==
    (/\ stored # None
     /\ stored.status = "accepted" /\ stored.ask < Base) => stored.ask >= WalletMinimum(most)

\* A session accepted or declined is never written over, unless requests on it overlapped.
ClosedUnlessOverlapped ==
    [][(stored # None /\ stored' # None /\ stored.status # "countered" /\ stored' # stored)
       => overlapped]_negotiationVars

\* One request after another, the amount a session stands at never rises, in a counter or
\* in a deal, but to a floor worked out anew: meeting the ask with more settles at the
\* ask, and no word of the model's goes above it.
AskRisesOnlyToTheFloor ==
    [][(stored # None /\ stored' # None /\ stored'.ask > stored.ask /\ ~overlapped)
       => stored'.ask = stored'.floor]_negotiationVars

\* An ask the shop's model chose is on the trail before the buyer can see it, as the model
\* chose it: the ask itself, or less when a floor above the ask then raised it.
ModelPriceIsExplained ==
    (stored # None /\ stored.chosen # 0) => stored.chosen \in trail /\ stored.chosen <= stored.ask

\* README.md:74 "Never below blended cost", policy.go:122 "The orchestrator never goes below
\* it": no deal is made below the cost of the product and of the goods attached to it.
NeverBelowBlendedCost ==
    (stored # None /\ stored.status = "accepted")
    => stored.ask >= Cost * Qty + (IF stored.bundled > 0 THEN PartnerShare ELSE 0)
=============================================================================
