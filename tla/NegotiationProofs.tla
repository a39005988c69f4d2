------------------------- MODULE NegotiationProofs -------------------------
(***************************************************************************)
(* What holds of a negotiated deal for every price, cost, bundle, discount, *)
(* observation, bid and answer of the shop's model, and for any number of   *)
(* requests that overlap as they may.                                       *)
(***************************************************************************)
EXTENDS Negotiation, TLAPS

-----------------------------------------------------------------------------
\* A share of a natural number is no more than the number.
LEMMA ShareOfNat ==
    ASSUME NEW a \in Nat, NEW p \in 0..100
    PROVE  Share(a, p) \in 0..a
<1>1. a * p \in 0..(a * 100)
  <2>1. a * p \in Nat
    OBVIOUS
  <2>2. a * (100 - p) \in Nat
    OBVIOUS
  <2>3. a * 100 = a * p + a * (100 - p)
    OBVIOUS
  <2> QED
    BY <2>1, <2>2, <2>3
<1>2. (a * p) \div 100 \in 0..a
  BY <1>1
<1> QED
  BY <1>2 DEF Share

\* A share of a debt is a part of the debt.
LEMMA ShareOfDebt ==
    ASSUME NEW a \in Int, a < 0, NEW p \in 0..100
    PROVE  Share(a, p) \in a..0
<1>1. -a \in Nat /\ Share(-a, p) \in 0..(-a)
  <2>1. -a \in Nat
    OBVIOUS
  <2>2. \A c \in Nat : Share(c, p) \in 0..c
    BY ShareOfNat
  <2> QED
    BY <2>1, <2>2
<1>2. Share(-a, p) = (-a * p) \div 100
  BY <1>1 DEF Share
<1> QED
  BY <1>1, <1>2 DEF Share

\* What a larger discount leaves of a list total, attached goods apart, is no more than
\* what a smaller one leaves of the total with them.
LEMMA LargerDiscountLeavesLess ==
    ASSUME NEW a \in Nat, NEW b \in Nat, NEW p \in 0..100, NEW q \in 0..100, p <= q
    PROVE  a - Share(a, q) <= (a + b) - Share(a + b, p)
<1>1. a * p <= a * q
  <2>1. a * (q - p) \in Nat
    OBVIOUS
  <2>2. a * q = a * p + a * (q - p)
    OBVIOUS
  <2> QED
    BY <2>1, <2>2
<1>2. b * p <= b * 100
  <2>1. b * (100 - p) \in Nat
    OBVIOUS
  <2>2. b * 100 = b * p + b * (100 - p)
    OBVIOUS
  <2> QED
    BY <2>1, <2>2
<1>3. (a + b) * p = a * p + b * p
  OBVIOUS
<1> DEFINE x == a * q  y == (a + b) * p
<1>4. x \in Nat /\ y \in Nat /\ y <= x + b * 100
  BY <1>1, <1>2, <1>3
<1>5. y \div 100 <= x \div 100 + b
  <2> HIDE DEF x, y
  <2> QED
    BY <1>4
<1>6. Share(a, q) = x \div 100 /\ Share(a + b, p) = y \div 100
  BY DEF Share
<1>7. x \div 100 \in Int /\ y \div 100 \in Int
  BY <1>4
<1> QED
  BY <1>5, <1>6, <1>7

\* The amounts the constants come to.
LEMMA Amounts ==
    /\ Base \in Nat \ {0} /\ Bundled \in Nat /\ PartnerShare \in Nat
    /\ Cost * Qty \in Nat
    /\ \A read \in BOOLEAN : FloorFor(read) \in Nat /\ FloorFor(read) >= Cost * Qty
    /\ Percentages \subseteq 0..99 /\ None \notin Percentages
    /\ \A bid \in Bids : bid \in Nat \ {0}
    /\ \A p \in Proposals : p \in Int
<1>1. Price \in Nat \ {0} /\ Qty \in Nat \ {0} /\ Cost \in Nat
  BY NegotiationAssumption
<1>2. Price * Qty \in Nat \ {0} /\ Cost * Qty \in Nat
  <2>1. Price * Qty \in Int /\ Cost * Qty \in Nat
    BY <1>1
  <2>2. Price * Qty >= 1
    <3>1. (Price - 1) * Qty \in Nat /\ Price * Qty = (Price - 1) * Qty + Qty
      BY <1>1
    <3> QED
      BY <1>1, <2>1, <3>1
  <2> QED
    BY <2>1, <2>2
<1>3. ComboPct \in 0..99 /\ PartnerPrice \in Nat /\ PartnerCost \in Nat
  BY NegotiationAssumption
<1>4. PartnerPrice * (100 - ComboPct) \in Nat /\ PartnerCost * (100 - ComboPct) \in Nat
  BY <1>3
<1>5. (PartnerPrice * (100 - ComboPct)) \div 100 \in Nat /\ (PartnerCost * (100 - ComboPct)) \div 100 \in Nat
  BY <1>4
<1>6. Bundled \in Nat /\ PartnerShare \in Nat
  BY <1>1, <1>5 DEF Bundled, PartnerShare
<1>7. ASSUME NEW read \in BOOLEAN PROVE FloorFor(read) \in Nat /\ FloorFor(read) >= Cost * Qty
  BY <1>2, <1>6 DEF FloorFor
<1> QED
  BY <1>2, <1>6, <1>7, NegotiationAssumption DEF Base

\* An opening ask is never below the list total.
LEMMA OpeningAskCoversList ==
    ASSUME NEW seen \in Observations, NEW b \in Nat
    PROVE  OpeningAsk(seen, b) \in Nat /\ OpeningAsk(seen, b) >= Base
<1>1. seen.refundRate \in Nat \cup {None} /\ seen.sold \in Nat
  BY NegotiationAssumption
<1>2. WarrantyYears \in Nat /\ TrustScore \in Nat
  BY NegotiationAssumption
<1> DEFINE cover == IF seen.refundRate = None THEN 0
                    ELSE (Least(WarrantyYears * 150, 600) * Most(100 - seen.refundRate, 0)) \div 100
           trust == Most(0, Least((TrustScore - 80) * 10, 300))
           scarcity == IF seen.cover # None /\ seen.cover \in 0..7 /\ seen.sold > 0 THEN 300 ELSE 0
<1>3. cover \in Nat
  <2>1. CASE seen.refundRate = None
    BY <2>1
  <2>2. CASE seen.refundRate # None
    <3>1. Least(WarrantyYears * 150, 600) \in Nat /\ Most(100 - seen.refundRate, 0) \in Nat
      BY <1>1, <1>2, <2>2 DEF Least, Most
    <3>2. ASSUME NEW x \in Nat, NEW y \in Nat PROVE (x * y) \div 100 \in Nat
      <4>1. x * y \in Nat
        OBVIOUS
      <4> QED
        BY <4>1
    <3> QED
      BY <2>2, <3>1, <3>2
  <2> QED
    BY <2>1, <2>2
<1>4. trust \in Nat /\ scarcity \in Nat
  BY <1>2 DEF Least, Most
<1>5. UpliftBps(seen) \in Nat
  <2>1. UpliftBps(seen) = Least(cover + trust + scarcity, 1200)
    BY DEF UpliftBps
  <2> HIDE DEF cover, trust, scarcity
  <2> QED
    BY <1>3, <1>4, <2>1 DEF Least
<1>6. (Base * UpliftBps(seen)) \div 10000 \in Nat
  <2>1. Base * UpliftBps(seen) \in Nat
    BY <1>5, Amounts
  <2> QED
    BY <2>1
<1> QED
  BY <1>6, Amounts DEF OpeningAsk

-----------------------------------------------------------------------------
\* What the store and the requests hold: a session stands at no less than the list total or
\* what the wallet settles for, and what its model chose is on the trail.
Sound(s) ==
    s # None => /\ s.ask >= Base \/ s.ask >= WalletMinimum(most)
                /\ s.chosen # 0 => s.chosen \in trail /\ s.chosen <= s.ask
DealsAreSound == Sound(stored) /\ \A r \in Requests : Sound(copy[r])

\* A session is in hand from its quote on; and while no requests overlapped, one at most is
\* under way, and what it holds is the open session in the store, or what becomes of it.
InHand ==
    /\ ~Quoted => stored = None /\ \A r \in Requests : at[r] = "waiting" /\ copy[r] = None
    /\ Quoted => funded <= most
    /\ \A r \in Requests : UnderWay(r) => copy[r] # None
OneAtATime ==
    ~overlapped =>
        /\ \A q, r \in Requests : UnderWay(q) /\ UnderWay(r) => q = r
        /\ \A r \in Requests : (UnderWay(r) /\ stored # None) =>
               /\ stored.status = "countered"
               /\ at[r] = "loaded" => copy[r] = stored
               /\ copy[r].ask <= stored.ask \/ copy[r].ask = copy[r].floor
NegInv == DealsAreSound /\ InHand /\ OneAtATime

\* The wallet's own minimum is an amount, and no more than what the shop's floor leaves
\* a buyer funded for as much or less.
LEMMA FloorCoversWallet ==
    ASSUME NEW pct \in Percentages \cup {0}, NEW top \in Percentages, pct <= top,
           NEW b \in Nat, NEW read \in BOOLEAN
    PROVE  /\ WalletMinimum(top) \in Int
           /\ EntitledFloor(FloorFor(read), Base + b, pct) \in Nat
           /\ EntitledFloor(FloorFor(read), Base + b, pct) >= WalletMinimum(top)
<1>1. pct \in 0..100 /\ top \in 0..100 /\ Base \in Nat /\ Cost * Qty \in Nat
  BY Amounts
<1>2. Base - Share(Base, top) <= (Base + b) - Share(Base + b, pct)
  BY <1>1, LargerDiscountLeavesLess
<1>3. Share(Base, top) \in 0..Base /\ Share(Base + b, pct) \in 0..(Base + b)
  <2>1. Base + b \in Nat
    BY <1>1
  <2> QED
    BY <1>1, <2>1, ShareOfNat
<1>4. FloorFor(read) \in Nat /\ FloorFor(read) >= Cost * Qty
  BY Amounts
<1> QED
  BY <1>1, <1>2, <1>3, <1>4 DEF WalletMinimum, EntitledFloor, Most

\* A wallet that may fund more settles for no more than before.
LEMMA WalletMinimumFalls ==
    ASSUME NEW p \in Percentages, NEW q \in Percentages, p <= q
    PROVE  WalletMinimum(q) \in Int /\ WalletMinimum(p) \in Int /\ WalletMinimum(q) <= WalletMinimum(p)
<1>1. p \in 0..100 /\ q \in 0..100 /\ Base \in Nat /\ Cost * Qty \in Nat
  BY Amounts
<1>2. Base - Share(Base, q) <= (Base + 0) - Share(Base + 0, p) /\ Base + 0 = Base
  <2>1. 0 \in Nat /\ Base + 0 = Base
    BY <1>1
  <2>2. Base - Share(Base, q) <= (Base + 0) - Share(Base + 0, p)
    BY <1>1, <2>1, LargerDiscountLeavesLess, Zenon
  <2> QED
    BY <2>1, <2>2
<1>3. Share(Base, p) \in 0..Base /\ Share(Base, q) \in 0..Base
  BY <1>1, ShareOfNat
<1> QED
  BY <1>1, <1>2, <1>3 DEF WalletMinimum, Most

\* What the shop still demands lies between the floor and the ask.
LEMMA MinimumLiesBetween ==
    ASSUME NEW s \in Session, NEW floor \in Nat
    PROVE  LET m == MinimumOf(s, floor) IN
           /\ m \in Int
           /\ floor <= s.ask => floor <= m /\ m <= s.ask
           /\ floor > s.ask => s.ask <= m /\ m <= floor
<1>1. s.ask \in Nat /\ s.round \in 1..3
  BY DEF Session, MaxRounds
<1>2. Schedule[Least(s.round, MaxRounds)] \in 0..100
  <2>1. Least(s.round, MaxRounds) \in 1..3
    BY <1>1 DEF Least, MaxRounds
  <2> QED
    BY <2>1 DEF Schedule
<1> DEFINE pct == Schedule[Least(s.round, MaxRounds)]  gap == s.ask - floor
<1>3. gap \in Int
  BY <1>1
<1>4. gap >= 0 => Share(gap, pct) \in 0..gap
  <2>1. \A a \in Nat : Share(a, pct) \in 0..a
    BY <1>2, ShareOfNat
  <2> QED
    BY <1>3, <2>1
<1>5. gap < 0 => Share(gap, pct) \in gap..0
  <2>1. \A a \in Int : a < 0 => Share(a, pct) \in a..0
    BY <1>2, ShareOfDebt
  <2> QED
    BY <1>3, <2>1
<1> HIDE DEF pct
<1>6. Share(gap, pct) \in Int
  BY <1>3, <1>4, <1>5
<1>7. MinimumOf(s, floor) = floor + Share(gap, pct)
  BY DEF MinimumOf, pct
<1> QED
  BY <1>1, <1>3, <1>4, <1>5, <1>6, <1>7

\* Half the way from a bid to a higher minimum is on that way.
LEMMA HalfWay ==
    ASSUME NEW bid \in Nat, NEW minimum \in Int, bid < minimum
    PROVE  /\ Share(minimum - bid, 50) \in Int
           /\ bid + Share(minimum - bid, 50) >= bid
           /\ bid + Share(minimum - bid, 50) <= minimum
<1>1. minimum - bid \in Nat
  OBVIOUS
<1>2. Share(minimum - bid, 50) \in 0..(minimum - bid)
  BY <1>1, ShareOfNat
<1> QED
  BY <1>2

-----------------------------------------------------------------------------
\* What a counter makes of its copy of the session.
Becomes(s, t) ==
    /\ t \in Session /\ t.bundled = s.bundled
    /\ t.ask = s.ask \/ t.ask >= WalletMinimum(most)
    /\ t.ask <= s.ask \/ t.ask = t.floor
    /\ (t.ask = s.ask /\ t.chosen = s.chosen) \/ (t.chosen # 0 => t.chosen \in trail' /\ t.chosen <= t.ask)

\* The session a counter works on, its floor worked out anew.
LEMMA Refloored ==
    ASSUME NEW s \in Session, NEW floor \in Nat
    PROVE  LET t == [s EXCEPT !.floor = floor] IN
           /\ t \in Session /\ t.floor = floor
           /\ t.ask = s.ask /\ t.bundled = s.bundled /\ t.named = s.named
           /\ t.status = s.status /\ t.round = s.round /\ t.chosen = s.chosen
  BY DEF Session

\* Whatever the buyer bids and the model answers, what is written back is in order.
LEMMA AnswerGives ==
    ASSUME NegTypeOK, Quoted, NEW r \in Requests, Answer(r), copy[r] # None,
           funded <= most
    PROVE  \E t : Keeps(r, t, "put") /\ Becomes(copy[r], t) /\ trail \subseteq trail'
                  /\ \A x \in trail' : x > 0
<1>1. copy[r] \in Session
  BY DEF NegTypeOK
<1> DEFINE s0 == copy[r]
<1>2. /\ s0.ask \in Nat \ {0} /\ s0.bundled \in Nat
      /\ s0.round \in 1..3 /\ s0.chosen \in Nat
  <2> HIDE DEF s0
  <2>1. \A s \in Session : s.ask \in Nat \ {0} /\ s.bundled \in Nat
                             /\ s.round \in 1..MaxRounds /\ s.chosen \in Nat
    BY DEF Session
  <2>2. s0 \in Session
    BY <1>1 DEF s0
  <2> QED
    BY <2>1, <2>2 DEF MaxRounds
<1>3. PICK bid \in Bids, pct \in {0, IF copy[r].named THEN funded ELSE 0}, partnerRead \in BOOLEAN :
        LET ask == copy[r].ask
            floor == EntitledFloor(FloorFor(partnerRead), Base + copy[r].bundled, pct)
            s == [copy[r] EXCEPT !.floor = floor]
            minimum == MinimumOf(s, floor)
            held == Most(floor, bid + Share(minimum - bid, 50))
        IN  \/ /\ bid >= ask
               /\ Keeps(r, MeetsAsk(s, bid), "put")
               /\ UNCHANGED trail
            \/ /\ minimum <= bid /\ bid < ask
               /\ Keeps(r, [s EXCEPT !.status = "accepted", !.ask = bid, !.chosen = 0], "put")
               /\ UNCHANGED trail
            \/ /\ bid < Least(ask, minimum) /\ Exhausted(s)
               /\ Keeps(r, [s EXCEPT !.status = "declined"], "put")
               /\ UNCHANGED trail
            \/ /\ bid < Least(ask, minimum) /\ ~Exhausted(s)
               /\ Strategist(r, s, bid, held)
  BY DEF Answer
<1> DEFINE floor == EntitledFloor(FloorFor(partnerRead), Base + copy[r].bundled, pct)
           s == [copy[r] EXCEPT !.floor = floor]
           minimum == MinimumOf(s, floor)
           held == Most(floor, bid + Share(minimum - bid, 50))
<1>4. most \in Percentages /\ most \in Nat /\ bid \in Nat \ {0}
  BY Amounts DEF NegTypeOK, Quoted
<1>5. pct \in Percentages \cup {0} /\ pct <= most
  <2>1. funded \in Percentages /\ funded <= most
    BY DEF NegTypeOK
  <2> QED
    BY <1>4, <2>1
<1>6. WalletMinimum(most) \in Int /\ floor \in Nat /\ floor >= WalletMinimum(most)
  BY <1>2, <1>4, <1>5, FloorCoversWallet
<1> HIDE DEF floor
<1>7. /\ s \in Session /\ s.floor = floor /\ s.ask = s0.ask /\ s.bundled = s0.bundled
      /\ s.round = s0.round /\ s.chosen = s0.chosen
  BY <1>1, <1>6, Refloored
<1> HIDE DEF s
<1>8. /\ minimum \in Int
      /\ floor <= s.ask => floor <= minimum /\ minimum <= s.ask
      /\ floor > s.ask => s.ask <= minimum /\ minimum <= floor
  BY <1>6, <1>7, MinimumLiesBetween
<1> HIDE DEF minimum
<1>9. \A x \in trail : x > 0
  BY DEF NegTypeOK
<1>10. CASE bid >= s0.ask /\ Keeps(r, MeetsAsk(s, bid), "put") /\ UNCHANGED trail
  <2>1. Becomes(s0, MeetsAsk(s, bid))
    <3> DEFINE t == [s EXCEPT !.status = "accepted"]
    <3>1. t \in Session /\ t.bundled = s.bundled /\ t.ask = s.ask /\ t.chosen = s.chosen
      BY <1>7 DEF Session
    <3>2. MeetsAsk(s, bid) = t
      BY DEF MeetsAsk
    <3> HIDE DEF t
    <3> QED
      BY <1>2, <1>7, <3>1, <3>2 DEF Becomes
  <2> QED
    BY <1>9, <1>10, <2>1
<1>11. CASE /\ minimum <= bid /\ bid < s0.ask /\ UNCHANGED trail
            /\ Keeps(r, [s EXCEPT !.status = "accepted", !.ask = bid, !.chosen = 0], "put")
  <2> DEFINE t == [s EXCEPT !.status = "accepted", !.ask = bid, !.chosen = 0]
  <2>1. t \in Session /\ t.bundled = s.bundled /\ t.ask = bid /\ t.chosen = 0
    BY <1>4, <1>7 DEF Session
  <2>2. bid >= WalletMinimum(most) /\ bid <= s0.ask
    BY <1>2, <1>4, <1>6, <1>7, <1>8, <1>11
  <2> HIDE DEF t
  <2>3. Becomes(s0, t)
    BY <1>7, <2>1, <2>2 DEF Becomes
  <2> QED
    BY <1>9, <1>11, <2>3 DEF t
<1>12. CASE Keeps(r, [s EXCEPT !.status = "declined"], "put") /\ UNCHANGED trail
  <2> DEFINE t == [s EXCEPT !.status = "declined"]
  <2>1. t \in Session /\ t.bundled = s.bundled /\ t.ask = s.ask /\ t.chosen = s.chosen
    BY <1>7 DEF Session
  <2> HIDE DEF t
  <2>2. Becomes(s0, t)
    BY <1>2, <1>7, <2>1 DEF Becomes
  <2> QED
    BY <1>9, <1>12, <2>2 DEF t
<1>13. CASE bid < Least(s0.ask, minimum) /\ ~Exhausted(s) /\ Strategist(r, s, bid, held)
  <2>1. bid < s0.ask /\ bid < minimum
    BY <1>2, <1>4, <1>8, <1>13 DEF Least
  <2>2. s.round + 1 \in 1..MaxRounds
    BY <1>2, <1>7, <1>13 DEF Exhausted, MaxRounds
  <2>3. /\ held \in Nat \ {0} /\ held >= floor
        /\ held <= s0.ask \/ held = floor
    <3>1. /\ bid + Share(minimum - bid, 50) \in Int /\ bid + Share(minimum - bid, 50) >= bid
          /\ bid + Share(minimum - bid, 50) <= minimum
      BY <1>4, <1>8, <2>1, HalfWay
    <3> QED
      BY <1>2, <1>4, <1>6, <1>7, <1>8, <3>1 DEF Most
  <2> HIDE DEF held
  <2>4. ASSUME NEW amount \in Nat \ {0}, NEW chosen \in Nat, Countered(r, s, amount, chosen),
               amount >= floor, amount <= s0.ask \/ amount = floor,
               chosen # 0 => chosen \in trail' /\ chosen <= amount
        PROVE  \E t : Keeps(r, t, "put") /\ Becomes(s0, t)
    <3> DEFINE t == [s EXCEPT !.ask = amount, !.round = @ + 1, !.chosen = chosen]
    <3>1. /\ t \in Session /\ t.bundled = s.bundled /\ t.ask = amount /\ t.chosen = chosen
          /\ t.floor = s.floor
      BY <1>7, <2>2, <2>4 DEF Session
    <3>2. Keeps(r, t, "put")
      BY <2>4 DEF Countered
    <3> HIDE DEF t
    <3>3. amount >= WalletMinimum(most)
      BY <1>6, <2>4
    <3>4. Becomes(s0, t)
      BY <1>7, <2>4, <3>1, <3>3 DEF Becomes
    <3> QED
      BY <3>2, <3>4
  <2>5. PICK p \in Proposals :
          LET x == ClampToRails(p, s.floor, bid, held, copy[r].ask)
          IN  \/ /\ trail' = trail \cup {x}
                 /\ Countered(r, s, ClampCounter(x, Most(s.floor, bid), copy[r].ask), x)
              \/ /\ trail' \in {trail, trail \cup {x}}
                 /\ Countered(r, s, held, 0)
    BY <1>13 DEF Strategist
  <2> DEFINE x == ClampToRails(p, s.floor, bid, held, copy[r].ask)
             y == ClampCounter(x, Most(s.floor, bid), copy[r].ask)
  <2>6. /\ x \in Nat \ {0} /\ x <= s0.ask /\ x <= y
        /\ y \in Nat \ {0} /\ y >= floor /\ (y <= s0.ask \/ y = floor)
    <3>1. p \in Int
      BY Amounts
    <3>2. held \in Int /\ s.floor \in Nat /\ copy[r].ask \in Nat \ {0} /\ bid < copy[r].ask
      BY <1>2, <1>6, <1>7, <2>1, <2>3
    <3>3. x = ClampToRails(p, s.floor, bid, held, copy[r].ask)
      BY DEF x
    <3>4. y = ClampCounter(x, Most(s.floor, bid), copy[r].ask)
      BY DEF y
    <3> HIDE DEF x, y
    <3>5. /\ x \in Nat \ {0} /\ x <= copy[r].ask /\ x <= y
          /\ y \in Nat \ {0} /\ y >= s.floor /\ (y <= copy[r].ask \/ y = s.floor)
      BY <1>4, <1>6, <1>7, <3>1, <3>2, <3>3, <3>4 DEF ClampToRails, ClampCounter, Most, Least
    <3> QED
      BY <1>7, <3>5
  <2> HIDE DEF x, y
  <2>7. trail' \in {trail, trail \cup {x}} /\ \A z \in trail' : z > 0
    BY <1>9, <2>5, <2>6 DEF x
  <2>8. CASE trail' = trail \cup {x} /\ Countered(r, s, y, x)
    <3>1. \E t : Keeps(r, t, "put") /\ Becomes(s0, t)
      BY <2>4, <2>6, <2>8
    <3> QED
      BY <2>7, <3>1
  <2>9. CASE Countered(r, s, held, 0)
    <3>1. \E t : Keeps(r, t, "put") /\ Becomes(s0, t)
      BY <2>3, <2>4, <2>9
    <3> QED
      BY <2>7, <3>1
  <2> QED
    BY <2>5, <2>8, <2>9 DEF x, y
<1> QED
  BY <1>3, <1>10, <1>11, <1>12, <1>13 DEF floor, s, minimum

-----------------------------------------------------------------------------
\* What was sound stays so while the discount only grows, and the trail with it.
LEMMA SoundStays ==
    ASSUME NegTypeOK, most' \in Percentages, Quoted => most <= most', trail \subseteq trail',
           NEW s \in Session, Quoted, Sound(s), None \notin Session
    PROVE  /\ s.ask >= Base \/ s.ask >= WalletMinimum(most')
           /\ s.chosen # 0 => s.chosen \in trail' /\ s.chosen <= s.ask
<1>1. most \in Percentages
  BY DEF NegTypeOK, Quoted
<1>2. WalletMinimum(most') <= WalletMinimum(most) /\ {WalletMinimum(most), WalletMinimum(most')} \subseteq Int
  BY <1>1, WalletMinimumFalls
<1>3. s.ask \in Nat /\ Base \in Nat
  BY Amounts DEF Session
<1> QED
  BY <1>2, <1>3 DEF Sound

-----------------------------------------------------------------------------
\* A deal that is quoted first stands at its opening ask.
LEMMA InitHolds == NegotiationInit => NegTypeOK /\ NegInv
<1> SUFFICES ASSUME NegotiationInit PROVE NegTypeOK /\ NegInv
  OBVIOUS
<1>1. NegTypeOK
  <2>1. 0 \in 0..MaxMoves
    BY NegotiationAssumption
  <2> QED
    BY <2>1 DEF NegotiationInit, NegTypeOK
<1>2. DealsAreSound /\ InHand /\ OneAtATime
  BY DEF NegotiationInit, DealsAreSound, Sound, InHand, OneAtATime, Quoted, UnderWay
<1> QED
  BY <1>1, <1>2 DEF NegInv

\* The opening ask.
LEMMA ProposeKeeps == ASSUME NegTypeOK, NegInv, Propose PROVE NegTypeOK' /\ NegInv'
<1>1. PICK named \in BOOLEAN, seen \in Observations, attached \in {FALSE, ComboPct > 0} :
         stored' = [ask |-> OpeningAsk(seen, IF attached THEN Bundled ELSE 0),
                    bundled |-> IF attached THEN Bundled ELSE 0, named |-> named,
                    status |-> "countered", round |-> 1, floor |-> 0, chosen |-> 0]
  BY DEF Propose
<1> DEFINE b == IF attached THEN Bundled ELSE 0
<1>2. b \in {0, Bundled} /\ b \in Nat
  BY Amounts
<1>3. OpeningAsk(seen, b) \in Nat \ {0} /\ OpeningAsk(seen, b) >= Base
  BY <1>2, OpeningAskCoversList, Amounts
<1>4. stored' \in Session /\ stored'.ask >= Base /\ stored'.chosen = 0 /\ stored'.status = "countered"
  <2> HIDE DEF b
  <2>1. stored' = [ask |-> OpeningAsk(seen, b), bundled |-> b, named |-> named,
                   status |-> "countered", round |-> 1, floor |-> 0, chosen |-> 0]
    BY <1>1 DEF b
  <2> QED
    BY <1>2, <1>3, <2>1 DEF Session, MaxRounds
<1>5. /\ stored = None /\ most' = funded /\ funded \in Percentages
      /\ UNCHANGED <<funded, moves, at, copy, trail, overlapped>>
      /\ \A r \in Requests : at[r] = "waiting"
  BY DEF Propose, NegInv, InHand, NegTypeOK, requestVars
<1>6. most' # None
  BY <1>5, Amounts
<1>7. NegTypeOK'
  BY <1>4, <1>5 DEF NegTypeOK
<1>8. InHand' /\ OneAtATime'
  <2>1. funded <= funded
    BY <1>5, Amounts
  <2> QED
    BY <1>5, <1>6, <2>1 DEF InHand, OneAtATime, Quoted, UnderWay
<1>9. DealsAreSound'
  <2>1. ASSUME NEW r \in Requests PROVE Sound(copy[r])'
    \* Before the quote no request holds a session.
    <3>1. copy[r] = None
      BY <1>5 DEF NegInv, InHand, Propose
    <3> QED
      BY <1>5, <3>1 DEF Sound
  <2> QED
    BY <1>4, <2>1 DEF DealsAreSound, Sound
<1> QED
  BY <1>7, <1>8, <1>9 DEF NegInv

-----------------------------------------------------------------------------
\* A request that takes a session up, or hands on what it made of it: what it holds is a
\* session in order, and the store is as it was.
LEMMA HandKeeps ==
    ASSUME NegTypeOK, NegInv, Quoted, NEW r \in Requests, NEW step, NEW t,
           t \in Session, Keeps(r, t, step), step \in {"loaded", "put"},
           UNCHANGED <<funded, moves, most, stored>>,
           trail \subseteq trail', \A x \in trail' : x > 0, overlapped' \in BOOLEAN,
           Sound(t)',
           overlapped => overlapped',
           ~overlapped' =>
               /\ \A q \in Requests \ {r} : ~UnderWay(q)
               /\ stored # None =>
                    /\ stored.status = "countered"
                    /\ step = "loaded" => t = stored
                    /\ t.ask <= stored.ask \/ t.ask = t.floor
    PROVE  NegTypeOK' /\ NegInv'
<1>1. /\ at' = [at EXCEPT ![r] = step] /\ copy' = [copy EXCEPT ![r] = t]
      /\ at \in [Requests -> {"waiting", "loaded", "put", "ended"}]
      /\ copy \in [Requests -> Session \cup {None}]
  BY DEF Keeps, GoesTo, NegTypeOK
<1>2. /\ at'[r] = step /\ copy'[r] = t
      /\ \A q \in Requests \ {r} : at'[q] = at[q] /\ copy'[q] = copy[q]
  BY <1>1
<1>3. NegTypeOK'
  BY <1>1 DEF NegTypeOK
<1>4. InHand'
  BY <1>2, NegotiationAssumption DEF NegInv, InHand, Quoted, UnderWay
<1>5. OneAtATime'
  <2> SUFFICES ASSUME ~overlapped' PROVE OneAtATime'
    BY DEF OneAtATime
  <2>1. \A q \in Requests \ {r} : ~UnderWay(q)'
    BY <1>2 DEF UnderWay
  <2> QED
    BY <1>2, <2>1 DEF OneAtATime
<1>6. DealsAreSound'
  <2>1. most \in Percentages /\ most <= most'
    BY Amounts DEF NegTypeOK, Quoted
  <2>2. ASSUME NEW u \in Session \cup {None}, Sound(u) PROVE u # None =>
           /\ u.ask >= Base \/ u.ask >= WalletMinimum(most)
           /\ u.chosen # 0 => u.chosen \in trail' /\ u.chosen <= u.ask
    BY <2>2 DEF Sound
  <2>3. ASSUME NEW q \in Requests \ {r} PROVE Sound(copy[q])'
    <3>1. copy[q] \in Session \cup {None} /\ Sound(copy[q])
      BY <1>1 DEF NegInv, DealsAreSound
    <3> QED
      BY <1>2, <2>2, <3>1 DEF Sound
  <2>4. Sound(stored)'
    <3>1. stored \in Session \cup {None} /\ Sound(stored)
      BY DEF NegTypeOK, NegInv, DealsAreSound
    <3> QED
      BY <2>2, <3>1 DEF Sound
  <2>5. Sound(copy[r])'
    BY <1>2 DEF Sound
  <2> QED
    BY <2>3, <2>4, <2>5 DEF DealsAreSound
<1> QED
  BY <1>3, <1>4, <1>5, <1>6 DEF NegInv

\* A request takes up the session in the store.
LEMMA LoadKeeps == ASSUME NegTypeOK, NegInv, NEW r \in Requests, Load(r) PROVE NegTypeOK' /\ NegInv'
<1>1. /\ at[r] = "waiting" /\ stored # None /\ stored.status = "countered"
      /\ UNCHANGED <<funded, moves, most, stored, trail>>
      /\ overlapped' = (overlapped \/ \E q \in Requests \ {r} : UnderWay(q))
  BY DEF Load, Open
<1>2. stored \in Session /\ Sound(stored) /\ overlapped \in BOOLEAN /\ \A x \in trail : x > 0
  BY <1>1 DEF NegTypeOK, NegInv, DealsAreSound
<1>3. Quoted
  BY <1>1 DEF NegInv, InHand
<1>4. ~overlapped' => \A q \in Requests \ {r} : ~UnderWay(q)
  BY <1>1
<1>5. CASE Keeps(r, stored, "loaded")
  <2>1. Sound(stored)'
    BY <1>1, <1>2 DEF Sound, WalletMinimum
  <2>2. stored.ask <= stored.ask
    BY <1>2 DEF Session
  <2> QED
    BY <1>1, <1>2, <1>3, <1>4, <1>5, <2>1, <2>2, HandKeeps
<1>6. ASSUME NEW outcome \in {"accepted", "declined"},
             Keeps(r, [stored EXCEPT !.status = outcome], "put")
      PROVE  NegTypeOK' /\ NegInv'
  <2> PICK t : t = [stored EXCEPT !.status = outcome]
    OBVIOUS
  <2>1. t \in Session /\ t.ask = stored.ask /\ t.chosen = stored.chosen /\ t.ask \in Nat
    BY <1>2 DEF Session
  <2>2. Keeps(r, t, "put")
    BY <1>6
  <2>3. Sound(t)'
    BY <1>1, <1>2, <2>1 DEF Sound, WalletMinimum
  <2>4. t.ask <= stored.ask
    BY <2>1
  <2> QED
    BY <1>1, <1>2, <1>3, <1>4, <2>1, <2>2, <2>3, <2>4, HandKeeps
<1> QED
  BY <1>5, <1>6 DEF Load

-----------------------------------------------------------------------------
\* A request that is over holds nothing.
LEMMA EndKeeps ==
    ASSUME NegTypeOK, NegInv, Quoted, NEW r \in Requests, Ends(r),
           UNCHANGED <<funded, moves, most, trail, overlapped>>,
           stored' = stored \/ (UnderWay(r) /\ stored' = copy[r])
    PROVE  NegTypeOK' /\ NegInv'
<1>1. /\ at' = [at EXCEPT ![r] = "ended"] /\ copy' = [copy EXCEPT ![r] = None]
      /\ at \in [Requests -> {"waiting", "loaded", "put", "ended"}]
      /\ copy \in [Requests -> Session \cup {None}]
      /\ stored \in Session \cup {None} /\ stored' \in Session \cup {None}
  BY DEF Ends, Keeps, GoesTo, NegTypeOK
<1>2. /\ at'[r] = "ended" /\ copy'[r] = None
      /\ \A q \in Requests \ {r} : at'[q] = at[q] /\ copy'[q] = copy[q]
  BY <1>1
<1>3. NegTypeOK'
  BY <1>1 DEF NegTypeOK
<1>4. InHand'
  BY <1>2 DEF NegInv, InHand, Quoted, UnderWay
<1>5. OneAtATime'
  <2> SUFFICES ASSUME ~overlapped PROVE OneAtATime'
    BY DEF OneAtATime
  <2>1. \A q \in Requests : UnderWay(q)' => q # r /\ UnderWay(q)
    BY <1>2 DEF UnderWay
  <2>2. \A q \in Requests : UnderWay(q)' => ~UnderWay(r)
    BY <2>1 DEF NegInv, OneAtATime
  <2>3. \A q \in Requests : UnderWay(q)' => stored' = stored /\ copy'[q] = copy[q] /\ at'[q] = at[q]
    BY <1>2, <2>1, <2>2
  <2> QED
    BY <2>1, <2>3 DEF NegInv, OneAtATime
<1>6. DealsAreSound'
  <2>1. UNCHANGED <<most, trail>>
    OBVIOUS
  <2>2. ASSUME NEW q \in Requests PROVE Sound(copy[q])'
    <3>1. copy'[q] = copy[q] \/ copy'[q] = None
      BY <1>2
    <3>2. Sound(copy[q])
      BY DEF NegInv, DealsAreSound
    <3> QED
      BY <2>1, <3>1, <3>2 DEF Sound, WalletMinimum
  <2>3. Sound(stored)'
    <3>1. Sound(copy[r]) /\ Sound(stored)
      BY DEF NegInv, DealsAreSound
    <3> QED
      BY <2>1, <3>1 DEF Sound, WalletMinimum
  <2> QED
    BY <2>2, <2>3 DEF DealsAreSound
<1> QED
  BY <1>3, <1>4, <1>5, <1>6 DEF NegInv

\* A counter is answered.
LEMMA AnswerKeeps == ASSUME NegTypeOK, NegInv, NEW r \in Requests, Answer(r) PROVE NegTypeOK' /\ NegInv'
<1>1. at[r] = "loaded" /\ UNCHANGED <<funded, moves, most, stored, overlapped>>
  BY DEF Answer
<1>2. copy[r] # None /\ Quoted /\ funded <= most
  BY <1>1 DEF NegInv, InHand, UnderWay
<1>3. PICK t : Keeps(r, t, "put") /\ Becomes(copy[r], t) /\ trail \subseteq trail' /\ \A x \in trail' : x > 0
  BY <1>2, AnswerGives
<1>4. copy[r] \in Session /\ Sound(copy[r]) /\ overlapped \in BOOLEAN
  BY <1>2 DEF NegTypeOK, NegInv, DealsAreSound
<1>5. t \in Session
  BY <1>3 DEF Becomes
<1>6. Sound(t)'
  <2>1. /\ copy[r].ask >= Base \/ copy[r].ask >= WalletMinimum(most)
        /\ copy[r].chosen # 0 => copy[r].chosen \in trail /\ copy[r].chosen <= copy[r].ask
    BY <1>2, <1>4 DEF Sound
  <2>2. WalletMinimum(most)' = WalletMinimum(most)
    BY <1>1 DEF WalletMinimum
  <2> QED
    BY <1>1, <1>3, <2>1, <2>2 DEF Sound, Becomes
<1>7. ~overlapped =>
        /\ \A q \in Requests \ {r} : ~UnderWay(q)
        /\ stored # None => /\ stored.status = "countered"
                            /\ copy[r] = stored
  BY <1>1 DEF NegInv, OneAtATime, UnderWay
<1>8. t.ask <= copy[r].ask \/ t.ask = t.floor
  BY <1>3 DEF Becomes
<1> QED
  BY <1>1, <1>2, <1>3, <1>4, <1>5, <1>6, <1>7, <1>8, HandKeeps

\* The record's time is over.
LEMMA ExpireKeeps == ASSUME NegTypeOK, NegInv, Expire PROVE NegTypeOK' /\ NegInv'
<1>1. stored # None /\ stored' = None /\ UNCHANGED <<funded, moves, most, at, copy, trail, overlapped>>
  BY DEF Expire, requestVars
<1>2. NegTypeOK'
  BY <1>1 DEF NegTypeOK
<1>3. InHand' /\ OneAtATime'
  BY <1>1 DEF NegInv, InHand, OneAtATime, Quoted, UnderWay
<1>4. DealsAreSound'
  BY <1>1 DEF NegInv, DealsAreSound, Sound, WalletMinimum
<1> QED
  BY <1>2, <1>3, <1>4 DEF NegInv

\* The discount moves: what was settled for may be settled for still.
LEMMA FundingKeeps == ASSUME NegTypeOK, NegInv, FundingMoves PROVE NegTypeOK' /\ NegInv'
<1>1. /\ moves < MaxMoves /\ moves' = moves + 1 /\ funded' \in Percentages
      /\ most' = IF Quoted THEN Most(most, funded') ELSE None
      /\ UNCHANGED <<stored, at, copy, trail, overlapped>>
  BY DEF FundingMoves, requestVars
<1>2. Quoted => /\ most \in Percentages /\ most' \in Percentages
                /\ most <= most' /\ funded' <= most'
  BY <1>1, Amounts DEF NegTypeOK, Quoted, Most
<1>3. Quoted' <=> Quoted
  BY <1>1, <1>2, Amounts DEF Quoted
<1>4. NegTypeOK'
  <2>1. moves' \in 0..MaxMoves /\ most' \in Percentages \cup {None}
    BY <1>1, <1>2, NegotiationAssumption DEF NegTypeOK
  <2> QED
    BY <1>1, <2>1 DEF NegTypeOK
<1>5. InHand' /\ OneAtATime'
  BY <1>1, <1>2, <1>3 DEF NegInv, InHand, OneAtATime, UnderWay
<1>6. DealsAreSound'
  <2>1. CASE ~Quoted
    <3>1. stored = None /\ \A r \in Requests : copy[r] = None
      BY <2>1 DEF NegInv, InHand
    <3> QED
      BY <1>1, <3>1 DEF DealsAreSound, Sound
  <2>2. CASE Quoted
    <3>1. ASSUME NEW s \in Session \cup {None}, Sound(s), s # None
          PROVE  /\ s.ask >= Base \/ s.ask >= WalletMinimum(most')
                 /\ s.chosen # 0 => s.chosen \in trail' /\ s.chosen <= s.ask
      BY <1>1, <1>2, <2>2, <3>1, SoundStays, NegotiationAssumption
    <3>2. stored \in Session \cup {None} /\ Sound(stored)
      BY DEF NegTypeOK, NegInv, DealsAreSound
    <3>3. \A r \in Requests : copy[r] \in Session \cup {None} /\ Sound(copy[r])
      BY DEF NegTypeOK, NegInv, DealsAreSound
    <3>4. Sound(stored)'
      BY <1>1, <3>1, <3>2 DEF Sound
    <3>5. \A r \in Requests : Sound(copy[r])'
      BY <1>1, <3>1, <3>3 DEF Sound
    <3> QED
      BY <3>4, <3>5 DEF DealsAreSound
  <2> QED
    BY <2>1, <2>2
<1> QED
  BY <1>4, <1>5, <1>6 DEF NegInv

\* Nothing happens.
LEMMA StandsStill == ASSUME NegTypeOK, NegInv, UNCHANGED negotiationVars PROVE NegTypeOK' /\ NegInv'
<1>1. UNCHANGED <<funded, moves, most, stored, at, copy, trail, overlapped>>
  BY DEF negotiationVars
<1>2. NegTypeOK'
  BY <1>1 DEF NegTypeOK
<1> QED
  BY <1>1, <1>2 DEF NegInv, DealsAreSound, Sound, WalletMinimum, InHand, OneAtATime, Quoted, UnderWay

-----------------------------------------------------------------------------
\* Every step keeps the deals in order.
LEMMA StepKeeps ==
    ASSUME NegTypeOK, NegInv, [NegotiationNext]_negotiationVars
    PROVE  NegTypeOK' /\ NegInv'
<1>1. CASE Propose
  BY <1>1, ProposeKeeps
<1>2. CASE Expire
  BY <1>2, ExpireKeeps
<1>3. CASE FundingMoves
  BY <1>3, FundingKeeps
<1>4. ASSUME NEW r \in Requests, Load(r) PROVE NegTypeOK' /\ NegInv'
  BY <1>4, LoadKeeps
<1>5. ASSUME NEW r \in Requests, TurnedAway(r) PROVE NegTypeOK' /\ NegInv'
  <2>1. Quoted /\ Ends(r) /\ UNCHANGED <<funded, moves, most, stored, trail, overlapped>>
    BY <1>5 DEF TurnedAway
  <2> QED
    BY <2>1, EndKeeps
<1>6. ASSUME NEW r \in Requests, Answer(r) PROVE NegTypeOK' /\ NegInv'
  BY <1>6, AnswerKeeps
<1>7. ASSUME NEW r \in Requests, Put(r) PROVE NegTypeOK' /\ NegInv'
  <2>1. /\ at[r] = "put" /\ Ends(r) /\ stored' \in {stored, copy[r]}
        /\ UNCHANGED <<funded, moves, most, trail, overlapped>>
    BY <1>7 DEF Put
  <2>2. Quoted /\ UnderWay(r)
    BY <2>1 DEF NegInv, InHand, UnderWay
  <2> QED
    BY <2>1, <2>2, EndKeeps
<1>8. CASE UNCHANGED negotiationVars
  BY <1>8, StandsStill
<1> QED
  BY <1>1, <1>2, <1>3, <1>4, <1>5, <1>6, <1>7, <1>8 DEF NegotiationNext

\* A write is the only step that changes a session in the store for another.
LEMMA OnlyPutsWrite ==
    ASSUME NegTypeOK, NegInv, NegotiationNext, stored # None, stored' # None, stored' # stored
    PROVE  \E r \in Requests : at[r] = "put" /\ stored' = copy[r]
<1>1. Quoted
  BY DEF NegInv, InHand
<1>2. ~Propose /\ ~Expire /\ ~FundingMoves
  <2>1. ~Propose
    BY <1>1 DEF Propose
  <2>2. ~Expire
    BY <1>1 DEF Expire
  <2>3. ~FundingMoves
    BY ZenonT(30) DEF FundingMoves
  <2> QED
    BY <2>1, <2>2, <2>3
<1>3. ASSUME NEW r \in Requests PROVE ~Load(r) /\ ~TurnedAway(r) /\ ~Answer(r)
  BY DEF Load, TurnedAway, Answer
<1>4. PICK r \in Requests : Put(r)
  BY <1>2, <1>3 DEF NegotiationNext
<1> QED
  BY <1>4 DEF Put

\* What is written while requests never overlapped is what was made of the open session.
LEMMA WritesFollow ==
    ASSUME NegTypeOK, NegInv, [NegotiationNext]_negotiationVars, ~overlapped,
           stored # None, stored' # None, stored' # stored
    PROVE  /\ stored.status = "countered"
           /\ stored'.ask <= stored.ask \/ stored'.ask = stored'.floor
<1>1. NegotiationNext
  BY DEF negotiationVars
<1>2. PICK r \in Requests : at[r] = "put" /\ stored' = copy[r]
  BY <1>1, OnlyPutsWrite
<1> QED
  BY <1>2 DEF NegInv, OneAtATime, UnderWay

\* The invariant behind the theorems below.
LEMMA NegotiationHolds == NegotiationSpec => [](NegTypeOK /\ NegInv)
<1>1. NegotiationInit => NegTypeOK /\ NegInv
  BY InitHolds
<1>2. NegTypeOK /\ NegInv /\ [NegotiationNext]_negotiationVars => (NegTypeOK /\ NegInv)'
  BY StepKeeps
<1> QED
  BY <1>1, <1>2, PTL DEF NegotiationSpec

\* A session never goes past its last round nor stands at no amount, in the store or in
\* the hands of a request.
THEOREM DealsKeepTheirTypes == NegotiationSpec => []NegTypeOK
  BY NegotiationHolds, PTL

\* Whatever the models answer and however the discount moves, a price the shop agrees to is
\* one fulfill_wallet_order would settle at some discount the buyer was funded for.
THEOREM AgreedIsSettled == NegotiationSpec => []WhatTheShopAgreesTheWalletSettles
<1>1. NegTypeOK /\ NegInv => WhatTheShopAgreesTheWalletSettles
  <2> SUFFICES ASSUME NegTypeOK, NegInv, stored # None, stored.ask < Base
               PROVE  stored.ask >= WalletMinimum(most)
    BY DEF WhatTheShopAgreesTheWalletSettles
  <2>1. stored.ask \in Nat /\ Base \in Nat
    BY Amounts DEF NegTypeOK, Session
  <2>2. Sound(stored)
    BY DEF NegInv, DealsAreSound
  <2> QED
    BY <2>1, <2>2 DEF Sound
<1> QED
  BY <1>1, NegotiationHolds, PTL

\* No ask of the model's reaches the buyer without its row in audit_log, nor above what
\* that row says unless the floor raised it.
THEOREM ModelsPriceIsOnRecord == NegotiationSpec => []ModelPriceIsExplained
<1>1. NegTypeOK /\ NegInv => ModelPriceIsExplained
  BY DEF NegInv, DealsAreSound, Sound, ModelPriceIsExplained
<1> QED
  BY <1>1, NegotiationHolds, PTL

\* An accepted or declined session is written over by requests that overlapped only.
THEOREM ClosedStaysClosed == NegotiationSpec => ClosedUnlessOverlapped
<1>1. ASSUME NegTypeOK, NegInv, [NegotiationNext]_negotiationVars
      PROVE  [(stored # None /\ stored' # None /\ stored.status # "countered" /\ stored' # stored)
              => overlapped]_negotiationVars
  BY <1>1, WritesFollow
<1> QED
  BY <1>1, NegotiationHolds, PTL DEF NegotiationSpec, ClosedUnlessOverlapped

\* Of requests that come one after another none raises the ask above the floor of its round.
THEOREM AsksRiseOnlyToTheFloor == NegotiationSpec => AskRisesOnlyToTheFloor
<1>1. ASSUME NegTypeOK, NegInv, [NegotiationNext]_negotiationVars
      PROVE  [(stored # None /\ stored' # None /\ stored'.ask > stored.ask /\ ~overlapped)
              => stored'.ask = stored'.floor]_negotiationVars
  <2> SUFFICES ASSUME stored # None, stored' # None, stored'.ask > stored.ask, ~overlapped
               PROVE  stored'.ask = stored'.floor
    OBVIOUS
  <2>1. NegTypeOK'
    BY <1>1, StepKeeps
  <2>2. stored.ask \in Nat /\ stored'.ask \in Nat
    BY <1>1, <2>1 DEF NegTypeOK, Session
  <2>3. stored' # stored
    BY <2>2
  <2>4. stored'.ask <= stored.ask \/ stored'.ask = stored'.floor
    BY <1>1, <2>3, WritesFollow
  <2> QED
    BY <2>2, <2>4
<1> QED
  BY <1>1, NegotiationHolds, PTL DEF NegotiationSpec, AskRisesOnlyToTheFloor
=============================================================================
