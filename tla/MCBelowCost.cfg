SPECIFICATION NegotiationSpec
CONSTANTS
    c1 = c1  c2 = c2  c3 = c3  answer = answer
    Price = 100  Cost = 75  Qty = 1
    WarrantyYears = 2  TrustScore = 90
    PartnerPrice = 50  PartnerCost = 40  ComboPct = 20
    Percentages = {0, 33}
    Observations <- MCObservations
    Requests = {c1, c2, c3, answer}
    KindOf <- MCKindOf
    Bids = {60, 85, 130}
    Proposals = {90}
    MaxMoves = 1
    None = None
SYMMETRY Symmetry
INVARIANTS
    NeverBelowBlendedCost
CHECK_DEADLOCK FALSE
