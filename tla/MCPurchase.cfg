SPECIFICATION PurchaseSpec
CONSTANTS
    a1 = a1  a2 = a2  p1 = p1  payKey = payKey  payToo = payToo  key1 = key1  key2 = key2
    first = first  yes = yes  again = again  no = no  deal = deal  hand = hand  list = list
    Accounts = {a1, a2}
    Products = {p1}
    Keys = {payKey, payToo, key1, key2}
    OrderIds = {o1, o2}
    None = None
    Cost <- MCCost
    OpeningStock <- MCOpeningStock
    Campaigns <- MCCampaigns
    TopUps <- MCTopUps
    Purchases = {}
    MaxRows = 3
    People = {"ann", "bob"}
    FirstLink <- MCFirstLink
    FirstPrice <- MCFirstPrice
    FirstLimit <- MCFirstLimit
    Attempts = {first, yes, again, no, deal, hand}
    Asks <- MCAsks
    Prices = {100, 120}
    Limits = {80, 200}
    MaxChanges = 1
SYMMETRY Symmetry
VIEW AllButReplies
INVARIANTS
    PurchaseTypeOK
    SaleIsOnTheTrail
PROPERTIES
    ApprovedOnce
    OnlyApprovedAboveLimit
CHECK_DEADLOCK FALSE
