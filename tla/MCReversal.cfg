SPECIFICATION RevSpec
CONSTANTS
    a1 = a1  a2 = a2  p1 = p1  o1 = o1
    payKey = payKey  buyKey = buyKey
    key1 = key1  key2 = key2  key3 = key3  key4 = key4
    first = first  again = again  later = later  other = other  stranger = stranger
    Accounts = {a1, a2}
    Products = {p1}
    Keys = {payKey, buyKey, key1, key2, key3, key4}
    OrderIds = {o1}
    None = None
    Cost <- MCCost
    OpeningStock <- MCOpeningStock
    Campaigns = {}
    TopUps <- MCTopUps
    Purchases <- MCPurchases
    MaxRows = 3
    Commands = {first, again, later, other, stranger}
    Asked <- MCAsked
INVARIANTS
    RevTypeOK
    RecordsAgree
    SettledMeansRecorded
    AnsweredLeavesNothingOwing
CHECK_DEADLOCK FALSE
