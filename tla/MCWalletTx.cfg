SPECIFICATION TxSpec
CONSTANTS
    a1 = a1  p1 = p1
    payKey = payKey  buyKey = buyKey  moreKey = moreKey  goneKey = goneKey
    o1 = o1  o2 = o2  o3 = o3
    fund = fund  buy = buy  buyToo = buyToo
    more = more  cancel = cancel
    Accounts = {a1}
    Products = {p1}
    Keys = {payKey, buyKey, moreKey, goneKey}
    OrderIds = {o1, o2, o3}
    None = None
    Cost <- MCCost
    OpeningStock <- MCOpeningStock
    Campaigns <- MCCampaigns
    TopUps <- MCTopUps
    Purchases <- MCPurchases
    MaxRows = 4
    Request <- MCRequest
    Sessions = {fund, buy, buyToo, more, cancel}
INVARIANTS
    TxTypeOK
PROPERTIES
    LedgerSpec
    RetryIsRecognised
    EveryCallEnds
