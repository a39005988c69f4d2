SPECIFICATION Spec
CONSTANTS
    a1 = a1  a2 = a2  p1 = p1
    pay1 = pay1  pay2 = pay2
    buy1 = buy1  buy2 = buy2  buy3 = buy3
    gone1 = gone1  gone2 = gone2
    Accounts = {a1, a2}
    Products = {p1}
    Keys = {pay1, pay2, buy1, buy2, buy3, gone1, gone2}
    OrderIds = {o1, o2, o3}
    None = None
    Cost <- MCCost
    OpeningStock <- MCOpeningStock
    Campaigns <- MCCampaigns
    TopUps <- MCTopUps
    Purchases <- MCPurchases
    MaxRows = 7
INVARIANTS
    TypeOK
    KeysSpentOnce
    LedgerExplainsBalance
    OrderMoneyTrail
    NoSaleBelowCost
    StockConserved
PROPERTIES
    FundedByStandingOrders
CHECK_DEADLOCK FALSE
