SPECIFICATION ShopSpec
CONSTANTS
    chat1 = chat1  chat2 = chat2  stranger = stranger  typed = typed
    soap = soap  razor = razor
    Runs = {chat1, chat2, stranger, typed}
    Companies <- MCCompanies
    Kind <- MCKind
    Products = {soap, razor}
    Price <- MCPrice
    Quotes <- MCQuotes
    Wallets <- MCWallets
    Bids = {100}
    Band = 30
    Nil = Nil
VIEW AllButSpent
INVARIANTS
    ShopTypeOK
    OneDealThroughout
    AcceptedWithinOwnMeans
    NothingUnseen
CHECK_DEADLOCK FALSE
