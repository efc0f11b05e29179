SPECIFICATION Spec
CONSTANTS
    r1 = r1
    r2 = r2
    l1 = l1
    buyer = buyer
    provider = provider
    w1 = w1
    w2 = w2
    w3 = w3
    Listings = {l1}
    Peers = {buyer, provider}
    BuyerOf <- MCBuyerOf
    ListingOf <- MCListingOf
    ProviderOf <- MCProviderOf
    FixedPrice = 2
    Requests = {r1, r2}
    Workers = {w1, w2}
    Prices = {1, 2}
    Amounts = {2}
    HasPayment = TRUE
    Flows <- CreditsFlows
    MaxCalls = 5
    MaxFaults = 1
    MaxCrashes = 1
    MaxOffers = 1
CHECK_DEADLOCK FALSE
INVARIANTS
    NoOverdraft
PROPERTIES
    ImplementsLedger
    QuotedPriceCharged
