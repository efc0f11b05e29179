SPECIFICATION Spec
CONSTANTS
    r1 = r1
    r2 = r2
    l1 = l1
    buyer = buyer
    provider = provider
    w1 = w1
    w2 = w2
    w3 = w3
    Listings = {l1}
    Peers = {buyer, provider}
    BuyerOf <- MCBuyerOf
    ListingOf <- MCListingOf
    ProviderOf <- MCProviderOf
    FixedPrice = 2
    Requests = {r1}
    Workers = {w1, w2}
    Prices = {1}
    Amounts = {2}
    HasPayment = TRUE
    Flows <- StripeFlows
    MaxCalls = 3
    MaxFaults = 0
    MaxCrashes = 0
    MaxOffers = 0
CHECK_DEADLOCK FALSE
INVARIANT IdempotentCompletion
