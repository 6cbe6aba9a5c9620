CONSTANTS
    alice = alice
    shop = shop
    cafe = cafe
    paywall = paywall
    api = api
    g1 = g1
    g2 = g2
    v1 = v1
    v2 = v2
    r1 = r1
    r2 = r2
    FacilitatorKey = kaspacom
    ColdWallet = cold
    None = none
    Clients <- MCClients
    Timeouts <- MCTimeouts
    Channels <- MCChannels
    Funding <- MCFunding
    Merchants = {shop}
    Verifies = {v1, v2}
    Settles = {r1, r2}
    Sweeps = {}
    Float = 0
    Amounts = {3}
    Fee = 1
    NetFee = 1
    SweepUnit = 1
    Supply = 10
    MinConf = 1
    MaxPolls = 1
    Mixing = FALSE
    MaxFailures = 1
    MaxCrashes = 1
    Gated = {g1, g2}
    Servers = {paywall, api}
    Kind <- MCKind
    ServerOf <- MCServerOf
    VerifyCall <- MCVerifyCall
    SettleCall <- MCSettleCall
    MaxLost = 0

SPECIFICATION ServerSpec

PROPERTIES
    EveryCallAnswered
    EveryRequestAnswered
    SettledIsServed
    PayableCoinBuysResponse

\* every request is answered, or its server has ended
CHECK_DEADLOCK FALSE
