CONSTANTS
    alice = alice
    bob = bob
    shop = shop
    cafe = cafe
    FacilitatorKey = kaspacom
    ColdWallet = cold
    None = none
    Clients <- MCClients
    Timeouts <- MCTimeouts
    Channels <- TwoChannels
    Funding <- MCFunding
    Merchants <- OneMerchant
    Verifies = {}
    Settles = {r1, r2}
    Sweeps = {s1}
    Float = 3
    Amounts = {3}
    Fee = 1
    NetFee = 1
    SweepUnit = 1
    Supply = 23
    MinConf = 1
    MaxPolls = 1
    Mixing = FALSE
    MaxFailures = 0
    MaxCrashes = 0

SPECIFICATION SafetySpec

INVARIANTS
    SweepTakesOnlyFees

\* the bounded calls are all answered
CHECK_DEADLOCK FALSE
