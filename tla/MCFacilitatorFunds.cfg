CONSTANTS
    alice = alice
    bob = bob
    shop = shop
    cafe = cafe
    FacilitatorKey = kaspacom
    ColdWallet = cold
    None = none
    Clients <- MCClients
    Timeouts <- MCTimeouts
    Channels <- OneChannel
    Funding <- MCFunding
    Merchants <- TwoMerchants
    Verifies = {}
    Settles = {r1, r2}
    Sweeps = {s1}
    Float = 3
    Amounts = {1, 3}
    Fee = 1
    NetFee = 1
    SweepUnit = 1
    Supply = 13
    MinConf = 1
    MaxPolls = 1
    Mixing = FALSE
    MaxFailures = 1
    MaxCrashes = 1

SPECIFICATION SafetySpec
SYMMETRY Symmetry

INVARIANTS
    TypeOK
    SuccessPaysThePrice
    ClientConsents
    MerchantsNotOverpaid

\* the bounded calls are all answered, or no channel holds a coin
CHECK_DEADLOCK FALSE
