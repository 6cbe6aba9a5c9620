CONSTANTS
    alice = alice
    bob = bob
    shop = shop
    cafe = cafe
    FacilitatorKey = kaspacom
    ColdWallet = cold
    None = none
    Clients <- MCClients
    Timeouts <- MCTimeouts
    Channels <- OneChannel
    Funding <- ReplayFunding
    Merchants <- OneMerchant
    Verifies = {}
    Settles = {r1, r2, r3}
    Sweeps = {}
    Float = 0
    Amounts = {2}
    Fee = 1
    NetFee = 1
    SweepUnit = 1
    Supply = 12
    MinConf = 1
    MaxPolls = 1
    Mixing = TRUE
    MaxFailures = 2
    MaxCrashes = 1

SPECIFICATION SafetySpec
SYMMETRY Symmetry

INVARIANTS
    OnePaymentPerSuccess
    ChannelIsOneCoin

PROPERTIES
    ImplementsPaymentChannel

\* the bounded calls are all answered, or no channel holds a coin
CHECK_DEADLOCK FALSE
