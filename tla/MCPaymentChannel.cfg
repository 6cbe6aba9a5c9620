CONSTANTS
    alice = alice
    bob = bob
    FacilitatorKey = kaspacom
    Fee = 2
    Clients <- MCClients
    Timeouts <- MCTimeouts
    Channels <- MCChannels
    Funding <- MCFunding

SPECIFICATION ChSpec

INVARIANTS
    FeesBounded
    BalanceTestIsExact
    SignedIsRebuilt

\* a channel whose balance is used up takes no further step
CHECK_DEADLOCK FALSE
