CONSTANTS
    alice = alice
    shop = shop
    FacilitatorKey = kaspacom
    None = none
    Self = alice
    Clients <- MCClients
    Timeouts <- MCTimeouts
    Merchants = {shop}
    Fetches = {f1, f2}
    Opens = {o1}
    Refreshes = {r1}
    Amounts = {3, 7}
    DefaultFunding = 9
    Savings = 22
    Fee = 1
    NetFee = 1
    Supply = 22
    MaxFailures = 1

SYMMETRY Symmetry

SPECIFICATION Spec

INVARIANTS
    ClientTypeOK
    RecordNamesItsCoin
    TracksItsMoney
    SettlesAreSigned
    SentIsSettleable

\* every call returns
CHECK_DEADLOCK FALSE
