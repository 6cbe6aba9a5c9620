CONSTANTS
    alice = alice
    shop = shop
    FacilitatorKey = kaspacom
    None = none
    Self = alice
    Clients <- MCClients
    Timeouts <- MCTimeouts
    Merchants = {shop}
    Fetches = {f1, f2}
    Opens = {}
    Refreshes = {}
    Amounts = {3}
    DefaultFunding = 9
    Savings = 22
    Fee = 1
    NetFee = 1
    Supply = 22
    MaxFailures = 0

SPECIFICATION Spec

PROPERTY ReusesChannel

\* every call returns
CHECK_DEADLOCK FALSE
