\* A legacy database, two deaths, one edit of the environment.
SPECIFICATION Spec
CONSTANTS
    m1 = m1
    p1 = p1
    p2 = p2
    none = none
    placeholder = placeholder
    Payments = {p1, p2}
    Merchants = {m1}
    Codes = {"XLM", "USDC"}
    Native = "XLM"
    NoIssuer = none
    AllowLists <- SomeLists
    Typings <- GatewaySlips
    Intended <- Gateway
    Unconfigured = placeholder
    ValidAccountId <- IsValid
    KeyLength = 8
    MaxDeaths = 2
    MaxEdits = 1
INVARIANTS
    StartupInv
    ServesAsMeant
PROPERTIES
    NothingIsUndone
    EventuallyServes
