\* A payment in two parts among operations like it, pages of one record, one page a cycle; fair tasks.
SPECIFICATION FairSpec
CONSTANTS
    p1 = p1
    p2 = p2
    Intents = {p1, p2}
    Intent <- TwoIntents
    NumRecords = 4
    Chain <- Parts
    Memos <- MCMemos
    Accounts <- MCAccounts
    Codes <- MCCodes
    Hashes <- MCHashes
    NoIssuer = NoIssuer
    NoHash = NoHash
    NoIntent = NoIntent
    NoCursor = NoCursor
    LiveEdge = LiveEdge
    PageLimit = 1
    MaxPages = 1
    BatchSize = 1
    MaxTime = 1
    MaxCrashes = 0
    MaxDbErrors = 0
    MaxOutages = 1
INVARIANTS
    CreditIsGenuine
PROPERTIES
    OverdueIsRetired
    PaymentIsCredited
    FundedIsDecided
