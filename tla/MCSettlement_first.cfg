\* An empty account, and one request that fails before the first checkpoint.
SPECIFICATION Spec
CONSTANTS
    p1 = p1
    p2 = p2
    Intents = {p1}
    Intent <- OneIntent
    NumRecords = 3
    Chain <- TopUps
    Memos <- MCMemos
    Accounts <- MCAccounts
    Codes <- MCCodes
    Hashes <- MCHashes
    NoIssuer = NoIssuer
    NoHash = NoHash
    NoIntent = NoIntent
    NoCursor = NoCursor
    LiveEdge = LiveEdge
    PageLimit = 1
    MaxPages = 1
    BatchSize = 1
    MaxTime = 0
    MaxCrashes = 0
    MaxDbErrors = 0
    MaxOutages = 1
INVARIANTS
    FirstPaymentIsCaptured
