\* Two reconcilers, the sweeper, one crash, one failing statement, one outage.
SPECIFICATION Spec
CONSTANTS
    p1 = p1
    p2 = p2
    Intents = {p1}
    Intent <- OneIntent
    NumRecords = 3
    Chain <- TopUps
    Memos <- MCMemos
    Accounts <- MCAccounts
    Codes <- MCCodes
    Hashes <- MCHashes
    NoIssuer = NoIssuer
    NoHash = NoHash
    NoIntent = NoIntent
    NoCursor = NoCursor
    LiveEdge = LiveEdge
    PageLimit = 2
    MaxPages = 2
    BatchSize = 1
    MaxTime = 1
    MaxCrashes = 1
    MaxDbErrors = 1
    MaxOutages = 1
INVARIANTS
    NoDoubleCredit
    CompletedIsFunded
    OneTerminalNotice
    BackfillAddsNothing
    SettlementInv
    OnlyErrorsSkip
    RacesSettle
PROPERTIES
    TerminalIsFinal
    ImplementsLifecycle
