\* Three requests, each with or without the one key, drops, crashes and a prune.
SPECIFICATION FairSpec
CONSTANTS
    Requests = {r1, r2, r3}
    Keys = {k1}
    NoKey = NoKey
    NoId = NoId
    Memos = {m1, m2}
    NoMemo = NoMemo
    WaitPolls = 2
    MemoDraws = 2
    MaxPrunes = 1
INVARIANTS
    CreationInv
    SerialisedByKey
PROPERTIES
    EveryRequestAnswered
