SPECIFICATION FairSpec
INVARIANT BuffersApart
INVARIANT SubmitSynchronous
PROPERTY SubmitReturns
PROPERTY GemSpec
CONSTANTS
    Slots = 3
    Page = 4
    Word = 64
    PoolBase = 16
    PoolSize = 20
    MaxCreates = 5
    Sizes <- AllSizes
