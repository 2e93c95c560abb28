SPECIFICATION Spec
CONSTANTS
    NumEvents = 2
    NumReplies = 2
    Capacity = 1
    PollLimit = 2
    MaxRestarts = 1
INVARIANTS
    TypeOK
    SpokenOncePerRun
    PendingIdsTracked
    AckOwed
PROPERTIES
    SpokenInOrder
    DeliversReplies
