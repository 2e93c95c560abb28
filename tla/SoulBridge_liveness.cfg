SPECIFICATION FairSpec
CONSTANTS
    NumEvents = 1
    NumReplies = 2
    Capacity = 1
    PollLimit = 2
    MaxRestarts = 0
PROPERTIES
    DeliverableIsSettled
    SpokenIsAcknowledged
