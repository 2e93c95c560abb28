SPECIFICATION Spec
CONSTANTS
    NumEvents = 1
    NumReplies = 1
    Capacity = 1
    PollLimit = 1
    MaxRestarts = 0
INVARIANT UnsentEventKept
