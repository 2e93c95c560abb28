SPECIFICATION FairSpec
CONSTANTS
    DirectEvents = {d1}
    AmbientEvents = {a1}
    GameEvents = {g1}
    QueueCapacity = 1
    KeptEvents = 1
    BufferSize = 1
    CompactAt = 1
    MaxPosts = 3
    MaxRestarts = 1
INVARIANTS
    TypeOK
    AnsweredOnce
    OneFollowUp
    KillSwitchHolds
PROPERTIES
    AnswersEvents
    NothingWaitsForever
