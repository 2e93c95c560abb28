SPECIFICATION Spec
CONSTANTS
    DirectEvents = {d1}
    AmbientEvents = {}
    GameEvents = {}
    QueueCapacity = 1
    KeptEvents = 1
    BufferSize = 1
    CompactAt = 1
    MaxPosts = 1
    MaxRestarts = 1
PROPERTY InboxDurable
