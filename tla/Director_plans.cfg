SPECIFICATION FairSpec
CONSTANTS
    NumPlans = 2
    Grace = 2
    MaxReuse = 1
    KeptCallbacks = 1
    QueueCapacity = 1
    MaxLogins = 1
    MaxMisreads = 0
    MaxRecording = 0
    MaxPrunes = 1
    MaxRestarts = 1
INVARIANTS
    TypeOK
    OccursOnce
    ArmedAccounted
PROPERTIES
    SessionsEnd
    EmptyRealmStops
