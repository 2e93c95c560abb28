SPECIFICATION FairSpec
CONSTANTS
    NumPlans = 0
    Grace = 1
    MaxReuse = 1
    KeptCallbacks = 1
    QueueCapacity = 1
    MaxLogins = 1
    MaxMisreads = 0
    MaxRecording = 1
    MaxPrunes = 0
    MaxRestarts = 1
PROPERTIES
    StopsAfterLastLogout
