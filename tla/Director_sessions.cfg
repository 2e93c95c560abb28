SPECIFICATION FairSpec
CONSTANTS
    NumPlans = 0
    Grace = 2
    MaxReuse = 1
    KeptCallbacks = 1
    QueueCapacity = 2
    MaxLogins = 2
    MaxMisreads = 1
    MaxRecording = 1
    MaxPrunes = 0
    MaxRestarts = 1
INVARIANTS
    CallbacksExpire
    ReflectedOnce
    SummariesForgotten
PROPERTIES
    StopsOncePerAbsence
