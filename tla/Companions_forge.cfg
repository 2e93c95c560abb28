SPECIFICATION FairSpec
CONSTANTS
    Threads = {t1}
    Worker = worker
    Forges = {f1, f2}
    Bots = {b1, b2}
    Founders = {b1}
    QueueCapacity = 1
INVARIANTS
    TypeOK
    CompleteMeansReady
    UnderWay
    BoundHasSoul
    DocumentCurrent
PROPERTIES
    ForgeSettles
    ForgesWorld
