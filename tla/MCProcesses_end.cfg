SPECIFICATION Spec
CONSTANTS
    b1 = b1
    b2 = b2
    d1 = d1
    d2 = d2
    Processes = {p1, p2, p3}
    FirstRelease = 2
    LastRelease = 3
    MaxMishaps = 2
    Keys = {k1}
    MaxJobs = 2
    MaxTries = 2
    NoKey = NoKey
    Threads = {c1}
    Posts = {b1, b2, s1}
    SellerPosts = {s1}
    ThreadOf <- OneThread
    QueueEnabled = TRUE
    Deliveries = {d1, d2}
INVARIANTS
    MigratedOnce
    SeededOnce
    VerdictIsTrue
    RawIsGone
    OneStandIn
    ClaimAccounted
PROPERTIES
    BootEnds
    FinalizeSettles
    QuietAfterAnswer
    ClaimEnds
CHECK_DEADLOCK FALSE
