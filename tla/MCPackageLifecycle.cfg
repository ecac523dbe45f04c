SPECIFICATION FairSpec
\* The system stops when all jobs have ended.
CHECK_DEADLOCK FALSE
CONSTANTS
    g1 = g1
    g2 = g2
    m1 = m1
    m2 = m2
    Nobody = Nobody
    Jobs <- MCJobs
    Measuring <- MCMeasuring
    Constrained <- MCConstrained
    Threads <- MCThreads
INVARIANTS
    TypeOK
    LaceRunsForTasks
    SylvanReadyForDiagrams
    StartsAndStopsAlternate
    NothingLeftRunning
PROPERTIES
    WorkersKept
    JobsEnd
