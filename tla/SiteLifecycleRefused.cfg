SPECIFICATION Spec
CONSTANTS
    w1 = w1
    w2 = w2
    d1 = d1
    Worker <- MCOneWorker
    Domain <- MCDomain
    Served <- MCEmpty
    MaxSites = 1
    MaxJobs = 2
    MaxCuts = 0
INVARIANT RefusedOnlyPlainSites
CHECK_DEADLOCK FALSE
