SPECIFICATION Spec
CONSTANTS
    w1 = w1
    w2 = w2
    d1 = d1
    Worker <- MCWorker
    Domain <- MCDomain
    Served <- MCServed
    MaxSites = 2
    MaxJobs = 3
    MaxCuts = 1
INVARIANTS
    TypeOK
    RemovedIsGone
    ActiveIsServed
    
PROPERTY VisibleKeepsItsOwn
SYMMETRY MCSymmetry
CHECK_DEADLOCK FALSE
