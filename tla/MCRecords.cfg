SPECIFICATION Spec
CONSTANTS
    Worker = {w1, w2}
    MaxJobs = 2
    MaxVersion = 1
    MaxCommit = 2
    MaxAsked = 2
    MaxRuns = 2
    Db = {d1, d2}
    MaxAddress = 2
    MaxPassword = 2
    Browser = {b1, b2}
    MaxId = 4
    MaxStep = 1
    MaxSent = 3
    Visitor = {i1, i2}
    Limit = 2
    Window = 1
    Cooldown = 2
    MaxTime = 2
    MaxHappened = 4
    MaxLooked = 1
    MaxEdits = 1
    MaxTroubles = 1
    w1 = w1
    w2 = w2
    d1 = d1
    d2 = d2
    b1 = b1
    b2 = b2
    i1 = i1
    i2 = i2
SYMMETRY Symmetry
 
 
 
 
 
INVARIANT AlertsKept
INVARIANT AccountsKept
CHECK_DEADLOCK FALSE
