SPECIFICATION Spec
CONSTANTS
    Page = {p1}
    Day = 2
    MaxHour = 2
    MaxReleases = 2
    MaxStarts = 2
    MaxCrashes = 1
    MaxTransfers = 2
    MaxMail = 1
    MaxMoves = 2
    Worker = {w1, w2}
    Remote = {2}
    MaxBackups = 2
    MaxRuns = 2
    MaxRestores = 2
    MaxVersion = 1
    Keep = 1
    Name = {n1}
    Within = {}
    Password = {x1, x2}
    NoPassword = none
    MaxDomains = 2
    MaxBoxes = 1
    MaxJobs = 3
    MaxTroubles = 1
    none = none
    n1 = n1
    x1 = x1
    x2 = x2
    p1 = p1
    w1 = w1
    w2 = w2
SYMMETRY Symmetry
CONSTRAINT Bounds
INVARIANT MoveKept
INVARIANT CopiesKept
INVARIANT MailKept
 
CHECK_DEADLOCK FALSE
