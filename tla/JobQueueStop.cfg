SPECIFICATION Spec
CONSTANTS
    w1 = w1
    w2 = w2
    q = q
    deploy = deploy
    email = email
    Quick = q
    Ordinary <- MCOrdinary
    Kind <- MCKind
    QuickKind <- MCQuickKind
    RetryKind <- MCQuickKind
    Binaries <- MCOneBinary
    MaxJobs = 2
    MaxTries = 1
    MaxBoots = 2
    MaxLost = 0
INVARIANT RestartResumes
CHECK_DEADLOCK FALSE
