SPECIFICATION FairSpec
CONSTANTS
    t1 = t1
    t2 = t2
    nginx = nginx
    mysql = mysql
    NoGroup = NoGroup
    Task <- MCTask
    Group <- MCGroup
    Lists <- MCLists
    MaxBoots = 2
INVARIANTS
    TypeOK
    GroupsAreIsolated
    SuccessIsEarned
    FailureIsReal
    RunningHasRunner
PROPERTIES
    NeverBackwards
    TasksEnd
CHECK_DEADLOCK FALSE
