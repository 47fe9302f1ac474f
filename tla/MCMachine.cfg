SPECIFICATION Spec
CONSTANTS
    Locked = {s0}
    Job = {j1, j2}
    Site = {s1, s2}
    Writer = {w1, w2}
    Editor = {e1}
    Zone = {z1, z2}
    Path = {p1}
    First = 1
    MaxRead = 2
    MaxLines = 5
    MaxRotations = 2
    MaxBreaks = 1
    MaxEdits = 3
    PanelPort = {p8080, p9443}
    SshPort = ssh
    WebPort = web
    OtherPort = {p3000, p5000}
    MaxRules = 5
    MaxChanges = 3
    NoHost = none
    Port = {n1, n2}
    MaxMoves = 2
    MaxFails = 1
    MaxCrashes = 1
    MaxTroubles = 1
    s0 = s0
    j1 = j1
    j2 = j2
    s1 = s1
    s2 = s2
    w1 = w1
    w2 = w2
    e1 = e1
    z1 = z1
    z2 = z2
    p1 = p1
    p8080 = p8080
    p9443 = p9443
    ssh = ssh
    web = web
    p3000 = p3000
    p5000 = p5000
    none = none
    n1 = n1
    n2 = n2
SYMMETRY Symmetry
INVARIANT OwnersKept
INVARIANT RowsOnDisk
INVARIANT EveryLineOnce
 
 
 
CHECK_DEADLOCK FALSE
