SPECIFICATION Spec
CONSTANTS
    w1 = w1
    w2 = w2
    mysql = mysql
    mail = mail
    Worker <- MCWorker
    App <- MCApp
    Requires <- MCRequires
    Configured <- MCConfigured
    Engine <- MCEngine
    Asked <- MCAsked
    Machines <- MCMachines
    MaxJobs = 2
    MaxProbes = 1
    MaxCuts = 1
INVARIANTS
    TypeOK
    BusyHasInstaller
SYMMETRY MCSymmetry
CHECK_DEADLOCK FALSE
