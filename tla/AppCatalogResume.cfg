SPECIFICATION Spec
CONSTANTS
    w1 = w1
    w2 = w2
    mysql = mysql
    mail = mail
    Worker <- MCWorker
    App <- MCApp
    Requires <- MCRequires
    Configured <- MCConfigured
    Engine <- MCEngine
    Asked <- MCAsked
    Machines <- MCMachines
    MaxJobs = 1
    MaxProbes = 0
    MaxCuts = 1
INVARIANT InterruptedInstallResumes
CHECK_DEADLOCK FALSE
