----------------------------- MODULE MCMachine -----------------------------
(***************************************************************************)
(* What the panel does to the machine it runs on, for TLC: the lock of a   *)
(* site's files, nginx's configuration, the nameserver, the copy of the    *)
(* logs, the firewall and the panel's own vhost.  What one of these parts  *)
(* does is, to another, at most what that one's environment does by        *)
(* itself: focus chooses one, and the others stand still.                  *)
(***************************************************************************)
EXTENDS Integers, FiniteSets, TLC

CONSTANTS
    Locked, Job,                                   \* SiteLock
    Site, Writer,                                  \* WebServer
    Editor, Zone,                                  \* Nameserver
    Path, First, MaxRead, MaxLines, MaxRotations, MaxBreaks,   \* LogCollector
    PanelPort, SshPort, WebPort, OtherPort, MaxRules, MaxChanges,   \* Firewall
    NoHost, Port, MaxMoves,                        \* PanelAddress
    MaxEdits, MaxFails, MaxCrashes, MaxTroubles    \* bounds

VARIABLES
    focus,
    files, record, wanted, mutex, lockAt, then, site, ask, seen, left, relisted,
    present, row, zone, vhost, enabled, cert, broken, webRun, stray, webEdits, troubles,
    installed, hosted, rows, serial, conf, configured, file, served, error, dnsRun,
    debt, ready, edits,
    cur, old, written, cursor, at, path, todo, stat, start, got, batch, events, first,
    emptied, lossy, rotations, breaks,
    on, rules, port, vhostPort, servedPort, shell, forwards, op, missed, torn, changes,
    refusals,
    domain, tls, listens, opened, panelFile, panelServed, certs, gone, refused, doing,
    astray, moves, panelTroubles, panelCrashes,
    lockFails, lockCrashes, fails, crashes

Lock == INSTANCE SiteLock WITH Site <- Locked, at <- lockAt, fails <- lockFails,
                               crashes <- lockCrashes
Web == INSTANCE WebServer WITH run <- webRun, edits <- webEdits
Names == INSTANCE Nameserver WITH run <- dnsRun
Logs == INSTANCE LogCollector
\* Rules of two ports, of a range, and for one address only.
Shapes == {[keys |-> {WebPort} \cup OtherPort, range |-> FALSE, anyone |-> TRUE],
           [keys |-> PanelPort \cup OtherPort, range |-> TRUE, anyone |-> TRUE],
           [keys |-> OtherPort, range |-> FALSE, anyone |-> FALSE]}
Doors == INSTANCE Firewall WITH
    Panel <- PanelPort, Secure <- SshPort, Public <- WebPort, Other <- OtherPort,
    Shape <- Shapes, file <- vhostPort, served <- servedPort, troubles <- refusals
\* Workers and hostnames: the values of another part, which has them in any order.
Address == INSTANCE PanelAddress WITH
    Actor <- Writer, Host <- Site,
    port <- listens, file <- panelFile, served <- panelServed, broken <- refused,
    run <- doing, torn <- astray, changes <- moves, troubles <- panelTroubles,
    crashes <- panelCrashes, MaxChanges <- MaxMoves

ASSUME PartsAssumption ==
    /\ Lock!LockAssumption /\ Web!WebAssumption /\ Logs!LogsAssumption
    /\ Doors!ShapeAssumption /\ Address!AddressAssumption

lockVars == <<files, record, wanted, mutex, lockAt, then, site, ask, seen, left, relisted,
              lockFails, lockCrashes>>
webVars == <<present, row, zone, vhost, enabled, cert, broken, webRun, stray, webEdits,
             troubles>>
namesVars == <<installed, hosted, rows, serial, conf, configured, file, served, error,
               dnsRun, debt, ready, edits, fails, crashes>>
logsVars == <<cur, old, written, cursor, at, path, todo, stat, start, got, batch, events,
              first, emptied, lossy, rotations, breaks>>
doorsVars == <<on, rules, port, vhostPort, servedPort, shell, forwards, op, missed, torn,
               changes, refusals>>
addressVars == <<domain, tls, listens, opened, panelFile, panelServed, certs, gone,
                 refused, doing, astray, moves, panelTroubles, panelCrashes>>
vars == <<focus, lockVars, webVars, namesVars, logsVars, doorsVars, addressVars>>

\* The parts that stand still are nothing.
Init ==
    /\ focus \in {"lock", "web", "names", "logs", "doors", "address"}
    /\ IF focus = "lock" THEN Lock!Init ELSE
        /\ files = 0 /\ record = 0 /\ wanted = 0 /\ mutex = 0 /\ lockAt = 0 /\ then = 0
        /\ site = 0 /\ ask = 0 /\ seen = 0 /\ left = 0 /\ relisted = 0 /\ lockFails = 0
        /\ lockCrashes = 0
    /\ IF focus = "web" THEN Web!Init ELSE
        /\ present = 0 /\ row = 0 /\ zone = 0 /\ vhost = 0 /\ enabled = 0 /\ cert = 0
        /\ broken = 0 /\ webRun = 0 /\ stray = 0 /\ webEdits = 0 /\ troubles = 0
    /\ IF focus = "names" THEN Names!Init ELSE
        /\ installed = 0 /\ hosted = 0 /\ rows = 0 /\ serial = 0 /\ conf = 0
        /\ configured = 0 /\ file = 0 /\ served = 0 /\ error = 0 /\ dnsRun = 0 /\ debt = 0
        /\ ready = 0 /\ edits = 0 /\ fails = 0 /\ crashes = 0
    /\ IF focus = "logs" THEN Logs!Init ELSE
        /\ cur = 0 /\ old = 0 /\ written = 0 /\ cursor = 0 /\ at = 0 /\ path = 0
        /\ todo = 0 /\ stat = 0 /\ start = 0 /\ got = 0 /\ batch = 0 /\ events = 0
        /\ first = 0 /\ emptied = 0 /\ lossy = 0 /\ rotations = 0 /\ breaks = 0
    /\ IF focus = "doors" THEN Doors!Init ELSE
        /\ on = 0 /\ rules = 0 /\ port = 0 /\ vhostPort = 0 /\ servedPort = 0 /\ shell = 0
        /\ forwards = 0 /\ op = 0 /\ missed = 0 /\ torn = 0 /\ changes = 0 /\ refusals = 0
    /\ IF focus = "address" THEN Address!Init ELSE
        /\ domain = 0 /\ tls = 0 /\ listens = 0 /\ opened = 0 /\ panelFile = 0
        /\ panelServed = 0 /\ certs = 0 /\ gone = 0 /\ refused = 0 /\ doing = 0
        /\ astray = 0 /\ moves = 0 /\ panelTroubles = 0 /\ panelCrashes = 0

Next ==
    \/ focus = "lock" /\ Lock!Next
       /\ UNCHANGED <<focus, webVars, namesVars, logsVars, doorsVars, addressVars>>
    \/ focus = "web" /\ Web!Next
       /\ UNCHANGED <<focus, lockVars, namesVars, logsVars, doorsVars, addressVars>>
    \/ focus = "names" /\ Names!Next
       /\ UNCHANGED <<focus, lockVars, webVars, logsVars, doorsVars, addressVars>>
    \/ focus = "logs" /\ Logs!Next
       /\ UNCHANGED <<focus, lockVars, webVars, namesVars, doorsVars, addressVars>>
    \/ focus = "doors" /\ Doors!Next
       /\ UNCHANGED <<focus, lockVars, webVars, namesVars, logsVars, addressVars>>
    \/ focus = "address" /\ Address!Next
       /\ UNCHANGED <<focus, lockVars, webVars, namesVars, logsVars, doorsVars>>

Spec == Init /\ [][Next]_vars

Symmetry == Permutations(Site) \cup Permutations(Writer)

\* The properties of the parts, each stated in its module, with the part's type
\* invariant.
OwnersKept == focus = "lock" => Lock!TypeOK /\ Lock!OwnersKept
RowsOnDisk == focus = "web" => Web!TypeOK /\ Web!RowsOnDisk
ZonesKept == [][focus = "names" => Names!TypeOK' /\ Names!SerialGrows
                                   /\ Names!RowsAreServed']_vars
EveryLineOnce == focus = "logs" => Logs!TypeOK /\ Logs!EveryLineOnce
DoorsKept == focus = "doors" => Doors!TypeOK /\ Doors!DoorsKept
AddressKept == focus = "address" => Address!AddressKept
=============================================================================
