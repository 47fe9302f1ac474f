------------------------------ MODULE MCPanel ------------------------------
(***************************************************************************)
(* The panel's long jobs, for TLC: updating itself, moving a site or a     *)
(* mail domain to another panel, the backups of a site, and setting mail   *)
(* up.  As in MCMachine the parts share nothing here, and focus chooses    *)
(* one.  (While one of the others runs, an update is refused: work is in   *)
(* progress.  A mail domain that moves has no other work.)                 *)
(***************************************************************************)
EXTENDS Integers, Sequences, FiniteSets, TLC

CONSTANTS
    Page, Day, MaxHour, MaxReleases, MaxStarts, MaxCrashes,     \* PanelUpdate
    MaxTransfers, MaxMail, MaxMoves,                            \* Migration
    Worker, Remote, MaxBackups, MaxRuns, MaxRestores, MaxVersion, Keep,   \* Backups
    Name, Within, Password, NoPassword, MaxDomains, MaxBoxes, MaxJobs,    \* Mail
    MaxTroubles                                                 \* bound of all but the first

VARIABLES
    focus,
    hour, published, running, previous, unit, flight, tried, result, cache, updates,
    starts, looking, begun, upgraded, autos, twoAtOnce, crashes,
    kind, removeAfter, src, dns, out, goal, step, arrived, mark, pack, net, answer,
    transfers, task, owner, files, load, late, built, have, theirJobs, work, deleted,
    lostCopy, moves, moveTroubles,
    root, db, status, row, disk, bucket, jobs, asking, run, page, staging, aside, left,
    was, mixed, parted, cut, asked, runs, restores, version, troubles,
    domain, box, configured, registered, table, keys, served, mailJobs, mailAsking,
    mailRun, pushed, mailTroubles, beside, spoilt, lost

Update == INSTANCE PanelUpdate WITH
              MaxVersion <- MaxReleases, version <- running, task <- updates,
              run <- looking, mixed <- twoAtOnce
Move == INSTANCE Migration WITH
            MaxRuns <- MaxMoves, status <- transfers, row <- owner, jobs <- theirJobs,
            cut <- lostCopy, runs <- moves, troubles <- moveTroubles
Copies == INSTANCE Backups
Post == INSTANCE Mail WITH jobs <- mailJobs, asking <- mailAsking, run <- mailRun,
                           troubles <- mailTroubles

ASSUME MoveAssumption == Move!MigrationAssumption
ASSUME CopiesAssumption == Copies!BackupsAssumption
ASSUME PostAssumption == Post!MailAssumption

updateVars == <<hour, published, running, previous, unit, flight, tried, result, cache,
                updates, starts, looking, begun, upgraded, autos, twoAtOnce, crashes>>
moveVars == <<kind, removeAfter, src, dns, out, goal, step, arrived, mark, pack, net,
              answer, transfers, task, owner, files, load, late, built, have, theirJobs,
              work, deleted, lostCopy, moves, moveTroubles>>
copyVars == <<root, db, status, row, disk, bucket, jobs, asking, run, page, staging, aside,
              left, was, mixed, parted, cut, asked, runs, restores, version, troubles>>
mailVars == <<domain, box, configured, registered, table, keys, served, mailJobs,
              mailAsking, mailRun, pushed, mailTroubles, beside, spoilt, lost>>
vars == <<focus, updateVars, moveVars, copyVars, mailVars>>

\* The parts that stand still are nothing.
Init ==
    /\ focus \in {"update", "move", "copies", "mail"}
    /\ IF focus = "update" THEN Update!Init ELSE
        /\ hour = 0 /\ published = 0 /\ running = 0 /\ previous = 0 /\ unit = 0
        /\ flight = 0 /\ tried = 0 /\ result = 0 /\ cache = 0 /\ updates = 0 /\ starts = 0
        /\ looking = 0 /\ begun = 0 /\ upgraded = 0 /\ autos = 0 /\ twoAtOnce = 0
        /\ crashes = 0
    /\ IF focus = "move" THEN Move!Init ELSE
        /\ kind = 0 /\ removeAfter = 0 /\ src = 0 /\ dns = 0 /\ out = 0 /\ goal = 0
        /\ step = 0 /\ arrived = 0 /\ mark = 0 /\ pack = 0 /\ net = 0 /\ answer = 0
        /\ transfers = 0 /\ task = 0 /\ owner = 0 /\ files = 0 /\ load = 0 /\ late = 0
        /\ built = 0 /\ have = 0 /\ theirJobs = 0 /\ work = 0 /\ deleted = 0
        /\ lostCopy = 0 /\ moves = 0 /\ moveTroubles = 0
    /\ IF focus = "copies" THEN Copies!Init ELSE
        /\ root = 0 /\ db = 0 /\ status = 0 /\ row = 0 /\ disk = 0 /\ bucket = 0
        /\ jobs = 0 /\ asking = 0 /\ run = 0 /\ page = 0 /\ staging = 0 /\ aside = 0
        /\ left = 0 /\ was = 0 /\ mixed = 0 /\ parted = 0 /\ cut = 0 /\ asked = 0
        /\ runs = 0 /\ restores = 0 /\ version = 0 /\ troubles = 0
    /\ IF focus = "mail" THEN Post!Init ELSE
        /\ domain = 0 /\ box = 0 /\ configured = 0 /\ registered = 0 /\ table = 0
        /\ keys = 0 /\ served = 0 /\ mailJobs = 0 /\ mailAsking = 0 /\ mailRun = 0
        /\ pushed = 0 /\ mailTroubles = 0 /\ beside = 0 /\ spoilt = 0 /\ lost = 0

Next ==
    \/ focus = "update" /\ Update!Next /\ UNCHANGED <<focus, moveVars, copyVars, mailVars>>
    \/ focus = "move" /\ Move!Next /\ UNCHANGED <<focus, updateVars, copyVars, mailVars>>
    \/ focus = "copies" /\ Copies!Next /\ UNCHANGED <<focus, updateVars, moveVars, mailVars>>
    \/ focus = "mail" /\ Post!Next /\ UNCHANGED <<focus, updateVars, moveVars, copyVars>>

Spec == Init /\ [][Next]_vars

Symmetry == Permutations(Worker) \cup Permutations(Password)

\* Bounds: the runs of each part that are followed.
Bounds ==
    /\ focus = "update" => Update!Alone
    /\ focus = "copies" => Copies!Narrow

\* The properties of the parts, each stated in its module, with the part's type
\* invariant.
UpdateKept == [][focus = "update" => Update!TypeOK' /\ Update!AutoOnceADay
                                     /\ Update!VerdictTrue']_vars
MoveKept == focus = "move" => Move!TypeOK /\ Move!MoveKept
CopiesKept == focus = "copies" => Copies!TypeOK /\ Copies!CopiesKept
MailKept == focus = "mail" => Post!TypeOK /\ Post!MailKept
=============================================================================
