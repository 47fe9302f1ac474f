------------------------------- MODULE Backups -------------------------------
(***************************************************************************)
(* The backups of a site: internal/sites/backup.go, its remote storage     *)
(* (remote.go), the rows of internal/store/backup.go, and the page and the *)
(* schedule of internal/web/backups.go.                                    *)
(*                                                                         *)
(* A backup is a row and a directory, or a folder in a bucket, with the    *)
(* files and the database of the site.  Jobs take backups and put them     *)
(* back, step by step, two at a time; a request may remove one meanwhile,  *)
(* a finished one prunes older ones, and the panel may die and run its     *)
(* jobs again.                                                             *)
(***************************************************************************)
EXTENDS Integers, FiniteSets

CONSTANTS
    Worker,
    Remote,        \* the backups that go to the bucket
    MaxBackups,    \* bound: backups asked for
    MaxRuns,       \* bound: runs of a backup job, each with a directory
    MaxRestores,   \* bound: restores asked for
    MaxVersion,    \* bound: changes of the site by its owner
    Keep,          \* backup_keep
    MaxTroubles    \* bound: steps that fail, deaths of the panel

BackupsAssumption ==
    {MaxBackups, MaxRuns, MaxRestores, MaxVersion, MaxTroubles} \subseteq Nat

Backup == 1..MaxBackups
Dir == 1..MaxRuns
NoDir == 0
Version == 0..MaxVersion
Part == -1                     \* neither of two versions, or half of one
Nil == -2                      \* nothing there
Content == Version \cup {Part, Nil}

NoCopy == [files |-> Nil, db |-> Nil]
Gone == [there |-> FALSE, copy |-> NoCopy]

VARIABLES
    root, db, status,          \* the site: its files, its database, its row
    row,                       \* the rows of site_backups
    disk, bucket,              \* the directories and the folders
    jobs, asking,              \* the queue; the rows whose job is not pushed yet
    run,                       \* what each worker is doing
    page,                      \* the request that removes a backup
    staging, aside,            \* root.restoring-<id>; each worker's root.replaced-<time>
    left,                      \* replaced roots whose worker died
    was,                       \* history: the site when each run began
    mixed,                     \* history: a restore changed the site while
                               \* another job was at it, or a backup
                               \* was taken of one half restored
    parted,                    \* history: the panel died between the two renames
    cut,                       \* history: the backups whose removal it cut in two
    asked, runs, restores, version, troubles

site == <<root, db, status>>
store == <<row, disk, bucket>>
queue == <<jobs, asking>>
swap == <<staging, aside, left>>
history == <<was, mixed, parted, cut>>
bounds == <<asked, runs, restores, version, troubles>>
vars == <<site, store, queue, run, page, swap, history, bounds>>

NoRow == [status |-> "none", kind |-> "scheduled", dir |-> NoDir, key |-> NoDir]
Idle == [kind |-> "none", b |-> 1, at |-> "idle", dir |-> NoDir, got |-> NoCopy, todo |-> {},
         old |-> 1]
NoPage == [at |-> "idle", b |-> 1, dir |-> NoDir, key |-> NoDir]
Status == {"none", "pending", "running", "complete", "failed"}
At == {"idle", "begin", "room", "dump", "archive", "upload", "drop", "mark", "finish",
       "prune", "forget", "unrow", "clean", "lose", "download", "extract", "extracted", "away",
       "in", "back", "tidy", "empty", "load", "active", "fail"}

TypeOK ==
    /\ root \in Content /\ db \in Content /\ status \in {"active", "deploying", "failed"}
    /\ row \in [Backup -> [status : Status, kind : {"scheduled", "manual"},
                            dir : 0..MaxRuns, key : 0..MaxRuns]]
    /\ \A d \in Dir : disk[d].copy.files \in Content /\ bucket[d].copy.db \in Content
    /\ jobs \subseteq [kind : {"backup", "restore"}, b : Backup] /\ asking \subseteq Backup
    /\ \A w \in Worker : run[w].at \in At /\ run[w].dir \in 0..MaxRuns
    /\ staging \in [Backup -> Content] /\ aside \in [Worker -> Content]
    /\ left \subseteq Content
    /\ mixed \in BOOLEAN /\ parted \in BOOLEAN /\ cut \subseteq Backup
    /\ asked \in 0..MaxBackups /\ runs \in 0..MaxRuns /\ restores \in 0..MaxRestores /\ troubles \in 0..MaxTroubles

Init ==
    /\ root = 0 /\ db = 0 /\ status = "active"
    /\ row = [b \in Backup |-> NoRow]
    /\ disk = [d \in Dir |-> Gone] /\ bucket = [d \in Dir |-> Gone]
    /\ jobs = {} /\ asking = {}
    /\ run = [w \in Worker |-> Idle] /\ page = NoPage
    /\ staging = [b \in Backup |-> Nil] /\ aside = [w \in Worker |-> Nil] /\ left = {}
    /\ was = [d \in Dir |-> NoCopy] /\ mixed = FALSE /\ parted = FALSE /\ cut = {}
    /\ asked = 0 /\ runs = 0 /\ restores = 0 /\ version = 0 /\ troubles = 0

Goto(w, step) == run' = [run EXCEPT ![w].at = step]
Stop(w) == run' = [run EXCEPT ![w] = Idle]
Doing(w, kind, step) == run[w].kind = kind /\ run[w].at = step
Trouble == troubles < MaxTroubles /\ troubles' = troubles + 1
Busy(w) == run[w].kind # "none"

---------------------------------------------------------------------------
(* Requests and the schedule.                                              *)

\* QueueBackup: the row, and then the job.
CreateBackup(kind) ==
    /\ asked < MaxBackups /\ asked' = asked + 1
    /\ row' = [row EXCEPT ![asked'].status = "pending", ![asked'].kind = kind]
    /\ asking' = asking \cup {asked'}
    /\ UNCHANGED <<site, disk, bucket, jobs, run, page, swap, history, runs, restores,
                   version, troubles>>

PushBackup(b) ==
    /\ b \in asking
    /\ asking' = asking \ {b}
    /\ jobs' = jobs \cup {[kind |-> "backup", b |-> b]}
    /\ UNCHANGED <<site, store, run, page, swap, history, bounds>>

\* The page, the tool, and the clock once a site's turn has come.
sitesBackupStore == CreateBackup("manual")
mcpCreateSiteBackup == CreateBackup("manual")
takeDueBackups == CreateBackup("scheduled")

\* Two restores of one backup at once, which share their directories, are left
\* out.
AskRestore(b) ==
    /\ row[b].status = "complete"
    /\ restores < MaxRestores /\ restores' = restores + 1
    /\ \A w \in Worker : ~(run[w].kind = "restore" /\ run[w].b = b)
    /\ jobs' = jobs \cup {[kind |-> "restore", b |-> b]}
    /\ UNCHANGED <<site, store, asking, run, page, swap, history, asked, runs, version, troubles>>

sitesBackupRestore(b) == AskRestore(b)
mcpRestoreSiteBackup(b) == AskRestore(b)

\* RemoveBackup, by the row as it was read: the copy, then the row.
RemoveBegin(b) ==
    /\ page.at = "idle" /\ row[b].status # "none"
    /\ page' = [at |-> "files", b |-> b, dir |-> row[b].dir, key |-> row[b].key]
    /\ UNCHANGED <<site, store, queue, run, swap, history, bounds>>

sitesBackupDestroy(b) == RemoveBegin(b)
mcpDeleteSiteBackup(b) == RemoveBegin(b)

Without(where, d) == IF d = NoDir THEN where ELSE [where EXCEPT ![d] = Gone]

RemoveFiles ==
    /\ page.at = "files"
    /\ disk' = Without(disk, page.dir) /\ bucket' = Without(bucket, page.key)
    /\ page' = [page EXCEPT !.at = "row"]
    /\ UNCHANGED <<site, row, queue, run, swap, history, bounds>>

RemoveRow ==
    /\ page.at = "row"
    /\ row' = [row EXCEPT ![page.b] = NoRow]
    /\ page' = NoPage
    /\ UNCHANGED <<site, disk, bucket, queue, run, swap, history, bounds>>

\* The owner changes the site, files and database together.  (What is copied or
\* put back while the owner works is of no version; that is left out.)
Change ==
    /\ version < MaxVersion /\ version' = version + 1
    /\ root = db /\ root \in Version /\ status = "active"
    /\ \A w \in Worker : ~Busy(w)
    /\ root' = version' /\ db' = version'
    /\ UNCHANGED <<status, store, queue, run, page, swap, history, asked, runs, restores, troubles>>

\* A worker takes a job; one at the site with a restore is noted.
TakeJob(w, j) ==
    /\ ~Busy(w) /\ j \in jobs
    /\ jobs' = jobs \ {j}
    /\ run' = [run EXCEPT ![w] = [Idle EXCEPT !.kind = j.kind, !.b = j.b, !.at = "begin"]]
    /\ mixed' = (mixed \/ \E v \in Worker : Busy(v) /\ "restore" \in {j.kind, run[v].kind})
    /\ UNCHANGED <<site, store, asking, page, swap, was, parted, cut, bounds>>

---------------------------------------------------------------------------
(* Backup                                                                  *)

steps == <<site, queue, page, swap>>

\* FindBackup; the storage, for a remote one; StartBackup.
StartBackup(w) ==
    LET b == run[w].b IN
    /\ Doing(w, "backup", "begin")
    /\ IF row[b].status = "none"
         THEN Stop(w) /\ UNCHANGED <<row, was, mixed, runs>>
         ELSE /\ runs < MaxRuns /\ runs' = runs + 1
              /\ row' = [row EXCEPT ![b].status = "running", ![b].dir = runs']
              /\ was' = [was EXCEPT ![runs'] = [files |-> root, db |-> db]]
              /\ mixed' = (mixed \/ root # db)
              /\ run' = [run EXCEPT ![w].at = "room", ![w].dir = runs']
    /\ UNCHANGED <<steps, disk, bucket, parted, cut, asked, restores, version, troubles>>

StorageMissing(w) ==
    LET b == run[w].b IN
    /\ Doing(w, "backup", "begin") /\ b \in Remote /\ Trouble
    /\ row' = [row EXCEPT ![b].status = IF @ = "none" THEN "none" ELSE "failed"]
    /\ Stop(w)
    /\ UNCHANGED <<steps, disk, bucket, history, asked, runs, restores, version>>

MakeRoom(w) ==
    /\ Doing(w, "backup", "room")
    /\ disk' = [disk EXCEPT ![run[w].dir] = [there |-> TRUE, copy |-> NoCopy]]
    /\ Goto(w, "dump")
    /\ UNCHANGED <<steps, row, bucket, history, bounds>>

\* A step that writes into the directory, which may have been removed.
Write(w, what, next) ==
    LET d == run[w].dir IN
    /\ IF disk[d].there
         THEN /\ disk' = [disk EXCEPT ![d].copy = what]
              /\ Goto(w, next)
         ELSE Goto(w, "clean") /\ UNCHANGED disk
    /\ UNCHANGED <<steps, row, bucket, history, bounds>>

DumpDatabase(w) ==
    /\ Doing(w, "backup", "dump")
    /\ Write(w, [disk[run[w].dir].copy EXCEPT !.db = db], "archive")

\* tar and the manifest.
ArchiveFiles(w) ==
    /\ Doing(w, "backup", "archive") /\ root # Nil
    /\ Write(w, [disk[run[w].dir].copy EXCEPT !.files = root],
             IF run[w].b \in Remote THEN "upload" ELSE "finish")

\* The parts that are there.
Upload(w) ==
    LET d == run[w].dir IN
    /\ Doing(w, "backup", "upload")
    /\ IF disk[d].there THEN bucket' = [bucket EXCEPT ![d] = disk[d]] /\ Goto(w, "drop")
                        ELSE Goto(w, "clean") /\ UNCHANGED bucket
    /\ UNCHANGED <<steps, row, disk, history, bounds>>

DropLocal(w) ==
    /\ Doing(w, "backup", "drop")
    /\ disk' = [disk EXCEPT ![run[w].dir] = Gone]
    /\ Goto(w, "mark")
    /\ UNCHANGED <<steps, row, bucket, history, bounds>>

\* An UPDATE of a row that may be gone.
Update(b, new) == row' = [row EXCEPT ![b] = IF @.status = "none" THEN @ ELSE new]

MarkUploaded(w) ==
    LET b == run[w].b IN
    /\ Doing(w, "backup", "mark")
    /\ Update(b, [row[b] EXCEPT !.dir = NoDir, !.key = run[w].dir])
    /\ Goto(w, "finish")
    /\ UNCHANGED <<steps, disk, bucket, history, bounds>>

FinishBackup(w) ==
    LET b == run[w].b IN
    /\ Doing(w, "backup", "finish")
    /\ Update(b, [row[b] EXCEPT !.status = "complete"])
    /\ Goto(w, "prune")
    /\ UNCHANGED <<steps, disk, bucket, history, bounds>>

\* A step fails; of an upload, with a part of it in the bucket.
BackupStepFails(w) ==
    LET d == run[w].dir IN
    /\ run[w].kind = "backup" /\ run[w].at \in {"room", "dump", "archive", "upload"}
    /\ (run[w].at = "archive" /\ root = Nil /\ UNCHANGED troubles) \/ Trouble
    /\ bucket' = IF run[w].at = "upload"
                 THEN [bucket EXCEPT ![d] = [there |-> TRUE, copy |-> [disk[d].copy EXCEPT !.db = Nil]]]
                 ELSE bucket
    /\ Goto(w, "clean")
    /\ UNCHANGED <<steps, row, disk, history, asked, runs, restores, version>>

\* The directory goes, what reached the bucket, and the row says failed.
CleanUp(w) ==
    LET d == run[w].dir IN
    /\ Doing(w, "backup", "clean")
    /\ disk' = [disk EXCEPT ![d] = Gone]
    /\ bucket' = IF run[w].b \in Remote THEN [bucket EXCEPT ![d] = Gone] ELSE bucket
    /\ Goto(w, "lose")
    /\ UNCHANGED <<steps, row, history, bounds>>

BackupFails(w) ==
    LET b == run[w].b IN
    /\ Doing(w, "backup", "lose")
    /\ Update(b, [row[b] EXCEPT !.status = "failed"])
    /\ Stop(w)
    /\ UNCHANGED <<steps, disk, bucket, history, bounds>>

\* PrunableBackups: the scheduled ones that are complete, but for the newest.
PrunableBackups ==
    LET complete == {b \in Backup : row[b].status = "complete" /\ row[b].kind = "scheduled"}
    IN  {b \in complete : Cardinality({c \in complete : c > b}) >= Keep}

Prune(w) ==
    /\ Doing(w, "backup", "prune")
    /\ IF PrunableBackups = {} THEN Stop(w)
       ELSE run' = [run EXCEPT ![w].at = "forget", ![w].todo = PrunableBackups]
    /\ UNCHANGED <<steps, store, history, bounds>>

\* RemoveBackup of each: its copy, and then its row.
PruneFiles(w) ==
    /\ Doing(w, "backup", "forget")
    /\ \E b \in run[w].todo :
         /\ disk' = Without(disk, row[b].dir) /\ bucket' = Without(bucket, row[b].key)
         /\ run' = [run EXCEPT ![w].at = "unrow", ![w].old = b, ![w].todo = @ \ {b}]
    /\ UNCHANGED <<steps, row, history, bounds>>

PruneRow(w) ==
    /\ Doing(w, "backup", "unrow")
    /\ row' = [row EXCEPT ![run[w].old] = NoRow]
    /\ IF run[w].todo = {} THEN Stop(w) ELSE Goto(w, "forget")
    /\ UNCHANGED <<steps, disk, bucket, history, bounds>>

---------------------------------------------------------------------------
(* Restore                                                                 *)

copies == <<store, queue, page, history>>
caps == <<asked, runs, restores, version>>

\* FindBackup and what it takes to start: a local directory that is there, or
\* storage that is set up.  An archive that is not there is not put back.
StartRestore(w) ==
    LET b == run[w].b
        r == row[b]
        remote == b \in Remote IN
    /\ Doing(w, "restore", "begin")
    /\ \/ /\ IF remote THEN r.key # NoDir ELSE r.dir # NoDir /\ disk[r.dir].there
          /\ status' = "deploying"
          /\ r.status = "complete"
          /\ run' = [run EXCEPT ![w].dir = IF remote THEN r.key ELSE r.dir,
                                ![w].at = IF remote THEN "download"
                                          ELSE IF disk[r.dir].copy.files # Nil THEN "extract" ELSE "empty"]
          /\ UNCHANGED troubles
       \/ /\ \/ r.status # "complete" /\ UNCHANGED troubles
             \/ /\ ~remote /\ UNCHANGED troubles
                /\ IF r.dir = NoDir THEN TRUE ELSE ~disk[r.dir].there
             \/ remote /\ Trouble
          /\ Stop(w) /\ UNCHANGED status
    /\ UNCHANGED <<copies, root, db, swap, caps>>

\* downloadBackup, into a directory of the restore's own.
Download(w) ==
    LET f == bucket[run[w].dir] IN
    /\ Doing(w, "restore", "download")
    /\ IF f.there THEN run' = [run EXCEPT ![w].at = "extract", ![w].got = f.copy] ELSE Goto(w, "fail")
    /\ UNCHANGED <<copies, site, swap, caps, troubles>>

\* What is restored from.
Source(w) == IF run[w].b \in Remote THEN run[w].got ELSE disk[run[w].dir].copy

\* restoreFiles: unpacked beside the root,
Extract(w) ==
    /\ Doing(w, "restore", "extract")
    /\ staging' = [staging EXCEPT ![run[w].b] = Part]
    /\ Goto(w, "extracted")
    /\ UNCHANGED <<copies, site, aside, left, caps, troubles>>

Extracted(w) ==
    /\ Doing(w, "restore", "extracted")
    /\ \/ /\ Source(w).files # Nil
          /\ staging' = [staging EXCEPT ![run[w].b] = Source(w).files]
          /\ Goto(w, "away") /\ UNCHANGED troubles
       \/ /\ (Source(w).files = Nil /\ UNCHANGED troubles) \/ Trouble
          /\ staging' = [staging EXCEPT ![run[w].b] = Nil]
          /\ Goto(w, "fail")
    /\ UNCHANGED <<copies, site, aside, left, caps>>

\* moved aside,
MoveAside(w) ==
    /\ Doing(w, "restore", "away")
    /\ \/ /\ root # Nil
          /\ aside' = [aside EXCEPT ![w] = root] /\ root' = Nil
          /\ Goto(w, "in") /\ UNCHANGED troubles
       \/ /\ (root = Nil /\ UNCHANGED troubles) \/ Trouble
          /\ Goto(w, "back") /\ UNCHANGED <<aside, root>>
    /\ UNCHANGED <<copies, db, status, staging, left, caps>>

\* moved in,
MoveIn(w) ==
    /\ Doing(w, "restore", "in")
    /\ \/ /\ root' = staging[run[w].b] /\ staging' = [staging EXCEPT ![run[w].b] = Nil]
          /\ Goto(w, "tidy") /\ UNCHANGED troubles
       \/ /\ Trouble
          /\ Goto(w, "back") /\ UNCHANGED <<root, staging>>
    /\ UNCHANGED <<copies, db, status, aside, left, caps>>

\* or moved back.
MoveBack(w) ==
    /\ Doing(w, "restore", "back")
    /\ root' = IF aside[w] # Nil THEN aside[w] ELSE root
    /\ aside' = [aside EXCEPT ![w] = Nil]
    /\ staging' = [staging EXCEPT ![run[w].b] = Nil]
    /\ Goto(w, "fail")
    /\ UNCHANGED <<copies, db, status, left, caps, troubles>>

RemoveReplaced(w) ==
    /\ Doing(w, "restore", "tidy")
    /\ aside' = [aside EXCEPT ![w] = Nil]
    /\ Goto(w, "empty")
    /\ UNCHANGED <<copies, site, staging, left, caps, troubles>>

\* restoreDatabase: dropped and made again, if there is a dump, and loaded.
EmptyDatabase(w) ==
    /\ Doing(w, "restore", "empty")
    /\ IF Source(w).db = Nil THEN Goto(w, "fail") /\ UNCHANGED db
       ELSE db' = Part /\ Goto(w, "load")
    /\ UNCHANGED <<copies, root, status, swap, caps, troubles>>

\* A variant that goes on when the load fails.
LoadDatabaseAnyhow(w) ==
    /\ Doing(w, "restore", "load")
    /\ \/ Source(w).db # Nil /\ db' = Source(w).db /\ UNCHANGED troubles
       \/ ((Source(w).db = Nil /\ UNCHANGED troubles) \/ Trouble) /\ UNCHANGED db
    /\ Goto(w, "active")
    /\ UNCHANGED <<copies, root, status, swap, caps>>

LoadDatabase(w) ==
    /\ Doing(w, "restore", "load")
    /\ \/ /\ Source(w).db # Nil /\ db' = Source(w).db
          /\ Goto(w, "active") /\ UNCHANGED troubles
       \/ /\ (Source(w).db = Nil /\ UNCHANGED troubles) \/ Trouble
          /\ Goto(w, "fail") /\ UNCHANGED db
    /\ UNCHANGED <<copies, root, status, swap, caps>>

EndRestore(w) ==
    /\ run[w].kind = "restore" /\ run[w].at \in {"active", "fail"}
    /\ status' = IF run[w].at = "active" THEN "active" ELSE "failed"
    /\ Stop(w)
    /\ UNCHANGED <<copies, root, db, swap, caps, troubles>>

---------------------------------------------------------------------------
\* The copy is gone and the row is not, yet.
Removing(b) == \/ page.b = b /\ page.at = "row"
               \/ \E w \in Worker : run[w].old = b /\ run[w].at = "unrow"

\* The panel dies with the commands it runs, and runs its jobs again.
Crash ==
    /\ Trouble
    /\ jobs' = jobs \cup {[kind |-> run[w].kind, b |-> run[w].b] : w \in {v \in Worker : Busy(v)}}
    /\ run' = [w \in Worker |-> Idle] /\ page' = NoPage /\ asking' = {}
    /\ left' = left \cup {aside[w] : w \in {v \in Worker : aside[v] # Nil}}
    /\ aside' = [w \in Worker |-> Nil]
    /\ parted' = (parted \/ \E w \in Worker : run[w].at \in {"in", "back"} /\ aside[w] # Nil)
    /\ cut' = cut \cup {b \in Backup : Removing(b)}
    /\ UNCHANGED <<site, store, staging, was, mixed, caps>>

Next ==
    \/ sitesBackupStore \/ mcpCreateSiteBackup \/ takeDueBackups
    \/ \E b \in Backup :
         \/ PushBackup(b) \/ sitesBackupRestore(b) \/ mcpRestoreSiteBackup(b)
         \/ sitesBackupDestroy(b) \/ mcpDeleteSiteBackup(b)
    \/ RemoveFiles \/ RemoveRow \/ Change \/ Crash
    \/ \E w \in Worker :
         \/ \E j \in jobs : TakeJob(w, j)
         \/ StartBackup(w) \/ StorageMissing(w) \/ MakeRoom(w) \/ DumpDatabase(w)
         \/ ArchiveFiles(w) \/ Upload(w) \/ DropLocal(w) \/ MarkUploaded(w)
         \/ FinishBackup(w) \/ BackupStepFails(w) \/ CleanUp(w) \/ BackupFails(w)
         \/ Prune(w) \/ PruneFiles(w) \/ PruneRow(w)
         \/ StartRestore(w) \/ Download(w) \/ Extract(w) \/ Extracted(w)
         \/ MoveAside(w) \/ MoveIn(w) \/ MoveBack(w) \/ RemoveReplaced(w)
         \/ EmptyDatabase(w) \/ LoadDatabase(w) \/ EndRestore(w)

\* Bounds for checking: the first backup may be a manual one, without trouble and
\* a second restore; a request removes a backup of the bucket, before any
\* trouble, second restore or change; the owner changes the site after a backup began,
\* and once there are two restores no more; and two restores have the queue to
\* themselves.
Narrow ==
    /\ \A b \in Backup : row[b].kind = "manual" => b = 1 /\ troubles = 0 /\ restores < 2
    /\ page.at # "idle" => page.b \in Remote /\ troubles = 0 /\ restores < 2 /\ version = 0
    /\ version > 0 => runs > 0 /\ restores < 2
    /\ restores = 2 => /\ asked = MaxBackups /\ asking = {}
                       /\ \A j \in jobs : j.kind # "backup"

Spec == Init /\ [][Next]_vars

---------------------------------------------------------------------------
\* backup.go:444, "leaves the site exactly as it was, instead of leaving it
\* half restored": the site's root is never half of anything, and it is there
\* but for the moment between the two renames, with the old one set aside; with
\* two restores side by side, steps that fail and a copy that is removed
\* meanwhile.  If the panel dies in that very moment the old root is still
\* there under its other name, and no restore brings it back.
RootSurvives ==
    /\ root # Part
    /\ root = Nil => IF parted THEN left # {} ELSE \E w \in Worker : aside[w] # Nil

\* The copy of a backup that is complete.
CopyOf(b) == IF b \in Remote THEN bucket[row[b].key] ELSE disk[row[b].dir]
TakenAt(b) == IF b \in Remote THEN row[b].key ELSE row[b].dir

\* backup.go:85, "a copy that is missing half the site is worse than no copy at
\* all": a complete backup that nobody is removing has both halves, as they were
\* when it began, and after a restore that succeeded the site's two halves are
\* of one version, through failing steps, removals and the panel dying anywhere;
\* as long as nothing else worked on the site during a restore and the owner
\* changed nothing during either.
HalvesMatch ==
    /\ \A b \in Backup : row[b].status = "complete" /\ ~Removing(b) /\ b \notin cut =>
          /\ CopyOf(b).copy.files # Nil /\ CopyOf(b).copy.db # Nil
          /\ ~mixed => CopyOf(b).copy = was[TakenAt(b)]
    /\ status = "active" /\ ~mixed => root = db

CopiesKept == RootSurvives /\ HalvesMatch
=============================================================================
