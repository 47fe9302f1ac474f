------------------------------- MODULE Staging -------------------------------
(***************************************************************************)
(* A site and its staging copy: internal/sites/staging.go, the re-pointing *)
(* of internal/sites/repoint.go, the requests of internal/web/staging.go   *)
(* and the tools of internal/web/mcp_staging.go.                           *)
(*                                                                         *)
(* A clone and a push copy files and a database from one half of the pair  *)
(* to the other, and then tell the application which database and which    *)
(* address are its own.  Every step may fail, and the panel may die and    *)
(* run the job again from its first step.  One job runs at a time here.    *)
(***************************************************************************)
EXTENDS Integers, Sequences

CONSTANTS
    MaxJobs,       \* bound: jobs asked for
    MaxVersion,    \* bound: changes made by the owner
    MaxTroubles    \* bound: steps that fail, deaths of the panel

StagingAssumption == {MaxJobs, MaxVersion, MaxTroubles} \subseteq Nat

Site == {"live", "copy"}
Other(x) == IF x = "live" THEN "copy" ELSE "live"

Fresh == -1                    \* an application just installed
Part == -2                     \* a database dropped and not loaded
Nil == -3
Version == 0..MaxVersion
Data == Version \cup {Fresh, Part, Nil}
Nowhere == <<"nowhere", FALSE>>
Url == (Site \X BOOLEAN) \cup {Nowhere}     \* a hostname and whether it is https

VARIABLES
    kind,          \* what the site is: "wordpress", "laravel"
    files,         \* root: the code, the uploads, the database the configuration
                   \* names, and the address in it (laravel)
    db,            \* the data, the addresses in it (wordpress), blog_public
    status, ssl,   \* the two rows
    served,        \* nginx answers for the copy's hostname
    saved,         \* the complete backups of the live site
    jobs, asking,  \* the queue; the copy's row is there and its job is not, yet
    run,           \* what the worker is doing
    staged,        \* root.copying-<time>
    wish,          \* what the owner of the live site tells search engines
    had,           \* history: the contents the live site had when it was active
    redeployed,    \* history: the sites deployed since they were cloned, and a
                   \* copy of a live site that a push had left with its address
    spoiled,       \* history: a push that had replaced the database was cut
                   \* off or failed, or a command it does not look at did
    asked, version, troubles

halves == <<files, db, status, ssl, served>>
history == <<wish, had, redeployed, spoiled>>
bounds == <<asked, version, troubles>>
vars == <<kind, halves, saved, jobs, asking, run, staged, history, bounds>>

NoFiles == [code |-> Nil, media |-> Nil, names |-> "none", url |-> Nowhere]
NoDb == [data |-> Nil, url |-> Nowhere, indexed |-> TRUE]
NoJob == [kind |-> "none", site |-> "live", files |-> FALSE, data |-> FALSE, keep |-> FALSE]
Idle == [job |-> NoJob, todo |-> <<>>, indexing |-> "unread"]
Names == Site \cup {"none", "torn"}

Job == [kind : {"none", "create", "push", "deploy"}, site : Site,
        files : BOOLEAN, data : BOOLEAN, keep : BOOLEAN]
FilesOK(f) == f \in [code : Data, media : Data, names : Names, url : Url]

TypeOK ==
    /\ kind \in {"wordpress", "laravel"}
    /\ \A x \in Site : FilesOK(files[x]) /\ db[x] \in [data : Data, url : Url, indexed : BOOLEAN]
    /\ status \in [Site -> {"none", "pending", "deploying", "active", "failed"}]
    /\ ssl \in [Site -> BOOLEAN] /\ served \in BOOLEAN
    /\ \A s \in saved : s \in Data \X Data \X Data
    /\ \A i \in 1..Len(jobs) : jobs[i] \in Job
    /\ asking \in BOOLEAN
    /\ run.job \in Job /\ run.indexing \in {"unread", "0", "1"}
    /\ FilesOK(staged)
    /\ wish \in BOOLEAN /\ redeployed \subseteq Site /\ spoiled \in BOOLEAN
    /\ asked \in 0..MaxJobs /\ version \in Version /\ troubles \in 0..MaxTroubles

Own(x) == <<x, ssl[x]>>
Content == <<files["live"].code, files["live"].media, db["live"].data>>

\* The live site alone, or with a copy that was just cloned from it.
Init ==
    /\ kind \in {"wordpress", "laravel"} /\ wish \in BOOLEAN
    /\ \E there \in {{"live"}, Site} :
         LET At(x, u) == IF kind = u THEN <<x, TRUE>> ELSE Nowhere IN
         /\ files = [x \in Site |-> IF x \notin there THEN NoFiles ELSE
                       [code |-> 0, media |-> 0, names |-> x, url |-> At(x, "laravel")]]
         /\ db = [x \in Site |-> IF x \notin there THEN NoDb ELSE
                    [data |-> 0, url |-> At(x, "wordpress"),
                     indexed |-> wish /\ (x = "live" \/ kind # "wordpress")]]
         /\ status = [x \in Site |-> IF x \in there THEN "active" ELSE "none"]
         /\ served = ("copy" \in there)
    /\ ssl = [x \in Site |-> TRUE]
    /\ saved = {} /\ jobs = <<>> /\ asking = FALSE
    /\ run = Idle /\ staged = NoFiles
    /\ had = {<<0, 0, 0>>} /\ redeployed = {} /\ spoiled = FALSE
    /\ asked = 0 /\ version = 0 /\ troubles = 0

Busy == run.job.kind # "none"
Trouble == troubles < MaxTroubles /\ troubles' = troubles + 1
Calm == UNCHANGED troubles

---------------------------------------------------------------------------
(* Requests                                                                *)

Asks == asked < MaxJobs /\ asked' = asked + 1

\* The copy's row, as the live site's is.
prepareStagingSite ==
    /\ status["copy"] = "none"
    /\ ssl' = [ssl EXCEPT !["copy"] = ssl["live"]]

sitesStagingStore ==
    /\ Asks /\ prepareStagingSite
    /\ status' = [status EXCEPT !["copy"] = "pending"]
    /\ asking' = TRUE
    /\ UNCHANGED <<kind, files, db, served, saved, jobs, run, staged, history, version, troubles>>

PushCreate ==
    /\ asking /\ asking' = FALSE
    /\ jobs' = Append(jobs, [NoJob EXCEPT !.kind = "create", !.site = "copy"])
    /\ UNCHANGED <<kind, halves, saved, run, staged, history, bounds>>

\* A push of one half or both, of whatever state the two sites are in.
sitesStagingPush ==
    /\ Asks /\ status["copy"] # "none"
    /\ \E f, d, k \in BOOLEAN :
         /\ f \/ d
         /\ k => f /\ kind = "wordpress"
         /\ jobs' = Append(jobs, [kind |-> "push", site |-> "live", files |-> f, data |-> d, keep |-> k])
    /\ UNCHANGED <<kind, halves, saved, asking, run, staged, history, version, troubles>>

\* The tools of the MCP server ask for the same jobs.
mcpCreateStagingSite == sitesStagingStore
mcpPushStagingSite == sitesStagingPush

sitesRedeploy(x) ==
    /\ Asks /\ status[x] # "none"
    /\ jobs' = Append(jobs, [NoJob EXCEPT !.kind = "deploy", !.site = x])
    /\ UNCHANGED <<kind, halves, saved, asking, run, staged, history, version, troubles>>

\* The owner changes the code, the uploads and the data of a site.
Change(x) ==
    /\ version < MaxVersion /\ version' = version + 1
    /\ ~Busy /\ status[x] = "active"
    /\ files' = [files EXCEPT ![x].code = version', ![x].media = version']
    /\ db' = [db EXCEPT ![x].data = version']
    /\ had' = IF x = "live" THEN (had \ {Content}) \cup {<<version', version', version'>>} ELSE had
    /\ UNCHANGED <<kind, status, ssl, served, saved, jobs, asking, run, staged, wish,
                   redeployed, spoiled, asked, troubles>>

---------------------------------------------------------------------------
(* The lists of steps, as they are put together when a job begins.         *)

CopyFiles == <<"copy", "away", "in">>
CopyDatabase == <<"dump", "empty", "load">>
When(condition, steps) == IF condition THEN steps ELSE <<>>

CreateStaging ==
    <<"root", "database">> \o CopyFiles \o CopyDatabase
      \o <<"config", "vhost", "certificate", "urls", "check">>

PushSteps(j) ==
    LET notes == j.data /\ kind = "wordpress" IN
    <<"backup">> \o When(notes, <<"note">>) \o When(j.files, CopyFiles) \o When(j.data, CopyDatabase)
      \o <<"config", "urls">> \o When(notes, <<"index">>) \o <<"check">>

Steps(j) ==
    CASE j.kind = "create" -> CreateStaging
      [] j.kind = "push" -> PushSteps(j)
      [] OTHER -> <<"root", "database", "install", "vhost", "certificate", "check">>

Begin ==
    /\ ~Busy /\ jobs # <<>>
    /\ jobs' = Tail(jobs)
    /\ run' = [Idle EXCEPT !.job = Head(jobs), !.todo = Steps(Head(jobs))]
    /\ status' = [status EXCEPT ![Head(jobs).site] = "deploying"]
    /\ redeployed' = IF Head(jobs).kind = "deploy" THEN redeployed \cup {Head(jobs).site}
                     ELSE IF Head(jobs).kind = "push" THEN redeployed
                     ELSE IF db["live"].url[1] = "copy" THEN redeployed \cup {"copy"}
                     ELSE redeployed \ {"copy"}
    /\ UNCHANGED <<kind, files, db, ssl, served, saved, asking, staged, wish, had, spoiled, bounds>>

to == run.job.site
from == Other(run.job.site)
At(step) == run.todo # <<>> /\ Head(run.todo) = step
Pass == run' = [run EXCEPT !.todo = Tail(@)] /\ UNCHANGED status

\* A database that was replaced, and is not looked after to the end.
Replaced == /\ run.job.kind = "push" /\ run.job.data
            /\ \A i \in 1..Len(run.todo) : run.todo[i] # "empty"

\* A step that is not optional fails: the job is over.
Stop ==
    /\ run' = Idle
    /\ status' = [status EXCEPT ![to] = "failed"]
    /\ spoiled' = (spoiled \/ Replaced)

rest == <<kind, jobs, asking, wish, redeployed, asked, version>>

Finish ==
    /\ Busy /\ run.todo = <<>>
    /\ status' = [status EXCEPT ![to] = "active"]
    /\ had' = IF to = "live" /\ db[to].data # Part THEN had \cup {Content} ELSE had
    /\ run' = Idle
    /\ UNCHANGED <<rest, files, db, ssl, served, saved, staged, spoiled, troubles>>

---------------------------------------------------------------------------
(* The steps                                                               *)

\* mkdir of the root: there is a directory, with nothing in it.  The database
\* and its row, if there are none.
MakeRoot ==
    /\ At("root") /\ Pass /\ Calm
    /\ UNCHANGED <<rest, files, db, ssl, served, saved, staged, had, spoiled>>

ensureDatabase ==
    /\ At("database") /\ Pass /\ Calm
    /\ db' = IF db[to].data = Nil THEN [db EXCEPT ![to].data = Part] ELSE db
    /\ UNCHANGED <<rest, files, ssl, served, saved, staged, had, spoiled>>

\* A variant that pushes although the backup failed.
backupBeforePushAnyhow ==
    /\ At("backup") /\ Pass
    /\ \/ files["live"] # NoFiles /\ Calm /\ saved' = saved \cup {Content}
       \/ ((files["live"] = NoFiles /\ Calm) \/ Trouble) /\ UNCHANGED saved
    /\ UNCHANGED <<rest, files, db, ssl, served, staged, had, spoiled>>

\* The files and the database as they are, in a backup that is complete or is
\* none; and none, no push.
backupBeforePush ==
    /\ At("backup")
    /\ \/ /\ files["live"] # NoFiles /\ Calm
          /\ saved' = saved \cup {Content}
          /\ Pass /\ UNCHANGED spoiled
       \/ /\ (files["live"] = NoFiles /\ Calm) \/ Trouble
          /\ Stop /\ UNCHANGED saved
    /\ UNCHANGED <<rest, files, db, ssl, served, staged, had>>

\* blog_public of the live site, or nothing that can be read.
NoteIndexing ==
    /\ At("note")
    /\ \E seen \in {IF db["live"].indexed THEN "1" ELSE "0", "unread"} :
         /\ IF seen = "unread" THEN Trouble ELSE Calm
         /\ run' = [run EXCEPT !.todo = Tail(@), !.indexing = seen]
         /\ spoiled' = (spoiled \/ seen = "unread")
    /\ UNCHANGED <<rest, files, db, status, ssl, served, saved, staged, had>>

\* The uploads of the destination, if they are to be kept; and if that fails,
\* those of the source.
keepUploads ==
    \/ staged' = files[from] /\ (IF run.job.keep THEN Trouble ELSE Calm)
    \/ /\ run.job.keep /\ files[to] # NoFiles /\ Calm
       /\ staged' = [files[from] EXCEPT !.media = files[to].media]

\* copyFiles: beside the root,
CopyAside ==
    /\ At("copy")
    /\ \/ /\ files[from] # NoFiles
          /\ keepUploads
          /\ Pass /\ UNCHANGED spoiled
       \/ /\ (files[from] = NoFiles /\ Calm) \/ Trouble
          /\ Stop /\ staged' = NoFiles
    /\ UNCHANGED <<rest, files, db, ssl, served, saved, had>>

\* and two renames; when the second fails, the first is undone.  (A root that a
\* death of the panel left under its other name is not there to rename; a
\* clone makes an empty one first.)
MoveAway ==
    /\ At("away")
    /\ IF files[to] = NoFiles /\ run.job.kind = "push"
         THEN Stop /\ staged' = NoFiles /\ Calm /\ UNCHANGED files
         ELSE \/ /\ files' = [files EXCEPT ![to] = NoFiles]
                 /\ Pass /\ Calm /\ UNCHANGED <<staged, spoiled>>
              \/ Stop /\ staged' = NoFiles /\ Trouble /\ UNCHANGED files
    /\ UNCHANGED <<rest, db, ssl, served, saved, had>>

MoveIn ==
    /\ At("in") /\ Pass /\ Calm
    /\ files' = [files EXCEPT ![to] = staged] /\ staged' = NoFiles
    /\ UNCHANGED <<rest, db, ssl, served, saved, had, spoiled>>

\* copyDatabase: a dump, and the destination dropped and made again, and loaded.
Dump ==
    /\ At("dump")
    /\ IF db[from].data # Nil THEN Pass /\ Calm /\ UNCHANGED spoiled ELSE Stop /\ Calm
    /\ UNCHANGED <<rest, files, db, ssl, served, saved, staged, had>>

EmptyDatabase ==
    /\ At("empty") /\ Pass /\ Calm
    /\ db' = [db EXCEPT ![to].data = Part]
    /\ UNCHANGED <<rest, files, ssl, served, saved, staged, had, spoiled>>

Load ==
    /\ At("load") /\ Pass /\ Calm
    /\ db' = [db EXCEPT ![to] = db[from]]
    /\ UNCHANGED <<rest, files, ssl, served, saved, staged, had, spoiled>>

\* repointConfig: the name, the user, the password and the host of the database,
\* one after the other in wp-config.php; in one write in .env.
repointConfig ==
    /\ At("config")
    /\ \/ /\ files[to] # NoFiles /\ Calm
          /\ files' = [files EXCEPT ![to].names = to]
          /\ Pass /\ UNCHANGED spoiled
       \/ /\ (files[to] = NoFiles /\ Calm /\ UNCHANGED files)
             \/ (Trouble /\ files' \in {files, [files EXCEPT ![to].names =
                                          IF kind = "wordpress" THEN "torn" ELSE @]})
          /\ Stop
    /\ UNCHANGED <<rest, db, ssl, served, saved, staged, had>>

\* The address the row has by now, instead of every address of the other half
\* in the database, if it has tables; a clone asks search engines to stay away,
\* by a command nobody looks at.
repointWordPress ==
    /\ kind = "wordpress" /\ db[to].data # Part
    /\ \E quiet \in {TRUE, to # "copy"} :
         /\ IF quiet THEN Calm ELSE Trouble
         /\ db' = [db EXCEPT ![to].url = IF @[1] = from THEN Own(to) ELSE @,
                             ![to].indexed = @ /\ ~(to = "copy" /\ quiet)]
    /\ UNCHANGED files

\* And in .env.
repointLaravelURL ==
    /\ kind = "laravel" /\ Calm
    /\ files' = [files EXCEPT ![to].url = Own(to)] /\ UNCHANGED db

repointURLs ==
    /\ At("urls")
    /\ \/ (repointWordPress \/ repointLaravelURL) /\ Pass /\ UNCHANGED spoiled
       \/ /\ (kind = "wordpress" /\ db[to].data = Part /\ Calm) \/ Trouble
          /\ Stop /\ UNCHANGED <<files, db>>
    /\ UNCHANGED <<rest, ssl, served, saved, staged, had>>

\* What it was, or yes.
PutIndexingBack ==
    /\ At("index") /\ Pass
    /\ \/ db' = [db EXCEPT !["live"].indexed = run.indexing # "0"] /\ Calm /\ UNCHANGED spoiled
       \/ Trouble /\ spoiled' = TRUE /\ UNCHANGED db
    /\ UNCHANGED <<rest, files, ssl, served, saved, staged, had>>

\* The application of a deployment: its configuration is written anew, with the
\* database that is the site's own; installed only where there is none.
Unpacked(f, u) ==
    [code |-> IF f.code = Nil THEN Fresh ELSE f.code,
     media |-> IF f.media = Nil THEN Fresh ELSE f.media, names |-> to, url |-> u]
Filled(u) == IF db[to].data # Part THEN db ELSE
             [db EXCEPT ![to] = [data |-> Fresh, indexed |-> TRUE, url |-> u]]

installWordPress ==
    /\ kind = "wordpress"
    /\ files' = [files EXCEPT ![to] = Unpacked(@, @.url)] /\ db' = Filled(Own(to))

writeLaravelEnv ==
    /\ kind = "laravel"
    /\ files' = [files EXCEPT ![to] = Unpacked(@, Own(to))] /\ db' = Filled(Nowhere)

Install ==
    /\ At("install")
    /\ \/ (installWordPress \/ writeLaravelEnv) /\ Pass /\ Calm /\ UNCHANGED spoiled
       \/ Trouble /\ Stop /\ UNCHANGED <<files, db>>
    /\ UNCHANGED <<rest, ssl, served, saved, staged, had>>

WriteVhost ==
    /\ At("vhost") /\ Pass /\ Calm
    /\ served' = (served \/ to = "copy")
    /\ UNCHANGED <<rest, files, db, ssl, saved, staged, had, spoiled>>

\* Both steps of it are optional, and the row says what came of them.
Certificate ==
    /\ At("certificate") /\ Pass
    /\ \E issued \in BOOLEAN :
         /\ IF issued \/ ~ssl[to] THEN Calm ELSE Trouble
         /\ ssl' = [ssl EXCEPT ![to] = @ /\ issued]
    /\ UNCHANGED <<rest, files, db, served, saved, staged, had, spoiled>>

Check ==
    /\ At("check")
    /\ (Pass /\ Calm /\ UNCHANGED spoiled) \/ (Trouble /\ Stop)
    /\ UNCHANGED <<rest, files, db, ssl, served, saved, staged, had>>

---------------------------------------------------------------------------
\* The panel dies, and its next start puts the job back.
Crash ==
    /\ Trouble
    /\ Busy \/ asking
    /\ jobs' = IF Busy THEN <<run.job>> \o jobs ELSE jobs
    /\ run' = Idle /\ asking' = FALSE /\ staged' = NoFiles
    /\ spoiled' = (spoiled \/ (Busy /\ Replaced))
    /\ UNCHANGED <<kind, halves, saved, wish, had, redeployed, asked, version>>

Next ==
    \/ sitesStagingStore \/ mcpCreateStagingSite \/ PushCreate \/ sitesStagingPush \/ mcpPushStagingSite
    \/ \E x \in Site : sitesRedeploy(x) \/ Change(x)
    \/ Begin \/ Finish \/ MakeRoot \/ ensureDatabase \/ backupBeforePush \/ NoteIndexing
    \/ CopyAside \/ MoveAway \/ MoveIn \/ Dump \/ EmptyDatabase \/ Load
    \/ repointConfig \/ repointURLs \/ PutIndexingBack \/ Install \/ WriteVhost
    \/ Certificate \/ Check \/ Crash

Spec == Init /\ [][Next]_vars

---------------------------------------------------------------------------
\* staging.go:191, "the one thing that must be true afterwards is that the
\* previous state still exists somewhere": whatever the live site held when it
\* was last in order, it holds still or a complete backup does; through pushes
\* that fail at any step, are cut off and run again, and are pushed again.
PreviousStateKept == \A c \in had : c = Content \/ c \in saved

\* repoint.go:57, "a staging site with a live vhost in front of it would read
\* and write production's data": a site that says active names its own database,
\* through the same failures and the redeployments that follow them.
OwnDatabase == \A x \in Site : status[x] = "active" => files[x].names = x

\* repoint.go:62: the address an active site has in its database or its .env is
\* the one its row says by then, https only if a certificate issued.  (A later
\* redeployment may change the row; that is not a copy any more.)
OwnAddress ==
    \A x \in Site \ redeployed : status[x] = "active" =>
        IF kind = "wordpress" THEN db[x].url = Own(x) ELSE files[x].url = Own(x)

\* staging.go:267, "loading it into production without putting this back is how
\* a push takes a live site out of Google": after a push the live site tells
\* search engines what its owner had it tell them, as long as no push was cut
\* off or failed after it had replaced the database.
IndexingKept == kind = "wordpress" /\ status["live"] = "active" /\ ~spoiled =>
                    (db["live"].indexed <=> wish)

PairKept == TypeOK /\ PreviousStateKept /\ OwnDatabase /\ OwnAddress /\ IndexingKept
=============================================================================
