----------------------------- MODULE AppCatalog -----------------------------
(***************************************************************************)
(* The apps of the machine: internal/catalog over the services table, with *)
(* the requests of web/system.go, the first-run install of                 *)
(* web/bootstrap.go and the jobs services.install and services.uninstall.  *)
(*                                                                         *)
(* Three writers share a row: the requests that queue it, the worker that  *)
(* installs or removes the app, and the probes that compare the row with   *)
(* the machine, a page's as well as a job's own.  The jobs go through the  *)
(* queue that WorkQueue specifies and JobQueue implements.                 *)
(***************************************************************************)
EXTENDS Naturals, FiniteSets

CONSTANTS
    App,           \* the entries of the catalogue
    Requires,      \* [App -> SUBSET App], what each entry is installed with
    Configured,    \* the apps with a step of their own after detection (mail)
    Engine,        \* the apps that sites, databases or domains live in
    Asked,         \* the sets of apps that a page has probed in one go
    Machines,      \* what there is on the machines the panel first starts on
    Worker,        \* the queue's ordinary workers
    MaxJobs,       \* bound: jobs ever pushed
    MaxProbes,     \* bound: probes that pages ask for
    MaxCuts        \* bound: stops and crashes

ASSUME CatalogAssumption ==
    /\ App # {} /\ IsFiniteSet(App)
    /\ Requires \in [App -> SUBSET App]
    /\ Configured \subseteq App /\ Engine \subseteq App
    /\ Asked \subseteq SUBSET App /\ Machines \subseteq SUBSET App
    /\ MaxJobs \in Nat /\ MaxProbes \in Nat /\ MaxCuts \in Nat

Id == 1..MaxJobs
Requester == {"page", "boot"}
Prober == Worker \cup {"page"}

VARIABLES
    row, error,       \* the services table: status and last_error
    machine,          \* the apps that are there for a probe to find
    held,             \* the apps with sites, databases or domains in them
    bootstrapped,     \* the setting that BootstrapApps leaves behind
    job, kind, key,   \* the jobs: state on the queue, what and which app
    hands,            \* [Worker -> SUBSET Id], the job each worker has
    pc, batch, todo, okay,  \* where each worker's handler is, and its locals
    probe,            \* [Prober -> [App -> ...]], the probes under way
    asking,           \* the requesters that moved rows and have yet to push
    boot,             \* where BootstrapApps is
    panel,            \* "down", "up" or "stopping"
    probes, cuts,     \* history: what the bounds count
    dropped           \* history: a request or an install was cut short

database == <<row, error, held, bootstrapped>>
queue == <<job, kind, key, hands>>
locals == <<pc, batch, todo, okay>>
history == <<probes, cuts, dropped>>
vars == <<row, error, machine, held, bootstrapped, job, kind, key, hands,
          pc, batch, todo, okay, probe, asking, boot, panel, probes, cuts, dropped>>

Queue == INSTANCE WorkQueue WITH Job <- Id, state <- job, doing <- hands

RowStatus == {"not_installed", "queued", "installing", "installed", "failed"}
Probe == {"none", "present", "absent", "down"}

TypeOK ==
    /\ row \in [App -> RowStatus]
    /\ error \in [App -> {"none", "restarted", "reason"}]
    /\ machine \subseteq App
    /\ held \subseteq Engine
    /\ bootstrapped \in BOOLEAN
    /\ job \in [Id -> Queue!State]
    /\ kind \in [Id -> {"install", "uninstall"}]
    /\ key \in [Id -> App]
    /\ hands \in [Worker -> SUBSET Id]
    /\ pc \in [Worker -> {"idle", "start", "create", "mark", "steps", "probing",
                          "verdict", "end"}]
    /\ batch \in [Worker -> SUBSET App]
    /\ todo \in [Worker -> SUBSET App]
    /\ okay \in [Worker -> BOOLEAN]
    /\ probe \in [Prober -> [App -> Probe]]
    /\ asking \subseteq Requester
    /\ boot \in {"none", "look", "note"}
    /\ panel \in {"down", "up", "stopping"}
    /\ probes \in 0..MaxProbes
    /\ cuts \in 0..MaxCuts
    /\ dropped \in BOOLEAN

NoProbes == [s \in App |-> "none"]

\* What the detection commands of a probe of these apps answer.
Detected(apps) == [s \in App |-> IF s \notin apps THEN "none"
                                 ELSE IF s \in machine THEN "present" ELSE "absent"]

\* A machine that install.sh has finished, or a bare one under a new panel,
\* on which somebody may have installed apps by hand.
Init ==
    /\ machine \in Machines
    /\ bootstrapped \in BOOLEAN
    /\ row = [s \in App |-> IF bootstrapped /\ s \in machine
                            THEN "installed" ELSE "not_installed"]
    /\ error = [s \in App |-> "none"]
    /\ held = {}
    /\ Queue!Init
    /\ kind = [j \in Id |-> "install"]
    /\ key = [j \in Id |-> CHOOSE s \in App : TRUE]
    /\ pc = [w \in Worker |-> "idle"]
    /\ batch = [w \in Worker |-> {}]
    /\ todo = [w \in Worker |-> {}]
    /\ okay = [w \in Worker |-> TRUE]
    /\ probe = [p \in Prober |-> NoProbes]
    /\ asking = {}
    /\ boot = "none"
    /\ panel = "down"
    /\ probes = 0 /\ cuts = 0 /\ dropped = FALSE
-----------------------------------------------------------------------------
SetServiceStatus(s, status, reason) ==
    /\ row' = [row EXCEPT ![s] = status]
    /\ error' = [error EXCEPT ![s] = reason]

\* The entries that are queued with some: their requirements, and theirs.
WithDependencies(keys) ==
    LET reach[n \in 0..Cardinality(App)] ==
            IF n = 0 THEN keys ELSE reach[n - 1] \cup UNION {Requires[t] : t \in reach[n - 1]}
    IN  reach[Cardinality(App)]

\* The rows QueueService moves.
Moved(apps, force) == {s \in apps : /\ row[s] \notin {"queued", "installing"}
                                    /\ force \/ row[s] # "installed"}

\* A variant with a status that nothing else knows.
QueueServicesPending(apps) ==
    /\ row' = [s \in App |-> IF s \in apps THEN "pending" ELSE row[s]]
    /\ error' = [s \in App |-> IF s \in apps THEN "none" ELSE error[s]]

QueueServices(apps) ==
    /\ row' = [s \in App |-> IF s \in apps THEN "queued" ELSE row[s]]
    /\ error' = [s \in App |-> IF s \in apps THEN "none" ELSE error[s]]

NewJobs == {j \in Id : job[j] = "new"}

\* The bound on jobs leaves room for those already asked for.
Room == Cardinality(NewJobs) > Cardinality(asking)

Push(what, app) ==
    \E j \in NewJobs : /\ \A k \in NewJobs : j <= k
                       /\ Queue!Submit(j)
                       /\ kind' = [kind EXCEPT ![j] = what]
                       /\ key' = [key EXCEPT ![j] = app]

\* A retry forces, and goes on to push even when no row moved.
RequestInstall(keys, force, retry) ==
    /\ panel = "up" /\ "page" \notin asking /\ Room
    /\ LET moved == Moved(WithDependencies(keys), force \/ retry)
       IN  /\ retry \/ moved # {}
           /\ QueueServices(moved)
    /\ asking' = asking \cup {"page"}
    /\ UNCHANGED <<machine, held, bootstrapped, queue, locals, probe, boot, panel, history>>

servicesInstallOne(s) == \E force \in BOOLEAN : RequestInstall({s}, force, FALSE)
servicesRetry(s) == RequestInstall({s}, TRUE, TRUE)
mcpRetryApp(s) == RequestInstall({s}, TRUE, TRUE)

\* Several; none stands for the ones every server is to have.
servicesInstallMany == \E keys \in SUBSET App \ {{}}, force \in BOOLEAN :
                          RequestInstall(keys, force, FALSE)
mcpInstallApps == \E keys \in SUBSET App \ {{}}, force \in BOOLEAN :
                     RequestInstall(keys, force, FALSE)

PushInstall(r) ==
    /\ panel # "down" /\ r \in asking
    /\ Push("install", CHOOSE s \in App : TRUE)
    /\ asking' = asking \ {r}
    /\ boot' = IF r = "boot" THEN "note" ELSE boot
    /\ UNCHANGED <<database, machine, locals, probe, panel, history>>

\* UninstallBlocker: not installed, holding something, or needed by another app.
Blocked(s) ==
    \/ row[s] # "installed"
    \/ s \in held
    \/ \E t \in App : row[t] = "installed" /\ s \in Requires[t]

RequestUninstall(s) ==
    /\ panel = "up" /\ Room
    /\ ~Blocked(s)
    /\ Push("uninstall", s)
    /\ UNCHANGED <<database, machine, locals, probe, asking, boot, panel, history>>

servicesUninstall(s) == RequestUninstall(s)
mcpUninstallApp(s) == RequestUninstall(s)

\* A site, a database or a domain comes to live in an installed app, and goes.
Fill(s) ==
    /\ panel = "up" /\ s \in Engine /\ row[s] = "installed"
    /\ held' = held \cup {s}
    /\ UNCHANGED <<row, error, bootstrapped, machine, queue, locals, probe, asking, boot,
                   panel, history>>

Empty(s) ==
    /\ panel = "up" /\ s \in held
    /\ held' = held \ {s}
    /\ UNCHANGED <<row, error, bootstrapped, machine, queue, locals, probe, asking, boot,
                   panel, history>>
-----------------------------------------------------------------------------
(* BootstrapApps, in a goroutine of its own after the queue has started.     *)
Pending == \E s \in App : row[s] \in {"queued", "installing"}

BootLook ==
    /\ panel # "down" /\ boot = "look"
    /\ \/ /\ Pending \/ \E s \in App : row[s] = "installed"
          /\ bootstrapped' = TRUE
          /\ boot' = "none"
          /\ UNCHANGED <<row, error, asking>>
       \/ /\ ~(Pending \/ \E s \in App : row[s] = "installed")
          /\ Room
          /\ QueueServices(Moved(App, FALSE))
          /\ asking' = asking \cup {"boot"}
          /\ boot' = "none"
          /\ UNCHANGED bootstrapped
    /\ UNCHANGED <<machine, held, queue, locals, probe, panel, history>>

BootNote ==
    /\ panel # "down" /\ boot = "note"
    /\ bootstrapped' = TRUE
    /\ boot' = "none"
    /\ UNCHANGED <<row, error, held, machine, queue, locals, probe, asking, panel, history>>
-----------------------------------------------------------------------------
(* The workers' handlers, InstallQueued and Uninstall.                       *)
JobOf(w) == CHOOSE j \in Id : hands[w] = {j}
Installs(w) == kind[JobOf(w)] = "install"

Take(w) ==
    /\ panel = "up" /\ pc[w] = "idle"
    /\ \E j \in Id : /\ \A i \in Id : job[i] = "waiting" => j <= i
                     /\ Queue!Take(w, j)
    /\ pc' = [pc EXCEPT ![w] = "start"]
    /\ okay' = [okay EXCEPT ![w] = TRUE]
    /\ UNCHANGED <<database, machine, kind, key, batch, todo, probe, asking, boot, panel, history>>

\* QueuedServices.  Once ctx is cancelled its query fails and it answers nil,
\* which the installer takes for an empty queue.
QueuedServices == IF panel = "up" THEN {s \in App : row[s] = "queued"} ELSE {}

ReadQueue(w) ==
    /\ pc[w] = "start" /\ Installs(w)
    /\ batch' = [batch EXCEPT ![w] = QueuedServices]
    /\ pc' = [pc EXCEPT ![w] = IF QueuedServices = {} THEN "end" ELSE "create"]
    /\ dropped' = (dropped \/ panel = "stopping")
    /\ UNCHANGED <<database, machine, queue, todo, okay, probe, asking, boot, panel, probes, cuts>>

\* The worker's own check, some time after the request's.  A refusal records
\* itself as the last error of a row it calls installed, whatever the refusal.
CheckBlocked(w) ==
    /\ pc[w] = "start" /\ ~Installs(w)
    /\ LET s == key[JobOf(w)]
           blocked == IF panel = "up" THEN Blocked(s) ELSE row[s] # "installed"
       IN  \/ /\ blocked
              /\ SetServiceStatus(s, "installed", "reason")
              /\ okay' = [okay EXCEPT ![w] = FALSE]
              /\ pc' = [pc EXCEPT ![w] = "end"]
              /\ UNCHANGED batch
           \/ /\ ~blocked
              /\ batch' = [batch EXCEPT ![w] = {s}]
              /\ pc' = [pc EXCEPT ![w] = "create"]
              /\ UNCHANGED <<row, error, okay>>
    /\ UNCHANGED <<machine, held, bootstrapped, queue, todo, probe, asking, boot, panel, history>>

\* CreateTask takes ctx too, and its failure ends the handler.
CreateTask(w) ==
    /\ pc[w] = "create"
    /\ \/ /\ panel = "up"
          /\ todo' = [todo EXCEPT ![w] = batch[w]]
          /\ pc' = [pc EXCEPT ![w] = IF Installs(w) THEN "mark" ELSE "steps"]
          /\ UNCHANGED <<okay, dropped>>
       \/ /\ panel = "stopping"
          /\ okay' = [okay EXCEPT ![w] = FALSE]
          /\ pc' = [pc EXCEPT ![w] = "end"]
          /\ dropped' = TRUE
          /\ UNCHANGED todo
    /\ UNCHANGED <<database, machine, queue, batch, probe, asking, boot, panel, probes, cuts>>

\* The loop that takes the batch off the queue, one row after the other.
Mark(w) ==
    /\ pc[w] = "mark"
    /\ \E s \in todo[w] :
          /\ SetServiceStatus(s, "installing", "none")
          /\ todo' = [todo EXCEPT ![w] = @ \ {s}]
    /\ pc' = [pc EXCEPT ![w] = IF Cardinality(todo[w]) = 1 THEN "steps" ELSE "mark"]
    /\ UNCHANGED <<machine, held, bootstrapped, queue, batch, okay, probe, asking, boot,
                   panel, history>>

\* A step of the task brings an app onto the machine, or takes it off.
Apt(w) ==
    /\ pc[w] = "steps"
    /\ \E s \in batch[w] : IF Installs(w) THEN machine' = machine \cup {s}
                                          ELSE machine' = machine \ {s}
    /\ machine' # machine
    /\ UNCHANGED <<database, queue, locals, probe, asking, boot, panel, history>>

\* Runner.Run returns; what it says of success is not what the row will say.
StepsEnd(w) ==
    /\ pc[w] = "steps"
    /\ \E ok \in BOOLEAN : okay' = [okay EXCEPT ![w] = ok]
    /\ pc' = [pc EXCEPT ![w] = "probing"]
    /\ probe' = [probe EXCEPT ![w] = Detected(batch[w])]
    /\ UNCHANGED <<database, machine, queue, batch, todo, asking, boot, panel, history>>

ProbesDone(w) ==
    /\ pc[w] = "probing" /\ probe[w] = NoProbes
    /\ pc' = [pc EXCEPT ![w] = "verdict"]
    /\ todo' = [todo EXCEPT ![w] = batch[w]]
    /\ UNCHANGED <<database, machine, queue, batch, okay, probe, asking, boot, panel, history>>

\* What the handler makes of an app after the probe.
Judge(w, s) ==
    \/ /\ Installs(w) /\ row[s] # "installed"
       /\ SetServiceStatus(s, "failed", "reason")
       /\ UNCHANGED okay
    \/ /\ Installs(w) /\ row[s] = "installed"
       /\ UNCHANGED <<row, error, okay>>
    \/ /\ Installs(w) /\ row[s] = "installed" /\ s \in Configured
       /\ SetServiceStatus(s, "failed", "reason")
       /\ okay' = [okay EXCEPT ![w] = FALSE]
    \/ /\ ~Installs(w) /\ row[s] = "installed"
       /\ SetServiceStatus(s, "installed", "reason")
       /\ okay' = [okay EXCEPT ![w] = FALSE]
    \/ /\ ~Installs(w) /\ row[s] # "installed"
       /\ UNCHANGED <<row, error, okay>>

Verdict(w) ==
    /\ pc[w] = "verdict"
    /\ \E s \in todo[w] :
          /\ Judge(w, s)
          /\ todo' = [todo EXCEPT ![w] = @ \ {s}]
    /\ pc' = [pc EXCEPT ![w] = IF Cardinality(todo[w]) = 1 THEN "end" ELSE "verdict"]
    /\ UNCHANGED <<machine, held, bootstrapped, queue, batch, probe, asking, boot, panel, history>>

End(w) ==
    /\ pc[w] = "end"
    /\ Queue!Answer(w, JobOf(w))
    /\ job'[JobOf(w)] = IF okay[w] THEN "finished" ELSE "failed"
    /\ pc' = [pc EXCEPT ![w] = "idle"]
    /\ batch' = [batch EXCEPT ![w] = {}]
    /\ todo' = [todo EXCEPT ![w] = {}]
    /\ UNCHANGED <<database, machine, kind, key, okay, probe, asking, boot, panel, history>>
-----------------------------------------------------------------------------
(* probe: after the app's detection command, what its answer means for the   *)
(* row.  The probes of a request and of a job run side by side.              *)
PageProbe ==
    /\ panel = "up" /\ probe["page"] = NoProbes
    /\ probes < MaxProbes
    /\ \E apps \in Asked : probe' = [probe EXCEPT !["page"] = Detected(apps)]
    /\ probes' = probes + 1
    /\ UNCHANGED <<database, machine, queue, locals, asking, boot, panel, cuts, dropped>>

servicesDetect == PageProbe
mcpDetectApps == PageProbe

\* Detected: the row says so, whatever it said.
Upgrade(p, s) ==
    /\ probe[p][s] = "present"
    /\ SetServiceStatus(s, "installed", "none")
    /\ probe' = [probe EXCEPT ![p][s] = "none"]
    /\ UNCHANGED <<machine, held, bootstrapped, queue, locals, asking, boot, panel, history>>

\* Not detected: only a row that claims the app is there is taken back ...
ReadRow(p, s) ==
    /\ probe[p][s] = "absent"
    /\ probe' = [probe EXCEPT ![p][s] = IF row[s] = "installed" THEN "down" ELSE "none"]
    /\ UNCHANGED <<database, machine, queue, locals, asking, boot, panel, history>>

\* ... in a statement of its own.
Downgrade(p, s) ==
    /\ probe[p][s] = "down"
    /\ SetServiceStatus(s, "not_installed", "none")
    /\ probe' = [probe EXCEPT ![p][s] = "none"]
    /\ UNCHANGED <<machine, held, bootstrapped, queue, locals, asking, boot, panel, history>>
-----------------------------------------------------------------------------
\* ResetInstallingServices: what was mid-install has failed.  The variant of a
\* start that leaves such rows alone.
ResetNone == {}
ResetInstalling == {s \in App : row[s] = "installing"}

Start ==
    /\ panel = "down"
    /\ Queue!TakeUpAgain
    /\ row' = [s \in App |-> IF s \in ResetInstalling THEN "failed" ELSE row[s]]
    /\ error' = [s \in App |-> IF s \in ResetInstalling THEN "restarted" ELSE error[s]]
    /\ panel' = "up"
    /\ boot' = IF bootstrapped THEN "none" ELSE "look"
    /\ UNCHANGED <<machine, held, bootstrapped, kind, key, locals, probe, asking, history>>

\* The server drains its requests before the queue is told to stop.
Stop ==
    /\ panel = "up" /\ cuts < MaxCuts
    /\ "page" \notin asking
    /\ panel' = "stopping"
    /\ cuts' = cuts + 1
    /\ UNCHANGED <<database, machine, queue, locals, probe, asking, boot, probes, dropped>>

Forget ==
    /\ panel' = "down"
    /\ pc' = [w \in Worker |-> "idle"]
    /\ batch' = [w \in Worker |-> {}]
    /\ todo' = [w \in Worker |-> {}]
    /\ okay' = [w \in Worker |-> TRUE]
    /\ probe' = [p \in Prober |-> NoProbes]
    /\ asking' = {}
    /\ boot' = "none"
    /\ dropped' = (dropped \/ asking # {})

Exit ==
    /\ panel = "stopping" /\ \A w \in Worker : hands[w] = {}
    /\ Forget
    /\ UNCHANGED <<database, machine, queue, probes, cuts>>

Crash ==
    /\ panel # "down" /\ cuts < MaxCuts
    /\ Queue!LetGoAll
    /\ Forget
    /\ cuts' = cuts + 1
    /\ UNCHANGED <<database, machine, kind, key, probes>>

HandlerStep(w) ==
    \/ Take(w) \/ ReadQueue(w) \/ CheckBlocked(w) \/ CreateTask(w) \/ Mark(w)
    \/ StepsEnd(w) \/ ProbesDone(w) \/ Verdict(w) \/ End(w)

ProbeStep(p, s) == Upgrade(p, s) \/ ReadRow(p, s) \/ Downgrade(p, s)

Next ==
    \/ servicesInstallMany \/ mcpInstallApps
    \/ \E s \in App : \/ servicesInstallOne(s) \/ servicesRetry(s) \/ mcpRetryApp(s)
                      \/ servicesUninstall(s) \/ mcpUninstallApp(s)
                      \/ Fill(s)
                      \/ Empty(s)
    \/ \E r \in Requester : PushInstall(r)
    \/ BootLook \/ BootNote
    \/ \E w \in Worker : HandlerStep(w) \/ Apt(w)
    \/ servicesDetect \/ mcpDetectApps
    \/ \E p \in Prober, s \in App : ProbeStep(p, s)
    \/ Start \/ Stop \/ Exit \/ Crash

Spec == Init /\ [][Next]_vars
-----------------------------------------------------------------------------
\* service.go:213-215: a row that says "installing" belongs to a worker that
\* will still judge it, however two installs, requests, probes and restarts
\* overlap; nothing else would ever move it.
InstallingHasInstaller ==
    panel # "down" =>
        \A s \in App : row[s] = "installing" =>
            \E w \in Worker : /\ s \in batch[w]
                              /\ \/ pc[w] \in {"mark", "steps", "probing"}
                                 \/ pc[w] = "verdict" /\ s \in todo[w]

\* service.go:184, "QueuedServices is what the installer picks up": a queued row
\* has an install job on its way that has yet to read it or has read it, unless
\* a request was cut off before its push or a stop cancelled the install.
QueuedHasInstaller ==
    ~dropped =>
        \A s \in App : row[s] = "queued" =>
            \/ asking # {}
            \/ \E j \in Id : kind[j] = "install" /\ job[j] \in {"waiting", "abandoned"}
            \/ \E w \in Worker : /\ hands[w] # {} /\ Installs(w)
                                 /\ \/ pc[w] = "start"
                                    \/ pc[w] = "create" /\ s \in batch[w]
                                    \/ pc[w] = "mark" /\ s \in todo[w]

BusyHasInstaller == InstallingHasInstaller /\ QueuedHasInstaller

\* jobs.go:12-14, "Every handler is written to be safe to run twice", and
\* install.go:722, "The row follows the machine": with nothing under way, an
\* app the table calls installed is on the machine.
Quiet == /\ asking = {} /\ \A j \in Id : job[j] \in {"new", "finished", "failed"}
         /\ \A p \in Prober : probe[p] = NoProbes
RowFollowsMachine == Quiet => \A s \in App : row[s] = "installed" => s \in machine

\* queue.go:4-6, "a panel restart mid-deployment resumes rather than losing the
\* work": an install that a restart interrupted has a job that will redo it.
InterruptedInstallResumes ==
    \A s \in App : row[s] = "failed" /\ error[s] = "restarted" /\ panel = "up" =>
        \E j \in Id : kind[j] = "install" /\ job[j] \in {"waiting", "active"}
=============================================================================
