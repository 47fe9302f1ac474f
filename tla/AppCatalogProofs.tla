--------------------------- MODULE AppCatalogProofs ---------------------------
(***************************************************************************)
(* Machine-checked proofs about AppCatalog, for any finite catalogue, any  *)
(* number of workers, jobs, probes, stops and crashes.                     *)
(*                                                                         *)
(* BusyHasInstaller is not inductive as it stands: it says that somebody   *)
(* has a row in hand, and not that it is somebody who will judge it.  An   *)
(* uninstall leaves a row alone that does not say "installed", so whoever  *)
(* has an installing row must be installing; and what a handler has left   *)
(* to do must be of its own batch, and its job must be the worker's.       *)
(***************************************************************************)
EXTENDS AppCatalog, FiniteSetTheorems, TLAPS

\* A worker is in a handler exactly while it has a job, one that is active and
\* that no other worker has; a process that is down has no handlers.
Employed ==
    /\ \A w \in Worker : pc[w] = "idle" <=> hands[w] = {}
    /\ \A w \in Worker : hands[w] # {} => \E j \in Id : hands[w] = {j} /\ job[j] = "active"
    /\ \A v, w \in Worker : v # w => hands[v] \cap hands[w] = {}
    /\ panel = "down" => \A w \in Worker : pc[w] = "idle"

\* What is left to do is of the batch; only an install marks.
WithinBatch ==
    \A w \in Worker : /\ pc[w] \in {"mark", "verdict"} => todo[w] \subseteq batch[w]
                      /\ pc[w] = "mark" => Installs(w)

\* A worker that will judge this row, and by doing so take it out of
\* "installing".
Installer(w, s) ==
    /\ s \in batch[w] /\ Installs(w)
    /\ \/ pc[w] \in {"mark", "steps", "probing"}
       \/ pc[w] = "verdict" /\ s \in todo[w]

InstallerInstalls ==
    panel # "down" =>
        \A s \in App : row[s] = "installing" => \E w \in Worker : Installer(w, s)

CatalogInv == TypeOK /\ Employed /\ WithinBatch /\ InstallerInstalls /\ QueuedHasInstaller

-----------------------------------------------------------------------------
\* The job of a worker that has one is that one.
LEMMA JobInHand ==
    ASSUME Employed, NEW w \in Worker, hands[w] # {}
    PROVE  JobOf(w) \in Id /\ hands[w] = {JobOf(w)} /\ job[JobOf(w)] = "active"
  BY DEF Employed, JobOf

LEMMA SameJob ==
    ASSUME NEW w \in Worker, hands'[w] = hands[w]
    PROVE  JobOf(w)' = JobOf(w)
  BY DEF JobOf

\* A row that is queued or set is still a row.
LEMMA QueuedRows ==
    ASSUME TypeOK, NEW apps, QueueServices(apps)
    PROVE  row' \in [App -> RowStatus] /\ error' \in [App -> {"none", "restarted", "reason"}]
  BY DEF TypeOK, QueueServices, RowStatus

LEMMA SetRow ==
    ASSUME TypeOK, NEW s \in App, NEW status \in RowStatus, NEW reason \in {"none", "reason"},
           SetServiceStatus(s, status, reason)
    PROVE  /\ row' \in [App -> RowStatus] /\ error' \in [App -> {"none", "restarted", "reason"}]
           /\ row'[s] = status /\ \A t \in App \ {s} : row'[t] = row[t]
  BY DEF TypeOK, SetServiceStatus

LEMMA Pushed ==
    ASSUME TypeOK, NEW what \in {"install", "uninstall"}, NEW app \in App, Push(what, app)
    PROVE  /\ job' \in [Id -> Queue!State] /\ kind' \in [Id -> {"install", "uninstall"}]
           /\ key' \in [Id -> App] /\ hands' = hands
           /\ \E j \in Id : /\ job[j] = "new" /\ job'[j] = "waiting" /\ kind'[j] = what
                          /\ \A i \in Id \ {j} : job'[i] = job[i] /\ kind'[i] = kind[i]
<1>1. PICK j \in NewJobs : /\ Queue!Submit(j)
                           /\ kind' = [kind EXCEPT ![j] = what]
                           /\ key' = [key EXCEPT ![j] = app]
  BY DEF Push
<1>2. j \in Id /\ job[j] = "new" /\ job' = [job EXCEPT ![j] = "waiting"] /\ hands' = hands
  BY <1>1 DEF NewJobs, Queue!Submit
<1>3. QED BY <1>1, <1>2 DEF TypeOK, Queue!State

LEMMA AnApp == CatalogAssumption => (CHOOSE s \in App : TRUE) \in App
  BY DEF CatalogAssumption

-----------------------------------------------------------------------------
(***************************************************************************)
(* Types.                                                                  *)
(***************************************************************************)
LEMMA TypeFirst == Init => TypeOK
<1> SUFFICES ASSUME Init PROVE TypeOK
  OBVIOUS
<1>1. row \in [App -> RowStatus] /\ error \in [App -> {"none", "restarted", "reason"}]
  BY DEF Init, RowStatus
<1>2. machine \subseteq App /\ held \subseteq Engine /\ bootstrapped \in BOOLEAN
  BY CatalogAssumption DEF Init, CatalogAssumption
<1>3. job \in [Id -> Queue!State] /\ hands \in [Worker -> SUBSET Id]
  BY DEF Init, Queue!Init, Queue!State
<1>4. kind \in [Id -> {"install", "uninstall"}] /\ key \in [Id -> App]
  BY AnApp, CatalogAssumption DEF Init
<1>5. /\ pc \in [Worker -> {"idle", "start", "create", "mark", "steps", "probing", "verdict", "end"}]
      /\ batch \in [Worker -> SUBSET App] /\ todo \in [Worker -> SUBSET App]
      /\ okay \in [Worker -> BOOLEAN]
  BY DEF Init
<1>6. probe \in [Prober -> [App -> Probe]]
  BY DEF Init, NoProbes, Probe
<1>7. /\ asking \subseteq Requester /\ boot \in {"none", "look", "note"}
      /\ panel \in {"down", "up", "stopping"} /\ dropped \in BOOLEAN
  BY DEF Init
<1>8. probes \in 0..MaxProbes /\ cuts \in 0..MaxCuts
  <2>1. MaxProbes \in Nat /\ MaxCuts \in Nat
    BY CatalogAssumption DEF CatalogAssumption
  <2>2. QED BY <2>1 DEF Init
<1>9. QED BY <1>1, <1>2, <1>3, <1>4, <1>5, <1>6, <1>7, <1>8 DEF TypeOK

LEMMA TypeOfRequests ==
    ASSUME CatalogAssumption, TypeOK,
           \/ \E keys \in SUBSET App, force \in BOOLEAN, retry \in BOOLEAN : RequestInstall(keys, force, retry)
           \/ \E r \in Requester : PushInstall(r)
           \/ \E s \in App : RequestUninstall(s) \/ Fill(s) \/ Empty(s)
           \/ BootLook \/ BootNote
    PROVE  TypeOK'
<1> USE DEF database, queue, locals, history, Requester
<1>1. ASSUME NEW keys \in SUBSET App, NEW force \in BOOLEAN, NEW retry \in BOOLEAN,
             RequestInstall(keys, force, retry)
      PROVE  TypeOK'
  <2>1. /\ QueueServices(Moved(WithDependencies(keys), force \/ retry)) /\ asking' = asking \cup {"page"}
        /\ UNCHANGED <<machine, held, bootstrapped, queue, locals, probe, boot, panel, history>>
    BY <1>1 DEF RequestInstall
  <2>2. row' \in [App -> RowStatus] /\ error' \in [App -> {"none", "restarted", "reason"}]
    BY <2>1, QueuedRows
  <2>3. QED BY <2>1, <2>2 DEF TypeOK
<1>2. ASSUME NEW r \in Requester, PushInstall(r) PROVE TypeOK'
  <2>1. /\ Push("install", CHOOSE s \in App : TRUE) /\ asking' = asking \ {r}
        /\ boot' = IF r = "boot" THEN "note" ELSE boot
        /\ UNCHANGED <<database, machine, locals, probe, panel, history>>
    BY <1>2 DEF PushInstall
  <2>2. /\ job' \in [Id -> Queue!State] /\ kind' \in [Id -> {"install", "uninstall"}]
        /\ key' \in [Id -> App] /\ hands' = hands
    BY <2>1, AnApp, Pushed
  <2>3. QED BY <2>1, <2>2 DEF TypeOK
<1>3. ASSUME NEW s \in App, RequestUninstall(s) PROVE TypeOK'
  <2>1. /\ Push("uninstall", s)
        /\ UNCHANGED <<database, machine, locals, probe, asking, boot, panel, history>>
    BY <1>3 DEF RequestUninstall
  <2>2. /\ job' \in [Id -> Queue!State] /\ kind' \in [Id -> {"install", "uninstall"}]
        /\ key' \in [Id -> App] /\ hands' = hands
    BY <2>1, Pushed
  <2>3. QED BY <2>1, <2>2 DEF TypeOK
<1>4. ASSUME NEW s \in App, Fill(s) \/ Empty(s) PROVE TypeOK'
  BY <1>4 DEF Fill, Empty, TypeOK
<1>5. CASE BootLook
  <2>1. /\ \/ UNCHANGED <<row, error, asking>> /\ bootstrapped' = TRUE
           \/ QueueServices(Moved(App, FALSE)) /\ asking' = asking \cup {"boot"} /\ UNCHANGED bootstrapped
        /\ boot' = "none" /\ UNCHANGED <<machine, held, queue, locals, probe, panel, history>>
    BY <1>5 DEF BootLook
  <2>2. row' \in [App -> RowStatus] /\ error' \in [App -> {"none", "restarted", "reason"}]
    BY <2>1, QueuedRows DEF TypeOK
  <2>3. QED BY <2>1, <2>2 DEF TypeOK
<1>6. CASE BootNote
  BY <1>6 DEF BootNote, TypeOK
<1>7. QED BY <1>1, <1>2, <1>3, <1>4, <1>5, <1>6

LEMMA TypeOfHandlers ==
    ASSUME CatalogAssumption, TypeOK, Employed, NEW w \in Worker, HandlerStep(w) \/ Apt(w)
    PROVE  TypeOK'
<1> USE DEF database, queue, locals, history, Prober
<1>0. ASSUME pc[w] # "idle" PROVE JobOf(w) \in Id /\ hands[w] = {JobOf(w)} /\ key[JobOf(w)] \in App
  BY <1>0, JobInHand DEF Employed, TypeOK
<1>1. CASE Take(w)
  <2>1. PICK j \in Id : Queue!Take(w, j)
    BY <1>1 DEF Take
  <2>2. job' \in [Id -> Queue!State] /\ hands' \in [Worker -> SUBSET Id]
    BY <2>1 DEF TypeOK, Queue!Take, Queue!State
  <2>3. pc' = [pc EXCEPT ![w] = "start"] /\ okay' = [okay EXCEPT ![w] = TRUE]
    BY <1>1 DEF Take
  <2>4. UNCHANGED <<database, machine, kind, key, batch, todo, probe, asking, boot, panel, history>>
    BY <1>1 DEF Take
  <2>5. QED BY <2>2, <2>3, <2>4 DEF TypeOK
<1>2. CASE ReadQueue(w)
  <2>1. QueuedServices \subseteq App
    BY DEF QueuedServices
  <2>2. (dropped \/ panel = "stopping") \in BOOLEAN
    OBVIOUS
  <2>3. /\ batch' \in [Worker -> SUBSET App] /\ dropped' \in BOOLEAN
        /\ pc' \in [Worker -> {"idle", "start", "create", "mark", "steps", "probing", "verdict", "end"}]
    BY <1>2, <2>1, <2>2 DEF ReadQueue, TypeOK
  <2>4. UNCHANGED <<database, machine, queue, todo, okay, probe, asking, boot, panel, probes, cuts>>
    BY <1>2 DEF ReadQueue
  <2>5. QED BY <2>3, <2>4 DEF TypeOK
<1>3. CASE CheckBlocked(w)
  <2>1. key[JobOf(w)] \in App
    BY <1>0, <1>3 DEF CheckBlocked
  <2>2. UNCHANGED <<machine, held, bootstrapped, queue, todo, probe, asking, boot, panel, history>>
    BY <1>3 DEF CheckBlocked
  <2>3. CASE /\ SetServiceStatus(key[JobOf(w)], "installed", "reason")
             /\ okay' = [okay EXCEPT ![w] = FALSE] /\ pc' = [pc EXCEPT ![w] = "end"] /\ UNCHANGED batch
    <3>1. row' \in [App -> RowStatus] /\ error' \in [App -> {"none", "restarted", "reason"}]
      BY <2>1, <2>3, SetRow DEF RowStatus
    <3>2. QED BY <2>2, <2>3, <3>1 DEF TypeOK
  <2>4. CASE /\ batch' = [batch EXCEPT ![w] = {key[JobOf(w)]}] /\ pc' = [pc EXCEPT ![w] = "create"]
             /\ UNCHANGED <<row, error, okay>>
    BY <2>1, <2>2, <2>4 DEF TypeOK
  <2>5. QED BY <1>3, <2>3, <2>4 DEF CheckBlocked
<1>4. CASE CreateTask(w)
  BY <1>4 DEF CreateTask, TypeOK
<1>5. CASE Mark(w)
  <2>1. PICK s \in todo[w] : /\ SetServiceStatus(s, "installing", "none")
                             /\ todo' = [todo EXCEPT ![w] = @ \ {s}]
    BY <1>5 DEF Mark
  <2>2. s \in App
    BY DEF TypeOK
  <2>3. row' \in [App -> RowStatus] /\ error' \in [App -> {"none", "restarted", "reason"}]
    BY <2>1, <2>2, SetRow DEF RowStatus
  <2>4. todo' \in [Worker -> SUBSET App]
    BY <2>1 DEF TypeOK
  <2>5. pc' \in [Worker -> {"idle", "start", "create", "mark", "steps", "probing", "verdict", "end"}]
    BY <1>5 DEF Mark, TypeOK
  <2>6. UNCHANGED <<machine, held, bootstrapped, queue, batch, okay, probe, asking, boot, panel, history>>
    BY <1>5 DEF Mark
  <2>7. QED BY <2>3, <2>4, <2>5, <2>6 DEF TypeOK
<1>6. CASE Apt(w)
  <2>1. batch[w] \subseteq App
    BY DEF TypeOK
  <2>2. machine' \subseteq App
    BY <1>6, <2>1 DEF Apt, TypeOK
  <2>3. UNCHANGED <<database, queue, locals, probe, asking, boot, panel, history>>
    BY <1>6 DEF Apt
  <2>4. QED BY <2>2, <2>3 DEF TypeOK
<1>7. CASE StepsEnd(w)
  <2>1. Detected(batch[w]) \in [App -> Probe]
    BY DEF Detected, Probe
  <2>2. /\ probe' = [probe EXCEPT ![w] = Detected(batch[w])] /\ pc' = [pc EXCEPT ![w] = "probing"]
        /\ okay' \in [Worker -> BOOLEAN]
        /\ UNCHANGED <<database, machine, queue, batch, todo, asking, boot, panel, history>>
    BY <1>7 DEF StepsEnd, TypeOK
  <2>3. QED BY <2>1, <2>2 DEF TypeOK
<1>8. CASE ProbesDone(w)
  BY <1>8 DEF ProbesDone, TypeOK
<1>9. CASE Verdict(w)
  <2>1. PICK s \in todo[w] : Judge(w, s) /\ todo' = [todo EXCEPT ![w] = @ \ {s}]
    BY <1>9 DEF Verdict
  <2>2. s \in App
    BY DEF TypeOK
  <2>3. /\ row' \in [App -> RowStatus] /\ error' \in [App -> {"none", "restarted", "reason"}]
        /\ okay' \in [Worker -> BOOLEAN]
    <3>1. CASE UNCHANGED <<row, error, okay>>
      BY <3>1 DEF TypeOK
    <3>2. CASE SetServiceStatus(s, "failed", "reason") /\ (UNCHANGED okay \/ okay' = [okay EXCEPT ![w] = FALSE])
      BY <2>2, <3>2, SetRow DEF RowStatus, TypeOK
    <3>3. CASE SetServiceStatus(s, "installed", "reason") /\ okay' = [okay EXCEPT ![w] = FALSE]
      BY <2>2, <3>3, SetRow DEF RowStatus, TypeOK
    <3>4. QED BY <2>1, <3>1, <3>2, <3>3 DEF Judge
  <2>4. todo' \in [Worker -> SUBSET App]
    BY <2>1 DEF TypeOK
  <2>5. pc' \in [Worker -> {"idle", "start", "create", "mark", "steps", "probing", "verdict", "end"}]
    BY <1>9 DEF Verdict, TypeOK
  <2>6. UNCHANGED <<machine, held, bootstrapped, queue, batch, probe, asking, boot, panel, history>>
    BY <1>9 DEF Verdict
  <2>7. QED BY <2>3, <2>4, <2>5, <2>6 DEF TypeOK
<1>10. CASE End(w)
  <2>1. JobOf(w) \in Id
    BY <1>0, <1>10 DEF End
  <2>2. job' \in [Id -> Queue!State] /\ hands' \in [Worker -> SUBSET Id]
    BY <1>10, <2>1 DEF End, Queue!Answer, Queue!State, TypeOK
  <2>3. /\ pc' = [pc EXCEPT ![w] = "idle"] /\ batch' = [batch EXCEPT ![w] = {}]
        /\ todo' = [todo EXCEPT ![w] = {}]
        /\ UNCHANGED <<database, machine, kind, key, okay, probe, asking, boot, panel, history>>
    BY <1>10 DEF End
  <2>4. QED BY <2>2, <2>3 DEF TypeOK
<1>11. QED BY <1>1, <1>2, <1>3, <1>4, <1>5, <1>6, <1>7, <1>8, <1>9, <1>10 DEF HandlerStep

LEMMA TypeOfProbes ==
    ASSUME CatalogAssumption, TypeOK,
           PageProbe \/ \E p \in Prober, s \in App : ProbeStep(p, s)
    PROVE  TypeOK'
<1> USE DEF database, queue, locals, history
<1>1. CASE PageProbe
  <2>1. PICK apps \in Asked : probe' = [probe EXCEPT !["page"] = Detected(apps)]
    BY <1>1 DEF PageProbe
  <2>2. Detected(apps) \in [App -> Probe]
    BY DEF Detected, Probe
  <2>3. probe' \in [Prober -> [App -> Probe]]
    BY <2>1, <2>2 DEF TypeOK, Prober
  <2>4. MaxProbes \in Nat
    BY DEF CatalogAssumption
  <2>5. probes' \in 0..MaxProbes
    BY <1>1, <2>4 DEF PageProbe, TypeOK
  <2>6. UNCHANGED <<database, machine, queue, locals, asking, boot, panel, cuts, dropped>>
    BY <1>1 DEF PageProbe
  <2>7. QED BY <2>3, <2>5, <2>6 DEF TypeOK
<1>2. ASSUME NEW p \in Prober, NEW s \in App, ProbeStep(p, s) PROVE TypeOK'
  <2>1. probe' \in [Prober -> [App -> Probe]]
    <3>1. PICK x \in {"none", "down"} : probe' = [probe EXCEPT ![p][s] = x]
      BY <1>2 DEF ProbeStep, Upgrade, ReadRow, Downgrade
    <3>2. probe[p] \in [App -> Probe] /\ x \in Probe
      BY DEF TypeOK, Probe
    <3>3. [probe[p] EXCEPT ![s] = x] \in [App -> Probe]
      BY <3>2
    <3>4. QED BY <3>1, <3>3 DEF TypeOK
  <2>2. row' \in [App -> RowStatus] /\ error' \in [App -> {"none", "restarted", "reason"}]
    <3>1. CASE ReadRow(p, s)
      BY <3>1 DEF ReadRow, TypeOK
    <3>2. CASE Upgrade(p, s) \/ Downgrade(p, s)
      BY <3>2, SetRow DEF Upgrade, Downgrade, RowStatus
    <3>3. QED BY <1>2, <3>1, <3>2 DEF ProbeStep
  <2>3. UNCHANGED <<machine, held, bootstrapped, queue, locals, asking, boot, panel, history>>
    BY <1>2 DEF ProbeStep, Upgrade, ReadRow, Downgrade
  <2>4. QED BY <2>1, <2>2, <2>3 DEF TypeOK
<1>3. QED BY <1>1, <1>2

LEMMA TypeOfProcess ==
    ASSUME CatalogAssumption, TypeOK, Start \/ Stop \/ Exit \/ Crash
    PROVE  TypeOK'
<1> USE DEF database, queue, locals, history
<1>0. MaxCuts \in Nat
  BY DEF CatalogAssumption
<1>1. CASE Start
  <2>1. job' \in [Id -> Queue!State] /\ hands' = hands
    BY <1>1 DEF Start, Queue!TakeUpAgain, Queue!State, TypeOK
  <2>2. row' \in [App -> RowStatus] /\ error' \in [App -> {"none", "restarted", "reason"}]
    BY <1>1 DEF Start, TypeOK, RowStatus
  <2>3. /\ panel' = "up" /\ boot' \in {"none", "look"}
        /\ UNCHANGED <<machine, held, bootstrapped, kind, key, locals, probe, asking, history>>
    BY <1>1 DEF Start
  <2>4. QED BY <2>1, <2>2, <2>3 DEF TypeOK
<1>2. CASE Stop
  BY <1>0, <1>2 DEF Stop, TypeOK
<1>3. ASSUME Forget
      PROVE  /\ pc' \in [Worker -> {"idle", "start", "create", "mark", "steps", "probing", "verdict", "end"}]
             /\ batch' \in [Worker -> SUBSET App] /\ todo' \in [Worker -> SUBSET App]
             /\ okay' \in [Worker -> BOOLEAN] /\ probe' \in [Prober -> [App -> Probe]]
             /\ asking' \subseteq Requester /\ boot' = "none" /\ panel' = "down" /\ dropped' \in BOOLEAN
  BY <1>3 DEF Forget, NoProbes, Probe
<1>4. CASE Exit
  <2>1. Forget /\ UNCHANGED <<database, machine, queue, probes, cuts>>
    BY <1>4 DEF Exit
  <2>2. QED BY <1>3, <2>1 DEF TypeOK
<1>5. CASE Crash
  <2>1. /\ Forget /\ UNCHANGED <<database, machine, kind, key, probes>>
        /\ cuts < MaxCuts /\ cuts' = cuts + 1
    BY <1>5 DEF Crash
  <2>2. job' \in [Id -> Queue!State] /\ hands' \in [Worker -> SUBSET Id]
    BY <1>5 DEF Crash, Queue!LetGoAll, Queue!State, TypeOK
  <2>3. cuts' \in 0..MaxCuts
    BY <1>0, <2>1 DEF TypeOK
  <2>4. QED BY <1>3, <2>1, <2>2, <2>3 DEF TypeOK
<1>6. QED BY <1>1, <1>2, <1>4, <1>5

-----------------------------------------------------------------------------
(***************************************************************************)
(* Who has which job.                                                      *)
(***************************************************************************)
\* A job that was pushed is never new again, and its kind never changes.
LEMMA JobsStayPushed ==
    ASSUME CatalogAssumption, TypeOK, Employed, Next
    PROVE  \A j \in Id : job[j] # "new" => job'[j] # "new" /\ kind'[j] = kind[j]
<1> USE DEF queue
<1>1. ASSUME NEW what \in {"install", "uninstall"}, NEW app \in App, Push(what, app)
      PROVE  \A j \in Id : job[j] # "new" => job'[j] # "new" /\ kind'[j] = kind[j]
  BY <1>1, Pushed
<1>2. ASSUME UNCHANGED queue
      PROVE  \A j \in Id : job[j] # "new" => job'[j] # "new" /\ kind'[j] = kind[j]
  BY <1>2
<1>3. ASSUME NEW w \in Worker, Take(w) \/ End(w)
      PROVE  \A j \in Id : job[j] # "new" => job'[j] # "new" /\ kind'[j] = kind[j]
  BY <1>3 DEF Take, End, Queue!Take, Queue!Answer, TypeOK
<1>4. ASSUME Start \/ Crash
      PROVE  \A j \in Id : job[j] # "new" => job'[j] # "new" /\ kind'[j] = kind[j]
  BY <1>4 DEF Start, Crash, Queue!TakeUpAgain, Queue!LetGoAll
<1>5. ASSUME NEW r \in Requester, PushInstall(r)
      PROVE  \A j \in Id : job[j] # "new" => job'[j] # "new" /\ kind'[j] = kind[j]
  BY <1>1, <1>5, AnApp DEF PushInstall
<1>6. ASSUME NEW s \in App, RequestUninstall(s)
      PROVE  \A j \in Id : job[j] # "new" => job'[j] # "new" /\ kind'[j] = kind[j]
  BY <1>1, <1>6 DEF RequestUninstall
<1>7. ASSUME NEW keys, NEW force, NEW retry, RequestInstall(keys, force, retry) PROVE UNCHANGED queue
  BY <1>7 DEF RequestInstall
<1>8. ASSUME NEW w \in Worker,
             \/ ReadQueue(w) \/ CheckBlocked(w) \/ CreateTask(w) \/ Mark(w)
             \/ StepsEnd(w) \/ ProbesDone(w) \/ Verdict(w) \/ Apt(w)
      PROVE  UNCHANGED queue
  BY <1>8 DEF ReadQueue, CheckBlocked, CreateTask, Mark, StepsEnd, ProbesDone, Verdict, Apt
<1>9. ASSUME \/ BootLook \/ BootNote \/ PageProbe \/ Stop \/ Exit
             \/ \E s \in App : Fill(s) \/ Empty(s)
             \/ \E p \in Prober, s \in App : ProbeStep(p, s)
      PROVE  UNCHANGED queue
  BY <1>9 DEF BootLook, BootNote, PageProbe, Stop, Exit, Fill, Empty, ProbeStep, Upgrade, ReadRow, Downgrade
<1>10. QED
  BY <1>2, <1>3, <1>4, <1>5, <1>6, <1>7, <1>8, <1>9
     DEF Next, servicesInstallMany, mcpInstallApps, servicesInstallOne, servicesRetry, mcpRetryApp,
         servicesUninstall, mcpUninstallApp, HandlerStep, servicesDetect, mcpDetectApps

LEMMA InstallsKept ==
    ASSUME CatalogAssumption, TypeOK, Employed, Next,
           NEW w \in Worker, hands[w] # {}, hands'[w] = hands[w]
    PROVE  Installs(w)' <=> Installs(w)
<1>1. JobOf(w)' = JobOf(w) /\ JobOf(w) \in Id /\ job[JobOf(w)] # "new"
  BY SameJob, JobInHand
<1>2. kind'[JobOf(w)'] = kind[JobOf(w)]
  BY <1>1, JobsStayPushed
<1>3. QED BY <1>2 DEF Installs

\* Only the handlers and the end of the process touch what a worker has.
LEMMA Elsewhere ==
    ASSUME Next
    PROVE  \/ UNCHANGED <<pc, batch, todo, hands>> /\ (panel' = "down" => panel = "down")
           \/ \E w \in Worker : HandlerStep(w)
           \/ Exit \/ Crash
<1> USE DEF queue, locals
<1>1. ASSUME NEW keys, NEW force, NEW retry, RequestInstall(keys, force, retry)
      PROVE  UNCHANGED <<pc, batch, todo, hands>> /\ (panel' = "down" => panel = "down")
  BY <1>1 DEF RequestInstall
<1>2. ASSUME NEW s \in App, RequestUninstall(s)
      PROVE  UNCHANGED <<pc, batch, todo, hands>> /\ (panel' = "down" => panel = "down")
  BY <1>2 DEF RequestUninstall, Push, Queue!Submit
<1>3. ASSUME NEW r \in Requester, PushInstall(r)
      PROVE  UNCHANGED <<pc, batch, todo, hands>> /\ (panel' = "down" => panel = "down")
  BY <1>3 DEF PushInstall, Push, Queue!Submit
<1>4. ASSUME \/ BootLook \/ BootNote \/ PageProbe \/ Start \/ Stop
             \/ \E s \in App : Fill(s) \/ Empty(s)
             \/ \E p \in Prober, s \in App : ProbeStep(p, s)
             \/ \E w \in Worker : Apt(w)
      PROVE  UNCHANGED <<pc, batch, todo, hands>> /\ (panel' = "down" => panel = "down")
  BY <1>4 DEF BootLook, BootNote, PageProbe, Start, Stop, Queue!TakeUpAgain, Fill, Empty, ProbeStep,
              Upgrade, ReadRow, Downgrade, Apt
<1>5. QED
  BY <1>1, <1>2, <1>3, <1>4
     DEF Next, servicesInstallMany, mcpInstallApps, servicesInstallOne, servicesRetry, mcpRetryApp,
         servicesUninstall, mcpUninstallApp, servicesDetect, mcpDetectApps

\* An active job stays active unless its worker answers or the process dies.
LEMMA ActiveStays ==
    ASSUME CatalogAssumption, TypeOK, Employed, Next,
           ~Crash, NEW j \in Id, job[j] = "active", \A w \in Worker : End(w) => j # JobOf(w)
    PROVE  job'[j] = "active"
<1> USE DEF queue
<1>1. ASSUME NEW what \in {"install", "uninstall"}, NEW app \in App, Push(what, app)
      PROVE  job'[j] = "active"
  BY <1>1, Pushed
<1>2. ASSUME NEW r \in Requester, PushInstall(r) PROVE job'[j] = "active"
  BY <1>1, <1>2, AnApp DEF PushInstall
<1>3. ASSUME NEW s \in App, RequestUninstall(s) PROVE job'[j] = "active"
  BY <1>1, <1>3 DEF RequestUninstall
<1>4. ASSUME NEW w \in Worker, Take(w) \/ End(w) PROVE job'[j] = "active"
  BY <1>4 DEF Take, End, Queue!Take, Queue!Answer, TypeOK
<1>5. ASSUME Start PROVE job'[j] = "active"
  BY <1>5 DEF Start, Queue!TakeUpAgain
<1>6. ASSUME NEW keys, NEW force, NEW retry, RequestInstall(keys, force, retry) PROVE UNCHANGED job
  BY <1>6 DEF RequestInstall
<1>7. ASSUME NEW w \in Worker,
             \/ ReadQueue(w) \/ CheckBlocked(w) \/ CreateTask(w) \/ Mark(w)
             \/ StepsEnd(w) \/ ProbesDone(w) \/ Verdict(w) \/ Apt(w)
      PROVE  UNCHANGED job
  BY <1>7 DEF ReadQueue, CheckBlocked, CreateTask, Mark, StepsEnd, ProbesDone, Verdict, Apt
<1>8. ASSUME \/ BootLook \/ BootNote \/ PageProbe \/ Stop \/ Exit
             \/ \E s \in App : Fill(s) \/ Empty(s)
             \/ \E p \in Prober, s \in App : ProbeStep(p, s)
      PROVE  UNCHANGED job
  BY <1>8 DEF BootLook, BootNote, PageProbe, Stop, Exit, Fill, Empty, ProbeStep, Upgrade, ReadRow, Downgrade
<1>9. QED
  BY <1>2, <1>3, <1>4, <1>5, <1>6, <1>7, <1>8
     DEF Next, servicesInstallMany, mcpInstallApps, servicesInstallOne, servicesRetry, mcpRetryApp,
         servicesUninstall, mcpUninstallApp, HandlerStep, servicesDetect, mcpDetectApps

LEMMA EmployedStep ==
    ASSUME CatalogAssumption, TypeOK, Employed, Next
    PROVE  Employed'
<1>1. CASE UNCHANGED <<pc, batch, todo, hands>> /\ (panel' = "down" => panel = "down")
  <2>0. ~Crash \/ \A w \in Worker : hands[w] = {}
    BY <1>1 DEF Crash, Queue!LetGoAll
  <2>1. ASSUME NEW w \in Worker, hands'[w] # {} PROVE \E j \in Id : hands'[w] = {j} /\ job'[j] = "active"
    <3>1. PICK j \in Id : hands[w] = {j} /\ job[j] = "active"
      BY <1>1, <2>1 DEF Employed
    <3>2. ASSUME NEW v \in Worker, End(v), j = JobOf(v) PROVE FALSE
      <4>1. pc[v] = "end" /\ pc'[v] = "idle"
        BY <3>2 DEF End, TypeOK
      <4>2. QED BY <1>1, <4>1
    <3>3. job'[j] = "active"
      BY <1>1, <2>0, <2>1, <3>1, <3>2, ActiveStays
    <3>4. QED BY <1>1, <3>1, <3>3
  <2>2. QED BY <1>1, <2>1 DEF Employed
<1>2. ASSUME NEW w \in Worker, HandlerStep(w) PROVE Employed'
  <2>1. CASE Take(w)
    <3>1. PICK j \in Id : /\ job[j] = "waiting" /\ hands[w] = {} /\ job' = [job EXCEPT ![j] = "active"]
                          /\ hands' = [hands EXCEPT ![w] = {j}]
      BY <2>1 DEF Take, Queue!Take
    <3>2. pc' = [pc EXCEPT ![w] = "start"] /\ panel' = panel /\ panel = "up"
      BY <2>1 DEF Take
    <3>3. \A v \in Worker \ {w} : hands'[v] = hands[v] /\ pc'[v] = pc[v] /\ j \notin hands[v]
      BY <3>1, <3>2 DEF TypeOK, Employed
    <3>4. hands'[w] = {j} /\ pc'[w] = "start" /\ job'[j] = "active"
      BY <3>1, <3>2 DEF TypeOK
    <3>5. \A i \in Id : job[i] = "active" => job'[i] = "active"
      BY <3>1 DEF TypeOK
    <3>6. QED BY <3>1, <3>2, <3>3, <3>4, <3>5 DEF Employed
  <2>2. CASE End(w)
    <3>1. /\ JobOf(w) \in Id /\ hands[w] = {JobOf(w)} /\ hands' = [hands EXCEPT ![w] = {}]
          /\ pc' = [pc EXCEPT ![w] = "idle"] /\ panel' = panel
      BY <2>2, JobInHand DEF End, Queue!Answer, Employed
    <3>2. \A i \in Id \ {JobOf(w)} : job'[i] = job[i]
      BY <2>2 DEF End, Queue!Answer, TypeOK
    <3>3. \A v \in Worker \ {w} : hands'[v] = hands[v] /\ pc'[v] = pc[v] /\ JobOf(w) \notin hands[v]
      BY <3>1 DEF TypeOK, Employed
    <3>4. hands'[w] = {} /\ pc'[w] = "idle"
      BY <3>1 DEF TypeOK
    <3>5. QED BY <3>1, <3>2, <3>3, <3>4 DEF Employed
  <2>3. CASE \/ ReadQueue(w) \/ CheckBlocked(w) \/ CreateTask(w) \/ Mark(w)
             \/ StepsEnd(w) \/ ProbesDone(w) \/ Verdict(w)
    <3>1. UNCHANGED <<job, hands, panel>> /\ pc[w] # "idle" /\ pc'[w] # "idle"
      BY <2>3 DEF ReadQueue, CheckBlocked, CreateTask, Mark, StepsEnd, ProbesDone, Verdict, queue, TypeOK
    <3>2. \A v \in Worker \ {w} : pc'[v] = pc[v]
      BY <2>3 DEF ReadQueue, CheckBlocked, CreateTask, Mark, StepsEnd, ProbesDone, Verdict, TypeOK
    <3>3. QED BY <3>1, <3>2 DEF Employed
  <2>4. QED BY <1>2, <2>1, <2>2, <2>3 DEF HandlerStep
<1>3. CASE Exit \/ Crash
  <2>1. /\ pc' = [w \in Worker |-> "idle"] /\ \A w \in Worker : hands'[w] = {}
    BY <1>3 DEF Exit, Crash, Forget, Queue!LetGoAll, queue
  <2>2. QED BY <2>1 DEF Employed
<1>4. QED BY <1>1, <1>2, <1>3, Elsewhere

\* What another worker's step, or nobody's, leaves of a worker.
LEMMA OthersUntouched ==
    ASSUME CatalogAssumption, TypeOK, Employed, Next, NEW v \in Worker,
           \/ UNCHANGED <<pc, batch, todo, hands>>
           \/ \E w \in Worker \ {v} : HandlerStep(w)
    PROVE  /\ pc'[v] = pc[v] /\ batch'[v] = batch[v] /\ todo'[v] = todo[v] /\ hands'[v] = hands[v]
           /\ hands[v] # {} => (Installs(v)' <=> Installs(v))
<1> USE DEF queue, locals
<1>1. /\ pc'[v] = pc[v] /\ batch'[v] = batch[v] /\ todo'[v] = todo[v] /\ hands'[v] = hands[v]
  <2>1. CASE UNCHANGED <<pc, batch, todo, hands>>
    BY <2>1
  <2>2. ASSUME NEW w \in Worker \ {v}, HandlerStep(w)
        PROVE  /\ pc'[v] = pc[v] /\ batch'[v] = batch[v] /\ todo'[v] = todo[v] /\ hands'[v] = hands[v]
    <3>1. CASE Take(w) \/ End(w)
      BY <3>1 DEF Take, End, Queue!Take, Queue!Answer, TypeOK
    <3>2. CASE ReadQueue(w) \/ CheckBlocked(w) \/ CreateTask(w)
      BY <3>2 DEF ReadQueue, CheckBlocked, CreateTask, TypeOK
    <3>3. CASE Mark(w) \/ StepsEnd(w) \/ ProbesDone(w) \/ Verdict(w)
      BY <3>3 DEF Mark, StepsEnd, ProbesDone, Verdict, TypeOK
    <3>4. QED BY <2>2, <3>1, <3>2, <3>3 DEF HandlerStep
  <2>3. QED BY <2>1, <2>2
<1>2. QED BY <1>1, InstallsKept

LEMMA WithinBatchStep ==
    ASSUME CatalogAssumption, TypeOK, Employed, WithinBatch, Next
    PROVE  WithinBatch'
<1> USE DEF queue, locals
<1> SUFFICES ASSUME NEW v \in Worker
             PROVE  /\ pc'[v] \in {"mark", "verdict"} => todo'[v] \subseteq batch'[v]
                    /\ pc'[v] = "mark" => Installs(v)'
  BY DEF WithinBatch
<1>1. CASE \/ UNCHANGED <<pc, batch, todo, hands>>
           \/ \E w \in Worker \ {v} : HandlerStep(w)
  BY <1>1, OthersUntouched DEF WithinBatch, Employed
<1>2. CASE HandlerStep(v)
  <2>1. CASE \/ Take(v) \/ ReadQueue(v) \/ CheckBlocked(v) \/ StepsEnd(v) \/ End(v)
    BY <2>1 DEF Take, ReadQueue, CheckBlocked, StepsEnd, End, TypeOK
  <2>2. CASE CreateTask(v)
    <3>1. hands[v] # {} /\ hands'[v] = hands[v]
      BY <2>2 DEF CreateTask, Employed
    <3>2. QED BY <2>2, <3>1, InstallsKept DEF CreateTask, TypeOK
  <2>3. CASE Mark(v)
    <3>1. hands[v] # {} /\ hands'[v] = hands[v] /\ pc[v] = "mark"
      BY <2>3 DEF Mark, Employed
    <3>2. todo'[v] \subseteq todo[v] /\ batch' = batch
      BY <2>3 DEF Mark, TypeOK
    <3>3. QED BY <3>1, <3>2, InstallsKept DEF WithinBatch
  <2>4. CASE ProbesDone(v)
    BY <2>4 DEF ProbesDone, TypeOK
  <2>5. CASE Verdict(v)
    <3>1. pc[v] = "verdict" /\ pc'[v] # "mark"
      BY <2>5 DEF Verdict, TypeOK
    <3>2. todo'[v] \subseteq todo[v] /\ batch' = batch
      BY <2>5 DEF Verdict, TypeOK
    <3>3. QED BY <3>1, <3>2 DEF WithinBatch
  <2>6. QED BY <1>2, <2>1, <2>2, <2>3, <2>4, <2>5 DEF HandlerStep
<1>3. CASE Exit \/ Crash
  BY <1>3 DEF Exit, Crash, Forget
<1>4. QED BY <1>1, <1>2, <1>3, Elsewhere

-----------------------------------------------------------------------------
(***************************************************************************)
(* Rows: how one comes to be installing, and how one comes to be queued.   *)
(***************************************************************************)
LEMMA RowMoves ==
    ASSUME CatalogAssumption, TypeOK, Employed, Next, NEW s \in App
    PROVE  /\ row'[s] = "installing" => \/ row[s] = "installing" /\ ~Start
                                       \/ \E w \in Worker : Mark(w) /\ s \in todo[w]
           /\ row'[s] = "queued" => row[s] = "queued" \/ asking' # {}
<1> USE DEF database
<1> DEFINE Moves == /\ row'[s] = "installing" =>
                           \/ row[s] = "installing" /\ ~Start
                           \/ \E w \in Worker : Mark(w) /\ s \in todo[w]
                    /\ row'[s] = "queued" => row[s] = "queued" \/ asking' # {}
<1>1. ASSUME NEW apps, QueueServices(apps), asking' # {}, ~Start PROVE Moves
  BY <1>1 DEF QueueServices, TypeOK
<1>2. ASSUME NEW keys, NEW force, NEW retry, RequestInstall(keys, force, retry) PROVE Moves
  <2>1. QueueServices(Moved(WithDependencies(keys), force \/ retry)) /\ asking' # {} /\ ~Start
    BY <1>2 DEF RequestInstall, Start
  <2>2. QED BY <1>1, <2>1
<1>3. CASE BootLook
  <2>1. panel # "down"
    BY <1>3 DEF BootLook
  <2>2. CASE UNCHANGED row
    BY <2>1, <2>2 DEF Start
  <2>3. CASE QueueServices(Moved(App, FALSE)) /\ asking' = asking \cup {"boot"}
    BY <1>1, <2>1, <2>3 DEF Start
  <2>4. QED BY <1>3, <2>2, <2>3 DEF BootLook
<1>4. CASE Start
  BY <1>4 DEF Start, ResetInstalling, TypeOK
<1>5. ASSUME NEW t \in App, NEW status \in {"installed", "failed", "not_installed"},
             NEW reason \in {"none", "reason"}, SetServiceStatus(t, status, reason), ~Start
      PROVE  Moves
  BY <1>5, SetRow DEF RowStatus
<1>6. ASSUME UNCHANGED row, ~Start PROVE Moves
  BY <1>6
<1>7. ASSUME NEW w \in Worker, HandlerStep(w) \/ Apt(w) PROVE Moves
  <2>0. ~Start
    BY <1>7 DEF Employed, Start, HandlerStep, Take, ReadQueue, CheckBlocked, CreateTask, Mark, StepsEnd,
                ProbesDone, Verdict, End, Apt
  <2>1. CASE Mark(w)
    <3>1. PICK t \in todo[w] : SetServiceStatus(t, "installing", "none")
      BY <2>1 DEF Mark
    <3>2. t \in App
      BY DEF TypeOK
    <3>3. row'[t] = "installing" /\ \A u \in App \ {t} : row'[u] = row[u]
      BY <3>1, <3>2, SetRow DEF RowStatus
    <3>4. QED BY <2>0, <2>1, <3>3
  <2>2. CASE CheckBlocked(w)
    <3>1. key[JobOf(w)] \in App
      BY <2>2, JobInHand DEF CheckBlocked, Employed, TypeOK
    <3>2. QED BY <1>5, <1>6, <2>0, <2>2, <3>1 DEF CheckBlocked
  <2>3. CASE Verdict(w)
    <3>1. PICK t \in todo[w] : Judge(w, t)
      BY <2>3 DEF Verdict
    <3>2. t \in App
      BY DEF TypeOK
    <3>3. QED BY <1>5, <1>6, <2>0, <3>1, <3>2 DEF Judge
  <2>4. CASE \/ Take(w) \/ ReadQueue(w) \/ CreateTask(w) \/ StepsEnd(w) \/ ProbesDone(w)
             \/ End(w) \/ Apt(w)
    BY <1>6, <2>0, <2>4 DEF Take, ReadQueue, CreateTask, StepsEnd, ProbesDone, End, Apt
  <2>5. QED BY <1>7, <2>1, <2>2, <2>3, <2>4 DEF HandlerStep
<1>8. ASSUME NEW p \in Prober, NEW t \in App, ProbeStep(p, t), ~Start PROVE Moves
  BY <1>5, <1>6, <1>8 DEF ProbeStep, Upgrade, ReadRow, Downgrade
<1>9. ASSUME \/ \E r \in Requester : PushInstall(r)
             \/ \E t \in App : RequestUninstall(t) \/ Fill(t) \/ Empty(t)
             \/ BootNote \/ PageProbe \/ Stop \/ Exit \/ Crash
      PROVE  UNCHANGED row
  BY <1>9 DEF PushInstall, RequestUninstall, Fill, Empty, BootNote, PageProbe, Stop, Exit, Crash
<1>10. QED
  BY <1>2, <1>3, <1>4, <1>6, <1>7, <1>8, <1>9
     DEF Next, servicesInstallMany, mcpInstallApps, servicesInstallOne, servicesRetry, mcpRetryApp,
         servicesUninstall, mcpUninstallApp, servicesDetect, mcpDetectApps

\* Taking one away from what is left: the code's test for the last.
LEMMA LastOne ==
    ASSUME CatalogAssumption, TypeOK, NEW w \in Worker, NEW s \in todo[w], NEW t \in todo[w], s # t
    PROVE  Cardinality(todo[w]) # 1
<1>1. todo[w] \subseteq App /\ IsFiniteSet(todo[w])
  BY FS_Subset DEF TypeOK, CatalogAssumption
<1>2. SUFFICES ASSUME Cardinality(todo[w]) = 1 PROVE FALSE
  OBVIOUS
<1>3. PICK x : todo[w] = {x}
  BY <1>1, <1>2, FS_Singleton
<1>4. QED BY <1>3

-----------------------------------------------------------------------------
(***************************************************************************)
(* A row that is being installed has a worker that will judge it.          *)
(***************************************************************************)
LEMMA InstallerStep ==
    ASSUME CatalogAssumption, TypeOK, Employed, WithinBatch, InstallerInstalls, Next
    PROVE  InstallerInstalls'
<1> USE DEF queue, locals
<1> SUFFICES ASSUME panel' # "down", NEW s \in App, row'[s] = "installing"
             PROVE  \E w \in Worker : Installer(w, s)'
  BY DEF InstallerInstalls
<1>1. ASSUME NEW w \in Worker, Mark(w), s \in todo[w] PROVE Installer(w, s)'
  <2>1. pc[w] = "mark" /\ hands[w] # {} /\ hands'[w] = hands[w] /\ batch'[w] = batch[w]
    BY <1>1 DEF Mark, Employed
  <2>2. pc'[w] \in {"mark", "steps"}
    BY <1>1 DEF Mark, TypeOK
  <2>3. s \in batch[w] /\ Installs(w)
    BY <1>1, <2>1 DEF WithinBatch
  <2>4. Installs(w)'
    BY <2>1, <2>3, InstallsKept
  <2>5. QED BY <2>1, <2>2, <2>3, <2>4 DEF Installer
<1>2. CASE row[s] = "installing" /\ ~Start
  <2>1. panel # "down"
    BY <1>2 DEF Next, Start, Employed, servicesInstallMany, mcpInstallApps, servicesInstallOne,
                servicesRetry, mcpRetryApp, RequestInstall, servicesUninstall, mcpUninstallApp,
                RequestUninstall, Fill, Empty, PushInstall, BootLook, BootNote, HandlerStep, Take,
                ReadQueue, CheckBlocked, CreateTask, Mark, StepsEnd, ProbesDone, Verdict, End, Apt,
                servicesDetect, mcpDetectApps, PageProbe, ProbeStep, Upgrade, ReadRow, Downgrade,
                Stop, Exit, Crash, history
  <2>2. PICK w \in Worker : Installer(w, s)
    BY <1>2, <2>1 DEF InstallerInstalls
  <2>3. hands[w] # {} /\ pc[w] # "idle"
    BY <2>2 DEF Installer, Employed
  <2>4. CASE \/ UNCHANGED <<pc, batch, todo, hands>>
             \/ \E v \in Worker \ {w} : HandlerStep(v)
    <3>1. /\ pc'[w] = pc[w] /\ batch'[w] = batch[w] /\ todo'[w] = todo[w]
          /\ Installs(w)' <=> Installs(w)
      BY <2>3, <2>4, OthersUntouched
    <3>2. Installer(w, s)'
      BY <2>2, <3>1 DEF Installer
    <3>3. QED BY <3>2
  <2>5. CASE HandlerStep(w)
    <3>1. ASSUME Mark(w) \/ StepsEnd(w) \/ ProbesDone(w) PROVE Installer(w, s)'
      <4>1. hands'[w] = hands[w] /\ batch'[w] = batch[w]
        BY <3>1 DEF Mark, StepsEnd, ProbesDone
      <4>2. \/ pc'[w] \in {"mark", "steps", "probing"}
            \/ pc'[w] = "verdict" /\ todo'[w] = batch[w]
        BY <3>1 DEF Mark, StepsEnd, ProbesDone, TypeOK
      <4>3. Installs(w)'
        BY <2>2, <2>3, <4>1, InstallsKept DEF Installer
      <4>4. QED BY <2>2, <4>1, <4>2, <4>3 DEF Installer
    <3>2. ASSUME Verdict(w) PROVE Installer(w, s)'
      <4>1. PICK t \in todo[w] : Judge(w, t) /\ todo' = [todo EXCEPT ![w] = @ \ {t}]
        BY <3>2 DEF Verdict
      <4>2. s \in todo[w] /\ s \in batch[w] /\ Installs(w) /\ pc[w] = "verdict"
        BY <2>2, <3>2 DEF Installer, Verdict
      <4>3. t # s
        <5>1. SUFFICES ASSUME t = s PROVE FALSE
          OBVIOUS
        <5>2. SetServiceStatus(s, "failed", "reason")
          BY <1>2, <4>1, <4>2, <5>1 DEF Judge
        <5>3. row'[s] = "failed"
          BY <5>2, SetRow DEF RowStatus
        <5>4. QED BY <5>3
      <4>4. Cardinality(todo[w]) # 1
        BY <4>1, <4>2, <4>3, LastOne
      <4>5. pc'[w] = "verdict" /\ s \in todo'[w] /\ batch'[w] = batch[w] /\ hands'[w] = hands[w]
        BY <3>2, <4>1, <4>2, <4>3, <4>4 DEF Verdict, TypeOK
      <4>6. Installs(w)'
        BY <2>3, <4>2, <4>5, InstallsKept
      <4>7. QED BY <4>2, <4>5, <4>6 DEF Installer
    <3>3. ~(Take(w) \/ ReadQueue(w) \/ CheckBlocked(w) \/ CreateTask(w) \/ End(w))
      BY <2>2 DEF Installer, Take, ReadQueue, CheckBlocked, CreateTask, End
    <3>4. QED BY <2>5, <3>1, <3>2, <3>3 DEF HandlerStep
  <2>6. ~Exit /\ ~Crash
    BY DEF Exit, Crash, Forget
  <2>7. QED BY <2>4, <2>5, <2>6, Elsewhere
<1>3. QED BY <1>1, <1>2, RowMoves

-----------------------------------------------------------------------------
(***************************************************************************)
(* A row that is queued has an install on its way.                         *)
(***************************************************************************)
\* A request's push, or its loss.
LEMMA AskingEnds ==
    ASSUME CatalogAssumption, TypeOK, Next, asking # {}, asking' = {}, ~dropped'
    PROVE  \E j \in Id : kind'[j] = "install" /\ job'[j] = "waiting"
<1>1. ASSUME NEW r \in Requester, PushInstall(r)
      PROVE  \E j \in Id : kind'[j] = "install" /\ job'[j] = "waiting"
  BY <1>1, AnApp, Pushed DEF PushInstall
<1>2. ~Exit /\ ~Crash
  BY DEF Exit, Crash, Forget
<1>3. ASSUME NEW w \in Worker, HandlerStep(w) \/ Apt(w) PROVE asking' = asking
  BY <1>3 DEF HandlerStep, Take, ReadQueue, CheckBlocked, CreateTask, Mark, StepsEnd,
              ProbesDone, Verdict, End, Apt
<1>4. ASSUME NEW keys, NEW force, NEW retry, RequestInstall(keys, force, retry) PROVE asking' # {}
  BY <1>4 DEF RequestInstall
<1>5. ASSUME \/ BootLook \/ BootNote \/ PageProbe \/ Start \/ Stop
             \/ \E t \in App : RequestUninstall(t) \/ Fill(t) \/ Empty(t)
             \/ \E p \in Prober, t \in App : ProbeStep(p, t)
      PROVE  asking \subseteq asking'
  BY <1>5 DEF BootLook, BootNote, PageProbe, Start, Stop, RequestUninstall, Fill, Empty, ProbeStep,
              Upgrade, ReadRow, Downgrade
<1>6. QED
  BY <1>1, <1>2, <1>3, <1>4, <1>5
     DEF Next, servicesInstallMany, mcpInstallApps, servicesInstallOne, servicesRetry, mcpRetryApp,
         servicesUninstall, mcpUninstallApp, servicesDetect, mcpDetectApps

LEMMA DroppedStays == ASSUME Next, dropped PROVE dropped'
<1> USE DEF history
<1>1. ASSUME NEW w \in Worker, HandlerStep(w) \/ Apt(w) PROVE dropped'
  BY <1>1 DEF HandlerStep, Take, ReadQueue, CheckBlocked, CreateTask, Mark, StepsEnd,
              ProbesDone, Verdict, End, Apt
<1>2. ASSUME NEW keys, NEW force, NEW retry, RequestInstall(keys, force, retry) PROVE dropped'
  BY <1>2 DEF RequestInstall
<1>3. ASSUME \/ BootLook \/ BootNote \/ PageProbe \/ Start \/ Stop \/ Exit \/ Crash
             \/ \E t \in App : RequestUninstall(t) \/ Fill(t) \/ Empty(t)
             \/ \E p \in Prober, t \in App : ProbeStep(p, t)
             \/ \E r \in Requester : PushInstall(r)
      PROVE  dropped'
  BY <1>3 DEF BootLook, BootNote, PageProbe, Start, Stop, Exit, Crash, Forget, RequestUninstall, Fill,
              Empty, ProbeStep, Upgrade, ReadRow, Downgrade, PushInstall
<1>4. QED
  BY <1>1, <1>2, <1>3
     DEF Next, servicesInstallMany, mcpInstallApps, servicesInstallOne, servicesRetry, mcpRetryApp,
         servicesUninstall, mcpUninstallApp, servicesDetect, mcpDetectApps

\* A job that waits or was abandoned does so until a worker takes it.
LEMMA WaitingStays ==
    ASSUME CatalogAssumption, TypeOK, Employed, Next, NEW j \in Id, job[j] \in {"waiting", "abandoned"}
    PROVE  \/ job'[j] \in {"waiting", "abandoned"}
           \/ \E w \in Worker : Take(w) /\ hands'[w] = {j} /\ pc'[w] = "start"
<1> USE DEF queue
<1>1. ASSUME NEW what \in {"install", "uninstall"}, NEW app \in App, Push(what, app)
      PROVE  job'[j] = job[j]
  BY <1>1, Pushed
<1>2. ASSUME NEW r \in Requester, PushInstall(r) PROVE job'[j] = job[j]
  BY <1>1, <1>2, AnApp DEF PushInstall
<1>3. ASSUME NEW s \in App, RequestUninstall(s) PROVE job'[j] = job[j]
  BY <1>1, <1>3 DEF RequestUninstall
<1>4. ASSUME NEW w \in Worker, Take(w)
      PROVE  job'[j] = job[j] \/ (hands'[w] = {j} /\ pc'[w] = "start")
  BY <1>4 DEF Take, Queue!Take, TypeOK
<1>5. ASSUME NEW w \in Worker, End(w) PROVE job'[j] = job[j]
  <2>1. JobOf(w) \in Id /\ job[JobOf(w)] = "active"
    BY <1>5, JobInHand DEF End, Employed
  <2>2. QED BY <1>5, <2>1 DEF End, Queue!Answer, TypeOK
<1>6. ASSUME Start \/ Crash PROVE job'[j] \in {"waiting", "abandoned"}
  BY <1>6 DEF Start, Crash, Queue!TakeUpAgain, Queue!LetGoAll
<1>7. ASSUME NEW keys, NEW force, NEW retry, RequestInstall(keys, force, retry) PROVE UNCHANGED job
  BY <1>7 DEF RequestInstall
<1>8. ASSUME NEW w \in Worker,
             \/ ReadQueue(w) \/ CheckBlocked(w) \/ CreateTask(w) \/ Mark(w)
             \/ StepsEnd(w) \/ ProbesDone(w) \/ Verdict(w) \/ Apt(w)
      PROVE  UNCHANGED job
  BY <1>8 DEF ReadQueue, CheckBlocked, CreateTask, Mark, StepsEnd, ProbesDone, Verdict, Apt
<1>9. ASSUME \/ BootLook \/ BootNote \/ PageProbe \/ Stop \/ Exit
             \/ \E s \in App : Fill(s) \/ Empty(s)
             \/ \E p \in Prober, s \in App : ProbeStep(p, s)
      PROVE  UNCHANGED job
  BY <1>9 DEF BootLook, BootNote, PageProbe, Stop, Exit, Fill, Empty, ProbeStep, Upgrade, ReadRow, Downgrade
<1>10. QED
  BY <1>2, <1>3, <1>4, <1>5, <1>6, <1>7, <1>8, <1>9
     DEF Next, servicesInstallMany, mcpInstallApps, servicesInstallOne, servicesRetry, mcpRetryApp,
         servicesUninstall, mcpUninstallApp, HandlerStep, servicesDetect, mcpDetectApps

\* An install that has yet to read the queue, or to mark a row it read.
Ahead(w, s) ==
    /\ hands[w] # {} /\ Installs(w)
    /\ \/ pc[w] = "start"
       \/ pc[w] = "create" /\ s \in batch[w]
       \/ pc[w] = "mark" /\ s \in todo[w]

\* What a worker's own step makes of that, while the row stays queued and
\* nothing is dropped.
LEMMA AheadStays ==
    ASSUME CatalogAssumption, TypeOK, Employed, Next, NEW w \in Worker, NEW s \in App,
           Ahead(w, s), HandlerStep(w), row[s] = "queued", row'[s] = "queued", ~dropped'
    PROVE  Ahead(w, s)'
<1> USE DEF queue, locals
<1>0. panel # "down"
  BY DEF Employed, Ahead
<1>1. ~(Take(w) \/ CheckBlocked(w) \/ StepsEnd(w) \/ ProbesDone(w) \/ Verdict(w) \/ End(w))
  BY DEF Ahead, Take, CheckBlocked, StepsEnd, ProbesDone, Verdict, End
<1>2. ASSUME hands'[w] = hands[w] PROVE hands'[w] # {} /\ Installs(w)'
  BY <1>2, InstallsKept DEF Ahead
<1>3. CASE ReadQueue(w)
  <2>1. panel = "up"
    BY <1>0, <1>3 DEF ReadQueue, TypeOK
  <2>2. s \in QueuedServices
    BY <2>1 DEF QueuedServices
  <2>3. hands'[w] = hands[w] /\ pc'[w] = "create" /\ s \in batch'[w]
    BY <1>3, <2>2 DEF ReadQueue, TypeOK
  <2>4. QED BY <1>2, <2>3 DEF Ahead
<1>4. CASE CreateTask(w)
  <2>1. pc[w] = "create" /\ s \in batch[w] /\ Installs(w)
    BY <1>4 DEF CreateTask, Ahead
  <2>2. hands'[w] = hands[w] /\ pc'[w] = "mark" /\ s \in todo'[w]
    BY <1>4, <2>1 DEF CreateTask, TypeOK
  <2>3. QED BY <1>2, <2>2 DEF Ahead
<1>5. CASE Mark(w)
  <2>1. PICK t \in todo[w] : /\ SetServiceStatus(t, "installing", "none")
                             /\ todo' = [todo EXCEPT ![w] = @ \ {t}]
    BY <1>5 DEF Mark
  <2>2. t \in App /\ s \in todo[w]
    BY <1>5 DEF TypeOK, Mark, Ahead
  <2>3. t # s
    BY <2>1, <2>2, SetRow DEF RowStatus
  <2>4. Cardinality(todo[w]) # 1
    BY <2>1, <2>2, <2>3, LastOne
  <2>5. hands'[w] = hands[w] /\ pc'[w] = "mark" /\ s \in todo'[w]
    BY <1>5, <2>1, <2>2, <2>3, <2>4 DEF Mark, TypeOK
  <2>6. QED BY <1>2, <2>5 DEF Ahead
<1>6. QED BY <1>1, <1>3, <1>4, <1>5 DEF HandlerStep

LEMMA QueuedStep ==
    ASSUME CatalogAssumption, TypeOK, Employed, QueuedHasInstaller, Next
    PROVE  QueuedHasInstaller'
<1> USE DEF queue, locals
<1> DEFINE Covered(s) == \/ asking # {}
                         \/ \E j \in Id : kind[j] = "install" /\ job[j] \in {"waiting", "abandoned"}
                         \/ \E w \in Worker : Ahead(w, s)
<1>1. SUFFICES ASSUME ~dropped', NEW s \in App, row'[s] = "queued", asking' = {} PROVE Covered(s)'
  BY DEF QueuedHasInstaller, Ahead
<1>2. row[s] = "queued" /\ ~dropped
  BY <1>1, RowMoves, DroppedStays
<1>3. Covered(s)
  BY <1>2 DEF QueuedHasInstaller, Ahead
<1>4. CASE asking # {}
  BY <1>1, <1>4, AskingEnds
<1>5. ASSUME NEW j \in Id, kind[j] = "install", job[j] \in {"waiting", "abandoned"} PROVE Covered(s)'
  <2>1. kind'[j] = "install"
    BY <1>5, JobsStayPushed
  <2>2. CASE job'[j] \in {"waiting", "abandoned"}
    BY <2>1, <2>2
  <2>3. ASSUME NEW w \in Worker, hands'[w] = {j}, pc'[w] = "start" PROVE Ahead(w, s)'
    <3>1. JobOf(w)' = j
      BY <2>3 DEF JobOf
    <3>2. QED BY <2>1, <2>3, <3>1 DEF Ahead, Installs
  <2>4. QED BY <1>5, <2>2, <2>3, WaitingStays
<1>6. ASSUME NEW w \in Worker, Ahead(w, s) PROVE Covered(s)'
  <2>1. CASE \/ UNCHANGED <<pc, batch, todo, hands>>
             \/ \E v \in Worker \ {w} : HandlerStep(v)
    <3>1. Ahead(w, s)'
      BY <1>6, <2>1, OthersUntouched DEF Ahead
    <3>2. QED BY <3>1
  <2>2. CASE HandlerStep(w)
    BY <1>1, <1>2, <1>6, <2>2, AheadStays
  <2>3. ~Exit
    BY <1>6 DEF Exit, Ahead
  <2>4. CASE Crash
    <3>1. JobOf(w) \in Id /\ hands[w] = {JobOf(w)} /\ job[JobOf(w)] # "new" /\ kind[JobOf(w)] = "install"
      BY <1>6, JobInHand DEF Ahead, Installs
    <3>2. job'[JobOf(w)] = "abandoned"
      BY <2>4, <3>1 DEF Crash, Queue!LetGoAll
    <3>3. kind'[JobOf(w)] = "install"
      BY <3>1, JobsStayPushed
    <3>4. QED BY <3>1, <3>2, <3>3
  <2>5. QED BY <2>1, <2>2, <2>3, <2>4, Elsewhere
<1>7. QED BY <1>3, <1>4, <1>5, <1>6

-----------------------------------------------------------------------------
(***************************************************************************)
(* The theorems.                                                           *)
(***************************************************************************)
LEMMA CatalogFirst == Init => CatalogInv
<1> SUFFICES ASSUME Init PROVE CatalogInv
  OBVIOUS
<1>1. TypeOK
  BY TypeFirst
<1>2. Employed
  BY DEF Init, Queue!Init, Employed
<1>3. WithinBatch
  BY DEF Init, WithinBatch
<1>4. InstallerInstalls
  BY DEF Init, InstallerInstalls
<1>5. QueuedHasInstaller
  BY DEF Init, QueuedHasInstaller
<1>6. QED BY <1>1, <1>2, <1>3, <1>4, <1>5 DEF CatalogInv

LEMMA CatalogNext == CatalogInv /\ [Next]_vars => CatalogInv'
<1> SUFFICES ASSUME CatalogInv, [Next]_vars PROVE CatalogInv'
  OBVIOUS
<1> USE DEF CatalogInv
<1>1. CASE Next
  <2>1. TypeOK'
    BY <1>1, CatalogAssumption, TypeOfRequests, TypeOfHandlers, TypeOfProbes, TypeOfProcess
       DEF Next, servicesInstallMany, mcpInstallApps, servicesInstallOne, servicesRetry, mcpRetryApp,
           servicesUninstall, mcpUninstallApp, servicesDetect, mcpDetectApps
  <2>2. Employed' /\ WithinBatch' /\ InstallerInstalls' /\ QueuedHasInstaller'
    BY <1>1, CatalogAssumption, EmployedStep, WithinBatchStep, InstallerStep, QueuedStep
  <2>3. QED BY <2>1, <2>2
<1>2. CASE UNCHANGED vars
  <2>1. UNCHANGED <<row, error, machine, held, bootstrapped, job, kind, key, hands,
                    pc, batch, todo, okay, probe, asking, boot, panel, probes, cuts, dropped>>
    BY <1>2 DEF vars
  <2>2. TypeOK'
    BY <2>1 DEF TypeOK
  <2>3. Employed'
    BY <2>1 DEF Employed
  <2>4. \A w \in Worker : Installs(w)' <=> Installs(w)
    BY <2>1, SameJob DEF Installs
  <2>5. WithinBatch' /\ InstallerInstalls'
    BY <2>1, <2>4 DEF WithinBatch, InstallerInstalls, Installer
  <2>6. QueuedHasInstaller'
    BY <2>1, <2>4 DEF QueuedHasInstaller
  <2>7. QED BY <2>2, <2>3, <2>5, <2>6
<1>3. QED BY <1>1, <1>2

\* The rows, the queue and the handlers' locals keep their shape.
THEOREM CatalogTypes == Spec => []TypeOK
<1>1. CatalogInv => TypeOK
  BY DEF CatalogInv
<1>2. QED BY <1>1, CatalogFirst, CatalogNext, PTL DEF Spec

\* However requests, jobs, probes, stops and crashes overlap: a row that says
\* "installing" has a worker that will judge it, and one that says "queued" has
\* an install on its way, unless a request or an install was cut short.
THEOREM NoRowLeftBehind == Spec => []BusyHasInstaller
<1>1. CatalogInv => BusyHasInstaller
  BY DEF CatalogInv, BusyHasInstaller, InstallerInstalls, Installer, InstallingHasInstaller
<1>2. QED BY <1>1, CatalogFirst, CatalogNext, PTL DEF Spec
=============================================================================
