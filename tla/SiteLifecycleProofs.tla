------------------------- MODULE SiteLifecycleProofs -------------------------
(***************************************************************************)
(* Machine-checked proofs about SiteLifecycle, for any domains, workers,   *)
(* sites, jobs, stops and crashes.                                         *)
(*                                                                         *)
(* What the panel says of a site can only be trusted because of what every *)
(* handler has done so far, so the invariant says that, step by step, of a *)
(* teardown (TornDown) and of a deployment (BuiltUp, Secured); and because *)
(* nobody else works on the same files and vhost, which takes the UNIQUE   *)
(* domain (OneHolder), that a site is torn down once (OneTeardown), that a *)
(* removed row is left alone (RemovedIsQuiet), and that a site worked on   *)
(* both ways at once is known as such (NoClash).                           *)
(***************************************************************************)
EXTENDS SiteLifecycle, TLAPS

\* A worker is in a handler exactly while it has a job, one that is active and
\* that no other worker has; a process that is down has no handlers.
Employed ==
    /\ \A w \in Worker : pc[w] = "idle" <=> hands[w] = {}
    /\ \A w \in Worker : hands[w] # {} => \E j \in Id : hands[w] = {j} /\ job[j] = "active"
    /\ \A v, w \in Worker : v # w => hands[v] \cap hands[w] = {}
    /\ panel = "down" => \A w \in Worker : pc[w] = "idle"

Live(j) == job[j] \in {"waiting", "active", "abandoned"}

\* Work is for rows that have been written; one that has not been has no past.
Written ==
    /\ \A j \in Id : Live(j) => status[target[j]] # "absent"
    /\ \A a \in asking : status[a.site] # "absent"
    /\ \A i \in Site : status[i] = "absent" => ~hidden[i] /\ i \notin overlapped \cup twice

\* Every step is one of the handler of the worker's job.
Recipe ==
    \A w \in Worker :
        /\ pc[w] \in {"mkdir", "build", "vhost", "reload", "edge", "check", "won"} => Does(w, "deploy")
        /\ pc[w] \in {"certify", "https", "prove"} => Does(w, "deploy") \/ Does(w, "certificate")
        /\ pc[w] \in {"unvhost", "unlink", "row"} => Does(w, "delete")
        /\ pc[w] = "refused" => Does(w, "certificate")

\* Whose files a teardown leaves.
FilesKept ==
    /\ \A a \in asking : a.kind = "delete" /\ ~a.files => a.site \in kept
    /\ \A j \in Id : Live(j) /\ kind[j] = "delete" /\ ~files[j] => target[j] \in kept

\* The UNIQUE domain.
OneHolder == \A i, k \in Site : Exists(i) /\ Exists(k) /\ domain[i] = domain[k] => i = k

NoClash ==
    \A v, w \in Worker :
        hands[v] # {} /\ hands[w] # {} /\ SiteOf(v) = SiteOf(w) /\ SiteOf(v) \notin overlapped =>
            (Does(v, "delete") <=> Does(w, "delete"))

\* The job of a teardown that has yet to be done with.
TearsDown(j, i) == Live(j) /\ kind[j] = "delete" /\ target[j] = i

\* A site that is not deleted twice is torn down once: its teardown is asked
\* for, then it is one job.
OneTeardown ==
    \A i \in Site \ twice :
        /\ \A a \in asking : a.kind = "delete" /\ a.site = i =>
              /\ hidden[i]
              /\ \A b \in asking : b.kind = "delete" /\ b.site = i => a = b
              /\ \A j \in Id : ~TearsDown(j, i)
        /\ \A j \in Id : TearsDown(j, i) =>
              /\ hidden[i]
              /\ \A k \in Id : TearsDown(k, i) => j = k

\* What a teardown has done.
TornDown ==
    \A w \in Worker : LET i == SiteOf(w)  d == domain[i] IN
        pc[w] \in {"unlink", "row"} /\ i \notin overlapped =>
            /\ vhost[d] # i /\ loaded[d] # i
            /\ pc[w] = "row" /\ root[d] = i => i \in kept

\* A handler at work on a row that is gone is that of a second teardown, unless
\* it has yet to look.
RemovedIsQuiet ==
    \A w \in Worker : LET i == SiteOf(w) IN
        hands[w] # {} /\ status[i] = "removed" /\ i \notin overlapped /\ pc[w] \notin {"load", "end"} =>
            Does(w, "delete") /\ i \in twice

\* What a deployment has done.
Rooted == {"vhost", "reload", "edge", "certify", "https", "prove", "check", "won"}
Hosted == Rooted \ {"vhost"}
Loaded == Hosted \ {"reload"}

BuiltUp ==
    \A w \in Worker : LET i == SiteOf(w)  d == domain[i] IN
        Does(w, "deploy") /\ Undisturbed(d) =>
            /\ pc[w] \in Rooted => root[d] = i
            /\ pc[w] \in Hosted => vhost[d] = i
            /\ pc[w] \in Loaded => loaded[d] = i

\* The row claims HTTPS only with a certificate.
Secure(i) == ssl[i] => domain[i] \in cert

Secured ==
    \A w \in Worker : LET i == SiteOf(w) IN
        /\ pc[w] = "prove" => domain[i] \in cert
        /\ Does(w, "deploy") =>
            /\ pc[w] \in {"open", "mkdir", "build", "vhost", "reload"} /\ ~tls[w] => Secure(i)
            /\ pc[w] = "check" => Secure(i) \/ ~FindSite(w)
            /\ pc[w] = "won" => Secure(i)

\* ActiveIsServed, whatever else is going on.
StaysServed ==
    \A i \in Site : LET d == domain[i] IN
        Visible(i) /\ status[i] = "active" =>
            /\ Secure(i)
            /\ Undisturbed(d) => root[d] = i /\ vhost[d] = i /\ loaded[d] = i

SiteInv == /\ TypeOK /\ Employed /\ Written /\ Recipe /\ FilesKept /\ OneHolder /\ NoClash
           /\ OneTeardown /\ TornDown /\ RemovedIsQuiet /\ BuiltUp /\ Secured /\ StaysServed
           /\ RemovedIsGone /\ StatusHasWork

-----------------------------------------------------------------------------
(***************************************************************************)
(* The steps, and what each leaves alone.                                  *)
(***************************************************************************)
\* A step of a handler that is neither taken up nor done with.
WorkStep(w) == Load(w) \/ Refuse(w) \/ Open(w) \/ DeployStep(w) \/ DestroyStep(w)

LEMMA Steps ==
    ASSUME Next
    PROVE  \/ \E d \in Domain, https \in BOOLEAN : Create(d, https)
           \/ \E i \in Site, flag \in BOOLEAN : Delete(i, flag)
           \/ \E i \in Site, what \in {"deploy", "certificate"} : Request(i, what)
           \/ \E a \in asking : PushAsked(a)
           \/ \E w \in Worker : Take(w) \/ WorkStep(w) \/ End(w)
           \/ Start \/ Stop \/ Exit \/ Crash
  BY DEF Next, sitesStore, mcpProvisionSite, sitesDestroy, sitesRedeploy, sitesCertificate,
         mcpDeleteSite, mcpDeploySite, mcpRequestCertificate, HandlerStep, WorkStep

LEMMA JobInHand ==
    ASSUME TypeOK, Employed, NEW w \in Worker, hands[w] # {}
    PROVE  /\ JobOf(w) \in Id /\ hands[w] = {JobOf(w)} /\ job[JobOf(w)] = "active" /\ Live(JobOf(w))
           /\ SiteOf(w) \in Site /\ DomainOf(w) \in Domain
<1>1. JobOf(w) \in Id /\ hands[w] = {JobOf(w)} /\ job[JobOf(w)] = "active"
  BY DEF Employed, JobOf
<1>2. QED BY <1>1 DEF TypeOK, Live, SiteOf, DomainOf

\* The work of one handler: whatever step it takes, the rest is as it was.
LEMMA WorkFrame ==
    ASSUME TypeOK, NEW w \in Worker, WorkStep(w)
    PROVE  /\ UNCHANGED <<hidden, domain, job, kind, target, files, hands, asking, panel, cuts,
                          overlapped, twice, kept>>
           /\ pc[w] \notin {"idle", "end"} /\ pc'[w] # "idle"
           /\ \A v \in Worker \ {w} : pc'[v] = pc[v] /\ tls'[v] = tls[v]
<1> USE DEF rows, machine, queue, locals, history, Goto, Return, DeployFails, DestroyFails, TLSFails, TLSDone, TypeOK
<1>1. CASE Load(w)
  BY <1>1 DEF Load
<1>2. CASE Refuse(w) \/ Open(w)
  BY <1>2 DEF Refuse, Open
<1>3. CASE MakeRoot(w) \/ Build(w) \/ WriteVhost(w)
  BY <1>3 DEF MakeRoot, Build, WriteVhost
<1>4. CASE Reload(w) \/ UseEdgeTLS(w) \/ RequestCertificate(w)
  BY <1>4 DEF Reload, UseEdgeTLS, RequestCertificate
<1>5. CASE EnableHTTPS(w)
  BY <1>5 DEF EnableHTTPS
<1>6. CASE ProveHTTPS(w)
  BY <1>6 DEF ProveHTTPS
<1>7. CASE CheckAnswers(w) \/ DeployDone(w)
  BY <1>7 DEF CheckAnswers, DeployDone
<1>8. CASE RemoveVhost(w) \/ DeleteFiles(w) \/ DeleteSite(w)
  BY <1>8 DEF RemoveVhost, DeleteFiles, DeleteSite
<1>9. QED
  BY <1>1, <1>2, <1>3, <1>4, <1>5, <1>6, <1>7, <1>8 DEF WorkStep, DeployStep, DestroyStep

\* What it does to the machine: a teardown takes away, the others put there
\* their own, and only what has a row at its start does either.
MachineMoves(w) ==
    LET i == SiteOf(w)  d == domain[i] IN
    /\ \A e \in Domain \ {d} : root'[e] = root[e] /\ vhost'[e] = vhost[e] /\ loaded'[e] \in {loaded[e], vhost[e]}
    /\ loaded'[d] \in {loaded[d], vhost'[d]}
    /\ Does(w, "delete") => root'[d] \in {root[d], NoSite} /\ vhost'[d] \in {vhost[d], NoSite}
    /\ ~Does(w, "delete") => root'[d] \in {root[d], i} /\ vhost'[d] \in {vhost[d], i}
    /\ pc[w] \in {"load", "refused", "open"} => UNCHANGED machine
    /\ cert \subseteq cert'

LEMMA MachineStep ==
    ASSUME TypeOK, Employed, Recipe, NEW w \in Worker, WorkStep(w)
    PROVE  MachineMoves(w)
<1>1. hands[w] # {} /\ SiteOf(w) \in Site /\ DomainOf(w) = domain[SiteOf(w)] /\ DomainOf(w) \in Domain
  BY WorkFrame, JobInHand DEF Employed, DomainOf
<1>2. Does(w, "deploy") \/ Does(w, "certificate") => ~Does(w, "delete")
  BY DEF Does
<1> USE DEF machine, rows, Goto
<1>3. CASE Load(w) \/ Refuse(w) \/ Open(w) \/ UseEdgeTLS(w) \/ CheckAnswers(w) \/ DeployDone(w) \/ DeleteSite(w)
  <2>1. UNCHANGED machine
    BY <1>3 DEF Load, Refuse, Open, UseEdgeTLS, CheckAnswers, DeployDone, DeleteSite
  <2>2. QED BY <2>1 DEF MachineMoves
<1>4. CASE MakeRoot(w) \/ Build(w)
  <2>1. pc[w] \in {"mkdir", "build"} /\ UNCHANGED <<vhost, loaded, cert>>
    BY <1>4 DEF MakeRoot, Build
  <2>2. root' = root \/ root' = [root EXCEPT ![DomainOf(w)] = SiteOf(w)]
    BY <1>4 DEF MakeRoot, Build
  <2>3. ~Does(w, "delete")
    BY <1>2, <2>1 DEF Recipe
  <2>4. QED BY <1>1, <2>1, <2>2, <2>3 DEF MachineMoves, TypeOK
<1>5. CASE WriteVhost(w)
  <2>1. pc[w] = "vhost" /\ UNCHANGED <<root, loaded, cert>>
    BY <1>5 DEF WriteVhost
  <2>2. vhost' = vhost \/ vhost' = [vhost EXCEPT ![DomainOf(w)] = SiteOf(w)]
    BY <1>5 DEF WriteVhost, PutVhost
  <2>3. ~Does(w, "delete")
    BY <1>2, <2>1 DEF Recipe
  <2>4. QED BY <1>1, <2>1, <2>2, <2>3 DEF MachineMoves, TypeOK
<1>6. CASE Reload(w)
  <2>1. pc[w] = "reload" /\ UNCHANGED <<root, vhost, cert>> /\ loaded' \in {loaded, vhost}
    BY <1>6 DEF Reload
  <2>2. QED BY <1>1, <2>1 DEF MachineMoves, TypeOK
<1>7. CASE RequestCertificate(w)
  <2>1. pc[w] = "certify" /\ UNCHANGED <<root, vhost, loaded>> /\ cert \subseteq cert'
    BY <1>7 DEF RequestCertificate
  <2>2. QED BY <1>1, <2>1 DEF MachineMoves, TypeOK
<1>8. CASE EnableHTTPS(w) \/ ProveHTTPS(w)
  <2>1. pc[w] \in {"https", "prove"} /\ UNCHANGED <<root, cert>>
    BY <1>8 DEF EnableHTTPS, ProveHTTPS
  <2>2. vhost' = vhost \/ vhost' = [vhost EXCEPT ![DomainOf(w)] = SiteOf(w)]
    BY <1>8 DEF EnableHTTPS, ProveHTTPS, PutVhost
  <2>3. loaded' \in {loaded, vhost'}
    BY <1>8 DEF EnableHTTPS, ProveHTTPS
  <2>4. ~Does(w, "delete")
    BY <1>2, <2>1 DEF Recipe
  <2>5. QED BY <1>1, <2>1, <2>2, <2>3, <2>4 DEF MachineMoves, TypeOK
<1>9. CASE RemoveVhost(w) \/ DeleteFiles(w)
  <2>1. pc[w] \in {"unvhost", "unlink"} /\ cert' = cert /\ loaded' \in {loaded, vhost'}
    BY <1>9 DEF RemoveVhost, DeleteFiles
  <2>2. /\ root' = root \/ root' = [root EXCEPT ![DomainOf(w)] = NoSite]
        /\ vhost' = vhost \/ vhost' = [vhost EXCEPT ![DomainOf(w)] = NoSite]
    BY <1>9 DEF RemoveVhost, DeleteFiles
  <2>3. Does(w, "delete")
    BY <2>1 DEF Recipe
  <2>4. QED BY <1>1, <2>1, <2>2, <2>3 DEF MachineMoves, TypeOK
<1>10. QED
  BY <1>3, <1>4, <1>5, <1>6, <1>7, <1>8, <1>9 DEF WorkStep, DeployStep, DestroyStep

\* What it does to the rows.
RowMoves(w) ==
    LET i == SiteOf(w) IN
    /\ \A k \in Site \ {i} : status'[k] = status[k] /\ ssl'[k] = ssl[k]
    /\ ssl'[i] => ssl[i] \/ pc[w] = "prove"
    /\ \/ status'[i] = status[i]
       \/ /\ Exists(i)
          /\ \/ status'[i] = "deploying" /\ pc[w] = "open" /\ pc'[w] = "mkdir" /\ Does(w, "deploy")
             \/ status'[i] = "failed" /\ pc'[w] = "end" /\ (Does(w, "delete") => i \in undone')
             \/ status'[i] = "active" /\ pc[w] = "won" /\ pc'[w] = "end"
             \/ status'[i] = "removed" /\ pc[w] = "row" /\ pc'[w] = "end"
    /\ status' \in [Site -> Status] /\ ssl' \in [Site -> BOOLEAN]

LEMMA SetStatus ==
    ASSUME TypeOK, NEW i \in Site, NEW to \in Status, SetSiteStatus(i, to)
    PROVE  /\ status' \in [Site -> Status]
           /\ \A k \in Site \ {i} : status'[k] = status[k]
           /\ Exists(i) => status'[i] = to
           /\ ~Exists(i) => status'[i] = status[i]
  BY DEF SetSiteStatus, Exists, TypeOK

LEMMA SetSSL ==
    ASSUME TypeOK, NEW i \in Site, NEW to \in BOOLEAN, SetSiteSSL(i, to)
    PROVE  /\ ssl' \in [Site -> BOOLEAN]
           /\ \A k \in Site \ {i} : ssl'[k] = ssl[k]
           /\ Exists(i) => ssl'[i] = to
           /\ ~Exists(i) => ssl'[i] = ssl[i]
  BY DEF SetSiteSSL, Exists, TypeOK

LEMMA RowStep ==
    ASSUME TypeOK, Employed, Recipe, NEW w \in Worker, WorkStep(w)
    PROVE  RowMoves(w)
<1>1. hands[w] # {} /\ SiteOf(w) \in Site
  BY WorkFrame, JobInHand DEF Employed
<1> USE DEF rows, Status
<1>2. status \in [Site -> Status] /\ ssl \in [Site -> BOOLEAN]
  BY DEF TypeOK
<1>3. CASE UNCHANGED <<status, ssl>>
  BY <1>2, <1>3 DEF RowMoves
<1>4. CASE UNCHANGED ssl /\ DeployFails(w) /\ ~Does(w, "delete")
  <2>1. SetSiteStatus(SiteOf(w), "failed") /\ pc'[w] = "end"
    BY <1>4 DEF DeployFails, Return, Goto, TypeOK
  <2>2. QED BY <1>1, <1>2, <1>4, <2>1, SetStatus DEF RowMoves
<1>5. CASE UNCHANGED ssl /\ DestroyFails(w)
  <2>1. SetSiteStatus(SiteOf(w), "failed") /\ pc'[w] = "end" /\ SiteOf(w) \in undone'
    BY <1>5 DEF DestroyFails, Return, Goto, TypeOK
  <2>2. QED BY <1>1, <1>2, <1>5, <2>1, SetStatus DEF RowMoves
<1>6. CASE UNCHANGED status /\ SetSiteSSL(SiteOf(w), FALSE)
  BY <1>1, <1>2, <1>6, SetSSL DEF RowMoves
<1>7. CASE Open(w)
  <2>1. CASE SetSiteStatus(SiteOf(w), "deploying") /\ pc'[w] = "mkdir" /\ pc[w] = "open"
             /\ Does(w, "deploy") /\ UNCHANGED ssl
    BY <1>1, <1>2, <2>1, SetStatus DEF RowMoves
  <2>2. QED BY <1>3, <1>7, <2>1 DEF Open, Goto, TypeOK
<1>8. CASE Load(w) \/ Refuse(w) \/ RequestCertificate(w)
  BY <1>3, <1>8 DEF Load, Refuse, RequestCertificate
<1>9. ASSUME MakeRoot(w) \/ Build(w) \/ WriteVhost(w) \/ Reload(w) \/ UseEdgeTLS(w) \/ CheckAnswers(w)
      PROVE  ~Does(w, "delete")
  BY <1>9 DEF MakeRoot, Build, WriteVhost, Reload, UseEdgeTLS, CheckAnswers, Recipe, Does
<1>10. CASE MakeRoot(w) \/ Build(w) \/ WriteVhost(w) \/ Reload(w) \/ CheckAnswers(w)
  BY <1>3, <1>4, <1>9, <1>10 DEF MakeRoot, Build, WriteVhost, Reload, CheckAnswers
<1>11. CASE UseEdgeTLS(w)
  BY <1>4, <1>6, <1>9, <1>11 DEF UseEdgeTLS
<1>12. CASE EnableHTTPS(w)
  BY <1>3, <1>6, <1>12 DEF EnableHTTPS
<1>13. CASE ProveHTTPS(w)
  <2>1. CASE UNCHANGED status /\ SetSiteSSL(SiteOf(w), TRUE) /\ pc[w] = "prove"
    BY <1>1, <1>2, <2>1, SetSSL DEF RowMoves
  <2>2. QED BY <1>3, <1>6, <1>13, <2>1 DEF ProveHTTPS
<1>14. CASE DeployDone(w) \/ DeleteSite(w)
  <2>1. /\ UNCHANGED ssl /\ pc'[w] = "end"
        /\ \/ pc[w] = "won" /\ SetSiteStatus(SiteOf(w), "active")
           \/ pc[w] = "row" /\ SetSiteStatus(SiteOf(w), "removed")
    BY <1>14 DEF DeployDone, DeleteSite, Goto, TypeOK
  <2>2. QED BY <1>1, <1>2, <2>1, SetStatus DEF RowMoves
<1>15. CASE RemoveVhost(w) \/ DeleteFiles(w)
  BY <1>3, <1>5, <1>15 DEF RemoveVhost, DeleteFiles
<1>16. QED
  BY <1>7, <1>8, <1>10, <1>11, <1>12, <1>13, <1>14, <1>15 DEF WorkStep, DeployStep, DestroyStep

-----------------------------------------------------------------------------
(***************************************************************************)
(* The queue as the handlers see it.                                       *)
(***************************************************************************)
LEMMA Pushed ==
    ASSUME TypeOK, NEW what \in Kinds, NEW i \in Site, NEW flag \in BOOLEAN, Push(what, i, flag)
    PROVE  /\ job' \in [Id -> Queue!State] /\ kind' \in [Id -> Kinds]
           /\ target' \in [Id -> Site] /\ files' \in [Id -> BOOLEAN] /\ hands' = hands
           /\ \E j \in Id : /\ job[j] = "new" /\ job'[j] = "waiting"
                            /\ kind'[j] = what /\ target'[j] = i /\ files'[j] = flag
                            /\ \A k \in Id \ {j} : /\ job'[k] = job[k] /\ kind'[k] = kind[k]
                                                   /\ target'[k] = target[k] /\ files'[k] = files[k]
<1>1. PICK j \in NewJobs : /\ Queue!Submit(j)
                           /\ kind' = [kind EXCEPT ![j] = what]
                           /\ target' = [target EXCEPT ![j] = i]
                           /\ files' = [files EXCEPT ![j] = flag]
  BY DEF Push
<1>2. j \in Id /\ job[j] = "new" /\ job' = [job EXCEPT ![j] = "waiting"] /\ hands' = hands
  BY <1>1 DEF NewJobs, Queue!Submit
<1>3. QED BY <1>1, <1>2 DEF TypeOK, Queue!State

LEMMA Taken ==
    ASSUME TypeOK, NEW w \in Worker, Take(w)
    PROVE  \E j \in Id : /\ job[j] = "waiting" /\ job' = [job EXCEPT ![j] = "active"]
                         /\ hands[w] = {} /\ hands' = [hands EXCEPT ![w] = {j}]
                         /\ overlapped' = IF Clash(w, j) THEN overlapped \cup {target[j]} ELSE overlapped
                         /\ pc[w] = "idle" /\ pc' = [pc EXCEPT ![w] = "load"] /\ panel = "up"
                         /\ UNCHANGED <<rows, machine, kind, target, files, tls, okay, asking, panel,
                                        cuts, unissued, twice, kept, undone, dropped>>
  BY DEF Take, Queue!Take

LEMMA Ended ==
    ASSUME TypeOK, Employed, NEW w \in Worker, End(w)
    PROVE  /\ hands[w] = {JobOf(w)} /\ hands' = [hands EXCEPT ![w] = {}]
           /\ pc[w] = "end" /\ pc' = [pc EXCEPT ![w] = "idle"]
           /\ job' \in [Id -> Queue!State] /\ kind' \in [Id -> Kinds]
           /\ target' \in [Id -> Site] /\ files' \in [Id -> BOOLEAN]
           /\ job'[JobOf(w)] \in {"finished", "failed"}
           /\ \A k \in Id \ {JobOf(w)} : /\ job'[k] = job[k] /\ kind'[k] = kind[k]
                                         /\ target'[k] = target[k] /\ files'[k] = files[k]
           /\ tls' \in [Worker -> BOOLEAN] /\ okay' \in [Worker -> BOOLEAN]
           /\ \A v \in Worker \ {w} : tls'[v] = tls[v]
           /\ UNCHANGED <<rows, machine, asking, panel, history>>
<1>1. pc[w] = "end" /\ pc' = [pc EXCEPT ![w] = "idle"]
  BY DEF End, Goto
<1>2. JobOf(w) \in Id /\ hands[w] = {JobOf(w)}
  BY <1>1, JobInHand DEF Employed
<1>3. /\ hands' = [hands EXCEPT ![w] = {}]
      /\ \E s \in {"finished", "failed", "waiting"} : job' = [job EXCEPT ![JobOf(w)] = s]
  BY DEF End, Queue!Answer
<1>4. job'[JobOf(w)] \in {"finished", "failed"}
  BY DEF End
<1>5. /\ kind' = [kind EXCEPT ![JobOf(w)] = "deploy"] /\ target' = [target EXCEPT ![JobOf(w)] = 1]
      /\ files' = [files EXCEPT ![JobOf(w)] = FALSE]
      /\ tls' = [tls EXCEPT ![w] = FALSE] /\ okay' = [okay EXCEPT ![w] = TRUE]
      /\ UNCHANGED <<rows, machine, asking, panel, history>>
  BY DEF End, Blank
<1>6. 1 \in Site
  BY SiteAssumption DEF SiteAssumption, Site
<1>7. QED BY <1>1, <1>2, <1>3, <1>4, <1>5, <1>6 DEF TypeOK, Queue!State, Kinds

\* A job that is to be done was to be done before, as the same work, or has
\* been pushed by this step.
SameWork(j) == target'[j] = target[j] /\ kind'[j] = kind[j] /\ files'[j] = files[j]

LEMMA WorkArrives ==
    ASSUME TypeOK, Employed, Next, NEW j \in Id, Live(j)'
    PROVE  \/ Live(j) /\ SameWork(j)
           \/ \E a \in asking : /\ ~Live(j) /\ asking' = asking \ {a} /\ UNCHANGED <<rows, history>>
                                /\ target'[j] = a.site /\ kind'[j] = a.kind /\ files'[j] = a.files
                                /\ \A k \in Id \ {j} : Live(k)' => Live(k) /\ SameWork(k)
           \/ \E i \in Site : /\ ~Live(j) /\ Exists(i) /\ target'[j] = i /\ kind'[j] # "delete"
                              /\ UNCHANGED <<rows, asking, history>>
<1> USE DEF queue
<1>1. CASE UNCHANGED <<job, kind, target, files>>
  BY <1>1 DEF Live, SameWork
<1>2. CASE \/ \E d \in Domain, https \in BOOLEAN : Create(d, https)
           \/ \E i \in Site, flag \in BOOLEAN : Delete(i, flag)
           \/ Stop \/ Exit
  BY <1>1, <1>2 DEF Create, Delete, Stop, Exit
<1>3. ASSUME NEW w \in Worker, WorkStep(w) PROVE Live(j) /\ SameWork(j)
  BY <1>1, <1>3, WorkFrame DEF Live, SameWork
<1>4. ASSUME NEW w \in Worker, Take(w) PROVE Live(j) /\ SameWork(j)
  BY <1>4, Taken DEF Live, SameWork, TypeOK
<1>5. ASSUME NEW w \in Worker, End(w) PROVE Live(j) /\ SameWork(j)
  BY <1>5, Ended DEF Live, SameWork, TypeOK
<1>6. CASE Start \/ Crash
  <2>1. UNCHANGED <<kind, target, files>>
    BY <1>6 DEF Start, Crash
  <2>2. Live(j)
    <3>1. CASE Start
      BY <3>1 DEF Start, Queue!TakeUpAgain, Live
    <3>2. CASE Crash
      <4>1. job' = [k \in Id |-> IF \E w \in Worker : k \in hands[w] THEN "abandoned" ELSE job[k]]
        BY <3>2 DEF Crash, Queue!LetGoAll
      <4>2. CASE \E w \in Worker : j \in hands[w]
        BY <4>2 DEF Employed, Live
      <4>3. QED BY <4>1, <4>2 DEF Live
    <3>3. QED BY <1>6, <3>1, <3>2
  <2>3. QED BY <2>1, <2>2 DEF SameWork
<1>7. ASSUME NEW i \in Site, NEW what \in {"deploy", "certificate"}, Request(i, what)
      PROVE  \/ Live(j) /\ SameWork(j)
             \/ \E k \in Site : /\ ~Live(j) /\ Exists(k) /\ target'[j] = k /\ kind'[j] # "delete"
                                /\ UNCHANGED <<rows, asking, history>>
  <2>1. Exists(i) /\ UNCHANGED <<rows, asking, history>> /\ what \in Kinds
    BY <1>7 DEF Request, Kinds
  <2> DEFINE no == FALSE
  <2> no \in BOOLEAN /\ Push(what, i, no)
    BY <1>7 DEF Request
  <2> HIDE DEF no
  <2>2. PICK n \in Id : /\ job[n] = "new" /\ kind'[n] = what /\ target'[n] = i
                        /\ \A k \in Id \ {n} : /\ job'[k] = job[k] /\ kind'[k] = kind[k]
                                               /\ target'[k] = target[k] /\ files'[k] = files[k]
    BY <2>1, Pushed
  <2>3. QED BY <2>1, <2>2 DEF Live, SameWork
<1>8. ASSUME NEW a \in asking, PushAsked(a)
      PROVE  \/ Live(j) /\ SameWork(j)
             \/ /\ ~Live(j) /\ asking' = asking \ {a} /\ UNCHANGED <<rows, history>>
                /\ target'[j] = a.site /\ kind'[j] = a.kind /\ files'[j] = a.files
                /\ \A k \in Id \ {j} : Live(k)' => Live(k) /\ SameWork(k)
  <2>1. /\ Push(a.kind, a.site, a.files) /\ asking' = asking \ {a} /\ UNCHANGED <<rows, history>>
        /\ a.kind \in Kinds /\ a.site \in Site /\ a.files \in BOOLEAN
    BY <1>8 DEF PushAsked, TypeOK
  <2>2. PICK n \in Id : /\ job[n] = "new" /\ kind'[n] = a.kind /\ target'[n] = a.site /\ files'[n] = a.files
                        /\ \A k \in Id \ {n} : /\ job'[k] = job[k] /\ kind'[k] = kind[k]
                                               /\ target'[k] = target[k] /\ files'[k] = files[k]
    BY <2>1, Pushed
  <2>3. ~Live(n) /\ \A k \in Id \ {n} : Live(k)' => Live(k) /\ SameWork(k)
    BY <2>2 DEF Live, SameWork
  <2>4. QED BY <2>1, <2>2, <2>3
<1>9. QED BY <1>2, <1>3, <1>4, <1>5, <1>6, <1>7, <1>8, Steps

LEMMA AskingGrows ==
    ASSUME TypeOK, Next, NEW a \in asking'
    PROVE  \/ a \in asking
           \/ a.kind = "deploy" /\ status'[a.site] = "pending"
           \/ \E i \in Site, flag \in BOOLEAN :
                 Delete(i, flag) /\ a = [kind |-> "delete", site |-> i, files |-> flag]
<1>1. ASSUME NEW d \in Domain, NEW https \in BOOLEAN, Create(d, https)
      PROVE  \/ a \in asking
             \/ a.kind = "deploy" /\ status'[a.site] = "pending"
  <2>1. PICK i \in Site : /\ status' = [status EXCEPT ![i] = "pending"]
                          /\ asking' = asking \cup {[kind |-> "deploy", site |-> i, files |-> FALSE]}
    BY <1>1 DEF Create
  <2>2. QED BY <2>1 DEF TypeOK
<1>2. ASSUME NEW i \in Site, NEW flag \in BOOLEAN, Delete(i, flag)
      PROVE  a \in asking \/ a = [kind |-> "delete", site |-> i, files |-> flag]
  BY <1>2 DEF Delete
<1>3. CASE asking' \subseteq asking
  BY <1>3
<1>4. CASE \/ \E i \in Site, what \in {"deploy", "certificate"} : Request(i, what)
           \/ \E b \in asking : PushAsked(b)
           \/ Start \/ Stop \/ Exit \/ Crash
  BY <1>3, <1>4 DEF Request, PushAsked, Start, Stop, Exit, Crash, Forget
<1>5. ASSUME NEW w \in Worker, Take(w) \/ WorkStep(w) \/ End(w) PROVE asking' = asking
  BY <1>5, WorkFrame DEF Take, End
<1>6. QED BY <1>1, <1>2, <1>3, <1>4, <1>5, Steps

\* Where the handlers are changes only by their own steps, and at the end of
\* the process.
LEMMA Elsewhere ==
    ASSUME TypeOK, Next
    PROVE  \/ UNCHANGED <<pc, tls, hands, machine, overlapped>>
           \/ \E w \in Worker : Take(w) \/ WorkStep(w) \/ End(w)
           \/ /\ UNCHANGED <<rows, machine, overlapped, twice, kept>>
              /\ \A w \in Worker : pc'[w] = "idle" /\ hands'[w] = {}
<1> USE DEF queue, locals, history
<1>1. ASSUME \/ \E d \in Domain, https \in BOOLEAN : Create(d, https)
             \/ \E i \in Site, flag \in BOOLEAN : Delete(i, flag)
             \/ Start \/ Stop
      PROVE  UNCHANGED <<pc, tls, hands, machine, overlapped>>
  BY <1>1 DEF Create, Delete, Start, Stop, Queue!TakeUpAgain
<1>2. ASSUME NEW i \in Site, NEW what \in {"deploy", "certificate"}, Request(i, what)
      PROVE  UNCHANGED <<pc, tls, hands, machine, overlapped>>
  BY <1>2 DEF Request, Push, Queue!Submit
<1>3. ASSUME NEW a \in asking, PushAsked(a) PROVE UNCHANGED <<pc, tls, hands, machine, overlapped>>
  BY <1>3 DEF PushAsked, Push, Queue!Submit
<1>4. CASE Exit \/ Crash
  BY <1>4 DEF Exit, Crash, Forget, Queue!LetGoAll
<1>5. QED BY <1>1, <1>2, <1>3, <1>4, Steps

-----------------------------------------------------------------------------
(***************************************************************************)
(* Types.                                                                  *)
(***************************************************************************)
Step == {"idle", "load", "open", "mkdir", "build", "vhost", "reload", "edge", "certify", "https",
         "prove", "check", "won", "refused", "unvhost", "unlink", "row", "end"}

LEMMA TypeFirst == Init => TypeOK
<1> SUFFICES ASSUME Init PROVE TypeOK
  OBVIOUS
<1>1. (CHOOSE d \in Domain : TRUE) \in Domain /\ 1 \in Site
  BY SiteAssumption DEF SiteAssumption, Site
<1>2. PICK served \in Served :
         /\ status = [i \in Site |-> IF served /\ i = 1 THEN "active" ELSE "absent"]
         /\ ssl = [i \in Site |-> served /\ i = 1]
         /\ root = [d \in Domain |-> IF served /\ d = domain[1] THEN 1 ELSE NoSite]
         /\ vhost = root
         /\ cert = IF served THEN {domain[1]} ELSE {}
  BY DEF Init
<1>3. domain \in [Site -> Domain] /\ hidden \in [Site -> BOOLEAN]
  BY <1>1 DEF Init
<1>4. /\ status \in [Site -> Status] /\ ssl \in [Site -> BOOLEAN]
      /\ root \in [Domain -> Site \cup {NoSite}] /\ cert \subseteq Domain
  <2> DEFINE yes == served
  <2>1. yes \in BOOLEAN
    BY SiteAssumption DEF SiteAssumption
  <2> HIDE DEF yes
  <2>2. /\ status = [i \in Site |-> IF yes /\ i = 1 THEN "active" ELSE "absent"]
        /\ ssl = [i \in Site |-> yes /\ i = 1]
        /\ root = [d \in Domain |-> IF yes /\ d = domain[1] THEN 1 ELSE NoSite]
        /\ cert = IF yes THEN {domain[1]} ELSE {}
    BY <1>2 DEF yes
  <2>3. QED BY <1>1, <1>3, <2>1, <2>2 DEF Status
<1>5. vhost = root /\ loaded = root
  BY <1>2 DEF Init
<1>6. job \in [Id -> Queue!State] /\ hands \in [Worker -> SUBSET Id]
  BY DEF Init, Queue!Init, Queue!State
<1>7. kind \in [Id -> Kinds] /\ target \in [Id -> Site] /\ files \in [Id -> BOOLEAN]
  BY <1>1 DEF Init, Kinds
<1>8. pc \in [Worker -> Step] /\ tls \in [Worker -> BOOLEAN] /\ okay \in [Worker -> BOOLEAN]
  BY DEF Init, Step
<1>9. /\ asking \subseteq [kind : Kinds, site : Site, files : BOOLEAN]
      /\ panel \in {"down", "up", "stopping"} /\ cuts \in 0..MaxCuts
      /\ unissued \subseteq Site /\ overlapped \subseteq Site /\ twice \subseteq Site
      /\ kept \subseteq Site /\ undone \subseteq Site /\ dropped \subseteq Site
  BY SiteAssumption DEF Init, SiteAssumption
<1>10. QED BY <1>3, <1>4, <1>5, <1>6, <1>7, <1>8, <1>9 DEF TypeOK, Step

LEMMA TypeOfRequests ==
    ASSUME TypeOK,
           \/ \E d \in Domain, https \in BOOLEAN : Create(d, https)
           \/ \E i \in Site, flag \in BOOLEAN : Delete(i, flag)
           \/ \E i \in Site, what \in {"deploy", "certificate"} : Request(i, what)
           \/ \E a \in asking : PushAsked(a)
    PROVE  TypeOK'
<1> USE DEF rows, machine, queue, locals, history
<1>1. ASSUME NEW d \in Domain, NEW https \in BOOLEAN, Create(d, https) PROVE TypeOK'
  <2> DEFINE no == FALSE
  <2>0. no \in BOOLEAN
    OBVIOUS
  <2>1. PICK i \in Site : /\ status' = [status EXCEPT ![i] = "pending"]
                          /\ domain' = [domain EXCEPT ![i] = d]
                          /\ ssl' = [ssl EXCEPT ![i] = https]
                          /\ asking' = asking \cup {[kind |-> "deploy", site |-> i, files |-> no]}
    BY <1>1 DEF Create
  <2> HIDE DEF no
  <2>2. UNCHANGED <<hidden, machine, queue, locals, panel, cuts, unissued, overlapped, twice, kept, undone, dropped>>
    BY <1>1 DEF Create
  <2>3. status' \in [Site -> Status] /\ domain' \in [Site -> Domain] /\ ssl' \in [Site -> BOOLEAN]
    BY <2>1 DEF TypeOK, Status
  <2>4. asking' \subseteq [kind : Kinds, site : Site, files : BOOLEAN]
    BY <2>0, <2>1 DEF TypeOK, Kinds
  <2>5. QED BY <2>2, <2>3, <2>4 DEF TypeOK
<1>2. ASSUME NEW i \in Site, NEW flag \in BOOLEAN, Delete(i, flag) PROVE TypeOK'
  <2>1. /\ hidden' = [hidden EXCEPT ![i] = TRUE] /\ status' = [status EXCEPT ![i] = "deleting"]
        /\ twice' \in {twice, twice \cup {i}} /\ kept' \in {kept, kept \cup {i}}
        /\ asking' = asking \cup {[kind |-> "delete", site |-> i, files |-> flag]}
        /\ UNCHANGED <<domain, ssl, machine, queue, locals, panel, cuts, unissued, overlapped, undone, dropped>>
    BY <1>2 DEF Delete
  <2>2. hidden' \in [Site -> BOOLEAN] /\ status' \in [Site -> Status]
    BY <2>1 DEF TypeOK, Status
  <2>3. asking' \subseteq [kind : Kinds, site : Site, files : BOOLEAN]
    BY <2>1 DEF TypeOK, Kinds
  <2>4. twice' \subseteq Site /\ kept' \subseteq Site
    BY <2>1 DEF TypeOK
  <2>5. QED BY <2>1, <2>2, <2>3, <2>4 DEF TypeOK
<1>3. ASSUME NEW i \in Site, NEW what \in {"deploy", "certificate"}, Request(i, what) PROVE TypeOK'
  <2>1. UNCHANGED <<rows, machine, locals, asking, panel, history>> /\ what \in Kinds
    BY <1>3 DEF Request, Kinds
  <2> DEFINE no == FALSE
  <2>2. no \in BOOLEAN /\ Push(what, i, no)
    BY <1>3 DEF Request
  <2> HIDE DEF no
  <2>3. /\ job' \in [Id -> Queue!State] /\ kind' \in [Id -> Kinds]
        /\ target' \in [Id -> Site] /\ files' \in [Id -> BOOLEAN] /\ hands' = hands
    BY <2>1, <2>2, Pushed
  <2>4. QED BY <2>1, <2>3 DEF TypeOK
<1>4. ASSUME NEW a \in asking, PushAsked(a) PROVE TypeOK'
  <2>1. /\ Push(a.kind, a.site, a.files) /\ asking' = asking \ {a}
        /\ a.kind \in Kinds /\ a.site \in Site /\ a.files \in BOOLEAN
        /\ UNCHANGED <<rows, machine, locals, panel, history>>
    BY <1>4 DEF PushAsked, TypeOK
  <2>2. /\ job' \in [Id -> Queue!State] /\ kind' \in [Id -> Kinds]
        /\ target' \in [Id -> Site] /\ files' \in [Id -> BOOLEAN] /\ hands' = hands
    BY <2>1, Pushed
  <2>3. QED BY <2>1, <2>2 DEF TypeOK
<1>5. QED BY <1>1, <1>2, <1>3, <1>4

LEMMA TypeOfWork ==
    ASSUME TypeOK, Employed, Recipe, NEW w \in Worker, WorkStep(w)
    PROVE  TypeOK'
<1>1. hands[w] # {} /\ SiteOf(w) \in Site /\ DomainOf(w) \in Domain /\ DomainOf(w) = domain[SiteOf(w)]
  BY WorkFrame, JobInHand DEF Employed, DomainOf
<1>2. status' \in [Site -> Status] /\ ssl' \in [Site -> BOOLEAN]
  BY RowStep DEF RowMoves
<1> USE DEF rows, machine, queue, locals, history, Goto, Return, DeployFails, DestroyFails,
            TLSFails, TLSDone, PutVhost
<1>3. /\ root' \in [Domain -> Site \cup {NoSite}] /\ vhost' \in [Domain -> Site \cup {NoSite}]
      /\ loaded' \in [Domain -> Site \cup {NoSite}]
  <2>1. CASE Load(w) \/ Refuse(w) \/ Open(w) \/ UseEdgeTLS(w) \/ RequestCertificate(w) \/ CheckAnswers(w)
             \/ DeployDone(w) \/ DeleteSite(w)
    BY <2>1 DEF Load, Refuse, Open, UseEdgeTLS, RequestCertificate, CheckAnswers, DeployDone, DeleteSite, TypeOK
  <2>2. CASE MakeRoot(w) \/ Build(w) \/ WriteVhost(w) \/ Reload(w)
    BY <1>1, <2>2 DEF MakeRoot, Build, WriteVhost, Reload, TypeOK
  <2>3. CASE EnableHTTPS(w) \/ ProveHTTPS(w)
    <3>1. /\ root' = root
          /\ vhost' = vhost \/ vhost' = [vhost EXCEPT ![DomainOf(w)] = SiteOf(w)]
          /\ loaded' \in {loaded, vhost'}
      BY <2>3 DEF EnableHTTPS, ProveHTTPS
    <3>2. QED BY <1>1, <3>1 DEF TypeOK
  <2>4. CASE RemoveVhost(w) \/ DeleteFiles(w)
    BY <1>1, <2>4 DEF RemoveVhost, DeleteFiles, TypeOK
  <2>5. QED BY <2>1, <2>2, <2>3, <2>4 DEF WorkStep, DeployStep, DestroyStep
<1>4. cert' \subseteq Domain
  <2>1. CASE RequestCertificate(w)
    BY <1>1, <2>1 DEF RequestCertificate, TypeOK
  <2>2. CASE Load(w) \/ Refuse(w) \/ Open(w) \/ UseEdgeTLS(w) \/ CheckAnswers(w)
             \/ DeployDone(w) \/ DeleteSite(w) \/ MakeRoot(w) \/ Build(w) \/ WriteVhost(w) \/ Reload(w)
    BY <2>2 DEF Load, Refuse, Open, UseEdgeTLS, CheckAnswers, DeployDone, DeleteSite,
                MakeRoot, Build, WriteVhost, Reload, TypeOK
  <2>3. CASE EnableHTTPS(w) \/ ProveHTTPS(w) \/ RemoveVhost(w) \/ DeleteFiles(w)
    BY <2>3 DEF EnableHTTPS, ProveHTTPS, RemoveVhost, DeleteFiles, TypeOK
  <2>4. QED BY <2>1, <2>2, <2>3 DEF WorkStep, DeployStep, DestroyStep
<1>5. /\ pc' \in [Worker -> Step]
      /\ tls' \in [Worker -> BOOLEAN] /\ okay' \in [Worker -> BOOLEAN]
  <2> USE DEF TypeOK, Step
  <2>1. CASE Load(w)
    <3> DEFINE needs == Does(w, "deploy") /\ ssl[SiteOf(w)]
    <3>1. needs \in BOOLEAN
      BY DEF Does
    <3> HIDE DEF needs
    <3>2. tls' = tls \/ tls' = [tls EXCEPT ![w] = needs]
      BY <2>1 DEF Load, needs
    <3>3. /\ pc' = [pc EXCEPT ![w] = "end"] \/ pc' = [pc EXCEPT ![w] = "refused"] \/ pc' = [pc EXCEPT ![w] = "open"]
          /\ okay' = okay \/ okay' = [okay EXCEPT ![w] = FALSE]
      BY <2>1 DEF Load
    <3>4. QED BY <3>1, <3>2, <3>3
  <2>2. CASE Refuse(w) \/ Open(w)
    BY <2>2 DEF Refuse, Open
  <2>3. CASE MakeRoot(w) \/ Build(w) \/ WriteVhost(w)
    BY <2>3 DEF MakeRoot, Build, WriteVhost
  <2>4. CASE Reload(w) \/ UseEdgeTLS(w) \/ RequestCertificate(w)
    BY <2>4 DEF Reload, UseEdgeTLS, RequestCertificate
  <2>5. CASE EnableHTTPS(w)
    BY <2>5 DEF EnableHTTPS
  <2>6. CASE ProveHTTPS(w)
    BY <2>6 DEF ProveHTTPS
  <2>7. CASE CheckAnswers(w) \/ DeployDone(w)
    BY <2>7 DEF CheckAnswers, DeployDone
  <2>8. CASE RemoveVhost(w) \/ DeleteFiles(w) \/ DeleteSite(w)
    BY <2>8 DEF RemoveVhost, DeleteFiles, DeleteSite
  <2>9. QED
    BY <2>1, <2>2, <2>3, <2>4, <2>5, <2>6, <2>7, <2>8 DEF WorkStep, DeployStep, DestroyStep
<1>6. unissued' \subseteq Site /\ undone' \subseteq Site /\ dropped' \subseteq Site
  <2> USE DEF TypeOK
  <2>1. CASE Load(w) \/ Refuse(w) \/ Open(w) \/ UseEdgeTLS(w) \/ RequestCertificate(w) \/ CheckAnswers(w)
             \/ DeployDone(w) \/ DeleteSite(w)
    BY <1>1, <2>1 DEF Load, Refuse, Open, UseEdgeTLS, RequestCertificate, CheckAnswers, DeployDone, DeleteSite
  <2>2. CASE MakeRoot(w) \/ Build(w) \/ WriteVhost(w) \/ Reload(w) \/ ProveHTTPS(w)
    BY <2>2 DEF MakeRoot, Build, WriteVhost, Reload, ProveHTTPS
  <2>3. CASE EnableHTTPS(w) \/ RemoveVhost(w) \/ DeleteFiles(w)
    BY <1>1, <2>3 DEF EnableHTTPS, RemoveVhost, DeleteFiles
  <2>4. QED BY <2>1, <2>2, <2>3 DEF WorkStep, DeployStep, DestroyStep
<1>7. QED BY <1>2, <1>3, <1>4, <1>5, <1>6, WorkFrame DEF TypeOK, Step

LEMMA TypeOfQueue ==
    ASSUME TypeOK, Employed,
           \/ \E w \in Worker : Take(w) \/ End(w)
           \/ Start \/ Stop \/ Exit \/ Crash
    PROVE  TypeOK'
<1> USE DEF rows, machine, queue, locals, history, Forget
<1>1. ASSUME NEW w \in Worker, Take(w) PROVE TypeOK'
  <2>1. PICK j \in Id : /\ job' = [job EXCEPT ![j] = "active"] /\ hands' = [hands EXCEPT ![w] = {j}]
                        /\ overlapped' \in {overlapped, overlapped \cup {target[j]}}
                        /\ pc' = [pc EXCEPT ![w] = "load"]
                        /\ UNCHANGED <<rows, machine, kind, target, files, tls, okay, asking, panel,
                                       cuts, unissued, twice, kept, undone, dropped>>
    BY <1>1, Taken
  <2>2. job' \in [Id -> Queue!State] /\ hands' \in [Worker -> SUBSET Id]
    BY <2>1 DEF TypeOK, Queue!State
  <2>3. QED BY <2>1, <2>2 DEF TypeOK
<1>2. ASSUME NEW w \in Worker, End(w) PROVE TypeOK'
  <2>1. hands' \in [Worker -> SUBSET Id] /\ pc' \in [Worker -> Step]
    BY <1>2, Ended DEF TypeOK, Step
  <2>2. QED BY <1>2, <2>1, Ended DEF TypeOK, Step
<1>3. CASE Start
  <2>1. job' \in [Id -> Queue!State] /\ hands' = hands
    BY <1>3 DEF Start, Queue!TakeUpAgain, TypeOK, Queue!State
  <2>2. QED BY <1>3, <2>1 DEF Start, TypeOK
<1>4. CASE Stop
  BY <1>4, SiteAssumption DEF Stop, TypeOK, SiteAssumption
<1>5. CASE Exit
  BY <1>5 DEF Exit, TypeOK
<1>6. CASE Crash
  <2>1. job' \in [Id -> Queue!State] /\ hands' \in [Worker -> SUBSET Id]
    BY <1>6 DEF Crash, Queue!LetGoAll, TypeOK, Queue!State
  <2>2. QED BY <1>6, <2>1, SiteAssumption DEF Crash, TypeOK, SiteAssumption
<1>7. QED BY <1>1, <1>2, <1>3, <1>4, <1>5, <1>6

LEMMA TypeStep == ASSUME TypeOK, Employed, Recipe, Next PROVE TypeOK'
  BY Steps, TypeOfRequests, TypeOfWork, TypeOfQueue

-----------------------------------------------------------------------------
(***************************************************************************)
(* Workers and their jobs.                                                 *)
(***************************************************************************)
LEMMA EmployedStep == ASSUME TypeOK, Employed, Next PROVE Employed'
<1> USE DEF queue, locals
<1>1. CASE UNCHANGED <<hands, pc, panel, job>>
  BY <1>1 DEF Employed
<1>2. CASE \/ \E d \in Domain, https \in BOOLEAN : Create(d, https)
           \/ \E i \in Site, flag \in BOOLEAN : Delete(i, flag)
  BY <1>1, <1>2 DEF Create, Delete
<1>3. ASSUME NEW w \in Worker, WorkStep(w) PROVE Employed'
  <2>1. UNCHANGED <<job, hands, panel>> /\ pc[w] # "idle" /\ pc'[w] # "idle" /\ \A v \in Worker \ {w} : pc'[v] = pc[v]
    BY <1>3, WorkFrame
  <2>2. QED BY <2>1 DEF Employed
<1>4. ASSUME NEW w \in Worker, Take(w) PROVE Employed'
  <2>1. PICK j \in Id : /\ job[j] = "waiting" /\ job' = [job EXCEPT ![j] = "active"]
                        /\ hands[w] = {} /\ hands' = [hands EXCEPT ![w] = {j}]
                        /\ pc' = [pc EXCEPT ![w] = "load"] /\ panel = "up" /\ panel' = panel
    BY <1>4, Taken
  <2>2. \A v \in Worker : j \notin hands[v]
    BY <2>1 DEF Employed
  <2>3. /\ hands'[w] = {j} /\ \A v \in Worker \ {w} : hands'[v] = hands[v]
        /\ pc'[w] = "load" /\ \A v \in Worker \ {w} : pc'[v] = pc[v]
        /\ job'[j] = "active" /\ \A k \in Id \ {j} : job'[k] = job[k]
    BY <2>1 DEF TypeOK
  <2>4. QED BY <2>1, <2>2, <2>3 DEF Employed
<1>5. ASSUME NEW w \in Worker, End(w) PROVE Employed'
  <2>1. /\ hands[w] = {JobOf(w)} /\ hands'[w] = {} /\ \A v \in Worker \ {w} : hands'[v] = hands[v]
        /\ pc'[w] = "idle" /\ \A v \in Worker \ {w} : pc'[v] = pc[v]
        /\ \A k \in Id \ {JobOf(w)} : job'[k] = job[k]
        /\ panel' = panel
    BY <1>5, Ended DEF TypeOK
  <2>2. \A v \in Worker \ {w} : JobOf(w) \notin hands[v]
    BY <2>1 DEF Employed
  <2>3. QED BY <2>1, <2>2 DEF Employed
<1>6. CASE Exit
  <2>1. /\ hands' = hands /\ \A w \in Worker : hands[w] = {} /\ pc'[w] = "idle"
    BY <1>6 DEF Exit, Forget
  <2>2. QED BY <2>1 DEF Employed
<1>7. CASE Crash
  BY <1>7 DEF Crash, Forget, Queue!LetGoAll, Employed
<1>8. CASE Start \/ Stop
  <2>1. /\ UNCHANGED <<hands, pc>> /\ panel' # "down" /\ \A j \in Id : job[j] = "active" => job'[j] = "active"
    BY <1>8 DEF Start, Stop, Queue!TakeUpAgain, TypeOK
  <2>2. QED BY <2>1 DEF Employed
<1>9. ASSUME NEW what \in Kinds, NEW i \in Site, NEW flag \in BOOLEAN, Push(what, i, flag), UNCHANGED <<pc, panel>>
      PROVE  Employed'
  <2>1. hands' = hands /\ \A j \in Id : job[j] = "active" => job'[j] = "active"
    BY <1>9, Pushed
  <2>2. QED BY <1>9, <2>1 DEF Employed
<1>10. ASSUME NEW i \in Site, NEW what \in {"deploy", "certificate"}, Request(i, what) PROVE Employed'
  <2> DEFINE no == FALSE
  <2>1. no \in BOOLEAN /\ what \in Kinds /\ Push(what, i, no) /\ UNCHANGED <<pc, panel>>
    BY <1>10 DEF Request, Kinds
  <2> HIDE DEF no
  <2>2. QED BY <1>9, <2>1
<1>11. ASSUME NEW a \in asking, PushAsked(a) PROVE Employed'
  <2>1. /\ Push(a.kind, a.site, a.files) /\ UNCHANGED <<pc, panel>>
        /\ a.kind \in Kinds /\ a.site \in Site /\ a.files \in BOOLEAN
    BY <1>11 DEF PushAsked, TypeOK
  <2>2. QED BY <1>9, <2>1
<1>12. QED BY <1>2, <1>3, <1>4, <1>5, <1>6, <1>7, <1>8, <1>10, <1>11, Steps

\* What a row keeps: once written its domain, once removed that, once hidden
\* that.
LEMMA RowLife ==
    ASSUME TypeOK, Employed, Recipe, Written, Next, NEW i \in Site
    PROVE  /\ status[i] # "absent" => status'[i] # "absent" /\ domain'[i] = domain[i] /\ (hidden[i] => hidden'[i])
           /\ status[i] = "removed" => status'[i] = "removed"
           /\ status[i] = "absent" => \/ UNCHANGED <<status[i], hidden[i]>>
                                      \/ /\ Holders(domain'[i]) = {} /\ status'[i] = "pending" /\ hidden'[i] = hidden[i]
                                         /\ \A k \in Site \ {i} : status'[k] = status[k] /\ domain'[k] = domain[k]
<1> USE DEF rows
<1>1. ASSUME NEW d \in Domain, NEW https \in BOOLEAN, Create(d, https)
      PROVE  \E k \in Site : /\ status[k] = "absent" /\ status' = [status EXCEPT ![k] = "pending"]
                             /\ domain' = [domain EXCEPT ![k] = d] /\ hidden' = hidden /\ Holders(d) = {}
  BY <1>1 DEF Create
<1>2. CASE \E d \in Domain, https \in BOOLEAN : Create(d, https)
  BY <1>1, <1>2 DEF TypeOK
<1>3. CASE \E k \in Site, flag \in BOOLEAN : Delete(k, flag)
  <2>1. PICK k \in Site : /\ Exists(k) /\ status' = [status EXCEPT ![k] = "deleting"]
                          /\ hidden' = [hidden EXCEPT ![k] = TRUE] /\ domain' = domain
    BY <1>3 DEF Delete
  <2>2. QED BY <2>1 DEF Exists, TypeOK
<1>4. CASE UNCHANGED rows
  BY <1>4
<1>5. ASSUME NEW w \in Worker, WorkStep(w)
      PROVE  /\ UNCHANGED <<hidden, domain>>
             /\ status[i] = "absent" => status'[i] = "absent"
             /\ status[i] # "absent" => status'[i] # "absent" /\ (status[i] = "removed" => status'[i] = "removed")
  <2>1. RowMoves(w) /\ UNCHANGED <<hidden, domain>>
    BY <1>5, RowStep, WorkFrame
  <2>2. QED BY <2>1 DEF RowMoves, Exists
<1>6. ASSUME \/ \E k \in Site, what \in {"deploy", "certificate"} : Request(k, what)
             \/ \E a \in asking : PushAsked(a)
             \/ \E w \in Worker : Take(w) \/ End(w)
             \/ Start \/ Stop \/ Exit \/ Crash
      PROVE  UNCHANGED rows
  BY <1>6 DEF Request, PushAsked, Take, End, Start, Stop, Exit, Crash
<1>7. QED BY <1>2, <1>3, <1>4, <1>5, <1>6, Steps

\* The histories only grow.
LEMMA History ==
    ASSUME TypeOK, Next
    PROVE  /\ overlapped \subseteq overlapped' /\ twice \subseteq twice' /\ kept \subseteq kept'
           /\ undone \subseteq undone' /\ dropped \subseteq dropped'
<1> USE DEF history
<1>1. ASSUME NEW w \in Worker, WorkStep(w)
      PROVE  undone \subseteq undone' /\ dropped \subseteq dropped'
  <2>1. CASE Load(w) \/ Refuse(w) \/ Open(w) \/ DeployStep(w)
    BY <2>1 DEF Load, Refuse, Open, DeployStep, MakeRoot, Build, WriteVhost, Reload, UseEdgeTLS,
                RequestCertificate, EnableHTTPS, ProveHTTPS, CheckAnswers, DeployDone
  <2>2. CASE DestroyStep(w)
    BY <2>2 DEF DestroyStep, RemoveVhost, DeleteFiles, DeleteSite, DestroyFails
  <2>3. QED BY <1>1, <2>1, <2>2 DEF WorkStep
<1>2. ASSUME NEW w \in Worker, WorkStep(w) PROVE UNCHANGED <<overlapped, twice, kept>>
  BY <1>2, WorkFrame
<1>3. ASSUME NEW w \in Worker, Take(w) \/ End(w)
      PROVE  overlapped \subseteq overlapped' /\ UNCHANGED <<twice, kept, undone, dropped>>
  BY <1>3 DEF Take, End
<1>4. ASSUME \/ \E d \in Domain, https \in BOOLEAN : Create(d, https)
             \/ \E i \in Site, what \in {"deploy", "certificate"} : Request(i, what)
             \/ \E a \in asking : PushAsked(a)
             \/ Start \/ Stop \/ Exit \/ Crash
      PROVE  UNCHANGED <<overlapped, twice, kept, undone>> /\ dropped \subseteq dropped'
  BY <1>4 DEF Create, Request, PushAsked, Start, Stop, Exit, Crash, Forget
<1>5. ASSUME NEW i \in Site, NEW flag \in BOOLEAN, Delete(i, flag)
      PROVE  twice \subseteq twice' /\ kept \subseteq kept' /\ UNCHANGED <<overlapped, undone, dropped>>
  BY <1>5 DEF Delete
<1>6. QED BY <1>1, <1>2, <1>3, <1>4, <1>5, Steps

\* A worker that keeps its job keeps the site and the kind of work.
SameJob(w) == /\ hands[w] # {} /\ hands'[w] = hands[w] /\ JobOf(w)' = JobOf(w) /\ SameWork(JobOf(w))
              /\ SiteOf(w)' = SiteOf(w) /\ domain'[SiteOf(w)] = domain[SiteOf(w)]
              /\ \A what \in Kinds : Does(w, what)' <=> Does(w, what)

LEMMA KeepsJob ==
    ASSUME TypeOK, Employed, Recipe, Written, Next, NEW w \in Worker, hands[w] # {}, hands'[w] = hands[w]
    PROVE  SameJob(w)
<1>1. JobOf(w)' = JobOf(w)
  BY DEF JobOf
<1>2. JobOf(w) \in Id /\ Live(JobOf(w)) /\ SiteOf(w) \in Site
  BY JobInHand
<1>3. TypeOK' /\ Employed'
  BY TypeStep, EmployedStep
<1>4. Live(JobOf(w))'
  <2>1. \E j \in Id : hands[w] = {j} /\ job'[j] = "active"
    BY <1>3 DEF Employed
  <2>2. hands[w] = {JobOf(w)}
    BY JobInHand
  <2>3. job'[JobOf(w)] = "active"
    BY <2>1, <2>2
  <2>4. QED BY <1>1, <2>3 DEF Live
<1>5. SameWork(JobOf(w))
  BY <1>1, <1>2, <1>4, WorkArrives DEF Live
<1>6. SiteOf(w)' = SiteOf(w) /\ \A what \in Kinds : Does(w, what)' <=> Does(w, what)
  BY <1>1, <1>5 DEF SiteOf, Does, SameWork
<1>7. status[SiteOf(w)] # "absent"
  BY <1>2 DEF Written, SiteOf
<1>8. domain'[SiteOf(w)] = domain[SiteOf(w)]
  BY <1>2, <1>7, RowLife
<1>9. QED BY <1>1, <1>5, <1>6, <1>8 DEF SameJob

\* What can happen to a worker in one step.
LEMMA Fate ==
    ASSUME TypeOK, Employed, Recipe, Written, Next, NEW v \in Worker
    PROVE  \/ hands'[v] = {} /\ pc'[v] = "idle"
           \/ Take(v) /\ pc'[v] = "load"
           \/ WorkStep(v) /\ SameJob(v)
           \/ SameJob(v) /\ pc'[v] = pc[v] /\ tls'[v] = tls[v]
<1>1. ASSUME hands[v] = {}, hands'[v] = hands[v] PROVE hands'[v] = {} /\ pc'[v] = "idle"
  <2>1. Employed'
    BY EmployedStep
  <2>2. QED BY <1>1, <2>1 DEF Employed
<1>2. CASE UNCHANGED <<pc, tls, hands>>
  BY <1>1, <1>2, KeepsJob
<1>3. ASSUME NEW w \in Worker, WorkStep(w)
      PROVE  \/ hands'[v] = {} /\ pc'[v] = "idle"
             \/ WorkStep(v) /\ SameJob(v)
             \/ SameJob(v) /\ pc'[v] = pc[v] /\ tls'[v] = tls[v]
  <2>1. hands' = hands /\ pc[w] # "idle" /\ \A u \in Worker \ {w} : pc'[u] = pc[u] /\ tls'[u] = tls[u]
    BY <1>3, WorkFrame
  <2>2. CASE v = w
    BY <1>3, <2>1, <2>2, KeepsJob DEF Employed
  <2>3. CASE v # w
    BY <1>1, <2>1, <2>3, KeepsJob
  <2>4. QED BY <2>2, <2>3
<1>4. ASSUME NEW w \in Worker, Take(w) \/ End(w)
      PROVE  \/ hands'[v] = {} /\ pc'[v] = "idle"
             \/ Take(v) /\ pc'[v] = "load"
             \/ SameJob(v) /\ pc'[v] = pc[v] /\ tls'[v] = tls[v]
  <2>1. CASE v # w
    <3>1. pc'[v] = pc[v] /\ tls'[v] = tls[v] /\ hands'[v] = hands[v]
      BY <1>4, <2>1, Taken, Ended DEF TypeOK
    <3>2. QED BY <1>1, <3>1, KeepsJob
  <2>2. CASE v = w /\ Take(w)
    BY <2>2, Taken DEF TypeOK
  <2>3. CASE v = w /\ End(w)
    BY <2>3, Ended DEF TypeOK
  <2>4. QED BY <1>4, <2>1, <2>2, <2>3
<1>5. QED BY <1>2, <1>3, <1>4, Elsewhere

-----------------------------------------------------------------------------
(***************************************************************************)
(* The parts of the invariant that are about rows and work.                *)
(***************************************************************************)
LEMMA WrittenStep == ASSUME TypeOK, Employed, Recipe, Written, Next PROVE Written'
<1>1. ASSUME NEW j \in Id, Live(j)' PROVE status'[target'[j]] # "absent"
  <2>1. CASE Live(j) /\ SameWork(j)
    BY <2>1, RowLife DEF Written, SameWork, TypeOK
  <2>2. ASSUME NEW a \in asking, target'[j] = a.site, UNCHANGED rows PROVE status'[target'[j]] # "absent"
    BY <2>2 DEF Written, rows
  <2>3. ASSUME NEW i \in Site, Exists(i), target'[j] = i, UNCHANGED rows PROVE status'[target'[j]] # "absent"
    BY <2>3 DEF Exists, rows
  <2>4. QED BY <1>1, <2>1, <2>2, <2>3, WorkArrives
<1>2. ASSUME NEW a \in asking' PROVE status'[a.site] # "absent"
  <2>1. CASE a \in asking
    <3>1. a.site \in Site /\ status[a.site] # "absent"
      BY <2>1 DEF TypeOK, Written
    <3>2. QED BY <3>1, RowLife
  <2>2. ASSUME NEW i \in Site, NEW flag \in BOOLEAN, Delete(i, flag),
               a = [kind |-> "delete", site |-> i, files |-> flag]
        PROVE  status'[a.site] # "absent"
    BY <2>2 DEF Delete, TypeOK
  <2>3. QED BY <2>1, <2>2, AskingGrows
<1>3. ASSUME NEW i \in Site, status'[i] = "absent" PROVE ~hidden'[i] /\ i \notin overlapped' \cup twice'
  <2>1. status[i] = "absent" /\ hidden'[i] = hidden[i] /\ ~hidden[i] /\ i \notin overlapped \cup twice
    BY <1>3, RowLife DEF Written
  <2>2. twice' = twice \/ \E k \in Site : Exists(k) /\ twice' \subseteq twice \cup {k}
    <3>1. ASSUME NEW w \in Worker, Take(w) \/ WorkStep(w) \/ End(w) PROVE twice' = twice
      BY <3>1, WorkFrame DEF Take, End, history
    <3>2. ASSUME NEW k \in Site, NEW flag \in BOOLEAN, Delete(k, flag)
          PROVE  Exists(k) /\ twice' \subseteq twice \cup {k}
      BY <3>2 DEF Delete
    <3>3. ASSUME \/ \E d \in Domain, https \in BOOLEAN : Create(d, https)
                 \/ \E k \in Site, what \in {"deploy", "certificate"} : Request(k, what)
                 \/ \E a \in asking : PushAsked(a)
                 \/ Start \/ Stop \/ Exit \/ Crash
          PROVE  twice' = twice
      BY <3>3 DEF Create, Request, PushAsked, Start, Stop, Exit, Crash, history
    <3>4. QED BY <3>1, <3>2, <3>3, Steps
  <2>3. overlapped' = overlapped \/ \E j \in Id : Live(j) /\ overlapped' \subseteq overlapped \cup {target[j]}
    <3>1. ASSUME NEW w \in Worker, WorkStep(w) \/ End(w) PROVE overlapped' = overlapped
      BY <3>1, WorkFrame DEF End, history
    <3>2. ASSUME NEW w \in Worker, Take(w)
          PROVE  \E j \in Id : Live(j) /\ overlapped' \subseteq overlapped \cup {target[j]}
      BY <3>2, Taken DEF Live
    <3>3. QED BY <3>1, <3>2, Elsewhere
  <2>4. QED BY <2>1, <2>2, <2>3 DEF Exists, Written
<1>4. QED BY <1>1, <1>2, <1>3 DEF Written

\* The order of the steps.
LEMMA Course ==
    ASSUME TypeOK, NEW w \in Worker, WorkStep(w)
    PROVE  \/ pc'[w] = "end"
           \/ pc[w] = "load" /\ pc'[w] = "open"
           \/ pc[w] = "load" /\ pc'[w] = "refused" /\ Does(w, "certificate")
           \/ pc[w] = "open" /\ pc'[w] = "mkdir" /\ Does(w, "deploy")
           \/ pc[w] = "open" /\ pc'[w] = "certify" /\ Does(w, "certificate")
           \/ pc[w] = "open" /\ pc'[w] = "unvhost" /\ Does(w, "delete")
           \/ pc[w] = "mkdir" /\ pc'[w] = "build"
           \/ pc[w] = "build" /\ pc'[w] = "vhost"
           \/ pc[w] = "vhost" /\ pc'[w] = "reload"
           \/ pc[w] = "reload" /\ pc'[w] \in {"edge", "certify", "check"}
           \/ pc[w] = "edge" /\ pc'[w] = "check"
           \/ pc[w] = "certify" /\ pc'[w] = "https"
           \/ pc[w] = "https" /\ pc'[w] = "prove"
           \/ pc[w] \in {"https", "prove"} /\ pc'[w] = "check" /\ Does(w, "deploy")
           \/ pc[w] = "check" /\ pc'[w] = "won"
           \/ pc[w] = "unvhost" /\ pc'[w] \in {"unlink", "row"}
           \/ pc[w] = "unlink" /\ pc'[w] = "row"
<1> USE DEF Goto, Return, DeployFails, DestroyFails, TLSFails, TLSDone, TypeOK
<1>1. CASE Load(w) \/ Refuse(w) \/ Open(w)
  BY <1>1 DEF Load, Refuse, Open
<1>2. CASE MakeRoot(w) \/ Build(w) \/ WriteVhost(w)
  BY <1>2 DEF MakeRoot, Build, WriteVhost
<1>3. CASE Reload(w) \/ UseEdgeTLS(w) \/ RequestCertificate(w)
  BY <1>3 DEF Reload, UseEdgeTLS, RequestCertificate
<1>4. CASE EnableHTTPS(w)
  BY <1>4 DEF EnableHTTPS
<1>5. CASE ProveHTTPS(w)
  BY <1>5 DEF ProveHTTPS
<1>6. CASE CheckAnswers(w) \/ DeployDone(w)
  BY <1>6 DEF CheckAnswers, DeployDone
<1>7. CASE DestroyStep(w)
  BY <1>7 DEF DestroyStep, RemoveVhost, DeleteFiles, DeleteSite
<1>8. QED BY <1>1, <1>2, <1>3, <1>4, <1>5, <1>6, <1>7 DEF WorkStep, DeployStep

LEMMA RecipeStep == ASSUME TypeOK, Employed, Recipe, Written, Next PROVE Recipe'
<1> DEFINE Part(w) ==
        /\ pc[w] \in {"mkdir", "build", "vhost", "reload", "edge", "check", "won"} => Does(w, "deploy")
        /\ pc[w] \in {"certify", "https", "prove"} => Does(w, "deploy") \/ Does(w, "certificate")
        /\ pc[w] \in {"unvhost", "unlink", "row"} => Does(w, "delete")
        /\ pc[w] = "refused" => Does(w, "certificate")
<1> SUFFICES ASSUME NEW v \in Worker PROVE Part(v)'
  BY DEF Recipe
<1>1. Part(v)
  BY DEF Recipe
<1>2. CASE pc'[v] \in {"idle", "load", "end"}
  BY <1>2
<1>3. ASSUME SameJob(v)
      PROVE  /\ Does(v, "deploy")' <=> Does(v, "deploy")
             /\ Does(v, "certificate")' <=> Does(v, "certificate")
             /\ Does(v, "delete")' <=> Does(v, "delete")
  BY <1>3 DEF SameJob, Kinds
<1>4. CASE WorkStep(v) /\ SameJob(v)
  BY <1>1, <1>2, <1>3, <1>4, Course
<1>5. CASE SameJob(v) /\ pc'[v] = pc[v]
  BY <1>1, <1>3, <1>5
<1>6. QED BY <1>2, <1>4, <1>5, Fate

LEMMA FilesKeptStep == ASSUME TypeOK, Employed, FilesKept, Next PROVE FilesKept'
<1>1. kept \subseteq kept'
  BY History
<1>2. ASSUME NEW a \in asking', a.kind = "delete", ~a.files PROVE a.site \in kept'
  <2>1. CASE a \in asking
    BY <1>1, <1>2, <2>1 DEF FilesKept
  <2>2. ASSUME NEW i \in Site, NEW flag \in BOOLEAN, Delete(i, flag),
               a = [kind |-> "delete", site |-> i, files |-> flag]
        PROVE  a.site \in kept'
    <3>1. ~flag /\ a.site = i
      BY <1>2, <2>2
    <3>2. kept' = kept \cup {i}
      BY <2>2, <3>1 DEF Delete
    <3>3. QED BY <3>1, <3>2
  <2>3. QED BY <1>2, <2>1, <2>2, AskingGrows
<1>3. ASSUME NEW j \in Id, Live(j)', kind'[j] = "delete", ~files'[j] PROVE target'[j] \in kept'
  <2>1. CASE Live(j) /\ SameWork(j)
    BY <1>1, <1>3, <2>1 DEF FilesKept, SameWork
  <2>2. ASSUME NEW a \in asking, target'[j] = a.site, kind'[j] = a.kind, files'[j] = a.files
        PROVE  target'[j] \in kept'
    BY <1>1, <1>3, <2>2 DEF FilesKept
  <2>3. QED BY <1>3, <2>1, <2>2, WorkArrives
<1>4. QED BY <1>2, <1>3 DEF FilesKept

LEMMA OneHolderStep == ASSUME TypeOK, Employed, Recipe, Written, OneHolder, Next PROVE OneHolder'
<1> SUFFICES ASSUME NEW i \in Site, NEW k \in Site, Exists(i)', Exists(k)', domain'[i] = domain'[k], i # k
             PROVE  FALSE
  BY DEF OneHolder
<1>1. ASSUME NEW x \in Site, Exists(x)', status[x] # "absent" PROVE Exists(x) /\ domain'[x] = domain[x]
  BY <1>1, RowLife DEF Exists
<1>2. ASSUME NEW x \in Site, NEW y \in Site, x # y, status[x] = "absent", Exists(x)', Exists(y)',
             domain'[x] = domain'[y]
      PROVE  FALSE
  <2>1. Holders(domain'[x]) = {} /\ status'[y] = status[y] /\ domain'[y] = domain[y]
    BY <1>2, RowLife DEF Exists
  <2>2. y \in Holders(domain'[x])
    BY <1>2, <2>1 DEF Holders, Exists
  <2>3. QED BY <2>1, <2>2
<1>3. CASE status[i] # "absent" /\ status[k] # "absent"
  BY <1>1, <1>3 DEF OneHolder
<1>4. QED BY <1>2, <1>3

LEMMA NoClashStep == ASSUME TypeOK, Employed, Recipe, Written, NoClash, Next PROVE NoClash'
<1> SUFFICES ASSUME NEW v \in Worker, NEW w \in Worker, hands'[v] # {}, hands'[w] # {},
                    SiteOf(v)' = SiteOf(w)', SiteOf(v)' \notin overlapped', v # w
             PROVE  Does(v, "delete")' <=> Does(w, "delete")'
  BY DEF NoClash
<1>1. CASE SameJob(v) /\ SameJob(w)
  BY <1>1, History DEF SameJob, NoClash, Kinds
<1>2. ASSUME NEW x \in Worker, NEW y \in Worker, x # y, Take(x), hands'[y] # {},
             SiteOf(x)' = SiteOf(y)', SiteOf(x)' \notin overlapped'
      PROVE  Does(x, "delete")' <=> Does(y, "delete")'
  <2>1. PICK j \in Id : /\ hands' = [hands EXCEPT ![x] = {j}] /\ UNCHANGED <<kind, target>>
                        /\ overlapped' = IF Clash(x, j) THEN overlapped \cup {target[j]} ELSE overlapped
    BY <1>2, Taken
  <2>2. hands'[x] = {j} /\ hands'[y] = hands[y]
    BY <1>2, <2>1 DEF TypeOK
  <2>3. SameJob(y)
    BY <1>2, <2>2, KeepsJob
  <2>4. JobOf(x)' = j
    BY <2>2 DEF JobOf
  <2>5. SiteOf(x)' = target[j] /\ (Does(x, "delete")' <=> kind[j] = "delete")
    BY <2>1, <2>2, <2>4 DEF SiteOf, Does
  <2>6. SiteOf(y)' = SiteOf(y) /\ (Does(y, "delete")' <=> Does(y, "delete")) /\ hands[y] # {}
    BY <2>3 DEF SameJob, Kinds
  <2>7. ~Clash(x, j)
    BY <1>2, <2>1, <2>5
  <2>8. QED BY <1>2, <2>5, <2>6, <2>7 DEF Clash
<1>3. \/ Take(v) \/ SameJob(v)
  BY Fate
<1>4. \/ Take(w) \/ SameJob(w)
  BY Fate
<1>5. QED BY <1>1, <1>2, <1>3, <1>4

LEMMA OneTeardownStep == ASSUME TypeOK, Employed, Recipe, Written, OneTeardown, Next PROVE OneTeardown'
<1> SUFFICES ASSUME NEW i \in Site, i \notin twice'
             PROVE  /\ \A a \in asking' : a.kind = "delete" /\ a.site = i =>
                          /\ hidden'[i]
                          /\ \A b \in asking' : b.kind = "delete" /\ b.site = i => a = b
                          /\ \A j \in Id : ~TearsDown(j, i)'
                    /\ \A j \in Id : TearsDown(j, i)' =>
                          /\ hidden'[i]
                          /\ \A k \in Id : TearsDown(k, i)' => j = k
  BY DEF OneTeardown
<1>1. i \notin twice
  BY History
<1>2. hidden[i] => hidden'[i]
  BY RowLife DEF Written
<1>3. ASSUME NEW flag \in BOOLEAN, Delete(i, flag)
      PROVE  ~hidden[i] /\ hidden'[i] /\ \E x : asking' = asking \cup {x}
  BY <1>3 DEF Delete, TypeOK
\* A job that tears down now was one before, or is what was asked for.
<1>4. ASSUME NEW j \in Id, TearsDown(j, i)', ~TearsDown(j, i)
      PROVE  \E a \in asking : /\ a.kind = "delete" /\ a.site = i /\ asking' = asking \ {a}
                               /\ \A k \in Id \ {j} : TearsDown(k, i)' => TearsDown(k, i)
  BY <1>4, WorkArrives DEF TearsDown, SameWork
<1>5. ASSUME NEW a \in asking', a.kind = "delete", a.site = i
      PROVE  a \in asking \/ \E flag \in BOOLEAN : Delete(i, flag)
  <2>1. ASSUME NEW k \in Site, NEW flag \in BOOLEAN, Delete(k, flag),
               a = [kind |-> "delete", site |-> k, files |-> flag]
        PROVE  \E f \in BOOLEAN : Delete(i, f)
    <3>1. k = i
      BY <1>5, <2>1
    <3>2. QED BY <2>1, <3>1
  <2>2. QED BY <1>5, <2>1, AskingGrows
<1>6. ASSUME NEW a \in asking', a.kind = "delete", a.site = i PROVE hidden'[i]
  BY <1>1, <1>2, <1>3, <1>5, <1>6 DEF OneTeardown
<1>7. ASSUME NEW a \in asking', a.kind = "delete", a.site = i, NEW b \in asking', b.kind = "delete", b.site = i
      PROVE  a = b
  <2>1. CASE a \in asking /\ b \in asking
    BY <1>1, <1>7, <2>1 DEF OneTeardown
  <2>2. CASE \E flag \in BOOLEAN : Delete(i, flag)
    <3>1. a \notin asking /\ b \notin asking
      BY <1>1, <1>3, <1>7, <2>2 DEF OneTeardown
    <3>2. QED BY <1>3, <1>7, <2>2, <3>1
  <2>3. QED BY <1>5, <1>7, <2>1, <2>2
<1>8. ASSUME NEW a \in asking', a.kind = "delete", a.site = i, NEW j \in Id, TearsDown(j, i)'
      PROVE  FALSE
  <2>1. CASE a \in asking
    <3>1. ~TearsDown(j, i)
      BY <1>1, <1>8, <2>1 DEF OneTeardown
    <3>2. PICK b \in asking : b.kind = "delete" /\ b.site = i /\ asking' = asking \ {b}
      BY <1>4, <1>8, <3>1
    <3>3. a = b
      BY <1>1, <1>8, <2>1, <3>2 DEF OneTeardown
    <3>4. QED BY <1>8, <3>2, <3>3
  <2>2. CASE a \notin asking
    <3>1. PICK flag \in BOOLEAN : Delete(i, flag)
      BY <1>5, <1>8, <2>2
    <3>2. ~hidden[i]
      BY <1>3, <3>1
    <3>3. ~TearsDown(j, i)
      BY <1>1, <3>2 DEF OneTeardown
    <3>4. QED BY <1>4, <1>8, <2>2, <3>3
  <2>3. QED BY <2>1, <2>2
<1>9. ASSUME NEW j \in Id, TearsDown(j, i)' PROVE hidden'[i]
  BY <1>1, <1>2, <1>4, <1>9 DEF OneTeardown
<1>10. ASSUME NEW j \in Id, TearsDown(j, i)', NEW k \in Id, TearsDown(k, i)' PROVE j = k
  <2>1. CASE TearsDown(j, i) /\ TearsDown(k, i)
    BY <1>1, <2>1 DEF OneTeardown
  <2>2. ASSUME NEW x \in Id, NEW y \in Id, TearsDown(x, i)', TearsDown(y, i)', ~TearsDown(x, i), x # y
        PROVE  FALSE
    <3>1. PICK a \in asking : /\ a.kind = "delete" /\ a.site = i
                              /\ \A z \in Id \ {x} : TearsDown(z, i)' => TearsDown(z, i)
      BY <1>4, <2>2
    <3>2. TearsDown(y, i)
      BY <2>2, <3>1
    <3>3. QED BY <1>1, <3>1, <3>2 DEF OneTeardown
  <2>3. QED BY <1>10, <2>1, <2>2
<1>11. QED BY <1>6, <1>7, <1>8, <1>9, <1>10

-----------------------------------------------------------------------------
(***************************************************************************)
(* The parts that are about the machine.                                   *)
(***************************************************************************)
\* Which step a handler takes where it is.
LEMMA ByPlace ==
    ASSUME NEW w \in Worker, WorkStep(w)
    PROVE  /\ pc[w] = "load" => Load(w)
           /\ pc[w] = "open" => Open(w)
           /\ pc[w] = "mkdir" => MakeRoot(w)
           /\ pc[w] = "build" => Build(w)
           /\ pc[w] = "vhost" => WriteVhost(w)
           /\ pc[w] = "reload" => Reload(w)
           /\ pc[w] = "edge" => UseEdgeTLS(w)
           /\ pc[w] = "certify" => RequestCertificate(w)
           /\ pc[w] = "https" => EnableHTTPS(w)
           /\ pc[w] = "prove" => ProveHTTPS(w)
           /\ pc[w] = "check" => CheckAnswers(w)
           /\ pc[w] = "won" => DeployDone(w)
           /\ pc[w] = "unvhost" => RemoveVhost(w)
           /\ pc[w] = "unlink" => DeleteFiles(w)
           /\ pc[w] = "row" => DeleteSite(w)
  BY DEF WorkStep, DeployStep, DestroyStep, Load, Refuse, Open, MakeRoot, Build, WriteVhost, Reload,
         UseEdgeTLS, RequestCertificate, EnableHTTPS, ProveHTTPS, CheckAnswers, DeployDone,
         RemoveVhost, DeleteFiles, DeleteSite

\* Only the handlers do anything to the machine.
LEMMA MachineStill ==
    ASSUME TypeOK, Employed, Next, ~\E w \in Worker : WorkStep(w)
    PROVE  UNCHANGED machine
<1>1. ASSUME NEW w \in Worker, Take(w) \/ End(w) PROVE UNCHANGED machine
  BY <1>1 DEF Take, End
<1>2. QED BY <1>1, Elsewhere

\* Nothing of a site comes back but by its own deployment or certificate.
LEMMA NoTraceComes ==
    ASSUME TypeOK, Employed, Recipe, Next, NEW i \in Site,
           \A w \in Worker : WorkStep(w) /\ SiteOf(w) = i => Does(w, "delete") \/ UNCHANGED machine
    PROVE  \A e \in Domain : /\ vhost'[e] = i => vhost[e] = i
                             /\ root'[e] = i => root[e] = i
                             /\ loaded'[e] = i => loaded[e] = i \/ vhost[e] = i
<1>1. CASE UNCHANGED machine
  BY <1>1 DEF machine
<1>2. ASSUME NEW w \in Worker, WorkStep(w), ~UNCHANGED machine, NEW e \in Domain
      PROVE  /\ vhost'[e] = i => vhost[e] = i
             /\ root'[e] = i => root[e] = i
             /\ loaded'[e] = i => loaded[e] = i \/ vhost[e] = i
  <2>1. MachineMoves(w) /\ i # NoSite
    BY <1>2, MachineStep DEF Site, NoSite
  <2>2. SiteOf(w) # i \/ Does(w, "delete")
    BY <1>2
  <2>3. QED BY <2>1, <2>2 DEF MachineMoves
<1>3. QED BY <1>1, <1>2, MachineStill

LEMMA Clashing ==
    ASSUME TypeOK, Employed, NoClash, NEW v \in Worker, NEW w \in Worker, hands[v] # {}, hands[w] # {},
           SiteOf(v) = SiteOf(w), SiteOf(v) \notin overlapped, Does(v, "delete")
    PROVE  Does(w, "delete")
  BY DEF NoClash

LEMMA TornDownStep ==
    ASSUME TypeOK, Employed, Written, Recipe, FilesKept, NoClash, TornDown, Next
    PROVE  TornDown'
<1> SUFFICES ASSUME NEW v \in Worker, pc'[v] \in {"unlink", "row"}, SiteOf(v)' \notin overlapped'
             PROVE  /\ vhost'[domain'[SiteOf(v)']] # SiteOf(v)' /\ loaded'[domain'[SiteOf(v)']] # SiteOf(v)'
                    /\ pc'[v] = "row" /\ root'[domain'[SiteOf(v)']] = SiteOf(v)' => SiteOf(v)' \in kept'
  BY DEF TornDown
<1> DEFINE i == SiteOf(v)  d == domain[SiteOf(v)]
<1>1. SameJob(v)
  BY Fate
<1>2. SiteOf(v)' = i /\ domain'[i] = d /\ i \in Site /\ d \in Domain /\ DomainOf(v) = d /\ i # NoSite
  BY <1>1, JobInHand DEF SameJob, DomainOf, Site, NoSite
<1>3. i \notin overlapped /\ kept \subseteq kept'
  BY <1>2, History
<1>4. CASE WorkStep(v)
  <2>1. \/ pc[v] = "unvhost" /\ RemoveVhost(v)
        \/ pc[v] = "unlink" /\ DeleteFiles(v) /\ pc'[v] = "row"
    BY <1>4, Course, ByPlace
  <2>2. CASE pc[v] = "unvhost" /\ RemoveVhost(v)
    <3>1. /\ vhost' = [vhost EXCEPT ![d] = NoSite] /\ loaded' = vhost'
          /\ pc'[v] = IF files[JobOf(v)] THEN "unlink" ELSE "row"
      BY <1>2, <2>2 DEF RemoveVhost, DestroyFails, Return, Goto, TypeOK
    <3>2. vhost'[d] = NoSite /\ loaded'[d] = NoSite
      BY <1>2, <3>1 DEF TypeOK
    <3>3. pc'[v] = "row" => i \in kept
      <4>1. pc'[v] = "row" => ~files[JobOf(v)]
        BY <3>1
      <4>2. JobOf(v) \in Id /\ Live(JobOf(v)) /\ Does(v, "delete")
        BY <1>1, <2>2, JobInHand DEF SameJob, Recipe
      <4>3. QED BY <4>1, <4>2 DEF FilesKept, SiteOf, Does
    <3>4. QED BY <1>2, <1>3, <3>2, <3>3
  <2>3. CASE pc[v] = "unlink" /\ DeleteFiles(v) /\ pc'[v] = "row"
    <3>1. root' = [root EXCEPT ![d] = NoSite] /\ UNCHANGED <<vhost, loaded>>
      BY <1>2, <2>3 DEF DeleteFiles, DestroyFails, Return, Goto, TypeOK
    <3>2. root'[d] = NoSite
      BY <1>2, <3>1 DEF TypeOK
    <3>3. vhost[d] # i /\ loaded[d] # i
      BY <1>3, <2>3 DEF TornDown
    <3>4. QED BY <1>2, <3>1, <3>2, <3>3
  <2>4. QED BY <2>1, <2>2, <2>3
<1>5. CASE pc'[v] = pc[v]
  <2>1. /\ vhost[d] # i /\ loaded[d] # i
        /\ pc[v] = "row" /\ root[d] = i => i \in kept
    BY <1>3, <1>5 DEF TornDown
  <2>2. Does(v, "delete") /\ hands[v] # {}
    BY <1>1, <1>5 DEF Recipe, SameJob
  <2>3. ASSUME NEW w \in Worker, WorkStep(w), SiteOf(w) = i PROVE Does(w, "delete")
    <3>1. hands[w] # {}
      BY <2>3, WorkFrame DEF Employed
    <3>2. QED BY <1>3, <2>2, <2>3, <3>1, Clashing
  <2>4. /\ vhost'[d] = i => vhost[d] = i
        /\ root'[d] = i => root[d] = i
        /\ loaded'[d] = i => loaded[d] = i \/ vhost[d] = i
    BY <1>2, <2>3, NoTraceComes
  <2>5. QED BY <1>2, <1>3, <1>5, <2>1, <2>4
<1>6. QED BY <1>4, <1>5, Fate

\* Only a handler says of its site that it is deploying, active or gone.
LEMMA StatusSet ==
    ASSUME TypeOK, Employed, Recipe, Next, NEW i \in Site,
           status'[i] \in {"removed", "active", "deploying"}, status'[i] # status[i]
    PROVE  \E w \in Worker : WorkStep(w) /\ SiteOf(w) = i /\ RowMoves(w)
<1>1. ASSUME \/ \E d \in Domain, https \in BOOLEAN : Create(d, https)
             \/ \E k \in Site, flag \in BOOLEAN : Delete(k, flag)
      PROVE  FALSE
  BY <1>1 DEF Create, Delete, TypeOK
<1>2. ASSUME \/ \E k \in Site, what \in {"deploy", "certificate"} : Request(k, what)
             \/ \E a \in asking : PushAsked(a)
             \/ \E w \in Worker : Take(w) \/ End(w)
             \/ Start \/ Stop \/ Exit \/ Crash
      PROVE  UNCHANGED rows
  BY <1>2 DEF Request, PushAsked, Take, End, Start, Stop, Exit, Crash
<1>3. PICK w \in Worker : WorkStep(w)
  BY <1>1, <1>2, Steps DEF rows
<1>4. RowMoves(w)
  BY <1>3, RowStep
<1>5. SiteOf(w) = i
  BY <1>4 DEF RowMoves
<1>6. QED BY <1>3, <1>4, <1>5

LEMMA RemovedIsQuietStep ==
    ASSUME TypeOK, Employed, Written, Recipe, NoClash, OneTeardown, RemovedIsQuiet, Next
    PROVE  RemovedIsQuiet'
<1> SUFFICES ASSUME NEW v \in Worker, hands'[v] # {}, status'[SiteOf(v)'] = "removed",
                    SiteOf(v)' \notin overlapped', pc'[v] \notin {"load", "end"}
             PROVE  Does(v, "delete")' /\ SiteOf(v)' \in twice'
  BY DEF RemovedIsQuiet
<1> DEFINE i == SiteOf(v)
<1>1. SameJob(v)
  BY Fate
<1>2. /\ SiteOf(v)' = i /\ hands[v] # {} /\ (Does(v, "delete")' <=> Does(v, "delete"))
      /\ i \in Site /\ i \notin overlapped /\ twice \subseteq twice' /\ status[i] # "absent"
  BY <1>1, JobInHand, History DEF SameJob, Kinds, Written, SiteOf
<1>3. CASE status[i] = "removed"
  <2>1. CASE pc[v] \notin {"load", "end"}
    BY <1>2, <1>3, <2>1 DEF RemovedIsQuiet
  <2>2. CASE pc[v] = "load"
    <3>1. WorkStep(v)
      BY <2>2, Fate
    <3>2. Load(v)
      BY <2>2, <3>1, ByPlace
    <3>3. ~FindSite(v)
      BY <1>3 DEF FindSite, Exists
    <3>4. pc'[v] = "end"
      BY <3>2, <3>3 DEF Load, Return, Goto, TypeOK
    <3>5. QED BY <3>4
  <2>3. CASE pc[v] = "end"
    BY <2>3, Fate, WorkFrame
  <2>4. QED BY <2>1, <2>2, <2>3
<1>4. CASE status[i] # "removed"
  <2>1. PICK w \in Worker : WorkStep(w) /\ SiteOf(w) = i /\ RowMoves(w)
    BY <1>2, <1>4, StatusSet
  <2>2. SiteOf(w) = i /\ pc[w] = "row" /\ pc'[w] = "end"
    BY <1>2, <1>4, <2>1 DEF RowMoves
  <2>3. v # w /\ hands[w] # {} /\ Does(w, "delete")
    BY <2>1, <2>2, WorkFrame DEF Employed, Recipe
  <2>4. Does(v, "delete")
    BY <1>2, <2>2, <2>3, Clashing
  <2>5. i \in twice
    <3>1. /\ JobOf(v) \in Id /\ hands[v] = {JobOf(v)} /\ Live(JobOf(v))
          /\ JobOf(w) \in Id /\ hands[w] = {JobOf(w)} /\ Live(JobOf(w))
      BY <1>2, <2>3, JobInHand
    <3>2. JobOf(v) # JobOf(w)
      BY <2>3, <3>1 DEF Employed
    <3>3. TearsDown(JobOf(v), i) /\ TearsDown(JobOf(w), i)
      BY <2>2, <2>3, <2>4, <3>1 DEF TearsDown, Does, SiteOf
    <3>4. QED BY <1>2, <3>1, <3>2, <3>3 DEF OneTeardown
  <2>6. QED BY <1>2, <2>4, <2>5
<1>5. QED BY <1>3, <1>4

\* What is removed leaves nothing, unless it was worked on both ways at once.
LEMMA RemovedIsGoneStep ==
    ASSUME TypeOK, Employed, Written, Recipe, TornDown, RemovedIsQuiet, RemovedIsGone, Next
    PROVE  RemovedIsGone'
<1> SUFFICES ASSUME NEW i \in Site, status'[i] = "removed", i \notin overlapped'
             PROVE  /\ vhost'[domain'[i]] # i /\ loaded'[domain'[i]] # i
                    /\ root'[domain'[i]] = i => i \in kept'
  BY DEF RemovedIsGone
<1> DEFINE d == domain[i]
<1>1. /\ i \notin overlapped /\ kept \subseteq kept'
      /\ status[i] # "absent" => domain'[i] = d
      /\ d \in Domain
  BY RowLife, History DEF TypeOK
<1>2. CASE status[i] = "removed"
  <2>1. ASSUME NEW w \in Worker, WorkStep(w), SiteOf(w) = i PROVE Does(w, "delete") \/ UNCHANGED machine
    <3>1. hands[w] # {} /\ pc[w] # "end" /\ MachineMoves(w)
      BY <2>1, WorkFrame, MachineStep DEF Employed
    <3>2. CASE pc[w] = "load"
      BY <3>1, <3>2 DEF MachineMoves
    <3>3. CASE pc[w] # "load"
      BY <1>1, <1>2, <2>1, <3>1, <3>3 DEF RemovedIsQuiet
    <3>4. QED BY <3>2, <3>3
  <2>2. \A e \in Domain : /\ vhost'[e] = i => vhost[e] = i
                          /\ root'[e] = i => root[e] = i
                          /\ loaded'[e] = i => loaded[e] = i \/ vhost[e] = i
    BY <2>1, NoTraceComes
  <2>3. vhost[d] # i /\ loaded[d] # i /\ (root[d] = i => i \in kept)
    BY <1>1, <1>2 DEF RemovedIsGone
  <2>4. QED BY <1>1, <1>2, <2>2, <2>3
<1>3. CASE status[i] # "removed"
  <2>1. PICK w \in Worker : WorkStep(w) /\ SiteOf(w) = i /\ RowMoves(w)
    BY <1>3, StatusSet
  <2>2. pc[w] = "row" /\ pc'[w] = "end" /\ status[i] # "absent"
    BY <1>3, <2>1 DEF RowMoves, Exists
  <2>3. DeleteSite(w)
    BY <2>1, <2>2, ByPlace
  <2>4. UNCHANGED machine
    BY <2>3 DEF DeleteSite
  <2>5. vhost[d] # i /\ loaded[d] # i /\ (root[d] = i => i \in kept)
    BY <1>1, <2>1, <2>2 DEF TornDown
  <2>6. QED BY <1>1, <2>2, <2>4, <2>5 DEF machine
<1>4. QED BY <1>2, <1>3

\* A domain that is disturbed stays so.
LEMMA DisturbedStays ==
    ASSUME TypeOK, Employed, Recipe, Written, Next, NEW d, Undisturbed(d)'
    PROVE  Undisturbed(d)
<1> SUFFICES ASSUME NEW i \in Site, domain[i] = d, i \in overlapped \cup twice PROVE FALSE
  BY DEF Undisturbed
<1>1. status[i] # "absent"
  BY DEF Written
<1>2. domain'[i] = d
  BY <1>1, RowLife
<1>3. QED BY <1>2, History DEF Undisturbed

\* On an undisturbed domain only the site that has it is worked on.
LEMMA OwnDomain ==
    ASSUME TypeOK, Employed, Written, Recipe, OneHolder, RemovedIsQuiet,
           NEW i \in Site, Exists(i), Undisturbed(domain[i]),
           NEW w \in Worker, hands[w] # {}, pc[w] \notin {"load", "end"}, domain[SiteOf(w)] = domain[i]
    PROVE  SiteOf(w) = i
<1>1. SiteOf(w) \in Site /\ status[SiteOf(w)] # "absent"
  BY JobInHand DEF Written, SiteOf
<1>2. SiteOf(w) \notin overlapped \cup twice
  BY <1>1 DEF Undisturbed
<1>3. status[SiteOf(w)] # "removed"
  BY <1>2 DEF RemovedIsQuiet
<1>4. QED BY <1>1, <1>3 DEF OneHolder, Exists

\* So what it has stays its own, unless it is being torn down.
LEMMA KeepsItsOwn ==
    ASSUME TypeOK, Employed, Written, Recipe, OneHolder, RemovedIsQuiet, Next,
           NEW i \in Site, Exists(i), Undisturbed(domain[i]),
           \A w \in Worker : WorkStep(w) /\ SiteOf(w) = i => ~Does(w, "delete")
    PROVE  LET d == domain[i] IN
           /\ root[d] = i => root'[d] = i
           /\ vhost[d] = i => vhost'[d] = i
           /\ vhost[d] = i /\ loaded[d] = i => loaded'[d] = i
<1> DEFINE d == domain[i]
<1>1. d \in Domain
  BY DEF TypeOK
<1>2. CASE UNCHANGED machine
  BY <1>2 DEF machine
<1>3. ASSUME NEW w \in Worker, WorkStep(w), ~UNCHANGED machine
      PROVE  /\ root[d] = i => root'[d] = i
             /\ vhost[d] = i => vhost'[d] = i
             /\ vhost[d] = i /\ loaded[d] = i => loaded'[d] = i
  <2>1. MachineMoves(w)
    BY <1>3, MachineStep
  <2>2. hands[w] # {} /\ pc[w] \notin {"load", "end"}
    BY <1>3, <2>1, WorkFrame DEF Employed, MachineMoves
  <2>3. CASE domain[SiteOf(w)] = d
    <3>1. SiteOf(w) = i
      BY <2>2, <2>3, OwnDomain
    <3>2. ~Does(w, "delete")
      BY <1>3, <3>1
    <3>3. QED BY <2>1, <3>1, <3>2 DEF MachineMoves
  <2>4. CASE domain[SiteOf(w)] # d
    BY <1>1, <2>1, <2>4 DEF MachineMoves
  <2>5. QED BY <2>3, <2>4
<1>4. QED BY <1>2, <1>3, MachineStill

LEMMA BuiltUpStep ==
    ASSUME TypeOK, Employed, Written, Recipe, OneHolder, NoClash, RemovedIsQuiet, BuiltUp, Next
    PROVE  BuiltUp'
<1> SUFFICES ASSUME NEW v \in Worker, Does(v, "deploy")', Undisturbed(domain[SiteOf(v)])', pc'[v] \in Rooted
             PROVE  LET i == SiteOf(v)'  d == domain'[SiteOf(v)'] IN
                    /\ root'[d] = i
                    /\ pc'[v] \in Hosted => vhost'[d] = i
                    /\ pc'[v] \in Loaded => loaded'[d] = i
  BY DEF BuiltUp, Hosted, Loaded
<1> DEFINE i == SiteOf(v)  d == domain[SiteOf(v)]
<1>1. SameJob(v)
  BY Fate DEF Rooted
<1>2. /\ SiteOf(v)' = i /\ domain'[i] = d /\ hands[v] # {} /\ Does(v, "deploy")
      /\ i \in Site /\ d \in Domain /\ DomainOf(v) = d
  BY <1>1, JobInHand DEF SameJob, Kinds, DomainOf
<1>3. Undisturbed(d)
  <2>1. PICK e \in Domain : e = d
    BY <1>2
  <2>2. Undisturbed(e)'
    BY <1>2, <2>1 DEF Undisturbed
  <2>3. QED BY <2>1, <2>2, DisturbedStays
<1>4. i \notin overlapped \cup twice
  BY <1>2, <1>3 DEF Undisturbed
<1>5. pc[v] \notin {"load", "end"}
  BY Fate, Course, WorkFrame DEF Rooted
<1>6. Exists(i)
  <2>1. status[i] # "absent"
    BY <1>2, JobInHand DEF Written, SiteOf
  <2>2. status[i] # "removed"
    BY <1>2, <1>4, <1>5 DEF RemovedIsQuiet
  <2>3. QED BY <2>1, <2>2 DEF Exists
<1>7. ASSUME NEW w \in Worker, WorkStep(w), SiteOf(w) = i PROVE ~Does(w, "delete")
  <2>1. hands[w] # {} /\ ~Does(v, "delete")
    BY <1>2, <1>7, WorkFrame DEF Employed, Does
  <2>2. QED BY <1>2, <1>4, <1>7, <2>1, Clashing
<1>8. /\ root[d] = i => root'[d] = i
      /\ vhost[d] = i => vhost'[d] = i
      /\ vhost[d] = i /\ loaded[d] = i => loaded'[d] = i
  BY <1>2, <1>3, <1>6, <1>7, KeepsItsOwn
<1>9. /\ pc[v] \in Rooted => root[d] = i
      /\ pc[v] \in Hosted => vhost[d] = i
      /\ pc[v] \in Loaded => loaded[d] = i
  BY <1>2, <1>3 DEF BuiltUp
<1>10. CASE pc'[v] = pc[v]
  BY <1>2, <1>8, <1>9, <1>10 DEF Hosted, Loaded
<1>11. CASE WorkStep(v)
  <2>1. CASE pc[v] = "build" /\ pc'[v] = "vhost"
    <3>1. root' = [root EXCEPT ![d] = i]
      BY <1>2, <1>11, <2>1, ByPlace DEF Build, DeployFails, Return, Goto, TypeOK
    <3>2. QED BY <1>2, <2>1, <3>1 DEF TypeOK, Hosted, Loaded
  <2>2. CASE pc[v] = "vhost" /\ pc'[v] = "reload"
    <3>1. vhost' = [vhost EXCEPT ![d] = i]
      BY <1>2, <1>11, <2>2, ByPlace DEF WriteVhost, PutVhost, DeployFails, Return, Goto, TypeOK
    <3>2. QED BY <1>2, <1>8, <1>9, <2>2, <3>1 DEF TypeOK, Rooted, Loaded
  <2>3. CASE pc[v] = "reload" /\ pc'[v] \in {"edge", "certify", "check"}
    <3>1. loaded' = vhost
      BY <1>11, <2>3, ByPlace DEF Reload, DeployFails, Return, Goto, TypeOK
    <3>2. QED BY <1>2, <1>8, <1>9, <2>3, <3>1 DEF Rooted, Hosted
  <2>4. CASE pc[v] \in Loaded
    BY <1>2, <1>8, <1>9, <2>4 DEF Rooted, Hosted, Loaded
  <2>5. pc[v] \in Loaded \cup {"build", "vhost", "reload"}
    BY <1>2, <1>11, Course DEF Rooted, Hosted, Loaded, Does
  <2>6. QED BY <1>11, <2>1, <2>2, <2>3, <2>4, <2>5, Course DEF Rooted, Hosted, Loaded
<1>12. QED BY <1>10, <1>11, Fate DEF Rooted

\* A certificate is never taken away, and HTTPS not claimed without one.
LEMMA SecureStays ==
    ASSUME TypeOK, Employed, Written, Recipe, Secured, Next, NEW i \in Site, status[i] # "absent"
    PROVE  cert \subseteq cert' /\ (Secure(i) => Secure(i)')
<1>1. domain'[i] = domain[i]
  BY RowLife
<1>2. ASSUME NEW w \in Worker, WorkStep(w)
      PROVE  cert \subseteq cert' /\ (Secure(i) => Secure(i)')
  <2>1. MachineMoves(w) /\ RowMoves(w)
    BY <1>2, MachineStep, RowStep
  <2>2. cert \subseteq cert'
    BY <2>1 DEF MachineMoves
  <2>3. ssl'[i] => ssl[i] \/ domain[i] \in cert
    <3>1. CASE SiteOf(w) = i
      BY <2>1, <3>1 DEF RowMoves, Secured
    <3>2. CASE SiteOf(w) # i
      BY <2>1, <3>2 DEF RowMoves
    <3>3. QED BY <3>1, <3>2
  <2>4. QED BY <1>1, <2>2, <2>3 DEF Secure
<1>3. CASE ~\E w \in Worker : WorkStep(w)
  <2>1. cert' = cert
    BY <1>3, MachineStill DEF machine
  <2>2. ssl'[i] = ssl[i]
    <3>1. ASSUME NEW d \in Domain, NEW https \in BOOLEAN, Create(d, https) PROVE ssl'[i] = ssl[i]
      <4>1. PICK k \in Site : status[k] = "absent" /\ ssl' = [ssl EXCEPT ![k] = https]
        BY <3>1 DEF Create
      <4>2. QED BY <4>1 DEF TypeOK
    <3>2. ASSUME \/ \E k \in Site, flag \in BOOLEAN : Delete(k, flag)
                 \/ \E k \in Site, what \in {"deploy", "certificate"} : Request(k, what)
                 \/ \E a \in asking : PushAsked(a)
                 \/ \E w \in Worker : Take(w) \/ End(w)
                 \/ Start \/ Stop \/ Exit \/ Crash
          PROVE  ssl' = ssl
      BY <3>2 DEF Delete, Request, PushAsked, Take, End, Start, Stop, Exit, Crash, rows
    <3>3. QED BY <1>3, <3>1, <3>2, Steps
  <2>3. QED BY <1>1, <2>1, <2>2 DEF Secure
<1>4. QED BY <1>2, <1>3

\* Who cannot find its site, cannot later.
LEMMA StaysLost ==
    ASSUME TypeOK, Employed, Written, Recipe, Next, NEW v \in Worker, SameJob(v), ~FindSite(v)
    PROVE  ~FindSite(v)'
<1>1. hands[v] # {} /\ SiteOf(v) \in Site /\ SiteOf(v)' = SiteOf(v) /\ status[SiteOf(v)] # "absent"
  BY JobInHand DEF SameJob, Written, SiteOf
<1>2. CASE ~Exists(SiteOf(v))
  BY <1>1, <1>2, RowLife DEF FindSite, Exists
<1>3. CASE panel # "up"
  <2>1. panel # "down"
    BY <1>1 DEF Employed
  <2>2. ~Start
    BY <2>1 DEF Start
  <2>3. ASSUME NEW w \in Worker, Take(w) \/ WorkStep(w) \/ End(w) PROVE panel' = panel
    BY <2>3, WorkFrame DEF Take, End
  <2>4. panel' # "up"
    BY <1>3, <2>2, <2>3, Steps DEF Create, Delete, Request, PushAsked, Stop, Exit, Crash, Forget
  <2>5. QED BY <2>4 DEF FindSite
<1>4. QED BY <1>2, <1>3 DEF FindSite

LEMMA SecuredStep ==
    ASSUME TypeOK, Employed, Written, Recipe, Secured, Next
    PROVE  Secured'
<1> DEFINE Part(w) ==
        /\ pc[w] = "prove" => domain[SiteOf(w)] \in cert
        /\ Does(w, "deploy") =>
            /\ pc[w] \in {"open", "mkdir", "build", "vhost", "reload"} /\ ~tls[w] => Secure(SiteOf(w))
            /\ pc[w] = "check" => Secure(SiteOf(w)) \/ ~FindSite(w)
            /\ pc[w] = "won" => Secure(SiteOf(w))
<1> SUFFICES ASSUME NEW v \in Worker PROVE Part(v)'
  BY DEF Secured
<1> DEFINE i == SiteOf(v)
<1>1. Part(v)
  BY DEF Secured
<1>2. CASE pc'[v] \in {"idle", "load"}
  BY <1>2
<1>3. ASSUME SameJob(v)
      PROVE  /\ SiteOf(v)' = i /\ domain'[i] = domain[i] /\ i \in Site /\ status[i] # "absent" /\ DomainOf(v) = domain[i]
             /\ Does(v, "deploy")' <=> Does(v, "deploy")
             /\ cert \subseteq cert' /\ (Secure(i) => Secure(i)')
             /\ ~FindSite(v) => ~FindSite(v)'
  <2>1. /\ SiteOf(v)' = i /\ domain'[i] = domain[i] /\ i \in Site /\ status[i] # "absent" /\ DomainOf(v) = domain[i]
        /\ Does(v, "deploy")' <=> Does(v, "deploy")
    BY <1>3, JobInHand DEF SameJob, Kinds, Written, SiteOf, DomainOf
  <2>2. QED BY <1>3, <2>1, SecureStays, StaysLost
<1>4. ASSUME SameJob(v), Secure(i) PROVE Secure(SiteOf(v))'
  <2>1. SiteOf(v)' = i /\ Secure(i)'
    BY <1>3, <1>4
  <2>2. QED BY <2>1 DEF Secure
<1>5. CASE SameJob(v) /\ pc'[v] = pc[v] /\ tls'[v] = tls[v]
  BY <1>1, <1>3, <1>4, <1>5
<1>6. CASE WorkStep(v) /\ SameJob(v)
  <2> DEFINE Plain == ssl'[i] = FALSE \/ domain[i] \in cert
  <2>1. ASSUME Plain PROVE Secure(SiteOf(v))'
    <3>1. SiteOf(v)' = i /\ domain'[i] = domain[i] /\ cert \subseteq cert'
      BY <1>3, <1>6
    <3>2. QED BY <2>1, <3>1 DEF Secure
  <2>2. CASE pc[v] = "load" /\ pc'[v] = "open"
    <3>1. Does(v, "deploy") => tls'[v] = ssl[i] /\ ssl' = ssl
      <4> DEFINE needs == Does(v, "deploy") /\ ssl[i]
      <4>1. needs \in BOOLEAN
        BY DEF Does
      <4> HIDE DEF needs
      <4>2. tls' = [tls EXCEPT ![v] = needs] /\ UNCHANGED rows
        BY <1>6, <2>2, ByPlace DEF Load, needs, Return, Goto, TypeOK
      <4>3. tls'[v] = needs
        BY <4>1, <4>2 DEF TypeOK
      <4>4. ssl[i] \in BOOLEAN
        BY <1>3, <1>6 DEF TypeOK
      <4>5. QED BY <4>2, <4>3, <4>4 DEF needs, rows
    <3>2. Does(v, "deploy") /\ ~tls'[v] => Secure(SiteOf(v))'
      <4>1. ssl[i] \in BOOLEAN /\ SiteOf(v)' = i
        BY <1>3, <1>6 DEF TypeOK
      <4>2. QED BY <3>1, <4>1 DEF Secure
    <3>3. QED BY <1>3, <1>6, <2>2, <3>2
  <2>3. CASE \/ pc[v] = "open" /\ pc'[v] = "mkdir"
             \/ pc[v] = "mkdir" /\ pc'[v] = "build"
             \/ pc[v] = "build" /\ pc'[v] = "vhost"
             \/ pc[v] = "vhost" /\ pc'[v] = "reload"
    <3>1. tls' = tls
      BY <1>6, <2>3, ByPlace DEF Open, MakeRoot, Build, WriteVhost
    <3>2. QED BY <1>1, <1>3, <1>4, <1>6, <2>3, <3>1
  <2>4. CASE pc[v] = "reload" /\ pc'[v] \in {"edge", "certify", "check"}
    <3>1. pc'[v] = "check" => ~tls[v]
      BY <1>6, <2>4, ByPlace DEF Reload, DeployFails, Return, Goto, TypeOK
    <3>2. QED BY <1>1, <1>3, <1>4, <1>6, <2>4, <3>1
  <2>5. CASE pc[v] = "edge" /\ pc'[v] = "check"
    <3>1. FindSite(v) /\ SetSiteSSL(i, FALSE)
      BY <1>6, <2>5, ByPlace DEF UseEdgeTLS, DeployFails, Return, Goto, TypeOK
    <3>2. ssl'[i] = FALSE
      BY <1>3, <1>6, <3>1, SetSSL DEF FindSite
    <3>3. QED BY <2>1, <2>5, <3>2
  <2>6. CASE pc[v] = "certify" /\ pc'[v] = "https"
    BY <2>6
  <2>7. CASE pc[v] = "https" /\ pc'[v] = "prove"
    <3>1. domain[i] \in cert
      BY <1>3, <1>6, <2>7, ByPlace DEF EnableHTTPS, TLSFails, TLSDone, Return, Goto, TypeOK
    <3>2. QED BY <1>3, <1>6, <2>7, <3>1
  <2>8. CASE pc[v] = "https" /\ pc'[v] = "check"
    <3>1. \/ ~FindSite(v) \/ domain[i] \in cert
          \/ FindSite(v) /\ SetSiteSSL(i, FALSE)
      BY <1>3, <1>6, <2>8, ByPlace DEF EnableHTTPS, Goto, TypeOK
    <3>2. ~FindSite(v) \/ Plain
      BY <1>3, <1>6, <3>1, SetSSL DEF FindSite
    <3>3. QED BY <1>3, <1>6, <2>1, <2>8, <3>2
  <2>9. CASE pc[v] = "prove" /\ pc'[v] = "check"
    <3>1. domain[i] \in cert
      BY <1>1, <2>9
    <3>2. QED BY <2>1, <2>9, <3>1
  <2>10. CASE pc[v] = "check" /\ pc'[v] = "won"
    <3>1. FindSite(v)
      BY <1>6, <2>10, ByPlace DEF CheckAnswers, DeployFails, Return, Goto, TypeOK
    <3>2. QED BY <1>1, <1>3, <1>4, <1>6, <2>10, <3>1
  <2>11. CASE pc'[v] \in {"end", "refused", "certify", "unvhost", "unlink", "row"}
    BY <2>11
  <2>12. QED
    BY <1>6, <2>2, <2>3, <2>4, <2>5, <2>6, <2>7, <2>8, <2>9, <2>10, <2>11, Course
<1>7. QED BY <1>2, <1>5, <1>6, Fate

LEMMA StaysServedStep ==
    ASSUME TypeOK, Employed, Written, Recipe, OneHolder, OneTeardown, RemovedIsQuiet, BuiltUp,
           Secured, StaysServed, Next
    PROVE  StaysServed'
<1> SUFFICES ASSUME NEW i \in Site, Visible(i)', status'[i] = "active"
             PROVE  /\ Secure(i)'
                    /\ Undisturbed(domain[i])' => LET d == domain'[i] IN root'[d] = i /\ vhost'[d] = i /\ loaded'[d] = i
  BY DEF StaysServed
<1> DEFINE d == domain[i]
<1>1. status[i] # "absent" /\ domain'[i] = d /\ d \in Domain
  BY RowLife DEF TypeOK
<1>2. Exists(i) /\ ~hidden[i]
  BY <1>1, RowLife DEF Visible, Exists
<1>3. ASSUME Undisturbed(domain[i])' PROVE Undisturbed(d) /\ i \notin twice
  <2>1. PICK e \in Domain : e = d
    BY <1>1
  <2>2. Undisturbed(e)'
    BY <1>1, <1>3, <2>1 DEF Undisturbed
  <2>3. Undisturbed(e)
    BY <2>2, DisturbedStays
  <2>4. QED BY <2>1, <2>3 DEF Undisturbed
<1>4. ASSUME i \notin twice, NEW w \in Worker, WorkStep(w), SiteOf(w) = i PROVE ~Does(w, "delete")
  <2>1. JobOf(w) \in Id /\ Live(JobOf(w)) /\ target[JobOf(w)] = i
    BY <1>4, WorkFrame, JobInHand DEF Employed, SiteOf
  <2>2. ~TearsDown(JobOf(w), i)
    BY <1>2, <1>4, <2>1 DEF OneTeardown
  <2>3. QED BY <2>1, <2>2 DEF TearsDown, Does
<1>5. CASE status[i] = "active"
  <2>1. Secure(i) /\ (Undisturbed(d) => root[d] = i /\ vhost[d] = i /\ loaded[d] = i)
    BY <1>2, <1>5 DEF StaysServed, Visible
  <2>2. ASSUME Undisturbed(domain[i])' PROVE root'[d] = i /\ vhost'[d] = i /\ loaded'[d] = i
    BY <1>2, <1>3, <1>4, <2>1, <2>2, KeepsItsOwn
  <2>3. Secure(i)'
    BY <1>1, <2>1, SecureStays
  <2>4. QED BY <1>1, <2>2, <2>3
<1>6. CASE status[i] # "active"
  <2>1. PICK w \in Worker : WorkStep(w) /\ SiteOf(w) = i /\ RowMoves(w)
    BY <1>6, StatusSet
  <2>2. pc[w] = "won"
    BY <1>6, <2>1 DEF RowMoves
  <2>3. Does(w, "deploy") /\ DeployDone(w)
    BY <2>1, <2>2, ByPlace DEF Recipe
  <2>4. UNCHANGED <<root, vhost, loaded>>
    BY <2>3 DEF DeployDone, machine
  <2>5. Secure(i)'
    BY <1>1, <2>1, <2>2, <2>3, SecureStays DEF Secured
  <2>6. ASSUME Undisturbed(domain[i])' PROVE root[d] = i /\ vhost[d] = i /\ loaded[d] = i
    BY <1>3, <2>1, <2>2, <2>3, <2>6 DEF BuiltUp, Rooted, Hosted, Loaded
  <2>7. QED BY <1>1, <2>4, <2>5, <2>6
<1>7. QED BY <1>5, <1>6

-----------------------------------------------------------------------------
(***************************************************************************)
(* What is asked for is done, or known to be undone.                       *)
(***************************************************************************)
LEMMA WaitingStays ==
    ASSUME TypeOK, Employed, Next, NEW j \in Id, job[j] \in {"waiting", "abandoned"}
    PROVE  \/ job'[j] \in {"waiting", "abandoned"}
           \/ \E w \in Worker : Take(w) /\ hands'[w] = {j}
<1>1. CASE job'[j] = job[j]
  BY <1>1
<1>2. CASE \/ \E d \in Domain, https \in BOOLEAN : Create(d, https)
           \/ \E i \in Site, flag \in BOOLEAN : Delete(i, flag)
           \/ Stop \/ Exit
  BY <1>1, <1>2 DEF Create, Delete, Stop, Exit, queue
<1>3. ASSUME NEW what \in Kinds, NEW i \in Site, NEW flag \in BOOLEAN, Push(what, i, flag)
      PROVE  job'[j] = job[j]
  BY <1>3, Pushed
<1>4. ASSUME NEW i \in Site, NEW what \in {"deploy", "certificate"}, Request(i, what)
      PROVE  job'[j] = job[j]
  <2> DEFINE no == FALSE
  <2>1. no \in BOOLEAN /\ what \in Kinds /\ Push(what, i, no)
    BY <1>4 DEF Request, Kinds
  <2> HIDE DEF no
  <2>2. QED BY <1>3, <2>1
<1>5. ASSUME NEW a \in asking, PushAsked(a) PROVE job'[j] = job[j]
  <2>1. Push(a.kind, a.site, a.files) /\ a.kind \in Kinds /\ a.site \in Site /\ a.files \in BOOLEAN
    BY <1>5 DEF PushAsked, TypeOK
  <2>2. QED BY <1>3, <2>1
<1>6. ASSUME NEW w \in Worker, WorkStep(w) PROVE job'[j] = job[j]
  BY <1>6, WorkFrame
<1>7. ASSUME NEW w \in Worker, End(w) PROVE job'[j] = job[j]
  <2>1. pc[w] = "end" /\ \A k \in Id \ {JobOf(w)} : job'[k] = job[k]
    BY <1>7, Ended
  <2>2. job[JobOf(w)] = "active"
    BY <2>1, JobInHand DEF Employed
  <2>3. QED BY <2>1, <2>2
<1>8. ASSUME NEW w \in Worker, Take(w) PROVE job'[j] = job[j] \/ hands'[w] = {j}
  BY <1>8, Taken DEF TypeOK
<1>9. CASE Start
  BY <1>9 DEF Start, Queue!TakeUpAgain
<1>10. CASE Crash
  BY <1>10 DEF Crash, Queue!LetGoAll
<1>11. QED BY <1>1, <1>2, <1>4, <1>5, <1>6, <1>7, <1>8, <1>9, <1>10, Steps

LEMMA QueuedGoesOn ==
    ASSUME TypeOK, Employed, Recipe, Written, Next, NEW i \in Site, NEW what \in Kinds, Queued(i, what)
    PROVE  Queued(i, what)' \/ InHand(i, what)'
<1>1. PICK j \in Id : job[j] \in {"waiting", "abandoned"} /\ target[j] = i /\ kind[j] = what
  BY DEF Queued
<1>2. CASE job'[j] \in {"waiting", "abandoned"}
  <2>1. Live(j) /\ Live(j)'
    BY <1>1, <1>2 DEF Live
  <2>2. SameWork(j)
    BY <2>1, WorkArrives
  <2>3. QED BY <1>1, <1>2, <2>2 DEF Queued, SameWork
<1>3. ASSUME NEW w \in Worker, Take(w), hands'[w] = {j} PROVE InHand(i, what)'
  <2>1. JobOf(w)' = j
    BY <1>3 DEF JobOf
  <2>2. kind'[j] = what /\ target'[j] = i /\ pc'[w] = "load"
    BY <1>1, <1>3, Taken DEF TypeOK
  <2>3. QED BY <1>3, <2>1, <2>2 DEF InHand, Does, SiteOf
<1>4. QED BY <1>1, <1>2, <1>3, WaitingStays

\* Work in hand goes on until its handler ends it.
LEMMA InHandGoesOn ==
    ASSUME TypeOK, Employed, Recipe, Written, Next, NEW i \in Site, NEW what \in Kinds, InHand(i, what)
    PROVE  \/ InHand(i, what)' \/ Queued(i, what)'
           \/ \E w \in Worker : WorkStep(w) /\ Does(w, what) /\ SiteOf(w) = i /\ pc'[w] = "end"
<1>1. PICK w \in Worker : Does(w, what) /\ SiteOf(w) = i /\ pc[w] # "end"
  BY DEF InHand
<1>2. hands[w] # {} /\ JobOf(w) \in Id /\ hands[w] = {JobOf(w)}
  BY <1>1, JobInHand DEF Does
<1>3. CASE SameJob(w) /\ pc'[w] # "end"
  BY <1>1, <1>3 DEF SameJob, InHand
<1>4. CASE hands'[w] = {}
  <2>1. ~End(w) /\ ~Exit
    BY <1>1, <1>2 DEF End, Exit
  <2>2. ASSUME NEW v \in Worker, Take(v) \/ WorkStep(v) \/ End(v), ~End(w) PROVE FALSE
    <3>1. ~WorkStep(v)
      BY <1>2, <1>4, WorkFrame
    <3>2. ~Take(v)
      <4>1. SUFFICES ASSUME Take(v) PROVE FALSE
        OBVIOUS
      <4>2. \E j \in Id : hands[v] = {} /\ hands' = [hands EXCEPT ![v] = {j}]
        BY <4>1, Taken
      <4>3. QED BY <1>2, <1>4, <4>2 DEF TypeOK
    <3>3. ~End(v)
      <4>1. SUFFICES ASSUME End(v), v # w PROVE FALSE
        BY <2>2
      <4>2. hands' = [hands EXCEPT ![v] = {}]
        BY <4>1, Ended
      <4>3. QED BY <1>2, <1>4, <4>1, <4>2 DEF TypeOK
    <3>4. QED BY <2>2, <3>1, <3>2, <3>3
  <2>3. Crash
    <3>1. hands' # hands
      BY <1>2, <1>4
    <3>2. ASSUME NEW k \in Site, NEW x \in {"deploy", "certificate"}, Request(k, x) PROVE hands' = hands
      BY <3>2 DEF Request, Push, Queue!Submit
    <3>3. ASSUME NEW a \in asking, PushAsked(a) PROVE hands' = hands
      BY <3>3 DEF PushAsked, Push, Queue!Submit
    <3>4. ASSUME \/ \E d \in Domain, https \in BOOLEAN : Create(d, https)
                 \/ \E k \in Site, flag \in BOOLEAN : Delete(k, flag)
                 \/ Start \/ Stop
          PROVE  hands' = hands
      BY <3>4 DEF Create, Delete, Start, Stop, Queue!TakeUpAgain, queue
    <3>5. QED BY <2>1, <2>2, <3>1, <3>2, <3>3, <3>4, Steps
  <2>4. job'[JobOf(w)] = "abandoned" /\ kind' = kind /\ target' = target
    BY <1>2, <2>3 DEF Crash, Queue!LetGoAll
  <2>5. kind[JobOf(w)] = what /\ target[JobOf(w)] = i
    BY <1>1 DEF Does, SiteOf
  <2>6. QED BY <1>2, <2>4, <2>5 DEF Queued
<1>5. ~Take(w)
  BY <1>2 DEF Take, Employed
<1>6. QED BY <1>1, <1>3, <1>4, <1>5, Fate

\* How the handlers of a teardown and of a deployment end.
LEMMA TeardownEnds ==
    ASSUME TypeOK, Employed, Recipe, NEW w \in Worker, WorkStep(w), Does(w, "delete"), pc'[w] = "end"
    PROVE  SiteOf(w) \in undone' \cup dropped' \/ ~Exists(SiteOf(w))'
<1> DEFINE i == SiteOf(w)
<1>1. i \in Site /\ hands[w] # {}
  BY JobInHand DEF Does
<1>2. pc[w] \in {"load", "open", "unvhost", "unlink", "row"}
  BY WorkFrame DEF Recipe, Does, TypeOK
<1>3. CASE pc[w] = "load"
  <2>1. Load(w)
    BY <1>3, ByPlace
  <2>2. ~FindSite(w) /\ dropped' = (IF panel = "up" THEN dropped ELSE dropped \cup {i}) /\ status' = status
    BY <2>1 DEF Load, Goto, TypeOK, rows
  <2>3. CASE panel = "up"
    <3>1. ~Exists(i)
      BY <2>2, <2>3 DEF FindSite
    <3>2. (SiteOf(w) \in Site => ~(status'[i] \notin {"absent", "removed"}))
      BY <2>2, <3>1 DEF Exists
    <3>3. SiteOf(w)' = i
      BY WorkFrame DEF SiteOf, JobOf
    <3>4. QED BY <1>1, <3>2, <3>3 DEF Exists
  <2>4. CASE panel # "up"
    BY <2>2, <2>4
  <2>5. QED BY <2>3, <2>4
<1>4. CASE pc[w] = "open"
  BY <1>4, ByPlace DEF Open, Goto, TypeOK
<1>5. CASE pc[w] = "unvhost"
  BY <1>5, ByPlace DEF RemoveVhost, DestroyFails, Goto, TypeOK
<1>6. CASE pc[w] = "unlink"
  BY <1>6, ByPlace DEF DeleteFiles, DestroyFails, Goto, TypeOK
<1>7. CASE pc[w] = "row"
  <2>1. DeleteSite(w)
    BY <1>7, ByPlace
  <2>2. status'[i] \in {"absent", "removed"}
    BY <1>1, <2>1, SetStatus DEF DeleteSite, Exists, Status
  <2>3. SiteOf(w)' = i
    BY WorkFrame DEF SiteOf, JobOf
  <2>4. QED BY <2>2, <2>3 DEF Exists
<1>8. QED BY <1>2, <1>3, <1>4, <1>5, <1>6, <1>7

LEMMA DeploymentEnds ==
    ASSUME TypeOK, Employed, Recipe, NEW w \in Worker, WorkStep(w), Does(w, "deploy"), pc'[w] = "end"
    PROVE  SiteOf(w) \in dropped' \/ status'[SiteOf(w)] # "deploying"
<1> DEFINE i == SiteOf(w)
<1>1. i \in Site /\ hands[w] # {}
  BY JobInHand DEF Does
<1>2. pc[w] \in {"load", "open", "mkdir", "build", "vhost", "reload", "edge", "certify", "https",
                 "prove", "check", "won"}
  BY WorkFrame DEF Recipe, Does, TypeOK
<1>3. ASSUME DeployFails(w) PROVE status'[i] # "deploying"
  BY <1>1, <1>3, SetStatus DEF DeployFails, Exists, Status
<1>4. CASE pc[w] = "load"
  <2>1. ~FindSite(w) /\ dropped' = (IF panel = "up" THEN dropped ELSE dropped \cup {i}) /\ status' = status
    BY <1>4, ByPlace DEF Load, Goto, TypeOK, rows
  <2>2. QED BY <2>1 DEF FindSite, Exists
<1>5. CASE pc[w] = "open"
  BY <1>5, ByPlace DEF Open, Goto, TypeOK
<1>6. CASE pc[w] \in {"mkdir", "build"}
  BY <1>3, <1>6, ByPlace DEF MakeRoot, Build, Goto, TypeOK
<1>7. CASE pc[w] \in {"vhost", "reload"}
  BY <1>3, <1>7, ByPlace DEF WriteVhost, Reload, Goto, TypeOK
<1>8. CASE pc[w] \in {"edge", "check"}
  BY <1>3, <1>8, ByPlace DEF UseEdgeTLS, CheckAnswers, Goto, TypeOK
<1>9. CASE pc[w] \in {"certify", "https", "prove"}
  BY <1>9, ByPlace DEF RequestCertificate, EnableHTTPS, ProveHTTPS, TLSFails, TLSDone, Goto, TypeOK
<1>10. CASE pc[w] = "won"
  <2>1. DeployDone(w)
    BY <1>10, ByPlace
  <2>2. QED BY <1>1, <2>1, SetStatus DEF DeployDone, Exists, Status
<1>11. QED BY <1>2, <1>4, <1>5, <1>6, <1>7, <1>8, <1>9, <1>10

LEMMA HiddenStep ==
    ASSUME TypeOK, Employed, Recipe, Written, HiddenIsLeaving, Next
    PROVE  HiddenIsLeaving'
<1> SUFFICES ASSUME NEW i \in Site, Exists(i)', hidden'[i]
             PROVE  Asked(i, "delete")' \/ Queued(i, "delete")' \/ InHand(i, "delete")'
                        \/ i \in undone' \cup dropped'
  BY DEF HiddenIsLeaving
<1>1. undone \subseteq undone' /\ dropped \subseteq dropped'
  BY History
<1>2. ASSUME NEW flag \in BOOLEAN, Delete(i, flag) PROVE Asked(i, "delete")'
  <2> DEFINE a == [kind |-> "delete", site |-> i, files |-> flag]
  <2>1. a \in asking'
    BY <1>2 DEF Delete
  <2>2. a.site = i /\ a.kind = "delete"
    OBVIOUS
  <2>3. QED BY <2>1, <2>2 DEF Asked
<1>3. CASE ~\E flag \in BOOLEAN : Delete(i, flag)
  <2>1. Exists(i) /\ hidden[i]
    <3>1. CASE status[i] = "absent"
      BY <3>1, RowLife DEF Written, Exists
    <3>2. CASE status[i] # "absent"
      <4>1. Exists(i)
        BY <3>2, RowLife DEF Exists
      <4>2. hidden'[i] = hidden[i]
        <5>1. ASSUME NEW k \in Site, NEW flag \in BOOLEAN, Delete(k, flag) PROVE hidden'[i] = hidden[i]
          <6>1. k # i /\ hidden' = [hidden EXCEPT ![k] = TRUE]
            BY <1>3, <5>1 DEF Delete
          <6>2. QED BY <6>1 DEF TypeOK
        <5>2. ASSUME NEW w \in Worker, Take(w) \/ WorkStep(w) \/ End(w) PROVE hidden' = hidden
          BY <5>2, WorkFrame DEF Take, End, rows
        <5>3. ASSUME \/ \E d \in Domain, https \in BOOLEAN : Create(d, https)
                     \/ \E k \in Site, what \in {"deploy", "certificate"} : Request(k, what)
                     \/ \E a \in asking : PushAsked(a)
                     \/ Start \/ Stop \/ Exit \/ Crash
              PROVE  hidden' = hidden
          BY <5>3 DEF Create, Request, PushAsked, Start, Stop, Exit, Crash, rows
        <5>4. QED BY <5>1, <5>2, <5>3, Steps
      <4>3. QED BY <4>1, <4>2
    <3>3. QED BY <3>1, <3>2
  <2>2. CASE i \in undone \cup dropped
    BY <1>1, <2>2
  <2>3. CASE Asked(i, "delete")
    <3>1. PICK a \in asking : a.site = i /\ a.kind = "delete"
      BY <2>3 DEF Asked
    <3>2. CASE a \in asking'
      BY <3>1, <3>2 DEF Asked
    <3>3. CASE PushAsked(a)
      <4>1. Push(a.kind, a.site, a.files) /\ a.kind \in Kinds /\ a.site \in Site /\ a.files \in BOOLEAN
        BY <3>3 DEF PushAsked, TypeOK
      <4>2. \E j \in Id : job'[j] = "waiting" /\ kind'[j] = a.kind /\ target'[j] = a.site
        BY <4>1, Pushed
      <4>3. QED BY <3>1, <4>2 DEF Queued
    <3>4. CASE Exit \/ Crash
      <4>1. i \in dropped'
        BY <3>1, <3>4 DEF Exit, Crash, Forget
      <4>2. QED BY <4>1
    <3>5. ASSUME NEW w \in Worker, Take(w) \/ WorkStep(w) \/ End(w) PROVE asking' = asking
      BY <3>5, WorkFrame DEF Take, End
    <3>6. ASSUME NEW b \in asking, PushAsked(b), b # a PROVE a \in asking'
      BY <3>6 DEF PushAsked
    <3>7. ASSUME \/ \E d \in Domain, https \in BOOLEAN : Create(d, https)
                 \/ \E k \in Site, flag \in BOOLEAN : Delete(k, flag)
                 \/ \E k \in Site, what \in {"deploy", "certificate"} : Request(k, what)
                 \/ Start \/ Stop
          PROVE  asking \subseteq asking'
      BY <3>7 DEF Create, Delete, Request, Start, Stop
    <3>8. QED BY <3>2, <3>3, <3>4, <3>5, <3>6, <3>7, Steps
  <2>4. CASE Queued(i, "delete")
    BY <2>4, QueuedGoesOn DEF Kinds
  <2>5. CASE InHand(i, "delete")
    <3>1. ASSUME NEW w \in Worker, WorkStep(w), Does(w, "delete"), SiteOf(w) = i, pc'[w] = "end"
          PROVE  i \in undone' \cup dropped'
      <4>1. SiteOf(w)' = SiteOf(w)
        BY <3>1, WorkFrame DEF SiteOf, JobOf
      <4>2. Exists(SiteOf(w))'
        BY <3>1, <4>1 DEF Exists
      <4>3. QED BY <3>1, <4>2, TeardownEnds
    <3>2. QED BY <2>5, <3>1, InHandGoesOn DEF Kinds
  <2>6. QED BY <2>1, <2>2, <2>3, <2>4, <2>5 DEF HiddenIsLeaving
<1>4. QED BY <1>2, <1>3

LEMMA DeployingStep ==
    ASSUME TypeOK, Employed, Recipe, Written, DeployingIsDeployed, Next
    PROVE  DeployingIsDeployed'
<1> SUFFICES ASSUME NEW i \in Site, status'[i] = "deploying"
             PROVE  InHand(i, "deploy")' \/ Queued(i, "deploy")' \/ i \in dropped'
  BY DEF DeployingIsDeployed
<1>1. CASE status[i] = "deploying"
  <2>1. CASE i \in dropped
    BY <2>1, History
  <2>2. CASE Queued(i, "deploy")
    BY <2>2, QueuedGoesOn DEF Kinds
  <2>3. CASE InHand(i, "deploy")
    <3>1. ASSUME NEW w \in Worker, WorkStep(w), Does(w, "deploy"), SiteOf(w) = i, pc'[w] = "end"
          PROVE  i \in dropped'
      BY <3>1, DeploymentEnds
    <3>2. QED BY <2>3, <3>1, InHandGoesOn DEF Kinds
  <2>4. QED BY <1>1, <2>1, <2>2, <2>3 DEF DeployingIsDeployed
<1>2. CASE status[i] # "deploying"
  <2>1. PICK w \in Worker : WorkStep(w) /\ SiteOf(w) = i /\ RowMoves(w)
    BY <1>2, StatusSet
  <2>2. Does(w, "deploy") /\ pc'[w] = "mkdir"
    BY <1>2, <2>1 DEF RowMoves
  <2>3. SameJob(w)
    BY <2>1, <2>2, WorkFrame, KeepsJob DEF Does
  <2>4. QED BY <2>1, <2>2, <2>3 DEF SameJob, InHand, Kinds
<1>3. QED BY <1>1, <1>2

-----------------------------------------------------------------------------
(***************************************************************************)
(* The invariant, and the theorems.                                        *)
(***************************************************************************)
LEMMA SiteFirst == Init => SiteInv
<1> SUFFICES ASSUME Init PROVE SiteInv
  OBVIOUS
<1>1. TypeOK
  BY TypeFirst
<1>2. PICK served \in Served :
         /\ status = [i \in Site |-> IF served /\ i = 1 THEN "active" ELSE "absent"]
         /\ ssl = [i \in Site |-> served /\ i = 1]
         /\ root = [d \in Domain |-> IF served /\ d = domain[1] THEN 1 ELSE NoSite]
         /\ vhost = root
         /\ cert = IF served THEN {domain[1]} ELSE {}
  BY DEF Init
<1>3. /\ hidden = [i \in Site |-> FALSE] /\ loaded = vhost /\ asking = {}
      /\ job = [j \in Id |-> "new"] /\ hands = [w \in Worker |-> {}]
      /\ pc = [w \in Worker |-> "idle"] /\ panel = "up"
      /\ overlapped = {} /\ twice = {}
  BY DEF Init, Queue!Init
<1>4. Employed /\ FilesKept
  BY <1>3 DEF Employed, FilesKept, Live
<1>5. Written /\ OneTeardown
  BY <1>3 DEF Written, OneTeardown, Live, TearsDown
<1>6. Recipe /\ NoClash /\ TornDown
  BY <1>3 DEF Recipe, NoClash, TornDown
<1>7. RemovedIsQuiet /\ BuiltUp /\ Secured
  BY <1>3 DEF RemovedIsQuiet, BuiltUp, Secured, Rooted, Hosted, Loaded, Does
<1>8. /\ \A i \in Site : status[i] \in {"active", "absent"}
      /\ \A i \in Site : status[i] = "active" =>
            i = 1 /\ root[domain[i]] = i /\ vhost = root /\ loaded = root /\ domain[i] \in cert
  BY <1>1, <1>2, <1>3 DEF TypeOK
<1>9. OneHolder
  BY <1>8 DEF OneHolder, Exists
<1>10. StaysServed
  BY <1>8 DEF StaysServed, Secure
<1>11. RemovedIsGone
  BY <1>8 DEF RemovedIsGone
<1>12. StatusHasWork
  BY <1>3, <1>8 DEF StatusHasWork, HiddenIsLeaving, DeployingIsDeployed
<1>13. QED
  BY <1>1, <1>4, <1>5, <1>6, <1>7, <1>9, <1>10, <1>11, <1>12 DEF SiteInv

LEMMA SiteNext == SiteInv /\ [Next]_vars => SiteInv'
<1> SUFFICES ASSUME SiteInv, [Next]_vars PROVE SiteInv'
  OBVIOUS
<1>1. CASE Next
  <2> USE <1>1 DEF SiteInv
  <2>1. TypeOK' /\ Employed' /\ Written' /\ Recipe'
    BY TypeStep, EmployedStep, WrittenStep, RecipeStep
  <2>2. FilesKept' /\ OneHolder' /\ NoClash' /\ OneTeardown'
    BY FilesKeptStep, OneHolderStep, NoClashStep, OneTeardownStep
  <2>3. TornDown' /\ RemovedIsQuiet' /\ RemovedIsGone'
    BY TornDownStep, RemovedIsQuietStep, RemovedIsGoneStep
  <2>4. BuiltUp' /\ Secured' /\ StaysServed'
    BY BuiltUpStep, SecuredStep, StaysServedStep
  <2>5. StatusHasWork'
    BY HiddenStep, DeployingStep DEF StatusHasWork
  <2>6. QED BY <2>1, <2>2, <2>3, <2>4, <2>5
<1>2. CASE UNCHANGED vars
  <2> USE <1>2 DEF vars, SiteInv
  <2>1. TypeOK' /\ Employed'
    BY DEF TypeOK, Employed
  <2>2. Written' /\ Recipe' /\ FilesKept'
    BY DEF Written, Live, Recipe, Does, JobOf, FilesKept
  <2>3. OneHolder' /\ NoClash'
    BY DEF OneHolder, Exists, NoClash, SiteOf, Does, JobOf
  <2>4. OneTeardown'
    BY DEF OneTeardown, TearsDown, Live
  <2>5. TornDown' /\ RemovedIsQuiet'
    BY DEF TornDown, RemovedIsQuiet, SiteOf, JobOf, Does
  <2>6. BuiltUp'
    BY DEF BuiltUp, SiteOf, JobOf, Does, Undisturbed
  <2>7. Secured' /\ StaysServed'
    BY DEF Secured, StaysServed, Secure, SiteOf, JobOf, Does, FindSite, Exists, Visible, Undisturbed
  <2>8. RemovedIsGone'
    BY DEF RemovedIsGone
  <2>9. HiddenIsLeaving'
    BY DEF StatusHasWork, HiddenIsLeaving, Exists, Asked, Queued, InHand, Does, SiteOf, JobOf
  <2>10. DeployingIsDeployed'
    BY DEF StatusHasWork, DeployingIsDeployed, Queued, InHand, Does, SiteOf, JobOf
  <2>11. QED BY <2>1, <2>2, <2>3, <2>4, <2>5, <2>6, <2>7, <2>8, <2>9, <2>10 DEF StatusHasWork
<1>3. QED BY <1>1, <1>2

\* Every row, job and handler is what the code can store.
THEOREM SiteTypes == Spec => []TypeOK
<1>1. SiteInv => TypeOK
  BY DEF SiteInv
<1>2. QED BY SiteFirst, SiteNext, <1>1, PTL DEF Spec

\* lifecycle.go:256: once the row of a site is gone nothing of it is on the
\* machine, unless it was deployed and torn down at once or its files were to
\* stay.
THEOREM NothingIsLeft == Spec => []RemovedIsGone
<1>1. SiteInv => RemovedIsGone
  BY DEF SiteInv
<1>2. QED BY SiteFirst, SiteNext, <1>1, PTL DEF Spec

\* lifecycle.go:239: a site that says active is served, with a certificate if
\* it says HTTPS, whatever failed, crashed or ran twice before.
THEOREM ActiveMeansServed == Spec => []ActiveIsServed
<1>1. SiteInv => ActiveIsServed
  BY DEF SiteInv, StaysServed, ActiveIsServed, Secure
<1>2. QED BY SiteFirst, SiteNext, <1>1, PTL DEF Spec

\* store/site.go:440: a hidden row is on its way out and a deploying one is
\* being deployed, unless the teardown failed or the work was cut off.
THEOREM NoStatusIsOrphaned == Spec => []StatusHasWork
<1>1. SiteInv => StatusHasWork
  BY DEF SiteInv
<1>2. QED BY SiteFirst, SiteNext, <1>1, PTL DEF Spec

\* lifecycle.go:286-330: no step takes or replaces the files or the vhost of a
\* site the panel shows, on a domain where no site was torn down twice or while
\* it was deployed.
THEOREM NoSiteTakesAnothers == Spec => VisibleKeepsItsOwn
<1> DEFINE Kept == \A i \in Site : LET d == domain[i] IN
                      Visible(i) /\ Undisturbed(d) =>
                          /\ root[d] = i => root'[d] = i
                          /\ vhost[d] = i => vhost'[d] = i
<1>1. SiteInv /\ [Next]_vars => [Kept]_vars
  <2> SUFFICES ASSUME SiteInv, Next, NEW i \in Site, Visible(i), Undisturbed(domain[i])
               PROVE  /\ root[domain[i]] = i => root'[domain[i]] = i
                      /\ vhost[domain[i]] = i => vhost'[domain[i]] = i
    OBVIOUS
  <2> USE DEF SiteInv
  <2>1. Exists(i) /\ ~hidden[i] /\ i \notin twice
    BY DEF Visible, Undisturbed
  <2>2. ASSUME NEW w \in Worker, WorkStep(w), SiteOf(w) = i PROVE ~Does(w, "delete")
    <3>1. JobOf(w) \in Id /\ Live(JobOf(w)) /\ target[JobOf(w)] = i
      BY <2>2, WorkFrame, JobInHand DEF Employed, SiteOf
    <3>2. ~TearsDown(JobOf(w), i)
      BY <2>1, <3>1 DEF OneTeardown
    <3>3. QED BY <3>1, <3>2 DEF TearsDown, Does
  <2>3. QED BY <2>1, <2>2, KeepsItsOwn
<1>2. QED BY SiteFirst, SiteNext, <1>1, PTL DEF Spec, VisibleKeepsItsOwn

=============================================================================
