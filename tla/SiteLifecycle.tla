--------------------------- MODULE SiteLifecycle ---------------------------
(***************************************************************************)
(* The life of a site: the requests of web/sites.go and web/site_request.go, *)
(* and the jobs site.deploy, site.certificate and site.delete of           *)
(* internal/sites.                                                         *)
(*                                                                         *)
(* A site is a row, and what its jobs leave on the machine: files, a vhost *)
(* on disk, the vhost nginx runs, a certificate.  All of those are named   *)
(* after the domain and not after the row, so two rows with one domain in  *)
(* their past share them.  Deleting hides the row at once and takes the    *)
(* machine apart later; only then does the row go and the domain come free.*)
(***************************************************************************)
EXTENDS Naturals, FiniteSets

CONSTANTS
    Domain,
    Served,        \* whether there is a site at the start: a subset of BOOLEAN
    Worker,        \* the queue's ordinary workers
    MaxSites,      \* bound: rows ever created
    MaxJobs,       \* bound: jobs ever pushed
    MaxCuts        \* bound: stops and crashes

ASSUME SiteAssumption ==
    /\ Domain # {} /\ Served \subseteq BOOLEAN
    /\ MaxSites \in Nat \ {0} /\ MaxJobs \in Nat /\ MaxCuts \in Nat

Site == 1..MaxSites
Id == 1..MaxJobs
NoSite == 0

VARIABLES
    status, hidden, domain, ssl,    \* the sites table; hidden is deleted_at
    root,                           \* whose files the domain's directory has
    vhost, loaded,                  \* whose vhost: on disk, in the nginx that runs
    cert,                           \* the domains certbot has one for
    job, kind, target, files,       \* the jobs: state, what, which site, its flag
    hands,                          \* [Worker -> SUBSET Id]
    pc, tls, okay,                  \* where each handler is, and its locals
    asking,                         \* rows written by requests that have yet to push
    panel,                          \* "down", "up" or "stopping"
    cuts,
    unissued,                       \* history: sites put on HTTP for want of a certificate
    overlapped,                     \* history: sites deployed and torn down at once
    twice,                          \* history: sites deleted more than once
    kept,                           \* history: sites deleted without their files
    undone,                         \* history: sites whose teardown failed
    dropped                         \* history: sites whose job was cut off

rows == <<status, hidden, domain, ssl>>
machine == <<root, vhost, loaded, cert>>
queue == <<job, kind, target, files, hands>>
locals == <<pc, tls, okay>>
history == <<cuts, unissued, overlapped, twice, kept, undone, dropped>>
vars == <<status, hidden, domain, ssl, root, vhost, loaded, cert, job, kind, target,
          files, hands, pc, tls, okay, asking, panel, cuts, unissued, overlapped,
          twice, kept, undone, dropped>>

Queue == INSTANCE WorkQueue WITH Job <- Id, state <- job, doing <- hands

\* "absent" is an id not handed out yet, "removed" one whose row was deleted.
Status == {"absent", "pending", "deploying", "active", "failed", "deleting", "removed"}
Kinds == {"deploy", "certificate", "delete"}

TypeOK ==
    /\ status \in [Site -> Status]
    /\ hidden \in [Site -> BOOLEAN]
    /\ domain \in [Site -> Domain]
    /\ ssl \in [Site -> BOOLEAN]
    /\ root \in [Domain -> Site \cup {NoSite}]
    /\ vhost \in [Domain -> Site \cup {NoSite}]
    /\ loaded \in [Domain -> Site \cup {NoSite}]
    /\ cert \subseteq Domain
    /\ job \in [Id -> Queue!State]
    /\ kind \in [Id -> Kinds]
    /\ target \in [Id -> Site]
    /\ files \in [Id -> BOOLEAN]
    /\ hands \in [Worker -> SUBSET Id]
    /\ pc \in [Worker -> {"idle", "load", "open", "mkdir", "build", "vhost", "reload",
                          "edge", "certify", "https", "prove", "check", "won",
                          "refused", "unvhost", "unlink", "row", "end"}]
    /\ tls \in [Worker -> BOOLEAN]
    /\ okay \in [Worker -> BOOLEAN]
    /\ asking \subseteq [kind : Kinds, site : Site, files : BOOLEAN]
    /\ panel \in {"down", "up", "stopping"}
    /\ cuts \in 0..MaxCuts
    /\ unissued \subseteq Site /\ overlapped \subseteq Site /\ twice \subseteq Site
    /\ kept \subseteq Site /\ undone \subseteq Site /\ dropped \subseteq Site

\* A panel without a site, or with one that is served already, over HTTPS.
Init ==
    /\ domain = [i \in Site |-> CHOOSE d \in Domain : TRUE]
    /\ \E served \in Served :
          /\ status = [i \in Site |-> IF served /\ i = 1 THEN "active" ELSE "absent"]
          /\ ssl = [i \in Site |-> served /\ i = 1]
          /\ root = [d \in Domain |-> IF served /\ d = domain[1] THEN 1 ELSE NoSite]
          /\ vhost = root
          /\ cert = IF served THEN {domain[1]} ELSE {}
    /\ hidden = [i \in Site |-> FALSE]
    /\ loaded = vhost
    /\ Queue!Init
    /\ kind = [j \in Id |-> "deploy"]
    /\ target = [j \in Id |-> 1]
    /\ files = [j \in Id |-> FALSE]
    /\ pc = [w \in Worker |-> "idle"]
    /\ tls = [w \in Worker |-> FALSE]
    /\ okay = [w \in Worker |-> TRUE]
    /\ asking = {}
    /\ panel = "up"
    /\ cuts = 0
    /\ unissued = {} /\ overlapped = {} /\ twice = {} /\ kept = {} /\ undone = {} /\ dropped = {}
-----------------------------------------------------------------------------
Exists(i) == status[i] \notin {"absent", "removed"}
Visible(i) == Exists(i) /\ ~hidden[i]

\* An UPDATE ... WHERE id = ?: nothing happens to a row that is gone.
SetSiteStatus(i, to) == status' = IF Exists(i) THEN [status EXCEPT ![i] = to] ELSE status
SetSiteSSL(i, to) == ssl' = IF Exists(i) THEN [ssl EXCEPT ![i] = to] ELSE ssl

NewJobs == {j \in Id : job[j] = "new"}

\* The bound on jobs leaves room for those already asked for.
Room == Cardinality(NewJobs) > Cardinality(asking)

Push(what, i, flag) ==
    \E j \in NewJobs :
        /\ \A l \in NewJobs : j <= l
        /\ Queue!Submit(j)
        /\ kind' = [kind EXCEPT ![j] = what]
        /\ target' = [target EXCEPT ![j] = i]
        /\ files' = [files EXCEPT ![j] = flag]

\* The rows that keep a domain from being used again: the column is UNIQUE, so
\* hidden ones do too, whatever FindSiteByDomain says.  The variant asks only
\* FindSiteByDomain.
HoldersVisible(d) == {i \in Site : Visible(i) /\ domain[i] = d}
Holders(d) == {i \in Site : Exists(i) /\ domain[i] = d}

\* What prepareSite asks of the table.  (Whether the machine has what the type
\* needs, and every default it fills in, changes nothing here.)
prepareSite(d) == HoldersVisible(d) = {}

\* prepareSite and CreateSite; the push is a step of its own.
Create(d, https) ==
    /\ panel = "up" /\ Room
    /\ prepareSite(d)
    /\ Holders(d) = {}
    /\ \E i \in Site :
          /\ status[i] = "absent" /\ \A k \in Site : status[k] = "absent" => i <= k
          /\ status' = [status EXCEPT ![i] = "pending"]
          /\ domain' = [domain EXCEPT ![i] = d]
          /\ ssl' = [ssl EXCEPT ![i] = https]
          /\ asking' = asking \cup {[kind |-> "deploy", site |-> i, files |-> FALSE]}
    /\ UNCHANGED <<hidden, machine, queue, locals, panel, cuts, unissued, overlapped, twice, kept, undone, dropped>>

\* The two ways to create one.
sitesStore == \E d \in Domain, https \in BOOLEAN : Create(d, https)
mcpProvisionSite == \E d \in Domain, https \in BOOLEAN : Create(d, https)

\* MarkSiteDeleted.  FindSite finds hidden rows too, so a row can be deleted
\* twice.
Delete(i, flag) ==
    /\ panel = "up" /\ Room
    /\ Exists(i)
    /\ hidden' = [hidden EXCEPT ![i] = TRUE]
    /\ status' = [status EXCEPT ![i] = "deleting"]
    /\ twice' = IF hidden[i] THEN twice \cup {i} ELSE twice
    /\ kept' = IF flag THEN kept ELSE kept \cup {i}
    /\ asking' = asking \cup {[kind |-> "delete", site |-> i, files |-> flag]}
    /\ UNCHANGED <<domain, ssl, machine, queue, locals, panel, cuts, unissued, overlapped,
                   undone, dropped>>

PushAsked(a) ==
    /\ panel # "down" /\ a \in asking
    /\ Push(a.kind, a.site, a.files)
    /\ asking' = asking \ {a}
    /\ UNCHANGED <<rows, machine, locals, panel, history>>

\* A push for a row that exists, whatever its status.
Request(i, what) ==
    /\ panel = "up" /\ Room
    /\ Exists(i)
    /\ Push(what, i, FALSE)
    /\ UNCHANGED <<rows, machine, locals, asking, panel, history>>

sitesDestroy(i) == \E flag \in BOOLEAN : Delete(i, flag)
sitesRedeploy(i) == Request(i, "deploy")
sitesCertificate(i) == Request(i, "certificate")

\* How a tool finds a site: by id one that is not being deleted, by domain one
\* that is not hidden.
mcpSite(i) == Exists(i) /\ (status[i] # "deleting" \/ ~hidden[i])

mcpDeleteSite(i) == mcpSite(i) /\ \E flag \in BOOLEAN : Delete(i, flag)
mcpDeploySite(i) == mcpSite(i) /\ Request(i, "deploy")
mcpRequestCertificate(i) == mcpSite(i) /\ Request(i, "certificate")
-----------------------------------------------------------------------------
JobOf(w) == CHOOSE j \in Id : hands[w] = {j}
SiteOf(w) == target[JobOf(w)]
DomainOf(w) == domain[SiteOf(w)]
Does(w, what) == hands[w] # {} /\ kind[JobOf(w)] = what

\* FindSite(ctx, id) answers: the row is there, and ctx was not cancelled.
FindSite(w) == Exists(SiteOf(w)) /\ panel = "up"

\* Work on one site by two workers, one of them taking it apart.
Clash(w, j) == \E v \in Worker \ {w} :
    /\ hands[v] # {} /\ SiteOf(v) = target[j]
    /\ (kind[j] = "delete") # Does(v, "delete")

Take(w) ==
    /\ panel = "up" /\ pc[w] = "idle"
    /\ \E j \in Id : /\ \A k \in Id : job[k] = "waiting" => j <= k
                     /\ Queue!Take(w, j)
                     /\ overlapped' = IF Clash(w, j) THEN overlapped \cup {target[j]}
                                                     ELSE overlapped
    /\ pc' = [pc EXCEPT ![w] = "load"]
    /\ UNCHANGED <<rows, machine, kind, target, files, tls, okay, asking, panel, cuts, unissued,
                   twice, kept, undone, dropped>>

Goto(w, step) == pc' = [pc EXCEPT ![w] = step]

\* The handler returns an error.
Return(w) == /\ Goto(w, "end")
             /\ okay' = [okay EXCEPT ![w] = FALSE]

\* Deploy, Certificate and Destroy: FindSite.  Deploy's recipe has TLS steps if
\* the row says ssl now, and a certificate is for a site whose row does.
Load(w) ==
    /\ pc[w] = "load"
    /\ \/ /\ ~FindSite(w)
          /\ Return(w)
          /\ dropped' = IF panel = "up" THEN dropped ELSE dropped \cup {SiteOf(w)}
          /\ UNCHANGED tls
       \/ /\ FindSite(w)
          /\ \/ /\ Does(w, "certificate") /\ ~ssl[SiteOf(w)]
                /\ Goto(w, "refused")
                /\ UNCHANGED tls
             \/ /\ Does(w, "certificate") => ssl[SiteOf(w)]
                /\ Goto(w, "open")
                /\ tls' = [tls EXCEPT ![w] = Does(w, "deploy") /\ ssl[SiteOf(w)]]
          /\ UNCHANGED <<okay, dropped>>
    /\ UNCHANGED <<rows, machine, queue, asking, panel, cuts, unissued, overlapped, twice, kept, undone>>

Refuse(w) ==
    /\ pc[w] = "refused"
    /\ Return(w)
    /\ UNCHANGED <<rows, machine, queue, tls, asking, panel, history>>

\* CreateTask, and a deployment's first mark on the row.
Open(w) ==
    /\ pc[w] = "open"
    /\ \/ /\ panel # "up"
          /\ Return(w)
          /\ dropped' = dropped \cup {SiteOf(w)}
          /\ UNCHANGED status
       \/ /\ panel = "up"
          /\ \/ /\ Does(w, "deploy")
                /\ SetSiteStatus(SiteOf(w), "deploying")
                /\ Goto(w, "mkdir")
             \/ Does(w, "certificate") /\ Goto(w, "certify") /\ UNCHANGED status
             \/ Does(w, "delete") /\ Goto(w, "unvhost") /\ UNCHANGED status
          /\ UNCHANGED <<okay, dropped>>
    /\ UNCHANGED <<hidden, domain, ssl, machine, queue, tls, asking, panel, cuts, unissued,
                   overlapped, twice, kept, undone>>
-----------------------------------------------------------------------------
(* The recipe of a deployment.  Every step can fail for reasons of its own;  *)
(* the ones that load the row again also fail once it is gone or ctx is      *)
(* cancelled.  Loading happens at the start of a step, and what a step does  *)
(* to the machine is done before the next one loads it again.                *)

\* The failure of a step that the deployment cannot do without.  The variants:
\* a status of another name, and Run's answer not looked at.
DeployFailsOther(w) == SetSiteStatus(SiteOf(w), "broken") /\ Return(w)
DeployFailsIgnored(w) == SetSiteStatus(SiteOf(w), "active") /\ Return(w)
DeployFails(w) == /\ SetSiteStatus(SiteOf(w), "failed")
                  /\ Return(w)

\* "Create the site directory": a command, with the path in it.
MakeRoot(w) ==
    /\ pc[w] = "mkdir"
    /\ \/ /\ root' = IF root[DomainOf(w)] = NoSite
                     THEN [root EXCEPT ![DomainOf(w)] = SiteOf(w)] ELSE root
          /\ Goto(w, "build")
          /\ UNCHANGED <<status, okay>>
       \/ DeployFails(w) /\ UNCHANGED root
    /\ UNCHANGED <<hidden, domain, ssl, vhost, loaded, cert, queue, tls, asking, panel, history>>

\* The database, the DNS records and the application of the site's type.
Build(w) ==
    /\ pc[w] = "build"
    /\ \/ /\ FindSite(w)
          /\ root' = [root EXCEPT ![DomainOf(w)] = SiteOf(w)]
          /\ Goto(w, "vhost")
          /\ UNCHANGED <<status, okay>>
       \/ DeployFails(w) /\ UNCHANGED root
    /\ UNCHANGED <<hidden, domain, ssl, vhost, loaded, cert, queue, tls, asking, panel, history>>

\* The plain form or the HTTPS one: a file nginx would serve the site with.
PutVhost(w) == vhost' = [vhost EXCEPT ![DomainOf(w)] = SiteOf(w)]

\* writeVhost always writes the plain form first; linking it can still fail.
WriteVhost(w) ==
    /\ pc[w] = "vhost"
    /\ \/ FindSite(w) /\ PutVhost(w) /\ Goto(w, "reload") /\ UNCHANGED <<status, okay>>
       \/ FindSite(w) /\ PutVhost(w) /\ DeployFails(w)
       \/ DeployFails(w) /\ UNCHANGED vhost
    /\ UNCHANGED <<hidden, domain, ssl, root, loaded, cert, queue, tls, asking, panel, history>>

\* "Reload nginx": every vhost of the machine is read again, or none.  The DNS
\* provider's answer, that it serves TLS itself or does not, is chosen here.
Reload(w) ==
    /\ pc[w] = "reload"
    /\ \/ /\ loaded' = vhost
          /\ \E next \in IF tls[w] THEN {"edge", "certify"} ELSE {"check"} : Goto(w, next)
          /\ tls' = [tls EXCEPT ![w] = FALSE]
          /\ UNCHANGED <<status, okay>>
       \/ DeployFails(w) /\ UNCHANGED <<loaded, tls>>
    /\ UNCHANGED <<hidden, domain, ssl, root, vhost, cert, queue, asking, panel, history>>

\* useEdgeTLS
UseEdgeTLS(w) ==
    /\ pc[w] = "edge"
    /\ \/ /\ FindSite(w)
          /\ SetSiteSSL(SiteOf(w), FALSE)
          /\ Goto(w, "check")
          /\ UNCHANGED <<status, okay>>
       \/ ~FindSite(w) /\ DeployFails(w) /\ UNCHANGED ssl
    /\ UNCHANGED <<hidden, domain, machine, queue, tls, asking, panel, history>>

\* How the two TLS steps end: they are optional in a deployment, and required
\* in a certificate job, which ends with the second.
TLSFails(w) == IF Does(w, "deploy") THEN Goto(w, "check") /\ UNCHANGED okay ELSE Return(w)
TLSDone(w) == Goto(w, IF Does(w, "deploy") THEN "check" ELSE "end") /\ UNCHANGED okay

\* requestCertificate; in a deployment the next step runs all the same.
RequestCertificate(w) ==
    /\ pc[w] = "certify"
    /\ \/ /\ FindSite(w)
          /\ cert' = cert \cup {DomainOf(w)}
          /\ Goto(w, "https")
          /\ UNCHANGED okay
       \/ /\ IF Does(w, "deploy") THEN Goto(w, "https") /\ UNCHANGED okay ELSE Return(w)
          /\ UNCHANGED cert
    /\ UNCHANGED <<rows, root, vhost, loaded, queue, tls, asking, panel, history>>

\* enableHTTPS: without a certificate the site is a plain one from now on.
EnableHTTPS(w) ==
    /\ pc[w] = "https"
    /\ \/ /\ FindSite(w) => DomainOf(w) \in cert
          /\ TLSFails(w) /\ UNCHANGED <<ssl, vhost, unissued>>
       \/ /\ FindSite(w) /\ DomainOf(w) \notin cert
          /\ SetSiteSSL(SiteOf(w), FALSE)
          /\ unissued' = unissued \cup {SiteOf(w)}
          /\ TLSDone(w)
          /\ UNCHANGED vhost
       \/ /\ FindSite(w) /\ DomainOf(w) \in cert
          /\ PutVhost(w)
          /\ Goto(w, "prove")
          /\ UNCHANGED <<ssl, okay, unissued>>
    /\ UNCHANGED <<status, hidden, domain, root, loaded, cert, queue, tls, asking, panel, cuts,
                   overlapped, twice, kept, undone, dropped>>

\* nginx -t, then the reload; a refusal puts the plain vhost back, and reloads
\* that if nginx will have it.
ProveHTTPS(w) ==
    /\ pc[w] = "prove"
    /\ \/ /\ loaded' = vhost
          /\ SetSiteSSL(SiteOf(w), TRUE)
          /\ TLSDone(w)
          /\ UNCHANGED vhost
       \/ /\ PutVhost(w)
          /\ loaded' \in {loaded, vhost'}
          /\ SetSiteSSL(SiteOf(w), FALSE)
          /\ TLSFails(w)
       \/ TLSFails(w) /\ UNCHANGED <<ssl, vhost, loaded>>
    /\ UNCHANGED <<status, hidden, domain, root, cert, queue, tls, asking, panel, history>>

\* checkThroughNginx: an nginx that cannot be asked, or has no vhost of the
\* site's, passes as well as one that answers.
CheckAnswers(w) ==
    /\ pc[w] = "check"
    /\ \/ /\ FindSite(w)
          /\ Goto(w, "won")
          /\ UNCHANGED <<status, okay>>
       \/ DeployFails(w)
    /\ UNCHANGED <<hidden, domain, ssl, machine, queue, tls, asking, panel, history>>

DeployDone(w) ==
    /\ pc[w] = "won"
    /\ SetSiteStatus(SiteOf(w), "active")
    /\ Goto(w, "end")
    /\ UNCHANGED <<hidden, domain, ssl, machine, queue, tls, okay, asking, panel, history>>
-----------------------------------------------------------------------------
(* Destroy, from the row it loaded at its start.                             *)
DestroyFails(w) == /\ SetSiteStatus(SiteOf(w), "failed")
                   /\ undone' = undone \cup {SiteOf(w)}
                   /\ Return(w)

\* A variant that does not wait for nginx to let go of the vhost.
RemoveVhostOnly(w) ==
    /\ pc[w] = "unvhost"
    /\ vhost' = [vhost EXCEPT ![DomainOf(w)] = NoSite]
    /\ Goto(w, IF files[JobOf(w)] THEN "unlink" ELSE "row")
    /\ UNCHANGED <<rows, root, loaded, cert, queue, tls, okay, asking, panel, history>>

\* The files are removed whether or not nginx then reloads.
RemoveVhost(w) ==
    /\ pc[w] = "unvhost"
    /\ vhost' = [vhost EXCEPT ![DomainOf(w)] = NoSite]
    /\ \/ /\ loaded' = vhost'
          /\ Goto(w, IF files[JobOf(w)] THEN "unlink" ELSE "row")
          /\ UNCHANGED <<status, okay, undone>>
       \/ DestroyFails(w) /\ UNCHANGED loaded
    /\ UNCHANGED <<hidden, domain, ssl, root, cert, queue, tls, asking, panel, cuts, unissued,
                   overlapped, twice, kept, dropped>>

DeleteFiles(w) ==
    /\ pc[w] = "unlink"
    /\ \/ /\ root' = [root EXCEPT ![DomainOf(w)] = NoSite]
          /\ Goto(w, "row")
          /\ UNCHANGED <<status, okay, undone>>
       \/ DestroyFails(w) /\ UNCHANGED root
    /\ UNCHANGED <<hidden, domain, ssl, vhost, loaded, cert, queue, tls, asking, panel, cuts,
                   unissued, overlapped, twice, kept, dropped>>

\* A variant that forgets the row.
DeleteSiteNot(w) ==
    /\ pc[w] = "row"
    /\ Goto(w, "end")
    /\ UNCHANGED <<rows, machine, queue, tls, okay, asking, panel, history>>

DeleteSite(w) ==
    /\ pc[w] = "row"
    /\ SetSiteStatus(SiteOf(w), "removed")
    /\ Goto(w, "end")
    /\ UNCHANGED <<hidden, domain, ssl, machine, queue, tls, okay, asking, panel, history>>

\* A finished job's row is deleted, and nothing reads a failed one's payload.
Blank(j) == /\ kind' = [kind EXCEPT ![j] = "deploy"]
            /\ target' = [target EXCEPT ![j] = 1]
            /\ files' = [files EXCEPT ![j] = FALSE]

End(w) ==
    /\ pc[w] = "end"
    /\ Queue!Answer(w, JobOf(w))
    /\ job'[JobOf(w)] = IF okay[w] THEN "finished" ELSE "failed"
    /\ Blank(JobOf(w))
    /\ Goto(w, "idle")
    /\ tls' = [tls EXCEPT ![w] = FALSE]
    /\ okay' = [okay EXCEPT ![w] = TRUE]
    /\ UNCHANGED <<rows, machine, asking, panel, history>>
-----------------------------------------------------------------------------
\* A start puts abandoned jobs back, and repairs nothing of a site.
Start ==
    /\ panel = "down"
    /\ Queue!TakeUpAgain
    /\ panel' = "up"
    /\ UNCHANGED <<rows, machine, kind, target, files, locals, asking, history>>

\* The server drains its requests before the queue is told to stop.
Stop ==
    /\ panel = "up" /\ cuts < MaxCuts
    /\ asking = {}
    /\ panel' = "stopping"
    /\ cuts' = cuts + 1
    /\ UNCHANGED <<rows, machine, queue, locals, asking, unissued, overlapped, twice, kept, undone, dropped>>

Forget ==
    /\ panel' = "down"
    /\ pc' = [w \in Worker |-> "idle"]
    /\ tls' = [w \in Worker |-> FALSE]
    /\ okay' = [w \in Worker |-> TRUE]
    /\ asking' = {}
    /\ dropped' = dropped \cup {a.site : a \in asking}

Exit ==
    /\ panel = "stopping" /\ \A w \in Worker : hands[w] = {}
    /\ Forget
    /\ UNCHANGED <<rows, machine, queue, cuts, unissued, overlapped, twice, kept, undone>>

Crash ==
    /\ panel # "down" /\ cuts < MaxCuts
    /\ Queue!LetGoAll
    /\ Forget
    /\ cuts' = cuts + 1
    /\ UNCHANGED <<rows, machine, kind, target, files, unissued, overlapped, twice, kept, undone>>

DeployStep(w) ==
    \/ MakeRoot(w) \/ Build(w) \/ WriteVhost(w) \/ Reload(w) \/ UseEdgeTLS(w)
    \/ RequestCertificate(w) \/ EnableHTTPS(w) \/ ProveHTTPS(w) \/ CheckAnswers(w)
    \/ DeployDone(w)

DestroyStep(w) == RemoveVhost(w) \/ DeleteFiles(w) \/ DeleteSite(w)

HandlerStep(w) ==
    \/ Take(w) \/ Load(w) \/ Refuse(w) \/ Open(w) \/ DeployStep(w) \/ DestroyStep(w) \/ End(w)

Next ==
    \/ sitesStore \/ mcpProvisionSite
    \/ \E i \in Site : \/ sitesDestroy(i) \/ sitesRedeploy(i) \/ sitesCertificate(i)
                       \/ mcpDeleteSite(i) \/ mcpDeploySite(i) \/ mcpRequestCertificate(i)
    \/ \E a \in asking : PushAsked(a)
    \/ \E w \in Worker : HandlerStep(w)
    \/ Start \/ Stop \/ Exit \/ Crash

Spec == Init /\ [][Next]_vars
-----------------------------------------------------------------------------
\* Work that is still to come or under way for a site.
Asked(i, what) == \E a \in asking : a.site = i /\ a.kind = what
Queued(i, what) == \E j \in Id : /\ job[j] \in {"waiting", "abandoned"}
                                 /\ target[j] = i /\ kind[j] = what
InHand(i, what) == \E w \in Worker : Does(w, what) /\ SiteOf(w) = i /\ pc[w] # "end"

Rests(d) == \A i \in Site : domain[i] = d =>
                \A what \in Kinds : ~Asked(i, what) /\ ~Queued(i, what) /\ ~InHand(i, what)

\* A domain none of whose rows was torn down twice, or while it was deployed.
Undisturbed(d) == \A i \in Site : domain[i] = d => i \notin overlapped \cup twice

\* lifecycle.go:256, "Destroy removes the vhost, the service, the files, ... then
\* the row": once the row is gone nothing of the site is on the machine, unless
\* it was being deployed at the same time, or the files were to stay.
RemovedIsGone ==
    \A i \in Site : status[i] = "removed" /\ i \notin overlapped =>
        /\ vhost[domain[i]] # i /\ loaded[domain[i]] # i
        /\ root[domain[i]] = i => i \in kept

\* A teardown takes away its own site only: no step removes or replaces the
\* files or the vhost of a site that the panel shows, on a domain with a past.
VisibleKeepsItsOwn ==
    [][\A i \in Site : LET d == domain[i] IN
          Visible(i) /\ Undisturbed(d) =>
              /\ root[d] = i => root'[d] = i
              /\ vhost[d] = i => vhost'[d] = i]_vars

\* A site that says active is served, whatever failed, crashed or ran twice
\* before: its files and its vhost are there, nginx runs it, and if it says
\* HTTPS there is a certificate.
ActiveIsServed ==
    \A i \in Site : LET d == domain[i] IN
        Visible(i) /\ status[i] = "active" /\ Rests(d) /\ Undisturbed(d) =>
            /\ root[d] = i /\ vhost[d] = i /\ loaded[d] = i
            /\ ssl[i] => d \in cert

\* store/site.go:440-441, "the worker ... removes the row when it is done": a row
\* that is hidden is on its way out, unless its teardown failed or was cut off;
\* nothing but the worker will ever touch it again.
HiddenIsLeaving ==
    \A i \in Site : Exists(i) /\ hidden[i] =>
        Asked(i, "delete") \/ Queued(i, "delete") \/ InHand(i, "delete")
            \/ i \in undone \cup dropped

\* A site shown as deploying is being deployed, or will be again (the webhook
\* and the page both take the status at its word).
DeployingIsDeployed ==
    \A i \in Site : status[i] = "deploying" =>
        InHand(i, "deploy") \/ Queued(i, "deploy") \/ i \in dropped

StatusHasWork == HiddenIsLeaving /\ DeployingIsDeployed

\* settings.go:456-466: a certificate that did not issue the first time can be
\* asked for again; a site that certbot was asked for and issued nothing for is
\* not told that it "was created without HTTPS".
RefusedOnlyPlainSites ==
    \A w \in Worker : pc[w] = "refused" => SiteOf(w) \notin unissued
=============================================================================
