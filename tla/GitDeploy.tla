------------------------------ MODULE GitDeploy ------------------------------
(***************************************************************************)
(* A site deployed from a repository: the commands of                      *)
(* internal/sites/git.go, the pulls and deployments of                     *)
(* internal/sites/lifecycle.go, the Git tab and the poller of              *)
(* internal/web/git.go and the webhook of internal/web/webhook.go.         *)
(*                                                                         *)
(* A commit goes from the repository to the checkout, is built there, and  *)
(* is served once the service has been restarted on it; the row records    *)
(* one, which is all the poller compares with.  Two workers may deploy one *)
(* site at the same time.                                                  *)
(***************************************************************************)
EXTENDS Integers, Sequences, FiniteSets

CONSTANTS
    Worker,        \* the queue's workers
    MaxCommit,     \* bound: commits pushed to the branch
    MaxAsked,      \* bound: jobs asked for
    MaxEdits,      \* bound: changes of the settings, and of the repository's
    MaxTroubles    \* bound: steps that fail, deaths of the panel

\* What is assumed of the constants, by the module that gives them values.
GitAssumption == /\ IsFiniteSet(Worker) /\ MaxCommit \in Nat \ {0}
                 /\ {MaxAsked, MaxEdits, MaxTroubles} \subseteq Nat

Commit == 1..MaxCommit
None == 0                      \* no checkout, no commit recorded
Down == -1                     \* a service that did not come up
Starter == -2                  \* the page or the application of a site without a repository

VARIABLES
    kind,          \* "node" is built and restarted, "php" is served as it lies
    head,          \* the branch, at the repository
    source,        \* the row names a repository
    method, key,   \* how the row says to authenticate; a deploy key was made
    readable,      \* the repository lets that credential in
    schedule, due, \* polling is on; the site's turn has come
    secret,        \* a webhook secret is set
    status,        \* of the row
    recorded,      \* last_commit
    tree, served,  \* the checkout; what answers
    jobs,          \* the queue
    run,           \* what each worker is doing; beside: not alone, or not always
    look,          \* the poller: idle, or what it read of the row
    asked, edits, troubles,
    excused        \* history: a job failed that ran side by side with another, or the
                   \* site was deployed without its repository

settings == <<source, method, key, readable, schedule, due, secret>>
machine == <<tree, served>>
vars == <<kind, head, settings, status, recorded, machine, jobs, run, look, asked, edits, troubles, excused>>

Job == {"pull", "deploy"}
Resting == [job |-> "none", todo |-> <<>>, beside |-> FALSE]
NotLooking == [pc |-> "idle", status |-> "none", recorded |-> None]

TypeOK ==
    /\ kind \in {"node", "php"} /\ head \in Commit
    /\ {source, key, readable, schedule, due, secret, excused} \subseteq BOOLEAN
    /\ method \in {"none", "key", "token"}
    /\ status \in {"active", "deploying", "failed"}
    /\ recorded \in Commit \cup {None} /\ tree \in Commit \cup {None, Starter}
    /\ served \in Commit \cup {None, Down, Starter}
    /\ jobs \in Seq(Job)
    /\ \A w \in Worker : run[w].job \in Job \cup {"none"}
    /\ look.pc \in {"idle", "ask"} /\ look.recorded \in Commit \cup {None}
    /\ asked \in 0..MaxAsked /\ edits \in 0..MaxEdits /\ troubles \in 0..MaxTroubles

Init ==
    /\ kind \in {"node", "php"} /\ head = 1
    /\ source = TRUE /\ method = "none" /\ key = FALSE /\ readable = TRUE
    /\ schedule \in BOOLEAN /\ due = FALSE /\ secret \in BOOLEAN
    /\ status = "active" /\ recorded = 1 /\ tree = 1 /\ served = 1
    /\ jobs = <<>> /\ run = [w \in Worker |-> Resting] /\ look = NotLooking
    /\ asked = 0 /\ edits = 0 /\ troubles = 0 /\ excused = FALSE

Trouble == troubles < MaxTroubles /\ troubles' = troubles + 1
Calm == UNCHANGED troubles
Busy(w) == run[w].job # "none"
Alone(w) == \A v \in Worker \ {w} : ~Busy(v)

---------------------------------------------------------------------------
(* The repository, outside.                                                *)

Push ==
    /\ head < MaxCommit /\ head' = head + 1
    /\ UNCHANGED <<kind, settings, status, recorded, machine, jobs, run, look, asked, edits, troubles, excused>>

\* Its owner adds the public key or renews the token.
LetIn ==
    /\ ~readable /\ readable' = TRUE
    /\ UNCHANGED <<kind, head, source, method, key, schedule, due, secret, status, recorded,
                   machine, jobs, run, look, asked, edits, troubles, excused>>

---------------------------------------------------------------------------
(* The Git tab, and the tool that sets the same.                           *)

settled == <<kind, head, status, recorded, machine, jobs, run, look, asked, troubles, excused>>
Edit == edits < MaxEdits /\ edits' = edits + 1

saveGitSource ==
    /\ Edit
    /\ source' = ~source
    /\ UNCHANGED <<settled, method, key, readable, schedule, due, secret>>

\* A new pair, which nobody has added to the repository yet.
GenerateDeployKey(m) == key' = TRUE /\ readable' = (readable /\ m # "key")

\* One is generated the first time it is asked for.
saveGitAuth(m) ==
    /\ Edit
    /\ m # method /\ method' = m
    /\ IF m = "key" /\ ~key THEN GenerateDeployKey(m) ELSE UNCHANGED <<key, readable>>
    /\ UNCHANGED <<settled, source, schedule, due, secret>>

\* The pair is replaced: the one at the repository is good for nothing.
regenerateDeployKey ==
    /\ Edit
    /\ GenerateDeployKey(method)
    /\ readable' # readable
    /\ UNCHANGED <<settled, source, method, schedule, due, secret>>

\* The interval with the next turn counted from now, and the secret.
saveGitAutomation ==
    /\ Edit
    /\ \E on, hook \in BOOLEAN :
         /\ on => source
         /\ schedule' = on /\ secret' = hook
    /\ due' = FALSE
    /\ UNCHANGED <<settled, source, method, key, readable>>

Ask(j) == asked < MaxAsked /\ asked' = asked + 1 /\ jobs' = Append(jobs, j)
requested == <<kind, head, settings, status, recorded, machine, run, edits, troubles, excused>>

pullSiteNow == source /\ Ask("pull") /\ UNCHANGED <<requested, look>>

sitesPull == pullSiteNow
mcpPullSite == pullSiteNow
sitesRedeploy == Ask("deploy") /\ UNCHANGED <<requested, look>>

CheckAccess == readable

\* The tool looks whether the repository can be read before it asks.
gitTool == CheckAccess /\ pullSiteNow

\* A delivery, of a push to the branch, to another one or of a tag.  What is
\* no branch counts as unknown and is pulled; while the site is deploying
\* nothing is.
pushedBranch(ref) == IF ref = "tag" THEN "unknown" ELSE ref

gitWebhook(ref) ==
    /\ secret /\ pushedBranch(ref) # "another" /\ status # "deploying"
    /\ pullSiteNow

---------------------------------------------------------------------------
(* The poller                                                              *)

ItIsTime ==
    /\ schedule /\ ~due /\ due' = TRUE
    /\ UNCHANGED <<settled, edits, source, method, key, readable, schedule, secret>>

\* The row is read and its next turn counted, before anything is asked.
takeDuePulls ==
    /\ look.pc = "idle" /\ schedule /\ source /\ due
    /\ due' = FALSE
    /\ look' = IF status = "deploying" THEN NotLooking
               ELSE [pc |-> "ask", status |-> status, recorded |-> recorded]
    /\ UNCHANGED <<kind, head, source, method, key, readable, schedule, secret, status, recorded,
                   machine, jobs, run, asked, edits, troubles, excused>>

\* The head of the remote, if it can be read, against the commit of that row.
RemoteHead ==
    /\ look.pc = "ask" /\ look' = NotLooking
    /\ IF readable /\ head # look.recorded THEN Ask("pull") ELSE UNCHANGED <<jobs, asked>>
    /\ UNCHANGED requested

---------------------------------------------------------------------------
(* The jobs                                                                *)

\* A variant that records the commit once it has been fetched.
PullStepsRecordFirst == <<"fetch", "record", "build", "restart">>

PullSteps == IF kind = "node" THEN <<"fetch", "build", "restart", "record">> ELSE <<"fetch", "record">>
DeploySteps == (IF source THEN <<"check", "clone", "record">> ELSE <<"starter">>)
                 \o (IF kind = "node" THEN <<"build", "restart">> ELSE <<>>)

Start(w, j, steps) ==
    run' = [v \in Worker |->
              IF v = w THEN [job |-> j, todo |-> steps, beside |-> ~Alone(w)]
              ELSE [run[v] EXCEPT !.beside = Busy(v)]]

Take(w) ==
    /\ ~Busy(w) /\ jobs # <<>>
    /\ LET j == Head(jobs) IN
         \/ j = "deploy" /\ status' = "deploying" /\ Start(w, j, DeploySteps)
         \/ j = "pull" /\ source /\ UNCHANGED status /\ Start(w, j, PullSteps)
         \/ j = "pull" /\ ~source /\ UNCHANGED <<status, run>>
    /\ jobs' = Tail(jobs)
    /\ UNCHANGED <<kind, head, settings, recorded, machine, look, asked, edits, troubles, excused>>

At(w, step) == run[w].todo # <<>> /\ Head(run[w].todo) = step
Pass(w) == run' = [run EXCEPT ![w].todo = Tail(@)] /\ UNCHANGED <<status, excused>>

\* A step failed: the job ends, and a deployment says so in the row.
Stop(w) ==
    /\ run' = [run EXCEPT ![w] = Resting]
    /\ status' = IF run[w].job = "deploy" THEN "failed" ELSE status
    /\ excused' = (excused \/ run[w].beside)

rest == <<kind, head, settings, jobs, look, asked, edits>>

Serve(commit) == served' = IF kind = "php" THEN commit ELSE served

\* FetchCommand: into the checkout there is.
Fetch(w) ==
    /\ At(w, "fetch")
    /\ IF readable /\ tree # None
         THEN (Pass(w) /\ tree' = head /\ Serve(head) /\ Calm)
              \/ (Stop(w) /\ Trouble /\ UNCHANGED machine)
         ELSE Stop(w) /\ Calm /\ UNCHANGED machine
    /\ UNCHANGED <<rest, recorded>>

checkRepository(w) ==
    /\ At(w, "check") /\ Calm
    /\ IF CheckAccess THEN Pass(w) ELSE Stop(w)
    /\ UNCHANGED <<rest, recorded, machine>>

\* CloneCommand: what was there is removed first.
Clone(w) ==
    /\ At(w, "clone")
    /\ IF readable
         THEN (Pass(w) /\ tree' = head /\ Serve(head) /\ Calm)
              \/ (Stop(w) /\ Trouble /\ tree' = None /\ Serve(None))
         ELSE Stop(w) /\ Calm /\ tree' = None /\ Serve(None)
    /\ UNCHANGED <<rest, recorded>>

\* A starter application or a placeholder, over what there is.
WriteStarter(w) ==
    /\ At(w, "starter") /\ Calm
    /\ tree' = Starter /\ Serve(Starter)
    /\ run' = [run EXCEPT ![w].todo = Tail(@)]
    /\ excused' = TRUE
    /\ UNCHANGED <<rest, status, recorded>>

\* The commit the checkout is at by now, if there is one to read.
recordCommit(w) ==
    /\ At(w, "record") /\ Pass(w) /\ Calm
    /\ recorded' = IF tree \in Commit THEN tree ELSE recorded
    /\ UNCHANGED <<rest, machine>>

\* The dependencies and the build command.
Build(w) ==
    /\ At(w, "build")
    /\ \/ tree # None /\ Calm /\ Pass(w)
       \/ (IF tree = None THEN Calm ELSE Trouble) /\ Stop(w)
    /\ UNCHANGED <<rest, recorded, machine>>

Restart(w) ==
    /\ At(w, "restart")
    /\ \/ tree # None /\ Calm /\ Pass(w) /\ served' = tree
       \/ (IF tree = None THEN Calm ELSE Trouble) /\ Stop(w) /\ served' = Down
    /\ UNCHANGED <<rest, recorded, tree>>

Finish(w) ==
    /\ Busy(w) /\ run[w].todo = <<>>
    /\ run' = [run EXCEPT ![w] = Resting]
    /\ status' = IF run[w].job = "deploy" THEN "active" ELSE status
    /\ UNCHANGED <<rest, recorded, machine, troubles, excused>>

\* The panel dies, and its next start puts the jobs back.
Crash ==
    /\ Trouble
    /\ run' = [w \in Worker |-> Resting] /\ look' = NotLooking
    /\ \E s \in [1..Cardinality({w \in Worker : Busy(w)}) -> Job] :
         /\ \A j \in Job : Cardinality({i \in DOMAIN s : s[i] = j}) =
                           Cardinality({w \in Worker : run[w].job = j})
         /\ jobs' = s \o jobs
    /\ excused' = (excused \/ \E w \in Worker : run[w].beside)
    /\ UNCHANGED <<kind, head, settings, status, recorded, machine, asked, edits>>

Next ==
    \/ Push \/ LetIn \/ saveGitSource \/ regenerateDeployKey \/ saveGitAutomation
    \/ \E m \in {"none", "key", "token"} : saveGitAuth(m)
    \/ sitesPull \/ mcpPullSite \/ sitesRedeploy \/ gitTool
    \/ \E ref \in {"branch", "another", "tag"} : gitWebhook(ref)
    \/ ItIsTime \/ takeDuePulls \/ RemoteHead
    \/ \E w \in Worker : Take(w) \/ Fetch(w) \/ checkRepository(w) \/ Clone(w)
                         \/ WriteStarter(w) \/ recordCommit(w) \/ Build(w) \/ Restart(w) \/ Finish(w)
    \/ Crash

Spec == Init /\ [][Next]_vars

---------------------------------------------------------------------------
\* What makes the poller leave a site alone (git.go:374, "pull only when the
\* commit has changed"): a commit is not recorded as the site's unless the site
\* got it.  With no work left on an active site whose recorded commit is the
\* branch's head, that commit is served, or the service that should serve it
\* did not start; through builds that fail and jobs that are cut off and run
\* again, and pulls and deployments side by side as long as none of those failed and the
\* repository was not taken away from the site in between.
CommitIsServed ==
    /\ status = "active" /\ jobs = <<>> /\ \A w \in Worker : ~Busy(w)
    /\ recorded = head /\ source /\ ~excused
    => served \in {head, Down}

HeadIsServed == TypeOK /\ CommitIsServed
=============================================================================
