------------------------------ MODULE JobQueue ------------------------------
(***************************************************************************)
(* The panel's background work: internal/queue and the jobs table of       *)
(* internal/store/job.go, under the life cycle of cmd/ubuntu-panel.        *)
(*                                                                         *)
(* A job is a row.  A worker claims one in two statements, a SELECT and a  *)
(* conditional UPDATE, runs its handler and writes the outcome in a third. *)
(* The process can be stopped in order (SIGTERM), die between any two      *)
(* steps, and start again; starting puts the rows left "running" back on   *)
(* the queue.                                                              *)
(***************************************************************************)
EXTENDS Integers, FiniteSets

CONSTANTS
    Ordinary,      \* the workers that take everything but the quick kinds
    Quick,         \* the worker of the quick lane
    Kind,          \* the kinds of work a row can name
    QuickKind,     \* those registered with HandleQuick
    RetryKind,     \* those whose handler may answer RetryLater
    Binaries,      \* the sets of kinds that versions of the panel register
    MaxJobs,       \* bound: rows ever pushed
    MaxTries,      \* len(emailRetries): the retries a handler asks for
    MaxBoots,      \* bound: starts of the panel
    MaxLost        \* bound: writes of an outcome that the database refuses

ASSUME ConstantsAssumption ==
    /\ Quick \notin Ordinary
    /\ Kind # {}
    /\ QuickKind \subseteq Kind
    /\ RetryKind \subseteq QuickKind     \* only notify.email retries
    /\ Binaries \subseteq SUBSET Kind
    /\ MaxJobs \in Nat /\ MaxTries \in Nat /\ MaxBoots \in Nat /\ MaxLost \in Nat

Id == 1..MaxJobs
NoJob == 0
Worker == Ordinary \cup {Quick}

VARIABLES
    status, kind, due, attempts, error,   \* the columns of the jobs table
    next,          \* the next AUTOINCREMENT id
    panel,         \* "down", "up", or "stopping" once Queue.Stop cancelled ctx
    handlers,      \* the kinds the running binary has a handler for
    pc,            \* where each worker's loop is
    job, read,     \* the job each worker selected, and the attempts it read
    outcome,       \* what the handler of each worker returned
    boots,         \* history: how often the panel started
    retried,       \* history: how often each job asked for a retry
    lost           \* history: how many outcome writes were lost

table == <<status, kind, due, attempts, error>>
workers == <<pc, job, read, outcome>>
history == <<boots, retried, lost>>
vars == <<status, kind, due, attempts, error, next, panel, handlers,
          pc, job, read, outcome, boots, retried, lost>>

\* "absent" is an id not handed out yet, "done" one whose row was deleted.
Status == {"absent", "queued", "running", "failed", "done"}
Reason == {"none", "error", "panic", "cancelled", "no handler"}
Outcome == {"none", "ok", "error", "panic", "cancelled", "retry", "no handler"}

TypeOK ==
    /\ status \in [Id -> Status]
    /\ kind \in [Id -> Kind]
    /\ due \in [Id -> BOOLEAN]
    /\ attempts \in [Id -> Nat]
    /\ error \in [Id -> Reason]
    /\ next \in 1..(MaxJobs + 1)
    /\ panel \in {"down", "up", "stopping"}
    /\ handlers \in Binaries \cup {{}}
    /\ pc \in [Worker -> {"stopped", "idle", "selected", "running", "ending"}]
    /\ job \in [Worker -> Id \cup {NoJob}]
    /\ read \in [Worker -> Nat]
    /\ outcome \in [Worker -> Outcome]
    /\ boots \in Nat
    /\ retried \in [Id -> Nat]
    /\ lost \in Nat

Init ==
    /\ status = [j \in Id |-> "absent"]
    /\ kind = [j \in Id |-> CHOOSE k \in Kind : TRUE]
    /\ due = [j \in Id |-> TRUE]
    /\ attempts = [j \in Id |-> 0]
    /\ error = [j \in Id |-> "none"]
    /\ next = 1
    /\ panel = "down"
    /\ handlers = {}
    /\ pc = [w \in Worker |-> "stopped"]
    /\ job = [w \in Worker |-> NoJob]
    /\ read = [w \in Worker |-> 0]
    /\ outcome = [w \in Worker |-> "none"]
    /\ boots = 0
    /\ retried = [j \in Id |-> 0]
    /\ lost = 0
-----------------------------------------------------------------------------
\* The rows a start puts back on the queue.  The variants, planted bugs that
\* the properties below catch: none of them, and the failed ones as well.
ToRequeueNone == {}
ToRequeueFailed == {j \in Id : status[j] \in {"running", "failed"}}
ToRequeue == {j \in Id : status[j] = "running"}

RequeueRunningJobs ==
    status' = [j \in Id |-> IF j \in ToRequeue THEN "queued" ELSE status[j]]

\* Queue.Start: what was running goes back on the queue, then the workers run,
\* one of them for the quick lane if a quick kind is registered.
Start ==
    /\ panel = "down"
    /\ boots < MaxBoots
    /\ RequeueRunningJobs
    /\ panel' = "up"
    /\ handlers' \in Binaries
    /\ pc' = [w \in Worker |-> IF w = Quick /\ QuickKind \cap handlers' = {}
                              THEN "stopped" ELSE "idle"]
    /\ boots' = boots + 1
    /\ UNCHANGED <<kind, due, attempts, error, next, job, read, outcome, retried, lost>>

\* Queue.Push.  Clocks of the panel still push while Stop waits for workers.
Push(k) ==
    /\ panel # "down"
    /\ k \in handlers
    /\ next \in Id
    /\ status' = [status EXCEPT ![next] = "queued"]
    /\ kind' = [kind EXCEPT ![next] = k]
    /\ next' = next + 1
    /\ UNCHANGED <<due, attempts, error, panel, handlers, workers, history>>

\* available_at passes.
BecomeDue(j) ==
    /\ status[j] = "queued" /\ ~due[j]
    /\ due' = [due EXCEPT ![j] = TRUE]
    /\ UNCHANGED <<status, kind, attempts, error, next, panel, handlers, workers, history>>
-----------------------------------------------------------------------------
\* The kinds a worker's lane takes: the quick lane its own, the others the
\* rest.  With LaneAny every worker would take every kind.
LaneAny(w) == Kind
Lane(w) == LET quick == QuickKind \cap handlers
           IN  IF w = Quick THEN quick ELSE Kind \ quick

CandidatesEarly(w) == {j \in Id : status[j] = "queued" /\ kind[j] \in Lane(w)}
Candidates(w) == {j \in Id : status[j] = "queued" /\ due[j] /\ kind[j] \in Lane(w)}

\* ClaimJobOf, first statement: SELECT ... ORDER BY id LIMIT 1.
Select(w) ==
    /\ panel = "up" /\ pc[w] = "idle"
    /\ \E j \in Candidates(w) :
          /\ \A i \in Candidates(w) : j <= i
          /\ job' = [job EXCEPT ![w] = j]
          /\ read' = [read EXCEPT ![w] = attempts[j]]
    /\ pc' = [pc EXCEPT ![w] = "selected"]
    /\ UNCHANGED <<table, next, panel, handlers, outcome, history>>

\* The condition of the UPDATE, and a variant without it.
StillQueuedNot(j) == TRUE
StillQueued(j) == status[j] = "queued"

Reserve(j) == /\ status' = [status EXCEPT ![j] = "running"]
              /\ attempts' = [attempts EXCEPT ![j] = @ + 1]

\* Nothing claimed: back to waiting for the ticker.
Sleep(w) == /\ pc' = [pc EXCEPT ![w] = "idle"]
            /\ job' = [job EXCEPT ![w] = NoJob]
            /\ read' = [read EXCEPT ![w] = 0]

\* ClaimJobOf, second statement: UPDATE ... WHERE id = ? AND status = 'queued'.
\* The loser goes back to sleep, though other work may be due.
Claim(w) ==
    /\ panel = "up" /\ pc[w] = "selected"
    /\ \/ /\ StillQueued(job[w])
          /\ Reserve(job[w])
          /\ pc' = [pc EXCEPT ![w] = "running"]
          /\ read' = [read EXCEPT ![w] = @ + 1]
          /\ UNCHANGED job
       \/ /\ ~StillQueued(job[w])
          /\ Sleep(w)
          /\ UNCHANGED <<status, attempts>>
    /\ UNCHANGED <<kind, due, error, next, panel, handlers, outcome, history>>

\* ctx is cancelled while the UPDATE is out: the driver answers ctx.Err(),
\* whether or not the statement took effect.
ClaimCancelled(w) ==
    /\ panel = "stopping" /\ pc[w] = "selected"
    /\ \/ StillQueued(job[w]) /\ Reserve(job[w])
       \/ UNCHANGED <<status, attempts>>
    /\ Sleep(w)
    /\ UNCHANGED <<kind, due, error, next, panel, handlers, outcome, history>>
-----------------------------------------------------------------------------
\* The guard of the e-mail handler on another try.
MayRetry(w) == read[w] <= MaxTries

\* What the handler of w's job can return.  Once ctx is cancelled a step that
\* passes it to the store fails, and with it the handler: "cancelled".
Returns(w) ==
    IF kind[job[w]] \notin handlers THEN {"no handler"}
    ELSE {"ok", "error", "panic"}
         \cup (IF panel = "stopping" THEN {"cancelled"} ELSE {})
         \cup (IF kind[job[w]] \in RetryKind /\ MayRetry(w) THEN {"retry"} ELSE {})

\* execute, up to the handler's return.
Return(w) ==
    /\ panel # "down" /\ pc[w] = "running"
    /\ \E o \in Returns(w) : outcome' = [outcome EXCEPT ![w] = o]
    /\ pc' = [pc EXCEPT ![w] = "ending"]
    /\ UNCHANGED <<table, next, panel, handlers, job, read, history>>

FinishJob(j) == /\ status' = [status EXCEPT ![j] = "done"]
                /\ UNCHANGED <<due, error, retried>>

\* Variants of RetryJob: a status that no claim looks for, and no delay.
RetryJobStatus(j) == /\ status' = [status EXCEPT ![j] = "retry"]
                     /\ UNCHANGED <<due, error, retried>>
RetryJob(j) == /\ status' = [status EXCEPT ![j] = "queued"]
               /\ due' = [due EXCEPT ![j] = FALSE]
               /\ error' = [error EXCEPT ![j] = "error"]
               /\ retried' = [retried EXCEPT ![j] = @ + 1]

\* A variant that puts failed work back on the queue.
FailJobRequeues(j, reason) == /\ status' = [status EXCEPT ![j] = "queued"]
                              /\ error' = [error EXCEPT ![j] = reason]
                              /\ UNCHANGED <<due, retried>>
FailJob(j, reason) == /\ status' = [status EXCEPT ![j] = "failed"]
                      /\ error' = [error EXCEPT ![j] = reason]
                      /\ UNCHANGED <<due, retried>>

\* The worker is free again; run returns instead when ctx is cancelled.
Free(w) ==
    /\ pc' = [pc EXCEPT ![w] = IF panel = "up" THEN "idle" ELSE "stopped"]
    /\ job' = [job EXCEPT ![w] = NoJob]
    /\ read' = [read EXCEPT ![w] = 0]
    /\ outcome' = [outcome EXCEPT ![w] = "none"]

Record(w) ==
    /\ panel # "down" /\ pc[w] = "ending"
    /\ \/ outcome[w] = "ok" /\ FinishJob(job[w])
       \/ outcome[w] = "retry" /\ RetryJob(job[w])
       \/ outcome[w] \notin {"ok", "retry"} /\ FailJob(job[w], outcome[w])
    /\ Free(w)
    /\ UNCHANGED <<kind, attempts, next, panel, handlers, boots, lost>>

\* The same, when the statement fails: FinishJob, RetryJob and FailJob all
\* drop the error of Exec, so the worker goes on as if it had been written.
RecordLost(w) ==
    /\ panel # "down" /\ pc[w] = "ending"
    /\ lost < MaxLost
    /\ lost' = lost + 1
    /\ Free(w)
    /\ UNCHANGED <<table, next, panel, handlers, boots, retried>>
-----------------------------------------------------------------------------
\* Queue.Stop cancels ctx.
Stop ==
    /\ panel = "up"
    /\ panel' = "stopping"
    /\ UNCHANGED <<table, next, handlers, workers, history>>

\* A worker between jobs sees the cancelled ctx and returns.
Quit(w) ==
    /\ panel = "stopping" /\ pc[w] = "idle"
    /\ pc' = [pc EXCEPT ![w] = "stopped"]
    /\ UNCHANGED <<table, next, panel, handlers, job, read, outcome, history>>

\* waited.Wait returns once every worker has, and the process exits.
AllStopped == \A w \in Worker : pc[w] = "stopped"

Forget ==
    /\ panel' = "down"
    /\ handlers' = {}
    /\ pc' = [w \in Worker |-> "stopped"]
    /\ job' = [w \in Worker |-> NoJob]
    /\ read' = [w \in Worker |-> 0]
    /\ outcome' = [w \in Worker |-> "none"]

Exit ==
    /\ panel = "stopping" /\ AllStopped
    /\ Forget
    /\ UNCHANGED <<table, next, history>>

\* The process is killed, or the machine goes down.
Crash ==
    /\ panel # "down"
    /\ Forget
    /\ UNCHANGED <<table, next, history>>

WorkerStep(w) ==
    \/ Select(w) \/ Claim(w) \/ ClaimCancelled(w)
    \/ Return(w) \/ Record(w) \/ RecordLost(w) \/ Quit(w)

Next ==
    \/ Start \/ Stop \/ Exit \/ Crash
    \/ \E k \in Kind : Push(k)
    \/ \E j \in Id : BecomeDue(j)
    \/ \E w \in Worker : WorkerStep(w)

Spec == Init /\ [][Next]_vars

\* What the scheduler gives: systemd restarts the panel, time passes, and a
\* goroutine that can run does.  Handlers of the quick lane return (a send has
\* a minute); nothing is assumed about how long an ordinary handler takes.
Fairness ==
    /\ WF_vars(Start) /\ WF_vars(Exit)
    /\ \A j \in Id : WF_vars(BecomeDue(j))
    /\ \A w \in Worker : /\ WF_vars(Select(w)) /\ WF_vars(Claim(w))
                         /\ WF_vars(ClaimCancelled(w)) /\ WF_vars(Quit(w))
                         /\ WF_vars(Record(w))
    /\ WF_vars(Return(Quick))

FairSpec == Spec /\ Fairness
-----------------------------------------------------------------------------
Holds(w, j) == pc[w] \in {"running", "ending"} /\ job[w] = j

\* No two workers ever run the same job, whatever claims, retries, stops and
\* crashes came before (job.go: "which is what stops two workers running the
\* same deployment").
OneWorkerPerJob ==
    \A v, w \in Worker : \A j \in Id : Holds(v, j) /\ Holds(w, j) => v = w

\* A row says "running" exactly when a worker of this process has it, except
\* for rows whose outcome the database refused and while the panel is on its
\* way down.  A worker's job is never anything but running.
RowsMatchWorkers ==
    /\ \A w \in Worker, j \in Id : Holds(w, j) => status[j] = "running"
    /\ panel = "up" /\ lost = 0 =>
          \A j \in Id : status[j] = "running" => \E w \in Worker : Holds(w, j)

\* Work is started again only for a reason: every start of a job is its first,
\* one it asked for with RetryLater, or one a restart of the panel caused.
EveryStartAccountedFor == \A j \in Id : attempts[j] <= retried[j] + boots

\* What a worker read when it selected a job is still so when it runs it: the
\* attempts the e-mail handler indexes its delays with are the row's, and a job
\* that asked to be retried later is not running before its time.
NoStaleClaim ==
    \A w \in Worker, j \in Id : Holds(w, j) => read[w] = attempts[j] /\ due[j]

(***************************************************************************)
(* The inductive invariant behind the properties above, in the parts that  *)
(* are proved one after the other in JobQueueProofs.                       *)
(***************************************************************************)
Busy == {"selected", "running", "ending"}

\* A busy worker has a row that exists, and rows beyond next do not.
JobInHand ==
    /\ \A w \in Worker : pc[w] \in Busy => job[w] \in Id /\ job[w] < next
    /\ \A j \in Id : j >= next => status[j] = "absent" /\ attempts[j] = 0

\* A worker past its claim has the row to itself, and a dead panel has none.
Claimed ==
    /\ \A w \in Worker : pc[w] \in {"running", "ending"} => status[job[w]] = "running"
    /\ OneWorkerPerJob
    /\ panel = "down" => \A w \in Worker : pc[w] = "stopped"

\* Each start is paid for beforehand: a queued row has one start in hand.
StartInHand ==
    /\ panel # "down" => boots > 0
    /\ \A j \in Id : /\ attempts[j] <= retried[j] + boots
                     /\ status[j] = "queued" => attempts[j] < retried[j] + boots

\* What a worker read of a row is still so: only the one worker of the quick
\* lane, which cannot be looking at it, ever puts a row back with a delay.
ReadStillTrue ==
    /\ \A w \in Worker : pc[w] \in Busy => kind[job[w]] \in Lane(w)
    /\ \A w \in Worker : pc[w] = "ending" /\ outcome[w] = "retry" =>
                            kind[job[w]] \in RetryKind \cap handlers
    /\ \A w \in Worker : (\/ pc[w] = "selected" /\ status[job[w]] = "queued"
                          \/ pc[w] \in {"running", "ending"}) =>
                            due[job[w]] /\ read[w] = attempts[job[w]]

QueueInv == TypeOK /\ JobInHand /\ Claimed /\ StartInHand /\ ReadStillTrue

\* Work that has ended stays as it ended: no restart or late write revives it.
EndedStaysEnded ==
    [][\A j \in Id : status[j] \in {"done", "failed"} =>
            /\ status'[j] = status[j]
            /\ attempts'[j] = attempts[j]
            /\ error'[j] = error[j]]_vars

\* queue.go:4-6 and job.go:11-13: a restart mid-deployment resumes the work
\* rather than losing it.
RestartResumes == \A j \in Id : ~(status[j] = "failed" /\ error[j] = "cancelled")

Pending(j) == status[j] \in {"queued", "running"}
Over(j) == status[j] \in {"done", "failed"}

NoMoreStarts == panel = "down" /\ boots = MaxBoots

\* queue_test.go, TestTheQuickLaneDoesNotWaitBehindLongWork: quick work ends
\* even if every ordinary worker is in a handler that never returns, and across
\* crashes, though such a handler can also keep a stop from ending.
QuickWorkEnds ==
    \A j \in Id : (Pending(j) /\ kind[j] \in QuickKind)
                     ~> (Over(j) \/ panel = "stopping" \/ NoMoreStarts)

\* As long as no ordinary handler hangs for ever, all work ends, whatever the
\* stops, crashes and retries on the way.
AllWorkEnds ==
    (\A w \in Ordinary : []<>(pc[w] # "running")) =>
        \A j \in Id : Pending(j) ~> (Over(j) \/ NoMoreStarts)

\* The abstract queue this implements: a row "running" with no worker on it is
\* abandoned work.
Held(j) == \E w \in Worker : Holds(w, j)

AbstractState(j) ==
    CASE status[j] = "absent" -> "new"
      [] status[j] = "queued" -> "waiting"
      [] status[j] = "running" -> IF Held(j) THEN "active" ELSE "abandoned"
      [] status[j] = "failed" -> "failed"
      [] status[j] = "done" -> "finished"

Abstract ==
    INSTANCE WorkQueue WITH
        Job <- Id,
        state <- [j \in Id |-> AbstractState(j)],
        doing <- [w \in Worker |-> {j \in Id : Holds(w, j)}]

ImplementsWorkQueue == Abstract!Spec
=============================================================================
