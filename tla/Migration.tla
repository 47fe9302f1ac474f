------------------------------ MODULE Migration ------------------------------
(***************************************************************************)
(* Moving a site or a mail domain to another panel: internal/web/migrate.go*)
(* with the packages of internal/sites/migrate.go and                      *)
(* internal/mail/migrate.go and the calls of internal/migrate/protocol.go. *)
(*                                                                         *)
(* A job of the source panel makes the calls, one at a time.  Requests     *)
(* travel: the caller may give up while the other side still works on one, *)
(* and each handler reads the transfer's row before it acts on it.  What   *)
(* takes long is a job of the destination.  Both panels may die, and run   *)
(* the job they were at again when they start.                             *)
(***************************************************************************)
EXTENDS Naturals, FiniteSets

CONSTANTS
    MaxTransfers,  \* bound: transfers begun
    MaxMail,       \* bound: messages that arrive at the source
    MaxRuns,       \* bound: moves and catch-ups asked for
    MaxTroubles    \* bound: calls given up, steps that fail, waits that run
                   \* out, deaths of a panel

\* What is assumed of the constants, by the module that gives them values.
MigrationAssumption == {MaxTransfers, MaxMail, MaxRuns, MaxTroubles} \subseteq Nat

Transfer == 1..MaxTransfers
Message == 1..MaxMail
NoTransfer == 0

Ended == {"done", "failed", "cancelled"}
Status == Ended \cup {"none", "receiving", "importing", "imported", "finishing",
                      "finished", "catching_up"}
Call == {"hello", "begin", "chunk1", "chunk2", "finish", "finalize", "send",
         "catchup", "cancel"}
Step == Call \cup {"idle", "package", "imported", "dns", "finished", "pack",
                   "caught", "remove", "end"}
JobKind == {"in", "finish", "catchup"}

VARIABLES
    kind, removeAfter,     \* what is moved, and the option
    \* the source
    src,           \* the original: "here", "part" (being removed), "gone"
    dns,           \* who the records point to: "src", "dst"
    out,           \* the migration's row: status and remote_id
    goal, step,    \* the job queued or running ("move", "copy"), where it is
    arrived,       \* the messages that have arrived here: 1..arrived
    mark,          \* .migration-snapshot: the messages up to it are packed
    pack,          \* the messages in the package, or in the catch-up
    \* between them
    net, answer,   \* the requests; what the waiting caller was told
    \* the destination
    status, task,  \* each transfer's row: status, and whether a task was made
    row,           \* the transfer the site's or the domain's rows are of
    files, load,   \* the chunks there, and the messages in them
    late,          \* catch-up.tar.gz: whether it is there, and its messages
    built, have,   \* it is set up here, with these messages
    jobs, work,    \* the queue, and the job at work
    \* histories
    deleted,       \* somebody deleted it at the destination
    cut,           \* a packed catch-up did not get into the mailboxes
    runs, troubles

source == <<src, dns, out, goal, step, arrived, mark, pack>>
rows == <<status, task, row>>
disk == <<files, load, late, built, have>>
queue == <<jobs, work>>
option == <<kind, removeAfter, runs>>
vars == <<option, source, net, answer, rows, disk, queue, deleted, cut, troubles>>

NoArchive == [there |-> FALSE, mail |-> {}]
NoWork == [kind |-> "none", t |-> NoTransfer, at |-> "idle", ok |-> TRUE]

TypeOK ==
    /\ kind \in {"site", "mail"} /\ removeAfter \in BOOLEAN
    /\ src \in {"here", "part", "gone"} /\ dns \in {"src", "dst"}
    /\ out.status \in {"none", "queued", "running", "done", "failed"}
    /\ out.transfer \in 0..MaxTransfers
    /\ goal \in {"none", "move", "copy"} /\ step \in Step
    /\ arrived \in 0..MaxMail /\ mark \in 0..MaxMail /\ pack \subseteq Message
    /\ \A r \in net : r.path \in Call /\ r.phase \in 0..3 /\ r.seen \in Status
    /\ answer \in {"none", "ok", "error"}
    /\ status \in [Transfer -> Status] /\ task \in [Transfer -> BOOLEAN]
    /\ row \in 0..MaxTransfers
    /\ files \in [Transfer -> SUBSET {1, 2}]
    /\ built \in BOOLEAN /\ have \subseteq Message
    /\ jobs \subseteq [kind : JobKind, t : Transfer]
    /\ deleted \in BOOLEAN /\ cut \in BOOLEAN
    /\ runs \in 0..MaxRuns /\ troubles \in 0..MaxTroubles

Init ==
    /\ kind \in {"site", "mail"} /\ removeAfter \in BOOLEAN
    /\ src = "here" /\ dns = "src"
    /\ out = [status |-> "none", transfer |-> NoTransfer]
    /\ goal = "none" /\ step = "idle"
    /\ arrived = 0 /\ mark = 0 /\ pack = {}
    /\ net = {} /\ answer = "none"
    /\ status = [t \in Transfer |-> "none"] /\ task = [t \in Transfer |-> FALSE]
    /\ row = NoTransfer
    /\ files = [t \in Transfer |-> {}] /\ load = [t \in Transfer |-> {}]
    /\ late = [t \in Transfer |-> NoArchive]
    /\ built = FALSE /\ have = {}
    /\ jobs = {} /\ work = NoWork
    /\ deleted = FALSE /\ cut = FALSE /\ runs = 0 /\ troubles = 0

Trouble == troubles < MaxTroubles /\ troubles' = troubles + 1
theirs == <<rows, disk, queue, deleted>>

---------------------------------------------------------------------------
(* The source: runMigrationOut.                                            *)

\* A message is delivered to the old server: the DNS, or a cache of it, still
\* says so.
MailArrives ==
    /\ kind = "mail" /\ src = "here" /\ arrived < MaxMail
    /\ arrived' = arrived + 1
    /\ UNCHANGED <<option, src, dns, out, goal, step, mark, pack, net, answer,
                   theirs, cut, troubles>>

\* migrateStart, again after a move that failed.
Start ==
    /\ out.status \in {"none", "failed"} /\ goal = "none" /\ src = "here"
    /\ out' = [status |-> "queued", transfer |-> NoTransfer]
    /\ goal' = "move"
    /\ runs < MaxRuns /\ runs' = runs + 1
    /\ UNCHANGED <<kind, removeAfter, src, dns, step, arrived, mark, pack, net, answer, theirs,
                   cut, troubles>>

\* migrateCatchUp: the button of a mail domain that has moved.
CatchUp ==
    /\ kind = "mail" /\ out.status = "done" /\ goal = "none"
    /\ out' = [out EXCEPT !.status = "queued"]
    /\ goal' = "copy"
    /\ runs < MaxRuns /\ runs' = runs + 1
    /\ UNCHANGED <<kind, removeAfter, src, dns, step, arrived, mark, pack, net, answer, theirs,
                   cut, troubles>>

\* The job begins, or begins again after a restart.
RunOut ==
    /\ goal # "none" /\ step = "idle"
    /\ IF goal = "move" /\ src = "gone"
         THEN /\ out' = [out EXCEPT !.status = "failed"] /\ goal' = "none"
              /\ UNCHANGED step
         ELSE /\ out' = [out EXCEPT !.status = "running"]
              /\ step' = IF goal = "copy" THEN "pack" ELSE "hello"
              /\ UNCHANGED goal
    /\ UNCHANGED <<option, src, dns, arrived, mark, pack, net, answer, theirs, cut,
                   troubles>>

Waiting == \E r \in net : r.live

\* A call of the step the job is at.
Ask ==
    /\ step \in Call /\ answer = "none" /\ ~Waiting
    /\ net' = net \cup {[path |-> step, t |-> out.transfer, body |-> pack, live |-> TRUE,
                         phase |-> 0, seen |-> "none", built |-> FALSE]}
    /\ UNCHANGED <<option, source, answer, theirs, cut, troubles>>

\* The caller gives up; the request may still be worked on, or get lost.
GiveUp ==
    /\ Trouble /\ answer' = "error"
    /\ \E r \in net : /\ r.live
                      /\ \/ net' = net \ {r}
                         \/ net' = (net \ {r}) \cup {[r EXCEPT !.live = FALSE]}
    /\ UNCHANGED <<option, source, theirs, cut>>

\* What follows a step that went well.
Removing == IF removeAfter THEN "remove" ELSE "end"
After ==
    [hello |-> "package", package |-> "begin", begin |-> "chunk1", chunk1 |-> "chunk2",
     chunk2 |-> "finish", finish |-> "imported", imported |-> "dns", dns |-> "finalize",
     finalize |-> "finished", finished |-> IF kind = "mail" THEN "pack" ELSE Removing,
     pack |-> "send", send |-> "catchup", catchup |-> "caught",
     caught |-> IF goal = "copy" THEN "end" ELSE Removing, remove |-> "end"]

\* A step that failed: the other side is told to take away what it made room
\* for, unless this is only a catch-up or there is no transfer.
Fail ==
    IF goal = "move" /\ out.transfer # NoTransfer /\ step # "cancel"
      THEN step' = "cancel" /\ UNCHANGED <<out, goal>>
      ELSE /\ step' = "idle" /\ goal' = "none"
           /\ out' = [out EXCEPT !.status = "failed"]

\* The answer to a call; a chunk is sent up to four times, and what becomes of
\* a cancel does not matter.  Begin answers with the transfer.
Answered ==
    /\ answer # "none" /\ answer' = "none"
    /\ IF step # "cancel" /\ answer = "ok"
         THEN /\ step' = After[step]
              /\ UNCHANGED <<goal, out>>
         ELSE \/ Fail
              \/ step \in {"chunk1", "chunk2", "send"} /\ UNCHANGED <<step, goal, out>>
    /\ cut' = (cut \/ (answer = "error" /\ step \in {"send", "catchup"}))
    /\ UNCHANGED <<option, src, dns, arrived, mark, pack, net, theirs, troubles>>

\* PackageForMigration: the mark, then the messages there are.
Package ==
    /\ step = "package" /\ step' = After[step]
    /\ mark' = arrived /\ pack' = 1..arrived
    /\ UNCHANGED <<option, src, dns, out, goal, arrived, net, answer, theirs, cut, troubles>>

\* PackageCatchUp: what is newer than the mark, and the mark moves on.
PackCatchUp ==
    /\ step = "pack" /\ step' = After[step]
    /\ IF src = "here" THEN mark' = arrived /\ pack' = (mark + 1)..arrived
                       ELSE pack' = {} /\ UNCHANGED mark
    /\ UNCHANGED <<option, src, dns, out, goal, arrived, net, answer, theirs, cut, troubles>>

\* wait polls until the transfer is what the step wants.
Wanted == IF step = "imported" THEN "imported"
          ELSE IF step = "finished" /\ kind = "mail" THEN "finished" ELSE "done"

Wait ==
    /\ step \in {"imported", "finished", "caught"}
    /\ \/ /\ status[out.transfer] = Wanted
          /\ step' = After[step]
          /\ UNCHANGED <<goal, out, cut, troubles>>
       \/ /\ \/ status[out.transfer] = "failed" /\ UNCHANGED troubles
             \/ Trouble                                   \* the deadline
          /\ cut' = (cut \/ step = "caught")
          /\ Fail
    /\ UNCHANGED <<option, src, dns, arrived, mark, pack, net, answer, theirs>>

\* switchDNS: the provider may refuse.
SwitchDNS ==
    /\ step = "dns"
    /\ \/ /\ dns' = "dst" /\ step' = After[step]
          /\ UNCHANGED <<goal, out, troubles>>
       \/ Trouble /\ Fail /\ UNCHANGED dns
    /\ UNCHANGED <<option, src, arrived, mark, pack, net, answer, theirs, cut>>

\* removeMoved, which may stop half-way: the step is optional.
Remove ==
    /\ step = "remove"
    /\ \/ src' = "part" /\ src # "part" /\ UNCHANGED <<step, troubles>>
       \/ src = "part" /\ src' = "gone" /\ step' = "end" /\ UNCHANGED troubles
       \/ Trouble /\ step' = "end" /\ UNCHANGED src
    /\ UNCHANGED <<option, dns, out, goal, arrived, mark, pack, net, answer, theirs, cut>>

Done ==
    /\ step = "end"
    /\ step' = "idle" /\ goal' = "none"
    /\ out' = [out EXCEPT !.status = "done"]
    /\ UNCHANGED <<option, src, dns, arrived, mark, pack, net, answer, theirs, cut, troubles>>

---------------------------------------------------------------------------
(* The destination's handlers: the row is read, and then acted on.         *)

ours == <<option, src, dns, goal, step, arrived, mark, pack, cut>>

\* The request is dealt with; a caller still waiting is told.
Reply(r, said) ==
    /\ net' = net \ {r}
    /\ answer' = IF r.live THEN said ELSE answer

OnTo(r, phase) == net' = (net \ {r}) \cup {[r EXCEPT !.phase = phase]} /\ UNCHANGED answer

Read(r) ==
    /\ r.phase = 0
    /\ net' = (net \ {r}) \cup
              {[r EXCEPT !.phase = 1,
                         !.seen = IF r.t = NoTransfer THEN "none" ELSE status[r.t],
                         !.built = IF r.t = NoTransfer THEN FALSE ELSE task[r.t]]}
    /\ UNCHANGED <<ours, out, answer, theirs, troubles>>

\* migrateHello with refuseMigration: the name must not be taken.
Hello(r) ==
    /\ r.path = "hello" /\ r.phase = 1
    /\ Reply(r, IF row = NoTransfer THEN "ok" ELSE "error")
    /\ UNCHANGED <<ours, out, theirs, troubles>>

\* migrateBegin: the rows of the site or domain, then the transfer's.
Fresh == {t \in Transfer : status[t] = "none" /\ t # row}

BeginRows(r) ==
    /\ r.path = "begin" /\ r.phase = 1
    /\ IF \/ row # NoTransfer
          \/ kind = "site" /\ \E t \in Transfer : status[t] \notin Ended \cup {"none"}
          \/ Fresh = {}
         THEN Reply(r, "error") /\ UNCHANGED row
         ELSE \E t \in Fresh :
                /\ \A u \in Fresh : t <= u
                /\ row' = t
                /\ net' = (net \ {r}) \cup {[r EXCEPT !.phase = 2, !.t = t]}
                /\ UNCHANGED answer
    /\ UNCHANGED <<ours, out, status, task, disk, queue, deleted, troubles>>

BeginTransfer(r) ==
    /\ r.path = "begin" /\ r.phase = 2
    /\ status' = [status EXCEPT ![r.t] = "receiving"]
    /\ Reply(r, "ok")
    /\ out' = IF r.live THEN [out EXCEPT !.transfer = r.t] ELSE out
    /\ UNCHANGED <<ours, task, row, disk, queue, deleted, troubles>>

\* migrateUpload: the first chunk empties the file, and so does a late one.
Upload(r) ==
    /\ r.path \in {"chunk1", "chunk2"} /\ r.phase = 1
    /\ IF r.seen = "receiving" /\ status[r.t] # "cancelled"
         THEN /\ files' = [files EXCEPT ![r.t] = IF r.path = "chunk1" THEN {1} ELSE @ \cup {2}]
              /\ load' = [load EXCEPT ![r.t] = r.body]
              /\ Reply(r, "ok")
         ELSE Reply(r, "error") /\ UNCHANGED <<files, load>>
    /\ UNCHANGED <<ours, out, rows, late, built, have, queue, deleted, troubles>>

UploadCatchUp(r) ==
    /\ r.path = "send" /\ r.phase = 1
    /\ IF r.seen \in {"finished", "done"}
         THEN late' = [late EXCEPT ![r.t] = [there |-> TRUE, mail |-> r.body]] /\ Reply(r, "ok")
         ELSE Reply(r, "error") /\ UNCHANGED late
    /\ UNCHANGED <<ours, out, rows, files, load, built, have, queue, deleted, troubles>>

\* migrateFinish: the hashes are compared, the status set, the job pushed.
Finish(r) ==
    /\ r.path = "finish" /\ r.phase = 1
    /\ IF r.seen # "receiving"
         THEN Reply(r, "error") /\ UNCHANGED status
         ELSE IF files[r.t] = {1, 2}
         THEN OnTo(r, 2) /\ UNCHANGED status
         ELSE Reply(r, "error") /\ status' = [status EXCEPT ![r.t] = "failed"]
    /\ UNCHANGED <<ours, out, task, row, disk, queue, deleted, troubles>>

\* migrateFinalize and migrateCatchUpIn check likewise.
Finalize(r) ==
    /\ r.path = "finalize" /\ r.phase = 1
    /\ IF r.seen = "imported" THEN OnTo(r, 2) ELSE Reply(r, "error")
    /\ UNCHANGED <<ours, out, theirs, troubles>>

CatchUpIn(r) ==
    /\ r.path = "catchup" /\ r.phase = 1
    /\ IF kind = "mail" /\ r.seen \in {"finished", "done"} /\ late[r.t] = [there |-> TRUE, mail |-> r.body]
         THEN OnTo(r, 2) ELSE Reply(r, "error")
    /\ UNCHANGED <<ours, out, theirs, troubles>>

JobOf(path) == IF path = "finish" THEN "in" ELSE IF path = "finalize" THEN "finish" ELSE "catchup"
GoesTo(path) == IF path = "finish" THEN "importing"
                ELSE IF path = "finalize" THEN "finishing" ELSE "catching_up"

SetStatus(r) ==
    /\ r.path \in {"finish", "finalize", "catchup"} /\ r.phase = 2
    /\ status' = [status EXCEPT ![r.t] = GoesTo(r.path)]
    /\ OnTo(r, 3)
    /\ UNCHANGED <<ours, out, task, row, disk, queue, deleted, troubles>>

PushJob(r) ==
    /\ r.phase = 3
    /\ jobs' = jobs \cup {[kind |-> JobOf(r.path), t |-> r.t]}
    /\ Reply(r, "ok")
    /\ UNCHANGED <<ours, out, rows, disk, work, deleted, troubles>>

\* migrateCancel: only of a transfer still receiving, or that failed before a
\* job was made for it.
Cancel(r) ==
    /\ r.path = "cancel" /\ r.phase = 1
    /\ Reply(r, "ok")
    /\ IF r.seen = "receiving" \/ (r.seen = "failed" /\ ~r.built)
         THEN /\ row' = IF row = r.t THEN NoTransfer ELSE row
              /\ files' = [files EXCEPT ![r.t] = {}]
              /\ status' = [status EXCEPT ![r.t] = "cancelled"]
         ELSE UNCHANGED <<row, files, status>>
    /\ UNCHANGED <<ours, out, task, load, late, built, have, queue, deleted, troubles>>

---------------------------------------------------------------------------
(* The destination's jobs.                                                 *)

mine == <<option, source, net, answer, cut>>

TakeJob(j) ==
    /\ work = NoWork /\ j \in jobs
    /\ jobs' = jobs \ {j}
    /\ work' = [kind |-> j.kind, t |-> j.t, at |-> "build", ok |-> TRUE]
    /\ task' = [task EXCEPT ![j.t] = TRUE]
    /\ UNCHANGED <<mine, status, row, disk, deleted, troubles>>

\* ImportMigrated, by an archive that is whole, for a row that is there.
Import ==
    LET t == work.t IN
    /\ work.kind = "in" /\ work.at = "build"
    /\ \/ /\ row = t /\ files[t] = {1, 2}
          /\ built' = TRUE /\ have' = have \cup load[t]
          /\ work' = [work EXCEPT !.at = "clean"]
          /\ UNCHANGED troubles
       \/ /\ \/ (row # t \/ files[t] # {1, 2}) /\ UNCHANGED troubles
             \/ Trouble
          /\ work' = [work EXCEPT !.at = "clean", !.ok = FALSE]
          /\ UNCHANGED <<built, have>>
    /\ UNCHANGED <<mine, rows, files, load, late, jobs, deleted>>

\* ApplyCatchUp, by an archive that is there.
ApplyCatchUp ==
    LET t == work.t IN
    /\ work.kind = "catchup" /\ work.at = "build"
    /\ \/ /\ late[t].there
          /\ have' = have \cup late[t].mail
          /\ work' = [work EXCEPT !.at = "clean"]
          /\ UNCHANGED troubles
       \/ /\ (~late[t].there /\ UNCHANGED troubles) \/ Trouble
          /\ work' = [work EXCEPT !.at = "clean", !.ok = FALSE]
          /\ UNCHANGED have
    /\ UNCHANGED <<mine, rows, files, load, late, built, jobs, deleted>>

\* FinishImport: the certificate can wait, so whatever comes of it is taken.
FinishImport ==
    /\ work.kind = "finish" /\ work.at = "build"
    /\ work' = [work EXCEPT !.at = "clean"]
    /\ UNCHANGED <<mine, rows, disk, jobs, deleted, troubles>>

\* The archives go before the outcome is written.
RemoveArchives ==
    LET t == work.t IN
    /\ work.at = "clean"
    /\ files' = IF work.kind = "in" THEN [files EXCEPT ![t] = {}] ELSE files
    /\ late' = IF work.kind = "catchup" THEN [late EXCEPT ![t] = NoArchive] ELSE late
    /\ work' = [work EXCEPT !.at = "mark"]
    /\ UNCHANGED <<mine, rows, load, built, have, jobs, deleted, troubles>>

\* A variant that does not look at how the job went.
OutcomeAnyhow ==
    IF work.kind = "in" THEN "imported"
    ELSE IF work.kind = "finish" /\ kind = "mail" THEN "finished" ELSE "done"
Outcome ==
    IF ~work.ok THEN "failed"
    ELSE IF work.kind = "in" THEN "imported"
    ELSE IF work.kind = "finish" /\ kind = "mail" THEN "finished" ELSE "done"

MarkOutcome ==
    /\ work.at = "mark"
    /\ status' = [status EXCEPT ![work.t] = Outcome]
    /\ work' = NoWork
    /\ UNCHANGED <<mine, task, row, disk, jobs, deleted, troubles>>

\* The destination's owner deletes the site or domain that arrived.
DeleteThere ==
    /\ row # NoTransfer /\ ~deleted
    /\ row' = NoTransfer /\ built' = FALSE /\ have' = {} /\ deleted' = TRUE
    /\ UNCHANGED <<mine, status, task, files, load, late, queue, troubles>>

---------------------------------------------------------------------------
\* The job is put back in its queue and starts over.
SourceDies ==
    /\ Trouble /\ step # "idle"
    /\ step' = "idle" /\ answer' = "none"
    /\ net' = {[r EXCEPT !.live = FALSE] : r \in net}
    /\ cut' = (cut \/ (step \in {"send", "catchup", "caught"}))
    /\ UNCHANGED <<option, src, dns, out, goal, arrived, mark, pack, theirs>>

\* The requests being handled die with the panel, and their callers hear of it.
DestinationDies ==
    /\ Trouble
    /\ net' = {r \in net : r.phase = 0}
    /\ answer' = IF \E r \in net : r.live /\ r.phase # 0 THEN "error" ELSE answer
    /\ jobs' = IF work = NoWork THEN jobs ELSE jobs \cup {[kind |-> work.kind, t |-> work.t]}
    /\ work' = NoWork
    /\ UNCHANGED <<option, source, rows, disk, deleted, cut>>

Next ==
    \/ MailArrives \/ Start \/ CatchUp \/ RunOut \/ Ask \/ GiveUp \/ Answered
    \/ Package \/ PackCatchUp \/ Wait \/ SwitchDNS \/ Remove \/ Done
    \/ \E r \in net : \/ Read(r) \/ Hello(r) \/ BeginRows(r) \/ BeginTransfer(r)
                      \/ Upload(r) \/ UploadCatchUp(r) \/ Finish(r) \/ Finalize(r)
                      \/ CatchUpIn(r) \/ SetStatus(r) \/ PushJob(r) \/ Cancel(r)
    \/ \E j \in jobs : TakeJob(j)
    \/ Import \/ ApplyCatchUp \/ FinishImport \/ RemoveArchives \/ MarkOutcome
    \/ DeleteThere \/ SourceDies \/ DestinationDies

Spec == Init /\ [][Next]_vars

---------------------------------------------------------------------------
\* A site or mail domain is whole on at least one of the servers: the old copy
\* is only touched once the new one is set up, with every message of the last
\* copy, whatever call is lost, late or repeated and whichever panel dies.  An
\* owner who deletes the new one during the move is not protected.
NeverLost ==
    src # "here" /\ ~deleted => built /\ 1..mark \subseteq have

\* mail/migrate.go:104, "so a message that arrives while it runs is in this copy
\* or the next one, never neither": once the move or a catch-up is done, the
\* messages up to the mark are in the mailboxes of the new server, unless a copy
\* was packed before and did not arrive.
CopiedIsThere ==
    out.status = "done" /\ kind = "mail" /\ ~deleted /\ ~cut => 1..mark \subseteq have

MoveKept == NeverLost /\ CopiedIsThere
=============================================================================
