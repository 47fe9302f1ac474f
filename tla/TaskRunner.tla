----------------------------- MODULE TaskRunner -----------------------------
(***************************************************************************)
(* Tasks: the named list of steps that every long operation of the panel   *)
(* runs as (internal/tasks), over the row that the browser polls           *)
(* (activity_logs, internal/store/task.go).                                *)
(*                                                                         *)
(* The runner keeps what it knows in memory and flushes it to the row after *)
(* every step, one statement at a time.  The panel can die between any two  *)
(* statements; the next start fails the rows left running.                  *)
(***************************************************************************)
EXTENDS Integers, Sequences, FiniteSets

CONSTANTS
    Task,         \* rows of activity_logs
    Group,        \* what a batch's steps can be tagged with
    NoGroup,      \* the tag of an untagged step, ""
    Lists,        \* the step lists that the panel's operations build
    MaxBoots      \* bound: starts of the panel

Step == [optional : BOOLEAN, group : Group \cup {NoGroup}]

ASSUME RunnerAssumption ==
    /\ NoGroup \notin Group
    /\ Lists \subseteq Seq(Step)
    /\ MaxBoots \in Nat

VARIABLES
    status, message,            \* the columns of the row
    saved, current, progress,   \* steps, current_step and progress
    list, pc, step,             \* the runner: its list, where it is, the loop's i
    mark, skipped, failed,      \* the step statuses and groups it remembers
    panel, boots

row == <<status, message, saved, current, progress>>
memory == <<list, pc, step, mark, skipped, failed>>
vars == <<status, message, saved, current, progress, list, pc, step, mark,
          skipped, failed, panel, boots>>

StepStatus == {"pending", "running", "success", "failed", "skipped"}
Ended == {"success", "failed"}

\* Where a runner can be; "gone" is one whose process died.
Live == {"created", "next", "step", "last"}

TypeOK ==
    /\ status \in [Task -> {"absent", "running"} \cup Ended]
    /\ message \in [Task -> {"", "title", "error", "batch", "completed", "restarted"}]
    /\ saved \in [Task -> Seq(StepStatus)]
    /\ current \in [Task -> Nat]
    /\ progress \in [Task -> 0..100]
    /\ list \in [Task -> Lists \cup {<<>>}]
    /\ pc \in [Task -> {"none", "over", "gone"} \cup Live]
    /\ step \in [Task -> Nat]
    /\ mark \in [Task -> Seq(StepStatus)]
    /\ skipped \in [Task -> SUBSET Group]
    /\ failed \in [Task -> SUBSET Group]
    /\ panel \in {"down", "up"}
    /\ boots \in Nat

Init ==
    /\ status = [t \in Task |-> "absent"]
    /\ message = [t \in Task |-> ""]
    /\ saved = [t \in Task |-> <<>>]
    /\ current = [t \in Task |-> 0]
    /\ progress = [t \in Task |-> 0]
    /\ list = [t \in Task |-> <<>>]
    /\ pc = [t \in Task |-> "none"]
    /\ step = [t \in Task |-> 0]
    /\ mark = [t \in Task |-> <<>>]
    /\ skipped = [t \in Task |-> {}]
    /\ failed = [t \in Task |-> {}]
    /\ panel = "down"
    /\ boots = 0
-----------------------------------------------------------------------------
\* progress(): the steps that are over, of all, in per cent.
Final == {"success", "skipped", "failed"}
Over(marks) == {k \in 1..Len(marks) : marks[k] \in Final}

\* A variant that leaves the step under way out of the total.
PercentShort(marks) == IF marks = <<>> THEN 100
                       ELSE (Cardinality(Over(marks)) * 100) \div (Len(marks) - 1)
Percent(marks) == IF marks = <<>> THEN 100
                  ELSE (Cardinality(Over(marks)) * 100) \div Len(marks)

\* flush: SetTaskSteps with the runner's marks, one of which may be changed.
Flush(t, marks, at) ==
    /\ mark' = [mark EXCEPT ![t] = marks]
    /\ saved' = [saved EXCEPT ![t] = marks]
    /\ current' = [current EXCEPT ![t] = at]
    /\ progress' = [progress EXCEPT ![t] = Percent(marks)]

\* A variant that closes a task at zero, as if nothing had been done.
FinishTaskAtZero(t, verdict, why, percent) ==
    /\ status' = [status EXCEPT ![t] = verdict]
    /\ message' = [message EXCEPT ![t] = why]
    /\ progress' = [progress EXCEPT ![t] = IF verdict = "failed" THEN 0 ELSE percent]
    /\ current' = [current EXCEPT ![t] = 0]

FinishTask(t, verdict, why, percent) ==
    /\ status' = [status EXCEPT ![t] = verdict]
    /\ message' = [message EXCEPT ![t] = why]
    /\ progress' = [progress EXCEPT ![t] = percent]
    /\ current' = [current EXCEPT ![t] = 0]

\* CreateTask: a handler opens a task that is running from the start, and
\* builds its list.
Create(t, l) ==
    /\ panel = "up" /\ status[t] = "absent"
    /\ status' = [status EXCEPT ![t] = "running"]
    /\ message' = [message EXCEPT ![t] = "title"]
    /\ list' = [list EXCEPT ![t] = l]
    /\ pc' = [pc EXCEPT ![t] = "created"]
    /\ UNCHANGED <<saved, current, progress, step, mark, skipped, failed, panel, boots>>

\* Run, up to its loop: SetTaskStatus clears the message, then the first flush.
Begin(t) ==
    /\ pc[t] = "created"
    /\ message' = [message EXCEPT ![t] = ""]
    /\ Flush(t, [k \in 1..Len(list[t]) |-> "pending"], 0)
    /\ step' = [step EXCEPT ![t] = 1]
    /\ pc' = [pc EXCEPT ![t] = "next"]
    /\ UNCHANGED <<status, list, skipped, failed, panel, boots>>

More(t) == pc[t] = "next" /\ step[t] \in 1..Len(list[t])
StepOf(t) == list[t][step[t]]

\* A variant whose loop forgets to go on.
GoOnNot(t, how) ==
    /\ Flush(t, [mark[t] EXCEPT ![step[t]] = how], 0)
    /\ pc' = [pc EXCEPT ![t] = "next"]
    /\ UNCHANGED step

\* The loop goes on to the next step, this one having ended so.
GoOn(t, how) ==
    /\ Flush(t, [mark[t] EXCEPT ![step[t]] = how], 0)
    /\ step' = [step EXCEPT ![t] = @ + 1]
    /\ pc' = [pc EXCEPT ![t] = "next"]

\* An earlier step of its group failed.
SkipStep(t) ==
    /\ More(t)
    /\ StepOf(t).group \in skipped[t]
    /\ GoOn(t, "skipped")
    /\ UNCHANGED <<status, message, list, skipped, failed, panel, boots>>

StartStep(t) ==
    /\ More(t)
    /\ StepOf(t).group \notin skipped[t]
    /\ Flush(t, [mark[t] EXCEPT ![step[t]] = "running"], step[t])
    /\ pc' = [pc EXCEPT ![t] = "step"]
    /\ UNCHANGED <<status, message, list, step, skipped, failed, panel, boots>>

\* runStep returns nil.
StepSucceeds(t) ==
    /\ pc[t] = "step"
    /\ GoOn(t, "success")
    /\ UNCHANGED <<status, message, list, skipped, failed, panel, boots>>

\* runStep returns an error, and the step is one the task can do without.
OptionalFails(t) ==
    /\ pc[t] = "step" /\ StepOf(t).optional
    /\ GoOn(t, "skipped")
    /\ UNCHANGED <<status, message, list, skipped, failed, panel, boots>>

\* Variants of what a grouped failure leaves behind: the group is not skipped,
\* or the failure is not remembered.
RecordOnly(t, g) == /\ failed' = [failed EXCEPT ![t] = @ \cup {g}]
                    /\ UNCHANGED skipped
SkipOnly(t, g) == /\ skipped' = [skipped EXCEPT ![t] = @ \cup {g}]
                  /\ UNCHANGED failed

\* RecordFailure and SkipGroup.
GiveUp(t, g) ==
    /\ failed' = [failed EXCEPT ![t] = @ \cup {g}]
    /\ skipped' = [skipped EXCEPT ![t] = @ \cup {g}]

\* It takes its group down, and only its group.
GroupedFails(t) ==
    /\ pc[t] = "step" /\ ~StepOf(t).optional /\ StepOf(t).group # NoGroup
    /\ GiveUp(t, StepOf(t).group)
    /\ GoOn(t, "failed")
    /\ UNCHANGED <<status, message, list, panel, boots>>

\* It takes the task down: FinishTask, and no flush before the last one.
SharedFails(t) ==
    /\ pc[t] = "step" /\ ~StepOf(t).optional /\ StepOf(t).group = NoGroup
    /\ LET marks == [mark[t] EXCEPT ![step[t]] = "failed"]
       IN  /\ mark' = [mark EXCEPT ![t] = marks]
           /\ FinishTask(t, "failed", "error", Percent(marks))
    /\ pc' = [pc EXCEPT ![t] = "last"]
    /\ UNCHANGED <<saved, list, step, skipped, failed, panel, boots>>

\* The end of the loop: the batch failed in part, or everything required went.
Finish(t) ==
    /\ pc[t] = "next" /\ step[t] > Len(list[t])
    /\ \/ failed[t] # {} /\ FinishTask(t, "failed", "batch", Percent(mark[t]))
       \/ failed[t] = {} /\ FinishTask(t, "success", "completed", 100)
    /\ pc' = [pc EXCEPT ![t] = "last"]
    /\ UNCHANGED <<saved, list, step, mark, skipped, failed, panel, boots>>

\* A variant without it.
LastFlushNot(t) ==
    /\ pc[t] = "last"
    /\ pc' = [pc EXCEPT ![t] = "over"]
    /\ UNCHANGED <<row, list, step, mark, skipped, failed, panel, boots>>

LastFlush(t) ==
    /\ pc[t] = "last"
    /\ Flush(t, mark[t], 0)
    /\ pc' = [pc EXCEPT ![t] = "over"]
    /\ UNCHANGED <<status, message, list, step, skipped, failed, panel, boots>>
-----------------------------------------------------------------------------
\* The process is gone, and what its runners knew with it.  (list stays: the
\* step names, tags and options are part of the steps column.)
Crash ==
    /\ panel = "up"
    /\ panel' = "down"
    /\ pc' = [t \in Task |-> IF pc[t] \in Live THEN "gone" ELSE pc[t]]
    /\ UNCHANGED <<row, list, step, mark, skipped, failed, boots>>

\* The rows FailRunningTasks closes, and a variant that closes none.
NotRunning == {}
RunningTasks == {t \in Task : status[t] = "running"}

Start ==
    /\ panel = "down" /\ boots < MaxBoots
    /\ panel' = "up"
    /\ boots' = boots + 1
    /\ status' = [t \in Task |-> IF t \in RunningTasks THEN "failed" ELSE status[t]]
    /\ message' = [t \in Task |-> IF t \in RunningTasks /\ message[t] = ""
                                  THEN "restarted" ELSE message[t]]
    /\ UNCHANGED <<saved, current, progress, memory>>

RunnerStep(t) ==
    \/ Begin(t) \/ SkipStep(t) \/ StartStep(t) \/ StepSucceeds(t) \/ OptionalFails(t)
    \/ GroupedFails(t) \/ SharedFails(t) \/ Finish(t) \/ LastFlush(t)

Next ==
    \/ Start \/ Crash
    \/ \E t \in Task : RunnerStep(t)
    \/ \E t \in Task, l \in Lists : Create(t, l)

Spec == Init /\ [][Next]_vars

\* A goroutine that can run does, every command is killed after half an hour
\* (proc.DefaultTimeout), and systemd starts the panel again.
Fairness == WF_vars(Start) /\ \A t \in Task : WF_vars(RunnerStep(t))

FairSpec == Spec /\ Fairness
-----------------------------------------------------------------------------
\* Of a list of steps, one that is required, and one's tag.
Required(l, k) == ~l[k].optional
Tag(l, k) == l[k].group

\* The marks of a run that kept its groups apart: a step is skipped because it
\* is optional or because its group failed before it, and nothing of a group is
\* tried after the group failed.
Sound(l, marks) ==
    /\ \A k \in 1..Len(marks) : marks[k] = "skipped" /\ Required(l, k) =>
          \E j \in 1..(k - 1) : marks[j] = "failed" /\ Tag(l, j) = Tag(l, k)
    /\ \A j, k \in 1..Len(marks) :
          j < k /\ marks[j] = "failed" /\ Tag(l, j) \in Group /\ Tag(l, j) = Tag(l, k)
             => marks[k] \in {"pending", "skipped"}

\* The marks of a run with nothing to blame, and of one that did what it could:
\* a failure of a group leaves no step untried, only one of a shared step does.
Complete(l, marks) ==
    \A k \in 1..Len(l) : marks[k] \in IF Required(l, k) THEN {"success"}
                                                       ELSE {"success", "skipped"}
Blamed(l, marks) ==
    \E k \in 1..Len(l) :
        /\ marks[k] = "failed" /\ Required(l, k)
        /\ \/ Tag(l, k) = NoGroup
           \/ \A j \in 1..Len(l) : marks[j] \in Final

\* The row never shows a group going on after it failed, nor a required step
\* skipped for no reason, whenever it is read and whatever crashed (tasks.go:5-10).
GroupsAreIsolated == \A t \in Task : Sound(list[t], saved[t])

\* A task says success only when every step the operation could not do without
\* succeeded, and no step is still shown as waiting or running.
SuccessIsEarned ==
    \A t \in Task : status[t] = "success" => Complete(list[t], saved[t]) /\ progress[t] = 100

\* The runner's own verdict of failure is written on the row: a step of a group
\* failed and all the others were tried, or a shared one did.  Only a restart
\* fails a task without it.
FailureIsReal ==
    \A t \in Task : pc[t] = "over" /\ status[t] = "failed" => Blamed(list[t], saved[t])

\* "A task row that says running for a process that no longer exists is worse
\* than a failure" (store/task.go:296): once the panel is up there is none.
RunningHasRunner ==
    panel = "up" => \A t \in Task : status[t] = "running" => pc[t] \in Live

\* What the browser polls never goes backwards: a task that ended keeps its
\* verdict and its reason through every restart, and progress only grows.
NeverBackwards ==
    [][\A t \in Task : /\ progress'[t] >= progress[t]
                       /\ status[t] \in Ended => /\ status'[t] = status[t]
                                                 /\ message'[t] = message[t]]_vars

NoMoreStarts == panel = "down" /\ boots = MaxBoots

\* Every task that was opened ends, by its steps or by the next start.
TasksEnd == \A t \in Task : status[t] = "running" ~> (status[t] \in Ended \/ NoMoreStarts)

(***************************************************************************)
(* The inductive invariant, proved in TaskRunnerProofs.                    *)
(***************************************************************************)
\* The loop of Run before and during its step i, with the groups in sk given up.
Loop(l, m, i, sk) ==
    /\ m \in Seq(StepStatus) /\ Len(m) = Len(l) /\ i \in 1..(Len(l) + 1)
    /\ \A k \in 1..Len(l) : /\ k < i => m[k] \in Final
                            /\ k = i => m[k] \in {"pending", "running"}
                            /\ k > i => m[k] = "pending"
                            /\ m[k] = "failed" => Required(l, k) /\ Tag(l, k) \in sk
    /\ \A g \in sk : \E k \in 1..Len(l) : m[k] = "failed" /\ Tag(l, k) = g
    /\ Sound(l, m)

\* What is so of a task wherever its runner is.
RunnerInv(t) ==
    /\ pc[t] = "none" <=> status[t] = "absent"
    /\ pc[t] = "none" => saved[t] = <<>> /\ progress[t] = 0
    /\ pc[t] \in {"next", "step"} =>
          /\ Loop(list[t], mark[t], step[t], skipped[t])
          /\ failed[t] = skipped[t]
          /\ saved[t] = mark[t]
          /\ progress[t] = Percent(mark[t])
    /\ pc[t] = "step" => mark[t][step[t]] = "running" /\ step[t] <= Len(list[t])
    /\ pc[t] \in {"last", "over"} =>
          /\ status[t] \in Ended
          /\ Len(mark[t]) = Len(list[t])
          /\ Sound(list[t], mark[t])
          /\ status[t] = "success" => Complete(list[t], mark[t])
          /\ status[t] = "failed" => Blamed(list[t], mark[t])
          /\ progress[t] = Percent(mark[t])
    /\ pc[t] = "over" => saved[t] = mark[t]
    /\ pc[t] \in {"none", "created"} => skipped[t] = {} /\ failed[t] = {}
    /\ pc[t] = "created" => saved[t] = <<>> /\ progress[t] = 0
    /\ pc[t] \in {"created", "next", "step"} => status[t] = "running" /\ list[t] \in Lists
    /\ panel = "down" => pc[t] \notin Live

TaskInv ==
    /\ TypeOK /\ GroupsAreIsolated /\ SuccessIsEarned /\ RunningHasRunner
    /\ \A t \in Task : RunnerInv(t)
=============================================================================
