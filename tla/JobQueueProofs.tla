--------------------------- MODULE JobQueueProofs ---------------------------
(***************************************************************************)
(* Machine-checked proofs about JobQueue, for any number of workers, jobs, *)
(* kinds, starts and lost writes.  The parts of QueueInv are proved one    *)
(* after the other, each from those before it.                             *)
(***************************************************************************)
EXTENDS JobQueue, TLAPS

(***************************************************************************)
(* What one step does, action by action: the cases every invariance proof  *)
(* below goes through.                                                     *)
(***************************************************************************)
LEMMA StepCases ==
    ASSUME [Next]_vars
    PROVE  \/ Start \/ Stop \/ Exit \/ Crash
           \/ \E k \in Kind : Push(k)
           \/ \E j \in Id : BecomeDue(j)
           \/ \E w \in Worker : Select(w)
           \/ \E w \in Worker : Claim(w)
           \/ \E w \in Worker : ClaimCancelled(w)
           \/ \E w \in Worker : Return(w)
           \/ \E w \in Worker : Record(w)
           \/ \E w \in Worker : RecordLost(w)
           \/ \E w \in Worker : Quit(w)
           \/ UNCHANGED vars
  BY DEF Next, WorkerStep

(***************************************************************************)
(* Type correctness, and that busy workers point at rows that exist.       *)
(***************************************************************************)
Typed == TypeOK /\ JobInHand

LEMMA TypedInit == Init => Typed
<1>1. (CHOOSE k \in Kind : TRUE) \in Kind
  BY ConstantsAssumption
<1>2. 1 \in 1..(MaxJobs + 1)
  BY ConstantsAssumption
<1>3. Init => TypeOK
  BY <1>1, <1>2 DEF Init, TypeOK, Status, Reason, Outcome
<1>4. Init => JobInHand
  BY DEF Init, JobInHand, Busy
<1>5. QED BY <1>3, <1>4 DEF Typed

LEMMA TypedNext == Typed /\ [Next]_vars => Typed'
<1> SUFFICES ASSUME Typed, [Next]_vars PROVE Typed'
  OBVIOUS
<1> USE DEF Typed, TypeOK, JobInHand, Busy
<1>1. CASE Start
  <2>1. handlers' \in Binaries /\ boots' \in Nat /\ panel' = "up"
    BY <1>1 DEF Start
  <2>2. pc' \in [Worker -> {"stopped", "idle"}]
    BY <1>1 DEF Start
  <2>3. status' \in [Id -> Status] /\ \A j \in Id : j >= next => status'[j] = "absent"
    BY <1>1 DEF Start, RequeueRunningJobs, ToRequeue, Status
  <2>4. UNCHANGED <<kind, due, attempts, error, next, job, read, outcome, retried, lost>>
    BY <1>1 DEF Start
  <2>5. TypeOK'
    BY <2>1, <2>2, <2>3, <2>4
  <2>6. JobInHand'
    BY <2>2, <2>3, <2>4
  <2>7. QED BY <2>5, <2>6
<1>2. CASE Stop
  BY <1>2 DEF Stop, table, workers, history
<1>3. CASE Exit
  BY <1>3 DEF Exit, Forget, table, history, Outcome
<1>4. CASE Crash
  BY <1>4 DEF Crash, Forget, table, history, Outcome
<1>5. ASSUME NEW k \in Kind, Push(k) PROVE Typed'
  <2>1. status' \in [Id -> Status] /\ kind' \in [Id -> Kind]
    BY <1>5 DEF Push, Status
  <2>2. next' = next + 1 /\ next' \in 1..(MaxJobs + 1) /\ next \in Nat
    BY <1>5, ConstantsAssumption DEF Push, Id
  <2>3. UNCHANGED <<due, attempts, error, panel, handlers, pc, job, read, outcome,
                    boots, retried, lost>>
    BY <1>5 DEF Push, workers, history
  <2>4. TypeOK'
    BY <2>1, <2>2, <2>3
  <2>5. \A j \in Id : j \in Nat
    BY DEF Id
  <2>6. \A j \in Id : j # next => status'[j] = status[j]
    BY <1>5 DEF Push
  <2>7. JobInHand'
    BY <2>2, <2>3, <2>5, <2>6
  <2>8. QED BY <2>4, <2>7
<1>6. ASSUME NEW j \in Id, BecomeDue(j) PROVE Typed'
  BY <1>6 DEF BecomeDue, workers, history
<1>7. ASSUME NEW w \in Worker, Select(w) PROVE Typed'
  <2>1. PICK j \in Id : /\ status[j] = "queued"
                        /\ job' = [job EXCEPT ![w] = j]
                        /\ read' = [read EXCEPT ![w] = attempts[j]]
    BY <1>7 DEF Select, Candidates
  <2>2. pc' = [pc EXCEPT ![w] = "selected"]
        /\ UNCHANGED <<status, kind, due, attempts, error, next, panel, handlers,
                       outcome, boots, retried, lost>>
    BY <1>7 DEF Select, table, history
  <2>3. TypeOK'
    BY <2>1, <2>2
  <2>4. j < next
    BY <2>1 DEF Id
  <2>5. JobInHand'
    BY <2>1, <2>2, <2>4
  <2>6. QED BY <2>3, <2>5
<1>8. ASSUME NEW w \in Worker, Claim(w) PROVE Typed'
  <2>1. job[w] \in Id /\ job[w] < next
    BY <1>8 DEF Claim
  <2>2. CASE StillQueued(job[w])
    <3>1. /\ status' = [status EXCEPT ![job[w]] = "running"]
          /\ attempts' = [attempts EXCEPT ![job[w]] = attempts[job[w]] + 1]
          /\ pc' = [pc EXCEPT ![w] = "running"]
          /\ read' = [read EXCEPT ![w] = read[w] + 1]
          /\ UNCHANGED <<kind, due, error, next, panel, handlers, job, outcome,
                         boots, retried, lost>>
      BY <1>8, <2>2 DEF Claim, Reserve, history
    <3>2. TypeOK'
      BY <2>1, <3>1 DEF Status
    <3>3. JobInHand'
      BY <2>1, <3>1 DEF Id
    <3>4. QED BY <3>2, <3>3
  <2>3. CASE ~StillQueued(job[w])
    BY <1>8, <2>3 DEF Claim, Sleep, history
  <2>4. QED BY <2>2, <2>3
<1>9. ASSUME NEW w \in Worker, ClaimCancelled(w) PROVE Typed'
  <2>1. job[w] \in Id /\ job[w] < next
    BY <1>9 DEF ClaimCancelled
  <2>2. /\ pc' = [pc EXCEPT ![w] = "idle"]
        /\ job' = [job EXCEPT ![w] = NoJob]
        /\ read' = [read EXCEPT ![w] = 0]
        /\ UNCHANGED <<kind, due, error, next, panel, handlers, outcome,
                       boots, retried, lost>>
    BY <1>9 DEF ClaimCancelled, Sleep, history
  <2>3. CASE Reserve(job[w])
    <3>1. TypeOK'
      BY <2>1, <2>2, <2>3 DEF Reserve, Status
    <3>2. JobInHand'
      BY <2>1, <2>2, <2>3 DEF Reserve, Id
    <3>3. QED BY <3>1, <3>2
  <2>4. CASE UNCHANGED <<status, attempts>>
    BY <2>2, <2>4
  <2>5. QED BY <1>9, <2>3, <2>4 DEF ClaimCancelled
<1>10. ASSUME NEW w \in Worker, Return(w) PROVE Typed'
  <2>1. \E o \in Outcome : outcome' = [outcome EXCEPT ![w] = o]
    BY <1>10 DEF Return, Returns, Outcome
  <2>2. QED BY <1>10, <2>1 DEF Return, table, history
<1>11. ASSUME NEW w \in Worker, Record(w) PROVE Typed'
  <2>1. job[w] \in Id /\ job[w] < next
    BY <1>11 DEF Record
  <2>2. /\ pc' \in [Worker -> {"stopped", "idle", "selected", "running", "ending"}]
        /\ \A v \in Worker : v # w => pc'[v] = pc[v] /\ job'[v] = job[v]
        /\ pc'[w] \notin Busy
        /\ job' \in [Worker -> Id \cup {NoJob}] /\ read' \in [Worker -> Nat]
        /\ outcome' \in [Worker -> Outcome]
    BY <1>11 DEF Record, Free, Outcome
  <2>3. UNCHANGED <<kind, attempts, next, panel, handlers, boots, lost>>
    BY <1>11 DEF Record
  <2>4. /\ status' \in [Id -> Status] /\ due' \in [Id -> BOOLEAN]
        /\ error' \in [Id -> Reason] /\ retried' \in [Id -> Nat]
        /\ \A j \in Id : j # job[w] => status'[j] = status[j]
    <3>1. CASE outcome[w] = "ok" /\ FinishJob(job[w])
      BY <2>1, <3>1 DEF FinishJob, Status
    <3>2. CASE outcome[w] = "retry" /\ RetryJob(job[w])
      <4>1. retried[job[w]] + 1 \in Nat
        BY <2>1
      <4>2. retried' \in [Id -> Nat]
        BY <2>1, <3>2, <4>1 DEF RetryJob
      <4>3. QED BY <2>1, <3>2, <4>2 DEF RetryJob, Status, Reason
    <3>3. CASE outcome[w] \notin {"ok", "retry"} /\ FailJob(job[w], outcome[w])
      <4>1. outcome[w] \in Reason
        BY <3>3 DEF Outcome, Reason
      <4>2. QED BY <2>1, <3>3, <4>1 DEF FailJob, Status
    <3>4. QED BY <1>11, <3>1, <3>2, <3>3 DEF Record
  <2>5. TypeOK'
    BY <2>2, <2>3, <2>4
  <2>6. JobInHand'
    BY <2>1, <2>2, <2>3, <2>4 DEF Id
  <2>7. QED BY <2>5, <2>6
<1>12. ASSUME NEW w \in Worker, RecordLost(w) PROVE Typed'
  <2>1. /\ pc' \in [Worker -> {"stopped", "idle", "selected", "running", "ending"}]
        /\ \A v \in Worker : v # w => pc'[v] = pc[v] /\ job'[v] = job[v]
        /\ pc'[w] \notin Busy
        /\ job' \in [Worker -> Id \cup {NoJob}] /\ read' \in [Worker -> Nat]
        /\ outcome' \in [Worker -> Outcome]
    BY <1>12 DEF RecordLost, Free, Outcome
  <2>2. lost' \in Nat /\ UNCHANGED <<table, next, panel, handlers, boots, retried>>
    BY <1>12 DEF RecordLost
  <2>3. QED BY <2>1, <2>2 DEF table
<1>13. ASSUME NEW w \in Worker, Quit(w) PROVE Typed'
  BY <1>13 DEF Quit, table, history
<1>14. CASE UNCHANGED vars
  BY <1>14 DEF vars
<1>15. QED
  BY StepCases, <1>1, <1>2, <1>3, <1>4, <1>5, <1>6, <1>7, <1>8, <1>9, <1>10, <1>11,
     <1>12, <1>13, <1>14

(* Every variable keeps its type, in every state of every behaviour. *)
THEOREM TypeCorrect == Spec => []TypeOK
<1>1. Typed => TypeOK
  BY DEF Typed
<1>2. QED BY TypedInit, TypedNext, <1>1, PTL DEF Spec

LEMMA AlwaysTyped == Spec => []Typed
  BY TypedInit, TypedNext, PTL DEF Spec

(***************************************************************************)
(* Mutual exclusion.  The claim is two statements, so a worker acts on a   *)
(* row it read earlier; the condition of the UPDATE makes up for it: a row *)
(* is claimed only from "queued", and no held row is ever "queued".        *)
(***************************************************************************)
LEMMA ClaimedInit == Init => Claimed
  BY DEF Init, Claimed, OneWorkerPerJob, Holds

LEMMA ClaimedNext == Typed /\ Claimed /\ [Next]_vars => Claimed'
<1> SUFFICES ASSUME Typed, Claimed, [Next]_vars PROVE Claimed'
  OBVIOUS
<1> USE DEF Typed, TypeOK, JobInHand, Busy, Claimed, OneWorkerPerJob, Holds
<1>1. CASE Start
  BY <1>1 DEF Start
<1>2. CASE Stop
  BY <1>2 DEF Stop, table, workers, history
<1>3. CASE Exit
  BY <1>3 DEF Exit, Forget, table
<1>4. CASE Crash
  BY <1>4 DEF Crash, Forget, table
<1>5. ASSUME NEW k \in Kind, Push(k) PROVE Claimed'
  <2>1. \A w \in Worker : pc[w] \in {"running", "ending"} => job[w] # next
    BY <1>5 DEF Push, Id
  <2>2. QED BY <1>5, <2>1 DEF Push, workers
<1>6. ASSUME NEW j \in Id, BecomeDue(j) PROVE Claimed'
  BY <1>6 DEF BecomeDue, workers
<1>7. ASSUME NEW w \in Worker, Select(w) PROVE Claimed'
  <2>1. /\ pc' = [pc EXCEPT ![w] = "selected"]
        /\ \A v \in Worker : v # w => job'[v] = job[v]
        /\ UNCHANGED <<status, panel>> /\ panel = "up"
    BY <1>7 DEF Select, Candidates, table
  <2>2. QED BY <2>1
<1>8. ASSUME NEW w \in Worker, Claim(w) PROVE Claimed'
  <2>1. CASE StillQueued(job[w])
    <3>1. /\ status[job[w]] = "queued" /\ panel' = "up"
          /\ status' = [status EXCEPT ![job[w]] = "running"]
          /\ pc' = [pc EXCEPT ![w] = "running"]
          /\ UNCHANGED job
          /\ job[w] \in Id
      BY <1>8, <2>1 DEF Claim, StillQueued, Reserve
    <3>2. \A v \in Worker : pc[v] \in {"running", "ending"} => job[v] # job[w]
      BY <3>1
    <3>3. \A v \in Worker : pc'[v] \in {"running", "ending"} =>
              v = w \/ (pc[v] \in {"running", "ending"} /\ job[v] # job[w])
      BY <3>1, <3>2
    <3>4. \A v \in Worker : pc'[v] \in {"running", "ending"} => status'[job'[v]] = "running"
      BY <3>1, <3>3
    <3>5. OneWorkerPerJob'
      BY <3>1, <3>3
    <3>6. QED BY <3>1, <3>4, <3>5
  <2>2. CASE ~StillQueued(job[w])
    BY <1>8, <2>2 DEF Claim, Sleep
  <2>3. QED BY <2>1, <2>2
<1>9. ASSUME NEW w \in Worker, ClaimCancelled(w) PROVE Claimed'
  <2>1. CASE StillQueued(job[w]) /\ Reserve(job[w])
    BY <1>9, <2>1 DEF ClaimCancelled, Sleep, StillQueued, Reserve
  <2>2. CASE UNCHANGED <<status, attempts>>
    BY <1>9, <2>2 DEF ClaimCancelled, Sleep
  <2>3. QED BY <1>9, <2>1, <2>2 DEF ClaimCancelled
<1>10. ASSUME NEW w \in Worker, Return(w) PROVE Claimed'
  BY <1>10 DEF Return, table
<1>11. ASSUME NEW w \in Worker, Record(w) PROVE Claimed'
  <2>1. \A v \in Worker : v # w /\ pc[v] \in {"running", "ending"} => job[v] # job[w]
    BY <1>11 DEF Record
  <2>2. /\ \A v \in Worker : v # w => pc'[v] = pc[v] /\ job'[v] = job[v]
        /\ pc'[w] \notin {"running", "ending"}
        /\ panel' # "down"
    BY <1>11 DEF Record, Free
  <2>3. \A j \in Id : j # job[w] => status'[j] = status[j]
    BY <1>11 DEF Record, FinishJob, RetryJob, FailJob
  <2>4. QED BY <2>1, <2>2, <2>3
<1>12. ASSUME NEW w \in Worker, RecordLost(w) PROVE Claimed'
  <2>1. /\ \A v \in Worker : v # w => pc'[v] = pc[v] /\ job'[v] = job[v]
        /\ pc'[w] \notin {"running", "ending"}
        /\ panel' # "down" /\ UNCHANGED status
    BY <1>12 DEF RecordLost, Free, table
  <2>2. QED BY <2>1
<1>13. ASSUME NEW w \in Worker, Quit(w) PROVE Claimed'
  BY <1>13 DEF Quit, table
<1>14. CASE UNCHANGED vars
  BY <1>14 DEF vars
<1>15. QED
  BY StepCases, <1>1, <1>2, <1>3, <1>4, <1>5, <1>6, <1>7, <1>8, <1>9, <1>10, <1>11,
     <1>12, <1>13, <1>14

LEMMA AlwaysClaimed == Spec => []Claimed
  BY AlwaysTyped, ClaimedInit, ClaimedNext, PTL DEF Spec

(* No two workers ever run the same job. *)
THEOREM MutualExclusion == Spec => []OneWorkerPerJob
<1>1. Claimed => OneWorkerPerJob
  BY DEF Claimed
<1>2. QED BY AlwaysClaimed, <1>1, PTL

(***************************************************************************)
(* Starts.  A start is paid for in advance: by the push, by the retry the  *)
(* handler asked for, or by the restart that put the row back.             *)
(***************************************************************************)
LEMMA StartInit == Init => StartInHand
  BY DEF Init, StartInHand

LEMMA StartNext == Typed /\ Claimed /\ StartInHand /\ [Next]_vars => StartInHand'
<1> SUFFICES ASSUME Typed, Claimed, StartInHand, [Next]_vars PROVE StartInHand'
  OBVIOUS
<1> USE DEF Typed, TypeOK, StartInHand
<1>1. CASE Start
  BY <1>1 DEF Start, RequeueRunningJobs, ToRequeue
<1>2. CASE Stop
  BY <1>2 DEF Stop, table, history
<1>3. CASE Exit
  BY <1>3 DEF Exit, Forget, table, history
<1>4. CASE Crash
  BY <1>4 DEF Crash, Forget, table, history
<1>5. ASSUME NEW k \in Kind, Push(k) PROVE StartInHand'
  <2>0. next \in Id /\ panel # "down"
    BY <1>5 DEF Push
  <2>1. /\ attempts[next] = 0 /\ retried[next] \in Nat
        /\ boots \in Nat /\ boots > 0
    BY <2>0 DEF JobInHand, Id
  <2>2. \A j \in Id : j # next => status'[j] = status[j]
    BY <1>5 DEF Push
  <2>3. UNCHANGED <<attempts, retried, boots, panel>>
    BY <1>5 DEF Push, history
  <2>4. QED BY <2>0, <2>1, <2>2, <2>3
<1>6. ASSUME NEW j \in Id, BecomeDue(j) PROVE StartInHand'
  BY <1>6 DEF BecomeDue, history
<1>7. ASSUME NEW w \in Worker, Select(w) PROVE StartInHand'
  BY <1>7 DEF Select, table, history
<1>8. ASSUME NEW w \in Worker, Reserve(job[w]), StillQueued(job[w]), job[w] \in Id
      PROVE  \A j \in Id : /\ attempts'[j] <= retried[j] + boots
                           /\ status'[j] = "queued" => attempts'[j] < retried[j] + boots
  BY <1>8 DEF StillQueued, Reserve
<1>9. ASSUME NEW w \in Worker, Claim(w) PROVE StartInHand'
  <2>1. job[w] \in Id
    BY <1>9 DEF Claim, JobInHand, Busy
  <2>2. UNCHANGED <<retried, boots, panel>>
    BY <1>9 DEF Claim, history
  <2>3. CASE StillQueued(job[w])
    BY <1>8, <1>9, <2>1, <2>2, <2>3 DEF Claim
  <2>4. CASE ~StillQueued(job[w])
    BY <1>9, <2>2, <2>4 DEF Claim
  <2>5. QED BY <2>3, <2>4
<1>10. ASSUME NEW w \in Worker, ClaimCancelled(w) PROVE StartInHand'
  <2>1. job[w] \in Id
    BY <1>10 DEF ClaimCancelled, JobInHand, Busy
  <2>2. UNCHANGED <<retried, boots, panel>>
    BY <1>10 DEF ClaimCancelled, history
  <2>3. CASE StillQueued(job[w]) /\ Reserve(job[w])
    BY <1>8, <2>1, <2>2, <2>3
  <2>4. CASE UNCHANGED <<status, attempts>>
    BY <2>2, <2>4
  <2>5. QED BY <1>10, <2>3, <2>4 DEF ClaimCancelled
<1>11. ASSUME NEW w \in Worker, Return(w) PROVE StartInHand'
  BY <1>11 DEF Return, table, history
<1>12. ASSUME NEW w \in Worker, Record(w) PROVE StartInHand'
  <2>1. job[w] \in Id /\ UNCHANGED <<attempts, boots, panel>>
    BY <1>12 DEF Record, JobInHand, Busy
  <2>2. CASE FinishJob(job[w])
    BY <2>1, <2>2 DEF FinishJob
  <2>3. CASE RetryJob(job[w])
    BY <2>1, <2>3 DEF RetryJob
  <2>4. CASE FailJob(job[w], outcome[w])
    BY <2>1, <2>4 DEF FailJob
  <2>5. QED BY <1>12, <2>2, <2>3, <2>4 DEF Record
<1>13. ASSUME NEW w \in Worker, RecordLost(w) PROVE StartInHand'
  BY <1>13 DEF RecordLost, table
<1>14. ASSUME NEW w \in Worker, Quit(w) PROVE StartInHand'
  BY <1>14 DEF Quit, table, history
<1>15. CASE UNCHANGED vars
  BY <1>15 DEF vars
<1>16. QED
  BY StepCases, <1>1, <1>2, <1>3, <1>4, <1>5, <1>6, <1>7, <1>9, <1>10, <1>11,
     <1>12, <1>13, <1>14, <1>15

(* A job is started once, plus once for each retry it asked for and each    *)
(* restart of the panel.                                                    *)
THEOREM StartsAccountedFor == Spec => []EveryStartAccountedFor
<1>1. StartInHand => EveryStartAccountedFor
  BY DEF StartInHand, EveryStartAccountedFor
<1>2. QED BY AlwaysTyped, AlwaysClaimed, StartInit, StartNext, <1>1, PTL DEF Spec

(***************************************************************************)
(* Rows and workers agree: while the panel is up and no outcome write was  *)
(* lost, every "running" row has a worker.                                 *)
(***************************************************************************)
LEMMA RowsInit == Init => RowsMatchWorkers
  BY DEF Init, RowsMatchWorkers, Holds

LEMMA RowsNext == Typed /\ Claimed /\ RowsMatchWorkers /\ [Next]_vars => RowsMatchWorkers'
<1> SUFFICES ASSUME Typed, Claimed, RowsMatchWorkers, Claimed', [Next]_vars
             PROVE  RowsMatchWorkers'
  BY ClaimedNext
<1>0. \A w \in Worker, j \in Id : Holds(w, j)' => status'[j] = "running"
  BY DEF Claimed, Holds
<1> DEFINE Up(pn, l) == pn = "up" /\ l = 0
<1> SUFFICES ASSUME Up(panel', lost'), NEW i \in Id, status'[i] = "running"
             PROVE  \E v \in Worker : Holds(v, i)'
  BY <1>0 DEF RowsMatchWorkers
<1> USE DEF Typed, TypeOK, RowsMatchWorkers, Holds
<1>1. CASE Start
  BY <1>1 DEF Start, RequeueRunningJobs, ToRequeue
<1>2. CASE Stop
  BY <1>2 DEF Stop
<1>3. CASE Exit
  BY <1>3 DEF Exit, Forget
<1>4. CASE Crash
  BY <1>4 DEF Crash, Forget
<1>5. ASSUME NEW k \in Kind, Push(k) PROVE \E v \in Worker : Holds(v, i)'
  BY <1>5 DEF Push, workers, history
<1>6. ASSUME NEW j \in Id, BecomeDue(j) PROVE \E v \in Worker : Holds(v, i)'
  BY <1>6 DEF BecomeDue, workers, history
<1>7. ASSUME NEW w \in Worker, Select(w) PROVE \E v \in Worker : Holds(v, i)'
  <2>1. /\ pc[w] = "idle" /\ UNCHANGED <<status, panel, lost>>
        /\ \A v \in Worker : v # w => pc'[v] = pc[v] /\ job'[v] = job[v]
    BY <1>7 DEF Select, Candidates, table, history
  <2>2. QED BY <2>1
<1>8. ASSUME NEW w \in Worker, Claim(w) PROVE \E v \in Worker : Holds(v, i)'
  <2>1. job[w] \in Id /\ pc[w] = "selected" /\ UNCHANGED <<panel, lost>>
    BY <1>8 DEF Claim, history, JobInHand, Busy
  <2>2. CASE StillQueued(job[w])
    <3>1. /\ pc' = [pc EXCEPT ![w] = "running"] /\ UNCHANGED job
          /\ \A j \in Id : j # job[w] => status'[j] = status[j]
      BY <1>8, <2>2 DEF Claim, Reserve
    <3>2. CASE i = job[w]
      BY <3>1, <3>2
    <3>3. CASE i # job[w]
      BY <2>1, <3>1, <3>3
    <3>4. QED BY <3>2, <3>3
  <2>3. CASE ~StillQueued(job[w])
    BY <1>8, <2>1, <2>3 DEF Claim, Sleep
  <2>4. QED BY <2>2, <2>3
<1>9. ASSUME NEW w \in Worker, ClaimCancelled(w) PROVE \E v \in Worker : Holds(v, i)'
  BY <1>9 DEF ClaimCancelled
<1>10. ASSUME NEW w \in Worker, Return(w) PROVE \E v \in Worker : Holds(v, i)'
  BY <1>10 DEF Return, table, history
<1>11. ASSUME NEW w \in Worker, Record(w) PROVE \E v \in Worker : Holds(v, i)'
  <2>1. /\ job[w] \in Id /\ UNCHANGED <<panel, lost>>
        /\ \A v \in Worker : v # w => pc'[v] = pc[v] /\ job'[v] = job[v]
    BY <1>11 DEF Record, Free, JobInHand, Busy
  <2>2. /\ status'[job[w]] # "running"
        /\ \A j \in Id : j # job[w] => status'[j] = status[j]
    BY <1>11, <2>1 DEF Record, FinishJob, RetryJob, FailJob
  <2>3. QED BY <2>1, <2>2
<1>12. ASSUME NEW w \in Worker, RecordLost(w) PROVE \E v \in Worker : Holds(v, i)'
  BY <1>12 DEF RecordLost
<1>13. ASSUME NEW w \in Worker, Quit(w) PROVE \E v \in Worker : Holds(v, i)'
  BY <1>13 DEF Quit
<1>14. CASE UNCHANGED vars
  BY <1>14 DEF vars
<1>15. QED
  BY StepCases, <1>1, <1>2, <1>3, <1>4, <1>5, <1>6, <1>7, <1>8, <1>9, <1>10, <1>11,
     <1>12, <1>13, <1>14

(* No row is left "running" without a worker while the panel is up, unless   *)
(* the write of an outcome was lost.                                         *)
THEOREM NoStrandedRow == Spec => []RowsMatchWorkers
  BY AlwaysTyped, AlwaysClaimed, RowsInit, RowsNext, PTL DEF Spec

(***************************************************************************)
(* Ended work stays as it ended: a step of whichever worker, retry or      *)
(* restart leaves the row of a finished or failed job alone.               *)
(***************************************************************************)
EndedStep == \A j \in Id : status[j] \in {"done", "failed"} =>
                /\ status'[j] = status[j]
                /\ attempts'[j] = attempts[j]
                /\ error'[j] = error[j]

LEMMA EndedNext == Typed /\ Claimed /\ [Next]_vars => EndedStep
<1> SUFFICES ASSUME Typed, Claimed, [Next]_vars,
                    NEW i \in Id, status[i] \in {"done", "failed"}
             PROVE  status'[i] = status[i] /\ attempts'[i] = attempts[i] /\ error'[i] = error[i]
  BY DEF EndedStep
<1> USE DEF Typed, TypeOK
<1>1. CASE Start
  BY <1>1 DEF Start, RequeueRunningJobs, ToRequeue
<1>2. CASE Stop \/ Exit \/ Crash
  BY <1>2 DEF Stop, Exit, Crash, table
<1>3. ASSUME NEW k \in Kind, Push(k) PROVE status'[i] = status[i] /\ UNCHANGED <<attempts, error>>
  <2>1. i # next
    BY <1>3 DEF Push, JobInHand, Id
  <2>2. QED BY <1>3, <2>1 DEF Push
<1>4. ASSUME NEW j \in Id, BecomeDue(j) PROVE UNCHANGED <<status, attempts, error>>
  BY <1>4 DEF BecomeDue
<1>5. ASSUME NEW w \in Worker, Select(w) \/ Return(w) \/ RecordLost(w) \/ Quit(w)
      PROVE  UNCHANGED <<status, attempts, error>>
  BY <1>5 DEF Select, Return, RecordLost, Quit, table
<1>6. ASSUME NEW w \in Worker, Claim(w) \/ ClaimCancelled(w)
      PROVE  status'[i] = status[i] /\ attempts'[i] = attempts[i] /\ error'[i] = error[i]
  <2>1. job[w] \in Id /\ UNCHANGED error
    BY <1>6 DEF Claim, ClaimCancelled, JobInHand, Busy
  <2>2. \/ StillQueued(job[w]) /\ Reserve(job[w])
        \/ UNCHANGED <<status, attempts>>
    BY <1>6 DEF Claim, ClaimCancelled
  <2>3. QED BY <2>1, <2>2 DEF StillQueued, Reserve
<1>7. ASSUME NEW w \in Worker, Record(w)
      PROVE  status'[i] = status[i] /\ attempts'[i] = attempts[i] /\ error'[i] = error[i]
  <2>1. job[w] \in Id /\ job[w] # i /\ UNCHANGED attempts
    BY <1>7 DEF Record, JobInHand, Busy, Claimed
  <2>2. QED BY <1>7, <2>1 DEF Record, FinishJob, RetryJob, FailJob
<1>8. CASE UNCHANGED vars
  BY <1>8 DEF vars
<1>9. QED
  BY StepCases, <1>1, <1>2, <1>3, <1>4, <1>5, <1>6, <1>7, <1>8

(* Finished and failed work is never touched again. *)
THEOREM EndedForGood == Spec => EndedStaysEnded
<1>1. Typed /\ Claimed /\ [Next]_vars => [EndedStep]_vars
  BY EndedNext
<1>2. Spec => [][EndedStep]_vars
  BY AlwaysTyped, AlwaysClaimed, <1>1, PTL DEF Spec
<1>3. QED BY <1>2 DEF EndedStep, EndedStaysEnded

(***************************************************************************)
(* What was read stays true.  The row a worker selected can be claimed and *)
(* put back, later and with other attempts, before the worker's own claim: *)
(* but only a quick kind is ever put back with a delay, and the one worker *)
(* of the quick lane cannot be looking at the row meanwhile.               *)
(***************************************************************************)
\* What a worker read of the row it is about to claim, or has, is still so.
Fresh(w) == (\/ pc[w] = "selected" /\ status[job[w]] = "queued"
             \/ pc[w] \in {"running", "ending"})
                 => due[job[w]] /\ read[w] = attempts[job[w]]

\* A worker stays in its lane, and retries only what it is registered to retry.
InLane(w) == pc[w] \in Busy => kind[job[w]] \in Lane(w)
MayAnswerRetry(w) == pc[w] = "ending" /\ outcome[w] = "retry" =>
                        kind[job[w]] \in RetryKind \cap handlers

LEMMA ReadParts == ReadStillTrue <=> \A w \in Worker : InLane(w) /\ MayAnswerRetry(w) /\ Fresh(w)
  BY DEF ReadStillTrue, InLane, MayAnswerRetry, Fresh

LEMMA ReadPartsNext ==
    ReadStillTrue' <=> \A w \in Worker : InLane(w)' /\ MayAnswerRetry(w)' /\ Fresh(w)'
  BY DEF ReadStillTrue, InLane, MayAnswerRetry, Fresh

\* Only the quick lane's worker can have a job whose handler asks for a retry.
LEMMA RetriesAreQuick ==
    ASSUME NEW w \in Worker, kind[job[w]] \in Lane(w),
           kind[job[w]] \in RetryKind \cap handlers
    PROVE  w = Quick
  BY ConstantsAssumption DEF Lane

LEMMA ReadInit == Init => ReadStillTrue
  BY DEF Init, ReadStillTrue, Busy

\* A worker that is not busy after the step has nothing to answer for, and one
\* that the step leaves alone is judged by the columns of its row.
LEMMA IdleIsFresh ==
    ASSUME NEW w \in Worker, pc'[w] \notin Busy
    PROVE  InLane(w)' /\ MayAnswerRetry(w)' /\ Fresh(w)'
  BY DEF InLane, MayAnswerRetry, Fresh, Busy

LEMMA LeftAlone ==
    ASSUME NEW w \in Worker, InLane(w), MayAnswerRetry(w), Fresh(w),
           pc'[w] = pc[w], job'[w] = job[w], read'[w] = read[w], outcome'[w] = outcome[w],
           handlers' = handlers,
           pc[w] \in Busy =>
              /\ kind'[job[w]] = kind[job[w]]
              /\ \/ /\ status'[job[w]] = "queued" => status[job[w]] = "queued"
                    /\ due[job[w]] => due'[job[w]]
                    /\ attempts'[job[w]] = attempts[job[w]]
                 \/ pc[w] = "selected" /\ status'[job[w]] # "queued"
    PROVE  InLane(w)' /\ MayAnswerRetry(w)' /\ Fresh(w)'
<1>1. InLane(w)'
  BY DEF InLane, Lane
<1>2. MayAnswerRetry(w)'
  BY DEF MayAnswerRetry, Busy
<1>3. Fresh(w)'
  BY DEF Fresh, Busy
<1>4. QED BY <1>1, <1>2, <1>3

LEMMA ReadNext == Typed /\ Claimed /\ ReadStillTrue /\ [Next]_vars => ReadStillTrue'
<1> SUFFICES ASSUME Typed, Claimed, ReadStillTrue, [Next]_vars,
                    NEW v \in Worker
             PROVE  InLane(v)' /\ MayAnswerRetry(v)' /\ Fresh(v)'
  BY ReadPartsNext
<1> USE DEF Typed, TypeOK
<1>0. InLane(v) /\ MayAnswerRetry(v) /\ Fresh(v)
  BY ReadParts
<1>1. CASE Start
  <2>1. pc'[v] \notin Busy
    BY <1>1 DEF Start, Busy
  <2>2. QED BY <2>1, IdleIsFresh
<1>2. CASE Stop
  BY <1>0, <1>2, LeftAlone DEF Stop, table, workers, history
<1>3. CASE Exit \/ Crash
  <2>1. pc'[v] \notin Busy
    BY <1>3 DEF Exit, Crash, Forget, Busy
  <2>2. QED BY <2>1, IdleIsFresh
<1>4. ASSUME NEW k \in Kind, Push(k) PROVE InLane(v)' /\ MayAnswerRetry(v)' /\ Fresh(v)'
  <2>1. pc[v] \in Busy => job[v] # next
    BY DEF JobInHand, Id
  <2>2. pc[v] \in Busy => /\ kind'[job[v]] = kind[job[v]]
                          /\ status'[job[v]] = status[job[v]]
    BY <1>4, <2>1 DEF Push
  <2>3. UNCHANGED <<due, attempts, handlers, pc, job, read, outcome>>
    BY <1>4 DEF Push, workers
  <2>4. QED BY <1>0, <2>2, <2>3, LeftAlone
<1>5. ASSUME NEW j \in Id, BecomeDue(j) PROVE InLane(v)' /\ MayAnswerRetry(v)' /\ Fresh(v)'
  <2>1. pc[v] \in Busy => (due[job[v]] => due'[job[v]])
    BY <1>5 DEF BecomeDue, JobInHand
  <2>2. UNCHANGED <<status, kind, attempts, handlers, pc, job, read, outcome>>
    BY <1>5 DEF BecomeDue, workers
  <2>3. QED BY <1>0, <2>1, <2>2, LeftAlone
<1>6. ASSUME NEW w \in Worker, Select(w) PROVE InLane(v)' /\ MayAnswerRetry(v)' /\ Fresh(v)'
  <2>1. CASE v # w
    BY <1>0, <1>6, <2>1, LeftAlone DEF Select, table, history
  <2>2. CASE v = w
    <3>1. /\ job'[w] \in Candidates(w) /\ read'[w] = attempts[job'[w]]
          /\ pc'[w] = "selected"
          /\ UNCHANGED <<status, kind, due, attempts, handlers>>
      BY <1>6 DEF Select, table, Candidates
    <3>2. InLane(w)'
      BY <3>1 DEF InLane, Candidates, Lane
    <3>3. MayAnswerRetry(w)'
      BY <3>1 DEF MayAnswerRetry
    <3>4. Fresh(w)'
      BY <3>1 DEF Fresh, Candidates
    <3>5. QED BY <2>2, <3>2, <3>3, <3>4
  <2>3. QED BY <2>1, <2>2
<1>7. ASSUME NEW w \in Worker, v # w, job[w] \in Id, StillQueued(job[w]), Reserve(job[w]),
             UNCHANGED <<kind, due, handlers>>,
             pc'[v] = pc[v], job'[v] = job[v], read'[v] = read[v], outcome'[v] = outcome[v]
      PROVE  InLane(v)' /\ MayAnswerRetry(v)' /\ Fresh(v)'
  <2>1. CASE pc[v] \notin Busy
    BY <1>7, <2>1, IdleIsFresh
  <2>2. CASE pc[v] \in Busy /\ job[v] # job[w]
    <3>1. job[v] \in Id
      BY <2>2 DEF JobInHand
    <3>2. status'[job[v]] = status[job[v]] /\ attempts'[job[v]] = attempts[job[v]]
      BY <1>7, <2>2, <3>1 DEF Reserve
    <3>3. QED BY <1>0, <1>7, <2>2, <3>2, LeftAlone
  <2>3. CASE pc[v] \in Busy /\ job[v] = job[w]
    <3>1. pc[v] = "selected"
      BY <1>7, <2>3 DEF Claimed, StillQueued, Busy
    <3>2. status'[job[v]] = "running"
      BY <1>7, <2>3 DEF Reserve
    <3>3. QED BY <1>0, <1>7, <3>1, <3>2, LeftAlone
  <2>4. QED BY <2>1, <2>2, <2>3
<1>8. ASSUME NEW w \in Worker, Claim(w) PROVE InLane(v)' /\ MayAnswerRetry(v)' /\ Fresh(v)'
  <2>0. job[w] \in Id /\ pc[w] = "selected" /\ UNCHANGED <<kind, due, handlers, outcome>>
    BY <1>8 DEF Claim, JobInHand, Busy
  <2>1. CASE StillQueued(job[w])
    <3>1. /\ Reserve(job[w]) /\ UNCHANGED job
          /\ pc' = [pc EXCEPT ![w] = "running"] /\ read' = [read EXCEPT ![w] = @ + 1]
      BY <1>8, <2>1 DEF Claim
    <3>2. CASE v # w
      BY <1>7, <2>0, <2>1, <3>1, <3>2
    <3>3. CASE v = w
      <4>1. InLane(w) /\ Fresh(w)
        BY <1>0, <3>3
      <4>2. InLane(w)'
        BY <2>0, <3>1, <4>1 DEF InLane, Lane, Busy
      <4>3. MayAnswerRetry(w)'
        BY <3>1 DEF MayAnswerRetry
      <4>4. due[job[w]] /\ read[w] = attempts[job[w]]
        BY <2>0, <2>1, <4>1 DEF Fresh, StillQueued
      <4>5. read'[w] = read[w] + 1 /\ attempts'[job[w]] = attempts[job[w]] + 1
        BY <2>0, <3>1 DEF Reserve
      <4>6. Fresh(w)'
        BY <2>0, <3>1, <4>4, <4>5 DEF Fresh
      <4>7. QED BY <3>3, <4>2, <4>3, <4>6
    <3>4. QED BY <3>2, <3>3
  <2>2. CASE ~StillQueued(job[w])
    <3>1. Sleep(w) /\ UNCHANGED <<status, attempts>>
      BY <1>8, <2>2 DEF Claim
    <3>2. CASE v # w
      BY <1>0, <2>0, <3>1, <3>2, LeftAlone DEF Sleep
    <3>3. CASE v = w
      BY <3>1, <3>3, IdleIsFresh DEF Sleep, Busy
    <3>4. QED BY <3>2, <3>3
  <2>3. QED BY <2>1, <2>2
<1>9. ASSUME NEW w \in Worker, ClaimCancelled(w)
      PROVE  InLane(v)' /\ MayAnswerRetry(v)' /\ Fresh(v)'
  <2>0. /\ job[w] \in Id /\ Sleep(w) /\ UNCHANGED <<kind, due, handlers, outcome>>
        /\ (StillQueued(job[w]) /\ Reserve(job[w])) \/ UNCHANGED <<status, attempts>>
    BY <1>9 DEF ClaimCancelled, JobInHand, Busy
  <2>1. CASE v = w
    BY <2>0, <2>1, IdleIsFresh DEF Sleep, Busy
  <2>2. CASE v # w
    <3>1. pc'[v] = pc[v] /\ job'[v] = job[v] /\ read'[v] = read[v] /\ outcome'[v] = outcome[v]
      BY <2>0, <2>2 DEF Sleep
    <3>2. CASE StillQueued(job[w]) /\ Reserve(job[w])
      BY <1>7, <2>0, <2>2, <3>1, <3>2
    <3>3. CASE UNCHANGED <<status, attempts>>
      BY <1>0, <2>0, <3>1, <3>3, LeftAlone
    <3>4. QED BY <2>0, <3>2, <3>3
  <2>3. QED BY <2>1, <2>2
<1>10. ASSUME NEW w \in Worker, Return(w) PROVE InLane(v)' /\ MayAnswerRetry(v)' /\ Fresh(v)'
  <2>0. /\ pc[w] = "running" /\ pc' = [pc EXCEPT ![w] = "ending"]
        /\ UNCHANGED <<status, kind, due, attempts, handlers, job, read>>
        /\ \E o \in Returns(w) : outcome' = [outcome EXCEPT ![w] = o]
    BY <1>10 DEF Return, table
  <2>1. CASE v # w
    BY <1>0, <2>0, <2>1, LeftAlone
  <2>2. CASE v = w
    <3>1. "retry" \in Returns(w) => kind[job[w]] \in RetryKind \cap handlers
      BY DEF Returns
    <3>2. outcome'[w] \in Returns(w)
      BY <2>0
    <3>3. MayAnswerRetry(w)'
      BY <2>0, <3>1, <3>2 DEF MayAnswerRetry
    <3>4. InLane(w)' /\ Fresh(w)'
      BY <1>0, <2>0, <2>2 DEF InLane, Fresh, Lane, Busy
    <3>5. QED BY <2>2, <3>3, <3>4
  <2>3. QED BY <2>1, <2>2
<1>11. ASSUME NEW w \in Worker, Record(w) PROVE InLane(v)' /\ MayAnswerRetry(v)' /\ Fresh(v)'
  <2>0. /\ pc[w] = "ending" /\ job[w] \in Id /\ Free(w)
        /\ UNCHANGED <<kind, attempts, handlers>>
    BY <1>11 DEF Record, JobInHand, Busy
  <2>1. CASE v = w
    <3>1. pc'[w] \notin Busy
      BY <2>0 DEF Free, Busy
    <3>2. QED BY <2>1, <3>1, IdleIsFresh
  <2>2. CASE v # w
    <3>1. pc'[v] = pc[v] /\ job'[v] = job[v] /\ read'[v] = read[v] /\ outcome'[v] = outcome[v]
      BY <2>0, <2>2 DEF Free
    <3>2. CASE pc[v] \notin Busy
      BY <3>1, <3>2, IdleIsFresh
    <3>3. CASE pc[v] \in Busy /\ job[v] # job[w]
      <4>1. job[v] \in Id
        BY <3>3 DEF JobInHand
      <4>2. status'[job[v]] = status[job[v]] /\ due'[job[v]] = due[job[v]]
        BY <1>11, <2>0, <3>3, <4>1 DEF Record, FinishJob, RetryJob, FailJob
      <4>3. QED BY <1>0, <2>0, <3>1, <4>2, LeftAlone
    <3>4. CASE pc[v] \in Busy /\ job[v] = job[w]
      <4>1. pc[v] = "selected"
        BY <2>0, <2>2, <3>4 DEF Claimed, OneWorkerPerJob, Holds, Busy
      <4>2. InLane(w) /\ MayAnswerRetry(w)
        BY ReadParts
      <4>3. outcome[w] # "retry"
        <5> SUFFICES ASSUME outcome[w] = "retry" PROVE FALSE
          OBVIOUS
        <5>1. kind[job[w]] \in RetryKind \cap handlers /\ kind[job[w]] \in Lane(w)
          BY <2>0, <4>2 DEF InLane, MayAnswerRetry, Busy
        <5>2. w = Quick
          BY <5>1, RetriesAreQuick
        <5>3. kind[job[v]] \in Lane(v)
          BY <1>0, <3>4 DEF InLane
        <5>4. v = Quick
          BY <3>4, <5>1, <5>3, RetriesAreQuick
        <5>5. QED BY <2>2, <5>2, <5>4
      <4>4. status'[job[v]] # "queued"
        BY <1>11, <2>0, <3>4, <4>3 DEF Record, FinishJob, FailJob
      <4>5. QED BY <1>0, <2>0, <3>1, <4>1, <4>4, LeftAlone
    <3>5. QED BY <3>2, <3>3, <3>4
  <2>3. QED BY <2>1, <2>2
<1>12. ASSUME NEW w \in Worker, RecordLost(w) PROVE InLane(v)' /\ MayAnswerRetry(v)' /\ Fresh(v)'
  <2>1. CASE v = w
    <3>1. pc'[w] \notin Busy
      BY <1>12 DEF RecordLost, Free, Busy
    <3>2. QED BY <2>1, <3>1, IdleIsFresh
  <2>2. CASE v # w
    BY <1>0, <1>12, <2>2, LeftAlone DEF RecordLost, Free, table
  <2>3. QED BY <2>1, <2>2
<1>13. ASSUME NEW w \in Worker, Quit(w) PROVE InLane(v)' /\ MayAnswerRetry(v)' /\ Fresh(v)'
  <2>1. CASE v = w
    BY <1>13, <2>1, IdleIsFresh DEF Quit, Busy
  <2>2. CASE v # w
    BY <1>0, <1>13, <2>2, LeftAlone DEF Quit, table, history
  <2>3. QED BY <2>1, <2>2
<1>14. CASE UNCHANGED vars
  BY <1>0, <1>14, LeftAlone DEF vars
<1>15. QED
  BY StepCases, <1>1, <1>2, <1>3, <1>4, <1>5, <1>6, <1>8, <1>9, <1>10, <1>11,
     <1>12, <1>13, <1>14

(* The whole of the invariant that the properties rest on. *)
THEOREM QueueCorrect == Spec => []QueueInv
<1>1. Typed /\ Claimed /\ StartInHand /\ ReadStillTrue => QueueInv
  BY DEF Typed, QueueInv
<1>2. Spec => []ReadStillTrue
  BY AlwaysTyped, AlwaysClaimed, ReadInit, ReadNext, PTL DEF Spec
<1>3. Spec => []StartInHand
  BY AlwaysTyped, AlwaysClaimed, StartInit, StartNext, PTL DEF Spec
<1>4. QED BY AlwaysTyped, AlwaysClaimed, <1>1, <1>2, <1>3, PTL

(* What a worker read when it selected a job is still so when it runs it:   *)
(* the attempts the e-mail handler uses are the row's, and no job runs      *)
(* before it is due.                                                        *)
THEOREM NothingStale == Spec => []NoStaleClaim
<1>1. QueueInv => NoStaleClaim
  BY DEF QueueInv, ReadStillTrue, NoStaleClaim, Holds
<1>2. QED BY QueueCorrect, <1>1, PTL

---------------------------------------------------------------------------
(***************************************************************************)
(* JobQueue implements WorkQueue: every step of the table, the workers and *)
(* the process is a step of the abstract queue or leaves it as it is.      *)
(*                                                                         *)
(* What makes it true is Claimed: whoever holds a job holds it alone and   *)
(* its row says running, so that a row goes from queued to running exactly *)
(* when a worker takes the job, and a holder's write is about its own row. *)
(***************************************************************************)
\* The two variables of WorkQueue.
Doing(w) == {j \in Id : Holds(w, j)}
State == [j \in Id |-> AbstractState(j)]
Hands == [w \in Worker |-> Doing(w)]

(***************************************************************************)
(* The mapping, read off the columns.                                      *)
(***************************************************************************)
\* The abstract state of a job is a function of its status and of whether a
\* worker has it.
LEMMA StateOf ==
    ASSUME NEW j \in Id
    PROVE  /\ status[j] = "absent" => AbstractState(j) = "new"
           /\ status[j] = "queued" => AbstractState(j) = "waiting"
           /\ status[j] = "running" /\ Held(j) => AbstractState(j) = "active"
           /\ status[j] = "running" /\ ~Held(j) => AbstractState(j) = "abandoned"
           /\ status[j] = "failed" => AbstractState(j) = "failed"
           /\ status[j] = "done" => AbstractState(j) = "finished"
  BY DEF AbstractState

LEMMA StateOfNext ==
    ASSUME NEW j \in Id
    PROVE  /\ status'[j] = "absent" => AbstractState(j)' = "new"
           /\ status'[j] = "queued" => AbstractState(j)' = "waiting"
           /\ status'[j] = "running" /\ Held(j)' => AbstractState(j)' = "active"
           /\ status'[j] = "running" /\ ~Held(j)' => AbstractState(j)' = "abandoned"
           /\ status'[j] = "failed" => AbstractState(j)' = "failed"
           /\ status'[j] = "done" => AbstractState(j)' = "finished"
  BY DEF AbstractState

\* So a job that keeps both keeps its abstract state.
LEMMA StateKept ==
    ASSUME NEW j \in Id, status'[j] = status[j], Held(j)' <=> Held(j)
    PROVE  AbstractState(j)' = AbstractState(j)
  BY DEF AbstractState

\* A worker past its claim has its own job in hand and no other.
LEMMA HandsFull ==
    ASSUME Typed, NEW w \in Worker, pc[w] \in {"running", "ending"}
    PROVE  job[w] \in Id /\ Doing(w) = {job[w]}
  BY DEF Typed, JobInHand, Busy, Doing, Holds

LEMMA HandsEmpty ==
    ASSUME NEW w \in Worker, pc[w] \notin {"running", "ending"}
    PROVE  Doing(w) = {}
  BY DEF Doing, Holds

LEMMA HandsEmptyNext ==
    ASSUME NEW w \in Worker, pc'[w] \notin {"running", "ending"}
    PROVE  Doing(w)' = {}
  BY DEF Doing, Holds

\* Who holds a job holds it alone, and its row says running.
LEMMA HolderAlone ==
    ASSUME Claimed, NEW v \in Worker, NEW w \in Worker, NEW j \in Id,
           Holds(v, j), Holds(w, j)
    PROVE  v = w
  BY DEF Claimed, OneWorkerPerJob

LEMMA HeldRuns ==
    ASSUME Claimed, NEW j \in Id, Held(j)
    PROVE  status[j] = "running"
  BY DEF Claimed, Held, Holds

\* A step that leaves every row's status and every worker's hold is a stutter.
LEMMA Stutters ==
    ASSUME \A j \in Id : status'[j] = status[j],
           \A w \in Worker, j \in Id : Holds(w, j)' <=> Holds(w, j)
    PROVE  UNCHANGED <<State, Hands>>
<1>1. \A j \in Id : Held(j)' <=> Held(j)
  BY DEF Held
<1>2. \A j \in Id : AbstractState(j)' = AbstractState(j)
  BY <1>1, StateKept
<1>3. \A w \in Worker : Doing(w)' = Doing(w)
  BY DEF Doing
<1>4. QED BY <1>2, <1>3 DEF State, Hands

\* One that changes the status or the holder of one job changes its abstract
\* state only.
LEMMA OneJobMoves ==
    ASSUME NEW j \in Id, NEW s, AbstractState(j)' = s,
           \A i \in Id \ {j} : status'[i] = status[i] /\ (Held(i)' <=> Held(i))
    PROVE  State' = [State EXCEPT ![j] = s]
<1>1. \A i \in Id \ {j} : AbstractState(i)' = AbstractState(i)
  BY StateKept
<1>2. QED BY <1>1 DEF State

\* A step of one worker that takes up or lays down one job: nobody else's hands
\* change, and the job is in hand afterwards if it is in this worker's.
LEMMA OneWorkerMoves ==
    ASSUME NEW w \in Worker, NEW j \in Id,
           \A v \in Worker \ {w} : pc'[v] = pc[v] /\ job'[v] = job[v],
           \A i \in Id \ {j} : ~Holds(w, i) /\ ~Holds(w, i)'
    PROVE  /\ \A v \in Worker \ {w}, i \in Id : Holds(v, i)' <=> Holds(v, i)
           /\ \A i \in Id \ {j} : Held(i)' <=> Held(i)
           /\ \A v \in Worker \ {w} : Doing(v)' = Doing(v)
           /\ \A h : Doing(w)' = h => Hands' = [Hands EXCEPT ![w] = h]
<1>1. \A v \in Worker \ {w}, i \in Id : Holds(v, i)' <=> Holds(v, i)
  BY DEF Holds
<1>2. \A i \in Id \ {j} : Held(i)' <=> Held(i)
  BY <1>1 DEF Held
<1>3. \A v \in Worker \ {w} : Doing(v)' = Doing(v)
  BY <1>1 DEF Doing
<1>4. ASSUME NEW h, Doing(w)' = h PROVE Hands' = [Hands EXCEPT ![w] = h]
  BY <1>3, <1>4 DEF Hands
<1>5. QED BY <1>1, <1>2, <1>3, <1>4

(***************************************************************************)
(* The actions of WorkQueue under the mapping.                             *)
(***************************************************************************)
LEMMA AbstractActions ==
    /\ \A j \in Id : State[j] = "new" /\ State' = [State EXCEPT ![j] = "waiting"]
                      /\ UNCHANGED Hands => Abstract!Next
    /\ \A j \in Id : State[j] = "waiting" /\ State' = [State EXCEPT ![j] = "abandoned"]
                      /\ UNCHANGED Hands => Abstract!Next
    /\ \A w \in Worker, j \in Id :
          State[j] = "waiting" /\ Hands[w] = {} /\ State' = [State EXCEPT ![j] = "active"]
          /\ Hands' = [Hands EXCEPT ![w] = {j}] => Abstract!Next
    /\ \A w \in Worker, j \in Id :
          Hands[w] = {j} /\ Hands' = [Hands EXCEPT ![w] = {}]
          /\ (\E s \in {"finished", "failed", "waiting", "abandoned"} :
                  State' = [State EXCEPT ![j] = s]) => Abstract!Next
  BY DEF State, Hands, Doing, Abstract!Next, Abstract!Submit, Abstract!Mislay,
         Abstract!Take, Abstract!Answer, Abstract!LetGo

(***************************************************************************)
(* Initially nothing is on the queue, and nobody has anything.             *)
(***************************************************************************)
LEMMA AbstractInit == Init => Abstract!Init
<1> SUFFICES ASSUME Init PROVE Abstract!Init
  OBVIOUS
<1>1. \A j \in Id : AbstractState(j) = "new"
  BY StateOf DEF Init
<1>2. \A w \in Worker : Doing(w) = {}
  BY HandsEmpty DEF Init
<1>3. QED BY <1>1, <1>2 DEF Abstract!Init, Doing

(***************************************************************************)
(* The steps.  Those of the claim and of the outcome move one job between  *)
(* the queue and one worker's hands.                                       *)
(***************************************************************************)
MappedStep == Abstract!Next \/ UNCHANGED <<State, Hands>>

LEMMA PushSubmits ==
    ASSUME Typed, Claimed, NEW k \in Kind, Push(k)
    PROVE  MappedStep
<1>1. PICK j \in Id : j = next
  BY DEF Push
<1>2. /\ status[j] = "absent" /\ status' = [status EXCEPT ![j] = "queued"]
      /\ UNCHANGED <<pc, job>>
  BY <1>1 DEF Push, workers, Typed, JobInHand, TypeOK, Id
<1>3. \A w \in Worker, i \in Id : Holds(w, i)' <=> Holds(w, i)
  BY <1>2 DEF Holds
<1>4. \A i \in Id : Held(i)' <=> Held(i)
  BY <1>3 DEF Held
<1>5. State[j] = "new" /\ AbstractState(j)' = "waiting"
  BY <1>2, StateOf, StateOfNext DEF State, Typed, TypeOK
<1>6. State' = [State EXCEPT ![j] = "waiting"]
  BY <1>2, <1>4, <1>5, OneJobMoves DEF Typed, TypeOK
<1>7. UNCHANGED Hands
  BY <1>3 DEF Hands, Doing
<1>8. QED BY <1>5, <1>6, <1>7, AbstractActions DEF MappedStep

\* A claim that succeeds takes the job; one that comes too late changes nothing.
LEMMA ClaimTakes ==
    ASSUME Typed, Claimed, NEW w \in Worker, Claim(w)
    PROVE  MappedStep
<1>0. PICK j \in Id : j = job[w]
  BY DEF Claim, Typed, JobInHand, Busy
<1>1. pc[w] = "selected" /\ Doing(w) = {}
  BY HandsEmpty DEF Claim
<1>2. CASE StillQueued(j)
  <2>1. /\ status[j] = "queued" /\ status' = [status EXCEPT ![j] = "running"]
        /\ pc' = [pc EXCEPT ![w] = "running"] /\ UNCHANGED job
    BY <1>0, <1>2 DEF Claim, StillQueued, Reserve
  <2>2. \A i \in Id : ~Holds(w, i) /\ (Holds(w, i)' <=> i = j)
    BY <1>0, <1>1, <2>1 DEF Holds, Typed, TypeOK
  <2>3. /\ \A i \in Id \ {j} : Held(i)' <=> Held(i)
        /\ Doing(w)' = {j} => Hands' = [Hands EXCEPT ![w] = {j}]
    BY <1>1, <2>1, <2>2, OneWorkerMoves DEF Typed, TypeOK
  <2>4. Held(j)' /\ Doing(w)' = {j}
    BY <1>1, <2>2 DEF Held, Doing
  <2>5. AbstractState(j)' = "active" /\ State[j] = "waiting"
    BY <1>1, <2>1, <2>4, StateOf, StateOfNext DEF State, Typed, TypeOK
  <2>6. State' = [State EXCEPT ![j] = "active"]
    BY <1>1, <2>1, <2>3, <2>5, OneJobMoves DEF Typed, TypeOK
  <2>7. Hands[w] = {} /\ Hands' = [Hands EXCEPT ![w] = {j}]
    BY <1>1, <2>3, <2>4 DEF Hands
  <2>8. QED BY <1>1, <2>5, <2>6, <2>7, AbstractActions DEF MappedStep
<1>3. CASE ~StillQueued(j)
  <2>1. /\ UNCHANGED status /\ pc' = [pc EXCEPT ![w] = "idle"]
        /\ \A v \in Worker \ {w} : job'[v] = job[v]
    BY <1>0, <1>3 DEF Claim, Sleep, StillQueued, Typed, TypeOK
  <2>2. \A v \in Worker, i \in Id : Holds(v, i)' <=> Holds(v, i)
    BY <1>1, <2>1 DEF Holds, Typed, TypeOK
  <2>3. QED BY <2>1, <2>2, Stutters DEF MappedStep
<1>4. QED BY <1>2, <1>3

\* One that is cancelled can take the row off the queue for nobody.
LEMMA CancelledMislays ==
    ASSUME Typed, Claimed, NEW w \in Worker, ClaimCancelled(w)
    PROVE  MappedStep
<1>0. PICK j \in Id : j = job[w]
  BY DEF ClaimCancelled, Typed, JobInHand, Busy
<1>1. /\ pc[w] = "selected" /\ pc' = [pc EXCEPT ![w] = "idle"]
      /\ \A v \in Worker \ {w} : job'[v] = job[v]
  BY DEF ClaimCancelled, Sleep, Typed, JobInHand, Busy
<1>2. \A v \in Worker, i \in Id : Holds(v, i)' <=> Holds(v, i)
  BY <1>1 DEF Holds, Typed, TypeOK
<1>3. CASE StillQueued(j) /\ Reserve(j)
  <2>1. status[j] = "queued" /\ status' = [status EXCEPT ![j] = "running"]
    BY <1>3 DEF StillQueued, Reserve
  <2>2. \A i \in Id : Held(i)' <=> Held(i)
    BY <1>2 DEF Held
  <2>3. ~Held(j)
    BY <1>1, <2>1, HeldRuns
  <2>4. AbstractState(j)' = "abandoned" /\ State[j] = "waiting"
    BY <1>1, <2>1, <2>2, <2>3, StateOf, StateOfNext DEF State, Typed, TypeOK
  <2>5. State' = [State EXCEPT ![j] = "abandoned"]
    BY <1>1, <2>1, <2>2, <2>4, OneJobMoves DEF Typed, TypeOK
  <2>6. UNCHANGED Hands
    BY <1>2 DEF Hands, Doing
  <2>7. QED BY <1>1, <2>4, <2>5, <2>6, AbstractActions DEF MappedStep
<1>4. CASE UNCHANGED <<status, attempts>>
  BY <1>2, <1>4, Stutters DEF MappedStep
<1>5. QED BY <1>0, <1>3, <1>4 DEF ClaimCancelled

\* Whatever is written, or not, the worker lays down the one job it had.
LEMMA LaysDown ==
    ASSUME Typed, Claimed, NEW w \in Worker, NEW j \in Id, j = job[w],
           pc[w] = "ending", Free(w),
           \A i \in Id \ {j} : status'[i] = status[i],
           status'[j] \in {"done", "queued", "failed", "running"}
    PROVE  MappedStep
<1>1. /\ Hands[w] = {j} /\ pc'[w] \in {"idle", "stopped"}
      /\ \A v \in Worker \ {w} : pc'[v] = pc[v] /\ job'[v] = job[v]
  BY HandsFull DEF Free, Hands, Typed, TypeOK
<1>2. \A i \in Id : (Holds(w, i) => i = j) /\ ~Holds(w, i)'
  BY <1>1 DEF Holds
<1>3. /\ \A v \in Worker \ {w}, i \in Id : Holds(v, i)' <=> Holds(v, i)
      /\ \A i \in Id \ {j} : Held(i)' <=> Held(i)
      /\ Doing(w)' = {} => Hands' = [Hands EXCEPT ![w] = {}]
  BY <1>1, <1>2, OneWorkerMoves
<1>4. Hands' = [Hands EXCEPT ![w] = {}]
  BY <1>1, <1>3, HandsEmptyNext
<1>5. ~Held(j)'
  <2>1. Holds(w, j)
    BY DEF Holds
  <2>2. \A v \in Worker \ {w} : ~Holds(v, j)
    BY <1>1, <2>1, HolderAlone
  <2>3. QED BY <1>1, <1>2, <1>3, <2>2 DEF Held
<1>6. PICK s \in {"finished", "failed", "waiting", "abandoned"} : AbstractState(j)' = s
  BY <1>1, <1>5, StateOfNext
<1>7. State' = [State EXCEPT ![j] = s]
  BY <1>1, <1>3, <1>6, OneJobMoves
<1>8. QED BY <1>1, <1>4, <1>7, AbstractActions DEF MappedStep

LEMMA OutcomeAnswers ==
    ASSUME Typed, Claimed, NEW w \in Worker, Record(w) \/ RecordLost(w)
    PROVE  MappedStep
<1>1. PICK j \in Id : j = job[w]
  BY DEF Record, RecordLost, Typed, JobInHand, Busy
<1>2. pc[w] = "ending" /\ Free(w)
  BY DEF Record, RecordLost
<1>3. status[j] = "running"
  BY <1>1, <1>2 DEF Claimed
<1>4. /\ \A i \in Id \ {j} : status'[i] = status[i]
      /\ status'[j] \in {"done", "queued", "failed", "running"}
  BY <1>1, <1>3 DEF Record, RecordLost, FinishJob, RetryJob, FailJob, table, Typed, TypeOK
<1>5. QED BY <1>1, <1>2, <1>4, LaysDown

(***************************************************************************)
(* The process.                                                            *)
(***************************************************************************)
\* A start takes up what was abandoned: a panel that is down has no workers.
LEMMA StartTakesUp ==
    ASSUME Typed, Claimed, Start
    PROVE  MappedStep
<1>1. \A w \in Worker, j \in Id : ~Holds(w, j) /\ ~Holds(w, j)'
  BY DEF Start, Claimed, Holds, Typed, TypeOK
<1>2. \A j \in Id : ~Held(j) /\ ~Held(j)'
  BY <1>1 DEF Held
<1>3. \A j \in Id : AbstractState(j)' = IF AbstractState(j) = "abandoned"
                                        THEN "waiting" ELSE AbstractState(j)
  <2> TAKE j \in Id
  <2>1. CASE status[j] = "running"
    <3>1. status'[j] = "queued"
      BY <2>1 DEF Start, RequeueRunningJobs, ToRequeue
    <3>2. QED BY <1>2, <2>1, <3>1, StateOf, StateOfNext
  <2>2. CASE status[j] # "running"
    <3>1. status'[j] = status[j] /\ status[j] \in Status
      BY <2>2 DEF Start, RequeueRunningJobs, ToRequeue, Typed, TypeOK
    <3>2. AbstractState(j)' = AbstractState(j)
      BY <1>2, <3>1, StateKept
    <3>3. AbstractState(j) # "abandoned"
      BY <2>2, <3>1, StateOf DEF Status
    <3>4. QED BY <3>2, <3>3
  <2>3. QED BY <2>1, <2>2
<1>4. \A w \in Worker : Doing(w) = {} /\ Doing(w)' = {}
  BY <1>1 DEF Doing
<1>5. Abstract!TakeUpAgain
  BY <1>3, <1>4 DEF Abstract!TakeUpAgain, Doing
<1>6. QED BY <1>5 DEF MappedStep, Abstract!Next

\* When the process dies every worker lets go of what it had.
LEMMA CrashLetsGo ==
    ASSUME Typed, Claimed, Crash
    PROVE  MappedStep
<1>1. \A w \in Worker, j \in Id : ~Holds(w, j)'
  BY DEF Crash, Forget, Holds
<1>2. \A j \in Id : status'[j] = status[j] /\ ~Held(j)'
  BY <1>1 DEF Crash, table, Held
<1>3. \A j \in Id : AbstractState(j)' = IF Held(j) THEN "abandoned" ELSE AbstractState(j)
  <2> TAKE j \in Id
  <2>1. CASE Held(j)
    BY <1>2, <2>1, HeldRuns, StateOfNext
  <2>2. CASE ~Held(j)
    BY <1>2, <2>2, StateKept
  <2>3. QED BY <2>1, <2>2
<1>4. \A w \in Worker : Doing(w)' = {}
  BY <1>1 DEF Doing
<1>5. \A j \in Id : (\E w \in Worker : j \in Doing(w)) <=> Held(j)
  BY DEF Doing, Held
<1>6. Abstract!LetGoAll
  BY <1>3, <1>4, <1>5 DEF Abstract!LetGoAll, Doing
<1>7. QED BY <1>6 DEF MappedStep, Abstract!Next

\* Everything else happens out of the abstract queue's sight.
LEMMA Unseen ==
    ASSUME Typed, Claimed,
           \/ Stop \/ Exit \/ UNCHANGED vars
           \/ \E j \in Id : BecomeDue(j)
           \/ \E w \in Worker : Select(w) \/ Return(w) \/ Quit(w)
    PROVE  MappedStep
<1>1. CASE Stop \/ UNCHANGED vars \/ \E j \in Id : BecomeDue(j)
  <2>1. UNCHANGED <<status, pc, job>>
    BY <1>1 DEF Stop, BecomeDue, table, workers, vars
  <2>2. QED BY <2>1, Stutters DEF Holds, MappedStep
<1>2. CASE Exit
  <2>1. UNCHANGED status /\ \A w \in Worker : pc[w] = "stopped" /\ pc'[w] = "stopped"
    BY <1>2 DEF Exit, Forget, AllStopped, table
  <2>2. QED BY <2>1, Stutters DEF Holds, MappedStep
<1>3. ASSUME NEW w \in Worker, Select(w) \/ Return(w) \/ Quit(w) PROVE MappedStep
  <2>1. /\ UNCHANGED status
        /\ \A v \in Worker \ {w} : pc'[v] = pc[v] /\ job'[v] = job[v]
        /\ pc'[w] \in {"running", "ending"} <=> pc[w] \in {"running", "ending"}
        /\ pc[w] \in {"running", "ending"} => job'[w] = job[w]
    BY <1>3 DEF Select, Return, Quit, table, Typed, TypeOK
  <2>2. QED BY <2>1, Stutters DEF Holds, MappedStep
<1>4. QED BY <1>1, <1>2, <1>3

LEMMA EveryStepMaps == Typed /\ Claimed /\ [Next]_vars => MappedStep
<1> SUFFICES ASSUME Typed, Claimed, [Next]_vars PROVE MappedStep
  OBVIOUS
<1>1. CASE Start
  BY <1>1, StartTakesUp
<1>2. CASE Crash
  BY <1>2, CrashLetsGo
<1>3. CASE \E k \in Kind : Push(k)
  BY <1>3, PushSubmits
<1>4. CASE \E w \in Worker : Claim(w)
  BY <1>4, ClaimTakes
<1>5. CASE \E w \in Worker : ClaimCancelled(w)
  BY <1>5, CancelledMislays
<1>6. CASE \E w \in Worker : Record(w) \/ RecordLost(w)
  BY <1>6, OutcomeAnswers
<1>7. CASE \/ Stop \/ Exit \/ UNCHANGED vars
           \/ \E j \in Id : BecomeDue(j)
           \/ \E w \in Worker : Select(w) \/ Return(w) \/ Quit(w)
  BY <1>7, Unseen
<1>8. QED BY <1>1, <1>2, <1>3, <1>4, <1>5, <1>6, <1>7, StepCases

(* The queue of internal/queue is what WorkQueue says a queue is, for any    *)
(* number of workers, jobs, binaries, retries, lost writes and restarts: the *)
(* components that push on it may be read against WorkQueue alone.           *)
THEOREM Implements == Spec => ImplementsWorkQueue
<1>1. MappedStep => [Abstract!Next]_(Abstract!vars)
  BY DEF MappedStep, State, Hands, Doing, Abstract!vars
<1>2. Typed /\ Claimed /\ [Next]_vars => [Abstract!Next]_(Abstract!vars)
  BY <1>1, EveryStepMaps
<1>3. Spec => Abstract!Spec
  BY AlwaysTyped, AlwaysClaimed, AbstractInit, <1>2, PTL DEF Spec, Abstract!Spec
<1>4. QED BY <1>3 DEF ImplementsWorkQueue
=============================================================================
