-------------------------- MODULE TaskRunnerProofs --------------------------
(***************************************************************************)
(* Machine-checked proofs about TaskRunner, for every step list, any set   *)
(* of tasks and groups, and any number of crashes and starts.              *)
(***************************************************************************)
EXTENDS TaskRunner, SequenceTheorems, FiniteSetTheorems, TLAPS

(***************************************************************************)
(* Marks and the progress they amount to.                                  *)
(***************************************************************************)
LEMMA MarkOne ==
    ASSUME NEW m \in Seq(StepStatus), NEW i \in 1..Len(m), NEW x \in StepStatus
    PROVE  /\ [m EXCEPT ![i] = x] \in Seq(StepStatus)
           /\ Len([m EXCEPT ![i] = x]) = Len(m)
           /\ \A k \in 1..Len(m) : [m EXCEPT ![i] = x][k] = IF k = i THEN x ELSE m[k]
  BY ExceptSeq

LEMMA OverIsFinite ==
    ASSUME NEW m \in Seq(StepStatus)
    PROVE  /\ IsFiniteSet(Over(m)) /\ Cardinality(Over(m)) \in Nat
           /\ Cardinality(Over(m)) <= Len(m)
           /\ (\A k \in 1..Len(m) : m[k] \in Final) => Cardinality(Over(m)) = Len(m)
<1>1. Len(m) \in Nat
  OBVIOUS
<1>2. IsFiniteSet(1..Len(m)) /\ Cardinality(1..Len(m)) = Len(m)
  BY <1>1, FS_Interval, SMTT(30)
<1>3. Over(m) \in SUBSET (1..Len(m))
  BY DEF Over
<1>4. IsFiniteSet(Over(m)) /\ Cardinality(Over(m)) <= Len(m)
  BY <1>2, <1>3, FS_Subset
<1>5. Cardinality(Over(m)) \in Nat
  BY <1>4, FS_CardinalityType
<1>6. (\A k \in 1..Len(m) : m[k] \in Final) => Over(m) = 1..Len(m)
  BY DEF Over
<1>7. QED BY <1>2, <1>4, <1>5, <1>6

LEMMA DivBound ==
    ASSUME NEW n \in Nat, n > 0, NEW c \in Nat, c <= n
    PROVE  (c * 100) \div n \in 0..100
  OBVIOUS

LEMMA DivMonotone ==
    ASSUME NEW n \in Nat, n > 0, NEW a \in Nat, NEW b \in Nat, a <= b
    PROVE  a \div n <= b \div n
  OBVIOUS

LEMMA DivWhole ==
    ASSUME NEW n \in Nat, n > 0
    PROVE  (n * 100) \div n = 100
  OBVIOUS

\* progress() stays within 0..100, and is 100 when every step is over.
LEMMA PercentInRange ==
    ASSUME NEW m \in Seq(StepStatus)
    PROVE  /\ Percent(m) \in 0..100
           /\ (\A k \in 1..Len(m) : m[k] \in Final) => Percent(m) = 100
<1>1. CASE m = <<>>
  BY <1>1 DEF Percent
<1>2. CASE m # <<>>
  <2>1. Len(m) \in Nat /\ Len(m) > 0
    BY <1>2
  <2>2. Percent(m) = (Cardinality(Over(m)) * 100) \div Len(m)
    BY <1>2 DEF Percent
  <2>3. Percent(m) \in 0..100
    BY <2>1, <2>2, OverIsFinite, DivBound
  <2>4. ASSUME \A k \in 1..Len(m) : m[k] \in Final PROVE Percent(m) = 100
    BY <2>1, <2>2, <2>4, OverIsFinite, DivWhole
  <2>5. QED BY <2>3, <2>4
<1>3. QED BY <1>1, <1>2

\* A step that moves on, from a mark that is not final, never takes any back.
LEMMA PercentGrows ==
    ASSUME NEW m \in Seq(StepStatus), NEW i \in 1..Len(m), NEW x \in StepStatus,
           m[i] \notin Final
    PROVE  Percent(m) <= Percent([m EXCEPT ![i] = x])
<1> DEFINE e == [m EXCEPT ![i] = x]
<1>1. /\ e \in Seq(StepStatus) /\ Len(e) = Len(m)
      /\ \A k \in 1..Len(m) : e[k] = IF k = i THEN x ELSE m[k]
  BY MarkOne
<1>2. Len(m) \in Nat /\ Len(m) > 0 /\ m # <<>> /\ e # <<>>
  BY <1>1
<1>3. Over(m) \in SUBSET Over(e)
  BY <1>1 DEF Over
<1>4. Cardinality(Over(m)) <= Cardinality(Over(e))
  BY <1>1, <1>3, OverIsFinite, FS_Subset
<1>5. /\ Cardinality(Over(m)) \in Nat /\ Cardinality(Over(e)) \in Nat
  BY <1>1, OverIsFinite
<1>6. /\ Cardinality(Over(m)) * 100 \in Nat /\ Cardinality(Over(e)) * 100 \in Nat
      /\ Cardinality(Over(m)) * 100 <= Cardinality(Over(e)) * 100
  BY <1>4, <1>5
<1>7. (Cardinality(Over(m)) * 100) \div Len(m) <= (Cardinality(Over(e)) * 100) \div Len(m)
  BY <1>2, <1>6, DivMonotone
<1>8. QED BY <1>1, <1>2, <1>7 DEF Percent

(***************************************************************************)
(* The loop of Run, as facts about marks alone: what each way of ending a  *)
(* step does to the loop's invariant.                                      *)
(***************************************************************************)
LEMMA LoopStarts ==
    ASSUME NEW l \in Seq(Step)
    PROVE  Loop(l, [k \in 1..Len(l) |-> "pending"], 1, {})
  BY DEF Loop, Sound, StepStatus, Final

LEMMA LoopRunning ==
    ASSUME NEW l \in Seq(Step), NEW m, NEW sk, NEW i \in 1..Len(l),
           Loop(l, m, i, sk), Tag(l, i) \notin sk
    PROVE  Loop(l, [m EXCEPT ![i] = "running"], i, sk)
<1> DEFINE e == [m EXCEPT ![i] = "running"]
<1>1. /\ e \in Seq(StepStatus) /\ Len(e) = Len(l)
      /\ \A k \in 1..Len(l) : e[k] = IF k = i THEN "running" ELSE m[k]
  BY MarkOne DEF Loop, StepStatus
<1>2. Sound(l, e)
  BY <1>1 DEF Loop, Sound
<1>3. QED BY <1>1, <1>2 DEF Loop

\* A step ends without failing: it succeeded, was optional, or was not tried.
LEMMA LoopGoesOn ==
    ASSUME NEW l \in Seq(Step), NEW m, NEW sk, NEW i \in 1..Len(l), Loop(l, m, i, sk),
           NEW x \in {"success", "skipped"},
           x = "success" => m[i] = "running",
           x = "skipped" => ~Required(l, i) \/ Tag(l, i) \in sk
    PROVE  Loop(l, [m EXCEPT ![i] = x], i + 1, sk)
<1> DEFINE e == [m EXCEPT ![i] = x]
<1>1. /\ e \in Seq(StepStatus) /\ Len(e) = Len(l)
      /\ \A k \in 1..Len(l) : e[k] = IF k = i THEN x ELSE m[k]
  BY MarkOne DEF Loop, StepStatus
<1>2. \A g \in sk : \E j \in 1..(i - 1) : m[j] = "failed" /\ Tag(l, j) = g
  BY DEF Loop, Final
<1>3. ASSUME NEW k \in 1..Len(e), e[k] = "skipped", Required(l, k)
      PROVE  \E j \in 1..(k - 1) : e[j] = "failed" /\ Tag(l, j) = Tag(l, k)
  <2>1. CASE k = i
    BY <2>1, <1>1, <1>2, <1>3
  <2>2. CASE k # i
    <3>1. PICK j \in 1..(k - 1) : m[j] = "failed" /\ Tag(l, j) = Tag(l, k)
      BY <2>2, <1>1, <1>3 DEF Loop, Sound
    <3>2. j # i /\ j \in 1..Len(l)
      BY <3>1, <1>1 DEF Loop
    <3>3. QED BY <3>1, <3>2, <1>1
  <2>3. QED BY <2>1, <2>2
<1>4. ASSUME NEW j \in 1..Len(e), NEW k \in 1..Len(e), j < k, e[j] = "failed",
             Tag(l, j) \in Group, Tag(l, j) = Tag(l, k)
      PROVE  e[k] \in {"pending", "skipped"}
  BY <1>1, <1>4 DEF Loop, Sound
<1>5. Sound(l, e)
  BY <1>3, <1>4 DEF Sound
<1>6. QED BY <1>1, <1>2, <1>5 DEF Loop, Final

\* A step of a group fails, and the group is given up.
LEMMA LoopGivesUp ==
    ASSUME NEW l \in Seq(Step), NEW m, NEW sk, NEW i \in 1..Len(l), Loop(l, m, i, sk),
           m[i] = "running", Required(l, i), Tag(l, i) \in Group
    PROVE  Loop(l, [m EXCEPT ![i] = "failed"], i + 1, sk \cup {Tag(l, i)})
<1> DEFINE e == [m EXCEPT ![i] = "failed"]
<1>1. /\ e \in Seq(StepStatus) /\ Len(e) = Len(l)
      /\ \A k \in 1..Len(l) : e[k] = IF k = i THEN "failed" ELSE m[k]
  BY MarkOne DEF Loop, StepStatus
<1>2. Sound(l, e)
  BY <1>1 DEF Loop, Sound
<1>3. \A g \in sk \cup {Tag(l, i)} : \E k \in 1..Len(l) : e[k] = "failed" /\ Tag(l, k) = g
  BY <1>1 DEF Loop
<1>4. QED BY <1>1, <1>2, <1>3 DEF Loop, Final

\* A shared step fails: the marks are sound, and it is to blame.
LEMMA LoopBreaks ==
    ASSUME NEW l \in Seq(Step), NEW m, NEW sk, NEW i \in 1..Len(l), Loop(l, m, i, sk),
           m[i] = "running", Required(l, i), Tag(l, i) = NoGroup
    PROVE  /\ [m EXCEPT ![i] = "failed"] \in Seq(StepStatus)
           /\ Len([m EXCEPT ![i] = "failed"]) = Len(l)
           /\ Sound(l, [m EXCEPT ![i] = "failed"])
           /\ Blamed(l, [m EXCEPT ![i] = "failed"])
<1> DEFINE e == [m EXCEPT ![i] = "failed"]
<1>1. /\ e \in Seq(StepStatus) /\ Len(e) = Len(l)
      /\ \A k \in 1..Len(l) : e[k] = IF k = i THEN "failed" ELSE m[k]
  BY MarkOne DEF Loop, StepStatus
<1>2. Sound(l, e)
  BY <1>1, RunnerAssumption DEF Loop, Sound
<1>3. Blamed(l, e)
  BY <1>1 DEF Blamed
<1>4. QED BY <1>1, <1>2, <1>3

\* The loop ran to its end.
LEMMA LoopEnds ==
    ASSUME NEW l \in Seq(Step), NEW m, NEW sk, NEW i, Loop(l, m, i, sk), i > Len(l)
    PROVE  /\ \A k \in 1..Len(l) : m[k] \in Final
           /\ sk = {} => Complete(l, m)
           /\ sk # {} => Blamed(l, m)
<1>1. \A k \in 1..Len(l) : m[k] \in Final
  BY DEF Loop
<1>2. ASSUME sk = {} PROVE Complete(l, m)
  <2>1. \A k \in 1..Len(l) : m[k] \in {"success", "skipped"}
    BY <1>1, <1>2 DEF Loop, Final
  <2>2. ASSUME NEW k \in 1..Len(l), m[k] = "skipped" PROVE ~Required(l, k)
    <3>1. SUFFICES ASSUME Required(l, k) PROVE FALSE
      OBVIOUS
    <3>2. PICK j \in 1..(k - 1) : m[j] = "failed"
      BY <2>2, <3>1 DEF Loop, Sound
    <3>3. QED BY <2>1, <3>2
  <2>3. QED BY <2>1, <2>2 DEF Complete
<1>3. ASSUME sk # {} PROVE Blamed(l, m)
  BY <1>1, <1>3 DEF Loop, Blamed
<1>4. QED BY <1>1, <1>2, <1>3

(***************************************************************************)
(* The inductive invariant.  The case analysis, and type correctness first. *)
(***************************************************************************)
LEMMA TaskStepCases ==
    ASSUME [Next]_vars
    PROVE  \/ Start \/ Crash
           \/ \E t \in Task, l \in Lists : Create(t, l)
           \/ \E t \in Task : Begin(t)
           \/ \E t \in Task : SkipStep(t)
           \/ \E t \in Task : StartStep(t)
           \/ \E t \in Task : StepSucceeds(t)
           \/ \E t \in Task : OptionalFails(t)
           \/ \E t \in Task : GroupedFails(t)
           \/ \E t \in Task : SharedFails(t)
           \/ \E t \in Task : Finish(t)
           \/ \E t \in Task : LastFlush(t)
           \/ UNCHANGED vars
  BY DEF Next, RunnerStep

LEMMA TaskInit == Init => TaskInv
<1> SUFFICES ASSUME Init PROVE TaskInv
  OBVIOUS
<1>1. <<>> \in Seq(StepStatus) /\ Len(<<>>) = 0
  OBVIOUS
<1>2. TypeOK
  <2>1. saved \in [Task -> Seq(StepStatus)] /\ mark \in [Task -> Seq(StepStatus)]
    BY <1>1 DEF Init
  <2>2. list \in [Task -> Lists \cup {<<>>}]
    BY DEF Init
  <2>3. skipped \in [Task -> SUBSET Group] /\ failed \in [Task -> SUBSET Group]
    BY DEF Init
  <2>4. /\ status \in [Task -> {"absent", "running"} \cup Ended]
        /\ message \in [Task -> {"", "title", "error", "batch", "completed", "restarted"}]
        /\ pc \in [Task -> {"none", "over", "gone"} \cup Live]
    BY DEF Init
  <2>5. 0 \in Nat /\ 0 \in 0..100
    OBVIOUS
  <2>6. /\ current \in [Task -> Nat] /\ progress \in [Task -> 0..100]
        /\ step \in [Task -> Nat]
    BY <2>5, Zenon DEF Init
  <2>7. panel \in {"down", "up"} /\ boots \in Nat
    BY DEF Init
  <2>8. QED BY <2>1, <2>2, <2>3, <2>4, <2>6, <2>7 DEF TypeOK
<1>3. GroupsAreIsolated
  <2>1. ASSUME NEW t \in Task PROVE Sound(list[t], saved[t])
    <3>1. saved[t] = <<>>
      BY DEF Init
    <3>2. 1..Len(saved[t]) = {}
      BY <1>1, <3>1
    <3>3. QED BY <3>2 DEF Sound
  <2>2. QED BY <2>1 DEF GroupsAreIsolated
<1>4. SuccessIsEarned /\ RunningHasRunner
  BY DEF Init, SuccessIsEarned, RunningHasRunner
<1>5. \A t \in Task : RunnerInv(t)
  BY DEF Init, RunnerInv, Live
<1>6. QED BY <1>2, <1>3, <1>4, <1>5 DEF TaskInv

\* A step of one runner leaves the other tasks alone.
Others(t) ==
    \A u \in Task \ {t} :
        /\ status'[u] = status[u] /\ message'[u] = message[u] /\ saved'[u] = saved[u]
        /\ progress'[u] = progress[u] /\ list'[u] = list[u] /\ pc'[u] = pc[u]
        /\ step'[u] = step[u] /\ mark'[u] = mark[u] /\ skipped'[u] = skipped[u]
        /\ failed'[u] = failed[u]

\* So it is enough to look at the task that moved.
Moved(t) ==
    /\ Sound(list'[t], saved'[t])
    /\ status'[t] = "success" => Complete(list'[t], saved'[t]) /\ progress'[t] = 100
    /\ status'[t] = "running" => pc'[t] \in Live
    /\ RunnerInv(t)'

LEMMA OneTaskMoved ==
    ASSUME TaskInv, TypeOK', NEW t \in Task, Others(t), Moved(t), UNCHANGED panel
    PROVE  TaskInv'
<1> USE DEF Others, Moved
<1>1. GroupsAreIsolated'
  BY DEF TaskInv, GroupsAreIsolated
<1>2. SuccessIsEarned'
  BY DEF TaskInv, SuccessIsEarned
<1>3. RunningHasRunner'
  BY DEF TaskInv, RunningHasRunner
<1>4. ASSUME NEW u \in Task \ {t} PROVE RunnerInv(u)'
  BY <1>4 DEF TaskInv, RunnerInv
<1>5. \A u \in Task : RunnerInv(u)'
  BY <1>4
<1>6. QED BY <1>1, <1>2, <1>3, <1>5 DEF TaskInv

\* The runner is in the loop at step i: what the invariant says there.
LEMMA InLoop ==
    ASSUME TaskInv, NEW t \in Task, pc[t] \in {"next", "step"}
    PROVE  /\ list[t] \in Seq(Step) /\ list[t] \in Lists
           /\ Loop(list[t], mark[t], step[t], skipped[t])
           /\ mark[t] \in Seq(StepStatus) /\ Len(mark[t]) = Len(list[t])
           /\ saved[t] = mark[t] /\ failed[t] = skipped[t]
           /\ progress[t] = Percent(mark[t])
           /\ status[t] = "running"
           /\ panel = "up"
  BY RunnerAssumption DEF TaskInv, RunnerInv, Loop, TypeOK, Live

\* GoOn within the loop keeps the invariant, if the loop's own is kept.
LEMMA GoOnKeeps ==
    ASSUME TaskInv, NEW t \in Task, NEW x \in {"success", "skipped", "failed"},
           pc[t] \in {"next", "step"}, step[t] \in 1..Len(list[t]), GoOn(t, x),
           skipped' \in [Task -> SUBSET Group], failed' \in [Task -> SUBSET Group],
           failed'[t] = skipped'[t],
           \A u \in Task \ {t} : skipped'[u] = skipped[u] /\ failed'[u] = failed[u],
           UNCHANGED <<status, message, list, panel, boots>>,
           Loop(list[t], [mark[t] EXCEPT ![step[t]] = x], step[t] + 1, skipped'[t])
    PROVE  TaskInv'
<1> DEFINE e == [mark[t] EXCEPT ![step[t]] = x]
<1>1. e \in Seq(StepStatus) /\ Percent(e) \in 0..100
  BY InLoop, MarkOne, PercentInRange DEF StepStatus
<1>2. /\ mark' = [mark EXCEPT ![t] = e] /\ saved' = [saved EXCEPT ![t] = e]
      /\ current' = [current EXCEPT ![t] = 0]
      /\ progress' = [progress EXCEPT ![t] = Percent(e)]
      /\ step' = [step EXCEPT ![t] = step[t] + 1]
      /\ pc' = [pc EXCEPT ![t] = "next"]
  BY DEF GoOn, Flush
<1> HIDE DEF e
<1>3. TypeOK'
  <2>1. mark' \in [Task -> Seq(StepStatus)] /\ saved' \in [Task -> Seq(StepStatus)]
    BY <1>1, <1>2 DEF TaskInv, TypeOK
  <2>2. current' \in [Task -> Nat] /\ progress' \in [Task -> 0..100]
    BY <1>1, <1>2 DEF TaskInv, TypeOK
  <2>3. pc \in [Task -> {"none", "over", "gone"} \cup Live] /\ step \in [Task -> Nat]
    BY DEF TaskInv, TypeOK
  <2>4. pc' \in [Task -> {"none", "over", "gone"} \cup Live]
    BY <1>2, <2>3 DEF Live
  <2>5. step' \in [Task -> Nat]
    BY <1>2, <2>3
  <2>6. QED BY <2>1, <2>2, <2>4, <2>5 DEF TaskInv, TypeOK
<1>4. /\ mark'[t] = e /\ saved'[t] = e /\ progress'[t] = Percent(e) /\ pc'[t] = "next"
      /\ step'[t] = step[t] + 1
  BY <1>2 DEF TaskInv, TypeOK
<1>5. Others(t)
  BY <1>2 DEF TaskInv, TypeOK, Others
<1>6. Loop(list'[t], e, step'[t], skipped'[t])
  BY <1>4 DEF e
<1>7. RunnerInv(t)'
  BY <1>4, <1>6, InLoop DEF RunnerInv, Live
<1>8. Moved(t)
  BY <1>4, <1>6, <1>7, InLoop DEF Moved, Loop, Live
<1>9. QED BY <1>3, <1>5, <1>8, OneTaskMoved

\* Ending an action that writes the row and leaves the loop: t is the only one
\* that moved, and every variable keeps its type.
LEMMA CreateKeeps ==
    ASSUME TaskInv, NEW t \in Task, NEW l \in Lists, Create(t, l) PROVE TaskInv'
<1>1. /\ status' = [status EXCEPT ![t] = "running"]
      /\ message' = [message EXCEPT ![t] = "title"]
      /\ list' = [list EXCEPT ![t] = l]
      /\ pc' = [pc EXCEPT ![t] = "created"]
      /\ status[t] = "absent" /\ panel = "up"
      /\ UNCHANGED <<saved, current, progress, step, mark, skipped, failed, panel, boots>>
  BY DEF Create
<1>2. TypeOK
  BY DEF TaskInv
<1>3. TypeOK'
  <2>1. status' \in [Task -> {"absent", "running"} \cup Ended]
    BY <1>1, <1>2 DEF TypeOK
  <2>2. message' \in [Task -> {"", "title", "error", "batch", "completed", "restarted"}]
    BY <1>1, <1>2 DEF TypeOK
  <2>3. list' \in [Task -> Lists \cup {<<>>}]
    BY <1>1, <1>2 DEF TypeOK
  <2>4. pc' \in [Task -> {"none", "over", "gone"} \cup Live]
    BY <1>1, <1>2 DEF TypeOK, Live
  <2>5. QED BY <1>1, <1>2, <2>1, <2>2, <2>3, <2>4 DEF TypeOK
<1>4. pc[t] = "none"
  BY <1>1 DEF TaskInv, RunnerInv
<1>5. Others(t)
  BY <1>1, <1>2 DEF TypeOK, Others
<1>6. /\ status'[t] = "running" /\ list'[t] = l /\ pc'[t] = "created"
      /\ saved'[t] = <<>> /\ progress'[t] = 0 /\ skipped'[t] = {} /\ failed'[t] = {}
  <2>1. DOMAIN status = Task /\ DOMAIN list = Task /\ DOMAIN pc = Task
    BY <1>2 DEF TypeOK
  <2>2. saved[t] = <<>> /\ progress[t] = 0 /\ skipped[t] = {} /\ failed[t] = {}
    BY <1>4 DEF TaskInv, RunnerInv
  <2>3. QED BY <1>1, <2>1, <2>2
<1>7. RunnerInv(t)'
  BY <1>1, <1>6 DEF RunnerInv, Live
<1>8. Sound(list'[t], saved'[t])
  <2>1. 1..Len(saved'[t]) = {}
    BY <1>6
  <2>2. QED BY <2>1 DEF Sound
<1>9. Moved(t)
  BY <1>6, <1>7, <1>8 DEF Moved, Live
<1>10. QED BY <1>1, <1>3, <1>5, <1>9, OneTaskMoved

LEMMA BeginKeeps ==
    ASSUME TaskInv, NEW t \in Task, Begin(t) PROVE TaskInv'
<1> DEFINE e == [k \in 1..Len(list[t]) |-> "pending"]
<1>1. /\ pc[t] = "created"
      /\ message' = [message EXCEPT ![t] = ""]
      /\ mark' = [mark EXCEPT ![t] = e] /\ saved' = [saved EXCEPT ![t] = e]
      /\ current' = [current EXCEPT ![t] = 0]
      /\ progress' = [progress EXCEPT ![t] = Percent(e)]
      /\ step' = [step EXCEPT ![t] = 1]
      /\ pc' = [pc EXCEPT ![t] = "next"]
      /\ UNCHANGED <<status, list, skipped, failed, panel, boots>>
  BY DEF Begin, Flush
<1>2. TypeOK
  BY DEF TaskInv
<1>3. status[t] = "running" /\ list[t] \in Lists /\ list[t] \in Seq(Step) /\ panel = "up"
  BY <1>1, <1>2, RunnerAssumption DEF TaskInv, RunnerInv, Live, TypeOK
<1>4. Loop(list[t], e, 1, {})
  BY <1>3, LoopStarts
<1>5. e \in Seq(StepStatus) /\ Percent(e) \in 0..100
  BY <1>4, PercentInRange DEF Loop
<1>6. skipped[t] = {} /\ failed[t] = {}
  BY <1>1 DEF TaskInv, RunnerInv
<1> HIDE DEF e
<1>7. TypeOK'
  <2>1. mark' \in [Task -> Seq(StepStatus)] /\ saved' \in [Task -> Seq(StepStatus)]
    BY <1>1, <1>2, <1>5 DEF TypeOK
  <2>2. current' \in [Task -> Nat] /\ progress' \in [Task -> 0..100] /\ step' \in [Task -> Nat]
    BY <1>1, <1>2, <1>5 DEF TypeOK
  <2>3. message' \in [Task -> {"", "title", "error", "batch", "completed", "restarted"}]
    BY <1>1, <1>2 DEF TypeOK
  <2>4. pc' \in [Task -> {"none", "over", "gone"} \cup Live]
    BY <1>1, <1>2 DEF TypeOK, Live
  <2>5. QED BY <1>1, <1>2, <2>1, <2>2, <2>3, <2>4 DEF TypeOK
<1>8. Others(t)
  BY <1>1, <1>2 DEF TypeOK, Others
<1>9. /\ status'[t] = "running" /\ list'[t] = list[t] /\ pc'[t] = "next" /\ panel' = "up"
      /\ saved'[t] = e /\ mark'[t] = e /\ progress'[t] = Percent(e) /\ step'[t] = 1
      /\ skipped'[t] = {} /\ failed'[t] = {}
  BY <1>1, <1>2, <1>3, <1>6 DEF TypeOK
<1>10. RunnerInv(t)'
  BY <1>3, <1>4, <1>9 DEF RunnerInv, Live
<1>11. Moved(t)
  BY <1>4, <1>9, <1>10 DEF Moved, Loop, Live
<1>12. QED BY <1>1, <1>7, <1>8, <1>11, OneTaskMoved

LEMMA StartStepKeeps ==
    ASSUME TaskInv, NEW t \in Task, StartStep(t) PROVE TaskInv'
<1> DEFINE e == [mark[t] EXCEPT ![step[t]] = "running"]
<1>1. /\ pc[t] = "next" /\ step[t] \in 1..Len(list[t])
      /\ Tag(list[t], step[t]) \notin skipped[t]
      /\ mark' = [mark EXCEPT ![t] = e] /\ saved' = [saved EXCEPT ![t] = e]
      /\ current' = [current EXCEPT ![t] = step[t]]
      /\ progress' = [progress EXCEPT ![t] = Percent(e)]
      /\ pc' = [pc EXCEPT ![t] = "step"]
      /\ UNCHANGED <<status, message, list, step, skipped, failed, panel, boots>>
  BY DEF StartStep, Flush, More, StepOf, Tag
<1>2. TypeOK
  BY DEF TaskInv
<1>3. Loop(list[t], e, step[t], skipped[t])
  BY <1>1, InLoop, LoopRunning
<1>4. e \in Seq(StepStatus) /\ Percent(e) \in 0..100
  BY <1>3, PercentInRange DEF Loop
<1>5. e[step[t]] = "running"
  BY <1>1, InLoop
<1> HIDE DEF e
<1>6. TypeOK'
  <2>1. mark' \in [Task -> Seq(StepStatus)] /\ saved' \in [Task -> Seq(StepStatus)]
    BY <1>1, <1>2, <1>4 DEF TypeOK
  <2>2. current' \in [Task -> Nat] /\ progress' \in [Task -> 0..100]
    BY <1>1, <1>2, <1>4 DEF TypeOK
  <2>3. pc' \in [Task -> {"none", "over", "gone"} \cup Live]
    BY <1>1, <1>2 DEF TypeOK, Live
  <2>4. QED BY <1>1, <1>2, <2>1, <2>2, <2>3 DEF TypeOK
<1>7. Others(t)
  BY <1>1, <1>2 DEF TypeOK, Others
<1>8. /\ list'[t] = list[t] /\ pc'[t] = "step" /\ panel' = "up" /\ step'[t] = step[t]
      /\ saved'[t] = e /\ mark'[t] = e /\ progress'[t] = Percent(e)
      /\ skipped'[t] = skipped[t] /\ failed'[t] = skipped[t] /\ status'[t] = "running"
      /\ list[t] \in Lists
  BY <1>1, <1>2, InLoop DEF TypeOK
<1>9. RunnerInv(t)'
  BY <1>1, <1>3, <1>5, <1>8 DEF RunnerInv, Live
<1>10. Moved(t)
  BY <1>3, <1>8, <1>9 DEF Moved, Loop, Live
<1>11. QED BY <1>1, <1>6, <1>7, <1>10, OneTaskMoved

\* Leaving the loop: the verdict is on the row and in the marks.
LEMMA FinishKeeps ==
    ASSUME TaskInv, NEW t \in Task, pc[t] \in {"next", "step"},
           NEW e, e \in Seq(StepStatus), Len(e) = Len(list[t]), Sound(list[t], e),
           NEW verdict \in Ended, NEW why \in {"error", "batch", "completed"},
           mark' = [mark EXCEPT ![t] = e],
           FinishTask(t, verdict, why, Percent(e)),
           verdict = "success" => Complete(list[t], e) /\ e = saved[t] /\ Percent(e) = 100,
           verdict = "failed" => Blamed(list[t], e),
           pc' = [pc EXCEPT ![t] = "last"],
           UNCHANGED <<saved, list, step, skipped, failed, panel, boots>>
    PROVE  TaskInv'
<1>1. /\ status' = [status EXCEPT ![t] = verdict]
      /\ message' = [message EXCEPT ![t] = why]
      /\ progress' = [progress EXCEPT ![t] = Percent(e)]
      /\ current' = [current EXCEPT ![t] = 0]
  BY DEF FinishTask
<1>2. TypeOK
  BY DEF TaskInv
<1>3. TypeOK'
  <2>1. status' \in [Task -> {"absent", "running"} \cup Ended]
    BY <1>1, <1>2 DEF TypeOK
  <2>2. message' \in [Task -> {"", "title", "error", "batch", "completed", "restarted"}]
    BY <1>1, <1>2 DEF TypeOK
  <2>3. mark' \in [Task -> Seq(StepStatus)]
    BY <1>2 DEF TypeOK
  <2>4. current' \in [Task -> Nat] /\ progress' \in [Task -> 0..100]
    BY <1>1, <1>2, PercentInRange DEF TypeOK
  <2>5. pc' \in [Task -> {"none", "over", "gone"} \cup Live]
    BY <1>2 DEF TypeOK, Live
  <2>6. QED BY <1>2, <2>1, <2>2, <2>3, <2>4, <2>5 DEF TypeOK
<1>4. /\ \A u \in Task : /\ status'[u] = IF u = t THEN verdict ELSE status[u]
                         /\ message'[u] = IF u = t THEN why ELSE message[u]
                         /\ progress'[u] = IF u = t THEN Percent(e) ELSE progress[u]
  <2>1. DOMAIN status = Task /\ DOMAIN message = Task /\ DOMAIN progress = Task
    BY <1>2 DEF TypeOK
  <2>2. QED BY <1>1, <2>1
<1>5. /\ \A u \in Task : /\ mark'[u] = IF u = t THEN e ELSE mark[u]
                         /\ pc'[u] = IF u = t THEN "last" ELSE pc[u]
  <2>1. DOMAIN mark = Task /\ DOMAIN pc = Task
    BY <1>2 DEF TypeOK
  <2>2. QED BY <2>1
<1> Others(t)
  BY <1>4, <1>5 DEF Others
<1>6. Sound(list[t], saved[t])
  BY DEF TaskInv, GroupsAreIsolated
<1>7. panel' = "up"
  BY InLoop
<1>8. RunnerInv(t)'
  BY <1>4, <1>5, <1>7 DEF RunnerInv, Live, Ended
<1>9. Moved(t)
  BY <1>4, <1>5, <1>6, <1>8 DEF Moved, Live, Ended
<1>10. QED BY <1>3, <1>9, OneTaskMoved

LEMMA LastFlushKeeps ==
    ASSUME TaskInv, NEW t \in Task, LastFlush(t) PROVE TaskInv'
<1>1. /\ pc[t] = "last"
      /\ mark' = [mark EXCEPT ![t] = mark[t]] /\ saved' = [saved EXCEPT ![t] = mark[t]]
      /\ current' = [current EXCEPT ![t] = 0]
      /\ progress' = [progress EXCEPT ![t] = Percent(mark[t])]
      /\ pc' = [pc EXCEPT ![t] = "over"]
      /\ UNCHANGED <<status, message, list, step, skipped, failed, panel, boots>>
  BY DEF LastFlush, Flush
<1>2. TypeOK
  BY DEF TaskInv
<1>3. mark' = mark
  BY <1>1, <1>2 DEF TypeOK
<1>4. mark[t] \in Seq(StepStatus) /\ Percent(mark[t]) \in 0..100
  <2>1. mark[t] \in Seq(StepStatus)
    BY <1>2 DEF TypeOK
  <2>2. QED BY <2>1, PercentInRange
<1>5. TypeOK'
  <2>1. saved' \in [Task -> Seq(StepStatus)]
    BY <1>1, <1>2, <1>4 DEF TypeOK
  <2>2. current' \in [Task -> Nat] /\ progress' \in [Task -> 0..100]
    BY <1>1, <1>2, <1>4 DEF TypeOK
  <2>3. pc' \in [Task -> {"none", "over", "gone"} \cup Live]
    BY <1>1, <1>2 DEF TypeOK
  <2>4. QED BY <1>1, <1>2, <1>3, <2>1, <2>2, <2>3 DEF TypeOK
<1>6. saved'[t] = mark[t] /\ progress'[t] = Percent(mark[t]) /\ pc'[t] = "over"
  <2>1. DOMAIN saved = Task /\ DOMAIN progress = Task /\ DOMAIN pc = Task
    BY <1>2 DEF TypeOK
  <2>2. QED BY <1>1, <2>1
<1>7. Others(t)
  BY <1>1, <1>2, <1>3 DEF TypeOK, Others
<1>8. /\ status[t] \in Ended /\ Len(mark[t]) = Len(list[t]) /\ Sound(list[t], mark[t])
      /\ status[t] = "success" => Complete(list[t], mark[t]) /\ progress[t] = 100
      /\ status[t] = "failed" => Blamed(list[t], mark[t])
      /\ progress[t] = Percent(mark[t])
  BY <1>1 DEF TaskInv, RunnerInv, SuccessIsEarned
<1>9. RunnerInv(t)'
  BY <1>1, <1>3, <1>6, <1>8 DEF RunnerInv, Live, Ended
<1>10. Moved(t)
  BY <1>1, <1>3, <1>6, <1>8, <1>9 DEF Moved, Ended
<1>11. QED BY <1>1, <1>5, <1>7, <1>10, OneTaskMoved

LEMMA SharedFailsKeeps ==
    ASSUME TaskInv, NEW t \in Task, SharedFails(t) PROVE TaskInv'
<1> DEFINE e == [mark[t] EXCEPT ![step[t]] = "failed"]
<1>1. /\ pc[t] = "step" /\ Required(list[t], step[t]) /\ Tag(list[t], step[t]) = NoGroup
      /\ mark' = [mark EXCEPT ![t] = e]
      /\ FinishTask(t, "failed", "error", Percent(e))
      /\ pc' = [pc EXCEPT ![t] = "last"]
      /\ UNCHANGED <<saved, list, step, skipped, failed, panel, boots>>
  BY DEF SharedFails, StepOf, Required, Tag
<1>2. mark[t][step[t]] = "running" /\ step[t] \in 1..Len(list[t])
  BY <1>1, InLoop DEF TaskInv, RunnerInv, Loop
<1>3. e \in Seq(StepStatus) /\ Len(e) = Len(list[t]) /\ Sound(list[t], e) /\ Blamed(list[t], e)
  BY <1>1, <1>2, InLoop, LoopBreaks
<1> HIDE DEF e
<1>4. QED BY <1>1, <1>3, FinishKeeps DEF Ended

LEMMA LoopEndKeeps ==
    ASSUME TaskInv, NEW t \in Task, Finish(t) PROVE TaskInv'
<1>1. /\ pc[t] = "next" /\ step[t] > Len(list[t])
      /\ pc' = [pc EXCEPT ![t] = "last"]
      /\ UNCHANGED <<saved, list, step, mark, skipped, failed, panel, boots>>
  BY DEF Finish
<1>2. /\ mark[t] \in Seq(StepStatus) /\ Len(mark[t]) = Len(list[t])
      /\ saved[t] = mark[t] /\ failed[t] = skipped[t] /\ Sound(list[t], mark[t])
  BY <1>1, InLoop DEF Loop
<1>3. /\ \A k \in 1..Len(list[t]) : mark[t][k] \in Final
      /\ failed[t] = {} => Complete(list[t], mark[t])
      /\ failed[t] # {} => Blamed(list[t], mark[t])
  BY <1>1, <1>2, InLoop, LoopEnds
<1>4. Percent(mark[t]) = 100
  BY <1>2, <1>3, PercentInRange
<1>5. mark' = [mark EXCEPT ![t] = mark[t]]
  BY <1>1 DEF TaskInv, TypeOK
<1>6. CASE failed[t] # {} /\ FinishTask(t, "failed", "batch", Percent(mark[t]))
  BY <1>1, <1>2, <1>3, <1>5, <1>6, FinishKeeps DEF Ended
<1>7. CASE failed[t] = {} /\ FinishTask(t, "success", "completed", 100)
  <2>1. FinishTask(t, "success", "completed", Percent(mark[t]))
    BY <1>4, <1>7
  <2>2. Complete(list[t], mark[t])
    BY <1>3, <1>7
  <2>3. QED BY <1>1, <1>2, <1>4, <1>5, <2>1, <2>2, FinishKeeps DEF Ended
<1>8. QED BY <1>6, <1>7 DEF Finish

\* The four ways to go on with the loop.
LEMMA LoopGoOnKeeps ==
    ASSUME TaskInv, NEW t \in Task,
           SkipStep(t) \/ StepSucceeds(t) \/ OptionalFails(t) \/ GroupedFails(t)
    PROVE  TaskInv'
<1>1. /\ pc[t] \in {"next", "step"} /\ step[t] \in 1..Len(list[t])
      /\ pc[t] = "step" => mark[t][step[t]] = "running"
  <2>1. pc[t] \in {"next", "step"}
    BY DEF SkipStep, More, StepSucceeds, OptionalFails, GroupedFails
  <2>2. pc[t] = "next" => step[t] \in 1..Len(list[t])
    BY DEF SkipStep, More, StepSucceeds, OptionalFails, GroupedFails
  <2>3. pc[t] = "step" => step[t] \in 1..Len(list[t]) /\ mark[t][step[t]] = "running"
    BY <2>1, InLoop DEF TaskInv, RunnerInv, Loop
  <2>4. QED BY <2>1, <2>2, <2>3
<1>2. /\ skipped \in [Task -> SUBSET Group] /\ failed \in [Task -> SUBSET Group]
      /\ failed[t] = skipped[t]
  BY <1>1, InLoop DEF TaskInv, TypeOK
<1>3. /\ list[t] \in Seq(Step) /\ Loop(list[t], mark[t], step[t], skipped[t])
  BY <1>1, InLoop
<1>4. CASE SkipStep(t)
  <2>1. /\ Tag(list[t], step[t]) \in skipped[t] /\ GoOn(t, "skipped")
        /\ UNCHANGED <<status, message, list, skipped, failed, panel, boots>>
    BY <1>4 DEF SkipStep, StepOf, Tag
  <2>2. Loop(list[t], [mark[t] EXCEPT ![step[t]] = "skipped"], step[t] + 1, skipped'[t])
    BY <1>1, <1>3, <2>1, LoopGoesOn
  <2>3. QED BY <1>1, <1>2, <2>1, <2>2, GoOnKeeps
<1>5. CASE StepSucceeds(t)
  <2>1. /\ pc[t] = "step" /\ GoOn(t, "success")
        /\ UNCHANGED <<status, message, list, skipped, failed, panel, boots>>
    BY <1>5 DEF StepSucceeds
  <2>2. Loop(list[t], [mark[t] EXCEPT ![step[t]] = "success"], step[t] + 1, skipped'[t])
    BY <1>1, <1>3, <2>1, LoopGoesOn
  <2>3. QED BY <1>1, <1>2, <2>1, <2>2, GoOnKeeps
<1>6. CASE OptionalFails(t)
  <2>1. /\ ~Required(list[t], step[t]) /\ GoOn(t, "skipped")
        /\ UNCHANGED <<status, message, list, skipped, failed, panel, boots>>
    BY <1>6 DEF OptionalFails, StepOf, Required
  <2>2. Loop(list[t], [mark[t] EXCEPT ![step[t]] = "skipped"], step[t] + 1, skipped'[t])
    BY <1>1, <1>3, <2>1, LoopGoesOn
  <2>3. QED BY <1>1, <1>2, <2>1, <2>2, GoOnKeeps
<1>7. CASE GroupedFails(t)
  <2> DEFINE g == Tag(list[t], step[t])
  <2>1. /\ pc[t] = "step" /\ Required(list[t], step[t]) /\ g # NoGroup
        /\ failed' = [failed EXCEPT ![t] = @ \cup {g}]
        /\ skipped' = [skipped EXCEPT ![t] = @ \cup {g}]
        /\ GoOn(t, "failed")
        /\ UNCHANGED <<status, message, list, panel, boots>>
    BY <1>7 DEF GroupedFails, GiveUp, StepOf, Required, Tag
  <2>2. g \in Group
    <3>1. list[t][step[t]] \in Step
      BY <1>1, <1>3
    <3>2. QED BY <2>1, <3>1 DEF Step, Tag
  <2> HIDE DEF g
  <2>3. skipped' \in [Task -> SUBSET Group] /\ failed' \in [Task -> SUBSET Group]
    BY <1>2, <2>1, <2>2
  <2>4. /\ skipped'[t] = skipped[t] \cup {g} /\ failed'[t] = skipped[t] \cup {g}
        /\ \A u \in Task \ {t} : skipped'[u] = skipped[u] /\ failed'[u] = failed[u]
    BY <1>2, <2>1
  <2>5. Loop(list[t], [mark[t] EXCEPT ![step[t]] = "failed"], step[t] + 1, skipped'[t])
    <3>1. Loop(list[t], [mark[t] EXCEPT ![step[t]] = "failed"], step[t] + 1, skipped[t] \cup {g})
      BY <1>1, <1>3, <2>1, <2>2, LoopGivesUp DEF g
    <3>2. QED BY <2>4, <3>1
  <2>6. QED BY <1>1, <2>1, <2>3, <2>4, <2>5, GoOnKeeps
<1>8. QED BY <1>4, <1>5, <1>6, <1>7

LEMMA CrashKeeps == ASSUME TaskInv, Crash PROVE TaskInv'
<1>1. /\ pc' = [t \in Task |-> IF pc[t] \in Live THEN "gone" ELSE pc[t]]
      /\ panel' = "down"
      /\ UNCHANGED <<status, message, saved, current, progress, list, step, mark,
                     skipped, failed, boots>>
  BY DEF Crash, row
<1>2. TypeOK'
  <2>1. pc' \in [Task -> {"none", "over", "gone"} \cup Live]
    BY <1>1 DEF TaskInv, TypeOK
  <2>2. QED BY <1>1, <2>1 DEF TaskInv, TypeOK
<1>3. GroupsAreIsolated' /\ SuccessIsEarned' /\ RunningHasRunner'
  BY <1>1 DEF TaskInv, GroupsAreIsolated, SuccessIsEarned, RunningHasRunner
<1>4. ASSUME NEW t \in Task PROVE RunnerInv(t)'
  <2>1. RunnerInv(t) /\ pc'[t] = IF pc[t] \in Live THEN "gone" ELSE pc[t]
    BY <1>1 DEF TaskInv
  <2>2. QED BY <1>1, <2>1 DEF RunnerInv, Live
<1>5. QED BY <1>2, <1>3, <1>4 DEF TaskInv

LEMMA StartKeeps == ASSUME TaskInv, Start PROVE TaskInv'
<1>1. /\ panel = "down" /\ panel' = "up" /\ boots' = boots + 1
      /\ status' = [t \in Task |-> IF status[t] = "running" THEN "failed" ELSE status[t]]
      /\ message' = [t \in Task |-> IF t \in RunningTasks /\ message[t] = ""
                                     THEN "restarted" ELSE message[t]]
      /\ UNCHANGED <<saved, current, progress, list, pc, step, mark, skipped, failed>>
  BY DEF Start, memory, RunningTasks
<1>2. TypeOK'
  <2>1. status' \in [Task -> {"absent", "running"} \cup Ended]
    BY <1>1 DEF TaskInv, TypeOK, Ended
  <2>2. message' \in [Task -> {"", "title", "error", "batch", "completed", "restarted"}]
    BY <1>1 DEF TaskInv, TypeOK
  <2>3. boots \in Nat
    BY DEF TaskInv, TypeOK
  <2>4. boots' = boots + 1 /\ panel' = "up"
    BY DEF Start
  <2>5. boots' \in Nat
    BY <2>3, <2>4
  <2>6. QED BY <1>1, <2>1, <2>2, <2>4, <2>5 DEF TaskInv, TypeOK
<1>3. GroupsAreIsolated' /\ SuccessIsEarned' /\ RunningHasRunner'
  BY <1>1 DEF TaskInv, GroupsAreIsolated, SuccessIsEarned, RunningHasRunner
<1>4. ASSUME NEW t \in Task PROVE RunnerInv(t)'
  <2>1. RunnerInv(t) /\ pc[t] \notin Live
    BY <1>1 DEF TaskInv, RunnerInv
  <2>2. status'[t] = IF status[t] = "running" THEN "failed" ELSE status[t]
    BY <1>1
  <2>3. QED BY <1>1, <2>1, <2>2 DEF RunnerInv, Live, Ended
<1>5. QED BY <1>2, <1>3, <1>4 DEF TaskInv

LEMMA TaskNext == TaskInv /\ [Next]_vars => TaskInv'
<1> SUFFICES ASSUME TaskInv, [Next]_vars PROVE TaskInv'
  OBVIOUS
<1>1. CASE UNCHANGED vars
  <2>1. TypeOK'
    BY <1>1 DEF vars, TaskInv, TypeOK
  <2>2. GroupsAreIsolated' /\ SuccessIsEarned' /\ RunningHasRunner'
    BY <1>1 DEF vars, TaskInv, GroupsAreIsolated, SuccessIsEarned, RunningHasRunner
  <2>3. \A t \in Task : RunnerInv(t)'
    BY <1>1 DEF vars, TaskInv, RunnerInv
  <2>4. QED BY <2>1, <2>2, <2>3 DEF TaskInv
<1>2. QED
  BY <1>1, TaskStepCases, StartKeeps, CrashKeeps, CreateKeeps, BeginKeeps, StartStepKeeps,
     LoopGoOnKeeps, SharedFailsKeeps, LoopEndKeeps, LastFlushKeeps

\* The runner's state machine keeps its invariant whatever crashes and starts.
THEOREM RunnerCorrect == Spec => []TaskInv
<1>1. Init => TaskInv
  BY TaskInit
<1>2. TaskInv /\ [Next]_vars => TaskInv'
  BY TaskNext
<1>3. QED BY <1>1, <1>2, PTL DEF Spec

\* The row and the runner's memory always have their types; in particular
\* progress stays within 0..100 for every list.
THEOREM TaskTypeCorrect == Spec => []TypeOK
<1>1. TaskInv => TypeOK
  BY DEF TaskInv
<1>2. QED BY <1>1, RunnerCorrect, PTL

\* A failed step takes down its own group and nothing else (tasks.go:5-10).
THEOREM Isolation == Spec => []GroupsAreIsolated
<1>1. TaskInv => GroupsAreIsolated
  BY DEF TaskInv
<1>2. QED BY <1>1, RunnerCorrect, PTL

\* A task that says success did everything it was required to.
THEOREM EarnedSuccess == Spec => []SuccessIsEarned
<1>1. TaskInv => SuccessIsEarned
  BY DEF TaskInv
<1>2. QED BY <1>1, RunnerCorrect, PTL

\* A run that ended in failure left the step to blame on the row.
THEOREM RealFailure == Spec => []FailureIsReal
<1>1. TaskInv => FailureIsReal
  BY DEF TaskInv, RunnerInv, FailureIsReal
<1>2. QED BY <1>1, RunnerCorrect, PTL

\* No page waits on a task whose process is gone.
THEOREM NoOrphanedTask == Spec => []RunningHasRunner
<1>1. TaskInv => RunningHasRunner
  BY DEF TaskInv
<1>2. QED BY <1>1, RunnerCorrect, PTL

(***************************************************************************)
(* What the browser polls.                                                 *)
(***************************************************************************)
Forward(t) == /\ progress'[t] >= progress[t]
              /\ status[t] \in Ended => status'[t] = status[t] /\ message'[t] = message[t]

LEMMA ProgressTo ==
    ASSUME progress \in [Task -> 0..100], NEW t \in Task, NEW q \in 0..100,
           progress[t] <= q, progress' = [progress EXCEPT ![t] = q], NEW u \in Task
    PROVE  progress'[u] >= progress[u]
<1>1. progress[u] \in 0..100
  OBVIOUS
<1>2. progress'[u] = IF u = t THEN q ELSE progress[u]
  OBVIOUS
<1>3. QED BY <1>1, <1>2

\* A step that flushes the marks with step i changed goes forward.
LEMMA FlushForward ==
    ASSUME TaskInv, NEW t \in Task, NEW x \in StepStatus,
           pc[t] \in {"next", "step"}, step[t] \in 1..Len(list[t]),
           progress' = [progress EXCEPT ![t] = Percent([mark[t] EXCEPT ![step[t]] = x])],
           \/ UNCHANGED <<status, message>>
           \/ \E v, y : status' = [status EXCEPT ![t] = v] /\ message' = [message EXCEPT ![t] = y],
           NEW u \in Task
    PROVE  Forward(u)
<1>1. /\ mark[t] \in Seq(StepStatus) /\ step[t] \in 1..Len(mark[t])
      /\ mark[t][step[t]] \notin Final
  BY InLoop DEF Loop, Final
<1>2. Percent(mark[t]) <= Percent([mark[t] EXCEPT ![step[t]] = x])
  BY <1>1, PercentGrows
<1>3. /\ progress[t] = Percent(mark[t]) /\ status[t] = "running"
  BY InLoop
<1>4. /\ progress \in [Task -> 0..100] /\ DOMAIN status = Task /\ DOMAIN message = Task
  BY DEF TaskInv, TypeOK
<1>5. progress'[u] >= progress[u]
  <2>1. [mark[t] EXCEPT ![step[t]] = x] \in Seq(StepStatus)
    BY <1>1, MarkOne
  <2>2. Percent([mark[t] EXCEPT ![step[t]] = x]) \in 0..100
    BY <2>1, PercentInRange
  <2>3. PICK q \in 0..100 : q = Percent([mark[t] EXCEPT ![step[t]] = x])
    BY <2>2, Zenon
  <2>4. progress[t] <= q /\ progress' = [progress EXCEPT ![t] = q]
    BY <1>2, <1>3, <2>3
  <2>5. QED BY <1>4, <2>4, ProgressTo
<1>6. status[u] \in Ended => status'[u] = status[u] /\ message'[u] = message[u]
  BY <1>3, <1>4 DEF Ended
<1>7. QED BY <1>5, <1>6 DEF Forward

LEMMA StepsForward ==
    ASSUME TaskInv, [Next]_vars, NEW u \in Task PROVE Forward(u)
<1>1. /\ progress \in [Task -> 0..100] /\ DOMAIN status = Task /\ DOMAIN message = Task
      /\ DOMAIN progress = Task /\ progress[u] \in 0..100
  BY DEF TaskInv, TypeOK
<1>2. CASE UNCHANGED <<status, message, progress>>
  BY <1>1, <1>2 DEF Forward
<1>3. CASE Start
  <2>1. progress' = progress
    BY <1>3 DEF Start
  <2>2. status[u] \in Ended => status'[u] = status[u] /\ message'[u] = message[u]
    BY <1>3 DEF Start, RunningTasks, Ended
  <2>3. QED BY <1>1, <2>1, <2>2 DEF Forward
<1>4. ASSUME NEW t \in Task, NEW l \in Lists, Create(t, l) PROVE Forward(u)
  BY <1>1, <1>4 DEF Create, Forward, Ended
<1>5. ASSUME NEW t \in Task, Begin(t) PROVE Forward(u)
  <2> DEFINE e == [k \in 1..Len(list[t]) |-> "pending"]
  <2>1. /\ pc[t] = "created" /\ status' = status
        /\ message' = [message EXCEPT ![t] = ""]
        /\ progress' = [progress EXCEPT ![t] = Percent(e)]
    BY <1>5 DEF Begin, Flush
  <2>2. status[t] = "running" /\ progress[t] = 0 /\ list[t] \in Seq(Step)
    BY <2>1, RunnerAssumption DEF TaskInv, RunnerInv
  <2>3. Percent(e) \in 0..100
    BY <2>2, LoopStarts, PercentInRange DEF Loop
  <2>4. progress'[u] >= progress[u]
    <3>1. PICK q \in 0..100 : q = Percent(e)
      BY <2>3
    <3> HIDE DEF e
    <3>2. progress' = [progress EXCEPT ![t] = q]
      BY <2>1, <3>1
    <3>3. progress[t] = 0
      BY <2>2
    <3>4. progress[t] <= q
      BY <3>3
    <3>5. QED BY <1>1, <3>2, <3>4, ProgressTo
  <2>5. status[u] \in Ended => message'[u] = message[u]
    BY <1>1, <2>1, <2>2 DEF Ended
  <2>6. QED BY <2>1, <2>4, <2>5 DEF Forward
<1>6. ASSUME NEW t \in Task, StartStep(t) PROVE Forward(u)
  BY <1>6, FlushForward DEF StartStep, More, Flush, StepStatus
<1>7. ASSUME NEW t \in Task,
             SkipStep(t) \/ StepSucceeds(t) \/ OptionalFails(t) \/ GroupedFails(t)
      PROVE  Forward(u)
  <2>1. PICK x \in {"success", "skipped", "failed"} : GoOn(t, x)
    BY <1>7 DEF SkipStep, StepSucceeds, OptionalFails, GroupedFails
  <2>2. /\ pc[t] \in {"next", "step"} /\ UNCHANGED <<status, message>>
        /\ pc[t] = "next" => step[t] \in 1..Len(list[t])
    BY <1>7 DEF SkipStep, More, StepSucceeds, OptionalFails, GroupedFails
  <2>3. step[t] \in 1..Len(list[t])
    BY <2>2, InLoop DEF TaskInv, RunnerInv, Loop
  <2>4. progress' = [progress EXCEPT ![t] = Percent([mark[t] EXCEPT ![step[t]] = x])]
    BY <2>1 DEF GoOn, Flush
  <2>5. x \in StepStatus
    BY DEF StepStatus
  <2>6. QED BY <2>2, <2>3, <2>4, <2>5, FlushForward
<1>8. ASSUME NEW t \in Task, SharedFails(t) PROVE Forward(u)
  <2>1. /\ pc[t] = "step"
        /\ progress' = [progress EXCEPT ![t] = Percent([mark[t] EXCEPT ![step[t]] = "failed"])]
        /\ status' = [status EXCEPT ![t] = "failed"]
        /\ message' = [message EXCEPT ![t] = "error"]
    BY <1>8 DEF SharedFails, FinishTask
  <2>2. step[t] \in 1..Len(list[t])
    BY <2>1, InLoop DEF TaskInv, RunnerInv, Loop
  <2>3. QED BY <2>1, <2>2, FlushForward DEF StepStatus
<1>9. ASSUME NEW t \in Task, Finish(t) PROVE Forward(u)
  <2>1. pc[t] = "next"
    BY <1>9 DEF Finish
  <2>2. progress[t] = Percent(mark[t]) /\ status[t] = "running" /\ mark[t] \in Seq(StepStatus)
    BY <2>1, InLoop
  <2>3. PICK p \in {Percent(mark[t]), 100}, v \in Ended, y \in {"batch", "completed"} :
            FinishTask(t, v, y, p)
    BY <1>9 DEF Finish, Ended
  <2>4. p \in 0..100 /\ progress[t] <= p
    <3>1. progress[t] \in 0..100
      BY <2>2, PercentInRange
    <3>2. p = progress[t] \/ p = 100
      BY <2>2
    <3>3. QED BY <3>1, <3>2
  <2>5. progress'[u] >= progress[u]
    BY <1>1, <2>3, <2>4, ProgressTo, ZenonT(30) DEF FinishTask
  <2>6. status[u] \in Ended => status'[u] = status[u] /\ message'[u] = message[u]
    BY <1>1, <2>2, <2>3 DEF FinishTask, Ended
  <2>7. QED BY <2>5, <2>6 DEF Forward
<1>10. ASSUME NEW t \in Task, LastFlush(t) PROVE Forward(u)
  <2>1. /\ pc[t] = "last" /\ UNCHANGED <<status, message>>
        /\ progress' = [progress EXCEPT ![t] = Percent(mark[t])]
    BY <1>10 DEF LastFlush, Flush
  <2>2. progress[t] = Percent(mark[t])
    BY <2>1 DEF TaskInv, RunnerInv
  <2>3. QED BY <1>1, <2>1, <2>2 DEF Forward
<1>11. Crash => UNCHANGED <<status, message, progress>>
  BY DEF Crash, row
<1>12. UNCHANGED vars => UNCHANGED <<status, message, progress>>
  BY DEF vars
<1>13. QED
  BY <1>2, <1>3, <1>4, <1>5, <1>6, <1>7, <1>8, <1>9, <1>10, <1>11, <1>12, TaskStepCases

\* Progress never goes back and a verdict is never taken back.
THEOREM OnlyForward == Spec => NeverBackwards
<1>1. TaskInv /\ [Next]_vars =>
        [\A t \in Task : /\ progress'[t] >= progress[t]
                         /\ status[t] \in Ended => /\ status'[t] = status[t]
                                                   /\ message'[t] = message[t]]_vars
  BY StepsForward DEF Forward
<1>2. QED BY <1>1, RunnerCorrect, PTL DEF Spec, NeverBackwards
=============================================================================
