---------------------------- MODULE MCRecordsProofs ----------------------------
(***************************************************************************)
(* What is proved of the parts of MCRecords, as theorems of the            *)
(* composition its run checks.  A part's steps are the composition's while *)
(* focus is on it, so a part's invariant is one of the composition's.      *)
(***************************************************************************)
EXTENDS MCRecords, SequenceTheorems, FiniteSetTheorems, TLAPS

-----------------------------------------------------------------------------
(***************************************************************************)
(* GitDeploy.  HeadIsServed speaks of a site that rests; the invariant     *)
(* says what each list of steps still has ahead of it.  A commit may be    *)
(* recorded that is not served yet, but only while a job has the restart   *)
(* ahead, and then it is a deployment whose status says so (SideBySide) or *)
(* one of two jobs, whose failure is excused (Caught).  What a job has     *)
(* restarted the service on is the checkout, unless another changed it and *)
(* will restart it again (Latest); and commits only grow (Onwards), so     *)
(* that what is served is never older than what is recorded.               *)
(***************************************************************************)
\* What a job of each kind has left to do, and the part of those lists that has the
\* restart ahead, or the checkout.
PullTodo == IF kind = "node"
              THEN {<<"fetch", "build", "restart", "record">>, <<"build", "restart", "record">>,
                    <<"restart", "record">>, <<"record">>, <<>>}
              ELSE {<<"fetch", "record">>, <<"record">>, <<>>}
DeployTodo == IF kind = "node"
                THEN {<<"check", "clone", "record", "build", "restart">>,
                      <<"clone", "record", "build", "restart">>, <<"record", "build", "restart">>,
                      <<"starter", "build", "restart">>, <<"build", "restart">>, <<"restart">>, <<>>}
                ELSE {<<"check", "clone", "record">>, <<"clone", "record">>, <<"record">>,
                      <<"starter">>, <<>>}
RestartAhead == {<<"fetch", "build", "restart", "record">>, <<"build", "restart", "record">>,
                 <<"restart", "record">>, <<"check", "clone", "record", "build", "restart">>,
                 <<"clone", "record", "build", "restart">>, <<"record", "build", "restart">>,
                 <<"starter", "build", "restart">>, <<"build", "restart">>, <<"restart">>}
CheckoutAhead == {<<"fetch", "build", "restart", "record">>, <<"fetch", "record">>,
                  <<"check", "clone", "record", "build", "restart">>, <<"check", "clone", "record">>,
                  <<"clone", "record", "build", "restart">>, <<"clone", "record">>,
                  <<"starter", "build", "restart">>, <<"starter">>}
Todo(job) == CASE job = "pull" -> PullTodo [] job = "deploy" -> DeployTodo [] OTHER -> {<<>>}

RunTyped ==
    /\ DOMAIN builds = Worker
    /\ \A w \in Worker : /\ builds[w] = [job |-> builds[w].job, todo |-> builds[w].todo, beside |-> builds[w].beside]
                         /\ builds[w].job \in Git!Job \cup {"none"} /\ builds[w].beside \in BOOLEAN
                         /\ builds[w].todo \in Todo(builds[w].job)
GitTyped == Git!TypeOK /\ recorded # Git!None /\ RunTyped

\* Two jobs at once are known as such, and a deployment by itself by its status.
SideBySide ==
    /\ \A v, w \in Worker : v # w /\ Git!Busy(v) /\ Git!Busy(w) => builds[v].beside
    /\ \A w \in Worker : builds[w].job = "deploy" /\ ~builds[w].beside => deployed = "deploying"

\* The commits only grow, from the one recorded to the checkout to the branch.
Onwards ==
    /\ recorded <= head /\ tree <= head /\ served <= head
    /\ ~excused => /\ tree # Git!Starter /\ served # Git!Starter
                   /\ tree # Git!None => recorded <= tree
                   /\ IF kind = "php" THEN served = tree ELSE served # Git!None

\* A checkout that is gone is not that of an active site, nor of a job past it.
CheckedOut ==
    ~excused /\ tree = Git!None =>
        /\ deployed # "active"
        /\ \A w \in Worker : Git!Busy(w) => builds[w].todo \in CheckoutAhead

\* A job that has restarted the service served the checkout, unless another changes it.
AheadOf(w) == builds[w].todo \in RestartAhead
Restarted(w) == \/ builds[w].job = "pull" /\ builds[w].todo = <<"record">>
                \/ builds[w].job = "deploy" /\ builds[w].todo = <<>>
Latest ==
    ~excused /\ kind = "node" =>
        \A w \in Worker : Restarted(w) => served \in {tree, Git!Down} \/ \E v \in Worker : AheadOf(v)

\* What is recorded of an active site is served, or will be by one of two jobs.
Caught ==
    ~excused /\ kind = "node" /\ deployed = "active" =>
        \/ served = Git!Down
        \/ recorded <= served
        \/ \E v \in Worker : AheadOf(v) /\ builds[v].beside

GitInv == GitTyped /\ SideBySide /\ Onwards /\ CheckedOut /\ Latest /\ Caught

\* Where a job is, what its list is, and what the rest of it is.
RestOf(w) == Tail(builds[w].todo)
LEMMA JoinSteps ==
    /\ <<"check", "clone", "record">> \o <<"build", "restart">> = <<"check", "clone", "record", "build", "restart">>
    /\ <<"starter">> \o <<"build", "restart">> = <<"starter", "build", "restart">>
    /\ <<"check", "clone", "record">> \o <<>> = <<"check", "clone", "record">>
    /\ <<"starter">> \o <<>> = <<"starter">>
<1> DEFINE a == <<"check", "clone", "record">>  b == <<"build", "restart">>  c == <<"starter">>
           ab == <<"check", "clone", "record", "build", "restart">>
           cb == <<"starter", "build", "restart">>
           S == {"check", "clone", "record", "build", "restart", "starter"}
<1>1. /\ a \in Seq(S) /\ b \in Seq(S) /\ c \in Seq(S) /\ ab \in Seq(S) /\ cb \in Seq(S)
      /\ Len(a) = 3 /\ Len(b) = 2 /\ Len(c) = 1 /\ Len(ab) = 5 /\ Len(cb) = 3
  OBVIOUS
<1>2. /\ a \o b \in Seq(S) /\ Len(a \o b) = 5 /\ \A i \in 1..5 : (a \o b)[i] = ab[i]
      /\ c \o b \in Seq(S) /\ Len(c \o b) = 3 /\ \A i \in 1..3 : (c \o b)[i] = cb[i]
  BY <1>1, SMT
<1> HIDE DEF a, b, c, ab, cb, S
<1>3. a \o b = ab /\ c \o b = cb
  BY <1>1, <1>2, SeqEqual
<1>4. a \o <<>> = a /\ c \o <<>> = c
  BY <1>1, ConcatEmptySeq
<1>5. QED BY <1>3, <1>4 DEF a, b, c, ab, cb

LEMMA StepsAre ==
    ASSUME kind \in {"node", "php"}, source \in BOOLEAN
    PROVE  /\ Git!PullSteps \in PullTodo /\ Git!DeploySteps \in DeployTodo
           /\ Git!PullSteps \in CheckoutAhead /\ Git!DeploySteps \in CheckoutAhead
           /\ Git!PullSteps # <<"record">> /\ Git!DeploySteps # <<>>
<1>1. CASE kind = "node"
  <2>1. /\ Git!PullSteps = <<"fetch", "build", "restart", "record">>
        /\ Git!DeploySteps = IF source THEN <<"check", "clone", "record", "build", "restart">>
                                   ELSE <<"starter", "build", "restart">>
    BY <1>1, JoinSteps DEF Git!PullSteps, Git!DeploySteps
  <2>2. QED BY <1>1, <2>1 DEF PullTodo, DeployTodo, CheckoutAhead
<1>2. CASE kind = "php"
  <2>1. /\ Git!PullSteps = <<"fetch", "record">>
        /\ Git!DeploySteps = IF source THEN <<"check", "clone", "record">> ELSE <<"starter">>
    BY <1>2, JoinSteps DEF Git!PullSteps, Git!DeploySteps
  <2>2. QED BY <1>2, <2>1 DEF PullTodo, DeployTodo, CheckoutAhead
<1>3. QED BY <1>1, <1>2

LEMMA ListHeads ==
    /\ Head(<<"fetch", "build", "restart", "record">>) = "fetch" /\ Tail(<<"fetch", "build", "restart", "record">>) = <<"build", "restart", "record">>
    /\ Head(<<"build", "restart", "record">>) = "build" /\ Tail(<<"build", "restart", "record">>) = <<"restart", "record">>
    /\ Head(<<"restart", "record">>) = "restart" /\ Tail(<<"restart", "record">>) = <<"record">>
    /\ Head(<<"record">>) = "record" /\ Tail(<<"record">>) = <<>>
    /\ Head(<<"check", "clone", "record", "build", "restart">>) = "check" /\ Tail(<<"check", "clone", "record", "build", "restart">>) = <<"clone", "record", "build", "restart">>
    /\ Head(<<"clone", "record", "build", "restart">>) = "clone" /\ Tail(<<"clone", "record", "build", "restart">>) = <<"record", "build", "restart">>
    /\ Head(<<"record", "build", "restart">>) = "record" /\ Tail(<<"record", "build", "restart">>) = <<"build", "restart">>
    /\ Head(<<"starter", "build", "restart">>) = "starter" /\ Tail(<<"starter", "build", "restart">>) = <<"build", "restart">>
    /\ Head(<<"build", "restart">>) = "build" /\ Tail(<<"build", "restart">>) = <<"restart">>
    /\ Head(<<"restart">>) = "restart" /\ Tail(<<"restart">>) = <<>>
    /\ Head(<<"fetch", "record">>) = "fetch" /\ Tail(<<"fetch", "record">>) = <<"record">>
    /\ Head(<<"check", "clone", "record">>) = "check" /\ Tail(<<"check", "clone", "record">>) = <<"clone", "record">>
    /\ Head(<<"clone", "record">>) = "clone" /\ Tail(<<"clone", "record">>) = <<"record">>
    /\ Head(<<"starter">>) = "starter" /\ Tail(<<"starter">>) = <<>>
  OBVIOUS

LEMMA AtStep ==
    ASSUME GitTyped, NEW w \in Worker, NEW step, Git!At(w, step)
    PROVE  /\ builds[w].job \in Git!Job /\ Git!Busy(w) /\ (~Restarted(w) \/ step = "record")
           /\ RestOf(w) \in Todo(builds[w].job)
           /\ step = "fetch" => builds[w].job = "pull"
           /\ step \in {"check", "clone", "starter"} => builds[w].job = "deploy"
           /\ step \in {"record", "build", "restart"} => builds[w].todo \notin CheckoutAhead
           /\ step = "restart" => kind = "node"
           /\ kind = "node" /\ (step # "record" \/ builds[w].job = "deploy") => AheadOf(w)
           /\ kind = "node" /\ step \in {"check", "fetch", "clone", "starter", "build"} => RestOf(w) \in RestartAhead
           /\ kind = "node" /\ step = "record" /\ builds[w].job = "deploy" => RestOf(w) \in RestartAhead
           /\ kind = "node" /\ step = "record" /\ builds[w].job = "pull" => Restarted(w)
           /\ step = "check" => RestOf(w) \in CheckoutAhead
<1> DEFINE t == builds[w].todo
<1>1. builds[w].job \in Git!Job \cup {"none"} /\ t \in Todo(builds[w].job) /\ kind \in {"node", "php"}
      /\ t # <<>> /\ Head(t) = step /\ RestOf(w) = Tail(t)
  BY DEF GitTyped, RunTyped, Git!TypeOK, Git!At, RestOf
<1>2. builds[w].job \in Git!Job
  BY <1>1 DEF Todo, Git!Job
<1> HIDE DEF t
<1>3. CASE builds[w].job = "pull"
  <2>1. t \in PullTodo
    BY <1>1, <1>3 DEF Todo
  <2>2. CASE kind = "node"
    <3>1. CASE t = <<"fetch", "build", "restart", "record">>
      BY <1>1, <1>2, <1>3, <2>2, <3>1, ListHeads DEF PullTodo, Todo, Git!Busy, Restarted, AheadOf, RestartAhead, CheckoutAhead, t
    <3>2. CASE t = <<"build", "restart", "record">>
      BY <1>1, <1>2, <1>3, <2>2, <3>2, ListHeads DEF PullTodo, Todo, Git!Busy, Restarted, AheadOf, RestartAhead, CheckoutAhead, t
    <3>3. CASE t = <<"restart", "record">>
      BY <1>1, <1>2, <1>3, <2>2, <3>3, ListHeads DEF PullTodo, Todo, Git!Busy, Restarted, AheadOf, RestartAhead, CheckoutAhead, t
    <3>4. CASE t = <<"record">>
      BY <1>1, <1>2, <1>3, <2>2, <3>4, ListHeads DEF PullTodo, Todo, Git!Busy, Restarted, AheadOf, RestartAhead, CheckoutAhead, t
    <3>5. QED BY <1>1, <2>1, <2>2, <3>1, <3>2, <3>3, <3>4 DEF PullTodo
  <2>3. CASE kind = "php"
    <3>1. CASE t = <<"fetch", "record">>
      BY <1>1, <1>2, <1>3, <2>3, <3>1, ListHeads DEF PullTodo, Todo, Git!Busy, Restarted, AheadOf, RestartAhead, CheckoutAhead, t
    <3>2. CASE t = <<"record">>
      BY <1>1, <1>2, <1>3, <2>3, <3>2, ListHeads DEF PullTodo, Todo, Git!Busy, Restarted, AheadOf, RestartAhead, CheckoutAhead, t
    <3>3. QED BY <1>1, <2>1, <2>3, <3>1, <3>2 DEF PullTodo
  <2>4. QED BY <1>1, <2>2, <2>3
<1>4. CASE builds[w].job = "deploy"
  <2>1. t \in DeployTodo
    BY <1>1, <1>4 DEF Todo
  <2>2. CASE kind = "node"
    <3>1. CASE t = <<"check", "clone", "record", "build", "restart">>
      BY <1>1, <1>2, <1>4, <2>2, <3>1, ListHeads DEF DeployTodo, Todo, Git!Busy, Restarted, AheadOf, RestartAhead, CheckoutAhead, t
    <3>2. CASE t = <<"clone", "record", "build", "restart">>
      BY <1>1, <1>2, <1>4, <2>2, <3>2, ListHeads DEF DeployTodo, Todo, Git!Busy, Restarted, AheadOf, RestartAhead, CheckoutAhead, t
    <3>3. CASE t = <<"record", "build", "restart">>
      BY <1>1, <1>2, <1>4, <2>2, <3>3, ListHeads DEF DeployTodo, Todo, Git!Busy, Restarted, AheadOf, RestartAhead, CheckoutAhead, t
    <3>4. CASE t = <<"starter", "build", "restart">>
      BY <1>1, <1>2, <1>4, <2>2, <3>4, ListHeads DEF DeployTodo, Todo, Git!Busy, Restarted, AheadOf, RestartAhead, CheckoutAhead, t
    <3>5. CASE t = <<"build", "restart">>
      BY <1>1, <1>2, <1>4, <2>2, <3>5, ListHeads DEF DeployTodo, Todo, Git!Busy, Restarted, AheadOf, RestartAhead, CheckoutAhead, t
    <3>6. CASE t = <<"restart">>
      BY <1>1, <1>2, <1>4, <2>2, <3>6, ListHeads DEF DeployTodo, Todo, Git!Busy, Restarted, AheadOf, RestartAhead, CheckoutAhead, t
    <3>7. QED BY <1>1, <2>1, <2>2, <3>1, <3>2, <3>3, <3>4, <3>5, <3>6 DEF DeployTodo
  <2>3. CASE kind = "php"
    <3>1. CASE t = <<"check", "clone", "record">>
      BY <1>1, <1>2, <1>4, <2>3, <3>1, ListHeads DEF DeployTodo, Todo, Git!Busy, Restarted, AheadOf, RestartAhead, CheckoutAhead, t
    <3>2. CASE t = <<"clone", "record">>
      BY <1>1, <1>2, <1>4, <2>3, <3>2, ListHeads DEF DeployTodo, Todo, Git!Busy, Restarted, AheadOf, RestartAhead, CheckoutAhead, t
    <3>3. CASE t = <<"record">>
      BY <1>1, <1>2, <1>4, <2>3, <3>3, ListHeads DEF DeployTodo, Todo, Git!Busy, Restarted, AheadOf, RestartAhead, CheckoutAhead, t
    <3>4. CASE t = <<"starter">>
      BY <1>1, <1>2, <1>4, <2>3, <3>4, ListHeads DEF DeployTodo, Todo, Git!Busy, Restarted, AheadOf, RestartAhead, CheckoutAhead, t
    <3>5. QED BY <1>1, <2>1, <2>3, <3>1, <3>2, <3>3, <3>4 DEF DeployTodo
  <2>4. QED BY <1>1, <2>2, <2>3
<1>5. QED BY <1>2, <1>3, <1>4 DEF Git!Job

-----------------------------------------------------------------------------
LEMMA GitBegins == ASSUME Git!GitAssumption, Git!Init PROVE GitInv
<1>0. /\ source \in BOOLEAN /\ key \in BOOLEAN /\ readable \in BOOLEAN /\ schedule \in BOOLEAN
      /\ due \in BOOLEAN /\ secret \in BOOLEAN /\ excused \in BOOLEAN
  BY DEF Git!Init
<1>10. {source, key, readable, schedule, due, secret, excused} \subseteq BOOLEAN
  BY <1>0
<1>1. /\ kind \in {"node", "php"} /\ method \in {"none", "key", "token"}
      /\ deployed \in {"active", "deploying", "failed"} /\ jobs \in Seq(Git!Job)
      /\ DOMAIN builds = Worker
  BY DEF Git!Init
<1>8. /\ head \in Git!Commit /\ recorded \in Git!Commit /\ tree \in Git!Commit /\ served \in Git!Commit /\ recorded # Git!None
      /\ pulls \in 0..MaxAsked /\ edits \in 0..MaxEdits /\ buildTroubles \in 0..MaxTroubles
  BY DEF Git!Init, Git!GitAssumption, Git!Commit, Git!None
<1>9. look.pc = "idle" /\ look.recorded = Git!None
  BY DEF Git!Init, Git!NotLooking
<1>2. ASSUME NEW w \in Worker
      PROVE  /\ builds[w] = [job |-> "none", todo |-> <<>>, beside |-> FALSE]
             /\ builds[w].job = "none" /\ builds[w].todo = <<>> /\ builds[w].beside = FALSE
  BY DEF Git!Init, Git!Resting
<1>3. GitTyped
  BY <1>1, <1>10, <1>2, <1>8, <1>9 DEF GitTyped, RunTyped, Git!TypeOK, Todo
<1>4. SideBySide /\ CheckedOut
  <2>1. \A w \in Worker : ~Git!Busy(w) /\ builds[w].job # "deploy"
    BY <1>2 DEF Git!Busy
  <2>2. QED BY <2>1 DEF SideBySide, CheckedOut, Git!Init, Git!None
<1>5. Onwards /\ Caught
  BY DEF Onwards, Caught, Git!Init, Git!None, Git!Starter, Git!Down
<1>6. Latest
  BY <1>2 DEF Latest, Restarted
<1>7. QED BY <1>3, <1>4, <1>5, <1>6 DEF GitInv

\* What the requests, the poller and the repository do leaves the site as it is.
LEMMA GitElsewhere ==
    ASSUME GitInv, Git!TypeOK', head' \in Git!Commit, head <= head',
           UNCHANGED <<kind, deployed, recorded, Git!machine, builds, excused>>
    PROVE  GitInv'
<1> USE DEF GitInv, Git!machine
<1>1. GitTyped'
  BY DEF GitTyped, RunTyped, Todo, PullTodo, DeployTodo
<1>2. SideBySide' /\ CheckedOut' /\ Latest' /\ Caught'
  BY DEF SideBySide, CheckedOut, Latest, Caught, Git!Busy, AheadOf, Restarted
<1>3. recorded \in Git!Commit /\ tree \in Git!Commit \cup {Git!None, Git!Starter} /\ served \in Git!Commit \cup {Git!None, Git!Down, Git!Starter}
      /\ head \in Git!Commit /\ Git!Commit \subseteq Int
  BY DEF GitTyped, Git!TypeOK, Git!Commit
<1>4. Onwards'
  BY <1>3 DEF Onwards, Git!Commit, Git!None, Git!Starter, Git!Down
<1>5. QED BY <1>1, <1>2, <1>4

-----------------------------------------------------------------------------
\* A job goes on to its next step.
LEMMA GoesOn ==
    ASSUME GitTyped, NEW w \in Worker, NEW step, Git!At(w, step), UNCHANGED kind,
           builds' = [builds EXCEPT ![w].todo = Tail(@)]
    PROVE  /\ RunTyped'
           /\ \A v \in Worker : builds'[v].job = builds[v].job /\ builds'[v].beside = builds[v].beside
           /\ \A v \in Worker \ {w} : builds'[v] = builds[v]
           /\ builds'[w].todo = RestOf(w)
<1>1. RestOf(w) \in Todo(builds[w].job)
  BY AtStep
<1>2. /\ builds[w] = [job |-> builds[w].job, todo |-> builds[w].todo, beside |-> builds[w].beside]
      /\ DOMAIN builds = Worker
  BY DEF GitTyped, RunTyped
<1>3. /\ DOMAIN builds' = Worker /\ \A v \in Worker \ {w} : builds'[v] = builds[v]
      /\ builds'[w] = [builds[w] EXCEPT !.todo = RestOf(w)]
  BY <1>2 DEF RestOf
<1>4. builds'[w].job = builds[w].job /\ builds'[w].todo = RestOf(w) /\ builds'[w].beside = builds[w].beside
  BY <1>2, <1>3
<1>5. builds'[w] = [job |-> builds'[w].job, todo |-> builds'[w].todo, beside |-> builds'[w].beside]
  BY <1>2, <1>3
<1>6. \A job : Todo(job)' = Todo(job)
  BY DEF Todo, PullTodo, DeployTodo
<1>7. RunTyped'
  <2>1. ASSUME NEW v \in Worker
        PROVE  /\ builds'[v] = [job |-> builds'[v].job, todo |-> builds'[v].todo, beside |-> builds'[v].beside]
               /\ builds'[v].job \in Git!Job \cup {"none"} /\ builds'[v].beside \in BOOLEAN
               /\ builds'[v].todo \in Todo(builds'[v].job)
    BY <1>1, <1>3, <1>4, <1>5 DEF GitTyped, RunTyped
  <2>2. QED BY <1>3, <1>6, <2>1 DEF RunTyped
<1>8. QED BY <1>3, <1>4, <1>7

\* A job is over.
LEMMA GoesHome ==
    ASSUME GitTyped, NEW w \in Worker, UNCHANGED kind, builds' = [builds EXCEPT ![w] = Git!Resting]
    PROVE  /\ RunTyped' /\ ~Git!Busy(w)' /\ builds'[w] = Git!Resting
           /\ \A v \in Worker \ {w} : builds'[v] = builds[v]
<1> DEFINE no == FALSE
<1>1. /\ DOMAIN builds' = Worker /\ \A v \in Worker \ {w} : builds'[v] = builds[v]
      /\ builds'[w] = [job |-> "none", todo |-> <<>>, beside |-> no] /\ no \in BOOLEAN
  BY DEF GitTyped, RunTyped, Git!Resting
<1> HIDE DEF no
<1>2. /\ builds'[w] = [job |-> builds'[w].job, todo |-> builds'[w].todo, beside |-> builds'[w].beside]
      /\ builds'[w].job = "none" /\ builds'[w].todo = <<>> /\ builds'[w].beside \in BOOLEAN
  BY <1>1
<1>3. \A job : Todo(job)' = Todo(job)
  BY DEF Todo, PullTodo, DeployTodo
<1>4. Todo("none") = {<<>>}
  BY DEF Todo
<1>5. RunTyped'
  BY <1>1, <1>2, <1>3, <1>4 DEF GitTyped, RunTyped
<1>6. builds'[w] = Git!Resting
  BY <1>1 DEF no, Git!Resting
<1>7. QED BY <1>1, <1>2, <1>5, <1>6 DEF Git!Busy

\* The types, but for what a step changes.
LEMMA TypesKeep ==
    ASSUME GitTyped, RunTyped',
           UNCHANGED <<kind, head, Git!settings, jobs, look, pulls, edits>>,
           deployed' \in {"active", "deploying", "failed"}, recorded' \in Git!Commit,
           tree' \in Git!Commit \cup {Git!None, Git!Starter}, served' \in Git!Commit \cup {Git!None, Git!Down, Git!Starter},
           buildTroubles' \in 0..MaxTroubles, excused' \in BOOLEAN
    PROVE  GitTyped'
<1>1. {source, key, readable, schedule, due, secret, excused}' \subseteq BOOLEAN
  BY DEF GitTyped, Git!TypeOK, Git!settings
<1>2. QED BY <1>1 DEF GitTyped, Git!TypeOK, Git!settings, RunTyped, Git!Commit, Git!None

LEMMA AheadIsNotDone == <<"record">> \notin RestartAhead /\ <<>> \notin RestartAhead
<1>1. \A t \in RestartAhead : Len(t) # 0 /\ (Len(t) = 1 => t[1] = "restart")
  BY DEF RestartAhead
<1>2. Len(<<"record">>) = 1 /\ <<"record">>[1] = "record" /\ Len(<<>>) = 0
  OBVIOUS
<1>3. QED BY <1>1, <1>2

LEMMA AheadIsBusy == ASSUME GitTyped, NEW v \in Worker, AheadOf(v) PROVE Git!Busy(v)
<1>1. builds[v].todo # <<>>
  BY AheadIsNotDone DEF AheadOf
<1>2. builds[v].todo \in Todo(builds[v].job)
  BY DEF GitTyped, RunTyped
<1>3. QED BY <1>1, <1>2 DEF Todo, Git!Busy

LEMMA CommitsAre ==
    ASSUME GitTyped
    PROVE  /\ head \in Git!Commit /\ recorded \in Git!Commit /\ Git!Commit \subseteq Int
           /\ tree \in Git!Commit \cup {Git!None, Git!Starter} /\ served \in Git!Commit \cup {Git!None, Git!Down, Git!Starter}
           /\ Git!None = 0 /\ Git!Down = -1 /\ Git!Starter = -2 /\ \A c \in Git!Commit : c > 0
           /\ kind \in {"node", "php"} /\ excused \in BOOLEAN
           /\ \A w \in Worker : builds[w].beside \in BOOLEAN
  BY DEF GitTyped, RunTyped, Git!TypeOK, Git!Commit, Git!None, Git!Down, Git!Starter

\* A job that fails by itself is a pull, which changes nothing that is served,
\* or a deployment, which says that it failed.
LEMMA StopKeeps ==
    ASSUME GitInv, NEW w \in Worker, Git!Busy(w), Git!Stop(w),
           UNCHANGED <<kind, head, Git!settings, jobs, look, pulls, edits, recorded>>,
           buildTroubles' \in 0..MaxTroubles,
           tree' = tree \/ (tree' = Git!None /\ builds[w].job = "deploy"),
           IF kind = "php" THEN served' = tree' \/ excused ELSE served' \in {served, Git!Down},
           served' \in Git!Commit \cup {Git!None, Git!Down, Git!Starter}, served' <= head
    PROVE  GitInv'
<1> USE CommitsAre DEF GitInv
<1>1. /\ RunTyped' /\ ~Git!Busy(w)' /\ builds'[w] = Git!Resting
      /\ \A v \in Worker \ {w} : builds'[v] = builds[v]
  BY GoesHome DEF Git!Stop
<1>2. GitTyped'
  <2>1. deployed' \in {"active", "deploying", "failed"}
    BY DEF Git!Stop, GitTyped, Git!TypeOK
  <2>2. excused' \in BOOLEAN
    BY DEF Git!Stop
  <2>3. QED BY <1>1, <2>1, <2>2, TypesKeep
<1>3. builds[w].job \in Git!Job
  BY DEF GitTyped, RunTyped, Git!Busy
<1>4. ASSUME ~excused' PROVE ~excused /\ ~builds[w].beside /\ \A v \in Worker \ {w} : ~Git!Busy(v)
  BY <1>4 DEF Git!Stop, SideBySide
<1>5. \A v \in Worker : builds'[v].todo # <<>> \/ Git!Busy(v)' => v # w
  BY <1>1 DEF Git!Resting
<1>6. SideBySide'
  <2>1. \A v, u \in Worker : v # u /\ Git!Busy(v)' /\ Git!Busy(u)' => builds'[v].beside
    BY <1>1, <1>5 DEF SideBySide, Git!Busy
  <2>2. ASSUME NEW v \in Worker, builds'[v].job = "deploy", ~builds'[v].beside PROVE deployed' = "deploying"
    <3>1. v # w /\ builds'[v] = builds[v] /\ Git!Busy(v)
      BY <1>1, <2>2 DEF Git!Resting, Git!Busy
    <3>2. ~builds[v].beside /\ builds[v].job = "deploy"
      BY <2>2, <3>1
    <3>3. FALSE
      BY <3>1, <3>2 DEF SideBySide
    <3>4. QED BY <3>3
  <2>3. QED BY <2>1, <2>2 DEF SideBySide
<1>7. Onwards'
  BY <1>4 DEF Onwards
<1>8. CheckedOut'
  <2>1. SUFFICES ASSUME ~excused', tree' = Git!None PROVE deployed' # "active" /\ \A v \in Worker : ~Git!Busy(v)'
    BY DEF CheckedOut
  <2>2. \A v \in Worker : ~Git!Busy(v)'
    BY <1>1, <1>4, <2>1 DEF Git!Busy
  <2>3. deployed' # "active"
    BY <1>4, <2>1 DEF Git!Stop, CheckedOut
  <2>4. QED BY <2>2, <2>3
<1>9. Latest'
  <2>1. ~excused' => \A v \in Worker : ~Restarted(v)'
    BY <1>1, <1>4 DEF Restarted, Git!Busy, Git!Resting
  <2>2. QED BY <2>1 DEF Latest
<1>10. Caught'
  <2>1. SUFFICES ASSUME ~excused', kind' = "node", deployed' = "active" PROVE served' = Git!Down \/ recorded' <= served'
    BY DEF Caught
  <2>2. deployed = "active"
    BY <2>1 DEF Git!Stop
  <2>3. ~\E v \in Worker : AheadOf(v) /\ builds[v].beside
    BY <1>4, <2>1, AheadIsBusy
  <2>4. QED BY <1>4, <2>1, <2>2, <2>3 DEF Caught
<1>11. QED BY <1>2, <1>6, <1>7, <1>8, <1>9, <1>10

\* A job that goes on with the restart ahead of it, or the site's status its own.
LEMMA PassKeeps ==
    ASSUME GitInv, NEW w \in Worker, NEW step, Git!At(w, step), Git!Pass(w),
           UNCHANGED <<kind, head, Git!settings, jobs, look, pulls, edits, buildTroubles>>,
           recorded' \in Git!Commit, tree' \in Git!Commit \cup {Git!None, Git!Starter},
           served' \in Git!Commit \cup {Git!None, Git!Down, Git!Starter},
           Onwards', CheckedOut', Latest', Caught'
    PROVE  GitInv'
<1> USE DEF GitInv
<1>1. /\ RunTyped'
      /\ \A v \in Worker : builds'[v].job = builds[v].job /\ builds'[v].beside = builds[v].beside
  BY GoesOn DEF Git!Pass
<1>2. GitTyped'
  <2>1. deployed' \in {"active", "deploying", "failed"} /\ excused' \in BOOLEAN /\ buildTroubles' \in 0..MaxTroubles
    BY CommitsAre DEF Git!Pass, GitTyped, Git!TypeOK
  <2>2. QED BY <1>1, <2>1, TypesKeep
<1>3. SideBySide'
  BY <1>1 DEF SideBySide, Git!Busy, Git!Pass
<1>4. QED BY <1>2, <1>3

\* The checkout is at the branch's head, and the restart is ahead.
LEMMA CheckoutKeeps ==
    ASSUME GitInv, NEW w \in Worker, NEW step \in {"fetch", "clone"}, Git!At(w, step), Git!Pass(w),
           UNCHANGED <<kind, head, Git!settings, jobs, look, pulls, edits, buildTroubles, recorded>>,
           tree' = head, Git!Serve(head)
    PROVE  GitInv'
<1> USE CommitsAre DEF GitInv
<1>1. /\ \A v \in Worker : builds'[v].job = builds[v].job /\ builds'[v].beside = builds[v].beside
      /\ \A v \in Worker \ {w} : builds'[v] = builds[v]
      /\ builds'[w].todo = RestOf(w) /\ excused' = excused /\ deployed' = deployed
  BY GoesOn DEF Git!Pass
<1>2. /\ kind = "node" => AheadOf(w) /\ AheadOf(w)'
      /\ Git!Busy(w)
  BY <1>1, AtStep DEF AheadOf
<1>3. Onwards'
  BY <1>1 DEF Onwards, Git!Serve
<1>4. CheckedOut'
  BY DEF CheckedOut
<1>5. Latest'
  BY <1>2 DEF Latest
<1>6. Caught'
  <2>1. ASSUME kind = "node", NEW v \in Worker, AheadOf(v), builds[v].beside PROVE AheadOf(v)' /\ builds'[v].beside
    BY <1>1, <1>2, <2>1 DEF AheadOf
  <2>2. QED BY <1>1, <2>1 DEF Caught, Git!Serve
<1>7. QED BY <1>3, <1>4, <1>5, <1>6, PassKeeps DEF Git!Serve

LEMMA FetchKeeps == ASSUME Git!GitAssumption, GitInv, NEW w \in Worker, Git!Fetch(w) PROVE GitInv'
<1>1. Git!At(w, "fetch") /\ Git!Busy(w) /\ UNCHANGED <<Git!rest, recorded>>
  BY AtStep DEF Git!Fetch, GitInv
<1>2. buildTroubles' \in 0..MaxTroubles
  BY DEF Git!Fetch, Git!Calm, Git!Trouble, Git!GitAssumption, GitInv, GitTyped, Git!TypeOK
<1>3. CASE Git!Pass(w) /\ tree' = head /\ Git!Serve(head) /\ Git!Calm
  BY <1>1, <1>3, CheckoutKeeps DEF Git!Calm, Git!rest
<1>4. CASE Git!Stop(w) /\ UNCHANGED Git!machine
  BY <1>1, <1>2, <1>4, StopKeeps, CommitsAre DEF Git!rest, Git!machine, GitInv, Onwards
<1>5. QED BY <1>3, <1>4 DEF Git!Fetch

LEMMA CheckKeeps == ASSUME GitInv, NEW w \in Worker, Git!checkRepository(w) PROVE GitInv'
<1>1. Git!At(w, "check") /\ Git!Busy(w) /\ UNCHANGED <<Git!rest, recorded, Git!machine, buildTroubles>>
  BY AtStep DEF Git!checkRepository, GitInv, Git!Calm
<1>2. buildTroubles' \in 0..MaxTroubles
  BY <1>1 DEF GitInv, GitTyped, Git!TypeOK
<1>3. CASE Git!Pass(w)
  <2> USE CommitsAre DEF GitInv
  <2>1. /\ \A v \in Worker : builds'[v].job = builds[v].job /\ builds'[v].beside = builds[v].beside
        /\ \A v \in Worker \ {w} : builds'[v] = builds[v]
        /\ builds'[w].todo = RestOf(w) /\ excused' = excused /\ deployed' = deployed
    BY <1>1, <1>3, GoesOn DEF Git!Pass, Git!rest
  <2>2. /\ kind = "node" => AheadOf(w) /\ AheadOf(w)'
        /\ RestOf(w) \in CheckoutAhead
    BY <1>1, <2>1, AtStep DEF AheadOf
  <2>3. Onwards'
    BY <1>1, <2>1 DEF Onwards, Git!rest, Git!machine
  <2>4. CheckedOut'
    BY <1>1, <2>1, <2>2 DEF CheckedOut, Git!rest, Git!machine, Git!Busy
  <2>5. Latest'
    BY <1>1, <2>2 DEF Latest, Git!rest
  <2>6. Caught'
    <3>1. ASSUME kind = "node", NEW v \in Worker, AheadOf(v), builds[v].beside PROVE AheadOf(v)' /\ builds'[v].beside
      BY <2>1, <2>2, <3>1 DEF AheadOf
    <3>2. QED BY <1>1, <2>1, <3>1 DEF Caught, Git!rest, Git!machine
  <2>7. QED BY <1>1, <1>3, <2>3, <2>4, <2>5, <2>6, PassKeeps DEF Git!rest, Git!machine
<1>4. CASE Git!Stop(w)
  BY <1>1, <1>2, <1>4, StopKeeps, CommitsAre DEF Git!rest, Git!machine, GitInv, Onwards
<1>5. QED BY <1>3, <1>4 DEF Git!checkRepository

LEMMA CloneKeeps == ASSUME Git!GitAssumption, GitInv, NEW w \in Worker, Git!Clone(w) PROVE GitInv'
<1>1. Git!At(w, "clone") /\ Git!Busy(w) /\ builds[w].job = "deploy" /\ UNCHANGED <<Git!rest, recorded>>
  BY AtStep DEF Git!Clone, GitInv
<1>2. buildTroubles' \in 0..MaxTroubles
  BY DEF Git!Clone, Git!Calm, Git!Trouble, Git!GitAssumption, GitInv, GitTyped, Git!TypeOK
<1>3. CASE Git!Pass(w) /\ tree' = head /\ Git!Serve(head) /\ Git!Calm
  BY <1>1, <1>3, CheckoutKeeps DEF Git!Calm, Git!rest
<1>4. CASE Git!Stop(w) /\ tree' = Git!None /\ Git!Serve(Git!None)
  BY <1>1, <1>2, <1>4, StopKeeps, CommitsAre DEF Git!rest, Git!Serve, GitInv, Onwards
<1>5. QED BY <1>3, <1>4 DEF Git!Clone

\* Without its repository a site is nobody's promise.
LEMMA StarterKeeps == ASSUME GitInv, NEW w \in Worker, Git!WriteStarter(w) PROVE GitInv'
<1> USE CommitsAre DEF GitInv
<1>1. Git!At(w, "starter") /\ excused' /\ UNCHANGED <<Git!rest, deployed, recorded, buildTroubles>>
      /\ builds' = [builds EXCEPT ![w].todo = Tail(@)]
  BY DEF Git!WriteStarter, Git!Calm
<1>2. /\ RunTyped'
      /\ \A v \in Worker : builds'[v].job = builds[v].job /\ builds'[v].beside = builds[v].beside
  BY <1>1, GoesOn DEF Git!rest
<1>3. GitTyped'
  <2>1. tree' \in {Git!Starter} /\ served' \in {served, Git!Starter} /\ excused' \in BOOLEAN
    BY <1>1 DEF Git!WriteStarter, Git!Serve
  <2>2. deployed' \in {"active", "deploying", "failed"} /\ buildTroubles' \in 0..MaxTroubles
    BY <1>1 DEF GitTyped, Git!TypeOK
  <2>3. QED BY <1>1, <1>2, <2>1, <2>2, TypesKeep DEF Git!rest
<1>4. SideBySide'
  BY <1>1, <1>2 DEF SideBySide, Git!Busy
<1>5. Onwards' /\ CheckedOut' /\ Latest' /\ Caught'
  <2>1. tree' = Git!Starter /\ served' \in {served, Git!Starter}
    BY DEF Git!WriteStarter, Git!Serve
  <2>2. QED BY <1>1, <2>1 DEF Onwards, CheckedOut, Latest, Caught, Git!rest
<1>6. QED BY <1>3, <1>4, <1>5

\* What is recorded is served, or a job beside this one has the restart ahead, or
\* the job itself has, and the site is not active.
LEMMA RecordKeeps == ASSUME GitInv, NEW w \in Worker, Git!recordCommit(w) PROVE GitInv'
<1> USE CommitsAre DEF GitInv
<1>1. Git!At(w, "record") /\ Git!Busy(w) /\ Git!Pass(w) /\ builds[w].job \in Git!Job /\ UNCHANGED <<Git!rest, Git!machine, buildTroubles>>
      /\ recorded' = IF tree \in Git!Commit THEN tree ELSE recorded
  BY AtStep DEF Git!recordCommit, Git!Calm
<1>2. /\ \A v \in Worker : builds'[v].job = builds[v].job /\ builds'[v].beside = builds[v].beside
      /\ \A v \in Worker \ {w} : builds'[v] = builds[v]
      /\ builds'[w].todo = RestOf(w) /\ excused' = excused /\ deployed' = deployed
  BY <1>1, GoesOn DEF Git!Pass, Git!rest
<1>3. ~excused => tree # Git!None /\ tree \in Git!Commit /\ recorded' = tree
  <2>1. builds[w].todo \notin CheckoutAhead
    BY <1>1, AtStep
  <2>2. QED BY <1>1, <2>1 DEF CheckedOut, Onwards
<1>4. /\ kind = "node" /\ builds[w].job = "deploy" => AheadOf(w) /\ AheadOf(w)'
      /\ kind = "node" /\ builds[w].job = "pull" => Restarted(w)
  BY <1>1, <1>2, AtStep DEF AheadOf
<1>5. ASSUME NEW v \in Worker, kind = "node", AheadOf(v) PROVE AheadOf(v)'
  <2>1. CASE v = w
    <3>1. builds[w].job # "pull"
      BY <1>4, <1>5, <2>1, AheadIsNotDone DEF AheadOf, Restarted
    <3>2. QED BY <1>1, <1>4, <1>5, <2>1, <3>1 DEF Git!Job
  <2>2. CASE v # w
    BY <1>2, <1>5, <2>2 DEF AheadOf
  <2>3. QED BY <2>1, <2>2
<1>6. Onwards'
  BY <1>1, <1>2, <1>3 DEF Onwards, Git!rest, Git!machine
<1>7. CheckedOut'
  BY <1>1, <1>2, <1>3 DEF CheckedOut, Git!rest, Git!machine
<1>8. Latest'
  <2>1. SUFFICES ASSUME ~excused, kind = "node", NEW v \in Worker, Restarted(v)'
                 PROVE  served' \in {tree', Git!Down} \/ \E u \in Worker : AheadOf(u)'
    BY <1>1, <1>2 DEF Latest, Git!rest
  <2>2. CASE v = w
    <3>1. CASE builds[w].job = "deploy"
      BY <1>4, <2>1, <3>1
    <3>2. CASE builds[w].job = "pull"
      BY <1>1, <1>4, <1>5, <2>1, <3>2 DEF Latest, Git!machine
    <3>3. QED BY <1>1, <3>1, <3>2 DEF Git!Job
  <2>3. CASE v # w
    <3>1. Restarted(v)
      BY <1>2, <2>1, <2>3 DEF Restarted
    <3>2. QED BY <1>1, <1>5, <2>1, <3>1 DEF Latest, Git!machine
  <2>4. QED BY <2>2, <2>3
<1>9. Caught'
  <2>1. SUFFICES ASSUME ~excused, kind = "node", deployed = "active"
                 PROVE  \/ served = Git!Down \/ recorded' <= served
                        \/ \E v \in Worker : AheadOf(v)' /\ builds'[v].beside
    BY <1>1, <1>2 DEF Caught, Git!rest, Git!machine
  <2>2. CASE builds[w].job = "deploy"
    BY <1>2, <1>4, <2>1, <2>2 DEF SideBySide
  <2>3. CASE builds[w].job = "pull"
    <3>1. CASE \E v \in Worker : AheadOf(v)
      <4>1. PICK v \in Worker : AheadOf(v)
        BY <3>1
      <4>2. v # w
        BY <1>4, <2>1, <2>3, <4>1, AheadIsNotDone DEF AheadOf, Restarted
      <4>3. Git!Busy(v)
        BY <4>1, AheadIsBusy
      <4>4. builds[v].beside
        BY <1>1, <4>2, <4>3 DEF SideBySide
      <4>5. QED BY <1>2, <1>5, <2>1, <4>1, <4>4
    <3>2. CASE ~\E v \in Worker : AheadOf(v)
      BY <1>3, <1>4, <2>1, <2>3, <3>2 DEF Latest
    <3>3. QED BY <3>1, <3>2
  <2>4. QED BY <1>1, <2>2, <2>3 DEF Git!Job
<1>10. recorded' \in Git!Commit
  BY <1>1
<1>11. QED BY <1>1, <1>6, <1>7, <1>8, <1>9, <1>10, PassKeeps DEF Git!rest, Git!machine

LEMMA BuildKeeps == ASSUME Git!GitAssumption, GitInv, NEW w \in Worker, Git!Build(w) PROVE GitInv'
<1>1. Git!At(w, "build") /\ Git!Busy(w) /\ UNCHANGED <<Git!rest, recorded, Git!machine>>
  BY AtStep DEF Git!Build, GitInv
<1>2. buildTroubles' \in 0..MaxTroubles
  BY DEF Git!Build, Git!Calm, Git!Trouble, Git!GitAssumption, GitInv, GitTyped, Git!TypeOK
<1>3. CASE Git!Pass(w) /\ tree # Git!None /\ Git!Calm
  <2> USE CommitsAre DEF GitInv
  <2>1. /\ \A v \in Worker : builds'[v].job = builds[v].job /\ builds'[v].beside = builds[v].beside
        /\ \A v \in Worker \ {w} : builds'[v] = builds[v]
        /\ builds'[w].todo = RestOf(w) /\ excused' = excused /\ deployed' = deployed
    BY <1>1, <1>3, GoesOn DEF Git!Pass, Git!rest
  <2>2. kind = "node" => AheadOf(w) /\ AheadOf(w)'
    BY <1>1, <2>1, AtStep DEF AheadOf
  <2>3. Onwards' /\ CheckedOut'
    BY <1>1, <1>3, <2>1 DEF Onwards, CheckedOut, Git!rest, Git!machine
  <2>4. Latest'
    BY <1>1, <2>2 DEF Latest, Git!rest
  <2>5. Caught'
    <3>1. ASSUME kind = "node", NEW v \in Worker, AheadOf(v), builds[v].beside PROVE AheadOf(v)' /\ builds'[v].beside
      BY <2>1, <2>2, <3>1 DEF AheadOf
    <3>2. QED BY <1>1, <2>1, <3>1 DEF Caught, Git!rest, Git!machine
  <2>6. QED BY <1>1, <1>3, <2>3, <2>4, <2>5, PassKeeps DEF Git!rest, Git!machine, Git!Calm
<1>4. CASE Git!Stop(w)
  BY <1>1, <1>2, <1>4, StopKeeps, CommitsAre DEF Git!rest, Git!machine, GitInv, Onwards
<1>5. QED BY <1>3, <1>4 DEF Git!Build

\* The service comes up on the checkout, which has what is recorded.
LEMMA RestartKeeps == ASSUME Git!GitAssumption, GitInv, NEW w \in Worker, Git!Restart(w) PROVE GitInv'
<1>1. Git!At(w, "restart") /\ Git!Busy(w) /\ kind = "node" /\ UNCHANGED <<Git!rest, recorded, tree>>
  BY AtStep DEF Git!Restart, GitInv
<1>2. buildTroubles' \in 0..MaxTroubles
  BY DEF Git!Restart, Git!Calm, Git!Trouble, Git!GitAssumption, GitInv, GitTyped, Git!TypeOK
<1>3. CASE Git!Pass(w) /\ tree # Git!None /\ Git!Calm /\ served' = tree
  <2> USE CommitsAre DEF GitInv
  <2>1. /\ \A v \in Worker : builds'[v].job = builds[v].job /\ builds'[v].beside = builds[v].beside
        /\ excused' = excused /\ deployed' = deployed
    BY <1>1, <1>3, GoesOn DEF Git!Pass, Git!rest
  <2>2. Onwards' /\ CheckedOut'
    BY <1>1, <1>3, <2>1 DEF Onwards, CheckedOut, Git!rest
  <2>3. Latest'
    BY <1>1, <1>3, <2>1 DEF Latest, Git!rest
  <2>4. Caught'
    BY <1>1, <1>3, <2>1 DEF Caught, Onwards, Git!rest
  <2>5. QED BY <1>1, <1>3, <2>2, <2>3, <2>4, PassKeeps DEF Git!rest, Git!Calm
<1>4. CASE Git!Stop(w) /\ served' = Git!Down
  BY <1>1, <1>2, <1>4, StopKeeps, CommitsAre DEF Git!rest, GitInv, Onwards
<1>5. QED BY <1>3, <1>4 DEF Git!Restart

\* A deployment that says so has the service on what is recorded, unless another
\* has the restart ahead.
LEMMA FinishKeeps == ASSUME GitInv, NEW w \in Worker, Git!Finish(w) PROVE GitInv'
<1> USE CommitsAre DEF GitInv
<1>1. /\ Git!Busy(w) /\ builds[w].todo = <<>> /\ builds' = [builds EXCEPT ![w] = Git!Resting]
      /\ UNCHANGED <<Git!rest, recorded, Git!machine, buildTroubles, excused>>
      /\ deployed' = IF builds[w].job = "deploy" THEN "active" ELSE deployed
  BY DEF Git!Finish
<1>2. /\ RunTyped' /\ ~Git!Busy(w)' /\ builds'[w] = Git!Resting
      /\ \A v \in Worker \ {w} : builds'[v] = builds[v]
  BY <1>1, GoesHome DEF Git!rest
<1>3. GitTyped'
  <2>1. /\ deployed' \in {"active", "deploying", "failed"} /\ buildTroubles' \in 0..MaxTroubles
        /\ excused' \in BOOLEAN
    BY <1>1 DEF GitTyped, Git!TypeOK
  <2>2. QED BY <1>1, <1>2, <2>1, TypesKeep DEF Git!rest, Git!machine
<1>4. \A v \in Worker : Git!Busy(v)' => v # w /\ builds'[v] = builds[v] /\ Git!Busy(v) /\ builds[v].beside
  BY <1>1, <1>2 DEF SideBySide, Git!Busy, Git!Resting
<1>5. SideBySide'
  <2>1. \A v \in Worker : Git!Busy(v)' => builds'[v].beside
    BY <1>4
  <2>2. \A v \in Worker : builds'[v].job = "deploy" => Git!Busy(v)'
    BY DEF Git!Busy
  <2>3. QED BY <2>1, <2>2 DEF SideBySide
<1>6. Onwards'
  BY <1>1 DEF Onwards, Git!rest, Git!machine
<1>7. ~excused => tree # Git!None
  <2>1. <<>> \notin CheckoutAhead
    BY DEF CheckoutAhead
  <2>2. QED BY <1>1, <2>1 DEF CheckedOut
<1>8. CheckedOut'
  BY <1>1, <1>7 DEF CheckedOut, Git!rest, Git!machine
<1>9. \A v \in Worker : AheadOf(v) => v # w /\ AheadOf(v)' /\ builds'[v].beside
  <2>1. \A v \in Worker : AheadOf(v) => v # w /\ Git!Busy(v)
    BY <1>1, AheadIsBusy, AheadIsNotDone DEF AheadOf
  <2>2. QED BY <1>2, <1>1, <2>1 DEF AheadOf, SideBySide
<1>10. Latest'
  <2>1. \A v \in Worker : Restarted(v)' => Restarted(v)
    BY <1>2 DEF Restarted, Git!Resting
  <2>2. QED BY <1>1, <1>9, <2>1 DEF Latest, Git!rest, Git!machine
<1>11. Caught'
  <2>1. CASE builds[w].job = "deploy"
    <3>1. Restarted(w)
      BY <1>1, <2>1 DEF Restarted
    <3>2. ~excused /\ kind = "node" => served = Git!Down \/ recorded <= served \/ \E v \in Worker : AheadOf(v)
      BY <1>7, <3>1 DEF Latest, Onwards
    <3>3. QED BY <1>1, <1>9, <3>2 DEF Caught, Git!rest, Git!machine
  <2>2. CASE builds[w].job # "deploy"
    BY <1>1, <1>9, <2>2 DEF Caught, Git!rest, Git!machine
  <2>3. QED BY <2>1, <2>2
<1>12. QED BY <1>3, <1>5, <1>6, <1>8, <1>10, <1>11

\* A job begins with the whole of its list ahead.
LEMMA BeginKeeps ==
    ASSUME GitInv, NEW w \in Worker, ~Git!Busy(w), NEW j \in Git!Job, NEW steps, Git!Start(w, j, steps),
           steps \in Todo(j), steps \in CheckoutAhead, steps # <<"record">>, steps # <<>>,
           deployed' = IF j = "deploy" THEN "deploying" ELSE deployed,
           jobs' \in Seq(Git!Job),
           UNCHANGED <<kind, head, Git!settings, recorded, Git!machine, look, pulls, edits, buildTroubles, excused>>
    PROVE  GitInv'
<1> USE CommitsAre DEF GitInv
<1> DEFINE others == ~Git!Alone(w)
<1>1. /\ builds'[w] = [job |-> j, todo |-> steps, beside |-> others]
      /\ \A v \in Worker \ {w} : builds'[v] = [builds[v] EXCEPT !.beside = Git!Busy(v)]
      /\ DOMAIN builds' = Worker
  BY DEF Git!Start
<1>2. others \in BOOLEAN /\ (others <=> \E v \in Worker \ {w} : Git!Busy(v))
  BY DEF Git!Alone
<1> HIDE DEF others
<1>3. /\ builds'[w].job = j /\ builds'[w].todo = steps /\ builds'[w].beside = others
      /\ builds'[w] = [job |-> builds'[w].job, todo |-> builds'[w].todo, beside |-> builds'[w].beside]
  BY <1>1, SMT
<1>4. ASSUME NEW v \in Worker \ {w}
      PROVE  /\ builds'[v].job = builds[v].job /\ builds'[v].todo = builds[v].todo
             /\ builds'[v].beside \in BOOLEAN /\ (builds'[v].beside <=> Git!Busy(v))
             /\ builds'[v] = [job |-> builds'[v].job, todo |-> builds'[v].todo, beside |-> builds'[v].beside]
  <2> DEFINE b == Git!Busy(v)
  <2>1. b \in BOOLEAN /\ (b <=> Git!Busy(v))
    BY DEF Git!Busy
  <2>2. builds'[v] = [builds[v] EXCEPT !.beside = b]
    BY <1>1
  <2>3. builds[v] = [job |-> builds[v].job, todo |-> builds[v].todo, beside |-> builds[v].beside]
    BY DEF GitTyped, RunTyped
  <2> HIDE DEF b
  <2>4. builds'[v] = [job |-> builds[v].job, todo |-> builds[v].todo, beside |-> b]
    BY <2>2, <2>3, SMT
  <2>5. QED BY <2>1, <2>4, SMT
<1>5. \A job : Todo(job)' = Todo(job)
  BY DEF Todo, PullTodo, DeployTodo
<1>6. RunTyped'
  <2>1. ASSUME NEW v \in Worker
        PROVE  /\ builds'[v] = [job |-> builds'[v].job, todo |-> builds'[v].todo, beside |-> builds'[v].beside]
               /\ builds'[v].job \in Git!Job \cup {"none"} /\ builds'[v].beside \in BOOLEAN
               /\ builds'[v].todo \in Todo(builds'[v].job)
    BY <1>2, <1>3, <1>4 DEF GitTyped, RunTyped
  <2>2. QED BY <1>1, <1>5, <2>1 DEF RunTyped
<1>7. GitTyped'
  <2>1. {source, key, readable, schedule, due, secret, excused}' \subseteq BOOLEAN
    BY DEF GitTyped, Git!TypeOK, Git!settings
  <2>2. deployed' \in {"active", "deploying", "failed"}
    BY DEF GitTyped, Git!TypeOK
  <2>3. QED BY <1>6, <2>1, <2>2 DEF GitTyped, Git!TypeOK, Git!settings, Git!machine, RunTyped
<1>8. SideBySide'
  <2>1. ASSUME NEW u \in Worker, NEW v \in Worker, u # v, Git!Busy(u)', Git!Busy(v)' PROVE builds'[u].beside
    BY <1>2, <1>3, <1>4, <2>1 DEF Git!Busy
  <2>2. ASSUME NEW v \in Worker, builds'[v].job = "deploy", ~builds'[v].beside PROVE deployed' = "deploying"
    <3>1. v = w
      BY <1>4, <2>2 DEF Git!Busy
    <3>2. QED BY <1>3, <2>2, <3>1
  <2>3. QED BY <2>1, <2>2 DEF SideBySide
<1>9. Onwards'
  BY DEF Onwards, Git!machine
<1>10. CheckedOut'
  BY <1>3, <1>4 DEF CheckedOut, Git!machine, Git!Busy
<1>11. ASSUME NEW v \in Worker, AheadOf(v) PROVE AheadOf(v)' /\ builds'[v].beside
  BY <1>4, <1>11, AheadIsBusy DEF AheadOf
<1>12. Latest'
  <2>1. \A v \in Worker : Restarted(v)' => Restarted(v)
    BY <1>3, <1>4 DEF Restarted
  <2>2. QED BY <1>11, <2>1 DEF Latest, Git!machine
<1>13. Caught'
  BY <1>11 DEF Caught, Git!machine
<1>14. QED BY <1>7, <1>8, <1>9, <1>10, <1>12, <1>13

LEMMA TakeKeeps == ASSUME GitInv, NEW w \in Worker, Git!Take(w) PROVE GitInv'
<1> USE DEF GitInv
<1>1. /\ Head(jobs) \in Git!Job /\ jobs' \in Seq(Git!Job) /\ ~Git!Busy(w)
      /\ kind \in {"node", "php"} /\ source \in BOOLEAN
      /\ UNCHANGED <<kind, head, Git!settings, recorded, Git!machine, look, pulls, edits, buildTroubles, excused>>
  BY DEF Git!Take, GitTyped, Git!TypeOK
<1>2. /\ Git!PullSteps \in Todo("pull") /\ Git!DeploySteps \in Todo("deploy")
      /\ Git!PullSteps \in CheckoutAhead /\ Git!DeploySteps \in CheckoutAhead
  BY <1>1, StepsAre DEF Todo
<1>3. <<"record">> \notin CheckoutAhead /\ <<>> \notin CheckoutAhead
  <2>1. \A t \in CheckoutAhead : Len(t) # 0 /\ (Len(t) = 1 => t[1] = "starter")
    BY DEF CheckoutAhead
  <2>2. Len(<<"record">>) = 1 /\ <<"record">>[1] = "record" /\ Len(<<>>) = 0
    OBVIOUS
  <2>3. QED BY <2>1, <2>2
<1>4. CASE Head(jobs) = "deploy" /\ deployed' = "deploying" /\ Git!Start(w, "deploy", Git!DeploySteps)
  BY <1>1, <1>2, <1>3, <1>4, BeginKeeps
<1>5. CASE Head(jobs) = "pull" /\ UNCHANGED deployed /\ Git!Start(w, "pull", Git!PullSteps)
  BY <1>1, <1>2, <1>3, <1>5, BeginKeeps
<1>6. CASE UNCHANGED <<deployed, builds>>
  <2>1. Git!TypeOK'
    BY <1>1, <1>6 DEF GitTyped, Git!TypeOK, Git!settings, Git!machine
  <2>2. QED BY <1>1, <1>6, <2>1, CommitsAre, GitElsewhere
<1>7. QED BY <1>4, <1>5, <1>6 DEF Git!Take

\* The panel dies: nobody is at work, and the jobs are asked for again.
LEMMA CrashKeeps == ASSUME Git!GitAssumption, GitInv, Git!Crash PROVE GitInv'
<1> USE CommitsAre DEF GitInv
<1>1. /\ builds' = [w \in Worker |-> Git!Resting] /\ look' = Git!NotLooking
      /\ excused' = (excused \/ \E w \in Worker : builds[w].beside)
      /\ UNCHANGED <<kind, head, Git!settings, deployed, recorded, Git!machine, pulls, edits>>
      /\ buildTroubles' \in 0..MaxTroubles
  BY DEF Git!Crash, Git!Trouble, Git!GitAssumption, GitTyped, Git!TypeOK
<1>2. /\ DOMAIN builds' = Worker
      /\ \A w \in Worker : /\ builds'[w] = Git!Resting /\ builds'[w].job = "none" /\ builds'[w].todo = <<>>
                            /\ builds'[w].beside = FALSE
  BY <1>1 DEF Git!Resting
<1>3. \A w \in Worker : ~Git!Busy(w)' /\ ~Restarted(w)' /\ builds'[w].job # "deploy"
  BY <1>2 DEF Git!Busy, Restarted
<1>4. RunTyped'
  <2>1. ASSUME NEW w \in Worker
        PROVE  builds'[w] = [job |-> builds'[w].job, todo |-> builds'[w].todo, beside |-> builds'[w].beside]
    BY <1>2 DEF Git!Resting
  <2>2. Todo("none")' = {<<>>}
    BY DEF Todo
  <2>3. QED BY <1>2, <2>1, <2>2 DEF RunTyped
<1>5. jobs' \in Seq(Git!Job)
  <2> DEFINE n == Git!Cardinality({w \in Worker : Git!Busy(w)})
  <2>1. n \in Nat
    <3>1. IsFiniteSet(Worker)
      BY DEF Git!GitAssumption, Git!IsFiniteSet, IsFiniteSet
    <3>2. IsFiniteSet({w \in Worker : Git!Busy(w)})
      BY <3>1, FS_Subset
    <3>3. n = Cardinality({w \in Worker : Git!Busy(w)})
      BY DEF Git!Cardinality, Cardinality, Git!IsFiniteSet, IsFiniteSet
    <3>4. QED BY <3>2, <3>3, FS_CardinalityType
  <2>2. PICK s \in [1..n -> Git!Job] : jobs' = s \o jobs
    BY DEF Git!Crash
  <2> HIDE DEF n
  <2>3. s \in Seq(Git!Job)
    BY <2>1, <2>2
  <2>4. jobs \in Seq(Git!Job)
    BY DEF GitTyped, Git!TypeOK
  <2>5. QED BY <2>2, <2>3, <2>4
<1>6. GitTyped'
  <2>1. {source, key, readable, schedule, due, secret, excused}' \subseteq BOOLEAN
    BY <1>1 DEF GitTyped, Git!TypeOK, Git!settings
  <2>2. look'.pc = "idle" /\ look'.recorded = Git!None
    BY <1>1 DEF Git!NotLooking
  <2>3. \A w \in Worker : builds'[w].job \in Git!Job \cup {"none"}
    BY <1>2
  <2>4. QED BY <1>1, <1>4, <1>5, <2>1, <2>2, <2>3 DEF GitTyped, Git!TypeOK, Git!settings, Git!machine
<1>7. SideBySide' /\ Latest'
  BY <1>3 DEF SideBySide, Latest
<1>8. Onwards' /\ CheckedOut'
  BY <1>1, <1>3 DEF Onwards, CheckedOut, Git!machine
<1>9. Caught'
  BY <1>1 DEF Caught, Git!machine
<1>10. QED BY <1>6, <1>7, <1>8, <1>9

\* What comes from outside, from the Git tab and from the poller.
LEMMA OutsideKeeps ==
    ASSUME Git!GitAssumption, GitInv,
           \/ Git!Push \/ Git!LetIn \/ Git!saveGitSource \/ Git!regenerateDeployKey \/ Git!saveGitAutomation
           \/ \E m \in {"none", "key", "token"} : Git!saveGitAuth(m)
           \/ Git!sitesPull \/ Git!mcpPullSite \/ Git!sitesRedeploy \/ Git!gitTool
           \/ \E ref \in {"branch", "another", "tag"} : Git!gitWebhook(ref)
           \/ Git!ItIsTime \/ Git!takeDuePulls \/ Git!RemoteHead
    PROVE  GitInv'
<1> USE CommitsAre DEF GitInv
<1>1. UNCHANGED <<kind, deployed, recorded, Git!machine, builds, excused, buildTroubles>>
  BY DEF Git!Push, Git!LetIn, Git!saveGitSource, Git!regenerateDeployKey, Git!saveGitAutomation, Git!saveGitAuth, Git!sitesPull,
         Git!mcpPullSite, Git!sitesRedeploy, Git!gitTool, Git!gitWebhook, Git!ItIsTime, Git!takeDuePulls, Git!RemoteHead,
         Git!pullSiteNow, Git!requested, Git!settled, Git!settings
<1>2. head' \in Git!Commit /\ head <= head'
  BY DEF Git!Push, Git!LetIn, Git!saveGitSource, Git!regenerateDeployKey, Git!saveGitAutomation, Git!saveGitAuth, Git!sitesPull,
         Git!mcpPullSite, Git!sitesRedeploy, Git!gitTool, Git!gitWebhook, Git!ItIsTime, Git!takeDuePulls, Git!RemoteHead,
         Git!pullSiteNow, Git!requested, Git!settled, Git!settings, Git!Commit, Git!GitAssumption
<1>3. {source, key, readable, schedule, due, secret, excused}' \subseteq BOOLEAN
  <2>1. /\ source \in BOOLEAN /\ key \in BOOLEAN /\ readable \in BOOLEAN /\ schedule \in BOOLEAN
        /\ due \in BOOLEAN /\ secret \in BOOLEAN /\ excused \in BOOLEAN
    BY DEF GitTyped, Git!TypeOK
  <2>2. /\ source' \in BOOLEAN /\ key' \in BOOLEAN /\ readable' \in BOOLEAN /\ schedule' \in BOOLEAN
        /\ due' \in BOOLEAN /\ secret' \in BOOLEAN /\ excused' \in BOOLEAN
    BY <2>1 DEF Git!Push, Git!LetIn, Git!saveGitSource, Git!regenerateDeployKey, Git!saveGitAutomation, Git!saveGitAuth, Git!sitesPull,
         Git!mcpPullSite, Git!sitesRedeploy, Git!gitTool, Git!gitWebhook, Git!ItIsTime, Git!takeDuePulls, Git!RemoteHead,
         Git!pullSiteNow, Git!requested, Git!settled, Git!settings, Git!GenerateDeployKey
  <2>3. QED BY <2>2
<1>4. method' \in {"none", "key", "token"}
  BY DEF Git!Push, Git!LetIn, Git!saveGitSource, Git!regenerateDeployKey, Git!saveGitAutomation, Git!saveGitAuth, Git!sitesPull,
         Git!mcpPullSite, Git!sitesRedeploy, Git!gitTool, Git!gitWebhook, Git!ItIsTime, Git!takeDuePulls, Git!RemoteHead,
         Git!pullSiteNow, Git!requested, Git!settled, Git!settings, GitTyped, Git!TypeOK
<1>5. jobs' \in Seq(Git!Job) /\ pulls' \in 0..MaxAsked /\ edits' \in 0..MaxEdits
  <2>1. jobs \in Seq(Git!Job) /\ pulls \in 0..MaxAsked /\ edits \in 0..MaxEdits
    BY DEF GitTyped, Git!TypeOK
  <2>2. UNCHANGED <<jobs, pulls>> \/ \E j \in Git!Job : Git!Ask(j)
    BY DEF Git!Push, Git!LetIn, Git!saveGitSource, Git!regenerateDeployKey, Git!saveGitAutomation, Git!saveGitAuth, Git!sitesPull,
         Git!mcpPullSite, Git!sitesRedeploy, Git!gitTool, Git!gitWebhook, Git!ItIsTime, Git!takeDuePulls, Git!RemoteHead,
         Git!pullSiteNow, Git!requested, Git!settled, Git!settings, Git!Job
  <2>3. UNCHANGED edits \/ Git!Edit
    BY DEF Git!Push, Git!LetIn, Git!saveGitSource, Git!regenerateDeployKey, Git!saveGitAutomation, Git!saveGitAuth, Git!sitesPull,
         Git!mcpPullSite, Git!sitesRedeploy, Git!gitTool, Git!gitWebhook, Git!ItIsTime, Git!takeDuePulls, Git!RemoteHead,
         Git!pullSiteNow, Git!requested, Git!settled, Git!settings
  <2>4. \A j \in Git!Job : Append(jobs, j) \in Seq(Git!Job)
    BY <2>1
  <2>5. jobs' \in Seq(Git!Job) /\ pulls' \in 0..MaxAsked
    <3>1. CASE UNCHANGED <<jobs, pulls>>
      BY <2>1, <3>1
    <3>2. ASSUME NEW j \in Git!Job, Git!Ask(j) PROVE jobs' \in Seq(Git!Job) /\ pulls' \in 0..MaxAsked
      <4>1. jobs' = Append(jobs, j) /\ pulls' = pulls + 1 /\ pulls < MaxAsked
        BY <3>2 DEF Git!Ask
      <4>2. QED BY <2>1, <2>4, <4>1 DEF Git!GitAssumption
    <3>3. QED BY <2>2, <3>1, <3>2
  <2>6. QED BY <2>1, <2>3, <2>5 DEF Git!Edit, Git!GitAssumption
<1>6. look'.pc \in {"idle", "ask"} /\ look'.recorded \in Git!Commit \cup {Git!None}
  <2>1. look.pc \in {"idle", "ask"} /\ look.recorded \in Git!Commit \cup {Git!None}
    BY DEF GitTyped, Git!TypeOK
  <2>2. QED
    BY <2>1 DEF Git!Push, Git!LetIn, Git!saveGitSource, Git!regenerateDeployKey, Git!saveGitAutomation, Git!saveGitAuth, Git!sitesPull,
         Git!mcpPullSite, Git!sitesRedeploy, Git!gitTool, Git!gitWebhook, Git!ItIsTime, Git!takeDuePulls, Git!RemoteHead,
         Git!pullSiteNow, Git!requested, Git!settled, Git!settings, Git!NotLooking
<1>7. Git!TypeOK'
  BY <1>1, <1>2, <1>3, <1>4, <1>5, <1>6 DEF GitTyped, Git!TypeOK, Git!machine
<1>8. QED BY <1>1, <1>2, <1>7, GitElsewhere

LEMMA GitStep == ASSUME Git!GitAssumption, GitInv, Git!Next PROVE GitInv'
  BY OutsideKeeps, CrashKeeps, TakeKeeps, FetchKeeps, CheckKeeps, CloneKeeps, StarterKeeps, RecordKeeps,
     BuildKeeps, RestartKeeps, FinishKeeps DEF Git!Next

LEMMA GitMeans == ASSUME GitInv PROVE Git!HeadIsServed
<1> USE CommitsAre DEF GitInv
<1>1. SUFFICES ASSUME deployed = "active", \A w \in Worker : ~Git!Busy(w), recorded = head, ~excused
               PROVE  served \in {head, Git!Down}
  BY DEF Git!HeadIsServed, Git!CommitIsServed, GitTyped
<1>2. ~\E v \in Worker : AheadOf(v)
  BY <1>1, AheadIsBusy
<1>3. QED BY <1>1, <1>2 DEF Caught, Onwards, CheckedOut

GitFocus == focus = "git" => GitInv

LEMMA GitFirst == Init => GitFocus
  BY GitBegins, GitAssumption DEF Init, GitFocus

LEMMA GitNext == GitFocus /\ [Next]_vars => GitFocus'
<1> SUFFICES ASSUME GitFocus, [Next]_vars, focus' = "git" PROVE GitInv'
  BY DEF GitFocus
<1>1. focus = "git" /\ (Git!Next \/ UNCHANGED gitVars)
  BY DEF Next, vars
<1>2. GitInv /\ Git!GitAssumption
  BY <1>1, GitAssumption DEF GitFocus
<1>3. CASE Git!Next
  BY <1>2, <1>3, GitStep
<1>4. CASE UNCHANGED gitVars
  <2>1. Git!TypeOK'
    BY <1>2, <1>4 DEF GitInv, GitTyped, Git!TypeOK, gitVars, Git!Commit, Git!None, Git!Down, Git!Starter, Git!Job
  <2>2. QED BY <1>2, <1>4, <2>1, CommitsAre, GitElsewhere DEF gitVars, GitInv, Git!machine
<1>5. QED BY <1>1, <1>3, <1>4

\* With no work left on an active site whose recorded commit is the branch's head,
\* that commit is served or its service is down: through pulls, deployments, webhooks
\* and polls in any order and side by side, builds that fail and crashes, as long as
\* no job failed beside another and the site kept its repository.
THEOREM RecordedIsServed == Spec => []HeadIsServed
<1>1. Init => GitFocus
  BY GitFirst
<1>2. GitFocus /\ [Next]_vars => GitFocus'
  BY GitNext
<1>3. GitFocus => HeadIsServed
  BY GitMeans DEF GitFocus, HeadIsServed
<1>4. QED BY <1>1, <1>2, <1>3, PTL DEF Spec

---------------------------------------------------------------------------
(***************************************************************************)
(* DnsSync.  The zone is the provider's and others change it between a     *)
(* request and the next; the invariant says what of a worker's reading     *)
(* stays true meanwhile.  Whoever works on an owner works alone, or it is  *)
(* known (OneAtOnce), so that what a removal has taken away nobody writes  *)
(* again (TakenAway); a record comes only under an id already there or a   *)
(* new one (Comes); a sync that has listed a name will write over all that *)
(* answers for it (PutRight), unless its owner has changed it since.       *)
(***************************************************************************)
Rec == [id : Nat, name : Zone!Name, type : Zone!Address \cup {"TXT"}, content : Zone!Content]
ZoneRun == [job : {"none", "sync", "remove"}, of : Zone!Owner, todo : Seq(Zone!Name),
            pc : {"list", "write", "claim", "leftovers"}, seen : SUBSET Nat, ids : [Zone!Name -> Nat],
            stale : BOOLEAN]

\* A removal has no claim, a sync no leftovers; a site has no record at mail.
Placed(w) == /\ sync[w].job = "sync" => sync[w].pc # "leftovers"
             /\ sync[w].job = "remove" => sync[w].pc \in {"write", "leftovers"}
             /\ sync[w].job = "remove" /\ sync[w].pc = "leftovers" => sync[w].of = "mail"
             /\ sync[w].of = "site" => sync[w].todo \in Seq({"apex", "www"})
ZoneTyped ==
    /\ Zone!TypeOK /\ highest \in Nat /\ zone \subseteq Rec /\ sync \in [Worker -> ZoneRun]
    /\ \A w \in Worker : Placed(w)

\* The string somebody verifies the domain by has an id that is nobody else's.
VerifyThere ==
    /\ \E r \in zone : r.content = "verify"
    /\ \A r \in zone : r.id = 1 <=> r.content = "verify"
    /\ \A r \in zone : r.id = 1 => r.type = "TXT"
    /\ 1 <= highest
    /\ \A w \in Worker : 1 \notin sync[w].seen /\ \A n \in Zone!Name : sync[w].ids[n] # 1
    /\ \A o \in Zone!Owner : \A n \in Zone!Name : ids[o][n] # 1

\* Who works on an owner works alone, or it is known; nobody does on one whose row is gone.
OneAtOnce ==
    \A o \in Zone!Owner \ loose :
        /\ \A v, w \in Worker : Zone!Busy(v) /\ Zone!Busy(w) /\ Zone!me(v) = o /\ Zone!me(w) = o => v = w
        /\ o \notin owners => ~Zone!BusyOn(o)

\* What a sync has listed, and put right.
PutRight(w) ==
    ~sync[w].stale /\ (Zone!Syncing(w, "write") \/ Zone!Syncing(w, "claim")) =>
        \A r \in zone : r.name = Head(sync[w].todo) /\ r.type = Zone!Wants(w).type /\ r.type \in Zone!Address =>
            r.content = "here" \/ (sync[w].pc = "write" /\ r.id \in sync[w].seen)

\* What a removal has taken away.
Absent(i) == \A r \in zone : r.id # i
TakenAway(w) ==
    sync[w].job = "remove" /\ Zone!me(w) \notin loose =>
        /\ \A n \in Zone!Name : ids[Zone!me(w)][n] \in sync[w].seen \/ Absent(ids[Zone!me(w)][n])
        /\ sync[w].pc = "leftovers" => \A r \in zone : Zone!ours(r) => r.content = "there"

ZoneInv ==
    /\ ZoneTyped /\ VerifyThere /\ OneAtOnce /\ Zone!OldAnswersGone /\ Zone!NothingLeft
    /\ \A w \in Worker : PutRight(w) /\ TakenAway(w)

\* What a worker's request may change of the zone: records go, but for the string; and
\* one comes, that is this server's, under an id already there or a new one.
Comes(r, o) ==
    /\ r \in Rec /\ r.id \in 1..highest' /\ r.id # 1 /\ r.content # "verify"
    /\ r.type \in Zone!Address => r.content = "here"
    /\ Zone!ours(r) => o = "mail"
    /\ r.id = highest + 1 \/ \E q \in zone : q.id = r.id
Harmless(o) ==
    /\ highest' \in {highest, highest + 1}
    /\ \A r \in zone : r.id = 1 => r \in zone'
    /\ \A r \in zone' : r \in zone \/ Comes(r, o)

LEMMA ZoneNoChange ==
    ASSUME ZoneInv, UNCHANGED <<zone, highest>>, NEW o \in Zone!Owner PROVE Harmless(o)
  BY DEF Harmless, ZoneInv, ZoneTyped

\* Nobody else's turn is spoilt.
LEMMA ZoneOthersKeep ==
    ASSUME ZoneInv, NEW w \in Worker, NEW v \in Worker, v # w, Zone!Busy(w), sync'[v] = sync[v],
           type' = type, loose \subseteq loose', Harmless(Zone!me(w)),
           \A o \in Zone!Owner : o # Zone!me(w) => ids'[o] = ids[o]
    PROVE  PutRight(v)' /\ TakenAway(v)'
<1>1. ZoneTyped /\ OneAtOnce /\ PutRight(v) /\ TakenAway(v) /\ sync[v] \in ZoneRun /\ Zone!me(w) \in Zone!Owner
      /\ Zone!me(v) \in Zone!Owner /\ Placed(v)
  BY DEF ZoneInv, ZoneTyped, Zone!me, ZoneRun
<1>2. PutRight(v)'
  <2> SUFFICES ASSUME (~sync[v].stale /\ (Zone!Syncing(v, "write") \/ Zone!Syncing(v, "claim")))',
                      NEW r \in zone', r.name = Head(sync[v].todo), r.type = Zone!Wants(v).type,
                      r.type \in Zone!Address
               PROVE  r.content = "here" \/ (sync[v].pc = "write" /\ r.id \in sync[v].seen)
    BY DEF PutRight, Zone!Wants, Zone!Wanted, Zone!Record, Zone!me
  <2>1. ~sync[v].stale /\ (Zone!Syncing(v, "write") \/ Zone!Syncing(v, "claim"))
    BY DEF Zone!Syncing, Zone!Doing
  <2>2. CASE r \in zone
    BY <1>1, <2>1, <2>2 DEF PutRight
  <2>3. CASE Comes(r, Zone!me(w))
    BY <2>3 DEF Comes
  <2>4. QED BY <2>2, <2>3 DEF Harmless
<1>3. TakenAway(v)'
  <2> SUFFICES ASSUME sync[v].job = "remove", Zone!me(v) \notin loose'
               PROVE  /\ \A n \in Zone!Name : ids'[Zone!me(v)][n] \in sync[v].seen \/ Absent(ids[Zone!me(v)][n])'
                      /\ sync[v].pc = "leftovers" => \A r \in zone' : Zone!ours(r) => r.content = "there"
    BY DEF TakenAway, Zone!me, Zone!ours
  <2>1. Zone!me(v) # Zone!me(w)
    BY <1>1 DEF OneAtOnce, Zone!Busy
  <2>2. ids'[Zone!me(v)] = ids[Zone!me(v)]
    BY <1>1, <2>1
  <2>3. ASSUME NEW n \in Zone!Name PROVE ids'[Zone!me(v)][n] \in sync[v].seen \/ Absent(ids[Zone!me(v)][n])'
    <3>1. ids[Zone!me(v)][n] \in sync[v].seen \/ Absent(ids[Zone!me(v)][n])
      BY <1>1 DEF TakenAway
    <3>2. ids[Zone!me(v)][n] \in 0..highest
      BY <1>1 DEF ZoneTyped, Zone!TypeOK
    <3>3. QED BY <1>1, <3>1, <3>2, <2>2 DEF Absent, Harmless, Comes, ZoneTyped, Zone!me
  <2>4. ASSUME sync[v].pc = "leftovers", NEW r \in zone', Zone!ours(r) PROVE r.content = "there"
    <3>1. Zone!me(w) # "mail"
      BY <1>1, <2>1, <2>4 DEF Placed, Zone!me
    <3>2. r \in zone
      BY <2>4, <3>1 DEF Harmless, Comes
    <3>3. QED BY <1>1, <2>4, <3>2 DEF TakenAway
  <2>5. QED BY <2>3, <2>4
<1>4. QED BY <1>2, <1>3

LEMMA NothingComesBack ==
    ASSUME ZoneInv, NEW w \in Worker, Zone!Busy(w), owners' = owners, loose \subseteq loose', Harmless(Zone!me(w)),
           \A o \in Zone!Owner : o # Zone!me(w) => ids'[o] = ids[o]
    PROVE  Zone!NothingLeft'
<1> SUFFICES ASSUME NEW o \in Zone!Owner, o \notin owners, o \notin loose', NEW r \in zone'
             PROVE  ~(\E n \in Zone!Name : r.id = ids'[o][n]) /\ (o = "mail" => ~(Zone!ours(r) /\ r.content # "there"))
  BY DEF Zone!NothingLeft, Zone!ours
<1>1. Zone!me(w) # o
  BY DEF ZoneInv, OneAtOnce, Zone!BusyOn, Zone!me
<1>2. ids'[o] = ids[o]
  BY <1>1
<1>3. \A n \in Zone!Name : ids[o][n] \in 0..highest
  BY DEF ZoneInv, ZoneTyped, Zone!TypeOK
<1>4. CASE r \in zone
  BY <1>2, <1>4 DEF ZoneInv, Zone!NothingLeft
<1>5. CASE Comes(r, Zone!me(w))
  <2>1. ~Zone!ours(r) \/ o # "mail"
    BY <1>1, <1>5 DEF Comes
  <2>2. \A q \in zone : \A n \in Zone!Name : q.id # ids[o][n]
    BY DEF ZoneInv, Zone!NothingLeft
  <2>3. \A n \in Zone!Name : highest + 1 # ids[o][n]
    BY <1>3 DEF ZoneInv, ZoneTyped
  <2>4. QED BY <1>2, <1>5, <2>1, <2>2, <2>3 DEF Comes
<1>6. QED BY <1>4, <1>5 DEF Harmless

LEMMA StaysGone ==
    ASSUME Zone!NothingLeft, zone' = zone, owners' = owners, ids' = ids, loose \subseteq loose' PROVE Zone!NothingLeft'
<1> SUFFICES ASSUME NEW o \in Zone!Owner, o \notin owners, o \notin loose', NEW r \in zone
             PROVE  ~(\E n \in Zone!Name : r.id = ids[o][n]) /\ (o = "mail" => ~(Zone!ours(r) /\ r.content # "there"))
  BY DEF Zone!NothingLeft, Zone!ours
<1>1. QED BY DEF Zone!NothingLeft

LEMMA AnswersKeep ==
    ASSUME ZoneInv, NEW o \in Zone!Owner, Harmless(o), clear' \subseteq clear
    PROVE  Zone!OldAnswersGone'
  BY DEF ZoneInv, Zone!OldAnswersGone, Harmless, Comes

\* A turn of a worker: what is left to show is about itself.
LEMMA ZoneTurnKeeps ==
    ASSUME ZoneInv, NEW w \in Worker, Zone!Busy(w), Harmless(Zone!me(w)),
           sync' = [sync EXCEPT ![w] = sync'[w]], sync'[w] \in ZoneRun, Placed(w)',
           sync'[w].seen \subseteq 1..highest', sync'[w].ids \in [Zone!Name -> 0..highest'],
           1 \notin sync'[w].seen, \A n \in Zone!Name : sync'[w].ids[n] # 1,
           sync'[w].job \in {sync[w].job, "none"}, sync'[w].job # "none" => sync'[w].of = Zone!me(w),
           UNCHANGED <<type, aliases, owners, runs, zoneEdits>>, zoneTroubles' \in 0..MaxTroubles,
           loose' \in {loose, loose \cup {Zone!me(w)}}, clear' \subseteq Zone!Name, Zone!OldAnswersGone',
           ids' \in [Zone!Owner -> [Zone!Name -> 0..highest']], \A o \in Zone!Owner : o # Zone!me(w) => ids'[o] = ids[o],
           \A n \in Zone!Name : ids'[Zone!me(w)][n] # 1,
           PutRight(w)', TakenAway(w)'
    PROVE  ZoneInv'
<1> DEFINE turned == sync'[w]
<1>0. sync' = [sync EXCEPT ![w] = turned] /\ turned \in ZoneRun
  OBVIOUS
<1> HIDE DEF turned
<1>1. ZoneTyped /\ VerifyThere /\ OneAtOnce /\ Zone!me(w) \in Zone!Owner /\ highest \in Nat /\ loose \subseteq loose'
      /\ sync \in [Worker -> ZoneRun] /\ highest' \in Nat
  BY DEF ZoneInv, ZoneTyped, Zone!me, ZoneRun, Harmless
<1>2. \A v \in Worker : v # w => sync'[v] = sync[v]
  BY <1>0, <1>1
<1>3. sync' \in [Worker -> ZoneRun]
  BY <1>0, <1>1
<1>4. zone' \subseteq Rec
  BY <1>1 DEF Harmless, Comes, ZoneTyped
<1>5. Zone!TypeOK'
  <2>1. \A r \in zone' : /\ r.id \in 1..highest' /\ r.name \in Zone!Name /\ r.content \in Zone!Content
                         /\ r.type \in Zone!Address \cup {"TXT"}
    <3> SUFFICES ASSUME NEW r \in zone' PROVE r.id \in 1..highest'
      BY <1>4 DEF Rec
    <3>1. CASE r \in zone
      BY <1>1, <3>1 DEF ZoneTyped, Zone!TypeOK, Harmless
    <3>2. CASE Comes(r, Zone!me(w))
      BY <3>2 DEF Comes
    <3>3. QED BY <3>1, <3>2 DEF Harmless
  <2>2. type' \in Zone!Address /\ aliases' \in BOOLEAN /\ owners' \subseteq Zone!Owner /\ loose' \subseteq Zone!Owner
        /\ runs' \in 0..MaxRuns /\ zoneEdits' \in 0..MaxEdits
    BY <1>1 DEF ZoneTyped, Zone!TypeOK
  <2>3. ASSUME NEW v \in Worker
        PROVE  (/\ sync[v].job \in {"none", "sync", "remove"} /\ sync[v].of \in Zone!Owner
                /\ sync[v].seen \subseteq 1..highest /\ sync[v].ids \in [Zone!Name -> 0..highest]
                /\ sync[v].pc \in {"list", "write", "claim", "leftovers"})'
    <3>1. sync'[v] \in ZoneRun
      BY <1>3
    <3>2. CASE v # w
      <4>1. sync[v].seen \subseteq 1..highest /\ sync[v].ids \in [Zone!Name -> 0..highest]
        BY <1>1 DEF ZoneTyped, Zone!TypeOK
      <4>2. 1..highest \subseteq 1..highest' /\ 0..highest \subseteq 0..highest'
        BY <1>1 DEF Harmless
      <4>3. sync'[v].seen \subseteq 1..highest' /\ sync'[v].ids \in [Zone!Name -> 0..highest']
        BY <1>2, <3>2, <4>1, <4>2
      <4>4. QED BY <3>1, <4>3 DEF ZoneRun
    <3>3. QED BY <3>1, <3>2 DEF ZoneRun
  <2>4. QED BY <2>1, <2>2, <2>3 DEF Zone!TypeOK
<1>6. \A v \in Worker : Placed(v)'
  BY <1>1, <1>2 DEF ZoneTyped, Placed
<1>7. VerifyThere'
  <2>1. (\E r \in zone : r.content = "verify")'
    BY <1>1 DEF VerifyThere, Harmless
  <2>2. (\A r \in zone : r.id = 1 <=> r.content = "verify")'
    BY <1>1 DEF VerifyThere, Harmless, Comes
  <2>3. (\A r \in zone : r.id = 1 => r.type = "TXT")'
    BY <1>1 DEF VerifyThere, Harmless, Comes
  <2>4. 1 <= highest'
    BY <1>1 DEF VerifyThere, Harmless
  <2>5. \A v \in Worker : 1 \notin sync'[v].seen /\ \A n \in Zone!Name : sync'[v].ids[n] # 1
    BY <1>1, <1>2 DEF VerifyThere
  <2>6. \A o \in Zone!Owner : \A n \in Zone!Name : ids'[o][n] # 1
    BY <1>1 DEF VerifyThere
  <2>7. QED BY <2>1, <2>2, <2>3, <2>4, <2>5, <2>6 DEF VerifyThere
<1>8. OneAtOnce'
  <2>1. \A v \in Worker : Zone!Busy(v)' => Zone!Busy(v) /\ Zone!me(v)' = Zone!me(v)
    BY <1>2 DEF Zone!Busy, Zone!me
  <2>2. QED BY <1>1, <2>1 DEF OneAtOnce, Zone!BusyOn, Zone!me
<1>9. Zone!NothingLeft'
  BY <1>1, NothingComesBack
<1>10. \A v \in Worker : PutRight(v)' /\ TakenAway(v)'
  BY <1>1, <1>2, ZoneOthersKeep
<1>11. QED BY <1>1, <1>3, <1>4, <1>5, <1>6, <1>7, <1>8, <1>9, <1>10 DEF ZoneInv, ZoneTyped

LEMMA ZoneTroublesKept ==
    ASSUME ZoneInv, Zone!ZoneAssumption, Zone!Calm \/ Zone!Trouble PROVE zoneTroubles' \in 0..MaxTroubles
  BY DEF ZoneInv, ZoneTyped, Zone!TypeOK, Zone!ZoneAssumption, Zone!Calm, Zone!Trouble

\* What the invariant says of one worker.
LEMMA ZoneWorkerIs ==
    ASSUME ZoneInv, NEW w \in Worker
    PROVE  /\ sync[w] \in ZoneRun /\ sync \in [Worker -> ZoneRun] /\ Placed(w) /\ Zone!me(w) \in Zone!Owner
           /\ highest \in Nat /\ 1 <= highest /\ sync[w].seen \subseteq 1..highest /\ sync[w].ids \in [Zone!Name -> 0..highest]
           /\ 1 \notin sync[w].seen /\ \A n \in Zone!Name : sync[w].ids[n] # 1
           /\ PutRight(w) /\ TakenAway(w)
           /\ ids \in [Zone!Owner -> [Zone!Name -> 0..highest]] /\ (\A o \in Zone!Owner : \A n \in Zone!Name : ids[o][n] # 1)
           /\ clear \subseteq Zone!Name /\ loose \subseteq Zone!Owner /\ zone \subseteq Rec
           /\ \A r \in zone : r.id \in 1..highest
  BY DEF ZoneInv, ZoneTyped, Zone!TypeOK, VerifyThere, ZoneRun, Zone!me

\* The next name.
LEMMA NextNameIs ==
    ASSUME ZoneInv, NEW w \in Worker, sync[w].todo # <<>>, Zone!NextName(w)
    PROVE  /\ sync' = [sync EXCEPT ![w] = sync'[w]] /\ sync'[w] \in ZoneRun
           /\ sync'[w].job = sync[w].job /\ sync'[w].of = sync[w].of /\ sync'[w].ids = sync[w].ids
           /\ sync'[w].pc = "list" /\ sync'[w].seen = {}
           /\ (sync[w].of = "site" => sync'[w].todo \in Seq({"apex", "www"}))
<1>1. sync[w] \in ZoneRun /\ sync \in [Worker -> ZoneRun] /\ Placed(w)
  BY ZoneWorkerIs
<1>2. Tail(sync[w].todo) \in Seq(Zone!Name)
      /\ (sync[w].of = "site" => Tail(sync[w].todo) \in Seq({"apex", "www"}))
  BY <1>1 DEF ZoneRun, Placed
<1>3. sync' = [sync EXCEPT ![w] = sync'[w]] /\ sync'[w] = [sync[w] EXCEPT !.todo = Tail(sync[w].todo),
                !.pc = "list", !.seen = {}, !.stale = FALSE]
  BY <1>1 DEF Zone!NextName
<1>4. QED BY <1>1, <1>2, <1>3 DEF ZoneRun

LEMMA PassOn ==
    ASSUME ZoneInv, Zone!ZoneAssumption, NEW w \in Worker, Harmless(Zone!me(w)), sync[w].job = "sync",
           sync[w].todo # <<>>, Zone!NextName(w), UNCHANGED <<Zone!rest, ids, loose>>, Zone!Calm \/ Zone!Trouble,
           clear' \subseteq Zone!Name, Zone!OldAnswersGone'
    PROVE  ZoneInv'
<1>1. highest' \in {highest, highest + 1}
  BY DEF Harmless
<1>2. /\ sync[w] \in ZoneRun /\ sync[w].ids \in [Zone!Name -> 0..highest] /\ highest \in Nat /\ Zone!me(w) \in Zone!Owner
      /\ (\A n \in Zone!Name : sync[w].ids[n] # 1) /\ Placed(w)
      /\ ids \in [Zone!Owner -> [Zone!Name -> 0..highest]] /\ (\A o \in Zone!Owner : \A n \in Zone!Name : ids[o][n] # 1)
  BY ZoneWorkerIs
<1>3. 0..highest \subseteq 0..highest'
  BY <1>1, <1>2
<1>4. Zone!Busy(w) /\ Placed(w)' /\ PutRight(w)' /\ TakenAway(w)'
  BY <1>2, NextNameIs DEF Zone!Busy, Placed, PutRight, TakenAway, Zone!Syncing, Zone!Doing
<1>5. sync'[w].ids \in [Zone!Name -> 0..highest'] /\ ids' \in [Zone!Owner -> [Zone!Name -> 0..highest']]
  BY <1>2, <1>3, NextNameIs
<1>6. /\ type' = type /\ aliases' = aliases /\ owners' = owners /\ runs' = runs /\ zoneEdits' = zoneEdits
      /\ ids' = ids /\ loose' = loose
  BY DEF Zone!rest
<1>7. /\ sync'[w].seen \subseteq 1..highest' /\ 1 \notin sync'[w].seen /\ \A n \in Zone!Name : sync'[w].ids[n] # 1
      /\ sync'[w].job \in {sync[w].job, "none"} /\ (sync'[w].job # "none" => sync'[w].of = Zone!me(w))
  BY <1>2, NextNameIs DEF Zone!me
<1>8. QED BY <1>2, <1>4, <1>5, <1>6, <1>7, NextNameIs, ZoneTroublesKept, ZoneTurnKeeps

LEMMA ZoneListKeeps == ASSUME ZoneInv, Zone!ZoneAssumption, NEW w \in Worker, Zone!ListRecords(w) PROVE ZoneInv'
<1>1. /\ Zone!Syncing(w, "list") /\ UNCHANGED <<Zone!rest, zone, highest, ids, clear, loose>>
      /\ sync[w].job = "sync" /\ sync[w].todo # <<>> /\ Zone!Busy(w)
  BY DEF Zone!ListRecords, Zone!Syncing, Zone!Doing, Zone!Busy
<1>2. Harmless(Zone!me(w)) /\ Zone!OldAnswersGone' /\ clear' \subseteq Zone!Name
  BY <1>1, ZoneWorkerIs, ZoneNoChange, AnswersKeep
<1>3. CASE Zone!NextName(w) /\ Zone!Trouble
  BY <1>1, <1>2, <1>3, PassOn
<1>4. CASE /\ sync' = [sync EXCEPT ![w].pc = "write", ![w].stale = FALSE,
                    ![w].seen = {r.id : r \in {r \in zone : Zone!replaces(r, Zone!Wants(w))}}]
           /\ Zone!Calm
  <2> DEFINE listed == {r.id : r \in {r \in zone : Zone!replaces(r, Zone!Wants(w))}}
  <2>1. listed \subseteq 1..highest /\ 1 \notin listed
    <3>1. ASSUME NEW r \in zone, Zone!replaces(r, Zone!Wants(w)) PROVE r.id \in 1..highest /\ r.id # 1
      <4>1. r.id = 1 => r.content = "verify" /\ r.type = "TXT"
        BY DEF ZoneInv, VerifyThere
      <4>2. Zone!Wants(w).type = "TXT" => Zone!Wants(w).content = "spf here"
        BY ZoneWorkerIs DEF Zone!Wants, Zone!Wanted, Zone!Record, Zone!Owner, ZoneInv, ZoneTyped, Zone!TypeOK, Zone!Address
      <4>3. QED BY <3>1, <4>1, <4>2, ZoneWorkerIs DEF Zone!replaces, Zone!TxtKind
    <3>2. QED BY <3>1
  <2>2. \A r \in zone : r.name = Head(sync[w].todo) /\ r.type = Zone!Wants(w).type /\ r.type \in Zone!Address
           => r.id \in listed
    BY DEF Zone!replaces, Zone!Wants, Zone!Wanted, Zone!Record, Zone!Address
  <2> HIDE DEF listed
  <2>3. /\ sync' = [sync EXCEPT ![w] = sync'[w]]
        /\ sync'[w] = [sync[w] EXCEPT !.pc = "write", !.stale = FALSE, !.seen = listed]
    BY <1>4, ZoneWorkerIs DEF listed
  <2>4. sync'[w] \in ZoneRun
    <3>1. sync[w] \in ZoneRun /\ listed \in SUBSET Nat
      BY <2>1, ZoneWorkerIs
    <3>2. QED BY <2>3, <3>1 DEF ZoneRun
  <2>5. /\ sync'[w].job = sync[w].job /\ sync'[w].of = Zone!me(w) /\ sync'[w].ids = sync[w].ids
        /\ sync'[w].pc = "write" /\ sync'[w].seen = listed /\ sync'[w].todo = sync[w].todo
    BY <2>3, ZoneWorkerIs DEF ZoneRun, Zone!me
  <2>6. Placed(w)' /\ TakenAway(w)'
    BY <1>1, <2>5, ZoneWorkerIs DEF Placed, TakenAway, Zone!me
  <2>7. PutRight(w)'
    BY <1>1, <2>2, <2>5 DEF PutRight, Zone!Syncing, Zone!Doing, Zone!Wants, Zone!Wanted, Zone!Record, Zone!me, Zone!rest
  <2>8. /\ highest' = highest /\ loose' = loose /\ ids' = ids /\ UNCHANGED <<type, aliases, owners, runs, zoneEdits>>
        /\ sync[w].ids \in [Zone!Name -> 0..highest] /\ (\A n \in Zone!Name : sync[w].ids[n] # 1) /\ Zone!me(w) \in Zone!Owner
        /\ ids \in [Zone!Owner -> [Zone!Name -> 0..highest]] /\ (\A o \in Zone!Owner : \A n \in Zone!Name : ids[o][n] # 1)
        /\ zoneTroubles' \in 0..MaxTroubles
    BY <1>1, <1>4, ZoneWorkerIs, ZoneTroublesKept DEF Zone!rest
  <2>9. /\ sync'[w].seen \subseteq 1..highest' /\ 1 \notin sync'[w].seen /\ sync'[w].ids \in [Zone!Name -> 0..highest']
        /\ (\A n \in Zone!Name : sync'[w].ids[n] # 1) /\ sync'[w].job \in {sync[w].job, "none"}
        /\ ids' \in [Zone!Owner -> [Zone!Name -> 0..highest']] /\ (\A n \in Zone!Name : ids'[Zone!me(w)][n] # 1)
        /\ (\A o \in Zone!Owner : o # Zone!me(w) => ids'[o] = ids[o])
    BY <2>1, <2>5, <2>8
  <2>10. sync' = [sync EXCEPT ![w] = sync'[w]]
    BY <2>3
  <2>11. QED BY <1>1, <1>2, <2>10, <2>4, <2>5, <2>6, <2>7, <2>8, <2>9, ZoneTurnKeeps
<1>5. QED BY <1>3, <1>4 DEF Zone!ListRecords

\* A record is written: what the next two have in common.
LEMMA RecordWrittenIs ==
    ASSUME ZoneInv, NEW w \in Worker, Zone!Syncing(w, "write"), NEW i \in 1..highest', i # 1,
           NEW whole \in BOOLEAN, NEW change, Zone!Written(w, i, change, whole), highest' \in {highest, highest + 1}
    PROVE  /\ sync' = [sync EXCEPT ![w] = sync'[w]] /\ sync'[w] \in ZoneRun
           /\ sync'[w].job = "sync" /\ sync'[w].of = Zone!me(w) /\ sync'[w].pc = "claim"
           /\ sync'[w].todo = sync[w].todo /\ sync'[w].seen = sync[w].seen
           /\ sync'[w].ids \in [Zone!Name -> 0..highest'] /\ (\A n \in Zone!Name : sync'[w].ids[n] # 1)
           /\ (~sync'[w].stale => ~sync[w].stale /\ whole)
           /\ Placed(w)' /\ TakenAway(w)' /\ zone' = change
<1> DEFINE n == Head(sync[w].todo)
<1>1. sync[w] \in ZoneRun /\ sync \in [Worker -> ZoneRun] /\ sync[w].ids \in [Zone!Name -> 0..highest] /\ highest \in Nat
      /\ (\A m \in Zone!Name : sync[w].ids[m] # 1) /\ Placed(w)
  BY ZoneWorkerIs
<1>2. n \in Zone!Name
  BY <1>1 DEF ZoneRun, Zone!Syncing, Zone!Doing
<1>3. sync' = [sync EXCEPT ![w].pc = "claim", ![w].ids[n] = i, ![w].stale = @ \/ ~whole]
  BY DEF Zone!Written
<1>4. sync' = [sync EXCEPT ![w] = sync'[w]]
      /\ sync'[w] = [sync[w] EXCEPT !.pc = "claim", !.ids[n] = i, !.stale = @ \/ ~whole]
  BY <1>1, <1>3
<1>5. /\ sync'[w].job = sync[w].job /\ sync'[w].of = sync[w].of /\ sync'[w].pc = "claim"
      /\ sync'[w].todo = sync[w].todo /\ sync'[w].seen = sync[w].seen
      /\ sync'[w].ids = [sync[w].ids EXCEPT ![n] = i]
      /\ sync'[w].stale = (sync[w].stale \/ ~whole)
  BY <1>1, <1>4 DEF ZoneRun
<1>6. 0..highest \subseteq 0..highest' /\ i \in 0..highest' /\ 0..highest' \subseteq Nat /\ i \in Nat
  BY <1>1
<1>7. sync'[w].ids \in [Zone!Name -> 0..highest'] /\ (\A m \in Zone!Name : sync'[w].ids[m] # 1) /\ sync'[w].ids \in [Zone!Name -> Nat]
  BY <1>1, <1>2, <1>5, <1>6
<1>8. sync'[w] \in ZoneRun
  BY <1>1, <1>4, <1>5, <1>7 DEF ZoneRun
<1>9. ~sync'[w].stale => ~sync[w].stale /\ whole
  BY <1>5
<1>10. Placed(w)' /\ TakenAway(w)'
  BY <1>1, <1>5 DEF Placed, TakenAway, Zone!Syncing, Zone!Doing
<1>11. QED BY <1>4, <1>5, <1>7, <1>8, <1>9, <1>10 DEF Zone!Written, Zone!me, Zone!Syncing, Zone!Doing

LEMMA RecordWrittenKeeps ==
    ASSUME ZoneInv, Zone!ZoneAssumption, NEW w \in Worker, Zone!Syncing(w, "write"), NEW i \in 1..highest', i # 1,
           NEW whole \in BOOLEAN, NEW change, Zone!Written(w, i, change, whole), Harmless(Zone!me(w)),
           UNCHANGED <<Zone!rest, ids>>, Zone!Calm \/ Zone!Trouble, clear' \subseteq clear,
           loose' \in {loose, loose \cup {Zone!me(w)}}, PutRight(w)'
    PROVE  ZoneInv'
<1>1. highest' \in {highest, highest + 1}
  BY DEF Harmless
<1>2. /\ sync' = [sync EXCEPT ![w] = sync'[w]] /\ sync'[w] \in ZoneRun
      /\ sync'[w].job = "sync" /\ sync'[w].of = Zone!me(w) /\ sync'[w].seen = sync[w].seen
      /\ sync'[w].ids \in [Zone!Name -> 0..highest'] /\ (\A n \in Zone!Name : sync'[w].ids[n] # 1)
      /\ Placed(w)' /\ TakenAway(w)'
  BY <1>1, RecordWrittenIs
<1>3. /\ Zone!me(w) \in Zone!Owner /\ highest \in Nat /\ sync[w].seen \subseteq 1..highest /\ 1 \notin sync[w].seen
      /\ ids \in [Zone!Owner -> [Zone!Name -> 0..highest]] /\ (\A o \in Zone!Owner : \A n \in Zone!Name : ids[o][n] # 1)
      /\ clear \subseteq Zone!Name
  BY ZoneWorkerIs
<1>4. sync[w].seen \subseteq 1..highest' /\ ids' \in [Zone!Owner -> [Zone!Name -> 0..highest']] /\ clear' \subseteq Zone!Name
  <2>1. 1..highest \subseteq 1..highest' /\ 0..highest \subseteq 0..highest' /\ ids' = ids
    BY <1>1, <1>3
  <2>2. QED BY <1>3, <2>1
<1>5. Zone!OldAnswersGone' /\ zoneTroubles' \in 0..MaxTroubles
  BY <1>3, AnswersKeep, ZoneTroublesKept
<1>6. /\ Zone!Busy(w) /\ sync[w].job = "sync" /\ ids' = ids /\ UNCHANGED <<type, aliases, owners, runs, zoneEdits>>
  BY DEF Zone!Syncing, Zone!Doing, Zone!Busy, Zone!rest
<1>7. QED BY <1>2, <1>3, <1>4, <1>5, <1>6, ZoneTurnKeeps

\* What this server wants said at a name is nobody else's.
LEMMA WantedComes ==
    ASSUME ZoneInv, NEW w \in Worker, Zone!Syncing(w, "write"), NEW i \in 1..highest', i # 1,
           i = highest + 1 \/ \E q \in zone : q.id = i
    PROVE  Comes([Zone!Wants(w) EXCEPT !.id = i], Zone!me(w))
<1>1. sync[w] \in ZoneRun /\ Placed(w) /\ Zone!me(w) \in Zone!Owner /\ type \in Zone!Address /\ highest \in Nat
  BY ZoneWorkerIs DEF ZoneInv, ZoneTyped, Zone!TypeOK
<1>2. sync[w].todo # <<>> /\ Head(sync[w].todo) \in Zone!Name
      /\ (Zone!me(w) = "site" => Head(sync[w].todo) \in {"apex", "www"})
  BY <1>1 DEF ZoneRun, Zone!Syncing, Zone!Doing, Placed, Zone!me
<1>3. i \in Nat
  OBVIOUS
<1>4. CASE Zone!me(w) = "site"
  <2>1. [Zone!Wants(w) EXCEPT !.id = i] = Zone!Record(i, Head(sync[w].todo), type, "here")
    BY <1>4 DEF Zone!Wants, Zone!Wanted, Zone!Record
  <2>2. QED BY <1>1, <1>2, <1>3, <1>4, <2>1 DEF Comes, Zone!Record, Rec, Zone!ours, Zone!Address, Zone!Content, Zone!Name
<1>5. CASE Zone!me(w) = "mail"
  <2>1. \/ [Zone!Wants(w) EXCEPT !.id = i] = Zone!Record(i, Head(sync[w].todo), "TXT", "spf here")
        \/ [Zone!Wants(w) EXCEPT !.id = i] = Zone!Record(i, Head(sync[w].todo), "A", "here")
    <3>1. \/ Zone!Wants(w) = Zone!Record(0, Head(sync[w].todo), "TXT", "spf here")
          \/ Zone!Wants(w) = Zone!Record(0, Head(sync[w].todo), "A", "here")
      BY <1>5 DEF Zone!Wants, Zone!Wanted
    <3>2. \A n, t, c : [Zone!Record(0, n, t, c) EXCEPT !.id = i] = Zone!Record(i, n, t, c)
      BY DEF Zone!Record
    <3> DEFINE h == Head(sync[w].todo)  said == Zone!Wants(w)
    <3>3. CASE said = Zone!Record(0, h, "TXT", "spf here")
      <4>1. [said EXCEPT !.id = i] = Zone!Record(i, h, "TXT", "spf here")
        <5> HIDE DEF h, said
        <5>1. QED BY <3>2, <3>3
      <4>2. QED BY <4>1
    <3>4. CASE said = Zone!Record(0, h, "A", "here")
      <4>1. [said EXCEPT !.id = i] = Zone!Record(i, h, "A", "here")
        <5> HIDE DEF h, said
        <5>1. QED BY <3>2, <3>4
      <4>2. QED BY <4>1
    <3>5. QED BY <3>1, <3>3, <3>4
  <2>2. QED BY <1>1, <1>2, <1>3, <1>5, <2>1 DEF Comes, Zone!Record, Rec, Zone!ours, Zone!Address, Zone!Content, Zone!Name
<1>6. QED BY <1>1, <1>4, <1>5 DEF Zone!Owner

LEMMA ZoneCreateKeeps == ASSUME ZoneInv, Zone!ZoneAssumption, NEW w \in Worker, Zone!CreateRecord(w) PROVE ZoneInv'
<1>1. /\ Zone!Syncing(w, "write") /\ sync[w].seen = {} /\ UNCHANGED <<Zone!rest, ids, clear, loose>>
      /\ sync[w].job = "sync" /\ sync[w].todo # <<>>
  BY DEF Zone!CreateRecord, Zone!Syncing, Zone!Doing
<1>2. highest \in Nat /\ 1 <= highest /\ clear \subseteq Zone!Name /\ Zone!me(w) \in Zone!Owner
  BY ZoneWorkerIs
<1>3. CASE Zone!NextName(w) /\ Zone!Trouble /\ UNCHANGED <<zone, highest>>
  <2>1. Harmless(Zone!me(w)) /\ Zone!OldAnswersGone'
    BY <1>1, <1>2, <1>3, ZoneNoChange, AnswersKeep
  <2>2. QED BY <1>1, <1>2, <1>3, <2>1, PassOn
<1>4. CASE /\ Zone!Written(w, highest + 1, zone \cup {[Zone!Wants(w) EXCEPT !.id = highest + 1]}, TRUE)
           /\ highest' = highest + 1 /\ Zone!Calm
  <2>1. highest + 1 \in 1..highest' /\ highest + 1 # 1
    BY <1>2, <1>4
  <2>2. Comes([Zone!Wants(w) EXCEPT !.id = highest + 1], Zone!me(w))
    BY <1>1, <2>1, WantedComes
  <2>3. zone' = zone \cup {[Zone!Wants(w) EXCEPT !.id = highest + 1]}
    BY <1>4 DEF Zone!Written
  <2>4. Harmless(Zone!me(w))
    BY <1>4, <2>2, <2>3 DEF Harmless
  <2>5. PutRight(w)'
    <3>1. /\ sync'[w].todo = sync[w].todo /\ (~sync'[w].stale => ~sync[w].stale) /\ sync'[w].of = Zone!me(w)
      BY <1>1, <1>4, <2>1, RecordWrittenIs
    <3>2. PutRight(w)
      BY ZoneWorkerIs
    <3>3. Zone!Wants(w)' = Zone!Wants(w)
      BY <1>1, <3>1 DEF Zone!Wants, Zone!Wanted, Zone!Record, Zone!me, Zone!rest
    <3> SUFFICES ASSUME ~sync'[w].stale, NEW r \in zone', r.name = Head(sync[w].todo), r.type = Zone!Wants(w).type,
                        r.type \in Zone!Address
                 PROVE  r.content = "here"
      BY <3>1, <3>3 DEF PutRight
    <3>4. CASE r \in zone
      BY <1>1, <3>1, <3>2, <3>4 DEF PutRight
    <3>5. CASE r = [Zone!Wants(w) EXCEPT !.id = highest + 1]
      BY <2>2, <3>5 DEF Comes
    <3>6. QED BY <2>3, <3>4, <3>5
  <2>6. QED BY <1>1, <1>4, <2>1, <2>4, <2>5, RecordWrittenKeeps
<1>5. QED BY <1>3, <1>4 DEF Zone!CreateRecord

LEMMA ZoneUpdateKeeps == ASSUME ZoneInv, Zone!ZoneAssumption, NEW w \in Worker, Zone!UpdateRecord(w) PROVE ZoneInv'
<1>1. PICK i \in sync[w].seen :
         LET there == {r \in zone : r.id = i} IN
         \/ /\ there # {}
            /\ \E stay \in {{}, sync[w].seen \ {i}} :
                 /\ Zone!Written(w, i, {r \in zone : r.id \notin sync[w].seen \/ r.id \in stay}
                                    \cup {[Zone!Wants(w) EXCEPT !.id = i]}, stay = {})
                 /\ IF stay = {} THEN Zone!Calm /\ UNCHANGED <<loose, clear>>
                    ELSE /\ Zone!Trouble /\ loose' = loose \cup {Zone!me(w)}
                         /\ clear' = clear \ {Head(sync[w].todo)}
         \/ /\ IF there = {} THEN Zone!Calm ELSE Zone!Trouble
            /\ Zone!NextName(w) /\ UNCHANGED <<zone, clear, loose>>
  BY DEF Zone!UpdateRecord
<1>2. /\ Zone!Syncing(w, "write") /\ UNCHANGED <<Zone!rest, ids, highest>>
      /\ sync[w].job = "sync" /\ sync[w].todo # <<>>
  BY DEF Zone!UpdateRecord, Zone!Syncing, Zone!Doing
<1>3. /\ highest \in Nat /\ 1 <= highest /\ clear \subseteq Zone!Name /\ Zone!me(w) \in Zone!Owner /\ sync[w].seen \subseteq 1..highest
      /\ 1 \notin sync[w].seen
  BY ZoneWorkerIs
<1>4. CASE (Zone!Calm \/ Zone!Trouble) /\ Zone!NextName(w) /\ UNCHANGED <<zone, clear, loose>>
  <2>1. Harmless(Zone!me(w)) /\ Zone!OldAnswersGone'
    BY <1>2, <1>3, <1>4, ZoneNoChange, AnswersKeep
  <2>2. QED BY <1>2, <1>3, <1>4, <2>1, PassOn
<1>5. ASSUME \E q \in zone : q.id = i,
             NEW stay \in {{}, sync[w].seen \ {i}},
             Zone!Written(w, i, {r \in zone : r.id \notin sync[w].seen \/ r.id \in stay}
                                    \cup {[Zone!Wants(w) EXCEPT !.id = i]}, stay = {}),
             IF stay = {} THEN Zone!Calm /\ UNCHANGED <<loose, clear>>
                    ELSE /\ Zone!Trouble /\ loose' = loose \cup {Zone!me(w)}
                         /\ clear' = clear \ {Head(sync[w].todo)}
      PROVE ZoneInv'
  <2> DEFINE whole == stay = {}
             change == {r \in zone : r.id \notin sync[w].seen \/ r.id \in stay} \cup {[Zone!Wants(w) EXCEPT !.id = i]}
  <2>1. i \in 1..highest' /\ i # 1 /\ whole \in BOOLEAN /\ highest' = highest
    BY <1>2, <1>3
  <2>2. Comes([Zone!Wants(w) EXCEPT !.id = i], Zone!me(w))
    BY <1>2, <1>5, <2>1, WantedComes
  <2>3. zone' = change /\ Zone!Written(w, i, change, whole)
    BY <1>5 DEF Zone!Written
  <2>4. Harmless(Zone!me(w))
    BY <1>3, <2>1, <2>2, <2>3 DEF Harmless
  <2>5. (Zone!Calm \/ Zone!Trouble) /\ clear' \subseteq clear /\ loose' \in {loose, loose \cup {Zone!me(w)}}
    BY <1>5
  <2>6. PutRight(w)'
    <3>1. /\ sync'[w].todo = sync[w].todo /\ sync'[w].of = Zone!me(w)
          /\ (~sync'[w].stale => ~sync[w].stale /\ whole)
      <4> HIDE DEF whole, change
      <4>1. QED BY <1>2, <2>1, <2>3, RecordWrittenIs
    <3>2. PutRight(w)
      BY ZoneWorkerIs
    <3>3. Zone!Wants(w)' = Zone!Wants(w)
      BY <1>2, <3>1 DEF Zone!Wants, Zone!Wanted, Zone!Record, Zone!me, Zone!rest
    <3> SUFFICES ASSUME ~sync'[w].stale, NEW r \in zone', r.name = Head(sync[w].todo), r.type = Zone!Wants(w).type,
                        r.type \in Zone!Address
                 PROVE  r.content = "here"
      BY <3>1, <3>3 DEF PutRight
    <3>4. CASE r \in zone /\ r.id \notin sync[w].seen
      BY <1>2, <3>1, <3>2, <3>4 DEF PutRight
    <3>5. CASE r = [Zone!Wants(w) EXCEPT !.id = i]
      BY <2>2, <3>5 DEF Comes
    <3>6. QED BY <2>3, <3>1, <3>4, <3>5
  <2> HIDE DEF whole, change
  <2>7. QED BY <1>2, <2>1, <2>3, <2>4, <2>5, <2>6, RecordWrittenKeeps
<1>6. QED BY <1>1, <1>4, <1>5

LEMMA ClaimKeeps == ASSUME ZoneInv, Zone!ZoneAssumption, NEW w \in Worker, Zone!ClaimHost(w) PROVE ZoneInv'
<1> DEFINE n == Head(sync[w].todo)
           others == {r \in zone : r.name = n /\ r.type \in Zone!Address \ {Zone!Wants(w).type}}
           left == {r \in zone : r.name = n /\ r.type \in Zone!Address /\ r.content # "here"}
<1>1. /\ Zone!Syncing(w, "claim") /\ Zone!NextName(w) /\ UNCHANGED <<Zone!rest, highest, ids, loose>>
      /\ sync[w].job = "sync" /\ sync[w].todo # <<>> /\ (Zone!Calm \/ Zone!Trouble)
  BY DEF Zone!ClaimHost, Zone!Syncing, Zone!Doing
<1>2. /\ clear \subseteq Zone!Name /\ Zone!me(w) \in Zone!Owner /\ PutRight(w) /\ sync[w] \in ZoneRun /\ n \in Zone!Name
      /\ VerifyThere /\ Zone!OldAnswersGone
  BY <1>1, ZoneWorkerIs DEF ZoneRun, ZoneInv
<1>3. CASE UNCHANGED <<zone, clear>>
  <2>1. Harmless(Zone!me(w)) /\ Zone!OldAnswersGone'
    BY <1>1, <1>2, <1>3, ZoneNoChange, AnswersKeep
  <2>2. QED BY <1>1, <1>2, <1>3, <2>1, PassOn
<1>4. CASE zone' = zone /\ clear' = IF left = {} THEN clear ELSE clear \ {n}
  <2>1. Harmless(Zone!me(w)) /\ Zone!OldAnswersGone'
    BY <1>1, <1>2, <1>4, ZoneNoChange, AnswersKeep
  <2>2. QED BY <1>1, <1>2, <1>4, <2>1, PassOn
<1>5. CASE /\ Zone!Wants(w).type \in Zone!Address
           /\ zone' = zone \ others
           /\ clear' = IF sync[w].stale THEN clear ELSE clear \cup {n}
  <2>1. Harmless(Zone!me(w))
    BY <1>1, <1>2, <1>5 DEF Harmless, VerifyThere, Zone!Address
  <2>2. Zone!OldAnswersGone'
    <3> SUFFICES ASSUME NEW r \in zone', r.name \in clear', r.type \in Zone!Address PROVE r.content = "here"
      BY DEF Zone!OldAnswersGone
    <3>1. r \in zone /\ r \notin others
      BY <1>5
    <3>2. CASE r.name \in clear
      BY <1>2, <3>1, <3>2 DEF Zone!OldAnswersGone
    <3>3. CASE r.name = n /\ ~sync[w].stale
      <4>1. r.type = Zone!Wants(w).type
        BY <3>1, <3>3
      <4>2. QED BY <1>1, <1>2, <3>1, <3>3, <4>1 DEF PutRight, Zone!Syncing, Zone!Doing
    <3>4. QED BY <1>5, <3>2, <3>3
  <2>3. clear' \subseteq Zone!Name
    BY <1>2, <1>5
  <2>4. QED BY <1>1, <1>2, <2>1, <2>2, <2>3, PassOn
<1>6. QED BY <1>3, <1>4, <1>5 DEF Zone!ClaimHost

\* A worker that has done its work.
LEMMA ZoneRestingIs ==
    ASSUME ZoneInv, NEW w \in Worker, sync' = [sync EXCEPT ![w] = Zone!Resting], highest' = highest
    PROVE  /\ sync'[w] = Zone!Resting /\ sync' = [sync EXCEPT ![w] = sync'[w]] /\ sync'[w] \in ZoneRun
           /\ Placed(w)' /\ PutRight(w)' /\ TakenAway(w)'
           /\ sync'[w].seen \subseteq 1..highest' /\ 1 \notin sync'[w].seen
           /\ sync'[w].ids \in [Zone!Name -> 0..highest'] /\ (\A n \in Zone!Name : sync'[w].ids[n] # 1)
           /\ sync'[w].job = "none"
<1>1. sync'[w] = Zone!Resting /\ highest \in Nat
  BY ZoneWorkerIs
<1>2. /\ Zone!Resting.job = "none" /\ Zone!Resting.of = "site" /\ Zone!Resting.todo = <<>> /\ Zone!Resting.pc = "list"
      /\ Zone!Resting.seen = {} /\ Zone!Resting.ids = Zone!NoIds /\ Zone!Resting.stale = FALSE
  BY DEF Zone!Resting
<1>3. Zone!NoIds \in [Zone!Name -> 0..highest] /\ (\A n \in Zone!Name : Zone!NoIds[n] # 1) /\ Zone!NoIds \in [Zone!Name -> Nat]
  BY <1>1 DEF Zone!NoIds
<1>4. Zone!Resting \in ZoneRun
  <2>1. <<>> \in Seq(Zone!Name)
    OBVIOUS
  <2>2. QED BY <1>3, <2>1 DEF Zone!Resting, ZoneRun, Zone!Owner
<1>5. Placed(w)' /\ PutRight(w)' /\ TakenAway(w)'
  <2>1. <<>> \in Seq({"apex", "www"})
    OBVIOUS
  <2>2. QED BY <1>1, <1>2, <2>1 DEF Placed, PutRight, TakenAway, Zone!Syncing, Zone!Doing
<1>6. QED BY <1>1, <1>2, <1>3, <1>4, <1>5

LEMMA ZoneSaveKeeps == ASSUME ZoneInv, Zone!ZoneAssumption, NEW w \in Worker, Zone!SaveIds(w) PROVE ZoneInv'
<1>1. /\ Zone!Busy(w) /\ sync' = [sync EXCEPT ![w] = Zone!Resting] /\ highest' = highest /\ zone' = zone /\ clear' = clear
      /\ loose' = loose /\ UNCHANGED <<type, aliases, owners, runs, zoneEdits, zoneTroubles>>
      /\ ids' = [ids EXCEPT ![Zone!me(w)] = IF Zone!me(w) \in owners THEN sync[w].ids ELSE @]
  BY DEF Zone!SaveIds, Zone!Busy, Zone!rest
<1>2. /\ Zone!me(w) \in Zone!Owner /\ clear \subseteq Zone!Name /\ sync[w].ids \in [Zone!Name -> 0..highest]
      /\ (\A n \in Zone!Name : sync[w].ids[n] # 1)
      /\ ids \in [Zone!Owner -> [Zone!Name -> 0..highest]] /\ (\A o \in Zone!Owner : \A n \in Zone!Name : ids[o][n] # 1)
  BY ZoneWorkerIs
<1>3. /\ ids' \in [Zone!Owner -> [Zone!Name -> 0..highest']] /\ (\A o \in Zone!Owner : o # Zone!me(w) => ids'[o] = ids[o])
      /\ (\A n \in Zone!Name : ids'[Zone!me(w)][n] # 1)
  <2>1. ids'[Zone!me(w)] \in {sync[w].ids, ids[Zone!me(w)]}
    BY <1>1, <1>2
  <2>2. QED BY <1>1, <1>2, <2>1
<1>4. Harmless(Zone!me(w)) /\ Zone!OldAnswersGone'
  BY <1>1, <1>2, ZoneNoChange, AnswersKeep
<1>5. zoneTroubles' \in 0..MaxTroubles
  BY <1>1, ZoneTroublesKept DEF Zone!Calm
<1>6. /\ sync' = [sync EXCEPT ![w] = sync'[w]] /\ sync'[w] \in ZoneRun
      /\ Placed(w)' /\ PutRight(w)' /\ TakenAway(w)'
      /\ sync'[w].seen \subseteq 1..highest' /\ 1 \notin sync'[w].seen
      /\ sync'[w].ids \in [Zone!Name -> 0..highest'] /\ (\A n \in Zone!Name : sync'[w].ids[n] # 1)
      /\ sync'[w].job = "none"
  BY <1>1, ZoneRestingIs
<1>7. QED BY <1>1, <1>2, <1>3, <1>4, <1>5, <1>6, ZoneTurnKeeps

LEMMA StoredAreRemoved == ASSUME ZoneInv, Zone!ZoneAssumption, NEW w \in Worker, Zone!RemoveStored(w) PROVE ZoneInv'
<1>1. PICK i \in sync[w].seen :
         /\ \/ zone' = {r \in zone : r.id # i} /\ Zone!Calm /\ UNCHANGED loose
            \/ /\ \E r \in zone : r.id = i
               /\ Zone!Trouble /\ UNCHANGED zone /\ loose' = loose \cup {Zone!me(w)}
         /\ sync' = [sync EXCEPT ![w].seen = sync[w].seen \ {i}]
  BY DEF Zone!RemoveStored
<1>2. /\ sync[w].job = "remove" /\ sync[w].pc = "write" /\ Zone!Busy(w)
      /\ highest' = highest /\ ids' = ids /\ clear' = clear /\ UNCHANGED <<type, aliases, owners, runs, zoneEdits>>
      /\ (Zone!Calm \/ Zone!Trouble) /\ loose' \in {loose, loose \cup {Zone!me(w)}}
  BY <1>1 DEF Zone!RemoveStored, Zone!Doing, Zone!Busy, Zone!rest
<1>3. /\ sync[w] \in ZoneRun /\ sync \in [Worker -> ZoneRun] /\ Placed(w) /\ Zone!me(w) \in Zone!Owner
      /\ highest \in Nat /\ sync[w].seen \subseteq 1..highest /\ sync[w].ids \in [Zone!Name -> 0..highest]
      /\ 1 \notin sync[w].seen /\ (\A n \in Zone!Name : sync[w].ids[n] # 1) /\ TakenAway(w)
      /\ ids \in [Zone!Owner -> [Zone!Name -> 0..highest]] /\ (\A o \in Zone!Owner : \A n \in Zone!Name : ids[o][n] # 1)
      /\ clear \subseteq Zone!Name
  BY ZoneWorkerIs
<1>4. sync' = [sync EXCEPT ![w] = sync'[w]] /\ sync'[w] = [sync[w] EXCEPT !.seen = sync[w].seen \ {i}]
  BY <1>1, <1>3
<1>5. /\ sync'[w].job = "remove" /\ sync'[w].of = Zone!me(w) /\ sync'[w].pc = "write" /\ sync'[w].ids = sync[w].ids
      /\ sync'[w].seen = sync[w].seen \ {i} /\ sync'[w].todo = sync[w].todo /\ sync'[w] \in ZoneRun
  BY <1>2, <1>3, <1>4 DEF ZoneRun, Zone!me
<1>6. Harmless(Zone!me(w))
  BY <1>1, <1>2, <1>3 DEF Harmless, ZoneInv, VerifyThere
<1>7. Zone!OldAnswersGone' /\ zoneTroubles' \in 0..MaxTroubles
  BY <1>2, <1>3, <1>6, AnswersKeep, ZoneTroublesKept
<1>8. Placed(w)' /\ PutRight(w)'
  BY <1>3, <1>5 DEF Placed, PutRight, Zone!Syncing, Zone!Doing, Zone!me
<1>9. TakenAway(w)'
  <2> SUFFICES ASSUME Zone!me(w) \notin loose', NEW n \in Zone!Name
               PROVE  ids[Zone!me(w)][n] \in sync[w].seen \ {i} \/ \A r \in zone' : r.id # ids[Zone!me(w)][n]
    BY <1>2, <1>5 DEF TakenAway, Zone!me, Absent
  <2>1. ids[Zone!me(w)][n] \in sync[w].seen \/ Absent(ids[Zone!me(w)][n])
    BY <1>2, <1>3 DEF TakenAway
  <2>2. zone' = {r \in zone : r.id # i}
    BY <1>1
  <2>3. QED BY <2>1, <2>2 DEF Absent
<1>10. /\ sync'[w].seen \subseteq 1..highest' /\ 1 \notin sync'[w].seen /\ sync'[w].ids \in [Zone!Name -> 0..highest']
       /\ (\A n \in Zone!Name : sync'[w].ids[n] # 1) /\ sync'[w].job \in {sync[w].job, "none"}
       /\ ids' \in [Zone!Owner -> [Zone!Name -> 0..highest']] /\ (\A n \in Zone!Name : ids'[Zone!me(w)][n] # 1)
       /\ (\A o \in Zone!Owner : o # Zone!me(w) => ids'[o] = ids[o]) /\ clear' \subseteq Zone!Name
  BY <1>2, <1>3, <1>5
<1>11. sync' = [sync EXCEPT ![w] = sync'[w]]
  BY <1>4
<1>12. QED BY <1>2, <1>5, <1>6, <1>7, <1>8, <1>9, <1>10, <1>11, ZoneTurnKeeps

LEMMA LeftoversKeep == ASSUME ZoneInv, Zone!ZoneAssumption, NEW w \in Worker, Zone!RemoveLeftovers(w) PROVE ZoneInv'
<1>1. /\ \/ zone' = {r \in zone : ~Zone!ours(r)} /\ Zone!Calm /\ UNCHANGED loose
         \/ UNCHANGED zone /\ Zone!Trouble /\ loose' = loose \cup {"mail"}
      /\ sync' = [sync EXCEPT ![w].pc = "leftovers"]
  BY DEF Zone!RemoveLeftovers
<1>2. /\ sync[w].job = "remove" /\ sync[w].pc = "write" /\ sync[w].seen = {} /\ Zone!Busy(w) /\ Zone!me(w) = "mail"
      /\ highest' = highest /\ ids' = ids /\ clear' = clear /\ UNCHANGED <<type, aliases, owners, runs, zoneEdits>>
      /\ (Zone!Calm \/ Zone!Trouble) /\ loose' \in {loose, loose \cup {Zone!me(w)}}
  BY <1>1 DEF Zone!RemoveLeftovers, Zone!Doing, Zone!Busy, Zone!rest
<1>3. /\ sync[w] \in ZoneRun /\ sync \in [Worker -> ZoneRun] /\ Placed(w) /\ Zone!me(w) \in Zone!Owner
      /\ highest \in Nat /\ sync[w].seen \subseteq 1..highest /\ sync[w].ids \in [Zone!Name -> 0..highest]
      /\ 1 \notin sync[w].seen /\ (\A n \in Zone!Name : sync[w].ids[n] # 1) /\ TakenAway(w)
      /\ ids \in [Zone!Owner -> [Zone!Name -> 0..highest]] /\ (\A o \in Zone!Owner : \A n \in Zone!Name : ids[o][n] # 1)
      /\ clear \subseteq Zone!Name
  BY ZoneWorkerIs
<1>4. sync' = [sync EXCEPT ![w] = sync'[w]] /\ sync'[w] = [sync[w] EXCEPT !.pc = "leftovers"]
  BY <1>1, <1>3
<1>5. /\ sync'[w].job = "remove" /\ sync'[w].of = Zone!me(w) /\ sync'[w].pc = "leftovers" /\ sync'[w].ids = sync[w].ids
      /\ sync'[w].seen = {} /\ sync'[w].todo = sync[w].todo /\ sync'[w] \in ZoneRun
  BY <1>2, <1>3, <1>4 DEF ZoneRun, Zone!me
<1>6. Harmless(Zone!me(w))
  BY <1>1, <1>2, <1>3 DEF Harmless, ZoneInv, VerifyThere, Zone!ours
<1>7. Zone!OldAnswersGone' /\ zoneTroubles' \in 0..MaxTroubles
  BY <1>2, <1>3, <1>6, AnswersKeep, ZoneTroublesKept
<1>8. Placed(w)' /\ PutRight(w)'
  BY <1>2, <1>3, <1>5 DEF Placed, PutRight, Zone!Syncing, Zone!Doing, Zone!me
<1>9. TakenAway(w)'
  <2> SUFFICES ASSUME Zone!me(w) \notin loose'
               PROVE  /\ \A n \in Zone!Name : \A r \in zone' : r.id # ids[Zone!me(w)][n]
                      /\ \A r \in zone' : ~Zone!ours(r)
    BY <1>2, <1>5 DEF TakenAway, Zone!me, Absent, Zone!ours
  <2>1. \A n \in Zone!Name : Absent(ids[Zone!me(w)][n])
    BY <1>2, <1>3 DEF TakenAway
  <2>2. zone' = {r \in zone : ~Zone!ours(r)}
    BY <1>1, <1>2
  <2>3. QED BY <2>1, <2>2 DEF Absent
<1>10. /\ sync'[w].seen \subseteq 1..highest' /\ 1 \notin sync'[w].seen /\ sync'[w].ids \in [Zone!Name -> 0..highest']
       /\ (\A n \in Zone!Name : sync'[w].ids[n] # 1) /\ sync'[w].job \in {sync[w].job, "none"}
       /\ ids' \in [Zone!Owner -> [Zone!Name -> 0..highest']] /\ (\A n \in Zone!Name : ids'[Zone!me(w)][n] # 1)
       /\ (\A o \in Zone!Owner : o # Zone!me(w) => ids'[o] = ids[o]) /\ clear' \subseteq Zone!Name
  BY <1>2, <1>3, <1>5
<1>11. sync' = [sync EXCEPT ![w] = sync'[w]]
  BY <1>4
<1>12. QED BY <1>2, <1>5, <1>6, <1>7, <1>8, <1>9, <1>10, <1>11, ZoneTurnKeeps

\* The last step of a removal: what it has taken away is what must be gone.
LEMMA ZoneRowKeeps == ASSUME ZoneInv, Zone!ZoneAssumption, NEW w \in Worker, Zone!RemoveRow(w) PROVE ZoneInv'
<1>1. /\ sync[w].job = "remove" /\ sync[w].seen = {} /\ Zone!Busy(w)
      /\ sync[w].pc = (IF Zone!me(w) = "mail" THEN "leftovers" ELSE "write")
      /\ owners' = owners \ {Zone!me(w)} /\ sync' = [sync EXCEPT ![w] = Zone!Resting]
      /\ UNCHANGED <<zone, highest, type, aliases, ids, clear, loose, runs, zoneEdits, zoneTroubles>>
  BY DEF Zone!RemoveRow, Zone!Busy
<1>0. zone' = zone /\ highest' = highest /\ type' = type /\ ids' = ids /\ loose' = loose
  BY <1>1
<1>2. /\ sync[w] \in ZoneRun /\ sync \in [Worker -> ZoneRun] /\ Zone!me(w) \in Zone!Owner /\ TakenAway(w)
      /\ highest \in Nat
  BY ZoneWorkerIs
<1>3. /\ sync'[w] = Zone!Resting /\ sync'[w] \in ZoneRun /\ Placed(w)' /\ PutRight(w)' /\ TakenAway(w)'
      /\ sync'[w].seen \subseteq 1..highest' /\ 1 \notin sync'[w].seen
      /\ sync'[w].ids \in [Zone!Name -> 0..highest'] /\ (\A n \in Zone!Name : sync'[w].ids[n] # 1)
      /\ sync'[w].job = "none"
  BY <1>1, ZoneRestingIs
<1>4. \A v \in Worker : v # w => sync'[v] = sync[v]
  BY <1>1, <1>2
<1>5. ZoneTyped /\ VerifyThere /\ OneAtOnce /\ Zone!OldAnswersGone /\ Zone!NothingLeft
  BY DEF ZoneInv
<1>6. sync' \in [Worker -> ZoneRun]
  BY <1>1, <1>2, <1>3
<1>7. ZoneTyped'
  <2>1. Zone!TypeOK'
    <3>1. (\A r \in zone : /\ r.id \in 1..highest /\ r.name \in Zone!Name /\ r.content \in Zone!Content
                           /\ r.type \in Zone!Address \cup {"TXT"})'
      BY <1>1, <1>5 DEF ZoneTyped, Zone!TypeOK
    <3>2. \A v \in Worker : /\ sync'[v].job \in {"none", "sync", "remove"} /\ sync'[v].of \in Zone!Owner
                            /\ sync'[v].seen \subseteq 1..highest' /\ sync'[v].ids \in [Zone!Name -> 0..highest']
                            /\ sync'[v].pc \in {"list", "write", "claim", "leftovers"}
      BY <1>1, <1>3, <1>4, <1>5, <1>6 DEF ZoneTyped, Zone!TypeOK, ZoneRun
    <3>3. QED BY <1>1, <1>5, <3>1, <3>2 DEF ZoneTyped, Zone!TypeOK
  <2>2. \A v \in Worker : Placed(v)'
    BY <1>3, <1>4, <1>5 DEF ZoneTyped, Placed
  <2>3. QED BY <1>1, <1>5, <1>6, <2>1, <2>2 DEF ZoneTyped
<1>8. VerifyThere'
  BY <1>1, <1>3, <1>4, <1>5 DEF VerifyThere
<1>9. OneAtOnce'
  <2>1. \A v \in Worker : Zone!Busy(v)' => v # w /\ Zone!Busy(v) /\ Zone!me(v)' = Zone!me(v)
    BY <1>3, <1>4 DEF Zone!Busy, Zone!me
  <2>2. QED BY <1>1, <1>5, <2>1 DEF OneAtOnce, Zone!BusyOn, Zone!me
<1>10. Zone!OldAnswersGone'
  BY <1>0, <1>1, <1>5 DEF Zone!OldAnswersGone
<1>11. Zone!NothingLeft'
  <2> SUFFICES ASSUME NEW o \in Zone!Owner, o \notin owners', o \notin loose, NEW r \in zone
               PROVE  ~(\E n \in Zone!Name : r.id = ids[o][n]) /\ (o = "mail" => ~(Zone!ours(r) /\ r.content # "there"))
    BY <1>0 DEF Zone!NothingLeft, Zone!ours
  <2>1. CASE o \notin owners
    BY <1>5, <2>1 DEF Zone!NothingLeft
  <2>2. CASE o = Zone!me(w)
    <3>1. \A n \in Zone!Name : Absent(ids[o][n])
      BY <1>1, <1>2, <2>2 DEF TakenAway
    <3>2. o = "mail" /\ Zone!ours(r) => r.content = "there"
      BY <1>1, <1>2, <2>2 DEF TakenAway
    <3>3. QED BY <3>1, <3>2 DEF Absent
  <2>3. QED BY <1>1, <2>1, <2>2
<1>12. ASSUME NEW v \in Worker, v # w PROVE PutRight(v)' /\ TakenAway(v)'
  <2>1. PutRight(v) /\ TakenAway(v) /\ sync'[v] = sync[v]
    BY <1>4, <1>12, ZoneWorkerIs
  <2>2. PutRight(v)'
    BY <1>1, <2>1 DEF PutRight, Zone!Syncing, Zone!Doing, Zone!Wants, Zone!Wanted, Zone!Record, Zone!me
  <2>3. TakenAway(v)'
    <3> SUFFICES ASSUME sync[v].job = "remove", Zone!me(v) \notin loose
                 PROVE  /\ \A n \in Zone!Name : ids[Zone!me(v)][n] \in sync[v].seen \/ Absent(ids[Zone!me(v)][n])
                        /\ sync[v].pc = "leftovers" => \A r \in zone : Zone!ours(r) => r.content = "there"
      BY <1>0, <2>1 DEF TakenAway, Absent, Zone!me, Zone!ours
    <3>1. QED BY <2>1 DEF TakenAway
  <2>4. QED BY <2>2, <2>3
<1>13. QED BY <1>3, <1>7, <1>8, <1>9, <1>10, <1>11, <1>12 DEF ZoneInv

\* Begin: a row that is there, which is known to have two at work if it has.
LEMMA ZoneBeginKeeps ==
    ASSUME ZoneInv, Zone!ZoneAssumption, NEW w \in Worker, NEW job \in {"sync", "remove"}, NEW o \in Zone!Owner,
           Zone!Begin(w, job, o)
    PROVE  ZoneInv'
<1> DEFINE todo == IF job = "sync" THEN Zone!Names(o) ELSE <<>>
           place == IF job = "sync" THEN "list" ELSE "write"
           ofRow == IF job = "sync" THEN {} ELSE Zone!Stored(o)
<1>1. /\ ~Zone!Busy(w) /\ runs < MaxRuns /\ runs' = runs + 1 /\ o \in owners
      /\ sync' = [sync EXCEPT ![w] = [Zone!Resting EXCEPT !.job = job, !.of = o, !.ids = ids[o],
                 !.todo = todo, !.pc = place, !.seen = ofRow]]
      /\ loose' = IF Zone!BusyOn(o) THEN loose \cup {o} ELSE loose
      /\ UNCHANGED <<zone, highest, type, aliases, owners, ids, clear, zoneEdits, zoneTroubles>>
  BY DEF Zone!Begin
<1>0. zone' = zone /\ highest' = highest /\ type' = type /\ ids' = ids /\ owners' = owners
  BY <1>1
<1>2. /\ sync[w] \in ZoneRun /\ sync \in [Worker -> ZoneRun] /\ highest \in Nat
      /\ ids \in [Zone!Owner -> [Zone!Name -> 0..highest]] /\ (\A n \in Zone!Name : ids[o][n] # 1)
      /\ ZoneTyped /\ VerifyThere /\ OneAtOnce /\ Zone!OldAnswersGone /\ Zone!NothingLeft
  BY ZoneWorkerIs DEF ZoneInv
<1>3. todo \in Seq(Zone!Name) /\ (o = "site" => todo \in Seq({"apex", "www"}))
  <2>1. <<"mail", "apex">> \in Seq(Zone!Name) /\ <<"apex", "www">> \in Seq(Zone!Name) /\ <<"apex">> \in Seq(Zone!Name)
    BY DEF Zone!Name
  <2>2. <<"apex", "www">> \in Seq({"apex", "www"}) /\ <<"apex">> \in Seq({"apex", "www"})
        /\ <<>> \in Seq({"apex", "www"}) /\ <<>> \in Seq(Zone!Name)
    OBVIOUS
  <2>3. QED BY <2>1, <2>2 DEF Zone!Names
<1>4. ofRow \subseteq 1..highest /\ 1 \notin ofRow
  BY <1>2 DEF Zone!Stored
<1> HIDE DEF todo, ofRow
<1>5. /\ sync'[w] = [Zone!Resting EXCEPT !.job = job, !.of = o, !.ids = ids[o],
                                   !.todo = todo, !.pc = place, !.seen = ofRow]
      /\ \A v \in Worker : v # w => sync'[v] = sync[v]
  BY <1>1, <1>2
<1>6. sync'[w] = [job |-> job, of |-> o, todo |-> todo, pc |-> place, seen |-> ofRow, ids |-> ids[o], stale |-> FALSE]
  BY <1>5 DEF Zone!Resting
<1>7. sync'[w] \in ZoneRun /\ sync' \in [Worker -> ZoneRun]
  <2>1. ids[o] \in [Zone!Name -> Nat] /\ ofRow \in SUBSET Nat
        /\ place \in {"list", "write", "claim", "leftovers"}
    BY <1>2, <1>4
  <2>2. sync'[w] \in ZoneRun
    BY <1>3, <1>6, <2>1 DEF ZoneRun
  <2>3. QED BY <1>1, <1>2, <1>5, <2>2
<1>8. /\ sync'[w].job = job /\ sync'[w].of = o /\ sync'[w].todo = todo /\ sync'[w].pc = place /\ sync'[w].seen = ofRow
      /\ sync'[w].ids = ids[o]
  BY <1>6
<1>9. ZoneTyped'
  <2>1. Zone!TypeOK'
    <3>1. (\A r \in zone : /\ r.id \in 1..highest /\ r.name \in Zone!Name /\ r.content \in Zone!Content
                           /\ r.type \in Zone!Address \cup {"TXT"})'
      BY <1>1, <1>2 DEF ZoneTyped, Zone!TypeOK
    <3>2. \A v \in Worker : /\ sync'[v].job \in {"none", "sync", "remove"} /\ sync'[v].of \in Zone!Owner
                            /\ sync'[v].seen \subseteq 1..highest' /\ sync'[v].ids \in [Zone!Name -> 0..highest']
                            /\ sync'[v].pc \in {"list", "write", "claim", "leftovers"}
      BY <1>1, <1>2, <1>4, <1>5, <1>7, <1>8 DEF ZoneTyped, Zone!TypeOK, ZoneRun
    <3>3. runs' \in 0..MaxRuns /\ loose' \subseteq Zone!Owner
      BY <1>1, <1>2 DEF ZoneTyped, Zone!TypeOK, Zone!ZoneAssumption
    <3>4. QED BY <1>1, <1>2, <3>1, <3>2, <3>3 DEF ZoneTyped, Zone!TypeOK
  <2>2. \A v \in Worker : Placed(v)'
    <3>1. \A v \in Worker : v # w => Placed(v)'
      BY <1>2, <1>5 DEF ZoneTyped, Placed
    <3>2. Placed(w)'
      BY <1>3, <1>8 DEF Placed
    <3>3. QED BY <3>1, <3>2
  <2>3. QED BY <1>1, <1>2, <1>7, <2>1, <2>2 DEF ZoneTyped
<1>10. VerifyThere'
  BY <1>1, <1>2, <1>4, <1>5, <1>8 DEF VerifyThere
<1>11. OneAtOnce'
  <2> SUFFICES ASSUME NEW p \in Zone!Owner, p \notin loose'
               PROVE  /\ \A u, v \in Worker : Zone!Busy(u)' /\ Zone!Busy(v)' /\ Zone!me(u)' = p /\ Zone!me(v)' = p => u = v
                      /\ p \notin owners => ~Zone!BusyOn(p)'
    BY <1>1 DEF OneAtOnce
  <2>1. p \notin loose
    BY <1>1
  <2>2. \A v \in Worker : v # w => (Zone!Busy(v)' <=> Zone!Busy(v)) /\ Zone!me(v)' = Zone!me(v)
    BY <1>5 DEF Zone!Busy, Zone!me
  <2>3. p = o => ~Zone!BusyOn(o)
    BY <1>1
  <2>4. Zone!me(w)' = o
    BY <1>8 DEF Zone!me
  <2>5. \A u, v \in Worker : Zone!Busy(u)' /\ Zone!Busy(v)' /\ Zone!me(u)' = p /\ Zone!me(v)' = p => u = v
    BY <1>2, <2>1, <2>2, <2>3, <2>4 DEF OneAtOnce, Zone!BusyOn, Zone!me
  <2>6. p \notin owners => ~Zone!BusyOn(p)'
    BY <1>1, <1>2, <2>1, <2>2, <2>4 DEF OneAtOnce, Zone!BusyOn, Zone!me
  <2>7. QED BY <2>5, <2>6
<1>12. Zone!OldAnswersGone'
  BY <1>1, <1>2 DEF Zone!OldAnswersGone
<1>13. Zone!NothingLeft'
  <2>1. loose \subseteq loose' /\ Zone!NothingLeft
    BY <1>1, <1>2
  <2>2. QED BY <1>0, <2>1, StaysGone
<1>14. ASSUME NEW v \in Worker PROVE PutRight(v)' /\ TakenAway(v)'
  <2>1. PutRight(v) /\ TakenAway(v)
    BY ZoneWorkerIs
  <2>2. CASE v # w
    <3>1. sync'[v] = sync[v]
      BY <1>5, <2>2
    <3>5. loose \subseteq loose'
      BY <1>1
    <3>2. PutRight(v)'
      BY <1>0, <2>1, <3>1 DEF PutRight, Zone!Syncing, Zone!Doing, Zone!Wants, Zone!Wanted, Zone!Record, Zone!me
    <3>3. TakenAway(v)'
      <4> SUFFICES ASSUME sync[v].job = "remove", Zone!me(v) \notin loose
                   PROVE  /\ \A n \in Zone!Name : ids[Zone!me(v)][n] \in sync[v].seen \/ Absent(ids[Zone!me(v)][n])
                          /\ sync[v].pc = "leftovers" => \A r \in zone : Zone!ours(r) => r.content = "there"
        BY <1>0, <3>1, <3>5 DEF TakenAway, Absent, Zone!me, Zone!ours
      <4>1. QED BY <2>1 DEF TakenAway
    <3>4. QED BY <3>2, <3>3
  <2>3. CASE v = w
    <3>1. PutRight(w)'
      BY <1>8 DEF PutRight, Zone!Syncing, Zone!Doing
    <3>2. TakenAway(w)'
      <4> SUFFICES ASSUME job = "remove", NEW n \in Zone!Name, ids[o][n] \notin Zone!Stored(o), NEW r \in zone
                   PROVE  r.id # ids[o][n]
        BY <1>1, <1>8 DEF TakenAway, Absent, Zone!me, ofRow
      <4>1. ids[o][n] = 0
        BY DEF Zone!Stored
      <4>2. QED BY <1>2, <4>1 DEF ZoneTyped, Zone!TypeOK
    <3>3. QED BY <2>3, <3>1, <3>2
  <2>4. QED BY <2>2, <2>3
<1>15. QED BY <1>9, <1>10, <1>11, <1>12, <1>13, <1>14 DEF ZoneInv

\* The panel dies: nobody is at work, and whose work was cut short is known.
LEMMA ZoneCrashKeeps == ASSUME ZoneInv, Zone!ZoneAssumption, Zone!Crash PROVE ZoneInv'
<1>1. /\ loose \subseteq loose' /\ loose' \subseteq Zone!Owner /\ sync' = [w \in Worker |-> Zone!Resting]
      /\ UNCHANGED <<zone, highest, type, aliases, owners, ids, clear, runs, zoneEdits>>
      /\ zoneTroubles' \in 0..MaxTroubles
  <2>1. \A w \in Worker : Zone!me(w) \in Zone!Owner
    BY ZoneWorkerIs
  <2>2. loose \subseteq Zone!Owner
    BY DEF ZoneInv, ZoneTyped, Zone!TypeOK
  <2>3. QED BY <2>1, <2>2, ZoneTroublesKept DEF Zone!Crash
<1>0. zone' = zone /\ highest' = highest /\ type' = type /\ ids' = ids /\ owners' = owners /\ clear' = clear
  BY <1>1
<1>2. /\ Zone!Resting.job = "none" /\ Zone!Resting.of = "site" /\ Zone!Resting.todo = <<>> /\ Zone!Resting.pc = "list"
      /\ Zone!Resting.seen = {} /\ Zone!Resting.ids = Zone!NoIds /\ Zone!Resting.stale = FALSE
  BY DEF Zone!Resting
<1>3. highest \in Nat /\ ZoneTyped /\ VerifyThere /\ OneAtOnce /\ Zone!OldAnswersGone /\ Zone!NothingLeft
  BY DEF ZoneInv, ZoneTyped
<1>4. Zone!NoIds \in [Zone!Name -> 0..highest] /\ (\A n \in Zone!Name : Zone!NoIds[n] # 1) /\ Zone!NoIds \in [Zone!Name -> Nat]
  BY <1>3 DEF Zone!NoIds
<1>5. Zone!Resting \in ZoneRun
  <2>1. <<>> \in Seq(Zone!Name)
    OBVIOUS
  <2>2. QED BY <1>4, <2>1 DEF Zone!Resting, ZoneRun, Zone!Owner
<1>6. \A w \in Worker : sync'[w] = Zone!Resting
  BY <1>1
<1>7. ZoneTyped'
  <2>1. Zone!TypeOK'
    <3>1. (\A r \in zone : /\ r.id \in 1..highest /\ r.name \in Zone!Name /\ r.content \in Zone!Content
                           /\ r.type \in Zone!Address \cup {"TXT"})'
      BY <1>1, <1>3 DEF ZoneTyped, Zone!TypeOK
    <3>2. \A v \in Worker : /\ sync'[v].job \in {"none", "sync", "remove"} /\ sync'[v].of \in Zone!Owner
                            /\ sync'[v].seen \subseteq 1..highest' /\ sync'[v].ids \in [Zone!Name -> 0..highest']
                            /\ sync'[v].pc \in {"list", "write", "claim", "leftovers"}
      BY <1>1, <1>2, <1>4, <1>6 DEF Zone!Owner
    <3>3. QED BY <1>1, <1>3, <3>1, <3>2 DEF ZoneTyped, Zone!TypeOK
  <2>2. \A v \in Worker : Placed(v)'
    <3>1. <<>> \in Seq({"apex", "www"})
      OBVIOUS
    <3>2. QED BY <1>2, <1>6, <3>1 DEF Placed
  <2>3. QED BY <1>1, <1>3, <1>5, <1>6, <2>1, <2>2 DEF ZoneTyped
<1>8. VerifyThere'
  BY <1>1, <1>2, <1>3, <1>4, <1>6 DEF VerifyThere
<1>9. OneAtOnce'
  BY <1>2, <1>6 DEF OneAtOnce, Zone!BusyOn, Zone!Busy
<1>10. Zone!OldAnswersGone' /\ Zone!NothingLeft'
  <2>1. Zone!OldAnswersGone'
    BY <1>0, <1>3 DEF Zone!OldAnswersGone
  <2>2. Zone!NothingLeft'
    <3>1. loose \subseteq loose' /\ Zone!NothingLeft
      BY <1>1, <1>3
    <3>2. QED BY <1>0, <3>1, StaysGone
  <2>3. QED BY <2>1, <2>2
<1>11. \A v \in Worker : PutRight(v)' /\ TakenAway(v)'
  BY <1>2, <1>6 DEF PutRight, TakenAway, Zone!Syncing, Zone!Doing
<1>12. QED BY <1>7, <1>8, <1>9, <1>10, <1>11 DEF ZoneInv

\* What happens elsewhere: the zone's owner, and the site's alias.
LEMMA ZoneEditKeeps == ASSUME ZoneInv, Zone!ZoneAssumption, Zone!ZoneEdit PROVE ZoneInv'
<1>1. PICK n \in Zone!Name :
         /\ \/ \E r \in zone : r.name = n /\ r.type \in Zone!Address
                               /\ zone' = (zone \ {r}) \cup {[r EXCEPT !.content = "there"]}
                               /\ UNCHANGED highest
            \/ zone' = zone \cup {Zone!Record(highest + 1, n, "A", "there")} /\ highest' = highest + 1
         /\ clear' = clear \ {n}
  BY DEF Zone!ZoneEdit
<1>2. /\ zoneEdits < MaxEdits /\ zoneEdits' = zoneEdits + 1
      /\ sync' = [w \in Worker |-> [sync[w] EXCEPT !.stale = Zone!Busy(w)]]
      /\ type' = type /\ ids' = ids /\ owners' = owners /\ loose' = loose
      /\ UNCHANGED <<type, aliases, owners, ids, loose, runs, zoneTroubles>>
  BY DEF Zone!ZoneEdit
<1>3. /\ highest \in Nat /\ 1 <= highest /\ zone \subseteq Rec /\ sync \in [Worker -> ZoneRun]
      /\ (\A r \in zone : r.id \in 1..highest)
      /\ ZoneTyped /\ VerifyThere /\ OneAtOnce /\ Zone!OldAnswersGone /\ Zone!NothingLeft
  BY DEF ZoneInv, ZoneTyped, Zone!TypeOK, VerifyThere
\* What the edit makes of the zone.
<1> DEFINE Edited(r) == /\ r \in Rec /\ r.id \in 1..highest' /\ r.id # 1 /\ r.content = "there" /\ r.name = n
                        /\ r.id = highest + 1 \/ \E q \in zone : q.id = r.id
           Shape == /\ highest' \in {highest, highest + 1} /\ (\A r \in zone' : r \in zone \/ Edited(r))
                    /\ (\A r \in zone : r.id = 1 => r \in zone')
<1>4. Shape
  <2>1. ASSUME NEW r \in zone, r.name = n, r.type \in Zone!Address, UNCHANGED highest,
               zone' = (zone \ {r}) \cup {[r EXCEPT !.content = "there"]}
        PROVE  Shape
    <3> DEFINE q == [r EXCEPT !.content = "there"]
    <3>1. r \in Rec /\ r.id \in 1..highest /\ r.id # 1
      BY <1>3, <2>1 DEF VerifyThere, Zone!Address
    <3>2. q \in Rec /\ q.id = r.id /\ q.content = "there" /\ q.name = n
      BY <2>1, <3>1 DEF Rec, Zone!Content
    <3>3. zone' = (zone \ {r}) \cup {q} /\ highest' = highest
      BY <2>1
    <3> HIDE DEF q
    <3>4. Edited(q)
      <4>1. q.id \in 1..highest' /\ q.id # 1 /\ r.id = q.id
        BY <3>1, <3>2, <3>3
      <4>2. QED BY <2>1, <3>2, <4>1
    <3>6. \A p \in zone : p.id = 1 => p # r
      BY <3>1
    <3>7. \A p \in zone' : p \in zone \/ Edited(p)
      <4> HIDE DEF Edited
      <4>1. QED BY <3>3, <3>4
    <3>8. highest' \in {highest, highest + 1} /\ \A p \in zone : p.id = 1 => p \in zone'
      BY <3>3, <3>6
    <3>5. QED BY <3>7, <3>8
  <2>2. ASSUME zone' = zone \cup {Zone!Record(highest + 1, n, "A", "there")}, highest' = highest + 1
        PROVE  Shape
    <3> DEFINE q == Zone!Record(highest + 1, n, "A", "there")
    <3>1. q \in Rec /\ q.id = highest + 1 /\ q.content = "there" /\ q.name = n
      <4>1. highest + 1 \in Nat /\ "A" \in Zone!Address /\ "there" \in Zone!Content
        BY <1>3 DEF Zone!Content, Zone!Address
      <4>2. QED BY <4>1 DEF Rec, Zone!Record
    <3>2. highest + 1 \in 1..(highest + 1) /\ highest + 1 # 1
      BY <1>3
    <3> HIDE DEF q
    <3>3. QED BY <1>3, <2>2, <3>1, <3>2 DEF q
  <2>3. QED BY <1>1, <2>1, <2>2

\* What it makes of the workers: what they listed is stale.
<1>5. ASSUME NEW w \in Worker
      PROVE  /\ sync'[w] \in ZoneRun /\ sync'[w].job = sync[w].job /\ sync'[w].of = sync[w].of
             /\ sync'[w].todo = sync[w].todo /\ sync'[w].pc = sync[w].pc /\ sync'[w].seen = sync[w].seen
             /\ sync'[w].ids = sync[w].ids /\ (Zone!Busy(w) => sync'[w].stale)
  <2> DEFINE b == Zone!Busy(w)
  <2>1. b \in BOOLEAN /\ sync[w] \in ZoneRun /\ (Zone!Busy(w) => b)
    BY <1>3 DEF Zone!Busy
  <2>2. sync'[w] = [sync[w] EXCEPT !.stale = b]
    BY <1>2
  <2> HIDE DEF b
  <2>3. QED BY <2>1, <2>2 DEF ZoneRun
<1>6. sync' \in [Worker -> ZoneRun]
  <2>1. DOMAIN sync' = Worker /\ sync' = [w \in Worker |-> sync'[w]]
    BY <1>2
  <2>2. QED BY <1>5, <2>1
<1>7. ZoneTyped'
  <2>1. zone' \subseteq Rec
    BY <1>3, <1>4
  <2>2. Zone!TypeOK'
    <3>1. (\A r \in zone : /\ r.id \in 1..highest /\ r.name \in Zone!Name /\ r.content \in Zone!Content
                           /\ r.type \in Zone!Address \cup {"TXT"})'
      <4> SUFFICES ASSUME NEW r \in zone' PROVE r.id \in 1..highest'
        BY <2>1 DEF Rec
      <4>1. QED BY <1>3, <1>4
    <3>2. ASSUME NEW v \in Worker
          PROVE  /\ sync'[v].job \in {"none", "sync", "remove"} /\ sync'[v].of \in Zone!Owner
                 /\ sync'[v].seen \subseteq 1..highest' /\ sync'[v].ids \in [Zone!Name -> 0..highest']
                 /\ sync'[v].pc \in {"list", "write", "claim", "leftovers"}
      <4>1. sync[v].seen \subseteq 1..highest /\ sync[v].ids \in [Zone!Name -> 0..highest]
        BY <1>3 DEF ZoneTyped, Zone!TypeOK
      <4>2. 1..highest \subseteq 1..highest' /\ 0..highest \subseteq 0..highest'
        BY <1>3, <1>4
      <4>3. sync'[v].seen \subseteq 1..highest' /\ sync'[v].ids \in [Zone!Name -> 0..highest']
        BY <1>5, <4>1, <4>2
      <4>4. QED BY <1>5, <4>3 DEF ZoneRun
    <3>3. ids' \in [Zone!Owner -> [Zone!Name -> 0..highest']]
      <4>1. 0..highest \subseteq 0..highest' /\ ids \in [Zone!Owner -> [Zone!Name -> 0..highest]]
        BY <1>3, <1>4 DEF ZoneTyped, Zone!TypeOK
      <4>2. QED BY <1>2, <4>1
    <3>4. zoneEdits' \in 0..MaxEdits /\ clear' \subseteq Zone!Name
      BY <1>1, <1>2, <1>3 DEF ZoneTyped, Zone!TypeOK, Zone!ZoneAssumption
    <3>5. QED BY <1>2, <1>3, <3>1, <3>2, <3>3, <3>4 DEF ZoneTyped, Zone!TypeOK
  <2>3. \A w \in Worker : Placed(w)'
    BY <1>3, <1>5 DEF ZoneTyped, Placed
  <2>4. highest' \in Nat
    BY <1>3, <1>4
  <2>5. QED BY <1>6, <2>1, <2>2, <2>3, <2>4 DEF ZoneTyped
<1>8. VerifyThere'
  <2>1. (\E r \in zone : r.content = "verify")'
    BY <1>3, <1>4 DEF VerifyThere
  <2>2. (\A r \in zone : r.id = 1 <=> r.content = "verify")'
    BY <1>3, <1>4 DEF VerifyThere
  <2>3. (\A r \in zone : r.id = 1 => r.type = "TXT")'
    BY <1>3, <1>4 DEF VerifyThere
  <2>4. 1 <= highest'
    BY <1>3, <1>4
  <2>5. \A v \in Worker : 1 \notin sync'[v].seen /\ \A m \in Zone!Name : sync'[v].ids[m] # 1
    BY <1>3, <1>5 DEF VerifyThere
  <2>6. \A o \in Zone!Owner : \A m \in Zone!Name : ids'[o][m] # 1
    BY <1>2, <1>3 DEF VerifyThere
  <2>7. QED BY <2>1, <2>2, <2>3, <2>4, <2>5, <2>6 DEF VerifyThere
<1>9. OneAtOnce'
  <2>1. \A v \in Worker : (Zone!Busy(v)' <=> Zone!Busy(v)) /\ Zone!me(v)' = Zone!me(v)
    BY <1>5 DEF Zone!Busy, Zone!me
  <2>2. QED BY <1>2, <1>3, <2>1 DEF OneAtOnce, Zone!BusyOn, Zone!me
<1>10. Zone!OldAnswersGone'
  <2> SUFFICES ASSUME NEW r \in zone', r.name \in clear', r.type \in Zone!Address PROVE r.content = "here"
    BY DEF Zone!OldAnswersGone
  <2>1. r \in zone /\ r.name \in clear
    BY <1>1, <1>4
  <2>2. QED BY <1>3, <2>1 DEF Zone!OldAnswersGone
<1>11. Zone!NothingLeft'
  <2> SUFFICES ASSUME NEW o \in Zone!Owner, o \notin owners, o \notin loose, NEW r \in zone'
               PROVE  ~(\E m \in Zone!Name : r.id = ids[o][m]) /\ (o = "mail" => ~(Zone!ours(r) /\ r.content # "there"))
    BY <1>2 DEF Zone!NothingLeft, Zone!ours
  <2>1. CASE r \in zone
    BY <1>3, <2>1 DEF Zone!NothingLeft
  <2>2. CASE Edited(r)
    <3>1. \A q \in zone : \A m \in Zone!Name : q.id # ids[o][m]
      BY <1>3 DEF Zone!NothingLeft
    <3>2. \A m \in Zone!Name : highest + 1 # ids[o][m]
      BY <1>3 DEF ZoneTyped, Zone!TypeOK
    <3>3. QED BY <2>2, <3>1, <3>2
  <2>3. QED BY <1>4, <2>1, <2>2
<1>12. ASSUME NEW v \in Worker PROVE PutRight(v)' /\ TakenAway(v)'
  <2>1. TakenAway(v) /\ Zone!me(v) \in Zone!Owner /\ Placed(v) /\ Zone!me(v)' = Zone!me(v)
    BY <1>5, ZoneWorkerIs DEF Zone!me
  <2>2. PutRight(v)'
    BY <1>5 DEF PutRight, Zone!Syncing, Zone!Doing, Zone!Busy
  <2>3. TakenAway(v)'
    <3> SUFFICES ASSUME sync[v].job = "remove", Zone!me(v) \notin loose
                 PROVE  /\ \A m \in Zone!Name : ids[Zone!me(v)][m] \in sync[v].seen \/ \A r \in zone' : r.id # ids[Zone!me(v)][m]
                        /\ sync[v].pc = "leftovers" => \A r \in zone' : Zone!ours(r) => r.content = "there"
      <4>1. ids' = ids /\ loose' = loose /\ sync'[v].job = sync[v].job /\ sync'[v].of = sync[v].of
            /\ sync'[v].pc = sync[v].pc /\ sync'[v].seen = sync[v].seen
        BY <1>2, <1>5
      <4>2. QED BY <4>1 DEF TakenAway, Absent, Zone!ours, Zone!me
    <3>1. ASSUME NEW m \in Zone!Name PROVE ids[Zone!me(v)][m] \in sync[v].seen \/ \A r \in zone' : r.id # ids[Zone!me(v)][m]
      <4>1. ids[Zone!me(v)][m] \in sync[v].seen \/ Absent(ids[Zone!me(v)][m])
        BY <2>1 DEF TakenAway
      <4>2. ids[Zone!me(v)][m] # highest + 1
        BY <1>3, <2>1 DEF ZoneTyped, Zone!TypeOK
      <4>3. QED BY <1>4, <4>1, <4>2 DEF Absent
    <3>2. sync[v].pc = "leftovers" => \A r \in zone' : Zone!ours(r) => r.content = "there"
      BY <1>4, <2>1 DEF TakenAway
    <3>3. QED BY <3>1, <3>2
  <2>4. QED BY <2>2, <2>3
<1>13. QED BY <1>7, <1>8, <1>9, <1>10, <1>11, <1>12 DEF ZoneInv

\* Nothing the invariant speaks of but how often the owner changed something.
LEMMA ZoneSameKeeps ==
    ASSUME ZoneInv, UNCHANGED <<zone, highest, type, owners, ids, sync, clear, loose, runs, zoneTroubles>>,
           aliases' \in BOOLEAN, zoneEdits' \in 0..MaxEdits
    PROVE  ZoneInv'
<1>1. /\ zone' = zone /\ highest' = highest /\ type' = type /\ owners' = owners /\ ids' = ids /\ sync' = sync
      /\ clear' = clear /\ loose' = loose /\ runs' = runs /\ zoneTroubles' = zoneTroubles
  OBVIOUS
<1>2. ZoneTyped /\ VerifyThere /\ OneAtOnce /\ Zone!OldAnswersGone /\ Zone!NothingLeft
  BY DEF ZoneInv
<1>3. ZoneTyped'
  BY <1>1, <1>2 DEF ZoneTyped, Zone!TypeOK, Placed
<1>4. VerifyThere'
  BY <1>1, <1>2 DEF VerifyThere
<1>5. OneAtOnce'
  BY <1>1, <1>2 DEF OneAtOnce, Zone!BusyOn, Zone!Busy, Zone!me
<1>6. Zone!OldAnswersGone' /\ Zone!NothingLeft'
  <2>1. Zone!OldAnswersGone'
    BY <1>1, <1>2 DEF Zone!OldAnswersGone
  <2>2. QED BY <1>1, <1>2, <2>1, StaysGone
<1>7. ASSUME NEW v \in Worker PROVE PutRight(v)' /\ TakenAway(v)'
  <2>1. PutRight(v) /\ TakenAway(v)
    BY ZoneWorkerIs
  <2>2. PutRight(v)'
    BY <1>1, <2>1 DEF PutRight, Zone!Syncing, Zone!Doing, Zone!Wants, Zone!Wanted, Zone!Record, Zone!me
  <2>3. TakenAway(v)'
    <3> SUFFICES ASSUME sync[v].job = "remove", Zone!me(v) \notin loose
                 PROVE  /\ \A n \in Zone!Name : ids[Zone!me(v)][n] \in sync[v].seen \/ Absent(ids[Zone!me(v)][n])
                        /\ sync[v].pc = "leftovers" => \A r \in zone : Zone!ours(r) => r.content = "there"
      BY <1>1 DEF TakenAway, Absent, Zone!me, Zone!ours
    <3>1. QED BY <2>1 DEF TakenAway
  <2>4. QED BY <2>2, <2>3
<1>8. QED BY <1>3, <1>4, <1>5, <1>6, <1>7 DEF ZoneInv

LEMMA ZoneBegins == ASSUME Zone!ZoneAssumption, Zone!Init PROVE ZoneInv
<1> DEFINE old == {Zone!Record(2, "apex", "A", "there"), Zone!Record(3, "apex", "A", "there"),
                   Zone!Record(4, "www", "CNAME", "there"), Zone!Record(5, "apex", "TXT", "spf there")}
           string == Zone!Record(1, "apex", "TXT", "verify")
<1>1. /\ type \in Zone!Address /\ aliases \in BOOLEAN /\ string \in zone /\ zone \subseteq old \cup {string}
      /\ highest = 5 /\ owners = Zone!Owner /\ ids = [o \in Zone!Owner |-> Zone!NoIds]
      /\ sync = [w \in Worker |-> Zone!Resting]
      /\ clear = {} /\ loose = {} /\ runs = 0 /\ zoneEdits = 0 /\ zoneTroubles = 0
  BY DEF Zone!Init
<1>2. /\ string.id = 1 /\ string.content = "verify" /\ string.type = "TXT" /\ string \in Rec
      /\ string.id \in 1..5
  BY DEF Zone!Record, Rec, Zone!Name, Zone!Content
<1>3. \A r \in old : r \in Rec /\ r.id \in 1..5 /\ r.id # 1 /\ r.content # "verify"
  <2> DEFINE Older(r) == r \in Rec /\ r.id \in 1..5 /\ r.id # 1 /\ r.content # "verify"
  <2>1. \A i \in 2..5, n \in Zone!Name, t \in Zone!Address \cup {"TXT"}, c \in Zone!Content \ {"verify"} : Older(Zone!Record(i, n, t, c))
    BY DEF Zone!Record, Rec
  <2>2. "apex" \in Zone!Name /\ "www" \in Zone!Name /\ "there" \in Zone!Content \ {"verify"}
        /\ "spf there" \in Zone!Content \ {"verify"} /\ {"A", "CNAME", "TXT"} \subseteq Zone!Address \cup {"TXT"}
        /\ 2 \in 2..5 /\ 3 \in 2..5 /\ 4 \in 2..5 /\ 5 \in 2..5
    BY DEF Zone!Name, Zone!Content, Zone!Address
  <2> HIDE DEF Older
  <2>3. Older(Zone!Record(2, "apex", "A", "there")) /\ Older(Zone!Record(3, "apex", "A", "there"))
    BY <2>1, <2>2
  <2>4. Older(Zone!Record(4, "www", "CNAME", "there")) /\ Older(Zone!Record(5, "apex", "TXT", "spf there"))
    BY <2>1, <2>2
  <2>5. \A r \in old : Older(r)
    BY <2>3, <2>4
  <2>6. QED BY <2>5 DEF Older
<1> HIDE DEF old, string
<1>4. /\ Zone!Resting.job = "none" /\ Zone!Resting.of = "site" /\ Zone!Resting.todo = <<>> /\ Zone!Resting.pc = "list"
      /\ Zone!Resting.seen = {} /\ Zone!Resting.ids = Zone!NoIds /\ Zone!Resting.stale = FALSE
  BY DEF Zone!Resting
<1>5. Zone!NoIds \in [Zone!Name -> 0..5] /\ (\A n \in Zone!Name : Zone!NoIds[n] # 1) /\ Zone!NoIds \in [Zone!Name -> Nat]
  BY DEF Zone!NoIds
<1>6. Zone!Resting \in ZoneRun
  <2>1. <<>> \in Seq(Zone!Name)
    OBVIOUS
  <2>2. QED BY <1>5, <2>1 DEF Zone!Resting, ZoneRun, Zone!Owner
<1>7. \A w \in Worker : sync[w] = Zone!Resting
  BY <1>1
<1>8. ZoneTyped
  <2>1. Zone!TypeOK
    <3>1. \A r \in zone : /\ r.id \in 1..highest /\ r.name \in Zone!Name /\ r.content \in Zone!Content
                          /\ r.type \in Zone!Address \cup {"TXT"}
      BY <1>1, <1>2, <1>3 DEF Rec
    <3>2. \A v \in Worker : /\ sync[v].job \in {"none", "sync", "remove"} /\ sync[v].of \in Zone!Owner
                            /\ sync[v].seen \subseteq 1..highest /\ sync[v].ids \in [Zone!Name -> 0..highest]
                            /\ sync[v].pc \in {"list", "write", "claim", "leftovers"}
      BY <1>1, <1>4, <1>5, <1>7 DEF Zone!Owner
    <3>3. QED BY <1>1, <1>5, <3>1, <3>2 DEF Zone!TypeOK, Zone!ZoneAssumption
  <2>2. \A v \in Worker : Placed(v)
    <3>1. <<>> \in Seq({"apex", "www"})
      OBVIOUS
    <3>2. QED BY <1>4, <1>7, <3>1 DEF Placed
  <2>3. QED BY <1>1, <1>2, <1>3, <1>6, <2>1, <2>2 DEF ZoneTyped
<1>9. VerifyThere
  BY <1>1, <1>2, <1>3, <1>4, <1>5, <1>7 DEF VerifyThere
<1>10. OneAtOnce
  BY <1>4, <1>7 DEF OneAtOnce, Zone!BusyOn, Zone!Busy
<1>11. Zone!OldAnswersGone /\ Zone!NothingLeft
  BY <1>1 DEF Zone!OldAnswersGone, Zone!NothingLeft
<1>12. \A v \in Worker : PutRight(v) /\ TakenAway(v)
  BY <1>4, <1>7 DEF PutRight, TakenAway, Zone!Syncing, Zone!Doing
<1>13. QED BY <1>8, <1>9, <1>10, <1>11, <1>12 DEF ZoneInv

LEMMA ZoneGoesOn == ASSUME ZoneInv, Zone!ZoneAssumption, Zone!Next PROVE ZoneInv'
<1>1. CASE Zone!ZoneEdit
  BY <1>1, ZoneEditKeeps
<1>2. CASE Zone!SetAliases
  <2>1. aliases' \in BOOLEAN /\ zoneEdits' \in 0..MaxEdits
    BY <1>2 DEF Zone!SetAliases, ZoneInv, ZoneTyped, Zone!TypeOK, Zone!ZoneAssumption
  <2>2. QED BY <1>2, <2>1, ZoneSameKeeps DEF Zone!SetAliases
<1>3. CASE Zone!Crash
  BY <1>3, ZoneCrashKeeps
<1>4. ASSUME NEW w \in Worker,
             \/ Zone!SyncForSite(w) \/ Zone!sitesSyncDNS(w) \/ Zone!mcpSyncDNS(w) \/ Zone!RemoveForSite(w)
             \/ Zone!SyncForMail(w) \/ Zone!emailSyncDNS(w) \/ Zone!mcpSyncEmailDNS(w) \/ Zone!RemoveForMail(w)
      PROVE  ZoneInv'
  <2>1. \E job \in {"sync", "remove"}, o \in Zone!Owner : Zone!Begin(w, job, o)
    BY <1>4 DEF Zone!SyncForSite, Zone!sitesSyncDNS, Zone!mcpSyncDNS, Zone!RemoveForSite, Zone!SyncForMail, Zone!emailSyncDNS,
                Zone!mcpSyncEmailDNS, Zone!RemoveForMail, Zone!Owner
  <2>2. QED BY <2>1, ZoneBeginKeeps
<1>5. ASSUME NEW w \in Worker,
             \/ Zone!ListRecords(w) \/ Zone!CreateRecord(w) \/ Zone!UpdateRecord(w) \/ Zone!ClaimHost(w) \/ Zone!SaveIds(w)
             \/ Zone!RemoveStored(w) \/ Zone!RemoveLeftovers(w) \/ Zone!RemoveRow(w)
      PROVE  ZoneInv'
  BY <1>5, ZoneListKeeps, ZoneCreateKeeps, ZoneUpdateKeeps, ClaimKeeps, ZoneSaveKeeps, StoredAreRemoved, LeftoversKeep, ZoneRowKeeps
<1>6. QED BY <1>1, <1>2, <1>3, <1>4, <1>5 DEF Zone!Next

LEMMA ZoneMeans == ASSUME ZoneInv PROVE Zone!DnsKept
  BY DEF ZoneInv, ZoneTyped, VerifyThere, Zone!OthersKept, Zone!DnsKept

ZoneFocus == focus = "zone" => ZoneInv

LEMMA ZoneFirst == Init => ZoneFocus
  BY ZoneBegins, ZoneAssumption DEF Init, ZoneFocus

LEMMA ZoneStep == ZoneFocus /\ [Next]_vars => ZoneFocus'
<1> SUFFICES ASSUME ZoneFocus, [Next]_vars, focus' = "zone" PROVE ZoneInv'
  BY DEF ZoneFocus
<1>1. focus = "zone" /\ (Zone!Next \/ UNCHANGED zoneVars)
  BY DEF Next, vars
<1>2. ZoneInv /\ Zone!ZoneAssumption
  BY <1>1, ZoneAssumption DEF ZoneFocus
<1>3. CASE Zone!Next
  BY <1>2, <1>3, ZoneGoesOn
<1>4. CASE UNCHANGED zoneVars
  <2>1. aliases' \in BOOLEAN /\ zoneEdits' \in 0..MaxEdits
    BY <1>2, <1>4 DEF zoneVars, ZoneInv, ZoneTyped, Zone!TypeOK
  <2>2. QED BY <1>2, <1>4, <2>1, ZoneSameKeeps DEF zoneVars
<1>5. QED BY <1>1, <1>3, <1>4

\* An address a sync has put right answers with nothing that points elsewhere until
\* somebody changes it at the provider; of a site or mail domain whose row is gone no
\* record is left that was this server's, if none of its requests failed and no two of
\* its jobs ran side by side; and a string somebody verifies the domain by stays:
\* whatever syncs and removals run at the same time, and wherever the panel dies.
THEOREM RecordsAreThePanels == Spec => []DnsKept
<1>1. ZoneFocus => DnsKept
  BY ZoneMeans DEF ZoneFocus, DnsKept
<1>2. QED BY <1>1, ZoneFirst, ZoneStep, PTL DEF Spec
---------------------------------------------------------------------------
(***************************************************************************)
(* Staging.  What is left of a job is the end of its list (OnTheWay), so a *)
(* step ahead says what the steps behind have done: a push has a complete  *)
(* backup of all the live site had before it replaces anything (MidFiles), *)
(* what it loads is all there (MidDb), a clone writes its own address last *)
(* (MidUrl, Addressed), and what the owner tells search engines is noted   *)
(* before the database that holds it goes (Indexed).                       *)
(***************************************************************************)
\* The steps of the three jobs, and the order they come in.
Stage == {"root", "database", "backup", "note", "copy", "away", "in", "dump", "empty", "load",
          "install", "config", "vhost", "certificate", "urls", "index", "check"}
Place == [s \in Stage |->
            CASE s = "root" -> 1 [] s = "database" -> 2 [] s = "backup" -> 3 [] s = "note" -> 4
              [] s = "copy" -> 5 [] s = "away" -> 6 [] s = "in" -> 7 [] s = "dump" -> 8
              [] s = "empty" -> 9 [] s = "load" -> 10 [] s = "install" -> 11 [] s = "config" -> 12
              [] s = "vhost" -> 13 [] s = "certificate" -> 14 [] s = "urls" -> 15
              [] s = "index" -> 16 [] OTHER -> 17]
Elements(s) == {s[i] : i \in 1..Len(s)}
InTurn(s) == \A i, j \in 1..Len(s) : i < j => Place[s[i]] < Place[s[j]]

LEMMA PlacesAre ==
    /\ Place["root"] = 1 /\ Place["database"] = 2 /\ Place["backup"] = 3 /\ Place["note"] = 4
    /\ Place["copy"] = 5 /\ Place["away"] = 6 /\ Place["in"] = 7 /\ Place["dump"] = 8
    /\ Place["empty"] = 9 /\ Place["load"] = 10 /\ Place["install"] = 11 /\ Place["config"] = 12
    /\ Place["vhost"] = 13 /\ Place["certificate"] = 14 /\ Place["urls"] = 15
    /\ Place["index"] = 16 /\ Place["check"] = 17
<1>1. Place["root"] = 1 /\ Place["database"] = 2 /\ Place["backup"] = 3 /\ Place["note"] = 4
  BY DEF Place, Stage
<1>2. Place["copy"] = 5 /\ Place["away"] = 6 /\ Place["in"] = 7 /\ Place["dump"] = 8
  BY DEF Place, Stage
<1>3. Place["empty"] = 9 /\ Place["load"] = 10 /\ Place["install"] = 11 /\ Place["config"] = 12
  BY DEF Place, Stage
<1>4. Place["vhost"] = 13 /\ Place["certificate"] = 14 /\ Place["urls"] = 15
  BY DEF Place, Stage
<1>5. Place["index"] = 16 /\ Place["check"] = 17
  BY DEF Place, Stage
<1>6. QED BY <1>1, <1>2, <1>3, <1>4, <1>5

LEMMA PlacesAreNumbers == \A s \in Stage : Place[s] \in Int
  BY PlacesAre DEF Stage

LEMMA ElementsOfTail ==
  ASSUME NEW s \in Seq(Stage), s # <<>>, InTurn(s)
  PROVE  /\ Head(s) \in Elements(s) /\ Head(s) \in Stage
         /\ Elements(Tail(s)) = Elements(s) \ {Head(s)}
         /\ Tail(s) \in Seq(Stage) /\ InTurn(Tail(s))
         /\ \A e \in Elements(s) : e = Head(s) \/ Place[Head(s)] < Place[e]
<1>1. /\ Len(s) \in Nat /\ Len(s) > 0 /\ Head(s) = s[1] /\ Tail(s) \in Seq(Stage)
      /\ Len(Tail(s)) = Len(s) - 1
      /\ \A i \in 1..Len(Tail(s)) : Tail(s)[i] = s[i + 1]
      /\ \A i \in 1..Len(s) : s[i] \in Stage
  BY EmptySeq
<1>2. \A i \in 1..Len(s) : i # 1 => Place[s[1]] < Place[s[i]]
  BY <1>1 DEF InTurn
<1>3. \A i \in 1..Len(s) : i # 1 => s[i] # s[1]
  BY <1>1, <1>2, PlacesAreNumbers
<1>4. InTurn(Tail(s))
  BY <1>1 DEF InTurn
<1>5. Elements(Tail(s)) \subseteq Elements(s) \ {Head(s)}
  BY <1>1, <1>3 DEF Elements
<1>6. Elements(s) \ {Head(s)} \subseteq Elements(Tail(s))
  <2> SUFFICES ASSUME NEW i \in 1..Len(s), i # 1 PROVE s[i] \in Elements(Tail(s))
    BY <1>1 DEF Elements
  <2>1. i - 1 \in 1..Len(Tail(s)) /\ Tail(s)[i - 1] = s[i]
    BY <1>1
  <2>2. QED BY <2>1 DEF Elements
<1>7. Head(s) \in Elements(s)
  BY <1>1 DEF Elements
<1>8. \A e \in Elements(s) : e = Head(s) \/ Place[Head(s)] < Place[e]
  BY <1>1, <1>2 DEF Elements
<1>9. QED BY <1>1, <1>4, <1>5, <1>6, <1>7, <1>8

LEMMA ElementsOfBoth ==
  ASSUME NEW s \in Seq(Stage), NEW t \in Seq(Stage), InTurn(s), InTurn(t),
         \A a \in Elements(s), b \in Elements(t) : Place[a] < Place[b]
  PROVE  s \o t \in Seq(Stage) /\ InTurn(s \o t) /\ Elements(s \o t) = Elements(s) \cup Elements(t)
<1>1. /\ Len(s) \in Nat /\ Len(t) \in Nat /\ s \o t \in Seq(Stage) /\ Len(s \o t) = Len(s) + Len(t)
      /\ \A i \in 1..Len(s) + Len(t) :
           (s \o t)[i] = IF i <= Len(s) THEN s[i] ELSE t[i - Len(s)]
  BY ConcatProperties
<1>2. InTurn(s \o t)
  <2> SUFFICES ASSUME NEW i \in 1..Len(s \o t), NEW j \in 1..Len(s \o t), i < j
               PROVE  Place[(s \o t)[i]] < Place[(s \o t)[j]]
    BY DEF InTurn
  <2>1. CASE j <= Len(s)
    BY <1>1, <2>1 DEF InTurn
  <2>2. CASE Len(s) < i
    <3>1. i - Len(s) \in 1..Len(t) /\ j - Len(s) \in 1..Len(t) /\ i - Len(s) < j - Len(s)
      BY <1>1, <2>2
    <3>2. QED BY <1>1, <2>2, <3>1 DEF InTurn
  <2>3. CASE i <= Len(s) /\ Len(s) < j
    <3>1. i \in 1..Len(s) /\ j - Len(s) \in 1..Len(t)
      BY <1>1, <2>3
    <3>2. s[i] \in Elements(s) /\ t[j - Len(s)] \in Elements(t)
      BY <3>1 DEF Elements
    <3>3. QED BY <1>1, <2>3, <3>1, <3>2
  <2>4. QED BY <1>1, <2>1, <2>2, <2>3
<1>3. Elements(s \o t) \subseteq Elements(s) \cup Elements(t)
  <2> SUFFICES ASSUME NEW i \in 1..Len(s \o t) PROVE (s \o t)[i] \in Elements(s) \cup Elements(t)
    BY DEF Elements
  <2>1. CASE i <= Len(s)
    BY <1>1, <2>1 DEF Elements
  <2>2. CASE Len(s) < i
    <3>1. i - Len(s) \in 1..Len(t)
      BY <1>1, <2>2
    <3>2. QED BY <1>1, <2>2, <3>1 DEF Elements
  <2>3. QED BY <1>1, <2>1, <2>2
<1>4. Elements(s) \cup Elements(t) \subseteq Elements(s \o t)
  <2>1. \A i \in 1..Len(s) : i \in 1..Len(s \o t) /\ (s \o t)[i] = s[i]
    BY <1>1
  <2>2. \A i \in 1..Len(t) : i + Len(s) \in 1..Len(s \o t) /\ (s \o t)[i + Len(s)] = t[i]
    BY <1>1
  <2>3. QED BY <2>1, <2>2 DEF Elements
<1>5. QED BY <1>1, <1>2, <1>3, <1>4

LEMMA ElementsOfOne ==
  ASSUME NEW a \in Stage
  PROVE  <<a>> \in Seq(Stage) /\ InTurn(<<a>>) /\ Elements(<<a>>) = {a}
  BY DEF InTurn, Elements

LEMMA ElementsOfTwo ==
  ASSUME NEW a \in Stage, NEW b \in Stage, Place[a] < Place[b]
  PROVE  <<a, b>> \in Seq(Stage) /\ InTurn(<<a, b>>) /\ Elements(<<a, b>>) = {a, b}
  BY DEF InTurn, Elements

LEMMA ElementsOfThree ==
  ASSUME NEW a \in Stage, NEW b \in Stage, NEW c \in Stage, Place[a] < Place[b], Place[b] < Place[c]
  PROVE  /\ <<a, b, c>> \in Seq(Stage) /\ InTurn(<<a, b, c>>)
         /\ Elements(<<a, b, c>>) = {a, b, c}
<1>1. InTurn(<<a, b, c>>)
  BY PlacesAreNumbers DEF InTurn
<1>2. QED BY <1>1 DEF Elements

LEMMA ElementsOfNone == <<>> \in Seq(Stage) /\ InTurn(<<>>) /\ Elements(<<>>) = {}
  BY DEF InTurn, Elements

CreateMembers == {"root", "database", "copy", "away", "in", "dump", "empty", "load", "config",
                  "vhost", "certificate", "urls", "check"}
PushMembers(notes, f, d) ==
    {"backup", "config", "urls", "check"} \cup (IF notes THEN {"note", "index"} ELSE {})
      \cup (IF f THEN {"copy", "away", "in"} ELSE {})
      \cup (IF d THEN {"dump", "empty", "load"} ELSE {})
DeployMembers == {"root", "database", "install", "vhost", "certificate", "check"}
MembersOf(j) ==
    CASE j.kind = "create" -> CreateMembers
      [] j.kind = "push" -> PushMembers(j.data /\ siteKind = "wordpress", j.files, j.data)
      [] OTHER -> DeployMembers

Row(s, set, low, high) ==
    /\ s \in Seq(Stage) /\ InTurn(s) /\ Elements(s) = set
    /\ \A a \in set : low <= Place[a] /\ Place[a] <= high

LEMMA RowsJoin ==
  ASSUME NEW s, NEW S, NEW t, NEW T, NEW m \in Int, NEW n \in Int, NEW p \in Int, NEW q \in Int,
         Row(s, S, m, n), Row(t, T, p, q), m <= p, n < p, n <= q
  PROVE  Row(s \o t, S \cup T, m, q)
<1>1. s \in Seq(Stage) /\ InTurn(s) /\ Elements(s) = S /\ t \in Seq(Stage) /\ InTurn(t) /\ Elements(t) = T
  BY DEF Row
<1>2. /\ \A a \in S : Place[a] \in Int /\ m <= Place[a] /\ Place[a] <= n
      /\ \A a \in T : Place[a] \in Int /\ p <= Place[a] /\ Place[a] <= q
  <2>1. \A z \in Seq(Stage) : Elements(z) \subseteq Stage
    BY DEF Elements
  <2>2. QED BY <1>1, <2>1, PlacesAreNumbers DEF Row
<1>3. \A a \in Elements(s), b \in Elements(t) : Place[a] < Place[b]
  BY <1>1, <1>2
<1>4. s \o t \in Seq(Stage) /\ InTurn(s \o t) /\ Elements(s \o t) = S \cup T
  BY <1>1, <1>3, ElementsOfBoth
<1>5. \A a \in S \cup T : m <= Place[a] /\ Place[a] <= q
  BY <1>2
<1>6. QED BY <1>4, <1>5 DEF Row

LEMMA RowOfOne ==
  ASSUME NEW a \in Stage
  PROVE  Row(<<a>>, {a}, Place[a], Place[a])
<1>1. <<a>> \in Seq(Stage) /\ InTurn(<<a>>) /\ Elements(<<a>>) = {a}
  BY ElementsOfOne
<1>2. QED BY <1>1, PlacesAreNumbers DEF Row

LEMMA RowOfTwo ==
  ASSUME NEW a \in Stage, NEW b \in Stage, Place[a] < Place[b]
  PROVE  Row(<<a, b>>, {a, b}, Place[a], Place[b])
  BY ElementsOfTwo, PlacesAreNumbers DEF Row

LEMMA RowOfThree ==
  ASSUME NEW a \in Stage, NEW b \in Stage, NEW c \in Stage, Place[a] < Place[b], Place[b] < Place[c]
  PROVE  Row(<<a, b, c>>, {a, b, c}, Place[a], Place[c])
  BY ElementsOfThree, PlacesAreNumbers DEF Row

LEMMA RowOfFive ==
  ASSUME NEW a \in Stage, NEW b \in Stage, NEW c \in Stage, NEW d \in Stage, NEW e \in Stage,
         Place[a] < Place[b], Place[b] < Place[c], Place[c] < Place[d], Place[d] < Place[e]
  PROVE  Row(<<a, b, c, d, e>>, {a, b, c, d, e}, Place[a], Place[e])
<1> DEFINE s == <<a, b, c, d, e>>
<1>1. s \in Seq(Stage) /\ Len(s) = 5
  OBVIOUS
<1>2. s[1] = a /\ s[2] = b /\ s[3] = c /\ s[4] = d /\ s[5] = e
  OBVIOUS
<1> HIDE DEF s
<1>3. InTurn(s)
  BY <1>1, <1>2, PlacesAreNumbers DEF InTurn
<1>4. Elements(s) = {a, b, c, d, e}
  BY <1>1, <1>2 DEF Elements
<1>5. QED BY <1>1, <1>3, <1>4, PlacesAreNumbers DEF Row, s

LEMMA RowOfSix ==
  ASSUME NEW a \in Stage, NEW b \in Stage, NEW c \in Stage, NEW d \in Stage, NEW e \in Stage,
         NEW f \in Stage, Place[a] < Place[b], Place[b] < Place[c], Place[c] < Place[d],
         Place[d] < Place[e], Place[e] < Place[f]
  PROVE  Row(<<a, b, c, d, e, f>>, {a, b, c, d, e, f}, Place[a], Place[f])
<1> DEFINE s == <<a, b, c, d, e, f>>
<1>1. s \in Seq(Stage) /\ Len(s) = 6
  OBVIOUS
<1>2. s[1] = a /\ s[2] = b /\ s[3] = c /\ s[4] = d /\ s[5] = e /\ s[6] = f
  OBVIOUS
<1> HIDE DEF s
<1>3. InTurn(s)
  <2>1. /\ Place[a] \in Int /\ Place[b] \in Int /\ Place[c] \in Int
        /\ Place[d] \in Int /\ Place[e] \in Int /\ Place[f] \in Int
    BY PlacesAreNumbers
  <2>2. SUFFICES ASSUME NEW i \in 1..6, NEW k \in 1..6, i < k PROVE Place[s[i]] < Place[s[k]]
    BY <1>1 DEF InTurn
  <2>3. CASE i = 1 \/ i = 2
    BY <1>2, <2>1, <2>2, <2>3
  <2>4. CASE i = 3 \/ i = 4 \/ i = 5
    BY <1>2, <2>1, <2>2, <2>4
  <2>5. QED BY <2>2, <2>3, <2>4
<1>4. Elements(s) = {a, b, c, d, e, f}
  BY <1>1, <1>2 DEF Elements
<1>5. QED BY <1>1, <1>3, <1>4, PlacesAreNumbers DEF Row, s

LEMMA RowsOfSome ==
  /\ Row(Pair!CopyFiles, {"copy", "away", "in"}, 5, 7) /\ Row(Pair!CopyDatabase, {"dump", "empty", "load"}, 8, 10)
  /\ Row(<<"backup">>, {"backup"}, 3, 3) /\ Row(<<"note">>, {"note"}, 4, 4)
  /\ Row(<<"config", "urls">>, {"config", "urls"}, 12, 15) /\ Row(<<"index">>, {"index"}, 16, 16)
  /\ Row(<<"check">>, {"check"}, 17, 17) /\ Row(<<"root", "database">>, {"root", "database"}, 1, 2)
  /\ Row(<<"config", "vhost", "certificate", "urls", "check">>,
         {"config", "vhost", "certificate", "urls", "check"}, 12, 17)
  /\ Row(<<"root", "database", "install", "vhost", "certificate", "check">>,
         {"root", "database", "install", "vhost", "certificate", "check"}, 1, 17)
  /\ \A m, n \in Int : Row(<<>>, {}, m, n)
<1>0. \A s \in {"root", "database", "backup", "note", "copy", "away", "in", "dump", "empty", "load",
          "install", "config", "vhost", "certificate", "urls", "index", "check"} : s \in Stage
  BY DEF Stage
<1>1. Row(Pair!CopyFiles, {"copy", "away", "in"}, 5, 7)
  BY <1>0, PlacesAre, RowOfThree DEF Pair!CopyFiles
<1>2. Row(Pair!CopyDatabase, {"dump", "empty", "load"}, 8, 10)
  BY <1>0, PlacesAre, RowOfThree DEF Pair!CopyDatabase
<1>3. Row(<<"backup">>, {"backup"}, 3, 3) /\ Row(<<"note">>, {"note"}, 4, 4)
  BY <1>0, PlacesAre, RowOfOne
<1>4. Row(<<"index">>, {"index"}, 16, 16) /\ Row(<<"check">>, {"check"}, 17, 17)
  BY <1>0, PlacesAre, RowOfOne
<1>5. Row(<<"config", "urls">>, {"config", "urls"}, 12, 15)
  BY <1>0, PlacesAre, RowOfTwo
<1>6. Row(<<"root", "database">>, {"root", "database"}, 1, 2)
  BY <1>0, PlacesAre, RowOfTwo
<1>7. Row(<<"config", "vhost", "certificate", "urls", "check">>,
          {"config", "vhost", "certificate", "urls", "check"}, 12, 17)
  <2>0. /\ "config" \in Stage /\ "vhost" \in Stage /\ "certificate" \in Stage
        /\ "urls" \in Stage /\ "check" \in Stage
    BY <1>0
  <2>3. /\ Place["config"] < Place["vhost"] /\ Place["vhost"] < Place["certificate"]
        /\ Place["certificate"] < Place["urls"] /\ Place["urls"] < Place["check"]
    BY PlacesAre
  <2>1. Row(<<"config", "vhost", "certificate", "urls", "check">>,
            {"config", "vhost", "certificate", "urls", "check"}, Place["config"], Place["check"])
    BY <2>0, <2>3, RowOfFive
  <2>2. QED BY <2>1, PlacesAre
<1>8. Row(<<"root", "database", "install", "vhost", "certificate", "check">>,
          {"root", "database", "install", "vhost", "certificate", "check"}, 1, 17)
  <2>0. /\ "root" \in Stage /\ "database" \in Stage /\ "install" \in Stage
        /\ "vhost" \in Stage /\ "certificate" \in Stage /\ "check" \in Stage
    BY <1>0
  <2>3. /\ Place["root"] < Place["database"] /\ Place["database"] < Place["install"]
        /\ Place["install"] < Place["vhost"] /\ Place["vhost"] < Place["certificate"]
        /\ Place["certificate"] < Place["check"]
    BY PlacesAre
  <2>1. Row(<<"root", "database", "install", "vhost", "certificate", "check">>,
            {"root", "database", "install", "vhost", "certificate", "check"},
            Place["root"], Place["check"])
    BY <2>0, <2>3, RowOfSix
  <2>2. QED BY <2>1, PlacesAre
<1>11. \A m, n \in Int : Row(<<>>, {}, m, n)
  BY ElementsOfNone DEF Row
<1>12. QED BY <1>1, <1>2, <1>3, <1>4, <1>5, <1>6, <1>7, <1>8, <1>11

LEMMA RowOfCreate == Row(Pair!CreateStaging, CreateMembers, 1, 17)
<1>1. Row(<<"root", "database">> \o Pair!CopyFiles, {"root", "database"} \cup {"copy", "away", "in"}, 1, 7)
  BY RowsOfSome, RowsJoin
<1>2. Row((<<"root", "database">> \o Pair!CopyFiles) \o Pair!CopyDatabase,
          ({"root", "database"} \cup {"copy", "away", "in"}) \cup {"dump", "empty", "load"}, 1, 10)
  BY <1>1, RowsOfSome, RowsJoin
<1>5. Row(((<<"root", "database">> \o Pair!CopyFiles) \o Pair!CopyDatabase)
            \o <<"config", "vhost", "certificate", "urls", "check">>,
          (({"root", "database"} \cup {"copy", "away", "in"}) \cup {"dump", "empty", "load"})
            \cup ({"config", "vhost", "certificate", "urls", "check"}), 1, 17)
  BY <1>2, RowsOfSome, RowsJoin
<1>6. (({"root", "database"} \cup {"copy", "away", "in"}) \cup {"dump", "empty", "load"})
            \cup ({"config", "vhost", "certificate", "urls", "check"}) = CreateMembers
  BY DEF CreateMembers
<1>7. QED BY <1>5, <1>6 DEF Pair!CreateStaging

LEMMA RowOfDeploy ==
  Row(<<"root", "database", "install", "vhost", "certificate", "check">>, DeployMembers, 1, 17)
  BY RowsOfSome DEF DeployMembers

LEMMA RowOfPush ==
  ASSUME NEW j \in Pair!Job
  PROVE  Row(Pair!PushSteps(j), PushMembers(j.data /\ siteKind = "wordpress", j.files, j.data), 3, 17)
<1> DEFINE n == j.data /\ siteKind = "wordpress"
           f == j.files
           d == j.data
           N == IF n THEN {"note"} ELSE {}
           F == IF f THEN {"copy", "away", "in"} ELSE {}
           D == IF d THEN {"dump", "empty", "load"} ELSE {}
           I == IF n THEN {"index"} ELSE {}
<1>1. Row(Pair!When(n, <<"note">>), N, 4, 4) /\ Row(Pair!When(n, <<"index">>), I, 16, 16)
  BY RowsOfSome DEF Pair!When
<1>2. Row(Pair!When(f, Pair!CopyFiles), F, 5, 7) /\ Row(Pair!When(d, Pair!CopyDatabase), D, 8, 10)
  BY RowsOfSome DEF Pair!When
<1>4. Pair!PushSteps(j) = <<"backup">> \o Pair!When(n, <<"note">>) \o Pair!When(f, Pair!CopyFiles)
                       \o Pair!When(d, Pair!CopyDatabase) \o <<"config", "urls">>
                       \o Pair!When(n, <<"index">>) \o <<"check">>
  BY DEF Pair!PushSteps
<1>5. {"backup"} \cup N \cup F \cup D \cup {"config", "urls"} \cup I \cup {"check"}
        = PushMembers(j.data /\ siteKind = "wordpress", j.files, j.data)
  BY DEF PushMembers
<1> HIDE DEF n, f, d, N, F, D, I
<1> DEFINE s1 == <<"backup">> \o Pair!When(n, <<"note">>)
           s2 == s1 \o Pair!When(f, Pair!CopyFiles)
           s3 == s2 \o Pair!When(d, Pair!CopyDatabase)
           s4 == s3 \o <<"config", "urls">>
           s5 == s4 \o Pair!When(n, <<"index">>)
<1>6. Row(s1, {"backup"} \cup N, 3, 4)
  BY <1>1, RowsOfSome, RowsJoin
<1>7. Row(s2, {"backup"} \cup N \cup F, 3, 7)
  BY <1>2, <1>6, RowsJoin
<1>8. Row(s3, {"backup"} \cup N \cup F \cup D, 3, 10)
  BY <1>2, <1>7, RowsJoin
<1>9. Row(s4, {"backup"} \cup N \cup F \cup D \cup {"config", "urls"}, 3, 15)
  BY <1>8, RowsOfSome, RowsJoin
<1>10. Row(s5, {"backup"} \cup N \cup F \cup D \cup {"config", "urls"} \cup I, 3, 16)
  BY <1>1, <1>9, RowsJoin
<1>11. Row(s5 \o <<"check">>,
          {"backup"} \cup N \cup F \cup D \cup {"config", "urls"} \cup I \cup {"check"}, 3, 17)
  BY <1>10, RowsOfSome, RowsJoin
<1>12. QED BY <1>4, <1>5, <1>11

\* The list a job is begun with holds its steps, each once and in their order.
LEMMA StepsAreInTurn ==
  ASSUME NEW j \in Pair!Job
  PROVE  Pair!Steps(j) \in Seq(Stage) /\ InTurn(Pair!Steps(j)) /\ Elements(Pair!Steps(j)) = MembersOf(j)
<1>1. CASE j.kind = "create"
  BY <1>1, RowOfCreate DEF Pair!Steps, MembersOf, Row
<1>2. CASE j.kind = "push"
  BY <1>2, RowOfPush DEF Pair!Steps, MembersOf, Row
<1>3. CASE j.kind # "create" /\ j.kind # "push"
  BY <1>3, RowOfDeploy DEF Pair!Steps, MembersOf, Row
<1>4. QED BY <1>1, <1>2, <1>3

---------------------------------------------------------------------------
(* The invariant.                                                          *)

File == [code : Pair!Data, media : Pair!Data, names : Pair!Names, url : Pair!Url]
Base == [data : Pair!Data, url : Pair!Url, indexed : BOOLEAN]
Wanted == {j \in Pair!Job : /\ j.kind # "none"
                            /\ j.kind = "push" => j.site = "live"
                            /\ j.kind = "create" => j.site = "copy"}
Reading == {"unread", "0", "1"}

Left == Elements(push.todo)
Members == IF Pair!Busy THEN MembersOf(push.job) ELSE {}
Past(s) == Pair!Busy /\ s \notin Left
Copies == push.job.kind \in {"push", "create"}
Noted == push.job.kind = "push" /\ push.job.data /\ siteKind = "wordpress"

PairTyped ==
    /\ siteKind \in {"wordpress", "laravel"}
    /\ files \in [Pair!Site -> File] /\ db \in [Pair!Site -> Base]
    /\ siteStatus \in [Pair!Site -> {"none", "pending", "deploying", "active", "failed"}]
    /\ ssl \in [Pair!Site -> BOOLEAN] /\ answers \in BOOLEAN
    /\ saved \subseteq Pair!Data \X Pair!Data \X Pair!Data
    /\ siteJobs \in Seq(Wanted) /\ asking \in BOOLEAN
    /\ push \in [job : Pair!Job, todo : Seq(Stage), indexing : Reading]
    /\ Pair!Busy => push.job \in Wanted
    /\ staged \in File
    /\ wish \in BOOLEAN /\ redeployed \subseteq Pair!Site /\ spoiled \in BOOLEAN
    /\ siteAsked \in 0..MaxJobs /\ version \in Pair!Version /\ siteTroubles \in 0..MaxTroubles

\* What is left of a job is the end of its list.
OnTheWay ==
    /\ InTurn(push.todo) /\ Left \subseteq Members
    /\ \A s \in Members \ Left : \A t \in Left : Place[s] < Place[t]
    /\ Pair!Busy => siteStatus[Pair!to] = "deploying"

Whole(f) == f = Pair!NoFiles \/ (f.code # Pair!Nil /\ f.media # Pair!Nil)
Full(c) == c[1] # Pair!Nil /\ c[2] # Pair!Nil /\ c[3] \notin {Pair!Part, Pair!Nil}

\* What every step keeps of files and databases.
Kept ==
    /\ Pair!PreviousStateKept
    /\ \A c \in had : Full(c)
    /\ \A x \in Pair!Site : Whole(files[x])
    /\ Whole(staged)
    /\ db["live"].data # Pair!Nil

\* Whose the addresses are that a database may hold.
Addressed ==
    /\ "live" \notin redeployed =>
         ssl["live"] /\ \A x \in Pair!Site : db[x].url[1] = "live" => db[x].url[2]
    /\ siteKind = "wordpress" =>
         \A x \in Pair!Site : /\ db[x].data \notin {Pair!Part, Pair!Nil} => db[x].url # Pair!Nowhere
                              /\ siteStatus[x] = "active" => db[x].data \notin {Pair!Part, Pair!Nil}

\* What a job has done to the files of the site it works on, and has kept for
\* the steps ahead: a backup before anything is replaced, a copy to move in.
MidFiles ==
    /\ push.job.kind = "push" /\ Past("backup") => had \subseteq saved
    /\ "in" \in Left /\ Past("copy") => staged # Pair!NoFiles
    /\ Copies /\ Past("in") /\ Past("backup") => files[Pair!to] # Pair!NoFiles
    /\ Past("config") /\ Past("install") => files[Pair!to].names = Pair!to

\* The same of its database.
MidDb ==
    /\ push.job.kind = "push" /\ "load" \in Left /\ Past("dump") => db[Pair!from].data # Pair!Nil
    /\ Past("database") => db[Pair!to].data # Pair!Nil
    /\ push.job.kind = "deploy" => Pair!to \in redeployed /\ (Past("install") => db[Pair!to].data # Pair!Part)
    /\ Copies /\ siteKind = "wordpress" /\ Past("urls") => db[Pair!to].data # Pair!Part

\* Whose address it has written.
MidUrl ==
    /\ Copies /\ siteKind = "laravel" /\ Past("urls") => files[Pair!to].url = Pair!Own(Pair!to)
    /\ Copies /\ siteKind = "wordpress" /\ Past("urls") /\ Pair!to \notin redeployed => db[Pair!to].url = Pair!Own(Pair!to)
    /\ push.job.kind = "create" /\ siteKind = "wordpress" /\ "copy" \notin redeployed =>
         /\ db["live"].url[1] # "copy"
         /\ Past("load") => db["copy"].url[1] # "copy" \/ Past("urls")

\* A push has noted what the live site tells search engines before it replaces
\* the database, and until it has put it back it remembers it.
Replacing == Noted /\ Past("empty") /\ "index" \in Left
Indexed ==
    siteKind = "wordpress" /\ ~spoiled =>
        /\ Noted /\ Past("note") /\ "index" \in Left => push.indexing = IF wish THEN "1" ELSE "0"
        /\ ~Replacing => db["live"].data # Pair!Part /\ (db["live"].indexed <=> wish)

PairInv == /\ PairTyped /\ OnTheWay /\ Kept /\ Pair!OwnDatabase /\ Pair!OwnAddress
           /\ Addressed /\ MidFiles /\ MidDb /\ MidUrl /\ Indexed

---------------------------------------------------------------------------
(* Where a job is.                                                         *)

LEMMA NoneLeft == ASSUME push.todo = <<>> PROVE Left = {}
  BY DEF Left, Elements

LEMMA TodoIsTyped ==
  ASSUME PairTyped
  PROVE  /\ push.todo \in Seq(Stage) /\ push.job \in Pair!Job /\ push.indexing \in Reading
         /\ Pair!to \in Pair!Site /\ Pair!from \in Pair!Site /\ Pair!to # Pair!from
         /\ push = [job |-> push.job, todo |-> push.todo, indexing |-> push.indexing]
<1>1. push.todo \in Seq(Stage) /\ push.job \in Pair!Job /\ push.indexing \in Reading
  BY DEF PairTyped
<1>2. push.job.site \in Pair!Site
  BY <1>1 DEF Pair!Job
<1>3. push = [job |-> push.job, todo |-> push.todo, indexing |-> push.indexing]
  BY DEF PairTyped
<1>4. QED BY <1>1, <1>2, <1>3 DEF Pair!to, Pair!from, Pair!Other, Pair!Site

\* Which jobs have which steps.
LEMMA MembersOfAre ==
  ASSUME NEW j \in Wanted
  PROVE  /\ \A s \in MembersOf(j) : s \in Stage
         /\ \A s \in {"root", "database", "vhost", "certificate"} :
              s \in MembersOf(j) <=> j.kind \in {"create", "deploy"}
         /\ "check" \in MembersOf(j)
         /\ "backup" \in MembersOf(j) <=> j.kind = "push"
         /\ \A s \in {"note", "index"} :
              s \in MembersOf(j) <=> j.kind = "push" /\ j.data /\ siteKind = "wordpress"
         /\ "install" \in MembersOf(j) <=> j.kind = "deploy"
         /\ \A s \in {"config", "urls"} : s \in MembersOf(j) <=> j.kind \in {"push", "create"}
         /\ \A s \in {"copy", "away", "in"} :
              s \in MembersOf(j) <=> j.kind = "create" \/ (j.kind = "push" /\ j.files)
         /\ \A s \in {"dump", "empty", "load"} :
              s \in MembersOf(j) <=> j.kind = "create" \/ (j.kind = "push" /\ j.data)
<1> DEFINE n == j.data /\ siteKind = "wordpress"
<1>1. j.kind \in {"create", "push", "deploy"} /\ j.files \in BOOLEAN /\ j.data \in BOOLEAN
  BY DEF Pair!Job, Wanted
<1>2. CASE j.kind = "create"
  <2>1. MembersOf(j) = CreateMembers
    BY <1>2 DEF MembersOf
  <2>2. QED BY <1>2, <2>1 DEF CreateMembers, Stage
<1>3. CASE j.kind = "deploy"
  <2>1. MembersOf(j) = DeployMembers
    BY <1>3 DEF MembersOf
  <2>2. QED BY <1>3, <2>1 DEF DeployMembers, Stage
<1>4. CASE j.kind = "push"
  <2>1. MembersOf(j) = PushMembers(n, j.files, j.data)
    BY <1>4 DEF MembersOf
  <2>2. n \in BOOLEAN
    BY <1>1
  <2>3. (j.kind = "push" /\ j.data /\ siteKind = "wordpress") <=> n
    BY <1>4
  <2> HIDE DEF n
  <2>4. \A s \in MembersOf(j) : s \in Stage
    BY <1>1, <2>1, <2>2 DEF PushMembers, Stage
  <2>5. /\ \A s \in {"root", "database", "vhost", "certificate", "install"} : s \notin MembersOf(j)
        /\ \A s \in {"check", "backup", "config", "urls"} : s \in MembersOf(j)
    BY <1>1, <2>1, <2>2 DEF PushMembers
  <2>6. \A s \in {"note", "index"} : s \in MembersOf(j) <=> n
    BY <1>1, <2>1, <2>2 DEF PushMembers
  <2>7. /\ \A s \in {"copy", "away", "in"} : s \in MembersOf(j) <=> j.files
        /\ \A s \in {"dump", "empty", "load"} : s \in MembersOf(j) <=> j.data
    BY <1>1, <2>1, <2>2 DEF PushMembers
  <2>8. QED BY <1>1, <1>4, <2>3, <2>4, <2>5, <2>6, <2>7
<1>5. QED BY <1>1, <1>2, <1>3, <1>4

LEMMA MembersAre ==
  ASSUME PairTyped
  PROVE  /\ \A s \in Members : s \in Stage /\ Pair!Busy
         /\ \A s \in {"root", "database", "vhost", "certificate"} :
              s \in Members <=> push.job.kind \in {"create", "deploy"}
         /\ "backup" \in Members <=> push.job.kind = "push"
         /\ \A s \in {"note", "index"} : s \in Members <=> Noted
         /\ "install" \in Members <=> push.job.kind = "deploy"
         /\ \A s \in {"config", "urls"} : s \in Members <=> Copies
         /\ \A s \in {"copy", "away", "in"} : s \in Members <=>
              push.job.kind = "create" \/ (push.job.kind = "push" /\ push.job.files)
         /\ \A s \in {"dump", "empty", "load"} : s \in Members <=>
              push.job.kind = "create" \/ (push.job.kind = "push" /\ push.job.data)
         /\ Pair!Busy => push.job.kind \in {"create", "push", "deploy"}
         /\ push.job.kind = "push" => Pair!to = "live" /\ Pair!from = "copy"
         /\ push.job.kind = "create" => Pair!to = "copy" /\ Pair!from = "live"
<1>1. CASE Pair!Busy
  <2>1. Members = MembersOf(push.job) /\ push.job \in Wanted
    BY <1>1 DEF Members, PairTyped
  <2>2. /\ push.job.kind \in {"create", "push", "deploy"}
        /\ push.job.kind = "push" => Pair!to = "live" /\ Pair!from = "copy"
        /\ push.job.kind = "create" => Pair!to = "copy" /\ Pair!from = "live"
    BY <2>1 DEF Wanted, Pair!Job, Pair!to, Pair!from, Pair!Other
  <2>3. QED BY <1>1, <2>1, <2>2, MembersOfAre DEF Noted, Copies
<1>2. CASE ~Pair!Busy
  BY <1>2 DEF Members, Pair!Busy, Noted, Copies
<1>3. QED BY <1>1, <1>2

\* At a step: those before it are done or none of the job's, those after it are
\* to come.
LEMMA PairAtStep ==
  ASSUME PairTyped, OnTheWay, NEW x \in Stage, Pair!At(x)
  PROVE  /\ Pair!Busy /\ x \in Left /\ x \in Members /\ push.job \in Wanted
         /\ \A s \in Stage : Place[s] < Place[x] => s \notin Left
         /\ \A s \in Members : Place[x] < Place[s] => s \in Left
         /\ Elements(Tail(push.todo)) = Left \ {x}
         /\ Tail(push.todo) \in Seq(Stage) /\ InTurn(Tail(push.todo))
<1>1. /\ push.todo \in Seq(Stage) /\ push.todo # <<>> /\ InTurn(push.todo)
      /\ Head(push.todo) = x
  BY TodoIsTyped DEF OnTheWay, Pair!At
<1>2. /\ x \in Left /\ Elements(Tail(push.todo)) = Left \ {x}
      /\ Tail(push.todo) \in Seq(Stage) /\ InTurn(Tail(push.todo))
      /\ \A e \in Left : e = x \/ Place[x] < Place[e]
  BY <1>1, ElementsOfTail DEF Left
<1>3. x \in Members /\ Pair!Busy
  BY <1>2 DEF OnTheWay, Members
<1>4. push.job \in Wanted
  BY <1>3 DEF PairTyped
<1>5. \A s \in Members : s \in Stage
  BY MembersAre
<1>6. \A s \in Stage : Place[s] < Place[x] => s \notin Left
  BY <1>2, PlacesAreNumbers
<1>7. \A s \in Members : Place[x] < Place[s] => s \in Left
  BY <1>2, <1>5, PlacesAreNumbers DEF OnTheWay
<1>8. QED BY <1>2, <1>3, <1>4, <1>6, <1>7

\* And passing it.
LEMMA PassingIt ==
  ASSUME PairTyped, OnTheWay, NEW x \in Stage, Pair!At(x), push'.job = push.job,
         push'.todo = Tail(push.todo), siteKind' = siteKind, siteStatus' = siteStatus
  PROVE  /\ Left' = Left \ {x} /\ Members' = Members /\ Pair!Busy' /\ (Pair!to)' = Pair!to /\ (Pair!from)' = Pair!from
         /\ Copies' = Copies /\ Noted' = Noted /\ OnTheWay'
<1>1. /\ Pair!Busy /\ x \in Left /\ x \in Members
      /\ Elements(Tail(push.todo)) = Left \ {x} /\ InTurn(Tail(push.todo))
      /\ \A s \in Stage : Place[s] < Place[x] => s \notin Left
      /\ \A s \in Members : Place[x] < Place[s] => s \in Left
  BY PairAtStep
<1>2. Left' = Left \ {x}
  BY <1>1 DEF Left
<1>3. Members' = Members /\ Pair!Busy' = Pair!Busy /\ (Pair!to)' = Pair!to /\ (Pair!from)' = Pair!from
  BY DEF Members, MembersOf, Pair!Busy, Pair!to, Pair!from
<1>4. Copies' = Copies /\ Noted' = Noted
  BY DEF Copies, Noted
<1>5. \A s \in Members \ Left' : \A t \in Left' : Place[s] < Place[t]
  <2> SUFFICES ASSUME NEW s \in Members, s \notin Left', NEW t \in Left' PROVE Place[s] < Place[t]
    OBVIOUS
  <2>1. t \in Left /\ t # x /\ t \in Members
    BY <1>2 DEF OnTheWay
  <2>2. CASE s \notin Left
    BY <2>1, <2>2 DEF OnTheWay
  <2>3. CASE s = x
    <3>1. ~(Place[t] < Place[x])
      BY <1>1, <2>1, MembersAre
    <3>2. Place[x] < Place[t]
      <4>1. push.todo \in Seq(Stage) /\ push.todo # <<>> /\ InTurn(push.todo) /\ Head(push.todo) = x
        BY TodoIsTyped DEF OnTheWay, Pair!At
      <4>2. QED BY <2>1, <4>1, ElementsOfTail DEF Left
    <3>3. QED BY <2>3, <3>2
  <2>4. QED BY <1>2, <2>2, <2>3
<1>6. OnTheWay'
  BY <1>1, <1>2, <1>3, <1>5 DEF OnTheWay
<1>7. QED BY <1>1, <1>2, <1>3, <1>4, <1>6

---------------------------------------------------------------------------
(* A job that is over.                                                     *)

LEMMA NothingRuns ==
  ASSUME push' = Pair!Idle
  PROVE  /\ ~Pair!Busy' /\ Left' = {} /\ Members' = {} /\ ~Copies' /\ ~Noted' /\ ~Replacing'
         /\ (\A s \in Stage : ~Past(s)') /\ (push.job.kind = "none")'
         /\ InTurn(push.todo)' /\ push' \in [job : Pair!Job, todo : Seq(Stage), indexing : Reading]
<1>1. push'.job = Pair!NoJob /\ push'.todo = <<>> /\ Pair!NoJob.kind = "none"
  BY DEF Pair!Idle, Pair!NoJob
<1>2. ~Pair!Busy' /\ ~Copies' /\ ~Noted' /\ (push.job.kind = "none")'
  BY <1>1 DEF Pair!Busy, Copies, Noted
<1>3. Left' = {} /\ InTurn(push.todo)'
  BY <1>1, ElementsOfNone DEF Left
<1>4. push' \in [job : Pair!Job, todo : Seq(Stage), indexing : Reading]
  BY DEF Pair!Idle, Pair!NoJob, Pair!Job, Reading, Pair!Site
<1>5. QED BY <1>2, <1>3, <1>4 DEF Members, Past, Replacing

\* What says where a job is says nothing then.
LEMMA NothingIsMid ==
  ASSUME push' = Pair!Idle
  PROVE  OnTheWay' /\ MidFiles' /\ MidDb' /\ MidUrl'
<1>1. OnTheWay'
  BY NothingRuns DEF OnTheWay
<1>2. /\ ~Past("backup")' /\ ~Past("copy")' /\ ~Past("in")' /\ ~Past("config")' /\ ~Past("dump")'
      /\ ~Past("database")' /\ ~Past("install")' /\ ~Past("urls")' /\ ~Past("load")'
  BY NothingRuns DEF Past
<1>3. QED BY <1>1, <1>2, NothingRuns DEF MidFiles, MidDb, MidUrl

LEMMA ReplacedIs == Pair!Replaced <=> push.job.kind = "push" /\ push.job.data /\ "empty" \notin Left
  BY DEF Pair!Replaced, Left, Elements

\* The fields of files that say what it holds.
SameContent == \A x \in Pair!Site : files'[x].code = files[x].code /\ files'[x].media = files[x].media

LEMMA PairStopKeeps ==
  ASSUME PairInv, Pair!Busy, Pair!Stop, siteKind' = siteKind, siteJobs' = siteJobs, asking' = asking, wish' = wish,
         redeployed' = redeployed, siteAsked' = siteAsked, version' = version, db' = db, ssl' = ssl,
         answers' = answers, saved' = saved, had' = had, staged' \in File, Whole(staged'),
         siteTroubles' \in 0..MaxTroubles, files' \in [Pair!Site -> File],
         \A x \in Pair!Site : files'[x] = files[x]
           \/ (x = Pair!to /\ files[x] # Pair!NoFiles /\ \E n \in Pair!Names : files'[x] = [files[x] EXCEPT !.names = n])
  PROVE  PairInv'
<1>0. /\ PairTyped /\ OnTheWay /\ Kept /\ Pair!OwnDatabase /\ Pair!OwnAddress
      /\ Addressed /\ MidDb /\ Indexed
  BY DEF PairInv
<1>1. /\ push' = Pair!Idle /\ siteStatus' = [siteStatus EXCEPT ![Pair!to] = "failed"]
      /\ spoiled' = (spoiled \/ Pair!Replaced)
  BY DEF Pair!Stop
<1>2. Pair!to \in Pair!Site /\ Pair!from \in Pair!Site /\ Pair!to # Pair!from
  BY <1>0, TodoIsTyped
<1>3. \A x \in Pair!Site : siteStatus'[x] = IF x = Pair!to THEN "failed" ELSE siteStatus[x]
  BY <1>0, <1>1, <1>2 DEF PairTyped
<1>4. \A x \in Pair!Site : /\ files[x] \in File /\ files'[x].code = files[x].code
                           /\ files'[x].media = files[x].media
                           /\ files'[x].url = files[x].url
                           /\ x # Pair!to => files'[x] = files[x]
                           /\ files[x] = Pair!NoFiles => files'[x] = Pair!NoFiles
  BY <1>0 DEF PairTyped, File
<1>5. spoiled' \in BOOLEAN
  BY <1>0, <1>1 DEF PairTyped, Pair!Replaced
<1>6. PairTyped'
  <2>1. siteStatus' \in [Pair!Site -> {"none", "pending", "deploying", "active", "failed"}]
    BY <1>0, <1>1, <1>2 DEF PairTyped
  <2>2. push' \in [job : Pair!Job, todo : Seq(Stage), indexing : Reading] /\ ~Pair!Busy'
    BY <1>1, NothingRuns
  <2>3. QED BY <1>0, <1>5, <2>1, <2>2 DEF PairTyped
<1>7. OnTheWay' /\ MidFiles' /\ MidDb' /\ MidUrl'
  BY <1>1, NothingIsMid
<1>8. Kept'
  <2>1. Pair!Content' = Pair!Content
    BY <1>4 DEF Pair!Content, Pair!Site
  <2>2. Pair!PreviousStateKept'
    BY <1>0, <2>1 DEF Kept, Pair!PreviousStateKept
  <2>3. \A x \in Pair!Site : Whole(files'[x])
    BY <1>0, <1>4 DEF Kept, Whole
  <2>4. QED BY <1>0, <2>2, <2>3 DEF Kept
<1>9. Pair!OwnDatabase'
  BY <1>0, <1>3, <1>4 DEF Pair!OwnDatabase
<1>10. Pair!OwnAddress'
  BY <1>0, <1>3, <1>4 DEF Pair!OwnAddress, Pair!Own
<1>11. Addressed'
  BY <1>0, <1>3 DEF Addressed
<1>12. Indexed'
  <2> SUFFICES ASSUME siteKind = "wordpress", ~spoiled' 
               PROVE  db["live"].data # Pair!Part /\ (db["live"].indexed <=> wish)
    BY <1>1, NothingRuns DEF Indexed
  <2>1. ~spoiled /\ ~Pair!Replaced
    BY <1>1
  <2>2. ~Replacing
    BY <2>1, ReplacedIs DEF Replacing, Noted, Past
  <2>3. QED BY <1>0, <2>1, <2>2 DEF Indexed
<1>13. QED BY <1>6, <1>7, <1>8, <1>9, <1>10, <1>11, <1>12 DEF PairInv

---------------------------------------------------------------------------
(* What does not move the worker.                                          *)

LEMMA SameRun ==
  ASSUME push' = push, siteKind' = siteKind
  PROVE  /\ Left' = Left /\ Members' = Members /\ Pair!Busy' = Pair!Busy /\ (Pair!to)' = Pair!to /\ (Pair!from)' = Pair!from
         /\ Copies' = Copies /\ Noted' = Noted /\ Replacing' = Replacing
         /\ Past("backup")' = Past("backup") /\ Past("copy")' = Past("copy") /\ Past("in")' = Past("in")
         /\ Past("config")' = Past("config") /\ Past("dump")' = Past("dump")
         /\ Past("database")' = Past("database") /\ Past("install")' = Past("install")
         /\ Past("urls")' = Past("urls") /\ Past("load")' = Past("load") /\ Past("note")' = Past("note")
  BY DEF Left, Members, MembersOf, Pair!Busy, Pair!to, Pair!from, Copies, Noted, Replacing, Past

LEMMA AskingKeeps ==
  ASSUME PairInv, push' = push, siteKind' = siteKind, files' = files, db' = db, answers' = answers,
         saved' = saved, staged' = staged, wish' = wish, had' = had, redeployed' = redeployed,
         spoiled' = spoiled, siteJobs' \in Seq(Wanted), asking' \in BOOLEAN, siteAsked' \in 0..MaxJobs,
         version' = version, siteTroubles' = siteTroubles,
         \/ siteStatus' = siteStatus /\ ssl' = ssl
         \/ /\ siteStatus["copy"] = "none"
            /\ siteStatus' = [siteStatus EXCEPT !["copy"] = "pending"]
            /\ ssl' = [ssl EXCEPT !["copy"] = ssl["live"]]
  PROVE  PairInv'
<1>0. /\ PairTyped /\ OnTheWay /\ Kept /\ Pair!OwnDatabase /\ Pair!OwnAddress
      /\ Addressed /\ MidFiles /\ MidDb /\ MidUrl /\ Indexed
  BY DEF PairInv
<1>1. \A x \in Pair!Site : siteStatus[x] # "none" => siteStatus'[x] = siteStatus[x] /\ ssl'[x] = ssl[x]
  BY <1>0 DEF PairTyped, Pair!Site
<1>2. \A x \in Pair!Site : siteStatus'[x] = "active" => siteStatus[x] = "active"
  BY <1>0 DEF PairTyped, Pair!Site
<1>3. PairTyped'
  BY <1>0, SameRun DEF PairTyped, Pair!Site
<1>4. OnTheWay'
  BY <1>0, <1>1, SameRun, TodoIsTyped DEF OnTheWay
<1>5. Kept'
  BY <1>0 DEF Kept, Pair!PreviousStateKept, Pair!Content
<1>6. Pair!OwnDatabase'
  BY <1>0, <1>2 DEF Pair!OwnDatabase
<1>7. Pair!OwnAddress'
  BY <1>0, <1>1, <1>2 DEF Pair!OwnAddress, Pair!Own
<1>8. Addressed'
  <2>1. ssl'["live"] = ssl["live"]
    BY <1>0 DEF PairTyped, Pair!Site
  <2>2. QED BY <1>0, <1>2, <2>1 DEF Addressed
<1>9. MidFiles'
  BY <1>0, SameRun DEF MidFiles
<1>10. MidDb'
  BY <1>0, SameRun DEF MidDb
<1>11. MidUrl'
  <2>1. Pair!Busy => ssl'[Pair!to] = ssl[Pair!to]
    BY <1>0, <1>1, TodoIsTyped DEF OnTheWay
  <2>2. Copies => Pair!Busy
    BY DEF Copies, Pair!Busy
  <2>3. Copies => (Pair!Own(Pair!to))' = Pair!Own(Pair!to)
    BY <2>1, <2>2, SameRun DEF Pair!Own
  <2>4. QED BY <1>0, <2>3, SameRun DEF MidUrl
<1>12. Indexed'
  BY <1>0, SameRun DEF Indexed
<1>13. QED BY <1>3, <1>4, <1>5, <1>6, <1>7, <1>8, <1>9, <1>10, <1>11, <1>12 DEF PairInv

LEMMA NewJobs ==
  /\ [Pair!NoJob EXCEPT !.kind = "create", !.site = "copy"] \in Wanted
  /\ \A f, d, k \in BOOLEAN :
       [kind |-> "push", site |-> "live", files |-> f, data |-> d, keep |-> k] \in Wanted
  /\ \A x \in Pair!Site : [Pair!NoJob EXCEPT !.kind = "deploy", !.site = x] \in Wanted
<1>1. Pair!NoJob \in Pair!Job
  BY DEF Pair!NoJob, Pair!Job, Pair!Site
<1>2. \A j \in Pair!Job, m \in {"create", "deploy"}, x \in Pair!Site :
        LET n == [j EXCEPT !.kind = m, !.site = x] IN n \in Pair!Job /\ n.kind = m /\ n.site = x
  BY DEF Pair!Job
<1>3. [Pair!NoJob EXCEPT !.kind = "create", !.site = "copy"] \in Wanted
  BY <1>1, <1>2 DEF Wanted, Pair!Site
<1>4. \A x \in Pair!Site : [Pair!NoJob EXCEPT !.kind = "deploy", !.site = x] \in Wanted
  BY <1>1, <1>2 DEF Wanted
<1>5. \A f, d, k \in BOOLEAN :
       [kind |-> "push", site |-> "live", files |-> f, data |-> d, keep |-> k] \in Wanted
  BY DEF Wanted, Pair!Job, Pair!Site
<1>6. QED BY <1>3, <1>4, <1>5

LEMMA OneMore == ASSUME NEW q \in Seq(Wanted), NEW j \in Wanted PROVE Append(q, j) \in Seq(Wanted)
  OBVIOUS

LEMMA RequestsKeep ==
  ASSUME PairInv, Pair!StagingAssumption,
         Pair!sitesStagingStore \/ Pair!PushCreate \/ Pair!sitesStagingPush \/ (\E x \in Pair!Site : Pair!sitesRedeploy(x))
  PROVE  PairInv'
<1>0. PairTyped /\ siteJobs \in Seq(Wanted) /\ siteAsked \in 0..MaxJobs /\ MaxJobs \in Nat
  BY DEF PairInv, PairTyped, Pair!StagingAssumption
<1>1. CASE Pair!sitesStagingStore
  <2>1. siteAsked' \in 0..MaxJobs /\ asking' \in BOOLEAN
    BY <1>0, <1>1 DEF Pair!sitesStagingStore, Pair!Asks
  <2>2. QED BY <1>0, <1>1, <2>1, AskingKeeps DEF Pair!sitesStagingStore, Pair!prepareStagingSite, Pair!history
<1>2. CASE Pair!PushCreate
  <2>1. siteJobs' \in Seq(Wanted)
    BY <1>0, <1>2, NewJobs, OneMore, Zenon DEF Pair!PushCreate
  <2>3. asking' \in BOOLEAN
    BY <1>2 DEF Pair!PushCreate
  <2>2. QED BY <1>0, <1>2, <2>1, <2>3, AskingKeeps DEF Pair!PushCreate, Pair!halves, Pair!history, Pair!bounds
<1>3. CASE Pair!sitesStagingPush
  <2>1. siteJobs' \in Seq(Wanted)
    BY <1>0, <1>3, NewJobs, OneMore, Zenon DEF Pair!sitesStagingPush
  <2>3. siteAsked' \in 0..MaxJobs /\ asking' \in BOOLEAN
    BY <1>0, <1>3 DEF Pair!sitesStagingPush, Pair!Asks, PairTyped
  <2>2. QED BY <1>0, <1>3, <2>1, <2>3, AskingKeeps DEF Pair!sitesStagingPush, Pair!halves, Pair!history
<1>4. CASE \E x \in Pair!Site : Pair!sitesRedeploy(x)
  <2>0. PICK x \in Pair!Site : Pair!sitesRedeploy(x)
    BY <1>4
  <2>1. siteJobs' \in Seq(Wanted)
    BY <1>0, <2>0, NewJobs, OneMore, Zenon DEF Pair!sitesRedeploy
  <2>3. siteAsked' \in 0..MaxJobs /\ asking' \in BOOLEAN
    <3>1. siteAsked < MaxJobs /\ siteAsked' = siteAsked + 1 /\ asking' = asking
      BY <2>0, Zenon DEF Pair!sitesRedeploy, Pair!Asks
    <3>2. QED BY <1>0, <3>1 DEF PairTyped
  <2>2. QED BY <1>0, <2>0, <2>1, <2>3, AskingKeeps DEF Pair!sitesRedeploy, Pair!halves, Pair!history
<1>5. QED BY <1>1, <1>2, <1>3, <1>4

\* The owner changes a site that nothing is done to.
LEMMA ChangeKeeps ==
  ASSUME PairInv, Pair!StagingAssumption, NEW x \in Pair!Site, Pair!Change(x)
  PROVE  PairInv'
<1>0. /\ PairTyped /\ OnTheWay /\ Kept /\ Pair!OwnDatabase /\ Pair!OwnAddress
      /\ Addressed /\ MidFiles /\ MidDb /\ MidUrl /\ Indexed
  BY DEF PairInv
<1>1. version' \in Pair!Version /\ version' # Pair!Nil /\ version' # Pair!Part /\ version' \in Pair!Data
  BY <1>0 DEF Pair!Change, PairTyped, Pair!Version, Pair!StagingAssumption, Pair!Nil, Pair!Part, Pair!Data
<1>2. ~Pair!Busy /\ ~Pair!Busy' /\ siteStatus[x] = "active"
  BY DEF Pair!Change, Pair!Busy
<1>3. /\ files' \in [Pair!Site -> File] /\ db' \in [Pair!Site -> Base]
      /\ \A y \in Pair!Site : y # x => files'[y] = files[y] /\ db'[y] = db[y]
      /\ files'[x] = [files[x] EXCEPT !.code = version', !.media = version']
      /\ db'[x] = [db[x] EXCEPT !.data = version']
  <2>1. files' = [files EXCEPT ![x] = [files[x] EXCEPT !.code = version', !.media = version']]
    BY <1>0 DEF Pair!Change, PairTyped
  <2>2. db' = [db EXCEPT ![x] = [db[x] EXCEPT !.data = version']]
    BY DEF Pair!Change
  <2>3. files \in [Pair!Site -> File] /\ db \in [Pair!Site -> Base]
    BY <1>0 DEF PairTyped
  <2>4. [files[x] EXCEPT !.code = version', !.media = version'] \in File
    BY <1>1, <2>3 DEF File
  <2>5. [db[x] EXCEPT !.data = version'] \in Base
    BY <1>1, <2>3 DEF Base
  <2>6. QED BY <2>1, <2>2, <2>3, <2>4, <2>5
<1>4. /\ files[x] \in File /\ db[x] \in Base
      /\ files'[x].code = version' /\ files'[x].media = version' /\ files'[x].names = files[x].names
      /\ files'[x].url = files[x].url /\ db'[x].data = version' /\ db'[x].url = db[x].url
      /\ db'[x].indexed = db[x].indexed
  BY <1>0, <1>3 DEF PairTyped, File, Base
<1>5. PairTyped'
  BY <1>0, <1>1, <1>2, <1>3, SameRun DEF PairTyped, Pair!Change
<1>6. OnTheWay'
  BY <1>0, <1>2, SameRun DEF OnTheWay, Pair!Change
<1>7. Kept'
  <2>1. \A y \in Pair!Site : Whole(files'[y])
    BY <1>0, <1>1, <1>3, <1>4 DEF Kept, Whole
  <2>2. db'["live"].data # Pair!Nil
    BY <1>0, <1>1, <1>3, <1>4 DEF Kept, Pair!Site
  <2>3. CASE x = "live"
    <3>1. Pair!Content' = <<version', version', version'>>
      BY <1>4, <2>3 DEF Pair!Content
    <3>2. had' = (had \ {Pair!Content}) \cup {Pair!Content'}
      BY <2>3, <3>1 DEF Pair!Change
    <3>3. Full(Pair!Content')
      BY <1>1, <3>1 DEF Full
    <3>4. saved' = saved /\ staged' = staged
      BY DEF Pair!Change
    <3>5. QED BY <1>0, <2>1, <2>2, <3>2, <3>3, <3>4 DEF Kept, Pair!PreviousStateKept
  <2>4. CASE x # "live"
    <3>1. Pair!Content' = Pair!Content
      BY <1>3, <2>4 DEF Pair!Content, Pair!Site
    <3>2. had' = had /\ saved' = saved /\ staged' = staged
      BY <2>4 DEF Pair!Change
    <3>3. QED BY <1>0, <2>1, <2>2, <3>1, <3>2 DEF Kept, Pair!PreviousStateKept
  <2>5. QED BY <2>3, <2>4
<1>8. Pair!OwnDatabase'
  BY <1>0, <1>3, <1>4 DEF Pair!OwnDatabase, Pair!Change
<1>9. Pair!OwnAddress'
  BY <1>0, <1>3, <1>4 DEF Pair!OwnAddress, Pair!Change, Pair!Own
<1>10. Addressed'
  <2>1. \A y \in Pair!Site : db'[y].url = db[y].url
    BY <1>3, <1>4
  <2>2. siteKind = "wordpress" => db[x].url # Pair!Nowhere
    BY <1>0, <1>2 DEF Addressed
  <2>3. QED BY <1>0, <1>1, <1>3, <1>4, <2>1, <2>2 DEF Addressed, Pair!Change
<1>11. MidFiles' /\ MidDb' /\ MidUrl'
  <2>1. /\ ~Past("backup")' /\ ~Past("copy")' /\ ~Past("in")' /\ ~Past("config")' /\ ~Past("dump")'
        /\ ~Past("database")' /\ ~Past("install")' /\ ~Past("urls")' /\ ~Past("load")'
    BY <1>2 DEF Past
  <2>2. push'.job.kind = "none" /\ ~Copies'
    BY <1>2 DEF Pair!Busy, Copies
  <2>3. QED BY <2>1, <2>2 DEF MidFiles, MidDb, MidUrl
<1>12. Indexed'
  <2>1. ~Noted' /\ ~Replacing' /\ ~Replacing
    BY <1>2 DEF Noted, Pair!Busy, Replacing, Past
  <2>2. db'["live"].indexed = db["live"].indexed /\ (db["live"].data # Pair!Part => db'["live"].data # Pair!Part)
    BY <1>1, <1>3, <1>4 DEF Pair!Site
  <2>3. QED BY <1>0, <2>1, <2>2 DEF Indexed, Pair!Change
<1>13. QED BY <1>5, <1>6, <1>7, <1>8, <1>9, <1>10, <1>11, <1>12 DEF PairInv

---------------------------------------------------------------------------
(* The two ends of a job.                                                  *)

LEMMA BeginIs ==
  ASSUME PairTyped, Pair!Begin, NEW j, j = Head(siteJobs)
  PROVE  /\ j \in Wanted /\ j \in Pair!Job /\ push'.job = j /\ push'.todo = Pair!Steps(j)
         /\ push' \in [job : Pair!Job, todo : Seq(Stage), indexing : Reading]
         /\ Left' = MembersOf(j) /\ Members' = MembersOf(j) /\ Pair!Busy' /\ ~Pair!Busy
         /\ InTurn(push.todo)' /\ siteJobs' \in Seq(Wanted) /\ (Pair!to)' = j.site
<1>1. j \in Wanted /\ j \in Pair!Job /\ siteJobs' \in Seq(Wanted) /\ j.kind # "none"
  BY DEF PairTyped, Pair!Begin, Wanted
<1>2. Pair!Steps(j) \in Seq(Stage) /\ InTurn(Pair!Steps(j)) /\ Elements(Pair!Steps(j)) = MembersOf(j)
  BY <1>1, StepsAreInTurn
<1>3. Pair!Idle \in [job : Pair!Job, todo : Seq(Stage), indexing : Reading]
  BY DEF Pair!Idle, Pair!NoJob, Pair!Job, Pair!Site, Reading
<1>4. \A r \in [job : Pair!Job, todo : Seq(Stage), indexing : Reading] : \A t \in Seq(Stage) :
        LET n == [r EXCEPT !.job = j, !.todo = t] IN
        n \in [job : Pair!Job, todo : Seq(Stage), indexing : Reading] /\ n.job = j /\ n.todo = t
  BY <1>1
<1>5. push' = [Pair!Idle EXCEPT !.job = j, !.todo = Pair!Steps(j)] /\ siteKind' = siteKind
  BY DEF Pair!Begin
<1>6. push' \in [job : Pair!Job, todo : Seq(Stage), indexing : Reading] /\ push'.job = j /\ push'.todo = Pair!Steps(j)
  BY <1>2, <1>3, <1>4, <1>5
<1>7. Pair!Busy' /\ ~Pair!Busy /\ (Pair!to)' = j.site
  BY <1>1, <1>6 DEF Pair!Busy, Pair!Begin, Pair!to
<1>8. Left' = MembersOf(j)
  BY <1>2, <1>6 DEF Left
<1>9. MembersOf(j)' = MembersOf(j)
  BY <1>5 DEF MembersOf
<1>10. Members' = MembersOf(j)
  BY <1>5, <1>6, <1>7 DEF Members, MembersOf
<1>11. QED BY <1>1, <1>2, <1>6, <1>7, <1>8, <1>10

LEMMA PairBeginKeeps ==
  ASSUME PairInv, Pair!Begin
  PROVE  PairInv'
<1> DEFINE j == Head(siteJobs)
<1>0. /\ PairTyped /\ OnTheWay /\ Kept /\ Pair!OwnDatabase /\ Pair!OwnAddress
      /\ Addressed /\ MidFiles /\ MidDb /\ MidUrl /\ Indexed
  BY DEF PairInv
<1>1. /\ j \in Wanted /\ j \in Pair!Job /\ push'.job = j
      /\ push' \in [job : Pair!Job, todo : Seq(Stage), indexing : Reading]
      /\ Left' = Members' /\ Pair!Busy' /\ ~Pair!Busy
      /\ InTurn(push.todo)' /\ siteJobs' \in Seq(Wanted) /\ (Pair!to)' = j.site
  BY <1>0, BeginIs
<1>2. /\ siteKind' = siteKind /\ files' = files /\ db' = db /\ ssl' = ssl /\ answers' = answers
      /\ saved' = saved /\ asking' = asking /\ staged' = staged /\ wish' = wish /\ had' = had
      /\ spoiled' = spoiled /\ siteAsked' = siteAsked /\ version' = version /\ siteTroubles' = siteTroubles
  BY DEF Pair!Begin, Pair!bounds
<1>3. /\ siteStatus' = [siteStatus EXCEPT ![j.site] = "deploying"]
      /\ j.kind = "deploy" => redeployed' = redeployed \cup {j.site}
      /\ j.kind = "push" => redeployed' = redeployed
      /\ j.kind = "create" => redeployed' = redeployed \cup {"copy"}
                                \/ (redeployed' = redeployed \ {"copy"} /\ db["live"].url[1] # "copy")
  BY DEF Pair!Begin
<1> HIDE DEF j
<1>4. j.kind \in {"create", "push", "deploy"} /\ j.site \in Pair!Site /\ (j.kind = "create" => j.site = "copy")
  BY <1>1 DEF Wanted, Pair!Job
<1>5. \A x \in Pair!Site : siteStatus'[x] = IF x = j.site THEN "deploying" ELSE siteStatus[x]
  BY <1>0, <1>3, <1>4 DEF PairTyped
<1>6. PairTyped'
  <2>1. redeployed' \subseteq Pair!Site
    BY <1>0, <1>3, <1>4 DEF PairTyped, Pair!Site
  <2>2. siteStatus' \in [Pair!Site -> {"none", "pending", "deploying", "active", "failed"}]
    BY <1>0, <1>3, <1>4 DEF PairTyped
  <2>3. Pair!Busy' => push'.job \in Wanted
    BY <1>1
  <2>4. QED BY <1>0, <1>1, <1>2, <2>1, <2>2, <2>3 DEF PairTyped
<1>7. OnTheWay'
  BY <1>1, <1>4, <1>5 DEF OnTheWay
<1>8. Kept'
  BY <1>0, <1>2 DEF Kept, Pair!PreviousStateKept, Pair!Content
<1>9. Pair!OwnDatabase'
  BY <1>0, <1>2, <1>5 DEF Pair!OwnDatabase
<1>10. Pair!OwnAddress'
  <2>1. \A x \in Pair!Site : x \notin redeployed' /\ x # j.site => x \notin redeployed
    BY <1>3, <1>4
  <2>2. QED BY <1>0, <1>2, <1>5, <2>1 DEF Pair!OwnAddress, Pair!Own
<1>11. Addressed'
  <2>1. "live" \notin redeployed' => "live" \notin redeployed
    BY <1>3, <1>4
  <2>2. QED BY <1>0, <1>2, <1>5, <2>1 DEF Addressed
<1>12. \A s : Past(s)' <=> s \notin Members'
  BY <1>1 DEF Past
<1>13. /\ "backup" \in Members' <=> j.kind = "push"
       /\ "install" \in Members' <=> j.kind = "deploy"
       /\ \A s \in {"config", "urls"} : s \in Members' <=> j.kind # "deploy"
       /\ j.kind # "push" => "database" \in Members'
       /\ "copy" \in Members' <=> "in" \in Members'
       /\ "dump" \in Members' <=> "load" \in Members'
       /\ "empty" \in Members' <=> "load" \in Members'
       /\ j.kind = "create" => "load" \in Members' /\ "in" \in Members'
       /\ Noted' => "note" \in Members' /\ "load" \in Members'
       /\ j.kind = "push" => (Pair!to)' = "live"
       /\ Copies' <=> j.kind # "deploy"
  <2>1. Members' = MembersOf(j)
    BY <1>0, BeginIs DEF j
  <2>2. Noted' <=> j.kind = "push" /\ j.data /\ siteKind = "wordpress"
    BY <1>1, <1>2 DEF Noted
  <2>3. /\ j.kind = "push" => (Pair!to)' = "live"
        /\ Copies' <=> j.kind # "deploy"
    BY <1>1, <1>4 DEF Copies, Wanted
  <2>4. QED BY <1>1, <1>4, <2>1, <2>2, <2>3, MembersOfAre
<1>14. MidFiles'
  BY <1>1, <1>4, <1>12, <1>13 DEF MidFiles
<1>15. MidDb'
  <2>1. j.kind = "push" => db'[(Pair!to)'].data # Pair!Nil
    BY <1>0, <1>2, <1>13 DEF Kept
  <2>2. j.kind = "deploy" => (Pair!to)' \in redeployed'
    BY <1>1, <1>3
  <2>3. QED BY <1>1, <1>4, <1>12, <1>13, <2>1, <2>2 DEF MidDb
<1>16. MidUrl'
  <2>1. j.kind = "create" /\ "copy" \notin redeployed' => db'["live"].url[1] # "copy"
    BY <1>2, <1>3
  <2>2. QED BY <1>1, <1>4, <1>12, <1>13, <2>1 DEF MidUrl
<1>17. Indexed'
  <2>1. ~Replacing /\ ~Replacing' /\ ~(Noted' /\ Past("note")')
    BY <1>1, <1>12, <1>13 DEF Replacing, Past
  <2>2. QED BY <1>0, <1>2, <2>1 DEF Indexed
<1>18. QED
  BY <1>6, <1>7, <1>8, <1>9, <1>10, <1>11, <1>14, <1>15, <1>16, <1>17 DEF PairInv

LEMMA FullIs ==
  Full(Pair!Content) <=> /\ files["live"].code # Pair!Nil /\ files["live"].media # Pair!Nil
                         /\ db["live"].data # Pair!Part /\ db["live"].data # Pair!Nil
  BY DEF Full, Pair!Content

LEMMA PairFinishKeeps ==
  ASSUME PairInv, Pair!Finish
  PROVE  PairInv'
<1>0. /\ PairTyped /\ OnTheWay /\ Kept /\ Pair!OwnDatabase /\ Pair!OwnAddress
      /\ Addressed /\ MidFiles /\ MidDb /\ MidUrl /\ Indexed
  BY DEF PairInv
<1>1. /\ siteKind' = siteKind /\ files' = files /\ db' = db /\ ssl' = ssl /\ answers' = answers
      /\ saved' = saved /\ asking' = asking /\ staged' = staged /\ wish' = wish
      /\ redeployed' = redeployed /\ siteJobs' = siteJobs
      /\ spoiled' = spoiled /\ siteAsked' = siteAsked /\ version' = version /\ siteTroubles' = siteTroubles
  BY DEF Pair!Finish, Pair!rest
<1>2. /\ Pair!Busy /\ push' = Pair!Idle /\ Left = {} /\ siteStatus' = [siteStatus EXCEPT ![Pair!to] = "active"]
      /\ had' = had \/ (Pair!to = "live" /\ db["live"].data # Pair!Part /\ had' = had \cup {Pair!Content})
  BY NoneLeft DEF Pair!Finish
<1>3. /\ Pair!to \in Pair!Site /\ Pair!from \in Pair!Site /\ Pair!to # Pair!from /\ push.job.kind \in {"create", "push", "deploy"}
  BY <1>0, <1>2, TodoIsTyped, MembersAre
<1>4. \A x \in Pair!Site : siteStatus'[x] = IF x = Pair!to THEN "active" ELSE siteStatus[x]
  BY <1>0, <1>2, <1>3 DEF PairTyped
<1>5. \A s : Past(s)
  BY <1>2 DEF Past
<1>6. files[Pair!to].names = Pair!to /\ files[Pair!to] # Pair!NoFiles
  <2>1. files[Pair!to].names = Pair!to
    BY <1>0, <1>5 DEF MidFiles
  <2>2. QED BY <1>3, <2>1 DEF Pair!NoFiles, Pair!Site
<1>7. PairTyped'
  <2>1. siteStatus' \in [Pair!Site -> {"none", "pending", "deploying", "active", "failed"}]
    BY <1>0, <1>2, <1>3 DEF PairTyped
  <2>2. push' \in [job : Pair!Job, todo : Seq(Stage), indexing : Reading] /\ ~Pair!Busy'
    BY <1>2, NothingRuns
  <2>3. QED BY <1>0, <1>1, <2>1, <2>2 DEF PairTyped
<1>8. OnTheWay' /\ MidFiles' /\ MidDb' /\ MidUrl'
  BY <1>2, NothingIsMid
<1>9. Kept'
  <2>1. Pair!Content' = Pair!Content
    BY <1>1 DEF Pair!Content
  <2>2. Pair!PreviousStateKept'
    BY <1>0, <1>1, <1>2, <2>1 DEF Kept, Pair!PreviousStateKept
  <2>3. Pair!to = "live" /\ db["live"].data # Pair!Part => Full(Pair!Content)
    <3>1. Whole(files["live"]) /\ db["live"].data # Pair!Nil
      BY <1>0 DEF Kept, Pair!Site
    <3>2. Pair!to = "live" => files["live"].code # Pair!Nil /\ files["live"].media # Pair!Nil
      BY <1>6, <3>1 DEF Whole
    <3>3. QED BY <3>1, <3>2, FullIs
  <2>4. \A c \in had' : Full(c)
    BY <1>0, <1>2, <2>3 DEF Kept
  <2>5. QED BY <1>0, <1>1, <2>2, <2>4 DEF Kept
<1>10. Pair!OwnDatabase'
  BY <1>0, <1>1, <1>4, <1>6 DEF Pair!OwnDatabase
<1>11. Pair!OwnAddress'
  <2>1. push.job.kind = "deploy" => Pair!to \in redeployed
    BY <1>0 DEF MidDb
  <2>2. Pair!to \notin redeployed => IF siteKind = "wordpress" THEN db[Pair!to].url = Pair!Own(Pair!to) ELSE files[Pair!to].url = Pair!Own(Pair!to)
    <3>1. Pair!to \notin redeployed => Copies
      BY <1>3, <2>1 DEF Copies
    <3>2. siteKind \in {"wordpress", "laravel"}
      BY <1>0 DEF PairTyped
    <3>3. QED BY <1>0, <1>5, <3>1, <3>2 DEF MidUrl
  <2>3. QED BY <1>0, <1>1, <1>4, <2>2 DEF Pair!OwnAddress, Pair!Own
<1>12. Addressed'
  <2>1. siteKind = "wordpress" => db[Pair!to].data \notin {Pair!Part, Pair!Nil}
    BY <1>0, <1>3, <1>5 DEF MidDb, Copies
  <2>2. QED BY <1>0, <1>1, <1>4, <2>1 DEF Addressed
<1>13. Indexed'
  <2>1. ~Replacing /\ ~Replacing' /\ ~Noted'
    BY <1>2, NothingRuns DEF Replacing
  <2>2. QED BY <1>0, <1>1, <2>1 DEF Indexed
<1>14. QED BY <1>7, <1>8, <1>9, <1>10, <1>11, <1>12, <1>13 DEF PairInv

LEMMA PairCrashKeeps ==
  ASSUME PairInv, Pair!StagingAssumption, Pair!Crash
  PROVE  PairInv'
<1>0. /\ PairTyped /\ OnTheWay /\ Kept /\ Pair!OwnDatabase /\ Pair!OwnAddress
      /\ Addressed /\ MidFiles /\ MidDb /\ MidUrl /\ Indexed
  BY DEF PairInv
<1>1. /\ siteKind' = siteKind /\ files' = files /\ db' = db /\ siteStatus' = siteStatus /\ ssl' = ssl
      /\ answers' = answers /\ saved' = saved /\ wish' = wish /\ had' = had
      /\ redeployed' = redeployed /\ siteAsked' = siteAsked /\ version' = version
  BY DEF Pair!Crash, Pair!halves
<1>2. /\ push' = Pair!Idle /\ asking' = FALSE /\ staged' = Pair!NoFiles
      /\ siteJobs' = (IF Pair!Busy THEN <<push.job>> \o siteJobs ELSE siteJobs)
      /\ spoiled' = (spoiled \/ (Pair!Busy /\ Pair!Replaced))
  BY DEF Pair!Crash
<1>3. siteJobs' \in Seq(Wanted)
  <2>1. CASE Pair!Busy
    <3>1. <<push.job>> \in Seq(Wanted) /\ siteJobs \in Seq(Wanted)
      BY <1>0, <2>1 DEF PairTyped
    <3>2. QED BY <1>2, <2>1, <3>1, ConcatProperties
  <2>2. QED BY <1>0, <1>2, <2>1 DEF PairTyped
<1>4. siteTroubles' \in 0..MaxTroubles
  BY <1>0 DEF Pair!Crash, Pair!Trouble, PairTyped, Pair!StagingAssumption
<1>5. Pair!NoFiles \in File /\ Whole(Pair!NoFiles)
  BY DEF Pair!NoFiles, File, Whole, Pair!Data, Pair!Names, Pair!Url
<1>6. PairTyped'
  <2>1. push' \in [job : Pair!Job, todo : Seq(Stage), indexing : Reading] /\ ~Pair!Busy'
    BY <1>2, NothingRuns
  <2>2. spoiled' \in BOOLEAN /\ asking' \in BOOLEAN
    BY <1>0, <1>2 DEF PairTyped
  <2>3. QED BY <1>0, <1>1, <1>2, <1>3, <1>4, <1>5, <2>1, <2>2 DEF PairTyped
<1>7. OnTheWay' /\ MidFiles' /\ MidDb' /\ MidUrl'
  BY <1>2, NothingIsMid
<1>8. Kept'
  BY <1>0, <1>1, <1>2, <1>5 DEF Kept, Pair!PreviousStateKept, Pair!Content
<1>9. Pair!OwnDatabase' /\ Pair!OwnAddress' /\ Addressed'
  BY <1>0, <1>1 DEF Pair!OwnDatabase, Pair!OwnAddress, Addressed, Pair!Own
<1>10. Indexed'
  <2>1. ~Replacing' /\ ~Noted'
    BY <1>2, NothingRuns
  <2>2. ~spoiled' => ~spoiled /\ ~Replacing
    BY <1>2, ReplacedIs DEF Replacing, Noted, Past
  <2>3. QED BY <1>0, <1>1, <2>1, <2>2 DEF Indexed
<1>11. QED BY <1>6, <1>7, <1>8, <1>9, <1>10 DEF PairInv

---------------------------------------------------------------------------
(* A step that is passed.                                                  *)

Moves(x) == /\ Pair!At(x) /\ siteKind' = siteKind /\ siteStatus' = siteStatus
            /\ push' \in [job : Pair!Job, todo : Seq(Stage), indexing : Reading]
            /\ push'.job = push.job /\ push'.todo = Tail(push.todo)

LEMMA PassMoves ==
  ASSUME PairTyped, OnTheWay, NEW x \in Stage, Pair!At(x), Pair!Pass, siteKind' = siteKind
  PROVE  Moves(x) /\ push'.indexing = push.indexing
<1>1. push \in [job : Pair!Job, todo : Seq(Stage), indexing : Reading] /\ Tail(push.todo) \in Seq(Stage)
  BY PairAtStep DEF PairTyped
<1>2. \A t \in Seq(Stage) : LET n == [push EXCEPT !.todo = t] IN
        /\ n \in [job : Pair!Job, todo : Seq(Stage), indexing : Reading]
        /\ n.job = push.job /\ n.todo = t /\ n.indexing = push.indexing
  BY <1>1
<1>3. push' = [push EXCEPT !.todo = Tail(push.todo)] /\ siteStatus' = siteStatus
  BY DEF Pair!Pass
<1>4. QED BY <1>1, <1>2, <1>3 DEF Moves

\* Where the job is by the places of its steps.
LEMMA WhereItIs ==
  ASSUME PairTyped, OnTheWay, NEW x \in Stage, Moves(x)
  PROVE  /\ Pair!Busy /\ Pair!Busy' /\ push.job \in Wanted /\ (Pair!to)' = Pair!to /\ (Pair!from)' = Pair!from /\ x \in Members
         /\ Copies' = Copies /\ Noted' = Noted /\ OnTheWay' /\ push'.job = push.job
         /\ \A s \in Stage : /\ s \in Left <=> s \in Members /\ Place[x] <= Place[s]
                             /\ s \in Left' <=> s \in Members /\ Place[x] < Place[s]
                             /\ Past(s) <=> s \notin Left
                             /\ Past(s)' <=> s \notin Left'
<1>1. /\ Pair!At(x) /\ push'.job = push.job /\ push'.todo = Tail(push.todo) /\ siteKind' = siteKind /\ siteStatus' = siteStatus
  BY DEF Moves
<1>2. /\ Pair!Busy /\ x \in Left /\ x \in Members /\ push.job \in Wanted
      /\ \A s \in Stage : Place[s] < Place[x] => s \notin Left
      /\ \A s \in Members : Place[x] < Place[s] => s \in Left
  BY <1>1, PairAtStep
<1>3. /\ Left' = Left \ {x} /\ Members' = Members /\ Pair!Busy' /\ (Pair!to)' = Pair!to /\ (Pair!from)' = Pair!from
      /\ Copies' = Copies /\ Noted' = Noted /\ OnTheWay'
  BY <1>1, PassingIt
<1>4. \A s, t \in Stage : Place[s] = Place[t] => s = t
  BY PlacesAre DEF Stage
<1>5. \A s \in Stage : s \in Left <=> s \in Members /\ Place[x] <= Place[s]
  BY <1>2, <1>4, PlacesAreNumbers DEF OnTheWay
<1>6. \A s \in Stage : s \in Left' <=> s \in Members /\ Place[x] < Place[s]
  BY <1>3, <1>4, <1>5, PlacesAreNumbers
<1>7. \A s \in Stage : (Past(s) <=> s \notin Left) /\ (Past(s)' <=> s \notin Left')
  BY <1>2, <1>3 DEF Past
<1>8. QED BY <1>1, <1>2, <1>3, <1>5, <1>6, <1>7

Still == /\ siteKind' = siteKind /\ siteJobs' = siteJobs /\ asking' = asking /\ wish' = wish
         /\ redeployed' = redeployed /\ siteAsked' = siteAsked /\ version' = version
OnlyThere == \A y \in Pair!Site : y # Pair!to => files'[y] = files[y] /\ db'[y] = db[y] /\ ssl'[y] = ssl[y]
Shaped == /\ files' \in [Pair!Site -> File] /\ db' \in [Pair!Site -> Base] /\ ssl' \in [Pair!Site -> BOOLEAN]
          /\ answers' \in BOOLEAN /\ saved' \subseteq Pair!Data \X Pair!Data \X Pair!Data /\ staged' \in File
          /\ spoiled' \in BOOLEAN /\ siteTroubles' \in 0..MaxTroubles

LEMMA OneIsPassed ==
  ASSUME PairTyped, OnTheWay, NEW x \in Stage, Moves(x)
  PROVE  /\ x \in Members /\ (Pair!to)' = Pair!to /\ (Pair!from)' = Pair!from /\ Copies' = Copies /\ Noted' = Noted
         /\ push'.job = push.job /\ Pair!Busy /\ Pair!to \in Pair!Site /\ Pair!from \in Pair!Site /\ Pair!to # Pair!from
         /\ \A s \in Stage : s # x => (s \in Left' <=> s \in Left) /\ (Past(s)' <=> Past(s))
         /\ x \notin Left' /\ Past(x)'
<1>1. \A s, t \in Stage : Place[s] = Place[t] => s = t
  BY PlacesAre DEF Stage
<1>2. QED BY <1>1, WhereItIs, PlacesAreNumbers, TodoIsTyped

\* The site a job is about says nothing until it is over.
LEMMA PairPassKeeps ==
  ASSUME PairInv, NEW x \in Stage, Moves(x), Still, OnlyThere, Shaped,
         Kept', Addressed', MidFiles', MidDb', MidUrl', Indexed'
  PROVE  PairInv'
<1>0. PairTyped /\ OnTheWay /\ Pair!OwnDatabase /\ Pair!OwnAddress
  BY DEF PairInv
<1>1. Pair!Busy' /\ push.job \in Wanted /\ push'.job = push.job /\ OnTheWay' /\ Pair!Busy
  BY <1>0, WhereItIs
<1>2. siteStatus[Pair!to] = "deploying" /\ siteStatus' = siteStatus
  BY <1>0, <1>1 DEF OnTheWay, Moves
<1>3. PairTyped'
  BY <1>0, <1>1 DEF PairTyped, Moves, Still, Shaped
<1>4. Pair!OwnDatabase'
  BY <1>0, <1>2 DEF Pair!OwnDatabase, OnlyThere
<1>5. Pair!OwnAddress'
  BY <1>0, <1>2 DEF Pair!OwnAddress, OnlyThere, Still, Pair!Own
<1>6. QED BY <1>1, <1>3, <1>4, <1>5 DEF PairInv

\* The steps of which nothing else is told.
LEMMA QuietKeeps ==
  ASSUME PairInv, NEW x \in {"root", "dump", "vhost", "check"}, Pair!At(x), Pair!Pass, Still,
         x = "dump" => db[Pair!from].data # Pair!Nil, files' = files, db' = db, ssl' = ssl,
         answers' \in BOOLEAN, saved' = saved, staged' = staged, had' = had, spoiled' = spoiled,
         siteTroubles' = siteTroubles
  PROVE  PairInv'
<1>0. /\ PairTyped /\ OnTheWay /\ Kept /\ Pair!OwnDatabase /\ Pair!OwnAddress
      /\ Addressed /\ MidFiles /\ MidDb /\ MidUrl /\ Indexed
  BY DEF PairInv
<1>1. x \in Stage
  BY DEF Stage
<1>2. Moves(x) /\ push'.indexing = push.indexing
  BY <1>0, <1>1, PassMoves DEF Still
<1>3. /\ (Pair!to)' = Pair!to /\ (Pair!from)' = Pair!from /\ Copies' = Copies /\ Noted' = Noted /\ push'.job = push.job
      /\ \A s \in Stage : s # x => (s \in Left' <=> s \in Left) /\ (Past(s)' <=> Past(s))
  BY <1>0, <1>1, <1>2, OneIsPassed
<1>4. \A s \in {"backup", "note", "copy", "in", "load", "empty", "database", "install", "config", "urls", "index"} :
        s # x /\ s \in Stage /\ "dump" \in Stage
  BY DEF Stage
<1>5. siteKind' = siteKind /\ redeployed' = redeployed /\ wish' = wish /\ siteStatus' = siteStatus
  BY <1>2 DEF Still, Moves
<1>6. Kept'
  BY <1>0 DEF Kept, Pair!PreviousStateKept, Pair!Content
<1>7. Addressed'
  BY <1>0, <1>5 DEF Addressed
<1>8. MidFiles'
  BY <1>0, <1>3, <1>4, <1>5 DEF MidFiles
<1>9. MidDb'
  BY <1>0, <1>3, <1>4, <1>5 DEF MidDb
<1>10. MidUrl'
  BY <1>0, <1>3, <1>4, <1>5 DEF MidUrl, Pair!Own
<1>11. Indexed'
  BY <1>0, <1>2, <1>3, <1>4, <1>5 DEF Indexed, Replacing
<1>12. OnlyThere /\ Shaped
  BY <1>0 DEF OnlyThere, Shaped, PairTyped
<1>13. QED BY <1>1, <1>2, <1>6, <1>7, <1>8, <1>9, <1>10, <1>11, <1>12, PairPassKeeps

---------------------------------------------------------------------------
(* The steps, one by one.                                                  *)

LEMMA TroublesAreTyped ==
  ASSUME PairTyped, Pair!StagingAssumption, Pair!Trouble \/ Pair!Calm
  PROVE  siteTroubles' \in 0..MaxTroubles
  BY DEF PairTyped, Pair!StagingAssumption, Pair!Trouble, Pair!Calm

LEMMA NoFilesAre == Pair!NoFiles \in File /\ Whole(Pair!NoFiles)
  BY DEF Pair!NoFiles, File, Whole, Pair!Data, Pair!Names, Pair!Url

\* What was there is there, or nothing of it has to be.
LEMMA KeptKeeps ==
  ASSUME PairTyped, Kept, OnlyThere, had' = had, saved' = saved,
         Pair!to = "live" => Pair!Content' = Pair!Content \/ had \subseteq saved,
         Whole(files'[Pair!to]), Whole(staged'), Pair!to = "live" => db'["live"].data # Pair!Nil
  PROVE  Kept'
<1>1. Pair!to # "live" => Pair!Content' = Pair!Content /\ db'["live"] = db["live"]
  BY DEF OnlyThere, Pair!Content, Pair!Site
<1>2. Pair!PreviousStateKept'
  BY <1>1 DEF Kept, Pair!PreviousStateKept
<1>3. \A y \in Pair!Site : Whole(files'[y])
  BY DEF Kept, OnlyThere
<1>4. QED BY <1>1, <1>2, <1>3 DEF Kept

\* A step that fails and leaves everything where it was.
LEMMA FailingKeeps ==
  ASSUME PairInv, Pair!StagingAssumption, NEW x \in Stage, Pair!At(x), Pair!Stop, Still, Pair!Trouble \/ Pair!Calm,
         files' = files, db' = db, ssl' = ssl, answers' = answers, saved' = saved, had' = had,
         staged' = staged \/ staged' = Pair!NoFiles
  PROVE  PairInv'
<1>1. PairTyped /\ OnTheWay /\ Kept /\ Pair!Busy
  BY PairAtStep DEF PairInv
<1>2. siteTroubles' \in 0..MaxTroubles
  BY <1>1, TroublesAreTyped
<1>3. staged' \in File /\ Whole(staged') /\ files' \in [Pair!Site -> File]
  BY <1>1, NoFilesAre DEF PairTyped, Kept
<1>4. QED BY <1>1, <1>2, <1>3, PairStopKeeps DEF Still

\* A backup of what there is goes before anything that replaces it.
LEMMA backupBeforePushKeeps ==
  ASSUME PairInv, Pair!StagingAssumption, Pair!backupBeforePush
  PROVE  PairInv'
<1> DEFINE x == "backup"
<1>0. /\ PairTyped /\ OnTheWay /\ Kept /\ Pair!OwnDatabase /\ Pair!OwnAddress
      /\ Addressed /\ MidFiles /\ MidDb /\ MidUrl /\ Indexed
  BY DEF PairInv
<1>1. /\ x \in Stage /\ Pair!At(x) /\ Still /\ files' = files /\ db' = db /\ ssl' = ssl
      /\ answers' = answers /\ staged' = staged /\ had' = had
  BY DEF Stage, Pair!backupBeforePush, Still, Pair!rest
<1>2. CASE Pair!Stop /\ saved' = saved /\ (Pair!Calm \/ Pair!Trouble)
  BY <1>1, <1>2, FailingKeeps
<1>3. CASE /\ files["live"] # Pair!NoFiles /\ Pair!Calm /\ saved' = saved \cup {Pair!Content}
           /\ Pair!Pass /\ UNCHANGED spoiled
  <2>1. Moves(x) /\ push'.indexing = push.indexing
    BY <1>0, <1>1, <1>3, PassMoves DEF Still
  <2>2. /\ (Pair!to)' = Pair!to /\ (Pair!from)' = Pair!from /\ Copies' = Copies /\ Noted' = Noted /\ push'.job = push.job
        /\ \A s \in Stage : s # x => (s \in Left' <=> s \in Left) /\ (Past(s)' <=> Past(s))
        /\ x \in Members
    BY <1>0, <1>1, <2>1, OneIsPassed
  <2>3. \A s \in {"note", "copy", "in", "dump", "load", "empty", "database", "install", "config", "urls", "index"} :
          s # x /\ s \in Stage
    BY DEF Stage
  <2>4. push.job.kind = "push" /\ Pair!to = "live"
    BY <1>0, <2>2, MembersAre
  <2>5. siteKind' = siteKind /\ redeployed' = redeployed /\ wish' = wish /\ siteStatus' = siteStatus
    BY <1>1, <2>1 DEF Still, Moves
  <2>6. Kept'
    BY <1>0, <1>1, <1>3 DEF Kept, Pair!PreviousStateKept, Pair!Content
  <2>7. Addressed'
    BY <1>0, <1>1, <2>5 DEF Addressed
  <2>8. MidFiles'
    <3>1. had' \subseteq saved'
      BY <1>0, <1>1, <1>3 DEF Kept, Pair!PreviousStateKept
    <3>2. files'[Pair!to] # Pair!NoFiles
      BY <1>1, <1>3, <2>4
    <3>3. QED BY <1>0, <1>1, <2>2, <2>3, <3>1, <3>2 DEF MidFiles
  <2>9. MidDb'
    BY <1>0, <1>1, <2>2, <2>3, <2>5 DEF MidDb
  <2>10. MidUrl'
    BY <1>0, <1>1, <2>2, <2>3, <2>5 DEF MidUrl, Pair!Own
  <2>11. Indexed'
    BY <1>0, <1>1, <1>3, <2>1, <2>2, <2>3, <2>5 DEF Indexed, Replacing
  <2>12. OnlyThere
    BY <1>1 DEF OnlyThere
  <2>13. Shaped
    <3>1. Pair!Content \in Pair!Data \X Pair!Data \X Pair!Data
      BY <1>0 DEF PairTyped, Pair!Content, File, Base, Pair!Site
    <3>2. QED BY <1>0, <1>1, <1>3, <3>1 DEF Shaped, PairTyped, Pair!Calm
  <2>14. QED BY <1>1, <2>1, <2>6, <2>7, <2>8, <2>9, <2>10, <2>11, <2>12, <2>13, PairPassKeeps
<1>4. QED BY <1>2, <1>3 DEF Pair!backupBeforePush

LEMMA NoteIndexingKeeps ==
  ASSUME PairInv, Pair!StagingAssumption, Pair!NoteIndexing
  PROVE  PairInv'
<1> DEFINE x == "note"
<1>0. /\ PairTyped /\ OnTheWay /\ Kept /\ Pair!OwnDatabase /\ Pair!OwnAddress
      /\ Addressed /\ MidFiles /\ MidDb /\ MidUrl /\ Indexed
  BY DEF PairInv
<1>1. /\ x \in Stage /\ Pair!At(x) /\ Still /\ files' = files /\ db' = db /\ ssl' = ssl
      /\ answers' = answers /\ saved' = saved /\ staged' = staged /\ had' = had /\ siteStatus' = siteStatus
  BY DEF Stage, Pair!NoteIndexing, Still, Pair!rest
<1>2. PICK heard \in {IF db["live"].indexed THEN "1" ELSE "0", "unread"} :
         /\ IF heard = "unread" THEN Pair!Trouble ELSE Pair!Calm
         /\ push' = [push EXCEPT !.todo = Tail(@), !.indexing = heard]
         /\ spoiled' = (spoiled \/ heard = "unread")
  BY DEF Pair!NoteIndexing
<1>3. Moves(x) /\ push'.indexing = heard
  <2>1. push \in [job : Pair!Job, todo : Seq(Stage), indexing : Reading] /\ Tail(push.todo) \in Seq(Stage)
    BY <1>0, <1>1, PairAtStep DEF PairTyped
  <2>2. heard \in Reading
    BY DEF Reading
  <2>3. \A t \in Seq(Stage) : LET n == [push EXCEPT !.todo = t, !.indexing = heard] IN
        /\ n \in [job : Pair!Job, todo : Seq(Stage), indexing : Reading]
        /\ n.job = push.job /\ n.todo = t /\ n.indexing = heard
    BY <2>1, <2>2
  <2>4. push' = [push EXCEPT !.todo = Tail(push.todo), !.indexing = heard]
    BY <1>2
  <2>5. QED BY <1>1, <2>1, <2>3, <2>4 DEF Moves, Still
<1>4. /\ (Pair!to)' = Pair!to /\ (Pair!from)' = Pair!from /\ Copies' = Copies /\ Noted' = Noted /\ push'.job = push.job
      /\ \A s \in Stage : s # x => (s \in Left' <=> s \in Left) /\ (Past(s)' <=> Past(s))
      /\ x \in Members
  BY <1>0, <1>1, <1>3, OneIsPassed
<1>5. \A s \in {"backup", "copy", "in", "dump", "load", "empty", "database", "install", "config", "urls", "index"} :
        s # x /\ s \in Stage
  BY DEF Stage
<1>6. siteKind' = siteKind /\ redeployed' = redeployed /\ wish' = wish
  BY <1>1 DEF Still
<1>7. Kept'
  BY <1>0, <1>1 DEF Kept, Pair!PreviousStateKept, Pair!Content
<1>8. Addressed'
  BY <1>0, <1>1, <1>6 DEF Addressed
<1>9. MidFiles'
  BY <1>0, <1>1, <1>4, <1>5 DEF MidFiles
<1>10. MidDb'
  BY <1>0, <1>1, <1>4, <1>5, <1>6 DEF MidDb
<1>11. MidUrl'
  BY <1>0, <1>1, <1>4, <1>5, <1>6 DEF MidUrl, Pair!Own
<1>12. Indexed'
  <2> SUFFICES ASSUME siteKind = "wordpress", ~spoiled'
               PROVE  /\ push'.indexing = IF wish THEN "1" ELSE "0"
                      /\ db["live"].data # Pair!Part /\ (db["live"].indexed <=> wish)
    BY <1>1, <1>6 DEF Indexed
  <2>1. ~Replacing
    <3>1. "empty" \in Left
      <4>1. "empty" \in Members
        BY <1>0, <1>4, MembersAre DEF Noted
      <4>2. QED BY <1>0, <1>1, <1>3, <1>5, <4>1, WhereItIs, PlacesAre
    <3>2. QED BY <3>1 DEF Replacing, Past
  <2>2. ~spoiled /\ heard # "unread"
    BY <1>2
  <2>3. db["live"].data # Pair!Part /\ (db["live"].indexed <=> wish)
    BY <1>0, <2>1, <2>2 DEF Indexed
  <2>4. heard = IF db["live"].indexed THEN "1" ELSE "0"
    BY <2>2
  <2>5. QED BY <1>3, <2>3, <2>4
<1>13. OnlyThere
  BY <1>1 DEF OnlyThere
<1>14. Shaped
  <2>1. siteTroubles' \in 0..MaxTroubles
    BY <1>0, <1>2, TroublesAreTyped
  <2>2. spoiled' \in BOOLEAN
    BY <1>0, <1>2 DEF PairTyped
  <2>3. QED BY <1>0, <1>1, <2>1, <2>2 DEF Shaped, PairTyped
<1>15. QED BY <1>1, <1>3, <1>7, <1>8, <1>9, <1>10, <1>11, <1>12, <1>13, <1>14, PairPassKeeps

LEMMA CopyAsideKeeps ==
  ASSUME PairInv, Pair!StagingAssumption, Pair!CopyAside
  PROVE  PairInv'
<1> DEFINE x == "copy"
<1>0. /\ PairTyped /\ OnTheWay /\ Kept /\ Pair!OwnDatabase /\ Pair!OwnAddress
      /\ Addressed /\ MidFiles /\ MidDb /\ MidUrl /\ Indexed
  BY DEF PairInv
<1>1. /\ x \in Stage /\ Pair!At(x) /\ Still /\ files' = files /\ db' = db /\ ssl' = ssl
      /\ answers' = answers /\ saved' = saved /\ had' = had
  BY DEF Stage, Pair!CopyAside, Still, Pair!rest
<1>2. CASE Pair!Stop /\ staged' = Pair!NoFiles /\ (Pair!Calm \/ Pair!Trouble)
  BY <1>1, <1>2, FailingKeeps
<1>3. CASE files[Pair!from] # Pair!NoFiles /\ Pair!keepUploads /\ Pair!Pass /\ UNCHANGED spoiled
  <2>1. Moves(x) /\ push'.indexing = push.indexing
    BY <1>0, <1>1, <1>3, PassMoves DEF Still
  <2>2. /\ (Pair!to)' = Pair!to /\ (Pair!from)' = Pair!from /\ Copies' = Copies /\ Noted' = Noted /\ push'.job = push.job
        /\ \A s \in Stage : s # x => (s \in Left' <=> s \in Left) /\ (Past(s)' <=> Past(s))
        /\ x \in Members /\ Pair!to \in Pair!Site /\ Pair!from \in Pair!Site
    BY <1>0, <1>1, <2>1, OneIsPassed
  <2>3. \A s \in {"backup", "note", "in", "dump", "load", "empty", "database", "install", "config", "urls", "index"} :
          s # x /\ s \in Stage
    BY DEF Stage
  <2>4. siteKind' = siteKind /\ redeployed' = redeployed /\ wish' = wish /\ siteStatus' = siteStatus
    BY <1>1, <2>1 DEF Still, Moves
  <2>5. staged' \in File /\ Whole(staged') /\ staged' # Pair!NoFiles /\ siteTroubles' \in 0..MaxTroubles
    <3>1. /\ files[Pair!from] \in File /\ files[Pair!to] \in File
          /\ files[Pair!from].code # Pair!Nil /\ files[Pair!from].media # Pair!Nil
      BY <1>0, <1>3, <2>2 DEF PairTyped, Kept, Whole
    <3>2. CASE staged' = files[Pair!from] /\ (Pair!Trouble \/ Pair!Calm)
      BY <1>0, <1>3, <3>1, <3>2, TroublesAreTyped DEF Whole
    <3>3. CASE /\ files[Pair!to] # Pair!NoFiles /\ Pair!Calm
               /\ staged' = [files[Pair!from] EXCEPT !.media = files[Pair!to].media]
      <4>1. files[Pair!to].media # Pair!Nil /\ files[Pair!to].media \in Pair!Data
        BY <1>0, <2>2, <3>1, <3>3 DEF Kept, Whole, File
      <4>2. staged' \in File /\ staged'.code = files[Pair!from].code /\ staged'.media = files[Pair!to].media
        BY <3>1, <3>3, <4>1 DEF File
      <4>3. staged' # Pair!NoFiles
        BY <3>1, <4>2 DEF Pair!NoFiles
      <4>4. QED BY <1>0, <3>1, <3>3, <4>1, <4>2, <4>3, TroublesAreTyped DEF Whole
    <3>4. QED BY <1>3, <3>2, <3>3 DEF Pair!keepUploads
  <2>6. Kept'
    BY <1>0, <1>1, <2>5 DEF Kept, Pair!PreviousStateKept, Pair!Content
  <2>7. Addressed'
    BY <1>0, <1>1, <2>4 DEF Addressed
  <2>8. MidFiles'
    BY <1>0, <1>1, <2>2, <2>3, <2>5 DEF MidFiles
  <2>9. MidDb'
    BY <1>0, <1>1, <2>2, <2>3, <2>4 DEF MidDb
  <2>10. MidUrl'
    BY <1>0, <1>1, <2>2, <2>3, <2>4 DEF MidUrl, Pair!Own
  <2>11. Indexed'
    BY <1>0, <1>1, <1>3, <2>1, <2>2, <2>3, <2>4 DEF Indexed, Replacing
  <2>12. OnlyThere /\ Shaped
    BY <1>0, <1>1, <1>3, <2>5 DEF OnlyThere, Shaped, PairTyped
  <2>13. QED BY <1>1, <2>1, <2>6, <2>7, <2>8, <2>9, <2>10, <2>11, <2>12, PairPassKeeps
<1>4. QED BY <1>2, <1>3 DEF Pair!CopyAside

\* Nothing of a live site is taken away before a backup has it.
LEMMA SavedFirst ==
  ASSUME PairInv, NEW x \in {"away", "in", "empty", "load"}, Pair!At(x)
  PROVE  Pair!to = "live" => had \subseteq saved
<1>1. PairTyped /\ OnTheWay /\ MidFiles /\ x \in Stage
  BY DEF PairInv, Stage
<1>2. /\ x \in Members /\ Pair!Busy
      /\ \A s \in Stage : Place[s] < Place[x] => s \notin Left
  BY <1>1, PairAtStep
<1>3. Past("backup")
  BY <1>2, PlacesAre DEF Stage, Past
<1>4. Pair!to = "live" => push.job.kind = "push"
  BY <1>1, <1>2, MembersAre
<1>5. QED BY <1>1, <1>3, <1>4 DEF MidFiles

LEMMA MoveAwayKeeps ==
  ASSUME PairInv, Pair!StagingAssumption, Pair!MoveAway
  PROVE  PairInv'
<1> DEFINE x == "away"
<1>0. /\ PairTyped /\ OnTheWay /\ Kept /\ Pair!OwnDatabase /\ Pair!OwnAddress
      /\ Addressed /\ MidFiles /\ MidDb /\ MidUrl /\ Indexed
  BY DEF PairInv
<1>1. /\ x \in Stage /\ Pair!At(x) /\ Still /\ db' = db /\ ssl' = ssl
      /\ answers' = answers /\ saved' = saved /\ had' = had
  BY DEF Stage, Pair!MoveAway, Still, Pair!rest
<1>2. CASE Pair!Stop /\ staged' = Pair!NoFiles /\ files' = files /\ (Pair!Calm \/ Pair!Trouble)
  BY <1>1, <1>2, FailingKeeps
<1>3. CASE files' = [files EXCEPT ![Pair!to] = Pair!NoFiles] /\ Pair!Pass /\ Pair!Calm /\ staged' = staged /\ spoiled' = spoiled
  <2>1. Moves(x) /\ push'.indexing = push.indexing
    BY <1>0, <1>1, <1>3, PassMoves DEF Still
  <2>2. /\ (Pair!to)' = Pair!to /\ (Pair!from)' = Pair!from /\ Copies' = Copies /\ Noted' = Noted /\ push'.job = push.job
        /\ \A s \in Stage : s # x => (s \in Left' <=> s \in Left) /\ (Past(s)' <=> Past(s))
        /\ x \in Members /\ Pair!to \in Pair!Site /\ Pair!from \in Pair!Site /\ Copies
    BY <1>0, <1>1, <2>1, OneIsPassed, MembersAre DEF Copies
  <2>3. \A s \in {"backup", "note", "copy", "in", "dump", "load", "empty", "database", "install", "config",
                  "urls", "index"} : s # x /\ s \in Stage
    BY DEF Stage
  <2>4. siteKind' = siteKind /\ redeployed' = redeployed /\ wish' = wish /\ siteStatus' = siteStatus
    BY <1>1, <2>1 DEF Still, Moves
  <2>5. OnlyThere /\ Shaped /\ files'[Pair!to] = Pair!NoFiles
    BY <1>0, <1>1, <1>3, <2>2, NoFilesAre DEF OnlyThere, Shaped, PairTyped, Pair!Calm
  <2>6. Kept'
    <3>1. Pair!to = "live" => had \subseteq saved
      BY <1>1, SavedFirst
    <3>2. Whole(files'[Pair!to]) /\ Whole(staged') /\ db'["live"].data # Pair!Nil
      BY <1>0, <1>1, <1>3, <2>5, NoFilesAre DEF Kept
    <3>3. QED BY <1>0, <1>1, <2>5, <3>1, <3>2, KeptKeeps
  <2>7. Addressed'
    BY <1>0, <1>1, <2>4 DEF Addressed
  <2>8. ~Past("in")' /\ ~Past("config")' /\ ~Past("urls")'
    <3>1. "in" \in Members /\ "config" \in Members /\ "urls" \in Members
      BY <1>0, <2>2, MembersAre
    <3>2. QED BY <1>0, <1>1, <2>1, <2>3, <3>1, WhereItIs, PlacesAre
  <2>9. MidFiles'
    BY <1>0, <1>1, <1>3, <2>2, <2>3, <2>8 DEF MidFiles
  <2>10. MidDb'
    BY <1>0, <1>1, <2>2, <2>3, <2>4 DEF MidDb
  <2>11. MidUrl'
    BY <1>0, <1>1, <2>2, <2>3, <2>4, <2>8 DEF MidUrl, Pair!Own
  <2>12. Indexed'
    BY <1>0, <1>1, <1>3, <2>1, <2>2, <2>3, <2>4 DEF Indexed, Replacing
  <2>13. QED BY <1>1, <2>1, <2>5, <2>6, <2>7, <2>9, <2>10, <2>11, <2>12, PairPassKeeps
<1>4. QED BY <1>2, <1>3 DEF Pair!MoveAway

LEMMA MoveInKeeps ==
  ASSUME PairInv, Pair!StagingAssumption, Pair!MoveIn
  PROVE  PairInv'
<1> DEFINE x == "in"
<1>0. /\ PairTyped /\ OnTheWay /\ Kept /\ Pair!OwnDatabase /\ Pair!OwnAddress
      /\ Addressed /\ MidFiles /\ MidDb /\ MidUrl /\ Indexed
  BY DEF PairInv
<1>1. /\ x \in Stage /\ Pair!At(x) /\ Still /\ db' = db /\ ssl' = ssl /\ Pair!Pass /\ siteTroubles' = siteTroubles
      /\ answers' = answers /\ saved' = saved /\ had' = had /\ spoiled' = spoiled
      /\ files' = [files EXCEPT ![Pair!to] = staged] /\ staged' = Pair!NoFiles
  BY DEF Stage, Pair!MoveIn, Still, Pair!rest, Pair!Calm
<1>2. Moves(x) /\ push'.indexing = push.indexing
  BY <1>0, <1>1, PassMoves DEF Still
<1>3. /\ (Pair!to)' = Pair!to /\ (Pair!from)' = Pair!from /\ Copies' = Copies /\ Noted' = Noted /\ push'.job = push.job
      /\ \A s \in Stage : s # x => (s \in Left' <=> s \in Left) /\ (Past(s)' <=> Past(s))
      /\ x \in Members /\ x \notin Left' /\ Pair!to \in Pair!Site /\ Pair!from \in Pair!Site /\ Copies
  BY <1>0, <1>1, <1>2, OneIsPassed, MembersAre DEF Copies
<1>4. \A s \in {"backup", "note", "copy", "dump", "load", "empty", "database", "install", "config", "urls", "index"} :
        s # x /\ s \in Stage
  BY DEF Stage
<1>5. siteKind' = siteKind /\ redeployed' = redeployed /\ wish' = wish /\ siteStatus' = siteStatus
  BY <1>1, <1>2 DEF Still, Moves
<1>6. OnlyThere /\ Shaped /\ files'[Pair!to] = staged
  BY <1>0, <1>1, <1>3, NoFilesAre DEF OnlyThere, Shaped, PairTyped
<1>7. ~Past("config")' /\ ~Past("urls")' /\ "in" \in Left /\ Past("copy")
  <2>1. "config" \in Members /\ "urls" \in Members
    BY <1>0, <1>3, MembersAre
  <2>2. QED BY <1>0, <1>1, <1>2, <1>3, <1>4, <2>1, WhereItIs, PlacesAre
<1>8. Kept'
  <2>1. Pair!to = "live" => had \subseteq saved
    BY <1>1, SavedFirst
  <2>2. Whole(files'[Pair!to]) /\ Whole(staged') /\ db'["live"].data # Pair!Nil
    BY <1>0, <1>1, <1>6, NoFilesAre DEF Kept
  <2>3. QED BY <1>0, <1>1, <1>6, <2>1, <2>2, KeptKeeps
<1>9. Addressed'
  BY <1>0, <1>1, <1>5 DEF Addressed
<1>10. MidFiles'
  <2>1. files'[Pair!to] # Pair!NoFiles
    BY <1>0, <1>6, <1>7 DEF MidFiles
  <2>2. QED BY <1>0, <1>1, <1>3, <1>4, <1>7, <2>1 DEF MidFiles
<1>11. MidDb'
  BY <1>0, <1>1, <1>3, <1>4, <1>5 DEF MidDb
<1>12. MidUrl'
  BY <1>0, <1>1, <1>3, <1>4, <1>5, <1>7 DEF MidUrl, Pair!Own
<1>13. Indexed'
  BY <1>0, <1>1, <1>2, <1>3, <1>4, <1>5 DEF Indexed, Replacing
<1>14. QED BY <1>1, <1>2, <1>6, <1>8, <1>9, <1>10, <1>11, <1>12, <1>13, PairPassKeeps

LEMMA DumpKeeps ==
  ASSUME PairInv, Pair!StagingAssumption, Pair!Dump
  PROVE  PairInv'
<1>1. /\ "dump" \in Stage /\ Pair!At("dump") /\ Still /\ files' = files /\ db' = db /\ ssl' = ssl
      /\ answers' = answers /\ saved' = saved /\ staged' = staged /\ had' = had
  BY DEF Stage, Pair!Dump, Still, Pair!rest
<1>2. CASE db[Pair!from].data # Pair!Nil
  <2>1. Pair!Pass /\ siteTroubles' = siteTroubles /\ spoiled' = spoiled
    BY <1>2 DEF Pair!Dump, Pair!Calm
  <2>2. answers' \in BOOLEAN
    BY <1>1 DEF PairInv, PairTyped
  <2>3. QED BY <1>1, <1>2, <2>1, <2>2, QuietKeeps
<1>3. CASE db[Pair!from].data = Pair!Nil
  <2>1. Pair!Stop /\ Pair!Calm
    BY <1>3 DEF Pair!Dump
  <2>2. QED BY <1>1, <2>1, FailingKeeps
<1>4. QED BY <1>2, <1>3

LEMMA EmptyDatabaseKeeps ==
  ASSUME PairInv, Pair!StagingAssumption, Pair!EmptyDatabase
  PROVE  PairInv'
<1> DEFINE x == "empty"
<1>0. /\ PairTyped /\ OnTheWay /\ Kept /\ Pair!OwnDatabase /\ Pair!OwnAddress
      /\ Addressed /\ MidFiles /\ MidDb /\ MidUrl /\ Indexed
  BY DEF PairInv
<1>1. /\ x \in Stage /\ Pair!At(x) /\ Still /\ files' = files /\ ssl' = ssl /\ Pair!Pass /\ siteTroubles' = siteTroubles
      /\ answers' = answers /\ saved' = saved /\ had' = had /\ spoiled' = spoiled /\ staged' = staged
      /\ db' = [db EXCEPT ![Pair!to].data = Pair!Part]
  BY DEF Stage, Pair!EmptyDatabase, Still, Pair!rest, Pair!Calm
<1>2. Moves(x) /\ push'.indexing = push.indexing
  BY <1>0, <1>1, PassMoves DEF Still
<1>3. /\ (Pair!to)' = Pair!to /\ (Pair!from)' = Pair!from /\ Copies' = Copies /\ Noted' = Noted /\ push'.job = push.job
      /\ \A s \in Stage : s # x => (s \in Left' <=> s \in Left) /\ (Past(s)' <=> Past(s))
      /\ x \in Members /\ Past(x)' /\ Pair!to \in Pair!Site /\ Pair!from \in Pair!Site /\ Pair!to # Pair!from /\ Copies
  BY <1>0, <1>1, <1>2, OneIsPassed, MembersAre DEF Copies
<1>4. \A s \in {"backup", "note", "copy", "in", "dump", "load", "database", "install", "config", "urls", "index"} :
        s # x /\ s \in Stage
  BY DEF Stage
<1>5. siteKind' = siteKind /\ redeployed' = redeployed /\ wish' = wish /\ siteStatus' = siteStatus
  BY <1>1, <1>2 DEF Still, Moves
<1>6. /\ db' \in [Pair!Site -> Base] /\ db'[Pair!from] = db[Pair!from] /\ db'[Pair!to].data = Pair!Part
      /\ db'[Pair!to].url = db[Pair!to].url
  <2>1. db' = [db EXCEPT ![Pair!to] = [db[Pair!to] EXCEPT !.data = Pair!Part]] /\ db \in [Pair!Site -> Base]
    BY <1>0, <1>1 DEF PairTyped
  <2>2. [db[Pair!to] EXCEPT !.data = Pair!Part] \in Base
    BY <1>3, <2>1 DEF Base, Pair!Data
  <2>3. QED BY <1>3, <2>1, <2>2 DEF Base
<1>7. OnlyThere /\ Shaped
  BY <1>0, <1>1, <1>3, <1>6 DEF OnlyThere, Shaped, PairTyped, Pair!Site
<1>8. ~Past("urls")' /\ ~Past("load")' /\ Past("database")'
  <2>1. "load" \in Members /\ "urls" \in Members
    BY <1>0, <1>3, MembersAre
  <2>2. QED BY <1>0, <1>1, <1>2, <1>3, <1>4, <2>1, WhereItIs, PlacesAre
<1>9. Kept'
  <2>1. Pair!to = "live" => had \subseteq saved
    BY <1>1, SavedFirst
  <2>2. Whole(files'[Pair!to]) /\ Whole(staged') /\ (Pair!to = "live" => db'["live"].data # Pair!Nil)
    BY <1>0, <1>1, <1>3, <1>6 DEF Kept, Pair!Part, Pair!Nil
  <2>3. QED BY <1>0, <1>1, <1>7, <2>1, <2>2, KeptKeeps
<1>10. Addressed'
  <2>1. \A y \in Pair!Site : db'[y].url = db[y].url /\ (db'[y].data = db[y].data \/ y = Pair!to)
    BY <1>3, <1>6 DEF Pair!Site
  <2>2. siteStatus[Pair!to] = "deploying"
    BY <1>0, <1>1, PairAtStep DEF OnTheWay
  <2>3. QED BY <1>0, <1>1, <1>5, <1>6, <2>1, <2>2 DEF Addressed
<1>11. MidFiles'
  BY <1>0, <1>1, <1>3, <1>4 DEF MidFiles
<1>12. MidDb'
  <2>1. push.job.kind # "deploy"
    BY <1>3 DEF Copies
  <2>2. Pair!Part # Pair!Nil
    BY DEF Pair!Part, Pair!Nil
  <2>3. QED BY <1>0, <1>3, <1>4, <1>5, <1>6, <1>8, <2>1, <2>2 DEF MidDb
<1>13. MidUrl'
  <2>1. \A y \in Pair!Site : db'[y].url = db[y].url
    BY <1>3, <1>6 DEF Pair!Site
  <2>2. QED BY <1>0, <1>1, <1>3, <1>4, <1>5, <1>8, <2>1 DEF MidUrl, Pair!Own, Pair!Site
<1>14. Indexed'
  <2>1. CASE Noted
    <3>1. Noted' /\ "index" \in Left'
      BY <1>0, <1>1, <1>2, <1>3, <1>4, <2>1, MembersAre, WhereItIs, PlacesAre
    <3>2. Replacing' /\ (Past("note")' <=> Past("note")) /\ "index" \in Left
      BY <1>3, <1>4, <3>1 DEF Replacing
    <3>3. QED BY <1>0, <1>1, <1>2, <1>5, <2>1, <3>1, <3>2 DEF Indexed
  <2>2. CASE ~Noted /\ siteKind = "wordpress"
    <3>1. Pair!to = "copy"
      BY <1>0, <1>3, <2>2, MembersAre DEF Noted, Copies
    <3>2. db'["live"] = db["live"] /\ ~Replacing /\ ~Noted'
      BY <1>3, <1>6, <2>2, <3>1 DEF Replacing, Pair!Site
    <3>3. QED BY <1>0, <1>1, <1>5, <3>2 DEF Indexed
  <2>3. QED BY <1>5, <2>1, <2>2 DEF Indexed
<1>15. QED BY <1>1, <1>2, <1>7, <1>9, <1>10, <1>11, <1>12, <1>13, <1>14, PairPassKeeps

LEMMA LoadKeeps ==
  ASSUME PairInv, Pair!StagingAssumption, Pair!Load
  PROVE  PairInv'
<1> DEFINE x == "load"
<1>0. /\ PairTyped /\ OnTheWay /\ Kept /\ Pair!OwnDatabase /\ Pair!OwnAddress
      /\ Addressed /\ MidFiles /\ MidDb /\ MidUrl /\ Indexed
  BY DEF PairInv
<1>1. /\ x \in Stage /\ Pair!At(x) /\ Still /\ files' = files /\ ssl' = ssl /\ Pair!Pass /\ siteTroubles' = siteTroubles
      /\ answers' = answers /\ saved' = saved /\ had' = had /\ spoiled' = spoiled /\ staged' = staged
      /\ db' = [db EXCEPT ![Pair!to] = db[Pair!from]]
  BY DEF Stage, Pair!Load, Still, Pair!rest, Pair!Calm
<1>2. Moves(x) /\ push'.indexing = push.indexing
  BY <1>0, <1>1, PassMoves DEF Still
<1>3. /\ (Pair!to)' = Pair!to /\ (Pair!from)' = Pair!from /\ Copies' = Copies /\ Noted' = Noted /\ push'.job = push.job
      /\ \A s \in Stage : s # x => (s \in Left' <=> s \in Left) /\ (Past(s)' <=> Past(s))
      /\ x \in Members /\ Pair!to \in Pair!Site /\ Pair!from \in Pair!Site /\ Pair!to # Pair!from /\ Copies
  BY <1>0, <1>1, <1>2, OneIsPassed, MembersAre DEF Copies
<1>4. \A s \in {"backup", "note", "copy", "in", "dump", "empty", "database", "install", "config", "urls", "index"} :
        s # x /\ s \in Stage
  BY DEF Stage
<1>5. siteKind' = siteKind /\ redeployed' = redeployed /\ wish' = wish /\ siteStatus' = siteStatus
  BY <1>1, <1>2 DEF Still, Moves
<1>6. db' \in [Pair!Site -> Base] /\ db'[Pair!from] = db[Pair!from] /\ db'[Pair!to] = db[Pair!from]
  BY <1>0, <1>1, <1>3 DEF PairTyped
<1>7. OnlyThere /\ Shaped
  BY <1>0, <1>1, <1>3, <1>6 DEF OnlyThere, Shaped, PairTyped, Pair!Site
<1>8. ~Past("urls")' /\ x \in Left /\ x \notin Left' /\ Past("dump") /\ Past("empty")'
  <2>1. "urls" \in Members
    BY <1>0, <1>3, MembersAre
  <2>2. QED BY <1>0, <1>1, <1>2, <1>3, <1>4, <2>1, WhereItIs, PlacesAre
<1>9. /\ push.job.kind = "push" \/ push.job.kind = "create"
      /\ push.job.kind = "push" => Pair!to = "live" /\ Pair!from = "copy"
      /\ push.job.kind = "create" => Pair!to = "copy" /\ Pair!from = "live"
  BY <1>0, <1>3, MembersAre DEF Copies
<1>10. db[Pair!from].data # Pair!Nil
  BY <1>0, <1>8, <1>9 DEF MidDb, Kept
<1>11. Kept'
  <2>1. Pair!to = "live" => had \subseteq saved
    BY <1>1, SavedFirst
  <2>2. Whole(files'[Pair!to]) /\ Whole(staged') /\ (Pair!to = "live" => db'["live"].data # Pair!Nil)
    BY <1>0, <1>1, <1>3, <1>6, <1>10 DEF Kept
  <2>3. QED BY <1>0, <1>1, <1>7, <2>1, <2>2, KeptKeeps
<1>12. Addressed'
  <2>1. \A y \in Pair!Site : db'[y] = IF y = Pair!to THEN db[Pair!from] ELSE db[y]
    BY <1>0, <1>1, <1>3 DEF PairTyped
  <2>2. siteStatus[Pair!to] = "deploying"
    BY <1>0, <1>1, PairAtStep DEF OnTheWay
  <2>3. QED BY <1>0, <1>1, <1>3, <1>5, <2>1, <2>2 DEF Addressed
<1>13. MidFiles'
  BY <1>0, <1>1, <1>3, <1>4 DEF MidFiles
<1>14. MidDb'
  BY <1>0, <1>3, <1>4, <1>5, <1>6, <1>8, <1>9, <1>10 DEF MidDb
<1>15. MidUrl'
  BY <1>0, <1>1, <1>3, <1>4, <1>5, <1>6, <1>8, <1>9 DEF MidUrl
<1>16. Indexed'
  <2>1. CASE Noted
    <3>1. Noted' /\ "index" \in Left'
      BY <1>0, <1>1, <1>2, <1>3, <1>4, <2>1, MembersAre, WhereItIs, PlacesAre
    <3>2. Replacing' /\ (Past("note")' <=> Past("note")) /\ "index" \in Left
      BY <1>3, <1>4, <1>8, <3>1 DEF Replacing
    <3>3. QED BY <1>0, <1>1, <1>2, <1>5, <2>1, <3>1, <3>2 DEF Indexed
  <2>2. CASE ~Noted /\ siteKind = "wordpress"
    <3>1. Pair!to = "copy" /\ Pair!from = "live"
      BY <1>0, <1>3, <2>2, MembersAre DEF Noted, Copies
    <3>2. db'["live"] = db["live"] /\ ~Replacing /\ ~Noted'
      BY <1>3, <1>6, <2>2, <3>1 DEF Replacing
    <3>3. QED BY <1>0, <1>1, <1>5, <3>2 DEF Indexed
  <2>3. QED BY <1>5, <2>1, <2>2 DEF Indexed
<1>17. QED BY <1>1, <1>2, <1>7, <1>11, <1>12, <1>13, <1>14, <1>15, <1>16, PairPassKeeps

LEMMA repointConfigKeeps ==
  ASSUME PairInv, Pair!StagingAssumption, Pair!repointConfig
  PROVE  PairInv'
<1> DEFINE x == "config"
<1>0. /\ PairTyped /\ OnTheWay /\ Kept /\ Pair!OwnDatabase /\ Pair!OwnAddress
      /\ Addressed /\ MidFiles /\ MidDb /\ MidUrl /\ Indexed
  BY DEF PairInv
<1>1. /\ x \in Stage /\ Pair!At(x) /\ Still /\ db' = db /\ ssl' = ssl
      /\ answers' = answers /\ saved' = saved /\ had' = had /\ staged' = staged
  BY DEF Stage, Pair!repointConfig, Still, Pair!rest
<1>2. Pair!Busy /\ Pair!to \in Pair!Site /\ Pair!from \in Pair!Site /\ Pair!to # Pair!from
  BY <1>0, <1>1, PairAtStep, TodoIsTyped
<1>3. CASE /\ Pair!Stop
           /\ \/ files[Pair!to] = Pair!NoFiles /\ Pair!Calm /\ UNCHANGED files
              \/ Pair!Trouble /\ files' \in {files, [files EXCEPT ![Pair!to].names =
                                                IF siteKind = "wordpress" THEN "torn" ELSE @]}
  <2>1. CASE files' = files
    BY <1>1, <1>3, <2>1, FailingKeeps
  <2>2. CASE files' # files
    <3>1. files' = [files EXCEPT ![Pair!to].names = "torn"] /\ Pair!Trouble
      <4>1. PICK n \in {"torn", files[Pair!to].names} : files' = [files EXCEPT ![Pair!to] = [files[Pair!to] EXCEPT !.names = n]]
        BY <1>3, <2>2
      <4>2. n # files[Pair!to].names
        BY <1>0, <1>2, <2>2, <4>1 DEF PairTyped, File
      <4>3. QED BY <1>3, <2>2, <4>1, <4>2
    <3>2. files' = [files EXCEPT ![Pair!to] = [files[Pair!to] EXCEPT !.names = "torn"]]
      BY <3>1
    <3>3. files' \in [Pair!Site -> File]
      BY <1>0, <1>2, <3>2 DEF PairTyped, File, Pair!Names
    <3>4. files[Pair!to] # Pair!NoFiles
      <4>1. x \in Members /\ Past("in") /\ Past("backup")
        <5>1. \A s \in Stage : Place[s] < Place[x] => s \notin Left
          BY <1>0, <1>1, PairAtStep
        <5>2. "in" \notin Left /\ "backup" \notin Left
          BY <5>1, PlacesAre DEF Stage
        <5>3. QED BY <1>0, <1>1, <1>2, <5>2, PairAtStep DEF Past
      <4>2. QED BY <1>0, <4>1, MembersAre DEF MidFiles
    <3>5. siteTroubles' \in 0..MaxTroubles /\ staged' \in File /\ Whole(staged')
      BY <1>0, <1>1, <3>1, TroublesAreTyped DEF PairTyped, Kept
    <3>6. \A y \in Pair!Site : files'[y] = files[y] \/ (y = Pair!to /\ files'[y] = [files[y] EXCEPT !.names = "torn"])
      BY <1>0, <1>2, <3>2 DEF PairTyped
    <3>7. "torn" \in Pair!Names
      BY DEF Pair!Names
    <3>8. \A y \in Pair!Site : files'[y] = files[y]
            \/ (y = Pair!to /\ files[y] # Pair!NoFiles /\ \E n \in Pair!Names : files'[y] = [files[y] EXCEPT !.names = n])
      BY <3>4, <3>6, <3>7
    <3>9. QED BY <1>1, <1>2, <1>3, <3>3, <3>5, <3>8, PairStopKeeps DEF Still
  <2>3. QED BY <2>1, <2>2
<1>4. CASE files[Pair!to] # Pair!NoFiles /\ Pair!Calm /\ files' = [files EXCEPT ![Pair!to].names = Pair!to] /\ Pair!Pass /\ UNCHANGED spoiled
  <2>1. Moves(x) /\ push'.indexing = push.indexing
    BY <1>0, <1>1, <1>4, PassMoves DEF Still
  <2>2. /\ (Pair!to)' = Pair!to /\ (Pair!from)' = Pair!from /\ Copies' = Copies /\ Noted' = Noted /\ push'.job = push.job
        /\ \A s \in Stage : s # x => (s \in Left' <=> s \in Left) /\ (Past(s)' <=> Past(s))
        /\ x \in Members /\ Copies
    BY <1>0, <1>1, <2>1, OneIsPassed, MembersAre
  <2>3. \A s \in {"backup", "note", "copy", "in", "dump", "load", "empty", "database", "install",
                  "urls", "index"} : s # x /\ s \in Stage
    BY DEF Stage
  <2>4. siteKind' = siteKind /\ redeployed' = redeployed /\ wish' = wish /\ siteStatus' = siteStatus
    BY <1>1, <2>1 DEF Still, Moves
  <2>5. /\ files' \in [Pair!Site -> File] /\ files'[Pair!from] = files[Pair!from]
        /\ files'[Pair!to].names = Pair!to /\ files'[Pair!to].code = files[Pair!to].code
        /\ files'[Pair!to].media = files[Pair!to].media /\ files'[Pair!to].url = files[Pair!to].url
    <3>1. files' = [files EXCEPT ![Pair!to] = [files[Pair!to] EXCEPT !.names = Pair!to]] /\ files \in [Pair!Site -> File]
      BY <1>0, <1>4 DEF PairTyped
    <3>2. [files[Pair!to] EXCEPT !.names = Pair!to] \in File
      BY <1>2, <3>1 DEF File, Pair!Names
    <3>3. QED BY <1>2, <3>1, <3>2 DEF File
  <2>6. OnlyThere /\ Shaped
    BY <1>0, <1>1, <1>2, <1>4, <2>5 DEF OnlyThere, Shaped, PairTyped, Pair!Site, Pair!Calm
  <2>7. files'[Pair!to] # Pair!NoFiles
    BY <1>2, <2>5 DEF Pair!NoFiles, Pair!Site
  <2>8. Kept'
    <3>1. Pair!Content' = Pair!Content
      BY <1>1, <1>2, <2>5 DEF Pair!Content, Pair!Site
    <3>2. Whole(files'[Pair!to])
      BY <1>0, <1>2, <1>4, <2>5 DEF Kept, Whole
    <3>3. Whole(staged') /\ db'["live"].data # Pair!Nil
      BY <1>0, <1>1 DEF Kept
    <3>4. QED BY <1>0, <1>1, <2>6, <3>1, <3>2, <3>3, KeptKeeps
  <2>9. Addressed'
    BY <1>0, <1>1, <2>4 DEF Addressed
  <2>10. MidFiles'
    BY <1>0, <1>1, <2>2, <2>3, <2>5, <2>7 DEF MidFiles
  <2>11. MidDb'
    BY <1>0, <1>1, <2>2, <2>3, <2>4 DEF MidDb
  <2>12. MidUrl'
    BY <1>0, <1>1, <2>2, <2>3, <2>4, <2>5 DEF MidUrl, Pair!Own
  <2>13. Indexed'
    BY <1>0, <1>1, <1>4, <2>1, <2>2, <2>3, <2>4 DEF Indexed, Replacing
  <2>14. QED BY <1>1, <2>1, <2>6, <2>8, <2>9, <2>10, <2>11, <2>12, <2>13, PairPassKeeps
<1>5. QED BY <1>3, <1>4 DEF Pair!repointConfig

LEMMA UrlsAre ==
  /\ \A x \in Pair!Site : Pair!Own(x)[1] = x /\ Pair!Own(x)[2] = ssl[x] /\ Pair!Own(x) # Pair!Nowhere
  /\ \A u \in Pair!Url : u # Pair!Nowhere => u[1] \in Pair!Site /\ u[2] \in BOOLEAN /\ u = <<u[1], u[2]>>
  /\ Pair!Nowhere \in Pair!Url /\ Pair!Nowhere[1] \notin Pair!Site
<1>1. \A x \in Pair!Site : Pair!Own(x)[1] = x /\ Pair!Own(x)[2] = ssl[x]
  BY DEF Pair!Own
<1>2. Pair!Nowhere[1] = "nowhere" /\ "nowhere" \notin Pair!Site /\ Pair!Nowhere \in Pair!Url
  BY DEF Pair!Nowhere, Pair!Site, Pair!Url
<1>3. \A u \in Pair!Url : u # Pair!Nowhere => u[1] \in Pair!Site /\ u[2] \in BOOLEAN /\ u = <<u[1], u[2]>>
  BY DEF Pair!Url
<1>4. QED BY <1>1, <1>2, <1>3

LEMMA OwnIsTyped == ASSUME PairTyped, NEW x \in Pair!Site PROVE Pair!Own(x) \in Pair!Url
  BY DEF PairTyped, Pair!Own, Pair!Url

\* Own is a pair of the site and its bit: nothing else says both.
LEMMA OwnIs ==
  ASSUME NEW x \in Pair!Site, NEW u \in Pair!Url, u[1] = x, u[2] <=> ssl[x], ssl[x] \in BOOLEAN
  PROVE  u = Pair!Own(x)
<1>1. u # Pair!Nowhere
  BY UrlsAre
<1>2. u = <<u[1], u[2]>> /\ u[2] \in BOOLEAN
  BY <1>1, UrlsAre
<1>3. u[2] = ssl[x]
  BY <1>2
<1>4. QED BY <1>2, <1>3 DEF Pair!Own

LEMMA repointURLsKeeps ==
  ASSUME PairInv, Pair!StagingAssumption, Pair!repointURLs
  PROVE  PairInv'
<1> DEFINE x == "urls"
<1>0. /\ PairTyped /\ OnTheWay /\ Kept /\ Pair!OwnDatabase /\ Pair!OwnAddress
      /\ Addressed /\ MidFiles /\ MidDb /\ MidUrl /\ Indexed
  BY DEF PairInv
<1>1. /\ x \in Stage /\ Pair!At(x) /\ Still /\ ssl' = ssl
      /\ answers' = answers /\ saved' = saved /\ had' = had /\ staged' = staged
  BY DEF Stage, Pair!repointURLs, Still, Pair!rest
<1>2. /\ Pair!Busy /\ Pair!to \in Pair!Site /\ Pair!from \in Pair!Site /\ Pair!to # Pair!from
      /\ x \in Members /\ Copies
      /\ "database" \notin Left /\ "in" \notin Left /\ "backup" \notin Left /\ "load" \notin Left
  <2>1. x \in Members /\ Pair!Busy /\ \A s \in Stage : Place[s] < Place[x] => s \notin Left
    BY <1>0, <1>1, PairAtStep
  <2>2. "database" \notin Left /\ "in" \notin Left /\ "backup" \notin Left /\ "load" \notin Left
    BY <2>1, PlacesAre DEF Stage
  <2>3. QED BY <1>0, <2>1, <2>2, MembersAre, TodoIsTyped
<1>3. CASE Pair!Stop /\ files' = files /\ db' = db /\ (Pair!Calm \/ Pair!Trouble)
  BY <1>1, <1>3, FailingKeeps
<1>4. ASSUME Pair!Pass, UNCHANGED spoiled PROVE Moves(x) /\ push'.indexing = push.indexing
  BY <1>0, <1>1, <1>4, PassMoves DEF Still
<1>5. ASSUME Moves(x)
      PROVE  /\ (Pair!to)' = Pair!to /\ (Pair!from)' = Pair!from /\ Copies' = Copies /\ Noted' = Noted /\ push'.job = push.job
             /\ \A s \in Stage : s # x => (s \in Left' <=> s \in Left) /\ (Past(s)' <=> Past(s))
             /\ Past(x)' /\ ~Past(x)
             /\ siteKind' = siteKind /\ redeployed' = redeployed /\ wish' = wish /\ siteStatus' = siteStatus
  <2>1. x \in Left
    BY <1>1, <1>0, PairAtStep
  <2>2. QED BY <1>0, <1>1, <1>5, <2>1, OneIsPassed DEF Moves, Still, Past
<1>6. \A s \in {"backup", "note", "copy", "in", "dump", "load", "empty", "database", "install",
                "config", "index"} : s # x /\ s \in Stage
  BY DEF Stage
<1>7. siteStatus[Pair!to] = "deploying"
  BY <1>0, <1>2 DEF OnTheWay
<1>8. CASE Pair!repointLaravelURL /\ Pair!Pass /\ UNCHANGED spoiled
  <2>1. Moves(x) /\ push'.indexing = push.indexing
    BY <1>4, <1>8
  <2>2. /\ siteKind = "laravel" /\ files' = [files EXCEPT ![Pair!to].url = Pair!Own(Pair!to)] /\ db' = db
        /\ siteTroubles' = siteTroubles
    BY <1>8 DEF Pair!repointLaravelURL, Pair!Calm
  <2>3. /\ files' \in [Pair!Site -> File] /\ files'[Pair!from] = files[Pair!from]
        /\ files'[Pair!to].names = files[Pair!to].names /\ files'[Pair!to].code = files[Pair!to].code
        /\ files'[Pair!to].media = files[Pair!to].media /\ files'[Pair!to].url = Pair!Own(Pair!to)
    <3>1. files' = [files EXCEPT ![Pair!to] = [files[Pair!to] EXCEPT !.url = Pair!Own(Pair!to)]] /\ files \in [Pair!Site -> File]
      BY <1>0, <2>2 DEF PairTyped
    <3>2. Pair!Own(Pair!to) \in Pair!Url
      BY <1>0, <1>2, OwnIsTyped
    <3>3. [files[Pair!to] EXCEPT !.url = Pair!Own(Pair!to)] \in File
      BY <1>2, <3>1, <3>2 DEF File
    <3>4. QED BY <1>2, <3>1, <3>2, <3>3 DEF File
  <2>4. files[Pair!to] # Pair!NoFiles
    BY <1>0, <1>2 DEF MidFiles, Past
  <2>5. files'[Pair!to] # Pair!NoFiles
    <3>1. Pair!Own(Pair!to) # Pair!Nowhere
      BY <1>2, UrlsAre
    <3>2. QED BY <2>3, <3>1 DEF Pair!NoFiles
  <2>6. OnlyThere /\ Shaped
    BY <1>0, <1>1, <1>2, <1>8, <2>2, <2>3 DEF OnlyThere, Shaped, PairTyped, Pair!Site
  <2>7. Kept'
    <3>1. Pair!Content' = Pair!Content
      BY <1>2, <2>2, <2>3 DEF Pair!Content, Pair!Site
    <3>2. Whole(files'[Pair!to])
      BY <1>0, <1>2, <2>3, <2>4 DEF Kept, Whole
    <3>3. Whole(staged') /\ db'["live"].data # Pair!Nil
      BY <1>0, <1>1, <2>2 DEF Kept
    <3>4. QED BY <1>0, <1>1, <2>6, <3>1, <3>2, <3>3, KeptKeeps
  <2>8. Addressed'
    BY <1>0, <1>1, <1>5, <2>1, <2>2 DEF Addressed
  <2>9. MidFiles'
    BY <1>0, <1>1, <1>5, <1>6, <2>1, <2>3, <2>5 DEF MidFiles
  <2>10. MidDb'
    BY <1>0, <1>1, <1>5, <1>6, <2>1, <2>2 DEF MidDb
  <2>11. MidUrl'
    BY <1>0, <1>1, <1>5, <1>6, <2>1, <2>2, <2>3 DEF MidUrl, Pair!Own
  <2>12. Indexed'
    BY <1>5, <2>1, <2>2 DEF Indexed
  <2>13. QED BY <1>1, <2>1, <2>6, <2>7, <2>8, <2>9, <2>10, <2>11, <2>12, PairPassKeeps
<1>9. CASE Pair!repointWordPress /\ Pair!Pass /\ UNCHANGED spoiled
  <2>1. Moves(x) /\ push'.indexing = push.indexing
    BY <1>4, <1>9
  <2>2. siteKind = "wordpress" /\ db[Pair!to].data # Pair!Part /\ files' = files
    BY <1>9 DEF Pair!repointWordPress
  <2>3. PICK quiet \in {TRUE, Pair!to # "copy"} :
         /\ IF quiet THEN Pair!Calm ELSE Pair!Trouble
         /\ db' = [db EXCEPT ![Pair!to].url = IF @[1] = Pair!from THEN Pair!Own(Pair!to) ELSE @,
                             ![Pair!to].indexed = @ /\ ~(Pair!to = "copy" /\ quiet)]
    BY <1>9 DEF Pair!repointWordPress
  <2> DEFINE u == IF db[Pair!to].url[1] = Pair!from THEN Pair!Own(Pair!to) ELSE db[Pair!to].url
             n == db[Pair!to].indexed /\ ~(Pair!to = "copy" /\ quiet)
  <2>4. u \in Pair!Url /\ n \in BOOLEAN /\ (Pair!to = "live" => n = db[Pair!to].indexed)
    BY <1>0, <1>2, OwnIsTyped DEF PairTyped, Base
  <2>5. db' = [db EXCEPT ![Pair!to] = [db[Pair!to] EXCEPT !.url = u, !.indexed = n]]
    BY <1>0, <1>2, <2>3 DEF PairTyped
  <2> HIDE DEF n
  <2>6. /\ db' \in [Pair!Site -> Base] /\ db'[Pair!from] = db[Pair!from] /\ db'[Pair!to].data = db[Pair!to].data
        /\ db'[Pair!to].url = u /\ db'[Pair!to].indexed = n
    <3>1. db \in [Pair!Site -> Base]
      BY <1>0 DEF PairTyped
    <3> HIDE DEF u
    <3>2. [db[Pair!to] EXCEPT !.url = u, !.indexed = n] \in Base
      BY <1>2, <2>4, <3>1 DEF Base
    <3>3. QED BY <1>2, <2>4, <2>5, <3>1, <3>2 DEF Base
  <2>7. OnlyThere /\ Shaped
    <3>1. siteTroubles' \in 0..MaxTroubles
      BY <1>0, <2>3, TroublesAreTyped
    <3>2. QED BY <1>0, <1>1, <1>2, <1>9, <2>2, <2>6, <3>1 DEF OnlyThere, Shaped, PairTyped, Pair!Site
  <2>8. db[Pair!to].data # Pair!Nil
    BY <1>0, <1>2 DEF MidDb, Past
  <2>9. db[Pair!to].url # Pair!Nowhere /\ u # Pair!Nowhere /\ u \in Pair!Url
    <3>1. db[Pair!to].url # Pair!Nowhere
      BY <1>0, <1>2, <2>2, <2>8 DEF Addressed
    <3>2. QED BY <1>2, <2>4, <3>1, UrlsAre
  <2>10. Pair!to = "live" => db'[Pair!to].indexed = db[Pair!to].indexed
    BY <2>4, <2>6
  <2>11. Kept'
    <3>1. Pair!Content' = Pair!Content
      BY <1>2, <2>2, <2>6 DEF Pair!Content, Pair!Site
    <3>2. Whole(files'[Pair!to]) /\ Whole(staged') /\ db'["live"].data # Pair!Nil
      BY <1>0, <1>1, <1>2, <2>2, <2>6 DEF Kept, Pair!Site
    <3>3. QED BY <1>0, <1>1, <2>7, <3>1, <3>2, KeptKeeps
  <2>12. Addressed'
    <3>1. ASSUME "live" \notin redeployed PROVE u[1] = "live" => u[2]
      <4>1. CASE db[Pair!to].url[1] = Pair!from
        BY <1>0, <1>2, <3>1, <4>1, UrlsAre DEF Addressed
      <4>2. CASE db[Pair!to].url[1] # Pair!from
        BY <1>0, <1>2, <3>1, <4>2 DEF Addressed
      <4>3. QED BY <4>1, <4>2
    <3> HIDE DEF u
    <3>2. \A y \in Pair!Site : y # Pair!to => db'[y] = db[y]
      BY <2>7 DEF OnlyThere
    <3>3. QED BY <1>0, <1>1, <1>2, <1>5, <1>7, <2>1, <2>6, <2>9, <3>1, <3>2 DEF Addressed
  <2>13. MidFiles'
    BY <1>0, <1>1, <1>5, <1>6, <2>1, <2>2 DEF MidFiles
  <2>14. MidDb'
    BY <1>0, <1>1, <1>2, <1>5, <1>6, <2>1, <2>2, <2>6 DEF MidDb, Copies
  <2>15. MidUrl'
    <3>1. ASSUME Pair!to \notin redeployed PROVE u = Pair!Own(Pair!to)
      <4>1. CASE db[Pair!to].url[1] = Pair!from
        BY <4>1
      <4>2. CASE db[Pair!to].url[1] # Pair!from
        <5>1. db[Pair!to].url \in Pair!Url /\ db[Pair!to].url[1] \in Pair!Site /\ db[Pair!to].url[2] \in BOOLEAN
          BY <1>0, <1>2, <2>9, UrlsAre DEF PairTyped, Base
        <5>2. db[Pair!to].url[1] = Pair!to
          BY <1>2, <4>2, <5>1 DEF Pair!Site
        <5>3. Pair!to = "live"
          <6>1. push.job.kind = "push" \/ push.job.kind = "create"
            BY <1>2 DEF Copies
          <6>2. push.job.kind = "create" => Pair!to = "copy" /\ ~Past("urls") /\ Past("load")
            <7>1. x \in Left
              BY <1>0, <1>1, PairAtStep
            <7>2. QED BY <1>0, <1>2, <7>1, MembersAre DEF Past
          <6>3. push.job.kind = "create" => db["copy"].url[1] # "copy"
            BY <1>0, <2>2, <3>1, <6>2 DEF MidUrl
          <6>4. QED BY <1>0, <5>2, <6>1, <6>2, <6>3, MembersAre
        <5>4. db[Pair!to].url[2] /\ ssl[Pair!to] /\ ssl[Pair!to] \in BOOLEAN
          BY <1>0, <3>1, <5>2, <5>3 DEF Addressed, PairTyped, Pair!Site
        <5>5. db[Pair!to].url = Pair!Own(Pair!to)
          BY <1>2, <5>1, <5>2, <5>4, OwnIs
        <5>6. QED BY <4>2, <5>5
      <4>3. QED BY <4>1, <4>2
    <3> HIDE DEF u
    <3>2. (Pair!Own(Pair!to))' = Pair!Own(Pair!to)
      BY <1>1, <1>5, <2>1 DEF Pair!Own
    <3>3. push.job.kind = "create" => Pair!to = "copy" /\ Pair!from = "live"
      BY <1>0, MembersAre
    <3>4. QED BY <1>0, <1>1, <1>5, <1>6, <2>1, <2>2, <2>6, <3>1, <3>2, <3>3 DEF MidUrl
  <2>16. Indexed'
    <3>1. db'["live"].data = db["live"].data /\ db'["live"].indexed = db["live"].indexed
      BY <1>2, <2>6, <2>10 DEF Pair!Site
    <3>2. Replacing' = Replacing
      BY <1>5, <1>6, <2>1 DEF Replacing
    <3>3. QED BY <1>0, <1>5, <1>6, <1>9, <2>1, <3>1, <3>2 DEF Indexed
  <2>17. QED BY <1>1, <2>1, <2>7, <2>11, <2>12, <2>13, <2>14, <2>15, <2>16, PairPassKeeps
<1>10. QED BY <1>3, <1>8, <1>9 DEF Pair!repointURLs

LEMMA PutIndexingBackKeeps ==
  ASSUME PairInv, Pair!StagingAssumption, Pair!PutIndexingBack
  PROVE  PairInv'
<1> DEFINE x == "index"
<1>0. /\ PairTyped /\ OnTheWay /\ Kept /\ Pair!OwnDatabase /\ Pair!OwnAddress
      /\ Addressed /\ MidFiles /\ MidDb /\ MidUrl /\ Indexed
  BY DEF PairInv
<1>1. /\ x \in Stage /\ Pair!At(x) /\ Still /\ files' = files /\ ssl' = ssl /\ Pair!Pass
      /\ answers' = answers /\ saved' = saved /\ had' = had /\ staged' = staged
  BY DEF Stage, Pair!PutIndexingBack, Still, Pair!rest
<1>2. Moves(x) /\ push'.indexing = push.indexing
  BY <1>0, <1>1, PassMoves DEF Still
<1>3. /\ (Pair!to)' = Pair!to /\ (Pair!from)' = Pair!from /\ Copies' = Copies /\ Noted' = Noted /\ push'.job = push.job
      /\ \A s \in Stage : s # x => (s \in Left' <=> s \in Left) /\ (Past(s)' <=> Past(s))
      /\ x \in Members /\ x \notin Left' /\ Pair!to \in Pair!Site /\ Pair!from \in Pair!Site /\ Pair!to # Pair!from
  BY <1>0, <1>1, <1>2, OneIsPassed
<1>4. \A s \in {"backup", "note", "copy", "in", "dump", "load", "empty", "database", "install", "config", "urls"} :
        s # x /\ s \in Stage
  BY DEF Stage
<1>5. siteKind' = siteKind /\ redeployed' = redeployed /\ wish' = wish /\ siteStatus' = siteStatus
  BY <1>1, <1>2 DEF Still, Moves
<1>6. Noted /\ push.job.kind = "push" /\ Pair!to = "live"
  BY <1>0, <1>3, MembersAre DEF Noted
<1>7. x \in Left /\ Past("urls") /\ Past("note")
  BY <1>0, <1>1, <1>2, <1>4, WhereItIs, PlacesAre
<1>8. /\ db' \in [Pair!Site -> Base] /\ db'["copy"] = db["copy"] /\ db'["live"].data = db["live"].data
      /\ db'["live"].url = db["live"].url /\ spoiled' \in BOOLEAN /\ siteTroubles' \in 0..MaxTroubles
      /\ spoiled' \/ (spoiled' = spoiled /\ (db'["live"].indexed <=> push.indexing # "0"))
  <2>1. db \in [Pair!Site -> Base] /\ "live" \in Pair!Site /\ "copy" \in Pair!Site
    BY <1>0 DEF PairTyped, Pair!Site
  <2>2. CASE Pair!Trouble /\ spoiled' = TRUE /\ db' = db
    BY <1>0, <2>1, <2>2, TroublesAreTyped
  <2>3. CASE db' = [db EXCEPT !["live"].indexed = push.indexing # "0"] /\ Pair!Calm /\ spoiled' = spoiled
    <3> DEFINE n == push.indexing # "0"
    <3>1. db' = [db EXCEPT !["live"] = [db["live"] EXCEPT !.indexed = n]]
      BY <2>3
    <3>2. n \in BOOLEAN
      OBVIOUS
    <3> HIDE DEF n
    <3>3. [db["live"] EXCEPT !.indexed = n] \in Base
      BY <2>1, <3>2 DEF Base
    <3>4. db'["live"].indexed = n
      BY <2>1, <3>1, <3>2, <3>3 DEF Base
    <3>5. /\ db' \in [Pair!Site -> Base] /\ db'["copy"] = db["copy"] /\ db'["live"].data = db["live"].data
          /\ db'["live"].url = db["live"].url
      BY <2>1, <3>1, <3>3 DEF Base
    <3>6. QED BY <1>0, <2>3, <3>4, <3>5, TroublesAreTyped DEF n, PairTyped
  <2>4. QED BY <2>2, <2>3 DEF Pair!PutIndexingBack
<1>9. OnlyThere /\ Shaped
  BY <1>0, <1>1, <1>6, <1>8 DEF OnlyThere, Shaped, PairTyped, Pair!Site
<1>10. Kept'
  <2>1. Pair!Content' = Pair!Content
    BY <1>1, <1>8 DEF Pair!Content
  <2>2. QED BY <1>0, <1>1, <1>8, <2>1 DEF Kept, Pair!PreviousStateKept
<1>11. \A y \in Pair!Site : db'[y].data = db[y].data /\ db'[y].url = db[y].url
  BY <1>8 DEF Pair!Site
<1>12. Addressed'
  BY <1>0, <1>1, <1>5, <1>11 DEF Addressed
<1>13. MidFiles'
  BY <1>0, <1>1, <1>3, <1>4 DEF MidFiles
<1>14. MidDb'
  BY <1>0, <1>1, <1>3, <1>4, <1>5, <1>11 DEF MidDb
<1>15. MidUrl'
  BY <1>0, <1>1, <1>3, <1>4, <1>5, <1>11 DEF MidUrl, Pair!Own, Pair!Site
<1>16. Indexed'
  <2> SUFFICES ASSUME siteKind = "wordpress", ~spoiled'
               PROVE  db'["live"].data # Pair!Part /\ (db'["live"].indexed <=> wish)
    BY <1>3, <1>5 DEF Indexed
  <2>1. push.indexing = IF wish THEN "1" ELSE "0"
    BY <1>0, <1>6, <1>7, <1>8 DEF Indexed
  <2>2. db["live"].data # Pair!Part
    BY <1>0, <1>6, <1>7 DEF MidDb, Copies
  <2>3. QED BY <1>8, <2>1, <2>2
<1>17. QED BY <1>1, <1>2, <1>9, <1>10, <1>12, <1>13, <1>14, <1>15, <1>16, PairPassKeeps

LEMMA ensureDatabaseKeeps ==
  ASSUME PairInv, Pair!StagingAssumption, Pair!ensureDatabase
  PROVE  PairInv'
<1> DEFINE x == "database"
<1>0. /\ PairTyped /\ OnTheWay /\ Kept /\ Pair!OwnDatabase /\ Pair!OwnAddress
      /\ Addressed /\ MidFiles /\ MidDb /\ MidUrl /\ Indexed
  BY DEF PairInv
<1>1. /\ x \in Stage /\ Pair!At(x) /\ Still /\ files' = files /\ ssl' = ssl /\ Pair!Pass /\ siteTroubles' = siteTroubles
      /\ answers' = answers /\ saved' = saved /\ had' = had /\ spoiled' = spoiled /\ staged' = staged
      /\ db' = IF db[Pair!to].data = Pair!Nil THEN [db EXCEPT ![Pair!to].data = Pair!Part] ELSE db
  BY DEF Stage, Pair!ensureDatabase, Still, Pair!rest, Pair!Calm
<1>2. Moves(x) /\ push'.indexing = push.indexing
  BY <1>0, <1>1, PassMoves DEF Still
<1>3. /\ (Pair!to)' = Pair!to /\ (Pair!from)' = Pair!from /\ Copies' = Copies /\ Noted' = Noted /\ push'.job = push.job
      /\ \A s \in Stage : s # x => (s \in Left' <=> s \in Left) /\ (Past(s)' <=> Past(s))
      /\ x \in Members /\ Pair!to \in Pair!Site /\ Pair!from \in Pair!Site /\ Pair!to # Pair!from
  BY <1>0, <1>1, <1>2, OneIsPassed
<1>4. \A s \in {"backup", "note", "copy", "in", "dump", "load", "empty", "install", "config", "urls", "index"} :
        s # x /\ s \in Stage
  BY DEF Stage
<1>5. siteKind' = siteKind /\ redeployed' = redeployed /\ wish' = wish /\ siteStatus' = siteStatus
  BY <1>1, <1>2 DEF Still, Moves
<1>6. /\ db' \in [Pair!Site -> Base] /\ db'[Pair!from] = db[Pair!from] /\ db'[Pair!to].url = db[Pair!to].url
      /\ db'[Pair!to].data # Pair!Nil /\ (db[Pair!to].data # Pair!Nil => db' = db)
  <2>1. CASE db[Pair!to].data # Pair!Nil
    BY <1>0, <1>1, <2>1 DEF PairTyped
  <2>2. CASE db[Pair!to].data = Pair!Nil
    <3>1. db' = [db EXCEPT ![Pair!to] = [db[Pair!to] EXCEPT !.data = Pair!Part]] /\ db \in [Pair!Site -> Base]
      BY <1>0, <1>1, <2>2 DEF PairTyped
    <3>2. [db[Pair!to] EXCEPT !.data = Pair!Part] \in Base
      BY <1>3, <3>1 DEF Base, Pair!Data
    <3>3. Pair!Part # Pair!Nil
      BY DEF Pair!Part, Pair!Nil
    <3>4. QED BY <1>3, <2>2, <3>1, <3>2, <3>3 DEF Base
  <2>3. QED BY <2>1, <2>2
<1>7. OnlyThere /\ Shaped
  BY <1>0, <1>1, <1>3, <1>6 DEF OnlyThere, Shaped, PairTyped, Pair!Site
<1>8. db'["live"] = db["live"]
  BY <1>0, <1>3, <1>6 DEF Kept, Pair!Site
<1>9. Kept'
  BY <1>0, <1>1, <1>8 DEF Kept, Pair!PreviousStateKept, Pair!Content
<1>10. \A y \in Pair!Site : db'[y].url = db[y].url /\ (y # Pair!to => db'[y] = db[y])
  BY <1>3, <1>6 DEF Pair!Site
<1>11. Addressed'
  <2>1. db'[Pair!to].data \notin {Pair!Part, Pair!Nil} => db[Pair!to].data \notin {Pair!Part, Pair!Nil}
    <3>1. CASE db[Pair!to].data = Pair!Nil
      <4>1. db'[Pair!to] = [db[Pair!to] EXCEPT !.data = Pair!Part]
        BY <1>0, <1>1, <1>3, <3>1 DEF PairTyped
      <4>2. QED BY <1>0, <1>3, <4>1 DEF PairTyped, Base
    <3>2. QED BY <1>6, <3>1
  <2>2. siteStatus[Pair!to] = "deploying"
    BY <1>0, <1>1, PairAtStep DEF OnTheWay
  <2>3. QED BY <1>0, <1>1, <1>5, <1>10, <2>1, <2>2 DEF Addressed
<1>12. MidFiles'
  BY <1>0, <1>1, <1>3, <1>4 DEF MidFiles
<1>13. (push.job.kind = "deploy" /\ ~Noted /\ ~Past("install")') \/ push.job.kind = "create"
  BY <1>0, <1>1, <1>2, <1>3, <1>4, MembersAre, WhereItIs, PlacesAre DEF Noted
<1>14. push.job.kind \in {"create", "deploy"} /\ ~Noted /\ (Copies => ~Past("urls")')
  BY <1>0, <1>1, <1>2, <1>3, <1>4, MembersAre, WhereItIs, PlacesAre DEF Noted
<1>15. MidDb'
  BY <1>0, <1>3, <1>4, <1>5, <1>6, <1>13, <1>14 DEF MidDb
<1>16. MidUrl'
  BY <1>0, <1>1, <1>3, <1>4, <1>5, <1>10 DEF MidUrl, Pair!Own, Pair!Site
<1>17. Indexed'
  BY <1>0, <1>1, <1>3, <1>5, <1>8, <1>14 DEF Indexed, Replacing
<1>18. QED BY <1>1, <1>2, <1>7, <1>9, <1>11, <1>12, <1>15, <1>16, <1>17, PairPassKeeps

LEMMA CertificateKeeps ==
  ASSUME PairInv, Pair!StagingAssumption, Pair!Certificate
  PROVE  PairInv'
<1> DEFINE x == "certificate"
<1>0. /\ PairTyped /\ OnTheWay /\ Kept /\ Pair!OwnDatabase /\ Pair!OwnAddress
      /\ Addressed /\ MidFiles /\ MidDb /\ MidUrl /\ Indexed
  BY DEF PairInv
<1>1. /\ x \in Stage /\ Pair!At(x) /\ Still /\ files' = files /\ db' = db /\ Pair!Pass
      /\ answers' = answers /\ saved' = saved /\ had' = had /\ spoiled' = spoiled /\ staged' = staged
  BY DEF Stage, Pair!Certificate, Still, Pair!rest
<1>2. Moves(x) /\ push'.indexing = push.indexing
  BY <1>0, <1>1, PassMoves DEF Still
<1>3. /\ (Pair!to)' = Pair!to /\ (Pair!from)' = Pair!from /\ Copies' = Copies /\ Noted' = Noted /\ push'.job = push.job
      /\ \A s \in Stage : s # x => (s \in Left' <=> s \in Left) /\ (Past(s)' <=> Past(s))
      /\ x \in Members /\ Pair!to \in Pair!Site /\ Pair!from \in Pair!Site /\ Pair!to # Pair!from
  BY <1>0, <1>1, <1>2, OneIsPassed
<1>4. \A s \in {"backup", "note", "copy", "in", "dump", "load", "empty", "database", "install", "config",
                "urls", "index"} : s # x /\ s \in Stage
  BY DEF Stage
<1>5. siteKind' = siteKind /\ redeployed' = redeployed /\ wish' = wish /\ siteStatus' = siteStatus
  BY <1>1, <1>2 DEF Still, Moves
<1>6. ssl' \in [Pair!Site -> BOOLEAN] /\ ssl'[Pair!from] = ssl[Pair!from] /\ siteTroubles' \in 0..MaxTroubles
  <2>1. PICK issued \in BOOLEAN : /\ IF issued \/ ~ssl[Pair!to] THEN Pair!Calm ELSE Pair!Trouble
                                  /\ ssl' = [ssl EXCEPT ![Pair!to] = @ /\ issued]
    BY DEF Pair!Certificate
  <2> DEFINE n == ssl[Pair!to] /\ issued
  <2>2. n \in BOOLEAN /\ ssl' = [ssl EXCEPT ![Pair!to] = n] /\ ssl \in [Pair!Site -> BOOLEAN]
    BY <1>0, <2>1 DEF PairTyped
  <2>3. siteTroubles' \in 0..MaxTroubles
    BY <1>0, <2>1, TroublesAreTyped
  <2> HIDE DEF n
  <2>4. QED BY <1>3, <2>2, <2>3
<1>7. OnlyThere /\ Shaped
  BY <1>0, <1>1, <1>3, <1>6 DEF OnlyThere, Shaped, PairTyped, Pair!Site
<1>8. Kept'
  BY <1>0, <1>1 DEF Kept, Pair!PreviousStateKept, Pair!Content
<1>9. push.job.kind \in {"create", "deploy"} /\ (Copies => ~Past("urls")')
  BY <1>0, <1>1, <1>2, <1>3, <1>4, MembersAre, WhereItIs, PlacesAre
<1>10. Addressed'
  <2>1. Pair!to = "live" => "live" \in redeployed
    BY <1>0, <1>9, MembersAre DEF MidDb
  <2>2. "live" \notin redeployed => ssl'["live"] = ssl["live"]
    BY <1>3, <1>6, <2>1 DEF Pair!Site
  <2>3. QED BY <1>0, <1>1, <1>5, <2>2 DEF Addressed
<1>11. MidFiles'
  BY <1>0, <1>1, <1>3, <1>4 DEF MidFiles
<1>12. MidDb'
  BY <1>0, <1>1, <1>3, <1>4, <1>5 DEF MidDb
<1>13. MidUrl'
  BY <1>0, <1>1, <1>3, <1>4, <1>5, <1>9 DEF MidUrl
<1>14. Indexed'
  BY <1>0, <1>1, <1>2, <1>3, <1>4, <1>5 DEF Indexed, Replacing
<1>15. QED BY <1>1, <1>2, <1>7, <1>8, <1>10, <1>11, <1>12, <1>13, <1>14, PairPassKeeps

LEMMA InstallKeeps ==
  ASSUME PairInv, Pair!StagingAssumption, Pair!Install
  PROVE  PairInv'
<1> DEFINE x == "install"
<1>0. /\ PairTyped /\ OnTheWay /\ Kept /\ Pair!OwnDatabase /\ Pair!OwnAddress
      /\ Addressed /\ MidFiles /\ MidDb /\ MidUrl /\ Indexed
  BY DEF PairInv
<1>1. /\ x \in Stage /\ Pair!At(x) /\ Still /\ ssl' = ssl
      /\ answers' = answers /\ saved' = saved /\ had' = had /\ staged' = staged
  BY DEF Stage, Pair!Install, Still, Pair!rest
<1>2. CASE Pair!Trouble /\ Pair!Stop /\ files' = files /\ db' = db
  BY <1>1, <1>2, FailingKeeps
<1>3. CASE (Pair!installWordPress \/ Pair!writeLaravelEnv) /\ Pair!Pass /\ Pair!Calm /\ UNCHANGED spoiled
  <2>1. Moves(x) /\ push'.indexing = push.indexing
    BY <1>0, <1>1, <1>3, PassMoves DEF Still
  <2>2. /\ (Pair!to)' = Pair!to /\ (Pair!from)' = Pair!from /\ Copies' = Copies /\ Noted' = Noted /\ push'.job = push.job
        /\ \A s \in Stage : s # x => (s \in Left' <=> s \in Left) /\ (Past(s)' <=> Past(s))
        /\ x \in Members /\ Pair!to \in Pair!Site /\ Pair!from \in Pair!Site /\ Pair!to # Pair!from
    BY <1>0, <1>1, <2>1, OneIsPassed
  <2>3. \A s \in {"backup", "note", "copy", "in", "dump", "load", "empty", "database", "config",
                  "urls", "index"} : s # x /\ s \in Stage
    BY DEF Stage
  <2>4. siteKind' = siteKind /\ redeployed' = redeployed /\ wish' = wish /\ siteStatus' = siteStatus
    BY <1>1, <2>1 DEF Still, Moves
  <2>5. /\ push.job.kind = "deploy" /\ ~Copies /\ ~Noted /\ Pair!to \in redeployed
        /\ siteStatus[Pair!to] = "deploying" /\ db[Pair!to].data # Pair!Nil
    <3>1. push.job.kind = "deploy" /\ Pair!Busy
      BY <1>0, <1>1, <2>2, MembersAre, PairAtStep
    <3>2. Past("database")
      BY <1>0, <1>1, <2>1, <2>3, WhereItIs, PlacesAre
    <3>3. QED BY <1>0, <3>1, <3>2 DEF Copies, Noted, MidDb, OnTheWay
  <2>6. PICK u \in Pair!Url, v \in Pair!Url :
          /\ files' = [files EXCEPT ![Pair!to] = Pair!Unpacked(files[Pair!to], u)]
          /\ db' = IF db[Pair!to].data # Pair!Part THEN db ELSE
                     [db EXCEPT ![Pair!to] = [data |-> Pair!Fresh, indexed |-> TRUE, url |-> v]]
          /\ siteKind = "wordpress" => v = Pair!Own(Pair!to)
          /\ v = Pair!Own(Pair!to) \/ v = Pair!Nowhere
    <3>1. files[Pair!to].url \in Pair!Url /\ Pair!Own(Pair!to) \in Pair!Url /\ Pair!Nowhere \in Pair!Url
      BY <1>0, <2>2, OwnIsTyped, UrlsAre DEF PairTyped, File
    <3>2. CASE Pair!installWordPress
      <4>1. files' = [files EXCEPT ![Pair!to] = Pair!Unpacked(files[Pair!to], files[Pair!to].url)] /\ db' = Pair!Filled(Pair!Own(Pair!to))
        BY <1>0, <2>2, <3>2 DEF Pair!installWordPress, PairTyped
      <4>2. QED BY <3>1, <4>1 DEF Pair!Filled
    <3>3. CASE Pair!writeLaravelEnv
      <4>1. /\ files' = [files EXCEPT ![Pair!to] = Pair!Unpacked(files[Pair!to], Pair!Own(Pair!to))] /\ db' = Pair!Filled(Pair!Nowhere)
            /\ siteKind # "wordpress"
        BY <1>0, <2>2, <3>3 DEF Pair!writeLaravelEnv, PairTyped
      <4>2. QED BY <3>1, <4>1 DEF Pair!Filled
    <3>4. QED BY <1>3, <3>2, <3>3
  <2>7. /\ files' \in [Pair!Site -> File] /\ files'[Pair!from] = files[Pair!from] /\ files'[Pair!to].names = Pair!to
        /\ files'[Pair!to].code # Pair!Nil /\ files'[Pair!to].media # Pair!Nil
        /\ files[Pair!to].code # Pair!Nil => files'[Pair!to].code = files[Pair!to].code
        /\ files[Pair!to].media # Pair!Nil => files'[Pair!to].media = files[Pair!to].media
    <3>1. files \in [Pair!Site -> File] /\ Pair!Fresh \in Pair!Data /\ Pair!Fresh # Pair!Nil
      BY <1>0 DEF PairTyped, Pair!Fresh, Pair!Nil, Pair!Data
    <3> DEFINE c == IF files[Pair!to].code = Pair!Nil THEN Pair!Fresh ELSE files[Pair!to].code
               m == IF files[Pair!to].media = Pair!Nil THEN Pair!Fresh ELSE files[Pair!to].media
    <3>2. Pair!Unpacked(files[Pair!to], u) = [code |-> c, media |-> m, names |-> Pair!to, url |-> u]
      BY DEF Pair!Unpacked
    <3>3. /\ c \in Pair!Data /\ c # Pair!Nil /\ (files[Pair!to].code # Pair!Nil => c = files[Pair!to].code)
          /\ m \in Pair!Data /\ m # Pair!Nil /\ (files[Pair!to].media # Pair!Nil => m = files[Pair!to].media)
      BY <2>2, <3>1 DEF File
    <3> HIDE DEF c, m
    <3>4. [code |-> c, media |-> m, names |-> Pair!to, url |-> u] \in File
      BY <2>2, <3>3 DEF File, Pair!Names
    <3>5. QED BY <2>2, <2>6, <3>1, <3>2, <3>3, <3>4
  <2>8. /\ db' \in [Pair!Site -> Base] /\ db'[Pair!from] = db[Pair!from] /\ db'[Pair!to].data \notin {Pair!Part, Pair!Nil}
        /\ db[Pair!to].data # Pair!Part => db' = db
        /\ db'[Pair!to].url = db[Pair!to].url \/ db'[Pair!to].url = v
        /\ db[Pair!to].data = Pair!Part => db'[Pair!to].url = v
    <3>1. db \in [Pair!Site -> Base] /\ Pair!Fresh \in Pair!Data /\ Pair!Fresh # Pair!Nil /\ Pair!Fresh # Pair!Part
      BY <1>0 DEF PairTyped, Pair!Fresh, Pair!Nil, Pair!Part, Pair!Data
    <3>2. CASE db[Pair!to].data # Pair!Part
      BY <2>5, <2>6, <3>1, <3>2
    <3>3. CASE db[Pair!to].data = Pair!Part
      <4>1. [data |-> Pair!Fresh, indexed |-> TRUE, url |-> v] \in Base
        BY <3>1 DEF Base
      <4>2. [data |-> Pair!Fresh, indexed |-> TRUE, url |-> v].data = Pair!Fresh
            /\ [data |-> Pair!Fresh, indexed |-> TRUE, url |-> v].url = v
        OBVIOUS
      <4>3. db'[Pair!to] = [data |-> Pair!Fresh, indexed |-> TRUE, url |-> v] /\ db'[Pair!from] = db[Pair!from]
              /\ db' \in [Pair!Site -> Base]
        BY <2>2, <2>6, <3>1, <3>3, <4>1
      <4>4. db'[Pair!to].data = Pair!Fresh /\ db'[Pair!to].url = v
        BY <4>2, <4>3
      <4>5. QED BY <3>1, <3>3, <4>3, <4>4
    <3>4. QED BY <3>2, <3>3
  <2>9. OnlyThere /\ Shaped
    BY <1>0, <1>1, <1>3, <2>2, <2>7, <2>8 DEF OnlyThere, Shaped, PairTyped, Pair!Site, Pair!Calm
  <2>10. Kept'
    <3>1. ASSUME Pair!to = "live" PROVE Pair!Content' = Pair!Content \/ had \subseteq saved
      <4>1. CASE Full(Pair!Content)
        <5>1. files["live"].code # Pair!Nil /\ files["live"].media # Pair!Nil /\ db["live"].data # Pair!Part
          BY <4>1, FullIs
        <5>2. QED BY <2>7, <2>8, <3>1, <5>1 DEF Pair!Content
      <4>2. CASE ~Full(Pair!Content)
        BY <1>0, <4>2 DEF Kept, Pair!PreviousStateKept
      <4>3. QED BY <4>1, <4>2
    <3>2. Whole(files'[Pair!to]) /\ Whole(staged') /\ (Pair!to = "live" => db'["live"].data # Pair!Nil)
      BY <1>0, <1>1, <2>7, <2>8 DEF Kept, Whole
    <3>3. QED BY <1>0, <1>1, <2>9, <3>1, <3>2, KeptKeeps
  <2>11. Addressed'
    <3>1. "live" \notin redeployed => (db'[Pair!to].url[1] = "live" => db'[Pair!to].url[2])
      <4>1. v[1] = "live" => Pair!to = "live"
        BY <2>2, <2>6, UrlsAre DEF Pair!Site
      <4>2. QED BY <1>0, <2>2, <2>5, <2>8, <4>1 DEF Addressed
    <3>2. siteKind = "wordpress" => db'[Pair!to].url # Pair!Nowhere
      <4>1. CASE db[Pair!to].data = Pair!Part
        BY <2>2, <2>6, <2>8, <4>1, UrlsAre
      <4>2. CASE db[Pair!to].data # Pair!Part
        BY <1>0, <2>2, <2>5, <2>8, <4>2 DEF Addressed
      <4>3. QED BY <4>1, <4>2
    <3>3. \A y \in Pair!Site : y # Pair!to => db'[y] = db[y]
      BY <2>9 DEF OnlyThere
    <3>4. QED BY <1>0, <1>1, <2>4, <2>5, <2>8, <3>1, <3>2, <3>3 DEF Addressed
  <2>12. MidFiles'
    BY <1>0, <1>1, <2>2, <2>3, <2>5, <2>7 DEF MidFiles
  <2>13. MidDb'
    BY <2>2, <2>4, <2>5, <2>8 DEF MidDb
  <2>14. MidUrl'
    BY <2>2, <2>5 DEF MidUrl
  <2>15. Indexed'
    <3>1. db["live"].data # Pair!Part => db'["live"] = db["live"]
      BY <2>2, <2>8 DEF Pair!Site
    <3>2. ~Noted' /\ ~Replacing'
      BY <2>2, <2>5 DEF Replacing
    <3>3. QED BY <1>0, <1>3, <2>4, <2>5, <3>1, <3>2 DEF Indexed, Replacing
  <2>16. QED BY <1>1, <2>1, <2>9, <2>10, <2>11, <2>12, <2>13, <2>14, <2>15, PairPassKeeps
<1>4. QED BY <1>2, <1>3 DEF Pair!Install

\* The rest: nothing else is told by them.
LEMMA OthersKeep ==
  ASSUME PairInv, Pair!StagingAssumption, Pair!MakeRoot \/ Pair!WriteVhost \/ Pair!Check
  PROVE  PairInv'
<1>0. PairTyped /\ answers \in BOOLEAN
  BY DEF PairInv, PairTyped
<1>1. CASE Pair!MakeRoot
  BY <1>0, <1>1, QuietKeeps DEF Pair!MakeRoot, Still, Pair!rest, Pair!Calm
<1>2. CASE Pair!WriteVhost
  <2>1. answers' \in BOOLEAN
    BY <1>0, <1>2 DEF Pair!WriteVhost
  <2>2. QED BY <1>2, <2>1, QuietKeeps DEF Pair!WriteVhost, Still, Pair!rest, Pair!Calm
<1>3. CASE Pair!Check
  <2>1. /\ "check" \in Stage /\ Pair!At("check") /\ Still /\ files' = files /\ db' = db /\ ssl' = ssl
        /\ answers' = answers /\ saved' = saved /\ staged' = staged /\ had' = had
    BY <1>3 DEF Stage, Pair!Check, Still, Pair!rest
  <2>2. CASE Pair!Pass /\ Pair!Calm /\ UNCHANGED spoiled
    BY <1>0, <2>1, <2>2, QuietKeeps DEF Pair!Calm
  <2>3. CASE Pair!Trouble /\ Pair!Stop
    BY <2>1, <2>3, FailingKeeps
  <2>4. QED BY <1>3, <2>2, <2>3 DEF Pair!Check
<1>4. QED BY <1>1, <1>2, <1>3

LEMMA PairGoesOn ==
  ASSUME PairInv, Pair!StagingAssumption, Pair!Next
  PROVE  PairInv'
  BY RequestsKeep, ChangeKeeps, PairBeginKeeps, PairFinishKeeps, OthersKeep, ensureDatabaseKeeps,
     backupBeforePushKeeps, NoteIndexingKeeps, CopyAsideKeeps, MoveAwayKeeps, MoveInKeeps, DumpKeeps,
     EmptyDatabaseKeeps, LoadKeeps, repointConfigKeeps, repointURLsKeeps, PutIndexingBackKeeps,
     InstallKeeps, CertificateKeeps, PairCrashKeeps
     DEF Pair!Next, Pair!mcpCreateStagingSite, Pair!mcpPushStagingSite

LEMMA PairSameKeeps ==
  ASSUME PairInv, UNCHANGED pairVars
  PROVE  PairInv'
<1>1. /\ push' = push /\ siteKind' = siteKind /\ files' = files /\ db' = db /\ answers' = answers /\ saved' = saved
      /\ staged' = staged /\ wish' = wish /\ had' = had /\ redeployed' = redeployed
      /\ spoiled' = spoiled /\ siteJobs' = siteJobs /\ asking' = asking /\ siteAsked' = siteAsked
      /\ version' = version /\ siteTroubles' = siteTroubles /\ siteStatus' = siteStatus /\ ssl' = ssl
  BY DEF pairVars
<1>2. siteJobs' \in Seq(Wanted) /\ asking' \in BOOLEAN /\ siteAsked' \in 0..MaxJobs
  BY <1>1 DEF PairInv, PairTyped
<1>3. QED BY <1>1, <1>2, AskingKeeps

LEMMA PairBegins ==
  ASSUME Pair!StagingAssumption, Pair!Init
  PROVE  PairInv
<1>1. PICK there \in {{"live"}, Pair!Site} :
         LET At1(x, u) == IF siteKind = u THEN <<x, TRUE>> ELSE Pair!Nowhere IN
         /\ files = [x \in (Pair!Site) |-> IF x \notin there THEN Pair!NoFiles ELSE
                       [code |-> 0, media |-> 0, names |-> x, url |-> At1(x, "laravel")]]
         /\ db = [x \in (Pair!Site) |-> IF x \notin there THEN Pair!NoDb ELSE
                    [data |-> 0, url |-> At1(x, "wordpress"),
                     indexed |-> wish /\ (x = "live" \/ siteKind # "wordpress")]]
         /\ siteStatus = [x \in (Pair!Site) |-> IF x \in there THEN "active" ELSE "none"]
         /\ answers = ("copy" \in there)
  BY DEF Pair!Init
<1>2. /\ siteKind \in {"wordpress", "laravel"} /\ wish \in BOOLEAN /\ ssl = [x \in (Pair!Site) |-> TRUE]
      /\ saved = {} /\ siteJobs = <<>> /\ asking = FALSE /\ push = Pair!Idle /\ staged = Pair!NoFiles
      /\ had = {<<0, 0, 0>>} /\ redeployed = {} /\ spoiled = FALSE
      /\ siteAsked = 0 /\ version = 0 /\ siteTroubles = 0
  BY DEF Pair!Init
<1>3. "live" \in there /\ there \subseteq Pair!Site /\ "live" \in Pair!Site
  BY DEF Pair!Site
<1>4. 0 \in Pair!Data /\ Pair!Nil \in Pair!Data /\ 0 # Pair!Nil /\ 0 # Pair!Part /\ 0 \in Pair!Version /\ Pair!Nowhere \in Pair!Url
  BY UrlsAre DEF Pair!Data, Pair!Version, Pair!Nil, Pair!Part, Pair!StagingAssumption
<1> DEFINE At1(x, u) == IF siteKind = u THEN <<x, TRUE>> ELSE Pair!Nowhere
           Set(x) == [code |-> 0, media |-> 0, names |-> x, url |-> At1(x, "laravel")]
           Bit(x) == wish /\ (x = "live" \/ siteKind # "wordpress")
           Full1(x) == [data |-> 0, url |-> At1(x, "wordpress"), indexed |-> Bit(x)]
<1>5. \A x \in Pair!Site : At1(x, "laravel") \in Pair!Url /\ At1(x, "wordpress") \in Pair!Url /\ Bit(x) \in BOOLEAN
  BY <1>2, <1>4 DEF Pair!Url
<1>6. \A x \in Pair!Site : /\ Set(x) \in File /\ Set(x).code = 0 /\ Set(x).media = 0 /\ Set(x).names = x
                           /\ Set(x).url = At1(x, "laravel")
  BY <1>4, <1>5 DEF File, Pair!Names
<1>7. \A x \in Pair!Site : /\ Full1(x) \in Base /\ Full1(x).data = 0 /\ Full1(x).url = At1(x, "wordpress")
                           /\ Full1(x).indexed = Bit(x)
  <2> HIDE DEF At1, Bit
  <2>1. QED BY <1>4, <1>5 DEF Base
<1>8. Pair!NoDb \in Base /\ Pair!NoDb.data = Pair!Nil /\ Pair!NoDb.url = Pair!Nowhere
  BY <1>4 DEF Pair!NoDb, Base
<1>9. \A x \in Pair!Site : /\ files[x] = IF x \in there THEN Set(x) ELSE Pair!NoFiles
                           /\ db[x] = IF x \in there THEN Full1(x) ELSE Pair!NoDb
                           /\ siteStatus[x] = IF x \in there THEN "active" ELSE "none"
                           /\ ssl[x] = TRUE
  BY <1>1, <1>2
<1>10. /\ files \in [Pair!Site -> File] /\ db \in [Pair!Site -> Base]
       /\ siteStatus \in [Pair!Site -> {"none", "pending", "deploying", "active", "failed"}]
       /\ ssl \in [Pair!Site -> BOOLEAN] /\ answers \in BOOLEAN
  <2>1. files \in [Pair!Site -> File]
    <3> HIDE DEF Set
    <3>1. files = [x \in (Pair!Site) |-> IF x \in there THEN Set(x) ELSE Pair!NoFiles]
      BY <1>1 DEF Set
    <3>2. QED BY <3>1, <1>6, NoFilesAre
  <2>2. db \in [Pair!Site -> Base]
    <3> HIDE DEF Full1
    <3>1. db = [x \in (Pair!Site) |-> IF x \in there THEN Full1(x) ELSE Pair!NoDb]
      BY <1>1 DEF Full1
    <3>2. QED BY <3>1, <1>7, <1>8
  <2>3. siteStatus \in [Pair!Site -> {"none", "pending", "deploying", "active", "failed"}]
    BY <1>1
  <2>4. ssl \in [Pair!Site -> BOOLEAN]
    BY <1>2
  <2>5. answers \in BOOLEAN
    BY <1>1
  <2>6. QED BY <2>1, <2>2, <2>3, <2>4, <2>5
<1> HIDE DEF Set, Full1
<1>11. /\ push \in [job : Pair!Job, todo : Seq(Stage), indexing : Reading] /\ ~Pair!Busy /\ Left = {} /\ Members = {}
       /\ InTurn(push.todo) /\ push.job.kind = "none" /\ ~Copies /\ ~Noted
  <2>1. push.job = Pair!NoJob /\ push.todo = <<>> /\ Pair!NoJob.kind = "none"
    BY <1>2 DEF Pair!Idle, Pair!NoJob
  <2>2. push \in [job : Pair!Job, todo : Seq(Stage), indexing : Reading]
    BY <1>2 DEF Pair!Idle, Pair!NoJob, Pair!Job, Reading, Pair!Site
  <2>3. QED BY <2>1, <2>2, ElementsOfNone DEF Left, Members, Pair!Busy, Copies, Noted
<1>12. PairTyped
  <2>1. siteJobs \in Seq(Wanted) /\ saved \subseteq Pair!Data \X Pair!Data \X Pair!Data /\ redeployed \subseteq Pair!Site
    BY <1>2
  <2>2. siteAsked \in 0..MaxJobs /\ version \in Pair!Version /\ siteTroubles \in 0..MaxTroubles
    BY <1>2, <1>4 DEF Pair!StagingAssumption
  <2>3. QED BY <1>2, <1>10, <1>11, <2>1, <2>2, NoFilesAre DEF PairTyped
<1>13. OnTheWay
  BY <1>11 DEF OnTheWay
<1>14. files["live"].code = 0 /\ files["live"].media = 0 /\ db["live"].data = 0
  <2>1. files["live"] = Set("live") /\ db["live"] = Full1("live")
    BY <1>3, <1>9
  <2>2. QED BY <1>3, <1>6, <1>7, <2>1
<1>15. Kept
  <2>1. Pair!Content = <<0, 0, 0>>
    BY <1>14 DEF Pair!Content
  <2>2. \A c \in had : c = Pair!Content /\ Full(c)
    <3>1. \A c \in had : c = Pair!Content
      BY <1>2, <2>1
    <3>2. \A c \in had : c[1] = 0 /\ c[2] = 0 /\ c[3] = 0
      BY <1>2
    <3>3. QED BY <1>4, <3>1, <3>2 DEF Full
  <2>3. \A x \in Pair!Site : Whole(files[x])
    <3>1. \A x \in Pair!Site : files[x] = Pair!NoFiles \/ (files[x].code = 0 /\ files[x].media = 0)
      <4> SUFFICES ASSUME NEW x \in Pair!Site, files[x] # Pair!NoFiles PROVE files[x].code = 0 /\ files[x].media = 0
        OBVIOUS
      <4>1. files[x] = Set(x)
        BY <1>9
      <4>2. Set(x).code = 0 /\ Set(x).media = 0
        BY <1>6
      <4>3. QED BY <4>1, <4>2
    <3>2. QED BY <1>4, <3>1 DEF Whole
  <2>4. QED BY <1>2, <1>4, <1>14, <2>2, <2>3, NoFilesAre DEF Kept, Pair!PreviousStateKept
<1>16. Pair!OwnDatabase
  BY <1>6, <1>9 DEF Pair!OwnDatabase
<1>17. Pair!OwnAddress
  <2>1. \A x \in Pair!Site : Pair!Own(x) = <<x, TRUE>>
    BY <1>9 DEF Pair!Own
  <2>2. \A x \in Pair!Site : x \in there => files[x].url = At1(x, "laravel") /\ db[x].url = At1(x, "wordpress")
    BY <1>6, <1>7, <1>9
  <2>3. \A x \in Pair!Site : siteStatus[x] = "active" => x \in there
    BY <1>9
  <2>4. QED BY <1>2, <2>1, <2>2, <2>3 DEF Pair!OwnAddress
<1>18. Addressed
  <2>1. \A x \in Pair!Site : db[x].url = Pair!Nowhere \/ (db[x].url = <<x, TRUE>>)
    BY <1>7, <1>8, <1>9
  <2>2. Pair!Nowhere[1] # "live" /\ \A x \in Pair!Site : <<x, TRUE>>[2] /\ <<x, TRUE>> # Pair!Nowhere
    <3>1. \A x \in Pair!Site : <<x, TRUE>>[2] /\ <<x, TRUE>>[1] = x
      OBVIOUS
    <3>2. \A x \in Pair!Site : <<x, TRUE>> # Pair!Nowhere
      <4> SUFFICES ASSUME NEW x \in Pair!Site, <<x, TRUE>> = Pair!Nowhere PROVE FALSE
        OBVIOUS
      <4>1. <<x, TRUE>>[1] = Pair!Nowhere[1]
        OBVIOUS
      <4>2. QED BY <3>1, <4>1, UrlsAre
    <3>3. Pair!Nowhere[1] # "live"
      BY <1>3, UrlsAre
    <3>4. QED BY <3>1, <3>2, <3>3
  <2>3. \A x \in Pair!Site : db[x].url[1] = "live" => db[x].url[2]
    BY <2>1, <2>2
  <2>4. siteKind = "wordpress" => \A x \in Pair!Site : x \in there => db[x].url = <<x, TRUE>> /\ db[x].data = 0
    BY <1>7, <1>9
  <2>5. \A x \in Pair!Site : x \notin there => db[x].data = Pair!Nil /\ siteStatus[x] # "active"
    BY <1>8, <1>9
  <2>6. /\ "live" \notin redeployed => ssl["live"]
        /\ siteKind = "wordpress" => \A x \in Pair!Site : db[x].data \notin {Pair!Part, Pair!Nil} => db[x].url # Pair!Nowhere
    BY <1>3, <1>9, <2>2, <2>4, <2>5
  <2>7. siteKind = "wordpress" => \A x \in Pair!Site : siteStatus[x] = "active" => db[x].data \notin {Pair!Part, Pair!Nil}
    BY <1>4, <2>4, <2>5
  <2>8. QED BY <2>3, <2>6, <2>7 DEF Addressed
<1>19. MidFiles /\ MidDb /\ MidUrl
  BY <1>11 DEF MidFiles, MidDb, MidUrl, Past
<1>20. Indexed
  <2>1. db["live"].indexed = Bit("live")
    BY <1>3, <1>7, <1>9
  <2>2. Bit("live") <=> wish
    OBVIOUS
  <2>3. QED BY <1>4, <1>11, <1>14, <2>1, <2>2 DEF Indexed
<1>21. QED BY <1>12, <1>13, <1>15, <1>16, <1>17, <1>18, <1>19, <1>20 DEF PairInv

LEMMA PairMeans ==
  ASSUME PairInv
  PROVE  Pair!PairKept
<1>1. /\ PairTyped /\ OnTheWay /\ Kept /\ Pair!OwnDatabase /\ Pair!OwnAddress
      /\ MidFiles /\ MidDb /\ MidUrl /\ Indexed
  BY DEF PairInv
<1>2. Pair!TypeOK
  <2>1. \A x \in Pair!Site : Pair!FilesOK(files[x]) /\ db[x] \in [data : Pair!Data, url : Pair!Url, indexed : BOOLEAN]
    BY <1>1 DEF PairTyped, Pair!FilesOK, File, Base
  <2>2. Pair!FilesOK(staged)
    BY <1>1 DEF PairTyped, Pair!FilesOK, File
  <2>3. \A i \in 1..Len(siteJobs) : siteJobs[i] \in Pair!Job
    BY <1>1 DEF PairTyped, Wanted
  <2>4. push.job \in Pair!Job /\ push.indexing \in {"unread", "0", "1"}
    BY <1>1 DEF PairTyped, Reading
  <2>5. QED BY <1>1, <2>1, <2>2, <2>3, <2>4 DEF Pair!TypeOK, PairTyped
<1>3. Pair!IndexingKept
  <2> SUFFICES ASSUME siteKind = "wordpress", siteStatus["live"] = "active", ~spoiled
               PROVE  db["live"].indexed <=> wish
    BY DEF Pair!IndexingKept
  <2>1. ~Replacing
    <3>1. Noted => Pair!to = "live" /\ Pair!Busy
      BY <1>1, MembersAre DEF Noted, Pair!Busy
    <3>2. QED BY <1>1, <3>1 DEF Replacing, OnTheWay
  <2>2. QED BY <1>1, <2>1 DEF Indexed
<1>4. QED BY <1>1, <1>2, <1>3 DEF Pair!PairKept, Kept

PairFocus == focus = "pair" => PairInv

LEMMA PairFirst == Init => PairFocus
  BY PairBegins, PairAssumption DEF Init, PairFocus

LEMMA PairStep == PairFocus /\ [Next]_vars => PairFocus'
<1> SUFFICES ASSUME PairFocus, [Next]_vars, focus' = "pair" PROVE PairInv'
  BY DEF PairFocus
<1>1. focus = "pair" /\ (Pair!Next \/ UNCHANGED pairVars)
  BY DEF Next, vars
<1>2. PairInv /\ Pair!StagingAssumption
  BY <1>1, PairAssumption DEF PairFocus
<1>3. CASE Pair!Next
  BY <1>2, <1>3, PairGoesOn
<1>4. CASE UNCHANGED pairVars
  BY <1>2, <1>4, PairSameKeeps
<1>5. QED BY <1>1, <1>3, <1>4

\* Whatever clones, pushes and redeployments are asked for, whichever of their steps
\* fail and wherever the panel dies: what a live site had when it was active is there
\* or in a complete backup, no active half of the pair works on the other's database,
\* each answers to its own address unless it was redeployed since it was cloned, and
\* a live site tells search engines what its owner chose unless a push that had
\* replaced its database was cut off.
THEOREM CopiesStaySound == Spec => []PairKept
<1>1. PairFocus => PairKept
  BY PairMeans DEF PairFocus, PairKept
<1>2. QED BY <1>1, PairFirst, PairStep, PTL DEF Spec

=============================================================================
