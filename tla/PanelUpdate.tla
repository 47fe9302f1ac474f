---------------------------- MODULE PanelUpdate ----------------------------
(***************************************************************************)
(* Updating the panel from the panel: internal/web/panel_update.go.        *)
(*                                                                         *)
(* Starting an update writes what is in flight into five settings and runs *)
(* the installer in a systemd unit of its own, which replaces the binary,  *)
(* restarts the panel, and puts the old binary back if the new one does    *)
(* not answer.  Whoever looks once the unit has ended settles the update:  *)
(* the panel's start, its hourly clock, and every page that polls, without *)
(* a lock between them.                                                    *)
(***************************************************************************)
EXTENDS Naturals, Sequences

CONSTANTS
    Page,          \* requests that click, refresh or poll, side by side
    Day,           \* hours in a day
    MaxHour,       \* bound: hours
    MaxVersion,    \* bound: releases
    MaxStarts,     \* bound: updates started
    MaxCrashes     \* bound: deaths of the panel, alone or with the machine

Clock == "clock"
Actor == Page \cup {Clock}

\* The settings of an update in flight, in the order they are written and
\* forgotten (panel_update_auto, which is only shown, is left out).
Keys == <<"from", "target", "started", "task", "apps">>
ReadOrder == <<"from", "target", "task", "apps">>
Key == {Keys[i] : i \in 1..Len(Keys)}
Unset == [k \in Key |-> 0]

VARIABLES
    hour, published,      \* the time, and the newest release
    version, previous,    \* of the panel that is running, and the one kept beside it
    unit,          \* the installer: "none", "work", "check" (the new panel is up)
    flight,        \* the settings in flight, 0: not set
    tried,         \* panel_auto_update_tried
    result,        \* panel_update_result: "none", "succeeded", "failed"
    cache,         \* what the panel remembers of GitHub, 0: nothing
    task,          \* the status of each update's task row
    starts,        \* task rows created
    run,           \* what each actor is doing
    begun,         \* history: the last update that was put in flight
    upgraded,      \* history: services.upgrade was pushed since
    autos,         \* history: the last automatic update, and when it set out
    mixed,         \* history: two actors settled or started at once, one
                   \* started over an update nobody had settled, or one died
                   \* while it forgot
    crashes

vars == <<hour, published, version, previous, unit, flight, tried, result, cache, task,
          starts, run, begun, upgraded, autos, mixed, crashes>>

Version == 1..MaxVersion
Idle == [at |-> "idle", k |-> 1, got |-> Unset, seen |-> 0, since |-> 0, verdict |-> "none"]
NoUpdate == [version |-> 0, target |-> 0, task |-> 0]
Starting == {"row", "set", "launch", "unset", "close"}
Settling == {"read", "decide", "finish", "save", "forget"}
At == {"idle", "reconcile", "unit", "tick", "mark", "begin"} \cup Starting \cup Settling

TypeOK ==
    /\ hour \in 0..MaxHour /\ published \in Version /\ version \in Version /\ previous \in Version
    /\ unit \in {"none", "work", "check"}
    /\ flight \in [Key -> Nat]
    /\ tried.version \in 0..MaxVersion /\ autos.version \in 0..MaxVersion
    /\ result \in {"none", "succeeded", "failed"}
    /\ cache \in 0..MaxVersion
    /\ task \in [1..MaxStarts -> {"none", "running", "success", "failed"}]
    /\ starts \in 0..MaxStarts
    /\ \A a \in Actor : run[a].at \in At /\ run[a].seen \in 0..MaxVersion
    /\ upgraded \in BOOLEAN /\ mixed \in BOOLEAN
    /\ crashes \in 0..MaxCrashes

\* A process that has just started settles first and then ticks.
Fresh == [a \in Actor |-> IF a = Clock THEN [Idle EXCEPT !.at = "reconcile"] ELSE Idle]

Init ==
    /\ hour = 0 /\ published = 1 /\ version = 1 /\ previous = 1
    /\ unit = "none" /\ flight = Unset
    /\ tried = [version |-> 0, hour |-> 0] /\ result = "none" /\ cache = 0
    /\ task = [i \in 1..MaxStarts |-> "none"] /\ starts = 0
    /\ run = Fresh
    /\ begun = NoUpdate
    /\ upgraded = FALSE /\ autos = [version |-> 0, hour |-> 0]
    /\ mixed = FALSE /\ crashes = 0

\* Actor a goes on with its fields changed as in new; two at once are noted.
Set(a, new) ==
    /\ run' = [run EXCEPT ![a] = [f \in DOMAIN @ |-> IF f \in DOMAIN new THEN new[f] ELSE @[f]]]
    /\ mixed' = \/ mixed
                \/ \E x, y \in Actor : /\ x # y
                                       /\ run'[x].at \in Starting \cup Settling
                                       /\ run'[y].at \in Starting \cup Settling \cup {"unit"}
                \/ run'[a].at = "row" /\ flight["started"] # 0

Goto(a, step) == Set(a, [at |-> step])

\* An actor is done settling: the clock goes on to its tick.
Settled(a, state) == Set(a, [Idle EXCEPT !.at = IF a = Clock /\ state # "running" THEN "tick" ELSE "idle"])

outside == <<hour, published, version, previous, unit, crashes>>
settings == <<flight, tried, result>>
history == <<begun, upgraded, autos>>

---------------------------------------------------------------------------
(* reconcilePanelUpdate                                                    *)

\* A page polls, or the clock's hour comes round.
Reconcile(a) ==
    /\ run[a].at = "idle"
    /\ Goto(a, "reconcile")
    /\ UNCHANGED <<outside, settings, cache, task, starts, history>>

ReadStarted(a) ==
    /\ run[a].at = "reconcile"
    /\ IF flight["started"] = 0 THEN Settled(a, "idle") ELSE Goto(a, "unit")
    /\ UNCHANGED <<outside, settings, cache, task, starts, history>>

\* A variant that does not ask whether the installer still runs.
CheckUnitNot(a) ==
    /\ run[a].at = "unit"
    /\ Set(a, [at |-> "read", k |-> 1])
    /\ UNCHANGED <<outside, settings, cache, task, starts, history>>

CheckUnit(a) ==
    /\ run[a].at = "unit"
    /\ IF unit # "none" THEN Settled(a, "running") ELSE Set(a, [at |-> "read", k |-> 1])
    /\ UNCHANGED <<outside, settings, cache, task, starts, history>>

ReadSetting(a) ==
    LET me == run[a]  key == ReadOrder[me.k] IN
    /\ me.at = "read"
    /\ Set(a, [got |-> [me.got EXCEPT ![key] = flight[key]], k |-> me.k + 1,
               at |-> IF me.k = Len(ReadOrder) THEN "decide" ELSE "read"])
    /\ UNCHANGED <<outside, settings, cache, task, starts, history>>

\* Moved off the version it started from, or onto the one it was going to;
\* then the apps' upgrade is pushed, which may fail.
Decide(a) ==
    LET got == run[a].got
        moved == \/ got["from"] # 0 /\ version # got["from"]
                 \/ got["target"] # 0 /\ version = got["target"]
    IN
    /\ run[a].at = "decide"
    /\ Set(a, [at |-> "finish", verdict |-> IF moved THEN "succeeded" ELSE "failed"])
    /\ upgraded' = (upgraded \/ (moved /\ got["apps"] = 1))
    /\ UNCHANGED <<outside, settings, cache, task, starts, begun, autos>>

FinishTask(a) ==
    LET id == run[a].got["task"] IN
    /\ run[a].at = "finish"
    /\ task' = IF id = 0 THEN task
               ELSE [task EXCEPT ![id] = IF run[a].verdict = "failed" THEN "failed" ELSE "success"]
    /\ Goto(a, "save")
    /\ UNCHANGED <<outside, settings, cache, starts, history>>

SaveResult(a) ==
    /\ run[a].at = "save"
    /\ result' = run[a].verdict
    /\ Set(a, [at |-> "forget", k |-> 1])
    /\ UNCHANGED <<outside, flight, tried, cache, task, starts, history>>

\* forgetUpdateInFlight, at the end of settling or of a start that failed.
Forget(a) ==
    LET me == run[a] IN
    /\ me.at \in {"forget", "unset"}
    /\ flight' = [flight EXCEPT ![Keys[me.k]] = 0]
    /\ IF me.k < Len(Keys)
         THEN Set(a, [k |-> me.k + 1]) /\ UNCHANGED cache
         ELSE IF me.at = "unset"
         THEN Goto(a, "close") /\ UNCHANGED cache
         ELSE Settled(a, "done") /\ cache' = 0
    \* A start that failed is reported there and then.
    /\ begun' = IF me.at = "unset" /\ Keys[me.k] = "started" THEN NoUpdate ELSE begun
    /\ UNCHANGED <<outside, tried, result, task, starts, upgraded, autos>>

---------------------------------------------------------------------------
(* panelUpdateTick and startPanelUpdate                                    *)

\* What GitHub answers; 0 is nothing at all.
latestRelease == {0, published}

\* A page has the cache refreshed.
Refresh ==
    /\ cache' \in latestRelease \ {0, cache}
    /\ UNCHANGED <<outside, settings, task, starts, run, history, mixed>>

\* The cached answer, or a new one.  GitHub may not answer, the setting may be
\* off, or work may be in progress: that ends the tick.
Tick(a) ==
    /\ run[a].at = "tick"
    /\ \/ Set(a, Idle) /\ UNCHANGED cache
       \/ \E seen \in ({cache} \cup latestRelease) \ {0} :
            /\ cache' = seen
            /\ IF seen > version /\ ~(tried.version = seen /\ hour - tried.hour < Day)
                 THEN Set(a, [at |-> "mark", seen |-> seen, since |-> hour])
                 ELSE Set(a, Idle)
    /\ UNCHANGED <<outside, settings, task, starts, history>>

\* A variant that keeps no note of it.
MarkTriedNot(a) ==
    /\ run[a].at = "mark"
    /\ Goto(a, "begin")
    /\ UNCHANGED <<outside, settings, cache, task, starts, history>>

MarkTried(a) ==
    /\ run[a].at = "mark"
    /\ tried' = [version |-> run[a].seen, hour |-> run[a].since]
    /\ Goto(a, "begin")
    /\ UNCHANGED <<outside, flight, result, cache, task, starts, history>>

Click(a) ==
    /\ a \in Page /\ run[a].at = "idle"
    /\ Goto(a, "begin")
    /\ UNCHANGED <<outside, settings, cache, task, starts, history>>

\* The tool looks at GitHub first.
mcpPanelUpdate(a) ==
    /\ a \in Page /\ run[a].at = "idle"
    /\ cache' \in ({cache} \cup latestRelease) \ {0}
    /\ Goto(a, "begin")
    /\ UNCHANGED <<outside, settings, task, starts, history>>

CheckRunning(a) ==
    /\ run[a].at = "begin"
    /\ IF unit # "none" THEN Set(a, Idle) ELSE Goto(a, "row")
    /\ UNCHANGED <<outside, settings, cache, task, starts, history>>

\* Work in progress ends it here; the target is what the cache says.
CreateTask(a) ==
    /\ run[a].at = "row"
    /\ \/ Set(a, Idle) /\ UNCHANGED <<task, starts>>
       \/ /\ starts < MaxStarts
          /\ starts' = starts + 1
          /\ task' = [task EXCEPT ![starts'] = "running"]
          /\ Set(a, [at |-> "set", k |-> 1,
                     got |-> [from |-> version, target |-> cache, started |-> 1,
                              task |-> starts', apps |-> 1]])
    /\ UNCHANGED <<outside, settings, cache, history>>

SetKey(a) ==
    LET me == run[a]  key == Keys[me.k] IN
    /\ me.at = "set"
    /\ flight' = [flight EXCEPT ![key] = me.got[key]]
    /\ Set(a, [k |-> me.k + 1, at |-> IF me.k = Len(Keys) THEN "launch" ELSE "set"])
    /\ IF key = "started"
         THEN /\ begun' = [version |-> version, target |-> me.got["target"],
                           task |-> me.got["task"]]
              /\ upgraded' = FALSE
         ELSE UNCHANGED <<begun, upgraded>>
    /\ UNCHANGED <<outside, tried, result, cache, task, starts, autos>>

\* systemd-run; it fails when the unit is there, or for reasons of its own.
Launch(a) ==
    LET me == run[a] IN
    /\ me.at = "launch"
    /\ unit = "none"
    /\ unit' = "work"
    /\ autos' = IF a = Clock THEN [version |-> me.seen, hour |-> me.since] ELSE autos
    /\ Set(a, Idle)
    /\ UNCHANGED <<hour, published, version, previous, crashes, settings, cache, task, starts,
                   begun, upgraded>>

LaunchFails(a) ==
    /\ run[a].at = "launch"
    /\ Set(a, [at |-> "unset", k |-> 1])
    /\ UNCHANGED <<outside, settings, cache, task, starts, history>>

CloseTask(a) ==
    /\ run[a].at = "close"
    /\ task' = [task EXCEPT ![run[a].got["task"]] = "failed"]
    /\ Set(a, Idle)
    /\ UNCHANGED <<outside, settings, cache, starts, history>>

---------------------------------------------------------------------------
(* Outside the process: time, releases, the installer and deaths.          *)

\* The process is another one: its memory is gone, and the rows of running
\* tasks are closed (FailRunningTasks) before anything settles.
Restart ==
    /\ run' = Fresh /\ cache' = 0
    /\ task' = [i \in 1..MaxStarts |-> IF task[i] = "running" THEN "failed" ELSE task[i]]
    /\ mixed' = (mixed \/ \E a \in Actor : run[a].at = "forget")

Hour ==
    /\ hour < MaxHour /\ hour' = hour + 1
    /\ UNCHANGED <<published, version, previous, unit, crashes, settings, cache, task, starts, run, history, mixed>>

Release ==
    /\ published < MaxVersion /\ published' = published + 1
    /\ UNCHANGED <<hour, version, previous, unit, crashes, settings, cache, task, starts, run, history, mixed>>

\* The installer swaps the newest release in, or stops before.
Swap ==
    /\ unit = "work"
    /\ unit' = "check" /\ version' = published /\ previous' = version
    /\ Restart
    /\ UNCHANGED <<hour, published, crashes, settings, starts, history>>

PutBack ==
    /\ unit = "check"
    /\ unit' = "none" /\ version' = previous
    /\ Restart
    /\ UNCHANGED <<hour, published, previous, crashes, settings, starts, history>>

UnitEnds ==
    /\ unit # "none" /\ unit' = "none"
    /\ UNCHANGED <<hour, published, version, previous, crashes, settings, cache, task, starts, run, history, mixed>>

Crash ==
    /\ crashes < MaxCrashes /\ crashes' = crashes + 1
    /\ unit' \in {unit, "none"}
    /\ Restart
    /\ UNCHANGED <<hour, published, version, previous, settings, starts, history>>

Next ==
    \/ \E a \in Actor :
         \/ Reconcile(a) \/ ReadStarted(a) \/ CheckUnit(a) \/ ReadSetting(a)
         \/ Decide(a) \/ FinishTask(a) \/ SaveResult(a) \/ Forget(a)
         \/ Tick(a) \/ MarkTried(a) \/ Click(a) \/ mcpPanelUpdate(a) \/ CheckRunning(a)
         \/ CreateTask(a) \/ SetKey(a) \/ Launch(a) \/ LaunchFails(a) \/ CloseTask(a)
    \/ Refresh \/ Hour \/ Release \/ Swap \/ PutBack \/ UnitEnds \/ Crash

\* Bounds for checking: one actor at a time (what two of them do to each other is
\* left to a reader), and a death in the hours before the last.
Alone == ~mixed /\ (crashes > 0 => hour < MaxHour)

Spec == Init /\ [][Next]_vars

---------------------------------------------------------------------------
\* panel_update.go:47, "one that failed is not tried again for a day, rather
\* than every hour": the panel does not set out on its own for a version it set
\* out for less than a day ago, whatever restarts it in between (the update
\* itself does).
AutoOnceADay ==
    autos' # autos /\ autos'.version = autos.version => autos'.hour - autos.hour >= Day

\* When nothing is in flight any more and one actor at a time settled it, the
\* result, the task's row and the upgrade of the apps agree with what the
\* installer did: through its restarts of the panel, a rollback, the death of
\* the panel or of the machine.
VerdictTrue ==
    /\ unit = "none" /\ flight["started"] = 0 /\ ~mixed
    /\ begun.task # 0 /\ begun.target # begun.version
    /\ \A a \in Actor : run[a].at \in {"idle", "tick"}
    => /\ result = IF version = begun.version THEN "failed" ELSE "succeeded"
       /\ task[begun.task] = IF result = "failed" THEN "failed" ELSE "success"
       /\ result = "succeeded" => upgraded

\* What an update promises: what it says came of it did, and what failed is not
\* tried hour after hour.
UpdateKept == [][AutoOnceADay /\ VerdictTrue']_vars
=============================================================================
