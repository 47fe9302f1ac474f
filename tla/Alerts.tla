-------------------------------- MODULE Alerts --------------------------------
(***************************************************************************)
(* The lockout of the sign-in page and what the panel tells its owner:     *)
(* loginLockedUntil of internal/web/security.go and the sign-in handlers   *)
(* that ask it, the rows of internal/store/security.go, and the minute     *)
(* clock of internal/web/smtp.go, health_alerts.go and notifications.go.   *)
(*                                                                         *)
(* An attempt asks whether its address is locked, checks the password and  *)
(* only then writes its row; others do the same beside it.  The clock      *)
(* reads what came after its cursor, moves the cursor, judges what it read *)
(* against the table as it is by then, and adds the notifications one at a *)
(* time.  The panel can die between any two of those.  One account.        *)
(***************************************************************************)
EXTENDS Integers, Sequences, FiniteSets, Bags, SequencesExt

CONSTANTS
    Address,
    Attempt,                \* sign-ins under way
    Limit,                  \* failures an address gets
    Window,                 \* and for how long it is refused, in ticks
    Cooldown,               \* between two notices of critical lines
    MaxTime,                \* bound: ticks
    MaxHappened,            \* bound: attempts, lines, SSH logins, failed tasks, crashes
    MaxLooked               \* bound: of them, SSH logins and failed tasks

\* What is assumed of the constants, by the module that gives them values.
LimitAssumption == Limit \in Nat \ {0} /\ Window \in Nat \ {0}

VARIABLES
    now,
    rows, lastId,           \* login_attempts, and the last id given out
    trying,                 \* the address each attempt under way came from
    lines,                  \* server_events: is the line critical?
    ssh, failures,          \* when each SSH login was made, each task failed
    wanted,                 \* the alerts are switched on
    cursor, critical, sshChecked, taskChecked,      \* the settings kept
    mailed,                 \* alert_last_critical
    pc, batch, latest, found,                       \* the clock's look
    seen,                   \* the clock has looked since the last tick
    told,                   \* the bag of notifications
    locks,                  \* history: how often an address was locked out
    open,                   \* history: and the clock has not read the row that did it
    fresh,                  \* history: sign-ins from an address not seen before
    excused,                \* history: what nobody promised to tell
    happened

look == <<pc, batch, latest, found>>
settings == <<cursor, critical, sshChecked, taskChecked, mailed>>
history == <<locks, open, fresh, excused>>
world == <<lines, ssh, failures>>
vars == <<now, rows, lastId, trying, world, wanted, settings, look, seen, told, history, happened>>

Row == [id : Nat, ip : Address, is : {"in", "failed"}, at : 0..MaxTime]
Notice(kind, what) == <<kind, what>>
Nobody == "nobody"

TypeOK ==
    /\ now \in 0..MaxTime /\ rows \subseteq Row /\ lastId \in Nat
    /\ trying \in [Attempt -> Address \cup {Nobody}]
    /\ wanted \in BOOLEAN /\ seen \in BOOLEAN
    /\ \A i \in DOMAIN lines : lines[i] \in BOOLEAN
    /\ cursor \in 0..lastId /\ critical \in 0..Len(lines)
    /\ {sshChecked, taskChecked, mailed} \subseteq -1..MaxTime
    /\ pc \in {"idle", "read", "moved", "critical", "queried", "ssh", "deliver"}
    /\ locks \in [Address -> Nat] /\ open \subseteq Address /\ fresh \subseteq 1..lastId

Init ==
    /\ now = 0 /\ rows = {} /\ lastId = 0
    /\ trying = [a \in Attempt |-> Nobody]
    /\ lines = <<>> /\ ssh = <<>> /\ failures = <<>> /\ wanted = TRUE
    /\ cursor = 0 /\ critical = 0 /\ sshChecked = -1 /\ taskChecked = -1 /\ mailed = -1
    /\ pc = "idle" /\ batch = <<>> /\ latest = 0 /\ found = <<>>
    /\ seen = FALSE /\ told = EmptyBag
    /\ locks = [ip \in Address |-> 0] /\ open = {} /\ fresh = {} /\ excused = {}
    /\ happened = 0

Happens == happened < MaxHappened /\ happened' = happened + 1
Excuse(what) == excused' = excused \cup what

---------------------------------------------------------------------------
\* FailedLoginsSince: the failures inside a window, later than the last success.
FailedIn(table, ip, since) ==
    {r \in table : /\ r.ip = ip /\ r.is = "failed" /\ r.at >= since
                   /\ \A s \in table : s.ip = ip /\ s.is = "in" => r.at > s.at}
Failed(ip, since) == FailedIn(rows, ip, since)

\* loginLockedUntil, asked as an attempt begins.
Locked(ip) == Cardinality(Failed(ip, now - Window)) >= Limit

\* LockedAddresses, for the page: counted in one query over everybody first.
LockedAddresses ==
    LET over == {ip \in Address : Cardinality({r \in rows : r.ip = ip /\ r.is = "failed"
                                                            /\ r.at >= now - Window}) >= Limit}
    IN {ip \in over : Cardinality(Failed(ip, now - Window)) >= Limit}

\* login and twoFactorChallenge: refused before the password is looked at (the
\* row of a refusal is counted by nothing), or on to it.
Try(a, ip) ==
    /\ trying[a] = Nobody /\ ~Locked(ip) /\ Happens
    /\ trying' = [trying EXCEPT ![a] = ip]
    /\ UNCHANGED <<now, rows, lastId, world, wanted, settings, look, seen, told, history>>

\* RecordLoginAttempt, with what the password or the code was worth.
Record(a, is) ==
    LET ip == trying[a]
        row == [id |-> lastId + 1, ip |-> ip, is |-> is, at |-> now]
        reached == /\ ~Locked(ip)
                   /\ Cardinality(FailedIn(rows \cup {row}, ip, now - Window)) >= Limit IN
    /\ ip # Nobody
    /\ trying' = [trying EXCEPT ![a] = Nobody]
    /\ rows' = rows \cup {row} /\ lastId' = row.id
    /\ locks' = IF reached THEN [locks EXCEPT ![ip] = @ + 1] ELSE locks
    /\ open' = IF reached THEN open \cup {ip} ELSE open
    /\ fresh' = IF is = "in" /\ ~\E r \in rows : r.ip = ip /\ r.is = "in"
                  THEN fresh \cup {row.id} ELSE fresh
    \* A lock that another attempt, already past the question, ran into before
    \* it was judged; or a failure in the middle of the judging.
    /\ Excuse(IF ip \in open \/ pc \in {"read", "moved"} THEN {ip} ELSE {})
    /\ UNCHANGED <<now, world, wanted, settings, look, seen, told, happened>>

\* securityUnlock: ClearLoginFailures.
securityUnlock(ip) ==
    /\ Happens
    /\ rows' = {r \in rows : r.ip # ip \/ r.is = "in"}
    /\ Excuse({ip})
    /\ UNCHANGED <<now, lastId, trying, world, wanted, settings, look, seen, told, locks, open, fresh>>

\* securityAlerts: every switch at once here.
securityAlerts ==
    /\ Happens /\ wanted' = ~wanted
    /\ UNCHANGED <<now, rows, lastId, trying, world, settings, look, seen, told, history>>

---------------------------------------------------------------------------
\* The rest of what is told: a line collected from a log, a login over SSH, a
\* task that failed.
Line(isCritical) ==
    /\ Happens /\ lines' = Append(lines, isCritical)
    /\ UNCHANGED <<now, rows, lastId, trying, ssh, failures, wanted, settings, look, seen, told, history>>

SshLogin ==
    /\ Len(ssh) + Len(failures) < MaxLooked
    /\ Happens /\ ssh' = Append(ssh, now)
    \* sshd's log is read by the second: one in the second of the look, after it.
    /\ Excuse(IF sshChecked = now THEN {Notice("ssh", Len(ssh) + 1)} ELSE {})
    /\ UNCHANGED <<now, rows, lastId, trying, lines, failures, wanted, settings, look, seen, told, locks, open, fresh>>

TaskFails ==
    /\ Len(ssh) + Len(failures) < MaxLooked
    /\ Happens /\ failures' = Append(failures, now)
    /\ UNCHANGED <<now, rows, lastId, trying, lines, ssh, wanted, settings, look, seen, told, history>>

\* runSecurityAlerts looks more often than the shortest window lasts.
Tick ==
    /\ now < MaxTime /\ seen /\ pc = "idle"
    /\ now' = now + 1 /\ seen' = FALSE
    /\ UNCHANGED <<rows, lastId, trying, world, wanted, settings, look, told, history, happened>>

---------------------------------------------------------------------------
After(from) == SetToSortSeq({r \in rows : r.id > from}, LAMBDA r, s : r.id < s.id)
Ids(s) == {s[i].id : i \in DOMAIN s}
Step(from, to) == pc = from /\ pc' = to

\* Sign-ins and locks the look passes over: from here on, the first time.
Skipped(r) == {r.ip, Notice("login", r.id)}

\* panelAlerts: the rows after the cursor,
panelAlerts ==
    /\ pc = "idle" /\ ~seen
    /\ batch' = IF cursor = 0 THEN <<>> ELSE After(cursor)
    /\ pc' = IF batch' = <<>> THEN "critical" ELSE "read"
    /\ cursor' = IF cursor = 0 THEN lastId ELSE cursor
    /\ Excuse(IF cursor = 0 THEN UNION {Skipped(r) : r \in rows} ELSE {})
    /\ open' = IF cursor = 0 THEN {} ELSE open
    /\ found' = <<>>
    /\ UNCHANGED <<now, rows, lastId, trying, world, wanted, critical, sshChecked, taskChecked,
                   mailed, latest, seen, told, locks, fresh, happened>>

\* (a variant that moves the cursor to the latest row there is)
MoveCursorToLatest ==
    /\ Step("read", "moved")
    /\ cursor' = lastId
    /\ UNCHANGED <<now, rows, lastId, trying, world, wanted, critical, sshChecked, taskChecked, mailed,
                   batch, latest, found, seen, told, history, happened>>

\* the cursor, moved to the last of them,
MoveCursor ==
    /\ Step("read", "moved")
    /\ cursor' = Last(batch).id
    /\ UNCHANGED <<now, rows, lastId, trying, world, wanted, critical, sshChecked, taskChecked, mailed,
                   batch, latest, found, seen, told, history, happened>>

\* KnownLoginAddress, before this row.
Known(r) == \E s \in rows : s.ip = r.ip /\ s.is = "in" /\ s.id < r.id
\* An address whose failures, from a window before this one on, are the limit.
Reaches(r) == r.is = "failed" /\ Cardinality(Failed(r.ip, r.at - Window)) = Limit

\* and what they are worth by now: an address new to the account, and a lockout
\* once for each address.
Judge ==
    /\ Step("moved", "critical")
    /\ LET new == {i \in DOMAIN batch : batch[i].is = "in" /\ ~Known(batch[i])}
           over == {batch[i].ip : i \in {j \in DOMAIN batch : Reaches(batch[j])}}
           notices == {Notice("login", batch[i].id) : i \in new} \cup {Notice("lockout", ip) : ip \in over}
       IN found' = IF wanted THEN SetToSeq(notices) ELSE <<>>
    /\ open' = open \ {r.ip : r \in Range(batch)}
    /\ Excuse(IF wanted THEN {} ELSE UNION {Skipped(r) : r \in Range(batch)})
    /\ batch' = <<>>
    /\ UNCHANGED <<now, rows, lastId, trying, world, wanted, settings, latest, seen, told, locks, fresh, happened>>

\* criticalAlert: the latest line is looked up first.
CriticalLatest ==
    /\ pc = "critical"
    /\ LET skip == critical = 0 \/ ~wanted IN
         /\ critical' = IF skip THEN Len(lines) ELSE critical
         /\ Excuse(IF skip THEN {Notice("line", i) : i \in critical + 1 .. Len(lines)} ELSE {})
         /\ pc' = IF skip \/ Len(lines) <= critical THEN "ssh" ELSE "queried"
         /\ latest' = IF pc' = "queried" THEN Len(lines) ELSE 0
    /\ UNCHANGED <<now, rows, lastId, trying, world, wanted, cursor, sshChecked, taskChecked, mailed,
                   batch, found, seen, told, locks, open, fresh, happened>>

CriticalAfter == {i \in DOMAIN lines : i > critical /\ lines[i]}
Cool == mailed # -1 /\ now - mailed < Cooldown

\* ServerEventsAfter has no upper end, and the cursor goes to what was the
\* latest.  Held, not lost, while the cooldown runs.
criticalAlert ==
    /\ Step("queried", "ssh")
    /\ CASE CriticalAfter = {} -> critical' = latest /\ UNCHANGED <<mailed, found>>
         [] CriticalAfter # {} /\ Cool -> UNCHANGED <<critical, mailed, found>>
         [] OTHER -> /\ critical' = latest /\ mailed' = now
                     /\ found' = Append(found, Notice("critical", CriticalAfter))
    /\ latest' = 0
    /\ UNCHANGED <<now, rows, lastId, trying, world, wanted, cursor, sshChecked, taskChecked,
                   batch, seen, told, history, happened>>

\* sshAlerts: later than the last look, by the second;
sshAlerts == {Notice("ssh", i) : i \in {j \in DOMAIN ssh : ssh[j] > sshChecked}}
\* taskAlerts: from a second before the last look on.
taskAlerts == {Notice("task", i) : i \in {j \in DOMAIN failures : failures[j] > taskChecked - 1}}

\* Their two settings are moved to now, whatever is told.
LookBack ==
    /\ Step("ssh", "deliver")
    /\ sshChecked' = now /\ taskChecked' = now
    /\ LET new == (IF sshChecked = -1 THEN {} ELSE sshAlerts) \cup (IF taskChecked = -1 THEN {} ELSE taskAlerts)
       IN /\ found' = IF wanted THEN found \o SetToSeq(new) ELSE found
          /\ Excuse(IF wanted THEN (sshAlerts \cup taskAlerts) \ new ELSE sshAlerts \cup taskAlerts)
    /\ UNCHANGED <<now, rows, lastId, trying, world, wanted, cursor, critical, mailed,
                   batch, latest, seen, told, locks, open, fresh, happened>>

\* deliver: AddNotification, one after another.
deliver ==
    /\ pc = "deliver"
    /\ told' = IF found = <<>> THEN told ELSE told (+) SetToBag({Head(found)})
    /\ found' = IF found = <<>> THEN <<>> ELSE Tail(found)
    /\ pc' = IF found' = <<>> THEN "idle" ELSE pc
    /\ seen' = (found' = <<>>)
    /\ UNCHANGED <<now, rows, lastId, trying, world, wanted, settings, batch, latest, history, happened>>

\* What the look had read is gone with the process; its cursors are not.  The
\* next look is a minute after the start, so two may be further apart than a
\* lock lasts, and what is said of locks then is nobody's promise.
Crash ==
    /\ Happens /\ pc # "idle"
    /\ LET taken == IF pc = "moved" THEN UNION {Skipped(r) : r \in Range(batch)} ELSE {}
           lost == UNION {IF n[1] = "critical" THEN {Notice("line", i) : i \in n[2]} ELSE {n}
                          : n \in Range(found)} IN
         Excuse(taken \cup lost \cup Address)
    /\ open' = IF pc = "moved" THEN open \ {r.ip : r \in Range(batch)} ELSE open
    /\ pc' = "idle" /\ batch' = <<>> /\ found' = <<>> /\ latest' = 0 /\ seen' = TRUE
    /\ trying' = [a \in Attempt |-> Nobody]
    /\ UNCHANGED <<now, rows, lastId, world, wanted, settings, told, locks, fresh>>

Next ==
    \/ \E a \in Attempt : (\E ip \in Address : Try(a, ip)) \/ (\E is \in {"in", "failed"} : Record(a, is))
    \/ \E ip \in Address : securityUnlock(ip)
    \/ \E is \in BOOLEAN : Line(is)
    \/ securityAlerts \/ SshLogin \/ TaskFails \/ Tick
    \/ panelAlerts \/ MoveCursor \/ Judge \/ CriticalLatest \/ criticalAlert \/ LookBack \/ deliver \/ Crash

Spec == Init /\ [][Next]_vars

---------------------------------------------------------------------------
\* How often something was told or is about to be.
Times(notice) == (IF BagIn(notice, told) THEN told[notice] ELSE 0) + Cardinality({i \in DOMAIN found : found[i] = notice})
TimesOfLine(i) == LET carrying == {n \in BagToSet(told) \cup Range(found) : n[1] = "critical" /\ i \in n[2]}
                  IN FoldSet(LAMBDA n, sum : sum + Times(n), 0, carrying)

\* security.go:34, "how many failed sign-ins an address gets": inside a window,
\* and since it was last let in, its limit, and one for every attempt that was
\* under way when it reached it.
TriesBounded ==
    \A ip \in Address, t \in 0..now :
        Cardinality({r \in Failed(ip, t) : r.at <= t + Window}) <= Limit - 1 + Cardinality(Attempt)

\* store/security.go:123, "the addresses currently over the limit": the page
\* shows those that are refused.
PageShowsLocked == LockedAddresses = {ip \in Address : Locked(ip)}

\* smtp.go:315, every sign-in from an address the account had not used, once,
\* and a lockout as often as an address was locked out: when the clock has
\* looked at the rows, whatever else was written while it looked.
SignInsTold ==
    /\ \A n \in fresh : /\ Times(Notice("login", n)) <= 1
                        /\ (n <= cursor /\ pc \notin {"read", "moved"}
                            /\ Notice("login", n) \notin excused) => Times(Notice("login", n)) = 1
    /\ \A n \in BagToSet(told) : n[1] = "login" => n[2] \in fresh
    /\ \A ip \in Address \ (excused \cup open) : Times(Notice("lockout", ip)) = locks[ip]

\* health_alerts.go:170, "Held, not lost, while the cooldown runs: the next
\* email has them": every critical line the cursor has passed was told.
LinesTold ==
    \A i \in DOMAIN lines : (lines[i] /\ i <= critical /\ Notice("line", i) \notin excused)
                              => TimesOfLine(i) \in 1..2

\* smtp.go:365 and notifications.go:193, the logins and the failures since the
\* last look: a login once, a failed task once or, in the second of a look, twice.
LookedTold ==
    pc \in {"deliver", "idle"} =>
      /\ \A i \in DOMAIN ssh : /\ Times(Notice("ssh", i)) <= 1
                               /\ (ssh[i] <= sshChecked /\ Notice("ssh", i) \notin excused)
                                      => Times(Notice("ssh", i)) = 1
      /\ \A i \in DOMAIN failures : /\ Times(Notice("task", i)) <= 2
                                    /\ (failures[i] < taskChecked /\ Notice("task", i) \notin excused)
                                           => Times(Notice("task", i)) >= 1

AlertsKept == TypeOK /\ TriesBounded /\ PageShowsLocked /\ SignInsTold /\ LinesTold /\ LookedTold
=============================================================================
