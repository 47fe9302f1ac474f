------------------------------ MODULE Databases ------------------------------
(***************************************************************************)
(* MariaDB databases, their accounts and who may connect to them:          *)
(* internal/databases/databases.go and mysql.go, with the requests of      *)
(* internal/web/databases.go and the tools of internal/web/mcp_databases.go *)
(*                                                                         *)
(* A row says what there should be.  The server's accounts, the listener   *)
(* and the firewall are made to match by SyncMySQLAccess, one at a time;   *)
(* jobs and requests that create, drop and repair accounts run beside it.  *)
(***************************************************************************)
EXTENDS Integers, FiniteSets

CONSTANTS
    Db,            \* databases
    Worker,        \* queue workers, requests and the clock
    MaxAddress,    \* bound: addresses the allowed domain has, one after the other
    MaxPassword,   \* bound: passwords a database has, one after the other
    MaxAsked,      \* bound: jobs and requests
    MaxTroubles    \* bound: commands that fail, deaths of the panel

Mode == {"local", "ip", "domain", "anywhere"}
Address == 1..MaxAddress
\* The hosts of an account and the sources of a rule: an address that was
\* listed, those of the domain that was, and any.
Source == {<<"ip", 0>>, <<"any", 0>>} \cup ({"domain"} \X Address)
Local == <<"local", 0>>
Host == Source \cup {Local}
Unset == {Local}               \* the firewall's setting, before it was ever saved

DatabasesAssumption == /\ "none" \notin Db /\ "nobody" \notin Worker
                       /\ {MaxAddress, MaxPassword} \subseteq Nat \ {0}
                       /\ {MaxAsked, MaxTroubles} \subseteq Nat

VARIABLES
    status, password,          \* the rows
    access,                    \* the settings, with the address found last
    accounts,                  \* the accounts: their password at each host, or 0
    listens,                   \* MariaDB listens on every interface
    rules, applied,            \* the firewall, and the setting that remembers it
    moved,                     \* the address of the domain now
    run,                       \* what each worker is doing
    holder,                    \* of the mutex `syncing`
    jobs,                      \* the queue
    starting,                  \* the panel has been started and has not synced yet
    unsynced,                  \* history: the sync last ended did not end well
    besides,                   \* history: databases two worked on at once, or one
                               \* of whose scripts failed or was cut off
    leaked,                    \* history: rules of a sync that failed, or that
                               \* the firewall would not remove
    asked, troubles

machine == <<accounts, listens, rules, applied>>
vars == <<status, password, access, machine, moved, run, holder, jobs, starting, unsynced,
          besides, leaked, asked, troubles>>

Setting == [mode : Mode, found : Address]
Closed == [mode |-> "local", found |-> 1]
NoPlan == [d \in Db |-> {}]
Resting == [job |-> "none", db |-> "none", pc |-> "begin", before |-> Closed,
            password |-> 1, hosts |-> {}, todo |-> {}, seen |-> Closed, plan |-> NoPlan,
            knows |-> {}, resolve |-> FALSE, again |-> FALSE]

Jobs == {"create", "drop", "password", "repair", "access", "sync"}
Point == {"begin", "script", "row", "forget", "lock", "look", "keep", "listen", "close", "open",
          "remember", "accounts", "undo"}

TypeOK ==
    /\ status \in [Db -> {"none", "pending", "creating", "ready", "failed", "deleting"}]
    /\ password \in [Db -> 1..MaxPassword] /\ access \in [Db -> Setting]
    /\ accounts \in [Db -> [Host -> 0..MaxPassword]]
    /\ {listens, starting, unsynced} \subseteq BOOLEAN
    /\ rules \subseteq Source /\ (applied = Unset \/ applied \subseteq Source) /\ moved \in Address
    /\ \A w \in Worker : /\ run[w].job \in Jobs \cup {"none"} /\ run[w].pc \in Point
                         /\ run[w].plan \in [Db -> SUBSET Host] /\ run[w].knows \subseteq Db
    /\ holder \in Worker \cup {"nobody"} /\ jobs \subseteq {"create", "drop"} \X Db
    /\ besides \subseteq Db /\ leaked \subseteq Source
    /\ asked \in 0..MaxAsked /\ troubles \in 0..MaxTroubles

\* targets: the hosts a setting opens a database to.
targets(a) == CASE a.mode = "anywhere" -> {<<"any", 0>>}
                [] a.mode = "ip" -> {<<"ip", 0>>}
                [] a.mode = "domain" -> {<<"domain", a.found>>}
                [] OTHER -> {}
Hosts(a) == {Local} \cup targets(a)

Init ==
    /\ \E s \in [Db -> {"none", "ready"}] :
         /\ status = s
         /\ accounts = [d \in Db |-> [h \in Host |-> IF s[d] = "ready" /\ h = Local THEN 1 ELSE 0]]
    /\ password = [d \in Db |-> 1] /\ access = [d \in Db |-> Closed]
    /\ listens = FALSE /\ rules = {} /\ applied = Unset /\ moved = 1
    /\ run = [w \in Worker |-> Resting] /\ holder = "nobody" /\ jobs = {}
    /\ starting = FALSE /\ unsynced = FALSE /\ besides = {} /\ leaked = {}
    /\ asked = 0 /\ troubles = 0

Busy(w) == run[w].job # "none"
WorkedOn == Db \cap {run[w].db : w \in Worker}
Trouble == troubles < MaxTroubles /\ troubles' = troubles + 1
Calm == UNCHANGED troubles
Asks == asked < MaxAsked /\ asked' = asked + 1
Is(w, job, pc) == run[w].job = job /\ run[w].pc = pc
To(w, pc) == run' = [run EXCEPT ![w] = [@ EXCEPT !.pc = pc]]
Rest(w) == run' = [run EXCEPT ![w] = Resting]

---------------------------------------------------------------------------
(* Requests, and the domain's owner.                                       *)

asking == <<password, access, machine, moved, run, holder, starting, unsynced, besides, leaked, troubles>>

databasesStore(d) ==
    /\ Asks /\ status[d] = "none" /\ <<"create", d>> \notin jobs
    /\ status' = [status EXCEPT ![d] = "pending"]
    /\ jobs' = jobs \cup {<<"create", d>>}
    /\ UNCHANGED asking

databasesDestroy(d) ==
    /\ Asks /\ status[d] # "none"
    /\ jobs' = jobs \cup {<<"drop", d>>}
    /\ UNCHANGED <<asking, status>>

Move ==
    /\ moved < MaxAddress /\ moved' = moved + 1
    /\ UNCHANGED <<status, password, access, machine, run, holder, jobs, starting, unsynced,
                   besides, leaked, asked, troubles>>

\* Whoever works on a database reads its row, its setting and its accounts'
\* hosts first.
Begin(w, job, d, pc, pass) ==
    /\ ~Busy(w)
    /\ run' = [run EXCEPT ![w] = [Resting EXCEPT !.job = job, !.db = d, !.pc = pc, !.before = access[d],
                                                !.password = pass, !.hosts = Hosts(access[d])]]
    /\ besides' = IF \E v \in Worker : Busy(v) THEN besides \cup WorkedOn \cup {d} ELSE besides
begun == <<password, access, machine, moved, holder, starting, unsynced, leaked, troubles>>

\* Provision and Drop, from the queue.  What is not there any more is left.
Provision(w, d) ==
    /\ <<"create", d>> \in jobs /\ jobs' = jobs \ {<<"create", d>>}
    /\ IF status[d] = "none" THEN UNCHANGED <<status, run, besides>>
       ELSE status' = [status EXCEPT ![d] = "creating"] /\ Begin(w, "create", d, "script", password[d])
    /\ UNCHANGED <<begun, asked>>

Drop(w, d) ==
    /\ <<"drop", d>> \in jobs /\ jobs' = jobs \ {<<"drop", d>>}
    /\ IF status[d] = "none" THEN UNCHANGED <<status, run, besides>>
       ELSE status' = [status EXCEPT ![d] = "deleting"] /\ Begin(w, "drop", d, "script", 1)
    /\ UNCHANGED <<begun, asked>>

\* SetPassword and RepairAccount, from a request.
SetPassword(w, d) ==
    /\ Asks /\ status[d] # "none"
    /\ \E new \in (1..MaxPassword) \ {password[d]} : Begin(w, "password", d, "script", new)
    /\ UNCHANGED <<begun, status, jobs>>

RepairAccount(w, d) ==
    /\ Asks /\ status[d] # "none" /\ Begin(w, "repair", d, "script", password[d])
    /\ UNCHANGED <<begun, status, jobs>>

\* SetAccess: a domain must resolve to be saved, and then it is saved at once.
SetAccess(w, d, mode) ==
    /\ Asks /\ status[d] # "none"
    /\ Begin(w, "access", d, "lock", 1)
    /\ access' = [access EXCEPT ![d] = [mode |-> mode, found |-> IF mode = "domain" THEN moved ELSE 1]]
    /\ UNCHANGED <<status, password, machine, moved, holder, jobs, starting, unsynced, leaked, troubles>>

\* The page's forms, and the tools of the MCP server, which alone repair.
databasesPassword(w, d) == SetPassword(w, d)
databasesAccess(w, d, mode) == SetAccess(w, d, mode)
mcpCreateDatabase(d) == databasesStore(d)
mcpDeleteDatabase(d) == databasesDestroy(d)
mcpSetDatabasePassword(w, d) == SetPassword(w, d)
mcpRepairDatabase(w, d) == RepairAccount(w, d)
mcpDatabaseAccess(w, d, mode) == SetAccess(w, d, mode)

\* The clock, while a database allows a domain (followed when the domain has
\* moved since it was last looked up); and a start.
Clock(w) ==
    /\ ~Busy(w)
    /\ \/ starting /\ starting' = FALSE
       \/ /\ \E d \in Db : status[d] # "none" /\ access[d].mode = "domain" /\ access[d].found # moved
          /\ UNCHANGED starting
    /\ run' = [run EXCEPT ![w] = [Resting EXCEPT !.job = "sync", !.pc = "lock", !.resolve = TRUE]]
    /\ besides' = besides \cup WorkedOn
    /\ UNCHANGED <<status, password, access, machine, moved, holder, jobs, unsynced, leaked, asked, troubles>>

---------------------------------------------------------------------------
(* What the jobs and requests do to the accounts and the rows.             *)

kept == <<moved, holder, jobs, starting, unsynced, asked>>

\* mysqlAccountScript: at the hosts that were read, with the password that was
\* read or is new; the server stops at the first statement it rejects.
AccountScript(w) ==
    /\ run[w].job \in {"create", "password", "repair"} /\ run[w].pc = "script"
    /\ LET d == run[w].db
           At(hosts) == [h \in Host |-> IF h \in hosts THEN run[w].password ELSE accounts[d][h]] IN
       \/ /\ accounts' = [accounts EXCEPT ![d] = At(run[w].hosts)]
          /\ To(w, IF run[w].job = "repair" THEN "lock" ELSE "row")
          /\ Calm /\ UNCHANGED <<status, besides>>
       \/ /\ \E some \in SUBSET run[w].hosts : accounts' = [accounts EXCEPT ![d] = At(some)]
          /\ status' = IF run[w].job = "create" /\ status[d] # "none" THEN [status EXCEPT ![d] = "failed"] ELSE status
          /\ Trouble /\ Rest(w) /\ besides' = besides \cup {d}
    /\ UNCHANGED <<kept, password, access, listens, rules, applied, leaked>>

\* A variant that leaves the password it had read in the row.
SaveRowStatus(w) ==
    /\ \/ Is(w, "password", "row") /\ UNCHANGED status
       \/ /\ Is(w, "create", "row")
          /\ status' = [status EXCEPT ![run[w].db] = IF @ = "none" THEN @ ELSE "ready"]
    /\ Rest(w)
    /\ UNCHANGED <<kept, password, access, machine, besides, leaked, troubles>>

\* The record follows only once the server has accepted.
SaveRow(w) ==
    /\ LET d == run[w].db IN
         \/ /\ Is(w, "password", "row") /\ UNCHANGED status
            /\ password' = [password EXCEPT ![d] = run[w].password]
         \/ /\ Is(w, "create", "row") /\ UNCHANGED password
            /\ status' = IF status[d] = "none" THEN status ELSE [status EXCEPT ![d] = "ready"]
    /\ Rest(w)
    /\ UNCHANGED <<kept, access, machine, besides, leaked, troubles>>

\* The database and its accounts at every host, and then the row.
DropScript(w) ==
    /\ Is(w, "drop", "script")
    /\ LET d == run[w].db IN
       \/ /\ accounts' = [accounts EXCEPT ![d] = [h \in Host |-> 0]]
          /\ To(w, "row") /\ Calm /\ UNCHANGED <<status, besides>>
       \/ /\ status' = IF status[d] = "none" THEN status ELSE [status EXCEPT ![d] = "failed"]
          /\ Trouble /\ Rest(w) /\ UNCHANGED accounts /\ besides' = besides \cup {d}
    /\ UNCHANGED <<kept, password, access, listens, rules, applied, leaked>>

DropRow(w) ==
    /\ Is(w, "drop", "row") /\ To(w, "forget")
    /\ status' = [status EXCEPT ![run[w].db] = "none"]
    /\ UNCHANGED <<kept, password, access, machine, besides, leaked, troubles>>

\* The firewall may have been open for it alone.
ForgetAccess(w) ==
    /\ Is(w, "drop", "forget")
    /\ access' = [access EXCEPT ![run[w].db] = Closed]
    /\ IF access[run[w].db].mode # "local" THEN To(w, "lock") ELSE Rest(w)
    /\ UNCHANGED <<kept, status, password, machine, besides, leaked, troubles>>

---------------------------------------------------------------------------
(* SyncMySQLAccess, under its mutex.                                       *)

syncs == <<status, password, moved, jobs, starting, asked>>

Lock(w) ==
    /\ run[w].pc = "lock" /\ holder = "nobody" /\ holder' = w
    \* The rows that are to be looked at, and what they allow.
    /\ LET live == {d \in Db : status[d] \notin {"none", "creating", "deleting"}}
           later == {d \in live : run[w].resolve /\ access[d].mode = "domain"} IN
         run' = [run EXCEPT ![w] =
                   [@ EXCEPT !.pc = IF later = {} THEN "listen" ELSE "look",
                      !.todo = later, !.knows = live,
                      !.plan = [d \in Db |-> IF d \in live \ later THEN Hosts(access[d]) ELSE {}]]]
    /\ UNCHANGED <<syncs, access, machine, unsynced, besides, leaked, troubles>>

\* The setting is read, the domain looked up, and what was read is saved with
\* the address it has now; a lookup that fails keeps the last one.
LookUp(w) ==
    /\ run[w].pc = "look"
    /\ IF run[w].todo = {} THEN To(w, "listen") /\ Calm
       ELSE \E d \in run[w].todo :
              \E found \in {moved, access[d].found} :
                /\ IF found # moved THEN Trouble ELSE Calm
                /\ LET seen == IF access[d].mode = "domain" THEN [access[d] EXCEPT !.found = found]
                               ELSE access[d] IN
                     run' = [run EXCEPT ![w] =
                               [@ EXCEPT !.pc = IF seen # access[d] THEN "keep" ELSE "look",
                                  !.todo = run[w].todo \ {d}, !.db = d, !.seen = seen,
                                  !.plan = [run[w].plan EXCEPT ![d] = Hosts(seen)]]]
    /\ UNCHANGED <<syncs, holder, access, machine, unsynced, besides, leaked>>

Keep(w) ==
    /\ run[w].pc = "keep" /\ To(w, "look")
    /\ access' = [access EXCEPT ![run[w].db] = run[w].seen]
    /\ UNCHANGED <<syncs, holder, machine, unsynced, besides, leaked, troubles>>

Wanted(w) == LET all == (UNION {run[w].plan[d] : d \in Db}) \ {Local} IN
             IF <<"any", 0>> \in all THEN {<<"any", 0>>} ELSE all

\* The sync is over.  What SetAccess had saved, it takes back when it failed.
Unlock(w, well) ==
    /\ holder' = "nobody" /\ unsynced' = ~well
    /\ IF ~well /\ run[w].job = "access" /\ ~run[w].again THEN To(w, "undo") ELSE Rest(w)

\* bind-address, and a restart when it changes.
setMySQLListen(w) ==
    /\ run[w].pc = "listen"
    /\ LET remote == Wanted(w) # {} IN
       \/ To(w, "close") /\ listens' = remote /\ Calm /\ UNCHANGED <<holder, unsynced>>
       \/ listens # remote /\ listens' = remote /\ Trouble /\ Unlock(w, FALSE)
    /\ UNCHANGED <<syncs, access, accounts, rules, applied, besides, leaked>>

\* setMySQLFirewall: nothing when the setting says so; else what is not wanted
\* any more is removed, if the firewall will,
CloseFirewall(w) ==
    /\ run[w].pc = "close"
    /\ IF applied = Wanted(w)
         THEN To(w, "accounts") /\ UNCHANGED <<rules, leaked, troubles>>
         ELSE LET known == applied \ Unset
                  gone == (known \ Wanted(w)) \cup ({<<"any", 0>>} \ Wanted(w)) IN
              \E stay \in {{}, gone \cap rules} :
                /\ IF stay = {} THEN Calm ELSE Trouble
                /\ rules' = (rules \ gone) \cup stay /\ leaked' = leaked \cup stay
                /\ run' = [run EXCEPT ![w] = [@ EXCEPT !.pc = "open", !.todo = {},
                                                       !.hosts = Wanted(w) \ known]]
    /\ UNCHANGED <<syncs, holder, access, accounts, listens, applied, unsynced, besides>>

\* what is wanted and was not is added, one by one, and only then remembered.
OpenFirewall(w) ==
    /\ run[w].pc = "open"
    /\ IF run[w].hosts = {} THEN To(w, "remember") /\ Calm /\ UNCHANGED <<rules, leaked, holder, unsynced>>
       ELSE \E s \in run[w].hosts :
            \/ /\ rules' = rules \cup {s} /\ Calm
               /\ run' = [run EXCEPT ![w] = [@ EXCEPT !.hosts = run[w].hosts \ {s}]] /\ UNCHANGED <<leaked, holder, unsynced>>
            \/ /\ Trouble /\ leaked' = leaked \cup ((Wanted(w) \ applied) \cap rules)
               /\ Unlock(w, FALSE) /\ UNCHANGED rules
    /\ UNCHANGED <<syncs, access, accounts, listens, applied, besides>>

Remember(w) ==
    /\ run[w].pc = "remember" /\ To(w, "accounts")
    /\ applied' = Wanted(w)
    /\ UNCHANGED <<syncs, holder, access, accounts, listens, rules, unsynced, besides, leaked, troubles>>

\* syncMySQLAccounts: created at the hosts they should have, with the row's
\* password (or the one they have), and dropped from the others.
syncMySQLAccounts(w) ==
    /\ run[w].pc = "accounts"
    /\ \/ /\ accounts' = [d \in Db |->
               IF d \notin run[w].knows THEN accounts[d]
               ELSE [h \in Host |-> IF h \notin run[w].plan[d] THEN 0
                                    ELSE IF accounts[d][h] = 0 THEN password[d] ELSE accounts[d][h]]]
          /\ Calm /\ Unlock(w, TRUE)
       \/ Trouble /\ UNCHANGED accounts /\ Unlock(w, FALSE)
    /\ UNCHANGED <<syncs, access, listens, rules, applied, besides, leaked>>

Undo(w) ==
    /\ run[w].pc = "undo"
    /\ access' = [access EXCEPT ![run[w].db] = run[w].before]
    /\ run' = [run EXCEPT ![w] = [@ EXCEPT !.pc = "lock", !.again = TRUE]]
    /\ UNCHANGED <<syncs, holder, machine, unsynced, besides, leaked, troubles>>

\* The panel dies.  Jobs will run again; a request does not.
Crash ==
    /\ Trouble
    /\ jobs' = jobs \cup {<<run[w].job, run[w].db>> : w \in {w \in Worker : run[w].job \in {"create", "drop"}}}
    /\ besides' = besides \cup WorkedOn
    /\ leaked' = IF holder = "nobody" THEN leaked
                 ELSE leaked \cup (IF run[holder].pc \in {"open", "remember"} THEN (Wanted(holder) \ applied) \cap rules ELSE {})
    /\ run' = [w \in Worker |-> Resting] /\ holder' = "nobody" /\ starting' = TRUE
    /\ UNCHANGED <<status, password, access, machine, moved, unsynced, asked>>

Next ==
    \/ Move \/ Crash
    \/ \E d \in Db : databasesStore(d) \/ mcpCreateDatabase(d) \/ databasesDestroy(d) \/ mcpDeleteDatabase(d)
    \/ \E w \in Worker :
         \/ \E d \in Db : \/ Provision(w, d) \/ Drop(w, d) \/ mcpRepairDatabase(w, d)
                          \/ databasesPassword(w, d) \/ mcpSetDatabasePassword(w, d)
                          \/ \E mode \in Mode : databasesAccess(w, d, mode) \/ mcpDatabaseAccess(w, d, mode)
         \/ Clock(w) \/ AccountScript(w) \/ SaveRow(w) \/ DropScript(w) \/ DropRow(w) \/ ForgetAccess(w)
         \/ Lock(w) \/ LookUp(w) \/ Keep(w) \/ setMySQLListen(w) \/ CloseFirewall(w) \/ OpenFirewall(w)
         \/ Remember(w) \/ syncMySQLAccounts(w) \/ Undo(w)

Spec == Init /\ [][Next]_vars

---------------------------------------------------------------------------
Quiet == ~starting /\ ~unsynced /\ \A w \in Worker : ~Busy(w)
Allowed == UNION {targets(access[d]) : d \in {d \in Db : status[d] # "none"}}

\* mysql.go:704, "opens 3306 to the allowed sources and nothing else": once the
\* last sync has gone well the port is open to nobody that no database allows,
\* but for what a failed sync left behind; however saves, drops, the clock and
\* starts interleave.
FirewallKept == Quiet => rules \subseteq Allowed \cup leaked

\* mysql.go:405: and each account is at the hosts its database allows, unless
\* something else was done to that database at the same time.
AccountsKept ==
    Quiet => \A d \in Db \ besides : status[d] = "ready" =>
                 {h \in Host : accounts[d][h] # 0} = Hosts(access[d])

\* databases.go:345, "a panel showing a password the server does not have is
\* worse than one showing the old password": the row's is accepted wherever
\* the account is.
PasswordKept ==
    Quiet => \A d \in Db \ besides : status[d] = "ready" =>
                 \A h \in Host : accounts[d][h] \in {0, password[d]}

AccessKept == TypeOK /\ FirewallKept /\ AccountsKept /\ PasswordKept
=============================================================================
