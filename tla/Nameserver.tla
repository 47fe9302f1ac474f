----------------------------- MODULE Nameserver -----------------------------
(***************************************************************************)
(* The panel's own nameserver: internal/nameserver/apply.go, the local     *)
(* provider of internal/dns/local.go, the zones of                         *)
(* internal/store/dns_zone.go and the page of internal/web/nameserver.go.  *)
(*                                                                         *)
(* The rows are the truth; zone files are generated from them and BIND     *)
(* serves the files.  Every edit changes a row, writes a file or all of    *)
(* them step by step, has BIND's checker read it, and takes the row back   *)
(* when the zone does not load.  Nothing holds a lock: Editor has several  *)
(* members for requests, jobs and tools side by side.                      *)
(***************************************************************************)
EXTENDS Integers, FiniteSets

CONSTANTS
    Editor,        \* requests, jobs and tools that edit zones
    Zone,          \* names that can be hosted
    MaxEdits,      \* bound: edits begun
    MaxFails,      \* bound: commands that fail
    MaxCrashes     \* bound: deaths of the panel, and restarts of BIND

Rid == 1..2                                \* the records of a zone
Content == {"a", "cname"}
Nil == "none"
Rows == [Rid -> Content \cup {Nil}]
Empty == [r \in Rid |-> Nil]
Default == [Empty EXCEPT ![1] = "a"]       \* DefaultRecords

\* What named-checkzone accepts: a CNAME stands alone at its name.
Loads(rows) ==
    \A r, q \in Rid : r # q /\ rows[r] = "cname" => rows[q] = Nil

\* A zone file as written: what it says, and its serial (0: no file).
NoFile == [rows |-> Empty, serial |-> 0]
All == "all"                               \* the scope of Apply
Op == {"create", "update", "delete", "host", "drop", "apply"}

VARIABLES
    installed,     \* BIND is on the machine
    hosted, rows, serial,     \* the tables dns_zones and dns_zone_records
    conf, configured,         \* the zone blocks of ConfigPath; it exists
    file,          \* the zone files
    served,        \* what BIND answers with
    error,         \* nameserver_error
    run,           \* what each editor is doing
    debt,          \* history: the zones whose last write failed (All: all)
    ready,         \* history: the start's Apply has begun
    edits, fails, crashes

tables == <<hosted, rows, serial>>
disk == <<conf, configured, file>>
vars == <<installed, hosted, rows, serial, conf, configured, file, served,
          error, run, debt, ready, edits, fails, crashes>>

At == {"idle", "row", "apply", "conf", "next", "rows", "serial", "bump",
       "put", "check", "reload", "undo"}
Idle == [at |-> "idle", op |-> "apply", zone |-> All, rid |-> 1, prev |-> Nil,
         new |-> Nil, scope |-> All, todo |-> {}, cur |-> All, read |-> Empty,
         num |-> 0, undoing |-> FALSE]

TypeOK ==
    /\ installed \in BOOLEAN /\ configured \in BOOLEAN
    /\ error \in BOOLEAN /\ ready \in BOOLEAN
    /\ hosted \subseteq Zone /\ conf \subseteq Zone
    /\ rows \in [Zone -> Rows]
    /\ serial \in [Zone -> Nat]
    /\ \A z \in Zone : \A f \in {file[z], served[z]} :
         f.rows \in Rows /\ f.serial \in Nat
    /\ debt \subseteq Zone \cup {All}
    /\ \A e \in Editor :
         /\ run[e].at \in At /\ run[e].op \in Op
         /\ run[e].todo \subseteq Zone
         /\ run[e].zone \in Zone \cup {All} /\ run[e].cur \in Zone \cup {All}
    /\ edits \in 0..MaxEdits /\ fails \in 0..MaxFails /\ crashes \in 0..MaxCrashes

Init ==
    /\ installed \in BOOLEAN
    /\ hosted = {} /\ rows = [z \in Zone |-> Empty] /\ serial = [z \in Zone |-> 0]
    /\ conf = {} /\ configured = FALSE
    /\ file = [z \in Zone |-> NoFile] /\ served = [z \in Zone |-> NoFile]
    /\ error = FALSE
    /\ run = [e \in Editor |-> Idle]
    /\ debt = {} /\ ready = TRUE
    /\ edits = 0 /\ fails = 0 /\ crashes = 0

\* Editor e goes on with its fields changed as in the record new.
Set(e, new) ==
    run' = [run EXCEPT ![e] = [f \in DOMAIN @ |-> IF f \in DOMAIN new THEN new[f] ELSE @[f]]]

Begin(e, new) ==
    /\ run[e].at = "idle" /\ edits < MaxEdits
    /\ edits' = edits + 1
    /\ Set(e, new)
    /\ UNCHANGED <<installed, hosted, rows, serial, conf, configured, file,
                   served, error, debt, fails, crashes>>

---------------------------------------------------------------------------
(* The edits of records and of zones, and everything that is only an Apply. *)

EditRecord(e, z, r, op, content) ==
    /\ z \in hosted
    /\ (op = "create") = (rows[z][r] = Nil)
    /\ Begin(e, [at |-> "row", op |-> op, zone |-> z, rid |-> r, new |-> content])
    /\ UNCHANGED ready

localCreate(e, z, r, content) == EditRecord(e, z, r, "create", content)
localUpdate(e, z, r, content) == EditRecord(e, z, r, "update", content)
localDelete(e, z, r) == EditRecord(e, z, r, "delete", Nil)

\* The pages and the tools: Upsert creates a record or updates the one that is
\* there, and deletes its duplicates one by one.
dnsStoreRecord(e, z) ==
    \E r \in Rid, c \in Content : localCreate(e, z, r, c) \/ localUpdate(e, z, r, c)
dnsDestroyRecord(e, z) == \E r \in Rid : localDelete(e, z, r)
mcpSetDNSRecord(e, z) ==
    \E r \in Rid, c \in Content : localCreate(e, z, r, c) \/ localUpdate(e, z, r, c)
mcpDeleteDNSRecord(e, z) == \E r \in Rid : localDelete(e, z, r)

nameserverZoneStore(e, z) ==
    /\ z \notin hosted
    /\ Begin(e, [at |-> "row", op |-> "host", zone |-> z])
    /\ UNCHANGED ready
mcpHostDNSZone(e, z) == nameserverZoneStore(e, z)

nameserverZoneDestroy(e, z) ==
    /\ z \in hosted
    /\ Begin(e, [at |-> "row", op |-> "drop", zone |-> z])
    /\ UNCHANGED ready
mcpRemoveHostedZone(e, z) == nameserverZoneDestroy(e, z)

\* The settings name the servers in every zone's file; they are saved, and then
\* as in the resync every zone is written.
nameserverResync(e) ==
    Begin(e, [at |-> "apply", op |-> "apply", scope |-> All]) /\ UNCHANGED ready
nameserverSettings(e) == nameserverResync(e)
mcpSetNameserverHostnames(e) == nameserverResync(e)

\* A variant that leaves the zones as they are.
StartApplyNot(e) ==
    /\ ~ready /\ ready' = TRUE
    /\ UNCHANGED <<installed, hosted, rows, serial, conf, configured, file, served,
                   error, run, debt, edits, fails, crashes>>

\* EnsureNameserverConfigured, once after a start.
StartApply(e) ==
    /\ ~ready /\ ready' = TRUE
    /\ run[e].at = "idle"
    /\ IF installed /\ hosted # {}
         THEN Set(e, [at |-> "apply", op |-> "apply", scope |-> All])
         ELSE UNCHANGED run
    /\ UNCHANGED <<installed, hosted, rows, serial, conf, configured, file,
                   served, error, debt, edits, fails, crashes>>

\* The install of the dns app: the package, then an Apply.
InstallBind(e) ==
    /\ ~installed /\ run[e].at = "idle"
    /\ installed' = TRUE
    /\ Set(e, [at |-> "apply", op |-> "apply", scope |-> All])
    /\ UNCHANGED <<hosted, rows, serial, conf, configured, file, served, error,
                   debt, ready, edits, fails, crashes>>

\* The row of an edit.  The records of a dropped zone go before the zone, a
\* new zone gets the default records; a record's zone is only checked first.
ChangeRow(e) ==
    LET me == run[e]  z == me.zone IN
    /\ me.at = "row"
    /\ CASE me.op = "host" ->
              IF z \in hosted
                THEN Set(e, Idle) /\ UNCHANGED tables
                ELSE /\ hosted' = hosted \cup {z}
                     /\ rows' = [rows EXCEPT ![z] = Default]
                     /\ serial' = [serial EXCEPT ![z] = 1]
                     /\ Set(e, [at |-> "apply", scope |-> All])
         [] me.op = "drop" ->
              \/ /\ rows[z] # Empty           \* the first of two statements
                 /\ rows' = [rows EXCEPT ![z] = Empty]
                 /\ UNCHANGED <<hosted, serial, run>>
              \/ /\ rows[z] = Empty
                 /\ hosted' = hosted \ {z}
                 /\ serial' = [serial EXCEPT ![z] = 0]
                 /\ UNCHANGED rows
                 /\ Set(e, [at |-> "apply", scope |-> All])
         [] OTHER ->
              \* The row is read for a rollback and then written.
              IF z \notin hosted \/ (me.op # "create" /\ rows[z][me.rid] = Nil)
                THEN Set(e, Idle) /\ UNCHANGED tables
                ELSE /\ rows' = [rows EXCEPT ![z][me.rid] = me.new]
                     /\ Set(e, [at |-> "apply", prev |-> rows[z][me.rid],
                                scope |-> IF configured THEN z ELSE All])
                     /\ UNCHANGED <<hosted, serial>>
    /\ UNCHANGED <<installed, conf, configured, file, served, error, debt,
                   ready, edits, fails, crashes>>

---------------------------------------------------------------------------
(* apply: the zones are read, the configuration written, and each zone's   *)
(* records read, its serial bumped in two statements, its file written and *)
(* checked, before BIND is told.                                           *)

ListZones(e) ==
    LET me == run[e] IN
    /\ me.at = "apply"
    /\ IF ~installed          \* ErrNotInstalled: the rows wait, no error
         THEN /\ error' = FALSE
              /\ Set(e, Idle)
         ELSE IF me.scope = All
         THEN Set(e, [at |-> "conf", todo |-> hosted]) /\ UNCHANGED error
         ELSE IF me.scope \in hosted
         THEN Set(e, [at |-> "next", todo |-> {me.scope}]) /\ UNCHANGED error
         ELSE /\ error' = FALSE                  \* deleted since: nothing to do
              /\ Set(e, Idle)
    /\ UNCHANGED <<installed, tables, disk, served, debt, ready, edits, fails, crashes>>

WriteConf(e) ==
    /\ run[e].at = "conf"
    /\ conf' = run[e].todo /\ configured' = TRUE
    /\ Set(e, [at |-> "next"])
    /\ UNCHANGED <<installed, tables, file, served, error, debt, ready, edits, fails, crashes>>

NextZone(e) ==
    /\ run[e].at = "next"
    /\ IF run[e].todo = {}
         THEN Set(e, [at |-> "reload"])
         ELSE \E z \in run[e].todo :
                Set(e, [at |-> "rows", cur |-> z, todo |-> run[e].todo \ {z}])
    /\ UNCHANGED <<installed, tables, disk, served, error, debt, ready, edits, fails, crashes>>

ReadRecords(e) ==
    /\ run[e].at = "rows"
    /\ Set(e, [at |-> "serial", read |-> rows[run[e].cur]])
    /\ UNCHANGED <<installed, tables, disk, served, error, debt, ready, edits, fails, crashes>>

\* A variant that takes the serial as it is.
ReadSerialOnly(e) ==
    /\ run[e].at = "serial"
    /\ Set(e, [at |-> "bump", num |-> serial[run[e].cur]])
    /\ UNCHANGED <<installed, tables, disk, served, error, debt, ready, edits, fails, crashes>>

\* BumpDNSZoneSerial: SELECT, NextSerialFor (one more than the highest), UPDATE.
ReadSerial(e) ==
    /\ run[e].at = "serial"
    /\ Set(e, [at |-> "bump", num |-> serial[run[e].cur] + 1])
    /\ UNCHANGED <<installed, tables, disk, served, error, debt, ready, edits, fails, crashes>>

WriteSerial(e) ==
    LET z == run[e].cur IN
    /\ run[e].at = "bump"
    /\ serial' = IF z \in hosted THEN [serial EXCEPT ![z] = run[e].num] ELSE serial
    /\ Set(e, [at |-> "put"])
    /\ UNCHANGED <<installed, hosted, rows, disk, served, error, debt, ready, edits, fails, crashes>>

\* The zone file: every record under the serial.
Render(recs, num) == [rows |-> recs, serial |-> num]

PutFile(e) ==
    /\ run[e].at = "put"
    /\ file' = [file EXCEPT ![run[e].cur] = Render(run[e].read, run[e].num)]
    /\ Set(e, [at |-> "check"])
    /\ UNCHANGED <<installed, tables, conf, configured, served, error, debt,
                   ready, edits, fails, crashes>>

\* An apply that ends without an error: remember(nil) clears the setting.
\* A failed one is remembered; an edit of a record then takes its row back
\* and rewrites the zone, whatever becomes of that.
Failed(e) ==
    LET me == run[e] IN
    /\ error' = TRUE
    /\ debt' = debt \cup {me.scope}
    /\ IF me.op \in {"create", "update"} /\ ~me.undoing
         THEN Set(e, [at |-> "undo"])
         ELSE Set(e, Idle)

CheckZone(e) ==
    /\ run[e].at = "check"
    /\ IF Loads(file[run[e].cur].rows)
         THEN Set(e, [at |-> "next"]) /\ UNCHANGED <<error, debt>>
         ELSE Failed(e)
    /\ UNCHANGED <<installed, tables, disk, served, ready, edits, fails, crashes>>

\* rndc reload of one zone; of a zone BIND does not know, or of all of them,
\* the whole configuration.  A zone that does not load keeps what it had.
Reload(e) ==
    LET me == run[e]
        which == IF me.scope # All /\ served[me.scope] # NoFile THEN {me.scope} ELSE Zone
    IN
    /\ me.at = "reload"
    /\ served' = [z \in Zone |->
                    IF z \notin which THEN served[z]
                    ELSE IF z \notin conf THEN NoFile
                    ELSE IF Loads(file[z].rows) THEN file[z] ELSE served[z]]
    /\ error' = FALSE
    /\ debt' = IF me.scope = All THEN {} ELSE debt \ {me.scope}
    /\ Set(e, Idle)
    /\ UNCHANGED <<installed, tables, disk, ready, edits, fails, crashes>>

\* A file that cannot be written, or a BIND that will not reload.
CommandFails(e) ==
    /\ run[e].at \in {"conf", "put", "reload"} /\ fails < MaxFails
    /\ fails' = fails + 1
    /\ Failed(e)
    /\ UNCHANGED <<installed, tables, disk, served, ready, edits, crashes>>

\* The row as it was (a created one is deleted), and the zone once more.
UndoRow(e) ==
    LET me == run[e] IN
    /\ me.at = "undo"
    /\ rows' = IF me.op = "create" \/ rows[me.zone][me.rid] # Nil
               THEN [rows EXCEPT ![me.zone][me.rid] = me.prev] ELSE rows
    /\ Set(e, [at |-> "apply", undoing |-> TRUE,
               scope |-> IF configured THEN me.zone ELSE All])
    /\ UNCHANGED <<installed, hosted, serial, disk, served, error, debt, ready,
                   edits, fails, crashes>>

---------------------------------------------------------------------------
\* The panel dies; it applies everything again when it starts.
Crash ==
    /\ crashes < MaxCrashes /\ crashes' = crashes + 1
    /\ run' = [e \in Editor |-> Idle]
    /\ ready' = FALSE
    /\ UNCHANGED <<installed, tables, disk, served, error, debt, edits, fails>>

\* BIND restarts (a reboot, an upgrade of its package) and reads its files.
BindRestarts ==
    /\ installed /\ crashes < MaxCrashes /\ crashes' = crashes + 1
    /\ served' = [z \in Zone |->
                    IF z \in conf /\ Loads(file[z].rows) THEN file[z] ELSE NoFile]
    /\ UNCHANGED <<installed, tables, disk, error, run, debt, ready, edits, fails>>

Next ==
    \/ \E e \in Editor :
         \/ \E z \in Zone :
              \/ dnsStoreRecord(e, z) \/ dnsDestroyRecord(e, z)
              \/ mcpSetDNSRecord(e, z) \/ mcpDeleteDNSRecord(e, z)
              \/ nameserverZoneStore(e, z) \/ nameserverZoneDestroy(e, z)
              \/ mcpHostDNSZone(e, z) \/ mcpRemoveHostedZone(e, z)
         \/ nameserverResync(e) \/ nameserverSettings(e) \/ mcpSetNameserverHostnames(e)
         \/ StartApply(e) \/ InstallBind(e)
         \/ ChangeRow(e) \/ UndoRow(e)
         \/ ListZones(e) \/ WriteConf(e) \/ NextZone(e) \/ ReadRecords(e)
         \/ ReadSerial(e) \/ WriteSerial(e) \/ PutFile(e) \/ CheckZone(e)
         \/ Reload(e) \/ CommandFails(e)
    \/ Crash \/ BindRestarts

Spec == Init /\ [][Next]_vars

---------------------------------------------------------------------------
AtRest == installed /\ ready /\ \A e \in Editor : run[e].at = "idle"

\* With edits one after another, whatever fails or dies in between: when
\* nothing is going on, BIND answers every hosted zone with the rows as the
\* pages list them, and the file it would read on its next restart says the
\* same; unless the last write of that zone, or of all, was reported to have
\* failed.  A zone no longer hosted is not answered for as long as another
\* one is (when the last one goes and the panel dies, the start does nothing).
RowsAreServed ==
    AtRest /\ All \notin debt =>
      \A z \in Zone :
        /\ z \in hosted \ debt => /\ served[z].rows = rows[z]
                                  /\ served[z] = file[z]
        /\ z \notin hosted /\ hosted # {} => served[z] = NoFile

\* dns_zone.go:188, "never allowed to go backwards": while a zone is hosted its
\* serial does not, and BIND never answers with other records under a serial
\* it has answered with before (or a smaller one), through failing commands, rows
\* taken back, zones dropped and hosted again, crashes and restarts of BIND.  What is
\* left of an earlier hosting under a higher serial is not covered.
SerialGrows ==
    \A z \in hosted \cap hosted' :
        /\ serial'[z] >= serial[z]
        /\ /\ NoFile \notin {served[z], served'[z]} /\ served[z].serial <= serial[z]
           /\ served'[z].rows # served[z].rows
           => served'[z].serial > served[z].serial

\* What hosting a zone promises: its rows are answered, and resolvers that ask
\* by serial are told of every change.
ZonesKept == [][SerialGrows /\ RowsAreServed']_vars
=============================================================================
