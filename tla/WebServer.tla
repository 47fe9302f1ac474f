------------------------------ MODULE WebServer ------------------------------
(***************************************************************************)
(* nginx's configuration: the vhost of each site and the conf.d file that  *)
(* declares its cache zone, as internal/sites/settings.go and              *)
(* internal/sites/service.go write them.                                   *)
(*                                                                         *)
(* nginx takes the whole of it or nothing, so one site's file can have     *)
(* another site's change refused.  The pages change a row, write its files, *)
(* have nginx test everything, and put back what they read before; jobs    *)
(* write the same files.  Nothing holds a lock.                            *)
(***************************************************************************)
EXTENDS Naturals

CONSTANTS
    Site,
    Writer,        \* requests, tools and workers, side by side
    MaxEdits,      \* bound: operations begun
    MaxTroubles    \* bound: reloads that fail, deaths of the panel, and hand
                   \* edits of other files that nginx does not load

WebAssumption == "none" \notin Site /\ MaxEdits \in Nat /\ MaxTroubles \in Nat

Value == {"a", "b"}            \* aliases, PHP version, PHP settings, web directory
Row == [cache : BOOLEAN, value : Value, ssl : BOOLEAN]
NoVhost == [zone |-> FALSE, value |-> "none", tls |-> FALSE]

VARIABLES
    present, row,  \* the sites and what their rows say
    zone,          \* the sites with a conf.d file that declares the zone
    vhost,         \* the file in sites-available
    enabled,       \* the links in sites-enabled
    cert,          \* the certificates that have been issued
    broken,        \* somebody's edit of another file does not load
    run,           \* what each writer is doing
    stray,         \* history: the sites whose row and files may have parted
    edits, troubles

files == <<zone, vhost, enabled, cert>>
vars == <<present, row, files, broken, run, stray, edits, troubles>>

NewRow == [cache |-> FALSE, value |-> "a", ssl |-> TRUE]
Page == {"cache", "value", "setting"}        \* value: put back when refused
Op == Page \cup {"deploy", "certificate", "destroy", "none"}
At == {"idle", "row", "zone", "read", "write", "test", "back", "reload", "undo",
       "rezone", "cert", "https", "plain"}
Idle == [at |-> "idle", op |-> "none", site |-> "none", to |-> NewRow,
         before |-> NewRow, read |-> NewRow, previous |-> NoVhost]

TypeOK ==
    /\ present \subseteq Site /\ row \in [Site -> Row]
    /\ zone \subseteq Site /\ enabled \subseteq Site /\ cert \subseteq Site
    /\ \A s \in Site : vhost[s] = NoVhost \/ vhost[s].value \in Value
    /\ broken \in BOOLEAN
    /\ \A w \in Writer : /\ run[w].at \in At /\ run[w].op \in Op
                         /\ run[w].site \in Site \cup {"none"}
                         /\ {run[w].to, run[w].before, run[w].read} \subseteq Row
    /\ stray \subseteq Site
    /\ edits \in 0..MaxEdits /\ troubles \in 0..MaxTroubles

Init ==
    /\ present = {} /\ row = [s \in Site |-> NewRow]
    /\ zone = {} /\ vhost = [s \in Site |-> NoVhost] /\ enabled = {} /\ cert = {}
    /\ broken = FALSE
    /\ run = [w \in Writer |-> Idle]
    /\ stray = {} /\ edits = 0 /\ troubles = 0

\* nginx -t: a vhost that names a zone nothing declares is refused, and with
\* it everything else.
Loads == ~broken /\ \A s \in enabled : vhost[s].zone => s \in zone

\* RenderVhost.
Render(r, tls) == [zone |-> r.cache, value |-> r.value, tls |-> tls]

Goto(w, step) == run' = [run EXCEPT ![w] = [@ EXCEPT !.at = step]]
Stop(w) == run' = [run EXCEPT ![w] = Idle]

---------------------------------------------------------------------------
\* Two at once on one site are noted.
Begin(w, s, op, step, to) ==
    /\ run[w].at = "idle" /\ edits < MaxEdits /\ edits' = edits + 1
    /\ run' = [run EXCEPT ![w] = [Idle EXCEPT !.at = step, !.op = op, !.site = s, !.to = to]]
    /\ stray' = IF \E v \in Writer : run[v].site = s THEN stray \cup {s} ELSE stray

\* A page's change of a site that is there.
Edit(w, s, op, to) ==
    /\ s \in present
    /\ Begin(w, s, op, "row", to)
    /\ UNCHANGED <<present, row, files, broken, troubles>>

SetCache(w, s) == \E c \in BOOLEAN : Edit(w, s, "cache", [NewRow EXCEPT !.cache = c])
SetAliases(w, s) == \E v \in Value : Edit(w, s, "value", [NewRow EXCEPT !.value = v])
SetPHPVersion(w, s) == \E v \in Value : Edit(w, s, "value", [NewRow EXCEPT !.value = v])
SetPHPSettings(w, s) == \E v \in Value : Edit(w, s, "setting", [NewRow EXCEPT !.value = v])
SetWebDirectory(w, s) == \E v \in Value : Edit(w, s, "setting", [NewRow EXCEPT !.value = v])

\* The pages and the tools that call them.  (applyAliases then asks for a
\* certificate, a job that may begin at any time here; emptying a cache and
\* reading settings change nothing.  A PHP the machine does not run yet is
\* installed by a job first, which may fail before it changes anything.)
applyAliases(w, s) == SetAliases(w, s)
sitesSettings(w, s) == applyAliases(w, s) \/ SetWebDirectory(w, s)
movePHPVersion(w, s) == SetPHPVersion(w, s)
sitesPHPVersion(w, s) == SetPHPVersion(w, s) \/ movePHPVersion(w, s)
sitesPHP(w, s) == sitesPHPVersion(w, s) \/ SetPHPSettings(w, s)
sitesCache(w, s) == SetCache(w, s)
mcpSetWebDirectory(w, s) == SetWebDirectory(w, s)
mcpSetSiteAliases(w, s) == applyAliases(w, s)
mcpMovePHPVersion(w, s) == SetPHPVersion(w, s) \/ movePHPVersion(w, s)
mcpSitePHPSettings(w, s) == mcpMovePHPVersion(w, s) \/ SetPHPSettings(w, s)
mcpSiteCache(w, s) == SetCache(w, s)

\* A site is created, and deployed; or deployed again.
Deploy(w, s) ==
    /\ Begin(w, s, "deploy", "row", NewRow)
    /\ present' = present \cup {s}
    /\ row' = IF s \in present THEN row ELSE [row EXCEPT ![s] = NewRow]
    /\ UNCHANGED <<files, broken, troubles>>

Certificate(w, s) ==
    /\ s \in present /\ row[s].ssl
    /\ Begin(w, s, "certificate", "cert", NewRow)
    /\ UNCHANGED <<present, row, files, broken, troubles>>

\* Destroy: everything of the site in one command, then the test.
Destroy(w, s) ==
    /\ s \in present
    /\ Begin(w, s, "destroy", "test", NewRow)
    /\ zone' = zone \ {s} /\ enabled' = enabled \ {s}
    /\ vhost' = [vhost EXCEPT ![s] = NoVhost]
    /\ UNCHANGED <<present, row, cert, broken, troubles>>

\* The row is read, and the page's change stored.
StoreRow(w) ==
    LET me == run[w]  s == me.site IN
    /\ me.at = "row"
    /\ row' = CASE me.op = "cache" -> [row EXCEPT ![s].cache = me.to.cache]
                [] me.op = "deploy" -> row
                [] OTHER -> [row EXCEPT ![s].value = me.to.value]
    /\ run' = [run EXCEPT ![w] =
                  [@ EXCEPT !.at = IF me.op \in {"cache", "deploy"} THEN "zone" ELSE "read",
                            !.before = row[s], !.read = row'[s]]]
    /\ UNCHANGED <<present, files, broken, stray, edits, troubles>>

\* writeCacheConfig, by a row read before.
ZonesBy(r, s) == IF r.cache THEN zone \cup {s} ELSE zone \ {s}

WriteCacheConfig(w) ==
    /\ run[w].at = "zone"
    /\ zone' = ZonesBy(run[w].read, run[w].site)
    /\ Goto(w, IF run[w].op = "deploy" THEN "write" ELSE "read")
    /\ UNCHANGED <<present, row, vhost, enabled, cert, broken, stray, edits, troubles>>

\* The cache's directory or file cannot be written.
CacheConfigFails(w) ==
    /\ run[w].at = "zone" /\ troubles < MaxTroubles /\ troubles' = troubles + 1
    /\ IF run[w].op = "deploy" THEN Stop(w) ELSE Goto(w, "undo")
    /\ UNCHANGED <<present, row, files, broken, stray, edits>>

\* rewriteVhost reads the row again, and the file it is about to replace.
ReadPrevious(w) ==
    /\ run[w].at = "read"
    /\ run' = [run EXCEPT ![w] = [@ EXCEPT !.at = "write", !.read = row[run[w].site],
                                           !.previous = vhost[run[w].site]]]
    /\ UNCHANGED <<present, row, files, broken, stray, edits, troubles>>

\* The vhost: of a page as the row and the certificate have it, of a deployment
\* without HTTPS and linked, of a certificate with HTTPS.
WriteVhost(w) ==
    LET me == run[w]  s == me.site IN
    /\ me.at = "write"
    /\ vhost' = [vhost EXCEPT ![s] =
                   Render(me.read, IF me.op \in Page THEN me.read.ssl /\ s \in cert
                                   ELSE me.op = "certificate")]
    /\ enabled' = IF me.op = "deploy" THEN enabled \cup {s} ELSE enabled
    /\ Goto(w, "test")
    /\ UNCHANGED <<present, row, zone, cert, broken, stray, edits, troubles>>

\* A deployment, or a removal, that is refused stops there.
Test(w) ==
    LET me == run[w] IN
    /\ me.at = "test"
    /\ IF Loads THEN Goto(w, "reload")
       ELSE IF me.op \in Page THEN Goto(w, "back")
       ELSE IF me.op = "certificate" THEN Goto(w, "plain")
       ELSE Stop(w)
    /\ UNCHANGED <<present, row, files, broken, stray, edits, troubles>>

\* A variant that leaves the refused file where it is.
PutBackNot(w) ==
    /\ run[w].at = "back"
    /\ Goto(w, "undo")
    /\ UNCHANGED <<present, row, files, broken, stray, edits, troubles>>

\* The file as it was read; an empty one is not put back.
PutBack(w) ==
    LET me == run[w] IN
    /\ me.at = "back"
    /\ vhost' = IF me.previous = NoVhost THEN vhost
                ELSE [vhost EXCEPT ![me.site] = me.previous]
    /\ stray' = IF me.previous = NoVhost THEN stray \cup {me.site} ELSE stray
    /\ Goto(w, "undo")
    /\ UNCHANGED <<present, row, zone, enabled, cert, broken, edits, troubles>>

\* What the page does about the row when rewriteVhost returned an error.
UndoRow(w) ==
    LET me == run[w]  s == me.site IN
    /\ me.at = "undo"
    /\ row' = CASE me.op = "cache" -> [row EXCEPT ![s].cache = me.before.cache]
                [] me.op = "value" -> [row EXCEPT ![s].value = me.before.value]
                [] OTHER -> row
    /\ IF me.op = "cache" THEN run' = [run EXCEPT ![w] = [@ EXCEPT !.at = "rezone", !.read = row'[s]]]
       ELSE Stop(w)
    /\ stray' = IF me.op = "setting" THEN stray \cup {s} ELSE stray
    /\ UNCHANGED <<present, files, broken, edits, troubles>>

RestoreZone(w) ==
    /\ run[w].at = "rezone"
    /\ zone' = ZonesBy(run[w].read, run[w].site)
    /\ Stop(w)
    /\ UNCHANGED <<present, row, vhost, enabled, cert, broken, stray, edits, troubles>>

\* systemctl reload.  A deployment goes on to the certificate if the site is to
\* have one, a removal to the row.
Reload(w) ==
    LET me == run[w]  s == me.site IN
    /\ me.at = "reload"
    /\ IF me.op = "deploy" /\ me.read.ssl THEN Goto(w, "cert") ELSE Stop(w)
    /\ row' = IF me.op = "certificate" THEN [row EXCEPT ![s].ssl = TRUE] ELSE row
    /\ present' = IF me.op = "destroy" THEN present \ {s} ELSE present
    /\ UNCHANGED <<files, broken, stray, edits, troubles>>

\* The page takes it for a refusal, and the file stays.
ReloadFails(w) ==
    LET me == run[w] IN
    /\ me.at = "reload" /\ troubles < MaxTroubles /\ troubles' = troubles + 1
    /\ IF me.op \in Page THEN Goto(w, "undo") ELSE Stop(w)
    /\ stray' = IF me.op \in Page THEN stray \cup {me.site} ELSE stray
    /\ UNCHANGED <<present, row, files, broken, edits>>

\* requestCertificate and enableHTTPS: certbot may not issue one, which ends
\* the wish for HTTPS.  (Both are optional steps of a deployment.)
Onward(w) == run' = [run EXCEPT ![w] = [@ EXCEPT !.at = "https", !.op = "certificate"]]

RequestCertificate(w) ==
    LET me == run[w]  s == me.site IN
    /\ me.at = "cert"
    /\ \/ cert' = cert \cup {s} /\ Onward(w)
       \/ UNCHANGED cert /\ IF me.op = "certificate" THEN Stop(w) ELSE Onward(w)
    /\ UNCHANGED <<present, row, zone, vhost, enabled, broken, stray, edits, troubles>>

EnableHTTPS(w) ==
    LET s == run[w].site IN
    /\ run[w].at = "https"
    /\ IF s \notin cert
         THEN row' = [row EXCEPT ![s].ssl = FALSE] /\ Stop(w)
         ELSE /\ run' = [run EXCEPT ![w] = [@ EXCEPT !.at = "write", !.read = row[s]]]
              /\ UNCHANGED row
    /\ UNCHANGED <<present, files, broken, stray, edits, troubles>>

BackToHTTP(w) ==
    LET me == run[w]  s == me.site IN
    /\ me.at = "plain"
    /\ vhost' = [vhost EXCEPT ![s] = Render(me.read, FALSE)]
    /\ row' = [row EXCEPT ![s].ssl = FALSE]
    /\ Stop(w)
    /\ UNCHANGED <<present, zone, enabled, cert, broken, stray, edits, troubles>>

---------------------------------------------------------------------------
HandEdit ==
    /\ ~broken /\ troubles < MaxTroubles /\ troubles' = troubles + 1
    /\ broken' = TRUE
    /\ UNCHANGED <<present, row, files, run, stray, edits>>

HandRepair ==
    /\ broken /\ broken' = FALSE
    /\ UNCHANGED <<present, row, files, run, stray, edits, troubles>>

Crash ==
    /\ troubles < MaxTroubles /\ troubles' = troubles + 1
    /\ run' = [w \in Writer |-> Idle]
    /\ stray' = stray \cup {s \in Site : \E w \in Writer : run[w].site = s}
    /\ UNCHANGED <<present, row, files, broken, edits>>

Next ==
    \/ \E w \in Writer :
         \/ \E s \in Site :
              \/ sitesSettings(w, s) \/ sitesPHP(w, s) \/ sitesCache(w, s)
              \/ mcpSetWebDirectory(w, s) \/ mcpSetSiteAliases(w, s)
              \/ mcpSitePHPSettings(w, s) \/ mcpSiteCache(w, s)
              \/ Deploy(w, s) \/ Certificate(w, s) \/ Destroy(w, s)
         \/ StoreRow(w) \/ WriteCacheConfig(w) \/ CacheConfigFails(w) \/ ReadPrevious(w) \/ WriteVhost(w)
         \/ Test(w) \/ PutBack(w) \/ UndoRow(w) \/ RestoreZone(w)
         \/ Reload(w) \/ ReloadFails(w)
         \/ RequestCertificate(w) \/ EnableHTTPS(w) \/ BackToHTTP(w)
    \/ HandEdit \/ HandRepair \/ Crash

Spec == Init /\ [][Next]_vars

---------------------------------------------------------------------------
AtRest(s) == \A w \in Writer : run[w].site # s

\* Of every enabled site nobody is writing: its row, its vhost and its zone
\* file say the same, and the vhost names no zone and no certificate that is
\* not there, whoever else's change was refused meanwhile, accepted or given
\* up half-way.  The sites in stray are not covered.
RowsOnDisk ==
    \A s \in enabled \ stray : AtRest(s) =>
        /\ vhost[s].zone = row[s].cache /\ vhost[s].value = row[s].value
        /\ (s \in zone) = row[s].cache
        /\ vhost[s].tls => s \in cert
==============================================================================
