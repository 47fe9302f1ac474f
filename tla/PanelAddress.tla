---------------------------- MODULE PanelAddress ----------------------------
(***************************************************************************)
(* Where the panel answers: internal/web/system.go, from updateDomain to   *)
(* refreshPanelVhost.  One file of nginx names the panel's port, the       *)
(* hostname and the hostname's certificate; four changes write it, each in *)
(* several commands: the job that sets the hostname, the page that moves   *)
(* the port, the app that needs a location in it, and the panel's start.   *)
(* Nothing keeps two of them apart.                                        *)
(***************************************************************************)
EXTENDS Naturals, FiniteSets

CONSTANTS
    Actor,         \* the workers and requests that may be changing the address
    Host, NoHost,  \* hostnames, and none
    Port,          \* ports the panel may be on
    MaxChanges,    \* bound: changes asked for
    MaxTroubles,   \* bound: times the rest of nginx's configuration is broken,
                   \* or a certificate removed
    MaxCrashes     \* bound: deaths of the panel

\* What is assumed of the constants, by the module that gives them values.
AddressAssumption == /\ NoHost \notin Host /\ Port # {}
                     /\ MaxChanges \in Nat /\ MaxTroubles \in Nat /\ MaxCrashes \in Nat

VARIABLES
    domain, tls, port,   \* the settings panel_domain, panel_domain_tls, panel_port
    opened,        \* the ports ufw lets through
    file, served,  \* the panel's vhost on disk, and the one nginx loaded
    certs,         \* the hostnames with a certificate on disk
    gone,          \* history: those whose certificate was removed
    broken,        \* nginx refuses the configuration for a file that is not this one
    run,           \* what each actor is doing
    torn,          \* history: a change was cut off, left the file behind, or ran
                   \* beside another, and none has put it right since
    changes, troubles, crashes

vars == <<domain, tls, port, opened, file, served, certs, gone, broken, run, torn,
          changes, troubles, crashes>>
settings == <<domain, tls, port>>
world == <<certs, gone, broken, changes, troubles, crashes>>

Vhost == [host : Host \cup {NoHost}, port : Port, secure : BOOLEAN]

\* panelVhost: the panel on its port and, when there is one, on its hostname.
panelVhost(h, p, secure) == [host |-> h, port |-> p, secure |-> secure /\ h # NoHost]

\* What refreshPanelVhost writes: the certificate the setting promises has to be
\* on disk.
Wanted == panelVhost(domain, port, tls /\ domain \in certs)

Nowhere == panelVhost(NoHost, CHOOSE p \in Port : TRUE, FALSE)
Idle == [name |-> "idle", at |-> "idle", host |-> NoHost, port |-> Nowhere.port,
         old |-> Nowhere, new |-> Nowhere, alone |-> TRUE]

TypeOK ==
    /\ domain \in Host \cup {NoHost} /\ tls \in BOOLEAN /\ port \in Port
    /\ opened \subseteq Port /\ file \in Vhost /\ served \in Vhost
    /\ certs \cup gone \subseteq Host /\ broken \in BOOLEAN /\ torn \in BOOLEAN
    /\ \A a \in Actor :
        /\ run[a].name \in {"idle", "domain", "move", "back", "app", "start"}
        /\ run[a].at \in {"idle", "plain", "enable", "remember", "certbot", "https",
                          "test", "reload", "flag", "read", "write", "check", "load",
                          "shared"}
        /\ run[a].host \in Host \cup {NoHost} /\ run[a].port \in Port
        /\ {run[a].old, run[a].new} \subseteq Vhost
    /\ changes \in 0..MaxChanges /\ troubles \in 0..MaxTroubles
    /\ crashes \in 0..MaxCrashes

-----------------------------------------------------------------------------
(* nginx and the steps of a change.                                        *)

\* nginx -t: a certificate that is named has to be there.
Accepts == ~broken /\ (file.secure => file.host \in certs)
\* A reload of a configuration nginx refuses leaves the one it has.
Load == served' = IF Accepts THEN file ELSE served

Others(a) == {b \in Actor \ {a} : run[b].at # "idle"}

\* A change beside another: neither is alone.
Begin(a, r) ==
    /\ run[a].at = "idle"
    /\ run' = [b \in Actor |->
                 IF b = a THEN [r EXCEPT !.alone = Others(a) = {}]
                 ELSE IF b \in Others(a) THEN [run[b] EXCEPT !.alone = FALSE]
                 ELSE run[b]]
    /\ torn' = (torn \/ Others(a) # {})

At(a, name, at) == run[a].name \in name /\ run[a].at = at
Go(a, at) == run' = [run EXCEPT ![a].at = at] /\ UNCHANGED torn
\* The change is over, with nginx serving what it wrote.
Done(a) == /\ run' = [run EXCEPT ![a] = Idle]
           /\ torn' = (torn /\ ~run[a].alone)
\* The change is over and the file may not be what the settings say.
Leave(a) == run' = [run EXCEPT ![a] = Idle] /\ torn' = TRUE
\* The change is over and changed nothing.
Stop(a) == run' = [run EXCEPT ![a] = Idle] /\ UNCHANGED torn

-----------------------------------------------------------------------------
(* The job of a hostname: configurePanelDomain.                            *)

\* The port is read once, before the first command.
configurePanelDomain(a, h) ==
    /\ changes < MaxChanges /\ changes' = changes + 1
    /\ Begin(a, [Idle EXCEPT !.name = "domain", !.at = "plain", !.host = h, !.port = port])
    /\ UNCHANGED <<settings, opened, file, served, certs, gone, broken, troubles, crashes>>

updateDomain(a, h) == configurePanelDomain(a, h)
mcpSetPanelDomain(a, h) == configurePanelDomain(a, h)

\* Plain first: the certificate is not there yet.
WritePlain(a) ==
    /\ At(a, {"domain"}, "plain")
    /\ file' = panelVhost(run[a].host, run[a].port, FALSE)
    /\ Go(a, "enable")
    /\ UNCHANGED <<settings, opened, served, world>>

\* The ports are opened, the configuration tested and loaded; refused, the task
\* stops there and the file stays.
EnableVhost(a) ==
    /\ At(a, {"domain"}, "enable")
    /\ opened' = opened \cup {run[a].port}
    /\ Load
    /\ IF Accepts THEN Go(a, "remember") ELSE Leave(a)
    /\ UNCHANGED <<settings, file, world>>

Remember(a) ==
    /\ At(a, {"domain"}, "remember")
    /\ domain' = run[a].host /\ tls' = FALSE
    /\ Go(a, "certbot")
    /\ UNCHANGED <<port, opened, file, served, world>>

\* Certbot may be missing, or refused: the step is optional.
RequestCertificate(a) ==
    /\ At(a, {"domain"}, "certbot")
    /\ certs' \in {certs, certs \cup {run[a].host}}
    /\ gone' = gone \ certs'
    /\ Go(a, "https")
    /\ UNCHANGED <<settings, opened, file, served, broken, changes, troubles, crashes>>

NoCertificate(a) ==
    /\ At(a, {"domain"}, "https") /\ run[a].host \notin certs
    /\ tls' = FALSE
    /\ Done(a)
    /\ UNCHANGED <<domain, port, opened, file, served, world>>

WriteSecure(a) ==
    /\ At(a, {"domain"}, "https") /\ run[a].host \in certs
    /\ file' = panelVhost(run[a].host, run[a].port, TRUE)
    /\ Go(a, "test")
    /\ UNCHANGED <<settings, opened, served, world>>

\* The variant to break it: the file is left as nginx refused it.
SecureRefusedLeft(a) ==
    /\ At(a, {"domain"}, "test") /\ ~Accepts
    /\ Stop(a)
    /\ UNCHANGED <<settings, opened, file, served, world>>

\* Refused, the plain file is put back and loaded: the panel is where it was.
SecureRefused(a) ==
    /\ At(a, {"domain"}, "test") /\ ~Accepts
    /\ file' = panelVhost(run[a].host, run[a].port, FALSE)
    /\ Stop(a)
    /\ served' = IF broken THEN served ELSE file'
    /\ UNCHANGED <<settings, opened, world>>

SecureAccepted(a) ==
    /\ At(a, {"domain"}, "test") /\ Accepts
    /\ Go(a, "reload")
    /\ UNCHANGED <<settings, opened, file, served, world>>

ReloadSecure(a) ==
    /\ At(a, {"domain"}, "reload")
    /\ Load
    /\ IF Accepts THEN Go(a, "flag") ELSE Leave(a)
    /\ UNCHANGED <<settings, opened, file, world>>

RememberSecure(a) ==
    /\ At(a, {"domain"}, "flag")
    /\ tls' = TRUE
    /\ Done(a)
    /\ UNCHANGED <<domain, port, opened, file, served, world>>

-----------------------------------------------------------------------------
(* The page that moves the port, the app and the start.                    *)

\* The firewall, then the setting, then the vhost.
movePanelPort(a, p) ==
    /\ changes < MaxChanges /\ changes' = changes + 1
    /\ p # port
    /\ Begin(a, [Idle EXCEPT !.name = "move", !.at = "read", !.port = port])
    /\ opened' = opened \cup {p} /\ port' = p
    /\ UNCHANGED <<domain, tls, file, served, certs, gone, broken, troubles, crashes>>

ensurePhpMyAdminServed(a) ==
    /\ changes < MaxChanges /\ changes' = changes + 1
    /\ Begin(a, [Idle EXCEPT !.name = "app", !.at = "read"])
    /\ UNCHANGED <<settings, opened, file, served, certs, gone, broken, troubles, crashes>>

Refreshes == {"move", "back", "app", "start"}

\* What follows refreshPanelVhost.  A port that was not taken goes back into the
\* setting, and the vhost is written once more; left says that the file stayed.
Refused(a, left) ==
    IF run[a].name = "move"
    THEN /\ port' = run[a].port
         /\ run' = [run EXCEPT ![a].name = "back", ![a].at = "read"]
         /\ torn' = (torn \/ left)
    ELSE /\ IF left THEN Leave(a) ELSE Stop(a)
         /\ UNCHANGED port

\* The same text is not written, nor loaded.
SameText(a) ==
    /\ At(a, Refreshes, "read") /\ file = Wanted
    /\ IF run[a].name = "start" THEN Go(a, "shared") ELSE Stop(a)
    /\ UNCHANGED <<settings, opened, file, served, world>>

ReadVhost(a) ==
    /\ At(a, Refreshes, "read") /\ file # Wanted
    /\ run' = [run EXCEPT ![a].old = file, ![a].new = Wanted, ![a].at = "write"]
    /\ UNCHANGED <<settings, opened, file, served, torn, world>>

WriteVhost(a) ==
    /\ At(a, Refreshes, "write")
    /\ file' = run[a].new
    /\ Go(a, "check")
    /\ UNCHANGED <<settings, opened, served, world>>

VhostAccepted(a) ==
    /\ At(a, Refreshes, "check") /\ Accepts
    /\ Go(a, "load")
    /\ UNCHANGED <<settings, opened, file, served, world>>

\* nginx will not have it: what was read is put back.
VhostRefused(a) ==
    /\ At(a, Refreshes, "check") /\ ~Accepts
    /\ file' = run[a].old
    /\ served' = IF ~broken /\ (file'.secure => file'.host \in certs) THEN file' ELSE served
    /\ Refused(a, FALSE)
    /\ UNCHANGED <<domain, tls, opened, world>>

LoadVhost(a) ==
    /\ At(a, Refreshes, "load")
    /\ Load
    /\ IF ~Accepts THEN Refused(a, TRUE)
       ELSE /\ IF run[a].name = "start" THEN Go(a, "shared") ELSE Done(a)
            /\ UNCHANGED port
    /\ UNCHANGED <<domain, tls, opened, file, world>>

\* EnsurePanelAddress ends with the shared configuration, a test and a reload.
LoadShared(a) ==
    /\ At(a, {"start"}, "shared")
    /\ Load
    /\ IF Accepts THEN Done(a) ELSE Stop(a)
    /\ UNCHANGED <<settings, opened, file, world>>

\* The panel dies and starts: whatever it was doing is cut off, and its start
\* opens the port and looks at the vhost.
Crash(a) ==
    /\ crashes < MaxCrashes /\ crashes' = crashes + 1
    /\ torn' = (torn \/ \E b \in Actor : run[b].at # "idle")
    /\ run' = [b \in Actor |-> IF b = a THEN [Idle EXCEPT !.name = "start", !.at = "read"]
                               ELSE Idle]
    /\ opened' = opened \cup {port}
    /\ UNCHANGED <<settings, file, served, certs, gone, broken, changes, troubles>>

-----------------------------------------------------------------------------
(* The rest of the machine.                                                *)

\* Another file of nginx's is broken, or mended.
Break ==
    /\ \/ ~broken /\ troubles < MaxTroubles /\ troubles' = troubles + 1
       \/ broken /\ UNCHANGED troubles
    /\ broken' = ~broken
    /\ UNCHANGED <<settings, opened, file, served, certs, gone, run, torn, changes, crashes>>

Disturbed == [a \in Actor |-> [run[a] EXCEPT !.alone = (@ /\ run[a].at = "idle")]]

\* A site's job reloads nginx between a change's commands.
ReloadElsewhere ==
    /\ file # served /\ Accepts
    /\ Load
    /\ run' = Disturbed /\ torn' = TRUE
    /\ UNCHANGED <<settings, opened, file, world>>

\* A certificate is removed under a vhost.
RemoveCertificate(h) ==
    /\ h \in certs /\ troubles < MaxTroubles /\ troubles' = troubles + 1
    /\ certs' = certs \ {h} /\ gone' = gone \cup {h}
    /\ torn' = (torn \/ domain = h)
    /\ run' = Disturbed
    /\ UNCHANGED <<settings, opened, file, served, broken, changes, crashes>>

Init ==
    /\ domain = NoHost /\ tls = FALSE /\ port \in Port
    /\ opened = {port} /\ file = panelVhost(NoHost, port, FALSE) /\ served = file
    /\ certs = {} /\ gone = {} /\ broken = FALSE
    /\ run = [a \in Actor |-> Idle] /\ torn = FALSE
    /\ changes = 0 /\ troubles = 0 /\ crashes = 0

Next ==
    \/ \E a \in Actor :
        \/ \E h \in Host : updateDomain(a, h) \/ mcpSetPanelDomain(a, h)
        \/ WritePlain(a) \/ EnableVhost(a) \/ Remember(a) \/ RequestCertificate(a)
        \/ NoCertificate(a) \/ WriteSecure(a) \/ SecureRefused(a) \/ SecureAccepted(a)
        \/ ReloadSecure(a) \/ RememberSecure(a)
        \/ \E p \in Port : movePanelPort(a, p)
        \/ ensurePhpMyAdminServed(a)
        \/ SameText(a) \/ ReadVhost(a) \/ WriteVhost(a) \/ VhostAccepted(a)
        \/ VhostRefused(a) \/ LoadVhost(a) \/ LoadShared(a)
        \/ Crash(a)
    \/ Break \/ ReloadElsewhere \/ \E h \in Host : RemoveCertificate(h)

Spec == Init /\ [][Next]_vars

-----------------------------------------------------------------------------
(* Properties.                                                             *)

\* Whatever changes run side by side, are refused or cut off, the port nginx
\* serves the panel on is one the firewall lets through: nobody is locked out of
\* their own panel by a move (movePanelPort's comment).
Reachable == served.port \in opened

\* The panel's vhost never names a certificate that was not issued, so it is not
\* the file for which nginx refuses every site of the machine.
CertificateIsThere == file.secure => file.host \in certs \cup gone

\* Once no change is under way, the file is the one the settings ask for and
\* nginx serves it, after a move or a certificate nginx refused and was put back
\* as after one that worked, and after a start that followed a crash.
Agree == (~torn /\ \A a \in Actor : run[a].at = "idle") => file = Wanted /\ served = file

AddressKept == TypeOK /\ Reachable /\ CertificateIsThere /\ Agree
=============================================================================
