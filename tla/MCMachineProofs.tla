---------------------------- MODULE MCMachineProofs ----------------------------
(***************************************************************************)
(* What is proved of the parts of MCMachine, as theorems of the            *)
(* composition its run checks, for any number of sites, workers, ports,    *)
(* failing commands and crashes.  A part's steps are the composition's     *)
(* while focus is on it, so a part's invariant is one of the               *)
(* composition's.                                                          *)
(***************************************************************************)
EXTENDS MCMachine, SequenceTheorems, TLAPS

---------------------------------------------------------------------------
(***************************************************************************)
(* SiteLock.  OwnersKept alone is not inductive: a locking that lists the  *)
(* owners after the files were taken would write a useless record, and one *)
(* that forgets before they are returned would lose it.  That neither      *)
(* happens rests on the mutex, which keeps what a locking has found true   *)
(* until it is done with it.                                               *)
(***************************************************************************)

Locking == {"list", "chown", "restore", "forget"}

\* Whoever is locking or unlocking has the mutex, and is done with that once he
\* has given it back; the page has it until the setting is saved.
MutexHeld ==
    \A a \in Lock!Actor : /\ lockAt[a] \in Locking \cup {"save"} => mutex = a
                          /\ then[a] \notin Locking
                          /\ "save" \in {lockAt[a], then[a]} => a = Lock!Page

\* Owners are listed while the files are theirs, and are on record when the
\* files are taken; the record is forgotten once they have the files again.
WayBack ==
    \A a \in Lock!Actor : site[a] \notin relisted =>
        /\ lockAt[a] \in {"list", "forget"} => files[site[a]] = "own"
        /\ lockAt[a] = "chown" => record[site[a]] = "owners"

LockInv == Lock!TypeOK /\ MutexHeld /\ WayBack /\ Lock!OwnersKept

LEMMA LockBegins == Lock!LockAssumption /\ Lock!Init => LockInv
<1> SUFFICES ASSUME Lock!LockAssumption, Lock!Init PROVE LockInv
  OBVIOUS
<1> USE DEF Lock!Init, Lock!Rest, Lock!AllOpen
<1>1. Lock!Anywhere \in Locked
  BY DEF Lock!Anywhere, Lock!LockAssumption
<1>2. Lock!TypeOK
  BY <1>1 DEF Lock!TypeOK, Lock!LockAssumption, Lock!Want, Lock!Step
<1>3. MutexHeld /\ WayBack /\ Lock!OwnersKept
  BY DEF MutexHeld, WayBack, Lock!OwnersKept, Locking
<1>4. QED BY <1>2, <1>3 DEF LockInv

\* Every action keeps the types.
LEMMA LockTypes == ASSUME Lock!LockAssumption, Lock!TypeOK, Lock!Next PROVE Lock!TypeOK'
<1> USE DEF Lock!TypeOK, Lock!LockAssumption, Lock!Want, Lock!Step, Lock!Goto, Lock!Leave
<1> DEFINE Actor == Lock!Actor
<1>a. Lock!Page \in Actor /\ Lock!Clock \in Actor /\ Job \subseteq Actor
  BY DEF Lock!Actor
<1>1. ASSUME NEW a \in Actor,
             \/ Lock!List(a) \/ Lock!Take(a) \/ Lock!TakeFails(a)
             \/ Lock!Restore(a) \/ Lock!RestoreFails(a) \/ Lock!Forget(a)
      PROVE  Lock!TypeOK'
  <2>1. CASE Lock!List(a) BY <2>1 DEF Lock!List
  <2>2. CASE Lock!Take(a) BY <2>2 DEF Lock!Take
  <2>3. CASE Lock!TakeFails(a) BY <2>3 DEF Lock!TakeFails
  <2>4. CASE Lock!Restore(a) BY <2>4 DEF Lock!Restore
  <2>5. CASE Lock!RestoreFails(a) BY <2>5 DEF Lock!RestoreFails
  <2>6. CASE Lock!Forget(a) BY <2>6 DEF Lock!Forget
  <2>7. QED BY <1>1, <2>1, <2>2, <2>3, <2>4, <2>5, <2>6
<1>2. ASSUME NEW j \in Job,
             \/ \E s \in Locked : Lock!JobBegin(j, s)
             \/ Lock!JobUnlock(j) \/ Lock!JobDone(j) \/ Lock!JobRelock(j)
      PROVE  Lock!TypeOK'
  <2>1. CASE \E s \in Locked : Lock!JobBegin(j, s) BY <2>1, <1>a DEF Lock!JobBegin
  <2>2. CASE Lock!JobUnlock(j) BY <2>2, <1>a DEF Lock!JobUnlock
  <2>3. CASE Lock!JobDone(j) BY <2>3, <1>a DEF Lock!JobDone
  <2>4. CASE Lock!JobRelock(j) BY <2>4, <1>a DEF Lock!JobRelock
  <2>5. QED BY <1>2, <2>1, <2>2, <2>3, <2>4
<1>3. ASSUME NEW s \in Locked, NEW want \in Lock!Want, Lock!PageBegin(s, want) PROVE Lock!TypeOK'
  BY <1>3, <1>a DEF Lock!PageBegin
<1>4. ASSUME Lock!PageSave PROVE Lock!TypeOK'
  BY <1>4, <1>a DEF Lock!PageSave
<1>5. ASSUME Lock!ClockBegin PROVE Lock!TypeOK'
  BY <1>5, <1>a DEF Lock!ClockBegin
<1>6. ASSUME NEW s \in Locked, Lock!ClockRelock(s) PROVE Lock!TypeOK'
  BY <1>6, <1>a DEF Lock!ClockRelock
<1>7. ASSUME Lock!ClockMark PROVE Lock!TypeOK'
  BY <1>7, <1>a DEF Lock!ClockMark
<1>8. ASSUME Lock!ClockSave PROVE Lock!TypeOK'
  BY <1>8, <1>a DEF Lock!ClockSave
<1>9. ASSUME Lock!Crash PROVE Lock!TypeOK'
  <2>1. Lock!Anywhere \in Locked
    BY DEF Lock!Anywhere
  <2>2. QED BY <1>9, <2>1, <1>a DEF Lock!Crash, Lock!AllOpen
<1>10. QED
  BY <1>1, <1>2, <1>3, <1>4, <1>5, <1>6, <1>7, <1>8, <1>9 DEF Lock!Next

\* A step that leaves files, records and the mutex alone and takes nobody
\* into a locking disturbs nothing.
LEMMA LockSafe == ASSUME Lock!LockAssumption, LockInv, Lock!Next
                  PROVE  (MutexHeld /\ WayBack /\ Lock!OwnersKept)'
<1> DEFINE Safe == MutexHeld /\ WayBack /\ Lock!OwnersKept
<1> USE DEF LockInv, Lock!TypeOK, Locking, MutexHeld, WayBack, Lock!OwnersKept, Lock!Goto, Lock!Leave,
            Lock!SiteLocked, Lock!Step
<1>a. /\ Lock!Page \in Lock!Actor /\ Lock!Clock \in Lock!Actor /\ Job \subseteq Lock!Actor
      /\ Lock!Page \notin Job /\ Lock!Clock \notin Job /\ Lock!Page # Lock!Clock
      /\ Lock!Free \notin Lock!Actor
  BY DEF Lock!Actor, Lock!Page, Lock!Clock, Lock!Free, Lock!LockAssumption
<1>1. ASSUME NEW a \in Lock!Actor, 
             \/ Lock!List(a) \/ Lock!Take(a) \/ Lock!TakeFails(a)
             \/ Lock!Restore(a) \/ Lock!RestoreFails(a) \/ Lock!Forget(a)
      PROVE  Safe'
  <2>0. \A b \in Lock!Actor \ {a} : lockAt[b] \notin Locking
    BY <1>1 DEF Lock!List, Lock!Take, Lock!TakeFails, Lock!Restore, Lock!RestoreFails, Lock!Forget
  <2>1. CASE Lock!List(a) BY <2>0, <2>1 DEF Lock!List
  <2>2. CASE Lock!Take(a) BY <2>0, <2>2 DEF Lock!Take
  <2>3. CASE Lock!TakeFails(a) BY <2>0, <2>3 DEF Lock!TakeFails
  <2>4. CASE Lock!Restore(a) BY <2>0, <2>4 DEF Lock!Restore
  <2>5. CASE Lock!RestoreFails(a) BY <2>0, <2>5 DEF Lock!RestoreFails
  <2>6. CASE Lock!Forget(a) BY <2>0, <2>6 DEF Lock!Forget
  <2>7. QED BY <1>1, <2>1, <2>2, <2>3, <2>4, <2>5, <2>6
<1>2. ASSUME NEW j \in Job,
             \/ \E s \in Locked : Lock!JobBegin(j, s)
             \/ Lock!JobUnlock(j) \/ Lock!JobDone(j) \/ Lock!JobRelock(j)
      PROVE  Safe'
  <2>1. CASE \E s \in Locked : Lock!JobBegin(j, s) BY <2>1, <1>a DEF Lock!JobBegin
  <2>2. CASE Lock!JobUnlock(j) BY <2>2, <1>a DEF Lock!JobUnlock
  <2>3. CASE Lock!JobDone(j) BY <2>3, <1>a DEF Lock!JobDone
  <2>4. CASE Lock!JobRelock(j) BY <2>4, <1>a DEF Lock!JobRelock
  <2>5. QED BY <1>2, <2>1, <2>2, <2>3, <2>4
<1>3. ASSUME NEW s \in Locked, NEW want \in Lock!Want, Lock!PageBegin(s, want) PROVE Safe'
  BY <1>3, <1>a DEF Lock!PageBegin
<1>4. ASSUME Lock!PageSave PROVE Safe'
  BY <1>4, <1>a DEF Lock!PageSave
<1>5. ASSUME Lock!ClockBegin PROVE Safe'
  BY <1>5, <1>a DEF Lock!ClockBegin
<1>6. ASSUME NEW s \in Locked, Lock!ClockRelock(s) PROVE Safe'
  BY <1>6, <1>a DEF Lock!ClockRelock
<1>7. ASSUME Lock!ClockMark PROVE Safe'
  BY <1>7, <1>a DEF Lock!ClockMark
<1>8. ASSUME Lock!ClockSave PROVE Safe'
  BY <1>8, <1>a DEF Lock!ClockSave
<1>9. ASSUME Lock!Crash PROVE Safe'
  BY <1>9 DEF Lock!Crash
<1>10. QED
  BY <1>1, <1>2, <1>3, <1>4, <1>5, <1>6, <1>7, <1>8, <1>9 DEF Lock!Next

LockFocus == focus = "lock" => LockInv

LEMMA LockFirst == Init => LockFocus
<1> SUFFICES ASSUME Init, focus = "lock" PROVE LockInv
  BY DEF LockFocus
<1>1. Lock!Init
  BY DEF Init
<1>2. QED BY <1>1, PartsAssumption, LockBegins

LEMMA LockNext == LockFocus /\ [Next]_vars => LockFocus'
<1> SUFFICES ASSUME LockFocus, [Next]_vars, focus' = "lock" PROVE LockInv'
  BY DEF LockFocus
<1>1. focus = "lock" /\ (Lock!Next \/ UNCHANGED lockVars)
  BY DEF Next, vars
<1>2. CASE Lock!Next
  <2>1. Lock!TypeOK'
    BY <1>1, <1>2, PartsAssumption, LockTypes DEF LockFocus, LockInv
  <2>2. (MutexHeld /\ WayBack /\ Lock!OwnersKept)'
    BY <1>1, <1>2, PartsAssumption, LockSafe DEF LockFocus
  <2>3. QED BY <2>1, <2>2 DEF LockInv
<1>3. CASE UNCHANGED lockVars
  BY <1>1, <1>3 DEF lockVars, LockFocus, LockInv, Lock!TypeOK, MutexHeld, WayBack, Lock!OwnersKept
<1>4. QED BY <1>1, <1>2, <1>3

\* Whatever root has taken of a site's files can be given back: the owners are
\* on record from before the files are taken until after they are returned,
\* through every failing chown and every death of the panel, however many jobs,
\* the page and the clock lock and unlock the site (lock.go, LockSite and
\* UnlockSite; hardening.go, withSiteUnlocked, securityLock and checkLocks).
THEOREM LockedCanBeUnlocked == Spec => []OwnersKept
<1>1. LockFocus => OwnersKept
  BY DEF LockFocus, LockInv, OwnersKept
<1>2. QED BY <1>1, LockFirst, LockNext, PTL DEF Spec

---------------------------------------------------------------------------
(***************************************************************************)
(* PanelAddress.  Agree speaks of the moments when no change is under way; *)
(* the invariant says what each change has done at each of its commands.   *)
(* A change that had the address to itself ends with file, settings and    *)
(* nginx in agreement whatever it found (Moving, Refreshing), and one that *)
(* nginx refuses puts back what agreed before (Undone).                    *)
(***************************************************************************)

Change == [name : {"idle", "domain", "move", "back", "app", "start"},
           at : {"idle", "plain", "enable", "remember", "certbot", "https", "test", "reload",
                 "flag", "read", "write", "check", "load", "shared"},
           host : Site \cup {NoHost}, port : Port, old : Address!Vhost, new : Address!Vhost,
           alone : BOOLEAN]

Typed == Address!TypeOK /\ doing \in [Writer -> Change]

Active(a) == doing[a].at # "idle"

\* A vhost on a port the firewall lets through, with a certificate that was
\* issued; every vhost that was written, or will be, is one.
Known(v) == v.port \in opened /\ (v.secure => v.host \in certs \cup gone)

KnownVhosts ==
    /\ listens \in opened /\ panelServed.port \in opened
    /\ Known(panelFile)
    /\ \A a \in Writer :
        /\ doing[a].name = "domain" => doing[a].host \in Site
        /\ doing[a].name \in {"domain", "move"} => doing[a].port \in opened
        /\ doing[a].at \in {"write", "check", "load"} => Known(doing[a].old) /\ Known(doing[a].new)

\* Two changes at once are known as such.
NotAlone ==
    \A a, b \in Writer : a # b /\ Active(a) /\ Active(b) => astray /\ ~doing[a].alone

\* A change whose end will be taken for agreement.
Calm(a) == Active(a) /\ (~astray \/ doing[a].alone)

\* What the job of a hostname has done.
Moving(a) ==
    doing[a].name = "domain" /\ Calm(a) =>
        LET step == doing[a].at  host == doing[a].host
            plain == Address!panelVhost(host, listens, FALSE)
            secure == Address!panelVhost(host, listens, TRUE)
        IN /\ doing[a].port = listens
           /\ step \in {"enable", "remember", "certbot", "https"} => panelFile = plain
           /\ step \in {"remember", "certbot", "https", "test"} => panelServed = plain
           /\ step \in {"certbot", "https", "test", "reload", "flag"} => domain = host
           /\ step \in {"certbot", "https", "test"} => ~tls
           /\ step \in {"test", "reload", "flag"} => panelFile = secure /\ host \in certs
           /\ step = "flag" => panelServed = secure

\* What a refresh of the vhost has done.
Refreshing(a) ==
    doing[a].name \in Address!Refreshes /\ Calm(a) =>
        /\ doing[a].at \in {"write", "check", "load"} => doing[a].new = Address!Wanted
        /\ doing[a].at \in {"check", "load", "shared"} => panelFile = Address!Wanted

\* The vhost that a refresh has found, when all agreed: a move has changed the
\* port already, and puts it back if it is refused.
Shown(p) == Address!panelVhost(domain, p, tls /\ domain \in certs)
Before(r) == Shown(IF r.name = "move" THEN r.port ELSE listens)

Undone(a) ==
    doing[a].name \in Address!Refreshes /\ ~astray =>
        /\ doing[a].at \in {"read", "write", "shared"} => panelServed = panelFile
        /\ doing[a].at = "read" => panelFile = Before(doing[a])
        /\ doing[a].at \in {"write", "check", "load"} =>
              panelServed = doing[a].old /\ doing[a].old = Before(doing[a])

Phase(a) == Moving(a) /\ Refreshing(a) /\ Undone(a)

AddressInv == /\ Typed /\ KnownVhosts /\ NotAlone /\ Address!Agree
              /\ \A a \in Writer : Phase(a)

LEMMA VhostType ==
    ASSUME NEW h \in Site \cup {NoHost}, NEW p \in Port, NEW secure \in BOOLEAN
    PROVE  Address!panelVhost(h, p, secure) \in Address!Vhost
BY DEF Address!panelVhost, Address!Vhost

LEMMA VhostFields ==
    ASSUME NEW h, NEW p, NEW secure \in BOOLEAN
    PROVE  LET v == Address!panelVhost(h, p, secure)
           IN  v.host = h /\ v.port = p /\ v.secure = (secure /\ h # NoHost)
BY DEF Address!panelVhost

\* A vhost without HTTPS.
LEMMA PlainFields ==
    ASSUME NEW h, NEW p
    PROVE  LET v == Address!panelVhost(h, p, FALSE)
           IN  v.host = h /\ v.port = p /\ ~v.secure
<1> DEFINE no == FALSE
<1>1. no \in BOOLEAN /\ ~no
  OBVIOUS
<1> HIDE DEF no
<1>2. LET v == Address!panelVhost(h, p, no) IN v.host = h /\ v.port = p /\ ~v.secure
  BY <1>1, VhostFields
<1>3. QED BY <1>2 DEF no

LEMMA IdleType == Address!AddressAssumption => Address!Idle \in Change /\ Address!Nowhere \in Address!Vhost
<1> SUFFICES ASSUME Address!AddressAssumption PROVE Address!Idle \in Change /\ Address!Nowhere \in Address!Vhost
  OBVIOUS
<1>1. (CHOOSE p \in Port : TRUE) \in Port
  BY DEF Address!AddressAssumption
<1>2. Address!Nowhere \in Address!Vhost
  BY <1>1, VhostType DEF Address!Nowhere
<1>3. QED BY <1>2 DEF Address!Idle, Change, Address!Vhost

LEMMA WantedType == Address!TypeOK => Address!Wanted \in Address!Vhost
<1> SUFFICES ASSUME Address!TypeOK PROVE Address!Wanted \in Address!Vhost
  OBVIOUS
<1>1. (tls /\ domain \in certs) \in BOOLEAN
  BY DEF Address!TypeOK
<1>2. QED BY <1>1, VhostType DEF Address!Wanted, Address!TypeOK

LEMMA AddressBegins == Address!AddressAssumption /\ Address!Init => AddressInv
<1> SUFFICES ASSUME Address!AddressAssumption, Address!Init PROVE AddressInv
  OBVIOUS
<1> DEFINE no == FALSE
<1>1. no \in BOOLEAN /\ (no <=> FALSE)
  OBVIOUS
<1>2. panelFile \in Address!Vhost /\ panelFile = Address!panelVhost(NoHost, listens, FALSE)
  BY <1>1, VhostType DEF Address!Init
<1>3. \A a \in Writer : doing[a].at = "idle" /\ doing[a].name = "idle"
  BY DEF Address!Init, Address!Idle
<1>3a. panelFile.port = listens /\ ~panelFile.secure
  BY <1>2, PlainFields
<1>4. Typed
  <2>1. doing \in [Writer -> Change]
    BY IdleType DEF Address!Init
  <2>2. tls \in BOOLEAN /\ refused \in BOOLEAN /\ astray \in BOOLEAN
    BY DEF Address!Init
  <2>3. /\ domain \in Site \cup {NoHost} /\ listens \in Port /\ opened \subseteq Port
        /\ certs \cup gone \subseteq Site
        /\ moves \in 0..MaxMoves /\ panelTroubles \in 0..MaxTroubles /\ panelCrashes \in 0..MaxCrashes
    BY DEF Address!Init, Address!AddressAssumption
  <2>4. panelServed = panelFile
    BY DEF Address!Init
  <2>5. ASSUME NEW a \in Writer
        PROVE  /\ doing[a].name \in {"idle", "domain", "move", "back", "app", "start"}
               /\ doing[a].at \in {"idle", "plain", "enable", "remember", "certbot", "https",
                                   "test", "reload", "flag", "read", "write", "check", "load",
                                   "shared"}
               /\ doing[a].host \in Site \cup {NoHost} /\ doing[a].port \in Port
               /\ {doing[a].old, doing[a].new} \subseteq Address!Vhost
    BY <2>1 DEF Change
  <2>6. QED BY <2>1, <2>2, <2>3, <2>4, <2>5, <1>2 DEF Typed, Address!TypeOK
<1>5. KnownVhosts
  BY <1>3, <1>3a DEF KnownVhosts, Known, Address!Init
<1>6. NotAlone /\ \A a \in Writer : Phase(a)
  BY <1>3 DEF NotAlone, Phase, Moving, Refreshing, Undone, Active, Calm, Address!Refreshes
<1>7. Address!Agree
  BY DEF Address!Agree, Address!Wanted, Address!Init, Address!panelVhost
<1>8. QED BY <1>4, <1>5, <1>6, <1>7 DEF AddressInv

\* What the settings ask for, with and without a certificate, and after a step.
LEMMA WantedIs ==
    /\ Address!Wanted = Shown(listens)
    /\ ~tls => Address!Wanted = Address!panelVhost(domain, listens, FALSE)
    /\ tls /\ domain \in certs => Address!Wanted = Address!panelVhost(domain, listens, TRUE)
BY DEF Address!Wanted, Shown, Address!panelVhost

LEMMA WantedWillBe ==
    /\ Address!Wanted' = Shown(listens)'
    /\ ~tls' => Address!Wanted' = Address!panelVhost(domain', listens', FALSE)
    /\ tls' /\ domain' \in certs' => Address!Wanted' = Address!panelVhost(domain', listens', TRUE)
BY DEF Address!Wanted, Shown, Address!panelVhost

LEMMA WantedStays ==
    ASSUME UNCHANGED <<domain, tls>>, domain \in certs' <=> domain \in certs
    PROVE  /\ \A p : Shown(p)' = Shown(p)
           /\ Address!Wanted' = Shown(listens')
           /\ UNCHANGED listens => Address!Wanted' = Address!Wanted
BY DEF Shown, Address!Wanted, Address!panelVhost

\* A change that has the address to itself is the only one whose end is taken
\* for agreement.
LEMMA OneAtATime ==
    ASSUME NEW a \in Writer, Phase(a)',
           \A b \in Writer \ {a} : Active(b)' => astray' /\ ~doing'[b].alone
    PROVE  \A b \in Writer : Phase(b)'
<1> SUFFICES ASSUME NEW b \in Writer, b # a PROVE Phase(b)'
  OBVIOUS
<1>1. Active(b)' => ~Calm(b)' /\ astray'
  BY DEF Calm
<1>2. QED BY <1>1 DEF Phase, Moving, Refreshing, Undone, Calm, Active

\* The steps of an actor whose change is under way.
OwnStep(a) ==
    \/ Address!WritePlain(a) \/ Address!EnableVhost(a) \/ Address!Remember(a)
    \/ Address!RequestCertificate(a) \/ Address!NoCertificate(a) \/ Address!WriteSecure(a)
    \/ Address!SecureRefused(a) \/ Address!SecureAccepted(a) \/ Address!ReloadSecure(a)
    \/ Address!RememberSecure(a)
    \/ Address!SameText(a) \/ Address!ReadVhost(a) \/ Address!WriteVhost(a)
    \/ Address!VhostAccepted(a) \/ Address!VhostRefused(a) \/ Address!LoadVhost(a)
    \/ Address!LoadShared(a)

\* The first step of a change.
FirstStep(a) ==
    \/ \E h \in Site : Address!configurePanelDomain(a, h)
    \/ \E p \in Port : Address!movePanelPort(a, p)
    \/ Address!ensurePhpMyAdminServed(a)

\* What happens to the address without anybody's change.
Elsewhere ==
    Address!Break \/ Address!ReloadElsewhere \/ \E h \in Site : Address!RemoveCertificate(h)

LEMMA AddressStep ==
    Address!Next =>
        \/ \E a \in Writer : OwnStep(a) \/ FirstStep(a) \/ Address!Crash(a)
        \/ Elsewhere
BY DEF Address!Next, OwnStep, FirstStep, Elsewhere, Address!updateDomain, Address!mcpSetPanelDomain

USE DEF Address!At, Address!Go, Address!Done, Address!Leave, Address!Stop, Address!Refused,
        Address!Refreshes, Address!settings, Address!world

\* An actor's step is of a change that is under way, and moves that change only;
\* nothing makes good what went astray but a change that had it to itself.
LEMMA OwnStepIsOwn ==
    ASSUME Typed, Address!AddressAssumption, NEW a \in Writer, OwnStep(a)
    PROVE  /\ Active(a)
           /\ \A b \in Writer \ {a} : doing'[b] = doing[b]
           /\ Active(a)' => doing'[a].alone = doing[a].alone
           /\ astray /\ ~doing[a].alone => astray'
           /\ doing' \in [Writer -> Change]
<1> USE DEF Typed, Active, Change
<1>0. Address!Idle \in Change /\ Address!Idle.at = "idle" /\ Address!Wanted \in Address!Vhost
      /\ panelFile \in Address!Vhost
  BY IdleType, WantedType DEF Address!Idle, Address!TypeOK
<1>1. CASE Address!WritePlain(a) BY <1>0, <1>1 DEF Address!WritePlain
<1>2. CASE Address!EnableVhost(a) BY <1>0, <1>2 DEF Address!EnableVhost
<1>3. CASE Address!Remember(a) BY <1>0, <1>3 DEF Address!Remember
<1>4. CASE Address!RequestCertificate(a) BY <1>0, <1>4 DEF Address!RequestCertificate
<1>5. CASE Address!NoCertificate(a) BY <1>0, <1>5 DEF Address!NoCertificate
<1>6. CASE Address!WriteSecure(a) BY <1>0, <1>6 DEF Address!WriteSecure
<1>7. CASE Address!SecureRefused(a) BY <1>0, <1>7 DEF Address!SecureRefused
<1>8. CASE Address!SecureAccepted(a) BY <1>0, <1>8 DEF Address!SecureAccepted
<1>9. CASE Address!ReloadSecure(a) BY <1>0, <1>9 DEF Address!ReloadSecure
<1>10. CASE Address!RememberSecure(a) BY <1>0, <1>10 DEF Address!RememberSecure
<1>11. CASE Address!SameText(a) BY <1>0, <1>11 DEF Address!SameText
<1>12. CASE Address!ReadVhost(a) BY <1>0, <1>12 DEF Address!ReadVhost
<1>13. CASE Address!WriteVhost(a) BY <1>0, <1>13 DEF Address!WriteVhost
<1>14. CASE Address!VhostAccepted(a) BY <1>0, <1>14 DEF Address!VhostAccepted
<1>15. CASE Address!VhostRefused(a) BY <1>0, <1>15 DEF Address!VhostRefused
<1>16. CASE Address!LoadVhost(a)
  <2>1. CASE Address!Accepts /\ doing[a].name = "start" BY <1>0, <1>16, <2>1 DEF Address!LoadVhost
  <2>1a. CASE Address!Accepts /\ doing[a].name # "start" BY <1>0, <1>16, <2>1a DEF Address!LoadVhost
  <2>2. CASE ~Address!Accepts /\ doing[a].name = "move" BY <1>0, <1>16, <2>2 DEF Address!LoadVhost
  <2>3. CASE ~Address!Accepts /\ doing[a].name # "move" BY <1>0, <1>16, <2>3 DEF Address!LoadVhost
  <2>4. QED BY <2>1, <2>1a, <2>2, <2>3
<1>17. CASE Address!LoadShared(a) BY <1>0, <1>17 DEF Address!LoadShared
<1>18. QED
  BY <1>1, <1>2, <1>3, <1>4, <1>5, <1>6, <1>7, <1>8, <1>9, <1>10, <1>11, <1>12, <1>13, <1>14, <1>15, <1>16, <1>17 DEF OwnStep

\* The first step of a change, and what it does to the others.
LEMMA FirstStepBegins ==
    ASSUME Typed, Address!AddressAssumption, NEW a \in Writer, FirstStep(a)
    PROVE  /\ ~Active(a) /\ Active(a)'
           /\ \A b \in Writer \ {a} :
                 /\ doing'[b].name = doing[b].name /\ doing'[b].at = doing[b].at
                 /\ doing'[b].host = doing[b].host /\ doing'[b].port = doing[b].port
                 /\ doing'[b].old = doing[b].old /\ doing'[b].new = doing[b].new
                 /\ Active(b) => ~doing'[b].alone
           /\ astray' = (astray \/ \E b \in Writer \ {a} : Active(b))
           /\ doing'[a].alone = (\A b \in Writer \ {a} : ~Active(b))
           /\ doing' \in [Writer -> Change]
           /\ UNCHANGED <<domain, tls, panelFile, panelServed, certs, gone, refused>>
<1> DEFINE Rivals == {b \in Writer \ {a} : Active(b)}
<1>0. Address!Idle \in Change /\ listens \in Port
  BY IdleType DEF Typed, Address!TypeOK
<1>1. ASSUME NEW r \in Change, r.at # "idle", Address!Begin(a, r)
      PROVE  /\ ~Active(a) /\ Active(a)'
             /\ \A b \in Writer \ {a} :
                   /\ doing'[b].name = doing[b].name /\ doing'[b].at = doing[b].at
                   /\ doing'[b].host = doing[b].host /\ doing'[b].port = doing[b].port
                   /\ doing'[b].old = doing[b].old /\ doing'[b].new = doing[b].new
                   /\ Active(b) => ~doing'[b].alone
             /\ astray' = (astray \/ \E b \in Writer \ {a} : Active(b))
             /\ doing'[a].alone = (\A b \in Writer \ {a} : ~Active(b))
             /\ doing' \in [Writer -> Change]
  <2> DEFINE none == Rivals = {}  no == FALSE
  <2>1. Address!Others(a) = Rivals
    BY DEF Address!Others, Active
  <2>2. none \in BOOLEAN /\ no \in BOOLEAN /\ (none <=> \A b \in Writer \ {a} : ~Active(b))
    OBVIOUS
  <2>3. doing' = [b \in Writer |-> IF b = a THEN [r EXCEPT !.alone = none]
                                  ELSE IF b \in Rivals THEN [doing[b] EXCEPT !.alone = no] ELSE doing[b]]
    BY <1>1, <2>1 DEF Address!Begin
  <2>4. astray' = (astray \/ Rivals # {}) /\ ~Active(a)
    BY <1>1, <2>1 DEF Address!Begin, Active
  <2> HIDE DEF none, no
  <2>5. doing'[a].at # "idle" /\ doing'[a].alone = none
    BY <1>1, <2>3 DEF Change
  <2>6. doing' \in [Writer -> Change]
    BY <1>1, <2>2, <2>3 DEF Typed, Change
  <2>7. ASSUME NEW b \in Writer \ {a}
        PROVE  /\ doing'[b].name = doing[b].name /\ doing'[b].at = doing[b].at
               /\ doing'[b].host = doing[b].host /\ doing'[b].port = doing[b].port
               /\ doing'[b].old = doing[b].old /\ doing'[b].new = doing[b].new
               /\ Active(b) => ~doing'[b].alone
    <3>1. CASE b \in Rivals
      <4>1. doing'[b] = [doing[b] EXCEPT !.alone = no] /\ ~no
        BY <2>3, <3>1 DEF no
      <4>2. QED BY <4>1 DEF Typed, Change
    <3>2. CASE b \notin Rivals
      BY <2>3, <3>2
    <3>3. QED BY <3>1, <3>2
  <2>8. doing'[a].alone = (\A b \in Writer \ {a} : ~Active(b))
    BY <2>2, <2>5
  <2>9. QED BY <2>4, <2>5, <2>6, <2>7, <2>8 DEF Active
<1>2. CASE \E h \in Site : Address!configurePanelDomain(a, h)
  <2>1. PICK h \in Site : Address!configurePanelDomain(a, h)
    BY <1>2
  <2>2. [Address!Idle EXCEPT !.name = "domain", !.at = "plain", !.host = h, !.port = listens] \in Change
    BY <1>0 DEF Change
  <2>3. QED BY <1>0, <1>1, <2>1, <2>2 DEF Address!configurePanelDomain, Change
<1>3. CASE \E p \in Port : Address!movePanelPort(a, p)
  <2>1. PICK p \in Port : Address!movePanelPort(a, p)
    BY <1>3
  <2>2. [Address!Idle EXCEPT !.name = "move", !.at = "read", !.port = listens] \in Change
    BY <1>0 DEF Change
  <2>3. QED BY <1>0, <1>1, <2>1, <2>2 DEF Address!movePanelPort, Change
<1>4. CASE Address!ensurePhpMyAdminServed(a)
  <2>1. [Address!Idle EXCEPT !.name = "app", !.at = "read"] \in Change
    BY <1>0 DEF Change
  <2>2. QED BY <1>0, <1>1, <1>4, <2>1 DEF Address!ensurePhpMyAdminServed, Change
<1>5. QED BY <1>2, <1>3, <1>4 DEF FirstStep

\* Where each kind of change begins.
LEMMA FirstStepSets ==
    ASSUME Typed, Address!AddressAssumption, NEW a \in Writer, FirstStep(a)
    PROVE  \/ /\ doing'[a].name = "domain" /\ doing'[a].at = "plain"
              /\ doing'[a].host \in Site /\ doing'[a].port = listens
              /\ UNCHANGED <<listens, opened>>
           \/ /\ doing'[a].name = "move" /\ doing'[a].at = "read" /\ doing'[a].port = listens
              /\ opened' = opened \cup {listens'}
           \/ /\ doing'[a].name = "app" /\ doing'[a].at = "read"
              /\ UNCHANGED <<listens, opened>>
<1>0. Address!Idle \in Change /\ listens \in Port
  BY IdleType DEF Typed, Address!TypeOK
<1>1. ASSUME NEW r \in Change, Address!Begin(a, r)
      PROVE  /\ doing'[a].name = r.name /\ doing'[a].at = r.at
             /\ doing'[a].host = r.host /\ doing'[a].port = r.port
  <2> DEFINE none == Address!Others(a) = {}
  <2>1. doing'[a] = [r EXCEPT !.alone = none]
    BY <1>1 DEF Address!Begin
  <2> HIDE DEF none
  <2>2. QED BY <1>1, <2>1 DEF Change
<1>2. CASE \E h \in Site : Address!configurePanelDomain(a, h)
  <2>1. PICK h \in Site : Address!configurePanelDomain(a, h)
    BY <1>2
  <2>2. [Address!Idle EXCEPT !.name = "domain", !.at = "plain", !.host = h, !.port = listens] \in Change
    BY <1>0 DEF Change
  <2>3. QED BY <1>0, <1>1, <2>1, <2>2 DEF Address!configurePanelDomain, Change
<1>3. CASE \E p \in Port : Address!movePanelPort(a, p)
  <2>1. PICK p \in Port : Address!movePanelPort(a, p)
    BY <1>3
  <2>2. [Address!Idle EXCEPT !.name = "move", !.at = "read", !.port = listens] \in Change
    BY <1>0 DEF Change
  <2>3. QED BY <1>0, <1>1, <2>1, <2>2 DEF Address!movePanelPort, Change
<1>4. CASE Address!ensurePhpMyAdminServed(a)
  <2>1. [Address!Idle EXCEPT !.name = "app", !.at = "read"] \in Change
    BY <1>0 DEF Change
  <2>2. QED BY <1>0, <1>1, <1>4, <2>1 DEF Address!ensurePhpMyAdminServed, Change
<1>5. QED BY <1>2, <1>3, <1>4 DEF FirstStep

\* The panel that starts again has the address to itself.
LEMMA CrashStarts ==
    ASSUME Typed, Address!AddressAssumption, NEW a \in Writer, Address!Crash(a)
    PROVE  /\ doing'[a] = [Address!Idle EXCEPT !.name = "start", !.at = "read"]
           /\ doing'[a].name = "start" /\ doing'[a].at = "read" /\ doing'[a].alone
           /\ \A b \in Writer \ {a} : doing'[b] = Address!Idle
           /\ doing' \in [Writer -> Change]
           /\ ~astray' => ~astray /\ \A b \in Writer : ~Active(b)
           /\ UNCHANGED <<domain, tls, listens, panelFile, panelServed, certs, gone, refused>>
<1> DEFINE r == [Address!Idle EXCEPT !.name = "start", !.at = "read"]
<1>1. r \in Change /\ Address!Idle \in Change
  BY IdleType DEF Change
<1>2. r.name = "start" /\ r.at = "read" /\ r.alone
  BY DEF Address!Idle
<1>3. doing' = [b \in Writer |-> IF b = a THEN r ELSE Address!Idle]
  BY DEF Address!Crash
<1> HIDE DEF r
<1>4. QED BY <1>1, <1>2, <1>3 DEF Address!Crash, Active, r

\* What happens elsewhere keeps every change where it is; one under way is no
\* longer alone, unless nginx broke or was mended.
LEMMA ElsewhereDisturbs ==
    ASSUME Typed, Elsewhere
    PROVE  /\ doing' \in [Writer -> Change]
           /\ \A b \in Writer : /\ doing'[b].name = doing[b].name /\ doing'[b].at = doing[b].at
                                /\ doing'[b].host = doing[b].host /\ doing'[b].port = doing[b].port
                                /\ doing'[b].old = doing[b].old /\ doing'[b].new = doing[b].new
                                /\ doing'[b].alone => doing[b].alone
                                /\ ~Address!Break /\ Active(b) => ~doing'[b].alone
           /\ astray => astray'
           /\ UNCHANGED <<domain, tls, listens, panelFile, opened>>
<1> DEFINE Quietly == [b \in Writer |-> doing[b].alone /\ doing[b].at = "idle"]
<1>1. CASE Address!Break
  BY <1>1 DEF Address!Break, Typed
<1>2. ASSUME doing' = Address!Disturbed
      PROVE  /\ doing' \in [Writer -> Change]
             /\ \A b \in Writer : /\ doing'[b].name = doing[b].name /\ doing'[b].at = doing[b].at
                                  /\ doing'[b].host = doing[b].host /\ doing'[b].port = doing[b].port
                                  /\ doing'[b].old = doing[b].old /\ doing'[b].new = doing[b].new
                                  /\ doing'[b].alone => doing[b].alone
                                  /\ Active(b) => ~doing'[b].alone
  <2>1. Quietly \in [Writer -> BOOLEAN] 
    BY DEF Typed, Change
  <2>2. \A b \in Writer : Quietly[b] <=> doing[b].alone /\ ~Active(b)
    BY DEF Active
  <2>3. doing' = [b \in Writer |-> [doing[b] EXCEPT !.alone = Quietly[b]]]
    BY <1>2 DEF Address!Disturbed
  <2> HIDE DEF Quietly
  <2>4. QED BY <2>1, <2>2, <2>3 DEF Typed, Change
<1>3. CASE Address!ReloadElsewhere
  BY <1>2, <1>3 DEF Address!ReloadElsewhere
<1>4. CASE \E h \in Site : Address!RemoveCertificate(h)
  BY <1>2, <1>4 DEF Address!RemoveCertificate
<1>5. QED BY <1>1, <1>3, <1>4 DEF Elsewhere

LEMMA TypedParts ==
    ASSUME doing' \in [Writer -> Change],
           /\ domain' \in Site \cup {NoHost} /\ tls' \in BOOLEAN /\ listens' \in Port
           /\ opened' \subseteq Port /\ panelFile' \in Address!Vhost /\ panelServed' \in Address!Vhost
           /\ certs' \cup gone' \subseteq Site /\ refused' \in BOOLEAN /\ astray' \in BOOLEAN
           /\ moves' \in 0..MaxMoves /\ panelTroubles' \in 0..MaxTroubles
           /\ panelCrashes' \in 0..MaxCrashes
    PROVE  Typed'
<1>1. ASSUME NEW a \in Writer
      PROVE  /\ doing'[a].name \in {"idle", "domain", "move", "back", "app", "start"}
             /\ doing'[a].at \in {"idle", "plain", "enable", "remember", "certbot", "https",
                                  "test", "reload", "flag", "read", "write", "check", "load",
                                  "shared"}
             /\ doing'[a].host \in Site \cup {NoHost} /\ doing'[a].port \in Port
             /\ {doing'[a].old, doing'[a].new} \subseteq Address!Vhost
  BY DEF Change
<1>2. QED BY <1>1 DEF Typed, Address!TypeOK

LEMMA AddressTypes ==
    ASSUME Typed, KnownVhosts, Address!AddressAssumption, Address!Next
    PROVE  Typed'
<1> DEFINE Scalars == /\ domain' \in Site \cup {NoHost} /\ tls' \in BOOLEAN /\ listens' \in Port
                      /\ opened' \subseteq Port
                      /\ panelFile' \in Address!Vhost /\ panelServed' \in Address!Vhost
                      /\ certs' \cup gone' \subseteq Site
                      /\ refused' \in BOOLEAN /\ astray' \in BOOLEAN
                      /\ moves' \in 0..MaxMoves /\ panelTroubles' \in 0..MaxTroubles
                      /\ panelCrashes' \in 0..MaxCrashes
<1> USE DEF Address!TypeOK
<1>1. ASSUME NEW a \in Writer, OwnStep(a) PROVE Typed'
  <2>1. doing' \in [Writer -> Change]
    BY <1>1, OwnStepIsOwn
  <2>2. /\ doing[a].host \in Site \cup {NoHost} /\ doing[a].port \in Port
        /\ doing[a].old \in Address!Vhost /\ doing[a].new \in Address!Vhost
        /\ doing[a].alone \in BOOLEAN
    BY DEF Typed, Change
  <2>3. /\ Address!panelVhost(doing[a].host, doing[a].port, FALSE) \in Address!Vhost
        /\ Address!panelVhost(doing[a].host, doing[a].port, TRUE) \in Address!Vhost
    <3> DEFINE no == FALSE  yes == TRUE
    <3>1. no \in BOOLEAN /\ yes \in BOOLEAN
      OBVIOUS
    <3> HIDE DEF no, yes
    <3>2. /\ Address!panelVhost(doing[a].host, doing[a].port, no) \in Address!Vhost
          /\ Address!panelVhost(doing[a].host, doing[a].port, yes) \in Address!Vhost
      BY <2>2, <3>1, VhostType
    <3>3. QED BY <3>2 DEF no, yes
  <2>4. Scalars
    <3> USE <2>2, <2>3 DEF Typed, Address!Load
    <3>1. CASE Address!WritePlain(a) BY <3>1 DEF Address!WritePlain
    <3>2. CASE Address!EnableVhost(a) BY <3>2 DEF Address!EnableVhost
    <3>3. CASE Address!Remember(a) BY <3>3 DEF KnownVhosts, Address!Remember
    <3>4. CASE Address!RequestCertificate(a) BY <3>4 DEF KnownVhosts, Address!RequestCertificate
    <3>5. CASE Address!NoCertificate(a) BY <3>5 DEF Address!NoCertificate
    <3>6. CASE Address!WriteSecure(a) BY <3>6 DEF Address!WriteSecure
    <3>7. CASE Address!SecureRefused(a) BY <3>7 DEF Address!SecureRefused
    <3>8. CASE Address!SecureAccepted(a) BY <3>8 DEF Address!SecureAccepted
    <3>9. CASE Address!ReloadSecure(a) BY <3>9 DEF Address!ReloadSecure
    <3>10. CASE Address!RememberSecure(a) BY <3>10 DEF Address!RememberSecure
    <3>11. CASE Address!SameText(a) BY <3>11 DEF Address!SameText
    <3>12. CASE Address!ReadVhost(a) BY <3>12 DEF Address!ReadVhost
    <3>13. CASE Address!WriteVhost(a) BY <3>13 DEF Address!WriteVhost
    <3>14. CASE Address!VhostAccepted(a) BY <3>14 DEF Address!VhostAccepted
    <3>15. CASE Address!VhostRefused(a) BY <3>15 DEF Address!VhostRefused
    <3>16. CASE Address!LoadVhost(a) BY <3>16 DEF Address!LoadVhost
    <3>17. CASE Address!LoadShared(a) BY <3>17 DEF Address!LoadShared
    <3>18. QED
      BY <1>1, <3>1, <3>2, <3>3, <3>4, <3>5, <3>6, <3>7, <3>8, <3>9, <3>10, <3>11, <3>12, <3>13, <3>14, <3>15, <3>16, <3>17 DEF OwnStep
  <2>5. QED BY <2>1, <2>4, TypedParts
<1>2. ASSUME NEW a \in Writer, FirstStep(a) PROVE Typed'
  <2>1. doing' \in [Writer -> Change] /\ astray' \in BOOLEAN
    BY <1>2, FirstStepBegins DEF Typed
  <2>2. /\ domain' \in Site \cup {NoHost} /\ tls' \in BOOLEAN
        /\ panelFile' \in Address!Vhost /\ panelServed' \in Address!Vhost
        /\ certs' \cup gone' \subseteq Site /\ refused' \in BOOLEAN
    BY <1>2, FirstStepBegins DEF Typed
  <2>3. /\ listens' \in Port /\ opened' \subseteq Port
        /\ moves' \in 0..MaxMoves /\ panelTroubles' \in 0..MaxTroubles
        /\ panelCrashes' \in 0..MaxCrashes
    <3> USE DEF Typed, Address!AddressAssumption
    <3>1. CASE \E h \in Site : Address!configurePanelDomain(a, h)
      BY <3>1 DEF Address!configurePanelDomain
    <3>2. CASE \E p \in Port : Address!movePanelPort(a, p)
      BY <3>2 DEF Address!movePanelPort
    <3>3. CASE Address!ensurePhpMyAdminServed(a)
      BY <3>3 DEF Address!ensurePhpMyAdminServed
    <3>4. QED BY <1>2, <3>1, <3>2, <3>3 DEF FirstStep
  <2>4. QED BY <2>1, <2>2, <2>3, TypedParts
<1>3. ASSUME NEW a \in Writer, Address!Crash(a) PROVE Typed'
  <2>1. doing' \in [Writer -> Change]
    BY <1>3, CrashStarts
  <2>2. Scalars
    BY <1>3 DEF Typed, Address!Crash, Address!AddressAssumption
  <2>3. QED BY <2>1, <2>2, TypedParts
<1>4. ASSUME Elsewhere PROVE Typed'
  <2>1. doing' \in [Writer -> Change]
    BY <1>4, ElsewhereDisturbs
  <2>2. Scalars
    <3>1. CASE Address!Break BY <3>1 DEF Typed, Address!Break, Address!AddressAssumption
    <3>2. CASE Address!ReloadElsewhere BY <3>2 DEF Typed, Address!ReloadElsewhere, Address!Load
    <3>3. CASE \E h \in Site : Address!RemoveCertificate(h)
      BY <3>3 DEF Typed, Address!RemoveCertificate, Address!AddressAssumption
    <3>4. QED BY <1>4, <3>1, <3>2, <3>3 DEF Elsewhere
  <2>3. QED BY <2>1, <2>2, TypedParts
<1>5. QED BY <1>1, <1>2, <1>3, <1>4, AddressStep

\* No step writes or loads a vhost on a closed port or with a certificate that
\* nobody issued.
LEMMA AddressKnown ==
    ASSUME Typed, KnownVhosts, Address!AddressAssumption, Address!Next
    PROVE  KnownVhosts'
<1>1. ASSUME NEW a \in Writer, OwnStep(a) PROVE KnownVhosts'
  <2> DEFINE plain == Address!panelVhost(doing[a].host, doing[a].port, FALSE)
             secure == Address!panelVhost(doing[a].host, doing[a].port, TRUE)
  <2>1. /\ plain.port = doing[a].port /\ ~plain.secure
        /\ secure.port = doing[a].port /\ secure.host = doing[a].host
    BY PlainFields DEF Address!panelVhost
  <2>2. /\ Address!Wanted.port = listens
        /\ Address!Wanted.secure => Address!Wanted.host \in certs
    BY DEF Address!Wanted, Address!panelVhost
  <2>3. /\ \A b \in Writer \ {a} : doing'[b] = doing[b]
        /\ doing \in [Writer -> Change] /\ doing' \in [Writer -> Change]
    BY <1>1, OwnStepIsOwn DEF Typed
  <2>4. Address!Idle.name = "idle" /\ Address!Idle.at = "idle"
    BY DEF Address!Idle
  <2> HIDE DEF plain, secure
  <2> USE <2>1, <2>2, <2>3, <2>4 DEF KnownVhosts, Known, Change, Address!Load
  <2>5. CASE Address!WritePlain(a)
    <3>1. panelFile' = plain
      BY <2>5 DEF Address!WritePlain, plain
    <3>2. (Known(panelFile) /\ listens \in opened /\ panelServed.port \in opened)'
      BY <2>5, <3>1 DEF Address!WritePlain
    <3>3. /\ UNCHANGED <<opened, certs, gone>>
          /\ doing'[a].name = doing[a].name /\ doing'[a].host = doing[a].host
          /\ doing'[a].port = doing[a].port /\ doing'[a].at \notin {"write", "check", "load"}
      BY <2>5 DEF Address!WritePlain
    <3>4. QED BY <3>2, <3>3
  <2>6. CASE Address!EnableVhost(a) BY <2>6 DEF Address!EnableVhost
  <2>7. CASE Address!Remember(a) BY <2>7 DEF Address!Remember
  <2>8. CASE Address!RequestCertificate(a) BY <2>8 DEF Address!RequestCertificate
  <2>9. CASE Address!NoCertificate(a) BY <2>9 DEF Address!NoCertificate
  <2>10. CASE Address!WriteSecure(a)
    <3>1. panelFile' = secure
      BY <2>10 DEF Address!WriteSecure, secure
    <3>2. (Known(panelFile) /\ listens \in opened /\ panelServed.port \in opened)'
      BY <2>10, <3>1 DEF Address!WriteSecure
    <3>3. /\ UNCHANGED <<opened, certs, gone>>
          /\ doing'[a].name = doing[a].name /\ doing'[a].host = doing[a].host
          /\ doing'[a].port = doing[a].port /\ doing'[a].at \notin {"write", "check", "load"}
      BY <2>10 DEF Address!WriteSecure
    <3>4. QED BY <3>2, <3>3
  <2>11. CASE Address!SecureRefused(a) BY <2>11 DEF Address!SecureRefused, plain, secure
  <2>12. CASE Address!SecureAccepted(a) BY <2>12 DEF Address!SecureAccepted
  <2>13. CASE Address!ReloadSecure(a) BY <2>13 DEF Address!ReloadSecure
  <2>14. CASE Address!RememberSecure(a) BY <2>14 DEF Address!RememberSecure
  <2>15. CASE Address!SameText(a) BY <2>15 DEF Address!SameText
  <2>16. CASE Address!ReadVhost(a) BY <2>16 DEF Address!ReadVhost
  <2>17. CASE Address!WriteVhost(a) BY <2>17 DEF Address!WriteVhost
  <2>18. CASE Address!VhostAccepted(a) BY <2>18 DEF Address!VhostAccepted
  <2>19. CASE Address!VhostRefused(a) BY <2>19 DEF Address!VhostRefused
  <2>20. CASE Address!LoadVhost(a) BY <2>20 DEF Address!LoadVhost
  <2>21. CASE Address!LoadShared(a) BY <2>21 DEF Address!LoadShared
  <2>22. QED
    BY <1>1, <2>5, <2>6, <2>7, <2>8, <2>9, <2>10, <2>11, <2>12, <2>13, <2>14, <2>15, <2>16, <2>17, <2>18, <2>19, <2>20, <2>21 DEF OwnStep
<1>2. ASSUME NEW a \in Writer, FirstStep(a) PROVE KnownVhosts'
  <2>1. doing' \in [Writer -> Change] /\ UNCHANGED <<panelFile, panelServed, certs, gone>>
    BY <1>2, FirstStepBegins
  <2>2. opened \subseteq opened' /\ listens' \in opened'
    BY <1>2, FirstStepSets DEF KnownVhosts
  <2>3. /\ doing'[a].name = "domain" => doing'[a].host \in Site
        /\ doing'[a].name \in {"domain", "move"} => doing'[a].port \in opened'
        /\ doing'[a].at \notin {"write", "check", "load"}
    BY <1>2, <2>2, FirstStepSets DEF KnownVhosts
  <2>4. \A b \in Writer \ {a} : /\ doing'[b].name = doing[b].name /\ doing'[b].at = doing[b].at
                                 /\ doing'[b].host = doing[b].host /\ doing'[b].port = doing[b].port
                                 /\ doing'[b].old = doing[b].old /\ doing'[b].new = doing[b].new
    BY <1>2, FirstStepBegins
  <2>5. QED BY <2>1, <2>2, <2>3, <2>4 DEF KnownVhosts, Known
<1>3. ASSUME NEW a \in Writer, Address!Crash(a) PROVE KnownVhosts'
  BY <1>3, CrashStarts DEF KnownVhosts, Known, Address!Crash, Address!Idle
<1>4. ASSUME Elsewhere PROVE KnownVhosts'
  <2>1. panelServed' \in {panelServed, panelFile} /\ certs' \cup gone' = certs \cup gone
    BY <1>4 DEF Elsewhere, Address!Break, Address!ReloadElsewhere, Address!RemoveCertificate, Address!Load
  <2>2. QED BY <1>4, <2>1, ElsewhereDisturbs DEF KnownVhosts, Known
<1>5. QED BY <1>1, <1>2, <1>3, <1>4, AddressStep

\* Two changes at once stay known as such.
LEMMA OthersNotAlone ==
    ASSUME Typed, NotAlone, Address!AddressAssumption, NEW a \in Writer, OwnStep(a)
    PROVE  \A b \in Writer \ {a} : Active(b)' => astray' /\ ~doing'[b].alone
BY OwnStepIsOwn DEF NotAlone, Active

LEMMA AddressAlone ==
    ASSUME Typed, NotAlone, Address!AddressAssumption, Address!Next
    PROVE  NotAlone'
<1>1. ASSUME NEW a \in Writer, OwnStep(a) PROVE NotAlone'
  BY <1>1, OwnStepIsOwn DEF NotAlone, Active
<1>2. ASSUME NEW a \in Writer, FirstStep(a) PROVE NotAlone'
  <2>1. \A b \in Writer \ {a} : Active(b) => astray' /\ ~doing'[a].alone /\ ~doing'[b].alone
    BY <1>2, FirstStepBegins
  <2>2. \A b \in Writer \ {a} : Active(b)' <=> Active(b)
    BY <1>2, FirstStepBegins DEF Active
  <2>3. QED BY <2>1, <2>2 DEF NotAlone
<1>3. ASSUME NEW a \in Writer, Address!Crash(a) PROVE NotAlone'
  BY <1>3, CrashStarts DEF NotAlone, Active, Address!Idle
<1>4. ASSUME Elsewhere PROVE NotAlone'
  BY <1>4, ElsewhereDisturbs DEF NotAlone, Active
<1>5. QED BY <1>1, <1>2, <1>3, <1>4, AddressStep

LEMMA BeforeStays ==
    ASSUME NEW a \in Writer, UNCHANGED <<domain, tls>>, domain \in certs' <=> domain \in certs
    PROVE  Before(doing[a])' = Shown(IF doing'[a].name = "move" THEN doing'[a].port ELSE listens')
BY DEF Before, Shown, Address!panelVhost

\* A change that goes on is what it was.
LEMMA GoesOn ==
    ASSUME Typed, NEW a \in Writer, NEW step, Address!Go(a, step), Active(a), step # "idle"
    PROVE  /\ doing'[a].at = step /\ doing'[a].name = doing[a].name
           /\ doing'[a].host = doing[a].host /\ doing'[a].port = doing[a].port
           /\ doing'[a].old = doing[a].old /\ doing'[a].new = doing[a].new
           /\ astray' = astray /\ Active(a)' /\ (Calm(a)' <=> Calm(a))
BY DEF Typed, Change, Calm, Active

\* A command of the job of a hostname.
LEMMA DomainPhase ==
    ASSUME AddressInv, Address!AddressAssumption, NEW a \in Writer, OwnStep(a),
           doing[a].name = "domain"
    PROVE  Phase(a)' /\ Address!Agree'
<1> USE DEF AddressInv, Typed, Change, Phase, Moving, Refreshing, Undone, Calm, Active, Address!Agree
<1>a. Address!Idle.at = "idle" /\ Address!Idle.name = "idle"
  BY DEF Address!Idle
<1>1. CASE Address!WritePlain(a)
  BY <1>a, <1>1, WantedWillBe DEF Address!WritePlain
<1>2. CASE Address!EnableVhost(a)
  <2>1. CASE Address!Accepts
    <3>1. /\ Address!Go(a, "remember") /\ Active(a) /\ panelServed' = panelFile
          /\ UNCHANGED <<domain, tls, listens, panelFile, certs>>
      BY <1>2, <2>1 DEF Address!EnableVhost, Address!Load
    <3>2. /\ doing'[a].at = "remember" /\ doing'[a].name = "domain" /\ Active(a)'
          /\ doing'[a].host = doing[a].host /\ doing'[a].port = doing[a].port
          /\ Calm(a)' <=> Calm(a)
      BY <3>1, GoesOn DEF AddressInv
    <3>3. Moving(a)'
      BY <1>2, <3>1, <3>2 DEF Address!EnableVhost
    <3>4. QED BY <3>2, <3>3
  <2>2. CASE ~Address!Accepts BY <1>a, <1>2, <2>2 DEF Address!EnableVhost
  <2>3. QED BY <2>1, <2>2
<1>3. CASE Address!Remember(a)
  BY <1>a, <1>3, WantedWillBe DEF Address!Remember
<1>4. CASE Address!RequestCertificate(a)
  BY <1>a, <1>4, WantedWillBe DEF Address!RequestCertificate
<1>5. CASE Address!NoCertificate(a)
  BY <1>a, <1>5, WantedWillBe DEF Address!NoCertificate
<1>6. CASE Address!WriteSecure(a)
  BY <1>a, <1>6, WantedWillBe DEF Address!WriteSecure
<1>7. CASE Address!SecureRefused(a)
  BY <1>a, <1>7, WantedWillBe DEF Address!SecureRefused
<1>8. CASE Address!SecureAccepted(a)
  BY <1>a, <1>8, WantedWillBe DEF Address!SecureAccepted
<1>9. CASE Address!ReloadSecure(a)
  <2>1. CASE Address!Accepts
    <3>1. /\ Address!Go(a, "flag") /\ Active(a) /\ panelServed' = panelFile
          /\ UNCHANGED <<domain, tls, listens, panelFile, certs>>
      BY <1>9, <2>1 DEF Address!ReloadSecure, Address!Load
    <3>2. /\ doing'[a].at = "flag" /\ doing'[a].name = "domain" /\ Active(a)'
          /\ doing'[a].host = doing[a].host /\ doing'[a].port = doing[a].port
          /\ Calm(a)' <=> Calm(a)
      BY <3>1, GoesOn DEF AddressInv
    <3>3. Moving(a)'
      BY <1>9, <3>1, <3>2 DEF Address!ReloadSecure
    <3>4. QED BY <3>2, <3>3
  <2>2. CASE ~Address!Accepts BY <1>a, <1>9, <2>2 DEF Address!ReloadSecure
  <2>3. QED BY <2>1, <2>2
<1>10. CASE Address!RememberSecure(a)
  <2>1. doing'[a] = Address!Idle /\ Active(a) /\ (~astray' => Calm(a)) /\ tls'
        /\ UNCHANGED <<domain, listens, certs, panelFile, panelServed>>
    BY <1>10 DEF Address!RememberSecure
  <2>2. Calm(a) => /\ domain = doing[a].host /\ domain \in certs
                   /\ panelFile = Address!panelVhost(domain, listens, TRUE) /\ panelServed = panelFile
    <3>1. doing[a].at = "flag" /\ doing[a].name = "domain"
      BY <1>10 DEF Address!RememberSecure
    <3>2. Moving(a)
      BY DEF AddressInv, Phase
    <3>3. Calm(a) => /\ domain = doing[a].host /\ doing[a].host \in certs
                     /\ panelFile = Address!panelVhost(doing[a].host, listens, TRUE)
                     /\ panelServed = panelFile
      BY <3>1, <3>2 DEF Moving
    <3>4. QED BY <3>3
  <2>3. Calm(a) => panelFile = Address!Wanted'
    BY <2>1, <2>2, WantedWillBe
  <2>4. QED BY <1>a, <2>1, <2>2, <2>3
<1>11. QED
  BY <1>1, <1>2, <1>3, <1>4, <1>5, <1>6, <1>7, <1>8, <1>9, <1>10 DEF OwnStep, Address!SameText, Address!ReadVhost, Address!WriteVhost, Address!VhostAccepted, Address!VhostRefused, Address!LoadVhost, Address!LoadShared

\* A command of a refresh.
LEMMA RefreshPhase ==
    ASSUME AddressInv, Address!AddressAssumption, NEW a \in Writer, OwnStep(a),
           doing[a].name # "domain"
    PROVE  Phase(a)' /\ Address!Agree'
<1>a. Address!Idle.at = "idle" /\ Address!Idle.name = "idle"
  BY DEF Address!Idle
<1>b. UNCHANGED <<domain, tls, certs>>
  BY DEF OwnStep, Address!WritePlain, Address!EnableVhost, Address!Remember, Address!RequestCertificate, Address!NoCertificate, Address!WriteSecure, Address!SecureRefused, Address!SecureAccepted, Address!ReloadSecure, Address!RememberSecure, Address!SameText, Address!ReadVhost, Address!WriteVhost, Address!VhostAccepted, Address!VhostRefused, Address!LoadVhost, Address!LoadShared
<1>c. /\ Address!Wanted' = Shown(listens') /\ Address!Wanted = Shown(listens)
      /\ Before(doing[a])' = Shown(IF doing'[a].name = "move" THEN doing'[a].port ELSE listens')
      /\ Before(doing[a]) = Shown(IF doing[a].name = "move" THEN doing[a].port ELSE listens)
  BY <1>b, WantedStays, WantedIs, BeforeStays DEF Before
<1> USE DEF AddressInv, Typed, Change, Phase, Moving, Refreshing, Undone, Calm, Active, Address!Agree
<1>1. CASE Address!SameText(a)
  BY <1>a, <1>b, <1>c, <1>1 DEF Address!SameText
<1>2. CASE Address!ReadVhost(a)
  BY <1>a, <1>b, <1>c, <1>2 DEF Address!ReadVhost
<1>3. CASE Address!WriteVhost(a)
  BY <1>a, <1>b, <1>c, <1>3 DEF Address!WriteVhost
<1>4. CASE Address!VhostAccepted(a)
  BY <1>a, <1>b, <1>c, <1>4 DEF Address!VhostAccepted
<1>5. CASE Address!VhostRefused(a)
  <2>1. /\ panelFile' = doing[a].old /\ panelServed' \in {doing[a].old, panelServed}
        /\ doing[a].at = "check"
    BY <1>5 DEF Address!VhostRefused
  <2>2. CASE doing[a].name = "move"
    BY <1>b, <1>c, <1>5, <2>1, <2>2 DEF Address!VhostRefused
  <2>3. CASE doing[a].name # "move"
    <3>1. doing'[a] = Address!Idle /\ UNCHANGED <<astray, listens>> /\ doing[a].name \in Address!Refreshes
      BY <1>5, <2>3 DEF Address!VhostRefused
    <3>2. ~astray => panelServed = doing[a].old /\ doing[a].old = Shown(listens)
      BY <1>c, <2>1, <2>3, <3>1
    <3>3. ~astray => panelFile' = Address!Wanted' /\ panelServed' = panelFile'
      BY <1>c, <2>1, <3>1, <3>2
    <3>4. QED BY <1>a, <3>1, <3>3
  <2>4. QED BY <2>2, <2>3
<1>6. CASE Address!LoadVhost(a)
  <2>1. CASE Address!Accepts /\ doing[a].name = "start"
    <3>1. /\ Address!Go(a, "shared") /\ Active(a) /\ doing[a].at = "load" /\ panelServed' = panelFile
          /\ UNCHANGED <<listens, panelFile>>
      BY <1>6, <2>1 DEF Address!LoadVhost, Address!Load
    <3>2. /\ doing'[a].at = "shared" /\ doing'[a].name = "start" /\ Active(a)'
          /\ Calm(a)' <=> Calm(a)
      BY <2>1, <3>1, GoesOn
    <3>3. Calm(a) => panelFile' = Address!Wanted'
      BY <1>c, <2>1, <3>1
    <3>4. Refreshing(a)' /\ Undone(a)' /\ Moving(a)'
      BY <3>1, <3>2, <3>3
    <3>5. QED BY <3>2, <3>4
  <2>2. CASE Address!Accepts /\ doing[a].name # "start"
    BY <1>a, <1>b, <1>c, <1>6, <2>2 DEF Address!LoadVhost, Address!Load
  <2>3. CASE ~Address!Accepts /\ doing[a].name = "move"
    BY <1>b, <1>c, <1>6, <2>3 DEF Address!LoadVhost
  <2>4. CASE ~Address!Accepts /\ doing[a].name # "move"
    BY <1>a, <1>b, <1>c, <1>6, <2>4 DEF Address!LoadVhost
  <2>5. QED BY <2>1, <2>2, <2>3, <2>4
<1>7. CASE Address!LoadShared(a)
  <2>1. CASE Address!Accepts
    BY <1>a, <1>b, <1>c, <1>7, <2>1 DEF Address!LoadShared, Address!Load
  <2>2. CASE ~Address!Accepts
    BY <1>a, <1>b, <1>c, <1>7, <2>2 DEF Address!LoadShared, Address!Load
  <2>3. QED BY <2>1, <2>2
<1>8. QED
  BY <1>1, <1>2, <1>3, <1>4, <1>5, <1>6, <1>7 DEF OwnStep, Address!WritePlain, Address!EnableVhost, Address!Remember, Address!RequestCertificate, Address!NoCertificate, Address!WriteSecure, Address!SecureRefused, Address!SecureAccepted, Address!ReloadSecure, Address!RememberSecure

\* A change that begins, beside another or by itself.
LEMMA FirstPhase ==
    ASSUME AddressInv, Address!AddressAssumption, NEW a \in Writer, FirstStep(a)
    PROVE  (\A b \in Writer : Phase(b)') /\ Address!Agree'
<1>1. /\ Active(a)' /\ ~Active(a)
      /\ \A b \in Writer \ {a} : Active(b)' => astray' /\ ~doing'[b].alone
      /\ UNCHANGED <<domain, tls, panelFile, panelServed, certs>>
      /\ ~astray' => ~astray /\ \A b \in Writer \ {a} : ~Active(b)
  <2>1. /\ Active(a)' /\ ~Active(a) /\ UNCHANGED <<domain, tls, panelFile, panelServed, certs>>
        /\ \A b \in Writer \ {a} : Active(b) => astray' /\ ~doing'[b].alone
        /\ astray => astray'
    BY FirstStepBegins DEF AddressInv
  <2>2. \A b \in Writer \ {a} : Active(b)' <=> Active(b)
    BY FirstStepBegins DEF AddressInv, Active
  <2>3. QED BY <2>1, <2>2
<1>2. ~astray' => panelFile = Shown(listens) /\ panelServed = panelFile
  BY <1>1, WantedIs DEF AddressInv, Address!Agree, Active
<1>3. Before(doing[a])' = Shown(IF doing'[a].name = "move" THEN doing'[a].port ELSE listens')
  BY <1>1, BeforeStays
<1>4. Phase(a)'
  <2>1. CASE doing'[a].name = "domain"
    <3>1. doing'[a].at = "plain" /\ doing'[a].port = listens'
      BY <2>1, FirstStepSets DEF AddressInv
    <3>2. QED BY <2>1, <3>1 DEF Phase, Moving, Refreshing, Undone
  <2>2. CASE doing'[a].name # "domain"
    <3>1. /\ doing'[a].at = "read"
          /\ doing'[a].name = "move" => doing'[a].port = listens
          /\ doing'[a].name # "move" => listens' = listens
      BY <2>2, FirstStepSets DEF AddressInv
    <3>2. ~astray' => panelFile' = Before(doing[a])' /\ panelServed' = panelFile'
      BY <1>1, <1>2, <1>3, <3>1
    <3>3. QED BY <2>2, <3>1, <3>2 DEF Phase, Moving, Refreshing, Undone
  <2>3. QED BY <2>1, <2>2
<1>5. Address!Agree'
  BY <1>1 DEF Address!Agree, Active
<1>6. QED BY <1>1, <1>4, <1>5, OneAtATime

LEMMA CrashPhase ==
    ASSUME AddressInv, Address!AddressAssumption, NEW a \in Writer, Address!Crash(a)
    PROVE  (\A b \in Writer : Phase(b)') /\ Address!Agree'
<1>1. /\ doing'[a].name = "start" /\ doing'[a].at = "read" /\ Active(a)'
      /\ \A b \in Writer \ {a} : ~Active(b)'
      /\ UNCHANGED <<domain, tls, listens, panelFile, panelServed, certs>>
      /\ ~astray' => ~astray /\ \A b \in Writer : ~Active(b)
  BY CrashStarts DEF AddressInv, Active, Address!Idle
<1>2. ~astray' => panelFile = Shown(listens) /\ panelServed = panelFile
  BY <1>1, WantedIs DEF AddressInv, Address!Agree, Active
<1>3. Before(doing[a])' = Shown(listens)
  BY <1>1, BeforeStays
<1>4. Phase(a)'
  BY <1>1, <1>2, <1>3 DEF Phase, Moving, Refreshing, Undone
<1>5. Address!Agree'
  BY <1>1 DEF Address!Agree, Active
<1>6. QED BY <1>1, <1>4, <1>5, OneAtATime

LEMMA PhasesStay ==
    ASSUME UNCHANGED <<domain, tls, listens, panelFile, panelServed, certs, doing, astray>>,
           \A a \in Writer : Phase(a), Address!Agree
    PROVE  (\A a \in Writer : Phase(a)') /\ Address!Agree'
<1>1. Address!Wanted' = Address!Wanted
  BY WantedStays
<1>2. Address!Agree'
  BY <1>1 DEF Address!Agree
<1>3. ASSUME NEW a \in Writer PROVE Phase(a)'
  <2>1. Before(doing[a])' = Before(doing[a])
    BY BeforeStays DEF Before
  <2>2. Phase(a) /\ (Calm(a)' <=> Calm(a))
    BY DEF Calm, Active
  <2>3. Moving(a)'
    BY <2>2 DEF Phase, Moving
  <2>4. Refreshing(a)' /\ Undone(a)'
    BY <1>1, <2>1, <2>2 DEF Phase, Refreshing, Undone
  <2>5. QED BY <2>3, <2>4 DEF Phase
<1>4. QED BY <1>2, <1>3

LEMMA ElsewherePhase ==
    ASSUME AddressInv, Elsewhere
    PROVE  (\A b \in Writer : Phase(b)') /\ Address!Agree'
<1>1. CASE Address!Break
  <2>1. UNCHANGED <<domain, tls, listens, panelFile, panelServed, certs, doing, astray>>
    BY <1>1 DEF Address!Break
  <2>2. QED BY <2>1, PhasesStay DEF AddressInv
<1>2. CASE Address!ReloadElsewhere
  <2>1. astray' /\ \A b \in Writer : ~Calm(b)'
    <3>1. ~Address!Break
      BY <1>2 DEF Address!ReloadElsewhere, Address!Break, AddressInv, Typed, Address!TypeOK
    <3>2. astray'
      BY <1>2 DEF Address!ReloadElsewhere
    <3>3. QED BY <3>1, <3>2, ElsewhereDisturbs DEF AddressInv, Calm, Active
  <2>2. QED BY <2>1 DEF Phase, Moving, Refreshing, Undone, Address!Agree
<1>3. CASE \E h \in Site : Address!RemoveCertificate(h)
  <2>1. PICK h \in Site : Address!RemoveCertificate(h)
    BY <1>3
  <2>2. /\ UNCHANGED <<domain, tls, listens, panelFile, panelServed>>
        /\ certs' = certs \ {h} /\ (astray' <=> astray \/ domain = h)
    BY <2>1 DEF Address!RemoveCertificate, AddressInv, Typed, Address!TypeOK
  <2>3. \A b \in Writer : /\ doing'[b].name = doing[b].name /\ doing'[b].at = doing[b].at
                          /\ doing'[b].host = doing[b].host /\ doing'[b].port = doing[b].port
                          /\ doing'[b].old = doing[b].old /\ doing'[b].new = doing[b].new
                          /\ Calm(b)' => ~astray'
    <3>1. ~Address!Break
      BY <2>1 DEF Address!RemoveCertificate, Address!Break, AddressInv, Typed, Address!TypeOK
    <3>2. QED BY <1>3, <3>1, ElsewhereDisturbs DEF AddressInv, Calm, Active, Elsewhere
  <2>4. CASE astray'
    BY <2>3, <2>4 DEF Phase, Moving, Refreshing, Undone, Address!Agree
  <2>5. CASE ~astray'
    <3>1. domain # h /\ ~astray /\ (domain \in certs' <=> domain \in certs)
      BY <2>2, <2>5
    <3>2. /\ Address!Wanted' = Address!Wanted
          /\ \A b \in Writer : Before(doing[b])' = Before(doing[b])
      BY <2>2, <2>3, <3>1, WantedStays, BeforeStays DEF Before
    <3>3. Address!Agree'
      BY <2>2, <2>3, <3>1, <3>2 DEF AddressInv, Address!Agree
    <3>4. ASSUME NEW b \in Writer PROVE Phase(b)'
      <4>1. Phase(b) /\ (Calm(b)' <=> Calm(b))
        BY <2>3, <2>5, <3>1 DEF AddressInv, Calm, Active
      <4>2. Moving(b)'
        BY <2>2, <2>3, <3>1, <4>1 DEF Phase, Moving
      <4>3. Refreshing(b)' /\ Undone(b)'
        BY <2>2, <2>3, <3>1, <3>2, <4>1 DEF Phase, Refreshing, Undone
      <4>4. QED BY <4>2, <4>3 DEF Phase
    <3>5. QED BY <3>3, <3>4
  <2>6. QED BY <2>4, <2>5
<1>4. QED BY <1>1, <1>2, <1>3 DEF Elsewhere

LEMMA AddressInvariant == AddressInv /\ Address!AddressAssumption /\ Address!Next => AddressInv'
<1> SUFFICES ASSUME AddressInv, Address!AddressAssumption, Address!Next PROVE AddressInv'
  OBVIOUS
<1>1. Typed' /\ KnownVhosts' /\ NotAlone'
  BY AddressTypes, AddressKnown, AddressAlone DEF AddressInv
<1>2. (\A b \in Writer : Phase(b)') /\ Address!Agree'
  <2>1. ASSUME NEW a \in Writer, OwnStep(a)
        PROVE  (\A b \in Writer : Phase(b)') /\ Address!Agree'
    <3>1. Phase(a)' /\ Address!Agree'
      BY <2>1, DomainPhase, RefreshPhase
    <3>2. QED BY <2>1, <3>1, OthersNotAlone, OneAtATime DEF AddressInv
  <2>2. QED BY <2>1, FirstPhase, CrashPhase, ElsewherePhase, AddressStep
<1>3. QED BY <1>1, <1>2 DEF AddressInv

AddressFocus == focus = "address" => AddressInv

LEMMA AddressFirst == Init => AddressFocus
<1> SUFFICES ASSUME Init, focus = "address" PROVE AddressInv
  BY DEF AddressFocus
<1>1. Address!Init
  BY DEF Init
<1>2. QED BY <1>1, PartsAssumption, AddressBegins

LEMMA AddressNext == AddressFocus /\ [Next]_vars => AddressFocus'
<1> SUFFICES ASSUME AddressFocus, [Next]_vars, focus' = "address" PROVE AddressInv'
  BY DEF AddressFocus
<1>1. focus = "address" /\ (Address!Next \/ UNCHANGED addressVars)
  BY DEF Next, vars
<1>2. CASE Address!Next
  BY <1>1, <1>2, PartsAssumption, AddressInvariant DEF AddressFocus
<1>3. CASE UNCHANGED addressVars
  <2>1. AddressInv /\ Typed' /\ KnownVhosts' /\ NotAlone'
    BY <1>1, <1>3 DEF addressVars, AddressFocus, AddressInv, Typed, Address!TypeOK, KnownVhosts, Known,
       NotAlone, Active
  <2>2. (\A a \in Writer : Phase(a)') /\ Address!Agree'
    BY <1>3, <2>1, PhasesStay DEF addressVars, AddressInv
  <2>3. QED BY <2>1, <2>2 DEF AddressInv
<1>4. QED BY <1>1, <1>2, <1>3

\* Where the panel answers: on a port the firewall lets through, without a
\* certificate that nobody issued, and, once every change is over that was not
\* cut off or crossed by another, as the settings say (system.go, from
\* updateDomain to refreshPanelVhost).
THEOREM PanelAnswers == Spec => []AddressKept
<1>1. AddressFocus => AddressKept
  BY DEF AddressFocus, AddressInv, AddressKept, Address!AddressKept, Typed, KnownVhosts, Known,
         Address!Reachable, Address!CertificateIsThere
<1>2. QED BY <1>1, AddressFirst, AddressNext, PTL DEF Spec

---------------------------------------------------------------------------
(***************************************************************************)
(* LogCollector.  EveryLineOnce speaks of the idle minutes only; to prove  *)
(* it, the invariant follows one copy: where each file's lines begin, what *)
(* the cursor stands for, and, of the file in hand, that what is kept and  *)
(* what is in the batch are the lines up to where the reading got to.      *)
(***************************************************************************)

\* The lines a+1 to b of a file.
Lines(a, b) == [i \in 1..(b - a) |-> a + i]

LEMMA LinesAre ==
    ASSUME NEW a \in Int, NEW b \in Int, a <= b
    PROVE  /\ Lines(a, b) \in Seq(Int) /\ Len(Lines(a, b)) = b - a
           /\ \A i \in 1..(b - a) : Lines(a, b)[i] = a + i
BY DEF Lines

\* A sequence of such lines is known by its length and its members.
LEMMA AreLines ==
    ASSUME NEW a \in Int, NEW n \in Nat, NEW s \in Seq(Int), Len(s) = n,
           \A i \in 1..n : s[i] = a + i
    PROVE  s = Lines(a, a + n)
<1> DEFINE b == a + n
<1>0. b \in Int /\ a <= b /\ b - a = n
  OBVIOUS
<1> HIDE DEF b
<1>1. Lines(a, b) \in Seq(Int) /\ Len(Lines(a, b)) = n /\ \A i \in 1..n : Lines(a, b)[i] = a + i
  BY <1>0, LinesAre
<1>2. Len(s) = Len(Lines(a, b)) /\ \A i \in 1..Len(s) : s[i] = Lines(a, b)[i]
  BY <1>1
<1>3. s = Lines(a, b)
  BY <1>1, <1>2, SeqEqual
<1>4. QED BY <1>3 DEF b

LEMMA LinesJoin ==
    ASSUME NEW a \in Int, NEW b \in Int, NEW c \in Int, a <= b, b <= c
    PROVE  Lines(a, b) \o Lines(b, c) = Lines(a, c)
<1> DEFINE s == Lines(a, b)  t == Lines(b, c)
<1>1. s \in Seq(Int) /\ Len(s) = b - a /\ \A i \in 1..(b - a) : s[i] = a + i
  BY LinesAre
<1>2. t \in Seq(Int) /\ Len(t) = c - b /\ \A i \in 1..(c - b) : t[i] = b + i
  BY LinesAre
<1> HIDE DEF s, t
<1>3. /\ s \o t \in Seq(Int) /\ Len(s \o t) = Len(s) + Len(t)
      /\ \A i \in 1 .. Len(s) + Len(t) : (s \o t)[i] = IF i <= Len(s) THEN s[i] ELSE t[i - Len(s)]
  BY <1>1, <1>2, ConcatProperties
<1>4. Len(s \o t) = c - a /\ \A i \in 1..(c - a) : (s \o t)[i] = a + i
  <2>1. Len(s \o t) = c - a
    BY <1>1, <1>2, <1>3
  <2>2. ASSUME NEW i \in 1..(c - a) PROVE (s \o t)[i] = a + i
    <3>1. i \in 1..(Len(s) + Len(t))
      BY <1>1, <1>2
    <3>2. CASE i <= b - a
      BY <1>1, <1>3, <3>1, <3>2
    <3>3. CASE ~(i <= b - a)
      <4>1. i - (b - a) \in 1..(c - b) /\ b + (i - (b - a)) = a + i
        BY <3>3
      <4>2. (s \o t)[i] = t[i - (b - a)]
        BY <1>1, <1>3, <3>1, <3>3
      <4>3. QED BY <1>2, <4>1, <4>2
    <3>4. QED BY <3>2, <3>3
  <2>3. QED BY <2>1, <2>2
<1>5. c - a \in Nat /\ a + (c - a) = c
  OBVIOUS
<1>6. s \o t = Lines(a, a + (c - a))
  BY <1>3, <1>4, <1>5, AreLines
<1>7. QED BY <1>5, <1>6 DEF s, t

LEMMA LinesPart ==
    ASSUME NEW a \in Int, NEW b \in Int, NEW k \in Nat, NEW n \in Nat, k <= n, a + n <= b
    PROVE  SubSeq(Lines(a, b), k + 1, n) = Lines(a + k, a + n)
<1> DEFINE s == Lines(a, b)  r == SubSeq(s, k + 1, n)
<1>0. a <= b
  OBVIOUS
<1>1. s \in Seq(Int) /\ Len(s) = b - a /\ \A i \in 1..(b - a) : s[i] = a + i
  BY <1>0, LinesAre
<1> HIDE DEF s
<1>2. \A i \in (k + 1)..n : i \in 1..(b - a)
  OBVIOUS
<1>3. \A i \in (k + 1)..n : s[i] \in Int
  BY <1>1, <1>2
<1>4. /\ r \in Seq(Int)
      /\ Len(r) = IF k + 1 <= n THEN n - (k + 1) + 1 ELSE 0
      /\ \A i \in 1..(n - (k + 1) + 1) : r[i] = s[k + 1 + i - 1]
  BY <1>3, SubSeqProperties
<1> HIDE DEF r
<1>5. Len(r) = n - k /\ n - k \in Nat
  BY <1>4
<1>6. \A i \in 1..(n - k) : i \in 1..(n - (k + 1) + 1) /\ k + 1 + i - 1 = k + i /\ k + i \in 1..(b - a)
  OBVIOUS
<1>7. \A i \in 1..(n - k) : r[i] = (a + k) + i
  <2> SUFFICES ASSUME NEW i \in 1..(n - k) PROVE r[i] = (a + k) + i
    OBVIOUS
  <2>1. r[i] = s[k + i]
    BY <1>4, <1>6
  <2>2. s[k + i] = a + (k + i)
    BY <1>1, <1>6
  <2>3. QED BY <2>1, <2>2
<1> DEFINE d == a + k  m == n - k
<1>8. d \in Int /\ m \in Nat /\ d + m = a + n
  OBVIOUS
<1>9. r \in Seq(Int) /\ Len(r) = m /\ \A i \in 1..m : r[i] = d + i
  BY <1>4, <1>5, <1>7
<1> HIDE DEF d, m
<1>10. r = Lines(d, d + m)
  BY <1>8, <1>9, AreLines
<1>11. QED BY <1>8, <1>10 DEF r, s, d

LEMMA LinesGrow ==
    ASSUME NEW a \in Int, NEW b \in Int, a <= b
    PROVE  Append(Lines(a, b), b + 1) = Lines(a, b + 1)
<1> DEFINE s == Lines(a, b)  t == Append(s, b + 1)
<1>1. s \in Seq(Int) /\ Len(s) = b - a /\ \A i \in 1..(b - a) : s[i] = a + i
  BY LinesAre
<1> HIDE DEF s
<1>2. /\ t \in Seq(Int) /\ Len(t) = Len(s) + 1
      /\ \A i \in 1..Len(s) : t[i] = s[i]
      /\ t[Len(s) + 1] = b + 1
  BY <1>1, AppendProperties
<1> HIDE DEF t
<1>3. Len(t) = b + 1 - a /\ b + 1 - a \in Nat /\ a + (b + 1 - a) = b + 1
  BY <1>1, <1>2
<1>4. \A i \in 1..(b + 1 - a) : t[i] = a + i
  <2> SUFFICES ASSUME NEW i \in 1..(b + 1 - a) PROVE t[i] = a + i
    OBVIOUS
  <2>1. CASE i = b - a + 1
    BY <1>1, <1>2, <2>1
  <2>2. CASE i # b - a + 1
    <3>1. i \in 1..(b - a)
      BY <2>2
    <3>2. QED BY <1>1, <1>2, <3>1
  <2>3. QED BY <2>1, <2>2
<1>5. t = Lines(a, a + (b + 1 - a))
  BY <1>2, <1>3, <1>4, AreLines
<1>6. QED BY <1>3, <1>5 DEF s, t

LEMMA NoLines == ASSUME NEW a \in Int PROVE Lines(a, a) = <<>>
<1> DEFINE s == Lines(a, a)
<1>1. s \in Seq(Int) /\ Len(s) = 0
  <2>1. a <= a /\ a - a = 0
    OBVIOUS
  <2>2. QED BY <2>1, LinesAre
<1> HIDE DEF s
<1>2. s = <<>>
  BY <1>1, EmptySeq
<1>3. QED BY <1>2 DEF s

LEMMA FromLines ==
    ASSUME NEW a \in Int, NEW b \in Int, NEW k \in Nat, a + k <= b
    PROVE  Logs!From(Lines(a, b), k) = Lines(a + k, b)
<1>0. a <= b /\ b - a \in Nat /\ k <= b - a /\ a + (b - a) = b
  OBVIOUS
<1>1. Len(Lines(a, b)) = b - a
  BY <1>0, LinesAre
<1> DEFINE n == b - a
<1>2. n \in Nat /\ k <= n /\ a + n = b /\ a + n <= b
  BY <1>0
<1> HIDE DEF n
<1>3. SubSeq(Lines(a, b), k + 1, n) = Lines(a + k, a + n)
  BY <1>2, LinesPart
<1>4. QED BY <1>1, <1>2, <1>3 DEF Logs!From, n

\* The line the file at p begins after, and the one the rotated copy does.
Base(p) == written[p] - Len(cur[p].lines)
OldBase(p) == Base(p) - Len(old[p].lines)

\* The last line the cursor of p says was read.
Upto(p) ==
    IF cursor[p].ino # cur[p].ino THEN OldBase(p) + cursor[p].off
    ELSE IF p \in emptied THEN Base(p) ELSE Base(p) + cursor[p].off

LogStat == [ino : Nat, size : Nat, oldIno : Nat, oldSize : Nat]
LogsTyped ==
    /\ cur \in [Path -> [ino : Nat, lines : Seq(Nat)]]
    /\ old \in [Path -> [ino : Nat, lines : Seq(Nat)]]
    /\ written \in [Path -> Nat] /\ cursor \in [Path -> [ino : Nat, off : Nat]]
    /\ at \in {"idle", "visit", "old", "read", "save", "record"}
    /\ path \in Path /\ todo \subseteq Path /\ stat \in [Path -> LogStat]
    /\ start \in Nat /\ got \in Seq(Nat)
    /\ batch \in [Path -> Seq(Nat)] /\ events \in [Path -> Seq(Nat)]
    /\ first \in [Path -> Int]
    /\ emptied \subseteq Path /\ lossy \subseteq Path
    /\ rotations \in 0..MaxRotations /\ breaks \in 0..MaxBreaks

\* A file holds the last lines written to its path.
FileHolds(p) ==
    /\ cur[p].ino # 0
    /\ cur[p].lines = Lines(Base(p), written[p])

\* The cursor is in the file or in its rotated copy, which then holds the lines
\* before the file's.
CursorPoints(p) ==
    LET c == cursor[p] IN
    IF c.ino = cur[p].ino
      THEN IF p \in emptied THEN Len(cur[p].lines) < c.off ELSE c.off <= Len(cur[p].lines)
      ELSE /\ p \notin emptied
           /\ c.ino # 0 => /\ c.ino = old[p].ino /\ c.off <= Len(old[p].lines)
                           /\ old[p].lines = Lines(OldBase(p), Base(p))

\* The lines a sequence holds are those after the first seen, up to n.
Holds(p, lines, n) == first[p] <= n /\ lines = Lines(first[p], n)

InHand(p) == at \in {"old", "read", "save"} /\ p = path
Fresh(p) == at = "idle" \/ p \in todo \/ InHand(p)

\* Until the cursor is saved the events are those before it.
EventsKept(p) ==
    Fresh(p) => IF cursor[p].ino = 0 THEN events[p] = <<>> ELSE Holds(p, events[p], Upto(p))

\* What stat said is true of the file, but for the lines written since.
StatHolds(p) ==
    at # "idle" =>
        /\ stat[p].ino = cur[p].ino /\ stat[p].size <= Len(cur[p].lines)
        /\ stat[p].oldIno = old[p].ino /\ stat[p].oldSize = Len(old[p].lines)
        /\ p \in todo => /\ batch[p] = <<>>
                         /\ cursor[p].ino = cur[p].ino /\ p \notin emptied
                              => cursor[p].off <= stat[p].size

\* Where the copy of a file is.
BatchKept(p) ==
    LET kept == events[p] \o batch[p] IN
    /\ InHand(p) =>
         /\ at = "old" => batch[p] = <<>> /\ cursor[p].ino # 0 /\ Logs!Rotated(p) /\ start = 0
         /\ at = "read" => Holds(p, kept, Base(p) + start)
         /\ at = "save" => Holds(p, kept, Base(p) + start + Len(got))
         /\ at # "save" => got = <<>>
         /\ start + Len(got) <= stat[p].size
    /\ ~Fresh(p) =>
         /\ cursor[p].ino = cur[p].ino /\ p \notin emptied
         /\ Holds(p, kept, Upto(p))

InTurn == /\ at \in {"old", "read", "save"} => path \notin todo
          /\ at \in {"idle", "record"} => todo = {}

LogKept(p) == FileHolds(p) /\ CursorPoints(p) /\ EventsKept(p) /\ StatHolds(p) /\ BatchKept(p)

LogsInv == LogsTyped /\ InTurn /\ \A p \in Path \ lossy : LogKept(p)

LEMMA LogsAt ==
    ASSUME LogsTyped, NEW p \in Path
    PROVE  /\ cur[p].ino \in Nat /\ cur[p].lines \in Seq(Nat) /\ Len(cur[p].lines) \in Nat
           /\ old[p].ino \in Nat /\ old[p].lines \in Seq(Nat) /\ Len(old[p].lines) \in Nat
           /\ written[p] \in Nat /\ cursor[p].ino \in Nat /\ cursor[p].off \in Nat
           /\ stat[p].ino \in Nat /\ stat[p].size \in Nat
           /\ stat[p].oldIno \in Nat /\ stat[p].oldSize \in Nat
           /\ batch[p] \in Seq(Nat) /\ events[p] \in Seq(Nat) /\ first[p] \in Int
           /\ Base(p) \in Int /\ OldBase(p) \in Int /\ Upto(p) \in Int
<1>1. /\ cur[p].ino \in Nat /\ cur[p].lines \in Seq(Nat)
      /\ old[p].ino \in Nat /\ old[p].lines \in Seq(Nat)
  BY DEF LogsTyped
<1>2. /\ written[p] \in Nat /\ cursor[p].ino \in Nat /\ cursor[p].off \in Nat
      /\ stat[p].ino \in Nat /\ stat[p].size \in Nat
      /\ stat[p].oldIno \in Nat /\ stat[p].oldSize \in Nat
      /\ batch[p] \in Seq(Nat) /\ events[p] \in Seq(Nat) /\ first[p] \in Int
  BY DEF LogsTyped, LogStat
<1>3. Len(cur[p].lines) \in Nat /\ Len(old[p].lines) \in Nat
  BY <1>1, LenProperties
<1>4. Base(p) \in Int
  BY <1>2, <1>3 DEF Base
<1>5. OldBase(p) \in Int
  BY <1>3, <1>4 DEF OldBase
<1>6. Upto(p) \in Int
  BY <1>2, <1>4, <1>5 DEF Upto
<1>7. QED BY <1>1, <1>2, <1>3, <1>4, <1>5, <1>6

\* What is read of a file is a part of it.
LEMMA ReadPart ==
    ASSUME NEW s \in Seq(Nat), NEW k \in Nat, NEW n \in Nat
    PROVE  Logs!Read(s, k, n) \in Seq(Nat) /\ Len(Logs!Read(s, k, n)) \in Nat
<1> DEFINE m == Logs!Smaller(Logs!Smaller(n, k + MaxRead), Len(s))
<1>1. m \in Int /\ m <= Len(s) /\ Len(s) \in Nat
  BY PartsAssumption, LenProperties DEF Logs!Smaller, Logs!LogsAssumption
<1> HIDE DEF m
<1>2. \A i \in (k + 1)..m : s[i] \in Nat
  <2>1. \A i \in (k + 1)..m : i \in 1..Len(s)
    BY <1>1
  <2>2. QED BY <2>1, ElementOfSeq
<1>3. SubSeq(s, k + 1, m) \in Seq(Nat)
  BY <1>1, <1>2, SubSeqProperties
<1>4. QED BY <1>3, LenProperties DEF Logs!Read, m

\* With the lines of a file in it, it is those from there to where the reading
\* ends; with nothing over the cap, all there are.
ReadEnd(a, b, k, n) == Logs!Smaller(Logs!Smaller(n, k + MaxRead), Len(Lines(a, b)))

LEMMA ReadTo ==
    ASSUME NEW a \in Int, NEW b \in Int, NEW k \in Nat, NEW n \in Nat,
           k <= n, a + n <= b
    PROVE  LET m == ReadEnd(a, b, k, n) IN
           /\ m \in Nat /\ k <= m /\ m <= n /\ (n - k <= MaxRead => m = n)
           /\ Logs!Read(Lines(a, b), k, n) = Lines(a + k, a + m)
<1> DEFINE m == ReadEnd(a, b, k, n)
<1>0. MaxRead \in Nat
  BY PartsAssumption DEF Logs!LogsAssumption
<1>1. a <= b /\ Len(Lines(a, b)) = b - a
  <2>1. a <= b
    OBVIOUS
  <2>2. QED BY <2>1, LinesAre
<1>2. /\ m \in Nat /\ k <= m /\ m <= n /\ (n - k <= MaxRead => m = n)
      /\ a + m <= b
  BY <1>0, <1>1 DEF Logs!Smaller, ReadEnd
<1>3. Logs!Read(Lines(a, b), k, n) = SubSeq(Lines(a, b), k + 1, m)
  BY DEF Logs!Read, ReadEnd
<1> HIDE DEF m
<1>4. Logs!Read(Lines(a, b), k, n) = Lines(a + k, a + m)
  BY <1>2, <1>3, LinesPart
<1>5. QED BY <1>2, <1>4 DEF m

LEMMA ReadSome ==
    ASSUME NEW a \in Int, NEW b \in Int, NEW k \in Nat, NEW n \in Nat,
           k <= n, a + n <= b
    PROVE  /\ Len(Logs!Read(Lines(a, b), k, n)) \in Nat
           /\ k + Len(Logs!Read(Lines(a, b), k, n)) <= n
           /\ Logs!Read(Lines(a, b), k, n)
                = Lines(a + k, a + k + Len(Logs!Read(Lines(a, b), k, n)))
<1> DEFINE r == Logs!Read(Lines(a, b), k, n)  m == ReadEnd(a, b, k, n)
<1>1. m \in Nat /\ k <= m /\ m <= n /\ r = Lines(a + k, a + m)
  BY ReadTo
<1> HIDE DEF r, m
<1> DEFINE c == a + k  d == a + m
<1>2. c \in Int /\ d \in Int /\ c <= d /\ d - c = m - k
  BY <1>1
<1>3. r = Lines(c, d)
  BY <1>1
<1> HIDE DEF c, d
<1>4. Len(r) = m - k
  BY <1>2, <1>3, LinesAre
<1>5. a + k + Len(r) = a + m
  BY <1>1, <1>4
<1>6. Len(r) \in Nat /\ k + Len(r) <= n
  BY <1>1, <1>4
<1>7. QED BY <1>1, <1>5, <1>6 DEF r

LEMMA ReadAll ==
    ASSUME NEW a \in Int, NEW b \in Int, NEW k \in Nat, NEW n \in Nat,
           k <= n, a + n <= b, n - k <= MaxRead
    PROVE  Logs!Read(Lines(a, b), k, n) = Lines(a + k, a + n)
BY ReadTo

\* Parts of a file put together in any order are the same.
LEMMA PartsJoin == \A s, t, u \in Seq(Nat) : (s \o t) \o u = s \o (t \o u)
<1> SUFFICES ASSUME NEW s \in Seq(Nat), NEW t \in Seq(Nat), NEW u \in Seq(Nat)
             PROVE  (s \o t) \o u = s \o (t \o u)
  OBVIOUS
<1>1. QED BY ConcatAssociative

LEMMA LogsBegin == Logs!Init => LogsInv
<1> SUFFICES ASSUME Logs!Init PROVE LogsInv
  OBVIOUS
<1>0. Logs!LogsAssumption /\ Logs!Anywhere \in Path
  BY PartsAssumption DEF Logs!LogsAssumption, Logs!Anywhere
<1>1. PICK n \in {0, First + 1} :
        /\ cur = [p \in Path |-> [ino |-> 1, lines |-> [i \in 1..n |-> i]]]
        /\ written = [p \in Path |-> n]
  BY DEF Logs!Init
<1>2. n \in Nat
  BY <1>0 DEF Logs!LogsAssumption
<1>3. [i \in 1..n |-> i] \in Seq(Nat) /\ Len([i \in 1..n |-> i]) = n
  BY <1>2
<1>4. [i \in 1..n |-> i] = Lines(0, n)
  BY <1>2 DEF Lines
<1>5. <<>> \in Seq(Nat)
  BY EmptySeq
<1>6. LogsTyped
  BY <1>0, <1>1, <1>2, <1>3, <1>5
     DEF Logs!Init, LogsTyped, LogStat, Logs!LogsAssumption, Logs!NoFile, Logs!NoCursor,
         Logs!NoStat, Logs!Nothing
<1>7. InTurn
  BY DEF InTurn, Logs!Init
<1>8. ASSUME NEW p \in Path PROVE LogKept(p)
  <2>1. Base(p) = 0 /\ cur[p].ino = 1 /\ cur[p].lines = Lines(0, n) /\ written[p] = n
    BY <1>1, <1>2, <1>3, <1>4 DEF Base
  <2>2. cursor[p].ino = 0 /\ p \notin emptied /\ at = "idle" /\ events[p] = <<>>
    BY DEF Logs!Init, Logs!NoCursor, Logs!Nothing
  <2>3. QED BY <2>1, <2>2
    DEF LogKept, FileHolds, CursorPoints, EventsKept, StatHolds, BatchKept, Fresh, InHand
<1>9. QED BY <1>6, <1>7, <1>8 DEF LogsInv

\* Every action keeps the types, and visits each path once.
LEMMA LogsTypes == ASSUME LogsInv, Logs!Next PROVE LogsTyped' /\ InTurn'
<1>ty. LogsTyped /\ InTurn
  BY DEF LogsInv
<1>0. /\ Logs!Anywhere \in Path /\ MaxRotations \in Nat /\ MaxBreaks \in Nat
      /\ MaxRead \in Nat /\ First \in Nat
  BY PartsAssumption DEF Logs!LogsAssumption, Logs!Anywhere
<1>e. <<>> \in Seq(Nat) /\ Len(<<>>) = 0
  BY EmptySeq
<1>at. \A p \in Path : /\ written[p] \in Nat /\ cur[p].ino \in Nat /\ cur[p].lines \in Seq(Nat) /\ Len(cur[p].lines) \in Nat
                       /\ old[p].ino \in Nat /\ old[p].lines \in Seq(Nat) /\ Len(old[p].lines) \in Nat
                       /\ batch[p] \in Seq(Nat) /\ events[p] \in Seq(Nat)
                       /\ stat[p].ino \in Nat /\ stat[p].size \in Nat
                       /\ stat[p].oldIno \in Nat /\ stat[p].oldSize \in Nat
                       /\ cursor[p].ino \in Nat /\ cursor[p].off \in Nat
  BY <1>ty, LogsAt
<1>pa. path \in Path /\ start \in Nat
  BY <1>ty DEF LogsTyped
<1>1. ASSUME NEW p \in Path, Logs!Append1(p) PROVE LogsTyped' /\ InTurn'
  <2>1. written[p] + 1 \in Nat /\ cur[p].lines \in Seq(Nat)
    BY <1>at
  <2>2. Append(cur[p].lines, written[p] + 1) \in Seq(Nat)
    BY <2>1, AppendProperties
  <2>3. written' \in [Path -> Nat] /\ written'[p] = written[p] + 1
    BY <1>1, <2>1, <1>ty DEF LogsTyped, InTurn, Logs!Append1
  <2> DEFINE more == Append(cur[p].lines, written[p] + 1)
  <2>7. cur' = [cur EXCEPT ![p].lines = more]
    BY <1>1, <2>3 DEF Logs!Append1
  <2>8. more \in Seq(Nat)
    BY <2>2
  <2> HIDE DEF more
  <2>4. cur' \in [Path -> [ino : Nat, lines : Seq(Nat)]]
    BY <2>7, <2>8, <1>ty DEF LogsTyped, InTurn
  <2>5. lossy' \subseteq Path
    BY <1>1, <1>ty DEF LogsTyped, InTurn, Logs!Append1
  <2>6. QED BY <1>1, <2>3, <2>4, <2>5, <1>ty DEF LogsTyped, InTurn, Logs!Append1, Logs!work
<1>2. ASSUME NEW p \in Path, Logs!Rotate(p) PROVE LogsTyped' /\ InTurn'
  <2>4. cur[p] \in [ino : Nat, lines : Seq(Nat)]
    BY <1>ty DEF LogsTyped
  <2>5. [ino |-> cur[p].ino + 1, lines |-> <<>>] \in [ino : Nat, lines : Seq(Nat)]
    BY <1>e, <2>4
  <2>6. cur' \in [Path -> [ino : Nat, lines : Seq(Nat)]]
    BY <1>2, <2>5, <1>ty DEF LogsTyped, InTurn, Logs!Rotate
  <2>7. old' \in [Path -> [ino : Nat, lines : Seq(Nat)]]
    BY <1>2, <2>4, <1>ty DEF LogsTyped, InTurn, Logs!Rotate
  <2>1. /\ cur' \in [Path -> [ino : Nat, lines : Seq(Nat)]]
        /\ old' \in [Path -> [ino : Nat, lines : Seq(Nat)]]
    BY <2>6, <2>7, <1>ty DEF LogsTyped, InTurn
  <2>2. lossy' \subseteq Path /\ rotations' \in 0..MaxRotations
    BY <1>2, <1>0, <1>ty DEF LogsTyped, InTurn, Logs!Rotate
  <2>3. QED BY <1>2, <2>1, <2>2, <1>ty DEF LogsTyped, InTurn, Logs!Rotate, Logs!work
<1>3. ASSUME NEW p \in Path, Logs!Empty(p) PROVE LogsTyped' /\ InTurn'
  <2>1. cur' \in [Path -> [ino : Nat, lines : Seq(Nat)]]
    BY <1>3, <1>e, <1>ty DEF LogsTyped, InTurn, Logs!Empty
  <2>4. rotations' \in 0..MaxRotations
    <3>1. rotations \in 0..MaxRotations /\ rotations < MaxRotations /\ rotations' = rotations + 1
      BY <1>3, <1>ty DEF Logs!Empty, LogsTyped
    <3>2. QED BY <1>0, <3>1
  <2>5. emptied' = emptied \cup {p} /\ lossy' \in {lossy, lossy \cup {p}}
    BY <1>3, <1>ty DEF LogsTyped, InTurn, Logs!Empty
  <2>2. lossy' \subseteq Path /\ emptied' \subseteq Path /\ rotations' \in 0..MaxRotations
    BY <2>4, <2>5, <1>ty DEF LogsTyped, InTurn
  <2>3. QED BY <1>3, <2>1, <2>2, <1>ty DEF LogsTyped, InTurn, Logs!Empty, Logs!work
<1>4. ASSUME NEW p \in Path, Logs!Visit(p) PROVE LogsTyped' /\ InTurn'
  <2>0. cursor[p].off \in Nat /\ stat[p].size \in Nat
    BY <1>at
  <2>1. start' \in Nat
    BY <1>4, <1>0, <2>0 DEF Logs!Visit
  <2>2. first' \in [Path -> Int]
    <3>0. written[p] \in Nat /\ Len(cur[p].lines) \in Nat
      BY <1>at
    <3>1. written[p] - Len(cur[p].lines) + start' \in Int
      BY <3>0, <2>1
    <3>2. CASE cursor[p].ino = 0
      <4>1. first' = [first EXCEPT ![p] = written[p] - Len(cur[p].lines) + start']
        BY <1>4, <3>2 DEF Logs!Visit
      <4>2. QED BY <1>ty, <3>1, <4>1 DEF LogsTyped
    <3>3. CASE cursor[p].ino # 0
      BY <1>4, <1>ty, <3>3 DEF Logs!Visit, LogsTyped
    <3>4. QED BY <3>2, <3>3
  <2>3. /\ path' = p /\ todo' = todo \ {p} /\ got' = <<>> /\ at' \in {"old", "read", "save"}
        /\ UNCHANGED <<cur, old, written, cursor, stat, batch, events, emptied, lossy, rotations,
                       breaks>>
    BY <1>4 DEF Logs!Visit, Logs!files
  <2>4. QED BY <1>e, <2>1, <2>2, <2>3, <1>ty DEF LogsTyped, InTurn
<1>5. CASE Logs!Begin
  <2>1. stat' \in [Path -> LogStat]
    BY <1>5, <1>at, <1>ty DEF LogsTyped, InTurn, Logs!Begin, LogStat
  <2>2. batch' \in [Path -> Seq(Nat)]
    BY <1>5, <1>e, <1>ty DEF LogsTyped, InTurn, Logs!Begin, Logs!Nothing
  <2>3. QED BY <1>5, <2>1, <2>2, <1>ty DEF LogsTyped, InTurn, Logs!Begin, Logs!files
<1>6. CASE Logs!ReadOld
  <2>1. /\ old[path].lines \in Seq(Nat) /\ cursor[path].off \in Nat
        /\ stat[path].oldSize \in Nat /\ batch[path] \in Seq(Nat)
    BY <1>at, <1>pa
  <2>2. Logs!Read(old[path].lines, cursor[path].off, stat[path].oldSize) \in Seq(Nat)
    BY <2>1, ReadPart
  <2>3. batch[path] \o Logs!Read(old[path].lines, cursor[path].off, stat[path].oldSize) \in Seq(Nat)
    BY <2>1, <2>2, ConcatProperties
  <2>4. batch' \in [Path -> Seq(Nat)]
    BY <1>6, <2>3, <1>ty DEF LogsTyped, InTurn, Logs!ReadOld
  <2>5. lossy' \subseteq Path /\ at' \in {"save", "read"}
    BY <1>6, <1>ty DEF LogsTyped, InTurn, Logs!ReadOld
  <2>6. QED BY <1>6, <2>4, <2>5, <1>ty DEF LogsTyped, InTurn, Logs!ReadOld, Logs!files
<1>7. CASE Logs!ReadCurrent
  <2>1. got' = Logs!Read(cur[path].lines, start, stat[path].size)
    BY <1>7 DEF Logs!ReadCurrent
  <2>6. /\ cur[path].lines \in Seq(Nat) /\ stat[path].size \in Nat /\ batch[path] \in Seq(Nat)
    BY <1>at, <1>pa
  <2>2. got' \in Seq(Nat)
    BY <1>pa, <2>1, <2>6, ReadPart
  <2>3. batch[path] \o got' \in Seq(Nat)
    BY <2>2, <2>6, ConcatProperties
  <2>4. batch' \in [Path -> Seq(Nat)]
    BY <1>7, <2>3, <1>ty DEF LogsTyped, InTurn, Logs!ReadCurrent
  <2>5. QED BY <1>7, <2>2, <2>4, <1>ty DEF LogsTyped, InTurn, Logs!ReadCurrent, Logs!files
<1>8. CASE Logs!SetLogCursor
  <2>1. start + Len(got) \in Nat
    BY <1>ty, LenProperties DEF LogsTyped
  <2>2. cursor' \in [Path -> [ino : Nat, off : Nat]]
    BY <1>8, <1>at, <2>1, <1>ty DEF LogsTyped, InTurn, Logs!SetLogCursor
  <2>3. QED BY <1>8, <2>2, <1>ty DEF LogsTyped, InTurn, Logs!SetLogCursor, Logs!files
<1>r. ASSUME Logs!Rest
      PROVE  /\ at' = "idle" /\ path' \in Path /\ todo' = {} /\ stat' \in [Path -> LogStat]
             /\ start' \in Nat /\ got' \in Seq(Nat) /\ batch' \in [Path -> Seq(Nat)]
  BY <1>0, <1>e, <1>r, <1>ty DEF LogsTyped, InTurn, Logs!Rest, Logs!NoStat, Logs!Nothing, LogStat
<1>9. CASE Logs!RecordServerEvents
  <2>1. \A p \in Path : events[p] \o batch[p] \in Seq(Nat)
    BY <1>at, ConcatProperties
  <2>2. events' \in [Path -> Seq(Nat)]
    BY <1>9, <2>1, <1>ty DEF LogsTyped, InTurn, Logs!RecordServerEvents
  <2>3. QED BY <1>9, <1>r, <2>2, <1>ty DEF LogsTyped, InTurn, Logs!RecordServerEvents, Logs!files
<1>10. CASE Logs!Break
  <2>1. lossy' \subseteq Path /\ breaks' \in 0..MaxBreaks
    BY <1>10, <1>0, <1>ty DEF LogsTyped, InTurn, Logs!Break
  <2>2. QED BY <1>10, <1>r, <2>1, <1>ty DEF LogsTyped, InTurn, Logs!Break, Logs!files
<1>11. QED BY <1>1, <1>2, <1>3, <1>4, <1>5, <1>6, <1>7, <1>8, <1>9, <1>10 DEF Logs!Next

\* A path nothing happens to keeps its file, its cursor and what was read of it.
SamePath(p) ==
    /\ cur'[p] = cur[p] /\ old'[p] = old[p] /\ written'[p] = written[p]
    /\ cursor'[p] = cursor[p] /\ first'[p] = first[p]
    /\ p \in emptied' <=> p \in emptied

LEMMA PathStays ==
    ASSUME NEW p \in Path, LogKept(p), SamePath(p)
    PROVE  /\ FileHolds(p)' /\ CursorPoints(p)'
           /\ Base(p)' = Base(p) /\ Upto(p)' = Upto(p)
<1>1. Base(p)' = Base(p) /\ OldBase(p)' = OldBase(p)
  BY DEF SamePath, Base, OldBase
<1>2. Upto(p)' = Upto(p)
  BY <1>1 DEF SamePath, Upto
<1>3. FileHolds(p)'
  BY <1>1 DEF SamePath, LogKept, FileHolds
<1>4. CursorPoints(p)'
  BY <1>1 DEF SamePath, LogKept, CursorPoints
<1>5. QED BY <1>1, <1>2, <1>3, <1>4

\* While the copy does nothing to it either.
LEMMA FileStays ==
    ASSUME NEW p \in Path, LogKept(p), SamePath(p), UNCHANGED <<Logs!work, events>>
    PROVE  LogKept(p)'
<1>1. /\ FileHolds(p)' /\ CursorPoints(p)' /\ Base(p)' = Base(p) /\ Upto(p)' = Upto(p)
  BY PathStays
<1>2. /\ Fresh(p)' = Fresh(p) /\ InHand(p)' = InHand(p)
      /\ Logs!Rotated(p)' = Logs!Rotated(p)
  BY DEF Fresh, InHand, SamePath, Logs!work, Logs!Rotated
<1>3. EventsKept(p)'
  BY <1>1, <1>2 DEF LogKept, EventsKept, SamePath, Holds
<1>4. StatHolds(p)'
  BY DEF LogKept, StatHolds, SamePath, Logs!work
<1>5. BatchKept(p)'
  BY <1>1, <1>2 DEF LogKept, BatchKept, SamePath, Holds, Logs!work
<1>6. QED BY <1>1, <1>3, <1>4, <1>5 DEF LogKept

LEMMA AppendKeeps ==
    ASSUME LogsInv, NEW q \in Path, Logs!Append1(q), NEW p \in Path \ lossy'
    PROVE  LogKept(p)'
<1>0. p \in Path \ lossy /\ LogKept(p)
  BY DEF Logs!Append1, LogsInv
<1>1. CASE p # q
  <2>1. SamePath(p) /\ UNCHANGED <<Logs!work, events>>
    BY <1>1 DEF SamePath, Logs!Append1, LogsInv, LogsTyped
  <2>2. QED BY <1>0, <2>1, FileStays
<1>2. CASE p = q
  <2> DEFINE n == Len(cur[p].lines)
  <2>1. /\ n \in Nat /\ cur[p].lines \in Seq(Nat) /\ written[p] \in Nat /\ Base(p) \in Int
        /\ cursor[p].off \in Nat
    BY <1>0, LogsAt DEF LogsInv
  <2>0. Base(p) = written[p] - n
    BY DEF Base
  <2> HIDE DEF n
  <2>a. Base(p) <= written[p]
    BY <2>0, <2>1
  <2>b. written'[p] = written[p] + 1
    BY <1>2 DEF Logs!Append1, LogsInv, LogsTyped
  <2>c. cur' = [cur EXCEPT ![p].lines = Append(@, written[p] + 1)]
    BY <1>2, <2>b DEF Logs!Append1
  <2>d. cur'[p].ino = cur[p].ino /\ cur'[p].lines = Append(cur[p].lines, written[p] + 1)
    BY <2>c DEF LogsInv, LogsTyped
  <2>2. /\ written'[p] = written[p] + 1
        /\ cur'[p].ino = cur[p].ino
        /\ cur'[p].lines = Append(cur[p].lines, written[p] + 1)
        /\ UNCHANGED <<old, cursor, Logs!work, events, first, emptied>>
    BY <1>2, <2>b, <2>d DEF Logs!Append1
  <2>3. Len(cur'[p].lines) = n + 1
    BY <2>1, <2>2, AppendProperties DEF n
  <2>4. Base(p)' = Base(p)
    BY <2>0, <2>1, <2>2, <2>3 DEF Base
  <2>5. OldBase(p)' = OldBase(p) /\ Upto(p)' = Upto(p)
    BY <2>2, <2>4 DEF OldBase, Upto
  <2>6. p \notin emptied \/ n + 1 < cursor[p].off
    BY <1>2, <2>1, <2>2, <2>3 DEF Logs!Append1
  <2>7. Append(Lines(Base(p), written[p]), written[p] + 1) = Lines(Base(p), written[p] + 1)
    <3>1. Base(p) \in Int /\ written[p] \in Int /\ Base(p) <= written[p]
      BY <2>1, <2>a
    <3>2. QED BY <3>1, LinesGrow
  <2>8. FileHolds(p)'
    BY <1>0, <2>2, <2>4, <2>7 DEF FileHolds, LogKept
  <2>9. CursorPoints(p)'
    BY <1>0, <2>1, <2>2, <2>3, <2>4, <2>5, <2>6 DEF CursorPoints, LogKept, n
  <2>10. /\ Fresh(p)' = Fresh(p) /\ InHand(p)' = InHand(p)
         /\ Logs!Rotated(p)' = Logs!Rotated(p)
    BY <2>2 DEF Fresh, InHand, Logs!work, Logs!Rotated
  <2>11. EventsKept(p)'
    BY <1>0, <2>2, <2>5, <2>10 DEF LogKept, EventsKept, Holds
  <2>12. StatHolds(p)'
    <3>1. stat[p].size \in Nat
      BY LogsAt DEF LogsInv
    <3>2. QED BY <1>0, <2>1, <2>2, <2>3, <3>1 DEF LogKept, StatHolds, Logs!work, n
  <2>13. BatchKept(p)'
    BY <1>0, <2>2, <2>4, <2>5, <2>10 DEF LogKept, BatchKept, Holds, Logs!work
  <2>14. QED BY <2>8, <2>9, <2>11, <2>12, <2>13 DEF LogKept
<1>3. QED BY <1>1, <1>2

LEMMA RotateKeeps ==
    ASSUME LogsInv, NEW q \in Path, Logs!Rotate(q), NEW p \in Path \ lossy'
    PROVE  LogKept(p)'
<1>0. p \in Path \ lossy /\ LogKept(p)
  BY DEF Logs!Rotate, LogsInv
<1>1. CASE p # q
  <2>1. SamePath(p) /\ UNCHANGED <<Logs!work, events>>
    BY <1>1 DEF SamePath, Logs!Rotate, LogsInv, LogsTyped
  <2>2. QED BY <1>0, <2>1, FileStays
<1>2. CASE p = q
  <2>1. at = "idle" /\ cursor[p].ino \in {0, cur[p].ino} /\ p \notin emptied
    BY <1>2 DEF Logs!Rotate
  <2>2. /\ old'[p] = cur[p] /\ cur'[p].ino = cur[p].ino + 1 /\ cur'[p].lines = <<>>
        /\ UNCHANGED <<written, cursor, Logs!work, events, first, emptied>>
    BY <1>2 DEF Logs!Rotate, LogsInv, LogsTyped
  <2>3. /\ cur[p].ino \in Nat /\ written[p] \in Nat /\ Base(p) \in Int
        /\ Len(cur[p].lines) \in Nat /\ cursor[p].off \in Nat
    BY LogsAt DEF LogsInv
  <2>4. Base(p)' = written[p] /\ OldBase(p)' = Base(p)
    BY <2>2, <2>3, EmptySeq DEF Base, OldBase
  <2>5. FileHolds(p)'
    <3>1. Lines(written[p], written[p]) = <<>>
      BY <2>3, NoLines
    <3>2. QED BY <2>2, <2>3, <2>4, <3>1 DEF FileHolds
  <2>6. CursorPoints(p)'
    BY <1>0, <2>1, <2>2, <2>3, <2>4 DEF LogKept, CursorPoints, FileHolds
  <2>7. cursor[p].ino # 0 => Upto(p)' = Upto(p)
    BY <2>1, <2>2, <2>3, <2>4 DEF Upto
  <2>8. EventsKept(p)'
    BY <1>0, <2>1, <2>2, <2>7 DEF LogKept, EventsKept, Holds, Fresh
  <2>9. at' = "idle"
    BY <2>1, <2>2 DEF Logs!work
  <2>10. StatHolds(p)' /\ BatchKept(p)'
    BY <2>9 DEF StatHolds, BatchKept, InHand, Fresh
  <2>11. QED BY <2>5, <2>6, <2>8, <2>10 DEF LogKept
<1>3. QED BY <1>1, <1>2

LEMMA EmptyKeeps ==
    ASSUME LogsInv, NEW q \in Path, Logs!Empty(q), NEW p \in Path \ lossy'
    PROVE  LogKept(p)'
<1>0. p \in Path \ lossy /\ LogKept(p)
  BY DEF Logs!Empty, LogsInv
<1>1. CASE p # q
  <2>1. SamePath(p) /\ UNCHANGED <<Logs!work, events>>
    BY <1>1 DEF SamePath, Logs!Empty, LogsInv, LogsTyped
  <2>2. QED BY <1>0, <2>1, FileStays
<1>2. CASE p = q
  <2>1. /\ at = "idle" /\ p \notin emptied
        /\ cursor[p].ino = cur[p].ino /\ cursor[p].off = Len(cur[p].lines)
    BY <1>2 DEF Logs!Empty
  <2>2. /\ cur[p].lines # <<>> /\ cur'[p].ino = cur[p].ino /\ cur'[p].lines = <<>>
        /\ p \in emptied'
        /\ UNCHANGED <<old, written, cursor, Logs!work, events, first>>
    BY <1>2 DEF Logs!Empty, LogsInv, LogsTyped
  <2>3. /\ cur[p].lines \in Seq(Nat) /\ written[p] \in Nat /\ Len(cur[p].lines) \in Nat
        /\ cursor[p].off \in Nat
    BY LogsAt DEF LogsInv
  <2>4. Base(p)' = written[p] /\ Len(cur[p].lines) # 0
    BY <2>2, <2>3, EmptySeq DEF Base
  <2>5. FileHolds(p)'
    <3>1. Lines(written[p], written[p]) = <<>>
      BY <2>3, NoLines
    <3>2. QED BY <1>0, <2>2, <2>3, <2>4, <3>1 DEF FileHolds, LogKept
  <2>6. CursorPoints(p)'
    <3>1. Len(cur'[p].lines) = 0
      BY <2>2, EmptySeq
    <3>2. QED BY <2>1, <2>2, <2>3, <2>4, <3>1 DEF CursorPoints
  <2>7. Upto(p)' = Upto(p)
    BY <2>1, <2>2, <2>3, <2>4 DEF Upto, Base
  <2>8. EventsKept(p)'
    BY <1>0, <2>1, <2>2, <2>7 DEF LogKept, EventsKept, Holds, Fresh
  <2>9. at' = "idle"
    BY <2>1, <2>2 DEF Logs!work
  <2>10. StatHolds(p)' /\ BatchKept(p)'
    BY <2>9 DEF StatHolds, BatchKept, InHand, Fresh
  <2>11. QED BY <2>5, <2>6, <2>8, <2>10 DEF LogKept
<1>3. QED BY <1>1, <1>2

LEMMA BeginKeeps ==
    ASSUME LogsInv, Logs!Begin, NEW p \in Path \ lossy'
    PROVE  LogKept(p)'
<1>0. p \in Path \ lossy /\ LogKept(p)
  BY DEF Logs!Begin, LogsInv
<1>1. SamePath(p) /\ events' = events /\ at = "idle" /\ at' = "visit" /\ todo' = Path
  BY DEF SamePath, Logs!Begin, Logs!files
<1>2. /\ FileHolds(p)' /\ CursorPoints(p)' /\ Base(p)' = Base(p) /\ Upto(p)' = Upto(p)
  BY <1>0, <1>1, PathStays
<1>3. EventsKept(p)'
  BY <1>0, <1>1, <1>2 DEF LogKept, EventsKept, SamePath, Holds, Fresh
<1>4. StatHolds(p)'
  <2>1. /\ stat'[p].ino = cur[p].ino /\ stat'[p].size = Len(cur[p].lines)
        /\ stat'[p].oldIno = old[p].ino /\ stat'[p].oldSize = Len(old[p].lines)
        /\ batch'[p] = <<>>
    BY DEF Logs!Begin, Logs!Nothing
  <2>2. Len(cur[p].lines) \in Nat
    BY LogsAt DEF LogsInv
  <2>3. cursor[p].ino = cur[p].ino /\ p \notin emptied => cursor[p].off <= Len(cur[p].lines)
    BY <1>0 DEF LogKept, CursorPoints
  <2>4. QED BY <1>1, <2>1, <2>2, <2>3 DEF StatHolds, SamePath
<1>5. BatchKept(p)'
  BY <1>1 DEF BatchKept, InHand, Fresh
<1>6. QED BY <1>2, <1>3, <1>4, <1>5 DEF LogKept

LEMMA VisitKeeps ==
    ASSUME LogsInv, NEW q \in Path, Logs!Visit(q), NEW p \in Path \ lossy'
    PROVE  LogKept(p)'
<1>0. p \in Path \ lossy /\ LogKept(p)
  BY DEF Logs!Visit, LogsInv
<1>1. /\ at = "visit" /\ q \in todo /\ path' = q /\ todo' = todo \ {q} /\ got' = <<>>
      /\ at' \in {"old", "read", "save"}
      /\ UNCHANGED <<cur, old, written, cursor, stat, batch, events, emptied, lossy>>
  BY DEF Logs!Visit, Logs!files
<1>2. CASE p # q
  <2>1. SamePath(p)
    BY <1>1, <1>2 DEF SamePath, Logs!Visit, LogsInv, LogsTyped
  <2>2. /\ FileHolds(p)' /\ CursorPoints(p)' /\ Base(p)' = Base(p) /\ Upto(p)' = Upto(p)
    BY <1>0, <2>1, PathStays
  <2>3. Fresh(p)' = Fresh(p) /\ ~InHand(p)'
    BY <1>1, <1>2 DEF Fresh, InHand
  <2>4. EventsKept(p)'
    BY <1>0, <1>1, <2>1, <2>2, <2>3 DEF LogKept, EventsKept, SamePath, Holds
  <2>5. StatHolds(p)'
    BY <1>0, <1>1, <1>2 DEF LogKept, StatHolds
  <2>6. BatchKept(p)'
    BY <1>0, <1>1, <2>1, <2>2, <2>3 DEF LogKept, BatchKept, SamePath, Holds
  <2>7. QED BY <2>2, <2>4, <2>5, <2>6 DEF LogKept
<1>3. CASE p = q
  <2>1. /\ cur[p].ino # 0 /\ cursor[p].ino \in Nat /\ cursor[p].off \in Nat /\ stat[p].size \in Nat
        /\ Len(cur[p].lines) \in Nat /\ Len(old[p].lines) \in Nat /\ events[p] \in Seq(Nat)
        /\ Base(p) \in Int /\ OldBase(p) \in Int /\ Upto(p) \in Int
        /\ Base(p) = written[p] - Len(cur[p].lines) /\ OldBase(p) = Base(p) - Len(old[p].lines)
    BY <1>0, LogsAt DEF LogsInv, LogKept, FileHolds, Base, OldBase
  <2>2. /\ stat[p].ino = cur[p].ino /\ stat[p].size <= Len(cur[p].lines)
        /\ stat[p].oldIno = old[p].ino /\ stat[p].oldSize = Len(old[p].lines)
        /\ batch[p] = <<>>
        /\ cursor[p].ino = cur[p].ino /\ p \notin emptied => cursor[p].off <= stat[p].size
    BY <1>0, <1>1, <1>3 DEF LogKept, StatHolds
  <2>3. First \in Nat
    BY PartsAssumption DEF Logs!LogsAssumption
  <2>4. events[p] \o batch[p] = events[p]
    BY <2>1, <2>2, ConcatEmptySeq
  <2>5. /\ FileHolds(p)' /\ CursorPoints(p)' /\ Base(p)' = Base(p) /\ Upto(p)' = Upto(p)
        /\ Logs!Rotated(p)' = Logs!Rotated(p)
    BY <1>0, <1>1 DEF LogKept, FileHolds, CursorPoints, Base, OldBase, Upto, Logs!Rotated
  <2>6. Fresh(p) /\ Fresh(p)' /\ InHand(p)'
    BY <1>1, <1>3 DEF Fresh, InHand
  <2>7. cursor[p].ino # 0 => first' = first
    BY <1>3 DEF Logs!Visit
  <2>8. EventsKept(p)'
    BY <1>0, <1>1, <2>5, <2>6, <2>7 DEF LogKept, EventsKept, Holds
  <2>9. StatHolds(p)'
    BY <1>1, <1>3, <2>2 DEF StatHolds
  <2>10. start' \in Nat /\ start' <= stat[p].size
    <3>1. CASE cursor[p].ino = 0
      BY <1>3, <2>1, <2>3, <3>1 DEF Logs!Visit
    <3>2. CASE cursor[p].ino # 0
      BY <1>3, <2>1, <3>2 DEF Logs!Visit
    <3>3. QED BY <3>1, <3>2
  <2>11. at' = "old" => cursor[p].ino # 0 /\ Logs!Rotated(p)' /\ start' = 0
    BY <1>3, <2>1, <2>5 DEF Logs!Visit, Logs!Rotated
  <2>12. at' # "old" => first'[p] <= Base(p) + start' /\ events[p] = Lines(first'[p], Base(p) + start')
    <3> SUFFICES ASSUME at' # "old"
                 PROVE  /\ first'[p] <= Base(p) + start'
                        /\ events[p] = Lines(first'[p], Base(p) + start')
      OBVIOUS
    <3>1. CASE cursor[p].ino = 0
      <4>0. first' = [first EXCEPT ![p] = written[p] - Len(cur[p].lines) + start']
        BY <1>3, <3>1 DEF Logs!Visit
      <4>5. first'[p] = written[p] - Len(cur[p].lines) + start'
        BY <4>0 DEF LogsInv, LogsTyped
      <4>1. first'[p] = Base(p) + start' /\ Base(p) + start' \in Int
        BY <2>1, <2>10, <4>5
      <4>2. events[p] = <<>>
        BY <1>0, <2>6, <3>1 DEF LogKept, EventsKept
      <4>3. Lines(Base(p) + start', Base(p) + start') = <<>>
        BY <4>1, NoLines
      <4>4. QED BY <4>1, <4>2, <4>3
    <3>2. CASE cursor[p].ino # 0
      <4>1. first[p] <= Upto(p) /\ events[p] = Lines(first[p], Upto(p))
        BY <1>0, <2>6, <3>2 DEF LogKept, EventsKept, Holds
      <4>2. Upto(p) = Base(p) + start'
        <5>1. CASE cursor[p].ino = cur[p].ino /\ p \in emptied
          <6>1. Len(cur[p].lines) < cursor[p].off
            BY <1>0, <5>1 DEF LogKept, CursorPoints
          <6>2. start' = 0
            BY <1>3, <2>1, <2>2, <3>2, <5>1, <6>1 DEF Logs!Visit, Logs!Rotated
          <6>3. QED BY <2>1, <5>1, <6>2 DEF Upto
        <5>2. CASE cursor[p].ino = cur[p].ino /\ p \notin emptied
          <6>1. start' = cursor[p].off
            BY <1>3, <2>1, <2>2, <3>2, <5>2 DEF Logs!Visit, Logs!Rotated
          <6>2. QED BY <5>2, <6>1 DEF Upto
        <5>3. CASE cursor[p].ino # cur[p].ino
          <6>1. cursor[p].ino = old[p].ino /\ cursor[p].off <= Len(old[p].lines)
            BY <1>0, <3>2, <5>3 DEF LogKept, CursorPoints
          <6>2. start' = 0 /\ ~(stat[p].oldSize > cursor[p].off)
            BY <1>3, <2>1, <2>2, <3>2, <5>3, <6>1 DEF Logs!Visit, Logs!Rotated
          <6>3. QED BY <2>1, <2>2, <5>3, <6>1, <6>2 DEF Upto
        <5>4. QED BY <5>1, <5>2, <5>3
      <4>3. QED BY <2>7, <3>2, <4>1, <4>2
    <3>3. QED BY <3>1, <3>2
  <2>13. Len(got') = 0 /\ start' + Len(got') = start' /\ Base(p) + start' + Len(got') = Base(p) + start'
    BY <1>1, <2>1, <2>10, EmptySeq
  <2>14. BatchKept(p)'
    BY <1>1, <2>2, <2>4, <2>5, <2>6, <2>10, <2>11, <2>12, <2>13 DEF BatchKept, Holds
  <2>15. QED BY <2>5, <2>8, <2>9, <2>14 DEF LogKept
<1>4. QED BY <1>2, <1>3

\* What the copy does to the file in hand is nothing to the others.
LEMMA OthersStay ==
    ASSUME LogsInv, NEW p \in Path, p # path, LogKept(p), at \in {"old", "read", "save"},
           at' \in {"read", "save", "visit", "record"}, at' = "record" => todo = {},
           UNCHANGED <<cur, old, written, path, todo, stat, events, first>>,
           cursor'[p] = cursor[p], batch'[p] = batch[p], p \in emptied' <=> p \in emptied
    PROVE  LogKept(p)'
<1>1. SamePath(p) /\ events'[p] = events[p]
  BY DEF SamePath
<1>2. /\ FileHolds(p)' /\ CursorPoints(p)' /\ Base(p)' = Base(p) /\ Upto(p)' = Upto(p)
  BY <1>1, PathStays
<1>3. Fresh(p)' = Fresh(p) /\ ~InHand(p)'
  BY DEF Fresh, InHand
<1>4. EventsKept(p)'
  BY <1>1, <1>2, <1>3 DEF LogKept, EventsKept, Holds, SamePath
<1>5. StatHolds(p)'
  BY DEF LogKept, StatHolds
<1>6. BatchKept(p)'
  BY <1>1, <1>2, <1>3 DEF LogKept, BatchKept, Holds, SamePath
<1>7. QED BY <1>2, <1>4, <1>5, <1>6 DEF LogKept

LEMMA ReadOldKeeps ==
    ASSUME LogsInv, Logs!ReadOld, NEW p \in Path \ lossy'
    PROVE  LogKept(p)'
<1>0. p \in Path \ lossy /\ LogKept(p) /\ path \in Path
  BY DEF Logs!ReadOld, LogsInv, LogsTyped
<1>1. /\ at = "old" /\ at' \in {"save", "read"}
      /\ batch' = [batch EXCEPT ![path] =
                     @ \o Logs!Read(old[path].lines, cursor[path].off, stat[path].oldSize)]
      /\ UNCHANGED <<cur, old, written, cursor, path, todo, stat, start, got, events, first,
                     emptied>>
  BY DEF Logs!ReadOld, Logs!files
<1>2. CASE p # path
  <2>1. batch'[p] = batch[p]
    BY <1>1, <1>2 DEF LogsInv, LogsTyped
  <2>2. QED BY <1>0, <1>1, <1>2, <2>1, OthersStay
<1>3. CASE p = path
  <2> DEFINE k == cursor[p].off  n == Len(old[p].lines)
             a == OldBase(p)  b == Base(p)
             more == Logs!Read(old[p].lines, k, n)
  <2>1. /\ k \in Nat /\ n \in Nat /\ a \in Int /\ b \in Int /\ a + n = b
        /\ batch[p] \in Seq(Nat) /\ events[p] \in Seq(Nat) /\ stat[p].size \in Nat
        /\ old[p].lines \in Seq(Nat) /\ first[p] \in Int
    BY LogsAt DEF LogsInv, OldBase
  <2>2. /\ batch[p] = <<>> /\ cursor[p].ino # 0 /\ Logs!Rotated(p) /\ start = 0 /\ got = <<>>
        /\ start + Len(got) <= stat[p].size
    BY <1>0, <1>1, <1>3 DEF LogKept, BatchKept, InHand
  <2>3. /\ cursor[p].ino # cur[p].ino /\ stat[p].oldSize = n
    BY <1>0, <1>1, <2>2 DEF LogKept, StatHolds, Logs!Rotated
  <2>4. k <= n /\ old[p].lines = Lines(a, b)
    BY <1>0, <2>2, <2>3 DEF LogKept, CursorPoints
  <2>5. n - k <= MaxRead
    <3>1. MaxRead \in Nat
      BY PartsAssumption DEF Logs!LogsAssumption
    <3>2. ~(n - k > MaxRead)
      BY <1>3, <2>3 DEF Logs!ReadOld
    <3> HIDE DEF n, k
    <3>3. QED BY <2>1, <3>1, <3>2
  <2>6. Upto(p) = a + k
    BY <2>3 DEF Upto
  <2>7. first[p] <= a + k /\ events[p] = Lines(first[p], a + k)
    BY <1>0, <1>1, <1>3, <2>2, <2>6 DEF LogKept, EventsKept, Fresh, InHand, Holds
  <2>8. more \in Seq(Nat) /\ batch'[p] = batch[p] \o more
    BY <1>0, <1>1, <1>3, <2>1, <2>3, ReadPart DEF LogsInv, LogsTyped
  <2>9. batch'[p] = more
    BY <2>2, <2>8, ConcatEmptySeq
  <2> HIDE DEF k, n, a, b
  <2>10. more = Lines(a + k, b)
    <3>0. a \in Int /\ b \in Int /\ k \in Nat /\ n \in Nat /\ k <= n /\ a + n <= b
      BY <2>1, <2>4
    <3>1. Logs!Read(Lines(a, b), k, n) = Lines(a + k, a + n)
      BY <2>5, <3>0, ReadAll
    <3>2. QED BY <2>1, <2>4, <3>1
  <2> HIDE DEF more
  <2>11. events[p] \o batch'[p] = Lines(first[p], b) /\ first[p] <= b
    <3> DEFINE c == a + k
    <3>1. c \in Int /\ c <= b /\ first[p] <= c
      BY <2>1, <2>4, <2>7
    <3> HIDE DEF c
    <3>2. Lines(first[p], c) \o Lines(c, b) = Lines(first[p], b)
      BY <2>1, <3>1, LinesJoin
    <3>3. QED BY <2>1, <2>7, <2>9, <2>10, <3>1, <3>2 DEF c
  <2>12. /\ Base(p)' = Base(p) /\ Upto(p)' = Upto(p) /\ Fresh(p) /\ Fresh(p)' /\ InHand(p)'
         /\ FileHolds(p)' /\ CursorPoints(p)'
    BY <1>0, <1>1, <1>3 DEF Base, OldBase, Upto, Fresh, InHand, LogKept, FileHolds, CursorPoints
  <2>13. EventsKept(p)'
    BY <1>0, <1>1, <2>12 DEF LogKept, EventsKept, Holds
  <2>14. StatHolds(p)'
    <3>1. p \notin todo
      BY <1>1, <1>3 DEF LogsInv, InTurn
    <3>2. QED BY <1>0, <1>1, <3>1 DEF LogKept, StatHolds
  <2>15. b + start = b /\ b + start + Len(got) = b
    BY <2>1, <2>2, EmptySeq
  <2>16. BatchKept(p)'
    BY <1>1, <2>2, <2>11, <2>12, <2>15 DEF BatchKept, Holds, b
  <2>17. QED BY <2>12, <2>13, <2>14, <2>16 DEF LogKept
<1>4. QED BY <1>2, <1>3

LEMMA ReadCurrentKeeps ==
    ASSUME LogsInv, Logs!ReadCurrent, NEW p \in Path \ lossy'
    PROVE  LogKept(p)'
<1>0. p \in Path \ lossy /\ LogKept(p) /\ path \in Path
  BY DEF Logs!ReadCurrent, LogsInv, LogsTyped
<1>1. /\ at = "read" /\ at' = "save"
      /\ got' = Logs!Read(cur[path].lines, start, stat[path].size)
      /\ batch' = [batch EXCEPT ![path] = @ \o got']
      /\ UNCHANGED <<cur, old, written, cursor, path, todo, stat, start, events, first, emptied>>
  BY DEF Logs!ReadCurrent, Logs!files
<1>2. CASE p # path
  <2>1. batch'[p] = batch[p]
    BY <1>1, <1>2 DEF LogsInv, LogsTyped
  <2>2. QED BY <1>0, <1>1, <1>2, <2>1, OthersStay
<1>3. CASE p = path
  <2> DEFINE k == start  n == stat[p].size  a == Base(p)  b == written[p]
             kept == events[p] \o batch[p]
  <2>1. /\ k \in Nat /\ n \in Nat /\ a \in Int /\ b \in Int
        /\ batch[p] \in Seq(Nat) /\ events[p] \in Seq(Nat)
        /\ cur[p].lines \in Seq(Nat) /\ Len(cur[p].lines) \in Nat /\ first[p] \in Int
    <3>1. LogsTyped /\ start \in Nat
      BY DEF LogsInv, LogsTyped
    <3>2. QED BY <3>1, LogsAt
  <2>2. /\ first[p] <= a + k /\ kept = Lines(first[p], a + k) /\ got = <<>>
        /\ start + Len(got) <= stat[p].size
    BY <1>0, <1>1, <1>3 DEF LogKept, BatchKept, InHand, Holds
  <2>3. cur[p].lines = Lines(a, b) /\ n <= Len(cur[p].lines)
    BY <1>0, <1>1 DEF LogKept, StatHolds, FileHolds
  <2>4. a + n <= b /\ k <= n
    <3>1. a = b - Len(cur[p].lines)
      BY DEF Base
    <3>2. QED BY <2>1, <2>2, <2>3, <3>1, EmptySeq
  <2>5. got' \in Seq(Nat) /\ batch'[p] = batch[p] \o got'
    BY <1>0, <1>1, <1>3, <2>1, ReadPart DEF LogsInv, LogsTyped
  <2>6. events[p] \o batch'[p] = kept \o got'
    <3>1. (events[p] \o batch[p]) \o got' = events[p] \o (batch[p] \o got')
      BY <2>1, <2>5, PartsJoin
    <3>2. QED BY <2>5, <3>1
  <2> HIDE DEF k, n, a, b, kept
  <2>17. a \in Int /\ b \in Int /\ k \in Nat /\ n \in Nat /\ k <= n /\ a + n <= b
    BY <2>1, <2>4
  <2>7. got' = Logs!Read(Lines(a, b), k, n)
    BY <1>1, <1>3, <2>3 DEF k, n
  <2>18. /\ Len(got') \in Nat /\ k + Len(got') <= n
         /\ got' = Lines(a + k, a + k + Len(got'))
    BY <2>7, <2>17, ReadSome
  <2> DEFINE m == k + Len(got')
  <2>8. m \in Nat /\ k <= m /\ m <= n /\ a + k + Len(got') = a + m
    BY <2>17, <2>18
  <2>19. got' = Lines(a + k, a + m)
    BY <2>8, <2>18
  <2> HIDE DEF m
  <2>9. events[p] \o batch'[p] = Lines(first[p], a + m) /\ first[p] <= a + m
    <3> DEFINE c == a + k  d == a + m
    <3>1. c \in Int /\ d \in Int /\ c <= d /\ first[p] <= c
      BY <2>1, <2>2, <2>8
    <3>2. kept = Lines(first[p], c) /\ got' = Lines(c, d)
      BY <2>2, <2>19
    <3> HIDE DEF c, d
    <3>3. Lines(first[p], c) \o Lines(c, d) = Lines(first[p], d)
      BY <2>1, <3>1, LinesJoin
    <3>4. first[p] <= d
      BY <2>1, <3>1
    <3>5. QED BY <2>6, <3>2, <3>3, <3>4 DEF d
  <2>10. /\ Base(p)' = Base(p) /\ Upto(p)' = Upto(p) /\ Fresh(p) /\ Fresh(p)' /\ InHand(p)'
         /\ FileHolds(p)' /\ CursorPoints(p)'
    BY <1>0, <1>1, <1>3 DEF Base, OldBase, Upto, Fresh, InHand, LogKept, FileHolds, CursorPoints
  <2>11. EventsKept(p)'
    BY <1>0, <1>1, <2>10 DEF LogKept, EventsKept, Holds
  <2>12. StatHolds(p)'
    <3>1. p \notin todo
      BY <1>1, <1>3 DEF LogsInv, InTurn
    <3>2. QED BY <1>0, <1>1, <3>1 DEF LogKept, StatHolds
  <2>13. start + Len(got') = m /\ Base(p) + start + Len(got') = a + m
    BY <2>8 DEF k, a, m
  <2>14. start + Len(got') <= stat[p].size
    BY <2>8, <2>13 DEF n
  <2>15. BatchKept(p)'
    BY <1>1, <2>9, <2>10, <2>13, <2>14 DEF BatchKept, Holds
  <2>16. QED BY <2>10, <2>11, <2>12, <2>15 DEF LogKept
<1>4. QED BY <1>2, <1>3

LEMMA SaveKeeps ==
    ASSUME LogsInv, Logs!SetLogCursor, NEW p \in Path \ lossy'
    PROVE  LogKept(p)'
<1>0. p \in Path \ lossy /\ LogKept(p) /\ path \in Path
  BY DEF Logs!SetLogCursor, LogsInv, LogsTyped
<1>1. /\ at = "save" /\ at' \in {"record", "visit"} /\ (at' = "record" => todo = {})
      /\ cursor' = [cursor EXCEPT ![path] = [ino |-> stat[path].ino, off |-> start + Len(got)]]
      /\ emptied' = emptied \ {path}
      /\ UNCHANGED <<cur, old, written, path, todo, stat, start, got, batch, events, first>>
  BY DEF Logs!SetLogCursor, Logs!files
<1>2. CASE p # path
  <2>1. cursor'[p] = cursor[p] /\ (p \in emptied' <=> p \in emptied)
    BY <1>1, <1>2 DEF LogsInv, LogsTyped
  <2>2. QED BY <1>0, <1>1, <1>2, <2>1, OthersStay
<1>3. CASE p = path
  <2>1. /\ cursor'[p].ino = stat[p].ino /\ cursor'[p].off = start + Len(got) /\ p \notin emptied'
        /\ p \notin todo
    BY <1>0, <1>1, <1>3 DEF LogsInv, LogsTyped, InTurn
  <2>2. /\ start + Len(got) <= stat[p].size
        /\ Holds(p, events[p] \o batch[p], Base(p) + start + Len(got))
    BY <1>0, <1>1, <1>3 DEF LogKept, BatchKept, InHand
  <2>3. stat[p].ino = cur[p].ino /\ stat[p].size <= Len(cur[p].lines)
    BY <1>0, <1>1 DEF LogKept, StatHolds
  <2>4. /\ stat[p].size \in Nat /\ Len(cur[p].lines) \in Nat /\ start \in Nat /\ Len(got) \in Nat
        /\ Base(p) \in Int
    BY LogsAt, LenProperties DEF LogsInv, LogsTyped
  <2>5. FileHolds(p)' /\ Base(p)' = Base(p)
    BY <1>0, <1>1 DEF Base, LogKept, FileHolds
  <2>6. CursorPoints(p)'
    <3>1. start + Len(got) <= Len(cur[p].lines)
      BY <2>2, <2>3, <2>4
    <3>2. QED BY <1>1, <2>1, <2>3, <3>1 DEF CursorPoints
  <2>7. Upto(p)' = Base(p) + start + Len(got)
    <3>1. Upto(p)' = Base(p) + (start + Len(got))
      BY <1>1, <2>1, <2>3, <2>5 DEF Upto
    <3>2. QED BY <2>4, <3>1
  <2>8. ~Fresh(p)' /\ ~InHand(p)'
    BY <1>1, <2>1 DEF Fresh, InHand
  <2>9. EventsKept(p)'
    BY <2>8 DEF EventsKept
  <2>10. StatHolds(p)'
    BY <1>0, <1>1, <2>1 DEF LogKept, StatHolds
  <2>11. BatchKept(p)'
    BY <1>1, <2>1, <2>2, <2>3, <2>7, <2>8 DEF BatchKept, Holds
  <2>12. QED BY <2>5, <2>6, <2>9, <2>10, <2>11 DEF LogKept
<1>4. QED BY <1>2, <1>3

LEMMA RecordKeeps ==
    ASSUME LogsInv, Logs!RecordServerEvents, NEW p \in Path \ lossy'
    PROVE  LogKept(p)'
<1>0. p \in Path \ lossy /\ LogKept(p)
  BY DEF Logs!RecordServerEvents, LogsInv
<1>1. /\ at = "record" /\ todo = {} /\ at' = "idle" /\ SamePath(p)
      /\ events'[p] = events[p] \o batch[p]
  BY <1>0 DEF Logs!RecordServerEvents, Logs!Rest, Logs!files, SamePath, LogsInv, InTurn
<1>2. /\ FileHolds(p)' /\ CursorPoints(p)' /\ Base(p)' = Base(p) /\ Upto(p)' = Upto(p)
  BY <1>0, <1>1, PathStays
<1>3. /\ cursor[p].ino = cur[p].ino /\ cur[p].ino # 0
      /\ Holds(p, events[p] \o batch[p], Upto(p))
  BY <1>0, <1>1 DEF LogKept, BatchKept, FileHolds, Fresh, InHand
<1>4. EventsKept(p)'
  BY <1>1, <1>2, <1>3 DEF EventsKept, SamePath, Holds
<1>5. StatHolds(p)' /\ BatchKept(p)'
  BY <1>1 DEF StatHolds, BatchKept, Fresh, InHand
<1>6. QED BY <1>2, <1>4, <1>5 DEF LogKept

LEMMA BreakKeeps ==
    ASSUME LogsInv, Logs!Break, NEW p \in Path \ lossy'
    PROVE  LogKept(p)'
<1>0. p \in Path \ lossy /\ LogKept(p)
  BY DEF Logs!Break, LogsInv
<1>1. /\ at # "idle" /\ at' = "idle" /\ SamePath(p) /\ events' = events
      /\ batch[p] = <<>> \/ (p = path /\ at \in {"old", "read", "save"})
  BY <1>0 DEF Logs!Break, Logs!Rest, Logs!files, SamePath, LogsInv, LogsTyped
<1>2. /\ FileHolds(p)' /\ CursorPoints(p)' /\ Base(p)' = Base(p) /\ Upto(p)' = Upto(p)
  BY <1>0, <1>1, PathStays
<1>3. EventsKept(p)'
  <2>1. CASE Fresh(p)
    BY <1>0, <1>1, <1>2, <2>1 DEF LogKept, EventsKept, SamePath, Holds
  <2>2. CASE ~Fresh(p)
    <3>1. /\ cursor[p].ino = cur[p].ino /\ cur[p].ino # 0
          /\ Holds(p, events[p] \o batch[p], Upto(p))
      BY <1>0, <2>2 DEF LogKept, BatchKept, FileHolds
    <3>2. batch[p] = <<>>
      BY <1>1, <2>2 DEF Fresh, InHand
    <3>3. events[p] \o batch[p] = events[p]
      BY <3>2, LogsAt, ConcatEmptySeq DEF LogsInv
    <3>4. QED BY <1>1, <1>2, <3>1, <3>3 DEF EventsKept, SamePath, Holds
  <2>3. QED BY <2>1, <2>2
<1>4. StatHolds(p)' /\ BatchKept(p)'
  BY <1>1 DEF StatHolds, BatchKept, Fresh, InHand
<1>5. QED BY <1>2, <1>3, <1>4 DEF LogKept

LEMMA LogsNext == ASSUME LogsInv, Logs!Next PROVE LogsInv'
<1>1. LogsTyped' /\ InTurn'
  BY LogsTypes
<1>2. ASSUME NEW p \in Path \ lossy' PROVE LogKept(p)'
  BY AppendKeeps, RotateKeeps, EmptyKeeps, VisitKeeps, BeginKeeps, ReadOldKeeps, ReadCurrentKeeps,
     SaveKeeps, RecordKeeps, BreakKeeps DEF Logs!Next
<1>3. QED BY <1>1, <1>2 DEF LogsInv

\* Between two minutes, what is kept and what is to be read are every line.
LEMMA EveryLine ==
    ASSUME LogsInv, at = "idle", NEW p \in Path \ lossy, cursor[p].ino # 0
    PROVE  events[p] \o Logs!Unread(p) = Lines(first[p], written[p])
<1> DEFINE a == first[p]  b == Upto(p)  c == written[p]
<1>0. LogKept(p)
  BY DEF LogsInv
<1>1. /\ a \in Int /\ b \in Int /\ c \in Nat /\ Base(p) \in Int /\ OldBase(p) \in Int
      /\ Len(cur[p].lines) \in Nat /\ Len(old[p].lines) \in Nat /\ cursor[p].off \in Nat
      /\ Base(p) = c - Len(cur[p].lines) /\ OldBase(p) = Base(p) - Len(old[p].lines)
  BY LogsAt DEF LogsInv, Base, OldBase
<1>2. a <= b /\ events[p] = Lines(a, b)
  BY <1>0 DEF LogKept, EventsKept, Fresh, Holds
<1>3. cur[p].lines = Lines(Base(p), c)
  BY <1>0 DEF LogKept, FileHolds
<1> HIDE DEF a, b, c
<1>4. b <= c /\ Logs!Unread(p) = Lines(b, c)
  <2>1. CASE cursor[p].ino = cur[p].ino /\ p \in emptied
    <3>1. Len(cur[p].lines) < cursor[p].off
      BY <1>0, <2>1 DEF LogKept, CursorPoints
    <3>2. b = Base(p) /\ Logs!Unread(p) = cur[p].lines
      BY <2>1, <3>1 DEF Upto, Logs!Unread, b
    <3>3. QED BY <1>1, <1>3, <3>2
  <2>2. CASE cursor[p].ino = cur[p].ino /\ p \notin emptied
    <3>1. cursor[p].off <= Len(cur[p].lines)
      BY <1>0, <2>2 DEF LogKept, CursorPoints
    <3>2. Logs!Unread(p) = Logs!From(Lines(Base(p), c), cursor[p].off)
      BY <1>1, <1>3, <2>2, <3>1 DEF Logs!Unread
    <3>3. b = Base(p) + cursor[p].off
      BY <2>2 DEF Upto, b
    <3> DEFINE d == Base(p)  k == cursor[p].off  m == Len(cur[p].lines)
    <3>4. d \in Int /\ k \in Nat /\ c \in Int /\ m \in Nat /\ d = c - m /\ k <= m
      <4>1. Base(p) = c - Len(cur[p].lines) /\ Base(p) \in Int /\ c \in Int
        BY <1>1
      <4>2. Len(cur[p].lines) \in Nat /\ cursor[p].off \in Nat
        BY <1>1
      <4>3. QED BY <3>1, <4>1, <4>2
    <3> HIDE DEF d, k, m
    <3>5. d + k <= c
      BY <3>4
    <3>6. Logs!From(Lines(d, c), k) = Lines(d + k, c)
      BY <3>4, <3>5, FromLines
    <3>7. QED BY <3>2, <3>3, <3>5, <3>6 DEF d, k
  <2>3. CASE cursor[p].ino # cur[p].ino
    <3>1. /\ cursor[p].ino = old[p].ino /\ cursor[p].off <= Len(old[p].lines)
          /\ old[p].lines = Lines(OldBase(p), Base(p))
      BY <1>0, <2>3 DEF LogKept, CursorPoints
    <3> DEFINE d == Base(p)  e == OldBase(p)  k == cursor[p].off
    <3>2. b = e + k
      BY <2>3 DEF Upto, b
    <3>8. d \in Int /\ e \in Int /\ c \in Int /\ k \in Nat /\ k <= d - e /\ d <= c
      <4> DEFINE m == Len(cur[p].lines)  n == Len(old[p].lines)
      <4>1. d = c - m /\ e = d - n /\ k <= n
        BY <1>1, <3>1
      <4>2. d \in Int /\ e \in Int /\ c \in Int /\ k \in Nat /\ m \in Nat /\ n \in Nat
        BY <1>1
      <4> HIDE DEF d, e, k, m, n
      <4>3. QED BY <4>1, <4>2
    <3> HIDE DEF d, e, k
    <3>3. b <= d /\ d <= c /\ e + k <= d
      BY <3>2, <3>8
    <3>4. Logs!From(Lines(e, d), k) = Lines(b, d)
      BY <3>2, <3>3, <3>8, FromLines
    <3>5. Logs!Unread(p) = Logs!From(old[p].lines, cursor[p].off) \o cur[p].lines
      BY <2>3, <3>1 DEF Logs!Unread
    <3>6. Lines(b, d) \o Lines(d, c) = Lines(b, c)
      BY <1>1, <3>3, <3>8, LinesJoin
    <3>9. b <= c
      BY <1>1, <3>3, <3>8
    <3>7. QED BY <1>3, <3>1, <3>4, <3>5, <3>6, <3>9 DEF d, e, k
  <2>4. QED BY <2>1, <2>2, <2>3
<1>5. Lines(a, b) \o Lines(b, c) = Lines(a, c)
  <2>1. a \in Int /\ b \in Int /\ c \in Int /\ a <= b /\ b <= c
    BY <1>1, <1>2, <1>4
  <2>2. QED BY <2>1, LinesJoin
<1>6. QED BY <1>2, <1>4, <1>5 DEF a, c

LogsFocus == focus = "logs" => LogsInv

LEMMA LogsFirst == Init => LogsFocus
<1> SUFFICES ASSUME Init, focus = "logs" PROVE LogsInv
  BY DEF LogsFocus
<1>1. Logs!Init
  BY DEF Init
<1>2. QED BY <1>1, LogsBegin

LEMMA LogsStep == LogsFocus /\ [Next]_vars => LogsFocus'
<1> SUFFICES ASSUME LogsFocus, [Next]_vars, focus' = "logs" PROVE LogsInv'
  BY DEF LogsFocus
<1>1. focus = "logs" /\ (Logs!Next \/ UNCHANGED logsVars)
  BY DEF Next, vars
<1>2. CASE Logs!Next
  BY <1>1, <1>2, LogsNext DEF LogsFocus
<1>3. CASE UNCHANGED logsVars
  <2>1. LogsInv
    BY <1>1 DEF LogsFocus
  <2>2. LogsTyped' /\ InTurn'
    BY <1>3, <2>1 DEF logsVars, LogsInv, LogsTyped, InTurn
  <2>3. ASSUME NEW p \in Path \ lossy PROVE LogKept(p)'
    <3>1. LogKept(p)
      BY <2>1 DEF LogsInv
    <3>2. SamePath(p) /\ UNCHANGED <<Logs!work, events>>
      BY <1>3 DEF logsVars, SamePath, Logs!work
    <3>3. QED BY <3>1, <3>2, FileStays
  <2>4. QED BY <1>3, <2>2, <2>3 DEF logsVars, LogsInv
<1>4. QED BY <1>1, <1>2, <1>3

\* Every line written to a log since it was first seen is kept or still to be
\* read, once and in its order, whatever was rotated, emptied, appended during a
\* copy or cut short meanwhile, but for what loses lines (events.go,
\* collectServerLogs).
THEOREM LogsAreKept == Spec => []EveryLineOnce
<1>1. LogsInv => Logs!TypeOK /\ Logs!EveryLineOnce
  <2> SUFFICES ASSUME LogsInv PROVE Logs!TypeOK /\ Logs!EveryLineOnce
    OBVIOUS
  <2>1. Logs!TypeOK
    <3>1. LogsTyped
      BY DEF LogsInv
    <3>2. \A p \in Path : /\ cur[p].ino \in Nat /\ old[p].ino \in Nat
                          /\ cur[p].lines \in Seq(Nat) /\ events[p] \in Seq(Nat)
                          /\ cursor[p].off \in Nat /\ batch[p] \in Seq(Nat)
      BY <3>1, LogsAt
    <3>3. QED BY <3>1, <3>2 DEF LogsTyped, Logs!TypeOK
  <2>2. Logs!EveryLineOnce
    BY EveryLine DEF Logs!EveryLineOnce, Lines
  <2>3. QED BY <2>1, <2>2
<1>2. LogsFocus => EveryLineOnce
  BY <1>1 DEF LogsFocus, EveryLineOnce
<1>3. QED BY <1>2, LogsFirst, LogsStep, PTL DEF Spec

---------------------------------------------------------------------------
(***************************************************************************)
(* WebServer.  RowsOnDisk speaks of sites at rest; the invariant says, of  *)
(* each step of each writer, which of the row, the vhost and the zone file *)
(* has been changed already and what would be put back (HalfWay), and of a *)
(* deployment what it is about to write before the site is served          *)
(* (ToDeploy).  A site that has not strayed has one writer, so what        *)
(* another writer does is done elsewhere.                                  *)
(***************************************************************************)

WebVhost == {Web!NoVhost} \cup [zone : BOOLEAN, value : Web!Value, tls : BOOLEAN]
WebRun == [at : Web!At, op : Web!Op, site : Site \cup {"none"}, to : Web!Row,
           before : Web!Row, read : Web!Row, previous : WebVhost]

WebTyped ==
    /\ present \subseteq Site /\ row \in [Site -> Web!Row]
    /\ zone \subseteq Site /\ vhost \in [Site -> WebVhost]
    /\ enabled \subseteq Site /\ cert \subseteq Site /\ broken \in BOOLEAN
    /\ webRun \in [Writer -> WebRun] /\ stray \subseteq Site
    /\ webEdits \in 0..MaxEdits /\ troubles \in 0..MaxTroubles

\* What each operation can be doing.
StepsOf(step) ==
    CASE step = "idle" -> {"none"}
      [] step = "row" -> Web!Page \cup {"deploy"}
      [] step = "zone" -> {"cache", "deploy"}
      [] step \in {"read", "back", "undo"} -> Web!Page
      [] step = "write" -> Web!Page \cup {"deploy", "certificate"}
      [] step \in {"test", "reload"} -> Web!Page \cup {"deploy", "certificate", "destroy"}
      [] step = "rezone" -> {"cache"}
      [] step = "cert" -> {"deploy", "certificate"}
      [] OTHER -> {"certificate"}

Employed ==
    \A w \in Writer : /\ webRun[w].op \in StepsOf(webRun[w].at)
                      /\ webRun[w].at = "idle" <=> webRun[w].site = "none"

\* One writer to a site, of those not in stray.
OneWriter ==
    \A v, w \in Writer : v # w /\ webRun[v].site = webRun[w].site
                           => webRun[w].site \in stray \cup {"none"}

\* A site that is served is there; not while it is taken away.
ServedIsThere ==
    /\ enabled \subseteq present \cup stray
    /\ \A w \in Writer : webRun[w].site \notin stray =>
         /\ webRun[w].op = "deploy" => webRun[w].site \in present
         /\ webRun[w].op = "destroy" => webRun[w].site \notin enabled

\* No certificate is named that was not issued.
Issued ==
    /\ \A s \in Site : vhost[s].tls => s \in cert
    /\ \A w \in Writer :
         /\ webRun[w].previous.tls => webRun[w].site \in cert
         /\ webRun[w].op = "certificate" /\ webRun[w].at = "write" => webRun[w].site \in cert

Says(v, r) == v.zone = r.cache /\ v.value = r.value
Agree(q, r) == q.cache = r.cache /\ q.value = r.value
Zoned(s) == (s \in zone) = row[s].cache
OnDisk(s) == Says(vhost[s], row[s]) /\ Zoned(s)
WebRest(s) == s \in enabled /\ Web!AtRest(s) => OnDisk(s)

\* The page changed one of the two in the row.
Changed(w) ==
    LET me == webRun[w] IN
    /\ me.op = "cache" => row[me.site].value = me.before.value
    /\ me.op = "value" => row[me.site].cache = me.before.cache

\* What a deployment is about to write, whether or not the site is served yet.
ToDeploy(w) ==
    LET me == webRun[w] IN
    /\ me.at \in {"zone", "write"} => Agree(me.read, row[me.site])
    /\ me.at = "write" => Zoned(me.site)

\* What a writer has done so far, and what it would put back.
HalfWay(w) ==
    LET me == webRun[w]  s == me.site IN
    /\ me.at \in {"row", "reload", "cert", "https"} => OnDisk(s)
    /\ me.at = "zone" /\ me.op = "deploy" => OnDisk(s)
    /\ me.at = "zone" /\ me.op = "cache" => Says(vhost[s], me.before)
    /\ me.at = "read" => Zoned(s) /\ Says(vhost[s], me.before)
    /\ me.at = "write" /\ me.op \in Web!Page => Says(me.previous, me.before)
    /\ me.at = "test" => OnDisk(s)
    /\ me.at \in {"test", "back"} /\ me.op \in Web!Page => Says(me.previous, me.before)
    /\ me.at \in {"test", "plain"} /\ me.op = "certificate" => Agree(me.read, row[s])
    /\ me.at \in {"write", "back", "plain"} => Zoned(s)
    /\ me.at = "write" => Agree(me.read, row[s])
    /\ me.at = "undo" => /\ me.op \in {"cache", "value"} => Says(vhost[s], me.before)
                         /\ me.op = "value" => Zoned(s)
    /\ me.at = "rezone" => Says(vhost[s], row[s]) /\ me.read.cache = row[s].cache
    /\ me.at \in {"zone", "read", "write", "test", "back", "undo"} => Changed(w)
    /\ me.at = "zone" => Agree(me.read, row[s])

WebKept(w) ==
    webRun[w].site \notin stray \cup {"none"} =>
        /\ webRun[w].op = "deploy" => ToDeploy(w)
        /\ webRun[w].site \in enabled => HalfWay(w)

WebInv == /\ WebTyped /\ Employed /\ OneWriter /\ ServedIsThere /\ Issued
          /\ \A s \in Site \ stray : WebRest(s)
          /\ \A w \in Writer : WebKept(w)

---------------------------------------------------------------------------
\* What a writer's step on a site leaves alone.
WebTurn(w, s) ==
    /\ \A v \in Writer \ {w} : webRun'[v] = webRun[v]
    /\ \/ webRun[w].site = s
       \/ \A v \in Writer : webRun[v].site = s => s \in stray'
    /\ webRun'[w].site \in {s, "none"}
    /\ stray \subseteq stray' /\ cert \subseteq cert'
    /\ \A t \in Site \ {s} :
         /\ row'[t] = row[t] /\ vhost'[t] = vhost[t] /\ (t \in zone') = (t \in zone)
         /\ (t \in enabled') = (t \in enabled) /\ (t \in present') = (t \in present)

\* What the invariant says of the writer and of its site.
WebOwn(w, s) ==
    LET me == webRun[w] IN
    /\ s \in enabled => s \in present \cup stray
    /\ me.site \notin stray => /\ me.op = "deploy" => me.site \in present
                               /\ me.op = "destroy" => me.site \notin enabled
    /\ vhost[s].tls => s \in cert
    /\ me.previous.tls => me.site \in cert
    /\ me.op = "certificate" /\ me.at = "write" => me.site \in cert
    /\ s \notin stray => WebRest(s)
    /\ WebKept(w)

LEMMA WebTurnKeeps ==
    ASSUME WebInv, Web!WebAssumption, WebTyped', Employed', NEW w \in Writer, NEW s \in Site,
           webRun[w].site \in {s, "none"},
           WebTurn(w, s), WebOwn(w, s)'
    PROVE  WebInv'
<1>1. OneWriter'
  <2> SUFFICES ASSUME NEW u \in Writer, NEW v \in Writer, u # v,
                      webRun'[u].site = webRun'[v].site
               PROVE  webRun'[u].site \in stray' \cup {"none"}
    BY DEF OneWriter
  <2>1. CASE u # w /\ v # w
    BY <2>1 DEF WebInv, OneWriter, WebTurn
  <2>2. CASE u = w
    BY <2>2 DEF WebInv, OneWriter, WebTurn
  <2>3. CASE v = w
    BY <2>3 DEF WebInv, OneWriter, WebTurn
  <2>4. QED BY <2>1, <2>2, <2>3
\* Another writer of a site that has not strayed is elsewhere.
<1>2. ASSUME NEW v \in Writer \ {w}
      PROVE  /\ webRun'[v] = webRun[v]
             /\ webRun[v].site \in Site \cup {"none"}
             /\ webRun[v].site \notin stray' => webRun[v].site # s
             /\ webRun[v].site = "none" => webRun[v].op = "none" /\ webRun[v].at = "idle"
  <2>1. webRun[v].site \in Site \cup {"none"}
    BY DEF WebInv, WebTyped, WebRun
  <2>2. webRun'[v] = webRun[v]
    BY DEF WebTurn
  <2>3. webRun[v].site \notin stray' => webRun[v].site # s
    BY DEF WebTurn, WebInv, OneWriter, Web!WebAssumption
  <2>4. webRun[v].site = "none" => webRun[v].op = "none" /\ webRun[v].at = "idle"
    BY DEF WebInv, Employed, StepsOf
  <2>5. QED BY <2>1, <2>2, <2>3, <2>4
<1>3. ServedIsThere'
  <2>1. enabled' \subseteq present' \cup stray'
    BY DEF WebInv, ServedIsThere, WebTurn, WebOwn, WebTyped
  <2>2. ASSUME NEW v \in Writer, webRun'[v].site \notin stray'
        PROVE  /\ webRun'[v].op = "deploy" => webRun'[v].site \in present'
               /\ webRun'[v].op = "destroy" => webRun'[v].site \notin enabled'
    <3>1. CASE v = w
      BY <2>2, <3>1 DEF WebOwn
    <3>2. CASE v # w /\ webRun[v].site = "none"
      BY <1>2, <3>2
    <3>3. CASE v # w /\ webRun[v].site # "none"
      <4>1. webRun'[v] = webRun[v] /\ webRun[v].site \in Site \ {s} /\ webRun[v].site \notin stray
        BY <1>2, <2>2, <3>3 DEF WebTurn
      <4>2. QED BY <4>1 DEF WebInv, ServedIsThere, WebTurn
    <3>4. QED BY <3>1, <3>2, <3>3
  <2>3. QED BY <2>1, <2>2 DEF ServedIsThere
<1>4. Issued'
  <2>1. \A t \in Site : vhost'[t].tls => t \in cert'
    BY DEF WebInv, Issued, WebTurn, WebOwn
  <2>2. ASSUME NEW v \in Writer
        PROVE  /\ webRun'[v].previous.tls => webRun'[v].site \in cert'
               /\ webRun'[v].op = "certificate" /\ webRun'[v].at = "write" => webRun'[v].site \in cert'
    BY DEF WebInv, Issued, WebTurn, WebOwn
  <2>3. QED BY <2>1, <2>2 DEF Issued
<1>5. ASSUME NEW t \in Site \ stray' PROVE WebRest(t)'
  <2>1. CASE t = s
    BY <2>1 DEF WebOwn
  <2>2. CASE t # s
    <3>1. /\ row'[t] = row[t] /\ vhost'[t] = vhost[t] /\ (t \in zone') = (t \in zone)
          /\ (t \in enabled') = (t \in enabled) /\ t \notin stray
      BY <2>2 DEF WebTurn
    <3>2. Web!AtRest(t)' => Web!AtRest(t)
      BY <2>2, <1>2, t # "none" DEF Web!AtRest, Web!WebAssumption
    <3>3. WebRest(t)
      BY <3>1 DEF WebInv
    <3>4. QED BY <3>1, <3>2, <3>3 DEF WebRest, OnDisk, Says, Zoned
  <2>3. QED BY <2>1, <2>2
<1>6. ASSUME NEW v \in Writer PROVE WebKept(v)'
  <2>1. CASE v = w
    BY <2>1 DEF WebOwn
  <2>2. CASE v # w
    <3> SUFFICES ASSUME webRun'[v].site \notin stray' \cup {"none"} PROVE WebKept(v)'
      BY DEF WebKept
    <3> DEFINE t == webRun[v].site
    <3>1. webRun'[v] = webRun[v] /\ t \in Site \ {s} /\ t \notin stray \cup {"none"}
      BY <2>2, <1>2 DEF WebTurn
    <3>2. /\ row'[t] = row[t] /\ vhost'[t] = vhost[t] /\ (t \in zone') = (t \in zone)
          /\ (t \in enabled') = (t \in enabled)
      BY <3>1 DEF WebTurn
    <3>3. WebKept(v)
      BY DEF WebInv
    <3>4. ToDeploy(v) => ToDeploy(v)'
      BY <3>1, <3>2 DEF ToDeploy, Agree, Zoned
    <3>5. HalfWay(v) => HalfWay(v)'
      BY <3>1, <3>2 DEF HalfWay, Agree, Zoned, OnDisk, Says, Changed
    <3>6. QED BY <3>1, <3>2, <3>3, <3>4, <3>5 DEF WebKept
  <2>3. QED BY <2>1, <2>2
<1>7. QED BY <1>1, <1>3, <1>4, <1>5, <1>6 DEF WebInv

LEMMA WebIdle == Web!WebAssumption => Web!Idle \in WebRun /\ Web!NewRow \in Web!Row
BY DEF Web!Idle, WebRun, Web!NewRow, Web!Row, Web!Value, Web!At, Web!Op, Web!Page, WebVhost

\* A writer that is at work has a site.
LEMMA WebAt ==
    ASSUME WebInv, NEW w \in Writer
    PROVE  /\ webRun[w] \in WebRun /\ webRun[w].site \in Site \cup {"none"}
           /\ webRun[w].at # "idle" => webRun[w].site \in Site
           /\ webRun[w].op \in StepsOf(webRun[w].at)
           /\ webRun[w].read \in Web!Row /\ webRun[w].before \in Web!Row
           /\ webRun[w].to \in Web!Row /\ webRun[w].previous \in WebVhost
BY DEF WebInv, WebTyped, WebRun, Employed

LEMMA WebSiteAt ==
    ASSUME WebInv, NEW s \in Site
    PROVE  /\ row[s] \in Web!Row /\ row[s].cache \in BOOLEAN /\ row[s].ssl \in BOOLEAN
           /\ row[s].value \in Web!Value /\ vhost[s] \in WebVhost
BY DEF WebInv, WebTyped, Web!Row

LEMMA RenderType ==
    ASSUME NEW r \in Web!Row, NEW yes \in BOOLEAN
    PROVE  Web!Render(r, yes) \in WebVhost
BY DEF Web!Render, WebVhost, Web!Row

\* A writer goes on to another step, or starts, or stops.
LEMMA WebMove ==
    ASSUME WebInv, NEW w \in Writer, NEW r \in WebRun, webRun' = [webRun EXCEPT ![w] = r],
           r.op \in StepsOf(r.at), r.at = "idle" <=> r.site = "none"
    PROVE  /\ webRun' \in [Writer -> WebRun] /\ Employed' /\ webRun'[w] = r
           /\ \A v \in Writer \ {w} : webRun'[v] = webRun[v]
<1>1. webRun \in [Writer -> WebRun]
  BY DEF WebInv, WebTyped
<1>2. webRun' \in [Writer -> WebRun] /\ webRun'[w] = r /\ \A v \in Writer \ {w} : webRun'[v] = webRun[v]
  BY <1>1
<1>3. ASSUME NEW v \in Writer
      PROVE  /\ webRun'[v].op \in StepsOf(webRun'[v].at)
             /\ webRun'[v].at = "idle" <=> webRun'[v].site = "none"
  <2>1. CASE v = w
    BY <2>1, <1>2
  <2>2. CASE v # w
    BY <2>2, <1>2 DEF WebInv, Employed
  <2>3. QED BY <2>1, <2>2
<1>4. QED BY <1>2, <1>3 DEF Employed

LEMMA WebGoto ==
    ASSUME WebInv, NEW w \in Writer, NEW step \in Web!At \ {"idle"}, Web!Goto(w, step),
           webRun[w].at # "idle", webRun[w].op \in StepsOf(step)
    PROVE  /\ webRun' \in [Writer -> WebRun] /\ Employed'
           /\ \A v \in Writer \ {w} : webRun'[v] = webRun[v]
           /\ webRun'[w] \in WebRun /\ webRun'[w].at = step /\ webRun'[w].op = webRun[w].op
           /\ webRun'[w].site = webRun[w].site
           /\ webRun'[w].before = webRun[w].before /\ webRun'[w].read = webRun[w].read
           /\ webRun'[w].previous = webRun[w].previous
<1> DEFINE r == [webRun[w] EXCEPT !.at = step]
<1>1. /\ r \in WebRun /\ r.at = step /\ r.op = webRun[w].op /\ r.site = webRun[w].site
      /\ r.before = webRun[w].before /\ r.read = webRun[w].read
      /\ r.previous = webRun[w].previous
  BY WebAt DEF WebRun
<1>2. r.at = "idle" <=> r.site = "none"
  BY <1>1 DEF WebInv, Employed
<1>3. webRun' = [webRun EXCEPT ![w] = r]
  BY DEF Web!Goto
<1> HIDE DEF r
<1>4. /\ webRun' \in [Writer -> WebRun] /\ Employed' /\ webRun'[w] = r
      /\ \A v \in Writer \ {w} : webRun'[v] = webRun[v]
  BY <1>1, <1>2, <1>3, WebMove
<1>5. QED BY <1>1, <1>4

LEMMA WebStop ==
    ASSUME WebInv, Web!WebAssumption, NEW w \in Writer, Web!Stop(w)
    PROVE  /\ webRun' \in [Writer -> WebRun] /\ Employed'
           /\ \A v \in Writer \ {w} : webRun'[v] = webRun[v]
           /\ webRun'[w].at = "idle" /\ webRun'[w].op = "none" /\ webRun'[w].site = "none"
           /\ ~webRun'[w].previous.tls
<1> DEFINE r == Web!Idle
<1>1. r \in WebRun /\ r.at = "idle" /\ r.op = "none" /\ r.site = "none" /\ ~r.previous.tls
  BY WebIdle DEF Web!Idle, Web!NoVhost
<1>2. r.op \in StepsOf(r.at)
  BY <1>1 DEF StepsOf
<1>3. webRun' = [webRun EXCEPT ![w] = r]
  BY DEF Web!Stop
<1> HIDE DEF r
<1>4. QED BY <1>1, <1>2, <1>3, WebMove

\* What a writer that has stopped leaves.
LEMMA WebStopKeeps ==
    ASSUME WebInv, Web!WebAssumption, NEW w \in Writer, NEW s \in Site, Web!Stop(w), WebTyped',
           webRun[w].site = s, WebTurn(w, s),
           s \in enabled' => s \in present' \cup stray',
           vhost'[s].tls => s \in cert',
           s \notin stray' => WebRest(s)'
    PROVE  WebInv'
<1>1. /\ Employed' /\ webRun'[w].at = "idle" /\ webRun'[w].op = "none" /\ webRun'[w].site = "none"
      /\ ~webRun'[w].previous.tls
  BY WebStop
<1>2. WebOwn(w, s)'
  BY <1>1 DEF WebOwn, WebKept
<1>3. QED BY <1>1, <1>2, WebTurnKeeps

LEMMA WebBegin ==
    ASSUME WebInv, Web!WebAssumption, NEW w \in Writer, NEW s \in Site,
           NEW o \in Web!Op, NEW step \in Web!At \ {"idle"}, NEW to \in Web!Row,
           o \in StepsOf(step), Web!Begin(w, s, o, step, to)
    PROVE  /\ webRun'[w].at = step /\ webRun'[w].op = o /\ webRun'[w].site = s
           /\ webRun'[w].previous = Web!NoVhost
           /\ \A v \in Writer \ {w} : webRun'[v] = webRun[v]
           /\ webRun' \in [Writer -> WebRun] /\ Employed' /\ webEdits' \in 0..MaxEdits
           /\ webRun[w].site = "none"
           /\ \A v \in Writer : webRun[v].site = s => s \in stray'
           /\ stray \subseteq stray' /\ stray' \subseteq Site
<1> DEFINE r == [Web!Idle EXCEPT !.at = step, !.op = o, !.site = s, !.to = to]
<1>1. webRun' = [webRun EXCEPT ![w] = r]
  BY DEF Web!Begin
<1>2. /\ r \in WebRun /\ r.at = step /\ r.op = o /\ r.site = s
      /\ r.previous = Web!NoVhost
  BY WebIdle DEF WebRun, Web!Idle
<1>3. r.op \in StepsOf(r.at) /\ (r.at = "idle" <=> r.site = "none")
  BY <1>2, s # "none" DEF Web!WebAssumption
<1>4. stray \subseteq Site /\ webEdits \in 0..MaxEdits
  BY DEF WebInv, WebTyped
<1> HIDE DEF r
<1>5. /\ webRun' \in [Writer -> WebRun] /\ Employed' /\ webRun'[w] = r
      /\ \A v \in Writer \ {w} : webRun'[v] = webRun[v]
  BY <1>1, <1>2, <1>3, WebMove
<1>7. webEdits' \in 0..MaxEdits
  BY <1>4 DEF Web!Begin, Web!WebAssumption
<1>8. webRun[w].site = "none"
  BY DEF WebInv, Employed, Web!Begin
<1>9. stray \subseteq stray' /\ stray' \subseteq Site /\ \A v \in Writer : webRun[v].site = s => s \in stray'
  BY <1>4 DEF Web!Begin
<1>10. QED BY <1>2, <1>5, <1>7, <1>8, <1>9

LEMMA EditKeeps ==
    ASSUME WebInv, Web!WebAssumption, NEW w \in Writer, NEW s \in Site,
           NEW o \in Web!Page, NEW to \in Web!Row, Web!Edit(w, s, o, to)
    PROVE  WebInv'
<1>1. Web!Begin(w, s, o, "row", to) /\ o \in Web!Op /\ o \in StepsOf("row")
  BY DEF Web!Edit, Web!Op, StepsOf
<1>2. /\ webRun'[w].at = "row" /\ webRun'[w].op = o /\ webRun'[w].site = s
      /\ webRun'[w].previous = Web!NoVhost
      /\ \A v \in Writer \ {w} : webRun'[v] = webRun[v]
      /\ webRun' \in [Writer -> WebRun] /\ Employed' /\ webEdits' \in 0..MaxEdits
      /\ webRun[w].site = "none"
      /\ \A v \in Writer : webRun[v].site = s => s \in stray'
      /\ stray \subseteq stray' /\ stray' \subseteq Site
  BY <1>1, WebBegin DEF Web!At
<1>3. UNCHANGED <<present, row, zone, vhost, enabled, cert, broken, troubles>> /\ s \in present
  BY DEF Web!Edit, Web!files
<1>4. WebTyped'
  BY <1>2, <1>3 DEF WebInv, WebTyped
<1>5. WebTurn(w, s)
  BY <1>2, <1>3 DEF WebTurn
<1>6. s \notin stray' => Web!AtRest(s) /\ s \notin stray
  BY <1>2 DEF Web!AtRest
<1>7. WebOwn(w, s)'
  <2>1. /\ s \in enabled' => s \in present' \cup stray'
        /\ vhost'[s].tls => s \in cert'
    BY <1>2, <1>3 DEF WebInv, Issued
  <2>2. s \notin stray' => WebRest(s)'
    BY <1>2, <1>3, <1>6 DEF WebInv, WebRest, OnDisk, Says, Zoned, Web!AtRest
  <2>3. WebKept(w)'
    BY <1>2, <1>3, <1>6 DEF WebInv, WebRest, OnDisk, Says, Zoned, Web!Page, WebKept, HalfWay
  <2>4. o # "deploy" /\ o # "destroy" /\ ~webRun'[w].previous.tls
    BY <1>2 DEF Web!Page, Web!NoVhost
  <2>5. QED BY <2>1, <2>2, <2>3, <2>4, <1>2 DEF WebOwn
<1>8. QED BY <1>2, <1>4, <1>5, <1>7, WebTurnKeeps

LEMMA DeployKeeps ==
    ASSUME WebInv, Web!WebAssumption, NEW w \in Writer, NEW s \in Site, Web!Deploy(w, s)
    PROVE  WebInv'
<1>1. Web!Begin(w, s, "deploy", "row", Web!NewRow) /\ "deploy" \in StepsOf("row")
  BY DEF Web!Deploy, StepsOf
<1>2. /\ webRun'[w].at = "row" /\ webRun'[w].op = "deploy" /\ webRun'[w].site = s
      /\ webRun'[w].previous = Web!NoVhost
      /\ \A v \in Writer \ {w} : webRun'[v] = webRun[v]
      /\ webRun' \in [Writer -> WebRun] /\ Employed' /\ webEdits' \in 0..MaxEdits
      /\ webRun[w].site = "none"
      /\ \A v \in Writer : webRun[v].site = s => s \in stray'
      /\ stray \subseteq stray' /\ stray' \subseteq Site
  BY <1>1, WebBegin, WebIdle DEF Web!At, Web!Op
<1>3. /\ UNCHANGED <<zone, vhost, enabled, cert, broken, troubles>>
      /\ present' = present \cup {s}
      /\ row' = IF s \in present THEN row ELSE [row EXCEPT ![s] = Web!NewRow]
  BY DEF Web!Deploy, Web!files
<1>4. WebTyped'
  BY <1>2, <1>3, WebIdle DEF WebInv, WebTyped
<1>5. WebTurn(w, s)
  BY <1>2, <1>3 DEF WebTurn, WebInv, WebTyped
<1>6. s \in enabled /\ s \notin stray' => row'[s] = row[s] /\ Web!AtRest(s) /\ OnDisk(s)
  BY <1>2, <1>3 DEF Web!AtRest, WebInv, ServedIsThere, WebRest
<1>7. WebOwn(w, s)'
  <2>1. /\ s \in enabled' => s \in present' \cup stray'
        /\ vhost'[s].tls => s \in cert'
    BY <1>2, <1>3 DEF WebInv, Issued
  <2>2. s \notin stray' => WebRest(s)'
    BY <1>2 DEF WebRest, Web!AtRest
  <2>3. WebKept(w)'
    <3>1. ToDeploy(w)'
      BY <1>2 DEF ToDeploy
    <3>2. s \in enabled' /\ s \notin stray' => HalfWay(w)'
      BY <1>2, <1>3, <1>6 DEF HalfWay, OnDisk, Says, Zoned
    <3>3. QED BY <3>1, <3>2, <1>2 DEF WebKept
  <2>4. ~webRun'[w].previous.tls
    BY <1>2 DEF Web!NoVhost
  <2>5. QED BY <2>1, <2>2, <2>3, <2>4, <1>2, <1>3 DEF WebOwn
<1>8. QED BY <1>2, <1>4, <1>5, <1>7, WebTurnKeeps

LEMMA CertificateKeeps ==
    ASSUME WebInv, Web!WebAssumption, NEW w \in Writer, NEW s \in Site, Web!Certificate(w, s)
    PROVE  WebInv'
<1>1. Web!Begin(w, s, "certificate", "cert", Web!NewRow) /\ "certificate" \in StepsOf("cert")
  BY DEF Web!Certificate, StepsOf
<1>2. /\ webRun'[w].at = "cert" /\ webRun'[w].op = "certificate" /\ webRun'[w].site = s
      /\ webRun'[w].previous = Web!NoVhost
      /\ \A v \in Writer \ {w} : webRun'[v] = webRun[v]
      /\ webRun' \in [Writer -> WebRun] /\ Employed' /\ webEdits' \in 0..MaxEdits
      /\ webRun[w].site = "none"
      /\ \A v \in Writer : webRun[v].site = s => s \in stray'
      /\ stray \subseteq stray' /\ stray' \subseteq Site
  BY <1>1, WebBegin, WebIdle DEF Web!At, Web!Op
<1>3. UNCHANGED <<present, row, zone, vhost, enabled, cert, broken, troubles>>
  BY DEF Web!Certificate, Web!files
<1>4. WebTyped'
  BY <1>2, <1>3 DEF WebInv, WebTyped
<1>5. WebTurn(w, s)
  BY <1>2, <1>3 DEF WebTurn
<1>6. s \in enabled /\ s \notin stray' => Web!AtRest(s) /\ OnDisk(s)
  BY <1>2 DEF Web!AtRest, WebInv, WebRest
<1>7. WebOwn(w, s)'
  <2>1. /\ s \in enabled' => s \in present' \cup stray'
        /\ vhost'[s].tls => s \in cert'
    BY <1>2, <1>3 DEF WebInv, Issued, ServedIsThere
  <2>2. s \notin stray' => WebRest(s)'
    BY <1>2 DEF WebRest, Web!AtRest
  <2>3. s \in enabled' /\ s \notin stray' => HalfWay(w)'
    BY <1>2, <1>3, <1>6 DEF HalfWay, OnDisk, Says, Zoned
  <2>4. ~webRun'[w].previous.tls
    BY <1>2 DEF Web!NoVhost
  <2>5. QED BY <2>1, <2>2, <2>3, <2>4, <1>2 DEF WebOwn, WebKept
<1>8. QED BY <1>2, <1>4, <1>5, <1>7, WebTurnKeeps

LEMMA DestroyKeeps ==
    ASSUME WebInv, Web!WebAssumption, NEW w \in Writer, NEW s \in Site, Web!Destroy(w, s)
    PROVE  WebInv'
<1>1. Web!Begin(w, s, "destroy", "test", Web!NewRow) /\ "destroy" \in StepsOf("test")
  BY DEF Web!Destroy, StepsOf
<1>2. /\ webRun'[w].at = "test" /\ webRun'[w].op = "destroy" /\ webRun'[w].site = s
      /\ webRun'[w].previous = Web!NoVhost
      /\ \A v \in Writer \ {w} : webRun'[v] = webRun[v]
      /\ webRun' \in [Writer -> WebRun] /\ Employed' /\ webEdits' \in 0..MaxEdits
      /\ webRun[w].site = "none"
      /\ \A v \in Writer : webRun[v].site = s => s \in stray'
      /\ stray \subseteq stray' /\ stray' \subseteq Site
  BY <1>1, WebBegin, WebIdle DEF Web!At, Web!Op
<1>3. /\ UNCHANGED <<present, row, cert, broken, troubles>>
      /\ zone' = zone \ {s} /\ enabled' = enabled \ {s}
      /\ vhost' = [vhost EXCEPT ![s] = Web!NoVhost]
  BY DEF Web!Destroy
<1>4. WebTyped'
  BY <1>2, <1>3 DEF WebInv, WebTyped, WebVhost
<1>5. WebTurn(w, s)
  BY <1>2, <1>3 DEF WebTurn, WebInv, WebTyped
<1>6. s \notin enabled' /\ ~vhost'[s].tls /\ ~webRun'[w].previous.tls
  BY <1>2, <1>3 DEF WebInv, WebTyped, Web!NoVhost
<1>7. WebOwn(w, s)'
  BY <1>2, <1>6 DEF WebOwn, WebKept, WebRest
<1>8. QED BY <1>2, <1>4, <1>5, <1>7, WebTurnKeeps

LEMMA StoreRowKeeps ==
    ASSUME WebInv, Web!WebAssumption, NEW w \in Writer, NEW s \in Site,
           webRun[w].site = s, Web!StoreRow(w)
    PROVE  WebInv'
<1> DEFINE me == webRun[w]
           step == IF me.op \in {"cache", "deploy"} THEN "zone" ELSE "read"
<1>1. /\ me.at = "row" /\ me \in WebRun /\ me.op \in Web!Page \cup {"deploy"}
      /\ row[s] \in Web!Row /\ me.to \in Web!Row
  BY WebAt, WebSiteAt DEF Web!StoreRow, StepsOf
<1>s. UNCHANGED <<present, zone, vhost, enabled, cert, broken, stray, webEdits, troubles>>
  BY DEF Web!StoreRow, Web!files
<1>2. /\ row' = CASE me.op = "cache" -> [row EXCEPT ![s].cache = me.to.cache]
                  [] me.op = "deploy" -> row
                  [] OTHER -> [row EXCEPT ![s].value = me.to.value]
      /\ webRun' = [webRun EXCEPT ![w] = [@ EXCEPT !.at = step, !.before = row[s], !.read = row'[s]]]
  BY DEF Web!StoreRow, Web!files
<1>3. /\ row' \in [Site -> Web!Row] /\ \A t \in Site \ {s} : row'[t] = row[t]
      /\ me.op = "cache" => row'[s].value = row[s].value
      /\ me.op = "deploy" => row'[s] = row[s]
      /\ me.op \in {"value", "setting"} => row'[s].cache = row[s].cache
  <2> row \in [Site -> Web!Row]
    BY DEF WebInv, WebTyped
  <2>1. CASE me.op = "cache"
    BY <1>1, <1>2, <2>1 DEF Web!Row
  <2>2. CASE me.op = "deploy"
    BY <1>1, <1>2, <2>2
  <2>3. CASE me.op \in {"value", "setting"}
    BY <1>1, <1>2, <2>3 DEF Web!Row
  <2>4. QED BY <1>1, <2>1, <2>2, <2>3 DEF Web!Page
<1> DEFINE r == [me EXCEPT !.at = step, !.before = row[s], !.read = row'[s]]
<1>4. /\ r \in WebRun /\ r.at = step /\ r.op = me.op /\ r.site = s
      /\ r.before = row[s] /\ r.read = row'[s] /\ r.previous = me.previous
  BY <1>1, <1>3 DEF WebRun, Web!At
<1>5. r.op \in StepsOf(r.at) /\ (r.at = "idle" <=> r.site = "none")
  BY <1>1, <1>4 DEF StepsOf, Web!Page, Web!WebAssumption
<1>6. webRun' = [webRun EXCEPT ![w] = r]
  BY <1>2
<1> HIDE DEF r
<1>7. /\ webRun' \in [Writer -> WebRun] /\ Employed' /\ webRun'[w] = r
      /\ \A v \in Writer \ {w} : webRun'[v] = webRun[v]
  BY <1>4, <1>5, <1>6, WebMove
<1>8. WebTyped'
  BY <1>s, <1>3, <1>7 DEF WebInv, WebTyped
<1>9. WebTurn(w, s)
  BY <1>s, <1>3, <1>4, <1>7 DEF WebTurn
<1>10. WebOwn(w, s)'
  <2>1. /\ s \in enabled' => s \in present' \cup stray'
        /\ vhost'[s].tls => s \in cert'
        /\ webRun'[w].previous.tls => s \in cert'
    BY <1>1, <1>s, <1>4, <1>7 DEF WebInv, Issued, ServedIsThere
  <2>2. s \notin stray' => WebRest(s)'
    BY <1>4, <1>7 DEF WebRest, Web!AtRest
  <2>3. s \notin stray' /\ me.op = "deploy" => ToDeploy(w)' /\ s \in present'
    BY <1>1, <1>s, <1>4, <1>7 DEF ToDeploy, Agree, WebInv, ServedIsThere
  <2>4. ASSUME s \in enabled', s \notin stray' PROVE HalfWay(w)'
    <3>1. OnDisk(s)
      BY <2>4, <1>1, <1>s, s # "none" DEF WebInv, WebKept, HalfWay, Web!WebAssumption
    <3>2. CASE me.op = "deploy"
      BY <1>s, <1>3, <1>4, <1>7, <3>1, <3>2 DEF HalfWay, OnDisk, Says, Zoned, Changed, Agree
    <3>5. CASE me.op = "cache"
      BY <1>s, <1>3, <1>4, <1>7, <3>1, <3>5 DEF HalfWay, OnDisk, Says, Zoned, Changed, Agree
    <3>3. CASE me.op \in {"value", "setting"}
      BY <1>s, <1>3, <1>4, <1>7, <3>1, <3>3 DEF HalfWay, OnDisk, Says, Zoned, Changed, Agree
    <3>4. QED BY <1>1, <3>2, <3>5, <3>3 DEF Web!Page
  <2>5. me.op # "destroy" /\ step # "write"
    BY <1>1 DEF Web!Page
  <2>6. QED BY <2>1, <2>2, <2>3, <2>4, <2>5, <1>4, <1>7 DEF WebOwn, WebKept
<1>11. QED BY <1>1, <1>7, <1>8, <1>9, <1>10, WebTurnKeeps

\* What a writer at work may take for granted.
LEMMA WebOwned ==
    ASSUME WebInv, Web!WebAssumption, NEW w \in Writer, NEW s \in Site, webRun[w].site = s
    PROVE  /\ s \in enabled => s \in present \cup stray
           /\ vhost[s].tls => s \in cert
           /\ webRun[w].previous.tls => s \in cert
           /\ webRun[w].op = "certificate" /\ webRun[w].at = "write" => s \in cert
           /\ s \notin stray => /\ webRun[w].op = "deploy" => s \in present /\ ToDeploy(w)
                                /\ webRun[w].op = "destroy" => s \notin enabled
                                /\ s \in enabled => HalfWay(w)
           /\ s # "none"
<1>1. s # "none"
  BY DEF Web!WebAssumption
<1>2. QED BY <1>1 DEF WebInv, ServedIsThere, Issued, WebKept

\* A writer that goes on keeps the invariant, if what the new step asks is so.
LEMMA WebGotoKeeps ==
    ASSUME WebInv, Web!WebAssumption, NEW w \in Writer, NEW s \in Site, webRun[w].site = s,
           WebTyped', Employed', WebTurn(w, s), webRun'[w].site = s,
           s \in enabled' => s \in present' \cup stray',
           vhost'[s].tls => s \in cert',
           webRun'[w].previous.tls => s \in cert',
           webRun'[w].op = "certificate" /\ webRun'[w].at = "write" => s \in cert',
           s \notin stray' /\ webRun'[w].op = "deploy" => s \in present' /\ ToDeploy(w)',
           s \notin stray' /\ webRun'[w].op = "destroy" => s \notin enabled',
           s \notin stray' /\ s \in enabled' => HalfWay(w)'
    PROVE  WebInv'
<1>1. WebRest(s)'
  BY DEF WebRest, Web!AtRest
<1>2. WebOwn(w, s)'
  BY <1>1 DEF WebOwn, WebKept
<1>3. QED BY <1>2, WebTurnKeeps

LEMMA ZonesByIs ==
    ASSUME WebInv, NEW r \in Web!Row, NEW s \in Site, zone' = Web!ZonesBy(r, s)
    PROVE  /\ zone' \subseteq Site /\ (s \in zone') = r.cache
           /\ \A t \in Site \ {s} : (t \in zone') = (t \in zone)
<1> DEFINE yes == r.cache
<1>1. yes \in BOOLEAN
  BY DEF Web!Row
<1>2. zone' = (IF yes THEN zone \cup {s} ELSE zone \ {s}) /\ zone \subseteq Site
  BY DEF Web!ZonesBy, WebInv, WebTyped
<1> HIDE DEF yes
<1>3. zone' \subseteq Site /\ \A t \in Site \ {s} : (t \in zone') = (t \in zone)
  BY <1>1, <1>2
<1>4. s \in zone' <=> yes
  BY <1>1, <1>2
<1>5. (s \in zone') = yes
  BY <1>1, <1>4
<1>6. QED BY <1>3, <1>5 DEF yes

LEMMA WriteCacheConfigKeeps ==
    ASSUME WebInv, Web!WebAssumption, NEW w \in Writer, NEW s \in Site,
           webRun[w].site = s, Web!WriteCacheConfig(w)
    PROVE  WebInv'
<1> DEFINE step == IF webRun[w].op = "deploy" THEN "write" ELSE "read"
<1>1. /\ webRun[w].at = "zone" /\ webRun[w].op \in {"cache", "deploy"}
      /\ webRun[w].op \in StepsOf(step) /\ step \in Web!At \ {"idle"}
  BY WebAt DEF Web!WriteCacheConfig, StepsOf, Web!At, Web!Page
<1>2. /\ UNCHANGED <<present, row, vhost, enabled, cert, broken, stray, webEdits, troubles>>
      /\ zone' = Web!ZonesBy(webRun[w].read, s)
      /\ Web!Goto(w, step)
  BY DEF Web!WriteCacheConfig
<1>3. /\ webRun' \in [Writer -> WebRun] /\ Employed'
      /\ \A v \in Writer \ {w} : webRun'[v] = webRun[v]
      /\ webRun'[w].at = step /\ webRun'[w].op = webRun[w].op /\ webRun'[w].site = s
      /\ webRun'[w].before = webRun[w].before /\ webRun'[w].read = webRun[w].read
      /\ webRun'[w].previous = webRun[w].previous
  BY <1>1, <1>2, WebGoto
<1>4. /\ zone' \subseteq Site /\ (s \in zone') = webRun[w].read.cache
      /\ \A t \in Site \ {s} : (t \in zone') = (t \in zone)
  BY <1>2, WebAt, ZonesByIs
<1>5. WebTyped'
  BY <1>2, <1>3, <1>4 DEF WebInv, WebTyped
<1>6. WebTurn(w, s)
  BY <1>2, <1>3, <1>4 DEF WebTurn
<1>7. s \notin stray /\ webRun[w].op = "deploy" => s \in present' /\ ToDeploy(w)'
  BY <1>1, <1>2, <1>3, <1>4, WebOwned DEF ToDeploy, Agree, Zoned
<1>8. ASSUME s \notin stray, s \in enabled PROVE HalfWay(w)'
  <2>1. HalfWay(w) /\ (webRun[w].op = "deploy" => ToDeploy(w))
    BY <1>8, WebOwned
  <2>2. CASE webRun[w].op = "deploy"
    BY <1>1, <1>2, <1>3, <1>4, <2>1, <2>2 DEF HalfWay, ToDeploy, Agree, Zoned, Says, Changed, Web!Page
  <2>3. CASE webRun[w].op = "cache"
    BY <1>1, <1>2, <1>3, <1>4, <2>1, <2>3 DEF HalfWay, Agree, Zoned, Says, Changed
  <2>4. QED BY <1>1, <2>2, <2>3
<1>9. QED BY <1>1, <1>2, <1>3, <1>5, <1>6, <1>7, <1>8, WebOwned, WebGotoKeeps

LEMMA CacheConfigFailsKeeps ==
    ASSUME WebInv, Web!WebAssumption, NEW w \in Writer, NEW s \in Site,
           webRun[w].site = s, Web!CacheConfigFails(w)
    PROVE  WebInv'
<1>1. webRun[w].at = "zone" /\ webRun[w].op \in {"cache", "deploy"}
  BY WebAt DEF Web!CacheConfigFails, StepsOf
<1>2. /\ UNCHANGED <<present, row, zone, vhost, enabled, cert, broken, stray, webEdits>>
      /\ troubles' \in 0..MaxTroubles
  BY DEF Web!CacheConfigFails, Web!files, WebInv, WebTyped, Web!WebAssumption
<1>3. CASE webRun[w].op = "deploy"
  <2>1. Web!Stop(w)
    BY <1>3 DEF Web!CacheConfigFails
  <2>2. WebTyped' /\ WebTurn(w, s)
    BY <1>2, <2>1, WebStop DEF WebInv, WebTyped, WebTurn
  <2>3. s \notin stray' => WebRest(s)'
    BY <1>1, <1>2, <1>3, WebOwned DEF WebRest, HalfWay, OnDisk, Says, Zoned
  <2>4. QED BY <1>2, <2>1, <2>2, <2>3, WebOwned, WebStopKeeps
<1>4. CASE webRun[w].op = "cache"
  <2>1. Web!Goto(w, "undo") /\ "undo" \in Web!At \ {"idle"} /\ webRun[w].op \in StepsOf("undo")
    BY <1>4 DEF Web!CacheConfigFails, Web!At, StepsOf, Web!Page
  <2>2. /\ webRun' \in [Writer -> WebRun] /\ Employed'
        /\ \A v \in Writer \ {w} : webRun'[v] = webRun[v]
        /\ webRun'[w].at = "undo" /\ webRun'[w].op = "cache" /\ webRun'[w].site = s
        /\ webRun'[w].before = webRun[w].before
        /\ webRun'[w].previous = webRun[w].previous
    BY <1>1, <1>4, <2>1, WebGoto
  <2>3. WebTyped' /\ WebTurn(w, s)
    BY <1>2, <2>2 DEF WebInv, WebTyped, WebTurn
  <2>4. ASSUME s \notin stray, s \in enabled PROVE HalfWay(w)'
    <3>1. HalfWay(w)
      BY <2>4, WebOwned
    <3>2. QED BY <1>1, <1>2, <1>4, <2>2, <3>1 DEF HalfWay, Says, Changed
  <2>5. QED BY <1>2, <2>2, <2>3, <2>4, WebOwned, WebGotoKeeps
<1>5. QED BY <1>1, <1>3, <1>4

LEMMA ReadPreviousKeeps ==
    ASSUME WebInv, Web!WebAssumption, NEW w \in Writer, NEW s \in Site,
           webRun[w].site = s, Web!ReadPrevious(w)
    PROVE  WebInv'
<1> DEFINE r == [webRun[w] EXCEPT !.at = "write", !.read = row[s], !.previous = vhost[s]]
<1>1. /\ webRun[w].at = "read" /\ webRun[w].op \in Web!Page /\ webRun[w] \in WebRun
      /\ row[s] \in Web!Row /\ vhost[s] \in WebVhost
  BY WebAt, WebSiteAt DEF Web!ReadPrevious, StepsOf
<1>2. UNCHANGED <<present, row, zone, vhost, enabled, cert, broken, stray, webEdits, troubles>>
  BY DEF Web!ReadPrevious, Web!files
<1>3. /\ r \in WebRun /\ r.at = "write" /\ r.op = webRun[w].op /\ r.site = s
      /\ r.before = webRun[w].before /\ r.read = row[s] /\ r.previous = vhost[s]
  BY <1>1 DEF WebRun, Web!At
<1>4. r.op \in StepsOf(r.at) /\ (r.at = "idle" <=> r.site = "none")
  BY <1>1, <1>3, WebOwned DEF StepsOf
<1>5. webRun' = [webRun EXCEPT ![w] = r]
  BY DEF Web!ReadPrevious
<1> HIDE DEF r
<1>6. /\ webRun' \in [Writer -> WebRun] /\ Employed' /\ webRun'[w] = r
      /\ \A v \in Writer \ {w} : webRun'[v] = webRun[v]
  BY <1>3, <1>4, <1>5, WebMove
<1>7. WebTyped' /\ WebTurn(w, s)
  BY <1>2, <1>3, <1>6 DEF WebInv, WebTyped, WebTurn
<1>8. ASSUME s \notin stray, s \in enabled PROVE HalfWay(w)'
  <2>1. HalfWay(w)
    BY <1>8, WebOwned
  <2>2. QED BY <1>1, <1>2, <1>3, <1>6, <2>1 DEF HalfWay, Says, Zoned, Agree, Changed
<1>9. r.op \notin {"certificate", "deploy", "destroy"}
  BY <1>1, <1>3 DEF Web!Page
<1>10. QED BY <1>2, <1>3, <1>6, <1>7, <1>8, <1>9, WebOwned, WebGotoKeeps

LEMMA WriteVhostKeeps ==
    ASSUME WebInv, Web!WebAssumption, NEW w \in Writer, NEW s \in Site,
           webRun[w].site = s, Web!WriteVhost(w)
    PROVE  WebInv'
<1> DEFINE secure == IF webRun[w].op \in Web!Page THEN webRun[w].read.ssl /\ s \in cert
                     ELSE webRun[w].op = "certificate"
           new == Web!Render(webRun[w].read, secure)
<1>1. /\ webRun[w].at = "write" /\ webRun[w].op \in Web!Page \cup {"deploy", "certificate"}
      /\ webRun[w].op \in StepsOf("test") /\ "test" \in Web!At \ {"idle"}
      /\ webRun[w].read \in Web!Row /\ webRun[w].read.ssl \in BOOLEAN
  BY WebAt DEF Web!WriteVhost, StepsOf, Web!At, Web!Page, Web!Row
<1>2. /\ UNCHANGED <<present, row, zone, cert, broken, stray, webEdits, troubles>>
      /\ vhost' = [vhost EXCEPT ![s] = new]
      /\ enabled' = IF webRun[w].op = "deploy" THEN enabled \cup {s} ELSE enabled
      /\ Web!Goto(w, "test")
  BY DEF Web!WriteVhost
<1>3. /\ webRun' \in [Writer -> WebRun] /\ Employed'
      /\ \A v \in Writer \ {w} : webRun'[v] = webRun[v]
      /\ webRun'[w].at = "test" /\ webRun'[w].op = webRun[w].op /\ webRun'[w].site = s
      /\ webRun'[w].before = webRun[w].before /\ webRun'[w].read = webRun[w].read
      /\ webRun'[w].previous = webRun[w].previous
  BY <1>1, <1>2, WebGoto
<1>4. secure \in BOOLEAN /\ (secure => s \in cert)
  BY <1>1, WebOwned
<1> HIDE DEF secure
<1>5. /\ new \in WebVhost /\ new.zone = webRun[w].read.cache /\ new.value = webRun[w].read.value
      /\ new.tls = secure
  BY <1>1, <1>4, RenderType DEF Web!Render
<1> HIDE DEF new
<1>6. /\ vhost' \in [Site -> WebVhost] /\ vhost'[s] = new /\ \A t \in Site \ {s} : vhost'[t] = vhost[t]
  BY <1>2, <1>5 DEF WebInv, WebTyped
<1>7. WebTyped' /\ WebTurn(w, s)
  BY <1>2, <1>3, <1>6 DEF WebInv, WebTyped, WebTurn
<1>8. ASSUME s \notin stray, s \in enabled' PROVE HalfWay(w)'
  <2>1. CASE webRun[w].op = "deploy"
    <3>1. Agree(webRun[w].read, row[s]) /\ Zoned(s)
      BY <1>1, <1>8, <2>1, WebOwned DEF ToDeploy
    <3>2. QED BY <1>2, <1>3, <1>5, <1>6, <2>1, <3>1 DEF HalfWay, OnDisk, Says, Zoned, Agree, Changed, Web!Page
  <2>2. CASE webRun[w].op # "deploy"
    <3>1. HalfWay(w)
      BY <1>2, <1>8, <2>2, WebOwned
    <3>2. QED BY <1>1, <1>2, <1>3, <1>5, <1>6, <3>1 DEF HalfWay, OnDisk, Says, Zoned, Agree, Changed
  <2>3. QED BY <2>1, <2>2
<1>9. /\ s \in enabled' => s \in present' \cup stray'
      /\ s \notin stray /\ webRun[w].op = "deploy" => s \in present' /\ ToDeploy(w)'
      /\ vhost'[s].tls => s \in cert'
      /\ webRun[w].op # "destroy"
  BY <1>1, <1>2, <1>3, <1>4, <1>5, <1>6, WebOwned DEF ToDeploy, Web!Page
<1>10. QED BY <1>2, <1>3, <1>7, <1>8, <1>9, WebOwned, WebGotoKeeps

LEMMA TestKeeps ==
    ASSUME WebInv, Web!WebAssumption, NEW w \in Writer, NEW s \in Site,
           webRun[w].site = s, Web!Test(w)
    PROVE  WebInv'
<1> DEFINE o == webRun[w].op
<1>1. webRun[w].at = "test" /\ o \in Web!Page \cup {"deploy", "certificate", "destroy"}
  BY WebAt DEF Web!Test, StepsOf
<1>2. UNCHANGED <<present, row, zone, vhost, enabled, cert, broken, stray, webEdits, troubles>>
  BY DEF Web!Test, Web!files
<1>3. \/ Web!Goto(w, "reload")
      \/ o \in Web!Page /\ Web!Goto(w, "back")
      \/ o = "certificate" /\ Web!Goto(w, "plain")
      \/ o \in {"deploy", "destroy"} /\ Web!Stop(w)
  BY <1>1 DEF Web!Test
<1>4. ASSUME NEW step \in {"reload", "back", "plain"}, Web!Goto(w, step),
             step = "back" => o \in Web!Page, step = "plain" => o = "certificate"
      PROVE  WebInv'
  <2>1. o \in StepsOf(step) /\ step \in Web!At \ {"idle"}
    BY <1>1, <1>4 DEF StepsOf, Web!At
  <2>2. /\ webRun' \in [Writer -> WebRun] /\ Employed'
        /\ \A v \in Writer \ {w} : webRun'[v] = webRun[v]
        /\ webRun'[w].at = step /\ webRun'[w].op = o /\ webRun'[w].site = s
        /\ webRun'[w].before = webRun[w].before /\ webRun'[w].read = webRun[w].read
        /\ webRun'[w].previous = webRun[w].previous
    BY <1>1, <1>4, <2>1, WebGoto
  <2>3. WebTyped' /\ WebTurn(w, s)
    BY <1>2, <2>2 DEF WebInv, WebTyped, WebTurn
  <2>4. ASSUME s \notin stray, s \in enabled PROVE HalfWay(w)'
    <3>1. HalfWay(w)
      BY <2>4, WebOwned
    <3>2. CASE step = "reload"
      BY <1>1, <1>2, <2>2, <3>1, <3>2 DEF HalfWay, OnDisk, Says, Zoned
    <3>3. CASE step = "back"
      BY <1>1, <1>2, <1>4, <2>2, <3>1, <3>3 DEF HalfWay, OnDisk, Says, Zoned, Changed, Web!Page
    <3>4. CASE step = "plain"
      BY <1>1, <1>2, <1>4, <2>2, <3>1, <3>4 DEF HalfWay, OnDisk, Zoned, Agree
    <3>5. QED BY <1>4, <3>2, <3>3, <3>4
  <2>5. /\ s \notin stray /\ o = "deploy" => s \in present' /\ ToDeploy(w)'
        /\ s \notin stray /\ o = "destroy" => s \notin enabled
    BY <1>2, <1>4, <2>2, WebOwned DEF ToDeploy
  <2>6. step # "write"
    BY <1>4
  <2>7. QED BY <1>2, <2>2, <2>3, <2>4, <2>5, <2>6, WebOwned, WebGotoKeeps
<1>5. ASSUME o \in {"deploy", "destroy"}, Web!Stop(w) PROVE WebInv'
  <2>1. WebTyped' /\ WebTurn(w, s)
    BY <1>2, <1>5, WebStop DEF WebInv, WebTyped, WebTurn
  <2>2. s \notin stray => WebRest(s)'
    BY <1>1, <1>2, <1>5, WebOwned DEF WebRest, HalfWay, OnDisk, Says, Zoned
  <2>3. QED BY <1>2, <1>5, <2>1, <2>2, WebOwned, WebStopKeeps
<1>6. QED BY <1>3, <1>4, <1>5 DEF Web!Page

LEMMA PutBackKeeps ==
    ASSUME WebInv, Web!WebAssumption, NEW w \in Writer, NEW s \in Site,
           webRun[w].site = s, Web!PutBack(w)
    PROVE  WebInv'
<1> DEFINE previous == webRun[w].previous
<1>1. /\ webRun[w].at = "back" /\ webRun[w].op \in Web!Page /\ previous \in WebVhost
      /\ webRun[w].op \in StepsOf("undo") /\ "undo" \in Web!At \ {"idle"}
  BY WebAt DEF Web!PutBack, StepsOf, Web!At
<1>2. /\ UNCHANGED <<present, row, zone, enabled, cert, broken, webEdits, troubles>>
      /\ vhost' = IF previous = Web!NoVhost THEN vhost ELSE [vhost EXCEPT ![s] = previous]
      /\ stray' = IF previous = Web!NoVhost THEN stray \cup {s} ELSE stray
      /\ Web!Goto(w, "undo")
  BY DEF Web!PutBack
<1>3. /\ webRun' \in [Writer -> WebRun] /\ Employed'
      /\ \A v \in Writer \ {w} : webRun'[v] = webRun[v]
      /\ webRun'[w].at = "undo" /\ webRun'[w].op = webRun[w].op /\ webRun'[w].site = s
      /\ webRun'[w].before = webRun[w].before
      /\ webRun'[w].previous = webRun[w].previous
  BY <1>1, <1>2, WebGoto
<1>4. /\ vhost' \in [Site -> WebVhost] /\ \A t \in Site \ {s} : vhost'[t] = vhost[t]
      /\ stray \subseteq stray' /\ stray' \subseteq Site
      /\ vhost'[s] \in {vhost[s], previous} /\ (s \notin stray' => vhost'[s] = previous)
  BY <1>1, <1>2 DEF WebInv, WebTyped
<1>5. WebTyped' /\ WebTurn(w, s)
  BY <1>2, <1>3, <1>4 DEF WebInv, WebTyped, WebTurn
<1>6. ASSUME s \notin stray', s \in enabled PROVE HalfWay(w)'
  <2>1. HalfWay(w)
    BY <1>4, <1>6, WebOwned
  <2>2. QED BY <1>1, <1>2, <1>3, <1>4, <1>6, <2>1 DEF HalfWay, Says, Zoned, Changed
<1>7. /\ vhost'[s].tls => s \in cert'
      /\ webRun[w].op \notin {"certificate", "deploy", "destroy"}
      /\ s \in enabled' => s \in present' \cup stray'
  BY <1>1, <1>2, <1>4, WebOwned DEF Web!Page
<1>8. QED BY <1>2, <1>3, <1>5, <1>6, <1>7, WebOwned, WebGotoKeeps

LEMMA UndoRowKeeps ==
    ASSUME WebInv, Web!WebAssumption, NEW w \in Writer, NEW s \in Site,
           webRun[w].site = s, Web!UndoRow(w)
    PROVE  WebInv'
<1> DEFINE me == webRun[w]
<1>1. /\ me.at = "undo" /\ me.op \in Web!Page /\ me \in WebRun
      /\ me.before \in Web!Row /\ row[s] \in Web!Row /\ row \in [Site -> Web!Row]
  BY WebAt, WebSiteAt DEF Web!UndoRow, StepsOf, WebInv, WebTyped
<1>2. UNCHANGED <<present, zone, vhost, enabled, cert, broken, webEdits, troubles>>
  BY DEF Web!UndoRow, Web!files
<1>3. row' = CASE me.op = "cache" -> [row EXCEPT ![s].cache = me.before.cache]
               [] me.op = "value" -> [row EXCEPT ![s].value = me.before.value]
               [] OTHER -> row
  BY DEF Web!UndoRow
<1>4. /\ row' \in [Site -> Web!Row] /\ \A t \in Site \ {s} : row'[t] = row[t]
      /\ me.op = "cache" => row'[s].cache = me.before.cache /\ row'[s].value = row[s].value
      /\ me.op = "value" => row'[s].value = me.before.value /\ row'[s].cache = row[s].cache
  <2>1. CASE me.op = "cache"
    BY <1>1, <1>3, <2>1 DEF Web!Row
  <2>2. CASE me.op = "value"
    BY <1>1, <1>3, <2>2 DEF Web!Row
  <2>3. CASE me.op = "setting"
    BY <1>1, <1>3, <2>3
  <2>4. QED BY <1>1, <2>1, <2>2, <2>3 DEF Web!Page
<1>5. /\ stray \subseteq stray' /\ stray' \subseteq Site
      /\ me.op = "setting" => s \in stray'
  BY DEF Web!UndoRow, WebInv, WebTyped
\* The vhost says what the row says again.
<1>6. ASSUME s \notin stray', s \in enabled
      PROVE  /\ me.op \in {"cache", "value"}
             /\ Says(vhost[s], row'[s])
             /\ me.op = "value" => (s \in zone) = row'[s].cache
  <2>1. HalfWay(w) /\ me.op \in {"cache", "value"}
    BY <1>1, <1>5, <1>6, WebOwned DEF Web!Page
  <2>2. Says(vhost[s], me.before) /\ Changed(w) /\ (me.op = "value" => Zoned(s))
    BY <1>1, <2>1 DEF HalfWay, Says
  <2>3. QED BY <1>4, <2>1, <2>2 DEF Says, Changed, Zoned
<1>7. CASE me.op = "cache"
  <2> DEFINE r == [me EXCEPT !.at = "rezone", !.read = row'[s]]
  <2>1. /\ r \in WebRun /\ r.at = "rezone" /\ r.op = "cache" /\ r.site = s
        /\ r.before = me.before /\ r.read = row'[s] /\ r.previous = me.previous
    BY <1>1, <1>4, <1>7 DEF WebRun, Web!At
  <2>2. r.op \in StepsOf(r.at) /\ (r.at = "idle" <=> r.site = "none")
    BY <2>1, WebOwned DEF StepsOf
  <2>3. webRun' = [webRun EXCEPT ![w] = r]
    BY <1>7 DEF Web!UndoRow
  <2> HIDE DEF r
  <2>4. /\ webRun' \in [Writer -> WebRun] /\ Employed' /\ webRun'[w] = r
        /\ \A v \in Writer \ {w} : webRun'[v] = webRun[v]
    BY <2>1, <2>2, <2>3, WebMove
  <2>5. WebTyped' /\ WebTurn(w, s)
    BY <1>2, <1>4, <1>5, <2>1, <2>4 DEF WebInv, WebTyped, WebTurn
  <2>6. ASSUME s \notin stray', s \in enabled PROVE HalfWay(w)'
    BY <1>2, <1>6, <2>1, <2>4, <2>6 DEF HalfWay, Says
  <2>7. s \in enabled' => s \in present' \cup stray'
    BY <1>2, <1>5, WebOwned
  <2>8. QED BY <1>2, <2>1, <2>4, <2>5, <2>6, <2>7, WebOwned, WebGotoKeeps
<1>8. CASE me.op # "cache"
  <2>1. Web!Stop(w)
    BY <1>8 DEF Web!UndoRow
  <2>2. WebTyped' /\ WebTurn(w, s)
    BY <1>2, <1>4, <1>5, <2>1, WebStop DEF WebInv, WebTyped, WebTurn
  <2>3. s \notin stray' => WebRest(s)'
    BY <1>2, <1>6, <1>8 DEF WebRest, OnDisk, Says, Zoned
  <2>4. s \in enabled' => s \in present' \cup stray'
    BY <1>2, <1>5, WebOwned
  <2>5. QED BY <1>2, <2>1, <2>2, <2>3, <2>4, WebOwned, WebStopKeeps
<1>9. QED BY <1>7, <1>8

LEMMA RestoreZoneKeeps ==
    ASSUME WebInv, Web!WebAssumption, NEW w \in Writer, NEW s \in Site,
           webRun[w].site = s, Web!RestoreZone(w)
    PROVE  WebInv'
<1>1. webRun[w].at = "rezone" /\ webRun[w].read \in Web!Row
  BY WebAt DEF Web!RestoreZone
<1>2. /\ UNCHANGED <<present, row, vhost, enabled, cert, broken, stray, webEdits, troubles>>
      /\ zone' = Web!ZonesBy(webRun[w].read, s) /\ Web!Stop(w)
  BY DEF Web!RestoreZone
<1>3. /\ zone' \subseteq Site /\ (s \in zone') = webRun[w].read.cache
      /\ \A t \in Site \ {s} : (t \in zone') = (t \in zone)
  BY <1>1, <1>2, ZonesByIs
<1>4. WebTyped' /\ WebTurn(w, s)
  BY <1>2, <1>3, WebStop DEF WebInv, WebTyped, WebTurn
<1>5. s \notin stray => WebRest(s)'
  BY <1>1, <1>2, <1>3, WebOwned DEF WebRest, HalfWay, OnDisk, Says, Zoned
<1>6. QED BY <1>2, <1>4, <1>5, WebOwned, WebStopKeeps

\* The row's wish for HTTPS is changed, and no more.
OnlySsl(s) ==
    /\ row' \in [Site -> Web!Row] /\ \A t \in Site \ {s} : row'[t] = row[t]
    /\ row'[s].cache = row[s].cache /\ row'[s].value = row[s].value

LEMMA SslStored ==
    ASSUME WebInv, NEW s \in Site, NEW yes \in BOOLEAN, row' = [row EXCEPT ![s].ssl = yes]
    PROVE  OnlySsl(s)
<1>1. row \in [Site -> Web!Row] /\ row[s] \in Web!Row
  BY WebSiteAt DEF WebInv, WebTyped
<1>2. row'[s] = [row[s] EXCEPT !.ssl = yes]
  BY <1>1
<1>3. row'[s] \in Web!Row /\ row'[s].cache = row[s].cache /\ row'[s].value = row[s].value
  BY <1>1, <1>2 DEF Web!Row
<1>4. QED BY <1>1, <1>3 DEF OnlySsl

LEMMA SslAsBefore == ASSUME WebInv, NEW s \in Site, UNCHANGED row PROVE OnlySsl(s)
BY DEF OnlySsl, WebInv, WebTyped

LEMMA ReloadKeeps ==
    ASSUME WebInv, Web!WebAssumption, NEW w \in Writer, NEW s \in Site,
           webRun[w].site = s, Web!Reload(w)
    PROVE  WebInv'
<1> DEFINE o == webRun[w].op
<1>1. webRun[w].at = "reload" /\ o \in Web!Page \cup {"deploy", "certificate", "destroy"}
  BY WebAt DEF Web!Reload, StepsOf
<1>2. /\ UNCHANGED <<zone, vhost, enabled, cert, broken, stray, webEdits, troubles>>
      /\ present' = IF o = "destroy" THEN present \ {s} ELSE present
      /\ row' = IF o = "certificate" THEN [row EXCEPT ![s].ssl = TRUE] ELSE row
      /\ (o = "deploy" /\ Web!Goto(w, "cert")) \/ Web!Stop(w)
  BY DEF Web!Reload, Web!files
<1>3. OnlySsl(s)
  <2> DEFINE yes == TRUE
  <2>1. yes \in BOOLEAN
    OBVIOUS
  <2>2. o = "certificate" => row' = [row EXCEPT ![s].ssl = yes]
    BY <1>2
  <2> HIDE DEF yes
  <2>3. QED BY <1>2, <2>1, <2>2, SslStored, SslAsBefore
<1>4. s \in enabled' => s \in present' \cup stray'
  BY <1>2, WebOwned
<1>5. s \notin stray /\ s \in enabled => OnDisk(s)
  BY <1>1, WebOwned DEF HalfWay
<1>6. CASE o = "deploy" /\ Web!Goto(w, "cert")
  <2>1. o \in StepsOf("cert") /\ "cert" \in Web!At \ {"idle"}
    BY <1>6 DEF StepsOf, Web!At
  <2>2. /\ webRun' \in [Writer -> WebRun] /\ Employed'
        /\ \A v \in Writer \ {w} : webRun'[v] = webRun[v]
        /\ webRun'[w].at = "cert" /\ webRun'[w].op = "deploy" /\ webRun'[w].site = s
        /\ webRun'[w].previous = webRun[w].previous
    BY <1>1, <1>6, <2>1, WebGoto
  <2>3. WebTyped' /\ WebTurn(w, s)
    BY <1>2, <1>3, <1>6, <2>2 DEF WebInv, WebTyped, WebTurn, OnlySsl
  <2>4. s \notin stray /\ s \in enabled => HalfWay(w)'
    BY <1>2, <1>3, <1>5, <2>2 DEF HalfWay, OnDisk, Says, Zoned, OnlySsl
  <2>5. s \notin stray => s \in present' /\ ToDeploy(w)'
    BY <1>2, <1>6, <2>2, WebOwned DEF ToDeploy
  <2>6. QED BY <1>2, <1>4, <2>2, <2>3, <2>4, <2>5, WebOwned, WebGotoKeeps
<1>7. CASE Web!Stop(w)
  <2>1. WebTyped' /\ WebTurn(w, s)
    BY <1>2, <1>3, <1>7, WebStop DEF WebInv, WebTyped, WebTurn, OnlySsl
  <2>2. s \notin stray => WebRest(s)'
    BY <1>2, <1>3, <1>5 DEF WebRest, OnDisk, Says, Zoned, OnlySsl
  <2>3. QED BY <1>2, <1>4, <1>7, <2>1, <2>2, WebOwned, WebStopKeeps
<1>8. QED BY <1>2, <1>6, <1>7

LEMMA ReloadFailsKeeps ==
    ASSUME WebInv, Web!WebAssumption, NEW w \in Writer, NEW s \in Site,
           webRun[w].site = s, Web!ReloadFails(w)
    PROVE  WebInv'
<1> DEFINE o == webRun[w].op
<1>1. webRun[w].at = "reload"
  BY DEF Web!ReloadFails
<1>2. /\ UNCHANGED <<present, row, zone, vhost, enabled, cert, broken, webEdits>>
      /\ troubles' \in 0..MaxTroubles /\ stray \subseteq stray' /\ stray' \subseteq Site
  BY DEF Web!ReloadFails, Web!files, WebInv, WebTyped, Web!WebAssumption
<1>3. s \in enabled' => s \in present' \cup stray'
  BY <1>2, WebOwned
<1>4. CASE o \in Web!Page
  <2>1. /\ Web!Goto(w, "undo") /\ s \in stray'
        /\ o \in StepsOf("undo") /\ "undo" \in Web!At \ {"idle"}
    BY <1>4 DEF Web!ReloadFails, StepsOf, Web!At
  <2>2. /\ webRun' \in [Writer -> WebRun] /\ Employed'
        /\ \A v \in Writer \ {w} : webRun'[v] = webRun[v]
        /\ webRun'[w].at = "undo" /\ webRun'[w].op = o /\ webRun'[w].site = s
        /\ webRun'[w].previous = webRun[w].previous
    BY <1>1, <2>1, WebGoto
  <2>3. WebTyped' /\ WebTurn(w, s)
    BY <1>2, <2>2 DEF WebInv, WebTyped, WebTurn
  <2>4. QED BY <1>2, <1>3, <2>1, <2>2, <2>3, WebOwned, WebGotoKeeps
<1>5. CASE o \notin Web!Page
  <2>1. Web!Stop(w)
    BY <1>5 DEF Web!ReloadFails
  <2>2. WebTyped' /\ WebTurn(w, s)
    BY <1>2, <2>1, WebStop DEF WebInv, WebTyped, WebTurn
  <2>3. s \notin stray' => WebRest(s)'
    BY <1>1, <1>2, WebOwned DEF WebRest, HalfWay, OnDisk, Says, Zoned
  <2>4. QED BY <1>2, <1>3, <2>1, <2>2, <2>3, WebOwned, WebStopKeeps
<1>6. QED BY <1>4, <1>5

LEMMA RequestCertificateKeeps ==
    ASSUME WebInv, Web!WebAssumption, NEW w \in Writer, NEW s \in Site,
           webRun[w].site = s, Web!RequestCertificate(w)
    PROVE  WebInv'
<1>1. webRun[w].at = "cert" /\ webRun[w] \in WebRun
  BY WebAt DEF Web!RequestCertificate
<1>2. /\ UNCHANGED <<present, row, zone, vhost, enabled, broken, stray, webEdits, troubles>>
      /\ cert' = cert \cup {s} \/ UNCHANGED cert
      /\ Web!Onward(w) \/ Web!Stop(w)
  BY DEF Web!RequestCertificate
<1>3. /\ cert \subseteq cert' /\ cert' \subseteq Site
      /\ s \in enabled' => s \in present' \cup stray'
      /\ vhost'[s].tls => s \in cert'
      /\ webRun[w].previous.tls => s \in cert'
      /\ s \notin stray /\ s \in enabled => OnDisk(s)
  BY <1>1, <1>2, WebOwned DEF WebInv, WebTyped, HalfWay
<1>4. CASE Web!Onward(w)
  <2> DEFINE r == [webRun[w] EXCEPT !.at = "https", !.op = "certificate"]
  <2>1. /\ r \in WebRun /\ r.at = "https" /\ r.op = "certificate" /\ r.site = s
        /\ r.previous = webRun[w].previous
    BY <1>1 DEF WebRun, Web!At, Web!Op
  <2>2. r.op \in StepsOf(r.at) /\ (r.at = "idle" <=> r.site = "none")
    BY <2>1, WebOwned DEF StepsOf
  <2>3. webRun' = [webRun EXCEPT ![w] = r]
    BY <1>4 DEF Web!Onward
  <2> HIDE DEF r
  <2>4. /\ webRun' \in [Writer -> WebRun] /\ Employed' /\ webRun'[w] = r
        /\ \A v \in Writer \ {w} : webRun'[v] = webRun[v]
    BY <2>1, <2>2, <2>3, WebMove
  <2>5. WebTyped' /\ WebTurn(w, s)
    BY <1>2, <1>3, <2>1, <2>4 DEF WebInv, WebTyped, WebTurn
  <2>6. s \notin stray /\ s \in enabled => HalfWay(w)'
    BY <1>2, <1>3, <2>1, <2>4 DEF HalfWay, OnDisk, Says, Zoned
  <2>7. QED BY <1>2, <1>3, <2>1, <2>4, <2>5, <2>6, WebGotoKeeps
<1>5. CASE Web!Stop(w)
  <2>1. WebTyped' /\ WebTurn(w, s)
    BY <1>2, <1>3, <1>5, WebStop DEF WebInv, WebTyped, WebTurn
  <2>2. s \notin stray => WebRest(s)'
    BY <1>2, <1>3 DEF WebRest, OnDisk, Says, Zoned
  <2>3. QED BY <1>2, <1>3, <1>5, <2>1, <2>2, WebStopKeeps
<1>6. QED BY <1>2, <1>4, <1>5

LEMMA EnableHTTPSKeeps ==
    ASSUME WebInv, Web!WebAssumption, NEW w \in Writer, NEW s \in Site,
           webRun[w].site = s, Web!EnableHTTPS(w)
    PROVE  WebInv'
<1>1. /\ webRun[w].at = "https" /\ webRun[w].op = "certificate"
      /\ webRun[w] \in WebRun /\ row[s] \in Web!Row
  BY WebAt, WebSiteAt DEF Web!EnableHTTPS, StepsOf
<1>2. UNCHANGED <<present, zone, vhost, enabled, cert, broken, stray, webEdits, troubles>>
  BY DEF Web!EnableHTTPS, Web!files
<1>3. s \notin stray /\ s \in enabled => OnDisk(s)
  BY <1>1, WebOwned DEF HalfWay
<1>4. CASE s \notin cert
  <2>1. row' = [row EXCEPT ![s].ssl = FALSE] /\ Web!Stop(w)
    BY <1>4 DEF Web!EnableHTTPS
  <2>2. OnlySsl(s)
    <3> DEFINE no == FALSE
    <3>1. no \in BOOLEAN /\ row' = [row EXCEPT ![s].ssl = no]
      BY <2>1
    <3> HIDE DEF no
    <3>2. QED BY <3>1, SslStored
  <2>3. WebTyped' /\ WebTurn(w, s)
    BY <1>2, <2>1, <2>2, WebStop DEF WebInv, WebTyped, WebTurn, OnlySsl
  <2>4. s \notin stray => WebRest(s)'
    BY <1>2, <1>3, <2>2 DEF WebRest, OnDisk, Says, Zoned, OnlySsl
  <2>5. QED BY <1>2, <2>1, <2>3, <2>4, WebOwned, WebStopKeeps
<1>5. CASE s \in cert
  <2> DEFINE r == [webRun[w] EXCEPT !.at = "write", !.read = row[s]]
  <2>1. /\ r \in WebRun /\ r.at = "write" /\ r.op = "certificate" /\ r.site = s
        /\ r.read = row[s] /\ r.previous = webRun[w].previous
    BY <1>1 DEF WebRun, Web!At
  <2>2. r.op \in StepsOf(r.at) /\ (r.at = "idle" <=> r.site = "none")
    BY <2>1, WebOwned DEF StepsOf
  <2>3. webRun' = [webRun EXCEPT ![w] = r] /\ UNCHANGED row
    BY <1>5 DEF Web!EnableHTTPS
  <2> HIDE DEF r
  <2>4. /\ webRun' \in [Writer -> WebRun] /\ Employed' /\ webRun'[w] = r
        /\ \A v \in Writer \ {w} : webRun'[v] = webRun[v]
    BY <2>1, <2>2, <2>3, WebMove
  <2>5. WebTyped' /\ WebTurn(w, s)
    BY <1>2, <2>1, <2>3, <2>4 DEF WebInv, WebTyped, WebTurn
  <2>6. s \notin stray /\ s \in enabled => HalfWay(w)'
    BY <1>2, <1>3, <2>1, <2>3, <2>4 DEF HalfWay, OnDisk, Says, Zoned, Agree, Changed, Web!Page
  <2>7. QED BY <1>2, <1>5, <2>1, <2>4, <2>5, <2>6, WebOwned, WebGotoKeeps
<1>6. QED BY <1>4, <1>5

LEMMA BackToHTTPKeeps ==
    ASSUME WebInv, Web!WebAssumption, NEW w \in Writer, NEW s \in Site,
           webRun[w].site = s, Web!BackToHTTP(w)
    PROVE  WebInv'
<1> DEFINE no == FALSE
           new == Web!Render(webRun[w].read, no)
<1>1. webRun[w].at = "plain" /\ webRun[w].op = "certificate" /\ webRun[w].read \in Web!Row
  BY WebAt DEF Web!BackToHTTP, StepsOf
<1>2. /\ UNCHANGED <<present, zone, enabled, cert, broken, stray, webEdits, troubles>>
      /\ vhost' = [vhost EXCEPT ![s] = new]
      /\ row' = [row EXCEPT ![s].ssl = no] /\ Web!Stop(w)
  BY DEF Web!BackToHTTP
<1>3. no \in BOOLEAN /\ ~no
  OBVIOUS
<1> HIDE DEF no
<1>4. /\ new \in WebVhost /\ new.zone = webRun[w].read.cache /\ new.value = webRun[w].read.value
      /\ ~new.tls
  BY <1>1, <1>3, RenderType DEF Web!Render
<1> HIDE DEF new
<1>5. /\ vhost' \in [Site -> WebVhost] /\ vhost'[s] = new /\ \A t \in Site \ {s} : vhost'[t] = vhost[t]
  BY <1>2, <1>4 DEF WebInv, WebTyped
<1>6. OnlySsl(s)
  BY <1>2, <1>3, SslStored
<1>7. WebTyped' /\ WebTurn(w, s)
  BY <1>2, <1>5, <1>6, WebStop DEF WebInv, WebTyped, WebTurn, OnlySsl
<1>8. s \notin stray => WebRest(s)'
  BY <1>1, <1>2, <1>4, <1>5, <1>6, WebOwned DEF WebRest, HalfWay, OnDisk, Says, Zoned, Agree, OnlySsl
<1>9. QED BY <1>2, <1>4, <1>5, <1>7, <1>8, WebOwned, WebStopKeeps

LEMMA HandsKeep == ASSUME WebInv, Web!WebAssumption, Web!HandEdit \/ Web!HandRepair PROVE WebInv'
<1>1. /\ UNCHANGED <<present, row, zone, vhost, enabled, cert, webRun, stray, webEdits>>
      /\ broken' \in BOOLEAN /\ troubles' \in 0..MaxTroubles
  <2> troubles \in 0..MaxTroubles /\ MaxTroubles \in Nat
    BY DEF WebInv, WebTyped, Web!WebAssumption
  <2>1. CASE Web!HandEdit
    BY <2>1 DEF Web!HandEdit, Web!files
  <2>2. CASE Web!HandRepair
    BY <2>2 DEF Web!HandRepair, Web!files
  <2>3. QED BY <2>1, <2>2
<1>2. WebTyped' /\ Employed' /\ OneWriter' /\ ServedIsThere' /\ Issued'
  BY <1>1 DEF WebInv, WebTyped, Employed, OneWriter, ServedIsThere, Issued
<1>3. \A s \in Site \ stray' : WebRest(s)'
  BY <1>1 DEF WebInv, WebRest, OnDisk, Says, Zoned, Web!AtRest
<1>4. ASSUME NEW w \in Writer PROVE WebKept(w)'
  <2>1. WebKept(w)
    BY DEF WebInv
  <2>2. (ToDeploy(w) => ToDeploy(w)') /\ (HalfWay(w) => HalfWay(w)')
    BY <1>1 DEF ToDeploy, HalfWay, OnDisk, Says, Zoned, Agree, Changed
  <2>3. QED BY <1>1, <2>1, <2>2 DEF WebKept
<1>5. QED BY <1>2, <1>3, <1>4 DEF WebInv

LEMMA WebCrashKeeps == ASSUME WebInv, Web!WebAssumption, Web!Crash PROVE WebInv'
<1>1. /\ UNCHANGED <<present, row, zone, vhost, enabled, cert, broken, webEdits>>
      /\ webRun' = [w \in Writer |-> Web!Idle]
      /\ stray' = stray \cup {s \in Site : \E w \in Writer : webRun[w].site = s}
      /\ troubles' \in 0..MaxTroubles
  BY DEF Web!Crash, Web!files, WebInv, WebTyped, Web!WebAssumption
<1>2. \A w \in Writer : /\ webRun'[w].at = "idle" /\ webRun'[w].op = "none"
                        /\ webRun'[w].site = "none" /\ ~webRun'[w].previous.tls
  BY <1>1 DEF Web!Idle, Web!NoVhost
<1>3. WebTyped'
  BY <1>1, WebIdle DEF WebInv, WebTyped
<1>4. Employed' /\ OneWriter' /\ ServedIsThere' /\ Issued'
  BY <1>1, <1>2 DEF WebInv, Employed, StepsOf, OneWriter, ServedIsThere, Issued
\* Of a site nobody was at, nothing was under way.
<1>5. \A s \in Site \ stray' : WebRest(s)'
  BY <1>1 DEF WebInv, WebRest, OnDisk, Says, Zoned, Web!AtRest
<1>6. \A w \in Writer : WebKept(w)'
  BY <1>2 DEF WebKept
<1>7. QED BY <1>3, <1>4, <1>5, <1>6 DEF WebInv

\* The pages and the tools are edits.
LEMMA PagesEdit ==
    ASSUME NEW w \in Writer, NEW s \in Site,
           \/ Web!sitesSettings(w, s) \/ Web!sitesPHP(w, s) \/ Web!sitesCache(w, s)
           \/ Web!mcpSetWebDirectory(w, s) \/ Web!mcpSetSiteAliases(w, s)
           \/ Web!mcpSitePHPSettings(w, s) \/ Web!mcpSiteCache(w, s)
    PROVE  \E o \in Web!Page, to \in Web!Row : Web!Edit(w, s, o, to)
<1>1. \/ Web!SetCache(w, s) \/ Web!SetAliases(w, s) \/ Web!SetPHPVersion(w, s)
      \/ Web!SetPHPSettings(w, s) \/ Web!SetWebDirectory(w, s)
  BY DEF Web!sitesSettings, Web!sitesPHP, Web!sitesCache, Web!mcpSetWebDirectory,
         Web!mcpSetSiteAliases, Web!mcpSitePHPSettings, Web!mcpSiteCache, Web!applyAliases,
         Web!movePHPVersion, Web!sitesPHPVersion, Web!mcpMovePHPVersion
<1>2. /\ \A c \in BOOLEAN : [Web!NewRow EXCEPT !.cache = c] \in Web!Row
      /\ \A v \in Web!Value : [Web!NewRow EXCEPT !.value = v] \in Web!Row
  BY DEF Web!NewRow, Web!Row, Web!Value
<1>3. {"cache", "value", "setting"} = Web!Page
  BY DEF Web!Page
<1>4. CASE Web!SetCache(w, s)
  BY <1>2, <1>3, <1>4 DEF Web!SetCache
<1>5. CASE Web!SetAliases(w, s) \/ Web!SetPHPVersion(w, s)
  BY <1>2, <1>3, <1>5 DEF Web!SetAliases, Web!SetPHPVersion
<1>6. CASE Web!SetPHPSettings(w, s) \/ Web!SetWebDirectory(w, s)
  BY <1>2, <1>3, <1>6 DEF Web!SetPHPSettings, Web!SetWebDirectory
<1>7. QED BY <1>1, <1>4, <1>5, <1>6

LEMMA WebNext == ASSUME WebInv, Web!WebAssumption, Web!Next PROVE WebInv'
<1>1. CASE Web!HandEdit \/ Web!HandRepair \/ Web!Crash
  BY <1>1, HandsKeep, WebCrashKeeps
<1>2. ASSUME NEW w \in Writer, NEW s \in Site,
             \/ Web!sitesSettings(w, s) \/ Web!sitesPHP(w, s) \/ Web!sitesCache(w, s)
             \/ Web!mcpSetWebDirectory(w, s) \/ Web!mcpSetSiteAliases(w, s)
             \/ Web!mcpSitePHPSettings(w, s) \/ Web!mcpSiteCache(w, s)
             \/ Web!Deploy(w, s) \/ Web!Certificate(w, s) \/ Web!Destroy(w, s)
      PROVE  WebInv'
  <2>1. CASE Web!Deploy(w, s) \/ Web!Certificate(w, s) \/ Web!Destroy(w, s)
    BY <2>1, DeployKeeps, CertificateKeeps, DestroyKeeps
  <2>2. CASE ~(Web!Deploy(w, s) \/ Web!Certificate(w, s) \/ Web!Destroy(w, s))
    <3>1. PICK o \in Web!Page, to \in Web!Row : Web!Edit(w, s, o, to)
      BY <1>2, <2>2, PagesEdit
    <3>2. QED BY <3>1, EditKeeps
  <2>3. QED BY <2>1, <2>2
<1>3. ASSUME NEW w \in Writer,
             \/ Web!StoreRow(w) \/ Web!WriteCacheConfig(w) \/ Web!CacheConfigFails(w)
             \/ Web!ReadPrevious(w) \/ Web!WriteVhost(w) \/ Web!Test(w) \/ Web!PutBack(w)
             \/ Web!UndoRow(w) \/ Web!RestoreZone(w) \/ Web!Reload(w) \/ Web!ReloadFails(w)
             \/ Web!RequestCertificate(w) \/ Web!EnableHTTPS(w) \/ Web!BackToHTTP(w)
      PROVE  WebInv'
  <2>1. webRun[w].at # "idle"
    BY <1>3 DEF Web!StoreRow, Web!WriteCacheConfig, Web!CacheConfigFails, Web!ReadPrevious,
                Web!WriteVhost, Web!Test, Web!PutBack, Web!UndoRow, Web!RestoreZone,
                Web!Reload, Web!ReloadFails, Web!RequestCertificate, Web!EnableHTTPS,
                Web!BackToHTTP
  <2>2. PICK s \in Site : webRun[w].site = s
    BY <2>1, WebAt
  <2>3. CASE Web!StoreRow(w) BY <2>2, <2>3, StoreRowKeeps
  <2>4. CASE Web!WriteCacheConfig(w) BY <2>2, <2>4, WriteCacheConfigKeeps
  <2>5. CASE Web!CacheConfigFails(w) BY <2>2, <2>5, CacheConfigFailsKeeps
  <2>6. CASE Web!ReadPrevious(w) BY <2>2, <2>6, ReadPreviousKeeps
  <2>7. CASE Web!WriteVhost(w) BY <2>2, <2>7, WriteVhostKeeps
  <2>8. CASE Web!Test(w) BY <2>2, <2>8, TestKeeps
  <2>9. CASE Web!PutBack(w) BY <2>2, <2>9, PutBackKeeps
  <2>10. CASE Web!UndoRow(w) BY <2>2, <2>10, UndoRowKeeps
  <2>11. CASE Web!RestoreZone(w) BY <2>2, <2>11, RestoreZoneKeeps
  <2>12. CASE Web!Reload(w) BY <2>2, <2>12, ReloadKeeps
  <2>13. CASE Web!ReloadFails(w) BY <2>2, <2>13, ReloadFailsKeeps
  <2>14. CASE Web!RequestCertificate(w) BY <2>2, <2>14, RequestCertificateKeeps
  <2>15. CASE Web!EnableHTTPS(w) BY <2>2, <2>15, EnableHTTPSKeeps
  <2>16. CASE Web!BackToHTTP(w) BY <2>2, <2>16, BackToHTTPKeeps
  <2>17. QED
    BY <1>3, <2>3, <2>4, <2>5, <2>6, <2>7, <2>8, <2>9, <2>10, <2>11, <2>12, <2>13, <2>14,
       <2>15, <2>16
<1>4. QED BY <1>1, <1>2, <1>3 DEF Web!Next

LEMMA WebBegins == ASSUME Web!WebAssumption, Web!Init PROVE WebInv
<1>1. \A w \in Writer : /\ webRun[w].at = "idle" /\ webRun[w].op = "none"
                        /\ webRun[w].site = "none" /\ ~webRun[w].previous.tls
  BY DEF Web!Init, Web!Idle, Web!NoVhost
<1>2. WebTyped
  <2>1. /\ present = {} /\ zone = {} /\ enabled = {} /\ cert = {} /\ stray = {}
        /\ broken \in BOOLEAN /\ webEdits = 0 /\ troubles = 0
    BY DEF Web!Init
  <2>2. row \in [Site -> Web!Row] /\ vhost \in [Site -> WebVhost] /\ webRun \in [Writer -> WebRun]
    BY WebIdle DEF Web!Init, WebVhost
  <2>3. QED BY <2>1, <2>2 DEF WebTyped, Web!WebAssumption
<1>3. Employed /\ OneWriter /\ ServedIsThere /\ Issued
  BY <1>1 DEF Web!Init, Employed, StepsOf, OneWriter, ServedIsThere, Issued, Web!NoVhost
<1>4. (\A s \in Site : WebRest(s)) /\ \A w \in Writer : WebKept(w)
  BY <1>1 DEF Web!Init, WebRest, WebKept
<1>5. QED BY <1>2, <1>3, <1>4 DEF WebInv

WebFocus == focus = "web" => WebInv

LEMMA WebFirst == Init => WebFocus
<1> SUFFICES ASSUME Init, focus = "web" PROVE WebInv
  BY DEF WebFocus
<1>1. Web!Init
  BY DEF Init
<1>2. QED BY <1>1, PartsAssumption, WebBegins

LEMMA WebStep == WebFocus /\ [Next]_vars => WebFocus'
<1> SUFFICES ASSUME WebFocus, [Next]_vars, focus' = "web" PROVE WebInv'
  BY DEF WebFocus
<1>1. focus = "web" /\ (Web!Next \/ UNCHANGED webVars) /\ WebInv
  BY DEF Next, vars, WebFocus
<1>2. CASE Web!Next
  BY <1>1, <1>2, PartsAssumption, WebNext
<1>3. CASE UNCHANGED webVars
  <2>1. UNCHANGED <<present, row, zone, vhost, enabled, cert, broken, webRun, stray, webEdits, troubles>>
    BY <1>3 DEF webVars
  <2>2. QED
    BY <1>1, <2>1 DEF WebInv, WebTyped, Employed, OneWriter, ServedIsThere, Issued, WebRest,
       WebKept, ToDeploy, HalfWay, OnDisk, Says, Zoned, Agree, Changed, Web!AtRest
<1>4. QED BY <1>1, <1>2, <1>3

\* Of every enabled site nobody is writing, the row, the vhost and the zone
\* file say the same, however many pages, deployments, certificates and removals
\* are under way on other sites, and whichever of them nginx refuses, fail
\* half-way or are cut off (settings.go, SetCache and rewriteVhost; service.go,
\* Deploy and Destroy).
THEOREM SitesAreServedAsSaid == Spec => []RowsOnDisk
<1>1. WebInv => Web!TypeOK /\ Web!RowsOnDisk
  <2> SUFFICES ASSUME WebInv PROVE Web!TypeOK /\ Web!RowsOnDisk
    OBVIOUS
  <2>1. Web!TypeOK
    <3>1. \A s \in Site : vhost[s] = Web!NoVhost \/ vhost[s].value \in Web!Value
      BY DEF WebInv, WebTyped, WebVhost
    <3>2. \A w \in Writer : /\ webRun[w].at \in Web!At /\ webRun[w].op \in Web!Op
                            /\ webRun[w].site \in Site \cup {"none"}
                            /\ {webRun[w].to, webRun[w].before, webRun[w].read} \subseteq Web!Row
      BY WebAt DEF WebRun
    <3>3. QED BY <3>1, <3>2 DEF Web!TypeOK, WebInv, WebTyped
  <2>2. Web!RowsOnDisk
    BY DEF WebInv, WebTyped, WebRest, OnDisk, Says, Zoned, Issued, Web!RowsOnDisk
  <2>3. QED BY <2>1, <2>2
<1>2. WebFocus => RowsOnDisk
  BY <1>1 DEF WebFocus, RowsOnDisk
<1>3. QED BY <1>2, WebFirst, WebStep, PTL DEF Spec
=============================================================================
