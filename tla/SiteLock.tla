------------------------------ MODULE SiteLock ------------------------------
(***************************************************************************)
(* The lock of a site's files: internal/security/lock.go and the part of   *)
(* internal/web/hardening.go that drives it.                               *)
(*                                                                         *)
(* Locking hands the files to root after writing down whose they were;     *)
(* that record is the only way back, and its existence is what "locked"    *)
(* means.  A job unlocks the site it works on and locks it again; the page *)
(* locks and unlocks; a clock locks again what was unlocked for a while.   *)
(* The mutex covers each locking and unlocking, and not a job's work.      *)
(***************************************************************************)
EXTENDS Naturals

CONSTANTS
    Site,
    Job,           \* the workers that may run a job of a site
    MaxFails,      \* bound: chown commands that fail
    MaxCrashes     \* bound: deaths of the panel

\* What is assumed of the constants, by the module that gives them values.
LockAssumption == /\ Site # {} /\ Job \cap {"page", "clock", "free"} = {}
                  /\ MaxFails \in Nat /\ MaxCrashes \in Nat

Page == "page"
Clock == "clock"
Actor == Job \cup {Page, Clock}
Free == "free"

VARIABLES
    files,         \* "own": each with its owner; "taken": root's, all or some
    record,        \* "none", "owners", or "useless": a list of what root owned
    wanted,        \* the setting, one JSON map: "open", "locked", "timed"
    mutex,         \* who holds locksMutex
    at, then,      \* where each actor is, and where it goes after the chown
    site,          \* the site each actor is about
    ask,           \* what the page is to save
    seen,          \* the map the page and the clock have read
    left,          \* the sites the clock has not come to yet
    relisted,      \* history: the sites a job locked over an existing record
    fails, crashes

vars == <<files, record, wanted, mutex, at, then, site, ask, seen, left,
          relisted, fails, crashes>>

Want == {"open", "locked", "timed"}
Step == {"idle", "found", "bare", "work", "relock", "list", "chown",
         "restore", "forget", "save", "scan", "mark"}

TypeOK ==
    /\ files \in [Site -> {"own", "taken"}]
    /\ record \in [Site -> {"none", "owners", "useless"}]
    /\ wanted \in [Site -> Want]
    /\ mutex \in Actor \cup {Free}
    /\ at \in [Actor -> Step] /\ then \in [Actor -> Step]
    /\ site \in [Actor -> Site]
    /\ ask \in Want
    /\ seen \in [{Page, Clock} -> [Site -> Want]]
    /\ left \subseteq Site /\ relisted \subseteq Site
    /\ fails \in 0..MaxFails /\ crashes \in 0..MaxCrashes

AllOpen == [s \in Site |-> "open"]
Anywhere == CHOOSE s \in Site : TRUE     \* the site of an actor at rest

Rest ==
    /\ mutex = Free
    /\ at = [a \in Actor |-> "idle"] /\ then = [a \in Actor |-> "idle"]
    /\ site = [a \in Actor |-> Anywhere]
    /\ ask = "open" /\ left = {}
    /\ seen = [a \in {Page, Clock} |-> AllOpen]

Init ==
    /\ files = [s \in Site |-> "own"] /\ record = [s \in Site |-> "none"]
    /\ wanted = AllOpen
    /\ Rest
    /\ relisted = {} /\ fails = 0 /\ crashes = 0

SiteLocked(s) == record[s] # "none"

Goto(a, step) == at' = [at EXCEPT ![a] = step]

\* Where an actor goes when its locking or unlocking is over.  The page keeps
\* the mutex for the whole request (defer), the others give it back.
Leave(a, step) ==
    /\ at' = [at EXCEPT ![a] = step] /\ then' = [then EXCEPT ![a] = "idle"]
    /\ mutex' = IF a = Page /\ step # "idle" THEN mutex ELSE Free

---------------------------------------------------------------------------
(* LockSite: list the owners into the record, then chown.                  *)

List(a) ==
    /\ at[a] = "list"
    /\ record' = [record EXCEPT ![site[a]] =
                    IF files[site[a]] = "own" THEN "owners" ELSE "useless"]
    /\ Goto(a, "chown")
    /\ UNCHANGED <<files, wanted, mutex, then, site, ask, seen, left, relisted, fails, crashes>>

Take(a) ==
    /\ at[a] = "chown"
    /\ files' = [files EXCEPT ![site[a]] = "taken"]
    /\ Leave(a, then[a])
    /\ UNCHANGED <<record, wanted, site, ask, seen, left, relisted, fails, crashes>>

\* The chown stopped half-way: LockSite undoes it through UnlockSite, and
\* returns the error.
TakeFails(a) ==
    /\ at[a] = "chown" /\ fails < MaxFails
    /\ fails' = fails + 1
    /\ files' = [files EXCEPT ![site[a]] = "taken"]
    /\ at' = [at EXCEPT ![a] = "restore"]
    /\ then' = [then EXCEPT ![a] = IF a = Clock THEN "scan" ELSE "idle"]
    /\ UNCHANGED <<record, wanted, mutex, site, ask, seen, left, relisted, crashes>>

(* UnlockSite: chown by the record, then remove the record.                *)

Restore(a) ==
    /\ at[a] = "restore"
    /\ files' = [files EXCEPT ![site[a]] =
                   IF record[site[a]] = "owners" THEN "own" ELSE @]
    /\ Goto(a, "forget")
    /\ UNCHANGED <<record, wanted, mutex, then, site, ask, seen, left, relisted, fails, crashes>>

\* A variant that removes the record even when the files were not returned.
RestoreFailsForgets(a) ==
    /\ at[a] = "restore" /\ fails < MaxFails
    /\ fails' = fails + 1
    /\ Goto(a, "forget")
    /\ UNCHANGED <<files, record, wanted, mutex, then, site, ask, seen, left, relisted, crashes>>

RestoreFails(a) ==
    /\ at[a] = "restore" /\ fails < MaxFails
    /\ fails' = fails + 1
    /\ Leave(a, IF a = Clock THEN "scan" ELSE "idle")
    /\ UNCHANGED <<files, record, wanted, site, ask, seen, left, relisted, crashes>>

Forget(a) ==
    /\ at[a] = "forget"
    /\ record' = [record EXCEPT ![site[a]] = "none"]
    /\ Leave(a, then[a])
    /\ UNCHANGED <<files, wanted, site, ask, seen, left, relisted, fails, crashes>>

---------------------------------------------------------------------------
(* withSiteUnlocked: deploy, restore, push, pull, PHP version, delete.     *)

JobBegin(j, s) ==
    /\ at[j] = "idle"
    /\ site' = [site EXCEPT ![j] = s]
    /\ Goto(j, IF SiteLocked(s) THEN "found" ELSE "bare")
    /\ UNCHANGED <<files, record, wanted, mutex, then, ask, seen, left, relisted, fails, crashes>>

\* Without a record UnlockSite fails, and the job with it.
JobUnlock(j) ==
    /\ at[j] = "found" /\ mutex = Free
    /\ IF SiteLocked(site[j])
         THEN /\ mutex' = j
              /\ at' = [at EXCEPT ![j] = "restore"]
              /\ then' = [then EXCEPT ![j] = "work"]
         ELSE Goto(j, "idle") /\ UNCHANGED <<mutex, then>>
    /\ UNCHANGED <<files, record, wanted, site, ask, seen, left, relisted, fails, crashes>>

\* A job that leaves the site behind locks it again if the setting says so;
\* deleting a site does not.
JobDone(j) ==
    /\ at[j] \in {"work", "bare"}
    /\ \E relock \in BOOLEAN :
         Goto(j, IF at[j] = "work" /\ relock /\ wanted[site[j]] = "locked"
                 THEN "relock" ELSE "idle")
    /\ UNCHANGED <<files, record, wanted, mutex, then, site, ask, seen, left, relisted, fails, crashes>>

JobRelock(j) ==
    /\ at[j] = "relock" /\ mutex = Free
    /\ mutex' = j
    /\ Goto(j, "list")
    /\ relisted' = IF SiteLocked(site[j]) THEN relisted \cup {site[j]} ELSE relisted
    /\ UNCHANGED <<files, record, wanted, then, site, ask, seen, left, fails, crashes>>

---------------------------------------------------------------------------
(* securityLock, the whole of it under the mutex.                          *)

PageBegin(s, want) ==
    /\ at[Page] = "idle" /\ mutex = Free
    /\ mutex' = Page
    /\ site' = [site EXCEPT ![Page] = s]
    /\ ask' = want
    /\ seen' = [seen EXCEPT ![Page] = wanted]
    /\ LET step == IF want = "locked" THEN "list" ELSE "restore"
       IN  IF SiteLocked(s) = (want = "locked")
           THEN Goto(Page, "save") /\ UNCHANGED then
           ELSE /\ at' = [at EXCEPT ![Page] = step]
                /\ then' = [then EXCEPT ![Page] = "save"]
    /\ UNCHANGED <<files, record, wanted, left, relisted, fails, crashes>>

PageSave ==
    /\ at[Page] = "save"
    /\ wanted' = [seen[Page] EXCEPT ![site[Page]] = ask]
    /\ Leave(Page, "idle")
    /\ UNCHANGED <<files, record, site, ask, seen, left, relisted, fails, crashes>>

---------------------------------------------------------------------------
(* checkLocks, every minute: the map is read and saved outside the mutex.  *)

ClockBegin ==
    /\ at[Clock] = "idle" /\ wanted # AllOpen
    /\ seen' = [seen EXCEPT ![Clock] = wanted]
    /\ left' = Site
    /\ Goto(Clock, "scan")
    /\ UNCHANGED <<files, record, wanted, mutex, then, site, ask, relisted, fails, crashes>>

\* The thirty minutes of s are up.
ClockRelock(s) ==
    /\ at[Clock] = "scan" /\ mutex = Free
    /\ s \in left /\ seen[Clock][s] = "timed"
    /\ left' = left \ {s}
    /\ site' = [site EXCEPT ![Clock] = s]
    /\ IF SiteLocked(s)
         THEN Goto(Clock, "mark") /\ UNCHANGED <<mutex, then>>
         ELSE /\ mutex' = Clock
              /\ at' = [at EXCEPT ![Clock] = "list"]
              /\ then' = [then EXCEPT ![Clock] = "mark"]
    /\ UNCHANGED <<files, record, wanted, ask, seen, relisted, fails, crashes>>

ClockMark ==
    /\ at[Clock] = "mark"
    /\ seen' = [seen EXCEPT ![Clock][site[Clock]] = "locked"]
    /\ Goto(Clock, "scan")
    /\ UNCHANGED <<files, record, wanted, mutex, then, site, ask, left, relisted, fails, crashes>>

\* The other sites' minutes are not up; the map is saved if it was changed.
\* (Any site visited and marked is out of left.)
ClockSave ==
    /\ at[Clock] = "scan"
    /\ wanted' = IF \E s \in Site \ left : seen[Clock][s] = "locked"
                 THEN seen[Clock] ELSE wanted
    /\ left' = {}
    /\ Goto(Clock, "idle")
    /\ UNCHANGED <<files, record, mutex, then, site, ask, seen, relisted, fails, crashes>>

---------------------------------------------------------------------------
\* The panel dies: what is in memory goes, files, records and setting stay.
Crash ==
    /\ crashes < MaxCrashes
    /\ crashes' = crashes + 1
    /\ mutex' = Free
    /\ at' = [a \in Actor |-> "idle"] /\ then' = [a \in Actor |-> "idle"]
    /\ site' = [a \in Actor |-> Anywhere]
    /\ ask' = "open" /\ left' = {}
    /\ seen' = [a \in {Page, Clock} |-> AllOpen]
    \* A chown that was running may have taken some of the files.
    /\ \E part \in SUBSET {s \in Site : \E a \in Actor : at[a] = "chown" /\ site[a] = s} :
         files' = [s \in Site |-> IF s \in part THEN "taken" ELSE files[s]]
    /\ UNCHANGED <<record, wanted, relisted, fails>>

Next ==
    \/ \E a \in Actor : List(a) \/ Take(a) \/ TakeFails(a)
                        \/ Restore(a) \/ RestoreFails(a) \/ Forget(a)
    \/ \E j \in Job : \/ \E s \in Site : JobBegin(j, s)
                      \/ JobUnlock(j) \/ JobDone(j) \/ JobRelock(j)
    \/ \E s \in Site, want \in Want : PageBegin(s, want)
    \/ PageSave
    \/ ClockBegin \/ (\E s \in Site : ClockRelock(s)) \/ ClockMark \/ ClockSave
    \/ Crash

Spec == Init /\ [][Next]_vars

---------------------------------------------------------------------------
\* Whatever root has taken can be given back: a record made before the files
\* were taken exists until after they are returned, through every failing
\* command and every crash.  The one exception is a site a job locked over
\* the record of somebody else: lock.go:72, "The record first: without it,
\* unlocking cannot put the owners back", is about one locking at a time.
OwnersKept ==
    \A s \in Site : files[s] = "taken" /\ s \notin relisted => record[s] = "owners"
=============================================================================
