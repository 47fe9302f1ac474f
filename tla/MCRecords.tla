------------------------------ MODULE MCRecords ------------------------------
(***************************************************************************)
(* What the panel's rows say of something kept elsewhere, for TLC: the     *)
(* staging copy of a site, the repository it is deployed from, its records *)
(* at a DNS provider, the credentials they are written with, the accounts  *)
(* of a database, the cookies of a browser and what the owner is told of   *)
(* who signed in.  As in MCMachine focus chooses one of the parts.         *)
(***************************************************************************)
EXTENDS Integers, Sequences, FiniteSets, TLC

CONSTANTS
    Worker,                                           \* of the queue, and requests
    MaxJobs, MaxVersion,                              \* Staging
    MaxCommit, MaxAsked,                              \* GitDeploy
    MaxRuns,                                          \* DnsSync
    Db, MaxAddress, MaxPassword,                      \* Databases
    Browser, MaxId, MaxStep, MaxSent,                 \* Sessions
    Visitor, Limit, Window, Cooldown, MaxTime, MaxHappened, MaxLooked,      \* Alerts
    MaxEdits, MaxTroubles                             \* bounds of more than one

VARIABLES
    focus,
    siteKind, files, db, siteStatus, ssl, answers, saved, siteJobs, asking, push, staged,
    wish, had, redeployed, spoiled, siteAsked, version, siteTroubles,
    kind, head, source, method, key, readable, schedule, due, secret, deployed, recorded,
    tree, served, jobs, builds, look, pulls, edits, buildTroubles, excused,
    zone, highest, type, aliases, owners, ids, sync, clear, loose, runs, zoneEdits, zoneTroubles,
    status, password, access, accounts, listens, rules, applied, moved, run, holder,
    dbJobs, starting, unsynced, besides, leaked, asked, troubles,
    rows, made, confirmed, last, cookie, xsrf, req, gone, wins, signed, sent,
    now, attempts, lastId, trying, lines, ssh, failures, wanted, cursor, critical, sshChecked,
    taskChecked, mailed, pc, batch, latest, found, seen, told, locks, open, fresh, untold, happened,
    account, uses, valid, requests, answered, crossed, stray, called, upsets

Pair == INSTANCE Staging WITH
            kind <- siteKind, status <- siteStatus, served <- answers, jobs <- siteJobs,
            run <- push, asked <- siteAsked, troubles <- siteTroubles
Git == INSTANCE GitDeploy WITH
           status <- deployed, run <- builds, asked <- pulls, troubles <- buildTroubles
Zone == INSTANCE DnsSync WITH
            last <- highest, rows <- owners, run <- sync, edits <- zoneEdits,
            troubles <- zoneTroubles
Accounts == INSTANCE Databases WITH jobs <- dbJobs
Cookies == INSTANCE Sessions WITH Request <- Worker
Watch == INSTANCE Alerts WITH
             Attempt <- Worker, Address <- Visitor, rows <- attempts, excused <- untold
Keys == INSTANCE DnsAccounts WITH
            Account <- Db, Token <- Visitor, run <- requests, asked <- called,
            MaxAsked <- MaxHappened, MaxUpsets <- MaxTroubles

ASSUME GitAssumption == Git!GitAssumption
ASSUME ZoneAssumption == Zone!ZoneAssumption
ASSUME PairAssumption == Pair!StagingAssumption
ASSUME Watch!LimitAssumption
ASSUME CookiesAssumption == Cookies!SessionsAssumption
ASSUME CredentialsAssumption == Keys!KeysAssumption
ASSUME DbAssumption == Accounts!DatabasesAssumption

pairVars == <<siteKind, files, db, siteStatus, ssl, answers, saved, siteJobs, asking, push,
              staged, wish, had, redeployed, spoiled, siteAsked, version, siteTroubles>>
gitVars == <<kind, head, source, method, key, readable, schedule, due, secret, deployed,
             recorded, tree, served, jobs, builds, look, pulls, edits, buildTroubles, excused>>
zoneVars == <<zone, highest, type, aliases, owners, ids, sync, clear, loose, runs, zoneEdits,
              zoneTroubles>>
accountVars == <<status, password, access, accounts, listens, rules, applied, moved, run,
                 holder, dbJobs, starting, unsynced, besides, leaked, asked, troubles>>
cookieVars == <<rows, made, confirmed, last, cookie, xsrf, req, gone, wins, signed, sent>>
watchVars == <<now, attempts, lastId, trying, lines, ssh, failures, wanted, cursor, critical,
               sshChecked, taskChecked, mailed, pc, batch, latest, found, seen, told, locks, open,
               fresh, untold, happened>>
keyVars == <<account, uses, valid, requests, answered, crossed, stray, called, upsets>>
vars == <<focus, pairVars, gitVars, zoneVars, accountVars, cookieVars, watchVars, keyVars>>

\* The parts that stand still are nothing.
Init ==
    /\ focus \in {"pair", "git", "zone", "accounts", "cookies", "watch", "keys"}
    /\ IF focus = "pair" THEN Pair!Init ELSE
        /\ siteKind = 0 /\ files = 0 /\ db = 0 /\ siteStatus = 0 /\ ssl = 0 /\ answers = 0
        /\ saved = 0 /\ siteJobs = 0 /\ asking = 0 /\ push = 0 /\ staged = 0 /\ wish = 0
        /\ had = 0 /\ redeployed = 0 /\ spoiled = 0 /\ siteAsked = 0 /\ version = 0
        /\ siteTroubles = 0
    /\ IF focus = "git" THEN Git!Init ELSE
        /\ kind = 0 /\ head = 0 /\ source = 0 /\ method = 0 /\ key = 0 /\ readable = 0
        /\ schedule = 0 /\ due = 0 /\ secret = 0 /\ deployed = 0 /\ recorded = 0
        /\ tree = 0 /\ served = 0 /\ jobs = 0 /\ builds = 0 /\ look = 0 /\ pulls = 0
        /\ edits = 0 /\ buildTroubles = 0 /\ excused = 0
    /\ IF focus = "zone" THEN Zone!Init ELSE
        /\ zone = 0 /\ highest = 0 /\ type = 0 /\ aliases = 0 /\ owners = 0 /\ ids = 0
        /\ sync = 0 /\ clear = 0 /\ loose = 0 /\ runs = 0 /\ zoneEdits = 0
        /\ zoneTroubles = 0
    /\ IF focus = "accounts" THEN Accounts!Init ELSE
        /\ status = 0 /\ password = 0 /\ access = 0 /\ accounts = 0 /\ listens = 0
        /\ rules = 0 /\ applied = 0 /\ moved = 0 /\ run = 0 /\ holder = 0 /\ dbJobs = 0
        /\ starting = 0 /\ unsynced = 0 /\ besides = 0 /\ leaked = 0 /\ asked = 0
        /\ troubles = 0
    /\ IF focus = "cookies" THEN Cookies!Init ELSE
        /\ rows = 0 /\ made = 0 /\ confirmed = 0 /\ last = 0 /\ cookie = 0 /\ xsrf = 0
        /\ req = 0 /\ gone = 0 /\ wins = 0 /\ signed = 0 /\ sent = 0
    /\ IF focus = "watch" THEN Watch!Init ELSE
        /\ now = 0 /\ attempts = 0 /\ lastId = 0 /\ trying = 0 /\ lines = 0 /\ ssh = 0
        /\ failures = 0 /\ wanted = 0 /\ cursor = 0 /\ critical = 0 /\ sshChecked = 0
        /\ taskChecked = 0 /\ mailed = 0 /\ pc = 0 /\ batch = 0 /\ latest = 0 /\ found = 0
        /\ seen = 0 /\ told = 0 /\ locks = 0 /\ open = 0 /\ fresh = 0 /\ untold = 0
        /\ happened = 0
    /\ IF focus = "keys" THEN Keys!Init ELSE
        /\ account = 0 /\ uses = 0 /\ valid = 0 /\ requests = 0 /\ answered = 0
        /\ crossed = 0 /\ stray = 0 /\ called = 0 /\ upsets = 0

Next ==
    \/ focus = "pair" /\ Pair!Next
       /\ UNCHANGED <<focus, gitVars, zoneVars, accountVars, cookieVars, watchVars, keyVars>>
    \/ focus = "git" /\ Git!Next
       /\ UNCHANGED <<focus, pairVars, zoneVars, accountVars, cookieVars, watchVars, keyVars>>
    \/ focus = "zone" /\ Zone!Next
       /\ UNCHANGED <<focus, pairVars, gitVars, accountVars, cookieVars, watchVars, keyVars>>
    \/ focus = "accounts" /\ Accounts!Next
       /\ UNCHANGED <<focus, pairVars, gitVars, zoneVars, cookieVars, watchVars, keyVars>>
    \/ focus = "cookies" /\ Cookies!Next
       /\ UNCHANGED <<focus, pairVars, gitVars, zoneVars, accountVars, watchVars, keyVars>>
    \/ focus = "watch" /\ Watch!Next
       /\ UNCHANGED <<focus, pairVars, gitVars, zoneVars, accountVars, cookieVars, keyVars>>
    \/ focus = "keys" /\ Keys!Next
       /\ UNCHANGED <<focus, pairVars, gitVars, zoneVars, accountVars, cookieVars, watchVars>>

Spec == Init /\ [][Next]_vars

\* A part has workers and at most one of the other sets: exchanging all of those
\* at once is as good as each by itself, and far fewer permutations.
Exchange == {p \in Permutations(Db \cup Browser \cup Visitor) :
                \A set \in {Db, Browser, Visitor} : \A x \in set : p[x] \in set \ {x}}
Symmetry == Permutations(Worker) \cup Exchange

\* The properties of the parts, each stated in its module with its types.
PairKept == focus = "pair" => Pair!PairKept
HeadIsServed == focus = "git" => Git!HeadIsServed
DnsKept == focus = "zone" => Zone!DnsKept
AccessKept == focus = "accounts" => Accounts!AccessKept
SessionsKept == focus = "cookies" => Cookies!SessionsKept
AlertsKept == focus = "watch" => Watch!AlertsKept
AccountsKept == focus = "keys" => Keys!AccountsKept
=============================================================================
