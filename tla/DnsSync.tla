------------------------------- MODULE DnsSync -------------------------------
(***************************************************************************)
(* The records of a site and of a mail domain at a DNS provider:           *)
(* internal/dns/sync.go and the calls of internal/dns/client.go it makes.  *)
(*                                                                         *)
(* Each call is one request and the zone is the provider's: between a      *)
(* listing and the write that follows from it another worker, or the       *)
(* zone's owner, may have changed it.                                      *)
(***************************************************************************)
EXTENDS Integers, Sequences, FiniteSets

CONSTANTS
    Worker,        \* queue workers and requests
    MaxRuns,       \* bound: syncs and removals
    MaxEdits,      \* bound: changes by the zone's owner, and of the aliases
    MaxTroubles    \* bound: requests that fail, deaths of the panel

ZoneAssumption == {MaxRuns, MaxEdits, MaxTroubles} \subseteq Nat

Owner == {"site", "mail"}
Name == {"apex", "www", "mail"}
Address == {"A", "CNAME"}
\* What a record says: this server, the one before it, a policy of this
\* server's or of another, a string somebody verifies the domain by.
Content == {"here", "there", "spf here", "spf there", "verify"}

VARIABLES
    zone,          \* the provider's records
    last,          \* the highest id it has given out
    type,          \* of the site's records
    aliases,       \* the site answers for www, too
    rows,          \* the owners whose row is there
    ids,           \* the ids in the rows; 0 is none
    run,           \* what each worker is doing; stale: what it listed was
                   \* changed by the owner since, or could not all be replaced
    clear,         \* history: the addresses a sync has put right and nobody
                   \* has changed since
    loose,         \* history: the owners a record of which may be left behind:
                   \* a request failed, or two worked on it at the same time
    runs, edits, troubles

vars == <<zone, last, type, aliases, rows, ids, run, clear, loose, runs, edits, troubles>>

NoIds == [n \in Name |-> 0]
Resting == [job |-> "none", of |-> "site", todo |-> <<>>, pc |-> "list", seen |-> {},
            ids |-> NoIds, stale |-> FALSE]
Busy(w) == run[w].job # "none"
BusyOn(o) == \E w \in Worker : Busy(w) /\ run[w].of = o

TypeOK ==
    /\ \A r \in zone : /\ r.id \in 1..last /\ r.name \in Name /\ r.content \in Content
                       /\ r.type \in Address \cup {"TXT"}
    /\ type \in Address /\ aliases \in BOOLEAN /\ rows \subseteq Owner
    /\ ids \in [Owner -> [Name -> 0..last]]
    /\ \A w \in Worker : /\ run[w].job \in {"none", "sync", "remove"} /\ run[w].of \in Owner
                         /\ run[w].seen \subseteq 1..last /\ run[w].ids \in [Name -> 0..last]
                         /\ run[w].pc \in {"list", "write", "claim", "leftovers"}
    /\ clear \subseteq Name /\ loose \subseteq Owner
    /\ runs \in 0..MaxRuns /\ edits \in 0..MaxEdits /\ troubles \in 0..MaxTroubles

Record(i, n, t, c) == [id |-> i, name |-> n, type |-> t, content |-> c]

\* A string that is nobody's here; and, of a domain moved from another host,
\* its address there, twice, an alias at www, and a policy.
Init ==
    /\ type \in Address /\ aliases \in BOOLEAN
    /\ LET old == {Record(2, "apex", "A", "there"), Record(3, "apex", "A", "there"),
                   Record(4, "www", "CNAME", "there"), Record(5, "apex", "TXT", "spf there")} IN
       \E moved \in {{}, old} : zone = moved \cup {Record(1, "apex", "TXT", "verify")}
    /\ last = 5
    /\ rows = Owner /\ ids = [o \in Owner |-> NoIds]
    /\ run = [w \in Worker |-> Resting]
    /\ clear = {} /\ loose = {}
    /\ runs = 0 /\ edits = 0 /\ troubles = 0

Trouble == troubles < MaxTroubles /\ troubles' = troubles + 1
Calm == UNCHANGED troubles
Wanted(o, n) ==
    IF o = "site" THEN Record(0, n, type, "here")
    ELSE IF n = "apex" THEN Record(0, n, "TXT", "spf here") ELSE Record(0, n, "A", "here")

\* A variant that tells records apart by type and name only.
replacesByName(existing, wanted) == existing.type = wanted.type /\ existing.name = wanted.name

TxtKind(content) == IF content = "verify" THEN "txt" ELSE "spf"
replaces(existing, wanted) ==
    /\ existing.type = wanted.type /\ existing.name = wanted.name
    /\ wanted.type = "TXT" => TxtKind(existing.content) = TxtKind(wanted.content)

\* What a mail domain's removal takes away without an id.
ours(r) == \/ r.type = "A" /\ r.name = "mail"
           \/ r.type = "TXT" /\ r.name = "apex" /\ r.content = "spf here"

---------------------------------------------------------------------------
(* The zone's owner, at the provider, and the site's on the Settings tab.  *)

ZoneEdit ==
    /\ edits < MaxEdits /\ edits' = edits + 1
    /\ \E n \in Name :
         /\ \/ \E r \in zone : r.name = n /\ r.type \in Address
                               /\ zone' = (zone \ {r}) \cup {[r EXCEPT !.content = "there"]}
                               /\ UNCHANGED last
            \/ /\ zone' = zone \cup {Record(last + 1, n, "A", "there")} /\ last' = last + 1
         /\ clear' = clear \ {n}
    \* A record of one's own may take the place of the panel's.
    /\ run' = [w \in Worker |-> [run[w] EXCEPT !.stale = Busy(w)]]
    /\ UNCHANGED <<type, aliases, rows, ids, loose, runs, troubles>>

SetAliases ==
    /\ edits < MaxEdits /\ edits' = edits + 1
    /\ aliases' = ~aliases
    /\ UNCHANGED <<zone, last, type, rows, ids, run, clear, loose, runs, troubles>>

---------------------------------------------------------------------------
Names(o) == IF o = "mail" THEN <<"mail", "apex">>
            ELSE IF aliases THEN <<"apex", "www">> ELSE <<"apex">>
Stored(o) == {ids[o][n] : n \in Name} \ {0}

\* The row is read once.
Begin(w, job, o) ==
    /\ ~Busy(w) /\ runs < MaxRuns /\ runs' = runs + 1
    /\ o \in rows
    /\ run' = [run EXCEPT ![w] = [Resting EXCEPT !.job = job, !.of = o, !.ids = ids[o],
                 !.todo = IF job = "sync" THEN Names(o) ELSE <<>>,
                 !.pc = IF job = "sync" THEN "list" ELSE "write",
                 !.seen = IF job = "sync" THEN {} ELSE Stored(o)]]
    /\ loose' = IF BusyOn(o) THEN loose \cup {o} ELSE loose
    /\ UNCHANGED <<zone, last, type, aliases, rows, ids, clear, edits, troubles>>

\* From a job: a deployment, the setting up of a domain, the removal of either.
SyncForSite(w) == Begin(w, "sync", "site")
SyncForMail(w) == Begin(w, "sync", "mail")
RemoveForSite(w) == Begin(w, "remove", "site")
RemoveForMail(w) == Begin(w, "remove", "mail")

\* From a request, whatever jobs are doing.
sitesSyncDNS(w) == SyncForSite(w)
mcpSyncDNS(w) == SyncForSite(w)
emailSyncDNS(w) == SyncForMail(w)
mcpSyncEmailDNS(w) == SyncForMail(w)

rest == <<type, aliases, rows, runs, edits>>
me(w) == run[w].of
Doing(w, job, pc) == run[w].job = job /\ run[w].pc = pc
Syncing(w, pc) == Doing(w, "sync", pc) /\ run[w].todo # <<>>
Wants(w) == Wanted(me(w), Head(run[w].todo))

\* The next name, or the rest of the list when this one could not be written.
NextName(w) == run' = [run EXCEPT ![w].todo = Tail(@), ![w].pc = "list", ![w].seen = {},
                                  ![w].stale = FALSE]

\* matchingRecords: the listing.
ListRecords(w) ==
    /\ Syncing(w, "list")
    /\ \/ run' = [run EXCEPT ![w].pc = "write", ![w].stale = FALSE,
                    ![w].seen = {r.id : r \in {r \in zone : replaces(r, Wants(w))}}]
          /\ Calm
       \/ NextName(w) /\ Trouble
    /\ UNCHANGED <<rest, zone, last, ids, clear, loose>>

Written(w, id, change, whole) ==
    /\ run' = [run EXCEPT ![w].pc = "claim", ![w].ids[Head(run[w].todo)] = id,
                          ![w].stale = @ \/ ~whole]
    /\ zone' = change

\* Upsert: created where there was none; else one is updated in place and the
\* copies are deleted, and one the provider will not delete is left.
CreateRecord(w) ==
    /\ Syncing(w, "write") /\ run[w].seen = {}
    /\ \/ /\ Written(w, last + 1, zone \cup {[Wants(w) EXCEPT !.id = last + 1]}, TRUE)
          /\ last' = last + 1 /\ Calm
       \/ NextName(w) /\ Trouble /\ UNCHANGED <<zone, last>>
    /\ UNCHANGED <<rest, ids, clear, loose>>

UpdateRecord(w) ==
    /\ Syncing(w, "write")
    /\ \E i \in run[w].seen :
         LET there == {r \in zone : r.id = i} IN
         \/ /\ there # {}
            /\ \E stay \in {{}, run[w].seen \ {i}} :
                 /\ Written(w, i, {r \in zone : r.id \notin run[w].seen \/ r.id \in stay}
                                    \cup {[Wants(w) EXCEPT !.id = i]}, stay = {})
                 /\ IF stay = {} THEN Calm /\ UNCHANGED <<loose, clear>>
                    ELSE /\ Trouble /\ loose' = loose \cup {me(w)}
                         /\ clear' = clear \ {Head(run[w].todo)}
         \/ /\ IF there = {} THEN Calm ELSE Trouble
            /\ NextName(w) /\ UNCHANGED <<zone, clear, loose>>
    /\ UNCHANGED <<rest, last, ids>>

\* A variant that leaves the other kinds of address at the name.
ClaimHostNot(w) ==
    /\ Syncing(w, "claim") /\ NextName(w) /\ Calm
    /\ clear' = IF Wants(w).type \in Address /\ ~run[w].stale
                  THEN clear \cup {Head(run[w].todo)} ELSE clear
    /\ UNCHANGED <<rest, zone, last, ids, loose>>

\* ClaimHost: one kind of address at the name, the one just written.
ClaimHost(w) ==
    /\ Syncing(w, "claim") /\ NextName(w)
    /\ LET n == Head(run[w].todo)
           others == {r \in zone : r.name = n /\ r.type \in Address \ {Wants(w).type}}
           left == {r \in zone : r.name = n /\ r.type \in Address /\ r.content # "here"} IN
       \/ /\ Wants(w).type \in Address /\ Calm
          /\ zone' = zone \ others
          /\ clear' = IF run[w].stale THEN clear ELSE clear \cup {n}
       \/ /\ others # {} /\ Wants(w).type \in Address /\ Trouble /\ UNCHANGED zone
          /\ clear' = IF left = {} THEN clear ELSE clear \ {n}
       \/ Wants(w).type = "TXT" /\ Calm /\ UNCHANGED <<zone, clear>>
    /\ UNCHANGED <<rest, last, ids, loose>>

\* SetSiteDNS, SetEmailDomainDNS: all of the ids, over what the row has by now.
SaveIds(w) ==
    /\ run[w].job = "sync" /\ run[w].todo = <<>>
    /\ ids' = [ids EXCEPT ![me(w)] = IF me(w) \in rows THEN run[w].ids ELSE @]
    /\ run' = [run EXCEPT ![w] = Resting]
    /\ UNCHANGED <<rest, zone, last, clear, loose, troubles>>

\* RemoveForSite, RemoveForMail: every id of the row; none stops the rest.
RemoveStored(w) ==
    /\ Doing(w, "remove", "write")
    /\ \E i \in run[w].seen :
         /\ \/ zone' = {r \in zone : r.id # i} /\ Calm /\ UNCHANGED loose
            \/ /\ \E r \in zone : r.id = i
               /\ Trouble /\ UNCHANGED zone /\ loose' = loose \cup {me(w)}
         /\ run' = [run EXCEPT ![w].seen = @ \ {i}]
    /\ UNCHANGED <<rest, last, ids, clear>>

\* The mail domain's are looked for once more by what they say.
RemoveLeftovers(w) ==
    /\ Doing(w, "remove", "write") /\ run[w].seen = {} /\ me(w) = "mail"
    /\ \/ zone' = {r \in zone : ~ours(r)} /\ Calm /\ UNCHANGED loose
       \/ (\E r \in zone : ours(r)) /\ Trouble /\ UNCHANGED zone /\ loose' = loose \cup {"mail"}
    /\ run' = [run EXCEPT ![w].pc = "leftovers"]
    /\ UNCHANGED <<rest, last, ids, clear>>

\* And then the row goes.
RemoveRow(w) ==
    /\ run[w].job = "remove" /\ run[w].seen = {}
    /\ run[w].pc = (IF me(w) = "mail" THEN "leftovers" ELSE "write")
    /\ rows' = rows \ {me(w)}
    /\ run' = [run EXCEPT ![w] = Resting]
    /\ UNCHANGED <<zone, last, type, aliases, ids, clear, loose, runs, edits, troubles>>

\* The panel dies.  What was a job will run again; a request does not.
Crash ==
    /\ Trouble /\ \E w \in Worker : Busy(w)
    /\ loose' = loose \cup {me(w) : w \in {w \in Worker : Busy(w)}}
    /\ run' = [w \in Worker |-> Resting]
    /\ UNCHANGED <<zone, last, type, aliases, rows, ids, clear, runs, edits>>

Next ==
    \/ ZoneEdit \/ SetAliases \/ Crash
    \/ \E w \in Worker :
         \/ SyncForSite(w) \/ sitesSyncDNS(w) \/ mcpSyncDNS(w) \/ RemoveForSite(w)
         \/ SyncForMail(w) \/ emailSyncDNS(w) \/ mcpSyncEmailDNS(w) \/ RemoveForMail(w)
         \/ ListRecords(w) \/ CreateRecord(w) \/ UpdateRecord(w) \/ ClaimHost(w) \/ SaveIds(w)
         \/ RemoveStored(w) \/ RemoveLeftovers(w) \/ RemoveRow(w)

Spec == Init /\ [][Next]_vars

---------------------------------------------------------------------------
\* client.go:1052, "an old AAAA beside the panel's new A sends every visitor
\* with IPv6 to the previous server": an address that a sync has put right
\* answers with nothing that points elsewhere, until somebody changes it at the
\* provider; whatever else runs at the same time.
OldAnswersGone ==
    \A r \in zone : r.name \in clear /\ r.type \in Address => r.content = "here"

\* lifecycle.go:305, "records the panel published are the panel's to take away":
\* when a row is gone none of its records is left, the ones of an alias it no
\* longer had included; if none of its requests failed and no two of its jobs
\* ran side by side.
NothingLeft ==
    \A o \in Owner \ (rows \cup loose) :
        \A r \in zone : ~(\E n \in Name : r.id = ids[o][n]) /\ (o = "mail" => ~(ours(r) /\ r.content # "there"))

\* client.go:743 and sync.go:325, "somebody else's verification record at the
\* same name is not the panel's to delete", nor to write over.
OthersKept == \E r \in zone : r.content = "verify"

DnsKept == TypeOK /\ OldAnswersGone /\ NothingLeft /\ OthersKept
=============================================================================
