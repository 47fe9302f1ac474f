-------------------------------- MODULE Mail --------------------------------
(***************************************************************************)
(* Mail domains and their mailboxes: the pages of web/email.go, the tools  *)
(* of web/mcp_email.go, the rows of store/mail.go and the jobs of          *)
(* internal/mail.                                                          *)
(*                                                                         *)
(* What the panel knows is rows with passwords it can read back; what      *)
(* Postfix, Dovecot and OpenDKIM go by is a table in MariaDB, lines in two *)
(* files and a vhost, all named after the domain and the address and not   *)
(* after the rows.  A page writes the row and pushes a job; the job reads  *)
(* the row when it starts and writes the other side.  Nothing keeps two    *)
(* jobs about one address from running at once.                            *)
(***************************************************************************)
EXTENDS Naturals, FiniteSets, FiniteSetsExt

CONSTANTS
    Name,          \* domain names; every domain has one address
    Within,        \* pairs: the first name is part of the second one's lines
    Password, NoPassword,
    Worker,        \* the queue's ordinary workers
    MaxDomains,    \* bound: domain rows
    MaxBoxes,      \* bound: mailbox rows
    MaxJobs,       \* bound: jobs pushed
    MaxTroubles    \* bound: commands that fail, and deaths of the panel

\* What is assumed of the constants, by the module that gives them values.
MailAssumption ==
    /\ Within \subseteq Name \X Name
    /\ NoPassword \notin Password
    /\ MaxDomains \in Nat /\ MaxBoxes \in Nat /\ MaxJobs \in Nat /\ MaxTroubles \in Nat

Domain == 1..MaxDomains
Box == 1..MaxBoxes

VARIABLES
    domain, box,   \* email_domains and email_accounts
    configured,    \* the setting mail_configured
    registered,    \* virtual_domains
    table,         \* virtual_users: the password each name's address has
    keys,          \* the names with their lines in KeyTable and SigningTable
    served,        \* the names whose mail host and autoconfig have vhosts
    jobs,          \* jobs that wait
    asking,        \* rows written by requests that have yet to push
    run,           \* what each worker is doing
    pushed,        \* jobs pushed
    troubles,
    beside,        \* history: names two jobs were at work on at once
    spoilt,        \* history: names a failing command left something of
    lost           \* history: names a request was cut off for

vars == <<domain, box, configured, registered, table, keys, served, jobs, asking, run,
          pushed, troubles, beside, spoilt, lost>>
rows == <<domain, box>>
machine == <<registered, table, keys, served>>

Status == {"absent", "pending", "active", "failed", "deleting", "removed"}
Kind == {"configure", "create", "delete", "box", "unbox"}
Anyone == CHOOSE n \in Name : TRUE
NoJob == [n |-> 0, kind |-> "configure", id |-> 0]
Idle == [at |-> "idle", job |-> NoJob, word |-> NoPassword, left |-> {}]

TypeOK ==
    /\ \A i \in Domain : /\ domain[i].status \in Status /\ domain[i].hidden \in BOOLEAN
                         /\ domain[i].name \in Name
    /\ \A b \in Box : /\ box[b].status \in Status /\ box[b].hidden \in BOOLEAN
                      /\ box[b].of \in Domain /\ box[b].word \in Password
    /\ configured \in BOOLEAN
    /\ registered \subseteq Name /\ keys \subseteq Name /\ served \subseteq Name
    /\ table \in [Name -> Password \cup {NoPassword}]
    /\ \A n \in Name : table[n] # NoPassword => n \in registered
    /\ \A j \in jobs : j.kind \in Kind /\ j.n \in 1..pushed
    /\ \A a \in asking : a.kind \in Kind
    /\ \A w \in Worker : /\ run[w].at \in {"idle", "load", "schema", "resync", "rewrite",
                                           "register", "key", "serve", "won", "unregister",
                                           "unkey", "unserve", "write", "store", "unlist",
                                           "row"}
                         /\ run[w].word \in Password \cup {NoPassword}
    /\ pushed \in 0..MaxJobs /\ troubles \in 0..MaxTroubles
    /\ beside \subseteq Name /\ spoilt \subseteq Name /\ lost \subseteq Name

\* A mail server that the packages have just brought, or one that is set up.
Init ==
    /\ domain = [i \in Domain |-> [status |-> "absent", hidden |-> FALSE, name |-> Anyone]]
    /\ \E p \in Password : box = [b \in Box |-> [status |-> "absent", hidden |-> FALSE,
                                                 of |-> 1, word |-> p]]
    /\ configured \in BOOLEAN
    /\ registered = {} /\ table = [n \in Name |-> NoPassword] /\ keys = {} /\ served = {}
    /\ jobs = {} /\ asking = {}
    /\ run = [w \in Worker |-> Idle]
    /\ pushed = 0 /\ troubles = 0
    /\ beside = {} /\ spoilt = {} /\ lost = {}
-----------------------------------------------------------------------------
Exists(row) == row.status \notin {"absent", "removed"}
Visible(row) == Exists(row) /\ ~row.hidden

FindEmailDomain(i) == Exists(domain[i])
FindEmailAccount(b) == Exists(box[b])
FindEmailDomainByName(n) == {i \in Domain : Visible(domain[i]) /\ domain[i].name = n}
EmailDomains == {i \in Domain : Visible(domain[i])}
EmailAccounts(i) == {b \in Box : Visible(box[b]) /\ box[b].of = i}

\* The UPDATEs name an id: nothing happens to a row that is gone.
SetEmailDomainStatus(i, to) ==
    domain' = IF FindEmailDomain(i) THEN [domain EXCEPT ![i].status = to] ELSE domain
SetEmailAccountStatus(b, to) ==
    box' = IF FindEmailAccount(b) THEN [box EXCEPT ![b].status = to] ELSE box

\* Both rows' columns are UNIQUE, hidden rows included.
CreateEmailDomain(n) ==
    /\ \A i \in Domain : Exists(domain[i]) => domain[i].name # n
    /\ \E i \in Domain :
          /\ domain[i].status = "absent"
          /\ \A k \in Domain : domain[k].status = "absent" => i <= k
          /\ domain' = [domain EXCEPT ![i] = [status |-> "pending", hidden |-> FALSE, name |-> n]]
          /\ asking' = asking \cup {[kind |-> "create", id |-> i]}

CreateEmailAccount(i, p) ==
    /\ \A b \in Box : Exists(box[b]) => box[b].of # i
    /\ \E b \in Box :
          /\ box[b].status = "absent"
          /\ \A k \in Box : box[k].status = "absent" => b <= k
          /\ box' = [box EXCEPT ![b] = [status |-> "pending", hidden |-> FALSE, of |-> i, word |-> p]]
          /\ asking' = asking \cup {[kind |-> "box", id |-> b]}

MarkEmailDomainDeleted(i) ==
    /\ domain' = [domain EXCEPT ![i].status = "deleting", ![i].hidden = TRUE]
    /\ box' = [b \in Box |-> IF Exists(box[b]) /\ box[b].of = i
                             THEN [box[b] EXCEPT !.status = "deleting", !.hidden = TRUE]
                             ELSE box[b]]

MarkEmailAccountDeleted(b) ==
    box' = [box EXCEPT ![b].status = "deleting", ![b].hidden = TRUE]

Removed(row) == [row EXCEPT !.status = "removed", !.hidden = FALSE]

DeleteEmailDomain(i) ==
    /\ domain' = [domain EXCEPT ![i] = IF Exists(@) THEN Removed(@) ELSE @]
    /\ box' = [b \in Box |-> IF Exists(box[b]) /\ box[b].of = i THEN Removed(box[b]) ELSE box[b]]

DeleteEmailAccount(b) == box' = [box EXCEPT ![b] = IF Exists(@) THEN Removed(@) ELSE @]
-----------------------------------------------------------------------------
(* The requests: each writes its row, and the push is a step of its own.     *)

\* The bound on jobs leaves room for those already asked for.
Request == /\ pushed + Cardinality(asking) < MaxJobs
           /\ UNCHANGED <<configured, machine, jobs, run, pushed, troubles, beside, spoilt, lost>>

Ask(kind, id) == asking' = asking \cup {[kind |-> kind, id |-> id]}

AddDomain == /\ Request /\ configured
             /\ \E n \in Name : FindEmailDomainByName(n) = {} /\ CreateEmailDomain(n)
             /\ UNCHANGED box
emailStoreDomain == AddDomain
mcpCreateEmailDomain == AddDomain

RemoveDomain(i) == Request /\ MarkEmailDomainDeleted(i) /\ Ask("delete", i)
emailDestroyDomain(i) == FindEmailDomain(i) /\ RemoveDomain(i)

\* How a tool finds a domain: by id one that is not being deleted, by name one
\* that is not hidden.
mcpEmailDomain(i) == FindEmailDomain(i) /\ (domain[i].status # "deleting" \/ ~domain[i].hidden)
mcpDeleteEmailDomain(i) == mcpEmailDomain(i) /\ RemoveDomain(i)

RetryDomain(i) == /\ Request /\ SetEmailDomainStatus(i, "pending") /\ Ask("create", i)
                  /\ UNCHANGED box
emailRetryDomain(i) == FindEmailDomain(i) /\ RetryDomain(i)
mcpRetryEmailDomain(i) == mcpEmailDomain(i) /\ RetryDomain(i)

AddMailbox(i) == /\ Request /\ \E p \in Password : CreateEmailAccount(i, p)
                 /\ UNCHANGED domain
emailStoreAccount(i) == FindEmailDomain(i) /\ EmailAccounts(i) = {} /\ AddMailbox(i)

\* A tool names the domain, and wants the mail server to be set up.
mcpCreateMailbox(i) == /\ i \in EmailDomains /\ domain[i].status # "deleting" /\ configured
                       /\ EmailAccounts(i) = {} /\ AddMailbox(i)

SetUpMailbox(b, p) ==
    /\ Request
    /\ box' = [box EXCEPT ![b].word = p, ![b].status = "pending"]
    /\ Ask("box", b)
    /\ UNCHANGED domain

\* A blank password leaves the one there is, and only the name and the quota
\* change; a repair changes nothing.
emailUpdateAccount(b) == /\ FindEmailAccount(b) /\ box[b].status # "deleting"
                         /\ \E p \in Password : SetUpMailbox(b, p)
emailRepairAccount(b) == FindEmailAccount(b) /\ SetUpMailbox(b, box[b].word)

\* By id a tool finds any mailbox whose domain's row is there.
mcpMailbox(b) == FindEmailAccount(b) /\ FindEmailDomain(box[b].of)
mcpSetMailboxPassword(b) == mcpMailbox(b) /\ \E p \in Password : SetUpMailbox(b, p)
mcpUpdateMailbox(b) == mcpMailbox(b) /\ \E p \in Password : SetUpMailbox(b, p)
mcpRepairMailbox(b) == mcpMailbox(b) /\ SetUpMailbox(b, box[b].word)

RemoveMailbox(b) == /\ Request /\ MarkEmailAccountDeleted(b) /\ Ask("unbox", b)
                    /\ UNCHANGED domain
emailDestroyAccount(b) == FindEmailAccount(b) /\ RemoveMailbox(b)
mcpDeleteMailbox(b) == mcpMailbox(b) /\ RemoveMailbox(b)

\* Setting the mail server up, or again: a job of its own, with no row.
Configuring == Request /\ Ask("configure", 0) /\ UNCHANGED rows
emailRepair == Configuring
mcpConfigureMailServer == Configuring

\* At a start: it was never set up, or what the panel writes has changed, or
\* the account that owns the mail is gone (the last two are the machine's).
EnsureMailConfigured == Configuring

Push(a) ==
    /\ a \in asking
    /\ asking' = asking \ {a}
    /\ pushed' = pushed + 1
    /\ jobs' = jobs \cup {[n |-> pushed + 1, kind |-> a.kind, id |-> a.id]}
    /\ UNCHANGED <<rows, configured, machine, run, troubles, beside, spoilt, lost>>
-----------------------------------------------------------------------------
(* The jobs.                                                                 *)

\* The names a job or a request is about.
About(j) == CASE j.kind = "configure" -> Name
              [] j.kind \in {"create", "delete"} -> {domain[j.id].name}
              [] OTHER -> {domain[box[j.id].of].name}

Busy == {w \in Worker : run[w].at # "idle"}
Entry(kind) == IF kind = "configure" THEN "schema" ELSE "load"

Take(w) ==
    /\ run[w].at = "idle"
    /\ \E j \in jobs :
          /\ \A k \in jobs : j.n <= k.n
          /\ jobs' = jobs \ {j}
          /\ run' = [run EXCEPT ![w] = [Idle EXCEPT !.at = Entry(j.kind), !.job = j]]
          /\ beside' = beside \cup UNION {About(j) \cap About(run[v].job) : v \in Busy}
    /\ UNCHANGED <<rows, configured, machine, asking, pushed, troubles, spoilt, lost>>

Id(w) == run[w].job.id
Does(w, kind) == run[w].job.kind = kind
DomainOf(w) == IF Does(w, "create") \/ Does(w, "delete") THEN Id(w) ELSE box[Id(w)].of
NameOf(w) == domain[DomainOf(w)].name

At(w, step) == run[w].at = step
To(w, step) == run' = [run EXCEPT ![w].at = step]
Done(w) == run' = [run EXCEPT ![w] = Idle]
Hurt == troubles < MaxTroubles /\ troubles' = troubles + 1
Fine == UNCHANGED troubles
Quiet == UNCHANGED <<configured, jobs, asking, pushed, beside, lost>>

\* CreateDomain, DeleteDomain, CreateAccount and DeleteAccount: the rows are
\* read here and, but for a domain's, not again.
Load(w) ==
    /\ At(w, "load")
    /\ \/ /\ Does(w, "create") /\ FindEmailDomain(Id(w))
          /\ \/ configured /\ To(w, "register") /\ UNCHANGED domain
             \/ ~configured /\ SetEmailDomainStatus(Id(w), "failed") /\ Done(w)
       \/ Does(w, "delete") /\ FindEmailDomain(Id(w)) /\ To(w, "unregister") /\ UNCHANGED domain
       \/ /\ Does(w, "box") /\ mcpMailbox(Id(w))
          /\ run' = [run EXCEPT ![w].at = "write", ![w].word = box[Id(w)].word]
          /\ UNCHANGED domain
       \/ Does(w, "unbox") /\ mcpMailbox(Id(w)) /\ To(w, "unlist") /\ UNCHANGED domain
       \/ /\ IF Does(w, "create") \/ Does(w, "delete") THEN ~FindEmailDomain(Id(w))
                                                       ELSE ~mcpMailbox(Id(w))
          /\ Done(w) /\ UNCHANGED domain
    /\ Quiet /\ Fine /\ UNCHANGED <<box, machine, spoilt>>

DomainFails(w) == /\ SetEmailDomainStatus(Id(w), "failed") /\ Done(w)
                  /\ UNCHANGED <<registered, keys>>

\* registerDomain, after EnsureSchema: the row is read again.
registerDomain(w) ==
    /\ At(w, "register")
    /\ \/ /\ FindEmailDomain(Id(w)) /\ Fine
          /\ registered' = registered \cup {NameOf(w)}
          /\ To(w, "key") /\ UNCHANGED <<domain, keys>>
       \/ ~FindEmailDomain(Id(w)) /\ DomainFails(w) /\ Fine
       \/ DomainFails(w) /\ Hurt
    /\ Quiet /\ UNCHANGED <<box, table, served, spoilt>>

\* The key pair, its public half in the row, and the two files' lines.
generateDKIM(w) ==
    /\ At(w, "key")
    /\ \/ /\ FindEmailDomain(Id(w)) /\ Fine
          /\ keys' = keys \cup {NameOf(w)}
          /\ To(w, "serve") /\ UNCHANGED <<domain, registered>>
       \/ ~FindEmailDomain(Id(w)) /\ DomainFails(w) /\ Fine
       \/ DomainFails(w) /\ Hurt
    /\ Quiet /\ UNCHANGED <<box, table, served, spoilt>>

\* serveMailHost, secureMailHost and serveAutoconfig: optional, so a domain
\* without them is a domain.
Serve(w) ==
    /\ At(w, "serve") /\ To(w, "won")
    /\ \/ FindEmailDomain(Id(w)) /\ Fine /\ served' = served \cup {NameOf(w)}
       \/ ~FindEmailDomain(Id(w)) /\ Fine /\ UNCHANGED served
       \/ Hurt /\ UNCHANGED served
    /\ Quiet /\ UNCHANGED <<rows, registered, table, keys, spoilt>>

CreateDomain(w) ==
    /\ At(w, "won") /\ Does(w, "create")
    /\ SetEmailDomainStatus(Id(w), "active")
    /\ Done(w)
    /\ Quiet /\ Fine /\ UNCHANGED <<box, machine, spoilt>>

\* The DELETE, whose answer is not looked at; virtual_users goes with it.  A
\* variant that leaves the table to itself.
UnregisterNot(w) ==
    /\ At(w, "unregister") /\ To(w, "unkey")
    /\ Fine /\ Quiet /\ UNCHANGED <<rows, machine, spoilt>>

Unregister(w) ==
    /\ At(w, "unregister") /\ To(w, "unkey")
    /\ \/ /\ Fine
          /\ registered' = registered \ {NameOf(w)}
          /\ table' = [table EXCEPT ![NameOf(w)] = NoPassword]
          /\ UNCHANGED spoilt
       \/ Hurt /\ spoilt' = spoilt \cup {NameOf(w)} /\ UNCHANGED <<registered, table>>
    /\ Quiet /\ UNCHANGED <<rows, keys, served>>

\* sed '/name/d': every line with the name in it.
RemoveKey(w) ==
    /\ At(w, "unkey") /\ To(w, "unserve")
    /\ \/ /\ Fine /\ UNCHANGED spoilt
          /\ keys' = {n \in keys : n # NameOf(w) /\ <<NameOf(w), n>> \notin Within}
       \/ Hurt /\ spoilt' = spoilt \cup {NameOf(w)} /\ UNCHANGED keys
    /\ Quiet /\ UNCHANGED <<rows, registered, table, served>>

RemoveVhosts(w) ==
    /\ At(w, "unserve") /\ To(w, "row")
    /\ \/ Fine /\ served' = served \ {NameOf(w)} /\ UNCHANGED spoilt
       \/ Hurt /\ spoilt' = spoilt \cup {NameOf(w)} /\ UNCHANGED served
    /\ Quiet /\ UNCHANGED <<rows, registered, table, keys>>

\* Every step is optional, so the rows always go.
DeleteDomain(w) ==
    /\ At(w, "row") /\ Does(w, "delete")
    /\ DeleteEmailDomain(Id(w))
    /\ Done(w)
    /\ Quiet /\ Fine /\ UNCHANGED <<machine, spoilt>>

\* The password the job read when it started, and the domain's row with it.
Write(n, p) == /\ registered' = registered \cup {n}
               /\ table' = [table EXCEPT ![n] = p]

writeMailbox(w) ==
    /\ At(w, "write")
    /\ \/ Fine /\ Write(NameOf(w), run[w].word) /\ To(w, "store") /\ UNCHANGED box
       \/ /\ Hurt /\ SetEmailAccountStatus(Id(w), "failed") /\ Done(w)
          /\ UNCHANGED <<registered, table>>
    /\ Quiet /\ UNCHANGED <<domain, keys, served, spoilt>>

\* The mail store and the directory; whether Dovecot lets the mailbox in is
\* asked and does not decide.
CreateAccount(w) ==
    /\ At(w, "store") /\ Done(w)
    /\ \/ Fine /\ SetEmailAccountStatus(Id(w), "active")
       \/ Hurt /\ SetEmailAccountStatus(Id(w), "failed")
    /\ Quiet /\ UNCHANGED <<domain, machine, spoilt>>

Unlist(w) ==
    /\ At(w, "unlist") /\ To(w, "row")
    /\ \/ Fine /\ table' = [table EXCEPT ![NameOf(w)] = NoPassword] /\ UNCHANGED spoilt
       \/ Hurt /\ spoilt' = spoilt \cup {NameOf(w)} /\ UNCHANGED table
    /\ Quiet /\ UNCHANGED <<rows, registered, keys, served>>

\* The stored mail goes or stays, and the row goes.
DeleteAccount(w) ==
    /\ At(w, "row") /\ Does(w, "unbox")
    /\ DeleteEmailAccount(Id(w))
    /\ Done(w)
    /\ Quiet /\ Fine /\ UNCHANGED <<domain, machine, spoilt>>

\* Configure: the tables and every file, then the mailboxes of the domains
\* that are there, one domain after another.
WriteConfigs(w) ==
    /\ At(w, "schema")
    /\ \/ Fine /\ To(w, "resync")
       \/ Hurt /\ Done(w)
    /\ Quiet /\ UNCHANGED <<rows, machine, spoilt>>

ListDomains(w) ==
    /\ At(w, "resync")
    /\ run' = [run EXCEPT ![w].at = "rewrite", ![w].left = EmailDomains]
    /\ Quiet /\ Fine /\ UNCHANGED <<rows, machine, spoilt>>

\* The accounts are read and written for one domain at a time; optional, so a
\* statement that is refused only ends it.
resyncMailboxes(w) ==
    /\ At(w, "rewrite") /\ run[w].left # {}
    /\ LET i == Max(run[w].left)
           n == domain[i].name
       IN  \/ /\ Fine /\ run' = [run EXCEPT ![w].left = @ \ {i}]
              /\ \/ \E b \in EmailAccounts(i) : Write(n, box[b].word)
                 \/ /\ EmailAccounts(i) = {}
                    /\ registered' = registered \cup {n} /\ UNCHANGED table
           \/ Hurt /\ run' = [run EXCEPT ![w].left = {}] /\ UNCHANGED <<registered, table>>
    /\ Quiet /\ UNCHANGED <<rows, keys, served, spoilt>>

Configure(w) ==
    /\ At(w, "rewrite") /\ run[w].left = {}
    /\ configured' = TRUE
    /\ Done(w)
    /\ Fine /\ UNCHANGED <<rows, machine, jobs, asking, pushed, beside, spoilt, lost>>

\* The jobs in hand are put back; what was asked for and not pushed is lost.
Crash ==
    /\ Hurt
    /\ jobs' = jobs \cup {run[w].job : w \in Busy}
    /\ run' = [w \in Worker |-> Idle]
    /\ lost' = lost \cup UNION {About(a) : a \in asking}
    /\ asking' = {}
    /\ UNCHANGED <<rows, configured, machine, pushed, beside, spoilt>>
-----------------------------------------------------------------------------
DomainPages(i) ==
    \/ emailDestroyDomain(i) \/ mcpDeleteEmailDomain(i) \/ emailRetryDomain(i)
    \/ mcpRetryEmailDomain(i) \/ emailStoreAccount(i) \/ mcpCreateMailbox(i)

BoxPages(b) ==
    \/ emailUpdateAccount(b) \/ emailRepairAccount(b) \/ emailDestroyAccount(b)
    \/ mcpSetMailboxPassword(b) \/ mcpUpdateMailbox(b) \/ mcpRepairMailbox(b)
    \/ mcpDeleteMailbox(b)

Work(w) ==
    \/ Take(w) \/ Load(w)
    \/ registerDomain(w) \/ generateDKIM(w) \/ Serve(w) \/ CreateDomain(w)
    \/ Unregister(w) \/ RemoveKey(w) \/ RemoveVhosts(w) \/ DeleteDomain(w)
    \/ writeMailbox(w) \/ CreateAccount(w) \/ Unlist(w) \/ DeleteAccount(w)
    \/ WriteConfigs(w) \/ ListDomains(w) \/ resyncMailboxes(w) \/ Configure(w)

Next ==
    \/ emailStoreDomain \/ mcpCreateEmailDomain
    \/ emailRepair \/ mcpConfigureMailServer \/ EnsureMailConfigured
    \/ \E i \in Domain : DomainPages(i)
    \/ \E b \in Box : BoxPages(b)
    \/ \E a \in asking : Push(a)
    \/ \E w \in Worker : Work(w)
    \/ Crash

Spec == Init /\ [][Next]_vars
-----------------------------------------------------------------------------
AtRest == jobs = {} /\ asking = {} /\ Busy = {}

\* No two jobs met on the name, and no command left anything of it behind.
Undisturbed(n) == n \notin beside \cup spoilt

Gone(n) == \A i \in Domain : domain[i].name = n => ~Exists(domain[i])

\* email.go:508, "The new password works as soon as the mailbox finishes setting
\* itself up again", and domains.go:223, "DeleteDomain removes the domain, its
\* mailboxes, its DKIM key": once everything has run, an active domain is one
\* Postfix takes mail for and OpenDKIM signs for, an active mailbox has the
\* password the panel shows for it, and nothing is left of a domain or a
\* mailbox that is gone.
MailKept == AtRest => \A n \in Name : Undisturbed(n) =>
    /\ \A i \in FindEmailDomainByName(n) :
          /\ domain[i].status = "active" => n \in registered \cap keys
          /\ n \notin lost => domain[i].status # "pending"
          /\ n \notin lost => \A b \in EmailAccounts(i) :
                /\ box[b].status # "pending"
                /\ box[b].status = "active" => table[n] = box[b].word
    /\ Gone(n) => n \notin registered \cup keys \cup served
    /\ (\A b \in Box : domain[box[b].of].name = n => ~Exists(box[b])) => table[n] = NoPassword
    /\ n \notin lost => /\ \A i \in Domain : Exists(domain[i]) /\ domain[i].name = n => ~domain[i].hidden
                        /\ \A b \in Box : Exists(box[b]) /\ domain[box[b].of].name = n => ~box[b].hidden
=============================================================================
