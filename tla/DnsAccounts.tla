---------------------------- MODULE DnsAccounts -----------------------------
(***************************************************************************)
(* The credentials of DNS providers and the sites and mail domains that    *)
(* name one: internal/store/dns_account.go, the pages of                   *)
(* internal/web/dns.go, the tools of mcp_dns.go, and the forms that choose *)
(* a credential.  A request asks the provider between what it reads and    *)
(* what it writes, for up to half a minute an account, and the tables have *)
(* no foreign key.                                                         *)
(***************************************************************************)
EXTENDS Naturals

CONSTANTS
    Worker,        \* requests at the same time
    Account,       \* ids of credentials, each given out once
    Token,         \* secrets at the provider
    MaxAsked,      \* bound: requests
    MaxUpsets      \* bound: secrets the provider takes back, deaths of the panel

Owner == {"site", "mail"}
None == "none"
Absent == "absent"

KeysAssumption == /\ {None, Absent} \cap Account = {} /\ None \notin Token
                  /\ MaxAsked \in Nat /\ MaxUpsets \in Nat

VARIABLES
    account,       \* the rows of dns_accounts
    uses,          \* what dns_account_id of each owner's row says
    valid,         \* the secrets the provider accepts
    run,           \* what each request is doing
    answered,      \* history: the secrets the provider has accepted when asked
    crossed,       \* history: credentials replaced while one was being tried
    stray,         \* history: owners stored with a credential that was going
    asked, upsets

vars == <<account, uses, valid, run, answered, crossed, stray, asked, upsets>>

Nobody == [state |-> "none", token |-> None, verified |-> FALSE]
Resting == [job |-> "none", at |-> "idle", of |-> None, owner |-> "site", token |-> None,
            answer |-> FALSE, crossed |-> FALSE]

TypeOK ==
    /\ \A a \in Account : /\ account[a].state \in {"none", "there", "gone"}
                          /\ account[a].token \in Token \cup {None}
                          /\ account[a].verified \in BOOLEAN
    /\ uses \in [Owner -> Account \cup {None, Absent}]
    /\ valid \cup answered \subseteq Token
    /\ \A w \in Worker :
        /\ run[w].job \in {"none", "connect", "update", "verify", "delete", "form"}
        /\ run[w].at \in {"idle", "ask", "insert", "mark", "write", "sites", "mail", "row"}
        /\ run[w].of \in Account \cup {None} /\ run[w].owner \in Owner
        /\ run[w].token \in Token \cup {None}
    /\ crossed \subseteq Account /\ stray \subseteq Owner
    /\ asked \in 0..MaxAsked /\ upsets \in 0..MaxUpsets

There(a) == account[a].state = "there"
Request(w, r) ==
    /\ run[w].job = "none"
    /\ asked < MaxAsked /\ asked' = asked + 1
    /\ run' = [run EXCEPT ![w] = r]
Doing(w, job, at) == run[w].job = job /\ run[w].at = at
Over(w) == run' = [run EXCEPT ![w] = Resting]
Step(w, at) == run' = [run EXCEPT ![w] = [@ EXCEPT !.at = at]]

-----------------------------------------------------------------------------
(* Connecting, changing and trying a credential.                           *)

\* dnsStore, mcpConnectDNSAccount: tried before it is stored.
dnsStore(w, t) ==
    /\ Request(w, [Resting EXCEPT !.job = "connect", !.at = "ask", !.token = t])
    /\ UNCHANGED <<account, uses, valid, answered, crossed, stray, upsets>>
mcpConnectDNSAccount(w, t) == dnsStore(w, t)

TryNew(w) ==
    /\ Doing(w, "connect", "ask")
    /\ IF run[w].token \in valid
       THEN Step(w, "insert") /\ answered' = answered \cup {run[w].token}
       ELSE Over(w) /\ UNCHANGED answered
    /\ UNCHANGED <<account, uses, valid, crossed, stray, asked, upsets>>

CreateDNSAccount(w) ==
    /\ Doing(w, "connect", "insert")
    /\ \E a \in Account :
        /\ account[a].state = "none"
        /\ account' = [account EXCEPT ![a] = [state |-> "there", token |-> run[w].token,
                                              verified |-> FALSE]]
        /\ run' = [run EXCEPT ![w] = [@ EXCEPT !.at = "mark", !.of = a, !.answer = TRUE]]
    /\ UNCHANGED <<uses, valid, answered, crossed, stray, asked, upsets>>

dnsVerify(w, a) ==
    /\ There(a)
    /\ Request(w, [Resting EXCEPT !.job = "verify", !.at = "ask", !.of = a,
                                  !.token = account[a].token])
    /\ UNCHANGED <<account, uses, valid, answered, crossed, stray, upsets>>
mcpVerifyDNSAccount(w, a) == dnsVerify(w, a)

Verify(w) ==
    /\ Doing(w, "verify", "ask")
    /\ run' = [run EXCEPT ![w] = [@ EXCEPT !.at = "mark", !.answer = run[w].token \in valid]]
    /\ answered' = answered \cup ({run[w].token} \cap valid)
    /\ UNCHANGED <<account, uses, valid, crossed, stray, asked, upsets>>

\* By the id alone: whichever secret the row has by now.
MarkDNSAccountVerified(w) ==
    /\ run[w].job \in {"connect", "verify"} /\ run[w].at = "mark"
    /\ account' = IF There(run[w].of)
                  THEN [account EXCEPT ![run[w].of] = [@ EXCEPT !.verified = run[w].answer]]
                  ELSE account
    /\ crossed' = IF run[w].crossed /\ There(run[w].of) THEN crossed \cup {run[w].of} ELSE crossed \ {run[w].of}
    /\ Over(w)
    /\ UNCHANGED <<uses, valid, answered, stray, asked, upsets>>

\* A blank secret keeps the stored one.
dnsUpdate(w, a, t) ==
    /\ There(a)
    /\ Request(w, [Resting EXCEPT !.job = "update", !.at = "write", !.of = a, !.token = t])
    /\ UNCHANGED <<account, uses, valid, answered, crossed, stray, upsets>>
mcpUpdateDNSAccount(w, a, t) == dnsUpdate(w, a, t)

\* The variant to break it: the new secret is taken for verified like the old.
UpdateDNSAccountKeepsVerified(w) ==
    /\ Doing(w, "update", "write")
    /\ account' = IF There(run[w].of) /\ run[w].token # None
                  THEN [account EXCEPT ![run[w].of].token = run[w].token] ELSE account
    /\ Over(w)
    /\ UNCHANGED <<uses, valid, answered, crossed, stray, asked, upsets>>

\* A new secret was never tried; a try under way is of the one before it.
UpdateDNSAccount(w) ==
    /\ Doing(w, "update", "write")
    /\ LET a == run[w].of IN
       IF There(a) /\ run[w].token # None
       THEN /\ account' = [account EXCEPT ![a] = [@ EXCEPT !.token = run[w].token,
                                                              !.verified = FALSE]]
            /\ crossed' = crossed \ {a}
            /\ run' = [v \in Worker |->
                         IF v = w THEN Resting
                         ELSE [run[v] EXCEPT !.crossed = @ \/ (run[v].of = a /\
                                              run[v].job \in {"verify", "connect"})]]
       ELSE Over(w) /\ UNCHANGED <<account, crossed>>
    /\ UNCHANGED <<uses, valid, answered, stray, asked, upsets>>

-----------------------------------------------------------------------------
(* Removing one, and the rows that name it.                                *)

dnsDestroy(w, a) ==
    /\ There(a)
    /\ Request(w, [Resting EXCEPT !.job = "delete", !.at = "sites", !.of = a])
    /\ UNCHANGED <<account, uses, valid, answered, crossed, stray, upsets>>
mcpDeleteDNSAccount(w, a) == dnsDestroy(w, a)

Unlink(w, o) == uses' = IF uses[o] = run[w].of THEN [uses EXCEPT ![o] = None] ELSE uses

ClearSites(w) ==
    /\ Doing(w, "delete", "sites") /\ Unlink(w, "site") /\ Step(w, "mail")
    /\ UNCHANGED <<account, valid, answered, crossed, stray, asked, upsets>>

ClearMail(w) ==
    /\ Doing(w, "delete", "mail") /\ Unlink(w, "mail") /\ Step(w, "row")
    /\ UNCHANGED <<account, valid, answered, crossed, stray, asked, upsets>>

DeleteDNSAccount(w) ==
    /\ Doing(w, "delete", "row")
    /\ account' = [account EXCEPT ![run[w].of] = [Nobody EXCEPT !.state = "gone"]]
    /\ Over(w)
    /\ UNCHANGED <<uses, valid, answered, crossed, stray, asked, upsets>>

\* A form finds the credential, and asks its provider for the domain's zone: one
\* that has none publishes nothing.  A copy takes its site's.
Choose(w, o, a) ==
    /\ uses[o] = Absent /\ There(a)
    /\ Request(w, [Resting EXCEPT !.job = "form", !.at = "ask", !.owner = o, !.of = a])
    /\ UNCHANGED <<account, uses, valid, answered, crossed, stray, upsets>>

resolveDNS(w, a) == Choose(w, "site", a)
emailStoreDomain(w, a) == Choose(w, "mail", a)
mcpCreateEmailDomain(w, a) == Choose(w, "mail", a)

Going(w, a, o) ==
    \/ ~There(a)
    \/ \E v \in Worker \ {w} : /\ run[v].job = "delete" /\ run[v].of = a
                               /\ run[v].at \in (IF o = "site" THEN {"mail", "row"} ELSE {"row"})

CreateOwner(w) ==
    /\ Doing(w, "form", "ask")
    /\ LET o == run[w].owner IN
       /\ uses[o] = Absent
       /\ \/ /\ uses' = [uses EXCEPT ![o] = run[w].of]
             /\ stray' = IF Going(w, run[w].of, o) THEN stray \cup {o} ELSE stray \ {o}
          \/ o = "site" /\ uses' = [uses EXCEPT ![o] = None] /\ UNCHANGED stray
    /\ Over(w)
    /\ UNCHANGED <<account, valid, answered, crossed, asked, upsets>>

\* The domain was taken by another form.
Taken(w) ==
    /\ Doing(w, "form", "ask") /\ uses[run[w].owner] # Absent
    /\ Over(w)
    /\ UNCHANGED <<account, uses, valid, answered, crossed, stray, asked, upsets>>

\* DetachSiteDNS, DetachMailDNS: moved to another server.
Detach(o) ==
    /\ uses[o] \in Account
    /\ uses' = [uses EXCEPT ![o] = None]
    /\ UNCHANGED <<account, valid, run, answered, crossed, stray, asked, upsets>>

-----------------------------------------------------------------------------
Revoke(t) ==
    /\ t \in valid /\ upsets < MaxUpsets /\ upsets' = upsets + 1
    /\ valid' = valid \ {t}
    /\ UNCHANGED <<account, uses, run, answered, crossed, stray, asked>>

Crash ==
    /\ upsets < MaxUpsets /\ upsets' = upsets + 1
    /\ \E w \in Worker : run[w].job # "none"
    /\ run' = [w \in Worker |-> Resting]
    /\ UNCHANGED <<account, uses, valid, answered, crossed, stray, asked>>

Init ==
    /\ account = [a \in Account |-> Nobody] /\ uses = [o \in Owner |-> Absent]
    /\ valid = Token /\ run = [w \in Worker |-> Resting]
    /\ answered = {} /\ crossed = {} /\ stray = {} /\ asked = 0 /\ upsets = 0

Next ==
    \/ \E w \in Worker :
        \/ \E t \in Token : dnsStore(w, t) \/ mcpConnectDNSAccount(w, t)
        \/ \E a \in Account :
            \/ dnsVerify(w, a) \/ mcpVerifyDNSAccount(w, a)
            \/ \E t \in Token \cup {None} : dnsUpdate(w, a, t) \/ mcpUpdateDNSAccount(w, a, t)
            \/ dnsDestroy(w, a) \/ mcpDeleteDNSAccount(w, a)
            \/ resolveDNS(w, a) \/ emailStoreDomain(w, a) \/ mcpCreateEmailDomain(w, a)
        \/ TryNew(w) \/ CreateDNSAccount(w) \/ Verify(w) \/ MarkDNSAccountVerified(w)
        \/ UpdateDNSAccount(w) \/ ClearSites(w) \/ ClearMail(w) \/ DeleteDNSAccount(w)
        \/ CreateOwner(w) \/ Taken(w)
    \/ \E o \in Owner : Detach(o)
    \/ \E t \in Token : Revoke(t)
    \/ Crash

Spec == Init /\ [][Next]_vars

-----------------------------------------------------------------------------
(* Properties.                                                             *)

\* dns_account.go:184, "so a deleted credential does not leave rows pointing at
\* nothing": however its removal is cut off, unless a form had found it before
\* and stored its row after.
RowsPointAtOne == \A o \in Owner \ stray : uses[o] \in Account => There(uses[o])

\* A credential said to be verified is one whose secret the provider accepted
\* when it was asked, whatever was changed since, unless it was changed while it
\* was being tried.
VerifiedAnswered ==
    \A a \in Account \ crossed : account[a].verified => account[a].token \in answered

AccountsKept == TypeOK /\ RowsPointAtOne /\ VerifiedAnswered
=============================================================================
