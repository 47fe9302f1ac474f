------------------------------- MODULE Sessions -------------------------------
(***************************************************************************)
(* Sessions and the two steps of a sign-in: internal/session/session.go,   *)
(* the handlers of internal/web/auth.go and two_factor.go, the guard of    *)
(* internal/web/middleware.go and the tables of internal/store/security.go *)
(*                                                                         *)
(* A request takes the row its cookie names, or makes one; works on its    *)
(* copy of it; writes the copy back before the first byte of its answer;   *)
(* and the answer, with the cookies it sets, reaches the browser later, in *)
(* any order or not at all.  One account.                                  *)
(***************************************************************************)
EXTENDS Integers, FiniteSets

CONSTANTS
    Browser,
    Request,       \* requests under way
    MaxId,         \* bound: sessions made
    MaxStep,       \* bound: the authenticator's steps that are near enough to now
    MaxSent        \* bound: requests, and rows pruned

\* The bounds are numbers, and there are ids for the sessions the browsers have.
SessionsAssumption ==
    /\ MaxId \in Nat /\ MaxStep \in Nat /\ MaxSent \in Nat
    /\ Cardinality(Browser) \in 0..MaxId

Id == 1..MaxId
None == 0
NoRow == [there |-> FALSE, in |-> FALSE, csrf |-> None, held |-> FALSE]

VARIABLES
    rows,          \* the table: signed in, the token, and the account whose
                   \* password was right and whose code is not there yet
    made,          \* ids given out
    confirmed,     \* the account has a second factor
    last,          \* the last step a code was accepted for
    cookie, xsrf,  \* of each browser
    req,           \* the requests
    gone,          \* history: ids that were signed out, revoked, expired or replaced,
                   \* or that a sign-in put nowhere as its session had been
    wins,          \* history: how often the code of a step let somebody in
    signed,        \* history: ids that were signed in
    sent

vars == <<rows, made, confirmed, last, cookie, xsrf, req, gone, wins, signed, sent>>

Kind == {"page", "login", "code", "enrol", "logout", "revoke"}
Resting == [kind |-> "page", from |-> None, pc |-> "idle", names |-> None, shows |-> None,
            id |-> None, in |-> FALSE, csrf |-> None, held |-> FALSE, dirty |-> FALSE,
            sets |-> FALSE, code |-> 0]

TypeOK ==
    /\ rows \in [Id -> [there : BOOLEAN, in : BOOLEAN, csrf : Id \cup {None}, held : BOOLEAN]]
    /\ made \in 0..MaxId /\ confirmed \in BOOLEAN /\ last \in 0..MaxStep
    /\ cookie \in [Browser -> Id \cup {None}] /\ xsrf \in [Browser -> Id \cup {None}]
    /\ \A r \in Request : /\ req[r].kind \in Kind /\ req[r].id \in Id \cup {None}
                          /\ req[r].pc \in {"idle", "start", "handle", "use", "commit", "answer"}
    /\ gone \subseteq Id /\ signed \subseteq Id
    /\ wins \in [1..MaxStep -> Nat] /\ sent \in 0..MaxSent

\* Every browser has been at the sign-in page, and some have signed in.
Init ==
    /\ confirmed \in BOOLEAN /\ last = 0 /\ made = Cardinality(Browser)
    /\ cookie \in {f \in [Browser -> 1..made] : \A b, c \in Browser : f[b] = f[c] => b = c}
    /\ xsrf = cookie
    /\ \E in \in SUBSET (1..made) :
         /\ rows = [i \in Id |-> IF i \in 1..made THEN [there |-> TRUE, in |-> i \in in, csrf |-> i, held |-> FALSE]
                                 ELSE NoRow]
         /\ signed = in
    /\ req = [r \in Request |-> Resting]
    /\ gone = {} /\ wins = [s \in 1..MaxStep |-> 0] /\ sent = 0

At(r, pc) == req[r].pc = pc
To(r, pc) == req' = [req EXCEPT ![r].pc = pc]
factor == <<confirmed, last>>
browsers == <<cookie, xsrf>>
history == <<gone, wins, signed>>

---------------------------------------------------------------------------
\* A page or a form, with the cookies of the moment, and the code of one of the
\* steps around it.
Send(r, b, kind) ==
    /\ At(r, "idle") /\ sent < MaxSent /\ sent' = sent + 1
    /\ \E step \in IF kind \in {"code", "enrol"} THEN 1..MaxStep ELSE {0} :
         req' = [req EXCEPT ![r] = [Resting EXCEPT !.kind = kind, !.from = b, !.pc = "start",
                   !.names = cookie[b], !.shows = xsrf[b], !.code = step]]
    /\ UNCHANGED <<rows, made, factor, browsers, history>>

Known(id) == \E i \in Id : i = id /\ rows[i].there

\* guard: a form must show the token of the session it came with, a guest's be
\* a guest's and an account's an account's.  Nothing but the request's own copy
\* is looked at.
guard(q) ==
    LET form == q.kind # "page"
        level == q.in # (q.kind \in {"login", "code"})
        valid == q.shows = q.csrf IN
    [q EXCEPT !.pc = IF form /\ level /\ valid THEN "handle" ELSE "commit",
              !.dirty = @ \/ (form /\ level /\ ~valid)]

\* load: what the row says is this request's own from here on.  A page may be
\* the first for some minutes, or show a message, and save its copy.
load(r) ==
    /\ At(r, "start") /\ Known(req[r].names)
    /\ LET row == rows[req[r].names] IN
         \E touch \in {FALSE, req[r].kind = "page"} :
           req' = [req EXCEPT ![r] = guard([@ EXCEPT !.id = req[r].names, !.in = row.in,
                     !.csrf = row.csrf, !.held = row.held, !.dirty = touch])]
    /\ UNCHANGED <<rows, made, factor, browsers, history, sent>>

\* create: stored first, and the cookies go out with this answer.  What could
\* not be stored is not handed out.
create(r) ==
    /\ At(r, "start") /\ ~Known(req[r].names)
    /\ \/ /\ made < MaxId /\ made' = made + 1
          /\ rows' = [rows EXCEPT ![made'] = [NoRow EXCEPT !.there = TRUE, !.csrf = made']]
          /\ req' = [req EXCEPT ![r] = guard([@ EXCEPT !.id = made', !.csrf = made', !.sets = TRUE])]
       \/ req' = [req EXCEPT ![r] = Resting] /\ UNCHANGED <<rows, made>>
    /\ UNCHANGED <<factor, browsers, history, sent>>

\* Login: a new id for the row, and the cookies.
Login(r) ==
    /\ made < MaxId /\ made' = made + 1
    /\ LET old == req[r].id
           found == rows[old].there IN
         /\ rows' = IF found THEN [rows EXCEPT ![made'] = [rows[old] EXCEPT !.in = TRUE], ![old] = NoRow]
                    ELSE rows
         /\ gone' = gone \cup {old} \cup (IF found THEN {} ELSE {made'})
         /\ signed' = IF found THEN signed \cup {made'} ELSE signed
    /\ req' = [req EXCEPT ![r].pc = "commit", ![r].id = made', ![r].in = TRUE, ![r].held = FALSE,
                          ![r].dirty = TRUE, ![r].sets = TRUE]

\* A right password: one of two steps if there are two.
login(r) ==
    /\ At(r, "handle") /\ req[r].kind = "login"
    /\ IF confirmed
         THEN /\ req' = [req EXCEPT ![r].pc = "commit", ![r].held = TRUE, ![r].dirty = TRUE]
              /\ UNCHANGED <<rows, made, gone, signed>>
         ELSE Login(r)
    /\ UNCHANGED <<factor, browsers, wins, sent>>

\* The code is compared with the steps around now that are later than the last
\* one accepted, as read here;
twoFactorChallenge(r) ==
    /\ At(r, "handle") /\ req[r].kind = "code"
    /\ IF req[r].held /\ confirmed /\ req[r].code > last 
         THEN To(r, "use")
         ELSE req' = [req EXCEPT ![r].pc = "commit", ![r].dirty = TRUE]
    /\ UNCHANGED <<rows, made, factor, browsers, history, sent>>

\* A variant that trusts what was read.
UseTwoFactorStepAnyhow(r) ==
    /\ At(r, "use")
    /\ last' = req[r].code /\ wins' = [wins EXCEPT ![req[r].code] = @ + 1]
    /\ Login(r)
    /\ UNCHANGED <<confirmed, browsers, sent>>

\* and is accepted if its step is later still when it is written.
UseTwoFactorStep(r) ==
    /\ At(r, "use")
    /\ IF last < req[r].code
         THEN /\ last' = req[r].code /\ wins' = [wins EXCEPT ![req[r].code] = @ + 1]
              /\ Login(r)
         ELSE /\ req' = [req EXCEPT ![r].pc = "commit", ![r].dirty = TRUE]
              /\ UNCHANGED <<rows, made, last, gone, signed, wins>>
    /\ UNCHANGED <<confirmed, browsers, sent>>

\* Rows that are deleted; the ids are nobody's from then on.
Deleted(ids) ==
    /\ rows' = [i \in Id |-> IF i \in ids THEN NoRow ELSE rows[i]]
    /\ gone' = gone \cup ids
OthersOf(r) == {i \in Id \ {req[r].id} : rows[i].there /\ rows[i].in}

\* The second factor's first code, which signs the other browsers out.
twoFactorConfirm(r) ==
    /\ At(r, "handle") /\ req[r].kind = "enrol"
    /\ IF confirmed THEN UNCHANGED <<confirmed, last, rows, gone>>
       ELSE confirmed' = TRUE /\ last' = req[r].code /\ Deleted(OthersOf(r))
    /\ req' = [req EXCEPT ![r].pc = "commit", ![r].dirty = ~confirmed]
    /\ UNCHANGED <<made, browsers, wins, signed, sent>>

\* updatePassword, securityRevokeOthers: RevokeOtherSessions.
RevokeOtherSessions(r) ==
    /\ At(r, "handle") /\ req[r].kind = "revoke"
    /\ Deleted(OthersOf(r))
    /\ req' = [req EXCEPT ![r].pc = "commit", ![r].dirty = TRUE]
    /\ UNCHANGED <<made, factor, browsers, wins, signed, sent>>

\* Logout: there is nothing left to commit, and the cookies are taken back.
Logout(r) ==
    /\ At(r, "handle") /\ req[r].kind = "logout"
    /\ Deleted({req[r].id})
    /\ req' = [req EXCEPT ![r].pc = "commit", ![r].id = None, ![r].csrf = None, ![r].dirty = FALSE, ![r].sets = TRUE]
    /\ UNCHANGED <<made, factor, browsers, wins, signed, sent>>

\* A variant that puts the row back.
commitAnew(r) ==
    /\ At(r, "commit") /\ To(r, "answer")
    /\ rows' = IF req[r].id # None /\ req[r].dirty
                 THEN [rows EXCEPT ![req[r].id] = [there |-> TRUE, in |-> req[r].in, csrf |-> req[r].csrf, held |-> req[r].held]]
                 ELSE rows
    /\ UNCHANGED <<made, factor, browsers, history, sent>>

\* commit: the whole of this request's copy, over the row if it is still there.
commit(r) ==
    /\ At(r, "commit") /\ To(r, "answer")
    /\ rows' = IF req[r].id # None /\ req[r].dirty /\ rows[req[r].id].there
                 THEN [rows EXCEPT ![req[r].id] = [there |-> TRUE, in |-> req[r].in,
                                                   csrf |-> req[r].csrf, held |-> req[r].held]]
                 ELSE rows
    /\ UNCHANGED <<made, factor, browsers, history, sent>>

\* The answer reaches the browser, or never does.
Arrive(r) ==
    /\ At(r, "answer")
    /\ req' = [req EXCEPT ![r] = Resting]
    /\ IF req[r].sets
         THEN /\ cookie' = [cookie EXCEPT ![req[r].from] = req[r].id]
              /\ xsrf' = [xsrf EXCEPT ![req[r].from] = req[r].csrf]
         ELSE UNCHANGED browsers
    /\ UNCHANGED <<rows, made, factor, history, sent>>

Lose(r) ==
    /\ At(r, "answer") /\ req' = [req EXCEPT ![r] = Resting]
    /\ UNCHANGED <<rows, made, factor, browsers, history, sent>>

\* Prune, and load of a row past its lifetime.
Prune(i) ==
    /\ rows[i].there /\ Deleted({i})
    /\ sent < MaxSent /\ sent' = sent + 1
    /\ UNCHANGED <<made, factor, browsers, req, wins, signed>>

Next ==
    \/ \E i \in Id : Prune(i)
    \/ \E r \in Request :
         \/ \E b \in Browser, kind \in Kind : Send(r, b, kind)
         \/ load(r) \/ create(r) \/ login(r) \/ twoFactorChallenge(r) \/ UseTwoFactorStep(r)
         \/ twoFactorConfirm(r) \/ RevokeOtherSessions(r) \/ Logout(r) \/ commit(r) \/ Arrive(r) \/ Lose(r)

Spec == Init /\ [][Next]_vars

---------------------------------------------------------------------------
\* session.go:6, "the browser was handed a token belonging to a session that
\* was never stored, so the next request looks brand new and the token it
\* presents can never match": the cookies a browser holds name a row that was
\* stored, and show that row's token, or a row that has been ended since;
\* whatever the order answers arrive in.
TokenMatches ==
    \A b \in Browser : cookie[b] # None =>
        \/ rows[cookie[b]].there /\ rows[cookie[b]].csrf = xsrf[b]
        \/ cookie[b] \in gone

\* A session that was signed out, revoked or replaced stays so: no request that
\* had it when that happened brings it back, and none that began before a
\* sign-in takes the sign-in out of the row again.
EndedStaysOut == \A i \in Id : /\ i \in gone => ~rows[i].there
                               /\ i \in signed \ gone => rows[i].in

\* security.go:281, "two requests racing with the same code cannot both win".
CodeOnce == \A s \in 1..MaxStep : wins[s] <= 1

SessionsKept == TypeOK /\ TokenMatches /\ EndedStaysOut /\ CodeOnce
=============================================================================
