---------------------------- MODULE MCAccessProofs ----------------------------
(***************************************************************************)
(* What is proved of who gets in: the parts of MCRecords that keep         *)
(* sessions, credentials of DNS providers and the accounts of databases,   *)
(* as theorems of the composition its run checks.  A part's steps are the  *)
(* composition's while focus is on it, so a part's invariant is one of the *)
(* composition's.                                                          *)
(***************************************************************************)
EXTENDS MCRecords, TLAPS

---------------------------------------------------------------------------
(***************************************************************************)
(* Sessions, for any number of browsers, requests, sessions and steps of   *)
(* the authenticator.  The difficulty is that a request works on a copy of *)
(* its row and writes the whole copy back.  What saves the row is that a   *)
(* copy can only be older in what does not matter: while the row is there, *)
(* its token is the copy's, and a row that was signed in has a copy that   *)
(* knows it.                                                               *)
(***************************************************************************)
Copy == [kind : Cookies!Kind, from : Browser \cup {Cookies!None}, names : Cookies!Id \cup {Cookies!None}, shows : Cookies!Id \cup {Cookies!None},
         pc : {"idle", "start", "handle", "use", "commit", "answer"},
         id : Cookies!Id \cup {Cookies!None}, in : BOOLEAN, csrf : Cookies!Id \cup {Cookies!None}, held : BOOLEAN,
         dirty : BOOLEAN, sets : BOOLEAN, code : 0..MaxStep]

Typed == Cookies!TypeOK /\ req \in [Worker -> Copy]

\* A request that is under way has a browser; one that is being handled has a
\* session, and its code is a step's; the second step has a second factor.
UnderWay ==
    \A r \in Worker :
        /\ req[r].pc # "idle" => req[r].from \in Browser
        /\ req[r].pc \in {"idle", "start"} => req[r].id = Cookies!None
        /\ req[r].pc \in {"handle", "use"} => req[r].id \in Cookies!Id
        /\ req[r].pc \in {"start", "handle"} /\ req[r].kind \in {"code", "enrol"} => req[r].code \in 1..MaxStep
        /\ req[r].pc = "use" => confirmed /\ req[r].code \in 1..MaxStep

\* An id is given out once: it has a row until it is gone, and nobody has one
\* that was not given out.
IdsGivenOut ==
    /\ \A i \in Cookies!Id : rows[i].there <=> i <= made /\ i \notin gone
    /\ \A i \in gone \cup signed : i <= made
    /\ \A b \in Browser : cookie[b] <= made
    /\ \A r \in Worker : req[r].id <= made

\* While the row is there its token is that of every copy and of every cookie.
TokensAgree ==
    /\ \A b \in Browser : cookie[b] \in Cookies!Id \ gone => rows[cookie[b]].csrf = xsrf[b]
    /\ \A r \in Worker : req[r].id \in Cookies!Id \ gone => rows[req[r].id].csrf = req[r].csrf

\* A session that was signed in is so in its row and in every copy.
SignedInEverywhere ==
    /\ \A i \in signed \ gone : rows[i].in
    /\ \A r \in Worker : req[r].id \in signed \ gone => req[r].in

\* A step that let somebody in is not later than the last one accepted.
StepsSpent ==
    /\ \A s \in 1..MaxStep : wins[s] <= 1 /\ (wins[s] = 1 => s <= last)
    /\ ~confirmed => \A s \in 1..MaxStep : wins[s] = 0

SessionsInv == /\ Typed /\ UnderWay /\ IdsGivenOut
               /\ TokensAgree /\ SignedInEverywhere /\ StepsSpent

LEMMA Begins == Cookies!SessionsAssumption /\ Cookies!Init => SessionsInv
<1> SUFFICES ASSUME Cookies!SessionsAssumption, Cookies!Init PROVE SessionsInv
  OBVIOUS
<1>1. made \in 0..MaxId /\ 1..made \subseteq Cookies!Id /\ Cookies!None \notin Cookies!Id
  BY DEF Cookies!Init, Cookies!SessionsAssumption, Cookies!Id, Cookies!None
<1>2. PICK in \in SUBSET (1..made) :
        /\ rows = [i \in Cookies!Id |-> IF i \in 1..made
                               THEN [there |-> TRUE, in |-> i \in in, csrf |-> i, held |-> FALSE]
                               ELSE Cookies!NoRow]
        /\ signed = in
  BY DEF Cookies!Init
<1>3. /\ cookie \in [Browser -> 1..made] /\ xsrf = cookie
      /\ req = [r \in Worker |-> Cookies!Resting] /\ gone = {}
  BY DEF Cookies!Init
<1>4. rows \in [Cookies!Id -> [there : BOOLEAN, in : BOOLEAN, csrf : Cookies!Id \cup {Cookies!None}, held : BOOLEAN]]
  <2>1. ASSUME NEW i \in Cookies!Id
        PROVE  rows[i] \in [there : BOOLEAN, in : BOOLEAN, csrf : Cookies!Id \cup {Cookies!None}, held : BOOLEAN]
    <3>1. CASE i \in 1..made
      <4>1. rows[i] = [there |-> TRUE, in |-> i \in in, csrf |-> i, held |-> FALSE]
        BY <1>2, <3>1, Zenon
      <4> DEFINE yes == i \in in
      <4>2. yes \in BOOLEAN /\ rows[i] = [there |-> TRUE, in |-> yes, csrf |-> i, held |-> FALSE]
        BY <4>1
      <4> HIDE DEF yes
      <4>3. QED BY <4>2, SMT
    <3>2. CASE i \notin 1..made
      BY <1>2, <3>2 DEF Cookies!NoRow
    <3>3. QED BY <3>1, <3>2
  <2>2. QED BY <1>2, <2>1
<1>5. Cookies!Resting \in Copy /\ Cookies!Resting.id = Cookies!None /\ Cookies!Resting.pc = "idle"
  BY <1>1 DEF Cookies!Resting, Copy, Cookies!Kind, Cookies!None, Cookies!SessionsAssumption
<1>6. Typed
  <2>1. req \in [Worker -> Copy]
    BY <1>3, <1>5
  <2>2. cookie \in [Browser -> Cookies!Id \cup {Cookies!None}] /\ xsrf \in [Browser -> Cookies!Id \cup {Cookies!None}]
    BY <1>1, <1>3
  <2>3. signed \subseteq Cookies!Id /\ gone \subseteq Cookies!Id
    BY <1>1, <1>2, <1>3
  <2>4. /\ confirmed \in BOOLEAN /\ last \in 0..MaxStep /\ sent \in 0..MaxSent
        /\ wins \in [1..MaxStep -> Nat]
    BY DEF Cookies!Init, Cookies!SessionsAssumption
  <2>5. QED BY <1>1, <1>4, <2>1, <2>2, <2>3, <2>4 DEF Typed, Cookies!TypeOK, Copy
<1>7. UnderWay
  BY <1>3, <1>5 DEF UnderWay, Cookies!Resting
<1>8. IdsGivenOut
  <2>1. \A i \in Cookies!Id : rows[i].there <=> i <= made
    BY <1>1, <1>2 DEF Cookies!NoRow, Cookies!Id, Cookies!SessionsAssumption
  <2>2. gone \cup signed \subseteq 1..made
    BY <1>2, <1>3, Zenon
  <2>3. \A b \in Browser : cookie[b] <= made
    BY <1>1, <1>3
  <2>4. \A r \in Worker : req[r].id <= made
    BY <1>1, <1>3, <1>5 DEF Cookies!None
  <2>5. QED BY <1>1, <1>3, <2>1, <2>2, <2>3, <2>4 DEF IdsGivenOut
<1>9. TokensAgree
  BY <1>1, <1>2, <1>3, <1>5 DEF TokensAgree
<1>10. SignedInEverywhere
  BY <1>1, <1>2, <1>3, <1>5 DEF SignedInEverywhere
<1>11. StepsSpent
  BY DEF Cookies!Init, StepsSpent
<1>12. QED BY <1>6, <1>7, <1>8, <1>9, <1>10, <1>11 DEF SessionsInv

(***************************************************************************)
(* Copies.                                                                 *)
(***************************************************************************)
\* The guard decides where a request goes and marks its copy; it changes
\* nothing of what the copy says.
LEMMA GuardKeeps ==
    ASSUME NEW q \in Copy
    PROVE  /\ Cookies!guard(q) \in Copy /\ Cookies!guard(q).pc \in {"handle", "commit"}
           /\ Cookies!guard(q).kind = q.kind /\ Cookies!guard(q).from = q.from /\ Cookies!guard(q).code = q.code
           /\ Cookies!guard(q).id = q.id /\ Cookies!guard(q).in = q.in /\ Cookies!guard(q).csrf = q.csrf
  BY DEF Cookies!guard, Copy

\* One request has another copy, the others have theirs.
LEMMA OneCopy ==
    ASSUME Typed, NEW r \in Worker, NEW e \in Copy, req' = [req EXCEPT ![r] = e]
    PROVE  /\ req' \in [Worker -> Copy] /\ req'[r] = e
           /\ \A x \in Worker \ {r} : req'[x] = req[x]
  BY DEF Typed

(***************************************************************************)
(* One lemma for each action.                                              *)
(***************************************************************************)
LEMMA Sent ==
    ASSUME Cookies!SessionsAssumption, SessionsInv, NEW r \in Worker, NEW b \in Browser, NEW sort \in Cookies!Kind,
           Cookies!Send(r, b, sort)
    PROVE  SessionsInv'
<1> USE DEF SessionsInv, Cookies!None
<1>1. PICK step \in 0..MaxStep :
        /\ req' = [req EXCEPT ![r] = [Cookies!Resting EXCEPT !.kind = sort, !.from = b, !.pc = "start",
                                       !.names = cookie[b], !.shows = xsrf[b], !.code = step]]
        /\ sort \in {"code", "enrol"} => step \in 1..MaxStep
  <2>1. PICK step \in IF sort \in {"code", "enrol"} THEN 1..MaxStep ELSE {0} :
          req' = [req EXCEPT ![r] = [Cookies!Resting EXCEPT !.kind = sort, !.from = b, !.pc = "start",
                                     !.names = cookie[b], !.shows = xsrf[b], !.code = step]]
    BY Zenon DEF Cookies!Send
  <2>2. step \in 0..MaxStep /\ (sort \in {"code", "enrol"} => step \in 1..MaxStep)
    BY DEF Cookies!SessionsAssumption
  <2>3. QED BY <2>1, <2>2, Zenon
<1>2. /\ UNCHANGED <<rows, made, Cookies!factor, Cookies!browsers, Cookies!history>>
      /\ sent' \in 0..MaxSent
  BY DEF Cookies!Send, Typed, Cookies!TypeOK, Cookies!SessionsAssumption
<1>3. Typed'
  BY <1>1, <1>2 DEF Typed, Cookies!TypeOK, Copy, Cookies!Resting, Cookies!factor, Cookies!browsers, Cookies!history, Cookies!Kind
<1>4. UnderWay'
  BY <1>1, <1>2 DEF Typed, UnderWay, Cookies!Resting, Cookies!factor
<1>5. IdsGivenOut'
  BY <1>1, <1>2 DEF Typed, Cookies!TypeOK, IdsGivenOut, Cookies!Resting, Cookies!browsers, Cookies!history, Cookies!Id
<1>6. TokensAgree'
  BY <1>1, <1>2 DEF Typed, TokensAgree, Cookies!Resting, Cookies!browsers, Cookies!history, Cookies!Id
<1>7. SignedInEverywhere'
  BY <1>1, <1>2 DEF Typed, Cookies!TypeOK, SignedInEverywhere, Cookies!Resting, Cookies!browsers, Cookies!history, Cookies!Id
<1>8. StepsSpent'
  BY <1>2 DEF StepsSpent, Cookies!history, Cookies!factor
<1>9. QED BY <1>3, <1>4, <1>5, <1>6, <1>7, <1>8

\* What a step keeps that changes nothing but one request, and leaves that one
\* with the session it had.
LEMMA CopyOnly ==
    ASSUME Cookies!SessionsAssumption, SessionsInv, NEW r \in Worker, NEW e \in Copy,
           req' = [req EXCEPT ![r] = e], UNCHANGED <<rows, made, Cookies!factor, Cookies!browsers, Cookies!history>>,
           sent' \in 0..MaxSent,
           e.id = req[r].id /\ e.csrf = req[r].csrf /\ (req[r].in => e.in)
    PROVE  Typed' /\ IdsGivenOut' /\ TokensAgree' /\ SignedInEverywhere' /\ StepsSpent'
<1> USE DEF SessionsInv, Cookies!factor, Cookies!browsers, Cookies!history
<1>0. /\ req' \in [Worker -> Copy] /\ req'[r] = e
      /\ \A x \in Worker \ {r} : req'[x] = req[x]
  BY OneCopy
<1>1. Typed'
  BY <1>0 DEF Typed, Cookies!TypeOK, Copy
<1>2. IdsGivenOut'
  BY <1>0 DEF IdsGivenOut
<1>3. TokensAgree'
  BY <1>0 DEF TokensAgree
<1>4. SignedInEverywhere'
  BY <1>0 DEF SignedInEverywhere
<1>5. StepsSpent'
  BY DEF StepsSpent
<1>6. QED BY <1>1, <1>2, <1>3, <1>4, <1>5

LEMMA RestingIs == Cookies!SessionsAssumption => /\ Cookies!Resting \in Copy /\ Cookies!Resting.id = Cookies!None
                                                 /\ Cookies!Resting.pc = "idle" /\ Cookies!Resting.csrf = Cookies!None
  BY DEF Cookies!Resting, Copy, Cookies!Kind, Cookies!None, Cookies!SessionsAssumption

\* A request that is over holds nothing.
LEMMA Rested ==
    ASSUME Cookies!SessionsAssumption, SessionsInv, NEW r \in Worker, req' = [req EXCEPT ![r] = Cookies!Resting],
           UNCHANGED <<rows, made, Cookies!factor, Cookies!browsers, Cookies!history, sent>>
    PROVE  SessionsInv'
<1> USE DEF SessionsInv, Cookies!factor, Cookies!browsers, Cookies!history
<1>1. /\ req' \in [Worker -> Copy] /\ req'[r] = Cookies!Resting
      /\ \A x \in Worker \ {r} : req'[x] = req[x]
  BY RestingIs, OneCopy
<1>2. Typed'
  BY <1>1 DEF Typed, Cookies!TypeOK, Copy
<1>3. UnderWay'
  BY <1>1, RestingIs DEF UnderWay
<1>4. IdsGivenOut'
  BY <1>1, RestingIs DEF IdsGivenOut, Typed, Cookies!TypeOK, Cookies!None
<1>5. TokensAgree'
  BY <1>1, RestingIs DEF TokensAgree, Cookies!Id, Cookies!None
<1>6. SignedInEverywhere'
  BY <1>1, RestingIs DEF SignedInEverywhere, Typed, Cookies!TypeOK, Cookies!Id, Cookies!None
<1>7. StepsSpent'
  BY DEF StepsSpent
<1>8. QED BY <1>2, <1>3, <1>4, <1>5, <1>6, <1>7

LEMMA Loaded ==
    ASSUME Cookies!SessionsAssumption, SessionsInv, NEW r \in Worker, Cookies!load(r)
    PROVE  SessionsInv'
<1> USE DEF SessionsInv
<1>1. PICK touch \in {FALSE, req[r].kind = "page"} :
        req' = [req EXCEPT ![r] = Cookies!guard([@ EXCEPT !.id = req[r].names, !.in = rows[req[r].names].in,
                  !.csrf = rows[req[r].names].csrf, !.held = rows[req[r].names].held, !.dirty = touch])]
  BY Zenon DEF Cookies!load
<1> DEFINE e == [req[r] EXCEPT !.id = req[r].names, !.in = rows[req[r].names].in,
                  !.csrf = rows[req[r].names].csrf, !.held = rows[req[r].names].held, !.dirty = touch]
<1>2. /\ req[r] \in Copy /\ req[r].pc = "start" /\ req[r].names \in Cookies!Id
      /\ rows[req[r].names].there /\ UNCHANGED <<rows, made, Cookies!factor, Cookies!browsers, Cookies!history, sent>>
  BY DEF Cookies!load, Cookies!At, Cookies!Known, Typed
<1>3. touch \in BOOLEAN
  OBVIOUS
<1>4. rows[req[r].names] \in [there : BOOLEAN, in : BOOLEAN, csrf : Cookies!Id \cup {Cookies!None}, held : BOOLEAN]
  BY <1>2 DEF Typed, Cookies!TypeOK
<1>5. /\ e \in Copy /\ e.id = req[r].names /\ e.csrf = rows[req[r].names].csrf
      /\ e.in = rows[req[r].names].in /\ e.kind = req[r].kind
      /\ e.from = req[r].from /\ e.code = req[r].code
  BY <1>2, <1>3, <1>4 DEF Copy
<1>6. req' = [req EXCEPT ![r] = Cookies!guard(e)]
  BY <1>1, <1>2, Zenon DEF Typed
<1> HIDE DEF e
<1>7. /\ Cookies!guard(e) \in Copy /\ Cookies!guard(e).pc \in {"handle", "commit"}
      /\ Cookies!guard(e).kind = req[r].kind /\ Cookies!guard(e).from = req[r].from /\ Cookies!guard(e).code = req[r].code
      /\ Cookies!guard(e).id = req[r].names /\ Cookies!guard(e).in = rows[req[r].names].in
      /\ Cookies!guard(e).csrf = rows[req[r].names].csrf
  BY <1>5, GuardKeeps
<1>8. /\ req' \in [Worker -> Copy] /\ req'[r] = Cookies!guard(e)
      /\ \A x \in Worker \ {r} : req'[x] = req[x]
  BY <1>6, <1>7, OneCopy
<1>9. Typed'
  BY <1>2, <1>8 DEF Typed, Cookies!TypeOK, Copy, Cookies!factor, Cookies!browsers, Cookies!history
<1>10. UnderWay'
  BY <1>2, <1>7, <1>8 DEF UnderWay, Cookies!factor
<1>11. IdsGivenOut'
  BY <1>2, <1>7, <1>8 DEF IdsGivenOut, Cookies!browsers, Cookies!history
<1>12. TokensAgree'
  BY <1>2, <1>7, <1>8 DEF TokensAgree, Cookies!browsers, Cookies!history
<1>13. SignedInEverywhere'
  BY <1>2, <1>7, <1>8 DEF SignedInEverywhere, Cookies!history
<1>14. StepsSpent'
  BY <1>2 DEF StepsSpent, Cookies!history, Cookies!factor
<1>15. QED BY <1>9, <1>10, <1>11, <1>12, <1>13, <1>14

LEMMA Created ==
    ASSUME Cookies!SessionsAssumption, SessionsInv, NEW r \in Worker, Cookies!create(r)
    PROVE  SessionsInv'
<1> USE DEF SessionsInv
<1>1. /\ req[r] \in Copy /\ req[r].pc = "start" /\ UNCHANGED <<Cookies!factor, Cookies!browsers, Cookies!history, sent>>
  BY DEF Cookies!create, Cookies!At, Typed
<1>2. CASE /\ made < MaxId /\ made' = made + 1
           /\ rows' = [rows EXCEPT ![made'] = [Cookies!NoRow EXCEPT !.there = TRUE, !.csrf = made']]
           /\ req' = [req EXCEPT ![r] = Cookies!guard([@ EXCEPT !.id = made', !.csrf = made', !.sets = TRUE])]
  <2> DEFINE e == [req[r] EXCEPT !.id = made', !.csrf = made', !.sets = TRUE]
  <2>1. made' \in Cookies!Id /\ made' \notin gone /\ made' \notin signed /\ made \in Nat
    BY <1>2 DEF Cookies!SessionsAssumption, Typed, Cookies!TypeOK, Cookies!Id, IdsGivenOut
  <2>2. /\ e \in Copy /\ e.id = made' /\ e.csrf = made' /\ e.kind = req[r].kind
        /\ e.from = req[r].from /\ e.code = req[r].code
    BY <1>1, <2>1 DEF Copy
  <2>3. req' = [req EXCEPT ![r] = Cookies!guard(e)]
    BY <1>2, <1>1 DEF Typed
  <2> HIDE DEF e
  <2>4. /\ Cookies!guard(e) \in Copy /\ Cookies!guard(e).pc \in {"handle", "commit"}
        /\ Cookies!guard(e).kind = req[r].kind /\ Cookies!guard(e).from = req[r].from /\ Cookies!guard(e).code = req[r].code
        /\ Cookies!guard(e).id = made' /\ Cookies!guard(e).csrf = made'
    BY <2>2, GuardKeeps
  <2>5. /\ req' \in [Worker -> Copy] /\ req'[r] = Cookies!guard(e)
        /\ \A x \in Worker \ {r} : req'[x] = req[x]
    BY <2>3, <2>4, OneCopy
  <2>6. /\ rows' \in [Cookies!Id -> [there : BOOLEAN, in : BOOLEAN, csrf : Cookies!Id \cup {Cookies!None}, held : BOOLEAN]]
        /\ rows'[made'].there /\ rows'[made'].csrf = made'
        /\ \A i \in Cookies!Id \ {made'} : rows'[i] = rows[i]
    BY <1>2, <2>1 DEF Cookies!NoRow, Typed, Cookies!TypeOK
  <2>7. Typed'
    <3>1. made' \in 0..MaxId
      BY <2>1 DEF Cookies!Id, Cookies!SessionsAssumption
    <3>2. UNCHANGED <<confirmed, last, cookie, xsrf, gone, signed, wins, sent>>
      BY <1>1 DEF Cookies!factor, Cookies!browsers, Cookies!history
    <3>3. QED BY <2>5, <2>6, <3>1, <3>2 DEF Typed, Cookies!TypeOK, Copy
  <2>8. UnderWay'
    BY <1>1, <2>1, <2>4, <2>5 DEF UnderWay, Cookies!factor
  <2>9. IdsGivenOut'
    <3>1. UNCHANGED <<cookie, gone, signed>> /\ made' = made + 1 /\ made \in Nat
      BY <1>1, <1>2, <2>1 DEF Cookies!browsers, Cookies!history
    <3>2. \A i \in Cookies!Id : rows'[i].there <=> i <= made' /\ i \notin gone'
      BY <2>1, <2>6, <3>1 DEF IdsGivenOut, Cookies!Id
    <3>3. \A i \in (gone \cup signed)' : i <= made'
      BY <3>1 DEF IdsGivenOut, Typed, Cookies!TypeOK, Cookies!Id
    <3>4. \A b \in Browser : cookie'[b] <= made'
      BY <3>1 DEF IdsGivenOut, Typed, Cookies!TypeOK, Cookies!Id, Cookies!None
    <3>5. \A x \in Worker : req'[x].id <= made'
      BY <2>4, <2>5, <3>1 DEF IdsGivenOut, Typed, Copy, Cookies!Id, Cookies!None
    <3>6. QED BY <3>2, <3>3, <3>4, <3>5 DEF IdsGivenOut
  <2>10. TokensAgree'
    BY <1>1, <1>2, <2>1, <2>4, <2>5, <2>6 DEF TokensAgree, IdsGivenOut, Cookies!browsers, Cookies!history, Typed, Cookies!TypeOK, Cookies!Id
  <2>11. SignedInEverywhere'
    BY <1>1, <2>1, <2>4, <2>5, <2>6 DEF SignedInEverywhere, Cookies!history, Typed, Cookies!TypeOK
  <2>12. StepsSpent'
    BY <1>1 DEF StepsSpent, Cookies!history, Cookies!factor
  <2>13. QED BY <2>7, <2>8, <2>9, <2>10, <2>11, <2>12
<1>3. CASE req' = [req EXCEPT ![r] = Cookies!Resting] /\ UNCHANGED <<rows, made>>
  BY <1>1, <1>3, Rested
<1>4. QED BY <1>2, <1>3 DEF Cookies!create

\* The heart of a sign-in: the row moves to an id nobody has seen, with its
\* token; whoever still has the old id has one that is gone.
LEMMA LoginKeeps ==
    ASSUME Cookies!SessionsAssumption, SessionsInv, NEW r \in Worker, req[r].id \in Cookies!Id, req[r].from \in Browser,
           Cookies!Login(r), UNCHANGED <<confirmed, Cookies!browsers, sent>>,
           last' \in 0..MaxStep, wins' \in [1..MaxStep -> Nat]
    PROVE  Typed' /\ UnderWay' /\ IdsGivenOut' /\ TokensAgree' /\ SignedInEverywhere'
<1> USE DEF SessionsInv
<1> DEFINE old == req[r].id
           still == rows[old].there
           e == [req[r] EXCEPT !.pc = "commit", !.id = made', !.in = TRUE, !.held = FALSE,
                               !.dirty = TRUE, !.sets = TRUE]
<1>1. /\ made < MaxId /\ made' = made + 1 /\ made \in Nat /\ made' \in Cookies!Id /\ made' \in 0..MaxId
      /\ old \in Cookies!Id /\ old # made' /\ made' \notin gone /\ made' \notin signed
  BY DEF Cookies!Login, Cookies!SessionsAssumption, Typed, Cookies!TypeOK, Cookies!Id, IdsGivenOut
<1>2. /\ rows' = IF still THEN [rows EXCEPT ![made'] = [rows[old] EXCEPT !.in = TRUE], ![old] = Cookies!NoRow]
                  ELSE rows
      /\ gone' = gone \cup {old} \cup (IF still THEN {} ELSE {made'})
      /\ signed' = IF still THEN signed \cup {made'} ELSE signed
  BY Zenon DEF Cookies!Login
<1>3. req' = [req EXCEPT ![r] = e]
  BY DEF Cookies!Login, Typed
<1>4. e \in Copy /\ e.id = made' /\ e.in = TRUE /\ e.csrf = req[r].csrf /\ e.pc = "commit"
      /\ e.from = req[r].from
  <2>1. req[r] \in Copy
    BY DEF Typed
  <2>2. QED BY <1>1, <2>1 DEF Copy
<1> HIDE DEF e
<1>5. /\ req' \in [Worker -> Copy] /\ req'[r] = e
      /\ \A x \in Worker \ {r} : req'[x] = req[x]
  BY <1>3, <1>4, OneCopy
<1>6. /\ rows' \in [Cookies!Id -> [there : BOOLEAN, in : BOOLEAN, csrf : Cookies!Id \cup {Cookies!None}, held : BOOLEAN]]
      /\ \A i \in Cookies!Id \ {old, made'} : rows'[i] = rows[i]
      /\ ~rows'[old].there
      /\ still => rows'[made'].there /\ rows'[made'].in /\ rows'[made'].csrf = rows[old].csrf
      /\ ~still => rows' = rows
  <2>1. rows \in [Cookies!Id -> [there : BOOLEAN, in : BOOLEAN, csrf : Cookies!Id \cup {Cookies!None}, held : BOOLEAN]]
    BY DEF Typed, Cookies!TypeOK
  <2>2. CASE still
    <3> DEFINE row == [rows[old] EXCEPT !.in = TRUE]
    <3>1. /\ row \in [there : BOOLEAN, in : BOOLEAN, csrf : Cookies!Id \cup {Cookies!None}, held : BOOLEAN]
          /\ row.there /\ row.in /\ row.csrf = rows[old].csrf
      BY <1>1, <2>1, <2>2
    <3>2. /\ Cookies!NoRow \in [there : BOOLEAN, in : BOOLEAN, csrf : Cookies!Id \cup {Cookies!None}, held : BOOLEAN]
          /\ ~Cookies!NoRow.there
      BY DEF Cookies!NoRow
    <3>3. rows' = [rows EXCEPT ![made'] = row, ![old] = Cookies!NoRow]
      BY <1>2, <2>2
    <3> HIDE DEF row
    <3>4. rows'[made'] = row /\ rows'[old] = Cookies!NoRow /\ \A i \in Cookies!Id \ {old, made'} : rows'[i] = rows[i]
      BY <1>1, <2>1, <3>3
    <3>5. rows' \in [Cookies!Id -> [there : BOOLEAN, in : BOOLEAN, csrf : Cookies!Id \cup {Cookies!None}, held : BOOLEAN]]
      BY <1>1, <2>1, <3>1, <3>2, <3>3
    <3>6. QED BY <2>2, <3>1, <3>2, <3>4, <3>5
  <2>3. CASE ~still
    BY <1>2, <2>1, <2>3
  <2>4. QED BY <2>2, <2>3
<1>7. gone' \subseteq Cookies!Id /\ signed' \subseteq Cookies!Id
  BY <1>1, <1>2 DEF Typed, Cookies!TypeOK
<1>8. old \in gone' /\ gone \subseteq gone' /\ (made' \in gone' <=> ~still)
      /\ \A i \in Cookies!Id \ {old, made'} : i \in gone' <=> i \in gone
  BY <1>1, <1>2
<1>9. \A i \in Cookies!Id \ {made'} : i \in signed' <=> i \in signed
  BY <1>1, <1>2
<1>10. UNCHANGED <<confirmed, cookie, xsrf, sent>>
  BY DEF Cookies!browsers
<1>11. Typed'
  BY <1>1, <1>5, <1>6, <1>7, <1>10 DEF Typed, Cookies!TypeOK, Copy
<1>12. UnderWay'
  BY <1>1, <1>4, <1>5, <1>10 DEF UnderWay
<1>13. IdsGivenOut'
  <2>1. ASSUME NEW i \in Cookies!Id PROVE rows'[i].there <=> i <= made' /\ i \notin gone'
    <3>1. CASE i = old
      BY <1>6, <1>8, <3>1
    <3>2. CASE i = made'
      BY <1>1, <1>6, <1>8, <3>2 DEF IdsGivenOut, Cookies!Id, Cookies!SessionsAssumption
    <3>3. CASE i \notin {old, made'}
      BY <1>1, <1>6, <1>8, <3>3 DEF IdsGivenOut, Cookies!Id, Cookies!SessionsAssumption
    <3>4. QED BY <3>1, <3>2, <3>3
  <2>2. old <= made
    BY DEF IdsGivenOut
  <2>3. \A i \in (gone \cup signed)' : i <= made'
    BY <1>1, <1>2, <2>2 DEF IdsGivenOut, Typed, Cookies!TypeOK, Cookies!Id, Cookies!SessionsAssumption
  <2>4. \A b \in Browser : cookie'[b] <= made'
    BY <1>1, <1>10 DEF IdsGivenOut, Typed, Cookies!TypeOK, Cookies!Id, Cookies!None
  <2>5. \A x \in Worker : req'[x].id <= made'
    <3>1. \A x \in Worker : req[x].id \in Cookies!Id \cup {Cookies!None}
      BY DEF Typed, Copy
    <3>2. QED BY <1>1, <1>4, <1>5, <3>1 DEF IdsGivenOut, Cookies!Id, Cookies!None, Cookies!SessionsAssumption
  <2>6. QED BY <2>1, <2>3, <2>4, <2>5 DEF IdsGivenOut
<1>14. made' \notin {req[x].id : x \in Worker} \cup {cookie[b] : b \in Browser}
  BY <1>1 DEF IdsGivenOut, Typed, Cookies!TypeOK, Copy, Cookies!Id, Cookies!None
<1>15. TokensAgree'
  <2>1. ASSUME NEW b \in Browser, cookie'[b] \in Cookies!Id \ gone' PROVE rows'[cookie'[b]].csrf = xsrf'[b]
    BY <1>6, <1>8, <1>10, <1>14, <2>1 DEF TokensAgree
  <2>2. ASSUME NEW x \in Worker, req'[x].id \in Cookies!Id \ gone' PROVE rows'[req'[x].id].csrf = req'[x].csrf
    <3>1. CASE x = r
      <4>1. still
        BY <1>4, <1>5, <1>8, <2>2, <3>1
      <4>2. rows[old].csrf = req[r].csrf
        BY <1>1, <4>1 DEF TokensAgree, IdsGivenOut
      <4>3. QED BY <1>4, <1>5, <1>6, <3>1, <4>1, <4>2
    <3>2. CASE x # r
      BY <1>5, <1>6, <1>8, <1>14, <2>2, <3>2 DEF TokensAgree
    <3>3. QED BY <3>1, <3>2
  <2>3. QED BY <2>1, <2>2 DEF TokensAgree
<1>16. SignedInEverywhere'
  <2>1. ASSUME NEW i \in signed' \ gone' PROVE rows'[i].in
    BY <1>6, <1>7, <1>8, <1>9, <2>1 DEF SignedInEverywhere
  <2>2. ASSUME NEW x \in Worker, req'[x].id \in signed' \ gone' PROVE req'[x].in
    BY <1>4, <1>5, <1>7, <1>8, <1>9, <1>14, <2>2 DEF SignedInEverywhere
  <2>3. QED BY <2>1, <2>2 DEF SignedInEverywhere
<1>17. QED BY <1>11, <1>12, <1>13, <1>15, <1>16

LEMMA PasswordRight ==
    ASSUME Cookies!SessionsAssumption, SessionsInv, NEW r \in Worker, Cookies!login(r)
    PROVE  SessionsInv'
<1> USE DEF SessionsInv
<1>1. /\ req[r].id \in Cookies!Id /\ req[r].from \in Browser /\ UNCHANGED <<Cookies!factor, Cookies!browsers, wins, sent>>
  BY DEF Cookies!login, Cookies!At, UnderWay
<1>2. CASE confirmed
  <2> DEFINE e == [req[r] EXCEPT !.pc = "commit", !.held = TRUE, !.dirty = TRUE]
  <2>1. /\ e \in Copy /\ e.pc = "commit" /\ e.from = req[r].from
        /\ e.id = req[r].id /\ e.csrf = req[r].csrf /\ (req[r].in => e.in)
    BY DEF Typed, Copy
  <2>2. req' = [req EXCEPT ![r] = e] /\ UNCHANGED <<rows, made, gone, signed>>
    BY <1>2 DEF Cookies!login, Typed
  <2> HIDE DEF e
  <2>3. UNCHANGED <<rows, made, Cookies!factor, Cookies!browsers, Cookies!history>> /\ sent' \in 0..MaxSent
    BY <1>1, <2>2 DEF Cookies!history, Typed, Cookies!TypeOK
  <2>4. /\ req'[r] = e /\ \A x \in Worker \ {r} : req'[x] = req[x]
    BY <2>1, <2>2, OneCopy
  <2>5. UnderWay'
    BY <1>1, <2>1, <2>4 DEF UnderWay, Cookies!factor
  <2>6. QED BY <2>1, <2>2, <2>3, <2>5, CopyOnly
<1>3. CASE ~confirmed
  <2>1. Cookies!Login(r) /\ UNCHANGED <<confirmed, last, wins>>
    BY <1>1, <1>3 DEF Cookies!login, Cookies!factor
  <2>2. last' \in 0..MaxStep /\ wins' \in [1..MaxStep -> Nat]
    BY <2>1 DEF Typed, Cookies!TypeOK
  <2>3. StepsSpent'
    BY <2>1 DEF StepsSpent
  <2>4. QED BY <1>1, <2>1, <2>2, <2>3, LoginKeeps
<1>4. QED BY <1>2, <1>3

LEMMA CodeChallenged ==
    ASSUME Cookies!SessionsAssumption, SessionsInv, NEW r \in Worker, Cookies!twoFactorChallenge(r)
    PROVE  SessionsInv'
<1> USE DEF SessionsInv
<1> DEFINE e == IF req[r].held /\ confirmed /\ req[r].code > last
                  THEN [req[r] EXCEPT !.pc = "use"]
                  ELSE [req[r] EXCEPT !.pc = "commit", !.dirty = TRUE]
<1>1. /\ req[r].id \in Cookies!Id /\ req[r].from \in Browser /\ req[r].code \in 1..MaxStep
      /\ UNCHANGED <<rows, made, Cookies!factor, Cookies!browsers, Cookies!history, sent>>
  BY DEF Cookies!twoFactorChallenge, Cookies!At, UnderWay
<1>2. /\ e \in Copy /\ (e.pc = "commit" \/ (e.pc = "use" /\ confirmed)) /\ e.from = req[r].from
      /\ e.id = req[r].id /\ e.csrf = req[r].csrf /\ e.in = req[r].in /\ e.code = req[r].code
  BY DEF Typed, Copy
<1>3. req' = [req EXCEPT ![r] = e]
  BY DEF Cookies!twoFactorChallenge, Typed, Cookies!To
<1> HIDE DEF e
<1>4. req'[r] = e /\ \A x \in Worker \ {r} : req'[x] = req[x]
  BY <1>2, <1>3, OneCopy
<1>5. UnderWay'
  BY <1>1, <1>2, <1>4 DEF UnderWay, Cookies!factor
<1>6. sent' \in 0..MaxSent
  BY <1>1 DEF Typed, Cookies!TypeOK
<1>7. QED BY <1>1, <1>2, <1>3, <1>5, <1>6, CopyOnly

LEMMA CodeUsed ==
    ASSUME Cookies!SessionsAssumption, SessionsInv, NEW r \in Worker, Cookies!UseTwoFactorStep(r)
    PROVE  SessionsInv'
<1> USE DEF SessionsInv
<1>1. /\ req[r].id \in Cookies!Id /\ req[r].from \in Browser /\ req[r].code \in 1..MaxStep /\ confirmed
      /\ UNCHANGED <<confirmed, Cookies!browsers, sent>>
  BY DEF Cookies!UseTwoFactorStep, Cookies!At, UnderWay
<1>2. CASE last < req[r].code
  <2>1. /\ last' = req[r].code /\ wins' = [wins EXCEPT ![req[r].code] = @ + 1] /\ Cookies!Login(r)
    BY <1>2 DEF Cookies!UseTwoFactorStep
  <2>2. wins[req[r].code] = 0
    BY <1>1, <1>2 DEF StepsSpent, Typed, Cookies!TypeOK
  <2>3. last' \in 0..MaxStep /\ wins' \in [1..MaxStep -> Nat]
    BY <1>1, <2>1 DEF Typed, Cookies!TypeOK
  <2>4. StepsSpent'
    BY <1>1, <1>2, <2>1, <2>2 DEF StepsSpent, Typed, Cookies!TypeOK
  <2>5. QED BY <1>1, <2>1, <2>3, <2>4, LoginKeeps
<1>3. CASE ~(last < req[r].code)
  <2> DEFINE e == [req[r] EXCEPT !.pc = "commit", !.dirty = TRUE]
  <2>1. /\ e \in Copy /\ e.pc = "commit" /\ e.from = req[r].from
        /\ e.id = req[r].id /\ e.csrf = req[r].csrf /\ e.in = req[r].in
    BY DEF Typed, Copy
  <2>2. req' = [req EXCEPT ![r] = e] /\ UNCHANGED <<rows, made, last, gone, signed, wins>>
    BY <1>3 DEF Cookies!UseTwoFactorStep, Typed
  <2> HIDE DEF e
  <2>3. UNCHANGED <<rows, made, Cookies!factor, Cookies!browsers, Cookies!history>> /\ sent' \in 0..MaxSent
    BY <1>1, <2>2 DEF Cookies!factor, Cookies!history, Typed, Cookies!TypeOK
  <2>4. /\ req'[r] = e /\ \A x \in Worker \ {r} : req'[x] = req[x]
    BY <2>1, <2>2, OneCopy
  <2>5. UnderWay'
    BY <1>1, <2>1, <2>4 DEF UnderWay, Cookies!factor
  <2>6. QED BY <2>1, <2>2, <2>3, <2>5, CopyOnly
<1>4. QED BY <1>2, <1>3

\* Rows that are deleted, while the requests keep what they had or let go of it.
LEMMA DeletedKeeps ==
    ASSUME Cookies!SessionsAssumption, SessionsInv, NEW those \in SUBSET Cookies!Id, \A i \in those : i <= made,
           Cookies!Deleted(those), UNCHANGED <<made, Cookies!browsers, wins, signed>>,
           confirmed' \in BOOLEAN, last' \in 0..MaxStep, sent' \in 0..MaxSent,
           req' \in [Worker -> Copy],
           \A x \in Worker : \/ req'[x].id = Cookies!None
                             \/ /\ req'[x].id = req[x].id /\ req'[x].csrf = req[x].csrf
                                /\ req'[x].in = req[x].in
    PROVE  Typed' /\ IdsGivenOut' /\ TokensAgree' /\ SignedInEverywhere'
<1> USE DEF SessionsInv
<1>1. /\ rows' = [i \in Cookies!Id |-> IF i \in those THEN Cookies!NoRow ELSE rows[i]]
      /\ gone' = gone \cup those
      /\ UNCHANGED <<made, cookie, xsrf, wins, signed>>
  BY DEF Cookies!Deleted, Cookies!browsers
<1>2. Cookies!NoRow \in [there : BOOLEAN, in : BOOLEAN, csrf : Cookies!Id \cup {Cookies!None}, held : BOOLEAN] /\ ~Cookies!NoRow.there
  BY DEF Cookies!NoRow
<1>3. rows' \in [Cookies!Id -> [there : BOOLEAN, in : BOOLEAN, csrf : Cookies!Id \cup {Cookies!None}, held : BOOLEAN]]
  BY <1>1, <1>2 DEF Typed, Cookies!TypeOK
<1>4. Typed'
  BY <1>1, <1>3 DEF Typed, Cookies!TypeOK, Copy
<1>5. IdsGivenOut'
  <2>1. \A i \in Cookies!Id : rows'[i].there <=> i <= made /\ i \notin gone'
    BY <1>1, <1>2 DEF IdsGivenOut
  <2>2. \A i \in (gone \cup signed)' : i <= made'
    BY <1>1 DEF IdsGivenOut
  <2>3. \A b \in Browser : cookie'[b] <= made'
    BY <1>1 DEF IdsGivenOut
  <2>4. \A x \in Worker : req'[x].id <= made'
    BY <1>1 DEF IdsGivenOut, Typed, Cookies!TypeOK, Cookies!None
  <2>5. QED BY <1>1, <2>1, <2>2, <2>3, <2>4 DEF IdsGivenOut
<1>6. TokensAgree'
  <2>1. Cookies!None \notin Cookies!Id
    BY DEF Cookies!None, Cookies!Id
  <2>2. \A b \in Browser : cookie'[b] \in Cookies!Id \ gone' => rows'[cookie'[b]].csrf = xsrf'[b]
    BY <1>1 DEF TokensAgree
  <2>3. \A x \in Worker : req'[x].id \in Cookies!Id \ gone' => rows'[req'[x].id].csrf = req'[x].csrf
    BY <1>1, <2>1 DEF TokensAgree
  <2>4. QED BY <2>2, <2>3 DEF TokensAgree
<1>7. SignedInEverywhere'
  <2>1. Cookies!None \notin Cookies!Id
    BY DEF Cookies!None, Cookies!Id
  <2>2. QED BY <1>1, <2>1 DEF SignedInEverywhere, Typed, Cookies!TypeOK
<1>8. QED BY <1>4, <1>5, <1>6, <1>7

LEMMA OthersAreThere ==
    ASSUME SessionsInv, NEW r \in Worker
    PROVE  Cookies!OthersOf(r) \in SUBSET Cookies!Id /\ \A i \in Cookies!OthersOf(r) : i <= made
  BY DEF Cookies!OthersOf, SessionsInv, IdsGivenOut

LEMMA FactorConfirmed ==
    ASSUME Cookies!SessionsAssumption, SessionsInv, NEW r \in Worker, Cookies!twoFactorConfirm(r)
    PROVE  SessionsInv'
<1> USE DEF SessionsInv
<1> DEFINE says == ~confirmed
           e == [req[r] EXCEPT !.pc = "commit", !.dirty = says]
<1>0. says \in BOOLEAN
  OBVIOUS
<1>1. /\ req[r].from \in Browser /\ req[r].code \in 1..MaxStep
      /\ UNCHANGED <<made, Cookies!browsers, wins, signed, sent>>
  BY DEF Cookies!twoFactorConfirm, Cookies!At, UnderWay
<1>2. /\ e \in Copy /\ e.pc = "commit" /\ e.from = req[r].from
      /\ e.id = req[r].id /\ e.csrf = req[r].csrf /\ e.in = req[r].in
  <2> HIDE DEF says
  <2>1. QED BY <1>0 DEF Typed, Copy
<1>3. req' = [req EXCEPT ![r] = e]
  BY DEF Cookies!twoFactorConfirm, Typed
<1> HIDE DEF e
<1>4. /\ req' \in [Worker -> Copy] /\ req'[r] = e
      /\ \A x \in Worker \ {r} : req'[x] = req[x]
  BY <1>2, <1>3, OneCopy
<1>5. sent' \in 0..MaxSent
  BY <1>1 DEF Typed, Cookies!TypeOK
<1>6. CASE confirmed
  <2>1. UNCHANGED <<rows, made, Cookies!factor, Cookies!browsers, Cookies!history>>
    BY <1>1, <1>6 DEF Cookies!twoFactorConfirm, Cookies!factor, Cookies!history
  <2>2. UnderWay'
    BY <1>1, <1>2, <1>4, <2>1 DEF UnderWay, Cookies!factor
  <2>3. QED BY <1>2, <1>3, <1>5, <2>1, <2>2, CopyOnly
<1>7. CASE ~confirmed
  <2>1. confirmed' = TRUE /\ last' = req[r].code /\ Cookies!Deleted(Cookies!OthersOf(r))
    BY <1>7 DEF Cookies!twoFactorConfirm
  <2>2. UnderWay'
    BY <1>1, <1>2, <1>4, <2>1 DEF UnderWay
  <2>3. StepsSpent'
    BY <1>1, <1>7, <2>1 DEF StepsSpent
  <2>4. last' \in 0..MaxStep
    BY <1>1, <2>1
  <2>5. QED BY <1>1, <1>2, <1>4, <1>5, <2>1, <2>2, <2>3, <2>4, OthersAreThere, DeletedKeeps
<1>8. QED BY <1>6, <1>7

LEMMA OthersRevoked ==
    ASSUME Cookies!SessionsAssumption, SessionsInv, NEW r \in Worker, Cookies!RevokeOtherSessions(r)
    PROVE  SessionsInv'
<1> USE DEF SessionsInv
<1> DEFINE e == [req[r] EXCEPT !.pc = "commit", !.dirty = TRUE]
<1>1. /\ req[r].from \in Browser /\ Cookies!Deleted(Cookies!OthersOf(r))
      /\ UNCHANGED <<made, Cookies!factor, Cookies!browsers, wins, signed, sent>>
  BY DEF Cookies!RevokeOtherSessions, Cookies!At, UnderWay
<1>2. /\ e \in Copy /\ e.pc = "commit" /\ e.from = req[r].from
      /\ e.id = req[r].id /\ e.csrf = req[r].csrf /\ e.in = req[r].in
  BY DEF Typed, Copy
<1>3. req' = [req EXCEPT ![r] = e]
  BY DEF Cookies!RevokeOtherSessions, Typed
<1> HIDE DEF e
<1>4. /\ req' \in [Worker -> Copy] /\ req'[r] = e
      /\ \A x \in Worker \ {r} : req'[x] = req[x]
  BY <1>2, <1>3, OneCopy
<1>5. sent' \in 0..MaxSent /\ last' \in 0..MaxStep /\ confirmed' \in BOOLEAN
  BY <1>1 DEF Typed, Cookies!TypeOK, Cookies!factor
<1>6. UnderWay'
  BY <1>1, <1>2, <1>4 DEF UnderWay, Cookies!factor
<1>7. StepsSpent'
  BY <1>1 DEF StepsSpent, Cookies!factor
<1>8. QED BY <1>1, <1>2, <1>4, <1>5, <1>6, <1>7, OthersAreThere, DeletedKeeps

LEMMA LoggedOut ==
    ASSUME Cookies!SessionsAssumption, SessionsInv, NEW r \in Worker, Cookies!Logout(r)
    PROVE  SessionsInv'
<1> USE DEF SessionsInv
<1> DEFINE e == [req[r] EXCEPT !.pc = "commit", !.id = Cookies!None, !.csrf = Cookies!None, !.dirty = FALSE, !.sets = TRUE]
<1>1. /\ req[r].from \in Browser /\ req[r].id \in Cookies!Id /\ Cookies!Deleted({req[r].id})
      /\ UNCHANGED <<made, Cookies!factor, Cookies!browsers, wins, signed, sent>>
  BY DEF Cookies!Logout, Cookies!At, UnderWay, Cookies!factor, Cookies!browsers
<1>2. e \in Copy /\ e.pc = "commit" /\ e.from = req[r].from /\ e.id = Cookies!None
  <2>1. req[r] \in Copy
    BY DEF Typed
  <2>2. e.pc = "commit" /\ e.from = req[r].from /\ e.id = Cookies!None
    BY <2>1 DEF Copy
  <2>3. e \in [kind : Cookies!Kind, from : Browser \cup {Cookies!None}, names : Cookies!Id \cup {Cookies!None}, shows : Cookies!Id \cup {Cookies!None},
               pc : {"commit"}, id : {Cookies!None}, in : BOOLEAN, csrf : {Cookies!None}, held : BOOLEAN,
               dirty : {FALSE}, sets : {TRUE}, code : 0..MaxStep]
    BY <2>1 DEF Copy
  <2> HIDE DEF e
  <2>4. e \in Copy
    BY <2>3 DEF Copy
  <2>5. QED BY <2>2, <2>4
<1>3. req' = [req EXCEPT ![r] = e]
  BY DEF Cookies!Logout, Typed
<1> HIDE DEF e
<1>4. /\ req' \in [Worker -> Copy] /\ req'[r] = e
      /\ \A x \in Worker \ {r} : req'[x] = req[x]
  BY <1>2, <1>3, OneCopy
<1>5. sent' \in 0..MaxSent /\ last' \in 0..MaxStep /\ confirmed' \in BOOLEAN
  BY <1>1 DEF Typed, Cookies!TypeOK, Cookies!factor
<1>6. UnderWay'
  BY <1>1, <1>2, <1>4 DEF UnderWay, Cookies!factor
<1>7. StepsSpent'
  BY <1>1 DEF StepsSpent, Cookies!factor
<1>8. {req[r].id} \in SUBSET Cookies!Id /\ \A i \in {req[r].id} : i <= made
  BY <1>1 DEF IdsGivenOut
<1>9. QED BY <1>1, <1>2, <1>4, <1>5, <1>6, <1>7, <1>8, DeletedKeeps

LEMMA Pruned ==
    ASSUME Cookies!SessionsAssumption, SessionsInv, NEW i \in Cookies!Id, Cookies!Prune(i)
    PROVE  SessionsInv'
<1> USE DEF SessionsInv
<1>1. /\ Cookies!Deleted({i}) /\ i <= made /\ UNCHANGED <<made, Cookies!factor, Cookies!browsers, req, wins, signed>>
  BY DEF Cookies!Prune, IdsGivenOut
<1>2. /\ sent' \in 0..MaxSent /\ last' \in 0..MaxStep /\ confirmed' \in BOOLEAN
      /\ req' \in [Worker -> Copy]
  BY <1>1 DEF Cookies!Prune, Typed, Cookies!TypeOK, Cookies!factor, Cookies!SessionsAssumption
<1>3. UnderWay'
  BY <1>1 DEF UnderWay, Cookies!factor
<1>4. StepsSpent'
  BY <1>1 DEF StepsSpent, Cookies!factor
<1>5. QED BY <1>1, <1>2, <1>3, <1>4, DeletedKeeps

\* Where writing back could undo something: over a row that is there, a copy
\* has its token, and its sign-in if it had one.
LEMMA Committed ==
    ASSUME Cookies!SessionsAssumption, SessionsInv, NEW r \in Worker, Cookies!commit(r)
    PROVE  SessionsInv'
<1> USE DEF SessionsInv
<1> DEFINE e == [req[r] EXCEPT !.pc = "answer"]
           q == req[r]
           writes == q.id # Cookies!None /\ q.dirty /\ rows[q.id].there
           row == [there |-> TRUE, in |-> q.in, csrf |-> q.csrf, held |-> q.held]
<1>1. /\ q.from \in Browser /\ q \in Copy /\ UNCHANGED <<made, Cookies!factor, Cookies!browsers, Cookies!history, sent>>
  BY DEF Cookies!commit, Cookies!At, UnderWay, Typed
<1>2. /\ e \in Copy /\ e.pc = "answer" /\ e.from = q.from
      /\ e.id = q.id /\ e.csrf = q.csrf /\ e.in = q.in
  BY <1>1 DEF Copy
<1>3. req' = [req EXCEPT ![r] = e]
  BY DEF Cookies!commit, Cookies!To, Typed
<1>4. /\ req' \in [Worker -> Copy] /\ req'[r] = e
      /\ \A x \in Worker \ {r} : req'[x] = req[x]
  BY <1>2, <1>3, OneCopy
<1> HIDE DEF e
<1>5. UnderWay'
  BY <1>1, <1>2, <1>4 DEF UnderWay, Cookies!factor
<1>6. sent' \in 0..MaxSent
  BY <1>1 DEF Typed, Cookies!TypeOK
<1>7. CASE writes
  <2>1. rows' = [rows EXCEPT ![q.id] = row]
    BY <1>7 DEF Cookies!commit
  <2>2. q.id \in Cookies!Id /\ q.id \notin gone
    BY <1>1, <1>7 DEF Copy, IdsGivenOut
  <2>3. row \in [there : BOOLEAN, in : BOOLEAN, csrf : Cookies!Id \cup {Cookies!None}, held : BOOLEAN]
    BY <1>1 DEF Copy
  <2>4. row.there /\ row.csrf = rows[q.id].csrf /\ (q.id \in signed => row.in)
    BY <2>2 DEF TokensAgree, SignedInEverywhere
  <2> HIDE DEF row
  <2>5. /\ rows' \in [Cookies!Id -> [there : BOOLEAN, in : BOOLEAN, csrf : Cookies!Id \cup {Cookies!None}, held : BOOLEAN]]
        /\ rows'[q.id] = row /\ \A i \in Cookies!Id \ {q.id} : rows'[i] = rows[i]
    BY <2>1, <2>2, <2>3 DEF Typed, Cookies!TypeOK
  <2>6. UNCHANGED <<made, confirmed, last, cookie, xsrf, gone, wins, signed, sent>>
    BY <1>1 DEF Cookies!factor, Cookies!browsers, Cookies!history
  <2>7. Typed'
    BY <1>4, <2>5, <2>6 DEF Typed, Cookies!TypeOK, Copy
  <2>8. IdsGivenOut'
    BY <1>2, <1>4, <1>7, <2>2, <2>4, <2>5, <2>6 DEF IdsGivenOut
  <2>9. TokensAgree'
    BY <1>2, <1>4, <2>2, <2>4, <2>5, <2>6 DEF TokensAgree
  <2>10. SignedInEverywhere'
    BY <1>2, <1>4, <2>2, <2>4, <2>5, <2>6 DEF SignedInEverywhere, Typed, Cookies!TypeOK
  <2>11. StepsSpent'
    BY <2>6 DEF StepsSpent
  <2>12. QED BY <1>5, <2>7, <2>8, <2>9, <2>10, <2>11
<1>8. CASE ~writes
  <2>1. rows' = rows
    BY <1>8, Zenon DEF Cookies!commit
  <2>2. QED BY <1>1, <1>2, <1>3, <1>5, <1>6, <2>1, CopyOnly
<1>9. QED BY <1>7, <1>8

\* The answer may be an old one: what its cookies name has the token they show,
\* or is gone.
LEMMA Arrived ==
    ASSUME Cookies!SessionsAssumption, SessionsInv, NEW r \in Worker, Cookies!Arrive(r)
    PROVE  SessionsInv'
<1> USE DEF SessionsInv
<1>1. /\ req[r].from \in Browser /\ req[r] \in Copy /\ req' = [req EXCEPT ![r] = Cookies!Resting]
      /\ UNCHANGED <<rows, made, Cookies!factor, Cookies!history, sent>>
  BY DEF Cookies!Arrive, Cookies!At, UnderWay, Typed
<1>2. CASE req[r].sets
  <2>1. /\ cookie' = [cookie EXCEPT ![req[r].from] = req[r].id]
        /\ xsrf' = [xsrf EXCEPT ![req[r].from] = req[r].csrf]
    BY <1>2 DEF Cookies!Arrive
  <2>2. /\ req' \in [Worker -> Copy] /\ req'[r] = Cookies!Resting
        /\ \A x \in Worker \ {r} : req'[x] = req[x]
    BY <1>1, RestingIs, OneCopy
  <2>3. /\ cookie' \in [Browser -> Cookies!Id \cup {Cookies!None}] /\ xsrf' \in [Browser -> Cookies!Id \cup {Cookies!None}]
    BY <1>1, <2>1 DEF Typed, Cookies!TypeOK, Copy
  <2>4. UNCHANGED <<rows, made, confirmed, last, gone, wins, signed, sent>>
    BY <1>1 DEF Cookies!factor, Cookies!history
  <2>5. Typed'
    BY <2>2, <2>3, <2>4 DEF Typed, Cookies!TypeOK, Copy
  <2>6. UnderWay'
    BY <2>2, <2>4, RestingIs DEF UnderWay
  <2>7. IdsGivenOut'
    BY <1>1, <2>1, <2>2, <2>4, RestingIs DEF IdsGivenOut, Typed, Cookies!TypeOK, Cookies!None
  <2>8. TokensAgree'
    BY <1>1, <2>1, <2>2, <2>4, RestingIs DEF TokensAgree, Typed, Cookies!TypeOK, Cookies!None, Cookies!Id
  <2>9. SignedInEverywhere'
    BY <2>2, <2>4, RestingIs DEF SignedInEverywhere, Typed, Cookies!TypeOK, Cookies!None, Cookies!Id
  <2>10. StepsSpent'
    BY <2>4 DEF StepsSpent
  <2>11. QED BY <2>5, <2>6, <2>7, <2>8, <2>9, <2>10
<1>3. CASE ~req[r].sets
  BY <1>1, <1>3, Rested DEF Cookies!Arrive
<1>4. QED BY <1>2, <1>3

(***************************************************************************)
(* The theorems.                                                           *)
(***************************************************************************)
LEMMA Steps == Cookies!SessionsAssumption /\ SessionsInv /\ [Cookies!Next]_(Cookies!vars) => SessionsInv'
<1> SUFFICES ASSUME Cookies!SessionsAssumption, SessionsInv, [Cookies!Next]_(Cookies!vars) PROVE SessionsInv'
  OBVIOUS
<1>1. CASE UNCHANGED Cookies!vars
  <2>1. UNCHANGED <<rows, made, confirmed, last, cookie, xsrf, req, gone, wins, signed, sent>>
    BY <1>1 DEF Cookies!vars
  <2>2. Typed' /\ UnderWay'
    BY <2>1 DEF SessionsInv, Typed, Cookies!TypeOK, Copy, UnderWay
  <2>3. IdsGivenOut' /\ TokensAgree' /\ SignedInEverywhere' /\ StepsSpent'
    BY <2>1 DEF SessionsInv, IdsGivenOut, TokensAgree, SignedInEverywhere, StepsSpent
  <2>4. QED BY <2>2, <2>3 DEF SessionsInv
<1>2. ASSUME NEW i \in Cookies!Id, Cookies!Prune(i) PROVE SessionsInv'
  BY <1>2, Pruned
<1>3. ASSUME NEW r \in Worker,
             \/ \E b \in Browser, sort \in Cookies!Kind : Cookies!Send(r, b, sort)
             \/ Cookies!load(r) \/ Cookies!create(r) \/ Cookies!login(r) \/ Cookies!twoFactorChallenge(r) \/ Cookies!UseTwoFactorStep(r)
             \/ Cookies!twoFactorConfirm(r) \/ Cookies!RevokeOtherSessions(r) \/ Cookies!Logout(r) \/ Cookies!commit(r)
             \/ Cookies!Arrive(r) \/ Cookies!Lose(r)
      PROVE  SessionsInv'
  <2>1. CASE \E b \in Browser, sort \in Cookies!Kind : Cookies!Send(r, b, sort)
    BY <2>1, Sent
  <2>2. CASE Cookies!load(r) \/ Cookies!create(r)
    BY <2>2, Loaded, Created
  <2>3. CASE Cookies!login(r) \/ Cookies!twoFactorChallenge(r) \/ Cookies!UseTwoFactorStep(r) \/ Cookies!twoFactorConfirm(r)
    BY <2>3, PasswordRight, CodeChallenged, CodeUsed, FactorConfirmed
  <2>4. CASE Cookies!RevokeOtherSessions(r) \/ Cookies!Logout(r)
    BY <2>4, OthersRevoked, LoggedOut
  <2>5. CASE Cookies!commit(r) \/ Cookies!Arrive(r)
    BY <2>5, Committed, Arrived
  <2>6. CASE Cookies!Lose(r)
    BY <2>6, Rested DEF Cookies!Lose, Cookies!factor, Cookies!browsers, Cookies!history
  <2>7. QED BY <1>3, <2>1, <2>2, <2>3, <2>4, <2>5, <2>6
<1>4. QED BY <1>1, <1>2, <1>3 DEF Cookies!Next

LEMMA Promises == Cookies!SessionsAssumption /\ SessionsInv => Cookies!SessionsKept
<1> SUFFICES ASSUME Cookies!SessionsAssumption, SessionsInv PROVE Cookies!SessionsKept
  OBVIOUS
<1> USE DEF SessionsInv
<1>1. Cookies!TypeOK
  BY DEF Typed
<1>2. Cookies!TokenMatches
  BY DEF Cookies!TokenMatches, TokensAgree, IdsGivenOut, Typed, Cookies!TypeOK
<1>3. Cookies!EndedStaysOut
  BY DEF Cookies!EndedStaysOut, IdsGivenOut, SignedInEverywhere
<1>4. Cookies!CodeOnce
  BY DEF Cookies!CodeOnce, StepsSpent
<1>5. QED BY <1>1, <1>2, <1>3, <1>4 DEF Cookies!SessionsKept


CookiesInv == focus = "cookies" => SessionsInv

LEMMA CookiesFirst == Init => CookiesInv
<1> SUFFICES ASSUME Init, focus = "cookies" PROVE SessionsInv
  BY DEF CookiesInv
<1>1. Cookies!Init
  BY DEF Init
<1>2. QED BY <1>1, CookiesAssumption, Begins

LEMMA CookiesNext == CookiesInv /\ [Next]_vars => CookiesInv'
<1> SUFFICES ASSUME CookiesInv, [Next]_vars, focus' = "cookies" PROVE SessionsInv'
  BY DEF CookiesInv
<1>1. focus = "cookies" /\ (Cookies!Next \/ UNCHANGED cookieVars)
  BY DEF Next, vars
<1>2. UNCHANGED cookieVars => UNCHANGED Cookies!vars
  BY DEF cookieVars, Cookies!vars
<1>3. [Cookies!Next]_(Cookies!vars)
  BY <1>1, <1>2
<1>4. SessionsInv /\ Cookies!SessionsAssumption
  BY <1>1, CookiesAssumption DEF CookiesInv
<1>5. QED BY <1>3, <1>4, Steps

\* Whatever the order in which requests read their row, write it back and are
\* answered, and whichever answers are lost: a browser's cookies name a row whose
\* token they show, or one that has been ended; an ended session is not brought
\* back, nor a sign-in taken out of its row; and no code lets two requests in.
THEOREM SignInCorrect == Spec => []SessionsKept
<1>1. Init => CookiesInv
  BY CookiesFirst
<1>2. CookiesInv /\ [Next]_vars => CookiesInv'
  BY CookiesNext
<1>3. CookiesInv => SessionsKept
  BY CookiesAssumption, Promises DEF CookiesInv, SessionsKept
<1>4. QED BY <1>1, <1>2, <1>3, PTL DEF Spec

-----------------------------------------------------------------------------
\* DnsAccounts. What the two promises of AccountsKept rest on: a removal's rows
\* stay clear once it has cleared them, except the rows a form saved meanwhile
\* (Cleared), and what a request has tried is what its row says unless the
\* row's secret was changed while it waited (Tried). A request works on a
\* credential that was stored (Named), which keeps a removed one from coming back.

KeysRow == [state : {"none", "there", "gone"}, token : Visitor \cup {Keys!None}, verified : BOOLEAN]
KeysRun == [job : {"none", "connect", "update", "verify", "delete", "form"},
            at : {"idle", "ask", "insert", "mark", "write", "sites", "mail", "row"},
            of : Db \cup {Keys!None}, owner : Keys!Owner, token : Visitor \cup {Keys!None},
            answer : BOOLEAN, crossed : BOOLEAN]

KeysTyped ==
    /\ account \in [Db -> KeysRow]
    /\ uses \in [Keys!Owner -> Db \cup {Keys!None, Keys!Absent}]
    /\ valid \subseteq Visitor /\ answered \subseteq Visitor
    /\ requests \in [Worker -> KeysRun]
    /\ crossed \subseteq Db /\ stray \subseteq Keys!Owner
    /\ called \in 0..MaxHappened /\ upsets \in 0..MaxTroubles

\* A request names a credential that was stored; a new one has none yet.
Named(w) ==
    /\ requests[w].of \in Db => account[requests[w].of].state # "none"
    /\ requests[w].of = Keys!None <=> \/ requests[w].job = "none"
                                      \/ /\ requests[w].job = "connect"
                                         /\ requests[w].at \in {"ask", "insert"}

\* A credential that is not there was not verified.
NotThereYet == \A a \in Db : account[a].verified => Keys!There(a)

\* The rows a removal has cleared do not name the credential again.
Cleared(w) ==
    requests[w].job = "delete" =>
        \A o \in Keys!Owner \ stray :
            requests[w].at \in (IF o = "site" THEN {"mail", "row"} ELSE {"row"}) =>
                uses[o] # requests[w].of

\* What a request has tried is what the row says, unless it was changed since.
Tried(w) ==
    requests[w].job \in {"connect", "verify"} =>
        /\ requests[w].at = "insert" => requests[w].token \in answered
        /\ requests[w].at = "mark" /\ requests[w].answer => requests[w].token \in answered
        /\ requests[w].of \in Db /\ ~requests[w].crossed =>
              (Keys!There(requests[w].of) => account[requests[w].of].token = requests[w].token)

KeysInv == /\ KeysTyped /\ NotThereYet /\ Keys!RowsPointAtOne /\ Keys!VerifiedAnswered
           /\ \A w \in Worker : Named(w) /\ Cleared(w) /\ Tried(w)

LEMMA KeysMove ==
    ASSUME KeysInv, NEW w \in Worker, NEW r \in KeysRun, requests' = [requests EXCEPT ![w] = r]
    PROVE  /\ requests' \in [Worker -> KeysRun] /\ requests'[w] = r
           /\ \A v \in Worker \ {w} : requests'[v] = requests[v]
BY DEF KeysInv, KeysTyped

\* A request that changes neither the credentials nor the rows.
LEMMA KeysQuiet ==
    ASSUME KeysInv, NEW w \in Worker, NEW r \in KeysRun, requests' = [requests EXCEPT ![w] = r],
           UNCHANGED <<account, uses, valid, crossed, stray, upsets>>,
           answered \subseteq answered', answered' \subseteq Visitor,
           called' \in 0..MaxHappened,
           (Named(w) /\ Cleared(w) /\ Tried(w))'
    PROVE  KeysInv'
<1>1. /\ requests' \in [Worker -> KeysRun]
      /\ \A v \in Worker \ {w} : requests'[v] = requests[v]
  BY KeysMove
<1>2. KeysTyped'
  BY <1>1 DEF KeysInv, KeysTyped
<1>3. NotThereYet' /\ Keys!RowsPointAtOne'
  BY DEF KeysInv, NotThereYet, Keys!RowsPointAtOne, Keys!There
<1>4. Keys!VerifiedAnswered'
  BY DEF KeysInv, Keys!VerifiedAnswered
<1>5. ASSUME NEW v \in Worker PROVE Named(v)' /\ Cleared(v)' /\ Tried(v)'
  <2>1. CASE v = w
    BY <2>1
  <2>2. CASE v # w
    BY <1>1, <2>2 DEF KeysInv, Named, Cleared, Tried, Keys!There
  <2>3. QED BY <2>1, <2>2
<1>6. QED BY <1>2, <1>3, <1>4, <1>5 DEF KeysInv

LEMMA KeysRest ==
    ASSUME KeysInv, Keys!KeysAssumption
    PROVE  /\ Keys!Resting \in KeysRun /\ Keys!Resting.job = "none" /\ Keys!Resting.of = Keys!None
           /\ Keys!Resting.at = "idle" /\ Keys!None \notin Db
           /\ Keys!Resting.answer = FALSE /\ Keys!Resting.crossed = FALSE
BY DEF Keys!Resting, KeysRun, Keys!Owner, Keys!KeysAssumption

LEMMA KeysAt ==
    ASSUME KeysInv, NEW w \in Worker
    PROVE  /\ requests[w] \in KeysRun /\ requests[w].token \in Visitor \cup {Keys!None}
           /\ requests[w].of \in Db \cup {Keys!None} /\ requests[w].owner \in Keys!Owner
           /\ requests[w].job \in {"none", "connect", "update", "verify", "delete", "form"}
           /\ requests[w].answer \in BOOLEAN /\ requests[w].crossed \in BOOLEAN
BY DEF KeysInv, KeysTyped, KeysRun

LEMMA KeysCalled ==
    ASSUME KeysInv, Keys!KeysAssumption, NEW w \in Worker, NEW r, Keys!Request(w, r)
    PROVE  /\ requests' = [requests EXCEPT ![w] = r] /\ called' \in 0..MaxHappened
BY DEF Keys!Request, KeysInv, KeysTyped, Keys!KeysAssumption

\* Nobody has begun anything.
LEMMA KeysOver ==
    ASSUME KeysInv, Keys!KeysAssumption, NEW w \in Worker, Keys!Over(w),
           UNCHANGED <<account, uses, valid, answered, crossed, stray, called, upsets>>
    PROVE  KeysInv'
<1> DEFINE r == Keys!Resting
<1>1. /\ r \in KeysRun /\ r.job = "none" /\ r.of = Keys!None /\ Keys!None \notin Db
      /\ requests' = [requests EXCEPT ![w] = r]
  BY KeysRest DEF Keys!Over
<1> HIDE DEF r
<1>2. requests'[w] = r
  BY <1>1, KeysMove
<1>3. (Named(w) /\ Cleared(w) /\ Tried(w))'
  BY <1>1, <1>2 DEF Named, Cleared, Tried
<1>4. answered' \subseteq Visitor /\ called' \in 0..MaxHappened
  BY DEF KeysInv, KeysTyped
<1>5. QED BY <1>1, <1>3, <1>4, KeysQuiet

LEMMA dnsStoreKeeps ==
    ASSUME KeysInv, Keys!KeysAssumption, NEW w \in Worker, NEW t \in Visitor, Keys!dnsStore(w, t)
    PROVE  KeysInv'
<1> DEFINE r == [Keys!Resting EXCEPT !.job = "connect", !.at = "ask", !.token = t]
<1>1. Keys!Request(w, r) /\ UNCHANGED <<account, uses, valid, answered, crossed, stray, upsets>>
  BY DEF Keys!dnsStore
<1>2. r \in KeysRun /\ r.job = "connect" /\ r.at = "ask" /\ r.of = Keys!None
  BY KeysRest DEF KeysRun
<1> HIDE DEF r
<1>3. requests' = [requests EXCEPT ![w] = r] /\ called' \in 0..MaxHappened
  BY <1>1, KeysCalled
<1>4. requests'[w] = r
  BY <1>2, <1>3, KeysMove
<1>5. (Named(w) /\ Cleared(w) /\ Tried(w))'
  BY <1>2, <1>4, KeysRest DEF Named, Cleared, Tried
<1>6. answered' \subseteq Visitor
  BY <1>1 DEF KeysInv, KeysTyped
<1>7. QED BY <1>1, <1>2, <1>3, <1>5, <1>6, KeysQuiet

\* A request about a credential that is there.
LEMMA KeysAsk ==
    ASSUME KeysInv, Keys!KeysAssumption, NEW w \in Worker, NEW a \in Db, Keys!There(a),
           NEW r \in KeysRun, r.of = a,
           r.job \in {"update", "verify", "delete", "form"},
           r.at \in {"ask", "write", "sites"},
           r.job = "verify" => r.token = account[a].token,
           Keys!Request(w, r),
           UNCHANGED <<account, uses, valid, answered, crossed, stray, upsets>>
    PROVE  KeysInv'
<1>1. requests' = [requests EXCEPT ![w] = r] /\ called' \in 0..MaxHappened
  BY KeysCalled
<1>2. requests'[w] = r
  BY <1>1, KeysMove
<1>3. Named(w)'
  BY <1>2, KeysRest DEF Named, Keys!There
<1>4. Cleared(w)'
  BY <1>2 DEF Cleared
<1>5. Tried(w)'
  BY <1>2 DEF Tried
<1>6. answered' \subseteq Visitor
  BY DEF KeysInv, KeysTyped
<1>7. QED BY <1>1, <1>3, <1>4, <1>5, <1>6, KeysQuiet

LEMMA PagesAsk ==
    ASSUME KeysInv, Keys!KeysAssumption, NEW w \in Worker, NEW a \in Db,
           \/ Keys!dnsVerify(w, a) \/ Keys!dnsDestroy(w, a)
           \/ \E t \in Visitor \cup {Keys!None} : Keys!dnsUpdate(w, a, t)
           \/ \E o \in Keys!Owner : Keys!Choose(w, o, a)
    PROVE  KeysInv'
<1>1. CASE Keys!dnsVerify(w, a)
  <2> DEFINE r == [Keys!Resting EXCEPT !.job = "verify", !.at = "ask", !.of = a,
                                       !.token = account[a].token]
  <2>1. /\ Keys!There(a) /\ Keys!Request(w, r)
        /\ UNCHANGED <<account, uses, valid, answered, crossed, stray, upsets>>
    BY <1>1 DEF Keys!dnsVerify
  <2>2. account[a].token \in Visitor \cup {Keys!None}
    BY DEF KeysInv, KeysTyped, KeysRow
  <2>3. r \in KeysRun /\ r.of = a /\ r.job = "verify" /\ r.at = "ask" /\ r.token = account[a].token
    BY <2>2, KeysRest DEF KeysRun
  <2> HIDE DEF r
  <2>4. QED BY <2>1, <2>3, KeysAsk
<1>2. CASE Keys!dnsDestroy(w, a)
  <2> DEFINE r == [Keys!Resting EXCEPT !.job = "delete", !.at = "sites", !.of = a]
  <2>1. /\ Keys!There(a) /\ Keys!Request(w, r)
        /\ UNCHANGED <<account, uses, valid, answered, crossed, stray, upsets>>
    BY <1>2 DEF Keys!dnsDestroy
  <2>2. r \in KeysRun /\ r.of = a /\ r.job = "delete" /\ r.at = "sites"
    BY KeysRest DEF KeysRun
  <2> HIDE DEF r
  <2>3. QED BY <2>1, <2>2, KeysAsk
<1>3. ASSUME NEW t \in Visitor \cup {Keys!None}, Keys!dnsUpdate(w, a, t) PROVE KeysInv'
  <2> DEFINE r == [Keys!Resting EXCEPT !.job = "update", !.at = "write", !.of = a, !.token = t]
  <2>1. /\ Keys!There(a) /\ Keys!Request(w, r)
        /\ UNCHANGED <<account, uses, valid, answered, crossed, stray, upsets>>
    BY <1>3 DEF Keys!dnsUpdate
  <2>2. r \in KeysRun /\ r.of = a /\ r.job = "update" /\ r.at = "write"
    BY KeysRest DEF KeysRun
  <2> HIDE DEF r
  <2>3. QED BY <2>1, <2>2, KeysAsk
<1>4. ASSUME NEW o \in Keys!Owner, Keys!Choose(w, o, a) PROVE KeysInv'
  <2> DEFINE r == [Keys!Resting EXCEPT !.job = "form", !.at = "ask", !.owner = o, !.of = a]
  <2>1. /\ Keys!There(a) /\ Keys!Request(w, r)
        /\ UNCHANGED <<account, uses, valid, answered, crossed, stray, upsets>>
    BY <1>4 DEF Keys!Choose
  <2>2. r \in KeysRun /\ r.of = a /\ r.job = "form" /\ r.at = "ask"
    BY KeysRest DEF KeysRun
  <2> HIDE DEF r
  <2>3. QED BY <2>1, <2>2, KeysAsk
<1>5. QED BY <1>1, <1>2, <1>3, <1>4

LEMMA TryNewKeeps ==
    ASSUME KeysInv, Keys!KeysAssumption, NEW w \in Worker, Keys!TryNew(w)
    PROVE  KeysInv'
<1>1. /\ requests[w].job = "connect" /\ requests[w].at = "ask"
      /\ UNCHANGED <<account, uses, valid, crossed, stray, called, upsets>>
  BY DEF Keys!TryNew, Keys!Doing
<1>2. CASE requests[w].token \in valid
  <2> DEFINE r == [requests[w] EXCEPT !.at = "insert"]
  <2>1. requests' = [requests EXCEPT ![w] = r] /\ answered' = answered \cup {requests[w].token}
    BY <1>2 DEF Keys!TryNew, Keys!Step
  <2>2. /\ r \in KeysRun /\ r.job = "connect" /\ r.at = "insert"
        /\ r.of = requests[w].of /\ r.token = requests[w].token
    BY <1>1, KeysAt DEF KeysRun
  <2> HIDE DEF r
  <2>3. requests'[w] = r
    BY <2>1, <2>2, KeysMove
  <2>4. requests[w].of = Keys!None
    BY <1>1 DEF KeysInv, Named
  <2>5. (Named(w) /\ Cleared(w) /\ Tried(w))'
    BY <2>1, <2>2, <2>3, <2>4, KeysRest DEF Named, Cleared, Tried
  <2>6. answered \subseteq answered' /\ answered' \subseteq Visitor /\ called' \in 0..MaxHappened
    BY <1>1, <1>2, <2>1 DEF KeysInv, KeysTyped
  <2>7. QED BY <1>1, <2>1, <2>2, <2>5, <2>6, KeysQuiet
<1>3. CASE requests[w].token \notin valid
  BY <1>1, <1>3, KeysOver DEF Keys!TryNew
<1>4. QED BY <1>2, <1>3

LEMMA VerifyKeeps ==
    ASSUME KeysInv, Keys!KeysAssumption, NEW w \in Worker, Keys!Verify(w)
    PROVE  KeysInv'
<1> DEFINE yes == requests[w].token \in valid
           r == [requests[w] EXCEPT !.at = "mark", !.answer = yes]
<1>1. /\ requests[w].job = "verify" /\ requests[w].at = "ask"
      /\ UNCHANGED <<account, uses, valid, crossed, stray, called, upsets>>
      /\ requests' = [requests EXCEPT ![w] = r]
      /\ answered' = answered \cup ({requests[w].token} \cap valid)
  BY DEF Keys!Verify, Keys!Doing
<1>2. /\ yes \in BOOLEAN /\ (yes => requests[w].token \in answered')
      /\ answered \subseteq answered' /\ answered' \subseteq Visitor /\ called' \in 0..MaxHappened
  BY <1>1 DEF KeysInv, KeysTyped
<1> HIDE DEF yes
<1>3. /\ r \in KeysRun /\ r.job = "verify" /\ r.at = "mark" /\ r.of = requests[w].of
      /\ r.token = requests[w].token /\ r.answer = yes /\ r.crossed = requests[w].crossed
  BY <1>1, <1>2, KeysAt DEF KeysRun
<1> HIDE DEF r
<1>4. requests'[w] = r
  BY <1>1, <1>3, KeysMove
<1>5. Named(w)' /\ Cleared(w)'
  BY <1>1, <1>3, <1>4 DEF KeysInv, Named, Cleared
<1>6. Tried(w)'
  BY <1>1, <1>2, <1>3, <1>4 DEF KeysInv, Tried, Keys!There
<1>7. QED BY <1>1, <1>2, <1>3, <1>5, <1>6, KeysQuiet

LEMMA CreateAccountKeeps ==
    ASSUME KeysInv, Keys!KeysAssumption, NEW w \in Worker, Keys!CreateDNSAccount(w)
    PROVE  KeysInv'
<1>1. /\ requests[w].job = "connect" /\ requests[w].at = "insert"
      /\ UNCHANGED <<uses, valid, answered, crossed, stray, called, upsets>>
  BY DEF Keys!CreateDNSAccount, Keys!Doing
<1>2. PICK a \in Db :
        /\ account[a].state = "none"
        /\ account' = [account EXCEPT ![a] = [state |-> "there", token |-> requests[w].token,
                                              verified |-> FALSE]]
        /\ requests' = [requests EXCEPT ![w] = [@ EXCEPT !.at = "mark", !.of = a, !.answer = TRUE]]
  BY DEF Keys!CreateDNSAccount
<1> DEFINE r == [requests[w] EXCEPT !.at = "mark", !.of = a, !.answer = TRUE]
           new == [state |-> "there", token |-> requests[w].token, verified |-> FALSE]
<1>3. /\ r \in KeysRun /\ r.job = "connect" /\ r.at = "mark" /\ r.of = a
      /\ r.token = requests[w].token
  BY <1>1, KeysAt DEF KeysRun
<1>4. new \in KeysRow /\ new.state = "there" /\ new.token = requests[w].token /\ ~new.verified
  BY KeysAt DEF KeysRow
<1>5. requests' = [requests EXCEPT ![w] = r] /\ account' = [account EXCEPT ![a] = new]
  BY <1>2
<1> HIDE DEF r, new
<1>6. /\ requests' \in [Worker -> KeysRun] /\ requests'[w] = r
      /\ \A v \in Worker \ {w} : requests'[v] = requests[v]
  BY <1>3, <1>5, KeysMove
<1>7. /\ account' \in [Db -> KeysRow] /\ account'[a] = new
      /\ \A b \in Db \ {a} : account'[b] = account[b]
  BY <1>4, <1>5 DEF KeysInv, KeysTyped
<1>8. requests[w].token \in answered
  BY <1>1 DEF KeysInv, Tried
<1>9. KeysTyped'
  BY <1>1, <1>6, <1>7 DEF KeysInv, KeysTyped
<1>10. NotThereYet' /\ Keys!VerifiedAnswered'
  BY <1>1, <1>4, <1>7 DEF KeysInv, NotThereYet, Keys!VerifiedAnswered, Keys!There
<1>11. Keys!RowsPointAtOne'
  BY <1>1, <1>4, <1>7 DEF KeysInv, Keys!RowsPointAtOne, Keys!There
<1>12. ASSUME NEW v \in Worker PROVE Named(v)' /\ Cleared(v)' /\ Tried(v)'
  <2>1. CASE v = w
    BY <1>1, <1>3, <1>4, <1>6, <1>7, <1>8, <2>1, KeysRest DEF Named, Cleared, Tried, Keys!There
  <2>2. CASE v # w
    <3>1. requests'[v] = requests[v] /\ Named(v) /\ Cleared(v) /\ Tried(v)
      BY <1>6, <2>2 DEF KeysInv
    <3>2. requests[v].of # a
      BY <1>2, <3>1 DEF Named
    <3>3. QED BY <1>1, <1>7, <3>1, <3>2 DEF Named, Cleared, Tried, Keys!There
  <2>3. QED BY <2>1, <2>2
<1>13. QED BY <1>9, <1>10, <1>11, <1>12 DEF KeysInv

LEMMA MarkKeeps ==
    ASSUME KeysInv, Keys!KeysAssumption, NEW w \in Worker, Keys!MarkDNSAccountVerified(w)
    PROVE  KeysInv'
<1> DEFINE a == requests[w].of
           r == Keys!Resting
<1>1. /\ requests[w].job \in {"connect", "verify"} /\ requests[w].at = "mark"
      /\ UNCHANGED <<uses, valid, answered, stray, called, upsets>>
      /\ requests' = [requests EXCEPT ![w] = r]
  BY DEF Keys!MarkDNSAccountVerified, Keys!Over
<1>2. a \in Db /\ requests[w].answer \in BOOLEAN /\ Tried(w)
  BY <1>1, KeysAt DEF KeysInv, Named
<1>3. r \in KeysRun /\ r.job = "none" /\ r.of = Keys!None /\ Keys!None \notin Db
  BY KeysRest
<1> HIDE DEF r
<1>4. /\ requests' \in [Worker -> KeysRun] /\ requests'[w] = r
      /\ \A v \in Worker \ {w} : requests'[v] = requests[v]
  BY <1>1, <1>3, KeysMove
<1>5. /\ account' \in [Db -> KeysRow] /\ \A b \in Db \ {a} : account'[b] = account[b]
      /\ account'[a].state = account[a].state /\ account'[a].token = account[a].token
      /\ Keys!There(a) => account'[a].verified = requests[w].answer
      /\ ~Keys!There(a) => account'[a] = account[a]
  <2> account \in [Db -> KeysRow]
    BY DEF KeysInv, KeysTyped
  <2>1. CASE Keys!There(a)
    <3>1. account' = [account EXCEPT ![a] = [@ EXCEPT !.verified = requests[w].answer]]
      BY <2>1 DEF Keys!MarkDNSAccountVerified
    <3>2. QED BY <1>2, <2>1, <3>1 DEF KeysRow
  <2>2. CASE ~Keys!There(a)
    BY <1>2, <2>2 DEF Keys!MarkDNSAccountVerified
  <2>3. QED BY <2>1, <2>2
<1>6. /\ crossed' \subseteq Db /\ crossed \ {a} \subseteq crossed'
      /\ a \notin crossed' /\ Keys!There(a) => ~requests[w].crossed
  BY <1>2 DEF Keys!MarkDNSAccountVerified, KeysInv, KeysTyped
<1>7. KeysTyped'
  BY <1>1, <1>4, <1>5, <1>6 DEF KeysInv, KeysTyped
<1>8. NotThereYet'
  BY <1>5, <1>2 DEF KeysInv, NotThereYet, Keys!There
<1>9. Keys!RowsPointAtOne'
  BY <1>1, <1>5 DEF KeysInv, Keys!RowsPointAtOne, Keys!There
<1>10. ASSUME NEW b \in Db, b \notin crossed', account'[b].verified
       PROVE  account'[b].token \in answered'
  <2>1. CASE b # a
    BY <1>1, <1>5, <1>6, <1>10, <2>1 DEF KeysInv, Keys!VerifiedAnswered
  <2>2. CASE b = a
    <3>1. Keys!There(a)
      BY <1>2, <1>5, <1>10, <2>2 DEF KeysInv, NotThereYet
    <3>2. requests[w].answer /\ ~requests[w].crossed
      BY <1>5, <1>6, <1>10, <2>2, <3>1
    <3>3. QED BY <1>1, <1>2, <1>5, <2>2, <3>1, <3>2 DEF Tried
  <2>3. QED BY <2>1, <2>2
<1>11. Keys!VerifiedAnswered'
  BY <1>10 DEF Keys!VerifiedAnswered
<1>12. ASSUME NEW v \in Worker PROVE Named(v)' /\ Cleared(v)' /\ Tried(v)'
  <2>1. CASE v = w
    BY <1>3, <1>4, <2>1 DEF Named, Cleared, Tried
  <2>2. CASE v # w
    BY <1>1, <1>4, <1>5, <2>2 DEF KeysInv, Named, Cleared, Tried, Keys!There
  <2>3. QED BY <2>1, <2>2
<1>13. QED BY <1>7, <1>8, <1>9, <1>11, <1>12 DEF KeysInv

LEMMA UpdateAccountKeeps ==
    ASSUME KeysInv, Keys!KeysAssumption, NEW w \in Worker, Keys!UpdateDNSAccount(w)
    PROVE  KeysInv'
<1> DEFINE a == requests[w].of
<1>1. /\ requests[w].job = "update"
      /\ UNCHANGED <<uses, valid, answered, stray, called, upsets>>
  BY DEF Keys!UpdateDNSAccount, Keys!Doing
<1>2. CASE ~(Keys!There(a) /\ requests[w].token # Keys!None)
  BY <1>1, <1>2, KeysOver DEF Keys!UpdateDNSAccount
<1>3. CASE Keys!There(a) /\ requests[w].token # Keys!None
  <2>1. /\ account' = [account EXCEPT ![a] = [@ EXCEPT !.token = requests[w].token, !.verified = FALSE]]
        /\ crossed' = crossed \ {a}
    BY <1>3 DEF Keys!UpdateDNSAccount
  <2>2. requests' = [v \in Worker |->
                       IF v = w THEN Keys!Resting
                       ELSE [requests[v] EXCEPT !.crossed = @ \/ (requests[v].of = a /\
                                            requests[v].job \in {"verify", "connect"})]]
    BY <1>3 DEF Keys!UpdateDNSAccount
  <2>3. a \in Db
    BY <1>1, KeysAt DEF KeysInv, Named
  <2>4. /\ account' \in [Db -> KeysRow] /\ \A b \in Db \ {a} : account'[b] = account[b]
        /\ account'[a].state = account[a].state /\ ~account'[a].verified
    <3>1. account \in [Db -> KeysRow]
      BY DEF KeysInv, KeysTyped
    <3>2. [account[a] EXCEPT !.token = requests[w].token, !.verified = FALSE] \in KeysRow
      BY <2>3, <3>1, KeysAt DEF KeysRow
    <3>3. QED BY <2>1, <2>3, <3>1, <3>2 DEF KeysRow
  \* What others are trying of it is known to be of the secret before.
  <2>5. ASSUME NEW v \in Worker
        PROVE  /\ requests'[v] \in KeysRun
               /\ v = w => requests'[v] = Keys!Resting
               /\ v # w => /\ requests'[v].job = requests[v].job /\ requests'[v].at = requests[v].at
                           /\ requests'[v].of = requests[v].of /\ requests'[v].token = requests[v].token
                           /\ requests'[v].answer = requests[v].answer
                           /\ ~requests'[v].crossed => /\ ~requests[v].crossed
                                                       /\ requests[v].job \in {"verify", "connect"} =>
                                                              requests[v].of # a
    <3>1. CASE v = w
      BY <2>2, <3>1, KeysRest
    <3>2. CASE v # w
      <4> DEFINE yes == requests[v].crossed \/ (requests[v].of = a /\ requests[v].job \in {"verify", "connect"})
      <4>1. yes \in BOOLEAN
        OBVIOUS
      <4>2. /\ ~yes => /\ ~requests[v].crossed
                       /\ requests[v].job \in {"verify", "connect"} => requests[v].of # a
        OBVIOUS
      <4>3. requests'[v] = [requests[v] EXCEPT !.crossed = yes]
        BY <2>2, <3>2
      <4> HIDE DEF yes
      <4>4. QED BY <3>2, <4>1, <4>2, <4>3, KeysAt DEF KeysRun
    <3>3. QED BY <3>1, <3>2
  <2>6. KeysTyped'
    <3>1. requests' \in [Worker -> KeysRun]
      BY <2>2, <2>5
    <3>2. QED BY <1>1, <2>1, <2>4, <3>1 DEF KeysInv, KeysTyped
  <2>7. NotThereYet' /\ Keys!RowsPointAtOne' /\ Keys!VerifiedAnswered'
    BY <1>1, <2>1, <2>4 DEF KeysInv, NotThereYet, Keys!RowsPointAtOne, Keys!VerifiedAnswered, Keys!There
  <2>8. ASSUME NEW v \in Worker PROVE Named(v)' /\ Cleared(v)' /\ Tried(v)'
    <3>1. CASE v = w
      BY <2>5, <3>1, KeysRest DEF Named, Cleared, Tried
    <3>2. CASE v # w
      <4>1. Named(v)' /\ Cleared(v)'
        BY <1>1, <2>4, <2>5, <3>2 DEF KeysInv, Named, Cleared
      <4>2. Tried(v)'
        BY <1>1, <2>4, <2>5, <3>2 DEF KeysInv, Tried, Keys!There
      <4>3. QED BY <4>1, <4>2
    <3>3. QED BY <3>1, <3>2
  <2>9. QED BY <2>6, <2>7, <2>8 DEF KeysInv
<1>4. QED BY <1>2, <1>3

LEMMA ClearOwnerKeeps ==
    ASSUME KeysInv, Keys!KeysAssumption, NEW w \in Worker, NEW o \in Keys!Owner, NEW step,
           requests[w].job = "delete",
           \/ o = "site" /\ step = "mail" /\ requests[w].at = "sites"
           \/ o = "mail" /\ step = "row" /\ requests[w].at = "mail",
           UNCHANGED <<account, valid, answered, crossed, stray, called, upsets>>,
           requests' = [requests EXCEPT ![w] = [requests[w] EXCEPT !.at = step]],
           uses' = IF uses[o] = requests[w].of THEN [uses EXCEPT ![o] = Keys!None] ELSE uses
    PROVE  KeysInv'
<1> DEFINE r == [requests[w] EXCEPT !.at = step]
<1>1. requests' = [requests EXCEPT ![w] = r]
  OBVIOUS
<1>2. /\ r \in KeysRun /\ r.job = "delete" /\ r.at = step /\ r.of = requests[w].of
  BY <1>1, KeysAt DEF KeysRun
<1> HIDE DEF r
<1>3. /\ requests' \in [Worker -> KeysRun] /\ requests'[w] = r
      /\ \A v \in Worker \ {w} : requests'[v] = requests[v]
  BY <1>1, <1>2, KeysMove
<1>4. /\ requests[w].of \in Db /\ Keys!None \notin Db
  BY KeysAt, KeysRest DEF KeysInv, Named, Keys!Owner
<1>5. /\ uses' \in [Keys!Owner -> Db \cup {Keys!None, Keys!Absent}]
      /\ uses'[o] # requests[w].of
      /\ \A p \in Keys!Owner : uses'[p] \in {uses[p], Keys!None}
  BY <1>1, <1>4 DEF KeysInv, KeysTyped
<1>6. KeysTyped'
  BY <1>1, <1>3, <1>5 DEF KeysInv, KeysTyped
<1>7. NotThereYet' /\ Keys!RowsPointAtOne' /\ Keys!VerifiedAnswered'
  BY <1>1, <1>4, <1>5
     DEF KeysInv, NotThereYet, Keys!RowsPointAtOne, Keys!VerifiedAnswered, Keys!There
<1>8. ASSUME NEW v \in Worker PROVE Named(v)' /\ Cleared(v)' /\ Tried(v)'
  <2>0. Named(v) /\ Cleared(v) /\ Tried(v)
    BY DEF KeysInv
  <2>1. CASE v = w
    <3>1. Named(v)' /\ Tried(v)'
      BY <1>1, <1>2, <1>3, <1>4, <2>0, <2>1 DEF Named, Tried
    <3>2. Cleared(v)'
      BY <1>1, <1>2, <1>3, <1>4, <1>5, <2>0, <2>1 DEF Cleared, Keys!Owner
    <3>3. QED BY <3>1, <3>2
  <2>2. CASE v # w
    <3>1. requests'[v] = requests[v]
      BY <1>3, <2>2
    <3>2. requests[v].job = "delete" => requests[v].of # Keys!None
      BY <2>0, <1>4 DEF Named
    <3>3. QED BY <1>1, <1>5, <2>0, <3>1, <3>2 DEF Named, Cleared, Tried, Keys!There
  <2>3. QED BY <2>1, <2>2
<1>9. QED BY <1>6, <1>7, <1>8 DEF KeysInv

LEMMA ClearKeeps ==
    ASSUME KeysInv, Keys!KeysAssumption, NEW w \in Worker, Keys!ClearSites(w) \/ Keys!ClearMail(w)
    PROVE  KeysInv'
<1>1. "site" \in Keys!Owner /\ "mail" \in Keys!Owner
  BY DEF Keys!Owner
<1>2. CASE Keys!ClearSites(w)
  BY <1>1, <1>2, ClearOwnerKeeps DEF Keys!ClearSites, Keys!Doing, Keys!Unlink, Keys!Step
<1>3. CASE Keys!ClearMail(w)
  BY <1>1, <1>3, ClearOwnerKeeps DEF Keys!ClearMail, Keys!Doing, Keys!Unlink, Keys!Step
<1>4. QED BY <1>2, <1>3

LEMMA DeleteAccountKeeps ==
    ASSUME KeysInv, Keys!KeysAssumption, NEW w \in Worker, Keys!DeleteDNSAccount(w)
    PROVE  KeysInv'
<1> DEFINE a == requests[w].of
           r == Keys!Resting
           new == [Keys!Nobody EXCEPT !.state = "gone"]
<1>1. /\ requests[w].job = "delete" /\ requests[w].at = "row"
      /\ UNCHANGED <<uses, valid, answered, crossed, stray, called, upsets>>
      /\ requests' = [requests EXCEPT ![w] = r]
      /\ account' = [account EXCEPT ![a] = new]
  BY DEF Keys!DeleteDNSAccount, Keys!Over, Keys!Doing
<1>2. new \in KeysRow /\ new.state = "gone" /\ ~new.verified
  BY DEF KeysRow, Keys!Nobody
<1>3. r \in KeysRun /\ r.job = "none" /\ r.of = Keys!None /\ Keys!None \notin Db
  BY KeysRest
<1> HIDE DEF r, new
<1>4. /\ requests' \in [Worker -> KeysRun] /\ requests'[w] = r
      /\ \A v \in Worker \ {w} : requests'[v] = requests[v]
  BY <1>1, <1>3, KeysMove
<1>5. a \in Db
  BY <1>1, KeysAt DEF KeysInv, Named
<1>6. /\ account' \in [Db -> KeysRow] /\ account'[a] = new
      /\ \A b \in Db \ {a} : account'[b] = account[b]
  BY <1>1, <1>2, <1>5 DEF KeysInv, KeysTyped
<1>7. KeysTyped'
  BY <1>1, <1>4, <1>6 DEF KeysInv, KeysTyped
<1>8. NotThereYet' /\ Keys!VerifiedAnswered'
  BY <1>1, <1>2, <1>6 DEF KeysInv, NotThereYet, Keys!VerifiedAnswered, Keys!There
\* Both kinds of rows had been cleared.
<1>9. \A o \in Keys!Owner \ stray : uses[o] # a
  BY <1>1 DEF KeysInv, Cleared
<1>10. Keys!RowsPointAtOne'
  BY <1>1, <1>6, <1>9 DEF KeysInv, Keys!RowsPointAtOne, Keys!There
<1>11. ASSUME NEW v \in Worker PROVE Named(v)' /\ Cleared(v)' /\ Tried(v)'
  <2>1. CASE v = w
    BY <1>3, <1>4, <2>1 DEF Named, Cleared, Tried
  <2>2. CASE v # w
    BY <1>1, <1>2, <1>4, <1>6, <2>2 DEF KeysInv, Named, Cleared, Tried, Keys!There
  <2>3. QED BY <2>1, <2>2
<1>12. QED BY <1>7, <1>8, <1>10, <1>11 DEF KeysInv

LEMMA CreateOwnerKeeps ==
    ASSUME KeysInv, Keys!KeysAssumption, NEW w \in Worker, Keys!CreateOwner(w)
    PROVE  KeysInv'
<1> DEFINE a == requests[w].of
           o == requests[w].owner
           r == Keys!Resting
<1>1. /\ requests[w].job = "form"
      /\ UNCHANGED <<account, valid, answered, crossed, called, upsets>>
      /\ requests' = [requests EXCEPT ![w] = r]
      /\ \/ /\ uses' = [uses EXCEPT ![o] = a]
            /\ stray' = IF Keys!Going(w, a, o) THEN stray \cup {o} ELSE stray \ {o}
         \/ uses' = [uses EXCEPT ![o] = Keys!None] /\ UNCHANGED stray
  BY DEF Keys!CreateOwner, Keys!Over, Keys!Doing
<1>2. a \in Db /\ o \in Keys!Owner
  BY <1>1, KeysAt DEF KeysInv, Named
<1>3. r \in KeysRun /\ r.job = "none" /\ r.of = Keys!None /\ Keys!None \notin Db
  BY KeysRest
<1> HIDE DEF r
<1>4. /\ requests' \in [Worker -> KeysRun] /\ requests'[w] = r
      /\ \A v \in Worker \ {w} : requests'[v] = requests[v]
  BY <1>1, <1>3, KeysMove
<1>5. /\ uses' \in [Keys!Owner -> Db \cup {Keys!None, Keys!Absent}]
      /\ stray' \subseteq Keys!Owner
      /\ \A p \in Keys!Owner \ {o} : uses'[p] = uses[p] /\ (p \in stray' <=> p \in stray)
      /\ uses'[o] = Keys!None \/ (uses'[o] = a /\ (o \notin stray' => ~Keys!Going(w, a, o)))
  BY <1>1, <1>2 DEF KeysInv, KeysTyped
<1>6. KeysTyped'
  BY <1>1, <1>4, <1>5 DEF KeysInv, KeysTyped
<1>7. NotThereYet' /\ Keys!VerifiedAnswered'
  BY <1>1 DEF KeysInv, NotThereYet, Keys!VerifiedAnswered, Keys!There
<1>8. Keys!RowsPointAtOne'
  BY <1>1, <1>3, <1>5 DEF KeysInv, Keys!RowsPointAtOne, Keys!There, Keys!Going
<1>9. ASSUME NEW v \in Worker PROVE Named(v)' /\ Cleared(v)' /\ Tried(v)'
  <2>1. CASE v = w
    BY <1>3, <1>4, <2>1 DEF Named, Cleared, Tried
  <2>2. CASE v # w
    <3>0. requests'[v] = requests[v] /\ Named(v) /\ Cleared(v) /\ Tried(v)
      BY <1>4, <2>2 DEF KeysInv
    <3>1. Named(v)' /\ Tried(v)'
      BY <1>1, <3>0 DEF Named, Tried, Keys!There
    <3>2. ASSUME requests[v].job = "delete", NEW p \in Keys!Owner \ stray',
                 requests[v].at \in (IF p = "site" THEN {"mail", "row"} ELSE {"row"})
          PROVE  uses'[p] # requests[v].of
      <4>1. CASE p # o
        BY <1>5, <3>0, <3>2, <4>1 DEF Cleared
      <4>2. CASE p = o
        BY <1>3, <1>5, <2>2, <3>0, <3>2, <4>2 DEF Named, Keys!Going
      <4>3. QED BY <4>1, <4>2
    <3>3. QED BY <3>0, <3>1, <3>2 DEF Cleared
  <2>3. QED BY <2>1, <2>2
<1>10. QED BY <1>6, <1>7, <1>8, <1>9 DEF KeysInv

LEMMA ElsewhereKeeps ==
    ASSUME KeysInv, Keys!KeysAssumption,
           (\E o \in Keys!Owner : Keys!Detach(o)) \/ \E t \in Visitor : Keys!Revoke(t)
    PROVE  KeysInv'
<1>1. ASSUME NEW o \in Keys!Owner, Keys!Detach(o) PROVE KeysInv'
  <2>1. /\ uses' = [uses EXCEPT ![o] = Keys!None]
        /\ UNCHANGED <<account, valid, requests, answered, crossed, stray, called, upsets>>
    BY <1>1 DEF Keys!Detach
  <2>2. Keys!None \notin Db
    BY KeysRest
  <2>3. /\ uses' \in [Keys!Owner -> Db \cup {Keys!None, Keys!Absent}]
        /\ \A p \in Keys!Owner : uses'[p] \in {uses[p], Keys!None}
    BY <2>1 DEF KeysInv, KeysTyped
  <2>4. KeysTyped'
    BY <2>1, <2>3 DEF KeysInv, KeysTyped
  <2>5. NotThereYet' /\ Keys!RowsPointAtOne' /\ Keys!VerifiedAnswered'
    BY <2>1, <2>2, <2>3
       DEF KeysInv, NotThereYet, Keys!RowsPointAtOne, Keys!VerifiedAnswered, Keys!There
  <2>6. ASSUME NEW v \in Worker PROVE Named(v)' /\ Cleared(v)' /\ Tried(v)'
    <3>1. Named(v) /\ Cleared(v) /\ Tried(v)
      BY DEF KeysInv
    <3>2. requests[v].job = "delete" => requests[v].of # Keys!None
      BY <3>1 DEF Named
    <3>3. QED BY <2>1, <2>3, <3>1, <3>2 DEF Named, Cleared, Tried, Keys!There
  <2>7. QED BY <2>4, <2>5, <2>6 DEF KeysInv
<1>2. ASSUME NEW t \in Visitor, Keys!Revoke(t) PROVE KeysInv'
  <2>1. /\ UNCHANGED <<account, uses, requests, answered, crossed, stray, called>>
        /\ valid' \subseteq valid /\ upsets' \in 0..MaxTroubles
    BY <1>2 DEF Keys!Revoke, KeysInv, KeysTyped, Keys!KeysAssumption
  <2>2. KeysTyped'
    BY <2>1 DEF KeysInv, KeysTyped
  <2>3. NotThereYet' /\ Keys!RowsPointAtOne' /\ Keys!VerifiedAnswered'
    BY <2>1 DEF KeysInv, NotThereYet, Keys!RowsPointAtOne, Keys!VerifiedAnswered, Keys!There
  <2>4. ASSUME NEW v \in Worker PROVE Named(v)' /\ Cleared(v)' /\ Tried(v)'
    BY <2>1 DEF KeysInv, Named, Cleared, Tried, Keys!There
  <2>5. QED BY <2>2, <2>3, <2>4 DEF KeysInv
<1>3. QED BY <1>1, <1>2

LEMMA KeysCrashKeeps == ASSUME KeysInv, Keys!KeysAssumption, Keys!Crash PROVE KeysInv'
<1>1. /\ UNCHANGED <<account, uses, valid, answered, crossed, stray, called>>
      /\ requests' = [w \in Worker |-> Keys!Resting]
      /\ upsets' \in 0..MaxTroubles
  BY DEF Keys!Crash, KeysInv, KeysTyped, Keys!KeysAssumption
<1>2. KeysTyped'
  BY <1>1, KeysRest DEF KeysInv, KeysTyped
<1>3. NotThereYet' /\ Keys!RowsPointAtOne' /\ Keys!VerifiedAnswered'
  BY <1>1 DEF KeysInv, NotThereYet, Keys!RowsPointAtOne, Keys!VerifiedAnswered, Keys!There
<1>4. ASSUME NEW v \in Worker PROVE Named(v)' /\ Cleared(v)' /\ Tried(v)'
  BY <1>1, KeysRest DEF Named, Cleared, Tried
<1>5. QED BY <1>2, <1>3, <1>4 DEF KeysInv

LEMMA KeysNext == ASSUME KeysInv, Keys!KeysAssumption, Keys!Next PROVE KeysInv'
<1>1. CASE Keys!Crash \/ (\E o \in Keys!Owner : Keys!Detach(o)) \/ \E t \in Visitor : Keys!Revoke(t)
  BY <1>1, KeysCrashKeeps, ElsewhereKeeps
<1>2. ASSUME NEW w \in Worker,
             \E t \in Visitor : Keys!dnsStore(w, t) \/ Keys!mcpConnectDNSAccount(w, t)
      PROVE  KeysInv'
  BY <1>2, dnsStoreKeeps DEF Keys!mcpConnectDNSAccount
<1>3. ASSUME NEW w \in Worker, NEW a \in Db,
             \/ Keys!dnsVerify(w, a) \/ Keys!mcpVerifyDNSAccount(w, a)
             \/ \E t \in Visitor \cup {Keys!None} : Keys!dnsUpdate(w, a, t) \/ Keys!mcpUpdateDNSAccount(w, a, t)
             \/ Keys!dnsDestroy(w, a) \/ Keys!mcpDeleteDNSAccount(w, a)
             \/ Keys!resolveDNS(w, a) \/ Keys!emailStoreDomain(w, a) \/ Keys!mcpCreateEmailDomain(w, a)
      PROVE  KeysInv'
  <2>1. "site" \in Keys!Owner /\ "mail" \in Keys!Owner
    BY DEF Keys!Owner
  <2>2. QED
    BY <1>3, <2>1, PagesAsk
       DEF Keys!mcpVerifyDNSAccount, Keys!mcpUpdateDNSAccount, Keys!mcpDeleteDNSAccount,
           Keys!resolveDNS, Keys!emailStoreDomain, Keys!mcpCreateEmailDomain
<1>4. ASSUME NEW w \in Worker,
             \/ Keys!TryNew(w) \/ Keys!CreateDNSAccount(w) \/ Keys!Verify(w)
             \/ Keys!MarkDNSAccountVerified(w) \/ Keys!UpdateDNSAccount(w) \/ Keys!ClearSites(w)
             \/ Keys!ClearMail(w) \/ Keys!DeleteDNSAccount(w) \/ Keys!CreateOwner(w)
             \/ Keys!Taken(w)
      PROVE  KeysInv'
  <2>1. CASE Keys!Taken(w)
    BY <2>1, KeysOver DEF Keys!Taken
  <2>2. CASE ~Keys!Taken(w)
    BY <1>4, <2>2, TryNewKeeps, CreateAccountKeeps, VerifyKeeps, MarkKeeps, UpdateAccountKeeps,
       ClearKeeps, DeleteAccountKeeps, CreateOwnerKeeps
  <2>3. QED BY <2>1, <2>2
<1>5. QED BY <1>1, <1>2, <1>3, <1>4 DEF Keys!Next

LEMMA KeysBegin == ASSUME Keys!KeysAssumption, Keys!Init PROVE KeysInv
<1>1. /\ account = [a \in Db |-> Keys!Nobody] /\ uses = [o \in Keys!Owner |-> Keys!Absent]
      /\ valid = Visitor /\ requests = [w \in Worker |-> Keys!Resting]
      /\ answered = {} /\ crossed = {} /\ stray = {} /\ called = 0 /\ upsets = 0
  BY DEF Keys!Init
<1>2. /\ Keys!Nobody \in KeysRow /\ ~Keys!Nobody.verified
      /\ Keys!Resting \in KeysRun /\ Keys!Resting.job = "none" /\ Keys!Resting.of = Keys!None
      /\ {Keys!None, Keys!Absent} \cap Db = {}
  BY DEF Keys!Nobody, KeysRow, Keys!Resting, KeysRun, Keys!Owner, Keys!KeysAssumption
<1>3. KeysTyped
  BY <1>1, <1>2 DEF KeysTyped, Keys!KeysAssumption
<1>4. NotThereYet /\ Keys!RowsPointAtOne /\ Keys!VerifiedAnswered
  BY <1>1, <1>2 DEF NotThereYet, Keys!RowsPointAtOne, Keys!VerifiedAnswered
<1>5. ASSUME NEW w \in Worker PROVE Named(w) /\ Cleared(w) /\ Tried(w)
  BY <1>1, <1>2 DEF Named, Cleared, Tried
<1>6. QED BY <1>3, <1>4, <1>5 DEF KeysInv

KeysFocus == focus = "keys" => KeysInv

LEMMA KeysFirst == Init => KeysFocus
<1> SUFFICES ASSUME Init, focus = "keys" PROVE KeysInv
  BY DEF KeysFocus
<1>1. Keys!Init
  BY DEF Init
<1>2. QED BY <1>1, CredentialsAssumption, KeysBegin

LEMMA KeysStep == KeysFocus /\ [Next]_vars => KeysFocus'
<1> SUFFICES ASSUME KeysFocus, [Next]_vars, focus' = "keys" PROVE KeysInv'
  BY DEF KeysFocus
<1>1. focus = "keys" /\ (Keys!Next \/ UNCHANGED keyVars) /\ KeysInv
  BY DEF Next, vars, KeysFocus
<1>2. CASE Keys!Next
  BY <1>1, <1>2, CredentialsAssumption, KeysNext
<1>3. CASE UNCHANGED keyVars
  <2>1. UNCHANGED <<account, uses, valid, requests, answered, crossed, stray, called, upsets>>
    BY <1>3 DEF keyVars
  <2>2. QED
    BY <1>1, <2>1 DEF KeysInv, KeysTyped, NotThereYet, Keys!RowsPointAtOne,
       Keys!VerifiedAnswered, Named, Cleared, Tried, Keys!There
<1>4. QED BY <1>1, <1>2, <1>3

\* However credentials of DNS providers are connected, changed, tried, removed
\* and chosen at the same time, and wherever a removal is cut off, no row names
\* one that is gone, unless a form had found it before and stored its row after;
\* and none is said to be verified whose secret the provider never accepted,
\* unless it was changed while it was being tried (dns_account.go,
\* DeleteDNSAccount, MarkDNSAccountVerified and UpdateDNSAccount).
THEOREM CredentialsAreKept == Spec => []AccountsKept
<1>1. KeysInv => Keys!AccountsKept
  <2> SUFFICES ASSUME KeysInv PROVE Keys!AccountsKept
    OBVIOUS
  <2>1. Keys!TypeOK
    <3>1. \A a \in Db : /\ account[a].state \in {"none", "there", "gone"}
                        /\ account[a].token \in Visitor \cup {Keys!None}
                        /\ account[a].verified \in BOOLEAN
      BY DEF KeysInv, KeysTyped, KeysRow
    <3>2. \A w \in Worker :
            /\ requests[w].job \in {"none", "connect", "update", "verify", "delete", "form"}
            /\ requests[w].at \in {"idle", "ask", "insert", "mark", "write", "sites", "mail", "row"}
            /\ requests[w].of \in Db \cup {Keys!None} /\ requests[w].owner \in Keys!Owner
            /\ requests[w].token \in Visitor \cup {Keys!None}
      BY DEF KeysInv, KeysTyped, KeysRun
    <3>3. QED BY <3>1, <3>2 DEF KeysInv, KeysTyped, Keys!TypeOK
  <2>2. QED BY <2>1 DEF KeysInv, Keys!AccountsKept
<1>2. KeysFocus => AccountsKept
  BY <1>1 DEF KeysFocus, AccountsKept
<1>3. QED BY <1>2, KeysFirst, KeysStep, PTL DEF Spec

---------------------------------------------------------------------------
(***************************************************************************)
(* Databases, for any number of databases, workers, addresses, passwords   *)
(* and failures.  DbInv is an invariant of every step (DbFirst, DbNext)    *)
(* and gives AccessKept (DbMeans).                                         *)
(*                                                                         *)
(* The port.  The rules are those the setting remembers, those of the sync *)
(* that is changing them, or left behind (Remembered, Listed); and what a  *)
(* sync means to open is allowed now, unless a sync is still to come that  *)
(* will look again (Planned, Waits).  So the setting names what is allowed *)
(* whenever nobody syncs, the last sync went well and none is to come      *)
(* (OpenToAllowed).                                                        *)
(*                                                                         *)
(* The accounts, of a database that nothing else happened to meanwhile:    *)
(* whoever works on it works alone (Solitary), and has read what its row   *)
(* still says (AtWork); a sync knows its setting (InSync).  When nobody    *)
(* works on it, its accounts fit what its row says, but for addresses that *)
(* its domain has left since; and after a sync that went well not even     *)
(* those are there (Settled).                                              *)
(***************************************************************************)

Syncing == {"look", "keep", "listen", "close", "open", "remember", "accounts"}
Script == {"create", "password", "repair", "drop"}
DbRun == [job : Accounts!Jobs \cup {"none"}, db : Db \cup {"none"}, pc : Accounts!Point,
          before : Accounts!Setting, password : 1..MaxPassword, hosts : SUBSET Accounts!Host,
          todo : SUBSET Db, seen : Accounts!Setting, plan : [Db -> SUBSET Accounts!Host],
          knows : SUBSET Db, resolve : BOOLEAN, again : BOOLEAN]

DbTyped ==
    /\ status \in [Db -> {"none", "pending", "creating", "ready", "failed", "deleting"}]
    /\ password \in [Db -> 1..MaxPassword] /\ access \in [Db -> Accounts!Setting]
    /\ accounts \in [Db -> [Accounts!Host -> 0..MaxPassword]]
    /\ listens \in BOOLEAN /\ starting \in BOOLEAN /\ unsynced \in BOOLEAN
    /\ rules \subseteq Accounts!Source
    /\ (applied = Accounts!Unset \/ applied \subseteq Accounts!Source) /\ moved \in Accounts!Address
    /\ run \in [Worker -> DbRun]
    /\ holder \in Worker \cup {"nobody"} /\ dbJobs \subseteq {"create", "drop"} \X Db
    /\ besides \subseteq Db /\ leaked \subseteq Accounts!Source
    /\ asked \in 0..MaxAsked /\ troubles \in 0..MaxTroubles

\* The points a job passes, and the mutex, which is held from the second of a
\* sync's to its last.
Places(w) ==
    /\ run[w].job = "none" <=> run[w].pc = "begin"
    /\ run[w].pc = "script" => run[w].job \in Script
    /\ run[w].pc = "row" => run[w].job \in {"create", "password", "drop"}
    /\ run[w].pc = "forget" => run[w].job = "drop"
    /\ run[w].pc = "undo" => run[w].job = "access" /\ ~run[w].again
    /\ run[w].pc \in {"lock"} \cup Syncing => run[w].job \in {"repair", "drop", "access", "sync"}
    /\ run[w].pc \in {"look", "keep"} => run[w].job = "sync"
    /\ run[w].job \notin {"none", "sync"} => run[w].db \in Db
    /\ run[w].resolve <=> run[w].job = "sync"
    /\ run[w].before.found <= moved
    /\ holder = w <=> run[w].pc \in Syncing

\* An address the domain has had.
Known == \A d \in Db : access[d].found <= moved

\* A sync that begins later will see the rows as they are now.
Waits == starting \/ \E w \in Worker : \/ run[w].pc = "lock"
                                       \/ run[w].pc = "forget" /\ access[run[w].db].mode # "local"

\* The setting a sync has seen of a database, or is about to save.
Saw(w, d) == IF run[w].pc = "keep" /\ d = run[w].db THEN run[w].seen ELSE access[d]

\* What a sync means to open the port to is allowed, unless a later one looks again.
Planned(w) ==
    run[w].pc \in Syncing /\ ~Waits =>
        /\ \A d \in Db : run[w].plan[d] \ {Accounts!Local} # {} =>
              status[d] # "none" /\ run[w].plan[d] \subseteq Accounts!Hosts(Saw(w, d))
        /\ run[w].pc \in {"look", "keep"} =>
              \A d \in run[w].todo : status[d] # "none" /\ access[d].mode = "domain"
        /\ run[w].pc = "keep" => access[run[w].db].mode = "domain"

\* The rules are those remembered, or those a sync wants, or left behind.
Listed(w) ==
    /\ run[w].pc \in {"open", "remember"} => rules \subseteq Accounts!Wanted(w) \cup leaked
    /\ run[w].pc = "open" => run[w].hosts \subseteq Accounts!Wanted(w)
    /\ run[w].pc = "accounts" => applied = Accounts!Wanted(w)
    /\ run[w].pc = "keep" => /\ run[w].db \in Db /\ run[w].seen.mode = "domain"
                             /\ run[w].seen.found <= moved
Remembered ==
    (\A w \in Worker : run[w].pc \notin {"open", "remember"}) => rules \subseteq applied \cup leaked
OpenToAllowed ==
    holder = "nobody" /\ ~unsynced /\ ~Waits => applied \ Accounts!Unset \subseteq Accounts!Allowed

\* Who works on a database that nothing else happened to works alone.
Works(w, d) == run[w].job \notin {"none", "sync"} /\ run[w].db = d
Solitary(w) ==
    run[w].job \notin {"none", "sync"} /\ run[w].db \notin besides =>
        \A v \in Worker \ {w} : run[v].job = "none"

\* The accounts of a database are those a setting asks for, with a password;
\* but a sync that failed may have left some at addresses its domain had before.
Older(a) == IF a.mode = "domain" THEN {<<"domain", n>> : n \in {n \in Accounts!Address : n < a.found}} ELSE {}
Fits(d, a, p) ==
    \A h \in Accounts!Host : \/ accounts[d][h] = 0
                             \/ h \in Accounts!Hosts(a) /\ accounts[d][h] = p
                             \/ h \in Older(a)
Full(d, a, p) == \A h \in Accounts!Hosts(a) : accounts[d][h] = p
Only(d, a) == \A h \in Accounts!Host \ Accounts!Hosts(a) : accounts[d][h] = 0
NoAccount(d) == \A h \in Accounts!Host : accounts[d][h] = 0
Synced == /\ holder = "nobody" /\ ~unsynced /\ ~starting
          /\ \A w \in Worker : ~(run[w].job = "sync" /\ run[w].pc = "lock")

Fitting(d, p) == Fits(d, access[d], p) /\ (Synced => Only(d, access[d]))
Settled(d) ==
    /\ Fitting(d, password[d])
    /\ Synced /\ status[d] = "ready" => Full(d, access[d], password[d])
    /\ status[d] = "none" => NoAccount(d)
    /\ status[d] \notin {"creating", "deleting"}

\* What a job has read and done by now.
AtWork(w, d) ==
    /\ run[w].job \in {"create", "password", "repair"} /\ run[w].pc = "script" =>
          run[w].hosts = Accounts!Hosts(access[d])
    /\ run[w].job = "create" =>
          /\ Fitting(d, password[d]) /\ run[w].password = password[d]
          /\ status[d] = "creating"
          /\ run[w].pc = "row" => Full(d, access[d], password[d])
    /\ run[w].job = "password" /\ run[w].pc = "script" => Settled(d)
    /\ run[w].job = "password" /\ run[w].pc = "row" =>
          /\ Fitting(d, run[w].password) /\ Full(d, access[d], run[w].password)
    /\ run[w].job = "repair" => Settled(d) /\ (run[w].pc = "script" => run[w].password = password[d])
    /\ run[w].job = "drop" =>
          /\ run[w].pc \in {"row", "forget"} => NoAccount(d)
          /\ run[w].pc = "forget" => status[d] \in {"none", "pending"}
          /\ run[w].pc \notin {"script", "row"} => Settled(d)
    /\ run[w].job = "access" /\ run[w].again => Settled(d)
    /\ run[w].job = "access" /\ ~run[w].again =>
          /\ Fits(d, run[w].before, password[d])
          /\ access[d].mode = "domain" => run[w].before.found <= access[d].found
          /\ run[w].pc = "undo" => unsynced
    /\ run[w].job \in {"password", "repair", "access"} =>
          status[d] \notin {"none", "creating", "deleting"}

\* What a sync knows.
InSync(w, d) ==
    /\ d \notin run[w].knows => NoAccount(d) /\ status[d] \in {"none", "pending"}
    /\ d \in run[w].knows =>
          /\ status[d] # "none"
          /\ (run[w].pc \in {"look", "keep"} /\ d \in run[w].todo) \/ run[w].plan[d] = Accounts!Hosts(Saw(w, d))
    /\ run[w].pc = "keep" /\ d = run[w].db =>
          access[d].mode = "domain" /\ access[d].found < run[w].seen.found

Right(d) ==
    /\ (\A w \in Worker : ~Works(w, d)) => Settled(d)
    /\ \A w \in Worker : /\ Works(w, d) => AtWork(w, d)
                         /\ run[w].pc \in Syncing => InSync(w, d)

DbInv ==
    /\ DbTyped /\ Known /\ Remembered /\ OpenToAllowed
    /\ \A w \in Worker : Places(w) /\ Planned(w) /\ Listed(w) /\ Solitary(w)
    /\ \A d \in Db \ besides : Right(d)

---------------------------------------------------------------------------
(* The operators.                                                          *)

LEMMA DbBounds ==
    ASSUME Accounts!DatabasesAssumption
    PROVE  /\ MaxAddress \in Nat /\ MaxAddress >= 1 /\ MaxPassword \in Nat /\ MaxPassword >= 1
           /\ MaxAsked \in Nat /\ MaxTroubles \in Nat
           /\ Accounts!Address = 1..MaxAddress /\ 1 \in Accounts!Address
           /\ "none" \notin Db /\ "nobody" \notin Worker
BY DEF Accounts!DatabasesAssumption, Accounts!Address

LEMMA DbSettings ==
    ASSUME NEW a \in Accounts!Setting
    PROVE  a.mode \in Accounts!Mode /\ a.found \in Accounts!Address
BY DEF Accounts!Setting

\* What a setting asks for is not what a sync that failed may leave behind.
LEMMA DbHosts ==
    ASSUME Accounts!DatabasesAssumption, NEW a \in Accounts!Setting
    PROVE  /\ Accounts!Hosts(a) \subseteq Accounts!Host /\ Accounts!Local \in Accounts!Hosts(a)
           /\ Accounts!Local \notin Older(a)
           /\ Accounts!Hosts(a) = {Accounts!Local} \cup Accounts!targets(a)
           /\ Accounts!targets(a) \subseteq Accounts!Source /\ Accounts!Local \notin Accounts!Source
           /\ Accounts!Host = Accounts!Source \cup {Accounts!Local}
           /\ a.mode = "local" => Accounts!targets(a) = {}
<1>1. a.mode \in {"local", "ip", "domain", "anywhere"} /\ a.found \in Accounts!Address
  BY DbSettings DEF Accounts!Mode
<1>2. Accounts!Local \notin Accounts!Source
  BY DEF Accounts!Local, Accounts!Source
<1>3. Accounts!targets(a) \subseteq Accounts!Source
  BY <1>1 DEF Accounts!targets, Accounts!Source
<1>4. a.mode = "local" => Accounts!targets(a) = {}
  BY DEF Accounts!targets
<1>5. Accounts!Local \notin Older(a)
  BY DEF Older, Accounts!Local
<1>6. QED BY <1>2, <1>3, <1>4, <1>5 DEF Accounts!Hosts, Accounts!Host

LEMMA DbOlder ==
    ASSUME Accounts!DatabasesAssumption, NEW a \in Accounts!Setting, NEW b \in Accounts!Setting,
           b.mode = "domain" => a.found <= b.found
    PROVE  Accounts!Hosts(b) \cap Older(a) = {}
<1>1. a.found \in Nat /\ b.found \in Nat /\ a.mode \in Accounts!Mode /\ b.mode \in Accounts!Mode
  BY DbSettings, DbBounds
<1>2. SUFFICES ASSUME NEW h \in Accounts!Hosts(b), h \in Older(a) PROVE FALSE
  OBVIOUS
<1>3. PICK n \in Accounts!Address : a.mode = "domain" /\ h = <<"domain", n>> /\ n < a.found
  BY <1>2 DEF Older
<1>5. h # <<"any", 0>> /\ h # <<"ip", 0>> /\ h # <<"local", 0>>
  BY <1>3
<1>6. b.mode = "domain" /\ h = <<"domain", b.found>>
  BY <1>2, <1>5 DEF Accounts!Hosts, Accounts!targets, Accounts!Local
<1>7. n = b.found
  BY <1>3, <1>6
<1>8. QED BY <1>1, <1>3, <1>6, <1>7

\* A domain that moves leaves its address behind.
LEMMA DbLeft ==
    ASSUME Accounts!DatabasesAssumption, NEW a \in Accounts!Setting, NEW b \in Accounts!Setting,
           a.mode = "domain", b.mode = "domain", a.found < b.found
    PROVE  /\ Accounts!Hosts(a) \subseteq Accounts!Hosts(b) \cup Older(b)
           /\ Older(a) \subseteq Older(b)
<1>1. a.found \in Accounts!Address /\ b.found \in Accounts!Address /\ Accounts!Address \subseteq Int
  BY DbSettings, DbBounds
<1>2. Accounts!Hosts(a) = {Accounts!Local, <<"domain", a.found>>}
  BY DEF Accounts!Hosts, Accounts!targets
<1>3. Accounts!Local \in Accounts!Hosts(b)
  BY DEF Accounts!Hosts
<1>4. <<"domain", a.found>> \in Older(b)
  BY <1>1 DEF Older
<1>5. Older(a) \subseteq Older(b)
  <2>1. \A n \in Accounts!Address : n < a.found => n < b.found
    <3>1. a.found \in Int /\ b.found \in Int
      BY <1>1
    <3>2. \A n \in Int : n < a.found => n < b.found
      BY <3>1
    <3>3. QED BY <1>1, <3>2
  <2>2. QED BY <2>1 DEF Older
<1>6. QED BY <1>2, <1>3, <1>4, <1>5

LEMMA DbFits ==
    ASSUME Accounts!DatabasesAssumption, NEW d, NEW p, NEW a \in Accounts!Setting,
           NEW b \in Accounts!Setting, a.mode = "domain", b.mode = "domain", a.found < b.found,
           Fits(d, a, p)
    PROVE  Fits(d, b, p)
BY DbLeft DEF Fits

LEMMA DbWanted ==
    ASSUME NEW w \in Worker
    PROVE  \A s \in Accounts!Wanted(w) : /\ \E d \in Db : s \in run[w].plan[d]
                                         /\ s # Accounts!Local
<1> DEFINE all == (UNION {run[w].plan[d] : d \in Db}) \ {Accounts!Local}
<1>1. Accounts!Wanted(w) = IF <<"any", 0>> \in all THEN {<<"any", 0>>} ELSE all
  BY DEF Accounts!Wanted
<1>2. \A s \in all : (\E d \in Db : s \in run[w].plan[d]) /\ s # Accounts!Local
  <2>1. ASSUME NEW s \in all PROVE (\E d \in Db : s \in run[w].plan[d]) /\ s # Accounts!Local
    <3>1. PICK S \in {run[w].plan[d] : d \in Db} : s \in S
      BY <2>1
    <3>2. PICK d \in Db : S = run[w].plan[d]
      BY <3>1
    <3>3. s \in run[w].plan[d]
      BY <3>1, <3>2
    <3>4. s # Accounts!Local
      BY <2>1
    <3>5. QED BY <3>3, <3>4
  <2>2. QED BY <2>1
<1> HIDE DEF all
<1>3. Accounts!Wanted(w) \subseteq all
  BY <1>1
<1>4. QED BY <1>2, <1>3

LEMMA DbWantedSame ==
    ASSUME NEW w \in Worker, run'[w].plan = run[w].plan
    PROVE  Accounts!Wanted(w)' = Accounts!Wanted(w)
BY DEF Accounts!Wanted

---------------------------------------------------------------------------
(* What the invariant says of one worker, and what is left of it by a step. *)

LEMMA DbAt ==
    ASSUME DbInv, NEW w \in Worker
    PROVE  /\ run[w] \in DbRun
           /\ run[w].job \in Accounts!Jobs \cup {"none"} /\ run[w].db \in Db \cup {"none"}
           /\ run[w].pc \in Accounts!Point /\ run[w].before \in Accounts!Setting
           /\ run[w].password \in 1..MaxPassword /\ run[w].hosts \subseteq Accounts!Host
           /\ run[w].todo \subseteq Db /\ run[w].seen \in Accounts!Setting
           /\ run[w].plan \in [Db -> SUBSET Accounts!Host] /\ run[w].knows \subseteq Db
           /\ run[w].resolve \in BOOLEAN /\ run[w].again \in BOOLEAN
           /\ Places(w) /\ Planned(w) /\ Listed(w) /\ Solitary(w)
BY DEF DbInv, DbTyped, DbRun

LEMMA DbMove ==
    ASSUME DbInv, NEW w \in Worker, NEW r \in DbRun, run' = [run EXCEPT ![w] = r]
    PROVE  /\ run' \in [Worker -> DbRun] /\ run'[w] = r
           /\ \A v \in Worker \ {w} : run'[v] = run[v]
BY DEF DbInv, DbTyped

LEMMA DbClosed ==
    ASSUME Accounts!DatabasesAssumption
    PROVE  /\ Accounts!Closed \in Accounts!Setting /\ Accounts!Closed.mode = "local"
           /\ Accounts!Closed.found = 1
BY DbBounds DEF Accounts!Closed, Accounts!Setting, Accounts!Mode

LEMMA DbResting ==
    ASSUME Accounts!DatabasesAssumption
    PROVE  /\ Accounts!Resting \in DbRun /\ Accounts!Resting.job = "none"
           /\ Accounts!Resting.pc = "begin" /\ Accounts!Resting.db = "none"
           /\ Accounts!Resting.resolve = FALSE /\ Accounts!Resting.again = FALSE
<1>1. Accounts!NoPlan \in [Db -> SUBSET Accounts!Host]
  BY DEF Accounts!NoPlan
<1>2. QED
  BY <1>1, DbBounds, DbClosed DEF Accounts!Resting, DbRun, Accounts!Point

\* The mutex: who holds it is in a sync, and nobody else is.
LEMMA DbMutex ==
    ASSUME DbInv, Accounts!DatabasesAssumption
    PROVE  /\ \A w \in Worker : holder = w <=> run[w].pc \in Syncing
           /\ holder \in Worker \cup {"nobody"} /\ "nobody" \notin Worker
BY DbBounds DEF DbInv, DbTyped, Places

---------------------------------------------------------------------------
(* The port.                                                               *)

Port == /\ Remembered /\ OpenToAllowed /\ \A w \in Worker : Planned(w) /\ Listed(w)

\* Who is not in a sync plans nothing.
LEMMA DbOut ==
    ASSUME NEW w \in Worker, run[w].pc \notin Syncing
    PROVE  Planned(w) /\ Listed(w)
BY DEF Planned, Listed, Syncing

\* A step outside of the syncs leaves the port alone; if it changes what is
\* allowed, a later sync looks again.
StillAllowed ==
    \A d \in Db : /\ \/ access'[d] = access[d]
                     \/ access'[d].mode = "local" /\ access[d].mode = "local"
                  /\ status[d] # "none" /\ access[d].mode # "local" => status'[d] # "none"

LEMMA DbOutside ==
    ASSUME DbInv, Accounts!DatabasesAssumption, NEW w \in Worker, NEW r \in DbRun,
           run' = [run EXCEPT ![w] = r], run[w].pc \notin Syncing, r.pc \notin Syncing,
           UNCHANGED <<rules, applied, leaked, holder, unsynced, moved>>,
           Waits => Waits',
           Waits' \/ StillAllowed
    PROVE  Port'
<1>1. run'[w] = r /\ \A v \in Worker \ {w} : run'[v] = run[v]
  BY DbMove
<1>2. ASSUME NEW v \in Worker PROVE Planned(v)' /\ Listed(v)'
  <2>1. CASE run'[v].pc \notin Syncing
    BY <2>1 DEF Planned, Listed, Syncing
  <2>2. CASE run'[v].pc \in Syncing
    <3>1. v # w /\ run'[v] = run[v] /\ Planned(v) /\ Listed(v) /\ Places(v)
      BY <1>1, <2>2, DbAt
    <3>2. Accounts!Wanted(v)' = Accounts!Wanted(v)
      BY <3>1, DbWantedSame
    <3>3. Listed(v)'
      BY <3>1, <3>2 DEF Listed
    <3>4. CASE Waits'
      BY <3>3, <3>4 DEF Planned
    <3>5. CASE ~Waits'
      <4>1. /\ ~Waits /\ run[v].pc \in Syncing
            /\ \A d \in Db : access[d].mode # "local" => access'[d] = access[d]
            /\ \A d \in Db : status[d] # "none" /\ access[d].mode # "local" => status'[d] # "none"
        BY <2>2, <3>1, <3>5 DEF StillAllowed
      <4>3. ASSUME NEW d \in Db, run[v].plan[d] \ {Accounts!Local} # {}
            PROVE  status'[d] # "none" /\ run[v].plan[d] \subseteq Accounts!Hosts(Saw(v, d)')
        <5>1. status[d] # "none" /\ run[v].plan[d] \subseteq Accounts!Hosts(Saw(v, d))
          BY <3>1, <4>1, <4>3 DEF Planned
        <5>2. access[d].mode # "local"
          <6>1. CASE run[v].pc = "keep" /\ d = run[v].db
            BY <3>1, <4>1, <6>1 DEF Planned
          <6>2. CASE ~(run[v].pc = "keep" /\ d = run[v].db)
            <7>1. Saw(v, d) = access[d] /\ access[d] \in Accounts!Setting
              BY <6>2 DEF Saw, DbInv, DbTyped
            <7>2. Accounts!Hosts(access[d]) # {Accounts!Local}
              BY <4>3, <5>1, <7>1
            <7>3. QED BY <7>1, <7>2, DbHosts
          <6>3. QED BY <6>1, <6>2
        <5>3. Saw(v, d)' = Saw(v, d)
          BY <3>1, <4>1, <5>2 DEF Saw
        <5>4. QED BY <4>1, <5>1, <5>2, <5>3
      <4>4. ASSUME run[v].pc \in {"look", "keep"}, NEW d \in run[v].todo
            PROVE  status'[d] # "none" /\ access'[d].mode = "domain"
        <5>1. status[d] # "none" /\ access[d].mode = "domain" /\ d \in Db
          BY <3>1, <4>1, <4>4, DbAt DEF Planned
        <5>2. QED BY <4>1, <5>1
      <4>5. run[v].pc = "keep" => access'[run[v].db].mode = "domain"
        BY <3>1, <4>1 DEF Planned, Listed
      <4>6. Planned(v)'
        BY <3>1, <4>1, <4>3, <4>4, <4>5 DEF Planned
      <4>7. QED BY <3>3, <4>6
    <3>6. QED BY <3>4, <3>5
  <2>3. QED BY <2>1, <2>2
<1>3. Remembered'
  <2>1. ASSUME \A v \in Worker : run'[v].pc \notin {"open", "remember"} PROVE rules \subseteq applied \cup leaked
    <3>1. \A v \in Worker : run[v].pc \notin {"open", "remember"}
      BY <1>1, <2>1 DEF Syncing
    <3>2. QED BY <3>1 DEF DbInv, Remembered
  <2>2. QED BY <2>1 DEF Remembered
<1>4. OpenToAllowed'
  <2>1. ASSUME holder = "nobody", ~unsynced, ~Waits' PROVE applied \ Accounts!Unset \subseteq Accounts!Allowed'
    <3>1. /\ ~Waits /\ \A d \in Db : access[d].mode # "local" => access'[d] = access[d]
          /\ \A d \in Db : status[d] # "none" /\ access[d].mode # "local" => status'[d] # "none"
      BY <2>1 DEF StillAllowed
    <3>2. applied \ Accounts!Unset \subseteq Accounts!Allowed
      BY <2>1, <3>1 DEF DbInv, OpenToAllowed
    <3>3. Accounts!Allowed \subseteq Accounts!Allowed'
      <4>1. SUFFICES ASSUME NEW s \in Accounts!Allowed PROVE s \in Accounts!Allowed'
        OBVIOUS
      <4>2. PICK d \in Db : status[d] # "none" /\ s \in Accounts!targets(access[d])
        BY DEF Accounts!Allowed
      <4>3. access[d].mode # "local"
        BY <4>2, DbHosts DEF DbInv, DbTyped
      <4>4. status'[d] # "none"
        BY <3>1, <4>2, <4>3
      <4>5. QED BY <3>1, <4>2, <4>3, <4>4 DEF Accounts!Allowed
    <3>4. QED BY <3>2, <3>3
  <2>2. QED BY <2>1 DEF OpenToAllowed
<1>5. QED BY <1>2, <1>3, <1>4 DEF Port

\* A step of a sync, of whose plan nothing is changed.
LEMMA DbPlanStays ==
    ASSUME DbInv, Accounts!DatabasesAssumption, NEW w \in Worker, NEW r \in DbRun,
           run' = [run EXCEPT ![w] = r], run[w].pc \in Syncing \ {"look", "keep"},
           r.pc \in Syncing \ {"look", "keep"}, r.plan = run[w].plan,
           UNCHANGED <<access, status, starting>>
    PROVE  Planned(w)'
<1>1. run'[w] = r /\ (\A v \in Worker \ {w} : run'[v] = run[v]) /\ Planned(w)
  BY DbMove, DbAt
<1>2. Waits => Waits'
  BY <1>1 DEF Waits, Syncing
<1>3. \A d \in Db : Saw(w, d)' = access[d] /\ Saw(w, d) = access[d]
  BY <1>1 DEF Saw
<1>4. QED BY <1>1, <1>2, <1>3 DEF Planned

---------------------------------------------------------------------------
(* The accounts.                                                           *)

\* What only changes elsewhere.
LEMMA DbSame ==
    ASSUME NEW d \in Db, accounts'[d] = accounts[d], access'[d] = access[d],
           password'[d] = password[d], Synced' => Synced
    PROVE  /\ \A a, p : Fits(d, a, p) => Fits(d, a, p)'
           /\ \A p : Fitting(d, p) => Fitting(d, p)'
           /\ \A a, p : Full(d, a, p) => Full(d, a, p)'
           /\ NoAccount(d) => NoAccount(d)'
           /\ status'[d] = status[d] /\ Settled(d) => Settled(d)'
<1>1. \A a, p : Fits(d, a, p) <=> Fits(d, a, p)'
  BY DEF Fits
<1>2. \A a : Only(d, a) => Only(d, a)'
  BY DEF Only
<1>3. \A a, p : Full(d, a, p) => Full(d, a, p)'
  BY DEF Full
<1>4. NoAccount(d) => NoAccount(d)'
  BY DEF NoAccount
<1>5. \A p : Fitting(d, p) => Fitting(d, p)'
  BY <1>1, <1>2 DEF Fitting
<1>6. status'[d] = status[d] /\ Settled(d) => Settled(d)'
  BY <1>3, <1>4, <1>5 DEF Settled
<1>7. QED BY <1>1, <1>3, <1>4, <1>5, <1>6

LEMMA DbAtWorkStays ==
    ASSUME DbInv, NEW d \in Db, NEW w \in Worker, AtWork(w, d), run'[w] = run[w],
           accounts'[d] = accounts[d], access'[d] = access[d], password'[d] = password[d],
           status'[d] = status[d], Synced' => Synced, unsynced => unsynced'
    PROVE  AtWork(w, d)'
<1>1. /\ \A a, p : Fits(d, a, p) => Fits(d, a, p)'
      /\ \A p : Fitting(d, p) => Fitting(d, p)'
      /\ \A a, p : Full(d, a, p) => Full(d, a, p)'
      /\ NoAccount(d) => NoAccount(d)'
      /\ Settled(d) => Settled(d)'
  BY DbSame
<1>2. QED BY <1>1 DEF AtWork

LEMMA DbInSyncStays ==
    ASSUME NEW d \in Db, NEW w \in Worker, InSync(w, d), run'[w] = run[w],
           accounts'[d] = accounts[d], access'[d] = access[d], status'[d] = status[d]
    PROVE  InSync(w, d)'
<1>1. Saw(w, d)' = Saw(w, d)
  BY DEF Saw
<1>2. NoAccount(d) => NoAccount(d)'
  BY DEF NoAccount
<1>3. QED BY <1>1, <1>2 DEF InSync

\* A step of somebody who does not work on the database.
LEMMA DbElsewhere ==
    ASSUME DbInv, NEW w \in Worker, NEW r \in DbRun, run' = [run EXCEPT ![w] = r],
           NEW d \in Db, Right(d), ~Works(w, d), ~Works(w, d)',
           accounts'[d] = accounts[d], access'[d] = access[d], password'[d] = password[d],
           status'[d] = status[d], Synced' => Synced, unsynced => unsynced', moved' = moved,
           run'[w].pc \in Syncing => InSync(w, d)'
    PROVE  Right(d)'
<1>1. run'[w] = r /\ \A v \in Worker \ {w} : run'[v] = run[v]
  BY DbMove
<1>2. \A v \in Worker : Works(v, d)' <=> Works(v, d)
  BY <1>1 DEF Works
<1>3. (\A v \in Worker : ~Works(v, d)') => Settled(d)'
  BY <1>2, DbSame DEF Right
<1>4. ASSUME NEW v \in Worker
      PROVE  (Works(v, d)' => AtWork(v, d)') /\ (run'[v].pc \in Syncing => InSync(v, d)')
  <2>1. CASE v = w
    BY <2>1
  <2>2. CASE v # w
    <3>1. run'[v] = run[v] /\ (Works(v, d) => AtWork(v, d)) /\ (run[v].pc \in Syncing => InSync(v, d))
      BY <1>1, <2>2 DEF Right
    <3>2. Works(v, d)' => AtWork(v, d)'
      BY <1>2, <3>1, DbAtWorkStays
    <3>3. QED BY <3>1, <3>2, DbInSyncStays
  <2>3. QED BY <2>1, <2>2
<1>5. QED BY <1>3, <1>4 DEF Right

\* Who works alone on a database: nobody else is to be asked.
LEMMA DbAlone ==
    ASSUME DbInv, NEW w \in Worker, NEW d \in Db \ besides, Works(w, d)
    PROVE  /\ \A v \in Worker \ {w} : run[v].job = "none" /\ run[v].pc = "begin"
           /\ AtWork(w, d) /\ Right(d)
           /\ run[w].pc \in Syncing => InSync(w, d)
<1>1. \A v \in Worker \ {w} : run[v].job = "none"
  BY DbAt DEF Works, Solitary
<1>2. \A v \in Worker \ {w} : run[v].pc = "begin"
  BY <1>1, DbAt DEF Places
<1>3. Right(d)
  BY DEF DbInv
<1>4. QED BY <1>1, <1>2, <1>3 DEF Right

\* Its own step.
LEMMA DbOwnStep ==
    ASSUME DbInv, NEW w \in Worker, NEW r \in DbRun, run' = [run EXCEPT ![w] = r],
           NEW d \in Db \ besides, Works(w, d),
           Works(w, d)' => AtWork(w, d)', ~Works(w, d)' => Settled(d)',
           run'[w].pc \in Syncing => InSync(w, d)'
    PROVE  Right(d)'
<1>1. \A v \in Worker \ {w} : run'[v] = run[v] /\ run[v].job = "none" /\ run[v].pc = "begin"
  BY DbMove, DbAlone
<1>2. \A v \in Worker \ {w} : ~Works(v, d)' /\ run'[v].pc \notin Syncing
  BY <1>1 DEF Works, Syncing
<1>3. QED BY <1>2 DEF Right

\* Nobody begins while somebody works alone, but that is noted.
LEMMA DbSolitary ==
    ASSUME DbInv, NEW w \in Worker, NEW r \in DbRun, run' = [run EXCEPT ![w] = r],
           besides \subseteq besides',
           \/ r.job = "none"
           \/ r.job = "sync" /\ run[w].job = "sync"
           \/ r.job = run[w].job /\ r.db = run[w].db
    PROVE  \A v \in Worker : Solitary(v)'
<1>1. run'[w] = r /\ \A v \in Worker \ {w} : run'[v] = run[v]
  BY DbMove
<1>2. \A v \in Worker : run'[v].job \in {run[v].job, "none"}
  BY <1>1
<1>3. \A v \in Worker : run'[v].job \notin {"none", "sync"} => run'[v].db = run[v].db /\ run'[v].job = run[v].job
  BY <1>1
<1>4. ASSUME NEW v \in Worker PROVE Solitary(v)'
  <2>1. Solitary(v)
    BY DbAt
  <2>2. QED BY <1>2, <1>3, <2>1 DEF Solitary
<1>5. QED BY <1>4

---------------------------------------------------------------------------
(* Who begins.                                                             *)

LEMMA DbBegin ==
    ASSUME DbInv, Accounts!DatabasesAssumption, NEW w \in Worker, NEW d \in Db,
           NEW job \in Accounts!Jobs, NEW at \in Accounts!Point, NEW pass \in 1..MaxPassword,
           Accounts!Begin(w, job, d, at, pass)
    PROVE  /\ run[w].job = "none" /\ run[w].pc = "begin"
           /\ run' = [run EXCEPT ![w] = run'[w]] /\ run'[w] \in DbRun
           /\ run'[w].job = job /\ run'[w].db = d /\ run'[w].pc = at /\ run'[w].password = pass
           /\ run'[w].before = access[d] /\ run'[w].hosts = Accounts!Hosts(access[d])
           /\ ~run'[w].resolve /\ ~run'[w].again
           /\ besides \subseteq besides' /\ besides' \subseteq Db
           /\ \A e \in Db \ besides' : \A v \in Worker : ~Works(v, e)
           /\ d \notin besides' => \A v \in Worker : run[v].job = "none"
<1> DEFINE r == [Accounts!Resting EXCEPT !.job = job, !.db = d, !.pc = at, !.before = access[d],
                                         !.password = pass, !.hosts = Accounts!Hosts(access[d])]
<1>1. /\ run[w].job = "none" /\ run' = [run EXCEPT ![w] = r]
      /\ besides' = IF \E v \in Worker : run[v].job # "none"
                    THEN besides \cup Accounts!WorkedOn \cup {d} ELSE besides
  BY DEF Accounts!Begin, Accounts!Busy
<1>2. access[d] \in Accounts!Setting /\ Accounts!Hosts(access[d]) \subseteq Accounts!Host
  BY DbHosts DEF DbInv, DbTyped
<1>3. /\ r \in DbRun /\ r.job = job /\ r.db = d /\ r.pc = at /\ r.password = pass
      /\ r.before = access[d] /\ r.hosts = Accounts!Hosts(access[d])
      /\ r.resolve = FALSE /\ r.again = FALSE
  BY <1>2, DbResting DEF DbRun
<1> HIDE DEF r
<1>4. run'[w] = r
  BY <1>1, <1>3, DbMove
<1>5. besides \subseteq besides' /\ besides' \subseteq Db
  BY <1>1 DEF DbInv, DbTyped, Accounts!WorkedOn
<1>6. ASSUME NEW e \in Db \ besides', NEW v \in Worker, Works(v, e) PROVE FALSE
  <2>1. run[v].job # "none" /\ run[v].db = e
    BY <1>6 DEF Works
  <2>2. e \in Accounts!WorkedOn
    BY <2>1 DEF Accounts!WorkedOn
  <2>3. QED BY <1>1, <2>1, <2>2
<1>7. QED BY <1>1, <1>3, <1>4, <1>5, <1>6, DbAt DEF Places

LEMMA DbStarts ==
    ASSUME DbInv, Accounts!DatabasesAssumption, NEW w \in Worker, NEW d \in Db,
           NEW job \in Script \cup {"access"}, NEW at \in Accounts!Point, NEW pass \in 1..MaxPassword,
           Accounts!Begin(w, job, d, at, pass),
           (job = "access" /\ at = "lock") \/ (job \in Script /\ at = "script"),
           UNCHANGED <<password, accounts, listens, rules, applied, moved, holder, starting,
                       unsynced, leaked, troubles>>,
           status' \in [Db -> {"none", "pending", "creating", "ready", "failed", "deleting"}],
           access' \in [Db -> Accounts!Setting], access'[d].found <= moved,
           \A e \in Db \ {d} : status'[e] = status[e] /\ access'[e] = access[e],
           status[d] # "none", status'[d] # "none", access' = access \/ job = "access",
           dbJobs' \subseteq {"create", "drop"} \X Db, asked' \in 0..MaxAsked,
           d \notin besides' /\ Settled(d) => AtWork(w, d)'
    PROVE  DbInv'
<1> DEFINE r == run'[w]
<1>0. job \in Accounts!Jobs
  BY DEF Script, Accounts!Jobs
<1>1. /\ run[w].job = "none" /\ run[w].pc = "begin"
      /\ run' = [run EXCEPT ![w] = r] /\ r \in DbRun
      /\ r.job = job /\ r.db = d /\ r.pc = at /\ ~r.resolve /\ ~r.again
      /\ besides \subseteq besides' /\ besides' \subseteq Db
      /\ \A e \in Db \ besides' : \A v \in Worker : ~Works(v, e)
      /\ d \notin besides' => \A v \in Worker : run[v].job = "none"
  BY <1>0, DbBegin
<1>2. r.job \notin {"none", "sync"} /\ r.pc \notin Syncing
  BY <1>1 DEF Script, Syncing
<1> HIDE DEF r
<1>3. /\ run' \in [Worker -> DbRun] /\ run'[w] = r
      /\ \A v \in Worker \ {w} : run'[v] = run[v]
  BY <1>1, DbMove
<1>4. DbTyped'
  BY <1>1, <1>3 DEF DbInv, DbTyped
<1>5. Known'
  BY DEF DbInv, Known
<1>6. \A v \in Worker : Places(v)'
  <2>1. Places(w)'
    <3>1. r.before = access[d] /\ access[d].found <= moved
      BY <1>0, DbBegin DEF r, DbInv, Known
    <3>2. QED BY <1>1, <1>2, <1>3, <3>1, DbMutex DEF Places, Syncing, Script
  <2>2. \A v \in Worker \ {w} : Places(v)'
    BY <1>3, DbAt DEF Places
  <2>3. QED BY <2>1, <2>2
<1>7. Waits => Waits'
  <2>1. ASSUME Waits, ~Waits' PROVE FALSE
    <3>1. access' = access /\ ~starting
      <4>1. ~starting /\ r.pc # "lock"
        BY <1>3, <2>1 DEF Waits
      <4>2. QED BY <1>1, <4>1 DEF Script
    <3>2. QED BY <1>1, <1>3, <2>1, <3>1 DEF Waits
  <2>2. QED BY <2>1
<1>8. Port'
  <2>1. Waits' \/ StillAllowed
    <3>1. CASE at = "lock"
      BY <1>1, <1>3, <3>1 DEF Waits
    <3>2. CASE at # "lock"
      <4>1. job \in Script /\ access' = access
        BY <3>2 DEF Script
      <4>2. \A e \in Db : status[e] # "none" => status'[e] # "none"
        OBVIOUS
      <4>3. QED BY <4>1, <4>2 DEF StillAllowed
    <3>3. QED BY <3>1, <3>2
  <2>2. run[w].pc \notin Syncing
    BY <1>1 DEF Syncing
  <2>3. QED BY <1>1, <1>2, <1>7, <2>1, <2>2, DbOutside
<1>9. \A v \in Worker : Solitary(v)'
  <2>1. Solitary(w)'
    BY <1>1, <1>3 DEF Solitary
  <2>2. ASSUME NEW v \in Worker \ {w} PROVE Solitary(v)'
    <3>1. SUFFICES ASSUME run[v].job \notin {"none", "sync"}, run[v].db \notin besides' PROVE FALSE
      BY <1>3 DEF Solitary
    <3>2. run[v].db \in Db
      BY <3>1, DbAt DEF Places
    <3>3. QED BY <1>1, <3>1, <3>2 DEF Works
  <2>3. QED BY <2>1, <2>2
<1>10. Synced' => Synced
  BY <1>1, <1>3 DEF Synced
<1>11. ASSUME NEW e \in Db \ besides' PROVE Right(e)'
  <2>1. Right(e) /\ e \notin besides
    BY <1>1 DEF DbInv
  <2>2. CASE e # d
    <3>1. ~Works(w, e) /\ ~Works(w, e)'
      BY <1>1, <1>3, <2>2 DEF Works
    <3>2. QED BY <1>1, <1>2, <1>3, <1>10, <2>1, <2>2, <3>1, DbElsewhere
  <2>3. CASE e = d
    <3>1. Settled(d) /\ \A v \in Worker : run[v].job = "none"
      BY <1>1, <1>11, <2>1, <2>3 DEF Right
    <3>2. AtWork(w, d)' /\ Works(w, d)'
      BY <1>1, <1>2, <1>3, <1>11, <2>3, <3>1 DEF Works
    <3>3. \A v \in Worker \ {w} : ~Works(v, d)' /\ run'[v].pc \notin Syncing
      BY <1>3, <3>1, DbAt DEF Works, Places, Syncing
    <3>4. QED BY <1>2, <1>3, <2>3, <3>2, <3>3 DEF Right
  <2>4. QED BY <2>2, <2>3
<1>12. QED BY <1>4, <1>5, <1>6, <1>8, <1>9, <1>11 DEF DbInv, Port

\* A request that begins nothing: jobs may be added to the queue or leave it, and
\* a database asked for.
LEMMA DbQueued ==
    ASSUME DbInv, Accounts!DatabasesAssumption,
           UNCHANGED <<password, access, accounts, listens, rules, applied, run, holder, starting,
                       unsynced, besides, leaked, troubles>>,
           \/ status' = status
           \/ \E d \in Db : status[d] = "none" /\ status' = [status EXCEPT ![d] = "pending"],
           dbJobs' \subseteq {"create", "drop"} \X Db, asked' \in 0..MaxAsked,
           moved' \in Accounts!Address, moved <= moved'
    PROVE  DbInv'
<1>1. /\ status' \in [Db -> {"none", "pending", "creating", "ready", "failed", "deleting"}]
      /\ \A e \in Db : \/ status'[e] = status[e]
                       \/ status[e] = "none" /\ status'[e] = "pending"
  BY DEF DbInv, DbTyped
<1>2. DbTyped'
  BY <1>1 DEF DbInv, DbTyped
<1>3. /\ moved \in Int /\ moved' \in Int
      /\ \A a \in Accounts!Setting : a.found \in Int
  BY DbBounds, DbSettings DEF DbInv, DbTyped
<1>4. Known'
  BY <1>3 DEF DbInv, Known, DbTyped
<1>5. Waits' <=> Waits
  BY DEF Waits
<1>6. Remembered' /\ \A w \in Worker : Places(w)' /\ Solitary(w)'
  <2>1. Remembered' /\ \A w \in Worker : Solitary(w)'
    BY DEF DbInv, Remembered, Solitary
  <2>2. ASSUME NEW w \in Worker PROVE Places(w)'
    <3>1. Places(w) /\ run[w].before.found \in Int
      BY <1>3, DbAt
    <3>2. run[w].before.found <= moved'
      BY <1>3, <3>1 DEF Places
    <3>3. QED BY <3>1, <3>2 DEF Places
  <2>3. QED BY <2>1, <2>2
<1>7. OpenToAllowed'
  <2>1. Accounts!Allowed \subseteq Accounts!Allowed'
    BY <1>1 DEF Accounts!Allowed
  <2>2. QED BY <1>5, <2>1 DEF DbInv, OpenToAllowed
<1>8. ASSUME NEW w \in Worker PROVE Planned(w)' /\ Listed(w)'
  <2>1. /\ Planned(w) /\ Listed(w) /\ run[w].todo \subseteq Db /\ run[w].seen.found \in Int
        /\ Accounts!Wanted(w)' = Accounts!Wanted(w)
    BY <1>3, DbAt, DbWantedSame
  <2>2. \A e \in Db : Saw(w, e)' = Saw(w, e)
    BY DEF Saw
  <2>3. Planned(w)'
    BY <1>1, <1>5, <2>1, <2>2 DEF Planned
  <2>4. Listed(w)'
    BY <1>3, <2>1 DEF Listed
  <2>5. QED BY <2>3, <2>4
<1>9. Synced' <=> Synced
  BY DEF Synced
<1>10. ASSUME NEW e \in Db \ besides PROVE Right(e)'
  <2>1. /\ \A a, p : Fits(e, a, p) => Fits(e, a, p)'
        /\ \A p : Fitting(e, p) => Fitting(e, p)'
        /\ \A a, p : Full(e, a, p) => Full(e, a, p)'
        /\ NoAccount(e) => NoAccount(e)'
        /\ status'[e] = status[e] /\ Settled(e) => Settled(e)'
    BY <1>9, DbSame
  <2>2. Settled(e) => Settled(e)'
    <3>1. CASE status'[e] = status[e]
      BY <2>1, <3>1
    <3>2. CASE status[e] = "none" /\ status'[e] = "pending"
      BY <2>1, <3>2 DEF Settled
    <3>3. QED BY <1>1, <3>1, <3>2
  <2>3. Right(e)
    BY DEF DbInv
  <2>4. ASSUME NEW w \in Worker
        PROVE  /\ Works(w, e)' <=> Works(w, e)
               /\ Works(w, e) => AtWork(w, e)'
               /\ run'[w].pc \in Syncing => InSync(w, e)'
    <3>1. Works(w, e)' <=> Works(w, e)
      BY DEF Works
    <3>2. run'[w].pc \in Syncing => InSync(w, e)'
      <4>1. run[w].pc \in Syncing => InSync(w, e)
        BY <2>3 DEF Right
      <4>2. Saw(w, e)' = Saw(w, e)
        BY DEF Saw
      <4>3. QED BY <1>1, <2>1, <4>1, <4>2 DEF InSync
    <3>3. Works(w, e) => AtWork(w, e)'
      <4>1. run[w].before.found \in Int
        BY <1>3, DbAt
      <4>2. Works(w, e) => AtWork(w, e)
        BY <2>3 DEF Right
      <4>3. QED BY <1>1, <1>3, <2>1, <2>2, <4>1, <4>2 DEF AtWork
    <3>4. QED BY <3>1, <3>2, <3>3
  <2>5. QED BY <2>2, <2>3, <2>4 DEF Right
<1>11. QED BY <1>2, <1>4, <1>6, <1>7, <1>8, <1>10 DEF DbInv

LEMMA DbAsked ==
    ASSUME DbInv, Accounts!DatabasesAssumption, asked' = asked \/ Accounts!Asks
    PROVE  asked' \in 0..MaxAsked
BY DbBounds DEF Accounts!Asks, DbInv, DbTyped

LEMMA DbRequests ==
    ASSUME DbInv, Accounts!DatabasesAssumption,
           \/ Accounts!Move
           \/ \E d \in Db : Accounts!databasesStore(d) \/ Accounts!databasesDestroy(d)
    PROVE  DbInv'
<1>1. CASE Accounts!Move
  <2>1. moved \in Int /\ moved' = moved + 1 /\ moved' \in Accounts!Address
    BY <1>1, DbBounds DEF Accounts!Move, DbInv, DbTyped
  <2>2. dbJobs' \subseteq {"create", "drop"} \X Db /\ asked' \in 0..MaxAsked
    BY <1>1 DEF Accounts!Move, DbInv, DbTyped
  <2>3. QED BY <1>1, <2>1, <2>2, DbQueued DEF Accounts!Move, Accounts!machine
<1>2. ASSUME NEW d \in Db, Accounts!databasesStore(d) PROVE DbInv'
  <2>1. asked' \in 0..MaxAsked
    BY <1>2, DbAsked DEF Accounts!databasesStore
  <2>2. moved' \in Accounts!Address /\ moved <= moved' /\ dbJobs' \subseteq {"create", "drop"} \X Db
    BY <1>2, DbBounds DEF Accounts!databasesStore, Accounts!asking, DbInv, DbTyped
  <2>3. QED
    BY <1>2, <2>1, <2>2, DbQueued DEF Accounts!databasesStore, Accounts!asking, Accounts!machine
<1>3. ASSUME NEW d \in Db, Accounts!databasesDestroy(d) PROVE DbInv'
  <2>1. asked' \in 0..MaxAsked
    BY <1>3, DbAsked DEF Accounts!databasesDestroy
  <2>2. moved' \in Accounts!Address /\ moved <= moved' /\ dbJobs' \subseteq {"create", "drop"} \X Db
    BY <1>3, DbBounds DEF Accounts!databasesDestroy, Accounts!asking, DbInv, DbTyped
  <2>3. QED
    BY <1>3, <2>1, <2>2, DbQueued DEF Accounts!databasesDestroy, Accounts!asking, Accounts!machine
<1>4. QED BY <1>1, <1>2, <1>3

\* A job for a database that is not there any more.
LEMMA DbGone ==
    ASSUME DbInv, Accounts!DatabasesAssumption, NEW job, NEW d \in Db,
           dbJobs' = dbJobs \ {<<job, d>>}, UNCHANGED <<Accounts!begun, asked, status, run, besides, access>>
    PROVE  DbInv'
<1>1. /\ dbJobs' \subseteq {"create", "drop"} \X Db /\ asked' \in 0..MaxAsked
      /\ moved' \in Accounts!Address /\ moved <= moved'
  BY DbBounds DEF Accounts!begun, DbInv, DbTyped
<1>2. QED BY <1>1, DbQueued DEF Accounts!begun, Accounts!machine

LEMMA DbProvision ==
    ASSUME DbInv, Accounts!DatabasesAssumption, NEW w \in Worker, NEW d \in Db, Accounts!Provision(w, d)
    PROVE  DbInv'
<1>1. CASE status[d] = "none"
  BY <1>1, DbGone DEF Accounts!Provision, Accounts!begun
<1>2. CASE status[d] # "none"
  <2>1. /\ status' = [status EXCEPT ![d] = "creating"] /\ UNCHANGED <<Accounts!begun, asked>>
        /\ Accounts!Begin(w, "create", d, "script", password[d])
        /\ dbJobs' = dbJobs \ {<<"create", d>>}
    BY <1>2 DEF Accounts!Provision
  <2>2. password[d] \in 1..MaxPassword /\ access[d].found <= moved
    BY DEF DbInv, DbTyped, Known
  <2>3. status' \in [Db -> {"none", "pending", "creating", "ready", "failed", "deleting"}]
        /\ status'[d] = "creating" /\ \A e \in Db \ {d} : status'[e] = status[e]
    BY <2>1 DEF DbInv, DbTyped
  <2>4. /\ UNCHANGED <<password, accounts, listens, rules, applied, moved, holder, starting,
                       unsynced, leaked, troubles, access>>
        /\ dbJobs' \subseteq {"create", "drop"} \X Db /\ asked' \in 0..MaxAsked
        /\ access' \in [Db -> Accounts!Setting]
    BY <2>1 DEF Accounts!begun, Accounts!machine, DbInv, DbTyped
  <2>5. "create" \in Script /\ "create" \in Accounts!Jobs /\ "script" \in Accounts!Point
    BY DEF Script, Accounts!Jobs, Accounts!Point
  <2>6. ASSUME d \notin besides', Settled(d) PROVE AtWork(w, d)'
    <3>1. /\ run[w].pc = "begin" /\ run' = [run EXCEPT ![w] = run'[w]] /\ run'[w] \in DbRun
          /\ run'[w].job = "create" /\ run'[w].pc = "script" /\ run'[w].password = password[d]
          /\ run'[w].hosts = Accounts!Hosts(access[d])
      BY <2>1, <2>2, <2>5, DbBegin
    <3>2. \A v \in Worker \ {w} : run'[v] = run[v]
      BY <3>1, DbMove
    <3>3. Synced' => Synced
      BY <2>4, <3>1, <3>2 DEF Synced
    <3>4. Fitting(d, password[d])'
      BY <2>4, <2>6, <3>3, DbSame DEF Settled
    <3>5. QED BY <2>3, <2>4, <3>1, <3>4 DEF AtWork
  <2>7. QED BY <1>2, <2>1, <2>2, <2>3, <2>4, <2>5, <2>6, DbStarts
<1>3. QED BY <1>1, <1>2

LEMMA DbDrop ==
    ASSUME DbInv, Accounts!DatabasesAssumption, NEW w \in Worker, NEW d \in Db, Accounts!Drop(w, d)
    PROVE  DbInv'
<1>1. CASE status[d] = "none"
  BY <1>1, DbGone DEF Accounts!Drop, Accounts!begun
<1>2. CASE status[d] # "none"
  <2>1. /\ status' = [status EXCEPT ![d] = "deleting"] /\ UNCHANGED <<Accounts!begun, asked>>
        /\ Accounts!Begin(w, "drop", d, "script", 1)
        /\ dbJobs' = dbJobs \ {<<"drop", d>>}
    BY <1>2 DEF Accounts!Drop
  <2>2. 1 \in 1..MaxPassword /\ access[d].found <= moved
    BY DbBounds DEF DbInv, DbTyped, Known
  <2>3. status' \in [Db -> {"none", "pending", "creating", "ready", "failed", "deleting"}]
        /\ status'[d] = "deleting" /\ \A e \in Db \ {d} : status'[e] = status[e]
    BY <2>1 DEF DbInv, DbTyped
  <2>4. /\ UNCHANGED <<password, accounts, listens, rules, applied, moved, holder, starting,
                       unsynced, leaked, troubles, access>>
        /\ dbJobs' \subseteq {"create", "drop"} \X Db /\ asked' \in 0..MaxAsked
        /\ access' \in [Db -> Accounts!Setting]
    BY <2>1 DEF Accounts!begun, Accounts!machine, DbInv, DbTyped
  <2>5. "drop" \in Script /\ "drop" \in Accounts!Jobs /\ "script" \in Accounts!Point
    BY DEF Script, Accounts!Jobs, Accounts!Point
  <2>6. AtWork(w, d)'
    <3>1. run'[w].job = "drop" /\ run'[w].pc = "script"
      BY <2>1, <2>2, <2>5, DbBegin
    <3>2. QED BY <3>1 DEF AtWork
  <2>7. QED BY <1>2, <2>1, <2>2, <2>3, <2>4, <2>5, <2>6, DbStarts
<1>3. QED BY <1>1, <1>2

\* A request for a database that is there begins.
LEMMA DbAccountRequest ==
    ASSUME DbInv, Accounts!DatabasesAssumption, NEW w \in Worker, NEW d \in Db,
           Accounts!SetPassword(w, d) \/ Accounts!RepairAccount(w, d)
    PROVE  DbInv'
<1>1. PICK job \in {"password", "repair"}, pass \in 1..MaxPassword :
        /\ Accounts!Begin(w, job, d, "script", pass) /\ (job = "repair" => pass = password[d])
  <2>1. password[d] \in 1..MaxPassword
    BY DEF DbInv, DbTyped
  <2>2. QED BY <2>1 DEF Accounts!SetPassword, Accounts!RepairAccount
<1>2. /\ status[d] # "none" /\ UNCHANGED <<Accounts!begun, status, dbJobs>> /\ Accounts!Asks
  BY DEF Accounts!SetPassword, Accounts!RepairAccount
<1>3. /\ UNCHANGED <<password, accounts, listens, rules, applied, moved, holder, starting,
                     unsynced, leaked, troubles, access, status>>
      /\ dbJobs' \subseteq {"create", "drop"} \X Db /\ asked' \in 0..MaxAsked
      /\ access' \in [Db -> Accounts!Setting] /\ access[d].found <= moved
      /\ status' \in [Db -> {"none", "pending", "creating", "ready", "failed", "deleting"}]
  BY <1>2, DbAsked DEF Accounts!begun, Accounts!machine, DbInv, DbTyped, Known
<1>4. job \in Script /\ job \in Accounts!Jobs /\ "script" \in Accounts!Point
  BY DEF Script, Accounts!Jobs, Accounts!Point
<1>5. ASSUME d \notin besides', Settled(d) PROVE AtWork(w, d)'
  <2>1. /\ run[w].pc = "begin" /\ run' = [run EXCEPT ![w] = run'[w]] /\ run'[w] \in DbRun
        /\ run'[w].job = job /\ run'[w].pc = "script" /\ run'[w].password = pass
        /\ run'[w].hosts = Accounts!Hosts(access[d])
    BY <1>1, <1>4, DbBegin
  <2>2. \A v \in Worker \ {w} : run'[v] = run[v]
    BY <2>1, DbMove
  <2>3. Synced' => Synced
    BY <1>3, <2>1, <2>2 DEF Synced
  <2>4. Settled(d)'
    BY <1>3, <1>5, <2>3, DbSame
  <2>5. status'[d] \notin {"none", "creating", "deleting"}
    BY <1>2, <1>3, <1>5 DEF Settled
  <2>6. QED BY <1>1, <1>3, <2>1, <2>4, <2>5 DEF AtWork
<1>6. QED BY <1>1, <1>2, <1>3, <1>4, <1>5, DbStarts

LEMMA DbSetAccess ==
    ASSUME DbInv, Accounts!DatabasesAssumption, NEW w \in Worker, NEW d \in Db,
           NEW mode \in Accounts!Mode, Accounts!SetAccess(w, d, mode)
    PROVE  DbInv'
<1> DEFINE a == [mode |-> mode, found |-> IF mode = "domain" THEN moved ELSE 1]
<1>1. /\ Accounts!Begin(w, "access", d, "lock", 1) /\ status[d] # "none" /\ Accounts!Asks
      /\ access' = [access EXCEPT ![d] = a]
      /\ UNCHANGED <<status, password, accounts, listens, rules, applied, moved, holder, starting,
                     unsynced, leaked, troubles, dbJobs>>
  BY DEF Accounts!SetAccess, Accounts!machine
<1>2. /\ a \in Accounts!Setting /\ a.found <= moved /\ a.mode = mode
      /\ mode = "domain" => a.found = moved
  BY DbBounds DEF Accounts!Setting, DbInv, DbTyped
<1> HIDE DEF a
<1>3. /\ access' \in [Db -> Accounts!Setting] /\ access'[d] = a
      /\ \A e \in Db \ {d} : access'[e] = access[e]
  BY <1>1, <1>2 DEF DbInv, DbTyped
<1>4. /\ dbJobs' \subseteq {"create", "drop"} \X Db /\ asked' \in 0..MaxAsked
      /\ status' \in [Db -> {"none", "pending", "creating", "ready", "failed", "deleting"}]
      /\ 1 \in 1..MaxPassword
  BY <1>1, DbAsked, DbBounds DEF DbInv, DbTyped
<1>5. "access" \in Accounts!Jobs /\ "lock" \in Accounts!Point
  BY DEF Accounts!Jobs, Accounts!Point
<1>6. ASSUME Settled(d) PROVE AtWork(w, d)'
  <2>1. /\ run'[w].job = "access" /\ run'[w].pc = "lock" /\ run'[w].before = access[d] /\ ~run'[w].again
    BY <1>1, <1>4, <1>5, DbBegin
  <2>2. Fits(d, access[d], password[d])
    BY <1>6 DEF Settled, Fitting
  <2>3. Fits(d, run[w].before, password[d])'
    BY <1>1, <2>1, <2>2 DEF Fits
  <2>4. access[d].found <= moved /\ status[d] \notin {"none", "creating", "deleting"}
    BY <1>1, <1>6 DEF DbInv, Known, Settled
  <2>5. QED BY <1>1, <1>2, <1>3, <2>1, <2>3, <2>4 DEF AtWork
<1>7. QED BY <1>1, <1>2, <1>3, <1>4, <1>5, <1>6, DbStarts

---------------------------------------------------------------------------
(* What jobs and requests do outside of the syncs.                         *)

LEMMA DbJobStep ==
    ASSUME DbInv, Accounts!DatabasesAssumption, NEW w \in Worker, NEW d \in Db, NEW r \in DbRun,
           run[w].db = d, run[w].job \in Script \cup {"access"},
           run[w].pc \in {"script", "row", "forget", "undo"},
           run' = [run EXCEPT ![w] = r], ~r.resolve,
           \/ r.job = "none" /\ r.pc = "begin"
           \/ /\ r.job = run[w].job /\ r.db = d
              /\ \/ r.job = "drop" /\ r.pc \in {"row", "forget", "lock"}
                 \/ r.job \in {"create", "password"} /\ r.pc = "row"
                 \/ r.job \in {"repair", "access"} /\ r.pc = "lock",
           UNCHANGED <<listens, rules, applied, leaked, holder, unsynced, starting, moved, dbJobs, asked>>,
           troubles' \in 0..MaxTroubles, besides \subseteq besides', besides' \subseteq Db,
           status' \in [Db -> {"none", "pending", "creating", "ready", "failed", "deleting"}],
           password' \in [Db -> 1..MaxPassword], access' \in [Db -> Accounts!Setting],
           accounts' \in [Db -> [Accounts!Host -> 0..MaxPassword]], access'[d].found <= moved,
           \A e \in Db \ {d} : /\ status'[e] = status[e] /\ password'[e] = password[e]
                               /\ access'[e] = access[e] /\ accounts'[e] = accounts[e],
           Waits => Waits',
           Waits' \/ StillAllowed, r.before.found <= moved,
           d \notin besides' /\ r.job = "none" => Settled(d)',
           d \notin besides' /\ r.job # "none" => AtWork(w, d)'
    PROVE  DbInv'
<1>1. /\ run' \in [Worker -> DbRun] /\ run'[w] = r
      /\ \A v \in Worker \ {w} : run'[v] = run[v]
  BY DbMove
<1>2. r.pc \notin Syncing /\ run[w].pc \notin Syncing
  BY DEF Syncing
<1>3. DbTyped'
  BY <1>1 DEF DbInv, DbTyped
<1>4. Known'
  BY DEF DbInv, Known
<1>5. \A v \in Worker : Places(v)'
  <2>1. Places(w)'
    BY <1>1, <1>2, DbMutex DEF Places, Syncing, Script
  <2>2. \A v \in Worker \ {w} : Places(v)'
    BY <1>1, DbAt DEF Places
  <2>3. QED BY <2>1, <2>2
<1>6. Port'
  BY <1>2, DbOutside
<1>7. \A v \in Worker : Solitary(v)'
  BY DbSolitary
<1>8. Synced' => Synced
  BY <1>1 DEF Synced, Script
<1>9. ASSUME NEW e \in Db \ besides' PROVE Right(e)'
  <2>1. Right(e) /\ e \notin besides
    BY DEF DbInv
  <2>2. CASE e # d
    <3>1. ~Works(w, e) /\ ~Works(w, e)'
      BY <1>1, <2>2 DEF Works
    <3>2. QED BY <1>1, <1>2, <1>8, <2>1, <2>2, <3>1, DbElsewhere
  <2>3. CASE e = d
    <3>1. Works(w, d)
      BY DEF Works, Script
    <3>2. Works(w, d)' => AtWork(w, d)'
      BY <1>1, <1>9, <2>3 DEF Works
    <3>3. ~Works(w, d)' => Settled(d)'
      BY <1>1, <1>9, <2>3 DEF Works, Script
    <3>4. QED BY <1>1, <1>2, <2>1, <2>3, <3>1, <3>2, <3>3, DbOwnStep
  <2>4. QED BY <2>2, <2>3
<1>10. QED BY <1>3, <1>4, <1>5, <1>6, <1>7, <1>9 DEF DbInv, Port

LEMMA DbPasses ==
    ASSUME DbInv, NEW w \in Worker, NEW at \in Accounts!Point, Accounts!To(w, at)
    PROVE  /\ run' = [run EXCEPT ![w] = run'[w]] /\ run'[w] \in DbRun /\ run'[w].pc = at
           /\ run'[w].job = run[w].job /\ run'[w].db = run[w].db /\ run'[w].before = run[w].before
           /\ run'[w].password = run[w].password /\ run'[w].hosts = run[w].hosts
           /\ run'[w].todo = run[w].todo /\ run'[w].seen = run[w].seen /\ run'[w].plan = run[w].plan
           /\ run'[w].knows = run[w].knows /\ run'[w].resolve = run[w].resolve
           /\ run'[w].again = run[w].again
           /\ \A v \in Worker \ {w} : run'[v] = run[v]
<1> DEFINE r == [run[w] EXCEPT !.pc = at]
<1>1. run' = [run EXCEPT ![w] = r]
  BY DEF Accounts!To
<1>2. run[w] \in DbRun
  BY DbAt
<1>3. /\ r \in DbRun /\ r.pc = at /\ r.job = run[w].job /\ r.db = run[w].db /\ r.before = run[w].before
      /\ r.password = run[w].password /\ r.hosts = run[w].hosts /\ r.todo = run[w].todo
      /\ r.seen = run[w].seen /\ r.plan = run[w].plan /\ r.knows = run[w].knows
      /\ r.resolve = run[w].resolve /\ r.again = run[w].again
  BY <1>2 DEF DbRun
<1> HIDE DEF r
<1>4. run'[w] = r /\ \A v \in Worker \ {w} : run'[v] = run[v]
  BY <1>1, <1>3, DbMove
<1>5. QED BY <1>1, <1>3, <1>4

LEMMA DbRests ==
    ASSUME DbInv, Accounts!DatabasesAssumption, NEW w \in Worker, Accounts!Rest(w)
    PROVE  /\ run' = [run EXCEPT ![w] = run'[w]] /\ run'[w] \in DbRun /\ run'[w].pc = "begin"
           /\ run'[w].job = "none" /\ run'[w].db = "none" /\ ~run'[w].resolve /\ ~run'[w].again
           /\ run'[w].before.found <= moved
           /\ \A v \in Worker \ {w} : run'[v] = run[v]
<1> DEFINE r == Accounts!Resting
<1>1. run' = [run EXCEPT ![w] = r]
  BY DEF Accounts!Rest
<1>2. /\ r \in DbRun /\ r.pc = "begin" /\ r.job = "none" /\ r.db = "none"
      /\ r.resolve = FALSE /\ r.again = FALSE
  BY DbResting
<1> HIDE DEF r
<1>3. run'[w] = r /\ \A v \in Worker \ {w} : run'[v] = run[v]
  BY <1>1, <1>2, DbMove
<1>4. r.before.found <= moved
  BY DbClosed, DbBounds DEF r, Accounts!Resting, DbInv, DbTyped
<1>5. QED BY <1>1, <1>2, <1>3, <1>4

LEMMA DbTroubles ==
    ASSUME DbInv, Accounts!DatabasesAssumption, Accounts!Trouble \/ Accounts!Calm
    PROVE  troubles' \in 0..MaxTroubles
BY DbBounds DEF Accounts!Trouble, Accounts!Calm, DbInv, DbTyped

\* The accounts' script has run through.
LEMMA DbScripted ==
    ASSUME Accounts!DatabasesAssumption, NEW d \in Db, NEW p, NEW q, access[d] \in Accounts!Setting,
           Fitting(d, q), access'[d] = access[d], Synced' => Synced,
           \A h \in Accounts!Host :
              accounts'[d][h] = IF h \in Accounts!Hosts(access[d]) THEN p ELSE accounts[d][h]
    PROVE  Fitting(d, p)' /\ Full(d, access[d], p)'
<1>1. Accounts!Hosts(access[d]) \subseteq Accounts!Host
  BY DbHosts
<1>2. Full(d, access[d], p)'
  BY <1>1 DEF Full
<1>3. Fits(d, access[d], p)'
  BY <1>1 DEF Fits, Fitting
<1>4. Synced' => Only(d, access[d])'
  BY <1>1 DEF Only, Fitting
<1>5. QED BY <1>2, <1>3, <1>4 DEF Fitting

LEMMA DbAccountScript ==
    ASSUME DbInv, Accounts!DatabasesAssumption, NEW w \in Worker, Accounts!AccountScript(w)
    PROVE  DbInv'
<1>1. /\ run[w].job \in {"create", "password", "repair"} /\ run[w].pc = "script"
      /\ UNCHANGED <<moved, holder, dbJobs, starting, unsynced, asked, password, access, listens,
                     rules, applied, leaked>>
  BY DEF Accounts!AccountScript, Accounts!kept
<1>2. PICK d \in Db, p \in 1..MaxPassword : run[w].db = d /\ run[w].password = p
  BY <1>1, DbAt DEF Places
<1> DEFINE With(hosts) == [h \in Accounts!Host |-> IF h \in hosts THEN p ELSE accounts[d][h]]
<1>3. \/ /\ accounts' = [accounts EXCEPT ![d] = With(run[w].hosts)]
         /\ Accounts!To(w, IF run[w].job = "repair" THEN "lock" ELSE "row")
         /\ Accounts!Calm /\ UNCHANGED <<status, besides>>
      \/ /\ \E some \in SUBSET run[w].hosts : accounts' = [accounts EXCEPT ![d] = With(some)]
         /\ status' = IF run[w].job = "create" /\ status[d] # "none" THEN [status EXCEPT ![d] = "failed"] ELSE status
         /\ Accounts!Trouble /\ Accounts!Rest(w) /\ besides' = besides \cup {d}
  BY <1>2 DEF Accounts!AccountScript
<1>4. PICK hosts : accounts' = [accounts EXCEPT ![d] = With(hosts)]
  BY <1>3
<1>5. With(hosts) \in [Accounts!Host -> 0..MaxPassword]
  BY DbBounds DEF DbInv, DbTyped
<1>6. /\ accounts' \in [Db -> [Accounts!Host -> 0..MaxPassword]]
      /\ \A e \in Db \ {d} : accounts'[e] = accounts[e]
  BY <1>4, <1>5 DEF DbInv, DbTyped
<1> HIDE DEF With
<1>7. /\ troubles' \in 0..MaxTroubles /\ access[d].found <= moved
      /\ run[w].job \in Script \cup {"access"} /\ ~run[w].resolve /\ run[w].before.found <= moved
      /\ password' \in [Db -> 1..MaxPassword] /\ access' \in [Db -> Accounts!Setting]
      /\ besides' \subseteq Db /\ besides \subseteq besides'
  BY <1>1, <1>3, DbTroubles, DbAt DEF DbInv, DbTyped, Known, Script, Places
<1>8. CASE /\ accounts' = [accounts EXCEPT ![d] = With(run[w].hosts)]
           /\ Accounts!To(w, IF run[w].job = "repair" THEN "lock" ELSE "row")
           /\ UNCHANGED <<status, besides>>
  <2>1. PICK at \in {"lock", "row"} : at = IF run[w].job = "repair" THEN "lock" ELSE "row"
    OBVIOUS
  <2>2. /\ run' = [run EXCEPT ![w] = run'[w]] /\ run'[w] \in DbRun /\ run'[w].pc = at
        /\ run'[w].job = run[w].job /\ run'[w].db = d /\ run'[w].password = p
        /\ run'[w].resolve = run[w].resolve /\ run'[w].before = run[w].before /\ \A v \in Worker \ {w} : run'[v] = run[v]
    <3>1. at \in Accounts!Point /\ Accounts!To(w, at)
      BY <1>8, <2>1 DEF Accounts!Point
    <3>2. QED BY <1>2, <3>1, DbPasses
  <2>3. status' \in [Db -> {"none", "pending", "creating", "ready", "failed", "deleting"}]
    BY <1>8 DEF DbInv, DbTyped
  <2>4. ASSUME d \notin besides PROVE AtWork(w, d)'
    <3>1. AtWork(w, d) /\ access[d] \in Accounts!Setting
      BY <1>1, <1>2, <2>4, DbAlone DEF Works, DbInv, DbTyped
    <3>2. \A h \in Accounts!Host :
             accounts'[d][h] = IF h \in Accounts!Hosts(access[d]) THEN p ELSE accounts[d][h]
      BY <1>1, <1>8, <3>1 DEF AtWork, With, DbInv, DbTyped
    <3>3. Synced' => Synced
      BY <1>1, <2>2 DEF Synced
    <3>4. PICK q \in 1..MaxPassword : Fitting(d, q)
      BY <1>1, <3>1 DEF AtWork, Settled, DbInv, DbTyped
    <3>5. Fitting(d, p)' /\ Full(d, access[d], p)'
      BY <1>1, <3>1, <3>2, <3>3, <3>4, DbScripted
    <3>6. CASE run[w].job = "create"
      BY <1>1, <1>2, <1>8, <2>2, <3>1, <3>5, <3>6 DEF AtWork
    <3>7. CASE run[w].job = "password"
      BY <1>1, <1>2, <1>8, <2>1, <2>2, <3>1, <3>5, <3>7 DEF AtWork
    <3>8. CASE run[w].job = "repair"
      <4>1. p = password'[d] /\ status'[d] \notin {"none", "creating", "deleting"}
        BY <1>1, <1>2, <1>8, <3>1, <3>8 DEF AtWork
      <4>2. Settled(d)'
        BY <3>5, <4>1 DEF Settled
      <4>3. QED BY <2>1, <2>2, <3>8, <4>1, <4>2 DEF AtWork
    <3>9. QED BY <1>1, <3>6, <3>7, <3>8
  <2>5. /\ run'[w].job # "none"
        /\ \/ run'[w].job = "drop" /\ run'[w].pc \in {"row", "forget", "lock"}
           \/ run'[w].job \in {"create", "password"} /\ run'[w].pc = "row"
           \/ run'[w].job \in {"repair", "access"} /\ run'[w].pc = "lock"
    BY <1>1, <2>1, <2>2
  <2>6. Waits => Waits'
    BY <1>1, <2>2 DEF Waits
  <2>7. QED BY <1>1, <1>2, <1>6, <1>7, <1>8, <2>2, <2>3, <2>4, <2>5, <2>6, DbJobStep DEF StillAllowed
<1>9. CASE /\ status' = IF run[w].job = "create" /\ status[d] # "none" THEN [status EXCEPT ![d] = "failed"] ELSE status
           /\ Accounts!Rest(w) /\ besides' = besides \cup {d}
  <2>1. /\ run' = [run EXCEPT ![w] = run'[w]] /\ run'[w] \in DbRun /\ run'[w].pc = "begin"
        /\ run'[w].job = "none" /\ ~run'[w].resolve /\ run'[w].before.found <= moved
        /\ \A v \in Worker \ {w} : run'[v] = run[v]
    BY <1>9, DbRests
  <2>2. /\ status' \in [Db -> {"none", "pending", "creating", "ready", "failed", "deleting"}]
        /\ \A e \in Db \ {d} : status'[e] = status[e]
        /\ status[d] # "none" => status'[d] # "none"
    BY <1>9 DEF DbInv, DbTyped
  <2>3. \A e \in Db : status[e] # "none" => status'[e] # "none"
    BY <2>2
  <2>4. d \in besides'
    BY <1>9
  <2>5. Waits => Waits'
    BY <1>1, <2>1 DEF Waits
  <2>6. QED BY <1>1, <1>2, <1>6, <1>7, <2>1, <2>2, <2>3, <2>4, <2>5, DbJobStep DEF StillAllowed
<1>10. QED BY <1>3, <1>8, <1>9

\* A database without accounts has none too many.
LEMMA DbNoAccount ==
    ASSUME NEW d \in Db, NoAccount(d)', access'[d] \in Accounts!Setting,
           status'[d] \in {"none", "pending"}, Accounts!DatabasesAssumption
    PROVE  Settled(d)'
<1>1. Accounts!Hosts(access'[d]) \subseteq Accounts!Host
  BY DbHosts
<1>2. \A p : Fits(d, access[d], p)'
  BY DEF Fits, NoAccount
<1>3. Only(d, access[d])'
  BY DEF Only, NoAccount
<1>4. QED BY <1>2, <1>3 DEF Settled, Fitting

LEMMA DbSaveRow ==
    ASSUME DbInv, Accounts!DatabasesAssumption, NEW w \in Worker, Accounts!SaveRow(w)
    PROVE  DbInv'
<1>1. /\ run[w].pc = "row" /\ run[w].job \in {"password", "create"} /\ Accounts!Rest(w)
      /\ UNCHANGED <<moved, holder, dbJobs, starting, unsynced, asked, access, accounts, listens,
                     rules, applied, besides, leaked, troubles>>
  BY DEF Accounts!SaveRow, Accounts!Is, Accounts!kept, Accounts!machine
<1>2. PICK d \in Db : run[w].db = d
  BY <1>1, DbAt DEF Places
<1>3. /\ run' = [run EXCEPT ![w] = run'[w]] /\ run'[w] \in DbRun /\ run'[w].pc = "begin"
      /\ run'[w].job = "none" /\ ~run'[w].resolve /\ run'[w].before.found <= moved
        /\ \A v \in Worker \ {w} : run'[v] = run[v]
  BY <1>1, DbRests
<1>4. \/ /\ run[w].job = "password" /\ status' = status
         /\ password' = [password EXCEPT ![d] = run[w].password]
      \/ /\ run[w].job = "create" /\ password' = password
         /\ status' = IF status[d] = "none" THEN status ELSE [status EXCEPT ![d] = "ready"]
  BY <1>2 DEF Accounts!SaveRow, Accounts!Is
<1>5. /\ status' \in [Db -> {"none", "pending", "creating", "ready", "failed", "deleting"}]
      /\ password' \in [Db -> 1..MaxPassword]
      /\ \A e \in Db \ {d} : status'[e] = status[e] /\ password'[e] = password[e]
      /\ \A e \in Db : status[e] # "none" => status'[e] # "none"
      /\ run[w].job = "password" => password'[d] = run[w].password /\ status'[d] = status[d]
      /\ run[w].job = "create" /\ status[d] # "none" => password'[d] = password[d] /\ status'[d] = "ready"
  BY <1>4, DbAt DEF DbInv, DbTyped
<1>6. /\ access[d].found <= moved /\ run[w].job \in Script \cup {"access"} /\ besides' \subseteq Db
      /\ access' \in [Db -> Accounts!Setting] /\ troubles' \in 0..MaxTroubles
      /\ accounts' \in [Db -> [Accounts!Host -> 0..MaxPassword]]
  BY <1>1 DEF DbInv, DbTyped, Known, Script
<1>7. Waits => Waits'
  BY <1>1, <1>3 DEF Waits
<1>8. ASSUME d \notin besides PROVE Settled(d)'
  <2>1. AtWork(w, d)
    BY <1>1, <1>2, <1>8, DbAlone DEF Works
  <2>2. /\ Fitting(d, password'[d]) /\ Full(d, access[d], password'[d])
        /\ status'[d] \notin {"none", "creating", "deleting"}
    <3>1. CASE run[w].job = "password"
      BY <1>1, <1>5, <2>1, <3>1 DEF AtWork
    <3>2. CASE run[w].job = "create"
      BY <1>1, <1>5, <2>1, <3>2 DEF AtWork
    <3>3. QED BY <1>1, <3>1, <3>2
  <2>3. Synced' => Synced
    BY <1>1, <1>3 DEF Synced
  <2>4. PICK p \in 1..MaxPassword : p = password'[d]
    BY <1>5
  <2>5. Fitting(d, p)' /\ Full(d, access[d], p)'
    BY <1>1, <2>2, <2>3, <2>4 DEF Fitting, Fits, Only, Full
  <2>6. QED BY <2>2, <2>4, <2>5 DEF Settled
<1>9. QED BY <1>1, <1>2, <1>3, <1>5, <1>6, <1>7, <1>8, DbJobStep DEF StillAllowed

LEMMA DbDropScript ==
    ASSUME DbInv, Accounts!DatabasesAssumption, NEW w \in Worker, Accounts!DropScript(w)
    PROVE  DbInv'
<1>1. /\ run[w].pc = "script" /\ run[w].job = "drop"
      /\ UNCHANGED <<moved, holder, dbJobs, starting, unsynced, asked, password, access, listens,
                     rules, applied, leaked>>
  BY DEF Accounts!DropScript, Accounts!Is, Accounts!kept
<1>2. PICK d \in Db : run[w].db = d
  BY <1>1, DbAt DEF Places
<1> DEFINE zero == [h \in Accounts!Host |-> 0]
<1>3. \/ /\ accounts' = [accounts EXCEPT ![d] = zero]
         /\ Accounts!To(w, "row") /\ Accounts!Calm /\ UNCHANGED <<status, besides>>
      \/ /\ status' = IF status[d] = "none" THEN status ELSE [status EXCEPT ![d] = "failed"]
         /\ Accounts!Trouble /\ Accounts!Rest(w) /\ accounts' = accounts /\ besides' = besides \cup {d}
  BY <1>2 DEF Accounts!DropScript
<1>4. zero \in [Accounts!Host -> 0..MaxPassword] /\ \A h \in Accounts!Host : zero[h] = 0
  BY DbBounds
<1> HIDE DEF zero
<1>5. /\ accounts' \in [Db -> [Accounts!Host -> 0..MaxPassword]]
      /\ \A e \in Db \ {d} : accounts'[e] = accounts[e]
      /\ status' \in [Db -> {"none", "pending", "creating", "ready", "failed", "deleting"}]
      /\ \A e \in Db \ {d} : status'[e] = status[e]
      /\ \A e \in Db : status[e] # "none" => status'[e] # "none"
  BY <1>3, <1>4 DEF DbInv, DbTyped
<1>6. /\ troubles' \in 0..MaxTroubles /\ access[d].found <= moved /\ ~run[w].resolve /\ run[w].before.found <= moved
      /\ run[w].job \in Script \cup {"access"}
      /\ password' \in [Db -> 1..MaxPassword] /\ access' \in [Db -> Accounts!Setting]
      /\ besides' \subseteq Db /\ besides \subseteq besides'
  BY <1>1, <1>3, DbTroubles, DbAt DEF DbInv, DbTyped, Known, Script, Places
<1>7. CASE Accounts!To(w, "row") /\ accounts' = [accounts EXCEPT ![d] = zero] /\ UNCHANGED <<status, besides>>
  <2>1. "row" \in Accounts!Point
    BY DEF Accounts!Point
  <2>2. /\ run' = [run EXCEPT ![w] = run'[w]] /\ run'[w] \in DbRun /\ run'[w].pc = "row"
        /\ run'[w].job = "drop" /\ run'[w].db = d
        /\ run'[w].resolve = run[w].resolve /\ run'[w].before = run[w].before /\ \A v \in Worker \ {w} : run'[v] = run[v]
    BY <1>1, <1>2, <1>7, <2>1, DbPasses
  <2>3. AtWork(w, d)'
    <3>1. NoAccount(d)'
      BY <1>4, <1>7 DEF NoAccount, DbInv, DbTyped
    <3>2. QED BY <2>2, <3>1 DEF AtWork
  <2>4. Waits => Waits'
    BY <1>1, <2>2 DEF Waits
  <2>5. QED BY <1>1, <1>2, <1>5, <1>6, <1>7, <2>2, <2>3, <2>4, DbJobStep DEF StillAllowed
<1>8. CASE Accounts!Rest(w) /\ besides' = besides \cup {d}
  <2>1. /\ run' = [run EXCEPT ![w] = run'[w]] /\ run'[w] \in DbRun /\ run'[w].pc = "begin"
        /\ run'[w].job = "none" /\ ~run'[w].resolve /\ run'[w].before.found <= moved
        /\ \A v \in Worker \ {w} : run'[v] = run[v]
    BY <1>8, DbRests
  <2>2. Waits => Waits'
    BY <1>1, <2>1 DEF Waits
  <2>3. QED BY <1>1, <1>2, <1>5, <1>6, <1>8, <2>1, <2>2, DbJobStep DEF StillAllowed
<1>9. QED BY <1>3, <1>7, <1>8

LEMMA DbDropRow ==
    ASSUME DbInv, Accounts!DatabasesAssumption, NEW w \in Worker, Accounts!DropRow(w)
    PROVE  DbInv'
<1>1. /\ run[w].pc = "row" /\ run[w].job = "drop" /\ Accounts!To(w, "forget")
      /\ UNCHANGED <<moved, holder, dbJobs, starting, unsynced, asked, password, access, accounts,
                     listens, rules, applied, besides, leaked, troubles>>
  BY DEF Accounts!DropRow, Accounts!Is, Accounts!kept, Accounts!machine
<1>2. PICK d \in Db : run[w].db = d
  BY <1>1, DbAt DEF Places
<1>3. status' = [status EXCEPT ![d] = "none"]
  BY <1>2 DEF Accounts!DropRow
<1>4. /\ status' \in [Db -> {"none", "pending", "creating", "ready", "failed", "deleting"}]
      /\ status'[d] = "none" /\ \A e \in Db \ {d} : status'[e] = status[e]
  BY <1>3 DEF DbInv, DbTyped
<1>5. "forget" \in Accounts!Point
  BY DEF Accounts!Point
<1>6. /\ run' = [run EXCEPT ![w] = run'[w]] /\ run'[w] \in DbRun /\ run'[w].pc = "forget"
      /\ run'[w].job = "drop" /\ run'[w].db = d
      /\ run'[w].resolve = run[w].resolve /\ run'[w].before = run[w].before /\ \A v \in Worker \ {w} : run'[v] = run[v]
  BY <1>1, <1>2, <1>5, DbPasses
<1>7. /\ troubles' \in 0..MaxTroubles /\ access[d].found <= moved /\ ~run[w].resolve /\ run[w].before.found <= moved
      /\ run[w].job \in Script \cup {"access"}
      /\ password' \in [Db -> 1..MaxPassword] /\ access' \in [Db -> Accounts!Setting]
      /\ accounts' \in [Db -> [Accounts!Host -> 0..MaxPassword]] /\ besides' \subseteq Db
  BY <1>1, DbAt DEF DbInv, DbTyped, Known, Script, Places
<1>8. Waits => Waits'
  BY <1>1, <1>6 DEF Waits
<1>9. Waits' \/ \A e \in Db : status[e] # "none" /\ access[e].mode # "local" => status'[e] # "none"
  BY <1>1, <1>4, <1>6 DEF Waits
<1>10. ASSUME d \notin besides PROVE AtWork(w, d)'
  <2>1. NoAccount(d)
    BY <1>1, <1>2, <1>10, DbAlone DEF Works, AtWork
  <2>2. NoAccount(d)'
    BY <1>1, <2>1 DEF NoAccount
  <2>3. Settled(d)'
    BY <1>4, <2>2, <1>7, DbNoAccount
  <2>4. QED BY <1>4, <1>6, <2>2, <2>3 DEF AtWork
<1>11. QED BY <1>1, <1>2, <1>4, <1>6, <1>7, <1>8, <1>9, <1>10, DbJobStep DEF StillAllowed

LEMMA DbForgetAccess ==
    ASSUME DbInv, Accounts!DatabasesAssumption, NEW w \in Worker, Accounts!ForgetAccess(w)
    PROVE  DbInv'
<1>1. /\ run[w].pc = "forget" /\ run[w].job = "drop"
      /\ UNCHANGED <<moved, holder, dbJobs, starting, unsynced, asked, status, password, accounts,
                     listens, rules, applied, besides, leaked, troubles>>
  BY DEF Accounts!ForgetAccess, Accounts!Is, Accounts!kept, Accounts!machine
<1>2. PICK d \in Db : run[w].db = d
  BY <1>1, DbAt DEF Places
<1>3. /\ access' = [access EXCEPT ![d] = Accounts!Closed]
      /\ IF access[d].mode # "local" THEN Accounts!To(w, "lock") ELSE Accounts!Rest(w)
  BY <1>2 DEF Accounts!ForgetAccess
<1>4. /\ access' \in [Db -> Accounts!Setting] /\ access'[d] = Accounts!Closed
      /\ \A e \in Db \ {d} : access'[e] = access[e]
      /\ access'[d].found <= moved /\ access'[d].mode = "local"
  BY <1>3, DbClosed, DbBounds DEF DbInv, DbTyped
<1>5. /\ troubles' \in 0..MaxTroubles /\ ~run[w].resolve /\ run[w].before.found <= moved /\ run[w].job \in Script \cup {"access"}
      /\ password' \in [Db -> 1..MaxPassword] /\ besides' \subseteq Db
      /\ accounts' \in [Db -> [Accounts!Host -> 0..MaxPassword]]
      /\ status' \in [Db -> {"none", "pending", "creating", "ready", "failed", "deleting"}]
  BY <1>1, DbAt DEF DbInv, DbTyped, Script, Places
<1>6. ASSUME d \notin besides PROVE Settled(d)'
  <2>1. NoAccount(d) /\ status[d] \in {"none", "pending"}
    BY <1>1, <1>2, <1>6, DbAlone DEF Works, AtWork
  <2>2. NoAccount(d)'
    BY <1>1, <2>1 DEF NoAccount
  <2>3. QED BY <1>1, <1>4, <2>1, <2>2, DbNoAccount
<1>7. CASE access[d].mode # "local"
  <2>1. "lock" \in Accounts!Point
    BY DEF Accounts!Point
  <2>2. /\ run' = [run EXCEPT ![w] = run'[w]] /\ run'[w] \in DbRun /\ run'[w].pc = "lock"
        /\ run'[w].job = "drop" /\ run'[w].db = d /\ run'[w].resolve = run[w].resolve /\ run'[w].before = run[w].before
    BY <1>1, <1>2, <1>3, <1>7, <2>1, DbPasses
  <2>3. Waits'
    BY <2>2 DEF Waits
  <2>4. d \notin besides => AtWork(w, d)'
    BY <1>6, <2>2 DEF AtWork
  <2>5. QED BY <1>1, <1>2, <1>4, <1>5, <2>2, <2>3, <2>4, DbJobStep DEF StillAllowed
<1>8. CASE access[d].mode = "local"
  <2>1. /\ run' = [run EXCEPT ![w] = run'[w]] /\ run'[w] \in DbRun /\ run'[w].pc = "begin"
        /\ run'[w].job = "none" /\ ~run'[w].resolve /\ run'[w].before.found <= moved
        /\ \A v \in Worker \ {w} : run'[v] = run[v]
    BY <1>3, <1>8, DbRests
  <2>2. Waits => Waits'
    <3>1. CASE starting
      BY <1>1, <3>1 DEF Waits
    <3>2. ASSUME NEW v \in Worker, \/ run[v].pc = "lock"
                                   \/ run[v].pc = "forget" /\ access[run[v].db].mode # "local"
          PROVE  Waits'
      <4>1. v # w
        BY <1>1, <1>2, <1>8, <3>2
      <4>2. run'[v] = run[v]
        BY <2>1, <4>1
      <4>3. CASE run[v].pc = "lock"
        BY <4>2, <4>3 DEF Waits
      <4>4. CASE run[v].pc = "forget" /\ access[run[v].db].mode # "local"
        <5>1. run[v].db \in Db /\ run[v].db # d
          BY <1>8, <4>4, DbAt DEF Places
        <5>2. access'[run[v].db] = access[run[v].db]
          BY <1>4, <5>1
        <5>3. QED BY <4>2, <4>4, <5>2 DEF Waits
      <4>5. QED BY <3>2, <4>3, <4>4
    <3>3. QED BY <3>1, <3>2 DEF Waits
  <2>3. /\ \A e \in Db : \/ access'[e] = access[e]
                         \/ access'[e].mode = "local" /\ access[e].mode = "local"
        /\ \A e \in Db : status[e] # "none" => status'[e] # "none"
    BY <1>1, <1>4, <1>8
  <2>4. QED BY <1>1, <1>2, <1>4, <1>5, <1>6, <2>1, <2>2, <2>3, DbJobStep DEF StillAllowed
<1>9. QED BY <1>7, <1>8

LEMMA DbUndo ==
    ASSUME DbInv, Accounts!DatabasesAssumption, NEW w \in Worker, Accounts!Undo(w)
    PROVE  DbInv'
<1>1. /\ run[w].pc = "undo" /\ run[w].job = "access" /\ ~run[w].again
      /\ UNCHANGED <<status, password, moved, dbJobs, starting, asked, holder, accounts, listens,
                     rules, applied, unsynced, besides, leaked, troubles>>
      /\ run' = [run EXCEPT ![w] = [@ EXCEPT !.pc = "lock", !.again = TRUE]]
  BY DbAt DEF Accounts!Undo, Accounts!syncs, Accounts!machine, Places
<1>2. PICK d \in Db : run[w].db = d
  BY <1>1, DbAt DEF Places
<1> DEFINE r == [run[w] EXCEPT !.pc = "lock", !.again = TRUE]
<1>3. run' = [run EXCEPT ![w] = r]
  BY <1>1
<1>4. /\ r \in DbRun /\ r.pc = "lock" /\ r.again = TRUE /\ r.job = "access" /\ r.db = d
      /\ r.resolve = run[w].resolve /\ r.before = run[w].before
  BY <1>1, <1>2, DbAt DEF DbRun, Accounts!Point
<1> HIDE DEF r
<1>5. /\ run'[w] = r /\ \A v \in Worker \ {w} : run'[v] = run[v]
  BY <1>3, <1>4, DbMove
<1>6. access' = [access EXCEPT ![d] = run[w].before]
  BY <1>2 DEF Accounts!Undo
<1>7. /\ access' \in [Db -> Accounts!Setting] /\ access'[d] = run[w].before
      /\ \A e \in Db \ {d} : access'[e] = access[e]
  BY <1>6, DbAt DEF DbInv, DbTyped
<1>8. /\ troubles' \in 0..MaxTroubles /\ ~run[w].resolve /\ run[w].before.found <= moved /\ run[w].job \in Script \cup {"access"}
      /\ password' \in [Db -> 1..MaxPassword] /\ besides' \subseteq Db
      /\ accounts' \in [Db -> [Accounts!Host -> 0..MaxPassword]]
      /\ status' \in [Db -> {"none", "pending", "creating", "ready", "failed", "deleting"}]
  BY <1>1, DbAt DEF DbInv, DbTyped, Script, Places
<1>9. Waits'
  BY <1>4, <1>5 DEF Waits
<1>10. ASSUME d \notin besides PROVE AtWork(w, d)'
  <2>1. /\ Fits(d, run[w].before, password[d]) /\ unsynced
        /\ status[d] \notin {"none", "creating", "deleting"}
    BY <1>1, <1>2, <1>10, DbAlone DEF Works, AtWork
  <2>2. Fits(d, access[d], password[d])'
    BY <1>1, <1>7, <2>1 DEF Fits
  <2>3. Settled(d)'
    BY <1>1, <2>1, <2>2 DEF Settled, Fitting, Synced
  <2>4. QED BY <1>1, <1>4, <1>5, <2>1, <2>3 DEF AtWork
<1>11. /\ access'[d].found <= moved
       /\ run[w].pc \in {"script", "row", "forget", "undo"} /\ besides \subseteq besides'
       /\ \A e \in Db \ {d} : /\ status'[e] = status[e] /\ password'[e] = password[e]
                               /\ access'[e] = access[e] /\ accounts'[e] = accounts[e]
  BY <1>1, <1>7, <1>8
<1>12. /\ run' = [run EXCEPT ![w] = run'[w]] /\ run'[w] \in DbRun /\ run'[w].pc = "lock"
       /\ run'[w].job = "access" /\ run'[w].db = d /\ ~run'[w].resolve
       /\ run'[w].before.found <= moved
  BY <1>3, <1>4, <1>5, <1>8
<1>13. d \notin besides' => AtWork(w, d)'
  BY <1>1, <1>10
<1>14. QED BY <1>1, <1>2, <1>7, <1>8, <1>9, <1>11, <1>12, <1>13, DbJobStep

---------------------------------------------------------------------------
(* The syncs.                                                              *)

LEMMA DbClock ==
    ASSUME DbInv, Accounts!DatabasesAssumption, NEW w \in Worker, Accounts!Clock(w)
    PROVE  DbInv'
<1> DEFINE r == [Accounts!Resting EXCEPT !.job = "sync", !.pc = "lock", !.resolve = TRUE]
<1>1. /\ run[w].job = "none" /\ run' = [run EXCEPT ![w] = r]
      /\ starting' \in BOOLEAN /\ besides' = besides \cup Accounts!WorkedOn
      /\ UNCHANGED <<status, password, access, accounts, listens, rules, applied, moved, holder,
                     dbJobs, unsynced, leaked, asked, troubles>>
  BY DEF Accounts!Clock, Accounts!Busy, Accounts!machine, DbInv, DbTyped
<1>2. /\ r \in DbRun /\ r.job = "sync" /\ r.pc = "lock" /\ r.resolve = TRUE
      /\ r.before = Accounts!Closed
  BY DbResting DEF DbRun, Accounts!Resting, Accounts!Jobs, Accounts!Point
<1> HIDE DEF r
<1>3. /\ run' \in [Worker -> DbRun] /\ run'[w] = r /\ \A v \in Worker \ {w} : run'[v] = run[v]
  BY <1>1, <1>2, DbMove
<1>4. run[w].pc = "begin"
  BY <1>1, DbAt DEF Places
<1>5. besides \subseteq besides' /\ besides' \subseteq Db
  BY <1>1 DEF DbInv, DbTyped, Accounts!WorkedOn
<1>6. DbTyped' /\ Known'
  BY <1>1, <1>3, <1>5 DEF DbInv, DbTyped, Known
<1>7. \A v \in Worker : Places(v)'
  <2>1. Places(w)'
    <3>1. r.before.found <= moved
      BY <1>2, DbClosed, DbBounds DEF DbInv, DbTyped
    <3>2. QED BY <1>1, <1>2, <1>3, <1>4, <3>1, DbMutex DEF Places, Syncing
  <2>2. \A v \in Worker \ {w} : Places(v)'
    BY <1>1, <1>3, DbAt DEF Places
  <2>3. QED BY <2>1, <2>2
<1>8. Port'
  <2>1. Waits' /\ run[w].pc \notin Syncing /\ r.pc \notin Syncing
    BY <1>2, <1>3, <1>4 DEF Waits, Syncing
  <2>2. QED BY <1>1, <1>2, <2>1, DbOutside
<1>9. ASSUME NEW e \in Db \ besides', NEW v \in Worker PROVE ~Works(v, e)
  BY <1>1, <1>9 DEF Works, Accounts!WorkedOn
<1>10. \A v \in Worker : Solitary(v)'
  <2>1. Solitary(w)'
    BY <1>2, <1>3 DEF Solitary
  <2>2. ASSUME NEW v \in Worker \ {w} PROVE Solitary(v)'
    <3>1. SUFFICES ASSUME run[v].job \notin {"none", "sync"}, run[v].db \notin besides' PROVE FALSE
      BY <1>3 DEF Solitary
    <3>2. run[v].db \in Db
      BY <3>1, DbAt DEF Places
    <3>3. QED BY <1>9, <3>1, <3>2 DEF Works
  <2>3. QED BY <2>1, <2>2
<1>11. ASSUME NEW e \in Db \ besides' PROVE Right(e)'
  <2>1. Right(e) /\ ~Works(w, e)
    BY <1>5, <1>9 DEF DbInv
  <2>2. ~Works(w, e)' /\ ~Synced' /\ run'[w].pc \notin Syncing
    BY <1>2, <1>3 DEF Works, Synced, Syncing
  <2>3. QED BY <1>1, <1>2, <2>1, <2>2, DbElsewhere
<1>12. QED BY <1>6, <1>7, <1>8, <1>10, <1>11 DEF DbInv, Port

\* A step of a sync, or the one that takes the mutex.
LEMMA DbSyncStep ==
    ASSUME DbInv, Accounts!DatabasesAssumption, NEW w \in Worker, NEW r \in DbRun,
           run' = [run EXCEPT ![w] = r],
           run[w].pc \in Syncing \/ (run[w].pc = "lock" /\ holder = "nobody"), holder' = w,
           r.pc \in Syncing, r.job = run[w].job, r.job = "sync" \/ r.db = run[w].db,
           r.pc \in {"look", "keep"} => r.job = "sync",
           r.resolve = run[w].resolve, r.before = run[w].before, r.again = run[w].again,
           UNCHANGED <<status, password, accounts, moved, dbJobs, starting, asked, unsynced, besides>>,
           access' \in [Db -> Accounts!Setting], Known', listens' \in BOOLEAN,
           rules' \subseteq Accounts!Source, leaked' \subseteq Accounts!Source,
           applied' = Accounts!Unset \/ applied' \subseteq Accounts!Source, troubles' \in 0..MaxTroubles,
           Remembered', Planned(w)', Listed(w)',
           \A e \in Db \ besides :
              /\ Right(e) => InSync(w, e)'
              /\ \/ access'[e] = access[e]
                 \/ r.job = "sync" /\ (Settled(e) => Settled(e)')
    PROVE  DbInv'
<1>1. /\ run' \in [Worker -> DbRun] /\ run'[w] = r /\ \A v \in Worker \ {w} : run'[v] = run[v]
  BY DbMove
<1>2. /\ holder' # "nobody" /\ ~Synced'
      /\ \A v \in Worker \ {w} : run[v].pc \notin Syncing
  BY DbMutex DEF Synced
<1>3. DbTyped'
  BY <1>1 DEF DbInv, DbTyped
<1>4. /\ Places(w) /\ r.job \in {"repair", "drop", "access", "sync"}
      /\ run[w].pc \notin {"begin", "script", "row", "forget", "undo"}
  BY DbAt DEF Places, Syncing
<1>5. \A v \in Worker : Places(v)'
  <2>1. Places(w)'
    <3>1. /\ r.pc \notin {"begin", "script", "row", "forget", "undo"}
          /\ r.job \notin {"none", "sync"} => r.db \in Db
          /\ r.resolve <=> r.job = "sync"
          /\ r.before.found <= moved
      BY <1>4 DEF Places, Syncing
    <3>2. QED BY <1>1, <1>4, <3>1 DEF Places
  <2>2. ASSUME NEW v \in Worker \ {w} PROVE Places(v)'
    BY <1>1, <1>2, <2>2, DbAt, DbMutex DEF Places
  <2>3. QED BY <2>1, <2>2
<1>6. Port'
  <2>1. OpenToAllowed'
    BY <1>2 DEF OpenToAllowed
  <2>2. \A v \in Worker \ {w} : Planned(v)' /\ Listed(v)'
    BY <1>1, <1>2 DEF Planned, Listed, Syncing
  <2>3. QED BY <2>1, <2>2 DEF Port
<1>7. \A v \in Worker : Solitary(v)'
  BY DbSolitary
<1>8. ASSUME NEW e \in Db \ besides PROVE Right(e)'
  <2>1. Right(e) /\ InSync(w, e)'
    BY DEF DbInv
  <2>2. Works(w, e) <=> Works(w, e)'
    BY <1>1 DEF Works
  <2>3. CASE access'[e] = access[e] /\ Works(w, e)
    <3>1. AtWork(w, e) /\ status'[e] = status[e]
      BY <2>1, <2>3 DEF Right
    <3>2. /\ \A a, p : Fits(e, a, p) => Fits(e, a, p)'
          /\ Settled(e) => Settled(e)'
      BY <1>2, <2>3, DbSame
    <3>3. AtWork(w, e)'
      <4>1. r.pc \notin {"script", "row", "forget", "undo"}
        BY DEF Syncing
      <4>2. r.job = "repair" => Settled(e)'
        BY <3>1, <3>2 DEF AtWork
      <4>3. r.job = "drop" => Settled(e)'
        BY <1>4, <3>1, <3>2 DEF AtWork
      <4>4. r.job = "access" /\ r.again => Settled(e)'
        BY <3>1, <3>2 DEF AtWork
      <4>5. r.job = "access" /\ ~r.again =>
              /\ Fits(e, r.before, password[e])'
              /\ access'[e].mode = "domain" => r.before.found <= access'[e].found
        BY <2>3, <3>1, <3>2 DEF AtWork
      <4>6. r.job \in {"repair", "access"} => status'[e] \notin {"none", "creating", "deleting"}
        BY <3>1 DEF AtWork
      <4>7. QED BY <1>1, <1>4, <4>1, <4>2, <4>3, <4>4, <4>5, <4>6 DEF AtWork
    <3>4. QED BY <2>1, <2>2, <2>3, <3>3, DbOwnStep
  <2>4. CASE access'[e] = access[e] /\ ~Works(w, e)
    BY <1>2, <2>1, <2>2, <2>4, DbElsewhere
  <2>5. CASE r.job = "sync" /\ (Settled(e) => Settled(e)')
    <3>1. ~Works(w, e) /\ \A v \in Worker \ {w} : ~Works(v, e)
      BY <2>5, DbAlone DEF Works
    <3>2. Settled(e)'
      BY <2>1, <2>5, <3>1 DEF Right
    <3>3. \A v \in Worker : ~Works(v, e)'
      BY <1>1, <2>2, <3>1 DEF Works
    <3>4. QED BY <1>1, <1>2, <2>1, <3>2, <3>3 DEF Right
  <2>6. QED BY <2>3, <2>4, <2>5
<1>9. QED BY <1>3, <1>5, <1>6, <1>7, <1>8 DEF DbInv, Port

\* The step that lets the mutex go.
LEMMA DbSyncEnds ==
    ASSUME DbInv, Accounts!DatabasesAssumption, NEW w \in Worker, NEW r \in DbRun,
           run' = [run EXCEPT ![w] = r], run[w].pc \in Syncing, holder' = "nobody",
           \/ r.job = "none" /\ r.pc = "begin" /\ ~r.resolve
           \/ /\ r.pc = "undo" /\ r.job = "access" /\ run[w].job = "access" /\ ~r.again
              /\ r.db = run[w].db /\ r.resolve = run[w].resolve,
           r.before.found <= moved,
           UNCHANGED <<status, password, access, moved, dbJobs, starting, asked, besides>>,
           accounts' \in [Db -> [Accounts!Host -> 0..MaxPassword]],
           unsynced' \in BOOLEAN, listens' \in BOOLEAN,
           rules' \subseteq Accounts!Source, leaked' \subseteq Accounts!Source,
           applied' = Accounts!Unset \/ applied' \subseteq Accounts!Source, troubles' \in 0..MaxTroubles,
           Remembered', OpenToAllowed',
           \A e \in Db \ besides :
              IF r.job = "access" /\ r.db = e THEN AtWork(w, e) => AtWork(w, e)' ELSE Settled(e)'
    PROVE  DbInv'
<1>1. /\ run' \in [Worker -> DbRun] /\ run'[w] = r /\ \A v \in Worker \ {w} : run'[v] = run[v]
  BY DbMove
<1>2. /\ holder = w /\ r.pc \notin Syncing
      /\ \A v \in Worker \ {w} : run[v].pc \notin Syncing
  BY DbMutex DEF Syncing
<1>3. DbTyped'
  BY <1>1 DEF DbInv, DbTyped
<1>4. Known'
  BY DEF DbInv, Known
<1>5. \A v \in Worker : Places(v)'
  <2>1. Places(w)'
    BY <1>1, <1>2, DbAt, DbMutex DEF Places, Syncing
  <2>2. ASSUME NEW v \in Worker \ {w} PROVE Places(v)'
    BY <1>1, <1>2, <2>2, DbAt, DbMutex DEF Places
  <2>3. QED BY <2>1, <2>2
<1>6. Port'
  <2>1. \A v \in Worker : Planned(v)' /\ Listed(v)'
    BY <1>1, <1>2 DEF Planned, Listed, Syncing
  <2>2. QED BY <2>1 DEF Port
<1>7. \A v \in Worker : Solitary(v)'
  BY DbSolitary
<1>8. ASSUME NEW e \in Db \ besides PROVE Right(e)'
  <2>1. Right(e)
    BY DEF DbInv
  <2>2. \A v \in Worker : run'[v].pc \notin Syncing
    BY <1>1, <1>2
  <2>3. \A v \in Worker \ {w} : ~Works(v, e)
    <3>1. ASSUME NEW v \in Worker \ {w}, Works(v, e) PROVE FALSE
      BY <3>1, DbAlone DEF Syncing
    <3>2. QED BY <3>1
  <2>4. \A v \in Worker \ {w} : ~Works(v, e)'
    BY <1>1, <2>3 DEF Works
  <2>5. CASE r.job = "access" /\ r.db = e
    <3>1. Works(w, e) /\ Works(w, e)'
      BY <1>1, <2>5 DEF Works
    <3>2. AtWork(w, e)'
      BY <2>1, <2>5, <3>1 DEF Right
    <3>3. QED BY <2>2, <2>4, <3>1, <3>2 DEF Right
  <2>6. CASE ~(r.job = "access" /\ r.db = e)
    <3>1. ~Works(w, e)'
      BY <1>1, <2>6 DEF Works
    <3>2. QED BY <2>2, <2>4, <2>6, <3>1 DEF Right
  <2>7. QED BY <2>5, <2>6
<1>9. QED BY <1>3, <1>4, <1>5, <1>6, <1>7, <1>8 DEF DbInv, Port

LEMMA DbLock ==
    ASSUME DbInv, Accounts!DatabasesAssumption, NEW w \in Worker, Accounts!Lock(w)
    PROVE  DbInv'
<1> DEFINE live == {d \in Db : status[d] \notin {"none", "creating", "deleting"}}
           later == {d \in live : run[w].resolve /\ access[d].mode = "domain"}
           plan == [d \in Db |-> IF d \in live \ later THEN Accounts!Hosts(access[d]) ELSE {}]
           at == IF later = {} THEN "listen" ELSE "look"
           r == [run[w] EXCEPT !.pc = at, !.todo = later, !.knows = live, !.plan = plan]
<1>1. /\ run[w].pc = "lock" /\ holder = "nobody" /\ holder' = w /\ run' = [run EXCEPT ![w] = r]
      /\ UNCHANGED <<status, password, moved, dbJobs, starting, asked, access, accounts, listens,
                     rules, applied, unsynced, besides, leaked, troubles>>
  BY DEF Accounts!Lock, Accounts!syncs, Accounts!machine
<1>2. plan \in [Db -> SUBSET Accounts!Host] /\ live \subseteq Db /\ later \subseteq live
  <2>1. \A d \in Db : Accounts!Hosts(access[d]) \subseteq Accounts!Host
    BY DbHosts DEF DbInv, DbTyped
  <2>2. QED BY <2>1
<1>3. /\ \A d \in live : status[d] \notin {"none", "creating", "deleting"}
      /\ \A d \in Db \ live : status[d] \in {"none", "creating", "deleting"} /\ plan[d] = {}
      /\ \A d \in later : access[d].mode = "domain" /\ run[w].resolve
      /\ \A d \in live \ later : plan[d] = Accounts!Hosts(access[d])
      /\ \A d \in later : plan[d] = {}
  OBVIOUS
<1>4. at \in {"listen", "look"} /\ (at = "listen" <=> later = {})
  OBVIOUS
<1> HIDE DEF live, later, plan, at
<1>5. /\ r \in DbRun /\ r.pc = at /\ r.todo = later /\ r.knows = live /\ r.plan = plan
      /\ r.job = run[w].job /\ r.db = run[w].db /\ r.resolve = run[w].resolve
      /\ r.before = run[w].before /\ r.again = run[w].again
  BY <1>2, <1>4, DbAt DEF DbRun, Accounts!Point
<1> HIDE DEF r
<1>6. /\ run'[w] = r /\ \A v \in Worker \ {w} : run'[v] = run[v] /\ run[v].pc \notin Syncing
  BY <1>1, <1>5, DbMove, DbMutex
<1>7. Remembered'
  BY <1>1, <1>4, <1>5, <1>6 DEF Remembered, Syncing, DbInv
<1>8. Listed(w)'
  BY <1>4, <1>5, <1>6 DEF Listed
<1>9. \A d \in Db : Saw(w, d)' = access[d]
  BY <1>1, <1>4, <1>5, <1>6 DEF Saw
<1>10. Planned(w)'
  <2>1. \A d \in Db : plan[d] \ {Accounts!Local} # {} =>
           status[d] # "none" /\ plan[d] = Accounts!Hosts(access[d])
    <3>1. ASSUME NEW d \in Db, plan[d] \ {Accounts!Local} # {}
          PROVE  status[d] # "none" /\ plan[d] = Accounts!Hosts(access[d])
      <4>1. d \in live \ later
        BY <1>2, <1>3, <3>1
      <4>2. QED BY <1>3, <4>1
    <3>2. QED BY <3>1
  <2>2. \A d \in later : status[d] # "none" /\ access[d].mode = "domain"
    BY <1>2, <1>3
  <2>3. r.pc # "keep"
    BY <1>4, <1>5
  <2>4. QED BY <1>1, <1>5, <1>6, <1>9, <2>1, <2>2, <2>3 DEF Planned
<1>11. ASSUME NEW e \in Db \ besides, Right(e) PROVE InSync(w, e)'
  <2>1. \A v \in Worker \ {w} : ~Works(v, e)
    <3>1. ASSUME NEW v \in Worker \ {w}, Works(v, e) PROVE FALSE
      BY <1>1, <3>1, DbAlone
    <3>2. QED BY <3>1
  <2>2. CASE e \notin live
    <3>1. status[e] \in {"none", "creating", "deleting"}
      BY <1>3, <2>2
    <3>2. Settled(e)
      <4>1. CASE ~Works(w, e)
        BY <1>11, <2>1, <4>1 DEF Right
      <4>2. CASE Works(w, e)
        <5>1. AtWork(w, e) /\ run[w].job \in {"repair", "drop", "access", "sync"}
          BY <1>1, <1>11, <4>2, DbAt DEF Right, Places
        <5>2. run[w].job = "drop"
          BY <3>1, <4>2, <5>1 DEF AtWork, Works
        <5>3. QED BY <1>1, <5>1, <5>2 DEF AtWork
      <4>3. QED BY <4>1, <4>2
    <3>3. status[e] = "none" /\ NoAccount(e)
      BY <3>1, <3>2 DEF Settled
    <3>4. NoAccount(e)'
      BY <1>1, <3>3 DEF NoAccount
    <3>5. QED BY <1>1, <1>4, <1>5, <1>6, <2>2, <3>3, <3>4 DEF InSync
  <2>3. CASE e \in live
    <3>1. status[e] # "none"
      BY <1>3, <2>3
    <3>2. (r.pc = "look" /\ e \in r.todo) \/ r.plan[e] = Accounts!Hosts(access[e])
      BY <1>3, <1>4, <1>5, <2>3
    <3>3. QED BY <1>1, <1>4, <1>5, <1>6, <1>9, <2>3, <3>1, <3>2 DEF InSync
  <2>4. QED BY <2>2, <2>3
<1>12. r.pc \in Syncing /\ (r.pc \in {"look", "keep"} => r.job = "sync")
  <2>1. later # {} => run[w].resolve
    BY <1>3
  <2>2. QED BY <1>4, <1>5, <2>1, DbAt DEF Syncing, Places
<1>13. /\ access' \in [Db -> Accounts!Setting] /\ Known' /\ listens' \in BOOLEAN
       /\ rules' \subseteq Accounts!Source /\ leaked' \subseteq Accounts!Source
       /\ applied' = Accounts!Unset \/ applied' \subseteq Accounts!Source
       /\ troubles' \in 0..MaxTroubles
  BY <1>1 DEF DbInv, DbTyped, Known
<1>14. QED BY <1>1, <1>5, <1>7, <1>8, <1>10, <1>11, <1>12, <1>13, DbSyncStep

LEMMA DbLookUp ==
    ASSUME DbInv, Accounts!DatabasesAssumption, NEW w \in Worker, Accounts!LookUp(w)
    PROVE  DbInv'
<1>1. /\ run[w].pc = "look" /\ run[w].job = "sync" /\ holder = w /\ run[w].pc \in Syncing
      /\ UNCHANGED <<status, password, moved, dbJobs, starting, asked, holder, access, accounts,
                     listens, rules, applied, unsynced, besides, leaked>>
  BY DbAt, DbMutex DEF Accounts!LookUp, Accounts!syncs, Accounts!machine, Syncing, Places
<1>2. /\ access' \in [Db -> Accounts!Setting] /\ Known' /\ listens' \in BOOLEAN
      /\ rules' \subseteq Accounts!Source /\ leaked' \subseteq Accounts!Source
      /\ applied' = Accounts!Unset \/ applied' \subseteq Accounts!Source
  BY <1>1 DEF DbInv, DbTyped, Known
<1>3. CASE run[w].todo = {}
  <2>1. Accounts!To(w, "listen") /\ Accounts!Calm /\ "listen" \in Accounts!Point
    BY <1>3 DEF Accounts!LookUp, Accounts!Point
  <2>2. /\ run' = [run EXCEPT ![w] = run'[w]] /\ run'[w] \in DbRun /\ run'[w].pc = "listen"
        /\ run'[w].job = run[w].job /\ run'[w].db = run[w].db /\ run'[w].before = run[w].before
        /\ run'[w].plan = run[w].plan /\ run'[w].knows = run[w].knows
        /\ run'[w].resolve = run[w].resolve /\ run'[w].again = run[w].again
        /\ \A v \in Worker \ {w} : run'[v] = run[v]
    BY <2>1, DbPasses
  <2>3. troubles' \in 0..MaxTroubles
    BY <2>1, DbTroubles
  <2>4. Remembered'
    BY <1>1, <2>2 DEF Remembered, DbInv
  <2>5. Listed(w)'
    BY <2>2 DEF Listed
  <2>6. \A d \in Db : Saw(w, d)' = access[d] /\ Saw(w, d) = access[d]
    BY <1>1, <2>2 DEF Saw
  <2>7. Waits => Waits'
    BY <1>1, <2>2 DEF Waits
  <2>8. Planned(w)'
    BY <1>1, <2>2, <2>6, <2>7, DbAt DEF Planned
  <2>9. ASSUME NEW e \in Db \ besides, Right(e) PROVE InSync(w, e)'
    <3>1. InSync(w, e)
      BY <1>1, <2>9 DEF Right
    <3>2. NoAccount(e) => NoAccount(e)'
      BY <1>1 DEF NoAccount
    <3>3. QED BY <1>1, <1>3, <2>2, <2>6, <3>1, <3>2 DEF InSync
  <2>10. run'[w].pc \in Syncing
    BY <2>2 DEF Syncing
  <2>11. QED BY <1>1, <1>2, <2>2, <2>3, <2>4, <2>5, <2>8, <2>9, <2>10, DbSyncStep
<1>4. CASE run[w].todo # {}
  <2> DEFINE Sight(d, at) == IF access[d].mode = "domain" THEN [access[d] EXCEPT !.found = at]
                             ELSE access[d]
             Passed(d, at, view) == [run EXCEPT ![w] =
                          [@ EXCEPT !.pc = at, !.todo = run[w].todo \ {d}, !.db = d, !.seen = view,
                             !.plan = [run[w].plan EXCEPT ![d] = Accounts!Hosts(view)]]]
  <2>0. PICK d \in run[w].todo : \E at \in {moved, access[d].found} :
          /\ IF at # moved THEN Accounts!Trouble ELSE Accounts!Calm
          /\ run' = Passed(d, IF Sight(d, at) # access[d] THEN "keep" ELSE "look", Sight(d, at))
    BY <1>4 DEF Accounts!LookUp
  <2>1. PICK place \in {moved, access[d].found} :
          /\ IF place # moved THEN Accounts!Trouble ELSE Accounts!Calm
          /\ run' = Passed(d, IF Sight(d, place) # access[d] THEN "keep" ELSE "look", Sight(d, place))
    BY <2>0
  <2> HIDE DEF Passed
  <2>2. d \in Db /\ access[d] \in Accounts!Setting /\ place \in Accounts!Address /\ moved \in Accounts!Address
        /\ access[d].found <= moved /\ access[d].found \in Accounts!Address
    BY DbAt, DbSettings DEF DbInv, DbTyped, Known
  <2>3. moved \in Int /\ access[d].found \in Int
    BY <2>2, DbBounds
  <2>4. PICK sight \in Accounts!Setting : sight = Sight(d, place)
    BY <2>2 DEF Accounts!Setting
  <2>5. /\ sight.mode = access[d].mode /\ sight.found <= moved
        /\ sight # access[d] => access[d].mode = "domain" /\ access[d].found < sight.found
    BY <2>2, <2>3, <2>4 DEF Accounts!Setting
  <2>6. PICK at \in {"keep", "look"} : at = IF sight # access[d] THEN "keep" ELSE "look"
    OBVIOUS
  <2> HIDE DEF Sight
  <2> DEFINE plan == [run[w].plan EXCEPT ![d] = Accounts!Hosts(sight)]
             r == [run[w] EXCEPT !.pc = at, !.todo = run[w].todo \ {d}, !.db = d, !.seen = sight,
                                 !.plan = plan]
  <2>7. run' = [run EXCEPT ![w] = r]
    <3>1. run' = Passed(d, at, sight)
      BY <2>1, <2>4, <2>6
    <3>2. QED BY <3>1 DEF Passed
  <2>8. /\ plan \in [Db -> SUBSET Accounts!Host] /\ plan[d] = Accounts!Hosts(sight)
        /\ \A e \in Db \ {d} : plan[e] = run[w].plan[e]
    BY <2>2, DbAt, DbHosts
  <2> HIDE DEF plan
  <2>9. /\ r \in DbRun /\ r.pc = at /\ r.todo = run[w].todo \ {d} /\ r.knows = run[w].knows
        /\ r.plan = plan /\ r.seen = sight /\ r.db = d
        /\ r.job = run[w].job /\ r.resolve = run[w].resolve
        /\ r.before = run[w].before /\ r.again = run[w].again
    BY <2>2, <2>8, DbAt DEF DbRun, Accounts!Point
  <2> HIDE DEF r
  <2>10. run'[w] = r /\ \A v \in Worker \ {w} : run'[v] = run[v]
    BY <2>7, <2>9, DbMove
  <2>11. troubles' \in 0..MaxTroubles
    BY <2>1, DbTroubles
  <2>12. Remembered'
    BY <1>1, <2>9, <2>10 DEF Remembered, DbInv
  <2>13. Listed(w)'
    BY <1>1, <2>2, <2>5, <2>6, <2>9, <2>10 DEF Listed
  <2>14. /\ \A e \in Db \ {d} : Saw(w, e)' = access[e]
         /\ Saw(w, d)' = sight /\ \A e \in Db : Saw(w, e) = access[e]
    BY <1>1, <2>2, <2>6, <2>9, <2>10 DEF Saw
  <2>15. Waits => Waits'
    BY <1>1, <2>9, <2>10 DEF Waits
  <2>16. ASSUME ~Waits' PROVE Planned(w)'
    <3>1. /\ \A e \in Db : run[w].plan[e] \ {Accounts!Local} # {} =>
                status[e] # "none" /\ run[w].plan[e] \subseteq Accounts!Hosts(access[e])
          /\ \A e \in run[w].todo : status[e] # "none" /\ access[e].mode = "domain"
      BY <1>1, <2>14, <2>15, <2>16, DbAt DEF Planned
    <3>2. ASSUME NEW e \in Db, plan[e] \ {Accounts!Local} # {}
          PROVE  status[e] # "none" /\ plan[e] \subseteq Accounts!Hosts(Saw(w, e)')
      BY <2>8, <2>14, <3>1, <3>2
    <3>3. QED BY <1>1, <2>9, <2>10, <3>1, <3>2 DEF Planned
  <2>17. ASSUME NEW e \in Db \ besides, Right(e) PROVE InSync(w, e)'
    <3>1. InSync(w, e)
      BY <1>1, <2>17 DEF Right
    <3>2. NoAccount(e) => NoAccount(e)'
      BY <1>1 DEF NoAccount
    <3>3. e \in r.knows => status[e] # "none"
      BY <2>9, <3>1 DEF InSync
    <3>4. e \in r.knows => (r.pc \in {"look", "keep"} /\ e \in r.todo) \/ r.plan[e] = Accounts!Hosts(Saw(w, e)')
      BY <1>1, <2>6, <2>8, <2>9, <2>14, <3>1 DEF InSync
    <3>5. r.pc = "keep" /\ e = r.db => access[e].mode = "domain" /\ access[e].found < r.seen.found
      BY <2>5, <2>6, <2>9
    <3>6. QED BY <1>1, <2>9, <2>10, <3>1, <3>2, <3>3, <3>4, <3>5 DEF InSync
  <2>18. r.pc \in Syncing /\ (~Waits' \/ Planned(w)')
    BY <2>9, <2>16 DEF Syncing, Planned
  <2>19. Planned(w)'
    BY <2>16 DEF Planned
  <2>20. QED BY <1>1, <1>2, <2>7, <2>9, <2>11, <2>12, <2>13, <2>17, <2>18, <2>19, DbSyncStep
<1>5. QED BY <1>3, <1>4

LEMMA DbKeep ==
    ASSUME DbInv, Accounts!DatabasesAssumption, NEW w \in Worker, Accounts!Keep(w)
    PROVE  DbInv'
<1>1. /\ run[w].pc = "keep" /\ run[w].job = "sync" /\ holder = w /\ run[w].pc \in Syncing
      /\ UNCHANGED <<status, password, moved, dbJobs, starting, asked, holder, accounts,
                     listens, rules, applied, unsynced, besides, leaked, troubles>>
      /\ Accounts!To(w, "look") /\ "look" \in Accounts!Point
      /\ access' = [access EXCEPT ![run[w].db] = run[w].seen]
  BY DbAt, DbMutex DEF Accounts!Keep, Accounts!syncs, Accounts!machine, Syncing, Places, Accounts!Point
<1>2. PICK d \in Db, sight \in Accounts!Setting :
        run[w].db = d /\ run[w].seen = sight /\ sight.mode = "domain" /\ sight.found <= moved
  BY <1>1, DbAt DEF Listed
<1>3. /\ run' = [run EXCEPT ![w] = run'[w]] /\ run'[w] \in DbRun /\ run'[w].pc = "look"
      /\ run'[w].job = run[w].job /\ run'[w].db = run[w].db /\ run'[w].before = run[w].before
      /\ run'[w].plan = run[w].plan /\ run'[w].knows = run[w].knows /\ run'[w].todo = run[w].todo
      /\ run'[w].resolve = run[w].resolve /\ run'[w].again = run[w].again
      /\ \A v \in Worker \ {w} : run'[v] = run[v]
  BY <1>1, DbPasses
<1>4. /\ access' \in [Db -> Accounts!Setting] /\ access'[d] = sight
      /\ \A e \in Db \ {d} : access'[e] = access[e]
  BY <1>1, <1>2 DEF DbInv, DbTyped
<1>5. /\ Known' /\ listens' \in BOOLEAN
      /\ rules' \subseteq Accounts!Source /\ leaked' \subseteq Accounts!Source
      /\ applied' = Accounts!Unset \/ applied' \subseteq Accounts!Source
      /\ troubles' \in 0..MaxTroubles
  BY <1>1, <1>2, <1>4 DEF DbInv, DbTyped, Known
<1>6. Remembered'
  BY <1>1, <1>3 DEF Remembered, DbInv
<1>7. Listed(w)'
  BY <1>3 DEF Listed
<1>8. \A e \in Db : Saw(w, e)' = Saw(w, e)
  BY <1>1, <1>2, <1>3, <1>4 DEF Saw
<1>9. Waits => Waits'
  <2>1. CASE starting
    BY <1>1, <2>1 DEF Waits
  <2>2. ASSUME NEW v \in Worker, \/ run[v].pc = "lock"
                                 \/ run[v].pc = "forget" /\ access[run[v].db].mode # "local"
        PROVE  Waits'
    <3>1. v # w /\ run'[v] = run[v]
      BY <1>1, <1>3, <2>2
    <3>2. run[v].pc = "forget" => run[v].db \in Db
      BY DbAt DEF Places
    <3>3. run[v].pc = "forget" /\ access[run[v].db].mode # "local" => access'[run[v].db].mode # "local"
      BY <1>2, <1>4, <3>2
    <3>4. QED BY <2>2, <3>1, <3>3 DEF Waits
  <2>3. QED BY <2>1, <2>2 DEF Waits
<1>10. ASSUME ~Waits' PROVE Planned(w)'
  <2>1. /\ \A e \in Db : run[w].plan[e] \ {Accounts!Local} # {} =>
              status[e] # "none" /\ run[w].plan[e] \subseteq Accounts!Hosts(Saw(w, e))
        /\ \A e \in run[w].todo : status[e] # "none" /\ access[e].mode = "domain"
    BY <1>1, <1>9, <1>10, DbAt DEF Planned
  <2>2. \A e \in run[w].todo : access'[e].mode = "domain"
    BY <1>2, <1>4, <2>1, DbAt
  <2>3. QED BY <1>1, <1>3, <1>8, <2>1, <2>2 DEF Planned
<1>11. Planned(w)'
  BY <1>10 DEF Planned
<1>12. ASSUME NEW e \in Db \ besides, Right(e) PROVE InSync(w, e)'
  <2>1. InSync(w, e)
    BY <1>1, <1>12 DEF Right
  <2>2. NoAccount(e) => NoAccount(e)'
    BY <1>1 DEF NoAccount
  <2>3. QED BY <1>1, <1>3, <1>8, <2>1, <2>2 DEF InSync
<1>13. ASSUME d \notin besides, Settled(d) PROVE Settled(d)'
  <2>1. InSync(w, d)
    BY <1>1, <1>13 DEF Right, DbInv
  <2>2. /\ access[d].mode = "domain" /\ access[d].found < sight.found /\ access[d] \in Accounts!Setting
    BY <1>1, <1>2, <2>1 DEF InSync, DbInv, DbTyped
  <2>3. Fits(d, access[d], password[d])
    BY <1>13 DEF Settled, Fitting
  <2>4. Fits(d, sight, password[d])
    BY <1>2, <2>2, <2>3, DbFits
  <2>5. Fits(d, access[d], password[d])'
    BY <1>1, <1>4, <2>4 DEF Fits
  <2>6. ~Synced'
    BY <1>1, DbBounds DEF Synced
  <2>7. NoAccount(d) => NoAccount(d)'
    BY <1>1 DEF NoAccount
  <2>8. QED BY <1>1, <1>13, <2>5, <2>6, <2>7 DEF Settled, Fitting
<1>14. run'[w].pc \in Syncing
  BY <1>3 DEF Syncing
<1>15. QED BY <1>1, <1>2, <1>3, <1>4, <1>5, <1>6, <1>7, <1>11, <1>12, <1>13, <1>14, DbSyncStep

LEMMA DbWants ==
    ASSUME DbInv, Accounts!DatabasesAssumption, NEW w \in Worker
    PROVE  Accounts!Wanted(w) \subseteq Accounts!Source
<1>1. ASSUME NEW s \in Accounts!Wanted(w) PROVE s \in Accounts!Source
  <2>1. PICK d \in Db : s \in run[w].plan[d] /\ s # Accounts!Local
    BY DbWanted
  <2>2. s \in Accounts!Host
    BY <2>1, DbAt
  <2>3. QED BY <2>1, <2>2 DEF Accounts!Host
<1>2. QED BY <1>1

\* What a database's accounts still are when only a sync has moved on.
LEMMA DbInSyncPasses ==
    ASSUME NEW w \in Worker, NEW e \in Db, InSync(w, e), run'[w].knows = run[w].knows,
           run'[w].plan = run[w].plan, run[w].pc \notin {"look", "keep"},
           run'[w].pc \notin {"look", "keep"}, UNCHANGED <<accounts, access, status>>
    PROVE  InSync(w, e)'
<1>1. Saw(w, e)' = access[e] /\ Saw(w, e) = access[e]
  BY DEF Saw
<1>2. NoAccount(e) => NoAccount(e)'
  BY DEF NoAccount
<1>3. QED BY <1>1, <1>2 DEF InSync

\* A sync that fails: the setting that asked for it is taken back.
LEMMA DbFails ==
    ASSUME DbInv, Accounts!DatabasesAssumption, NEW w \in Worker,
           run[w].pc \in {"listen", "open", "accounts"}, Accounts!Unlock(w, FALSE),
           UNCHANGED <<status, password, access, accounts, applied, moved, dbJobs, starting, asked, besides>>,
           listens' \in BOOLEAN, rules' \subseteq Accounts!Source, leaked' \subseteq Accounts!Source,
           troubles' \in 0..MaxTroubles, Remembered'
    PROVE  DbInv'
<1>1. /\ holder' = "nobody" /\ unsynced' = TRUE /\ run[w].pc \in Syncing /\ ~Synced'
      /\ run[w].job \in {"repair", "drop", "access", "sync"}
  BY DbAt DEF Accounts!Unlock, Syncing, Synced, Places
<1>2. OpenToAllowed'
  BY <1>1 DEF OpenToAllowed
<1>3. accounts' \in [Db -> [Accounts!Host -> 0..MaxPassword]] /\ unsynced' \in BOOLEAN
      /\ (applied' = Accounts!Unset \/ applied' \subseteq Accounts!Source)
  BY <1>1 DEF DbInv, DbTyped
<1>4. \A e \in Db : /\ Settled(e) => Settled(e)'
                    /\ \A a, p : Fits(e, a, p) => Fits(e, a, p)'
  BY <1>1, DbSame
<1>5. ASSUME NEW e \in Db \ besides, ~(Works(w, e) /\ run[w].job = "access" /\ ~run[w].again)
      PROVE  Settled(e)'
  <2>1. \A v \in Worker \ {w} : ~Works(v, e)
    <3>1. ASSUME NEW v \in Worker \ {w}, Works(v, e) PROVE FALSE
      BY <1>1, <3>1, DbAlone DEF Syncing
    <3>2. QED BY <3>1
  <2>2. CASE Works(w, e)
    <3>1. AtWork(w, e)
      BY <2>2, DbAlone
    <3>2. Settled(e)
      BY <1>1, <1>5, <2>2, <3>1 DEF AtWork, Works, Syncing
    <3>3. QED BY <1>4, <3>2
  <2>3. CASE ~Works(w, e)
    <3>1. Settled(e)
      BY <2>1, <2>3 DEF DbInv, Right
    <3>2. QED BY <1>4, <3>1
  <2>4. QED BY <2>2, <2>3
<1>6. CASE run[w].job = "access" /\ ~run[w].again
  <2>1. Accounts!To(w, "undo") /\ "undo" \in Accounts!Point
    BY <1>6 DEF Accounts!Unlock, Accounts!Point
  <2>2. /\ run' = [run EXCEPT ![w] = run'[w]] /\ run'[w] \in DbRun /\ run'[w].pc = "undo"
        /\ run'[w].job = run[w].job /\ run'[w].db = run[w].db /\ run'[w].before = run[w].before
        /\ run'[w].resolve = run[w].resolve /\ run'[w].again = run[w].again
    BY <2>1, DbPasses
  <2>3. ASSUME NEW e \in Db \ besides
        PROVE  IF run'[w].job = "access" /\ run'[w].db = e THEN AtWork(w, e) => AtWork(w, e)' ELSE Settled(e)'
    <3>1. CASE run[w].db = e
      BY <1>1, <1>4, <1>6, <2>2, <3>1 DEF AtWork
    <3>2. CASE run[w].db # e
      BY <1>5, <2>2, <3>2 DEF Works
    <3>3. QED BY <1>6, <2>2, <3>1, <3>2
  <2>4. run[w].before.found <= moved
    BY DbAt DEF Places
  <2>5. QED BY <1>1, <1>2, <1>3, <1>6, <2>2, <2>3, <2>4, DbSyncEnds
<1>7. CASE ~(run[w].job = "access" /\ ~run[w].again)
  <2>1. Accounts!Rest(w)
    BY <1>7 DEF Accounts!Unlock
  <2>2. /\ run' = [run EXCEPT ![w] = run'[w]] /\ run'[w] \in DbRun /\ run'[w].pc = "begin"
        /\ run'[w].job = "none" /\ ~run'[w].resolve /\ run'[w].before.found <= moved
    BY <2>1, DbRests
  <2>3. \A e \in Db \ besides : Settled(e)'
    BY <1>5, <1>7
  <2>4. QED BY <1>1, <1>2, <1>3, <2>2, <2>3, DbSyncEnds
<1>8. QED BY <1>6, <1>7

\* Between the lookups and the end, a sync goes by what it has planned.
LEMMA DbPoint ==
    ASSUME DbInv, Accounts!DatabasesAssumption, NEW w \in Worker, NEW r \in DbRun,
           run' = [run EXCEPT ![w] = r],
           run[w].pc \in {"listen", "close", "open", "remember", "accounts"},
           r.pc \in {"listen", "close", "open", "remember", "accounts"},
           r.job = run[w].job, r.db = run[w].db, r.plan = run[w].plan, r.knows = run[w].knows,
           r.resolve = run[w].resolve, r.before = run[w].before, r.again = run[w].again,
           UNCHANGED <<status, password, access, accounts, moved, holder, dbJobs, starting, asked,
                       unsynced, besides>>,
           listens' \in BOOLEAN, rules' \subseteq Accounts!Source, leaked' \subseteq Accounts!Source,
           applied' = Accounts!Unset \/ applied' \subseteq Accounts!Source, troubles' \in 0..MaxTroubles,
           Remembered', Listed(w)'
    PROVE  DbInv'
<1>1. run[w].pc \in Syncing \ {"look", "keep"} /\ r.pc \in Syncing \ {"look", "keep"}
  BY DEF Syncing
<1>2. holder' = w /\ run'[w] = r
  BY <1>1, DbMutex, DbMove
<1>3. Planned(w)'
  BY <1>1, DbPlanStays
<1>4. ASSUME NEW e \in Db \ besides, Right(e) PROVE InSync(w, e)'
  <2>1. InSync(w, e)
    BY <1>1, <1>4 DEF Right
  <2>2. QED BY <1>1, <1>2, <2>1, DbInSyncPasses
<1>5. access' \in [Db -> Accounts!Setting] /\ Known'
  BY DEF DbInv, DbTyped, Known
<1>6. QED BY <1>1, <1>2, <1>3, <1>4, <1>5, DbSyncStep

LEMMA DbListen ==
    ASSUME DbInv, Accounts!DatabasesAssumption, NEW w \in Worker, Accounts!setMySQLListen(w)
    PROVE  DbInv'
<1>1. /\ run[w].pc = "listen" /\ run[w].pc \in Syncing /\ holder = w
      /\ UNCHANGED <<status, password, moved, dbJobs, starting, asked, access, accounts, rules,
                     applied, besides, leaked>>
      /\ \/ Accounts!To(w, "close") /\ Accounts!Calm /\ UNCHANGED <<holder, unsynced>>
         \/ Accounts!Trouble /\ Accounts!Unlock(w, FALSE)
      /\ listens' \in BOOLEAN
  <2>1. (Accounts!Wanted(w) # {}) \in BOOLEAN
    OBVIOUS
  <2>2. QED BY <2>1, DbMutex DEF Accounts!setMySQLListen, Accounts!syncs, Syncing
<1>2. /\ rules' \subseteq Accounts!Source /\ leaked' \subseteq Accounts!Source
      /\ applied' = Accounts!Unset \/ applied' \subseteq Accounts!Source
      /\ troubles' \in 0..MaxTroubles
  BY <1>1, DbTroubles DEF DbInv, DbTyped
<1>3. \A v \in Worker \ {w} : run[v].pc \notin {"open", "remember"}
  BY <1>1, DbMutex DEF Syncing
<1>4. rules \subseteq applied \cup leaked
  BY <1>1, <1>3 DEF DbInv, Remembered
<1>5. Remembered'
  BY <1>1, <1>4 DEF Remembered
<1>6. CASE Accounts!To(w, "close") /\ UNCHANGED <<holder, unsynced>>
  <2>1. "close" \in Accounts!Point
    BY DEF Accounts!Point
  <2>2. /\ run' = [run EXCEPT ![w] = run'[w]] /\ run'[w] \in DbRun /\ run'[w].pc = "close"
        /\ run'[w].job = run[w].job /\ run'[w].db = run[w].db /\ run'[w].before = run[w].before
        /\ run'[w].plan = run[w].plan /\ run'[w].knows = run[w].knows
        /\ run'[w].resolve = run[w].resolve /\ run'[w].again = run[w].again
    BY <1>6, <2>1, DbPasses
  <2>3. Listed(w)'
    BY <2>2 DEF Listed
  <2>4. QED BY <1>1, <1>2, <1>5, <1>6, <2>2, <2>3, DbPoint
<1>7. CASE Accounts!Unlock(w, FALSE)
  BY <1>1, <1>2, <1>5, <1>7, DbFails
<1>8. QED BY <1>1, <1>6, <1>7

LEMMA DbCloseFirewall ==
    ASSUME DbInv, Accounts!DatabasesAssumption, NEW w \in Worker, Accounts!CloseFirewall(w)
    PROVE  DbInv'
<1>1. /\ run[w].pc = "close" /\ run[w].pc \in Syncing /\ holder = w
      /\ UNCHANGED <<status, password, moved, dbJobs, starting, asked, holder, access, accounts,
                     listens, applied, unsynced, besides>>
  BY DbMutex DEF Accounts!CloseFirewall, Accounts!syncs, Syncing
<1>2. \A v \in Worker \ {w} : run[v].pc \notin {"open", "remember"}
  BY <1>1, DbMutex DEF Syncing
<1>3. /\ rules \subseteq applied \cup leaked /\ rules \subseteq Accounts!Source
      /\ leaked \subseteq Accounts!Source /\ listens' \in BOOLEAN
      /\ applied' = Accounts!Unset \/ applied' \subseteq Accounts!Source
  BY <1>1, <1>2 DEF DbInv, DbTyped, Remembered
<1>4. CASE applied = Accounts!Wanted(w)
  <2>1. Accounts!To(w, "accounts") /\ UNCHANGED <<rules, leaked, troubles>> /\ "accounts" \in Accounts!Point
    BY <1>4 DEF Accounts!CloseFirewall, Accounts!Point
  <2>2. /\ run' = [run EXCEPT ![w] = run'[w]] /\ run'[w] \in DbRun /\ run'[w].pc = "accounts"
        /\ run'[w].job = run[w].job /\ run'[w].db = run[w].db /\ run'[w].before = run[w].before
        /\ run'[w].plan = run[w].plan /\ run'[w].knows = run[w].knows
        /\ run'[w].resolve = run[w].resolve /\ run'[w].again = run[w].again
    BY <2>1, DbPasses
  <2>3. Accounts!Wanted(w)' = Accounts!Wanted(w)
    BY <2>2, DbWantedSame
  <2>4. Listed(w)' /\ Remembered'
    BY <1>1, <1>3, <1>4, <2>1, <2>2, <2>3 DEF Listed, Remembered
  <2>5. rules' \subseteq Accounts!Source /\ leaked' \subseteq Accounts!Source /\ troubles' \in 0..MaxTroubles
    BY <2>1 DEF DbInv, DbTyped
  <2>6. QED BY <1>1, <1>3, <2>2, <2>4, <2>5, DbPoint
<1>5. CASE applied # Accounts!Wanted(w)
  <2> DEFINE known == applied \ Accounts!Unset
             closed == (known \ Accounts!Wanted(w)) \cup ({<<"any", 0>>} \ Accounts!Wanted(w))
             r == [run[w] EXCEPT !.pc = "open", !.todo = {}, !.hosts = Accounts!Wanted(w) \ known]
  <2>1. PICK stay \in {{}, closed \cap rules} :
          /\ IF stay = {} THEN Accounts!Calm ELSE Accounts!Trouble
          /\ rules' = (rules \ closed) \cup stay /\ leaked' = leaked \cup stay
          /\ run' = [run EXCEPT ![w] = r]
    BY <1>5 DEF Accounts!CloseFirewall
  <2>2. Accounts!Wanted(w) \subseteq Accounts!Source /\ Accounts!Source \subseteq Accounts!Host
    BY DbWants DEF Accounts!Host
  <2>3. rules \ closed \subseteq Accounts!Wanted(w) \cup leaked
    <3>1. \A s \in rules : s \in leaked \/ s \in known
      <4>1. Accounts!Local \notin rules
        BY <1>3 DEF Accounts!Source, Accounts!Local
      <4>2. QED BY <1>3, <4>1 DEF Accounts!Unset
    <3>2. QED BY <3>1
  <2>4. /\ r \in DbRun /\ r.pc = "open" /\ r.hosts \subseteq Accounts!Wanted(w)
        /\ r.job = run[w].job /\ r.db = run[w].db /\ r.plan = run[w].plan /\ r.knows = run[w].knows
        /\ r.resolve = run[w].resolve /\ r.before = run[w].before /\ r.again = run[w].again
    BY <2>2, DbAt DEF DbRun, Accounts!Point
  <2>5. stay \subseteq Accounts!Source
    BY <1>3
  <2> HIDE DEF r, known, closed
  <2>6. run'[w] = r
    BY <2>1, <2>4, DbMove
  <2>7. Accounts!Wanted(w)' = Accounts!Wanted(w)
    BY <2>4, <2>6, DbWantedSame
  <2>8. Listed(w)'
    BY <2>1, <2>3, <2>4, <2>6, <2>7 DEF Listed
  <2>9. Remembered'
    BY <2>4, <2>6 DEF Remembered
  <2>10. rules' \subseteq Accounts!Source /\ leaked' \subseteq Accounts!Source /\ troubles' \in 0..MaxTroubles
    BY <1>3, <2>1, <2>5, DbTroubles
  <2>11. QED BY <1>1, <1>3, <2>1, <2>4, <2>8, <2>9, <2>10, DbPoint
<1>6. QED BY <1>4, <1>5

LEMMA DbOpenFirewall ==
    ASSUME DbInv, Accounts!DatabasesAssumption, NEW w \in Worker, Accounts!OpenFirewall(w)
    PROVE  DbInv'
<1>1. /\ run[w].pc = "open" /\ run[w].pc \in Syncing /\ holder = w
      /\ UNCHANGED <<status, password, moved, dbJobs, starting, asked, access, accounts,
                     listens, applied, besides>>
  BY DbMutex DEF Accounts!OpenFirewall, Accounts!syncs, Syncing
<1>2. /\ rules \subseteq Accounts!Wanted(w) \cup leaked /\ run[w].hosts \subseteq Accounts!Wanted(w)
      /\ Accounts!Wanted(w) \subseteq Accounts!Source
      /\ leaked \subseteq Accounts!Source /\ rules \subseteq Accounts!Source /\ listens' \in BOOLEAN
      /\ applied' = Accounts!Unset \/ applied' \subseteq Accounts!Source
  BY <1>1, DbAt, DbWants DEF DbInv, DbTyped, Listed
<1>3. CASE run[w].hosts = {}
  <2>1. /\ Accounts!To(w, "remember") /\ Accounts!Calm /\ UNCHANGED <<rules, leaked, holder, unsynced>>
        /\ "remember" \in Accounts!Point
    BY <1>3 DEF Accounts!OpenFirewall, Accounts!Point
  <2>2. /\ run' = [run EXCEPT ![w] = run'[w]] /\ run'[w] \in DbRun /\ run'[w].pc = "remember"
        /\ run'[w].job = run[w].job /\ run'[w].db = run[w].db /\ run'[w].before = run[w].before
        /\ run'[w].plan = run[w].plan /\ run'[w].knows = run[w].knows
        /\ run'[w].resolve = run[w].resolve /\ run'[w].again = run[w].again
    BY <2>1, DbPasses
  <2>3. Accounts!Wanted(w)' = Accounts!Wanted(w)
    BY <2>2, DbWantedSame
  <2>4. Listed(w)' /\ Remembered'
    BY <1>2, <2>1, <2>2, <2>3 DEF Listed, Remembered
  <2>5. rules' \subseteq Accounts!Source /\ leaked' \subseteq Accounts!Source /\ troubles' \in 0..MaxTroubles
    BY <1>2, <2>1, DbTroubles
  <2>6. QED BY <1>1, <1>2, <2>1, <2>2, <2>4, <2>5, DbPoint
<1>4. ASSUME NEW s \in run[w].hosts, rules' = rules \cup {s}, Accounts!Calm,
             run' = [run EXCEPT ![w] = [@ EXCEPT !.hosts = run[w].hosts \ {s}]],
             UNCHANGED <<leaked, holder, unsynced>>
      PROVE  DbInv'
  <2> DEFINE r == [run[w] EXCEPT !.hosts = run[w].hosts \ {s}]
  <2>1. run' = [run EXCEPT ![w] = r]
    BY <1>4
  <2>2. /\ r \in DbRun /\ r.pc = "open" /\ r.hosts \subseteq Accounts!Wanted(w)
        /\ r.job = run[w].job /\ r.db = run[w].db /\ r.plan = run[w].plan /\ r.knows = run[w].knows
        /\ r.resolve = run[w].resolve /\ r.before = run[w].before /\ r.again = run[w].again
    BY <1>1, <1>2, DbAt DEF DbRun
  <2> HIDE DEF r
  <2>3. run'[w] = r
    BY <2>1, <2>2, DbMove
  <2>4. Accounts!Wanted(w)' = Accounts!Wanted(w)
    BY <2>2, <2>3, DbWantedSame
  <2>5. Listed(w)' /\ Remembered'
    BY <1>2, <1>4, <2>2, <2>3, <2>4 DEF Listed, Remembered
  <2>6. rules' \subseteq Accounts!Source /\ leaked' \subseteq Accounts!Source /\ troubles' \in 0..MaxTroubles
    BY <1>2, <1>4, DbTroubles
  <2>7. QED BY <1>1, <1>2, <1>4, <2>1, <2>2, <2>5, <2>6, DbPoint
<1>5. CASE /\ Accounts!Trouble /\ leaked' = leaked \cup ((Accounts!Wanted(w) \ applied) \cap rules)
           /\ Accounts!Unlock(w, FALSE) /\ UNCHANGED rules
  <2>1. Remembered'
    BY <1>1, <1>2, <1>5 DEF Remembered
  <2>2. rules' \subseteq Accounts!Source /\ leaked' \subseteq Accounts!Source /\ troubles' \in 0..MaxTroubles
    BY <1>2, <1>5, DbTroubles
  <2>3. QED BY <1>1, <1>2, <1>5, <2>1, <2>2, DbFails
<1>6. QED BY <1>3, <1>4, <1>5 DEF Accounts!OpenFirewall

LEMMA DbRemember ==
    ASSUME DbInv, Accounts!DatabasesAssumption, NEW w \in Worker, Accounts!Remember(w)
    PROVE  DbInv'
<1>1. /\ run[w].pc = "remember" /\ run[w].pc \in Syncing /\ holder = w
      /\ Accounts!To(w, "accounts") /\ "accounts" \in Accounts!Point /\ applied' = Accounts!Wanted(w)
      /\ UNCHANGED <<status, password, moved, dbJobs, starting, asked, holder, access, accounts,
                     listens, rules, unsynced, besides, leaked, troubles>>
  BY DbMutex DEF Accounts!Remember, Accounts!syncs, Syncing, Accounts!Point
<1>2. /\ rules \subseteq Accounts!Wanted(w) \cup leaked /\ applied' \subseteq Accounts!Source
      /\ leaked' \subseteq Accounts!Source /\ rules' \subseteq Accounts!Source /\ listens' \in BOOLEAN
      /\ troubles' \in 0..MaxTroubles
  BY <1>1, DbAt, DbWants DEF DbInv, DbTyped, Listed
<1>3. /\ run' = [run EXCEPT ![w] = run'[w]] /\ run'[w] \in DbRun /\ run'[w].pc = "accounts"
      /\ run'[w].job = run[w].job /\ run'[w].db = run[w].db /\ run'[w].before = run[w].before
      /\ run'[w].plan = run[w].plan /\ run'[w].knows = run[w].knows
      /\ run'[w].resolve = run[w].resolve /\ run'[w].again = run[w].again
  BY <1>1, DbPasses
<1>4. Accounts!Wanted(w)' = Accounts!Wanted(w)
  BY <1>3, DbWantedSame
<1>5. Listed(w)' /\ Remembered'
  BY <1>1, <1>2, <1>3, <1>4 DEF Listed, Remembered
<1>6. QED BY <1>1, <1>2, <1>3, <1>5, DbPoint

LEMMA DbAccounts ==
    ASSUME DbInv, Accounts!DatabasesAssumption, NEW w \in Worker, Accounts!syncMySQLAccounts(w)
    PROVE  DbInv'
<1>1. /\ run[w].pc = "accounts" /\ run[w].pc \in Syncing /\ holder = w
      /\ UNCHANGED <<status, password, moved, dbJobs, starting, asked, access, listens, rules,
                     applied, besides, leaked>>
  BY DbMutex DEF Accounts!syncMySQLAccounts, Accounts!syncs, Syncing
<1>2. /\ rules' \subseteq Accounts!Source /\ leaked' \subseteq Accounts!Source /\ listens' \in BOOLEAN
      /\ applied' = Accounts!Unset \/ applied' \subseteq Accounts!Source
  BY <1>1 DEF DbInv, DbTyped
<1>3. \A v \in Worker \ {w} : run[v].pc \notin {"open", "remember"}
  BY <1>1, DbMutex DEF Syncing
<1>4. rules \subseteq applied \cup leaked /\ applied = Accounts!Wanted(w)
  BY <1>1, <1>3, DbAt DEF DbInv, Remembered, Listed
<1>5. Remembered'
  BY <1>1, <1>4 DEF Remembered
<1>6. CASE Accounts!Trouble /\ UNCHANGED accounts /\ Accounts!Unlock(w, FALSE)
  BY <1>1, <1>2, <1>5, <1>6, DbTroubles, DbFails
<1> DEFINE Made == [d \in Db |->
               IF d \notin run[w].knows THEN accounts[d]
               ELSE [h \in Accounts!Host |-> IF h \notin run[w].plan[d] THEN 0
                                    ELSE IF accounts[d][h] = 0 THEN password[d] ELSE accounts[d][h]]]
<1>7. CASE accounts' = Made /\ Accounts!Calm /\ Accounts!Unlock(w, TRUE)
  <2>1. /\ holder' = "nobody" /\ unsynced' = FALSE /\ Accounts!Rest(w) /\ troubles' \in 0..MaxTroubles
    BY <1>7, DbTroubles DEF Accounts!Unlock
  <2>2. /\ run' = [run EXCEPT ![w] = run'[w]] /\ run'[w] \in DbRun /\ run'[w].pc = "begin"
        /\ run'[w].job = "none" /\ ~run'[w].resolve /\ run'[w].before.found <= moved
        /\ \A v \in Worker \ {w} : run'[v] = run[v]
    BY <2>1, DbRests
  <2>3. accounts' \in [Db -> [Accounts!Host -> 0..MaxPassword]]
    <3>1. ASSUME NEW d \in Db PROVE accounts'[d] \in [Accounts!Host -> 0..MaxPassword]
      <4>1. accounts[d] \in [Accounts!Host -> 0..MaxPassword] /\ password[d] \in 0..MaxPassword
            /\ 0 \in 0..MaxPassword
        BY DbBounds DEF DbInv, DbTyped
      <4>2. QED BY <1>7, <4>1
    <3>2. QED BY <1>7, <3>1
  <2>4. OpenToAllowed'
    <3>1. ASSUME ~Waits', NEW s \in applied PROVE s \in Accounts!Allowed
      <4>1. ~Waits
        BY <1>1, <2>2, <3>1 DEF Waits
      <4>2. PICK d \in Db : s \in run[w].plan[d] /\ s # Accounts!Local
        BY <1>4, <3>1, DbWanted
      <4>3. status[d] # "none" /\ s \in Accounts!Hosts(Saw(w, d)) /\ Saw(w, d) = access[d]
        BY <1>1, <4>1, <4>2, DbAt DEF Planned, Saw
      <4>4. s \in Accounts!targets(access[d])
        BY <4>2, <4>3 DEF Accounts!Hosts
      <4>5. QED BY <4>3, <4>4 DEF Accounts!Allowed
    <3>2. Accounts!Allowed' = Accounts!Allowed
      BY <1>1 DEF Accounts!Allowed
    <3>3. QED BY <1>1, <3>1, <3>2 DEF OpenToAllowed
  <2>5. ASSUME NEW e \in Db \ besides PROVE Settled(e)'
    <3>1. /\ access[e] \in Accounts!Setting /\ InSync(w, e) /\ Right(e)
          /\ accounts[e] \in [Accounts!Host -> 0..MaxPassword] /\ password[e] \in 1..MaxPassword
      BY <1>1 DEF DbInv, DbTyped, Right
    <3>2. \A v \in Worker \ {w} : ~Works(v, e)
      <4>1. ASSUME NEW v \in Worker \ {w}, Works(v, e) PROVE FALSE
        BY <1>1, <4>1, DbAlone DEF Syncing
      <4>2. QED BY <4>1
    \* Whoever asked for this sync, the database's accounts were those of a setting before.
    <3>3. PICK a \in Accounts!Setting : /\ Fits(e, a, password[e])
                                        /\ access[e].mode = "domain" => a.found <= access[e].found
      <4>1. CASE Works(w, e) /\ run[w].job = "access" /\ ~run[w].again
        BY <3>1, <4>1, DbAt DEF Right, AtWork
      <4>2. CASE ~(Works(w, e) /\ run[w].job = "access" /\ ~run[w].again)
        <5>1. Settled(e)
          <6>1. CASE Works(w, e)
            <7>1. AtWork(w, e) /\ run[w].job \in {"repair", "drop", "access", "sync"}
              BY <1>1, <3>1, <6>1, DbAt DEF Right, Places
            <7>2. QED BY <1>1, <4>2, <6>1, <7>1 DEF AtWork, Works
          <6>2. CASE ~Works(w, e)
            BY <3>1, <3>2, <6>2 DEF Right
          <6>3. QED BY <6>1, <6>2
        <5>2. access[e].found \in Int
          BY <3>1, DbSettings, DbBounds
        <5>3. QED BY <3>1, <5>1, <5>2 DEF Settled, Fitting
      <4>3. QED BY <4>1, <4>2
    <3>4. status[e] \notin {"creating", "deleting"}
      <4>1. CASE ~Works(w, e)
        BY <3>1, <3>2, <4>1 DEF Right, Settled
      <4>2. CASE Works(w, e)
        <5>1. AtWork(w, e) /\ run[w].job \in {"repair", "drop", "access", "sync"}
          BY <1>1, <3>1, <4>2, DbAt DEF Right, Places
        <5>2. QED BY <1>1, <4>2, <5>1 DEF AtWork, Works, Settled
      <4>3. QED BY <4>1, <4>2
    <3>5. CASE e \notin run[w].knows
      <4>1. NoAccount(e) /\ status[e] \in {"none", "pending"}
        BY <3>1, <3>5 DEF InSync
      <4>2. accounts'[e] = accounts[e]
        BY <1>7, <3>5
      <4>3. NoAccount(e)'
        BY <4>1, <4>2 DEF NoAccount
      <4>4. QED BY <1>1, <3>1, <4>1, <4>3, DbNoAccount
    <3>6. CASE e \in run[w].knows
      <4>1. status[e] # "none" /\ run[w].plan[e] = Accounts!Hosts(access[e])
        BY <1>1, <3>1, <3>6 DEF InSync, Saw
      <4>2. /\ Accounts!Hosts(access[e]) \cap Older(a) = {}
            /\ Accounts!Hosts(access[e]) \subseteq Accounts!Host
        BY <3>1, <3>3, DbOlder, DbHosts
      <4>3. \A h \in Accounts!Host :
               accounts'[e][h] = IF h \in Accounts!Hosts(access[e]) THEN password[e] ELSE 0
        BY <1>7, <3>3, <3>6, <4>1, <4>2 DEF Fits
      <4>4. /\ Fits(e, access[e], password[e])' /\ Only(e, access[e])'
            /\ Full(e, access[e], password[e])'
        BY <1>1, <4>2, <4>3 DEF Fits, Only, Full
      <4>5. QED BY <1>1, <3>4, <4>1, <4>4 DEF Settled, Fitting
    <3>7. QED BY <3>5, <3>6
  <2>6. run'[w].job # "access" /\ unsynced' \in BOOLEAN
    BY <2>1, <2>2
  <2>7. QED BY <1>1, <1>2, <1>5, <2>1, <2>2, <2>3, <2>4, <2>5, <2>6, DbSyncEnds
<1>8. QED BY <1>6, <1>7 DEF Accounts!syncMySQLAccounts

LEMMA DbCrash ==
    ASSUME DbInv, Accounts!DatabasesAssumption, Accounts!Crash
    PROVE  DbInv'
<1> DEFINE rest == Accounts!Resting
<1>1. /\ Accounts!Trouble
      /\ dbJobs' = dbJobs \cup {<<run[w].job, run[w].db>> : w \in {w \in Worker : run[w].job \in {"create", "drop"}}}
      /\ besides' = besides \cup Accounts!WorkedOn
      /\ run' = [w \in Worker |-> rest] /\ holder' = "nobody" /\ starting' = TRUE
      /\ UNCHANGED <<status, password, access, accounts, listens, rules, applied, moved, unsynced, asked>>
  BY DEF Accounts!Crash, Accounts!machine
<1>2. rest \in DbRun /\ rest.job = "none" /\ rest.pc = "begin" /\ rest.resolve = FALSE
  BY DbResting
<1>3. rest.before.found <= moved
  BY DbClosed, DbBounds DEF Accounts!Resting, DbInv, DbTyped
<1> HIDE DEF rest
<1>4. run' \in [Worker -> DbRun] /\ \A w \in Worker : run'[w] = rest
  BY <1>1, <1>2
<1>5. leaked' = IF holder = "nobody" THEN leaked
                ELSE leaked \cup (IF run[holder].pc \in {"open", "remember"}
                                  THEN (Accounts!Wanted(holder) \ applied) \cap rules ELSE {})
  BY DEF Accounts!Crash
<1>6. leaked' \subseteq Accounts!Source
  BY <1>5 DEF DbInv, DbTyped
<1>7. DbTyped'
  <2>1. dbJobs' \subseteq {"create", "drop"} \X Db
    <3>1. ASSUME NEW v \in Worker, run[v].job \in {"create", "drop"}
          PROVE  <<run[v].job, run[v].db>> \in {"create", "drop"} \X Db
      BY <3>1, DbAt DEF Places
    <3>2. QED BY <1>1, <3>1 DEF DbInv, DbTyped
  <2>2. besides' \subseteq Db
    BY <1>1 DEF Accounts!WorkedOn, DbInv, DbTyped
  <2>3. troubles' \in 0..MaxTroubles
    BY <1>1, DbTroubles
  <2>4. QED BY <1>1, <1>4, <1>6, <2>1, <2>2, <2>3 DEF DbInv, DbTyped
<1>8. Known'
  BY <1>1 DEF DbInv, Known
<1>9. Remembered'
  <2>1. CASE holder = "nobody"
    <3>1. \A w \in Worker : run[w].pc \notin {"open", "remember"}
      BY <2>1, DbMutex DEF Syncing
    <3>2. QED BY <1>1, <1>5, <2>1, <3>1 DEF DbInv, Remembered
  <2>2. CASE holder # "nobody" /\ run[holder].pc \in {"open", "remember"}
    <3>1. holder \in Worker
      BY <2>2, DbMutex
    <3>2. rules \subseteq Accounts!Wanted(holder) \cup leaked
      BY <2>2, <3>1, DbAt DEF Listed
    <3>3. QED BY <1>1, <1>5, <2>2, <3>2 DEF Remembered
  <2>3. CASE holder # "nobody" /\ run[holder].pc \notin {"open", "remember"}
    <3>1. \A w \in Worker : run[w].pc \notin {"open", "remember"}
      BY <2>3, DbMutex DEF Syncing
    <3>2. QED BY <1>1, <1>5, <2>3, <3>1 DEF DbInv, Remembered
  <2>4. QED BY <2>1, <2>2, <2>3
<1>10. OpenToAllowed'
  BY <1>1 DEF OpenToAllowed, Waits
<1>11. \A w \in Worker : Places(w)' /\ Planned(w)' /\ Listed(w)' /\ Solitary(w)'
  <2>1. \A w \in Worker : rest.pc \notin Syncing
    BY <1>2 DEF Syncing
  <2>2. ASSUME NEW w \in Worker PROVE Places(w)' /\ Planned(w)' /\ Listed(w)' /\ Solitary(w)'
    <3>1. Places(w)'
      BY <1>1, <1>2, <1>3, <1>4, <2>1, DbBounds DEF Places, Syncing
    <3>2. Planned(w)' /\ Listed(w)' /\ Solitary(w)'
      BY <1>2, <1>4, <2>1 DEF Planned, Listed, Solitary
    <3>3. QED BY <3>1, <3>2
  <2>3. QED BY <2>2
<1>12. ASSUME NEW e \in Db \ besides' PROVE Right(e)'
  <2>1. Right(e) /\ \A w \in Worker : ~Works(w, e)
    BY <1>1, <1>12 DEF DbInv, Works, Accounts!WorkedOn
  <2>2. ~Synced'
    BY <1>1 DEF Synced
  <2>3. Settled(e)'
    BY <1>1, <2>1, <2>2, DbSame DEF Right
  <2>4. \A w \in Worker : ~Works(w, e)' /\ run'[w].pc \notin Syncing
    BY <1>2, <1>4 DEF Works, Syncing
  <2>5. QED BY <2>3, <2>4 DEF Right
<1>13. QED BY <1>7, <1>8, <1>9, <1>10, <1>11, <1>12 DEF DbInv

LEMMA DbNext ==
    ASSUME DbInv, Accounts!DatabasesAssumption, Accounts!Next
    PROVE  DbInv'
<1>1. CASE Accounts!Move
  BY <1>1, DbRequests
<1>2. CASE Accounts!Crash
  BY <1>2, DbCrash
<1>3. ASSUME NEW d \in Db, \/ Accounts!databasesStore(d) \/ Accounts!mcpCreateDatabase(d)
                           \/ Accounts!databasesDestroy(d) \/ Accounts!mcpDeleteDatabase(d)
      PROVE  DbInv'
  BY <1>3, DbRequests DEF Accounts!mcpCreateDatabase, Accounts!mcpDeleteDatabase
<1>4. ASSUME NEW w \in Worker, NEW d \in Db,
             \/ Accounts!Provision(w, d) \/ Accounts!Drop(w, d) \/ Accounts!mcpRepairDatabase(w, d)
             \/ Accounts!databasesPassword(w, d) \/ Accounts!mcpSetDatabasePassword(w, d)
             \/ \E mode \in Accounts!Mode : Accounts!databasesAccess(w, d, mode) \/ Accounts!mcpDatabaseAccess(w, d, mode)
      PROVE  DbInv'
  BY <1>4, DbProvision, DbDrop, DbAccountRequest, DbSetAccess
     DEF Accounts!mcpRepairDatabase, Accounts!databasesPassword, Accounts!mcpSetDatabasePassword,
         Accounts!databasesAccess, Accounts!mcpDatabaseAccess
<1>5. ASSUME NEW w \in Worker,
             \/ Accounts!Clock(w) \/ Accounts!AccountScript(w) \/ Accounts!SaveRow(w)
             \/ Accounts!DropScript(w) \/ Accounts!DropRow(w) \/ Accounts!ForgetAccess(w)
      PROVE  DbInv'
  BY <1>5, DbClock, DbAccountScript, DbSaveRow, DbDropScript, DbDropRow, DbForgetAccess
<1>6. ASSUME NEW w \in Worker,
             \/ Accounts!Lock(w) \/ Accounts!LookUp(w) \/ Accounts!Keep(w)
             \/ Accounts!setMySQLListen(w) \/ Accounts!CloseFirewall(w) \/ Accounts!OpenFirewall(w)
             \/ Accounts!Remember(w) \/ Accounts!syncMySQLAccounts(w) \/ Accounts!Undo(w)
      PROVE  DbInv'
  BY <1>6, DbLock, DbLookUp, DbKeep, DbListen, DbCloseFirewall, DbOpenFirewall, DbRemember,
     DbAccounts, DbUndo
<1>7. QED BY <1>1, <1>2, <1>3, <1>4, <1>5, <1>6 DEF Accounts!Next

LEMMA DbFirst ==
    ASSUME Accounts!DatabasesAssumption, Accounts!Init
    PROVE  DbInv
<1> DEFINE rest == Accounts!Resting
<1>1. PICK s \in [Db -> {"none", "ready"}] :
        /\ status = s
        /\ accounts = [d \in Db |-> [h \in Accounts!Host |-> IF s[d] = "ready" /\ h = Accounts!Local THEN 1 ELSE 0]]
  BY DEF Accounts!Init
<1>2. /\ password = [d \in Db |-> 1] /\ access = [d \in Db |-> Accounts!Closed]
      /\ listens = FALSE /\ rules = {} /\ applied = Accounts!Unset /\ moved = 1
      /\ run = [w \in Worker |-> rest] /\ holder = "nobody" /\ dbJobs = {}
      /\ starting = FALSE /\ unsynced = FALSE /\ besides = {} /\ leaked = {}
      /\ asked = 0 /\ troubles = 0
  BY DEF Accounts!Init
<1>3. /\ rest \in DbRun /\ rest.job = "none" /\ rest.pc = "begin" /\ rest.resolve = FALSE
      /\ rest.before.found <= moved
  BY <1>2, DbResting, DbClosed, DbBounds DEF Accounts!Resting
<1> HIDE DEF rest
<1>4. \A w \in Worker : run[w] = rest
  BY <1>2
<1>5. DbTyped
  <2>1. \A d \in Db : accounts[d] \in [Accounts!Host -> 0..MaxPassword]
    BY <1>1, DbBounds
  <2>2. accounts \in [Db -> [Accounts!Host -> 0..MaxPassword]]
    BY <1>1, <2>1
  <2>3. /\ password \in [Db -> 1..MaxPassword] /\ access \in [Db -> Accounts!Setting]
        /\ run \in [Worker -> DbRun] /\ asked \in 0..MaxAsked /\ troubles \in 0..MaxTroubles
        /\ moved \in Accounts!Address
    BY <1>2, <1>3, DbBounds, DbClosed
  <2>4. QED BY <1>1, <1>2, <2>2, <2>3 DEF DbTyped
<1>6. Known /\ Remembered /\ OpenToAllowed
  BY <1>2, DbClosed DEF Known, Remembered, OpenToAllowed
<1>7. \A w \in Worker : Places(w) /\ Planned(w) /\ Listed(w) /\ Solitary(w)
  BY <1>2, <1>3, <1>4, DbBounds DEF Places, Planned, Listed, Solitary, Syncing
<1>8. ASSUME NEW d \in Db PROVE Right(d)
  <2>1. /\ access[d] = Accounts!Closed /\ password[d] = 1 /\ status[d] \in {"none", "ready"}
        /\ Accounts!Hosts(access[d]) = {Accounts!Local} /\ Accounts!Local \in Accounts!Host
        /\ \A h \in Accounts!Host :
              accounts[d][h] = IF status[d] = "ready" /\ h = Accounts!Local THEN 1 ELSE 0
    BY <1>1, <1>2, DbClosed, DbHosts
  <2>2. Fits(d, access[d], 1) /\ Only(d, access[d])
    BY <2>1 DEF Fits, Only
  <2>3. status[d] = "ready" => Full(d, access[d], 1)
    BY <2>1 DEF Full
  <2>4. status[d] = "none" => NoAccount(d)
    BY <2>1 DEF NoAccount
  <2>5. Settled(d)
    BY <2>1, <2>2, <2>3, <2>4 DEF Settled, Fitting
  <2>6. \A w \in Worker : ~Works(w, d) /\ run[w].pc \notin Syncing
    BY <1>3, <1>4 DEF Works, Syncing
  <2>7. QED BY <2>5, <2>6 DEF Right
<1>9. QED BY <1>5, <1>6, <1>7, <1>8 DEF DbInv

LEMMA DbMeans ==
    ASSUME DbInv, Accounts!DatabasesAssumption
    PROVE  Accounts!AccessKept
<1>1. Accounts!TypeOK
  <2>1. \A w \in Worker : /\ run[w].job \in Accounts!Jobs \cup {"none"} /\ run[w].pc \in Accounts!Point
                          /\ run[w].plan \in [Db -> SUBSET Accounts!Host] /\ run[w].knows \subseteq Db
    BY DbAt
  <2>2. QED BY <2>1 DEF DbInv, DbTyped, Accounts!TypeOK
<1>2. ASSUME Accounts!Quiet
      PROVE  /\ rules \subseteq Accounts!Allowed \cup leaked
             /\ Synced /\ \A d \in Db \ besides : Settled(d)
  <2>1. ~starting /\ ~unsynced /\ \A w \in Worker : run[w].job = "none" /\ run[w].pc = "begin"
    BY <1>2, DbAt DEF Accounts!Quiet, Accounts!Busy, Places
  <2>2. holder = "nobody" /\ ~Waits
    BY <2>1, DbMutex DEF Waits, Syncing
  <2>3. rules \subseteq applied \cup leaked /\ rules \subseteq Accounts!Source
        /\ applied \ Accounts!Unset \subseteq Accounts!Allowed
    BY <2>1, <2>2 DEF DbInv, DbTyped, Remembered, OpenToAllowed
  <2>4. Accounts!Local \notin rules
    BY <2>3 DEF Accounts!Source, Accounts!Local
  <2>5. rules \subseteq Accounts!Allowed \cup leaked
    BY <2>3, <2>4 DEF Accounts!Unset
  <2>6. Synced
    BY <2>1, <2>2 DEF Synced
  <2>7. \A d \in Db \ besides : Settled(d)
    BY <2>1 DEF DbInv, Right, Works
  <2>8. QED BY <2>5, <2>6, <2>7
<1>3. Accounts!FirewallKept
  BY <1>2 DEF Accounts!FirewallKept
<1>4. ASSUME Accounts!Quiet, NEW d \in Db \ besides, status[d] = "ready"
      PROVE  /\ {h \in Accounts!Host : accounts[d][h] # 0} = Accounts!Hosts(access[d])
             /\ \A h \in Accounts!Host : accounts[d][h] \in {0, password[d]}
  <2>1. /\ Only(d, access[d]) /\ Full(d, access[d], password[d])
        /\ access[d] \in Accounts!Setting /\ password[d] \in Nat /\ password[d] # 0
    BY <1>2, <1>4, DbBounds DEF Settled, Fitting, DbInv, DbTyped
  <2>2. Accounts!Hosts(access[d]) \subseteq Accounts!Host
    BY <2>1, DbHosts
  <2>3. QED BY <2>1, <2>2 DEF Only, Full
<1>5. Accounts!AccountsKept
  BY <1>4 DEF Accounts!AccountsKept
<1>6. Accounts!PasswordKept
  BY <1>4 DEF Accounts!PasswordKept
<1>7. QED BY <1>1, <1>3, <1>5, <1>6 DEF Accounts!AccessKept

LEMMA DbStutters ==
    ASSUME DbInv, UNCHANGED Accounts!vars
    PROVE  DbInv'
<1>1. UNCHANGED <<status, password, access, accounts, listens, rules, applied, moved, run, holder,
                  dbJobs, starting, unsynced, besides, leaked, asked, troubles>>
  BY DEF Accounts!vars, Accounts!machine
<1>2. DbTyped' /\ Known' /\ Remembered'
  BY <1>1 DEF DbInv, DbTyped, Known, Remembered
<1>3. (Waits' <=> Waits) /\ (Synced' <=> Synced)
  BY <1>1 DEF Waits, Synced
<1>4. Accounts!Allowed' = Accounts!Allowed
  BY <1>1 DEF Accounts!Allowed
<1>5. OpenToAllowed'
  BY <1>1, <1>3, <1>4 DEF DbInv, OpenToAllowed
<1>6. \A w \in Worker : /\ run'[w] = run[w] /\ Accounts!Wanted(w)' = Accounts!Wanted(w)
                        /\ \A d \in Db : Saw(w, d)' = Saw(w, d)
  BY <1>1 DEF Saw, Accounts!Wanted
<1>7. ASSUME NEW w \in Worker PROVE Places(w)' /\ Planned(w)' /\ Listed(w)' /\ Solitary(w)'
  <2>1. Places(w)' /\ Listed(w)' /\ Solitary(w)'
    BY <1>1, <1>6, DbAt DEF Places, Listed, Solitary
  <2>2. Planned(w)'
    BY <1>1, <1>3, <1>6, DbAt DEF Planned
  <2>3. QED BY <2>1, <2>2
<1>8. ASSUME NEW d \in Db \ besides PROVE Right(d)'
  <2>1. Right(d) /\ accounts'[d] = accounts[d] /\ access'[d] = access[d]
        /\ password'[d] = password[d] /\ status'[d] = status[d]
    BY <1>1 DEF DbInv
  <2>2. \A w \in Worker : Works(w, d)' <=> Works(w, d)
    BY <1>1 DEF Works
  <2>3. Settled(d) => Settled(d)'
    BY <1>3, <2>1, DbSame
  <2>4. ASSUME NEW w \in Worker PROVE /\ Works(w, d)' => AtWork(w, d)'
                                      /\ run'[w].pc \in Syncing => InSync(w, d)'
    <3>1. Works(w, d)' => AtWork(w, d)'
      BY <1>1, <1>3, <1>6, <2>1, <2>2, DbAtWorkStays DEF Right
    <3>2. run'[w].pc \in Syncing => InSync(w, d)'
      BY <1>6, <2>1, DbInSyncStays DEF Right
    <3>3. QED BY <3>1, <3>2
  <2>5. QED BY <2>1, <2>2, <2>3, <2>4 DEF Right
<1>9. QED BY <1>1, <1>2, <1>5, <1>7, <1>8 DEF DbInv

DbFocus == focus = "accounts" => DbInv

LEMMA DbBegins == Init => DbFocus
<1> SUFFICES ASSUME Init, focus = "accounts" PROVE DbInv
  BY DEF DbFocus
<1>1. Accounts!Init
  BY DEF Init
<1>2. QED BY <1>1, DbAssumption, DbFirst

LEMMA DbStep == DbFocus /\ [Next]_vars => DbFocus'
<1> SUFFICES ASSUME DbFocus, [Next]_vars, focus' = "accounts" PROVE DbInv'
  BY DEF DbFocus
<1>1. focus = "accounts" /\ (Accounts!Next \/ UNCHANGED accountVars) /\ DbInv
  BY DEF Next, vars, DbFocus
<1>2. UNCHANGED accountVars => UNCHANGED Accounts!vars
  BY DEF accountVars, Accounts!vars, Accounts!machine
<1>3. QED BY <1>1, <1>2, DbAssumption, DbNext, DbStutters

\* However saves of who may connect, changes of passwords, repairs, creations and
\* removals interleave with the clock, with starts of the panel and with syncs
\* that fail halfway: once nothing is under way and the last sync went well, the
\* port is open to nobody that no database allows, but for what a failed sync
\* left behind; and unless two worked on a database at once, its accounts are at
\* the hosts it allows and nowhere else, each with the password of its row
\* (mysql.go, SyncMySQLAccess; databases.go, SetPassword, SetAccess).
THEOREM DatabasesAreOpenAsSaid == Spec => []AccessKept
<1>1. DbFocus => AccessKept
  BY DbAssumption, DbMeans DEF DbFocus, AccessKept
<1>2. QED BY <1>1, DbBegins, DbStep, PTL DEF Spec

=============================================================================
