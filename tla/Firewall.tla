------------------------------ MODULE Firewall ------------------------------
(***************************************************************************)
(* ufw and the address of the panel: internal/security/ports.go and        *)
(* firewall.go, the pages of internal/web/security.go that use them, and   *)
(* the part of internal/web/system.go that moves the panel's port.         *)
(*                                                                         *)
(* ufw deletes a rule by its number in the list it prints, the IPv4 rules  *)
(* before the IPv6 ones, and every rule added moves the numbers after it.  *)
(* One request at a time is in the panel's hands; a death of the panel may *)
(* come between any two of its commands.                                   *)
(***************************************************************************)
EXTENDS Naturals, FiniteSetsExt, SequencesExt

CONSTANTS
    Panel,         \* the ports the panel may be on
    Secure, Public,   \* SSH's port, and the one of what the server serves
    Other,         \* any other port
    Shape,         \* the rules the owner writes besides those of one port
    MaxRules,      \* bound: the rules of a family before the owner adds one
    MaxChanges,    \* bound: requests
    MaxTroubles    \* bound: commands ufw or nginx refuses

Key == Panel \cup {Secure, Public} \cup Other
Rule == [keys: SUBSET Key, range: BOOLEAN, anyone: BOOLEAN]
\* What `ufw allow <port>/<protocol>` writes.
One(k) == [keys |-> {k}, range |-> FALSE, anyone |-> TRUE]

\* What is assumed of the constants, by the module that gives them values.
ShapeAssumption == Shape \subseteq Rule /\ Panel # {}

Family == {4, 6}

VARIABLES
    on,            \* ufw is active
    rules,         \* its rules, of each family
    port,          \* the setting panel_port
    file, served,  \* the port in the panel's vhost, and in what nginx loaded
    shell,         \* sshd runs
    forwards,      \* the ports forwarded
    op,            \* the request in hand
    missed,        \* history: the ports, each of a family, the code took for open:
                   \* ufw's refusal was not looked at, or CloseUnneeded counted
                   \* a rule of the other family
    torn,          \* history: nginx refused the vhost at a start after a crash
    changes, troubles

vars == <<on, rules, port, file, served, shell, forwards, op, missed, torn,
          changes, troubles>>

Idle == [name |-> "idle", at |-> "idle", key |-> CHOOSE k \in Panel : TRUE,
         open |-> {}, keep |-> {}, todo |-> {}, doomed |-> {}, numbers |-> {},
         due |-> {}]
Name == {"idle", "down", "close", "unneeded", "enable", "move"}
Step == {"idle", "down", "read", "allow", "switch", "number", "delete", "done",
         "set", "vhost", "back", "again"}

TypeOK ==
    /\ on \in BOOLEAN /\ shell \in BOOLEAN
    /\ \A f \in Family : Len(rules[f]) <= MaxRules + Cardinality(Key)
                         /\ Range(rules[f]) \subseteq Shape \cup {One(k) : k \in Key}
    /\ {port, file, served} \subseteq Panel
    /\ forwards \subseteq Other /\ missed \subseteq Family \X Key
    /\ op.name \in Name /\ op.at \in Step
    /\ op.open \cup op.keep \cup op.todo \subseteq Key
    /\ changes \in 0..MaxChanges /\ troubles \in 0..MaxTroubles

-----------------------------------------------------------------------------
(* ufw: rules, their numbers, and what is reachable.                       *)

Numbered == rules[4] \o rules[6]
FamilyOf(n) == IF n <= Len(rules[4]) THEN 4 ELSE 6
Numbers(P(_)) == {n \in DOMAIN Numbered : P(Numbered[n])}

\* A rule that is there already is skipped, in each family.
Allow(r) ==
    rules' = [f \in Family |-> IF r \in Range(rules[f]) THEN rules[f]
                               ELSE Append(rules[f], r)]

DeleteRule(n) ==
    /\ n \in DOMAIN Numbered
    /\ rules' = IF n <= Len(rules[4])
                THEN [rules EXCEPT ![4] = RemoveAt(@, n)]
                ELSE [rules EXCEPT ![6] = RemoveAt(@, n - Len(rules[4]))]

\* deleteRules: the highest first, so that the others keep their numbers.
NextNumberLowest == Min(op.numbers)   \* a mutant: the lowest first
NextNumber == Max(op.numbers)

RuleOpens(r, k) == r.anyone /\ k \in r.keys
IsOpen(f, k) == \E r \in Range(rules[f]) : RuleOpens(r, k)
Opened == {fk \in Family \X Key : IsOpen(fk[1], fk[2])}
Ports(ks) == Family \X ks

\* `ufw allow` of one port, for everyone.
AllowPort(k) == Allow(One(k)) /\ missed' = missed \ Ports({k})

\* What ReadFirewall answers: no rules of a firewall that is off.
ReadFirewall == IF on THEN Numbered ELSE <<>>

-----------------------------------------------------------------------------
(* Requests.                                                               *)

Begin(o) ==
    /\ op = Idle /\ changes < MaxChanges
    /\ changes' = changes + 1
    /\ op' = o

Step1(o) == op' = o /\ UNCHANGED changes

Quiet == UNCHANGED <<missed, torn>>
Address == <<port, file, served>>

\* What the owner adds, on the page or with a shell.
securityFirewallRule(r) ==
    /\ \A f \in Family : Len(rules[f]) < MaxRules
    /\ Begin(Idle) /\ Allow(r)
    /\ UNCHANGED <<on, Address, shell, forwards, troubles>> /\ Quiet

\* The last rule of its family that lets the panel in is refused.
LastWayIn(n) ==
    /\ n \in DOMAIN ReadFirewall /\ RuleOpens(ReadFirewall[n], port)
    /\ ~\E m \in DOMAIN ReadFirewall \ {n} :
          FamilyOf(m) = FamilyOf(n) /\ RuleOpens(ReadFirewall[m], port)

securityFirewallDelete(n) ==
    /\ Begin(Idle)
    /\ ~LastWayIn(n) /\ DeleteRule(n)
    /\ UNCHANGED <<on, Address, shell, forwards, troubles>> /\ Quiet

\* The rules are kept.
securityFirewallDisable ==
    /\ on /\ Begin(Idle) /\ on' = FALSE
    /\ UNCHANGED <<rules, Address, shell, forwards, troubles>> /\ Quiet

\* securityPort, to open a port.
OpenPort(k) ==
    /\ on /\ Begin(Idle) /\ AllowPort(k)
    /\ UNCHANGED <<on, Address, shell, forwards, torn, troubles>>

\* StopSSH and StartSSH, neither of which is about the firewall.
securitySSHService ==
    /\ Begin(Idle) /\ shell' = ~shell
    /\ UNCHANGED <<on, rules, Address, forwards, troubles>> /\ Quiet

\* The port is opened before the list is saved, and stays
\* open when the forward is taken away.
securityForward(k) ==
    /\ Begin(Idle)
    /\ \/ k \in forwards /\ forwards' = forwards \ {k} /\ UNCHANGED <<rules, missed>>
       \/ k \notin forwards /\ forwards' = forwards \cup {k} /\ AllowPort(k)
    /\ UNCHANGED <<on, Address, shell, torn, troubles>>

-----------------------------------------------------------------------------
(* ClosePort and CloseUnneeded.                                            *)

\* ClosePort refuses the panel's port and a port in a range.
CanClose(k) ==
    /\ k # port
    /\ ~\E n \in DOMAIN ReadFirewall : ReadFirewall[n].range /\ RuleOpens(ReadFirewall[n], k)

Together(k) == {r \in ToSet(ReadFirewall) : RuleOpens(r, k)}
\* What the rules that open a port open besides it.
Others(k) == UNION {r.keys : r \in Together(k)} \ {k}

ClosePort(k) ==
    /\ on /\ CanClose(k) /\ Together(k) # {}
    /\ Begin([Idle EXCEPT !.name = "close", !.at = "allow", !.key = k,
                          !.todo = Others(k),
                          !.numbers = Numbers(LAMBDA r : RuleOpens(r, k)),
                          !.due = Opened \ Ports({k})])
    /\ UNCHANGED <<on, rules, Address, shell, forwards, troubles>> /\ Quiet

\* neededPorts, with SSH and the panel as CloseUnneeded adds them.
NeededOpen == {Public, port} \cup (IF shell THEN {Secure} ELSE {})
NeededKeep == forwards

Closable(r) ==
    r.anyone /\ (r.range \/ ~(r.keys \subseteq op.open \cup op.keep))

\* What a rule that opens no range opens to everyone.
Kept == {fk \in Opened : \E r \in Range(rules[fk[1]]) :
                            RuleOpens(r, fk[2]) /\ ~r.range}

\* closeUnneeded, on a firewall that is on and on one that is off.
CloseUnneeded ==
    /\ Begin([Idle EXCEPT !.name = IF on THEN "unneeded" ELSE "enable",
                          !.at = IF on THEN "read" ELSE "switch",
                          !.open = NeededOpen, !.keep = NeededKeep,
                          !.todo = IF on THEN {} ELSE NeededOpen,
                          !.due = IF on THEN (Opened \cap Ports(NeededOpen))
                                             \cup (Kept \cap Ports(NeededKeep))
                                  ELSE {}])
    /\ UNCHANGED <<on, rules, Address, shell, forwards, troubles>> /\ Quiet

\* EnableFirewall: one command after another, and the switch is the last.
AllowFirst ==
    /\ op.at = "switch" /\ op.todo # {}
    /\ \E k \in op.todo : AllowPort(k) /\ Step1([op EXCEPT !.todo = @ \ {k}])
    /\ UNCHANGED <<on, Address, shell, forwards, torn, troubles>>

SwitchOn ==
    /\ op.at = "switch" /\ op.todo = {}
    /\ on' = TRUE
    /\ Step1([op EXCEPT !.at = "read"])
    /\ UNCHANGED <<rules, Address, shell, forwards, troubles>> /\ Quiet

Doomed == {r \in ToSet(ReadFirewall) : Closable(r)}
Covered == UNION {r.keys : r \in {x \in ToSet(ReadFirewall) : x.anyone /\ ~Closable(x)}}
\* What is to be opened on its own before anything is closed.  The ports of a
\* range are not among those a rule that goes was opening.
Reopen ==
    (op.open \ Covered)
    \cup ((op.keep \cap UNION {r.keys : r \in {x \in Doomed : ~x.range}}) \ Covered)

\* Which family's rule it is that covers a port is not asked.
TakenForOpen ==
    {fk \in Ports((op.open \cup op.keep) \cap Covered) :
        ~\E r \in Range(rules[fk[1]]) : RuleOpens(r, fk[2]) /\ ~Closable(r)}

ReadRules ==
    /\ op.at = "read"
    /\ Step1([op EXCEPT !.at = "allow", !.todo = Reopen, !.doomed = Doomed,
                        !.numbers = Numbers(LAMBDA r : r \in Doomed)])
    /\ missed' = missed \cup TakenForOpen
    /\ UNCHANGED <<on, rules, Address, shell, forwards, torn, troubles>>

\* A rule of its own for each port another rule was opening as well.
AllowOther ==
    /\ op.at = "allow" /\ op.todo # {}
    /\ \E k \in op.todo :
          /\ AllowPort(k)
          /\ Step1([op EXCEPT !.todo = @ \ {k},
                              !.at = IF op.todo = {k} THEN "number" ELSE "allow"])
    /\ UNCHANGED <<on, Address, shell, forwards, torn, troubles>>

NothingToAllow ==
    /\ op.at = "allow" /\ op.todo = {}
    /\ Step1([op EXCEPT !.at = "delete"])
    /\ UNCHANGED <<on, rules, Address, shell, forwards, troubles>> /\ Quiet

\* The numbers have moved: the rules to go are found again.
ToGo(r) == IF op.name = "close" THEN RuleOpens(r, op.key) /\ ~r.range
           ELSE r \in op.doomed /\ Closable(r)

ReadNumbers ==
    /\ op.at = "number"
    /\ Step1([op EXCEPT !.at = "delete", !.numbers = Numbers(ToGo)])
    /\ UNCHANGED <<on, rules, Address, shell, forwards, troubles>> /\ Quiet

DeleteNext ==
    /\ op.at = "delete" /\ op.numbers # {}
    /\ DeleteRule(NextNumber)
    /\ Step1([op EXCEPT !.numbers = @ \ {NextNumber}])
    /\ UNCHANGED <<on, Address, shell, forwards, troubles>> /\ Quiet

DeletedAll ==
    /\ op.at = "delete" /\ op.numbers = {}
    /\ Step1([op EXCEPT !.at = "done"])
    /\ UNCHANGED <<on, rules, Address, shell, forwards, troubles>> /\ Quiet

Answered ==
    /\ op.at = "done" /\ Step1(Idle)
    /\ UNCHANGED <<on, rules, Address, shell, forwards, troubles>> /\ Quiet

\* Any command of ufw's may be refused, and the request ends there.
UfwRefuses ==
    /\ op.at \in {"switch", "allow", "delete"}
    /\ op.todo # {} \/ op.numbers # {} \/ op.at = "switch"
    /\ troubles < MaxTroubles /\ troubles' = troubles + 1
    /\ Step1(Idle)
    /\ UNCHANGED <<on, rules, Address, shell, forwards>> /\ Quiet

-----------------------------------------------------------------------------
(* The address of the panel.                                               *)

\* openPanelPort: nothing while the firewall is off, and a refusal is not
\* looked at.
OpenPanelPort(k) ==
    \/ ~on /\ UNCHANGED <<rules, missed, troubles>>
    \/ on /\ AllowPort(k) /\ UNCHANGED troubles
    \/ /\ on /\ troubles < MaxTroubles /\ troubles' = troubles + 1
       /\ missed' = missed \cup (Ports({k}) \ Opened) /\ UNCHANGED rules

\* movePanelPort: the firewall first, then the setting, then the vhost.
MovePort(k) ==
    /\ k # port
    /\ OpenPanelPort(k)
    /\ Begin([Idle EXCEPT !.name = "move", !.at = "set", !.key = port, !.todo = {k}])
    /\ UNCHANGED <<on, Address, shell, forwards, torn>>

\* The settings page and the tool: 80 and 443 are the sites', and the port
\* the panel is on already is no move.
updateSettings(k) == k # Public /\ MovePort(k)
mcpPanelSettings(k) == k # Public /\ MovePort(k)

SetPort ==
    /\ op.at = "set"
    /\ \E k \in op.todo : port' = k
    /\ Step1([op EXCEPT !.at = "vhost", !.todo = {}])
    /\ UNCHANGED <<on, rules, file, served, shell, forwards, troubles>> /\ Quiet

\* refreshPanelVhost, and how it ends: nothing to write or the new file
\* loaded, the old file put back, or a file nginx accepted and did not load.
Refreshed == file' = port /\ served' = IF file = port THEN served ELSE port
NotRefreshed ==
    /\ file # port /\ troubles < MaxTroubles
    /\ UNCHANGED served
    /\ \/ UNCHANGED file
       \/ file' = port

RefreshVhost ==
    /\ op.name = "move" /\ op.at = "vhost" /\ Refreshed
    /\ Step1(Idle)
    /\ UNCHANGED <<on, rules, port, shell, forwards, troubles>> /\ Quiet

VhostRefused ==
    /\ op.name = "move" /\ op.at = "vhost" /\ NotRefreshed /\ troubles' = troubles + 1
    /\ Step1([op EXCEPT !.at = "back"])
    /\ UNCHANGED <<on, rules, port, shell, forwards>> /\ Quiet

PutBack ==
    /\ op.at = "back"
    /\ port' = op.key
    /\ Step1([op EXCEPT !.at = "again"])
    /\ UNCHANGED <<on, rules, file, served, shell, forwards, troubles>> /\ Quiet

\* What the second refresh answers is not looked at.
RefreshAgain ==
    /\ op.at = "again" /\ Step1(Idle)
    /\ \/ Refreshed /\ UNCHANGED troubles
       \/ NotRefreshed /\ troubles' = troubles + 1
    /\ UNCHANGED <<on, rules, port, shell, forwards>> /\ Quiet

-----------------------------------------------------------------------------
(* Deaths and starts.                                                      *)

Crash ==
    /\ op.name \notin {"idle", "down"}
    /\ Step1([Idle EXCEPT !.name = "down", !.at = "down"])
    /\ UNCHANGED <<on, rules, Address, shell, forwards, troubles>> /\ Quiet

\* EnsurePanelAddress, on every start.
EnsurePanelAddress ==
    /\ op.at = "down" /\ OpenPanelPort(port)
    /\ Step1([Idle EXCEPT !.name = "down", !.at = "vhost"])
    /\ UNCHANGED <<on, Address, shell, forwards, torn>>

\* The vhost, then the shared configuration, and nginx is reloaded for both.
EnsureVhost ==
    /\ op.name = "down" /\ op.at = "vhost" /\ Step1(Idle)
    /\ \/ file' = port /\ served' = port /\ torn' = FALSE /\ UNCHANGED troubles
       \/ /\ troubles < MaxTroubles /\ troubles' = troubles + 1
          /\ file' \in {file, port} /\ UNCHANGED served
          /\ torn' = (served # port)
    /\ UNCHANGED <<on, rules, port, shell, forwards, missed>>

-----------------------------------------------------------------------------
\* The machine as setup.sh left it: the firewall on, the ports the server
\* needs open, and what the owner had opened before.
Init ==
    /\ on = TRUE /\ shell = TRUE
    /\ port \in Panel /\ file = port /\ served = port
    /\ rules = [f \in Family |-> <<One(Secure), One(Public), One(port)>>]
    /\ forwards = {}
    /\ op = Idle
    /\ missed = {} /\ torn = FALSE
    /\ changes = 0 /\ troubles = 0

Next ==
    \/ \E r \in Shape : securityFirewallRule(r)
    \/ \E n \in DOMAIN Numbered : securityFirewallDelete(n)
    \/ securityFirewallDisable \/ securitySSHService
    \/ \E k \in Key : OpenPort(k) \/ ClosePort(k)
    \/ \E k \in Other : securityForward(k)
    \/ CloseUnneeded \/ AllowFirst \/ SwitchOn \/ ReadRules
    \/ AllowOther \/ NothingToAllow \/ ReadNumbers \/ DeleteNext \/ DeletedAll
    \/ Answered \/ UfwRefuses
    \/ \E k \in Panel : updateSettings(k) \/ mcpPanelSettings(k)
    \/ SetPort \/ RefreshVhost \/ VhostRefused \/ PutBack \/ RefreshAgain
    \/ Crash \/ EnsurePanelAddress \/ EnsureVhost

Spec == Init /\ [][Next]_vars

-----------------------------------------------------------------------------
\* The panel is within reach of its owner: while the firewall is on, the port
\* the panel is set to and the one it is served on are open, in each family
\* (security.go:670-672, system.go:290-294, firewall.go:98-102).  Excused is
\* what the code takes for open, and a vhost nginx refuses at a start after a
\* crash in the middle of a move.
WayIn ==
    on /\ op.name # "down" =>
        \A f \in Family, k \in {port} \cup (IF torn THEN {} ELSE {served}) :
            <<f, k>> \in missed \/ IsOpen(f, k)

\* Closing ports closes no other: what a request is to leave open is open
\* after each of its commands (ports.go:402-405, 541-545).  A request ends
\* with closed what it was to close, and with open what it was to open.
OnlyWhatWasAsked ==
    /\ op.due \subseteq Opened \cup missed
    /\ op.at = "done" /\ op.name = "close" =>
          \A f \in Family : ~IsOpen(f, op.key)
    /\ op.at = "done" /\ op.name # "close" =>
          /\ Ports(op.open) \subseteq Opened \cup missed
          /\ Opened \subseteq Ports(op.open \cup op.keep)

DoorsKept == WayIn /\ OnlyWhatWasAsked
=============================================================================
