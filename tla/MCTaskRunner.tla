---------------------------- MODULE MCTaskRunner ----------------------------
(***************************************************************************)
(* Two tasks at a time over lists with the shapes the panel builds: an     *)
(* install batch (a shared step, then two apps that interleave, one with   *)
(* an optional step), a deployment (no groups), and a list with no steps.  *)
(***************************************************************************)
EXTENDS TaskRunner

CONSTANTS t1, t2, nginx, mysql

Shared == [optional |-> FALSE, group |-> NoGroup]
MayFail == [optional |-> TRUE, group |-> NoGroup]
Of(g) == [optional |-> FALSE, group |-> g]
MayFailOf(g) == [optional |-> TRUE, group |-> g]

MCTask == {t1, t2}
MCGroup == {nginx, mysql}
Install == <<Shared, Of(nginx), Of(mysql), MayFailOf(nginx), Of(nginx), MayFail>>
Deploy == <<Shared, MayFail, Shared>>
MCLists == {Install, Deploy, <<>>}
=============================================================================
