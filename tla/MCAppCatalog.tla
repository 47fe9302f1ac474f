---------------------------- MODULE MCAppCatalog ----------------------------
(***************************************************************************)
(* Two apps of the catalogue, the database server and the mail server that *)
(* is installed with it and configured afterwards, on two workers.         *)
(***************************************************************************)
EXTENDS AppCatalog, TLC

CONSTANTS w1, w2, mysql, mail

MCWorker == {w1, w2}
MCApp == {mysql, mail}
MCRequires == [s \in MCApp |-> IF s = mail THEN {mysql} ELSE {}]
MCConfigured == {mail}
MCEngine == {mysql}
MCAsked == {{mail}}
MCMachines == {{mysql}}
MCSymmetry == Permutations(MCWorker)
=============================================================================
