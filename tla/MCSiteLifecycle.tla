-------------------------- MODULE MCSiteLifecycle --------------------------
(***************************************************************************)
(* Sites that come and go on one domain, on two workers.                   *)
(***************************************************************************)
EXTENDS SiteLifecycle, TLC

CONSTANTS w1, w2, d1

MCWorker == {w1, w2}
MCOneWorker == {w1}
MCDomain == {d1}
MCServed == {TRUE}
MCEmpty == {FALSE}
MCSymmetry == Permutations(MCWorker)
=============================================================================
