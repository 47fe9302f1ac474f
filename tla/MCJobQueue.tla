----------------------------- MODULE MCJobQueue -----------------------------
(***************************************************************************)
(* The job queue on a small machine: two ordinary workers (the default of  *)
(* PANEL_WORKERS) and the quick lane; a deployment kind and the e-mail.    *)
(* The second binary is an older panel that has no e-mail handler.         *)
(***************************************************************************)
EXTENDS JobQueue

CONSTANTS w1, w2, q, deploy, email

MCOrdinary == {w1, w2}
MCKind == {deploy, email}
MCQuickKind == {email}
MCBinaries == {{deploy, email}, {deploy}}
MCOneBinary == {{deploy, email}}
=============================================================================
