----------------------------- MODULE MCCronJobs -----------------------------
(***************************************************************************)
(* CronJobs with one job and two claim identities.                         *)
(***************************************************************************)
EXTENDS CronJobs

CONSTANTS j1, o1, o2
=============================================================================
