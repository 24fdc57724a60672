---------------------------- MODULE MCCronWatcher ----------------------------
(* The instance of CronWatcher for TLC.  Symmetry is left out: the run checks *)
(* liveness.                                                                  *)
EXTENDS CronWatcher
=============================================================================
