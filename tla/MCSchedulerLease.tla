-------------------------- MODULE MCSchedulerLease --------------------------
(* Small instances of SchedulerLease. *)
EXTENDS SchedulerLease

CONSTANTS w1, w2
============================================================================
