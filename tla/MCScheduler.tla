----------------------------- MODULE MCScheduler -----------------------------
(* The two kinds of job a .cfg of Scheduler names. *)
EXTENDS Scheduler

CONSTANTS hourly, nightly, once

=============================================================================
