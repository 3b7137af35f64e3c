----------------------------- MODULE MCScheduler -----------------------------
(* An instance of Scheduler for TLC. *)
EXTENDS Scheduler

CONSTANTS s1, s2, p1, p2
=============================================================================
