----------------------------- MODULE MCScheduler -----------------------------
(* Two replicas, two windows, one external delivery and two faults: enough  *)
(* for a takeover of a takeover, a stale holder and a stale window.         *)
EXTENDS Scheduler
=============================================================================
