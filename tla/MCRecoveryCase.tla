--------------------------- MODULE MCRecoveryCase ---------------------------
(* One composer, and a second call that decides, runs or closes against it; *)
(* two contents, so that a plan can be replaced by another, and two         *)
(* approvals, so that it can be asked about again.                          *)
EXTENDS RecoveryCase
=============================================================================
