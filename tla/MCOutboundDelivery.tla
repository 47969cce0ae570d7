------------------------- MODULE MCOutboundDelivery -------------------------
(* Two approvals allow a message to be sent twice; two senders can race    *)
(* for it while an operator requests, decides and withdraws.  The second   *)
(* message is a note that never leaves the CRM.                            *)
EXTENDS OutboundDelivery, TLC

Symmetry == Permutations(Approvals) \cup Permutations(Workers) \cup Permutations(Operators) \cup Permutations(Reconcilers)
=============================================================================
