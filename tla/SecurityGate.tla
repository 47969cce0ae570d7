---------------------------- MODULE SecurityGate ----------------------------
(***************************************************************************)
(* backend/security_gate.py: what is registered of an external component,  *)
(* the two gates admins record their checks in, the decision on it, and    *)
(* what a tool call asks of it.  Every operation reads the component,      *)
(* judges what it read and then writes without asserting that.             *)
(*                                                                         *)
(* A component is a digest of one source and version.  A gate's scanner    *)
(* result is one of its checks here.  Configured scanners are assumed.     *)
(***************************************************************************)
EXTENDS FiniteSets

CONSTANTS Digests, Gates, Checks, Reviewers, NoDigest

ASSUME SecurityAssumption == NoDigest \notin Digests /\ Gates # {} /\ Checks # {}

VARIABLES
  component,  \* external_components, by digest
  review,     \* an admin's operation: what it is and what it read
  overtaken   \* history: components a write reached that had changed since it was read

securityVars == <<component, review, overtaken>>

EXECUTABLE_STATES == {"APPROVED", "APPROVED_LIMITED"}
GateStates == {"DISCOVERED", "UNDER_REVIEW", "REJECTED", "QUARANTINED", "REVOKED"} \cup EXECUTABLE_STATES

ALLOWED_TRANSITIONS ==
  {<<"DISCOVERED", d>> : d \in {"UNDER_REVIEW", "REJECTED", "QUARANTINED"}}
  \cup {<<"UNDER_REVIEW", d>> : d \in EXECUTABLE_STATES \cup {"REJECTED", "QUARANTINED", "UNDER_REVIEW"}}
  \cup {<<e, d>> : e \in EXECUTABLE_STATES, d \in {"REVOKED", "QUARANTINED", "UNDER_REVIEW"}}
  \cup {<<"APPROVED_LIMITED", "APPROVED">>}
  \cup {<<"QUARANTINED", d>> : d \in {"UNDER_REVIEW", "REJECTED", "REVOKED"}}
  \cup {<<d, "UNDER_REVIEW">> : d \in {"REJECTED", "REVOKED"}}

(* A check of concern is a pass with a remark. *)
CheckResults == {"not_run", "fail", "pass"}
CheckedType == [Gates -> [Checks -> CheckResults]]

(* lapsed: expires_at has passed. *)
ComponentType == [state : GateStates \cup {"absent"}, checks : CheckedType,
                  limited : BOOLEAN, lapsed : BOOLEAN]
Blank == [g \in Gates |-> [c \in Checks |-> "not_run"]]
NotThere == [state |-> "absent", checks |-> Blank, limited |-> FALSE, lapsed |-> FALSE]

NoReview == [op |-> "none", of |-> NoDigest, seen |-> NotThere]

SecurityTypeOK ==
  /\ component \in [Digests -> ComponentType]
  /\ review \in [Reviewers -> [op : {"none", "register", "write"}, of : Digests \cup {NoDigest},
                               seen : ComponentType]]
  /\ overtaken \subseteq Digests

SecurityInit ==
  /\ component = [d \in Digests |-> NotThere]
  /\ review = [r \in Reviewers |-> NoReview]
  /\ overtaken = {}

-----------------------------------------------------------------------------
Registered == {d \in Digests : component[d].state # "absent"}

ReviewAs(r, op, d) ==
  /\ review[r] = NoReview
  /\ review' = [review EXCEPT ![r] = [op |-> op, of |-> d, seen |-> component[d]]]

ReviewDone(r) == review' = [review EXCEPT ![r] = NoReview]

(* register_component(): refused when the version is there, whatever its digest. *)
AskToRegister(r, d) ==
  /\ Registered = {}
  /\ ReviewAs(r, "register", d)
  /\ UNCHANGED <<component, overtaken>>

(* The unique index holds the digest too. *)
RegisterComponent(r) ==
  /\ review[r].op = "register"
  /\ component' = [component EXCEPT ![review[r].of] =
                     IF @.state = "absent" THEN [@ EXCEPT !.state = "DISCOVERED"] ELSE @]
  /\ ReviewDone(r)
  /\ UNCHANGED overtaken

(* record_gate(), decide(): the component as it is read. *)
OpenComponent(r, d) ==
  /\ d \in Registered
  /\ ReviewAs(r, "write", d)
  /\ UNCHANGED <<component, overtaken>>

(* _evaluate_gate() *)
GatePassed(checks, g) == \A c \in Checks : checks[g][c] = "pass"

(* Mutant: one gate is enough. *)
EligibleByOne(seen) == \E g \in Gates : GatePassed(seen.checks, g)

(* eligibility() *)
Eligible(seen) == \A g \in Gates : GatePassed(seen.checks, g)

Overtakes(r) == overtaken' = IF component[review[r].of] # review[r].seen
                             THEN overtaken \cup {review[r].of} ELSE overtaken

(* The gate again, on a component that may execute: the decision is off. *)
Suspended(now, seen) ==
  IF seen.state \in EXECUTABLE_STATES \cup {"DISCOVERED"}
  THEN [now EXCEPT !.state = "UNDER_REVIEW", !.lapsed = FALSE] ELSE now

(* record_gate(): the checks of the gate as it was read, with the new ones. *)
RecordGate(r) ==
  /\ review[r].op = "write"
  /\ \E g \in Gates, c \in Checks, result \in CheckResults :
       component' = [component EXCEPT ![review[r].of] =
         [Suspended(@, review[r].seen) EXCEPT !.checks[g] = [review[r].seen.checks[g] EXCEPT ![c] = result]]]
  /\ Overtakes(r)
  /\ ReviewDone(r)

(* decide(): the transition is from the state that was read. *)
DecideComponent(r, decision) ==
  /\ review[r].op = "write"
  /\ decision \in EXECUTABLE_STATES => Eligible(review[r].seen)
  /\ <<review[r].seen.state, decision>> \in ALLOWED_TRANSITIONS
  /\ \E limited \in BOOLEAN :
       component' = [component EXCEPT ![review[r].of].state = decision,
                                      ![review[r].of].limited = limited,
                                      ![review[r].of].lapsed = FALSE]
  /\ Overtakes(r)
  /\ ReviewDone(r)

(* Refused, or the operation dies. *)
GiveReviewUp(r) ==
  /\ review[r] # NoReview
  /\ ReviewDone(r)
  /\ UNCHANGED <<component, overtaken>>

ApprovalLapses(d) ==
  /\ component[d].state \in EXECUTABLE_STATES /\ ~component[d].lapsed
  /\ component' = [component EXCEPT ![d].lapsed = TRUE]
  /\ UNCHANGED <<review, overtaken>>

SecurityNext ==
  \/ \E r \in Reviewers :
       \/ \E d \in Digests : AskToRegister(r, d) \/ OpenComponent(r, d)
       \/ RegisterComponent(r) \/ RecordGate(r) \/ GiveReviewUp(r)
       \/ \E decision \in GateStates : DecideComponent(r, decision)
  \/ \E d \in Digests : ApprovalLapses(d)

SecuritySpec == SecurityInit /\ [][SecurityNext]_securityVars

-----------------------------------------------------------------------------
(* assert_executable(): whichever component of the version is found, and   *)
(* only a digest the caller gives is compared.                             *)
MayExecute(d) ==
  /\ component[d].state \in EXECUTABLE_STATES /\ ~component[d].lapsed
  /\ ~(component[d].state = "APPROVED_LIMITED" /\ component[d].limited)

(***************************************************************************)
(* A component that may execute has passed both gates as they stand now,   *)
(* unless a write reached it that was judged on an older reading: the one  *)
(* way around the gates is two admins at work on the same component        *)
(* (record_gate, decide, assert_executable).                               *)
(***************************************************************************)
ExecutableHasPassed ==
  \A d \in Digests : MayExecute(d) => (\A g \in Gates : GatePassed(component[d].checks, g)) \/ d \in overtaken

(***************************************************************************)
(* What the gate promises.                                                 *)
(***************************************************************************)
SecurityHolds == SecurityTypeOK /\ ExecutableHasPassed
=============================================================================
