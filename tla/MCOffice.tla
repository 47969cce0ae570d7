------------------------------ MODULE MCOffice ------------------------------
(***************************************************************************)
(* Appointments, the team and its accounts, payments, grants and tools, in *)
(* one run.  The parts share no state, so each is checked by itself:       *)
(* `part' says which one this behaviour is of, and the others stay as they *)
(* begin.                                                                  *)
(***************************************************************************)
EXTENDS TLC, Booking, Appointment, Team, SignIn, ToolCall, Payment, GoogleGrant, SecurityGate

CONSTANTS c1, c2

VARIABLE part

officeVars == <<bookingVars, appointmentVars, teamVars, signInVars, toolVars, payVars, grantVars, securityVars, part>>

(* The parts that may begin in several ways begin in one, unless they go on. *)
Pinned ==
  /\ \/ part = "appointment" /\ AppointmentInit
     \/ /\ part # "appointment" /\ booking = [Placed EXCEPT !.start = 2]
        /\ caller = [x \in Callers |-> Free] /\ email = [e \in Emails |-> "none"]
        /\ hour = 0 /\ deaths = 0 /\ hurried = FALSE
  /\ part = "team" \/ account = Users
  /\ part = "pay" \/ kind = [e \in PayEvents |-> CHOOSE k \in PayKinds : TRUE]

OfficeInit ==
  /\ part \in {"booking", "appointment", "team", "signIn", "tool", "pay", "grant", "security"}
  /\ Pinned
  /\ BookingInit /\ TeamInit /\ SignInInit /\ ToolCallInit /\ PaymentInit /\ GrantInit /\ SecurityInit

OfficeNext ==
  /\ UNCHANGED part
  /\ \/ part = "booking" /\ BookingNext
     \/ part # "booking" /\ UNCHANGED bookingVars
  /\ \/ part = "appointment" /\ AppointmentNext
     \/ part # "appointment" /\ UNCHANGED appointmentVars
  /\ \/ part = "team" /\ TeamNext
     \/ part # "team" /\ UNCHANGED teamVars
  /\ \/ part = "signIn" /\ SignInNext
     \/ part # "signIn" /\ UNCHANGED signInVars
  /\ \/ part = "tool" /\ ToolCallNext
     \/ part # "tool" /\ UNCHANGED toolVars
  /\ \/ part = "pay" /\ PaymentNext
     \/ part # "pay" /\ UNCHANGED payVars
  /\ \/ part = "grant" /\ GrantNext
     \/ part # "grant" /\ UNCHANGED grantVars
  /\ \/ part = "security" /\ SecurityNext
     \/ part # "security" /\ UNCHANGED securityVars

OfficeSpec == OfficeInit /\ [][OfficeNext]_officeVars

Actors == Permutations({c1, c2})

(* One host, open from 1 to 5 on one day whose third hour a clock change   *)
(* skips; meetings of two units, offered on every unit.                    *)
MCRule == [duration |-> 2, before |-> 0, after |-> 0, interval |-> 1]
MCMidnight == [d \in {1} |-> 0]
MCUtc == [t \in 0..6 |-> IF t < 3 THEN t ELSE t - 1]
MCHours == [h \in Hosts |-> [d \in {1} |-> {[start |-> 1, end |-> 5], [start |-> 2, end |-> 3]}]]
=============================================================================
