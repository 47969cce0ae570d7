---------------------------- MODULE Appointment ----------------------------
(***************************************************************************)
(* backend/booking.py after the booking is placed: what happens to one     *)
(* appointment, its preparation task, its reminder and the emails about    *)
(* it, which an admin approves and a sweep delivers.                       *)
(*                                                                         *)
(* A call is a request or a row of the reminder sweep.  Each of its writes *)
(* is a step, on the appointment as it read it before (seen).  Placing the *)
(* appointment anew is one step here and Booking's subject; drafting an    *)
(* email and asking for its approval is one step, and so is delivering it: *)
(* their own steps are OutboundDelivery's.                                 *)
(*                                                                         *)
(* Bounds: the times an appointment can have, the kinds of email the page  *)
(* sends (Mailed), and MaxDeaths.                                          *)
(***************************************************************************)
EXTENDS Integers

CONSTANTS Callers, Starts, Mailed, ReminderLead, LastHour, MaxDeaths

ASSUME AppointmentAssumption ==
  /\ LastHour \in Nat /\ MaxDeaths \in Nat /\ ReminderLead \in Nat
  /\ Starts \subseteq 1..LastHour /\ Starts # {} /\ Callers # {}
  /\ Mailed \subseteq {"confirmation", "rescheduled", "cancelled", "reminder"}

VARIABLES
  hour,
  booking,    \* the appointment
  email,      \* the emails to the person, by kind and the start they are about
  caller,
  deaths,     \* calls that died so far
  hurried     \* history: cancelled before its own call had made its task

appointmentVars == <<hour, booking, email, caller, deaths, hurried>>

Kinds == {"confirmation", "rescheduled", "cancelled", "reminder"}
Emails == Mailed \X Starts
EmailStates == {"none", "pending_approval", "approved", "sent", "blocked"}

(* messages: the start of the last email of each kind, 0 for none. *)
BookingType == [status : {"confirmed", "cancelled", "completed", "no_show"}, start : Starts,
                token : BOOLEAN, task : {"none", "todo", "cancelled"}, claimed : BOOLEAN,
                messages : [Mailed -> Starts \cup {0}]]

Stages == {"idle", "token", "task", "move", "cancel", "reread", "supersede", "mail", "untask",
           "outcome", "claim", "send", "refuse"}
CallerType == [pc : Stages, kind : Kinds, start : Starts \cup {0}, 
               seen : [task : BOOLEAN, messages : [Mailed -> Starts \cup {0}]]]

AppointmentTypeOK ==
  /\ hour \in 0..LastHour /\ booking \in BookingType /\ email \in [Emails -> EmailStates]
  /\ caller \in [Callers -> CallerType] /\ deaths \in 0..MaxDeaths /\ hurried \in BOOLEAN

Placed == [status |-> "confirmed", start |-> 0, token |-> FALSE,
              task |-> "none", claimed |-> FALSE, messages |-> [k \in Mailed |-> 0]]
Nothing == [task |-> FALSE, messages |-> [k \in Mailed |-> 0]]
Free == [pc |-> "idle", kind |-> "confirmation", start |-> 0, seen |-> Nothing]

(* The booking has been placed; the call that did goes on. *)
AppointmentInit ==
  /\ hour = 0 /\ deaths = 0 /\ hurried = FALSE
  /\ \E s \in Starts, c \in Callers :
       /\ booking = [Placed EXCEPT !.start = s]
       /\ caller = [x \in Callers |-> IF x = c THEN [Free EXCEPT !.pc = "token", !.start = s] ELSE Free]
  /\ email = [e \in Emails |-> "none"]

Seen == [task |-> booking.task # "none", messages |-> booking.messages]

Upcoming == booking.status = "confirmed"

Enter(x, pc, kind, start) ==
  /\ caller[x].pc = "idle"
  /\ caller' = [caller EXCEPT ![x] = [pc |-> pc, kind |-> kind, start |-> start,
                                      seen |-> IF pc \in {"move", "cancel"} THEN Seen ELSE Nothing]]
  /\ UNCHANGED <<hour, booking, email, deaths, hurried>>

Step(x, from, to) == caller[x].pc = from /\ caller' = [caller EXCEPT ![x].pc = to]
Leave(x) == caller' = [caller EXCEPT ![x] = Free]

-----------------------------------------------------------------------------
(* The rest of book(): the hash of the person's link, the task, the email. *)
StoreToken(x) ==
  /\ Step(x, "token", "task")
  /\ booking' = [booking EXCEPT !.token = TRUE]
  /\ UNCHANGED <<hour, email, deaths, hurried>>

PrepTask(x) ==
  /\ Step(x, "task", "mail")
  /\ booking' = [booking EXCEPT !.task = "todo"]
  /\ UNCHANGED <<hour, email, deaths, hurried>>

(* queue_person_message(): an email is known by its kind and start, and one *)
(* that was made before stays what it has become.                           *)
Draft(e) == [email EXCEPT ![e] = IF @ = "none" THEN "pending_approval" ELSE @]

AfterMail(x) == IF caller[x].kind = "cancelled"
                THEN caller' = [caller EXCEPT ![x].pc = "untask"] ELSE Leave(x)

QueueMail(x) ==
  /\ caller[x].pc = "mail" /\ caller[x].kind \in Mailed
  /\ email' = Draft(<<caller[x].kind, caller[x].start>>)
  /\ booking' = [booking EXCEPT !.messages[caller[x].kind] = caller[x].start]
  /\ AfterMail(x)
  /\ UNCHANGED <<hour, deaths, hurried>>

(* The page sends none, the person left no address, or the agent wants none. *)
NoMail(x) ==
  /\ caller[x].pc = "mail"
  /\ AfterMail(x)
  /\ UNCHANGED <<hour, booking, email, deaths, hurried>>

UnsentMail == {"pending_approval", "approved"}
Refused(emails) ==
  email' = [e \in Emails |-> IF e \in emails /\ email[e] \in UnsentMail THEN "blocked" ELSE email[e]]

(* supersede_messages(): the emails the call read of. *)
SeenMail(x) == {<<k, caller[x].seen.messages[k]>> : k \in Mailed}

Supersede(x) ==
  /\ Step(x, "supersede", "mail")
  /\ Refused(SeenMail(x))
  /\ UNCHANGED <<hour, booking, deaths, hurried>>

-----------------------------------------------------------------------------
(* reschedule() *)
AskMove(x, s) == Upcoming /\ s > hour /\ s # booking.start /\ Enter(x, "move", "rescheduled", s)

(* A move starts the reminders again. *)
Reminders(claimed) == FALSE

(* The move asserts that the appointment is active, not what else it was. *)
Move(x) ==
  /\ caller[x].pc = "move"
  /\ IF Upcoming
     THEN /\ booking' = [booking EXCEPT !.start = caller[x].start, !.claimed = Reminders(@)]
          /\ Step(x, "move", "reread")
     ELSE Leave(x) /\ UNCHANGED booking
  /\ UNCHANGED <<hour, email, deaths, hurried>>

(* The change made, the appointment is read again: a change in between shows. *)
ReRead(x) ==
  /\ caller[x].pc = "reread"
  /\ caller' = [caller EXCEPT ![x].pc = "supersede", ![x].start = booking.start]
  /\ UNCHANGED <<hour, booking, email, deaths, hurried>>

(* cancel(), by the person or an agent. *)
CancelBegin(x) == Upcoming /\ Enter(x, "cancel", "cancelled", booking.start)

CancelAppointment(x) ==
  /\ caller[x].pc = "cancel"
  /\ IF Upcoming
     THEN /\ booking' = [booking EXCEPT !.status = "cancelled"]
          /\ Step(x, "cancel", "reread")
          /\ hurried' = (hurried \/ ~caller[x].seen.task)
     ELSE Leave(x) /\ UNCHANGED <<booking, hurried>>
  /\ UNCHANGED <<hour, email, deaths>>

(* The task the call read of is cancelled with the booking. *)
CancelTask(x) ==
  /\ caller[x].pc = "untask"
  /\ booking' = [booking EXCEPT !.task = IF caller[x].seen.task THEN "cancelled" ELSE @]
  /\ Leave(x)
  /\ UNCHANGED <<hour, email, deaths, hurried>>

(* record_outcome(): what it read is not asserted when it writes. *)
AskOutcome(x) ==
  /\ booking.status # "cancelled" /\ booking.start <= hour
  /\ Enter(x, "outcome", "confirmation", 0)

SaveOutcome(x) ==
  /\ caller[x].pc = "outcome"
  /\ \E s \in {"completed", "no_show"} : booking' = [booking EXCEPT !.status = s]
  /\ Leave(x)
  /\ UNCHANGED <<hour, email, deaths, hurried>>

-----------------------------------------------------------------------------
(* send_due_reminders(): a row as the sweep read it; the claim asserts the  *)
(* start it read.  A booking made after the reminder's time is skipped.     *)
RemindBegin(x) ==
  /\ Upcoming /\ booking.start > hour /\ hour >= booking.start - ReminderLead
  /\ Enter(x, "claim", "reminder", booking.start)

MayRemindByRow(x) == Upcoming /\ ~booking.claimed  \* mutant: whatever the start is now

MayRemind(x) == Upcoming /\ ~booking.claimed /\ booking.start = caller[x].start

ClaimReminder(x) ==
  /\ caller[x].pc = "claim"
  /\ IF MayRemind(x)
     THEN /\ booking' = [booking EXCEPT !.claimed = TRUE]
          /\ Step(x, "claim", "mail") \/ Leave(x)
     ELSE Leave(x) /\ UNCHANGED booking
  /\ UNCHANGED <<hour, email, deaths, hurried>>

(* An admin's verdict on an email's words; an approval that lapses is one. *)
DecideMail(e, verdict) ==
  /\ email[e] = "pending_approval"
  /\ email' = [email EXCEPT ![e] = verdict]
  /\ UNCHANGED <<hour, booking, caller, deaths, hurried>>

(* deliver_approved(): an email about what no longer stands is refused. *)
NoLongerTrue(e) ==
  \/ booking.start # e[2]
  \/ e[1] # "cancelled" /\ (~Upcoming \/ booking.start <= hour)

DeliverBegin(x, e) ==
  /\ email[e] = "approved"
  /\ Enter(x, IF NoLongerTrue(e) THEN "refuse" ELSE "send", e[1], e[2])

InHand(x) == <<caller[x].kind, caller[x].start>>

Deliver(x) ==
  /\ \/ caller[x].pc = "refuse" /\ Refused({InHand(x)})
     \/ caller[x].pc = "send" /\ email' = [email EXCEPT ![InHand(x)] = IF @ = "approved" THEN "sent" ELSE @]
  /\ Leave(x)
  /\ UNCHANGED <<hour, booking, deaths, hurried>>

(* The send button of the operations page asks nothing of the appointment. *)
SendByHand(e) ==
  /\ email[e] = "approved"
  /\ email' = [email EXCEPT ![e] = "sent"]
  /\ UNCHANGED <<hour, booking, caller, deaths, hurried>>

-----------------------------------------------------------------------------
HourPasses ==
  /\ hour < LastHour
  /\ hour' = hour + 1
  /\ UNCHANGED <<booking, email, caller, deaths, hurried>>

Die(x) ==
  /\ caller[x].pc # "idle" /\ deaths < MaxDeaths
  /\ deaths' = deaths + 1
  /\ Leave(x)
  /\ UNCHANGED <<hour, booking, email, hurried>>

Proceed(x) ==
  \/ StoreToken(x) \/ PrepTask(x) \/ QueueMail(x) \/ NoMail(x) \/ Supersede(x) \/ Move(x) \/ ReRead(x)
  \/ CancelAppointment(x) \/ CancelTask(x) \/ SaveOutcome(x) \/ ClaimReminder(x) \/ Deliver(x)

AppointmentNext ==
  \/ HourPasses
  \/ \E x \in Callers : \/ Proceed(x) \/ Die(x)
                        \/ \E s \in Starts : AskMove(x, s)
                        \/ CancelBegin(x) \/ AskOutcome(x) \/ RemindBegin(x)
                        \/ \E e \in Emails : DeliverBegin(x, e)
  \/ \E e \in Emails : SendByHand(e) \/ \E verdict \in {"approved", "blocked"} : DecideMail(e, verdict)

AppointmentSpec == AppointmentInit /\ [][AppointmentNext]_appointmentVars

-----------------------------------------------------------------------------
(***************************************************************************)
(* A reminder is claimed for the time it is about: a sweep that read the   *)
(* row before the booking moved cannot use up the reminder of the new time *)
(* (send_due_reminders, reschedule).                                       *)
(***************************************************************************)
ClaimedIsDue == booking.claimed => hour >= booking.start - ReminderLead

(***************************************************************************)
(* When every call is over and none died, a cancelled booking leaves no    *)
(* preparation task behind, unless it was cancelled while the call that    *)
(* made it had still to make the task (cancel, _prep_task).                *)
(***************************************************************************)
TaskGoesWithBooking ==
  (\A x \in Callers : caller[x].pc = "idle") /\ deaths = 0 /\ ~hurried /\ booking.status = "cancelled"
    => booking.task # "todo"

(***************************************************************************)
(* What an appointment promises of its reminder and its task.              *)
(***************************************************************************)
AppointmentHolds == AppointmentTypeOK /\ ClaimedIsDue /\ TaskGoesWithBooking
=============================================================================
