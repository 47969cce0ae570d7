------------------------------ MODULE Booking ------------------------------
(***************************************************************************)
(* backend/booking.py: appointments booked online, moved, cancelled and    *)
(* given an outcome, under a lock per host that expires.  Each write of a  *)
(* call is a step.  What a call does to its own appointment besides        *)
(* placing it is Appointment's, what it tells the lead pipeline LeadIntake's. *)
(*                                                                         *)
(* Bounds: Appointments, and the times up to LastTime.                     *)
(***************************************************************************)
EXTENDS SlotMath, FiniteSets

CONSTANTS Hosts, Keys, Calls,
          MaxAppointments, LastTime,
          Rule,        \* the page's duration, buffers and interval
          Notice,
          Hours, Midnight, Utc,  \* each host's hours by day, in wall-clock time
          NoHost, NoKey, NoCall

Appointments == 1..MaxAppointments
Times == 0..LastTime

ASSUME BookingAssumption ==
  /\ MaxAppointments \in Nat /\ LastTime \in Nat /\ Notice \in Nat
  /\ Rule \in [duration : Nat \ {0}, before : Nat, after : Nat, interval : Nat \ {0}]
  /\ NoHost \notin Hosts /\ NoKey \notin Keys /\ NoCall \notin Calls

VARIABLES
  now,
  appt,       \* appointments
  lock,       \* booking_locks: a host's holder and whether it has expired
  call,
  unlocked    \* history: appointments placed by a call whose lock had expired

bookingVars == <<now, appt, lock, call, unlocked>>

ACTIVE_STATUSES == {"confirmed"}
CANCELLED_STATUSES == {"cancelled"}
OUTCOMES == {"outcome"}  \* completed or no_show
Statuses == {"absent"} \cup ACTIVE_STATUSES \cup CANCELLED_STATUSES \cup OUTCOMES

NoAppointment == [status |-> "absent", host |-> NoHost, start |-> 0, key |-> NoKey]
AppointmentType == [status : Statuses, host : Hosts \cup {NoHost}, start : Times,
                    key : Keys \cup {NoKey}]

(* todo: the hosts still to be tried.                                       *)
Idle == [pc |-> "idle", op |-> "none", a |-> 0, s |-> 0, k |-> NoKey, h |-> NoHost, todo |-> {}]

CallType == [pc : {"idle", "lock", "check", "write", "unlock", "outcome"},
             op : {"none", "book", "move", "outcome"},
             a : Appointments \cup {0}, s : Times, k : Keys \cup {NoKey},
             h : Hosts \cup {NoHost}, todo : SUBSET Hosts]

BookingTypeOK ==
  /\ now \in Times
  /\ appt \in [Appointments -> AppointmentType]
  /\ lock \in [Hosts -> [holder : Calls \cup {NoCall}, expired : BOOLEAN]]
  /\ call \in [Calls -> CallType]
  /\ unlocked \subseteq Appointments

BookingInit ==
  /\ now = 0
  /\ appt = [a \in Appointments |-> NoAppointment]
  /\ lock = [h \in Hosts |-> [holder |-> NoCall, expired |-> FALSE]]
  /\ call = [x \in Calls |-> Idle]
  /\ unlocked = {}

-----------------------------------------------------------------------------
At(x, pc)   == call[x].pc = pc
Goto(x, pc) == call' = [call EXCEPT ![x].pc = pc]
Return(x)   == call' = [call EXCEPT ![x] = Idle]
Active(a)   == appt[a].status \in ACTIVE_STATUSES

(* busy_for(): every appointment of the host that is not cancelled, one to  *)
(* be ignored apart.                                                        *)
Busy(h, ignore) ==
  {Commitment(appt[b].start, Rule) :
     b \in {c \in Appointments \ ignore : /\ appt[c].host = h
                                          /\ appt[c].status \notin {"absent"} \cup CANCELLED_STATUSES}}

TakenAtStart(h, s, ignore) ==  \* mutant: compares the starts alone
  \E b \in Appointments \ ignore : Active(b) /\ appt[b].host = h /\ appt[b].start = s

Taken(h, s, ignore) == Conflicts(Commitment(s, Rule), Busy(h, ignore))

(* compute_slots(): the hosts free at s, in their hours. *)
Offered(s, ignore, notice) ==
  {h \in Hosts : s \in AvailableStarts(HostWindows(Hours[h], Midnight, Utc), Busy(h, ignore),
                                       Rule, now + notice, LastTime + 1)}

(* The appointment a key has booked. *)
BookedBy(k) == {a \in Appointments : appt[a].key = k /\ k # NoKey}

(* book(): a key, if there is one, that has booked is answered with its booking. *)
BookBegin(x, s, k) ==
  /\ call[x] = Idle
  /\ BookedBy(k) = {} /\ Offered(s, {}, Notice) # {}
  /\ call' = [call EXCEPT ![x] = [Idle EXCEPT !.pc = "lock", !.op = "book", !.s = s, !.k = k,
                                              !.todo = Offered(s, {}, Notice)]]
  /\ UNCHANGED <<now, appt, lock, unlocked>>

(* reschedule(), by the person or an agent, who need not keep the notice;   *)
(* outside the hours the host stays and only the calendar decides.          *)
MoveHosts(a, s) ==
  {Offered(s, {a}, n) : n \in {Notice, 0}} \cup (IF s > now THEN {{appt[a].host}} ELSE {})

MoveBegin(x, a, s) ==
  /\ call[x] = Idle /\ Active(a)
  /\ \E hosts \in MoveHosts(a, s) \ {{}} :
       call' = [call EXCEPT ![x] = [Idle EXCEPT !.pc = "lock", !.op = "move", !.a = a, !.s = s,
                                                !.todo = hosts]]
  /\ UNCHANGED <<now, appt, lock, unlocked>>

(***************************************************************************)
(* _reserve() and host_lock(): host by host, take the lock, or take it     *)
(* over once it has expired; read the calendar again; write.               *)
(***************************************************************************)
Lock(x) ==
  /\ At(x, "lock")
  /\ \E h \in call[x].todo :
       /\ lock[h].holder = NoCall \/ lock[h].expired
       /\ lock' = [lock EXCEPT ![h] = [holder |-> x, expired |-> FALSE]]
       /\ call' = [call EXCEPT ![x].pc = "check", ![x].h = h, ![x].todo = @ \ {h}]
  /\ UNCHANGED <<now, appt, unlocked>>

(* The lock was waited for too long. *)
GiveUp(x) ==
  /\ At(x, "lock")
  /\ Return(x)
  /\ UNCHANGED <<now, appt, lock, unlocked>>

Holds(x, h) == lock[h].holder = x

(* The lock's token is the caller's, so a lock taken over is left alone. *)
Unlock(x) == lock' = IF Holds(x, call[x].h)
                     THEN [lock EXCEPT ![call[x].h] = [holder |-> NoCall, expired |-> FALSE]]
                     ELSE lock

Moving(x) == IF call[x].op = "move" THEN {call[x].a} ELSE {}

CheckFree(x) ==
  /\ At(x, "check")
  /\ ~Taken(call[x].h, call[x].s, Moving(x))
  /\ Goto(x, "write")
  /\ UNCHANGED <<now, appt, lock, unlocked>>

TryNext(x) == IF call[x].todo = {} THEN Return(x)
              ELSE call' = [call EXCEPT ![x].pc = "lock", ![x].h = NoHost]

CheckTaken(x) ==
  /\ At(x, "check")
  /\ Taken(call[x].h, call[x].s, Moving(x))
  /\ Unlock(x)
  /\ TryNext(x)
  /\ UNCHANGED <<now, appt, unlocked>>

(* The unique index on slot_claim, which bookings hold while active. *)
Claimed(h, s, ignore) ==
  \E b \in Appointments \ ignore : Active(b) /\ appt[b].host = h /\ appt[b].start = s

Place(x, a) ==
  unlocked' = IF Holds(x, call[x].h) THEN unlocked \ {a} ELSE unlocked \cup {a}

Unused == {a \in Appointments : appt[a].status = "absent"}

WriteBooking(x) ==
  /\ At(x, "write") /\ call[x].op = "book"
  /\ ~Claimed(call[x].h, call[x].s, {}) /\ BookedBy(call[x].k) = {}
  /\ \E a \in Unused :
       /\ \A b \in Unused : a <= b
       /\ appt' = [appt EXCEPT ![a] = [NoAppointment EXCEPT
                     !.status = "confirmed", !.host = call[x].h, !.start = call[x].s,
                     !.key = call[x].k]]
       /\ Place(x, a)
       /\ call' = [call EXCEPT ![x].pc = "unlock", ![x].a = a]
  /\ UNCHANGED <<now, lock>>

(* The move asserts that the appointment is active, not what else it was. *)
WriteMove(x) ==
  /\ At(x, "write") /\ call[x].op = "move" /\ Active(call[x].a)
  /\ ~Claimed(call[x].h, call[x].s, {call[x].a})
  /\ appt' = [appt EXCEPT ![call[x].a].host = call[x].h, ![call[x].a].start = call[x].s]
  /\ Place(x, call[x].a)
  /\ Goto(x, "unlock")
  /\ UNCHANGED <<now, lock>>

(* An index refuses: the next host.  The appointment left: no booking. *)
WriteRefused(x) ==
  /\ At(x, "write")
  /\ \/ /\ Claimed(call[x].h, call[x].s, Moving(x)) \/ BookedBy(call[x].k) # {}
        /\ Moving(x) # {} => Active(call[x].a)
        /\ TryNext(x)
     \/ /\ call[x].op = "move" /\ ~Active(call[x].a)
        /\ Return(x)
  /\ Unlock(x)
  /\ UNCHANGED <<now, appt, unlocked>>

Release(x) ==
  /\ At(x, "unlock")
  /\ Unlock(x)
  /\ Return(x)
  /\ UNCHANGED <<now, appt, unlocked>>

-----------------------------------------------------------------------------
(* cancel() asserts that the appointment is active. *)
Cancel(a) ==
  /\ Active(a)
  /\ appt' = [appt EXCEPT ![a].status = "cancelled"]
  /\ UNCHANGED <<now, lock, call, unlocked>>

(* record_outcome(): what it read is not asserted when it writes. *)
OutcomeBegin(x, a) ==
  /\ call[x] = Idle
  /\ appt[a].status \notin {"absent"} \cup CANCELLED_STATUSES /\ appt[a].start <= now
  /\ call' = [call EXCEPT ![x] = [Idle EXCEPT !.pc = "outcome", !.op = "outcome", !.a = a]]
  /\ UNCHANGED <<now, appt, lock, unlocked>>

RecordOutcome(x) ==
  /\ At(x, "outcome")
  /\ \E o \in OUTCOMES : appt' = [appt EXCEPT ![call[x].a].status = o]
  /\ Return(x)
  /\ UNCHANGED <<now, lock, unlocked>>

-----------------------------------------------------------------------------
TimePasses ==
  /\ now < LastTime
  /\ now' = now + 1
  /\ UNCHANGED <<appt, lock, call, unlocked>>

LockExpires(h) ==
  /\ lock[h].holder # NoCall /\ ~lock[h].expired
  /\ lock' = [lock EXCEPT ![h].expired = TRUE]
  /\ UNCHANGED <<now, appt, call, unlocked>>

(* A call dies; a lock it holds is there until it expires. *)
Crash(x) ==
  /\ call[x] # Idle
  /\ Return(x)
  /\ UNCHANGED <<now, appt, lock, unlocked>>

Reserve(x) == \/ Lock(x) \/ CheckFree(x) \/ CheckTaken(x) \/ WriteBooking(x) \/ WriteMove(x)
              \/ WriteRefused(x) \/ Release(x)
BookingNext ==
  \/ TimePasses
  \/ \E x \in Calls :
       \/ \E s \in Times, k \in Keys \cup {NoKey} : BookBegin(x, s, k)
       \/ \E a \in Appointments : OutcomeBegin(x, a) \/ \E s \in Times : MoveBegin(x, a, s)
       \/ GiveUp(x) \/ Reserve(x) \/ RecordOutcome(x) \/ Crash(x)
  \/ \E a \in Appointments : Cancel(a)
  \/ \E h \in Hosts : LockExpires(h)

BookingSpec == BookingInit /\ [][BookingNext]_bookingVars

-----------------------------------------------------------------------------
Overlap(a, b) == /\ a # b /\ Active(a) /\ Active(b) /\ appt[a].host = appt[b].host
                 /\ Meets(Commitment(appt[a].start, Rule), Commitment(appt[b].start, Rule))

(***************************************************************************)
(* Two active bookings of a host collide only if a call wrote after its    *)
(* lock had expired and been taken over, with a start the claim's index    *)
(* lets pass (host_lock, _reserve).                                        *)
(***************************************************************************)
OverlapWasUnlocked ==
  \A a, b \in Appointments :
    Overlap(a, b) => /\ a \in unlocked \/ b \in unlocked
                     /\ appt[a].start # appt[b].start

(***************************************************************************)
(* What bookings promise: well-formed, and never over one another unless   *)
(* a lock had run out.                                                     *)
(***************************************************************************)
BookingHolds == BookingTypeOK /\ OverlapWasUnlocked
=============================================================================
