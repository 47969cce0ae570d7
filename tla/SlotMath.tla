------------------------------ MODULE SlotMath ------------------------------
(***************************************************************************)
(* The slot arithmetic of backend/booking.py, in whole units of time.  A   *)
(* commitment is a meeting with the time kept free before and after it.    *)
(***************************************************************************)
EXTENDS Integers

(* One commitment against another, as conflicts() compares them: the padded *)
(* window of one over the meeting of the other.                             *)
Meets(x, y) ==
  \/ x.start - x.before < y.end /\ x.end + x.after > y.start
  \/ x.start < y.end + y.after /\ x.end > y.start - y.before

Conflicts(x, busy) == \E y \in busy : Meets(x, y)

Commitment(s, rule) == [start |-> s, end |-> s + rule.duration,
                        before |-> rule.before, after |-> rule.after]

(* available_starts(): on a window's own grid, in it, free, in the range. *)
AvailableStarts(windows, busy, rule, lower, upper) ==
  {s \in lower..(upper - 1) :
     /\ \E w \in windows : /\ w.start <= s /\ s + rule.duration <= w.end
                           /\ (s - w.start) % rule.interval = 0
     /\ ~Conflicts(Commitment(s, rule), busy)}

(* host_windows(): each end of a day's hours becomes an instant by that     *)
(* day's offset, so hours that a clock change swallows are none.  hours[d]  *)
(* is what day d has, its own or the weekday's; utc[t] the instant of the   *)
(* wall-clock time t.                                                       *)
HostWindows(hours, midnight, utc) ==
  {w \in UNION {{[start |-> utc[midnight[d] + i.start], end |-> utc[midnight[d] + i.end]] :
                    i \in hours[d]} : d \in DOMAIN hours} : w.end > w.start}
=============================================================================
