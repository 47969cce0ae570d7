--------------------------- MODULE SchedulerProofs ---------------------------
(***************************************************************************)
(* What the lease promises, for any number of replicas, windows, external  *)
(* requests and faults.  Two facts carry the rest: an instance busy with   *)
(* the job whose claim has not run out under it holds a live lease, and    *)
(* in the window of the lease the starts, the runs that have not started   *)
(* and a deferral together never outnumber the attempts.                   *)
(***************************************************************************)
EXTENDS Scheduler, FiniteSetTheorems, TLAPS

Requested(w) == \E r \in Requests : entry[r].status # "none" /\ entry[r].window >= w

TaskOK(p) ==
  /\ ~At(p, "idle") => inst[p].window >= 1
  /\ Busy(p) => inst[p].window <= lease.window
  /\ Busy(p) /\ lease.holder = p => lease.window = inst[p].window /\ lease.state = "running"
  /\ Busy(p) /\ p \notin stalled => lease.holder = p /\ ~lease.expired
  /\ At(p, "settle") => inst[p].outcome \in Decided /\ inst[p].window \in served
  /\ At(p, "settle") /\ inst[p].outcome = "deferred" => Requested(inst[p].window)

LeaseOK ==
  /\ lease.window # 0 /\ lease.state # "running" => lease.window \in served
  /\ lease.state = "deferred" => lease.window # 0 /\ Requested(lease.window)

(* The runs that hold an attempt of window w and have not started the job.  *)
Unstarted(w) ==
  {p \in Instances : /\ inst[p].window = w
                     /\ At(p, "external") \/ (At(p, "settle") /\ inst[p].outcome = "deferred")}

Deferral == IF lease.state = "deferred" THEN 1 ELSE 0

CountOK ==
  /\ lease.window # 0 =>
       started[lease.window] + Cardinality(Unstarted(lease.window)) + Deferral <= lease.attempt
  /\ \A w \in Windows : w > lease.window => started[w] = 0

SchedInv ==
  /\ TypeOK
  /\ \A p \in Instances : TaskOK(p)
  /\ LeaseOK
  /\ \A r \in Requests : entry[r].window <= now
  /\ CacheIsHonest
  /\ CountOK

-----------------------------------------------------------------------------
(* The records a step writes are well typed. *)
LEMMA TaskWrites ==
  ASSUME NEW t \in TaskType
  PROVE  /\ \A s \in Stages : [t EXCEPT !.stage = s] \in TaskType
         /\ \A a \in Nat : [t EXCEPT !.stage = "external", !.attempt = a] \in TaskType
         /\ \A o \in Decided : [t EXCEPT !.stage = "settle", !.outcome = o] \in TaskType
         /\ \A w \in 0..MaxWindow : [t EXCEPT !.stage = "claim", !.window = w] \in TaskType
BY SchedulerAssumption DEF SchedulerAssumption, TaskType, Stages

LEMMA IdleIsATask == Idle \in TaskType
BY SchedulerAssumption DEF SchedulerAssumption, Idle, TaskType, Stages, Decided

LEMMA LeaseFields ==
  ASSUME NEW l \in LeaseType
  PROVE  /\ l.window \in 0..MaxWindow /\ l.attempt \in Nat /\ l.holder \in Instances \cup {Gone}
         /\ l.state \in Decided \cup {"running"} /\ l.expired \in BOOLEAN
BY DEF LeaseType

LEMMA LeaseWrites ==
  ASSUME NEW l \in LeaseType
  PROVE  /\ \A o \in Decided : [l EXCEPT !.state = o] \in LeaseType
         /\ \A e \in BOOLEAN : [l EXCEPT !.expired = e] \in LeaseType
         /\ \A h \in Instances \cup {Gone} : [l EXCEPT !.holder = h] \in LeaseType
BY DEF LeaseType

-----------------------------------------------------------------------------
(***************************************************************************)
(* The three conditional updates, by what they do: one matches and takes   *)
(* the lease of a window that is over or abandoned, or the task goes on.   *)
(***************************************************************************)
Claiming(p) == inst[p].stage \in {"claim", "takeover", "insert"}

Takes(p, a) ==
  /\ Claiming(p) /\ a \in Nat /\ TakeLease(p, a)
  /\ \/ /\ lease.window < inst[p].window /\ a = 1
        /\ lease.window = 0 \/ lease.state # "running" \/ lease.expired
     \/ /\ lease.window = inst[p].window /\ a = lease.attempt + 1
        /\ lease.state = "running" /\ lease.expired
  /\ UNCHANGED <<now, settled, entry, faults, started, served>>

MovesOn(p) ==
  /\ Claiming(p)
  /\ \E next \in {"takeover", "insert", "check"} : Goto(p, next)
  /\ UNCHANGED <<now, lease, settled, entry, faults, started, served, stalled>>

LEMMA Claims ==
  ASSUME TypeOK, NEW p \in Instances, TaskOK(p), ClaimWindow(p) \/ TakeOver(p) \/ InsertLease(p)
  PROVE  MovesOn(p) \/ \E a \in Nat : Takes(p, a)
<1>1. /\ lease.window \in 0..MaxWindow /\ lease.attempt \in Nat /\ inst[p].window \in 0..MaxWindow
      /\ MaxWindow \in Nat
  BY LeaseFields, SchedulerAssumption DEF TypeOK, TaskType, SchedulerAssumption
<1>2. CASE ClaimWindow(p)
  BY <1>1, <1>2 DEF ClaimWindow, TryLease, Claiming, Takes, MovesOn, At
<1>3. CASE TakeOver(p)
  BY <1>1, <1>3 DEF TakeOver, Abandoned, TryLease, Claiming, Takes, MovesOn, At
<1>4. CASE InsertLease(p)
  <2>1. inst[p].window >= 1
    BY <1>4 DEF TaskOK, InsertLease, TryLease, At
  <2> QED
    BY <1>1, <1>4, <2>1 DEF InsertLease, TryLease, Claiming, Takes, MovesOn, At
<1> QED
  BY <1>2, <1>3, <1>4

(* Next, with the claims read that way.                                     *)
LEMMA Steps ==
  ASSUME SchedInv, [Next]_vars
  PROVE  \/ \E p \in Instances :
              \/ Tick(p) \/ MovesOn(p) \/ CheckSettled(p) \/ Defer(p) \/ StartJob(p) \/ Settle(p)
              \/ (\E a \in Nat : Takes(p, a)) \/ (\E outcome \in {"done", "failed"} : EndJob(p, outcome))
              \/ Heartbeat(p) \/ SettleFails(p) \/ CallFails(p) \/ Die(p) \/ Stop(p)
         \/ HolderStalls \/ LeaseExpires \/ NextWindow
         \/ (\E r \in Requests : RequestNext(r)) \/ UNCHANGED vars
BY Claims DEF SchedInv, Next, Run

-----------------------------------------------------------------------------
LEMMA Types == ASSUME SchedInv, [Next]_vars PROVE TypeOK'
<1> SUFFICES ASSUME TypeOK, \A p \in Instances : TaskOK(p) PROVE TypeOK'
  BY DEF SchedInv
<1>0. \A p \in Instances : inst[p] \in TaskType /\ inst[p].window \in 0..MaxWindow
  BY DEF TypeOK, TaskType
<1>1. ASSUME NEW p \in Instances, Tick(p) PROVE TypeOK'
  <2>1. now \in 0..MaxWindow
    BY SchedulerAssumption DEF TypeOK, Windows, SchedulerAssumption
  <2>2. [Idle EXCEPT !.stage = "claim", !.window = now] \in TaskType
    BY <2>1, IdleIsATask, TaskWrites
  <2> QED
    BY <1>1, <2>2 DEF Tick, TypeOK
<1>2. ASSUME NEW p \in Instances, MovesOn(p) PROVE TypeOK'
  <2>1. \A next \in {"takeover", "insert", "check"} : [inst[p] EXCEPT !.stage = next] \in TaskType
    BY <1>0, TaskWrites DEF Stages
  <2> QED
    BY <1>2, <2>1 DEF MovesOn, Goto, TypeOK
<1>3. ASSUME NEW p \in Instances, NEW a \in Nat, Takes(p, a) PROVE TypeOK'
  <2>1. [inst[p] EXCEPT !.stage = "external", !.attempt = a] \in TaskType
    BY <1>0, TaskWrites
  <2>2. lease' \in LeaseType
    BY <1>0, <1>3 DEF Takes, TakeLease, LeaseType
  <2> QED
    BY <1>3, <2>1, <2>2 DEF Takes, TakeLease, TypeOK
<1>4. ASSUME NEW p \in Instances, CheckSettled(p) \/ SettleFails(p) \/ CallFails(p) PROVE TypeOK'
  BY <1>0, <1>4, IdleIsATask, SchedulerAssumption
     DEF CheckSettled, SettleFails, CallFails, Fault, Rest, TypeOK, SchedulerAssumption
<1>5. ASSUME NEW p \in Instances, Settle(p) PROVE TypeOK'
  <2>1. [lease EXCEPT !.state = inst[p].outcome] \in LeaseType
    BY <1>5, LeaseWrites DEF Settle, TaskOK, TypeOK
  <2> QED
    BY <1>0, <1>5, <2>1, IdleIsATask DEF Settle, Rest, TypeOK
<1>6. ASSUME NEW p \in Instances, StartJob(p) PROVE TypeOK'
  <2>1. [inst[p] EXCEPT !.stage = "running"] \in TaskType
    BY <1>0, TaskWrites DEF Stages
  <2>2. inst[p].window \in Windows
    BY <1>0, <1>6, SchedulerAssumption DEF StartJob, TaskOK, At, Windows, SchedulerAssumption
  <2> QED
    BY <1>6, <2>1, <2>2 DEF StartJob, Goto, TypeOK
<1>7. ASSUME NEW p \in Instances, NEW o \in Decided, inst' = [inst EXCEPT ![p].stage = "settle", ![p].outcome = o],
             served' = served \cup {inst[p].window}, ~At(p, "idle"), UNCHANGED <<now, lease, settled, entry, faults, started, stalled>>
      PROVE  TypeOK'
  <2>1. [inst[p] EXCEPT !.stage = "settle", !.outcome = o] \in TaskType
    BY <1>0, TaskWrites
  <2>2. inst[p].window \in Windows
    BY <1>0, <1>7, SchedulerAssumption DEF TaskOK, Windows, SchedulerAssumption
  <2> QED
    BY <1>7, <2>1, <2>2 DEF TypeOK
<1>8. ASSUME NEW p \in Instances, Heartbeat(p) PROVE TypeOK'
  BY <1>8, LeaseWrites DEF Heartbeat, TypeOK
<1>9. ASSUME NEW p \in Instances, Die(p) \/ Stop(p) PROVE TypeOK'
  <2>1. Disown(p) \in LeaseType /\ [Disown(p) EXCEPT !.expired = TRUE] \in LeaseType
    <3>1. Disown(p) \in LeaseType
      BY LeaseWrites, LeaseFields DEF TypeOK, Disown
    <3> QED
      BY <3>1, LeaseWrites
  <2>2. faults' \in 0..MaxFaults /\ 0 \in 0..MaxWindow
    BY <1>9, SchedulerAssumption DEF Die, Stop, Fault, TypeOK, SchedulerAssumption
  <2>3. inst' \in [Instances -> TaskType] /\ settled' \in [Instances -> 0..MaxWindow] /\ stalled' \subseteq Instances
    BY <1>9, <2>2, IdleIsATask DEF Die, Stop, Forget, Rest, TypeOK
  <2>4. lease' \in LeaseType
    BY <1>9, <2>1 DEF Die, Stop
  <2> QED
    BY <1>9, <2>2, <2>3, <2>4 DEF Die, Stop, TypeOK
<1>10. ASSUME HolderStalls \/ LeaseExpires \/ NextWindow PROVE TypeOK'
  <2>1. [lease EXCEPT !.expired = TRUE] \in LeaseType
    BY LeaseWrites DEF TypeOK
  <2>2. CASE HolderStalls
    <3>1. lease.holder \in Instances
      BY <2>2 DEF HolderStalls, Attended, HoldsLease
    <3> QED
      BY <2>1, <2>2, <3>1, SchedulerAssumption DEF HolderStalls, Fault, TypeOK, SchedulerAssumption
  <2>3. CASE LeaseExpires
    BY <2>1, <2>3 DEF LeaseExpires, TypeOK
  <2>4. CASE NextWindow
    BY <2>4, SchedulerAssumption DEF NextWindow, TypeOK, Windows, SchedulerAssumption
  <2> QED
    BY <1>10, <2>2, <2>3, <2>4
<1>11. ASSUME NEW r \in Requests, RequestNext(r) PROVE TypeOK'
  <2>1. PICK status \in {"accepted", "running", "succeeded", "failed"}, w \in {now, entry[r].window} : SetEntry(r, status, w)
    BY <1>11 DEF RequestNext, Deliver, MarkStarted, MarkFinished
  <2>2. w \in 0..MaxWindow
    BY SchedulerAssumption DEF TypeOK, EntryType, Windows, SchedulerAssumption
  <2>3. [status |-> status, window |-> w] \in EntryType
    BY <2>2 DEF EntryType
  <2> QED
    BY <2>1, <2>3 DEF SetEntry, TypeOK
<1>12. CASE UNCHANGED vars
  BY <1>12 DEF vars, TypeOK
<1>13. ASSUME NEW p \in Instances, Defer(p) PROVE TypeOK'
  BY <1>7, <1>13 DEF Defer, At, Decided
<1>14. ASSUME NEW p \in Instances, NEW outcome \in {"done", "failed"}, EndJob(p, outcome) PROVE TypeOK'
  BY <1>7, <1>14 DEF EndJob, At, Decided
<1> QED
  BY Steps, <1>1, <1>2, <1>3, <1>4, <1>5, <1>6, <1>8, <1>9, <1>10, <1>11, <1>12, <1>13, <1>14

-----------------------------------------------------------------------------
(* Requests are not withdrawn: a later entry of one is of a later window.   *)
LEMMA RequestsStay ==
  ASSUME SchedInv, [Next]_vars
  PROVE  /\ \A r \in Requests : entry'[r].window <= now'
         /\ \A w \in Nat : Requested(w) => Requested(w)'
<1>0. /\ now \in Nat /\ \A r \in Requests : entry[r].window \in Nat /\ entry[r].window <= now
  BY SchedulerAssumption DEF SchedInv, TypeOK, EntryType, Windows, SchedulerAssumption
<1>9. now' = now \/ now' = now + 1
  BY Steps DEF Tick, MovesOn, CheckSettled, Defer, StartJob, Takes, EndJob, Settle, Heartbeat, SettleFails,
     CallFails, Die, Stop, HolderStalls, LeaseExpires, NextWindow, RequestNext, Deliver, MarkStarted, MarkFinished,
     SetEntry, vars
<1>1. CASE entry' = entry
  BY <1>0, <1>9, <1>1 DEF Requested
<1>2. CASE \E r \in Requests : RequestNext(r)
  <2>1. PICK r \in Requests : RequestNext(r)
    BY <1>2
  <2>2. /\ entry'[r].status # "none" /\ entry'[r].window >= entry[r].window /\ entry'[r].window <= now
        /\ entry'[r].window \in Nat
    BY <1>0, <2>1 DEF RequestNext, Deliver, MarkStarted, MarkFinished, SetEntry, SchedInv, TypeOK
  <2>3. \A q \in Requests \ {r} : entry'[q] = entry[q]
    BY <2>1 DEF RequestNext, Deliver, MarkStarted, MarkFinished, SetEntry, SchedInv, TypeOK
  <2>4. \A q \in Requests : entry'[q].window <= now'
    BY <1>0, <1>9, <2>2, <2>3
  <2>5. ASSUME NEW w \in Nat, Requested(w) PROVE Requested(w)'
    BY <1>0, <2>2, <2>3, <2>5 DEF Requested
  <2> QED
    BY <2>4, <2>5
<1> QED
  BY <1>1, <1>2, Steps DEF Tick, MovesOn, CheckSettled, Defer, StartJob, Takes, EndJob, Settle, Heartbeat, SettleFails,
     CallFails, Die, Stop, HolderStalls, LeaseExpires, NextWindow, vars

-----------------------------------------------------------------------------
(* A task keeps what it was promised through a step of somebody else's that *)
(* neither takes the lease away from under it nor forgets a stall.          *)
LEMMA TaskKept ==
  ASSUME SchedInv, [Next]_vars, NEW p \in Instances, inst'[p] = inst[p],
         lease.window <= lease'.window, served \subseteq served', p \in stalled => p \in stalled',
         Busy(p) /\ lease'.holder = p => lease.holder = p /\ lease'.window = lease.window /\ lease'.state = lease.state,
         Busy(p) /\ lease.holder = p /\ ~lease.expired /\ p \notin stalled' => lease'.holder = p /\ ~lease'.expired
  PROVE  TaskOK(p)'
<1>1. inst[p].window \in Nat /\ lease.window \in Nat /\ lease'.window \in Nat
  BY Types, LeaseFields, SchedulerAssumption DEF SchedInv, TypeOK, TaskType, LeaseType, SchedulerAssumption
<1>2. TaskOK(p)
  BY DEF SchedInv
<1>3. Requested(inst[p].window) => Requested(inst[p].window)'
  BY <1>1, RequestsStay
<1> QED
  BY <1>1, <1>2, <1>3 DEF TaskOK, At, Busy, Requested

(* A task at rest or on its way to a claim has nothing to lose.             *)
LEMMA TaskAway ==
  ASSUME NEW p \in Instances, ~Busy(p)', ~At(p, "idle")' => inst'[p].window >= 1
  PROVE  TaskOK(p)'
BY DEF TaskOK, At, Busy

LEMMA Tasks == ASSUME SchedInv, [Next]_vars PROVE \A p \in Instances : TaskOK(p)'
<1> SUFFICES ASSUME NEW q \in Instances PROVE TaskOK(q)'
  OBVIOUS
<1>20. TypeOK /\ TypeOK' /\ TaskOK(q)
  BY Types DEF SchedInv
<1>0. /\ TypeOK /\ TypeOK' /\ TaskOK(q) /\ inst[q].window \in Nat /\ now >= 1
      /\ lease.window \in Nat /\ lease.window <= lease.window
  <2>1. inst[q].window \in 0..MaxWindow /\ lease.window \in 0..MaxWindow /\ now \in 1..MaxWindow
    BY <1>20 DEF TypeOK, TaskType, LeaseType, Windows
  <2> QED
    BY <1>20, <2>1, SchedulerAssumption DEF SchedulerAssumption
<1>1. ASSUME NEW p \in Instances, Tick(p) PROVE TaskOK(q)'
  <2>1. CASE p = q
    BY <1>0, <1>1, <2>1, TaskAway DEF Tick, TypeOK, Idle, Busy, At
  <2>2. CASE p # q
    <3>1. inst'[q] = inst[q]
      BY <1>0, <1>1, <2>2 DEF Tick, TypeOK
    <3> QED
      BY <1>0, <1>1, <3>1, TaskKept DEF Tick
  <2> QED
    BY <2>1, <2>2
<1>2. ASSUME NEW p \in Instances, MovesOn(p) PROVE TaskOK(q)'
  <2>1. CASE p = q
    <3>1. ~Busy(q)' /\ ~At(q, "idle") /\ inst'[q].window = inst[q].window
      BY <1>0, <1>2, <2>1 DEF MovesOn, Goto, TypeOK, Busy, At, Claiming, TaskType
    <3> QED
      BY <1>0, <3>1, TaskAway DEF TaskOK
  <2>2. CASE p # q
    <3>1. inst'[q] = inst[q]
      BY <1>0, <1>2, <2>2 DEF MovesOn, Goto, TypeOK
    <3> QED
      BY <1>0, <1>2, <3>1, TaskKept DEF MovesOn
  <2> QED
    BY <2>1, <2>2
<1>3. ASSUME NEW p \in Instances, NEW a \in Nat, Takes(p, a) PROVE TaskOK(q)'
  <2>0. /\ lease' = [window |-> inst[p].window, state |-> "running", holder |-> p, expired |-> FALSE, attempt |-> a]
        /\ inst[p].window \in Nat /\ lease.window <= inst[p].window
    BY <1>0, <1>3, SchedulerAssumption DEF Takes, TakeLease, TypeOK, TaskType, SchedulerAssumption
  <2>1. CASE p = q
    <3>1. /\ inst'[q].stage = "external" /\ inst'[q].window = inst[q].window /\ inst[q].window >= 1
          /\ q \notin stalled'
      BY <1>0, <1>3, <2>1 DEF Takes, TakeLease, TypeOK, TaskType, TaskOK, Claiming, At
    <3> QED
      BY <2>0, <2>1, <3>1 DEF TaskOK, Busy, At
  <2>2. CASE p # q
    <3>1. inst'[q] = inst[q] /\ (q \in stalled => q \in stalled')
      BY <1>0, <1>3, <2>2 DEF Takes, TakeLease, TypeOK
    <3>2. Busy(q) => inst[q].window >= 1 /\ inst[q].window <= lease.window
      BY <1>0 DEF TaskOK, Busy, At
    <3>3. ~(Busy(q) /\ lease.holder = q /\ ~lease.expired)
      BY <1>0, <1>3, <3>2 DEF Takes, TaskOK
    <3> QED
      BY <1>0, <1>3, <2>0, <2>2, <3>1, <3>3, TaskKept DEF Takes
  <2> QED
    BY <2>1, <2>2
<1>4. ASSUME NEW p \in Instances, CheckSettled(p) \/ SettleFails(p) \/ CallFails(p) PROVE TaskOK(q)'
  <2>1. CASE p = q
    BY <1>0, <1>4, <2>1, TaskAway DEF CheckSettled, SettleFails, CallFails, Rest, TypeOK, Idle, Busy, At
  <2>2. CASE p # q
    <3>1. inst'[q] = inst[q]
      BY <1>0, <1>4, <2>2 DEF CheckSettled, SettleFails, CallFails, Rest, TypeOK
    <3> QED
      BY <1>0, <1>4, <3>1, TaskKept DEF CheckSettled, SettleFails, CallFails
  <2> QED
    BY <2>1, <2>2
<1>5. ASSUME NEW p \in Instances, Settle(p) PROVE TaskOK(q)'
  <2>1. CASE p = q
    BY <1>0, <1>5, <2>1, TaskAway DEF Settle, Rest, TypeOK, Idle, Busy, At
  <2>2. CASE p # q
    <3>1. inst'[q] = inst[q]
      BY <1>0, <1>5, <2>2 DEF Settle, Rest, TypeOK
    <3>2. /\ lease'.window = lease.window /\ lease'.holder = lease.holder /\ lease'.expired = lease.expired
          /\ lease.holder = q => lease'.state = lease.state
      BY <1>0, <1>5, <2>2 DEF Settle, HoldsLease, TypeOK, LeaseType
    <3> QED
      BY <1>0, <1>5, <3>1, <3>2, TaskKept DEF Settle
  <2> QED
    BY <2>1, <2>2
<1>6. ASSUME NEW p \in Instances, StartJob(p) PROVE TaskOK(q)'
  <2>1. CASE p = q
    <3>1. /\ inst'[q].stage = "running" /\ inst'[q].window = inst[q].window /\ inst[q].window >= 1
          /\ Busy(q)
      BY <1>0, <1>6, <2>1 DEF StartJob, Goto, TypeOK, TaskType, TaskOK, At, Busy
    <3> QED
      BY <1>0, <1>6, <3>1 DEF TaskOK, Busy, At, StartJob
  <2>2. CASE p # q
    <3>1. inst'[q] = inst[q]
      BY <1>0, <1>6, <2>2 DEF StartJob, Goto, TypeOK
    <3> QED
      BY <1>0, <1>6, <3>1, TaskKept DEF StartJob
  <2> QED
    BY <2>1, <2>2
<1>7. ASSUME NEW p \in Instances, NEW o \in Decided, inst' = [inst EXCEPT ![p].stage = "settle", ![p].outcome = o],
             served' = served \cup {inst[p].window}, At(p, "external") \/ At(p, "running"),
             o = "deferred" => ExternalRunInWindow(inst[p].window),
             UNCHANGED <<now, lease, settled, entry, faults, started, stalled>>
      PROVE  TaskOK(q)'
  <2>1. CASE p = q
    <3>1. /\ inst'[q].stage = "settle" /\ inst'[q].window = inst[q].window /\ inst'[q].outcome = o
          /\ inst[q].window >= 1 /\ Busy(q)
      BY <1>0, <1>7, <2>1 DEF TypeOK, TaskType, TaskOK, At, Busy
    <3>2. o = "deferred" => Requested(inst[q].window)
      BY <1>7, <2>1 DEF ExternalRunInWindow, Requested
    <3>3. o = "deferred" => \E r \in Requests : entry'[r].status # "none" /\ entry'[r].window >= inst'[q].window
      BY <1>7, <3>1, <3>2 DEF Requested
    <3>4. inst'[q].window \in served' /\ inst'[q].outcome \in Decided
      BY <1>7, <2>1, <3>1
    <3>5. lease' = lease /\ stalled' = stalled
      BY <1>7
    <3> QED
      BY <1>0, <3>1, <3>3, <3>4, <3>5 DEF TaskOK, Busy, At, Requested
  <2>2. CASE p # q
    <3>1. inst'[q] = inst[q]
      BY <1>0, <1>7, <2>2 DEF TypeOK
    <3> QED
      BY <1>0, <1>7, <3>1, TaskKept
  <2> QED
    BY <2>1, <2>2
<1>8. ASSUME NEW p \in Instances, Defer(p) PROVE TaskOK(q)'
  BY <1>7, <1>8 DEF Defer, Decided
<1>9. ASSUME NEW p \in Instances, NEW outcome \in {"done", "failed"}, EndJob(p, outcome) PROVE TaskOK(q)'
  BY <1>7, <1>9 DEF EndJob, Decided
<1>10. ASSUME NEW p \in Instances, Heartbeat(p) PROVE TaskOK(q)'
  BY <1>0, <1>10, TaskKept DEF Heartbeat, TypeOK, LeaseType
<1>11. ASSUME NEW p \in Instances, Die(p) \/ Stop(p) PROVE TaskOK(q)'
  <2>1. CASE p = q
    BY <1>0, <1>11, <2>1, TaskAway DEF Die, Stop, Forget, Rest, TypeOK, Idle, Busy, At
  <2>2. CASE p # q
    <3>1. inst'[q] = inst[q] /\ (q \in stalled => q \in stalled')
      BY <1>0, <1>11, <2>2 DEF Die, Stop, Forget, Rest, TypeOK
    <3>2. /\ Disown(p).window = lease.window /\ Disown(p).state = lease.state /\ Disown(p).expired = lease.expired
          /\ Disown(p).holder = q <=> lease.holder = q
      BY <1>0, <2>2, SchedulerAssumption DEF Disown, TypeOK, LeaseType, SchedulerAssumption
    <3>3. CASE lease' = Disown(p)
      BY <1>0, <1>11, <3>1, <3>2, <3>3, TaskKept DEF Die, Stop
    <3>4. CASE HoldsLease(p) /\ lease' = [Disown(p) EXCEPT !.expired = TRUE]
      <4>1. lease'.window = lease.window /\ lease'.state = lease.state /\ lease'.holder = Disown(p).holder
        BY <1>0, <3>2, <3>4 DEF Disown, TypeOK, LeaseType
      <4>2. lease.holder # q /\ lease'.holder # q
        BY <2>2, <3>2, <3>4, <4>1 DEF HoldsLease
      <4> QED
        BY <1>0, <1>11, <3>1, <4>1, <4>2, TaskKept DEF Die, Stop
    <3> QED
      BY <1>11, <3>3, <3>4 DEF Die, Stop
  <2> QED
    BY <2>1, <2>2
<1>12. ASSUME HolderStalls \/ LeaseExpires PROVE TaskOK(q)'
  <2>1. /\ inst' = inst /\ served' = served /\ lease'.window = lease.window /\ lease'.state = lease.state
        /\ lease'.holder = lease.holder
    BY <1>0, <1>12 DEF HolderStalls, LeaseExpires, TypeOK, LeaseType
  <2>2. CASE HolderStalls
    BY <1>0, <2>1, <2>2, TaskKept DEF HolderStalls
  <2>3. CASE LeaseExpires
    <3>1. ~(Busy(q) /\ lease.holder = q /\ ~lease.expired)
      BY <1>0, <2>3 DEF LeaseExpires, Attended, HoldsLease, TaskOK
    <3> QED
      BY <1>0, <2>1, <2>3, <3>1, TaskKept DEF LeaseExpires
  <2> QED
    BY <1>12, <2>2, <2>3
<1>13. CASE NextWindow \/ (\E r \in Requests : RequestNext(r)) \/ UNCHANGED vars
  BY <1>0, <1>13, TaskKept DEF NextWindow, RequestNext, Deliver, MarkStarted, MarkFinished, SetEntry, vars
<1> QED
  BY Steps, <1>1, <1>2, <1>3, <1>4, <1>5, <1>6, <1>8, <1>9, <1>10, <1>11, <1>12, <1>13

-----------------------------------------------------------------------------
(* Only a claim moves the lease on, and only the end of the run that holds  *)
(* it decides its window.                                                   *)
LEMMA LeaseSteps ==
  ASSUME SchedInv, [Next]_vars
  PROVE  /\ served \subseteq served'
         /\ \/ \E p \in Instances, a \in Nat : Takes(p, a)
            \/ \E p \in Instances : /\ Settle(p) /\ HoldsLease(p)
                                     /\ lease' = [lease EXCEPT !.state = inst[p].outcome]
            \/ lease'.window = lease.window /\ lease'.state = lease.state /\ lease'.attempt = lease.attempt
<1>0. lease \in LeaseType
  BY DEF SchedInv, TypeOK
<1>1. served \subseteq served'
  BY Steps DEF Tick, MovesOn, CheckSettled, Defer, StartJob, Takes, EndJob, Settle, Heartbeat, SettleFails, CallFails,
     Die, Stop, HolderStalls, LeaseExpires, NextWindow, RequestNext, Deliver, MarkStarted, MarkFinished, SetEntry, vars
<1>2. ASSUME (\E p \in Instances : Heartbeat(p) \/ Die(p) \/ Stop(p)) \/ HolderStalls \/ LeaseExpires
      PROVE  lease'.window = lease.window /\ lease'.state = lease.state /\ lease'.attempt = lease.attempt
  <2>1. \A p \in Instances :
           /\ Disown(p).window = lease.window /\ Disown(p).state = lease.state /\ Disown(p).attempt = lease.attempt
           /\ Disown(p) \in LeaseType
    BY <1>0, LeaseFields, LeaseWrites DEF Disown, LeaseType
  <2>2. ASSUME NEW l \in LeaseType
        PROVE  LET m == [l EXCEPT !.expired = TRUE] IN m.window = l.window /\ m.state = l.state /\ m.attempt = l.attempt
    BY DEF LeaseType
  <2>3. LET m == [lease EXCEPT !.expired = FALSE]
        IN  m.window = lease.window /\ m.state = lease.state /\ m.attempt = lease.attempt
    BY <1>0 DEF LeaseType
  <2>4. CASE \E p \in Instances : Heartbeat(p)
    BY <2>3, <2>4 DEF Heartbeat
  <2>5. CASE \E p \in Instances : Die(p) \/ Stop(p)
    BY <2>1, <2>2, <2>5 DEF Die, Stop
  <2>6. CASE HolderStalls \/ LeaseExpires
    BY <1>0, <2>2, <2>6 DEF HolderStalls, LeaseExpires
  <2> QED
    BY <1>2, <2>4, <2>5, <2>6
<1> QED
  BY <1>1, <1>2, Steps DEF Tick, MovesOn, CheckSettled, Defer, StartJob, EndJob, Settle, SettleFails, CallFails,
     NextWindow, RequestNext, Deliver, MarkStarted, MarkFinished, SetEntry, vars

LEMMA Leases == ASSUME SchedInv, [Next]_vars PROVE LeaseOK'
<1>0. /\ LeaseOK /\ lease.window \in Nat /\ served \subseteq served'
      /\ \A w \in Nat : Requested(w) => Requested(w)'
  BY LeaseSteps, RequestsStay, SchedulerAssumption DEF SchedInv, TypeOK, LeaseType, SchedulerAssumption
<1>1. ASSUME NEW p \in Instances, NEW a \in Nat, Takes(p, a) PROVE LeaseOK'
  BY <1>1 DEF Takes, TakeLease, LeaseOK, Decided
<1>2. ASSUME NEW p \in Instances, Settle(p), HoldsLease(p), lease' = [lease EXCEPT !.state = inst[p].outcome]
      PROVE  LeaseOK'
  <2>1. /\ lease'.window = lease.window /\ lease'.state = inst[p].outcome
    BY <1>2 DEF SchedInv, TypeOK, LeaseType
  <2>2. /\ lease.window = inst[p].window /\ inst[p].window >= 1 /\ inst[p].window \in served
        /\ inst[p].outcome = "deferred" => Requested(inst[p].window)
    <3>1. TaskOK(p) /\ At(p, "settle") /\ HoldsLease(p)
      BY <1>2 DEF SchedInv, Settle
    <3> QED
      BY <3>1 DEF TaskOK, HoldsLease, At
  <2>3. /\ lease.window # 0
        /\ Requested(inst[p].window) => \E r \in Requests : entry'[r].status # "none" /\ entry'[r].window >= inst[p].window
    BY <1>0, <2>2 DEF Requested
  <2> QED
    BY <1>0, <2>1, <2>2, <2>3 DEF LeaseOK, Requested
<1>3. CASE lease'.window = lease.window /\ lease'.state = lease.state
  BY <1>0, <1>3 DEF LeaseOK, Requested
<1> QED
  BY <1>1, <1>2, <1>3, LeaseSteps

LEMMA Cache == ASSUME SchedInv, [Next]_vars PROVE CacheIsHonest'
<1> SUFFICES ASSUME NEW q \in Instances, settled'[q] # 0
             PROVE  lease'.window > settled'[q] \/ settled'[q] \in served'
  BY DEF CacheIsHonest
<1>0. /\ TypeOK /\ CacheIsHonest /\ LeaseOK /\ TaskOK(q) /\ lease.window \in Nat /\ lease'.window \in Nat
      /\ settled[q] \in Nat /\ inst[q].window \in Nat /\ lease.window <= lease'.window /\ served \subseteq served'
  <2>1. TypeOK /\ TypeOK' /\ CacheIsHonest /\ LeaseOK /\ TaskOK(q) /\ served \subseteq served'
    BY Types, LeaseSteps DEF SchedInv
  <2>2. /\ lease.window \in 0..MaxWindow /\ lease'.window \in 0..MaxWindow /\ settled[q] \in 0..MaxWindow
        /\ \A p \in Instances : inst[p].window \in 0..MaxWindow
    BY <2>1 DEF TypeOK, LeaseType, TaskType
  <2>3. ASSUME NEW p \in Instances, NEW a \in Nat, Takes(p, a) PROVE lease.window <= lease'.window
    BY <2>2, <2>3, SchedulerAssumption DEF Takes, TakeLease, SchedulerAssumption
  <2>4. ASSUME NEW o, lease' = [lease EXCEPT !.state = o] PROVE lease.window = lease'.window
    BY <2>1, <2>4 DEF TypeOK, LeaseType
  <2> QED
    BY <2>1, <2>2, <2>3, <2>4, LeaseSteps, SchedulerAssumption DEF SchedulerAssumption
<1>1. CASE settled'[q] = settled[q]
  BY <1>0, <1>1 DEF CacheIsHonest
<1>2. CASE /\ settled'[q] = inst[q].window
           /\ \/ At(q, "check") /\ WindowSettled(inst[q].window)
              \/ At(q, "settle")
  BY <1>0, <1>2 DEF WindowSettled, TaskOK, LeaseOK, At
<1>3. ASSUME NEW p \in Instances, CheckSettled(p) \/ Settle(p) \/ SettleFails(p)
      PROVE  lease'.window > settled'[q] \/ settled'[q] \in served'
  BY <1>0, <1>1, <1>2, <1>3 DEF CheckSettled, Settle, SettleFails, TypeOK
<1>4. ASSUME NEW p \in Instances, Die(p) \/ Stop(p)
      PROVE  settled'[q] = settled[q]
  BY <1>0, <1>4 DEF Die, Stop, Forget, TypeOK
<1> QED
  BY <1>1, <1>3, <1>4, Steps DEF Tick, MovesOn, Defer, StartJob, Takes, EndJob, Heartbeat, CallFails,
     HolderStalls, LeaseExpires, NextWindow, RequestNext, Deliver, MarkStarted, MarkFinished, SetEntry, vars

-----------------------------------------------------------------------------
(* Counting the runs that have an attempt and have not started the job.     *)
LEMMA UnstartedIsFinite ==
  ASSUME NEW w
  PROVE  /\ IsFiniteSet(Unstarted(w)) /\ Cardinality(Unstarted(w)) \in Nat
         /\ Unstarted(w) \subseteq Instances
<1>1. Unstarted(w) \subseteq Instances
  BY DEF Unstarted
<1> QED
  BY <1>1, SchedulerAssumption, FS_Subset, FS_CardinalityType DEF SchedulerAssumption

LEMMA NoMore ==
  ASSUME NEW w, NEW S, S \subseteq Unstarted(w)
  PROVE  Cardinality(S) <= Cardinality(Unstarted(w)) /\ Cardinality(S) \in Nat
BY UnstartedIsFinite, FS_Subset, FS_CardinalityType

LEMMA OneLess ==
  ASSUME NEW w, NEW p \in Unstarted(w), NEW S, S \subseteq Unstarted(w) \ {p}
  PROVE  Cardinality(S) <= Cardinality(Unstarted(w)) - 1 /\ Cardinality(S) \in Nat
<1>1. /\ IsFiniteSet(Unstarted(w) \ {p}) /\ Cardinality(Unstarted(w)) \in Nat
      /\ Cardinality(Unstarted(w) \ {p}) = Cardinality(Unstarted(w)) - 1
  BY UnstartedIsFinite, FS_RemoveElement
<1> QED
  BY <1>1, FS_Subset, FS_CardinalityType

LEMMA OneMore ==
  ASSUME NEW w, NEW p, NEW S, S \subseteq Unstarted(w) \cup {p}
  PROVE  Cardinality(S) <= Cardinality(Unstarted(w)) + 1 /\ Cardinality(S) \in Nat
<1>1. /\ IsFiniteSet(Unstarted(w) \cup {p}) /\ Cardinality(Unstarted(w)) \in Nat
      /\ Cardinality(Unstarted(w) \cup {p}) <= Cardinality(Unstarted(w)) + 1
  BY UnstartedIsFinite, FS_AddElement
<1> QED
  BY <1>1, FS_Subset, FS_CardinalityType

LEMMA Numbers ==
  ASSUME SchedInv, [Next]_vars
  PROVE  /\ lease.window \in Nat /\ lease'.window \in Nat /\ lease.attempt \in Nat /\ lease'.attempt \in Nat
         /\ Deferral \in {0, 1} /\ Deferral' \in {0, 1}
         /\ \A w \in Windows : w \in Nat /\ w # 0 /\ started[w] \in Nat /\ started'[w] \in Nat
         /\ lease.window # 0 => lease.window \in Windows
         /\ lease'.window # 0 => lease'.window \in Windows
         /\ \A p \in Instances : inst[p].window \in Nat /\ (Busy(p) => inst[p].window \in Windows)
<1>1. TypeOK /\ TypeOK' /\ \A p \in Instances : TaskOK(p)
  BY Types DEF SchedInv
<1>2. /\ lease.window \in 0..MaxWindow /\ lease'.window \in 0..MaxWindow
      /\ lease.attempt \in Nat /\ lease'.attempt \in Nat
      /\ started \in [Windows -> Nat] /\ started' \in [Windows -> Nat]
      /\ \A p \in Instances : inst[p].window \in 0..MaxWindow
  BY <1>1 DEF TypeOK, LeaseType, TaskType
<1>3. \A p \in Instances : Busy(p) => inst[p].window >= 1
  BY <1>1 DEF TaskOK, Busy, At
<1> QED
  BY <1>2, <1>3, SchedulerAssumption DEF SchedulerAssumption, Windows, Deferral

(* A step that leaves the lease's window, its attempt and its end as they   *)
(* are, starts nothing and gives nobody an attempt keeps the count.         *)
LEMMA CountKept ==
  ASSUME SchedInv, [Next]_vars, lease'.window = lease.window, lease'.attempt = lease.attempt, Deferral' = Deferral,
         started' = started, \A w \in Windows : Unstarted(w)' \subseteq Unstarted(w)
  PROVE  CountOK'
<1>1. CountOK
  BY DEF SchedInv
<1>2. \A w \in Windows : w > lease'.window => started'[w] = 0
  BY <1>1 DEF CountOK
<1>3. ASSUME lease.window # 0
      PROVE  started[lease.window] + Cardinality(Unstarted(lease.window)') + Deferral <= lease.attempt
  <2>1. /\ Cardinality(Unstarted(lease.window)') <= Cardinality(Unstarted(lease.window))
        /\ Cardinality(Unstarted(lease.window)') \in Nat /\ Cardinality(Unstarted(lease.window)) \in Nat
    BY <1>3, Numbers, NoMore, UnstartedIsFinite
  <2> QED
    BY <1>1, <1>3, <2>1, Numbers DEF CountOK
<1> QED
  BY <1>2, <1>3 DEF CountOK

(* Who is among the unstarted after a step of p's: the others as before.    *)
LEMMA OthersUnstarted ==
  ASSUME TypeOK, NEW p \in Instances, NEW t, inst' = [inst EXCEPT ![p] = t]
  PROVE  \A w \in Windows : Unstarted(w)' \subseteq Unstarted(w) \cup {p} /\ (p \notin Unstarted(w)' => Unstarted(w)' \subseteq Unstarted(w) \ {p})
BY DEF TypeOK, Unstarted, At

LEMMA Counts == ASSUME SchedInv, [Next]_vars PROVE CountOK'
<1>0. TypeOK /\ CountOK /\ \A p \in Instances : TaskOK(p)
  BY DEF SchedInv
<1>1. ASSUME NEW p \in Instances, NEW a \in Nat, Takes(p, a) PROVE CountOK'
  <2>0. PICK v : v = inst[p].window
    OBVIOUS
  <2>1. /\ lease'.window = v /\ lease'.attempt = a /\ Deferral' = 0 /\ started' = started
        /\ v \in Nat /\ lease.window <= v
    BY <1>1, <2>0, Numbers DEF Takes, TakeLease, Deferral
  <2>2. v \in Windows
    <3>1. v >= 1 /\ v \in 0..MaxWindow
      BY <1>0, <1>1, <2>0 DEF Takes, TaskOK, Claiming, At, TypeOK, TaskType
    <3> QED
      BY <3>1, SchedulerAssumption DEF Windows, SchedulerAssumption
  <2>3. \A w \in Windows : w > v => started'[w] = 0
    BY <1>0, <2>1, Numbers DEF CountOK
  <2>4. Unstarted(v)' \subseteq Unstarted(v) \cup {p}
    <3>1. inst' = [inst EXCEPT ![p] = [inst[p] EXCEPT !.stage = "external", !.attempt = a]]
      BY <1>0, <1>1 DEF Takes, TakeLease, TypeOK
    <3> QED
      BY <1>0, <2>2, <3>1, OthersUnstarted
  <2>5. CASE lease.window < v
    <3>1. Unstarted(v) = {} /\ started[v] = 0 /\ a = 1
      <4>1. \A q \in Instances : Busy(q) => inst[q].window # v
        BY <1>0, <2>1, <2>5, Numbers DEF TaskOK
      <4> QED
        BY <1>0, <1>1, <2>0, <2>2, <2>5, <4>1, Numbers DEF Unstarted, Busy, At, CountOK, Takes
    <3>2. Cardinality(Unstarted(v)) = 0
      BY <3>1, FS_EmptySet
    <3>3. Cardinality(Unstarted(v)') <= 1 /\ Cardinality(Unstarted(v)') \in Nat
      BY <2>4, <3>2, OneMore
    <3> QED
      BY <2>1, <2>2, <2>3, <3>1, <3>3, Numbers DEF CountOK
  <2>6. CASE lease.window = v
    <3>1. a = lease.attempt + 1 /\ Deferral = 0
      BY <1>1, <2>0, <2>6, Numbers DEF Takes, Deferral
    <3>2. Cardinality(Unstarted(v)') <= Cardinality(Unstarted(v)) + 1 /\ Cardinality(Unstarted(v)') \in Nat
      BY <2>4, OneMore
    <3>3. started[v] + Cardinality(Unstarted(v)) + 0 <= lease.attempt
      BY <1>0, <2>2, <2>6, <3>1, Numbers DEF CountOK
    <3> QED
      BY <2>1, <2>2, <2>3, <3>1, <3>2, <3>3, Numbers, UnstartedIsFinite DEF CountOK
  <2> QED
    BY <2>1, <2>5, <2>6, Numbers
<1>2. ASSUME NEW p \in Instances, Settle(p), HoldsLease(p), lease' = [lease EXCEPT !.state = inst[p].outcome]
      PROVE  CountOK'
  <2>0. PICK v : v = inst[p].window
    OBVIOUS
  <2>1. lease'.window = lease.window /\ lease'.attempt = lease.attempt /\ lease'.state = inst[p].outcome
    BY <1>0, <1>2 DEF TypeOK, LeaseType
  <2>2. lease.window = v /\ v \in Windows /\ started' = started /\ Deferral = 0
    BY <1>0, <1>2, <2>0, Numbers DEF HoldsLease, Settle, TaskOK, Busy, At, Deferral
  <2>3. inst' = [inst EXCEPT ![p] = Idle] /\ p \notin Unstarted(v)'
    BY <1>0, <1>2 DEF Settle, Rest, Unstarted, At, Idle, TypeOK
  <2>4. Unstarted(v)' \subseteq Unstarted(v) \ {p}
    BY <1>0, <2>2, <2>3, OthersUnstarted
  <2>5. started[v] + Cardinality(Unstarted(v)) <= lease.attempt /\ \A w \in Windows : w > lease.window => started[w] = 0
    BY <1>0, <2>2, Numbers, UnstartedIsFinite DEF CountOK
  <2>6. Cardinality(Unstarted(v)') + Deferral' <= Cardinality(Unstarted(v)) /\ Cardinality(Unstarted(v)') \in Nat
    <3>1. CASE inst[p].outcome = "deferred"
      <4>1. p \in Unstarted(v)
        BY <1>2, <2>0, <3>1 DEF Settle, Unstarted
      <4> QED
        BY <2>4, <4>1, OneLess, UnstartedIsFinite, Numbers
    <3>2. CASE inst[p].outcome # "deferred"
      <4>1. Deferral' = 0
        BY <2>1, <3>2 DEF Deferral
      <4>2. Cardinality(Unstarted(v)') <= Cardinality(Unstarted(v)) /\ Cardinality(Unstarted(v)') \in Nat
        BY <2>4, NoMore
      <4> QED
        BY <4>1, <4>2, UnstartedIsFinite
    <3> QED
      BY <3>1, <3>2
  <2> QED
    BY <2>1, <2>2, <2>5, <2>6, Numbers, UnstartedIsFinite DEF CountOK
<1>3. ASSUME NEW p \in Instances, StartJob(p) PROVE CountOK'
  <2>0. PICK v : v = inst[p].window
    OBVIOUS
  <2>1. /\ lease' = lease /\ started' = [started EXCEPT ![v] = @ + 1] /\ p \in Unstarted(v)
        /\ v \in Windows /\ v <= lease.window
    BY <1>0, <1>3, <2>0, Numbers DEF StartJob, Unstarted, Busy, At, TaskOK
  <2>2. inst' = [inst EXCEPT ![p] = [inst[p] EXCEPT !.stage = "running"]] /\ \A w \in Windows : p \notin Unstarted(w)'
    BY <1>0, <1>3 DEF StartJob, Goto, Unstarted, At, TypeOK, TaskType
  <2>3. \A w \in Windows : Unstarted(w)' \subseteq Unstarted(w) \ {p}
    BY <1>0, <2>2, OthersUnstarted
  <2>4. /\ \A w \in Windows \ {v} : started'[w] = started[w]
        /\ started'[v] = started[v] + 1 /\ Deferral' = Deferral
    BY <1>0, <2>1 DEF TypeOK, Deferral
  <2>5. \A w \in Windows : w > lease'.window => started'[w] = 0
    BY <1>0, <2>1, <2>4, Numbers DEF CountOK
  <2>6. CASE lease.window = v
    <3>1. Cardinality(Unstarted(v)') <= Cardinality(Unstarted(v)) - 1 /\ Cardinality(Unstarted(v)') \in Nat
      BY <2>1, <2>3, OneLess
    <3>2. started[v] + Cardinality(Unstarted(v)) + Deferral <= lease.attempt
      BY <1>0, <2>1, <2>6, Numbers DEF CountOK
    <3> QED
      BY <2>1, <2>4, <2>5, <2>6, <3>1, <3>2, Numbers, UnstartedIsFinite DEF CountOK
  <2>7. CASE lease.window # v
    <3>0. PICK u : u = lease.window
      OBVIOUS
    <3>1. u \in Windows /\ started'[u] = started[u]
      BY <2>1, <2>4, <2>7, <3>0, Numbers
    <3>2. Cardinality(Unstarted(u)') <= Cardinality(Unstarted(u)) /\ Cardinality(Unstarted(u)') \in Nat
      BY <2>1, <2>3, <3>1, NoMore
    <3>3. started[u] + Cardinality(Unstarted(u)) + Deferral <= lease.attempt
      BY <1>0, <3>0, <3>1, Numbers DEF CountOK
    <3> QED
      BY <2>1, <2>4, <2>5, <3>0, <3>1, <3>2, <3>3, Numbers, UnstartedIsFinite DEF CountOK
  <2> QED
    BY <2>6, <2>7
<1>4. ASSUME lease'.window = lease.window, lease'.state = lease.state, lease'.attempt = lease.attempt,
             started' = started, \A w \in Windows : Unstarted(w)' \subseteq Unstarted(w)
      PROVE  CountOK'
  BY <1>4, CountKept DEF Deferral
<1>5. ASSUME NEW p \in Instances, Tick(p) \/ CheckSettled(p) \/ Settle(p) \/ SettleFails(p) \/ CallFails(p) \/ Die(p) \/ Stop(p)
      PROVE  started' = started /\ \A w \in Windows : Unstarted(w)' \subseteq Unstarted(w)
  <2>1. started' = started
    BY <1>5 DEF Tick, CheckSettled, Settle, SettleFails, CallFails, Die, Stop
  <2>2. inst' = [inst EXCEPT ![p] = Idle] \/ inst' = [inst EXCEPT ![p] = [Idle EXCEPT !.stage = "claim", !.window = now]]
    BY <1>5 DEF Tick, CheckSettled, Settle, SettleFails, CallFails, Die, Stop, Forget, Rest
  <2>3. Idle.stage = "idle" /\ [Idle EXCEPT !.stage = "claim", !.window = now].stage = "claim"
    BY DEF Idle
  <2>4. PICK t : inst' = [inst EXCEPT ![p] = t] /\ t.stage \in {"idle", "claim"}
    BY <2>2, <2>3
  <2>5. ASSUME NEW w \in Windows PROVE Unstarted(w)' \subseteq Unstarted(w)
    BY <1>0, <2>4 DEF TypeOK, Unstarted, At
  <2> QED
    BY <2>1, <2>5
<1>6. ASSUME NEW p \in Instances, MovesOn(p) \/ Defer(p) \/ \E outcome \in {"done", "failed"} : EndJob(p, outcome)
      PROVE  started' = started /\ \A w \in Windows : Unstarted(w)' \subseteq Unstarted(w)
  <2>1. started' = started
    BY <1>6 DEF MovesOn, Defer, EndJob
  <2>2. \/ /\ At(p, "external") /\ inst' = [inst EXCEPT ![p].stage = "settle", ![p].outcome = "deferred"]
        \/ \E o \in {"done", "failed"} : inst' = [inst EXCEPT ![p].stage = "settle", ![p].outcome = o]
        \/ \E n \in {"takeover", "insert", "check"} : inst' = [inst EXCEPT ![p].stage = n]
    BY <1>6 DEF MovesOn, Goto, Defer, EndJob
  <2>3. ASSUME NEW w \in Windows PROVE Unstarted(w)' \subseteq Unstarted(w)
    BY <1>0, <2>2 DEF TypeOK, TaskType, Unstarted, At
  <2> QED
    BY <2>1, <2>3
<1>7. ASSUME inst' = inst PROVE \A w \in Windows : Unstarted(w)' \subseteq Unstarted(w)
  BY <1>7 DEF Unstarted, At
<1>8. ASSUME (\E p \in Instances : Heartbeat(p)) \/ HolderStalls \/ LeaseExpires \/ NextWindow
             \/ (\E r \in Requests : RequestNext(r)) \/ UNCHANGED vars
      PROVE  started' = started /\ \A w \in Windows : Unstarted(w)' \subseteq Unstarted(w)
  BY <1>7, <1>8 DEF Heartbeat, HolderStalls, LeaseExpires, NextWindow, RequestNext, Deliver, MarkStarted, MarkFinished, SetEntry, vars
<1> QED
  BY <1>1, <1>2, <1>3, <1>4, <1>5, <1>6, <1>8, Steps, LeaseSteps

-----------------------------------------------------------------------------
LEMMA Initially == Init => SchedInv
<1> SUFFICES ASSUME Init PROVE SchedInv
  OBVIOUS
<1>1. NoLease \in LeaseType /\ Idle \in TaskType
  BY SchedulerAssumption, IdleIsATask DEF SchedulerAssumption, NoLease, LeaseType, Decided
<1>2. entry \in [Requests -> EntryType]
  <2>1. [status |-> "none", window |-> 0] \in EntryType
    BY SchedulerAssumption DEF SchedulerAssumption, EntryType
  <2> QED
    BY <2>1 DEF Init
<1>3. TypeOK
  BY <1>1, <1>2, SchedulerAssumption DEF Init, TypeOK, SchedulerAssumption, Windows
<1>4. \A p \in Instances : TaskOK(p)
  BY DEF Init, TaskOK, At, Busy, Idle
<1>5. LeaseOK /\ CountOK
  BY SchedulerAssumption DEF Init, LeaseOK, CountOK, NoLease
<1>6. (\A r \in Requests : entry[r].window <= now) /\ CacheIsHonest
  BY DEF Init, CacheIsHonest
<1> QED
  BY <1>3, <1>4, <1>5, <1>6 DEF SchedInv

LEMMA InvStep == SchedInv /\ [Next]_vars => SchedInv'
<1> SUFFICES ASSUME SchedInv, [Next]_vars PROVE SchedInv'
  OBVIOUS
<1> QED
  BY Types, Tasks, Leases, RequestsStay, Cache, Counts DEF SchedInv

LEMMA Always == Spec => []SchedInv
BY Initially, InvStep, PTL DEF Spec

LEMMA InvHolds == SchedInv => SchedulerHolds
<1> SUFFICES ASSUME SchedInv PROVE SchedulerHolds
  OBVIOUS
<1>0. /\ TypeOK /\ LeaseOK /\ CountOK /\ CacheIsHonest /\ \A p \in Instances : TaskOK(p)
      /\ Deferral \in {0, 1}
  BY DEF SchedInv, Deferral
<1>1. OneRunAtATime
  BY <1>0 DEF OneRunAtATime, TaskOK
<1>2. /\ lease.window \in 0..MaxWindow /\ lease.attempt \in Nat /\ started \in [Windows -> Nat]
  BY <1>0 DEF TypeOK, LeaseType
<1>3. OneRunPerAttempt
  <2>1. ASSUME NEW w \in Windows, w = lease.window PROVE started[w] <= lease.attempt
    <3>1. w # 0 /\ Cardinality(Unstarted(w)) \in Nat /\ started[w] \in Nat
      BY <1>2, UnstartedIsFinite, SchedulerAssumption DEF Windows, SchedulerAssumption
    <3>2. started[w] + Cardinality(Unstarted(w)) + Deferral <= lease.attempt
      BY <1>0, <2>1, <3>1 DEF CountOK
    <3> QED
      BY <1>0, <1>2, <3>1, <3>2
  <2> QED
    BY <1>0, <2>1 DEF OneRunPerAttempt, CountOK
<1>4. DeferredHasRequest
  <2> SUFFICES ASSUME lease.state = "deferred"
               PROVE  Requested(lease.window) /\ (lease.attempt = 1 => started[lease.window] = 0)
    BY DEF DeferredHasRequest, Requested
  <2>1. PICK w : w = lease.window
    OBVIOUS
  <2>2. w # 0 /\ Requested(w) /\ w \in Windows /\ Deferral = 1
    BY <1>0, <1>2, <2>1, SchedulerAssumption DEF LeaseOK, Deferral, Windows, SchedulerAssumption
  <2>3. started[w] + Cardinality(Unstarted(w)) + 1 <= lease.attempt /\ started[w] \in Nat
    BY <1>0, <1>2, <2>1, <2>2 DEF CountOK
  <2> QED
    BY <1>2, <2>1, <2>2, <2>3, UnstartedIsFinite
<1> QED
  BY <1>0, <1>1, <1>3, <1>4 DEF SchedulerHolds

(***************************************************************************)
(* _acquire, _heartbeat, _settle and _release over any number of replicas, *)
(* windows and faults: no two run the job unless a lease ran out under     *)
(* one of them, a window starts no more often than it is claimed, nobody   *)
(* gives up an undecided window, and a deferral answers to a request.      *)
(***************************************************************************)
THEOREM LeaseKeepsOrder == Spec => []SchedulerHolds
BY Always, InvHolds, PTL

(* What a step may do to the lease.                                        *)
Forward ==
  \/ lease'.window > lease.window
  \/ /\ lease'.window = lease.window
     /\ lease'.attempt >= lease.attempt
     /\ lease.state \in Decided => lease'.state = lease.state
     /\ lease.state = "running" /\ lease'.state \in Decided
          => \E p \in Instances : lease.holder = p /\ Busy(p) /\ ~Busy(p)'

(***************************************************************************)
(* No step takes the lease back to an earlier window, gives an attempt     *)
(* back or rewrites how a window ended, and only the instance that holds   *)
(* it ends one.                                                            *)
(***************************************************************************)
THEOREM LeaseOnlyMovesForward == Spec => LeaseMovesForward
<1>1. SchedInv /\ SchedInv' /\ [Next]_vars => [Forward]_vars
  <2> SUFFICES ASSUME SchedInv, [Next]_vars PROVE Forward
    OBVIOUS
  <2>0. TypeOK /\ \A p \in Instances : TaskOK(p)
    BY DEF SchedInv
  <2>1. ASSUME NEW p \in Instances, NEW a \in Nat, Takes(p, a) PROVE Forward
    BY <2>1, Numbers DEF Takes, TakeLease, Forward, Decided
  <2>2. ASSUME NEW p \in Instances, Settle(p), HoldsLease(p), lease' = [lease EXCEPT !.state = inst[p].outcome]
        PROVE  Forward
    <3>1. lease'.window = lease.window /\ lease'.attempt = lease.attempt /\ lease.holder = p /\ lease.state = "running"
      BY <2>0, <2>2 DEF TypeOK, LeaseType, HoldsLease, Settle, TaskOK, Busy, At
    <3>2. Busy(p) /\ ~Busy(p)'
      BY <2>0, <2>2 DEF Settle, Rest, Idle, Busy, At, TypeOK
    <3> QED
      BY <3>1, <3>2, Numbers DEF Forward, Decided
  <2>3. CASE lease'.window = lease.window /\ lease'.state = lease.state /\ lease'.attempt = lease.attempt
    BY <2>3, Numbers DEF Forward, Decided
  <2> QED
    BY <2>1, <2>2, <2>3, LeaseSteps
<1> QED
  BY <1>1, Always, PTL DEF Spec, LeaseMovesForward, Forward
=============================================================================
