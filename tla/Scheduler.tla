----------------------------- MODULE Scheduler -----------------------------
(***************************************************************************)
(* backend/scheduler.py: one job, run once per window by whichever replica *)
(* gets there first, next to the external requests that the cron routes    *)
(* of server.py serve through cron_ledger.  The jobs are independent, each *)
(* with its own lease document, so one stands for all.                     *)
(*                                                                         *)
(* Window starts are numbered.  A replica that dies or stops comes back    *)
(* under a new holder name and with an empty cache: in the lease its old   *)
(* name becomes Gone.  Ledger entries of in-process runs are left out: no  *)
(* decision reads them.                                                    *)
(***************************************************************************)
EXTENDS Naturals, FiniteSets

CONSTANTS Instances,    \* API replicas, one scheduler each
          Requests,     \* delivery ids an external scheduler sends
          MaxWindow,    \* bound: the windows the clock goes through
          MaxFaults,    \* bound: deaths, stops, stalls and failed database calls
          Gone          \* the holder name of a process that is no more

ASSUME SchedulerAssumption ==
  /\ IsFiniteSet(Instances) /\ Gone \notin Instances
  /\ MaxWindow \in Nat \ {0} /\ MaxFaults \in Nat

VARIABLES now,        \* the window the clock is in
          lease,      \* the document in scheduler_leases; window 0: none yet
          inst,       \* an instance's task for the job: stage, window, attempt, outcome
          settled,    \* _settled: the last window an instance asks for no more
          entry,      \* cron_run_log: the entry of each external delivery
          faults,     \* faults used up
          started,    \* history: job runs started in each window
          served,     \* history: windows a run ended in, or that were deferred
          stalled     \* history: instances whose claim ran out under them

vars == <<now, lease, inst, settled, entry, faults, started, served, stalled>>

Windows  == 1..MaxWindow
Decided  == {"done", "failed", "deferred"}
Stages   == {"idle", "claim", "takeover", "insert", "check", "external", "running", "settle"}
Busy(p)  == inst[p].stage \in {"external", "running", "settle"}
NoLease  == [window |-> 0, state |-> "done", holder |-> Gone, expired |-> FALSE, attempt |-> 0]
Idle     == [stage |-> "idle", window |-> 0, attempt |-> 0, outcome |-> "none"]

LeaseType == [window : 0..MaxWindow, state : Decided \cup {"running"},
              holder : Instances \cup {Gone}, expired : BOOLEAN, attempt : Nat]
TaskType  == [stage : Stages, window : 0..MaxWindow, attempt : Nat, outcome : Decided \cup {"none"}]
EntryType == [status : {"none", "accepted", "running", "succeeded", "failed"}, window : 0..MaxWindow]

TypeOK ==
  /\ now \in Windows
  /\ lease \in LeaseType
  /\ inst \in [Instances -> TaskType]
  /\ settled \in [Instances -> 0..MaxWindow]
  /\ entry \in [Requests -> EntryType]
  /\ faults \in 0..MaxFaults
  /\ started \in [Windows -> Nat]
  /\ served \subseteq Windows
  /\ stalled \subseteq Instances

Init ==
  /\ now = 1
  /\ lease = NoLease
  /\ inst = [p \in Instances |-> Idle]
  /\ settled = [p \in Instances |-> 0]
  /\ entry = [r \in Requests |-> [status |-> "none", window |-> 0]]
  /\ faults = 0
  /\ started = [w \in Windows |-> 0]
  /\ served = {}
  /\ stalled = {}

-----------------------------------------------------------------------------
At(p, stage)   == inst[p].stage = stage
Goto(p, stage) == inst' = [inst EXCEPT ![p].stage = stage]
Rest(p)        == inst' = [inst EXCEPT ![p] = Idle]

(* tick(): the window is read here and used until the task ends. *)
Tick(p) ==
  /\ At(p, "idle")
  /\ settled[p] # now
  /\ inst' = [inst EXCEPT ![p] = [Idle EXCEPT !.stage = "claim", !.window = now]]
  /\ UNCHANGED <<now, lease, settled, entry, faults, started, served, stalled>>

(* _acquire: what a successful claim writes; the claimant goes on to run. *)
TakeLease(p, attempt) ==
  /\ lease' = [window |-> inst[p].window, state |-> "running", holder |-> p,
               expired |-> FALSE, attempt |-> attempt]
  /\ inst' = [inst EXCEPT ![p].stage = "external", ![p].attempt = attempt]
  /\ stalled' = stalled \ {p}

(* A conditional update of the lease: it matches, or the next one is tried. *)
TryLease(p, stage, matches, attempt, next) ==
  /\ At(p, stage)
  /\ IF matches THEN TakeLease(p, attempt)
                ELSE Goto(p, next) /\ UNCHANGED <<lease, stalled>>
  /\ UNCHANGED <<now, settled, entry, faults, started, served>>

(* Mutant: a later window does not wait for the run of an earlier one. *)
ClaimOverRunning(p) ==
  TryLease(p, "claim", lease.window \in 1..(inst[p].window - 1), 1, "takeover")

(* A new window, once the previous run is over or its holder has gone quiet. *)
ClaimWindow(p) ==
  TryLease(p, "claim", lease.window \in 1..(inst[p].window - 1)
                         /\ (lease.state # "running" \/ lease.expired), 1, "takeover")

Abandoned(w) == lease.window = w /\ lease.state = "running" /\ lease.expired

(* Mutant: the takeover does not ask whether the window is still running. *)
TakeOverAnyState(p) ==
  TryLease(p, "takeover", lease.window = inst[p].window /\ lease.expired,
           lease.attempt + 1, "insert")

(* This window, abandoned by a holder that stopped renewing. *)
TakeOver(p) ==
  TryLease(p, "takeover", Abandoned(inst[p].window), lease.attempt + 1, "insert")

(* The first run the job ever has; _id is unique. *)
InsertLease(p) == TryLease(p, "insert", lease.window = 0, 1, "check")

(* Mutant: a window somebody else is running counts as settled. *)
WindowSettledByClaim(w) == lease.window >= w

WindowSettled(w) ==
  lease.window > w \/ (lease.window = w /\ lease.state # "running")

(* Not ours: ask no more only once the window is decided. *)
CheckSettled(p) ==
  /\ At(p, "check")
  /\ settled' = IF WindowSettled(inst[p].window)
                THEN [settled EXCEPT ![p] = inst[p].window] ELSE settled
  /\ Rest(p)
  /\ UNCHANGED <<now, lease, entry, faults, started, served, stalled>>

-----------------------------------------------------------------------------
(* Mutant: a request of an earlier window is deferred to as well. *)
ExternalRunEver(w) ==
  \E r \in Requests : entry[r].status \in {"accepted", "running", "succeeded"}

ExternalRunInWindow(w) ==
  \E r \in Requests : /\ entry[r].status \in {"accepted", "running", "succeeded"}
                      /\ entry[r].window >= w

(* _execute: defer to an external request, or start the job. *)
Defer(p) ==
  /\ At(p, "external") /\ ExternalRunInWindow(inst[p].window)
  /\ inst' = [inst EXCEPT ![p].stage = "settle", ![p].outcome = "deferred"]
  /\ served' = served \cup {inst[p].window}
  /\ UNCHANGED <<now, lease, settled, entry, faults, started, stalled>>

StartJob(p) ==
  /\ At(p, "external") /\ ~ExternalRunInWindow(inst[p].window)
  /\ Goto(p, "running")
  /\ started' = [started EXCEPT ![inst[p].window] = @ + 1]
  /\ UNCHANGED <<now, lease, settled, entry, faults, served, stalled>>

(* The job returns or raises; its end is yet to be recorded. *)
EndJob(p, outcome) ==
  /\ At(p, "running")
  /\ inst' = [inst EXCEPT ![p].stage = "settle", ![p].outcome = outcome]
  /\ served' = served \cup {inst[p].window}
  /\ UNCHANGED <<now, lease, settled, entry, faults, started, stalled>>

HoldsLease(p) == lease.window = inst[p].window /\ lease.holder = p

(* _settle: nothing is written when the lease has another holder by now. *)
Settle(p) ==
  /\ At(p, "settle")
  /\ lease' = IF HoldsLease(p) THEN [lease EXCEPT !.state = inst[p].outcome] ELSE lease
  /\ settled' = [settled EXCEPT ![p] = inst[p].window]
  /\ Rest(p)
  /\ UNCHANGED <<now, entry, faults, started, served, stalled>>

(* _heartbeat, from the start of the job until its end is recorded. *)
Heartbeat(p) ==
  /\ At(p, "running") \/ (At(p, "settle") /\ inst[p].outcome # "deferred")
  /\ HoldsLease(p) /\ lease.state = "running"
  /\ lease' = [lease EXCEPT !.expired = FALSE]
  /\ UNCHANGED <<now, inst, settled, entry, faults, started, served, stalled>>

-----------------------------------------------------------------------------
(* Faults. *)
Fault == faults < MaxFaults /\ faults' = faults + 1

(* The database call that records the end fails: the error is swallowed. *)
SettleFails(p) ==
  /\ Fault
  /\ At(p, "settle")
  /\ settled' = [settled EXCEPT ![p] = inst[p].window]
  /\ Rest(p)
  /\ UNCHANGED <<now, lease, entry, started, served, stalled>>

(* Any other database call fails: the task ends, the lease stays as it is. *)
CallFails(p) ==
  /\ Fault
  /\ inst[p].stage \in {"claim", "takeover", "insert", "check", "external"}
  /\ Rest(p)
  /\ UNCHANGED <<now, lease, settled, entry, started, served, stalled>>

Forget(p) == Rest(p) /\ settled' = [settled EXCEPT ![p] = 0] /\ stalled' = stalled \ {p}
Disown(p) == [lease EXCEPT !.holder = IF @ = p THEN Gone ELSE @]

Die(p) ==
  /\ Fault
  /\ Forget(p)
  /\ lease' = Disown(p)
  /\ UNCHANGED <<now, entry, started, served>>

(* stop() in mid-run: _release hands the window back at once. *)
Stop(p) ==
  /\ Fault
  /\ At(p, "running")
  /\ Forget(p)
  /\ lease' = IF HoldsLease(p) /\ lease.state = "running"
              THEN [Disown(p) EXCEPT !.expired = TRUE] ELSE Disown(p)
  /\ UNCHANGED <<now, entry, started, served>>

(***************************************************************************)
(* expires_at passes.  Of a run somebody is busy with, because its holder  *)
(* was too slow to renew, which is a fault; else in the course of time.    *)
(***************************************************************************)
Attended == \E p \in Instances : Busy(p) /\ HoldsLease(p)

HolderStalls ==
  /\ lease.state = "running" /\ ~lease.expired /\ Attended
  /\ Fault
  /\ lease' = [lease EXCEPT !.expired = TRUE]
  /\ stalled' = stalled \cup {lease.holder}
  /\ UNCHANGED <<now, inst, settled, entry, started, served>>

LeaseExpires ==
  /\ lease.window > 0 /\ ~lease.expired /\ (lease.state # "running" \/ ~Attended)
  /\ lease' = [lease EXCEPT !.expired = TRUE]
  /\ UNCHANGED <<now, inst, settled, entry, faults, started, served, stalled>>

NextWindow ==
  /\ now < MaxWindow
  /\ now' = now + 1
  /\ UNCHANGED <<lease, inst, settled, entry, faults, started, served, stalled>>

(***************************************************************************)
(* An external request.  _claim_cron_run lets a delivery id through once;  *)
(* a run that raises gives the claim back, one whose process dies does     *)
(* not, and its entry stays as it was.                                     *)
(***************************************************************************)
SetEntry(r, status, w) ==
  /\ entry' = [entry EXCEPT ![r] = [status |-> status, window |-> w]]
  /\ UNCHANGED <<now, lease, inst, settled, faults, started, served, stalled>>

Deliver(r)   == entry[r].status \in {"none", "failed"} /\ SetEntry(r, "accepted", now)
MarkStarted(r) == entry[r].status = "accepted" /\ SetEntry(r, "running", entry[r].window)
MarkFinished(r, status) == entry[r].status = "running" /\ SetEntry(r, status, entry[r].window)

RequestNext(r) == \/ Deliver(r) \/ MarkStarted(r)
                  \/ \E status \in {"succeeded", "failed"} : MarkFinished(r, status)

Run(p) ==
  \/ ClaimWindow(p) \/ TakeOver(p) \/ InsertLease(p) \/ CheckSettled(p)
  \/ Defer(p) \/ StartJob(p) \/ Settle(p)
  \/ \E outcome \in {"done", "failed"} : EndJob(p, outcome)

Next ==
  \/ \E p \in Instances : \/ Tick(p) \/ Run(p) \/ Heartbeat(p)
                          \/ SettleFails(p) \/ CallFails(p) \/ Die(p) \/ Stop(p)
  \/ HolderStalls \/ LeaseExpires \/ NextWindow
  \/ \E r \in Requests : RequestNext(r)

Spec == Init /\ [][Next]_vars

(***************************************************************************)
(* Fairness: the clock runs, so windows come and leases run out; the loop  *)
(* keeps ticking; a task that does not die gets on, and jobs end.  Nothing *)
(* is owed by an external scheduler.                                       *)
(***************************************************************************)
Fairness == /\ WF_vars(NextWindow) /\ WF_vars(LeaseExpires)
            /\ \A p \in Instances : WF_vars(Tick(p)) /\ WF_vars(Run(p))

FairSpec == Spec /\ Fairness

-----------------------------------------------------------------------------
(***************************************************************************)
(* At most one instance is busy with the job, whatever its window, but for *)
(* those whose lease ran out under them.                                   *)
(***************************************************************************)
OneRunAtATime ==
  \A p, q \in Instances : Busy(p) /\ Busy(q) /\ p # q => p \in stalled \/ q \in stalled

(***************************************************************************)
(* run_id_for: every start of the job in a window is an attempt of its own *)
(* and none starts in a window nobody has claimed.                         *)
(***************************************************************************)
OneRunPerAttempt ==
  \A w \in Windows : /\ w = lease.window => started[w] <= lease.attempt
                     /\ w > lease.window => started[w] = 0

(***************************************************************************)
(* An instance stops asking for a window only once the lease has moved on  *)
(* or a run came to an end in it: a window in the hands of somebody who    *)
(* may yet die is not given up.                                            *)
(***************************************************************************)
CacheIsHonest ==
  \A p \in Instances :
    settled[p] # 0 => lease.window > settled[p] \/ settled[p] \in served

(***************************************************************************)
(* A window is deferred only if an external request came in since it began *)
(* and, when it is its first attempt, without the job having been started. *)
(***************************************************************************)
DeferredHasRequest ==
  lease.state = "deferred" =>
    /\ \E r \in Requests : entry[r].status # "none" /\ entry[r].window >= lease.window
    /\ lease.attempt = 1 => started[lease.window] = 0

(***************************************************************************)
(* A window can never be claimed twice or go backwards: the window never   *)
(* decreases, a decided one stays decided, attempts only count up, and     *)
(* the end of a run is recorded by the instance that holds the lease.      *)
(***************************************************************************)
LeaseMovesForward ==
  [][\/ lease'.window > lease.window
     \/ /\ lease'.window = lease.window
        /\ lease'.attempt >= lease.attempt
        /\ lease.state \in Decided => lease'.state = lease.state
        /\ lease.state = "running" /\ lease'.state \in Decided
             => \E p \in Instances : lease.holder = p /\ Busy(p) /\ ~Busy(p)']_vars

(***************************************************************************)
(* Liveness: a window that lasts is served, by a run or by a deferral, in  *)
(* spite of finitely many deaths, stalls and failed calls.                 *)
(***************************************************************************)
WindowIsServed == []<>(now = MaxWindow => MaxWindow \in served)

(***************************************************************************)
(* What the lease promises of the runs it lets begin.                      *)
(***************************************************************************)
SchedulerHolds ==
  TypeOK /\ OneRunAtATime /\ OneRunPerAttempt /\ CacheIsHonest /\ DeferredHasRequest
=============================================================================
