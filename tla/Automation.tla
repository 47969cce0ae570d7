----------------------------- MODULE Automation -----------------------------
(***************************************************************************)
(* The runs of one automation for one contact (backend/automations.py,     *)
(* AutomationEngine): started by events, taken step by step by the task    *)
(* of the event or by a watcher of any instance, parked by a wait, and     *)
(* stopped when the contact answers, the automation is turned off or an    *)
(* admin says so.  Every look-up and every write is a step, and whoever    *)
(* works on a run goes on from its own copy of it, whatever becomes of the *)
(* stored one.                                                             *)
(*                                                                         *)
(* Time is a lease that runs out and a wait that is over.  What a step     *)
(* does to tasks, records and notices is one action.                       *)
(*                                                                         *)
(* Bounds: MaxFaults, for the workers that die and the leases that run out *)
(* while their holder still works; a step is counted up to twice.          *)
(***************************************************************************)
EXTENDS Naturals, Sequences

CONSTANTS Events, Hands, Steps, MaxFaults, NoEvent

ASSUME AutomationAssumption ==
  /\ Steps \in Seq({"do", "wait"}) /\ MaxFaults \in Nat /\ NoEvent \notin Events

ActiveStatuses == {"running", "waiting"}
Ended == {"completed", "stopped", "failed"}
Places == 1..Len(Steps) + 1

VARIABLES
  switch,     \* automations: status
  arun,       \* automation_runs, by the event that started each
  hand,       \* who works: the events' tasks, the watchers, the admins' requests
  replied,    \* the contact has been contacted or has answered or booked
  did,        \* history: how often a step of a run was performed
  late,       \* history: steps of a run performed after the reply
  outlived,     \* history: the runs claimed from a holder whose lease had run out
  faults

automationVars == <<switch, arun, hand, replied, did, late, outlived, faults>>

ARunType == [status : ActiveStatuses \cup Ended \cup {"absent"}, next : Places,
             lease : {"none", "live", "over"}, resume : {"none", "later", "due"}]
HandPcs == {"idle", "start", "insert", "check", "do", "save", "fail", "park", "waited", "finish"}
HandType == [pc : HandPcs, run : Events \cup {NoEvent}, next : Places, outcome : Ended]

AutomationTypeOK ==
  /\ switch \in {"on", "off", "archived"} /\ arun \in [Events -> ARunType]
  /\ hand \in [Hands -> HandType] /\ replied \in BOOLEAN /\ did \in [Events -> [Places -> 0..2]]
  /\ late \in [Events -> Nat] /\ outlived \in SUBSET Events /\ faults \in 0..MaxFaults

EmptyHand == [pc |-> "idle", run |-> NoEvent, next |-> 1, outcome |-> "completed"]

AutomationInit ==
  /\ switch = "off" /\ replied = FALSE
  /\ arun = [e \in Events |-> [status |-> "absent", next |-> 1, lease |-> "none", resume |-> "none"]]
  /\ hand = [h \in Hands |-> EmptyHand]
  /\ did = [e \in Events |-> [i \in Places |-> 0]] /\ late = [e \in Events |-> 0]
  /\ outlived = {} /\ faults = 0

HandAt(h, pc) == hand[h].pc = pc
HandTo(h, pc) == hand' = [hand EXCEPT ![h].pc = pc]
Drop(h) == hand' = [hand EXCEPT ![h] = EmptyHand]
Run(h) == hand[h].run
history == <<did, late, outlived, faults>>
EndRunAs(h, outcome) == hand' = [hand EXCEPT ![h].pc = "finish", ![h].outcome = outcome]

-----------------------------------------------------------------------------
(* on_event(), handle(): an event its trigger and conditions match.  Events *)
(* an automation caused are not heard.                                      *)
Hear(h, e) ==
  /\ HandAt(h, "idle") /\ switch = "on"
  /\ arun[e].status = "absent" /\ \A g \in Hands : Run(g) # e
  /\ hand' = [hand EXCEPT ![h] = [EmptyHand EXCEPT !.pc = "start", !.run = e]]
  /\ UNCHANGED <<switch, arun, replied, history>>

(* start(): no run of the contact is active; then the run is inserted. *)
ActiveRuns == {e \in Events : arun[e].status \in ActiveStatuses}

StartCheck(h) ==
  /\ HandAt(h, "start")
  /\ IF ActiveRuns # {} THEN Drop(h) ELSE HandTo(h, "insert")
  /\ UNCHANGED <<switch, arun, replied, history>>

StartInsert(h) ==
  /\ HandAt(h, "insert")
  /\ arun' = [arun EXCEPT ![Run(h)].status = "running", ![Run(h)].lease = "live"]
  /\ HandTo(h, "check")
  /\ UNCHANGED <<switch, replied, history>>

-----------------------------------------------------------------------------
(* stop_reason(): asked before every step of advance(). *)
MustStop == switch # "on" \/ replied

Advance(h) ==
  /\ HandAt(h, "check")
  /\ IF hand[h].next > Len(Steps) THEN EndRunAs(h, "completed")
     ELSE IF MustStop THEN EndRunAs(h, "stopped")
     ELSE HandTo(h, IF Steps[hand[h].next] = "wait" THEN "park" ELSE "do")
  /\ UNCHANGED <<switch, arun, replied, history>>

(* perform(): the step is done or skipped, or it fails. *)
Perform(h) ==
  /\ HandAt(h, "do")
  /\ did' = [did EXCEPT ![Run(h)][hand[h].next] = IF @ = 2 THEN 2 ELSE @ + 1]
  /\ late' = [late EXCEPT ![Run(h)] = IF replied THEN @ + 1 ELSE @]
  /\ HandTo(h, "save") \/ HandTo(h, "fail")
  /\ UNCHANGED <<switch, arun, replied, outlived, faults>>

(* _save(): the holder's own copy, whatever the status has become. *)
SaveStep(h) ==
  /\ HandAt(h, "save")
  /\ arun' = [arun EXCEPT ![Run(h)].next = hand[h].next + 1, ![Run(h)].lease = "live"]
  /\ hand' = [hand EXCEPT ![h].pc = "check", ![h].next = @ + 1]
  /\ UNCHANGED <<switch, replied, history>>

SaveFailure(h) ==
  /\ HandAt(h, "fail")
  /\ arun' = [arun EXCEPT ![Run(h)].next = hand[h].next]
  /\ EndRunAs(h, "failed")
  /\ UNCHANGED <<switch, replied, history>>

Park(h) ==
  /\ HandAt(h, "park")
  /\ arun' = [arun EXCEPT ![Run(h)] =
       [status |-> "waiting", next |-> hand[h].next, lease |-> "none", resume |-> "later"]]
  /\ Drop(h)
  /\ UNCHANGED <<switch, replied, history>>

(* _finish(), of advance(), of an admin's stop and of turning it off. *)
FinishRun(h) ==
  /\ HandAt(h, "finish")
  /\ arun' = [arun EXCEPT ![Run(h)].status = hand[h].outcome, ![Run(h)].lease = "none",
                          ![Run(h)].resume = "none"]
  /\ Drop(h)
  /\ UNCHANGED <<switch, replied, history>>

-----------------------------------------------------------------------------
(* resume_due(): one atomic update claims a run whose wait is over, or      *)
(* whose holder's lease is.                                                 *)
ClaimableAny(e) == arun[e].resume = "due" \/ arun[e].status = "running"  \* mutant
ClaimableRun(e) ==
  \/ arun[e].status = "waiting" /\ arun[e].resume = "due"
  \/ arun[e].status = "running" /\ arun[e].lease = "over"

ClaimRun(h, e) ==
  /\ HandAt(h, "idle") /\ ClaimableRun(e)
  /\ arun' = [arun EXCEPT ![e].status = "running", ![e].lease = "live"]
  /\ outlived' = IF arun[e].lease = "over" THEN outlived \cup {e} ELSE outlived
  /\ hand' = [hand EXCEPT ![h] = [EmptyHand EXCEPT !.run = e, !.next = arun[e].next,
       !.pc = IF arun[e].resume # "none" /\ arun[e].next <= Len(Steps) /\ Steps[arun[e].next] = "wait"
              THEN "waited" ELSE "check"]]
  /\ UNCHANGED <<switch, replied, did, late, faults>>

Waited(h) ==
  /\ HandAt(h, "waited")
  /\ arun' = [arun EXCEPT ![Run(h)].next = hand[h].next + 1, ![Run(h)].resume = "none"]
  /\ hand' = [hand EXCEPT ![h].pc = "check", ![h].next = @ + 1]
  /\ UNCHANGED <<switch, replied, history>>

(* set_status(), archive_automation(); the waiting runs of one turned off,  *)
(* and any that an admin stops (stop_run), are read and then finished.      *)
Turn(to) ==
  /\ switch \notin {"archived", to}
  /\ switch' = to
  /\ UNCHANGED <<arun, hand, replied, history>>

StopRun(h, e) ==
  /\ HandAt(h, "idle") /\ arun[e].status \in ActiveStatuses
  /\ hand' = [hand EXCEPT ![h] = [EmptyHand EXCEPT !.pc = "finish", !.run = e, !.outcome = "stopped"]]
  /\ UNCHANGED <<switch, arun, replied, history>>

Reply ==
  /\ ~replied
  /\ replied' = TRUE
  /\ UNCHANGED <<switch, arun, hand, history>>

-----------------------------------------------------------------------------
HandDies(h) ==
  /\ ~HandAt(h, "idle") /\ faults < MaxFaults
  /\ Drop(h) /\ faults' = faults + 1
  /\ UNCHANGED <<switch, arun, replied, did, late, outlived>>

Held(e) == \E h \in Hands : Run(h) = e

RunLeaseOver(e) ==
  /\ arun[e].status = "running" /\ arun[e].lease = "live" /\ ~Held(e)
  /\ arun' = [arun EXCEPT ![e].lease = "over"]
  /\ UNCHANGED <<switch, hand, replied, history>>

HolderIsSlow(e) ==
  /\ arun[e].status = "running" /\ arun[e].lease = "live" /\ Held(e) /\ faults < MaxFaults
  /\ arun' = [arun EXCEPT ![e].lease = "over"] /\ faults' = faults + 1
  /\ UNCHANGED <<switch, hand, replied, did, late, outlived>>

WaitOver(e) ==
  /\ arun[e].resume = "later"
  /\ arun' = [arun EXCEPT ![e].resume = "due"]
  /\ UNCHANGED <<switch, hand, replied, history>>

HandWorks(h) ==
  \/ StartCheck(h) \/ StartInsert(h) \/ Advance(h) \/ Perform(h) \/ SaveStep(h) \/ SaveFailure(h)
  \/ Park(h) \/ FinishRun(h) \/ Waited(h)

AutomationNext ==
  \/ \E h \in Hands : \/ HandWorks(h) \/ HandDies(h)
                      \/ \E e \in Events : Hear(h, e) \/ ClaimRun(h, e) \/ StopRun(h, e)
  \/ \E e \in Events : RunLeaseOver(e) \/ HolderIsSlow(e) \/ WaitOver(e)
  \/ \E to \in {"on", "off", "archived"} : Turn(to)
  \/ Reply

(***************************************************************************)
(* Who works goes on; time passes; and the watcher comes round every half  *)
(* minute, so that a run it may claim for ever it claims.                  *)
(***************************************************************************)
AutomationFairness ==
  /\ \A h \in Hands : WF_automationVars(HandWorks(h))
  /\ \A e \in Events : /\ WF_automationVars(RunLeaseOver(e)) /\ WF_automationVars(WaitOver(e))
                       /\ SF_automationVars(\E h \in Hands : ClaimRun(h, e))

AutomationSpec == AutomationInit /\ [][AutomationNext]_automationVars /\ AutomationFairness

-----------------------------------------------------------------------------
(***************************************************************************)
(* "Several API instances can run it without doing a step twice": a step   *)
(* is done twice only of a run that was claimed from a holder whose lease  *)
(* had run out, dead or slow (resume_due, advance).                        *)
(***************************************************************************)
RepeatedOnlyAfterLapse == \A e \in Events, i \in Places : did[e][i] > 1 => e \in outlived

(***************************************************************************)
(* The reply stops the run before its next step: of the steps after it,    *)
(* however many are left, only one that each worker had checked already is *)
(* performed, and there is a second worker only after a lease that ran out *)
(* under its holder (stop_reason, "checked before every step").            *)
(***************************************************************************)
ReplyStops == \A e \in Events : late[e] <= IF e \in outlived THEN 1 + faults ELSE 1

(***************************************************************************)
(* Every run comes to an end: no death, lapse or stop leaves one parked or *)
(* held for ever (resume_due).                                             *)
(***************************************************************************)
RunsEnd == \A e \in Events : []<>(arun[e].status \notin ActiveStatuses)

(***************************************************************************)
(* What the runs of an automation promise.                                 *)
(***************************************************************************)
AutomationHolds == [](AutomationTypeOK /\ RepeatedOnlyAfterLapse /\ ReplyStops) /\ RunsEnd
=============================================================================
