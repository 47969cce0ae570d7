---------------------------- MODULE MCBackOffice ----------------------------
(***************************************************************************)
(* What the watchers and the sweeps must bring to an end, in one run: the  *)
(* approval queue, the clock of the leads, the runs of an automation, the  *)
(* ledger of sales and the detection of what was let slip.  They share no  *)
(* state here; `part' says which one this behaviour is of, and the others  *)
(* stay as they begin.                                                     *)
(***************************************************************************)
EXTENDS ApprovalQueue, LeadClock, Automation, SaleLedger, Detection

CONSTANTS a1, a2, d1, e1, h1, h2, r1, s1, s2, x1, x2

VARIABLE part

backVars == <<approvalVars, clockVars, automationVars, ledgerVars, detectionVars, part>>

BackInit ==
  /\ part \in {"approvals", "clock", "automation", "ledger", "detection"}
  /\ Init /\ LeadClockInit /\ AutomationInit
  /\ LedgerInit /\ (part = "ledger" \/ casing = [c \in Cases |-> "waiting"])
  /\ DetectionInit /\ (part = "detection" \/ \A r \in Records : source[r].status = "missed")

BackNext ==
  /\ UNCHANGED part
  /\ \/ part = "approvals" /\ Next
     \/ part # "approvals" /\ UNCHANGED approvalVars
  /\ \/ part = "clock" /\ LeadClockNext
     \/ part # "clock" /\ UNCHANGED clockVars
  /\ \/ part = "automation" /\ AutomationNext
     \/ part # "automation" /\ UNCHANGED automationVars
  /\ \/ part = "ledger" /\ LedgerNext
     \/ part # "ledger" /\ UNCHANGED ledgerVars
  /\ \/ part = "detection" /\ DetectionNext
     \/ part # "detection" /\ UNCHANGED detectionVars

(* As in the modules, what one hand owes in each of them being one         *)
(* condition here, for only one of them runs.                              *)
running ==
  CASE part = "approvals" -> approvalVars [] part = "clock" -> clockVars [] part = "automation" -> automationVars
    [] part = "ledger" -> ledgerVars [] part = "detection" -> detectionVars

GoesOn(i) ==
  /\ UNCHANGED part
  /\ \/ part = "approvals" /\ Lapse(<<a1, a2>>[i])
     \/ part = "clock" /\ Work(<<x1, x2>>[i])
     \/ part = "automation" /\ HandWorks(<<h1, h2>>[i])
     \/ part = "ledger" /\ (RecordStep(<<r1, s1>>[i]) \/ SweepStep(<<r1, s1>>[i]))
     \/ part = "detection" /\ ScanStep(<<s1, s2>>[i])

Starts(i) ==
  /\ UNCHANGED part
  /\ \/ part = "approvals" /\ MarkExpired(<<a1, a2>>[i])
     \/ part = "automation" /\ IF i = 1 THEN RunLeaseOver(e1) ELSE WaitOver(e1)
     \/ part = "ledger" /\ ReadCases(<<r1, s1>>[i])
     \/ part = "detection" /\ ScanBegin(<<s1, s2>>[i])

TimePasses == UNCHANGED part /\ part = "ledger" /\ GoStale

ComesRound ==
  /\ UNCHANGED part
  /\ \/ part = "clock" /\ \E x \in ClockWorkers : EscalateRead(x, d1)
     \/ part = "automation" /\ \E h \in Hands : ClaimRun(h, e1)

GetsThrough == UNCHANGED part /\ part = "clock" /\ \E x \in ClockWorkers : worker[x].l = d1 /\ EscalateClaim(x)

BackFairness ==
  /\ \A i \in 1..2 : WF_running(GoesOn(i)) /\ WF_running(Starts(i))
  /\ WF_running(TimePasses) /\ SF_running(ComesRound) /\ SF_running(GetsThrough)

BackSpec == BackInit /\ [][BackNext]_backVars /\ BackFairness

MCSteps == <<"do", "wait", "do">>
=============================================================================
