------------------------- MODULE BackOfficeProofs ---------------------------
(***************************************************************************)
(* What is proved of the clock of the leads, of the ledger of sales, of    *)
(* the runs of an automation and of the detection of what was let slip,    *)
(* each for itself.                                                        *)
(***************************************************************************)
EXTENDS LeadClock, SaleLedger, Automation, Detection, FiniteSetTheorems, WellFoundedInduction, TLAPS

-----------------------------------------------------------------------------
(* The clock of the leads.  A worker that is past its list has a lead in    *)
(* hand.                                                                    *)
WorkerOK(w) == w \in WorkerType /\ (w.pc \notin {"idle", "check"} => w.l \in Leads)
ClockTypes == LeadClockTypeOK /\ \A x \in ClockWorkers : WorkerOK(worker[x])

(* Whoever is about to tell the admins has claimed the lead, alone, and     *)
(* they have not been told of it; those they were told of are claimed.      *)
TellersOK ==
  /\ \A x \in ClockWorkers : worker[x].pc = "tell" => lead[worker[x].l].escalated /\ alerted[worker[x].l] = 0
  /\ \A x, y \in ClockWorkers :
       worker[x].pc = "tell" /\ worker[y].pc = "tell" /\ worker[x].l = worker[y].l => x = y
  /\ \A l \in Leads : alerted[l] > 0 => lead[l].escalated

ClockInv == ClockTypes /\ TellersOK /\ EscalatedOnce

(* What a worker is given is a worker's. *)
LEMMA OffIsOK == WorkerOK(Off)
BY LeadClockAssumption DEF WorkerOK, WorkerType, Off, Pcs, Vias, LeadStatuses

LEMMA WorkerChanges ==
  ASSUME ClockTypes, NEW x \in ClockWorkers, NEW w, WorkerOK(w), worker' = [worker EXCEPT ![x] = w]
  PROVE  worker' \in [ClockWorkers -> WorkerType] /\ \A y \in ClockWorkers : WorkerOK(worker'[y])
BY DEF ClockTypes, LeadClockTypeOK, WorkerOK

LEMMA WorkerGoes ==
  ASSUME ClockTypes, NEW x \in ClockWorkers, NEW pc \in Pcs,
         worker[x].pc \notin {"idle", "check"}, To(x, pc)
  PROVE  worker' \in [ClockWorkers -> WorkerType] /\ \A y \in ClockWorkers : WorkerOK(worker'[y])
<1>1. worker \in [ClockWorkers -> WorkerType] /\ WorkerOK(worker[x])
  BY DEF ClockTypes, LeadClockTypeOK
<1>2. WorkerOK([worker[x] EXCEPT !.pc = pc])
  BY <1>1 DEF WorkerOK, WorkerType
<1>3. worker' = [worker EXCEPT ![x] = [worker[x] EXCEPT !.pc = pc]]
  BY <1>1 DEF To
<1> QED
  BY <1>2, <1>3, WorkerChanges

LEMMA WorkerStarts ==
  ASSUME ClockTypes, NEW x \in ClockWorkers, NEW w, WorkerOK(w), Start(x, w)
  PROVE  worker' \in [ClockWorkers -> WorkerType] /\ \A y \in ClockWorkers : WorkerOK(worker'[y])
BY WorkerChanges DEF Start

LEMMA WorkerEnds ==
  ASSUME ClockTypes, NEW x \in ClockWorkers, End(x)
  PROVE  worker' \in [ClockWorkers -> WorkerType] /\ \A y \in ClockWorkers : WorkerOK(worker'[y])
BY WorkerChanges, OffIsOK DEF End

LEMMA WorkerTakesNext ==
  ASSUME ClockTypes, NEW x \in ClockWorkers, NextLead(x)
  PROVE  worker' \in [ClockWorkers -> WorkerType] /\ \A y \in ClockWorkers : WorkerOK(worker'[y])
<1>1. worker[x] \in WorkerType
  BY DEF ClockTypes, LeadClockTypeOK
<1>2. WorkerOK([Off EXCEPT !.pc = "check", !.todo = worker[x].todo])
  BY <1>1, LeadClockAssumption DEF WorkerOK, WorkerType, Off, Pcs, Vias, LeadStatuses
<1> QED
  BY <1>2, OffIsOK, WorkerChanges DEF NextLead

(* A new content of one lead. *)
LEMMA LeadChanges ==
  ASSUME ClockTypes, NEW l \in Leads, NEW r \in LeadType
  PROVE  [lead EXCEPT ![l] = r] \in [Leads -> LeadType]
BY DEF ClockTypes, LeadClockTypeOK

-----------------------------------------------------------------------------
(* The types are kept. *)
LEMMA ClockTypesInit == LeadClockInit => ClockTypes
<1> SUFFICES ASSUME LeadClockInit
             PROVE  ClockTypes
  OBVIOUS
<1>1. WorkerOK(Off) /\ (CHOOSE c \in Contacts : TRUE) \in Contacts
  BY OffIsOK, LeadClockAssumption
<1>2. lead \in [Leads -> LeadType]
  BY <1>1, LeadClockAssumption DEF LeadClockInit, LeadType, LeadStatuses, Vias
<1>3. worker \in [ClockWorkers -> WorkerType] /\ \A x \in ClockWorkers : WorkerOK(worker[x])
  BY <1>1 DEF LeadClockInit, WorkerOK
<1> QED
  BY <1>2, <1>3, LeadClockAssumption DEF LeadClockInit, ClockTypes, LeadClockTypeOK, TaskStates

WorkersOK == worker' \in [ClockWorkers -> WorkerType] /\ \A y \in ClockWorkers : WorkerOK(worker'[y])

LEMMA ClockTypesStep == ClockTypes /\ [LeadClockNext]_clockVars => ClockTypes'
<1> SUFFICES ASSUME ClockTypes, [LeadClockNext]_clockVars
             PROVE  ClockTypes'
  OBVIOUS
<1> USE LeadClockAssumption
<1>0. /\ minute \in 0..LastMinute /\ lead \in [Leads -> LeadType] /\ task \in [Leads -> TaskStates]
      /\ reached \in [Contacts -> -1..LastMinute] /\ worker \in [ClockWorkers -> WorkerType]
      /\ alerted \in [Leads -> Nat] /\ \A x \in ClockWorkers : WorkerOK(worker[x])
  BY DEF ClockTypes, LeadClockTypeOK
<1>q. ASSUME minute' \in 0..LastMinute, lead' \in [Leads -> LeadType], task' \in [Leads -> TaskStates],
             reached' \in [Contacts -> -1..LastMinute], alerted' \in [Leads -> Nat], WorkersOK
      PROVE  ClockTypes'
  BY <1>q DEF ClockTypes, LeadClockTypeOK, WorkersOK
<1>u. worker' = worker => WorkersOK
  BY <1>0 DEF WorkersOK
<1>a. CASE UNCHANGED clockVars
  BY <1>a, <1>0, <1>q, <1>u DEF clockVars
<1>b. CASE MinutePasses
  <2>1. minute + 1 \in 0..LastMinute
    BY <1>b, <1>0 DEF MinutePasses
  <2> QED
    BY <2>1, <1>b, <1>0, <1>q, <1>u DEF MinutePasses
<1>c. ASSUME NEW l \in Leads, NEW c \in Contacts, Arrive(l, c)
      PROVE  ClockTypes'
  <2>0. [lead[l] EXCEPT !.status = "new", !.contact = c, !.received = minute] \in LeadType
    <3>1. lead[l] \in LeadType /\ minute \in 0..LastMinute /\ "new" \in LeadStatuses
      BY <1>0 DEF LeadStatuses
    <3> QED
      BY <3>1 DEF LeadType
  <2>4. lead' = [lead EXCEPT ![l] = [lead[l] EXCEPT !.status = "new", !.contact = c, !.received = minute]]
    BY <1>c, <1>0 DEF Arrive
  <2>1. lead' \in [Leads -> LeadType]
    BY <2>0, <2>4, LeadChanges
  <2>2. task' \in [Leads -> TaskStates]
    BY <1>c, <1>0 DEF Arrive, TaskStates
  <2> QED
    BY <2>1, <2>2, <1>c, <1>0, <1>q, <1>u DEF Arrive
<1>d. ASSUME NEW c \in Contacts, LogActivity(c)
      PROVE  ClockTypes'
  <2>1. minute \in -1..LastMinute
    BY <1>0
  <2>2. reached' \in [Contacts -> -1..LastMinute]
    BY <2>1, <1>d, <1>0 DEF LogActivity
  <2> QED
    BY <2>2, <1>d, <1>0, <1>q, <1>u DEF LogActivity
<1>e. ASSUME NEW x \in ClockWorkers, MarkResponded(x)
      PROVE  ClockTypes'
  <2>0. WorkerOK(worker[x]) /\ worker[x].pc = "mark" /\ worker[x].l \in Leads /\ worker[x].via \in Vias
    BY <1>e, <1>0 DEF MarkResponded, ClockAt, WorkerOK, WorkerType
  <2>1. lead' \in [Leads -> LeadType]
    BY <2>0, <1>e, <1>0 DEF MarkResponded, Responded, LeadType, LeadStatuses
  <2>2. NextLead(x) \/ To(x, "finish")
    BY <1>e DEF MarkResponded
  <2>3. WorkersOK
    BY <2>0, <2>2, WorkerTakesNext, WorkerGoes DEF WorkersOK, Pcs
  <2> QED
    BY <2>1, <2>3, <1>e, <1>0, <1>q DEF MarkResponded
<1>f. ASSUME NEW x \in ClockWorkers, FinishTask(x)
      PROVE  ClockTypes'
  <2>1. task' \in [Leads -> TaskStates]
    BY <1>f, <1>0 DEF FinishTask, TaskStates
  <2>2. WorkersOK
    BY <1>f, WorkerTakesNext DEF FinishTask, WorkersOK
  <2> QED
    BY <2>1, <2>2, <1>f, <1>0, <1>q DEF FinishTask
<1>g. ASSUME NEW x \in ClockWorkers, NEW leads \in SUBSET Leads, SyncBegin(x, leads)
      PROVE  ClockTypes'
  <2>1. WorkerOK([Off EXCEPT !.pc = "check", !.todo = leads])
    BY DEF WorkerOK, WorkerType, Off, Pcs, Vias, LeadStatuses
  <2>2. WorkersOK
    BY <2>1, <1>g, WorkerStarts DEF SyncBegin, WorkersOK
  <2> QED
    BY <2>2, <1>g, <1>0, <1>q DEF SyncBegin
<1>h. ASSUME NEW x \in ClockWorkers, NEW l \in Leads, SyncCheck(x, l)
      PROVE  ClockTypes'
  <2>0. worker[x] \in WorkerType
    BY <1>0
  <2>1. Evidence(l) \in Vias
    BY DEF Evidence, Vias
  <2>2. WorkerOK([worker[x] EXCEPT !.l = l, !.todo = @ \ {l}, !.via = Evidence(l), !.pc = "mark"])
    BY <2>0, <2>1 DEF WorkerOK, WorkerType, Pcs
  <2>3. WorkerOK([Off EXCEPT !.pc = "check", !.todo = worker[x].todo \ {l}])
    BY <2>0 DEF WorkerOK, WorkerType, Off, Pcs, Vias, LeadStatuses
  <2>4. \/ worker' = [worker EXCEPT ![x] =
                        [worker[x] EXCEPT !.l = l, !.todo = @ \ {l}, !.via = Evidence(l), !.pc = "mark"]]
        \/ worker' = [worker EXCEPT ![x] = Off]
        \/ worker' = [worker EXCEPT ![x] = [Off EXCEPT !.pc = "check", !.todo = worker[x].todo \ {l}]]
    BY <1>h, <2>0 DEF SyncCheck, WorkerType
  <2>5. WorkersOK
    BY <2>2, <2>3, <2>4, OffIsOK, WorkerChanges DEF WorkersOK
  <2> QED
    BY <2>5, <1>h, <1>0, <1>q DEF SyncCheck
<1>i. ASSUME NEW x \in ClockWorkers, NEW l \in Leads, TickOff(x, l)
      PROVE  ClockTypes'
  <2>1. WorkerOK([Off EXCEPT !.pc = "mark", !.l = l, !.via = "task_completed"])
    BY DEF WorkerOK, WorkerType, Off, Pcs, Vias, LeadStatuses
  <2>2. WorkersOK
    BY <2>1, <1>i, WorkerStarts DEF TickOff, WorkersOK
  <2>3. task' \in [Leads -> TaskStates]
    BY <1>i, <1>0 DEF TickOff, TaskStates
  <2> QED
    BY <2>2, <2>3, <1>i, <1>0, <1>q DEF TickOff
<1>j. ASSUME NEW x \in ClockWorkers, NEW l \in Leads, Untick(x, l)
      PROVE  ClockTypes'
  <2>1. WorkerOK([Off EXCEPT !.pc = "unticked", !.l = l])
    BY DEF WorkerOK, WorkerType, Off, Pcs, Vias, LeadStatuses
  <2>2. WorkersOK
    BY <2>1, <1>j, WorkerStarts DEF Untick, WorkersOK
  <2>3. task' \in [Leads -> TaskStates]
    BY <1>j, <1>0 DEF Untick, TaskStates
  <2> QED
    BY <2>2, <2>3, <1>j, <1>0, <1>q DEF Untick
<1>k. ASSUME NEW x \in ClockWorkers, Unmark(x)
      PROVE  ClockTypes'
  <2>1. lead' \in [Leads -> LeadType]
    BY <1>k, <1>0 DEF Unmark, LeadType, LeadStatuses, Vias
  <2>2. WorkersOK
    BY <1>k, WorkerEnds DEF Unmark, WorkersOK
  <2> QED
    BY <2>1, <2>2, <1>k, <1>0, <1>q DEF Unmark
<1>l. ASSUME NEW x \in ClockWorkers, NEW l \in Leads, NEW s \in LeadStatuses, Patch(x, l, s)
      PROVE  ClockTypes'
  <2>1. /\ WorkerOK([Off EXCEPT !.pc = "mark", !.l = l, !.via = "marked_in_inbox"])
        /\ WorkerOK([Off EXCEPT !.pc = "patch", !.l = l, !.to = s])
    BY DEF WorkerOK, WorkerType, Off, Pcs, Vias, LeadStatuses
  <2>2. WorkersOK
    BY <2>1, <1>l, WorkerStarts DEF Patch, WorkersOK
  <2> QED
    BY <2>2, <1>l, <1>0, <1>q DEF Patch
<1>m. ASSUME NEW x \in ClockWorkers, PatchLead(x)
      PROVE  ClockTypes'
  <2>0. worker[x].pc = "patch" /\ worker[x].l \in Leads /\ worker[x].to \in LeadStatuses
    BY <1>m, <1>0 DEF PatchLead, ClockAt, WorkerOK, WorkerType
  <2>1. lead' \in [Leads -> LeadType]
    BY <2>0, <1>m, <1>0 DEF PatchLead, LeadType, Vias
  <2>2. WorkersOK
    BY <2>0, <1>m, WorkerEnds, WorkerGoes DEF PatchLead, WorkersOK, Pcs
  <2> QED
    BY <2>1, <2>2, <1>m, <1>0, <1>q DEF PatchLead
<1>n. ASSUME NEW x \in ClockWorkers, PatchTask(x)
      PROVE  ClockTypes'
  <2>1. task' \in [Leads -> TaskStates]
    BY <1>n, <1>0 DEF PatchTask, TaskStates
  <2>2. WorkersOK
    BY <1>n, WorkerEnds DEF PatchTask, WorkersOK
  <2> QED
    BY <2>1, <2>2, <1>n, <1>0, <1>q DEF PatchTask
<1>o. ASSUME NEW x \in ClockWorkers, NEW l \in Leads, EscalateRead(x, l)
      PROVE  ClockTypes'
  <2>1. WorkerOK([Off EXCEPT !.pc = "claim", !.l = l])
    BY DEF WorkerOK, WorkerType, Off, Pcs, Vias, LeadStatuses
  <2>2. WorkersOK
    BY <2>1, <1>o, WorkerStarts DEF EscalateRead, WorkersOK
  <2> QED
    BY <2>2, <1>o, <1>0, <1>q DEF EscalateRead
<1>p. ASSUME NEW x \in ClockWorkers, EscalateClaim(x)
      PROVE  ClockTypes'
  <2>0. worker[x].pc = "claim" /\ worker[x].l \in Leads
    BY <1>p, <1>0 DEF EscalateClaim, ClockAt, WorkerOK
  <2>3. [lead[worker[x].l] EXCEPT !.escalated = TRUE] \in LeadType
    BY <2>0, <1>0 DEF LeadType
  <2>4. \/ lead' = [lead EXCEPT ![worker[x].l] = [lead[worker[x].l] EXCEPT !.escalated = TRUE]]
        \/ lead' = lead
    BY <2>0, <1>p, <1>0 DEF EscalateClaim
  <2>1. lead' \in [Leads -> LeadType]
    BY <2>0, <2>3, <2>4, <1>0, LeadChanges
  <2>2. WorkersOK
    BY <2>0, <1>p, WorkerEnds, WorkerGoes DEF EscalateClaim, WorkersOK, Pcs
  <2> QED
    BY <2>1, <2>2, <1>p, <1>0, <1>q DEF EscalateClaim
<1>r. ASSUME NEW x \in ClockWorkers, TellAdmins(x)
      PROVE  ClockTypes'
  <2>0. worker[x].l \in Leads /\ alerted[worker[x].l] + 1 \in Nat
    BY <1>r, <1>0 DEF TellAdmins, ClockAt, WorkerOK
  <2>1. alerted' \in [Leads -> Nat]
    BY <2>0, <1>r, <1>0 DEF TellAdmins
  <2>2. WorkersOK
    BY <1>r, WorkerEnds DEF TellAdmins, WorkersOK
  <2> QED
    BY <2>1, <2>2, <1>r, <1>0, <1>q DEF TellAdmins
<1>s. ASSUME NEW x \in ClockWorkers, WorkerDies(x)
      PROVE  ClockTypes'
  <2>2. WorkersOK
    BY <1>s, WorkerEnds DEF WorkerDies, WorkersOK
  <2> QED
    BY <2>2, <1>s, <1>0, <1>q DEF WorkerDies
<1> QED
  BY <1>a, <1>b, <1>c, <1>d, <1>e, <1>f, <1>g, <1>h, <1>i, <1>j, <1>k, <1>l, <1>m, <1>n, <1>o, <1>p, <1>r, <1>s
  DEF LeadClockNext, Work

-----------------------------------------------------------------------------
(* Told once.  A claim is never taken back: a step that tells nobody and    *)
(* puts nobody in the way of telling leaves the tellers as they were.       *)
LEMMA QuietStep ==
  ASSUME ClockTypes, TellersOK, alerted' = alerted,
         \A l \in Leads : lead[l].escalated => lead'[l].escalated,
         \A x \in ClockWorkers : worker'[x].pc = "tell" => worker'[x] = worker[x]
  PROVE  TellersOK'
<1>1. \A x \in ClockWorkers : worker[x].pc = "tell" => worker[x].l \in Leads
  BY DEF ClockTypes, WorkerOK
<1>2. \A x \in ClockWorkers : worker'[x].pc = "tell" =>
        worker'[x].l = worker[x].l /\ worker[x].pc = "tell"
  OBVIOUS
<1> QED
  BY <1>1, <1>2 DEF TellersOK

LEMMA TellersInit == LeadClockInit => TellersOK /\ EscalatedOnce
<1> SUFFICES ASSUME LeadClockInit
             PROVE  TellersOK /\ EscalatedOnce
  OBVIOUS
<1>1. Off.pc = "idle"
  BY DEF Off
<1>2. (\A x \in ClockWorkers : worker[x].pc = "idle") /\ \A l \in Leads : alerted[l] = 0
  BY <1>1 DEF LeadClockInit
<1> QED
  BY <1>2 DEF TellersOK, EscalatedOnce

LEMMA ClaimedIsForGood ==
  ASSUME ClockTypes, LeadClockNext
  PROVE  \A l \in Leads : lead[l].escalated => lead'[l].escalated
<1> USE DEF ClockTypes, LeadClockTypeOK
<1>1. lead \in [Leads -> LeadType]
  OBVIOUS
<1>2. CASE UNCHANGED lead
  BY <1>2
<1>3. ASSUME NEW l \in Leads, NEW c \in Contacts, Arrive(l, c)
      PROVE  \A k \in Leads : lead[k].escalated => lead'[k].escalated
  BY <1>3, <1>1 DEF Arrive, LeadType
<1>4. ASSUME NEW x \in ClockWorkers,
             MarkResponded(x) \/ Unmark(x) \/ PatchLead(x) \/ EscalateClaim(x)
      PROVE  \A k \in Leads : lead[k].escalated => lead'[k].escalated
  BY <1>4, <1>1 DEF MarkResponded, Responded, Unmark, PatchLead, EscalateClaim, LeadType
<1> QED
  BY <1>2, <1>3, <1>4 DEF LeadClockNext, Work, MinutePasses, LogActivity, FinishTask, PatchTask, TellAdmins,
     SyncCheck, WorkerDies, SyncBegin, TickOff, Untick, EscalateRead, Patch

LEMMA TellersStep ==
  ClockTypes /\ TellersOK /\ EscalatedOnce /\ [LeadClockNext]_clockVars => TellersOK' /\ EscalatedOnce'
<1> SUFFICES ASSUME ClockTypes, TellersOK, EscalatedOnce, [LeadClockNext]_clockVars
             PROVE  TellersOK' /\ EscalatedOnce'
  OBVIOUS
<1>0. /\ lead \in [Leads -> LeadType] /\ worker \in [ClockWorkers -> WorkerType] /\ alerted \in [Leads -> Nat]
      /\ \A x \in ClockWorkers : worker[x].pc \notin {"idle", "check"} => worker[x].l \in Leads
  BY DEF ClockTypes, LeadClockTypeOK, WorkerOK
<1>1. CASE UNCHANGED clockVars
  BY <1>1 DEF TellersOK, EscalatedOnce, clockVars
<1>2. ASSUME NEW x \in ClockWorkers, TellAdmins(x)
      PROVE  TellersOK' /\ EscalatedOnce'
  <2> DEFINE l == worker[x].l
  <2>1. l \in Leads /\ lead[l].escalated /\ alerted[l] = 0 /\ worker[x].pc = "tell"
    BY <1>2, <1>0 DEF TellAdmins, ClockAt, TellersOK
  <2>2. alerted' = [alerted EXCEPT ![l] = 1] /\ lead' = lead
    BY <2>1, <1>2, <1>0 DEF TellAdmins
  <2>3. \A y \in ClockWorkers : worker'[y].pc = "tell" => worker'[y] = worker[y] /\ y # x
    BY <1>2, <1>0 DEF TellAdmins, End, Off
  <2>4. \A y \in ClockWorkers : worker'[y].pc = "tell" => worker'[y].l # l /\ worker'[y].l \in Leads
    BY <2>1, <2>3, <1>0 DEF TellersOK
  <2> HIDE DEF l
  <2>5. TellersOK'
    BY <2>1, <2>2, <2>3, <2>4, <1>0 DEF TellersOK
  <2>6. EscalatedOnce'
    BY <2>1, <2>2, <1>0 DEF EscalatedOnce
  <2> QED
    BY <2>5, <2>6
<1>3. ASSUME NEW x \in ClockWorkers, EscalateClaim(x)
      PROVE  TellersOK' /\ EscalatedOnce'
  <2>0. EscalatedOnce'
    BY <1>3 DEF EscalateClaim, EscalatedOnce
  <2>1. CASE ~MayEscalate(worker[x].l)
    <3>1. lead' = lead /\ alerted' = alerted /\ worker' = [worker EXCEPT ![x] = Off]
      BY <2>1, <1>3 DEF EscalateClaim, End
    <3>2. \A y \in ClockWorkers : worker'[y].pc = "tell" => worker'[y] = worker[y]
      BY <3>1, <1>0 DEF Off
    <3> QED
      BY <2>0, <3>1, <3>2, QuietStep
  <2>2. CASE MayEscalate(worker[x].l)
    <3> DEFINE l == worker[x].l
    <3>1. l \in Leads /\ ~lead[l].escalated
      BY <2>2, <1>3, <1>0 DEF EscalateClaim, ClockAt, MayEscalate
    <3>2. /\ lead' = [lead EXCEPT ![l].escalated = TRUE] /\ alerted' = alerted
          /\ worker' = [worker EXCEPT ![x].pc = "tell"]
      BY <2>2, <1>3 DEF EscalateClaim, To
    <3>3. alerted[l] = 0
      BY <3>1, <1>0 DEF TellersOK
    <3>4. \A y \in ClockWorkers : worker[y].pc = "tell" => worker[y].l # l
      BY <3>1 DEF TellersOK
    <3>5. \A k \in Leads : (lead'[k].escalated <=> (k = l \/ lead[k].escalated))
      BY <3>1, <3>2, <1>0 DEF LeadType
    <3>6. \A y \in ClockWorkers : worker'[y].l = worker[y].l /\ (y # x => worker'[y] = worker[y])
      BY <3>2, <1>0 DEF WorkerType
    <3>7. worker'[x].l = l
      BY <3>6
    <3> HIDE DEF l
    <3>8. \A y \in ClockWorkers : worker'[y].pc = "tell" =>
            lead'[worker'[y].l].escalated /\ alerted'[worker'[y].l] = 0
      <4> SUFFICES ASSUME NEW y \in ClockWorkers, worker'[y].pc = "tell"
                   PROVE  lead'[worker'[y].l].escalated /\ alerted'[worker'[y].l] = 0
        OBVIOUS
      <4>1. CASE y = x
        BY <4>1, <3>1, <3>2, <3>3, <3>5, <3>7
      <4>2. CASE y # x
        BY <4>2, <3>1, <3>2, <3>5, <3>6, <1>0 DEF TellersOK
      <4> QED
        BY <4>1, <4>2
    <3>9. \A y, z \in ClockWorkers :
            worker'[y].pc = "tell" /\ worker'[z].pc = "tell" /\ worker'[y].l = worker'[z].l => y = z
      BY <3>4, <3>6, <3>7 DEF TellersOK
    <3>10. \A k \in Leads : alerted'[k] > 0 => lead'[k].escalated
      BY <3>2, <3>5 DEF TellersOK
    <3> QED
      BY <2>0, <3>8, <3>9, <3>10 DEF TellersOK
  <2> QED
    BY <2>1, <2>2
<1>4. ASSUME LeadClockNext, alerted' = alerted,
             \A x \in ClockWorkers : worker'[x].pc = "tell" => worker'[x] = worker[x]
      PROVE  TellersOK' /\ EscalatedOnce'
  BY <1>4, QuietStep, ClaimedIsForGood DEF EscalatedOnce
<1>5. CASE (\/ MinutePasses
            \/ \E l \in Leads, c \in Contacts : Arrive(l, c)
            \/ \E c \in Contacts : LogActivity(c))
  <2>1. alerted' = alerted /\ worker' = worker
    BY <1>5 DEF MinutePasses, Arrive, LogActivity
  <2> QED
    BY <2>1, <1>4, <1>5 DEF LeadClockNext
<1>6. ASSUME NEW x \in ClockWorkers,
             \/ Work(x) /\ ~TellAdmins(x) /\ ~EscalateClaim(x)
             \/ WorkerDies(x)
             \/ \E leads \in SUBSET Leads : SyncBegin(x, leads)
             \/ \E l \in Leads : \/ TickOff(x, l) \/ Untick(x, l) \/ EscalateRead(x, l)
                                 \/ \E s \in LeadStatuses : Patch(x, l, s)
      PROVE  TellersOK' /\ EscalatedOnce'
  <2>1. alerted' = alerted
    BY <1>6 DEF Work, MarkResponded, FinishTask, Unmark, PatchLead, PatchTask, SyncCheck, WorkerDies, SyncBegin,
       TickOff, Untick, EscalateRead, Patch
  <2>2. \A y \in ClockWorkers : y # x => worker'[y] = worker[y]
    BY <1>6, <1>0 DEF Work, MarkResponded, FinishTask, Unmark, PatchLead, PatchTask, SyncCheck, WorkerDies, SyncBegin,
       TickOff, Untick, EscalateRead, Patch, NextLead, To, End, Start
  <2>3. worker'[x].pc # "tell"
    <3>1. CASE Work(x) /\ ~TellAdmins(x) /\ ~EscalateClaim(x)
      <4>1. (NextLead(x) \/ To(x, "finish") \/ To(x, "retask") \/ End(x)) => worker'[x].pc # "tell"
        <5>1. Off.pc = "idle" /\ [Off EXCEPT !.pc = "check", !.todo = worker[x].todo].pc = "check"
          BY DEF Off
        <5>2. NextLead(x) \/ End(x) => worker'[x].pc # "tell"
          BY <5>1, <1>0 DEF NextLead, End
        <5>3. To(x, "finish") \/ To(x, "retask") => worker'[x].pc # "tell"
          BY <1>0 DEF To, WorkerType
        <5> QED
          BY <5>2, <5>3
      <4>2. ASSUME NEW l \in Leads, SyncCheck(x, l)
            PROVE  worker'[x].pc # "tell"
        <5> DEFINE w == [worker[x] EXCEPT !.l = l, !.todo = @ \ {l}, !.via = Evidence(l), !.pc = "mark"]
        <5>1. w.pc = "mark" /\ Off.pc = "idle" /\ \A t : [Off EXCEPT !.pc = "check", !.todo = t].pc = "check"
          BY <1>0 DEF Off, WorkerType
        <5>2. worker'[x] \in {w, Off, [Off EXCEPT !.pc = "check", !.todo = w.todo]}
          BY <4>2, <1>0 DEF SyncCheck
        <5> QED
          BY <5>1, <5>2
      <4> QED
        BY <3>1, <4>1, <4>2 DEF Work, MarkResponded, FinishTask, Unmark, PatchLead, PatchTask
    <3>2. CASE WorkerDies(x)
      BY <3>2, <1>0 DEF WorkerDies, End, Off
    <3>3. ASSUME NEW w, Start(x, w), w.pc # "tell"
          PROVE  worker'[x].pc # "tell"
      BY <3>3, <1>0 DEF Start
    <3>4. CASE \/ \E leads \in SUBSET Leads : SyncBegin(x, leads)
               \/ \E l \in Leads : \/ TickOff(x, l) \/ Untick(x, l) \/ EscalateRead(x, l)
                                   \/ \E s \in LeadStatuses : Patch(x, l, s)
      BY <3>4, <3>3 DEF SyncBegin, TickOff, Untick, EscalateRead, Patch, Off
    <3> QED
      BY <1>6, <3>1, <3>2, <3>4
  <2>4. \A y \in ClockWorkers : worker'[y].pc = "tell" => worker'[y] = worker[y]
    BY <2>2, <2>3
  <2> QED
    BY <2>1, <2>4, <1>4, <1>6 DEF LeadClockNext
<1> QED
  BY <1>1, <1>2, <1>3, <1>5, <1>6 DEF LeadClockNext

(***************************************************************************)
(* The admins are told of a lead at most once, for every number of leads,  *)
(* workers and deaths among them (escalate_overdue).                       *)
(***************************************************************************)
THEOREM ToldOnce == LeadClockSpec => [](LeadClockTypeOK /\ EscalatedOnce)
<1>1. LeadClockInit => ClockInv
  BY ClockTypesInit, TellersInit DEF ClockInv
<1>2. ClockInv /\ [LeadClockNext]_clockVars => ClockInv'
  BY ClockTypesStep, TellersStep DEF ClockInv
<1>3. ClockInv => LeadClockTypeOK /\ EscalatedOnce
  BY DEF ClockInv, ClockTypes
<1> QED
  BY <1>1, <1>2, <1>3, PTL DEF LeadClockSpec

(***************************************************************************)
(* Only the inbox opens again a lead whose response its task did not       *)
(* record (task_status_changed).                                           *)
(***************************************************************************)
THEOREM OnlyTheInboxReopens == LeadClockSpec => OtherResponsesStay
<1> DEFINE Reopened == \A l \in Leads :
       (lead[l].status = "responded" /\ lead[l].via # "task_completed" /\ lead'[l].status = "new")
         => \E x \in ClockWorkers : ClockAt(x, "patch") /\ worker[x].l = l
<1>1. ClockTypes /\ [LeadClockNext]_clockVars => [Reopened]_clockVars
  <2> SUFFICES ASSUME ClockTypes, LeadClockNext
               PROVE  Reopened
    BY DEF clockVars
  <2>0. lead \in [Leads -> LeadType]
    BY DEF ClockTypes, LeadClockTypeOK
  <2> SUFFICES ASSUME NEW l \in Leads, lead[l].status = "responded", lead[l].via # "task_completed",
                      lead'[l].status = "new"
               PROVE  \E x \in ClockWorkers : ClockAt(x, "patch") /\ worker[x].l = l
    OBVIOUS
  <2>1. CASE UNCHANGED lead
    BY <2>1
  <2>2. ASSUME NEW k \in Leads, NEW c \in Contacts, Arrive(k, c)
        PROVE  FALSE
    BY <2>2, <2>0 DEF Arrive, LeadType
  <2>3. ASSUME NEW x \in ClockWorkers, MarkResponded(x) \/ Unmark(x) \/ EscalateClaim(x)
        PROVE  FALSE
    BY <2>3, <2>0 DEF MarkResponded, Responded, Unmark, ByTheTask, EscalateClaim, LeadType
  <2>4. ASSUME NEW x \in ClockWorkers, PatchLead(x)
        PROVE  ClockAt(x, "patch") /\ worker[x].l = l
    BY <2>4, <2>0 DEF PatchLead, LeadType
  <2> QED
    BY <2>1, <2>2, <2>3, <2>4 DEF LeadClockNext, Work, MinutePasses, LogActivity, FinishTask, PatchTask, TellAdmins,
       SyncCheck, WorkerDies, SyncBegin, TickOff, Untick, EscalateRead, Patch
<1>2. LeadClockInit => ClockTypes
  BY ClockTypesInit
<1>3. ClockTypes /\ [LeadClockNext]_clockVars => ClockTypes'
  BY ClockTypesStep
<1> QED
  BY <1>1, <1>2, <1>3, PTL DEF LeadClockSpec, OtherResponsesStay

-----------------------------------------------------------------------------
(* The ledger of sales.  A call that records has a case in hand, and what   *)
(* it has confirmed it knows until it is through.                           *)
CallType == [at : RecordingPcs, sweep : BOOLEAN, of : 0..NCases, open : SUBSET Cases, engaged : SUBSET Cases,
             stage : {"open", "won", "lost"}, contact : BOOLEAN, updated : BOOLEAN]
EntryType == [of : 0..NCases, claim : BOOLEAN, since : {"none", "fresh", "stale"}]
CasePcs == {"look", "replay", "derive", "insert", "sync", "confirm", "closeAfter", "finish"}
HolderPcs == {"sync", "confirm", "closeAfter", "finish"}

CallOK(w) ==
  /\ w \in CallType
  /\ w.at \in CasePcs => w.of \in Cases
  /\ w.updated => w.at \in {"finish", "close"}

LedgerTypes == LedgerTypeOK /\ \A r \in LedgerCallers : CallOK(recording[r])

(* Whoever has inserted the entry holds it, alone and unclaimed, until it   *)
(* is finished; the value confirmed is of the entry's case, and is known to *)
(* who holds the entry until the entry claims it, unless that call died.    *)
Holds(w) == w.at \in HolderPcs
EntryOK ==
  /\ \A r \in LedgerCallers : Holds(recording[r]) => entry.of = recording[r].of /\ ~entry.claim
  /\ \A q, r \in LedgerCallers : Holds(recording[q]) /\ Holds(recording[r]) => q = r
  /\ confirmed # 0 => confirmed = entry.of
  /\ entry.claim => confirmed # 0
  /\ \A r \in LedgerCallers : Holds(recording[r]) /\ recording[r].updated => confirmed # 0
  /\ confirmed # 0 /\ ledgerDeaths = 0 =>
       entry.claim \/ \E r \in LedgerCallers : Holds(recording[r]) /\ recording[r].updated

LedgerInv == LedgerTypes /\ EntryOK

LEMMA EntryAgrees == LedgerInv => LedgerAgrees
<1> SUFFICES ASSUME LedgerInv
             PROVE  LedgerAgrees
  OBVIOUS
<1>1. ClaimIsConfirmed
  BY DEF LedgerInv, EntryOK, ClaimIsConfirmed
<1>2. ~Holds(NoRecording)
  BY DEF Holds, NoRecording, HolderPcs
<1>3. CaseAgreesWithLedger
  BY <1>2 DEF LedgerInv, EntryOK, CaseAgreesWithLedger
<1> QED
  BY <1>1, <1>3 DEF LedgerAgrees

(* Every set of numbers has a least one. *)
LEMMA LeastNumber ==
  ASSUME NEW M, M \subseteq Nat, M # {}
  PROVE  \E i \in M : \A j \in M : i <= j
<1> DEFINE T == {0..i : i \in M}
<1>1. T \subseteq FiniteSubsetsOf(Nat) /\ T # {}
  <2>1. ASSUME NEW i \in M
        PROVE  0..i \in FiniteSubsetsOf(Nat)
    BY FS_Interval DEF FiniteSubsetsOf
  <2>2. QED BY <2>1
<1>2. PICK t \in T : \A u \in T : ~(<<u, t>> \in StrictSubsetOrdering(Nat))
  BY <1>1, FS_StrictSubsetOrderingWellFounded, WFMin
<1>3. PICK i \in M : t = 0..i
  OBVIOUS
<1>4. ASSUME NEW j \in M, ~(i <= j)
      PROVE  FALSE
  <2>1. 0..j \in SUBSET Nat /\ 0..i \in SUBSET Nat /\ 0..j \subseteq 0..i /\ 0..j # 0..i
    BY <1>4
  <2>2. <<0..j, 0..i>> \in StrictSubsetOrdering(Nat)
    BY <2>1 DEF StrictSubsetOrdering
  <2>3. QED BY <1>2, <1>3, <2>2
<1>5. QED BY <1>4

(* The earliest of some cases is one of them. *)
LEMMA EarliestIsOne ==
  ASSUME NEW s \in SUBSET Cases, s # {}
  PROVE  Earliest(s) \in s
<1>1. s \subseteq Nat
  BY LedgerAssumption DEF Cases
<1>2. \E c \in s : \A d \in s : c <= d
  BY <1>1, LeastNumber
<1> QED
  BY <1>2 DEF Earliest

-----------------------------------------------------------------------------
LEMMA NoRecordingIsOK == CallOK(NoRecording)
BY LedgerAssumption DEF CallOK, CallType, NoRecording, RecordingPcs, CasePcs

LEMMA LedgerStarts == LedgerInit => LedgerInv
<1> SUFFICES ASSUME LedgerInit
             PROVE  LedgerInv
  OBVIOUS
<1>1. entry \in EntryType /\ entry.of = 0 /\ ~entry.claim
  BY LedgerAssumption DEF LedgerInit, NoEntry, EntryType
<1>2. \A r \in LedgerCallers : recording[r] = NoRecording
  BY DEF LedgerInit
<1>3. recording \in [LedgerCallers -> CallType]
  BY <1>2, NoRecordingIsOK DEF LedgerInit, CallOK
<1>4. LedgerTypeOK
  BY <1>1, <1>3, LedgerAssumption DEF LedgerInit, LedgerTypeOK, EntryType, CallType, OpenStates
<1>5. ~Holds(NoRecording)
  BY DEF Holds, NoRecording, HolderPcs
<1>6. EntryOK
  BY <1>1, <1>2, <1>5 DEF LedgerInit, EntryOK
<1> QED
  BY <1>2, <1>4, <1>6, NoRecordingIsOK DEF LedgerInv, LedgerTypes

LEMMA CallBecomes ==
  ASSUME LedgerTypes, NEW r \in LedgerCallers, NEW w, CallOK(w), recording' = [recording EXCEPT ![r] = w]
  PROVE  recording' \in [LedgerCallers -> CallType] /\ \A q \in LedgerCallers : CallOK(recording'[q])
BY DEF LedgerTypes, LedgerTypeOK, CallType, CallOK

(* The calls after the step are as they should be. *)
CallsOK == recording' \in [LedgerCallers -> CallType] /\ \A q \in LedgerCallers : CallOK(recording'[q])

LEMMA CallEnds ==
  ASSUME LedgerTypes, NEW r \in LedgerCallers, Finishes(r)
  PROVE  CallsOK
BY CallBecomes, NoRecordingIsOK DEF Finishes, CallsOK

LEMMA CallProceeds ==
  ASSUME LedgerTypes, NEW r \in LedgerCallers, NEW pc \in RecordingPcs, Proceeds(r, pc),
         pc \in CasePcs => recording[r].of \in Cases,
         recording[r].updated => pc \in {"finish", "close"}
  PROVE  CallsOK
<1>1. recording \in [LedgerCallers -> CallType] /\ recording[r] \in CallType
  BY DEF LedgerTypes, LedgerTypeOK, CallType
<1>2. recording' = [recording EXCEPT ![r] = [recording[r] EXCEPT !.at = pc]]
  BY <1>1 DEF Proceeds
<1>3. CallOK([recording[r] EXCEPT !.at = pc])
  BY <1>1 DEF CallOK, CallType
<1> QED
  BY <1>2, <1>3, CallBecomes DEF CallsOK

LEMMA CallHasRecorded ==
  ASSUME LedgerTypes, NEW r \in LedgerCallers, NEW left \in SUBSET Cases, AfterRecord(r, left)
  PROVE  CallsOK
<1>1. recording \in [LedgerCallers -> CallType] /\ recording[r] \in CallType
  BY DEF LedgerTypes, LedgerTypeOK, CallType
<1>2. \/ recording' = [recording EXCEPT ![r] = [recording[r] EXCEPT !.at = "close", !.open = left]]
      \/ recording' = [recording EXCEPT ![r] = NoRecording]
  BY <1>1 DEF AfterRecord
<1>3. CallOK([recording[r] EXCEPT !.at = "close", !.open = left])
  BY <1>1 DEF CallOK, CallType, RecordingPcs, CasePcs
<1> QED
  BY <1>2, <1>3, NoRecordingIsOK, CallBecomes DEF CallsOK

States == OpenStates \cup {"recovered", "closed"}

LEMMA CaseCloses ==
  ASSUME LedgerTypes, NEW c
  PROVE  ClosedIfOpen(c) \in [Cases -> States]
BY DEF LedgerTypes, LedgerTypeOK, ClosedIfOpen, States

LEMMA CaseEngages ==
  ASSUME LedgerTypes, NEW c \in Cases
  PROVE  Engaged(c) \in States
BY DEF LedgerTypes, LedgerTypeOK, Engaged, States, OpenStates

LEMMA LedgerTypesStep == LedgerTypes /\ [LedgerNext]_ledgerVars => LedgerTypes'
<1> SUFFICES ASSUME LedgerTypes, [LedgerNext]_ledgerVars
             PROVE  LedgerTypes'
  OBVIOUS
<1>0. /\ dealStage \in {"open", "won", "lost"} /\ casing \in [Cases -> States] /\ confirmed \in 0..NCases
      /\ reachedBy \in [Cases -> {"none", "contact", "faded"}]
      /\ record \in [Cases -> {"unresolved", "answered", "ended"}] /\ entry \in EntryType
      /\ recording \in [LedgerCallers -> CallType] /\ \A r \in LedgerCallers : CallOK(recording[r])
      /\ moves \in 0..MaxMoves /\ ledgerDeaths \in 0..MaxLedgerDeaths
  BY DEF LedgerTypes, LedgerTypeOK, States, EntryType, CallType
<1>q. ASSUME dealStage' \in {"open", "won", "lost"}, casing' \in [Cases -> States], confirmed' \in 0..NCases,
             reachedBy' \in [Cases -> {"none", "contact", "faded"}],
             record' \in [Cases -> {"unresolved", "answered", "ended"}], entry' \in EntryType,
             moves' \in 0..MaxMoves, ledgerDeaths' \in 0..MaxLedgerDeaths, CallsOK
      PROVE  LedgerTypes'
  BY <1>q DEF LedgerTypes, LedgerTypeOK, States, EntryType, CallType, CallsOK
<1>u. recording' = recording => CallsOK
  BY <1>0 DEF CallsOK
<1>c. \A r \in LedgerCallers : /\ recording[r] \in CallType
                               /\ recording[r].at \in CasePcs => recording[r].of \in Cases
                               /\ recording[r].updated => recording[r].at \in {"finish", "close"}
  BY <1>0 DEF CallOK
<1>m. moves < MaxMoves => moves + 1 \in 0..MaxMoves
  BY <1>0, LedgerAssumption
<1>1. CASE UNCHANGED ledgerVars
  BY <1>1, <1>0, <1>q, <1>u DEF ledgerVars
<1>2. CASE MoveDeal \/ GoStale
  <2>1. CASE MoveDeal
    BY <2>1, <1>0, <1>q, <1>u, <1>m DEF MoveDeal
  <2>2. CASE GoStale
    <3>1. [entry EXCEPT !.since = "stale"] \in EntryType
      BY <1>0 DEF EntryType
    <3> QED
      BY <3>1, <2>2, <1>0, <1>q, <1>u DEF GoStale
  <2> QED
    BY <1>2, <2>1, <2>2
<1>3. ASSUME NEW c \in Cases, MoveCase(c) \/ ResolveRecord(c) \/ Fade(c)
      PROVE  LedgerTypes'
  <2>1. CASE MoveCase(c)
    <3>1. casing' \in [Cases -> States]
      BY <2>1, <1>0 DEF MoveCase, States, OpenStates
    <3>2. reachedBy' \in [Cases -> {"none", "contact", "faded"}]
      BY <2>1, <1>0 DEF MoveCase
    <3> QED
      BY <3>1, <3>2, <2>1, <1>0, <1>q, <1>u, <1>m DEF MoveCase
  <2>2. CASE ResolveRecord(c)
    <3>1. record' \in [Cases -> {"unresolved", "answered", "ended"}]
      BY <2>2, <1>0 DEF ResolveRecord
    <3> QED
      BY <3>1, <2>2, <1>0, <1>q, <1>u, <1>m DEF ResolveRecord
  <2>3. CASE Fade(c)
    <3>1. reachedBy' \in [Cases -> {"none", "contact", "faded"}]
      BY <2>3, <1>0 DEF Fade
    <3> QED
      BY <3>1, <2>3, <1>0, <1>q, <1>u, <1>m DEF Fade
  <2> QED
    BY <1>3, <2>1, <2>2, <2>3
<1>4. ASSUME NEW c \in Cases, NEW r \in LedgerCallers, AskToRecord(r, c)
      PROVE  LedgerTypes'
  <2>1. CallOK([NoRecording EXCEPT !.at = "look", !.of = c])
    <3>1. c \in 0..NCases
      BY LedgerAssumption DEF Cases
    <3>2. [NoRecording EXCEPT !.at = "look", !.of = c] \in CallType
      BY <3>1 DEF CallType, NoRecording, RecordingPcs
    <3>3. [NoRecording EXCEPT !.at = "look", !.of = c].of = c /\ ~[NoRecording EXCEPT !.at = "look", !.of = c].updated
      BY DEF NoRecording
    <3> QED
      BY <3>2, <3>3 DEF CallOK
  <2>2. CallsOK
    BY <2>1, <1>4, CallBecomes DEF AskToRecord, CallsOK
  <2> QED
    BY <2>2, <1>4, <1>0, <1>q DEF AskToRecord
<1>5. ASSUME NEW r \in LedgerCallers, LookForSale(r)
      PROVE  LedgerTypes'
  <2>1. recording[r].at = "look" /\ recording[r].open \in SUBSET Cases /\ recording[r].of \in Cases
    BY <1>5, <1>c DEF LookForSale, Doing, CallType, CasePcs
  <2>2. AfterRecord(r, recording[r].open) \/ Proceeds(r, "derive") \/ Proceeds(r, "replay")
    BY <1>5 DEF LookForSale
  <2>3. CallsOK
    BY <2>1, <2>2, <1>c, CallHasRecorded, CallProceeds DEF RecordingPcs
  <2> QED
    BY <2>3, <1>5, <1>0, <1>q DEF LookForSale
<1>6. ASSUME NEW r \in LedgerCallers, Replay(r)
      PROVE  LedgerTypes'
  <2>1. recording[r].open \ {recording[r].of} \in SUBSET Cases
    BY <1>c DEF CallType
  <2>2. CallsOK
    BY <2>1, <1>6, CallHasRecorded DEF Replay
  <2> QED
    BY <2>2, <1>6, <1>0, <1>q, CaseCloses DEF Replay
<1>7. ASSUME NEW r \in LedgerCallers, DeriveBasis(r)
      PROVE  LedgerTypes'
  <2> DEFINE b == (reachedBy[recording[r].of] = "contact")
  <2>1. recording[r].at = "derive" /\ recording[r] \in CallType /\ recording[r].of \in Cases /\ ~recording[r].updated
    BY <1>7, <1>c DEF DeriveBasis, Doing, CasePcs
  <2>2. CallOK([recording[r] EXCEPT !.at = "insert", !.contact = b])
    BY <2>1 DEF CallOK, CallType, RecordingPcs
  <2>3. recording' = [recording EXCEPT ![r] = [recording[r] EXCEPT !.at = "insert", !.contact = b]]
    BY <1>7, <1>0 DEF DeriveBasis
  <2>4. CallsOK
    BY <2>2, <2>3, CallBecomes DEF CallsOK
  <2> QED
    BY <2>4, <1>7, <1>0, <1>q DEF DeriveBasis
<1>8. ASSUME NEW r \in LedgerCallers, InsertEntry(r)
      PROVE  LedgerTypes'
  <2>1. recording[r].at = "insert" /\ recording[r] \in CallType /\ recording[r].of \in Cases /\ ~recording[r].updated
    BY <1>8, <1>c DEF InsertEntry, Doing, CasePcs
  <2>2. CASE entry.of = 0
    <3>1. entry' = [of |-> recording[r].of, claim |-> FALSE,
                    since |-> IF recording[r].contact THEN "fresh" ELSE "none"]
      BY <2>2, <1>8 DEF InsertEntry
    <3>2. entry' \in EntryType
      BY <3>1, <2>1 DEF EntryType, CallType
    <3>3. Proceeds(r, "sync") \/ Proceeds(r, "closeAfter")
      BY <2>2, <1>8 DEF InsertEntry
    <3>4. CallsOK
      BY <3>3, <2>1, CallProceeds DEF RecordingPcs
    <3> QED
      BY <3>2, <3>4, <1>8, <1>0, <1>q DEF InsertEntry
  <2>3. CASE entry.of # 0
    <3> DEFINE left == recording[r].open \ IF entry.of = recording[r].of THEN {entry.of} ELSE {}
    <3>1. left \in SUBSET Cases
      BY <2>1 DEF CallType
    <3>2. AfterRecord(r, left) /\ entry' = entry
      BY <2>3, <1>8 DEF InsertEntry
    <3> HIDE DEF left
    <3>3. CallsOK
      BY <3>1, <3>2, CallHasRecorded
    <3> QED
      BY <3>2, <3>3, <1>8, <1>0, <1>q DEF InsertEntry
  <2> QED
    BY <2>2, <2>3
<1>9. ASSUME NEW r \in LedgerCallers, SyncEngagement(r)
      PROVE  LedgerTypes'
  <2>1. recording[r].at = "sync" /\ recording[r].of \in Cases /\ ~recording[r].updated
    BY <1>9, <1>c DEF SyncEngagement, Doing, CasePcs
  <2>2. CallsOK
    BY <2>1, <1>9, CallProceeds DEF SyncEngagement, RecordingPcs
  <2>3. casing' \in [Cases -> States]
    BY <2>1, <1>9, <1>0, CaseEngages DEF SyncEngagement
  <2> QED
    BY <2>2, <2>3, <1>9, <1>0, <1>q DEF SyncEngagement
<1>10. ASSUME NEW r \in LedgerCallers, ConfirmRecovery(r)
       PROVE  LedgerTypes'
  <2>1. recording[r].at = "confirm" /\ recording[r] \in CallType /\ recording[r].of \in Cases /\ ~recording[r].updated
    BY <1>10, <1>c DEF ConfirmRecovery, Doing, CasePcs
  <2>2. CASE casing[recording[r].of] = "engaged"
    <3>1. CallOK([recording[r] EXCEPT !.at = "finish", !.updated = TRUE])
      BY <2>1 DEF CallOK, CallType, RecordingPcs
    <3>2. recording' = [recording EXCEPT ![r] = [recording[r] EXCEPT !.at = "finish", !.updated = TRUE]]
      BY <2>2, <1>10, <1>0 DEF ConfirmRecovery
    <3>3. CallsOK
      BY <3>1, <3>2, CallBecomes DEF CallsOK
    <3>4. casing' \in [Cases -> States] /\ confirmed' \in 0..NCases
      BY <2>1, <2>2, <1>10, <1>0, LedgerAssumption DEF ConfirmRecovery, States, Cases
    <3> QED
      BY <3>3, <3>4, <1>10, <1>0, <1>q DEF ConfirmRecovery
  <2>3. CASE casing[recording[r].of] # "engaged"
    <3>1. CallsOK
      BY <2>1, <2>3, <1>10, CallProceeds DEF ConfirmRecovery, RecordingPcs
    <3> QED
      BY <3>1, <2>3, <1>10, <1>0, <1>q DEF ConfirmRecovery
  <2> QED
    BY <2>2, <2>3
<1>11. ASSUME NEW r \in LedgerCallers, CloseAfter(r)
       PROVE  LedgerTypes'
  <2>1. recording[r].at = "closeAfter" /\ recording[r].of \in Cases
    BY <1>11, <1>c DEF CloseAfter, Doing, CasePcs
  <2>2. CallsOK
    BY <2>1, <1>11, CallProceeds DEF CloseAfter, RecordingPcs
  <2> QED
    BY <2>2, <1>11, <1>0, <1>q, CaseCloses DEF CloseAfter
<1>12. ASSUME NEW r \in LedgerCallers, FinishEntry(r)
       PROVE  LedgerTypes'
  <2>1. recording[r].open \ {recording[r].of} \in SUBSET Cases /\ recording[r].updated \in BOOLEAN
    BY <1>c DEF CallType
  <2>2. CallsOK
    BY <2>1, <1>12, CallHasRecorded DEF FinishEntry
  <2>3. entry' \in EntryType
    BY <2>1, <1>12, <1>0 DEF FinishEntry, Claims, EntryType
  <2> QED
    BY <2>2, <2>3, <1>12, <1>0, <1>q DEF FinishEntry
<1>13. ASSUME NEW r \in LedgerCallers, ReadCases(r)
       PROVE  LedgerTypes'
  <2> DEFINE s == {c \in Cases : IsOpen(c)}
             w == [NoRecording EXCEPT !.at = "deal", !.sweep = TRUE, !.open = s,
                                      !.engaged = {c \in s : casing[c] = "engaged"}]
  <2>1. CallOK(w)
    <3>1. s \in SUBSET Cases /\ {c \in s : casing[c] = "engaged"} \in SUBSET Cases /\ 0 \in 0..NCases
      BY LedgerAssumption
    <3>2. w.at = "deal" /\ w.updated = FALSE
      BY DEF NoRecording
    <3>3. w \in CallType
      BY <3>1 DEF CallType, NoRecording, RecordingPcs
    <3> QED
      BY <3>2, <3>3 DEF CallOK, CasePcs
  <2>2. recording' = [recording EXCEPT ![r] = w]
    BY <1>13 DEF ReadCases
  <2> HIDE DEF w
  <2>3. CallsOK
    BY <2>1, <2>2, CallBecomes DEF CallsOK
  <2> QED
    BY <2>3, <1>13, <1>0, <1>q DEF ReadCases
<1>14. ASSUME NEW r \in LedgerCallers, ReadDealStage(r)
       PROVE  LedgerTypes'
  <2>1. recording[r].at = "deal" /\ recording[r] \in CallType /\ ~recording[r].updated
    BY <1>14, <1>c DEF ReadDealStage, Doing
  <2>2. CallOK([recording[r] EXCEPT !.at = "flight", !.stage = dealStage])
    BY <2>1, <1>0 DEF CallOK, CallType, RecordingPcs, CasePcs
  <2>3. recording' = [recording EXCEPT ![r] = [recording[r] EXCEPT !.at = "flight", !.stage = dealStage]]
    BY <1>14, <1>0 DEF ReadDealStage
  <2>4. CallsOK
    BY <2>2, <2>3, CallBecomes DEF CallsOK
  <2> QED
    BY <2>4, <1>14, <1>0, <1>q DEF ReadDealStage
<1>15. ASSUME NEW r \in LedgerCallers, ReadInFlight(r)
       PROVE  LedgerTypes'
  <2> DEFINE left == IF FreshEntry THEN recording[r].open \ {entry.of} ELSE recording[r].open
  <2>1. recording[r].at = "flight" /\ recording[r] \in CallType /\ ~recording[r].updated
    BY <1>15, <1>c DEF ReadInFlight, Doing
  <2>2. CallOK([recording[r] EXCEPT !.at = "ledger", !.open = left])
    BY <2>1 DEF CallOK, CallType, RecordingPcs, CasePcs
  <2>3. recording' = [recording EXCEPT ![r] = [recording[r] EXCEPT !.at = "ledger", !.open = left]]
    BY <1>15, <1>0 DEF ReadInFlight
  <2>4. CallsOK
    BY <2>2, <2>3, CallBecomes DEF CallsOK
  <2> QED
    BY <2>4, <1>15, <1>0, <1>q DEF ReadInFlight
<1>16. ASSUME NEW r \in LedgerCallers, CloseBooked(r)
       PROVE  LedgerTypes'
  <2>1. recording[r].at = "ledger" /\ recording[r] \in CallType /\ ~recording[r].updated
    BY <1>16, <1>c DEF CloseBooked, Doing
  <2>2. CallOK([recording[r] EXCEPT !.at = "engage", !.open = @ \ {entry.of}])
    BY <2>1 DEF CallOK, CallType, RecordingPcs, CasePcs
  <2>3. recording' = [recording EXCEPT ![r] = [recording[r] EXCEPT !.at = "engage", !.open = @ \ {entry.of}]]
    BY <1>16, <1>0 DEF CloseBooked
  <2>4. CallsOK
    BY <2>2, <2>3, CallBecomes DEF CallsOK
  <2>5. casing' \in [Cases -> States]
    BY <1>16, <1>0, CaseCloses DEF CloseBooked
  <2> QED
    BY <2>4, <2>5, <1>16, <1>0, <1>q DEF CloseBooked
<1>17. ASSUME NEW r \in LedgerCallers, EngageCases(r)
       PROVE  LedgerTypes'
  <2> DEFINE moved == {c \in recording[r].open : Engaged(c) # casing[c]}
  <2>1. recording[r].at = "engage" /\ recording[r] \in CallType /\ ~recording[r].updated
    BY <1>17, <1>c DEF EngageCases, Doing
  <2>2. CallOK([recording[r] EXCEPT !.at = "settle", !.engaged = @ \cup moved])
    BY <2>1 DEF CallOK, CallType, RecordingPcs, CasePcs
  <2>3. recording' = [recording EXCEPT ![r] = [recording[r] EXCEPT !.at = "settle", !.engaged = @ \cup moved]]
    BY <1>17, <1>0 DEF EngageCases
  <2>4. CallsOK
    BY <2>2, <2>3, CallBecomes DEF CallsOK
  <2>5. casing' = [c \in Cases |-> IF c \in moved THEN "engaged" ELSE casing[c]]
    BY <1>17 DEF EngageCases
  <2> HIDE DEF moved
  <2>6. casing' \in [Cases -> States]
    BY <2>5, <1>0 DEF States, OpenStates
  <2> QED
    BY <2>4, <2>6, <1>17, <1>0, <1>q DEF EngageCases
<1>18. ASSUME NEW r \in LedgerCallers, SettleSale(r)
       PROVE  LedgerTypes'
  <2> DEFINE s == recording[r].open
  <2>1. recording[r].at = "settle" /\ recording[r] \in CallType /\ ~recording[r].updated /\ s \in SUBSET Cases
    BY <1>18, <1>c DEF SettleSale, Doing, CallType
  <2>2. \/ Finishes(r) \/ Proceeds(r, "close") \/ Proceeds(r, "verdicts")
        \/ s # {} /\ recording' = [recording EXCEPT ![r].at = "look", ![r].of = Earliest(Claimants(s))]
    BY <1>18 DEF SettleSale
  <2>3. CASE s # {} /\ recording' = [recording EXCEPT ![r].at = "look", ![r].of = Earliest(Claimants(s))]
    <3>1. Claimants(s) \in SUBSET Cases /\ Claimants(s) # {}
      BY <2>1, <2>3 DEF Claimants
    <3>2. PICK e \in Cases : e = Earliest(Claimants(s))
      BY <3>1, EarliestIsOne
    <3>3. CallOK([recording[r] EXCEPT !.at = "look", !.of = e])
      <4>1. e \in 0..NCases
        BY LedgerAssumption DEF Cases
      <4>2. [recording[r] EXCEPT !.at = "look", !.of = e] \in CallType
        BY <2>1, <4>1 DEF CallType, RecordingPcs
      <4>3. /\ [recording[r] EXCEPT !.at = "look", !.of = e].of = e
            /\ ~[recording[r] EXCEPT !.at = "look", !.of = e].updated
        BY <2>1 DEF CallType
      <4> QED
        BY <4>2, <4>3 DEF CallOK
    <3>4. recording' = [recording EXCEPT ![r] = [recording[r] EXCEPT !.at = "look", !.of = e]]
      BY <2>3, <3>2, <1>0
    <3> QED
      BY <3>3, <3>4, CallBecomes, <1>18, <1>0, <1>q DEF CallsOK, SettleSale
  <2>4. CASE Finishes(r) \/ Proceeds(r, "close") \/ Proceeds(r, "verdicts")
    <3>1. CallsOK
      BY <2>1, <2>4, CallEnds, CallProceeds DEF RecordingPcs, CasePcs
    <3> QED
      BY <3>1, <1>18, <1>0, <1>q DEF SettleSale
  <2> QED
    BY <2>2, <2>3, <2>4
<1>19. ASSUME NEW r \in LedgerCallers, ReadVerdicts(r)
       PROVE  LedgerTypes'
  <2> DEFINE left == {c \in recording[r].open :
                        HardVerdict(c) \/ (SoftVerdict(c) /\ c \notin recording[r].engaged)
                          \/ (WindowElapsed(c) /\ c \in recording[r].engaged)}
  <2>1. recording[r].at = "verdicts" /\ recording[r] \in CallType /\ ~recording[r].updated
    BY <1>19, <1>c DEF ReadVerdicts, Doing
  <2>2. recording' = [recording EXCEPT ![r] = [recording[r] EXCEPT !.at = "close", !.open = left]]
    BY <1>19, <1>0 DEF ReadVerdicts
  <2>3. left \in SUBSET Cases
    BY <2>1 DEF CallType
  <2> HIDE DEF left
  <2>4. CallOK([recording[r] EXCEPT !.at = "close", !.open = left])
    BY <2>1, <2>3 DEF CallOK, CallType, RecordingPcs, CasePcs
  <2>5. CallsOK
    BY <2>2, <2>4, CallBecomes DEF CallsOK
  <2> QED
    BY <2>5, <1>19, <1>0, <1>q DEF ReadVerdicts
<1>20. ASSUME NEW r \in LedgerCallers, CloseOne(r)
       PROVE  LedgerTypes'
  <2> DEFINE e == Earliest(recording[r].open)
  <2>1. recording[r].at = "close" /\ recording[r] \in CallType
    BY <1>20, <1>c DEF CloseOne, Doing
  <2>2. CASE recording[r].open = {}
    BY <2>2, <1>20, <1>0, <1>q, CallEnds DEF CloseOne
  <2>3. CASE recording[r].open # {}
    <3>1. /\ casing' = ClosedIfOpen(e)
          /\ recording' = [recording EXCEPT ![r] = [recording[r] EXCEPT !.open = @ \ {e}]]
      BY <2>3, <1>20, <1>0 DEF CloseOne
    <3> HIDE DEF e
    <3>2. CallOK([recording[r] EXCEPT !.open = @ \ {e}])
      BY <2>1 DEF CallOK, CallType, CasePcs
    <3>3. CallsOK
      BY <3>1, <3>2, CallBecomes DEF CallsOK
    <3> QED
      BY <3>1, <3>3, <1>20, <1>0, <1>q, CaseCloses DEF CloseOne
  <2> QED
    BY <2>2, <2>3
<1>21. ASSUME NEW r \in LedgerCallers, RecorderDies(r)
       PROVE  LedgerTypes'
  <2>1. ledgerDeaths' \in 0..MaxLedgerDeaths
    BY <1>21, <1>0, LedgerAssumption DEF RecorderDies
  <2> QED
    BY <2>1, <1>21, <1>0, <1>q, CallEnds DEF RecorderDies
<1> QED
  BY <1>1, <1>2, <1>3, <1>4, <1>5, <1>6, <1>7, <1>8, <1>9, <1>10, <1>11, <1>12, <1>13, <1>14, <1>15, <1>16, <1>17,
     <1>18, <1>19, <1>20, <1>21
  DEF LedgerNext, RecordStep, SweepStep

-----------------------------------------------------------------------------
(* A step that writes neither the entry nor the value, and makes of one     *)
(* call a holder only if it was one, leaves them in agreement.              *)
LEMMA QuietCall ==
  ASSUME LedgerTypes, EntryOK, NEW r \in LedgerCallers, NEW w, recording' = [recording EXCEPT ![r] = w],
         UNCHANGED <<entry, confirmed, ledgerDeaths>>,
         Holds(w) <=> Holds(recording[r]),
         Holds(w) => w.of = recording[r].of /\ w.updated = recording[r].updated
  PROVE  EntryOK'
<1>1. recording'[r] = w /\ \A q \in LedgerCallers : q # r => recording'[q] = recording[q]
  BY DEF LedgerTypes, LedgerTypeOK
<1>2. \A q \in LedgerCallers :
        /\ Holds(recording'[q]) <=> Holds(recording[q])
        /\ Holds(recording'[q]) => recording'[q].of = recording[q].of /\ recording'[q].updated = recording[q].updated
  BY <1>1
<1> QED
  BY <1>2 DEF EntryOK

LEMMA CallEndsQuietly ==
  ASSUME LedgerTypes, EntryOK, NEW r \in LedgerCallers, ~Holds(recording[r]),
         UNCHANGED <<entry, confirmed, ledgerDeaths>>,
         Finishes(r) \/ \E left : AfterRecord(r, left)
  PROVE  EntryOK'
<1>1. recording[r] \in CallType
  BY DEF LedgerTypes, CallOK
<1>2. ~Holds(NoRecording) /\ \A left : ~Holds([recording[r] EXCEPT !.at = "close", !.open = left])
  BY <1>1 DEF Holds, NoRecording, HolderPcs, CallType
<1>3. \E w : recording' = [recording EXCEPT ![r] = w] /\ ~Holds(w)
  <2>1. CASE Finishes(r)
    BY <2>1, <1>2 DEF Finishes
  <2>2. ASSUME NEW left, AfterRecord(r, left)
        PROVE  \E w : recording' = [recording EXCEPT ![r] = w] /\ ~Holds(w)
    BY <2>2, <1>2 DEF AfterRecord, LedgerTypes, LedgerTypeOK
  <2> QED
    BY <2>1, <2>2
<1> QED
  BY <1>3, QuietCall

LEMMA CallProceedsQuietly ==
  ASSUME LedgerTypes, EntryOK, NEW r \in LedgerCallers, NEW pc, Proceeds(r, pc),
         pc \in HolderPcs <=> Holds(recording[r]),
         UNCHANGED <<entry, confirmed, ledgerDeaths>>
  PROVE  EntryOK'
<1> DEFINE w == [recording[r] EXCEPT !.at = pc]
<1>1. recording[r] \in CallType
  BY DEF LedgerTypes, CallOK
<1>2. recording' = [recording EXCEPT ![r] = w]
  BY DEF Proceeds, LedgerTypes, LedgerTypeOK
<1>3. w.at = pc /\ w.of = recording[r].of /\ w.updated = recording[r].updated
  BY <1>1 DEF CallType
<1> HIDE DEF w
<1> QED
  BY <1>2, <1>3, QuietCall DEF Holds

LEMMA EntryStep == LedgerTypes /\ EntryOK /\ [LedgerNext]_ledgerVars => EntryOK'
<1> SUFFICES ASSUME LedgerTypes, EntryOK, [LedgerNext]_ledgerVars
             PROVE  EntryOK'
  OBVIOUS
<1>0. /\ confirmed \in 0..NCases /\ entry \in EntryType /\ ledgerDeaths \in Nat
      /\ recording \in [LedgerCallers -> CallType]
  BY LedgerAssumption DEF LedgerTypes, LedgerTypeOK, EntryType, CallType
<1>c. \A r \in LedgerCallers : /\ recording[r] \in CallType
                               /\ recording[r].at \in CasePcs => recording[r].of \in Cases
                               /\ recording[r].updated => recording[r].at \in {"finish", "close"}
  BY DEF LedgerTypes, CallOK
<1>n. ~Holds(NoRecording)
  BY DEF Holds, NoRecording, HolderPcs
<1>1. CASE UNCHANGED <<recording, entry, confirmed, ledgerDeaths>>
  BY <1>1 DEF EntryOK
<1>2. CASE GoStale
  <2>1. entry'.of = entry.of /\ entry'.claim = entry.claim
    BY <1>2, <1>0 DEF GoStale, EntryType
  <2> QED
    BY <2>1, <1>2 DEF GoStale, EntryOK
<1>3. ASSUME NEW r \in LedgerCallers,
             \/ \E c \in Cases : AskToRecord(r, c)
             \/ DeriveBasis(r) \/ ReadCases(r) \/ ReadDealStage(r) \/ ReadInFlight(r) \/ CloseBooked(r)
             \/ EngageCases(r) \/ ReadVerdicts(r)
      PROVE  EntryOK'
  <2>1. UNCHANGED <<entry, confirmed, ledgerDeaths>>
    BY <1>3 DEF AskToRecord, DeriveBasis, ReadCases, ReadDealStage, ReadInFlight, CloseBooked, EngageCases, ReadVerdicts
  <2>2. ~Holds(recording[r])
    BY <1>3, <1>n DEF AskToRecord, DeriveBasis, ReadCases, ReadDealStage, ReadInFlight, CloseBooked, EngageCases,
       ReadVerdicts, Doing, Holds, HolderPcs
  <2>3. \A w \in CallType \cup {NoRecording} :
          /\ \A c : ~Holds([w EXCEPT !.at = "look", !.of = c])
          /\ \A b : ~Holds([w EXCEPT !.at = "insert", !.contact = b])
          /\ \A s, e : ~Holds([w EXCEPT !.at = "deal", !.sweep = TRUE, !.open = s, !.engaged = e])
          /\ \A d : ~Holds([w EXCEPT !.at = "flight", !.stage = d])
          /\ \A s : ~Holds([w EXCEPT !.at = "ledger", !.open = s])
          /\ \A s : ~Holds([w EXCEPT !.at = "engage", !.open = s])
          /\ \A s : ~Holds([w EXCEPT !.at = "settle", !.engaged = s])
          /\ \A s : ~Holds([w EXCEPT !.at = "close", !.open = s])
    BY DEF Holds, HolderPcs, CallType, NoRecording
  <2>4. \E w : recording' = [recording EXCEPT ![r] = w] /\ ~Holds(w)
    <3>1. ASSUME NEW c \in Cases, AskToRecord(r, c)
          PROVE  \E w : recording' = [recording EXCEPT ![r] = w] /\ ~Holds(w)
      BY <3>1, <2>3 DEF AskToRecord
    <3>2. CASE ReadCases(r)
      BY <3>2, <2>3 DEF ReadCases
    <3>3. CASE DeriveBasis(r)
      <4>1. \E b : recording' = [recording EXCEPT ![r] = [recording[r] EXCEPT !.at = "insert", !.contact = b]]
        BY <3>3, <1>0 DEF DeriveBasis
      <4> QED
        BY <4>1, <1>c, <2>3
    <3>4. CASE ReadDealStage(r)
      <4>1. \E d : recording' = [recording EXCEPT ![r] = [recording[r] EXCEPT !.at = "flight", !.stage = d]]
        BY <3>4, <1>0 DEF ReadDealStage
      <4> QED
        BY <4>1, <1>c, <2>3
    <3>5. CASE ReadInFlight(r)
      <4>1. \E s : recording' = [recording EXCEPT ![r] = [recording[r] EXCEPT !.at = "ledger", !.open = s]]
        BY <3>5, <1>0 DEF ReadInFlight
      <4> QED
        BY <4>1, <1>c, <2>3
    <3>6. CASE CloseBooked(r)
      <4>1. \E s : recording' = [recording EXCEPT ![r] = [recording[r] EXCEPT !.at = "engage", !.open = s]]
        BY <3>6, <1>0 DEF CloseBooked
      <4> QED
        BY <4>1, <1>c, <2>3
    <3>7. CASE EngageCases(r)
      <4>1. \E s : recording' = [recording EXCEPT ![r] = [recording[r] EXCEPT !.at = "settle", !.engaged = s]]
        BY <3>7, <1>0 DEF EngageCases
      <4> QED
        BY <4>1, <1>c, <2>3
    <3>8. CASE ReadVerdicts(r)
      <4>1. \E s : recording' = [recording EXCEPT ![r] = [recording[r] EXCEPT !.at = "close", !.open = s]]
        BY <3>8, <1>0 DEF ReadVerdicts
      <4> QED
        BY <4>1, <1>c, <2>3
    <3> QED
      BY <1>3, <3>1, <3>2, <3>3, <3>4, <3>5, <3>6, <3>7, <3>8
  <2> QED
    BY <2>1, <2>2, <2>4, QuietCall
<1>4. ASSUME NEW r \in LedgerCallers, LookForSale(r) \/ Replay(r)
      PROVE  EntryOK'
  <2>1. UNCHANGED <<entry, confirmed, ledgerDeaths>> /\ ~Holds(recording[r])
    BY <1>4 DEF LookForSale, Replay, Doing, Holds, HolderPcs
  <2>2. (\E left : AfterRecord(r, left)) \/ Proceeds(r, "derive") \/ Proceeds(r, "replay")
    BY <1>4 DEF LookForSale, Replay
  <2> QED
    BY <2>1, <2>2, CallEndsQuietly, CallProceedsQuietly DEF HolderPcs
<1>5. ASSUME NEW r \in LedgerCallers, SettleSale(r) \/ CloseOne(r)
      PROVE  EntryOK'
  <2>1. UNCHANGED <<entry, confirmed, ledgerDeaths>> /\ ~Holds(recording[r])
    BY <1>5 DEF SettleSale, CloseOne, Doing, Holds, HolderPcs
  <2>2. \/ Finishes(r) \/ Proceeds(r, "close") \/ Proceeds(r, "verdicts")
        \/ \E c : recording' = [recording EXCEPT ![r].at = "look", ![r].of = c]
        \/ recording[r].at = "close" /\ \E s : recording' = [recording EXCEPT ![r].open = s]
    BY <1>5, <1>0 DEF SettleSale, CloseOne, Doing
  <2>3. ASSUME NEW c, recording' = [recording EXCEPT ![r].at = "look", ![r].of = c]
        PROVE  EntryOK'
    <3>1. recording' = [recording EXCEPT ![r] = [recording[r] EXCEPT !.at = "look", !.of = c]]
      BY <2>3, <1>0
    <3>2. ~Holds([recording[r] EXCEPT !.at = "look", !.of = c])
      BY <1>c DEF Holds, HolderPcs, CallType
    <3> QED
      BY <3>1, <3>2, <2>1, QuietCall
  <2>4. ASSUME recording[r].at = "close", NEW s, recording' = [recording EXCEPT ![r].open = s]
        PROVE  EntryOK'
    <3>1. recording' = [recording EXCEPT ![r] = [recording[r] EXCEPT !.open = s]]
      BY <2>4, <1>0
    <3>2. ~Holds([recording[r] EXCEPT !.open = s])
      BY <2>4, <1>c DEF Holds, HolderPcs, CallType
    <3> QED
      BY <3>1, <3>2, <2>1, QuietCall
  <2> QED
    BY <2>1, <2>2, <2>3, <2>4, CallEndsQuietly, CallProceedsQuietly DEF HolderPcs
<1>6. ASSUME NEW r \in LedgerCallers, SyncEngagement(r) \/ CloseAfter(r)
      PROVE  EntryOK'
  <2>1. UNCHANGED <<entry, confirmed, ledgerDeaths>> /\ Holds(recording[r])
    BY <1>6 DEF SyncEngagement, CloseAfter, Doing, Holds, HolderPcs
  <2>2. Proceeds(r, "confirm") \/ Proceeds(r, "finish")
    BY <1>6 DEF SyncEngagement, CloseAfter
  <2> QED
    BY <2>1, <2>2, CallProceedsQuietly DEF HolderPcs
<1>7. ASSUME NEW r \in LedgerCallers, InsertEntry(r)
      PROVE  EntryOK'
  <2>1. recording[r].at = "insert" /\ ~Holds(recording[r]) /\ recording[r].of \in Cases /\ ~recording[r].updated
    BY <1>7, <1>c DEF InsertEntry, Doing, Holds, HolderPcs, CasePcs
  <2>2. CASE entry.of # 0
    BY <2>1, <2>2, <1>7, CallEndsQuietly DEF InsertEntry
  <2>3. CASE entry.of = 0
    <3>1. \A q \in LedgerCallers : ~Holds(recording[q])
      <4> SUFFICES ASSUME NEW q \in LedgerCallers, Holds(recording[q])
                   PROVE  FALSE
        OBVIOUS
      <4>1. recording[q].of = 0
        BY <2>3 DEF EntryOK
      <4>2. recording[q].of \in Cases
        BY <1>c DEF Holds, HolderPcs, CasePcs
      <4> QED
        BY <4>1, <4>2, LedgerAssumption DEF Cases
    <3>2. confirmed = 0 /\ ~entry.claim
      BY <2>3 DEF EntryOK
    <3>3. entry'.of = recording[r].of /\ entry'.claim = FALSE /\ UNCHANGED <<confirmed, ledgerDeaths>>
      BY <2>3, <1>7 DEF InsertEntry
    <3>4. PICK pc : Proceeds(r, pc)
      BY <2>3, <1>7 DEF InsertEntry
    <3>5. /\ recording'[r].of = recording[r].of /\ recording'[r].updated = recording[r].updated
          /\ \A q \in LedgerCallers : q # r => recording'[q] = recording[q]
      BY <3>4, <1>0 DEF Proceeds, CallType
    <3>6. \A q \in LedgerCallers : Holds(recording'[q]) => q = r
      BY <3>1, <3>5
    <3> QED
      BY <2>1, <3>2, <3>3, <3>5, <3>6 DEF EntryOK
  <2> QED
    BY <2>2, <2>3
<1>8. ASSUME NEW r \in LedgerCallers, ConfirmRecovery(r)
      PROVE  EntryOK'
  <2>1. recording[r].at = "confirm" /\ Holds(recording[r]) /\ recording[r].of \in Cases
    BY <1>8, <1>c DEF ConfirmRecovery, Doing, Holds, HolderPcs, CasePcs
  <2>2. CASE casing[recording[r].of] # "engaged"
    BY <2>1, <2>2, <1>8, CallProceedsQuietly DEF ConfirmRecovery, HolderPcs
  <2>3. CASE casing[recording[r].of] = "engaged"
    <3>1. confirmed' = recording[r].of /\ UNCHANGED <<entry, ledgerDeaths>>
      BY <2>3, <1>8 DEF ConfirmRecovery
    <3>2. entry.of = recording[r].of /\ ~entry.claim /\ \A q \in LedgerCallers : Holds(recording[q]) => q = r
      BY <2>1 DEF EntryOK
    <3>3. /\ recording'[r].at = "finish" /\ recording'[r].of = recording[r].of /\ recording'[r].updated
          /\ \A q \in LedgerCallers : q # r => recording'[q] = recording[q]
      BY <2>3, <1>8, <1>0 DEF ConfirmRecovery, CallType
    <3>4. Holds(recording'[r]) /\ \A q \in LedgerCallers : Holds(recording'[q]) => q = r
      BY <3>2, <3>3 DEF Holds, HolderPcs
    <3>5. confirmed' # 0
      BY <2>1, <3>1, LedgerAssumption DEF Cases
    <3> QED
      BY <3>1, <3>2, <3>3, <3>4, <3>5 DEF EntryOK
  <2> QED
    BY <2>2, <2>3
<1>9. ASSUME NEW r \in LedgerCallers, FinishEntry(r)
      PROVE  EntryOK'
  <2>1. Holds(recording[r]) /\ recording[r].updated \in BOOLEAN
    BY <1>9, <1>c DEF FinishEntry, Doing, Holds, HolderPcs, CallType
  <2>2. entry'.of = entry.of /\ entry'.claim = recording[r].updated /\ UNCHANGED <<confirmed, ledgerDeaths>>
    BY <1>9, <1>0 DEF FinishEntry, Claims, EntryType
  <2>3. \A q \in LedgerCallers : Holds(recording[q]) => q = r
    BY <2>1 DEF EntryOK
  <2>4. ~Holds(recording'[r]) /\ \A q \in LedgerCallers : q # r => recording'[q] = recording[q]
    <3>1. \A left : [recording[r] EXCEPT !.at = "close", !.open = left].at = "close"
      BY <1>c DEF CallType
    <3>2. PICK left : AfterRecord(r, left)
      BY <1>9 DEF FinishEntry
    <3>3. \/ recording' = [recording EXCEPT ![r] = [recording[r] EXCEPT !.at = "close", !.open = left]]
          \/ recording' = [recording EXCEPT ![r] = NoRecording]
      BY <3>2, <1>0 DEF AfterRecord
    <3> QED
      BY <3>1, <3>3, <1>0, <1>n DEF Holds, HolderPcs
  <2>5. \A q \in LedgerCallers : ~Holds(recording'[q])
    BY <2>3, <2>4
  <2>6. confirmed # 0 => confirmed = entry.of
    BY DEF EntryOK
  <2>7. recording[r].updated => confirmed # 0
    BY <2>1 DEF EntryOK
  <2>8. confirmed # 0 /\ ledgerDeaths = 0 => recording[r].updated
    BY <2>1, <2>3 DEF EntryOK
  <2> QED
    BY <2>2, <2>5, <2>6, <2>7, <2>8 DEF EntryOK
<1>10. ASSUME NEW r \in LedgerCallers, RecorderDies(r)
       PROVE  EntryOK'
  <2>1. ledgerDeaths' # 0 /\ UNCHANGED <<entry, confirmed>>
    BY <1>10, <1>0 DEF RecorderDies
  <2>2. \A q \in LedgerCallers : Holds(recording'[q]) => recording'[q] = recording[q]
    BY <1>10, <1>0, <1>n DEF RecorderDies, Finishes
  <2> QED
    BY <2>1, <2>2 DEF EntryOK
<1> QED
  BY <1>1, <1>2, <1>3, <1>4, <1>5, <1>6, <1>7, <1>8, <1>9, <1>10
  DEF LedgerNext, RecordStep, SweepStep, MoveDeal, MoveCase, ResolveRecord, Fade, ledgerVars

(***************************************************************************)
(* The ledger and the cases agree on what was recovered, for every number  *)
(* of cases, recorders, sweeps and moves around them (record_outcome,      *)
(* confirm_recovery).                                                      *)
(***************************************************************************)
THEOREM ClaimsAreConfirmed == LedgerSpec => [](LedgerTypeOK /\ LedgerAgrees)
<1>1. LedgerInv /\ [LedgerNext]_ledgerVars => LedgerInv'
  BY LedgerTypesStep, EntryStep DEF LedgerInv
<1>2. LedgerInv => LedgerTypeOK /\ LedgerAgrees
  BY EntryAgrees DEF LedgerInv, LedgerTypes
<1> QED
  BY <1>1, <1>2, LedgerStarts, PTL DEF LedgerSpec

-----------------------------------------------------------------------------
(* The runs of an automation.  A hand that is not idle has a run, and one   *)
(* that is past the check of a step has a step left.                        *)
Handling == {"check", "do", "save", "fail", "park", "waited"}
HandOK(w) ==
  /\ w \in HandType
  /\ w.run \in Events <=> w.pc # "idle"
  /\ w.pc \in Handling \ {"check"} => w.next <= Len(Steps)

AutoTypes == AutomationTypeOK /\ \A h \in Hands : HandOK(hand[h])

(* Who works on a run; and whether it is there to be claimed.               *)
WorkersOf(e) == {h \in Hands : hand[h].run = e /\ hand[h].pc \in Handling}
DoersOf(e) == {h \in Hands : hand[h].run = e /\ hand[h].pc = "do"}
Waits(e) == arun[e].status = "waiting"
Claimable(e) == IF Waits(e) \/ (arun[e].status = "running" /\ arun[e].lease = "over") THEN 1 ELSE 0

(* Until it is inserted, a run is in one hand, which inserts it. *)
BegunOK(e) ==
  /\ \A h \in Hands : hand[h].run = e => (arun[e].status = "absent" <=> hand[h].pc \in {"start", "insert"})
  /\ arun[e].status = "absent" =>
       /\ \A g, h \in Hands : hand[g].run = e /\ hand[h].run = e => g = h
       /\ \A i \in Places : did[e][i] = 0

(* A run that was never claimed from its holder has one worker at most,     *)
(* none while it waits, and no step from the one in hand on is done.        *)
SoleOK(e) ==
  e \notin outlived =>
    /\ \A g, h \in WorkersOf(e) : g = h
    /\ \A i \in Places : did[e][i] <= 1
    /\ Waits(e) => WorkersOf(e) = {} /\ \A i \in Places : i >= arun[e].next => did[e][i] = 0
    /\ \A h \in WorkersOf(e), i \in Places :
         /\ i > hand[h].next => did[e][i] = 0
         /\ i = hand[h].next /\ hand[h].pc \notin {"save", "fail"} => did[e][i] = 0
    /\ late[e] <= 1 /\ (late[e] = 1 => DoersOf(e) = {})

(* Each worker but the first has its fault, and each that may still perform *)
(* a step after the reply has not yet.                                      *)
CountOK(e) ==
  /\ IsFiniteSet(WorkersOf(e)) /\ Cardinality(WorkersOf(e)) + Claimable(e) <= 1 + faults
  /\ IF replied THEN late[e] + Cardinality(DoersOf(e)) <= 1 + faults ELSE late[e] = 0

RunOK(e) == BegunOK(e) /\ SoleOK(e) /\ CountOK(e)
AutoInv == AutoTypes /\ \A e \in Events : RunOK(e)

(* Nothing ran at first. *)
LEMMA AutoStarts == AutomationInit => AutoInv
<1> SUFFICES ASSUME AutomationInit
             PROVE  AutoInv
  OBVIOUS
<1>0. Len(Steps) \in Nat /\ 1 \in Places
  BY AutomationAssumption DEF Places
<1>1. HandOK(EmptyHand) /\ EmptyHand.run = NoEvent /\ EmptyHand.pc = "idle"
  BY <1>0, AutomationAssumption DEF HandOK, EmptyHand, HandType, HandPcs, Handling, Ended
<1>2. AutomationTypeOK
  <2>1. hand \in [Hands -> HandType]
    BY <1>1 DEF AutomationInit, HandOK
  <2>2. [status |-> "absent", next |-> 1, lease |-> "none", resume |-> "none"] \in ARunType
    BY <1>0 DEF ARunType, ActiveStatuses, Ended
  <2>3. arun \in [Events -> ARunType]
    BY <2>2 DEF AutomationInit
  <2>4. did \in [Events -> [Places -> 0..2]] /\ late \in [Events -> Nat]
    BY DEF AutomationInit
  <2>5. switch \in {"on", "off", "archived"} /\ replied \in BOOLEAN /\ outlived \in SUBSET Events
    BY DEF AutomationInit
  <2>6. faults \in 0..MaxFaults
    BY AutomationAssumption DEF AutomationInit
  <2> QED
    BY <2>1, <2>3, <2>4, <2>5, <2>6 DEF AutomationTypeOK
<1>3. \A h \in Hands : HandOK(hand[h]) /\ hand[h].run = NoEvent
  BY <1>1 DEF AutomationInit
<1>4. ASSUME NEW e \in Events
      PROVE  RunOK(e)
  <2>1. WorkersOf(e) = {} /\ DoersOf(e) = {} /\ ~Waits(e) /\ Claimable(e) = 0
    BY <1>3, AutomationAssumption DEF WorkersOf, DoersOf, Waits, Claimable, AutomationInit
  <2>2. late[e] = 0 /\ ~replied /\ faults = 0 /\ \A i \in Places : did[e][i] = 0
    BY DEF AutomationInit
  <2>3. IsFiniteSet(WorkersOf(e)) /\ Cardinality(WorkersOf(e)) = 0
    BY <2>1, FS_EmptySet
  <2>4. BegunOK(e)
    BY <1>3, <2>2, AutomationAssumption DEF BegunOK
  <2>5. SoleOK(e)
    BY <2>1, <2>2 DEF SoleOK
  <2>6. CountOK(e)
    BY <2>1, <2>2, <2>3 DEF CountOK
  <2> QED
    BY <2>4, <2>5, <2>6 DEF RunOK
<1> QED
  BY <1>2, <1>3, <1>4 DEF AutoInv, AutoTypes

-----------------------------------------------------------------------------
(* What a step makes of one hand. *)
LEMMA EmptyHandIsOK == HandOK(EmptyHand) /\ EmptyHand.run = NoEvent /\ EmptyHand.pc = "idle"
<1>1. Len(Steps) \in Nat /\ 1 \in Places
  BY AutomationAssumption DEF Places
<1> QED
  BY <1>1, AutomationAssumption DEF HandOK, EmptyHand, HandType, HandPcs, Handling, Ended

LEMMA HandChanges ==
  ASSUME AutoTypes, NEW h \in Hands, NEW w, HandOK(w), hand' = [hand EXCEPT ![h] = w]
  PROVE  hand' \in [Hands -> HandType] /\ \A g \in Hands : HandOK(hand'[g])
BY DEF AutoTypes, AutomationTypeOK, HandOK

(* Who works on a run after it. *)
LEMMA WorkersChange ==
  ASSUME AutoTypes, NEW h \in Hands, NEW w, hand' = [hand EXCEPT ![h] = w], NEW e \in Events
  PROVE  /\ WorkersOf(e)' = IF w.run = e /\ w.pc \in Handling THEN WorkersOf(e) \cup {h} ELSE WorkersOf(e) \ {h}
         /\ DoersOf(e)' = IF w.run = e /\ w.pc = "do" THEN DoersOf(e) \cup {h} ELSE DoersOf(e) \ {h}
<1>1. hand'[h] = w /\ \A g \in Hands : g # h => hand'[g] = hand[g]
  BY DEF AutoTypes, AutomationTypeOK
<1> QED
  BY <1>1 DEF WorkersOf, DoersOf

LEMMA WorkersCount ==
  ASSUME NEW e \in Events, CountOK(e), NEW h \in Hands
  PROVE  /\ Cardinality(WorkersOf(e)) \in Nat /\ IsFiniteSet(WorkersOf(e))
         /\ Cardinality(DoersOf(e)) \in Nat /\ Cardinality(DoersOf(e)) <= Cardinality(WorkersOf(e))
         /\ IsFiniteSet(WorkersOf(e) \ {h}) /\ IsFiniteSet(WorkersOf(e) \cup {h})
         /\ h \in WorkersOf(e) => /\ WorkersOf(e) \cup {h} = WorkersOf(e)
                                  /\ Cardinality(WorkersOf(e) \ {h}) = Cardinality(WorkersOf(e)) - 1
         /\ h \notin WorkersOf(e) => /\ WorkersOf(e) \ {h} = WorkersOf(e)
                                     /\ Cardinality(WorkersOf(e) \cup {h}) = Cardinality(WorkersOf(e)) + 1
         /\ h \in DoersOf(e) => Cardinality(DoersOf(e) \ {h}) = Cardinality(DoersOf(e)) - 1
         /\ h \notin DoersOf(e) => DoersOf(e) \ {h} = DoersOf(e)
<1>1. IsFiniteSet(WorkersOf(e)) /\ DoersOf(e) \in SUBSET WorkersOf(e)
  BY DEF CountOK, WorkersOf, DoersOf, Handling
<1>2. IsFiniteSet(DoersOf(e)) /\ Cardinality(DoersOf(e)) <= Cardinality(WorkersOf(e))
  BY <1>1, FS_Subset
<1>3. Cardinality(WorkersOf(e)) \in Nat /\ Cardinality(DoersOf(e)) \in Nat
  BY <1>1, <1>2, FS_CardinalityType
<1>4. /\ IsFiniteSet(WorkersOf(e) \ {h}) /\ IsFiniteSet(WorkersOf(e) \cup {h})
      /\ h \in WorkersOf(e) => Cardinality(WorkersOf(e) \ {h}) = Cardinality(WorkersOf(e)) - 1
      /\ h \notin WorkersOf(e) => Cardinality(WorkersOf(e) \cup {h}) = Cardinality(WorkersOf(e)) + 1
      /\ h \in DoersOf(e) => Cardinality(DoersOf(e) \ {h}) = Cardinality(DoersOf(e)) - 1
  BY <1>1, <1>2, FS_AddElement, FS_RemoveElement
<1> QED
  BY <1>1, <1>2, <1>3, <1>4

(* A step adds nothing to what a run has done. *)
Steady(e) ==
  /\ did'[e] = did[e] /\ late'[e] = late[e] /\ replied' = replied
  /\ e \in outlived' <=> e \in outlived
  /\ faults' \in Nat /\ faults' >= faults

(* The run after a step that does not concern it. *)
LEMMA Elsewhere ==
  ASSUME AutoInv, NEW e \in Events, arun'[e] = arun[e], Steady(e),
         \A h \in Hands : hand'[h] = hand[h] \/ (hand[h].run # e /\ hand'[h].run # e)
  PROVE  RunOK(e)'
<1> USE DEF Steady
<1>1. RunOK(e) /\ faults \in Nat /\ late[e] \in Nat
  BY AutomationAssumption DEF AutoInv, AutoTypes, AutomationTypeOK
<1>2. WorkersOf(e)' = WorkersOf(e) /\ DoersOf(e)' = DoersOf(e) /\ Waits(e)' = Waits(e) /\ Claimable(e)' = Claimable(e)
  BY DEF WorkersOf, DoersOf, Waits, Claimable
<1>3. \A h \in WorkersOf(e) : hand'[h] = hand[h]
  BY DEF WorkersOf
<1>4. BegunOK(e)'
  BY <1>1 DEF RunOK, BegunOK
<1>5. SoleOK(e)'
  BY <1>1, <1>2, <1>3 DEF RunOK, SoleOK
<1>6. CountOK(e)'
  <2>1. Cardinality(WorkersOf(e)) \in Nat /\ Cardinality(DoersOf(e)) \in Nat
    <3>1. IsFiniteSet(WorkersOf(e)) /\ DoersOf(e) \in SUBSET WorkersOf(e)
      BY <1>1 DEF RunOK, CountOK, WorkersOf, DoersOf, Handling
    <3> QED
      BY <3>1, FS_Subset, FS_CardinalityType
  <2>2. Claimable(e) \in Nat
    BY DEF Claimable
  <2> QED
    BY <1>1, <1>2, <2>1, <2>2 DEF RunOK, CountOK
<1> QED
  BY <1>4, <1>5, <1>6 DEF RunOK

(* The run that a hand gives up, dead or done. *)
LEMMA GivenUp ==
  ASSUME AutoInv, NEW h \in Hands, NEW e \in Events, NEW w, w.run # e \/ w.pc = "finish",
         hand[h].run = e, hand' = [hand EXCEPT ![h] = w],
         arun[e].status # "absent" \/ w.run # e,
         arun'[e].status = arun[e].status, arun'[e].lease = arun[e].lease,
         arun'[e].next = arun[e].next \/ h \in WorkersOf(e), Steady(e)
  PROVE  RunOK(e)'
<1> USE DEF Steady
<1>1. RunOK(e) /\ faults \in Nat /\ late[e] \in Nat /\ AutoTypes
  BY AutomationAssumption DEF AutoInv, AutoTypes, AutomationTypeOK
<1>2. hand'[h] = w /\ \A g \in Hands : g # h => hand'[g] = hand[g]
  BY <1>1 DEF AutoTypes, AutomationTypeOK
<1>3. ~(w.run = e /\ w.pc \in Handling) /\ ~(w.run = e /\ w.pc = "do")
  BY DEF Handling
<1>4. WorkersOf(e)' = WorkersOf(e) \ {h} /\ DoersOf(e)' = DoersOf(e) \ {h}
  BY <1>1, <1>3, WorkersChange
<1>5. Waits(e)' = Waits(e) /\ Claimable(e)' = Claimable(e)
  BY DEF Waits, Claimable
<1>6. BegunOK(e)'
  BY <1>1, <1>2 DEF RunOK, BegunOK
<1>7. SoleOK(e)'
  BY <1>1, <1>2, <1>4, <1>5 DEF RunOK, SoleOK
<1>8. CountOK(e)'
  <2>1. CountOK(e) /\ Claimable(e) \in Nat
    BY <1>1 DEF RunOK, Claimable
  <2>2. /\ IsFiniteSet(WorkersOf(e) \ {h}) /\ Cardinality(WorkersOf(e) \ {h}) <= Cardinality(WorkersOf(e))
        /\ Cardinality(WorkersOf(e) \ {h}) \in Nat /\ Cardinality(WorkersOf(e)) \in Nat
        /\ Cardinality(DoersOf(e) \ {h}) <= Cardinality(DoersOf(e))
        /\ Cardinality(DoersOf(e) \ {h}) \in Nat /\ Cardinality(DoersOf(e)) \in Nat
    <3>1. IsFiniteSet(WorkersOf(e)) /\ DoersOf(e) \in SUBSET WorkersOf(e)
      BY <1>1 DEF RunOK, CountOK, WorkersOf, DoersOf, Handling
    <3>2. IsFiniteSet(DoersOf(e))
      BY <3>1, FS_Subset
    <3>3. /\ WorkersOf(e) \ {h} \in SUBSET WorkersOf(e) /\ DoersOf(e) \ {h} \in SUBSET DoersOf(e)
      OBVIOUS
    <3>4. IsFiniteSet(WorkersOf(e) \ {h}) /\ IsFiniteSet(DoersOf(e) \ {h})
      BY <3>1, <3>2, <3>3, FS_Subset
    <3> QED
      BY <3>1, <3>2, <3>3, <3>4, FS_Subset, FS_CardinalityType
  <2> QED
    BY <1>1, <1>4, <1>5, <2>1, <2>2 DEF CountOK
<1> QED
  BY <1>6, <1>7, <1>8 DEF RunOK

-----------------------------------------------------------------------------
(* The types are kept. *)
HandsOK == hand' \in [Hands -> HandType] /\ \A g \in Hands : HandOK(hand'[g])

LEMMA HandGoes ==
  ASSUME AutoTypes, NEW h \in Hands, NEW pc \in HandPcs \ {"idle"}, hand[h].pc # "idle", HandTo(h, pc),
         pc \in Handling \ {"check"} => hand[h].next <= Len(Steps)
  PROVE  HandsOK
<1>1. hand[h] \in HandType /\ HandOK(hand[h])
  BY DEF AutoTypes, AutomationTypeOK
<1>2. hand' = [hand EXCEPT ![h] = [hand[h] EXCEPT !.pc = pc]]
  BY DEF HandTo, AutoTypes, AutomationTypeOK
<1>3. HandOK([hand[h] EXCEPT !.pc = pc])
  BY <1>1 DEF HandOK, HandType
<1> QED
  BY <1>2, <1>3, HandChanges DEF HandsOK

LEMMA HandDrops ==
  ASSUME AutoTypes, NEW h \in Hands, Drop(h)
  PROVE  HandsOK
BY EmptyHandIsOK, HandChanges DEF Drop, HandsOK

LEMMA HandFinishes ==
  ASSUME AutoTypes, NEW h \in Hands, NEW o \in Ended, hand[h].pc # "idle", EndRunAs(h, o)
  PROVE  HandsOK
<1>1. hand[h] \in HandType /\ HandOK(hand[h])
  BY DEF AutoTypes, AutomationTypeOK
<1>2. hand' = [hand EXCEPT ![h] = [hand[h] EXCEPT !.pc = "finish", !.outcome = o]]
  BY DEF EndRunAs, AutoTypes, AutomationTypeOK
<1>3. HandOK([hand[h] EXCEPT !.pc = "finish", !.outcome = o])
  BY <1>1 DEF HandOK, HandType, HandPcs, Handling
<1> QED
  BY <1>2, <1>3, HandChanges DEF HandsOK

LEMMA HandTakesNext ==
  ASSUME AutoTypes, NEW h \in Hands, hand[h].pc \in {"save", "waited"},
         hand' = [hand EXCEPT ![h].pc = "check", ![h].next = @ + 1]
  PROVE  HandsOK /\ hand[h].next + 1 \in Places
<1>1. hand[h] \in HandType /\ HandOK(hand[h]) /\ Len(Steps) \in Nat
  BY AutomationAssumption DEF AutoTypes, AutomationTypeOK
<1>2. hand[h].next \in 1..Len(Steps)
  BY <1>1 DEF HandOK, HandType, Places, Handling
<1>3. hand[h].next + 1 \in Places
  BY <1>1, <1>2 DEF Places
<1>4. HandOK([hand[h] EXCEPT !.pc = "check", !.next = @ + 1])
  BY <1>1, <1>3 DEF HandOK, HandType, HandPcs, Handling
<1>5. hand' = [hand EXCEPT ![h] = [hand[h] EXCEPT !.pc = "check", !.next = @ + 1]]
  BY DEF AutoTypes, AutomationTypeOK
<1> QED
  BY <1>3, <1>4, <1>5, HandChanges DEF HandsOK

LEMMA HandTakes ==
  ASSUME AutoTypes, NEW h \in Hands, NEW w, HandOK(w), hand' = [hand EXCEPT ![h] = w]
  PROVE  HandsOK
BY HandChanges DEF HandsOK

LEMMA HandIsGiven ==
  ASSUME NEW w \in HandType, w.run \in Events, w.pc # "idle", w.pc \in Handling \ {"check"} => w.next <= Len(Steps)
  PROVE  HandOK(w)
BY DEF HandOK

LEMMA AutoTypesStep == AutoTypes /\ [AutomationNext]_automationVars => AutoTypes'
<1> SUFFICES ASSUME AutoTypes, [AutomationNext]_automationVars
             PROVE  AutoTypes'
  OBVIOUS
<1>0. /\ switch \in {"on", "off", "archived"} /\ arun \in [Events -> ARunType] /\ hand \in [Hands -> HandType]
      /\ replied \in BOOLEAN /\ did \in [Events -> [Places -> 0..2]] /\ late \in [Events -> Nat]
      /\ outlived \in SUBSET Events /\ faults \in 0..MaxFaults /\ \A h \in Hands : HandOK(hand[h])
  BY DEF AutoTypes, AutomationTypeOK
<1>q. ASSUME switch' \in {"on", "off", "archived"}, arun' \in [Events -> ARunType], HandsOK,
             replied' \in BOOLEAN, did' \in [Events -> [Places -> 0..2]], late' \in [Events -> Nat],
             outlived' \in SUBSET Events, faults' \in 0..MaxFaults
      PROVE  AutoTypes'
  BY <1>q DEF AutoTypes, AutomationTypeOK, HandsOK
<1>u. hand' = hand => HandsOK
  BY <1>0 DEF HandsOK
<1>w. \A h \in Hands : hand[h].pc # "idle" => Run(h) \in Events /\ hand[h].next \in Places /\ hand[h].outcome \in Ended
  BY <1>0 DEF HandOK, HandType, Run
<1>n. Len(Steps) \in Nat /\ 1 \in Places /\ "completed" \in Ended /\ "stopped" \in Ended /\ "failed" \in Ended
  BY AutomationAssumption DEF Places, Ended
<1>f. faults < MaxFaults => faults + 1 \in 0..MaxFaults
  BY <1>0, AutomationAssumption
<1>1. CASE UNCHANGED automationVars
  BY <1>1, <1>0, <1>q, <1>u DEF automationVars
<1>2. ASSUME NEW h \in Hands, StartCheck(h)
      PROVE  AutoTypes'
  <2>1. hand[h].pc = "start" /\ (Drop(h) \/ HandTo(h, "insert"))
    BY <1>2 DEF StartCheck, HandAt
  <2>2. HandsOK
    BY <2>1, HandDrops, HandGoes DEF HandPcs, Handling
  <2> QED
    BY <2>2, <1>2, <1>0, <1>q DEF StartCheck, history
<1>3. ASSUME NEW h \in Hands, StartInsert(h)
      PROVE  AutoTypes'
  <2>1. hand[h].pc = "insert" /\ Run(h) \in Events
    BY <1>3, <1>w DEF StartInsert, HandAt
  <2>2. HandsOK
    BY <2>1, <1>3, HandGoes DEF StartInsert, HandPcs, Handling
  <2>3. [arun[Run(h)] EXCEPT !.status = "running", !.lease = "live"] \in ARunType
    BY <2>1, <1>0 DEF ARunType, ActiveStatuses
  <2>4. arun' = [arun EXCEPT ![Run(h)] = [arun[Run(h)] EXCEPT !.status = "running", !.lease = "live"]]
    BY <1>3, <1>0 DEF StartInsert
  <2>5. arun' \in [Events -> ARunType]
    BY <2>3, <2>4, <1>0
  <2> QED
    BY <2>2, <2>5, <1>3, <1>0, <1>q DEF StartInsert, history
<1>4. ASSUME NEW h \in Hands, Advance(h)
      PROVE  AutoTypes'
  <2>1. hand[h].pc = "check" /\ hand[h].next \in Places
    BY <1>4, <1>w DEF Advance, HandAt
  <2>2. \/ EndRunAs(h, "completed") \/ EndRunAs(h, "stopped")
        \/ ~(hand[h].next > Len(Steps)) /\ (HandTo(h, "park") \/ HandTo(h, "do"))
    BY <1>4 DEF Advance
  <2>3. ~(hand[h].next > Len(Steps)) => hand[h].next <= Len(Steps)
    BY <2>1, <1>n DEF Places
  <2>4. HandsOK
    BY <2>1, <2>2, <2>3, <1>n, HandFinishes, HandGoes DEF HandPcs, Handling
  <2> QED
    BY <2>4, <1>4, <1>0, <1>q DEF Advance, history
<1>5. ASSUME NEW h \in Hands, Perform(h)
      PROVE  AutoTypes'
  <2>1. hand[h].pc = "do" /\ Run(h) \in Events /\ hand[h].next \in Places /\ hand[h].next <= Len(Steps)
    BY <1>5, <1>0, <1>w DEF Perform, HandAt, HandOK, Handling
  <2>2. HandsOK
    BY <2>1, <1>5, HandGoes DEF Perform, HandPcs
  <2>3. did[Run(h)] \in [Places -> 0..2] /\ did[Run(h)][hand[h].next] \in 0..2
    BY <2>1, <1>0
  <2>4. \A n \in 0..2 : (IF n = 2 THEN 2 ELSE n + 1) \in 0..2
    OBVIOUS
  <2>5. did' = [did EXCEPT ![Run(h)] = [did[Run(h)] EXCEPT ![hand[h].next] = IF @ = 2 THEN 2 ELSE @ + 1]]
    BY <1>5, <1>0 DEF Perform
  <2>6. did' \in [Events -> [Places -> 0..2]]
    BY <2>1, <2>3, <2>4, <2>5, <1>0
  <2>7. late' \in [Events -> Nat]
    BY <2>1, <1>5, <1>0 DEF Perform
  <2> QED
    BY <2>2, <2>6, <2>7, <1>5, <1>0, <1>q DEF Perform
<1>6. ASSUME NEW h \in Hands, SaveStep(h)
      PROVE  AutoTypes'
  <2>1. hand[h].pc = "save" /\ Run(h) \in Events
    BY <1>6, <1>w DEF SaveStep, HandAt
  <2>2. HandsOK /\ hand[h].next + 1 \in Places
    BY <2>1, <1>6, HandTakesNext DEF SaveStep
  <2>3. [arun[Run(h)] EXCEPT !.next = hand[h].next + 1, !.lease = "live"] \in ARunType
    BY <2>1, <2>2, <1>0 DEF ARunType
  <2>4. arun' = [arun EXCEPT ![Run(h)] = [arun[Run(h)] EXCEPT !.next = hand[h].next + 1, !.lease = "live"]]
    BY <1>6, <1>0 DEF SaveStep
  <2>5. arun' \in [Events -> ARunType]
    BY <2>3, <2>4, <1>0
  <2> QED
    BY <2>2, <2>5, <1>6, <1>0, <1>q DEF SaveStep, history
<1>7. ASSUME NEW h \in Hands, SaveFailure(h)
      PROVE  AutoTypes'
  <2>1. hand[h].pc = "fail" /\ Run(h) \in Events /\ hand[h].next \in Places
    BY <1>7, <1>w DEF SaveFailure, HandAt
  <2>2. HandsOK
    BY <2>1, <1>7, <1>n, HandFinishes DEF SaveFailure
  <2>3. [arun[Run(h)] EXCEPT !.next = hand[h].next] \in ARunType
    BY <2>1, <1>0 DEF ARunType
  <2>4. arun' \in [Events -> ARunType]
    BY <2>3, <1>7, <1>0 DEF SaveFailure
  <2> QED
    BY <2>2, <2>4, <1>7, <1>0, <1>q DEF SaveFailure, history
<1>8. ASSUME NEW h \in Hands, Park(h)
      PROVE  AutoTypes'
  <2>1. hand[h].pc = "park" /\ Run(h) \in Events /\ hand[h].next \in Places
    BY <1>8, <1>w DEF Park, HandAt
  <2>2. HandsOK
    BY <1>8, HandDrops DEF Park
  <2>3. [status |-> "waiting", next |-> hand[h].next, lease |-> "none", resume |-> "later"] \in ARunType
    BY <2>1 DEF ARunType, ActiveStatuses
  <2>4. arun' \in [Events -> ARunType]
    BY <2>3, <1>8, <1>0 DEF Park
  <2> QED
    BY <2>2, <2>4, <1>8, <1>0, <1>q DEF Park, history
<1>9. ASSUME NEW h \in Hands, FinishRun(h)
      PROVE  AutoTypes'
  <2>1. Run(h) \in Events /\ hand[h].outcome \in Ended
    BY <1>9, <1>w DEF FinishRun, HandAt
  <2>2. HandsOK
    BY <1>9, HandDrops DEF FinishRun
  <2>3. [arun[Run(h)] EXCEPT !.status = hand[h].outcome, !.lease = "none", !.resume = "none"] \in ARunType
    BY <2>1, <1>0 DEF ARunType
  <2>4. arun' = [arun EXCEPT ![Run(h)] =
                   [arun[Run(h)] EXCEPT !.status = hand[h].outcome, !.lease = "none", !.resume = "none"]]
    BY <1>9, <1>0 DEF FinishRun
  <2>5. arun' \in [Events -> ARunType]
    BY <2>3, <2>4, <1>0
  <2> QED
    BY <2>2, <2>5, <1>9, <1>0, <1>q DEF FinishRun, history
<1>10. ASSUME NEW h \in Hands, Waited(h)
       PROVE  AutoTypes'
  <2>1. hand[h].pc = "waited" /\ Run(h) \in Events
    BY <1>10, <1>w DEF Waited, HandAt
  <2>2. HandsOK /\ hand[h].next + 1 \in Places
    BY <2>1, <1>10, HandTakesNext DEF Waited
  <2>3. [arun[Run(h)] EXCEPT !.next = hand[h].next + 1, !.resume = "none"] \in ARunType
    BY <2>1, <2>2, <1>0 DEF ARunType
  <2>4. arun' = [arun EXCEPT ![Run(h)] = [arun[Run(h)] EXCEPT !.next = hand[h].next + 1, !.resume = "none"]]
    BY <1>10, <1>0 DEF Waited
  <2>5. arun' \in [Events -> ARunType]
    BY <2>3, <2>4, <1>0
  <2> QED
    BY <2>2, <2>5, <1>10, <1>0, <1>q DEF Waited, history
<1>11. ASSUME NEW h \in Hands, HandDies(h)
       PROVE  AutoTypes'
  BY <1>11, <1>0, <1>q, <1>f, HandDrops DEF HandDies
<1>12. ASSUME NEW h \in Hands, NEW e \in Events, Hear(h, e)
       PROVE  AutoTypes'
  <2> DEFINE w == [EmptyHand EXCEPT !.pc = "start", !.run = e]
  <2>1. w \in HandType /\ w.pc = "start" /\ w.run = e
    BY EmptyHandIsOK DEF HandOK, HandType, HandPcs, EmptyHand
  <2>3. hand' = [hand EXCEPT ![h] = w]
    BY <1>12 DEF Hear
  <2> HIDE DEF w
  <2>2. HandsOK
    BY <2>1, <2>3, HandIsGiven, HandTakes DEF Handling
  <2> QED
    BY <2>2, <1>12, <1>0, <1>q DEF Hear, history
<1>13. ASSUME NEW h \in Hands, NEW e \in Events, StopRun(h, e)
       PROVE  AutoTypes'
  <2> DEFINE w == [EmptyHand EXCEPT !.pc = "finish", !.run = e, !.outcome = "stopped"]
  <2>1. w \in HandType /\ w.pc = "finish" /\ w.run = e
    BY EmptyHandIsOK DEF HandOK, HandType, HandPcs, Ended, EmptyHand
  <2>3. hand' = [hand EXCEPT ![h] = w]
    BY <1>13 DEF StopRun
  <2> HIDE DEF w
  <2>2. HandsOK
    BY <2>1, <2>3, HandIsGiven, HandTakes DEF Handling
  <2> QED
    BY <2>2, <1>13, <1>0, <1>q DEF StopRun, history
<1>14. ASSUME NEW h \in Hands, NEW e \in Events, ClaimRun(h, e)
       PROVE  AutoTypes'
  <2> DEFINE pc == IF arun[e].resume # "none" /\ arun[e].next <= Len(Steps) /\ Steps[arun[e].next] = "wait"
                   THEN "waited" ELSE "check"
             w == [EmptyHand EXCEPT !.run = e, !.next = arun[e].next, !.pc = pc]
  <2>1. hand' = [hand EXCEPT ![h] = w]
    BY <1>14 DEF ClaimRun
  <2>2. pc \in {"waited", "check"} /\ (pc = "waited" => arun[e].next <= Len(Steps)) /\ arun[e].next \in Places
    BY <1>0 DEF ARunType
  <2> HIDE DEF pc
  <2>3. w \in HandType /\ w.run = e /\ w.pc = pc /\ w.next = arun[e].next
    BY <2>2, EmptyHandIsOK DEF HandOK, HandType, HandPcs, EmptyHand
  <2> HIDE DEF w
  <2>4. HandsOK
    BY <2>1, <2>2, <2>3, HandIsGiven, HandTakes DEF Handling
  <2>5. [arun[e] EXCEPT !.status = "running", !.lease = "live"] \in ARunType
    BY <1>0 DEF ARunType, ActiveStatuses
  <2>6. arun' = [arun EXCEPT ![e] = [arun[e] EXCEPT !.status = "running", !.lease = "live"]]
    BY <1>14, <1>0 DEF ClaimRun
  <2>7. arun' \in [Events -> ARunType]
    BY <2>5, <2>6, <1>0
  <2> QED
    BY <2>4, <2>7, <1>14, <1>0, <1>q DEF ClaimRun
<1>15. ASSUME NEW e \in Events, RunLeaseOver(e) \/ HolderIsSlow(e) \/ WaitOver(e)
       PROVE  AutoTypes'
  <2>1. [arun[e] EXCEPT !.lease = "over"] \in ARunType /\ [arun[e] EXCEPT !.resume = "due"] \in ARunType
    BY <1>0 DEF ARunType
  <2>2. arun' = [arun EXCEPT ![e] = [arun[e] EXCEPT !.lease = "over"]]
        \/ arun' = [arun EXCEPT ![e] = [arun[e] EXCEPT !.resume = "due"]]
    BY <1>15, <1>0 DEF RunLeaseOver, HolderIsSlow, WaitOver
  <2>3. arun' \in [Events -> ARunType]
    BY <2>1, <2>2, <1>0
  <2> QED
    BY <2>3, <1>15, <1>0, <1>f, <1>q, <1>u DEF RunLeaseOver, HolderIsSlow, WaitOver, history
<1>16. ASSUME NEW to \in {"on", "off", "archived"}, Turn(to)
       PROVE  AutoTypes'
  BY <1>16, <1>0, <1>q, <1>u DEF Turn, history
<1>17. CASE Reply
  BY <1>17, <1>0, <1>q, <1>u DEF Reply, history
<1> QED
  BY <1>1, <1>2, <1>3, <1>4, <1>5, <1>6, <1>7, <1>8, <1>9, <1>10, <1>11, <1>12, <1>13, <1>14, <1>15, <1>16, <1>17
  DEF AutomationNext, HandWorks

-----------------------------------------------------------------------------
(* What each step makes of the run it is about. *)
LEMMA InsertedOK ==
  ASSUME AutoInv, NEW h \in Hands, StartInsert(h), NEW e \in Events, Run(h) = e
  PROVE  RunOK(e)'
<1>1. RunOK(e) /\ faults \in Nat /\ late[e] \in Nat /\ AutoTypes
  BY AutomationAssumption DEF AutoInv, AutoTypes, AutomationTypeOK
<1> DEFINE w == [hand[h] EXCEPT !.pc = "check"]
<1>2. hand[h].pc = "insert" /\ hand[h].run = e /\ hand[h] \in HandType /\ UNCHANGED <<did, late, outlived, faults, replied>>
  BY <1>1 DEF StartInsert, HandAt, Run, AutoTypes, AutomationTypeOK, history
<1>3. hand' = [hand EXCEPT ![h] = w]
  BY <1>1 DEF StartInsert, HandTo, AutoTypes, AutomationTypeOK
<1>4. w.pc = "check" /\ w.run = e
  BY <1>2 DEF HandType
<1>5. WorkersOf(e)' = WorkersOf(e) \cup {h} /\ DoersOf(e)' = DoersOf(e) \ {h}
  <2> HIDE DEF w
  <2> QED
    BY <1>1, <1>3, <1>4, WorkersChange DEF Handling
<1>6. arun'[e].status = "running" /\ arun'[e].lease = "live"
  BY <1>1, <1>2 DEF StartInsert, AutoTypes, AutomationTypeOK, ARunType, Run
<1>7. arun[e].status = "absent" /\ \A g \in Hands : hand[g].run = e => g = h
  BY <1>1, <1>2 DEF RunOK, BegunOK
<1>8. WorkersOf(e) = {} /\ DoersOf(e) = {}
  BY <1>2, <1>7 DEF WorkersOf, DoersOf, Handling
<1>9. hand'[h].pc = "check" /\ \A g \in Hands : g # h => hand'[g] = hand[g]
  BY <1>1, <1>3, <1>4 DEF AutoTypes, AutomationTypeOK
<1> HIDE DEF w
<1>10. BegunOK(e)'
  BY <1>6, <1>7, <1>9 DEF BegunOK
<1>11. SoleOK(e)'
  <2>1. \A i \in Places : did[e][i] = 0
    BY <1>1, <1>7 DEF RunOK, BegunOK
  <2>2. e \notin outlived => late[e] <= 1
    BY <1>1 DEF RunOK, SoleOK
  <2>3. ~Waits(e)' /\ WorkersOf(e)' = {h} /\ DoersOf(e)' = {}
    BY <1>5, <1>6, <1>8 DEF Waits
  <2> QED
    BY <1>2, <2>1, <2>2, <2>3 DEF SoleOK
<1>12. CountOK(e)'
  <2>1. WorkersOf(e)' = {h} /\ DoersOf(e)' = {} /\ Claimable(e)' = 0
    BY <1>5, <1>6, <1>8 DEF Claimable, Waits
  <2>2. IsFiniteSet({h}) /\ Cardinality({h}) = 1
    BY FS_Singleton
  <2>3. IF replied THEN late[e] + Cardinality(DoersOf(e)) <= 1 + faults ELSE late[e] = 0
    BY <1>1 DEF RunOK, CountOK
  <2> QED
    BY <1>1, <1>2, <1>8, <2>1, <2>2, <2>3 DEF CountOK
<1> QED
  BY <1>10, <1>11, <1>12 DEF RunOK

(* A worker that goes on to its next place in the same step. *)
LEMMA GoesOnOK ==
  ASSUME AutoInv, NEW h \in Hands, NEW e \in Events, NEW pc, HandTo(h, pc), hand[h].run = e,
         hand[h].pc = "check", pc \in {"park", "do"}, pc = "do" => ~replied,
         UNCHANGED <<arun, did, late, outlived, faults, replied>>
  PROVE  RunOK(e)'
<1>1. RunOK(e) /\ faults \in Nat /\ late[e] \in Nat /\ AutoTypes
  BY AutomationAssumption DEF AutoInv, AutoTypes, AutomationTypeOK
<1>2. PICK w : w = [hand[h] EXCEPT !.pc = pc]
  OBVIOUS
<1>3. hand' = [hand EXCEPT ![h] = w] /\ hand[h] \in HandType
  BY <1>1, <1>2 DEF HandTo, AutoTypes, AutomationTypeOK
<1>4. w.pc = pc /\ w.run = e /\ w.next = hand[h].next
  BY <1>2, <1>3 DEF HandType
<1>5. h \in WorkersOf(e) /\ h \notin DoersOf(e)
  BY DEF WorkersOf, DoersOf, Handling
<1>6. /\ WorkersOf(e)' = WorkersOf(e)
      /\ DoersOf(e)' = IF pc = "do" THEN DoersOf(e) \cup {h} ELSE DoersOf(e) \ {h}
  <2>1. WorkersOf(e)' = WorkersOf(e) \cup {h}
    BY <1>1, <1>3, <1>4, WorkersChange DEF Handling
  <2>2. DoersOf(e)' = IF pc = "do" THEN DoersOf(e) \cup {h} ELSE DoersOf(e) \ {h}
    BY <1>1, <1>3, <1>4, WorkersChange
  <2>3. WorkersOf(e) \cup {h} = WorkersOf(e)
    BY <1>5
  <2> QED
    BY <2>1, <2>2, <2>3
<1>7. hand'[h] = w /\ \A g \in Hands : g # h => hand'[g] = hand[g]
  BY <1>1, <1>3 DEF AutoTypes, AutomationTypeOK
<1>8. Waits(e)' = Waits(e) /\ Claimable(e)' = Claimable(e)
  BY DEF Waits, Claimable
<1>9. BegunOK(e)'
  BY <1>1, <1>4, <1>7 DEF RunOK, BegunOK
<1>z. ~replied => late[e] = 0
  BY <1>1 DEF RunOK, CountOK
<1>10. SoleOK(e)'
  BY <1>1, <1>4, <1>5, <1>6, <1>7, <1>8, <1>z DEF RunOK, SoleOK
<1>11. CountOK(e)'
  BY <1>1, <1>5, <1>6, <1>8, <1>z DEF RunOK, CountOK
<1> QED
  BY <1>9, <1>10, <1>11 DEF RunOK

LEMMA PerformedOK ==
  ASSUME AutoInv, NEW h \in Hands, Perform(h), NEW e \in Events, Run(h) = e
  PROVE  RunOK(e)'
<1>1. RunOK(e) /\ faults \in Nat /\ late \in [Events -> Nat] /\ AutoTypes /\ did \in [Events -> [Places -> 0..2]]
  BY AutomationAssumption DEF AutoInv, AutoTypes, AutomationTypeOK
<1>2. PICK pc \in {"save", "fail"} : HandTo(h, pc)
  BY DEF Perform
<1>3. PICK w : w = [hand[h] EXCEPT !.pc = pc]
  OBVIOUS
<1>4. hand' = [hand EXCEPT ![h] = w] /\ hand[h] \in HandType /\ hand[h].run = e /\ hand[h].pc = "do"
  BY <1>1, <1>2, <1>3 DEF HandTo, AutoTypes, AutomationTypeOK, Perform, HandAt, Run
<1>5. w.pc = pc /\ w.run = e /\ w.next = hand[h].next
  BY <1>3, <1>4 DEF HandType
<1>6. h \in WorkersOf(e) /\ h \in DoersOf(e)
  BY <1>4 DEF WorkersOf, DoersOf, Handling
<1>7. WorkersOf(e)' = WorkersOf(e) /\ DoersOf(e)' = DoersOf(e) \ {h}
  <2>1. WorkersOf(e)' = WorkersOf(e) \cup {h}
    BY <1>1, <1>2, <1>4, <1>5, WorkersChange DEF Handling
  <2>2. DoersOf(e)' = DoersOf(e) \ {h}
    BY <1>1, <1>2, <1>4, <1>5, WorkersChange
  <2>3. WorkersOf(e) \cup {h} = WorkersOf(e)
    BY <1>6
  <2> QED
    BY <2>1, <2>2, <2>3
<1>8. hand'[h] = w /\ \A g \in Hands : g # h => hand'[g] = hand[g]
  BY <1>1, <1>4 DEF AutoTypes, AutomationTypeOK
<1>9. UNCHANGED <<arun, outlived, faults, replied>> /\ Waits(e)' = Waits(e) /\ Claimable(e)' = Claimable(e)
  BY DEF Perform, Waits, Claimable
<1>10. late'[e] = IF replied THEN late[e] + 1 ELSE late[e]
  BY <1>1 DEF Perform, Run
<1>11. \A i \in Places : did'[e][i] = IF i = hand[h].next THEN (IF did[e][i] = 2 THEN 2 ELSE did[e][i] + 1) ELSE did[e][i]
  <2>1. did' = [did EXCEPT ![e] = [did[e] EXCEPT ![hand[h].next] = IF @ = 2 THEN 2 ELSE @ + 1]]
    BY <1>1 DEF Perform, Run
  <2>2. did[e] \in [Places -> 0..2] /\ did'[e] = [did[e] EXCEPT ![hand[h].next] = IF @ = 2 THEN 2 ELSE @ + 1]
    BY <1>1, <2>1
  <2> QED
    BY <2>2
<1>12. BegunOK(e)'
  <2>1. arun[e].status # "absent"
    BY <1>1, <1>4 DEF RunOK, BegunOK
  <2> QED
    BY <1>1, <1>2, <1>4, <1>5, <1>8, <1>9, <2>1 DEF RunOK, BegunOK
<1>13. SoleOK(e)'
  <2> SUFFICES ASSUME e \notin outlived
               PROVE  SoleOK(e)'
    BY <1>9 DEF SoleOK
  <2>1. /\ \A g \in WorkersOf(e) : g = h
        /\ \A i \in Places : did[e][i] <= 1
        /\ ~Waits(e)
        /\ \A i \in Places : i >= hand[h].next /\ hand[h].next \in Places => did[e][i] = 0
        /\ late[e] <= 1 /\ late[e] # 1
    <3>1. \A i \in Places : i >= hand[h].next /\ hand[h].next \in Places => i = hand[h].next \/ i > hand[h].next
      BY DEF Places
    <3> QED
      BY <1>1, <1>4, <1>6, <3>1 DEF RunOK, SoleOK
  <2>2. hand[h].next \in Places /\ \A i \in Places : i \in Int
    BY <1>4 DEF HandType, Places
  <2>3. \A i \in Places : did'[e][i] <= 1 /\ (i > hand[h].next => did'[e][i] = 0)
    BY <1>11, <2>1, <2>2
  <2>4. DoersOf(e)' = {}
    BY <1>7, <2>1 DEF DoersOf, WorkersOf, Handling
  <2>5. late'[e] <= 1
    BY <1>1, <1>10, <2>1
  <2> QED
    BY <1>2, <1>5, <1>7, <1>8, <1>9, <2>1, <2>3, <2>4, <2>5 DEF SoleOK
<1>14. CountOK(e)'
  <2>1. CountOK(e)
    BY <1>1 DEF RunOK
  <2>2. Cardinality(DoersOf(e) \ {h}) = Cardinality(DoersOf(e)) - 1 /\ Cardinality(DoersOf(e)) \in Nat
    BY <1>6, <2>1, WorkersCount
  <2> QED
    BY <1>1, <1>7, <1>9, <1>10, <2>1, <2>2 DEF CountOK
<1> QED
  BY <1>12, <1>13, <1>14 DEF RunOK

LEMMA TakesNextOK ==
  ASSUME AutoInv, NEW h \in Hands, NEW e \in Events, hand[h].run = e, hand[h].pc \in {"save", "waited"},
         hand' = [hand EXCEPT ![h].pc = "check", ![h].next = @ + 1],
         arun'[e].status = arun[e].status, arun'[e].lease \in {arun[e].lease, "live"},
         UNCHANGED <<did, late, outlived, faults, replied>>
  PROVE  RunOK(e)'
<1>1. RunOK(e) /\ faults \in Nat /\ late[e] \in Nat /\ AutoTypes
  BY AutomationAssumption DEF AutoInv, AutoTypes, AutomationTypeOK
<1>2. PICK w : w = [hand[h] EXCEPT !.pc = "check", !.next = @ + 1]
  OBVIOUS
<1>3. hand' = [hand EXCEPT ![h] = w] /\ hand[h] \in HandType
  BY <1>1, <1>2 DEF AutoTypes, AutomationTypeOK
<1>4. w.pc = "check" /\ w.run = e /\ w.next = hand[h].next + 1 /\ hand[h].next \in Places
  BY <1>2, <1>3 DEF HandType
<1>5. h \in WorkersOf(e) /\ h \notin DoersOf(e)
  BY DEF WorkersOf, DoersOf, Handling
<1>6. WorkersOf(e)' = WorkersOf(e) /\ DoersOf(e)' = DoersOf(e)
  <2>1. WorkersOf(e)' = WorkersOf(e) \cup {h}
    BY <1>1, <1>3, <1>4, WorkersChange DEF Handling
  <2>2. DoersOf(e)' = DoersOf(e) \ {h}
    BY <1>1, <1>3, <1>4, WorkersChange
  <2> QED
    BY <2>1, <2>2, <1>5
<1>7. hand'[h] = w /\ \A g \in Hands : g # h => hand'[g] = hand[g]
  BY <1>1, <1>3 DEF AutoTypes, AutomationTypeOK
<1>8. Waits(e)' = Waits(e) /\ Claimable(e)' <= Claimable(e) /\ Claimable(e) \in Nat /\ Claimable(e)' \in Nat
  BY DEF Waits, Claimable
<1>9. BegunOK(e)'
  BY <1>1, <1>4, <1>7 DEF RunOK, BegunOK
<1>10. SoleOK(e)'
  <2> SUFFICES ASSUME e \notin outlived
               PROVE  SoleOK(e)'
    BY DEF SoleOK
  <2>1. \A g \in WorkersOf(e) : g = h
    BY <1>1, <1>5 DEF RunOK, SoleOK
  <2>2. ~Waits(e)
    BY <1>1, <1>5 DEF RunOK, SoleOK
  <2>3. \A i \in Places : i > hand[h].next => did[e][i] = 0
    BY <1>1, <1>5 DEF RunOK, SoleOK
  <2>4. \A i \in Places : i >= w.next => did[e][i] = 0
    BY <1>4, <2>3 DEF Places
  <2>5. \A i \in Places : i > w.next \/ i = w.next => i >= w.next
    BY <1>4 DEF Places
  <2>6. \A i \in Places : did[e][i] <= 1
    BY <1>1 DEF RunOK, SoleOK
  <2>7. late[e] <= 1 /\ (late[e] = 1 => DoersOf(e) = {})
    BY <1>1 DEF RunOK, SoleOK
  <2>8. \A g \in WorkersOf(e)' : g = h
    BY <1>6, <2>1
  <2>9. ~Waits(e)'
    BY <1>8, <2>2
  <2> QED
    BY <1>6, <1>7, <2>4, <2>5, <2>6, <2>7, <2>8, <2>9 DEF SoleOK
<1>11. CountOK(e)'
  <2>1. Cardinality(WorkersOf(e)) \in Nat
    BY <1>1, WorkersCount DEF RunOK
  <2> QED
    BY <1>1, <1>6, <1>8, <2>1 DEF RunOK, CountOK
<1> QED
  BY <1>9, <1>10, <1>11 DEF RunOK

LEMMA ParkedOK ==
  ASSUME AutoInv, NEW h \in Hands, Park(h), NEW e \in Events, Run(h) = e
  PROVE  RunOK(e)'
<1>1. RunOK(e) /\ faults \in Nat /\ late[e] \in Nat /\ AutoTypes
  BY AutomationAssumption DEF AutoInv, AutoTypes, AutomationTypeOK
<1>2. hand' = [hand EXCEPT ![h] = EmptyHand] /\ hand[h].run = e /\ hand[h].pc = "park" /\ EmptyHand.run # e
  BY EmptyHandIsOK, AutomationAssumption DEF Park, HandAt, Run, Drop
<1>3. h \in WorkersOf(e) /\ h \notin DoersOf(e)
  BY <1>2 DEF WorkersOf, DoersOf, Handling
<1>4. WorkersOf(e)' = WorkersOf(e) \ {h} /\ DoersOf(e)' = DoersOf(e) \ {h}
  BY <1>1, <1>2, WorkersChange
<1>5. hand'[h] = EmptyHand /\ \A g \in Hands : g # h => hand'[g] = hand[g]
  BY <1>1, <1>2 DEF AutoTypes, AutomationTypeOK
<1>6. arun'[e].status = "waiting" /\ arun'[e].next = hand[h].next /\ Claimable(e)' = 1
      /\ UNCHANGED <<did, late, outlived, faults, replied>>
  BY <1>1 DEF Park, Run, AutoTypes, AutomationTypeOK, Claimable, Waits, history
<1>7. arun[e].status # "absent"
  BY <1>1, <1>2 DEF RunOK, BegunOK
<1>8. BegunOK(e)'
  BY <1>1, <1>2, <1>5, <1>6, <1>7 DEF RunOK, BegunOK
<1>9. SoleOK(e)'
  <2> SUFFICES ASSUME e \notin outlived
               PROVE  SoleOK(e)'
    BY <1>6 DEF SoleOK
  <2>1. \A g \in WorkersOf(e) : g = h
    BY <1>1, <1>3 DEF RunOK, SoleOK
  <2>2. WorkersOf(e)' = {} /\ DoersOf(e)' = {}
    BY <1>4, <2>1 DEF WorkersOf, DoersOf, Handling
  <2>3. \A i \in Places : i > hand[h].next \/ i = hand[h].next => did[e][i] = 0
    BY <1>1, <1>2, <1>3 DEF RunOK, SoleOK
  <2>4. hand[h].next \in Places
    BY <1>1 DEF AutoTypes, AutomationTypeOK, HandType
  <2>5. \A i \in Places : i >= hand[h].next => did[e][i] = 0
    BY <2>3, <2>4 DEF Places
  <2>6. (\A i \in Places : did[e][i] <= 1) /\ late[e] <= 1
    BY <1>1 DEF RunOK, SoleOK
  <2> QED
    BY <1>6, <2>2, <2>5, <2>6 DEF SoleOK
<1>10. CountOK(e)'
  <2>1. CountOK(e) /\ Claimable(e) \in Nat
    BY <1>1 DEF RunOK, Claimable
  <2>2. /\ Cardinality(WorkersOf(e) \ {h}) = Cardinality(WorkersOf(e)) - 1 /\ IsFiniteSet(WorkersOf(e) \ {h})
        /\ Cardinality(WorkersOf(e)) \in Nat /\ DoersOf(e) \ {h} = DoersOf(e)
    BY <1>3, <2>1, WorkersCount
  <2>3. Cardinality(WorkersOf(e)) + Claimable(e) <= 1 + faults
    BY <2>1 DEF CountOK
  <2>4. Cardinality(WorkersOf(e)') + 1 <= 1 + faults
    BY <1>1, <1>4, <2>1, <2>2, <2>3
  <2>5. DoersOf(e)' = DoersOf(e)
    BY <1>4, <2>2
  <2>6. IF replied THEN late[e] + Cardinality(DoersOf(e)) <= 1 + faults ELSE late[e] = 0
    BY <2>1 DEF CountOK
  <2>7. IsFiniteSet(WorkersOf(e)')
    BY <1>4, <2>2
  <2> QED
    BY <1>6, <2>4, <2>5, <2>6, <2>7 DEF CountOK
<1> QED
  BY <1>8, <1>9, <1>10 DEF RunOK

LEMMA FinishedOK ==
  ASSUME AutoInv, NEW h \in Hands, FinishRun(h), NEW e \in Events, Run(h) = e
  PROVE  RunOK(e)'
<1>1. RunOK(e) /\ faults \in Nat /\ late[e] \in Nat /\ AutoTypes
  BY AutomationAssumption DEF AutoInv, AutoTypes, AutomationTypeOK
<1>2. hand' = [hand EXCEPT ![h] = EmptyHand] /\ hand[h].run = e /\ hand[h].pc = "finish" /\ EmptyHand.run # e
  BY EmptyHandIsOK, AutomationAssumption DEF FinishRun, HandAt, Run, Drop
<1>3. h \notin WorkersOf(e) /\ h \notin DoersOf(e)
  BY <1>2 DEF WorkersOf, DoersOf, Handling
<1>4. WorkersOf(e)' = WorkersOf(e) /\ DoersOf(e)' = DoersOf(e)
  <2>1. WorkersOf(e)' = WorkersOf(e) \ {h} /\ DoersOf(e)' = DoersOf(e) \ {h}
    BY <1>1, <1>2, WorkersChange
  <2> QED
    BY <1>3, <2>1
<1>5. hand'[h] = EmptyHand /\ \A g \in Hands : g # h => hand'[g] = hand[g]
  BY <1>1, <1>2 DEF AutoTypes, AutomationTypeOK
<1>6. arun'[e].status \in Ended /\ UNCHANGED <<did, late, outlived, faults, replied>>
  BY <1>1 DEF FinishRun, Run, AutoTypes, AutomationTypeOK, HandType, ARunType, history
<1>7. arun'[e].status # "absent" /\ ~Waits(e)' /\ Claimable(e)' = 0
  BY <1>6 DEF Claimable, Waits, Ended
<1>8. arun[e].status # "absent"
  BY <1>1, <1>2 DEF RunOK, BegunOK
<1>9. BegunOK(e)'
  BY <1>1, <1>2, <1>5, <1>7, <1>8 DEF RunOK, BegunOK
<1>10. SoleOK(e)'
  <2>1. \A g \in WorkersOf(e) : hand'[g] = hand[g]
    BY <1>3, <1>5 DEF WorkersOf
  <2> QED
    BY <1>1, <1>4, <1>6, <1>7, <2>1 DEF RunOK, SoleOK
<1>11. CountOK(e)'
  <2>1. Cardinality(WorkersOf(e)) \in Nat /\ Claimable(e) \in Nat
    BY <1>1, WorkersCount DEF RunOK, Claimable
  <2> QED
    BY <1>1, <1>4, <1>6, <1>7, <2>1 DEF RunOK, CountOK
<1> QED
  BY <1>9, <1>10, <1>11 DEF RunOK

LEMMA ClaimedOK ==
  ASSUME AutoInv, NEW h \in Hands, NEW e \in Events, ClaimRun(h, e)
  PROVE  RunOK(e)'
<1>1. RunOK(e) /\ faults \in Nat /\ late[e] \in Nat /\ AutoTypes
  BY AutomationAssumption DEF AutoInv, AutoTypes, AutomationTypeOK
<1>2. PICK w : /\ hand' = [hand EXCEPT ![h] = w] /\ w.run = e /\ w.next = arun[e].next
               /\ w.pc \in {"check", "waited"}
  <2> DEFINE pc == IF arun[e].resume # "none" /\ arun[e].next <= Len(Steps) /\ Steps[arun[e].next] = "wait"
                   THEN "waited" ELSE "check"
             w == [EmptyHand EXCEPT !.run = e, !.next = arun[e].next, !.pc = pc]
  <2>1. hand' = [hand EXCEPT ![h] = w]
    BY DEF ClaimRun
  <2>2. pc \in {"waited", "check"}
    OBVIOUS
  <2> HIDE DEF pc
  <2>3. w.run = e /\ w.next = arun[e].next /\ w.pc = pc
    BY DEF EmptyHand
  <2> HIDE DEF w
  <2> QED
    BY <2>1, <2>2, <2>3
<1>3. hand[h].pc = "idle" /\ hand[h].run # e
  BY <1>1, AutomationAssumption DEF ClaimRun, HandAt, AutoTypes, HandOK
<1>4. h \notin WorkersOf(e) /\ h \notin DoersOf(e)
  BY <1>3 DEF WorkersOf, DoersOf
<1>5. WorkersOf(e)' = WorkersOf(e) \cup {h} /\ DoersOf(e)' = DoersOf(e)
  <2>1. w.run = e /\ w.pc \in Handling /\ w.pc # "do"
    BY <1>2 DEF Handling
  <2>2. WorkersOf(e)' = WorkersOf(e) \cup {h} /\ DoersOf(e)' = DoersOf(e) \ {h}
    BY <1>1, <1>2, <2>1, WorkersChange
  <2> QED
    BY <2>2, <1>4
<1>6. hand'[h] = w /\ \A g \in Hands : g # h => hand'[g] = hand[g]
  BY <1>1, <1>2 DEF AutoTypes, AutomationTypeOK
<1>7. /\ arun'[e].status = "running" /\ arun'[e].lease = "live" /\ UNCHANGED <<did, late, faults, replied>>
      /\ outlived' = IF arun[e].lease = "over" THEN outlived \cup {e} ELSE outlived
  BY <1>1 DEF ClaimRun, AutoTypes, AutomationTypeOK, ARunType
<1>8. Claimable(e) = 1 /\ Claimable(e)' = 0 /\ ~Waits(e)'
  BY <1>7 DEF ClaimRun, ClaimableRun, Claimable, Waits
<1>9. arun[e].status # "absent" /\ (arun[e].lease # "over" => Waits(e))
  BY DEF ClaimRun, ClaimableRun, Waits
<1>10. BegunOK(e)'
  BY <1>1, <1>2, <1>6, <1>7, <1>9 DEF RunOK, BegunOK
<1>11. SoleOK(e)'
  <2> SUFFICES ASSUME e \notin outlived'
               PROVE  SoleOK(e)'
    BY DEF SoleOK
  <2>1. e \notin outlived /\ Waits(e)
    BY <1>7, <1>9
  <2>2. WorkersOf(e) = {} /\ \A i \in Places : i >= arun[e].next => did[e][i] = 0
    BY <1>1, <2>1 DEF RunOK, SoleOK
  <2>3. WorkersOf(e)' = {h} /\ DoersOf(e)' = {}
    BY <1>5, <2>2 DEF WorkersOf, DoersOf, Handling
  <2>4. arun[e].next \in Places
    BY <1>1 DEF AutoTypes, AutomationTypeOK, ARunType
  <2>5. \A i \in Places : i > w.next \/ i = w.next => did[e][i] = 0
    BY <1>2, <2>2, <2>4 DEF Places
  <2>6. (\A i \in Places : did[e][i] <= 1) /\ late[e] <= 1
    BY <1>1, <2>1 DEF RunOK, SoleOK
  <2> QED
    BY <1>6, <1>7, <1>8, <2>3, <2>5, <2>6 DEF SoleOK
<1>12. CountOK(e)'
  <2>1. CountOK(e)
    BY <1>1 DEF RunOK
  <2>2. /\ Cardinality(WorkersOf(e) \cup {h}) = Cardinality(WorkersOf(e)) + 1 /\ IsFiniteSet(WorkersOf(e) \cup {h})
        /\ Cardinality(WorkersOf(e)) \in Nat
    BY <1>4, <2>1, WorkersCount
  <2> QED
    BY <1>1, <1>5, <1>7, <1>8, <2>1, <2>2 DEF CountOK
<1> QED
  BY <1>10, <1>11, <1>12 DEF RunOK

(* A hand that takes up a run it does not work on, or goes on to insert it. *)
LEMMA TakenUpOK ==
  ASSUME AutoInv, NEW h \in Hands, NEW e \in Events, NEW w, hand' = [hand EXCEPT ![h] = w], w.run = e,
         h \notin WorkersOf(e), w.pc \in {"start", "insert", "finish"},
         UNCHANGED <<arun, did, late, outlived, faults, replied>>,
         arun[e].status = "absent" <=> w.pc \in {"start", "insert"},
         arun[e].status = "absent" => \A g \in Hands : hand[g].run = e => g = h
  PROVE  RunOK(e)'
<1>1. RunOK(e) /\ AutoTypes
  BY DEF AutoInv
<1>2. h \notin DoersOf(e) /\ w.pc \notin Handling /\ w.pc # "do"
  BY DEF WorkersOf, DoersOf, Handling
<1>3. WorkersOf(e)' = WorkersOf(e) /\ DoersOf(e)' = DoersOf(e)
  <2>1. WorkersOf(e)' = WorkersOf(e) \ {h} /\ DoersOf(e)' = DoersOf(e) \ {h}
    BY <1>1, <1>2, WorkersChange
  <2> QED
    BY <1>2, <2>1
<1>4. hand'[h] = w /\ \A g \in Hands : g # h => hand'[g] = hand[g]
  BY <1>1 DEF AutoTypes, AutomationTypeOK
<1>5. Waits(e)' = Waits(e) /\ Claimable(e)' = Claimable(e)
  BY DEF Waits, Claimable
<1>6. BegunOK(e)'
  BY <1>1, <1>4 DEF RunOK, BegunOK
<1>7. SoleOK(e)'
  <2>1. \A g \in WorkersOf(e) : hand'[g] = hand[g]
    BY <1>4 DEF WorkersOf
  <2> QED
    BY <1>1, <1>3, <1>5, <2>1 DEF RunOK, SoleOK
<1>8. CountOK(e)'
  BY <1>1, <1>3, <1>5 DEF RunOK, CountOK
<1> QED
  BY <1>6, <1>7, <1>8 DEF RunOK

(* The clocks of a run, and the reply. *)
LEMMA ClockedOK ==
  ASSUME AutoInv, NEW e \in Events, RunLeaseOver(e) \/ HolderIsSlow(e) \/ WaitOver(e)
  PROVE  RunOK(e)'
<1>1. RunOK(e) /\ faults \in Nat /\ late[e] \in Nat /\ AutoTypes
  BY AutomationAssumption DEF AutoInv, AutoTypes, AutomationTypeOK
<1>2. WorkersOf(e)' = WorkersOf(e) /\ DoersOf(e)' = DoersOf(e)
  BY DEF RunLeaseOver, HolderIsSlow, WaitOver, WorkersOf, DoersOf
<1>3. /\ arun'[e].status = arun[e].status /\ arun'[e].next = arun[e].next
      /\ UNCHANGED <<hand, did, late, outlived, replied>> /\ faults' \in Nat /\ faults' >= faults
  BY <1>1 DEF RunLeaseOver, HolderIsSlow, WaitOver, AutoTypes, AutomationTypeOK, ARunType, history
<1>4. Waits(e)' = Waits(e)
  BY <1>3 DEF Waits
<1>5. BegunOK(e)'
  BY <1>1, <1>3 DEF RunOK, BegunOK
<1>6. SoleOK(e)'
  BY <1>1, <1>2, <1>3, <1>4 DEF RunOK, SoleOK
<1>7. IsFiniteSet(WorkersOf(e)) /\ Cardinality(WorkersOf(e)) \in Nat /\ Cardinality(DoersOf(e)) \in Nat
  <2>1. IsFiniteSet(WorkersOf(e)) /\ DoersOf(e) \in SUBSET WorkersOf(e)
    BY <1>1 DEF RunOK, CountOK, WorkersOf, DoersOf, Handling
  <2> QED
    BY <2>1, FS_Subset, FS_CardinalityType
<1>8. Cardinality(WorkersOf(e)) + Claimable(e)' <= 1 + faults'
  <2>1. Claimable(e) \in {0, 1} /\ Claimable(e)' \in {0, 1} /\ Cardinality(WorkersOf(e)) + Claimable(e) <= 1 + faults
    BY <1>1 DEF RunOK, CountOK, Claimable
  <2>2. CASE RunLeaseOver(e)
    <3>1. WorkersOf(e) = {}
      BY <2>2 DEF RunLeaseOver, Held, Run, WorkersOf
    <3> QED
      BY <3>1, <1>1, <1>3, <2>1, FS_EmptySet
  <2>3. CASE HolderIsSlow(e)
    <3>1. faults' = faults + 1
      BY <2>3 DEF HolderIsSlow
    <3> QED
      BY <3>1, <1>1, <1>7, <2>1
  <2>4. CASE WaitOver(e)
    <3>1. Claimable(e)' = Claimable(e) /\ faults' = faults
      BY <2>4, <1>1 DEF WaitOver, Claimable, Waits, AutoTypes, AutomationTypeOK, ARunType, history
    <3> QED
      BY <3>1, <2>1
  <2> QED
    BY <2>2, <2>3, <2>4
<1>9. CountOK(e)'
  <2>1. IF replied THEN late[e] + Cardinality(DoersOf(e)) <= 1 + faults ELSE late[e] = 0
    BY <1>1 DEF RunOK, CountOK
  <2>2. IF replied THEN late[e] + Cardinality(DoersOf(e)) <= 1 + faults' ELSE late[e] = 0
    BY <1>1, <1>3, <1>7, <2>1
  <2> QED
    BY <1>2, <1>3, <1>7, <1>8, <2>2 DEF CountOK
<1> QED
  BY <1>5, <1>6, <1>9 DEF RunOK

LEMMA RepliedOK ==
  ASSUME AutoInv, Reply, NEW e \in Events
  PROVE  RunOK(e)'
<1>1. RunOK(e) /\ faults \in Nat
  BY AutomationAssumption DEF AutoInv, AutoTypes, AutomationTypeOK
<1>2. /\ WorkersOf(e)' = WorkersOf(e) /\ DoersOf(e)' = DoersOf(e) /\ Waits(e)' = Waits(e) /\ Claimable(e)' = Claimable(e)
      /\ UNCHANGED <<switch, arun, hand, did, late, outlived, faults>>
  BY DEF Reply, WorkersOf, DoersOf, Waits, Claimable, history
<1>3. BegunOK(e)' /\ SoleOK(e)'
  BY <1>1, <1>2 DEF RunOK, BegunOK, SoleOK
<1>4. /\ IsFiniteSet(WorkersOf(e)) /\ Cardinality(WorkersOf(e)) \in Nat /\ Cardinality(DoersOf(e)) \in Nat
      /\ Cardinality(DoersOf(e)) <= Cardinality(WorkersOf(e))
  <2>1. IsFiniteSet(WorkersOf(e)) /\ DoersOf(e) \in SUBSET WorkersOf(e)
    BY <1>1 DEF RunOK, CountOK, WorkersOf, DoersOf, Handling
  <2> QED
    BY <2>1, FS_Subset, FS_CardinalityType
<1>5. Cardinality(WorkersOf(e)) + Claimable(e) <= 1 + faults /\ Claimable(e) \in {0, 1} /\ late[e] = 0
  BY <1>1 DEF RunOK, CountOK, Claimable, Reply
<1>6. late[e] + Cardinality(DoersOf(e)) <= 1 + faults
  BY <1>1, <1>4, <1>5
<1>7. CountOK(e)'
  BY <1>2, <1>4, <1>5, <1>6 DEF CountOK
<1> QED
  BY <1>3, <1>7 DEF RunOK

-----------------------------------------------------------------------------
(* Every step keeps every run. *)
LEMMA RunsStep == AutoInv /\ [AutomationNext]_automationVars => \A e \in Events : RunOK(e)'
<1> SUFFICES ASSUME AutoInv, [AutomationNext]_automationVars, NEW e \in Events
             PROVE  RunOK(e)'
  OBVIOUS
<1>0. /\ arun \in [Events -> ARunType] /\ hand \in [Hands -> HandType] /\ did \in [Events -> [Places -> 0..2]]
      /\ late \in [Events -> Nat] /\ outlived \in SUBSET Events /\ faults \in Nat /\ AutoTypes
      /\ \A h \in Hands : HandOK(hand[h])
  BY AutomationAssumption DEF AutoInv, AutoTypes, AutomationTypeOK
<1>r. BegunOK(e) /\ EmptyHand.run # e /\ EmptyHand.pc = "idle"
  BY EmptyHandIsOK, AutomationAssumption DEF AutoInv, RunOK
(* What concerns another run leaves this one. *)
<1>e. ASSUME NEW h \in Hands, hand[h].run # e, NEW w, hand' = [hand EXCEPT ![h] = w], w.run # e,
             arun'[e] = arun[e], Steady(e)
      PROVE  RunOK(e)'
  <2>1. \A g \in Hands : hand'[g] = hand[g] \/ (hand[g].run # e /\ hand'[g].run # e)
    BY <1>e, <1>0
  <2> QED
    BY <2>1, <1>e, Elsewhere
<1>s. ASSUME hand' = hand, arun'[e] = arun[e], Steady(e)
      PROVE  RunOK(e)'
  BY <1>s, Elsewhere
<1>t. UNCHANGED <<did, late, outlived, faults, replied>> => Steady(e)
  BY <1>0 DEF Steady
<1>1. CASE UNCHANGED automationVars
  BY <1>1, <1>0, <1>t, <1>s DEF automationVars
<1>2. ASSUME NEW h \in Hands, StartCheck(h)
      PROVE  RunOK(e)'
  <2>0. UNCHANGED <<arun, did, late, outlived, faults, replied>> /\ hand[h].pc = "start"
    BY <1>2 DEF StartCheck, HandAt, history
  <2>1. PICK w : hand' = [hand EXCEPT ![h] = w] /\ (w = EmptyHand \/ (w.pc = "insert" /\ w.run = hand[h].run))
    <3>1. CASE Drop(h)
      BY <3>1 DEF Drop
    <3>2. CASE HandTo(h, "insert")
      <4> DEFINE w == [hand[h] EXCEPT !.pc = "insert"]
      <4>1. hand' = [hand EXCEPT ![h] = w] /\ w.pc = "insert" /\ w.run = hand[h].run
        BY <3>2, <1>0 DEF HandTo, HandType
      <4> HIDE DEF w
      <4> QED
        BY <4>1
    <3> QED
      BY <1>2, <3>1, <3>2 DEF StartCheck
  <2>2. CASE hand[h].run # e
    BY <2>0, <2>1, <2>2, <1>0, <1>t, <1>r, <1>e
  <2>3. CASE hand[h].run = e /\ w = EmptyHand
    BY <2>0, <2>1, <2>3, <1>0, <1>t, <1>r, GivenUp
  <2>4. CASE hand[h].run = e /\ w # EmptyHand
    <3>1. h \notin WorkersOf(e)
      BY <2>0 DEF WorkersOf, Handling
    <3>2. arun[e].status = "absent" /\ \A g \in Hands : hand[g].run = e => g = h
      BY <2>0, <2>4, <1>r DEF BegunOK
    <3> QED
      BY <2>0, <2>1, <2>4, <3>1, <3>2, TakenUpOK
  <2> QED
    BY <2>2, <2>3, <2>4
<1>3. ASSUME NEW h \in Hands, StartInsert(h)
      PROVE  RunOK(e)'
  <2>1. CASE Run(h) = e
    BY <1>3, <2>1, InsertedOK
  <2>2. CASE Run(h) # e
    <3> DEFINE w == [hand[h] EXCEPT !.pc = "check"]
    <3>1. hand' = [hand EXCEPT ![h] = w] /\ w.run = hand[h].run
      BY <1>3, <1>0 DEF StartInsert, HandTo, HandType
    <3>2. arun'[e] = arun[e] /\ UNCHANGED <<did, late, outlived, faults, replied>>
      BY <1>3, <2>2, <1>0 DEF StartInsert, history
    <3> HIDE DEF w
    <3> QED
      BY <3>1, <3>2, <2>2, <1>0, <1>t, <1>e DEF Run
  <2> QED
    BY <2>1, <2>2
<1>4. ASSUME NEW h \in Hands, Advance(h)
      PROVE  RunOK(e)'
  <2>0. hand[h].pc = "check" /\ UNCHANGED <<arun, did, late, outlived, faults, replied>>
    BY <1>4 DEF Advance, HandAt, history
  <2>1. CASE EndRunAs(h, "completed") \/ EndRunAs(h, "stopped")
    <3>1. PICK w : hand' = [hand EXCEPT ![h] = w] /\ w.run = hand[h].run /\ w.pc = "finish"
      <4>1. PICK o : EndRunAs(h, o)
        BY <2>1
      <4> DEFINE w == [hand[h] EXCEPT !.pc = "finish", !.outcome = o]
      <4>2. hand' = [hand EXCEPT ![h] = w] /\ w.run = hand[h].run /\ w.pc = "finish"
        BY <4>1, <1>0 DEF EndRunAs, HandType
      <4> HIDE DEF w
      <4> QED
        BY <4>2
    <3>2. CASE hand[h].run = e
      <4>1. arun[e].status # "absent"
        BY <3>2, <2>0, <1>r DEF BegunOK
      <4> QED
        BY <3>1, <3>2, <4>1, <2>0, <1>0, <1>t, GivenUp
    <3>3. CASE hand[h].run # e
      BY <3>1, <3>3, <2>0, <1>0, <1>t, <1>e
    <3> QED
      BY <3>2, <3>3
  <2>2. CASE ~(EndRunAs(h, "completed") \/ EndRunAs(h, "stopped"))
    <3>1. PICK pc \in {"park", "do"} : HandTo(h, pc) /\ ~replied
      BY <1>4, <2>2 DEF Advance, MustStop
    <3>2. CASE hand[h].run = e
      BY <3>1, <3>2, <2>0, GoesOnOK
    <3>3. CASE hand[h].run # e
      <4> DEFINE w == [hand[h] EXCEPT !.pc = pc]
      <4>1. hand' = [hand EXCEPT ![h] = w] /\ w.run = hand[h].run
        BY <3>1, <1>0 DEF HandTo, HandType
      <4> HIDE DEF w
      <4> QED
        BY <4>1, <3>3, <2>0, <1>0, <1>t, <1>e
    <3> QED
      BY <3>2, <3>3
  <2> QED
    BY <2>1, <2>2
<1>5. ASSUME NEW h \in Hands, Perform(h)
      PROVE  RunOK(e)'
  <2>1. CASE Run(h) = e
    BY <1>5, <2>1, PerformedOK
  <2>2. CASE Run(h) # e
    <3>1. PICK pc : HandTo(h, pc)
      BY <1>5 DEF Perform
    <3> DEFINE w == [hand[h] EXCEPT !.pc = pc]
    <3>2. hand' = [hand EXCEPT ![h] = w] /\ w.run = hand[h].run
      BY <3>1, <1>0 DEF HandTo, HandType
    <3>3. Steady(e) /\ arun' = arun
      BY <1>5, <2>2, <1>0 DEF Perform, Steady
    <3> HIDE DEF w
    <3> QED
      BY <3>2, <3>3, <2>2, <1>0, <1>t, <1>e DEF Run
  <2> QED
    BY <2>1, <2>2
<1>6. ASSUME NEW h \in Hands, SaveStep(h) \/ Waited(h)
      PROVE  RunOK(e)'
  <2>0. /\ hand[h].pc \in {"save", "waited"} /\ UNCHANGED <<did, late, outlived, faults, replied>>
        /\ hand' = [hand EXCEPT ![h].pc = "check", ![h].next = @ + 1]
    BY <1>6 DEF SaveStep, Waited, HandAt, history
  <2>1. CASE hand[h].run = e
    <3>1. arun'[e].status = arun[e].status /\ arun'[e].lease \in {arun[e].lease, "live"}
      BY <1>6, <2>1, <1>0 DEF SaveStep, Waited, Run, ARunType
    <3> QED
      BY <2>0, <2>1, <3>1, TakesNextOK
  <2>2. CASE hand[h].run # e
    <3> DEFINE w == [hand[h] EXCEPT !.pc = "check", !.next = @ + 1]
    <3>1. hand' = [hand EXCEPT ![h] = w] /\ w.run = hand[h].run
      BY <2>0, <1>0 DEF HandType
    <3>2. arun'[e] = arun[e]
      BY <1>6, <2>2, <1>0 DEF SaveStep, Waited, Run
    <3> HIDE DEF w
    <3> QED
      BY <3>1, <3>2, <2>0, <2>2, <1>0, <1>t, <1>e
  <2> QED
    BY <2>1, <2>2
<1>7. ASSUME NEW h \in Hands, SaveFailure(h)
      PROVE  RunOK(e)'
  <2> DEFINE w == [hand[h] EXCEPT !.pc = "finish", !.outcome = "failed"]
  <2>1. /\ hand' = [hand EXCEPT ![h] = w] /\ w.run = hand[h].run /\ w.pc = "finish" /\ hand[h].pc = "fail"
        /\ UNCHANGED <<did, late, outlived, faults, replied>>
    BY <1>7, <1>0 DEF SaveFailure, EndRunAs, HandAt, HandType, history
  <2> HIDE DEF w
  <2>2. CASE hand[h].run = e
    <3>1. arun'[e].status = arun[e].status /\ arun'[e].lease = arun[e].lease
      BY <1>7, <2>2, <1>0 DEF SaveFailure, Run, ARunType
    <3>2. h \in WorkersOf(e)
      BY <2>1, <2>2 DEF WorkersOf, Handling
    <3>3. arun[e].status # "absent"
      BY <2>1, <2>2, <1>r DEF BegunOK
    <3> QED
      BY <2>1, <2>2, <3>1, <3>2, <3>3, <1>0, <1>t, GivenUp
  <2>3. CASE hand[h].run # e
    <3>1. arun'[e] = arun[e]
      BY <1>7, <2>3, <1>0 DEF SaveFailure, Run
    <3> QED
      BY <2>1, <2>3, <3>1, <1>0, <1>t, <1>e
  <2> QED
    BY <2>2, <2>3
<1>8. ASSUME NEW h \in Hands, Park(h) \/ FinishRun(h)
      PROVE  RunOK(e)'
  <2>1. CASE Run(h) = e
    BY <1>8, <2>1, ParkedOK, FinishedOK
  <2>2. CASE Run(h) # e
    <3>1. hand' = [hand EXCEPT ![h] = EmptyHand] /\ UNCHANGED <<did, late, outlived, faults, replied>>
      BY <1>8 DEF Park, FinishRun, Drop, history
    <3>2. arun'[e] = arun[e]
      BY <1>8, <2>2, <1>0 DEF Park, FinishRun
    <3> QED
      BY <3>1, <3>2, <2>2, <1>0, <1>t, <1>r, <1>e DEF Run
  <2> QED
    BY <2>1, <2>2
<1>9. ASSUME NEW h \in Hands, HandDies(h)
      PROVE  RunOK(e)'
  <2>1. hand' = [hand EXCEPT ![h] = EmptyHand] /\ arun' = arun /\ Steady(e)
    BY <1>9, <1>0 DEF HandDies, Drop, Steady
  <2>2. CASE hand[h].run = e
    BY <2>1, <2>2, <1>0, <1>t, <1>r, GivenUp
  <2>3. CASE hand[h].run # e
    BY <2>1, <2>3, <1>r, <1>e
  <2> QED
    BY <2>2, <2>3
<1>10. ASSUME NEW h \in Hands, NEW f \in Events, Hear(h, f) \/ StopRun(h, f)
       PROVE  RunOK(e)'
  <2>1. hand[h].pc = "idle" /\ UNCHANGED <<arun, did, late, outlived, faults, replied>>
    BY <1>10 DEF Hear, StopRun, HandAt, history
  <2>2. hand[h].run # e /\ h \notin WorkersOf(e)
    BY <2>1, <1>0 DEF HandOK, WorkersOf
  <2>3. PICK w : /\ hand' = [hand EXCEPT ![h] = w] /\ w.run = f
                 /\ (w.pc = "start" /\ Hear(h, f)) \/ (w.pc = "finish" /\ StopRun(h, f))
    <3> DEFINE v == [EmptyHand EXCEPT !.pc = "start", !.run = f]
               w == [EmptyHand EXCEPT !.pc = "finish", !.run = f, !.outcome = "stopped"]
    <3>1. v.run = f /\ v.pc = "start" /\ w.run = f /\ w.pc = "finish"
      BY DEF EmptyHand
    <3>2. (Hear(h, f) /\ hand' = [hand EXCEPT ![h] = v]) \/ (StopRun(h, f) /\ hand' = [hand EXCEPT ![h] = w])
      BY <1>10 DEF Hear, StopRun
    <3> HIDE DEF v, w
    <3> QED
      BY <3>1, <3>2
  <2>4. CASE f # e
    BY <2>1, <2>2, <2>3, <2>4, <1>0, <1>t, <1>e
  <2>5. CASE f = e
    <3>1. w.pc \in {"start", "insert", "finish"}
      BY <2>3
    <3>2. arun[e].status = "absent" <=> w.pc \in {"start", "insert"}
      BY <2>3, <2>5 DEF Hear, StopRun, ActiveStatuses
    <3>3. arun[e].status = "absent" => \A g \in Hands : hand[g].run = e => g = h
      BY <2>3, <2>5 DEF Hear, StopRun, ActiveStatuses, Run
    <3> QED
      BY <2>1, <2>2, <2>3, <2>5, <3>1, <3>2, <3>3, TakenUpOK
  <2> QED
    BY <2>4, <2>5
<1>11. ASSUME NEW h \in Hands, NEW f \in Events, ClaimRun(h, f)
       PROVE  RunOK(e)'
  <2>1. CASE f = e
    BY <1>11, <2>1, ClaimedOK
  <2>2. CASE f # e
    <3>1. hand[h].run # e
      BY <1>11, <1>0 DEF ClaimRun, HandAt, HandOK
    <3> DEFINE w == [EmptyHand EXCEPT !.run = f, !.next = arun[f].next,
       !.pc = IF arun[f].resume # "none" /\ arun[f].next <= Len(Steps) /\ Steps[arun[f].next] = "wait"
              THEN "waited" ELSE "check"]
    <3>2. hand' = [hand EXCEPT ![h] = w]
      BY <1>11 DEF ClaimRun
    <3>3. w.run = f
      BY DEF EmptyHand
    <3> HIDE DEF w
    <3>4. arun'[e] = arun[e] /\ Steady(e)
      BY <1>11, <2>2, <1>0 DEF ClaimRun, Steady
    <3> QED
      BY <3>1, <3>2, <3>3, <3>4, <2>2, <1>0, <1>t, <1>e
  <2> QED
    BY <2>1, <2>2
<1>12. ASSUME NEW f \in Events, RunLeaseOver(f) \/ HolderIsSlow(f) \/ WaitOver(f)
       PROVE  RunOK(e)'
  <2>1. CASE f = e
    BY <1>12, <2>1, ClockedOK
  <2>2. CASE f # e
    <3>1. arun'[e] = arun[e]
      BY <1>12, <2>2, <1>0 DEF RunLeaseOver, HolderIsSlow, WaitOver
    <3>2. hand' = hand /\ Steady(e)
      BY <1>12, <1>0 DEF RunLeaseOver, HolderIsSlow, WaitOver, history, Steady
    <3> QED
      BY <3>1, <3>2, <1>s
  <2> QED
    BY <2>1, <2>2
<1>13. ASSUME NEW to, Turn(to)
       PROVE  RunOK(e)'
  BY <1>13, <1>0, <1>t, <1>s DEF Turn, history
<1>14. CASE Reply
  BY <1>14, RepliedOK
<1> QED
  BY <1>1, <1>2, <1>3, <1>4, <1>5, <1>6, <1>7, <1>8, <1>9, <1>10, <1>11, <1>12, <1>13, <1>14
  DEF AutomationNext, HandWorks

LEMMA RunsPromise == AutoInv => RepeatedOnlyAfterLapse /\ ReplyStops
<1> SUFFICES ASSUME AutoInv
             PROVE  RepeatedOnlyAfterLapse /\ ReplyStops
  OBVIOUS
<1>1. ASSUME NEW e \in Events, NEW i \in Places, did[e][i] > 1
      PROVE  e \in outlived
  <2>1. did[e][i] \in 0..2
    BY DEF AutoInv, AutoTypes, AutomationTypeOK
  <2> QED
    BY <1>1, <2>1 DEF AutoInv, RunOK, SoleOK
<1>2. ASSUME NEW e \in Events
      PROVE  late[e] <= IF e \in outlived THEN 1 + faults ELSE 1
  <2>1. CountOK(e) /\ SoleOK(e) /\ late[e] \in Nat /\ faults \in Nat
    BY AutomationAssumption DEF AutoInv, RunOK, AutoTypes, AutomationTypeOK
  <2>2. Cardinality(DoersOf(e)) \in Nat
    <3>1. IsFiniteSet(WorkersOf(e)) /\ DoersOf(e) \in SUBSET WorkersOf(e)
      BY <2>1 DEF CountOK, WorkersOf, DoersOf, Handling
    <3> QED
      BY <3>1, FS_Subset, FS_CardinalityType
  <2>3. late[e] <= 1 + faults
    BY <2>1, <2>2 DEF CountOK
  <2> QED
    BY <2>1, <2>3 DEF SoleOK
<1> QED
  BY <1>1, <1>2 DEF RepeatedOnlyAfterLapse, ReplyStops

(***************************************************************************)
(* A step is repeated only of a run that was claimed after a lapse, and    *)
(* after the reply only steps that were checked before it are done, one    *)
(* and one more for every fault at most: for every automation and any      *)
(* number of hands and faults (resume_due, advance).                       *)
(***************************************************************************)
THEOREM StepsAreDoneOnce == AutomationSpec => [](AutomationTypeOK /\ RepeatedOnlyAfterLapse /\ ReplyStops)
<1>1. AutoInv /\ [AutomationNext]_automationVars => AutoInv'
  BY AutoTypesStep, RunsStep DEF AutoInv
<1>2. AutoInv => AutomationTypeOK /\ RepeatedOnlyAfterLapse /\ ReplyStops
  BY RunsPromise DEF AutoInv, AutoTypes
<1> QED
  BY <1>1, <1>2, AutoStarts, PTL DEF AutomationSpec

-----------------------------------------------------------------------------
(* Detection.  A sweep that enqueues or attaches has a case in hand.        *)
ScanPcs == {"idle", "judge", "close", "look", "open", "enqueue", "attach"}
FoundType == [key : Keys, worth : {"none", "low", "high"}]
ScanType == [at : ScanPcs, open : SUBSET Keys, engaged : SUBSET Keys, unread : SUBSET Records,
             found : SUBSET FoundType, key : Keys \cup {NoKey}, ref : Nat, item : Nat]
ItemType == [n : Nat, open : BOOLEAN]
InHand == {"enqueue", "attach"}

DetectionTypes ==
  /\ source \in [Records -> SourceType]
  /\ cases \in [DOMAIN cases -> CaseType] /\ DOMAIN cases \subseteq Keys
  /\ items \in [Keys -> ItemType] /\ scan \in [Scans -> ScanType]
  /\ \A s \in Scans : scan[s].at \in InHand => scan[s].key \in DOMAIN cases
  /\ loose \subseteq Keys /\ stirs \in 0..MaxStirs /\ scanFaults \in 0..MaxScanFaults

(* A conversation is answered after its case was opened only with a case.   *)
HeardOK == \A r \in Records : source[r].heard => <<r, "no_response">> \in DOMAIN cases

(* A sweep has an ended case in hand only if it ended under it, and open    *)
(* work that no sweep is about to refer to has an open case that does.      *)
CaseEnded(k) == k \in DOMAIN cases /\ cases[k].state = "ended"
EndedOK == \A k \in Keys \ loose : CaseEnded(k) => \A s \in Scans : ~(scan[s].at \in InHand /\ scan[s].key = k)
Follows(k) ==
  (\A s \in Scans : ~(scan[s].at = "attach" /\ scan[s].key = k)) /\ items[k].open =>
    k \in DOMAIN cases /\ cases[k].state # "ended" /\ cases[k].ref = items[k].n
FollowsOK == \A k \in Keys \ loose : Follows(k)

DetectionInv == DetectionTypes /\ HeardOK /\ EndedOK /\ FollowsOK

-----------------------------------------------------------------------------
(* What the invariant says.                                                 *)
LEMMA DetectionTypesOK == DetectionTypes => DetectionTypeOK
BY DEF DetectionTypes, DetectionTypeOK, ScanType, FoundType, ItemType, NoScan

LEMMA InvFollows == DetectionInv => WorkFollowsCase
BY DEF DetectionInv, DetectionTypes, FollowsOK, Follows, WorkFollowsCase, Terminal

LEMMA StatusesLemma ==
  /\ Kinds = {"call", "web_enquiry", "estimate", "conversation", "appointment", "external_event", "opportunity",
              "followup"}
  /\ StatusesOf["call"] = {"missed", "hidden"}
  /\ StatusesOf["web_enquiry"] = {"new", "responded", "closed", "spam", "test"}
  /\ StatusesOf["estimate"] = {"draft", "sent", "accepted", "declined"}
  /\ StatusesOf["conversation"] = {"open", "snoozed", "closed"}
  /\ StatusesOf["appointment"] = {"booked", "cancelled", "completed", "no_show"}
  /\ StatusesOf["external_event"] = {"new", "processed", "unknown"}
  /\ StatusesOf["opportunity"] = {"open", "archived", "lost", "won"}
  /\ StatusesOf["followup"] = {"due", "done", "of_lead"}
BY DEF Kinds, StatusesOf

(* Lane by lane.                                                            *)
LEMMA InvLanes == DetectionInv => LanesAgreeWithVerdicts
<1> SUFFICES ASSUME DetectionInv, NEW k \in Keys \ DOMAIN cases,
                    Detects(source[k[1]], k[2]), Closable(k, FALSE)
             PROVE  k[2] = "appointment_no_show" /\ Rebooked(source[k[1]])
  BY DEF LanesAgreeWithVerdicts
<1>1. PICK r \in Records, lane \in Lanes : k = <<r, lane>>
  BY DEF Keys
<1> DEFINE x == source[r]
<1>2. x.heard => lane # "no_response"
  BY <1>1 DEF DetectionInv, HeardOK
<1>3. Detects(x, lane) /\ (Hard(x, lane) \/ Soft(x, lane))
  BY <1>1 DEF Closable
<1> HIDE DEF x
<1>4. x.there
  BY <1>3 DEF Detects
<1>5. CASE lane = "missed_call"
  BY <1>5, <1>3, <1>4 DEF Detects, Hard, Soft, MissedCall, MissedCallVerdict
<1>6. CASE lane = "web_enquiry"
  BY <1>6, <1>3, <1>4 DEF Detects, Hard, Soft, WebEnquiry, WebEnquiryVerdict, EnquiryResolved
<1>7. CASE lane = "unanswered_estimate"
  BY <1>7, <1>3, <1>4 DEF Detects, Hard, Soft, OpenOffer, OfferVerdict
<1>8. CASE lane = "no_response"
  BY <1>8, <1>2, <1>3, <1>4 DEF Detects, Hard, Soft, NoResponse, NoResponseVerdict
<1>9. CASE lane = "appointment_cancelled"
  BY <1>9, <1>3, <1>4 DEF Detects, Hard, Soft, CancelledAppointment, AppointmentVerdict, Rebooked
<1>10. CASE lane = "appointment_no_show"
  <2>1. Rebooked(x)
    BY <1>10, <1>3, <1>4 DEF Detects, Hard, Soft, NoShow, AppointmentVerdict
  <2> QED
    BY <2>1, <1>1, <1>10 DEF x
<1>11. CASE lane = "external_crm_event"
  BY <1>11, <1>3, <1>4 DEF Detects, Hard, Soft, ExternalEvent, ExternalVerdict
<1>12. CASE lane = "dormant_deal"
  BY <1>12, <1>3, <1>4 DEF Detects, Hard, Soft, StalledLead, DealVerdict
<1>13. CASE lane = "missed_followup"
  BY <1>13, <1>3, <1>4 DEF Detects, Hard, Soft, MissedFollowup, FollowupVerdict
<1> QED
  BY <1>5, <1>6, <1>7, <1>8, <1>9, <1>10, <1>11, <1>12, <1>13 DEF Lanes

-----------------------------------------------------------------------------
(* What a sweep is given is a sweep's.                                      *)
LEMMA NoScanIsOK == NoScan \in ScanType /\ NoScan.at = "idle"
BY DEF NoScan, ScanType, ScanPcs

(* A sweep changes; it has nothing in hand, or what it has is a case's key. *)
LEMMA ScanChanges ==
  ASSUME DetectionTypes, NEW s \in Scans, NEW f \in ScanType, Scanning(s, f)
  PROVE  /\ scan' \in [Scans -> ScanType] /\ scan'[s] = f
         /\ \A t \in Scans \ {s} : scan'[t] = scan[t]
BY DEF DetectionTypes, Scanning

LEMMA NextFoundIs ==
  ASSUME DetectionTypes, NEW s \in Scans, NEW left, left \subseteq FoundType, NextFound(s, left)
  PROVE  /\ scan' \in [Scans -> ScanType] /\ scan'[s].at \notin InHand
         /\ \A t \in Scans \ {s} : scan'[t] = scan[t]
<1> DEFINE f == IF left = {} THEN NoScan ELSE [NoScan EXCEPT !.at = "open", !.found = left]
<1>1. f \in ScanType /\ f.at \notin InHand
  BY DEF NoScan, ScanType, ScanPcs, InHand
<1>2. Scanning(s, f)
  BY DEF NextFound
<1> HIDE DEF f
<1> QED
  BY <1>1, <1>2, ScanChanges

(* The sweeps are as they were but for some that have nothing in hand now.  *)
PutsDown == \A t \in Scans : scan'[t].at \in InHand => scan'[t] = scan[t]

(* While no case and no item changes, putting down an item not yet referred *)
(* to is what can only make its key loose.                                  *)
LEMMA KeepsCases ==
  ASSUME DetectionInv, UNCHANGED <<cases, items>>, loose \subseteq loose', PutsDown,
         \A s \in Scans : scan[s].at = "attach" => scan'[s] = scan[s] \/ scan[s].key \in loose'
  PROVE  (EndedOK /\ FollowsOK)'
<1>1. EndedOK'
  BY DEF DetectionInv, EndedOK, PutsDown, CaseEnded
<1>2. ASSUME NEW k \in Keys \ loose', \A s \in Scans : ~(scan'[s].at = "attach" /\ scan'[s].key = k), items[k].open
      PROVE  k \in DOMAIN cases /\ cases[k].state # "ended" /\ cases[k].ref = items[k].n
  <2>1. \A s \in Scans : ~(scan[s].at = "attach" /\ scan[s].key = k)
    BY <1>2
  <2>2. Follows(k)
    BY DEF DetectionInv, FollowsOK
  <2> QED
    BY <2>1, <2>2, <1>2 DEF Follows
<1> QED
  BY <1>1, <1>2 DEF FollowsOK, Follows

(* A change of a record alone.                                              *)
LEMMA SourceChanges ==
  ASSUME DetectionInv, NEW r \in Records, NEW x \in SourceType, Change(r, x),
         x.heard => source[r].heard \/ <<r, "no_response">> \in DOMAIN cases
  PROVE  DetectionInv'
<1>0. DetectionTypes /\ HeardOK /\ EndedOK /\ FollowsOK
  BY DEF DetectionInv
<1>1. /\ source' = [source EXCEPT ![r] = x] /\ stirs < MaxStirs /\ stirs' = stirs + 1
      /\ UNCHANGED <<cases, items, scan, loose, scanFaults>>
  BY DEF Change, Stir
<1>2. stirs' \in 0..MaxStirs
  BY <1>0, <1>1, DetectionAssumption DEF DetectionTypes
<1>3. DetectionTypes'
  BY <1>0, <1>1, <1>2 DEF DetectionTypes
<1>4. HeardOK'
  BY <1>0, <1>1 DEF HeardOK, DetectionTypes
<1>5. PutsDown
  BY <1>1 DEF PutsDown
<1>6. (EndedOK /\ FollowsOK)'
  BY <1>1, <1>5, KeepsCases
<1> QED
  BY <1>3, <1>4, <1>6 DEF DetectionInv

(* What is written of a record keeps its type.                              *)
LEMMA SourceTypes ==
  ASSUME DetectionTypes, NEW r \in Records
  PROVE  /\ [source[r] EXCEPT !.ripe = TRUE] \in SourceType
         /\ \A b, h \in BOOLEAN : [source[r] EXCEPT !.answered = b, !.heard = h] \in SourceType
         /\ \A b \in BOOLEAN : [source[r] EXCEPT !.answered = b] \in SourceType
         /\ \A st \in StatusesOf[source[r].kind] : [source[r] EXCEPT !.status = st] \in SourceType
         /\ \A a \in Afters : [source[r] EXCEPT !.after = a] \in SourceType
         /\ \A w \in Worths : [source[r] EXCEPT !.worth = w] \in SourceType
         /\ [source[r] EXCEPT !.there = FALSE] \in SourceType
<1> DEFINE All == UNION {StatusesOf[k] : k \in Kinds}
<1>1. source[r] \in [kind : Kinds, status : All, there : BOOLEAN, ripe : BOOLEAN, answered : BOOLEAN,
                     heard : BOOLEAN, after : Afters, worth : Worths]
  BY DEF DetectionTypes, SourceType
<1>2. \A st \in StatusesOf[source[r].kind] : st \in All
  BY <1>1
<1> HIDE DEF All
<1> QED
  BY <1>1, <1>2 DEF SourceType, All

LEMMA SourceStep ==
  ASSUME DetectionInv, NEW r \in Records,
         \/ Ripen(r) \/ Respond(r) \/ FallSilent(r) \/ Vanish(r)
         \/ \E st \in StatusesOf[source[r].kind] : MoveStatus(r, st)
         \/ \E a \in Afters : Follow(r, a)
         \/ \E w \in Worths : Reprice(r, w)
  PROVE  DetectionInv'
<1>0. DetectionTypes /\ source[r] \in SourceType
  BY DEF DetectionInv, DetectionTypes
<1>1. CASE Ripen(r)
  <2>1. [source[r] EXCEPT !.ripe = TRUE].heard = source[r].heard
    BY <1>0 DEF SourceType
  <2> QED
    BY <2>1, <1>0, <1>1, SourceTypes, SourceChanges DEF Ripen
<1>2. CASE Respond(r)
  <2> DEFINE h == source[r].kind = "conversation" /\ <<r, "no_response">> \in DOMAIN cases
             x == [source[r] EXCEPT !.answered = TRUE, !.heard = h]
  <2>1. Change(r, x)
    BY <1>2 DEF Respond
  <2>2. h \in BOOLEAN /\ (h => <<r, "no_response">> \in DOMAIN cases)
    OBVIOUS
  <2> HIDE DEF h
  <2>3. x.heard = h /\ x \in SourceType
    BY <2>2, <1>0, SourceTypes DEF SourceType
  <2> HIDE DEF x
  <2> QED
    BY <2>1, <2>2, <2>3, SourceChanges
<1>3. CASE FallSilent(r)
  <2>1. [source[r] EXCEPT !.answered = FALSE].heard = source[r].heard
    BY <1>0 DEF SourceType
  <2> QED
    BY <2>1, <1>0, <1>3, SourceTypes, SourceChanges DEF FallSilent
<1>4. CASE Vanish(r)
  <2>1. [source[r] EXCEPT !.there = FALSE].heard = source[r].heard
    BY <1>0 DEF SourceType
  <2> QED
    BY <2>1, <1>0, <1>4, SourceTypes, SourceChanges DEF Vanish
<1>5. ASSUME NEW st \in StatusesOf[source[r].kind], MoveStatus(r, st)
      PROVE  DetectionInv'
  <2>1. [source[r] EXCEPT !.status = st].heard = source[r].heard
    BY <1>0 DEF SourceType
  <2> QED
    BY <2>1, <1>0, <1>5, SourceTypes, SourceChanges DEF MoveStatus
<1>6. ASSUME NEW a \in Afters, Follow(r, a)
      PROVE  DetectionInv'
  <2>1. [source[r] EXCEPT !.after = a].heard = source[r].heard
    BY <1>0 DEF SourceType
  <2> QED
    BY <2>1, <1>0, <1>6, SourceTypes, SourceChanges DEF Follow
<1>7. ASSUME NEW w \in Worths, Reprice(r, w)
      PROVE  DetectionInv'
  <2>1. [source[r] EXCEPT !.worth = w].heard = source[r].heard
    BY <1>0 DEF SourceType
  <2> QED
    BY <2>1, <1>0, <1>7, SourceTypes, SourceChanges DEF Reprice
<1> QED
  BY <1>1, <1>2, <1>3, <1>4, <1>5, <1>6, <1>7

-----------------------------------------------------------------------------
(* The ends of cases.                                                       *)
LEMMA CaseChanges ==
  ASSUME DetectionTypes, NEW k \in DOMAIN cases, NEW c \in CaseType, cases' = [cases EXCEPT ![k] = c]
  PROVE  /\ cases' \in [DOMAIN cases' -> CaseType] /\ DOMAIN cases' = DOMAIN cases /\ cases'[k] = c
         /\ \A j \in DOMAIN cases \ {k} : cases'[j] = cases[j]
BY DEF DetectionTypes

(* A closed case takes the work it refers to along, and one a sweep has in  *)
(* hand becomes loose.                                                      *)
LEMMA EndCaseOK ==
  ASSUME DetectionInv, NEW k \in DOMAIN cases, EndCase(k), PutsDown,
         \A s \in Scans : scan[s].at \in InHand => scan'[s] = scan[s]
  PROVE  /\ cases' \in [DOMAIN cases' -> CaseType] /\ DOMAIN cases' = DOMAIN cases
         /\ items' \in [Keys -> ItemType] /\ loose' \subseteq Keys
         /\ (EndedOK /\ FollowsOK)'
<1>0. DetectionTypes /\ EndedOK /\ FollowsOK /\ k \in Keys /\ cases[k] \in CaseType /\ items[k] \in ItemType
  BY DEF DetectionInv, DetectionTypes
<1> DEFINE c == [cases[k] EXCEPT !.state = "ended"]
           b == items[k].open /\ cases[k].ref # items[k].n
           i == [items[k] EXCEPT !.open = b]
<1>1. cases' = [cases EXCEPT ![k] = c] /\ c \in CaseType /\ c.state = "ended"
  BY <1>0 DEF EndCase, CaseType
<1>2. items' = [items EXCEPT ![k] = i] /\ b \in BOOLEAN
  BY <1>0 DEF EndCase, DetectionTypes, ItemType
<1>3. i \in ItemType /\ i.open = b
  <2> HIDE DEF b
  <2> QED
    BY <1>0, <1>2 DEF ItemType
<1>4. b => items[k].open /\ cases[k].ref # items[k].n
  OBVIOUS
<1> HIDE DEF c, b, i
<1>5. /\ cases' \in [DOMAIN cases' -> CaseType] /\ DOMAIN cases' = DOMAIN cases /\ cases'[k] = c
      /\ \A j \in DOMAIN cases \ {k} : cases'[j] = cases[j]
  BY <1>0, <1>1, CaseChanges
<1>6. /\ items' \in [Keys -> ItemType] /\ items'[k] = i
      /\ \A j \in Keys \ {k} : items'[j] = items[j]
  BY <1>0, <1>2, <1>3 DEF DetectionTypes
<1>7. /\ loose' \subseteq Keys /\ loose \subseteq loose'
      /\ k \notin loose' => k \notin loose /\ \A s \in Scans : scan[s].key # k
  BY <1>0 DEF EndCase, DetectionTypes
<1>8. ASSUME NEW j \in Keys \ loose'
      PROVE  /\ CaseEnded(j)' => \A s \in Scans : ~(scan'[s].at \in InHand /\ scan'[s].key = j)
             /\ Follows(j)'
  <2>1. CASE j = k
    <3>1. \A s \in Scans : scan[s].key # k
      BY <2>1, <1>7
    <3>2. \A s \in Scans : ~(scan'[s].at \in InHand /\ scan'[s].key = j)
      BY <3>1, <2>1 DEF PutsDown
    <3>3. Follows(k)
      BY <2>1, <1>0, <1>7 DEF FollowsOK
    <3>4. ~b
      BY <3>1, <3>3, <1>4 DEF Follows
    <3>5. ~items'[j].open
      BY <3>4, <2>1, <1>3, <1>6
    <3> QED
      BY <3>2, <3>5 DEF Follows
  <2>2. CASE j # k
    <3>1. j \in Keys \ loose
      BY <1>7
    <3>2. CaseEnded(j)' <=> CaseEnded(j)
      BY <2>2, <1>5 DEF CaseEnded
    <3>3. CaseEnded(j)' => \A s \in Scans : ~(scan'[s].at \in InHand /\ scan'[s].key = j)
      BY <3>1, <3>2, <1>0 DEF EndedOK, PutsDown
    <3>4. Follows(j) /\ items'[j] = items[j]
      BY <3>1, <2>2, <1>0, <1>6 DEF FollowsOK
    <3>5. (\A s \in Scans : ~(scan'[s].at = "attach" /\ scan'[s].key = j)) =>
            \A s \in Scans : ~(scan[s].at = "attach" /\ scan[s].key = j)
      BY DEF InHand
    <3>6. j \in DOMAIN cases => cases'[j] = cases[j]
      BY <2>2, <1>5
    <3> QED
      BY <3>3, <3>4, <3>5, <3>6, <1>5 DEF Follows
  <2> QED
    BY <2>1, <2>2
<1> QED
  BY <1>5, <1>6, <1>7, <1>8 DEF EndedOK, FollowsOK

LEMMA OperatorKeeps == ASSUME DetectionInv, NEW k \in OpenKeys, Operator(k) PROVE DetectionInv'
<1>0. DetectionTypes /\ HeardOK /\ EndedOK /\ FollowsOK /\ k \in DOMAIN cases /\ k \in Keys
  BY DEF DetectionInv, DetectionTypes, OpenKeys
<1>1. stirs' \in 0..MaxStirs /\ UNCHANGED <<source, scan, scanFaults>>
  BY <1>0, DetectionAssumption DEF DetectionTypes, Operator, Stir
<1>2. PutsDown
  BY <1>1 DEF PutsDown
<1>q. ASSUME cases' \in [DOMAIN cases' -> CaseType], DOMAIN cases' = DOMAIN cases, items' \in [Keys -> ItemType],
             loose' \subseteq Keys, (EndedOK /\ FollowsOK)'
      PROVE  DetectionInv'
  <2>1. DetectionTypes'
    BY <1>0, <1>1, <1>q DEF DetectionTypes
  <2>2. HeardOK'
    BY <1>0, <1>1, <1>q DEF HeardOK
  <2> QED
    BY <2>1, <2>2, <1>q DEF DetectionInv
<1>3. CASE EndCase(k)
  BY <1>0, <1>1, <1>2, <1>3, <1>q, EndCaseOK
<1>4. CASE cases' = [cases EXCEPT ![k].state = "engaged"] /\ UNCHANGED <<items, loose>>
  <2> DEFINE c == [cases[k] EXCEPT !.state = "engaged"]
  <2>1. cases' = [cases EXCEPT ![k] = c] /\ c \in CaseType /\ c.state = "engaged" /\ c.ref = cases[k].ref
    BY <1>0, <1>4 DEF CaseType, DetectionTypes
  <2> HIDE DEF c
  <2>2. /\ cases' \in [DOMAIN cases' -> CaseType] /\ DOMAIN cases' = DOMAIN cases /\ cases'[k] = c
        /\ \A j \in DOMAIN cases \ {k} : cases'[j] = cases[j]
    BY <1>0, <2>1, CaseChanges
  <2>3. \A j \in Keys : CaseEnded(j)' => CaseEnded(j)
    BY <2>1, <2>2 DEF CaseEnded
  <2>4. EndedOK'
    BY <2>3, <1>0, <1>1, <1>4 DEF EndedOK
  <2>5. \A j \in DOMAIN cases : cases'[j].ref = cases[j].ref /\ (cases[j].state # "ended" => cases'[j].state # "ended")
    BY <2>1, <2>2
  <2>6. \A j \in Keys : Follows(j) => Follows(j)'
    BY <2>2, <2>5, <1>1, <1>4 DEF Follows
  <2>7. FollowsOK'
    BY <2>6, <1>0, <1>4 DEF FollowsOK
  <2> QED
    BY <2>2, <2>4, <2>7, <1>0, <1>4, <1>q DEF DetectionTypes
<1>5. CASE items[k].open /\ items' = [items EXCEPT ![k].open = FALSE] /\ UNCHANGED <<cases, loose>>
  <2>1. /\ items' \in [Keys -> ItemType] /\ ~items'[k].open
        /\ \A j \in Keys \ {k} : items'[j] = items[j]
    BY <1>0, <1>5 DEF DetectionTypes, ItemType
  <2>2. EndedOK'
    BY <1>0, <1>1, <1>5 DEF EndedOK, CaseEnded
  <2>3. \A j \in Keys : Follows(j) => Follows(j)'
    BY <2>1, <1>1, <1>5 DEF Follows
  <2>4. FollowsOK'
    BY <2>3, <1>0, <1>5 DEF FollowsOK
  <2>5. cases' \in [DOMAIN cases' -> CaseType] /\ loose' \subseteq Keys
    BY <1>0, <1>5 DEF DetectionTypes
  <2> QED
    BY <2>1, <2>2, <2>4, <2>5, <1>5, <1>q
<1> QED
  BY <1>3, <1>4, <1>5 DEF Operator

-----------------------------------------------------------------------------
(* A step of a sweep that neither cases nor items nor loose keys notice.    *)
LEMMA SweepsOn ==
  ASSUME DetectionInv, NEW s \in Scans, scan[s].at # "attach",
         scan' \in [Scans -> ScanType], scan'[s].at \notin InHand, \A t \in Scans \ {s} : scan'[t] = scan[t],
         UNCHANGED <<source, cases, items, loose, stirs>>, scanFaults' \in 0..MaxScanFaults
  PROVE  DetectionInv'
<1>1. PutsDown
  BY DEF PutsDown
<1>2. (EndedOK /\ FollowsOK)'
  BY <1>1, KeepsCases
<1>3. DetectionTypes'
  BY DEF DetectionInv, DetectionTypes
<1>4. HeardOK'
  BY DEF DetectionInv, HeardOK
<1> QED
  BY <1>2, <1>3, <1>4 DEF DetectionInv

LEMMA ScanBeginKeeps == ASSUME DetectionInv, NEW s \in Scans, ScanBegin(s) PROVE DetectionInv'
<1> DEFINE f == [NoScan EXCEPT !.at = "judge", !.open = OpenKeys,
                               !.engaged = {k \in OpenKeys : cases[k].state = "engaged"}]
<1>1. DetectionTypes /\ scanFaults \in 0..MaxScanFaults /\ OpenKeys \subseteq Keys
  BY DEF DetectionInv, DetectionTypes, OpenKeys
<1>2. f \in ScanType /\ f.at \notin InHand
  BY <1>1 DEF NoScan, ScanType, ScanPcs, InHand
<1>3. Scanning(s, f) /\ scan[s].at = "idle" /\ UNCHANGED <<source, cases, items, loose, stirs, scanFaults>>
  BY DEF ScanBegin, ScanAt
<1> HIDE DEF f
<1> QED
  BY <1>1, <1>2, <1>3, ScanChanges, SweepsOn

LEMMA ScanJudgeKeeps == ASSUME DetectionInv, NEW s \in Scans, ScanJudge(s) PROVE DetectionInv'
<1> DEFINE o == {k \in scan[s].open : Closable(k, k \in scan[s].engaged)}
           f == [scan[s] EXCEPT !.at = "close", !.open = o, !.engaged = {}]
<1>1. DetectionTypes /\ scanFaults \in 0..MaxScanFaults /\ scan[s] \in ScanType
  BY DEF DetectionInv, DetectionTypes
<1>2. Scanning(s, f) /\ scan[s].at = "judge" /\ UNCHANGED <<source, cases, items, loose, stirs, scanFaults>>
  BY <1>1 DEF ScanJudge, ScanAt, ScanType
<1>3. o \subseteq Keys
  BY <1>1 DEF ScanType
<1> HIDE DEF o
<1>4. f \in ScanType /\ f.at \notin InHand
  BY <1>1, <1>3 DEF ScanType, ScanPcs, InHand
<1> HIDE DEF f
<1> QED
  BY <1>1, <1>2, <1>4, ScanChanges, SweepsOn

LEMMA ScanCloseKeeps == ASSUME DetectionInv, NEW s \in Scans, ScanClose(s) PROVE DetectionInv'
<1>0. DetectionTypes /\ HeardOK /\ scanFaults \in 0..MaxScanFaults /\ scan[s] \in ScanType /\ scan[s].at = "close"
  BY DEF DetectionInv, DetectionTypes, ScanClose, ScanAt
<1>1. UNCHANGED <<source, stirs, scanFaults>>
  BY DEF ScanClose
<1>2. CASE scan[s].open = {}
  <2> DEFINE f == [scan[s] EXCEPT !.at = "look", !.unread = Records]
  <2>1. f \in ScanType /\ f.at \notin InHand
    BY <1>0 DEF ScanType, ScanPcs, InHand
  <2>2. Scanning(s, f) /\ UNCHANGED <<cases, items, loose>>
    BY <1>2 DEF ScanClose
  <2> HIDE DEF f
  <2> QED
    BY <1>0, <1>1, <2>1, <2>2, ScanChanges, SweepsOn
<1>3. CASE scan[s].open # {}
  <2>1. PICK k \in scan[s].open :
          /\ Scanning(s, [scan[s] EXCEPT !.open = @ \ {k}])
          /\ IF k \in OpenKeys THEN EndCase(k) ELSE UNCHANGED <<cases, items, loose>>
    BY <1>3 DEF ScanClose
  <2> DEFINE f == [scan[s] EXCEPT !.open = scan[s].open \ {k}]
  <2>2. f \in ScanType /\ f.at \notin InHand
    BY <1>0 DEF ScanType, InHand
  <2>3. Scanning(s, f)
    BY <2>1, <1>0 DEF ScanType
  <2> HIDE DEF f
  <2>4. scan' \in [Scans -> ScanType] /\ scan'[s].at \notin InHand /\ \A t \in Scans \ {s} : scan'[t] = scan[t]
    BY <1>0, <2>2, <2>3, ScanChanges
  <2>5. CASE k \notin OpenKeys
    BY <2>1, <2>4, <2>5, <1>0, <1>1, SweepsOn
  <2>6. CASE k \in OpenKeys
    <3>1. k \in DOMAIN cases /\ EndCase(k)
      BY <2>1, <2>6 DEF OpenKeys
    <3>2. \A t \in Scans : scan[t].at \in InHand => scan'[t] = scan[t]
      BY <2>4, <1>0 DEF InHand
    <3>3. PutsDown
      BY <2>4 DEF PutsDown
    <3>4. /\ cases' \in [DOMAIN cases' -> CaseType] /\ DOMAIN cases' = DOMAIN cases
          /\ items' \in [Keys -> ItemType] /\ loose' \subseteq Keys /\ (EndedOK /\ FollowsOK)'
      BY <3>1, <3>2, <3>3, EndCaseOK
    <3>5. DetectionTypes'
      BY <3>4, <2>4, <1>0, <1>1 DEF DetectionTypes
    <3>6. HeardOK'
      BY <3>4, <1>0, <1>1 DEF HeardOK
    <3> QED
      BY <3>4, <3>5, <3>6 DEF DetectionInv
  <2> QED
    BY <2>5, <2>6
<1> QED
  BY <1>2, <1>3

LEMMA SanitizedType == ASSUME DetectionTypes, NEW r \in Records PROVE Sanitized(source[r]) \in {"none", "low", "high"}
BY DEF DetectionTypes, SourceType, Sanitized, Worths

LEMMA ScanLookKeeps == ASSUME DetectionInv, NEW s \in Scans, NEW r \in Records, ScanLook(s, r) PROVE DetectionInv'
<1> DEFINE more == {[key |-> <<r, lane>>, worth |-> Sanitized(source[r])] : lane \in {l \in Lanes : Detects(source[r], l)}}
           found == scan[s].found \cup more
<1>0. DetectionTypes /\ scanFaults \in 0..MaxScanFaults /\ scan[s] \in ScanType /\ scan[s].at = "look"
  BY DEF DetectionInv, DetectionTypes, ScanLook, ScanAt
<1>1. found \subseteq FoundType
  BY <1>0, SanitizedType DEF ScanType, FoundType, Keys
<1>2. /\ IF scan[s].unread # {r} THEN Scanning(s, [scan[s] EXCEPT !.unread = @ \ {r}, !.found = found])
         ELSE NextFound(s, found)
      /\ UNCHANGED <<source, cases, items, loose, stirs, scanFaults>>
  BY DEF ScanLook
<1> HIDE DEF found, more
<1>3. CASE scan[s].unread # {r}
  <2> DEFINE f == [scan[s] EXCEPT !.unread = scan[s].unread \ {r}, !.found = found]
  <2>1. f \in ScanType /\ f.at \notin InHand
    BY <1>0, <1>1 DEF ScanType, InHand
  <2>2. Scanning(s, f)
    BY <1>0, <1>2, <1>3 DEF ScanType
  <2> HIDE DEF f
  <2> QED
    BY <2>1, <2>2, <1>0, <1>2, ScanChanges, SweepsOn
<1>4. CASE scan[s].unread = {r}
  BY <1>0, <1>1, <1>2, <1>4, NextFoundIs, SweepsOn
<1> QED
  BY <1>3, <1>4

-----------------------------------------------------------------------------
(* open_case(): what is there after it.                                     *)
LEMMA OpenedIs ==
  ASSUME DetectionTypes, NEW k \in Keys, NEW w \in {"none", "low", "high"}, cases' = Opened(k, w)
  PROVE  /\ cases' \in [DOMAIN cases' -> CaseType] /\ DOMAIN cases' = DOMAIN cases \cup {k}
         /\ \A j \in DOMAIN cases : cases'[j].state = cases[j].state /\ cases'[j].ref = cases[j].ref
         /\ k \notin DOMAIN cases => cases'[k].state = "waiting"
<1>1. CASE k \notin DOMAIN cases
  <2> DEFINE c == [state |-> "waiting", worth |-> w, ref |-> 0]
  <2>1. c \in CaseType /\ c.state = "waiting"
    BY DEF CaseType
  <2>2. cases' = [j \in DOMAIN cases \cup {k} |-> IF j = k THEN c ELSE cases[j]]
    BY <1>1 DEF Opened
  <2> HIDE DEF c
  <2> QED
    BY <1>1, <2>1, <2>2 DEF DetectionTypes
<1>2. CASE k \in DOMAIN cases /\ cases[k].state \in Terminal
  BY <1>2 DEF Opened, Refreshed, DetectionTypes
<1>3. CASE k \in DOMAIN cases /\ cases[k].state \notin Terminal
  <2> DEFINE c == [cases[k] EXCEPT !.worth = w]
  <2>1. cases' = [cases EXCEPT ![k] = c]
    BY <1>3 DEF Opened, Refreshed, DetectionTypes
  <2>2. c \in CaseType /\ c.state = cases[k].state /\ c.ref = cases[k].ref
    BY <1>3 DEF DetectionTypes, CaseType
  <2> HIDE DEF c
  <2> QED
    BY <2>1, <2>2, <1>3, CaseChanges
<1> QED
  BY <1>1, <1>2, <1>3

(* A case opened is not an ended one, and an ended one stays as it is.      *)
LEMMA OpenedKeeps ==
  ASSUME DetectionInv, NEW k \in Keys, NEW w \in {"none", "low", "high"}, cases' = Opened(k, w),
         UNCHANGED <<items, loose>>, NEW s \in Scans, scan[s].at = "open",
         scan'[s].at \in InHand => scan'[s].at = "enqueue" /\ scan'[s].key = k /\ ~ReopensNothing(k),
         \A t \in Scans \ {s} : scan'[t] = scan[t]
  PROVE  (EndedOK /\ FollowsOK)'
<1>0. DetectionTypes /\ EndedOK /\ FollowsOK
  BY DEF DetectionInv
<1>1. /\ DOMAIN cases' = DOMAIN cases \cup {k}
      /\ \A j \in DOMAIN cases : cases'[j].state = cases[j].state /\ cases'[j].ref = cases[j].ref
      /\ k \notin DOMAIN cases => cases'[k].state = "waiting"
  BY <1>0, OpenedIs
<1>2. \A j \in Keys : CaseEnded(j)' <=> CaseEnded(j)
  BY <1>1 DEF CaseEnded
<1>3. CaseEnded(k) => scan'[s].at \notin InHand
  BY DEF ReopensNothing, Terminal, CaseEnded
<1>4. EndedOK'
  <2> SUFFICES ASSUME NEW j \in Keys \ loose, CaseEnded(j), NEW t \in Scans, scan'[t].at \in InHand, scan'[t].key = j
               PROVE  FALSE
    BY <1>2 DEF EndedOK
  <2>1. CASE t = s
    BY <2>1, <1>3
  <2>2. CASE t # s
    BY <2>2, <1>0 DEF EndedOK
  <2> QED
    BY <2>1, <2>2
<1>5. ASSUME NEW j \in Keys \ loose, \A t \in Scans : ~(scan'[t].at = "attach" /\ scan'[t].key = j), items[j].open
      PROVE  j \in DOMAIN cases' /\ cases'[j].state # "ended" /\ cases'[j].ref = items[j].n
  <2>1. \A t \in Scans : ~(scan[t].at = "attach" /\ scan[t].key = j)
    BY <1>5
  <2>2. j \in DOMAIN cases /\ cases[j].state # "ended" /\ cases[j].ref = items[j].n
    BY <2>1, <1>0, <1>5 DEF FollowsOK, Follows
  <2> QED
    BY <2>2, <1>1
<1>6. FollowsOK'
  BY <1>5 DEF FollowsOK, Follows
<1> QED
  BY <1>4, <1>6

LEMMA ScanOpenKeeps == ASSUME DetectionInv, NEW s \in Scans, NEW f \in scan[s].found, ScanOpen(s, f) PROVE DetectionInv'
<1>0. /\ DetectionTypes /\ HeardOK /\ scanFaults \in 0..MaxScanFaults /\ scan[s] \in ScanType
      /\ scan[s].at = "open" /\ f \in FoundType /\ scan[s].found \subseteq FoundType
  BY DEF DetectionInv, DetectionTypes, ScanOpen, ScanAt, ScanType
<1>1. f.key \in Keys /\ f.worth \in {"none", "low", "high"}
  BY <1>0 DEF FoundType
<1>2. cases' = Opened(f.key, f.worth) /\ UNCHANGED <<source, items, loose, stirs, scanFaults>>
  BY DEF ScanOpen
<1>3. /\ cases' \in [DOMAIN cases' -> CaseType] /\ DOMAIN cases' = DOMAIN cases \cup {f.key}
  BY <1>0, <1>1, <1>2, OpenedIs
<1>4. /\ scan' \in [Scans -> ScanType] /\ \A t \in Scans \ {s} : scan'[t] = scan[t]
      /\ scan'[s].at \in InHand => scan'[s].at = "enqueue" /\ scan'[s].key = f.key /\ ~ReopensNothing(f.key)
  <2>1. CASE ReopensNothing(f.key)
    <3>1. NextFound(s, scan[s].found \ {f})
      BY <2>1 DEF ScanOpen
    <3> QED
      BY <3>1, <1>0, NextFoundIs
  <2>2. CASE ~ReopensNothing(f.key)
    <3> DEFINE m == cases'[f.key].ref
               left == scan[s].found \ {f}
               g == [scan[s] EXCEPT !.at = "enqueue", !.found = left, !.key = f.key, !.ref = m]
    <3>1. m \in Nat
      BY <1>3 DEF CaseType
    <3>2. Scanning(s, g)
      BY <2>2, <1>0 DEF ScanOpen, ScanType
    <3>5. left \subseteq FoundType
      BY <1>0
    <3> HIDE DEF m, left
    <3>3. g \in ScanType /\ g.at = "enqueue" /\ g.key = f.key
      BY <3>1, <3>5, <1>0, <1>1 DEF ScanType, ScanPcs
    <3> HIDE DEF g
    <3>4. /\ scan' \in [Scans -> ScanType] /\ scan'[s] = g /\ \A t \in Scans \ {s} : scan'[t] = scan[t]
      BY <3>2, <3>3, <1>0, ScanChanges
    <3> QED
      BY <3>3, <3>4, <2>2
  <2> QED
    BY <2>1, <2>2
<1>5. (EndedOK /\ FollowsOK)'
  BY <1>0, <1>1, <1>2, <1>4, OpenedKeeps
<1>6. DetectionTypes'
  <2>1. DOMAIN cases' \subseteq Keys /\ DOMAIN cases \subseteq DOMAIN cases'
    BY <1>0, <1>1, <1>3 DEF DetectionTypes
  <2>2. \A t \in Scans : scan'[t].at \in InHand => scan'[t].key \in DOMAIN cases'
    BY <1>0, <1>3, <1>4 DEF DetectionTypes
  <2> QED
    BY <2>1, <2>2, <1>0, <1>2, <1>3, <1>4 DEF DetectionTypes
<1>7. HeardOK'
  BY <1>0, <1>2, <1>3 DEF HeardOK
<1> QED
  BY <1>5, <1>6, <1>7 DEF DetectionInv

-----------------------------------------------------------------------------
(* The work of a case, and the reference to it.                             *)
LEMMA ScanEnqueueKeeps == ASSUME DetectionInv, NEW s \in Scans, ScanEnqueue(s) PROVE DetectionInv'
<1>0. /\ DetectionTypes /\ HeardOK /\ EndedOK /\ FollowsOK /\ scan[s] \in ScanType /\ scan[s].at = "enqueue"
  BY DEF DetectionInv, DetectionTypes, ScanEnqueue, ScanAt
<1> DEFINE k == scan[s].key
           i == IF items[k].open THEN items[k] ELSE [n |-> items[k].n + 1, open |-> TRUE]
<1>1. k \in DOMAIN cases /\ k \in Keys /\ items[k] \in ItemType
  BY <1>0 DEF DetectionTypes, InHand
<1>2. i \in ItemType /\ items' = [items EXCEPT ![k] = i]
  BY <1>1 DEF ItemType, ScanEnqueue
<1>3. items' \in [Keys -> ItemType] /\ items'[k] = i /\ \A j \in Keys \ {k} : items'[j] = items[j]
  BY <1>0, <1>1, <1>2 DEF DetectionTypes
<1> DEFINE m == items'[k].n
           g == [scan[s] EXCEPT !.at = "attach", !.item = m]
<1>4. Scanning(s, g) /\ UNCHANGED <<source, cases, loose, stirs, scanFaults>>
  BY DEF ScanEnqueue
<1>5. m \in Nat
  BY <1>2, <1>3 DEF ItemType
<1> HIDE DEF m, i
<1>6. g \in ScanType /\ g.at = "attach" /\ g.key = k
  BY <1>0, <1>5 DEF ScanType, ScanPcs
<1> HIDE DEF g
<1>7. scan' \in [Scans -> ScanType] /\ scan'[s] = g /\ \A t \in Scans \ {s} : scan'[t] = scan[t]
  BY <1>0, <1>4, <1>6, ScanChanges
<1> HIDE DEF k
<1>8. EndedOK'
  <2> SUFFICES ASSUME NEW j \in Keys \ loose, CaseEnded(j), NEW t \in Scans, scan'[t].at \in InHand, scan'[t].key = j
               PROVE  FALSE
    BY <1>4 DEF EndedOK, CaseEnded
  <2>1. CASE t = s
    BY <2>1, <1>0, <1>6, <1>7 DEF EndedOK, InHand, k
  <2>2. CASE t # s
    BY <2>2, <1>0, <1>7 DEF EndedOK
  <2> QED
    BY <2>1, <2>2
<1>9. FollowsOK'
  <2> SUFFICES ASSUME NEW j \in Keys \ loose, \A t \in Scans : ~(scan'[t].at = "attach" /\ scan'[t].key = j), items'[j].open
               PROVE  j \in DOMAIN cases /\ cases[j].state # "ended" /\ cases[j].ref = items'[j].n
    BY <1>4 DEF FollowsOK, Follows
  <2>1. j # k
    BY <1>6, <1>7
  <2>2. \A t \in Scans : ~(scan[t].at = "attach" /\ scan[t].key = j)
    BY <1>0, <1>7
  <2> QED
    BY <2>1, <2>2, <1>0, <1>3 DEF FollowsOK, Follows
<1>10. DetectionTypes'
  <2>1. \A t \in Scans : scan'[t].at \in InHand => scan'[t].key \in DOMAIN cases
    BY <1>0, <1>1, <1>6, <1>7 DEF DetectionTypes
  <2> QED
    BY <2>1, <1>0, <1>3, <1>4, <1>7 DEF DetectionTypes
<1>11. HeardOK'
  BY <1>0, <1>4 DEF HeardOK
<1> QED
  BY <1>8, <1>9, <1>10, <1>11 DEF DetectionInv

LEMMA ScanAttachKeeps == ASSUME DetectionInv, NEW s \in Scans, ScanAttach(s) PROVE DetectionInv'
<1>0. /\ DetectionTypes /\ HeardOK /\ EndedOK /\ FollowsOK /\ scan[s] \in ScanType /\ scan[s].at = "attach"
      /\ scan[s].found \subseteq FoundType
  BY DEF DetectionInv, DetectionTypes, ScanAttach, ScanAt, ScanType
<1> DEFINE k == scan[s].key
           c == [cases[k] EXCEPT !.ref = scan[s].item]
<1>1. k \in DOMAIN cases /\ k \in Keys /\ cases[k] \in CaseType
  BY <1>0 DEF DetectionTypes, InHand
<1>2. /\ cases' = IF PointsElsewhere(s) THEN [cases EXCEPT ![k] = c] ELSE cases
      /\ loose' = IF scan[s].item # items[k].n \/ scan[s].ref # cases[k].ref THEN loose \cup {k}
                  ELSE IF k \in OpenKeys THEN loose \ {k} ELSE loose
      /\ NextFound(s, scan[s].found) /\ UNCHANGED <<source, items, stirs, scanFaults>>
  BY <1>1 DEF ScanAttach
<1>3. c \in CaseType /\ c.state = cases[k].state /\ c.ref = scan[s].item
  BY <1>0, <1>1 DEF CaseType, ScanType
<1> HIDE DEF c
<1>4. /\ cases' \in [DOMAIN cases' -> CaseType] /\ DOMAIN cases' = DOMAIN cases
      /\ cases'[k].state = cases[k].state
      /\ cases'[k].ref = IF PointsElsewhere(s) THEN scan[s].item ELSE cases[k].ref
      /\ \A j \in DOMAIN cases \ {k} : cases'[j] = cases[j]
  <2>1. CASE PointsElsewhere(s)
    BY <2>1, <1>0, <1>1, <1>2, <1>3, CaseChanges
  <2>2. CASE ~PointsElsewhere(s)
    BY <2>2, <1>0, <1>2 DEF DetectionTypes
  <2> QED
    BY <2>1, <2>2
<1>5. /\ scan' \in [Scans -> ScanType] /\ scan'[s].at \notin InHand /\ \A t \in Scans \ {s} : scan'[t] = scan[t]
  BY <1>0, <1>2, NextFoundIs
<1>6. loose' \subseteq Keys /\ \A j \in Keys \ {k} : j \in loose' <=> j \in loose
  BY <1>0, <1>1, <1>2 DEF DetectionTypes
<1> HIDE DEF k
<1>7. \A j \in Keys : CaseEnded(j)' <=> CaseEnded(j)
  BY <1>4 DEF CaseEnded
<1>8. k \notin loose' => ~CaseEnded(k) /\ scan[s].item = items[k].n /\ scan[s].ref = cases[k].ref
  <2> SUFFICES ASSUME k \notin loose'
               PROVE  ~CaseEnded(k) /\ scan[s].item = items[k].n /\ scan[s].ref = cases[k].ref
    OBVIOUS
  <2>1. scan[s].item = items[k].n /\ scan[s].ref = cases[k].ref /\ (k \in OpenKeys \/ k \notin loose)
    BY <1>2
  <2>2. k \notin loose => ~CaseEnded(k)
    BY <1>0, <1>1 DEF EndedOK, InHand, k
  <2>3. k \in OpenKeys => ~CaseEnded(k)
    BY DEF OpenKeys, CaseEnded, Terminal
  <2> QED
    BY <2>1, <2>2, <2>3
<1>9. EndedOK'
  <2> SUFFICES ASSUME NEW j \in Keys \ loose', CaseEnded(j), NEW t \in Scans, scan'[t].at \in InHand, scan'[t].key = j
               PROVE  FALSE
    BY <1>7 DEF EndedOK
  <2>1. j # k /\ t # s
    BY <1>5, <1>8
  <2> QED
    BY <2>1, <1>0, <1>5, <1>6 DEF EndedOK
<1>10. FollowsOK'
  <2> SUFFICES ASSUME NEW j \in Keys \ loose', \A t \in Scans : ~(scan'[t].at = "attach" /\ scan'[t].key = j), items[j].open
               PROVE  j \in DOMAIN cases' /\ cases'[j].state # "ended" /\ cases'[j].ref = items[j].n
    BY <1>2 DEF FollowsOK, Follows
  <2>1. CASE j = k
    BY <2>1, <1>1, <1>4, <1>8 DEF CaseEnded, PointsElsewhere
  <2>2. CASE j # k
    <3>1. j \in Keys \ loose /\ \A t \in Scans : ~(scan[t].at = "attach" /\ scan[t].key = j)
      BY <2>2, <1>5, <1>6 DEF k
    <3> QED
      BY <3>1, <2>2, <1>0, <1>4 DEF FollowsOK, Follows
  <2> QED
    BY <2>1, <2>2
<1>11. DetectionTypes'
  <2>1. \A t \in Scans : scan'[t].at \in InHand => scan'[t].key \in DOMAIN cases
    BY <1>0, <1>5 DEF DetectionTypes
  <2> QED
    BY <2>1, <1>0, <1>2, <1>4, <1>5, <1>6 DEF DetectionTypes
<1>12. HeardOK'
  BY <1>0, <1>2, <1>4 DEF HeardOK
<1> QED
  BY <1>9, <1>10, <1>11, <1>12 DEF DetectionInv

-----------------------------------------------------------------------------
(* A sweep that fails.                                                      *)
LEMMA ScanFaultKeeps == ASSUME DetectionInv, NEW s \in Scans, ScanFault(s) PROVE DetectionInv'
<1>0. /\ DetectionTypes /\ HeardOK /\ scan[s] \in ScanType /\ scan[s].found \subseteq FoundType
  BY DEF DetectionInv, DetectionTypes, ScanType
<1>1. /\ scanFaults' \in 0..MaxScanFaults /\ UNCHANGED <<source, cases, items, stirs>>
      /\ loose' = IF ScanAt(s, "attach") THEN loose \cup {scan[s].key} ELSE loose
  BY <1>0, DetectionAssumption DEF ScanFault, DetectionTypes
<1>2. /\ scan' \in [Scans -> ScanType] /\ scan'[s].at \notin InHand /\ \A t \in Scans \ {s} : scan'[t] = scan[t]
  <2>1. CASE Scanning(s, [NoScan EXCEPT !.at = "look", !.unread = Records])
    <3> DEFINE f == [NoScan EXCEPT !.at = "look", !.unread = Records]
    <3>1. f \in ScanType /\ f.at \notin InHand
      BY DEF NoScan, ScanType, ScanPcs, InHand
    <3> HIDE DEF f
    <3>2. Scanning(s, f)
      BY <2>1 DEF f
    <3> QED
      BY <3>1, <3>2, <1>0, ScanChanges
  <2>2. ASSUME NEW f \in scan[s].found, NextFound(s, scan[s].found \ {f})
        PROVE  /\ scan' \in [Scans -> ScanType] /\ scan'[s].at \notin InHand
               /\ \A t \in Scans \ {s} : scan'[t] = scan[t]
    BY <2>2, <1>0, NextFoundIs
  <2>3. CASE NextFound(s, scan[s].found)
    BY <2>3, <1>0, NextFoundIs
  <2>4. CASE Scanning(s, NoScan)
    BY <2>4, <1>0, NoScanIsOK, ScanChanges DEF InHand
  <2> QED
    BY <2>1, <2>2, <2>3, <2>4 DEF ScanFault
<1>3. PutsDown /\ loose \subseteq loose' /\ loose' \subseteq Keys
  BY <1>0, <1>1, <1>2 DEF PutsDown, DetectionTypes, ScanAt, InHand
<1>4. \A t \in Scans : scan[t].at = "attach" => scan'[t] = scan[t] \/ scan[t].key \in loose'
  BY <1>1, <1>2 DEF ScanAt
<1>5. (EndedOK /\ FollowsOK)'
  BY <1>1, <1>3, <1>4, KeepsCases
<1>6. DetectionTypes'
  BY <1>0, <1>1, <1>2, <1>3 DEF DetectionTypes
<1>7. HeardOK'
  BY <1>0, <1>1 DEF HeardOK
<1> QED
  BY <1>5, <1>6, <1>7 DEF DetectionInv

-----------------------------------------------------------------------------
LEMMA DetectionInvInit == DetectionInit => DetectionInv
<1> SUFFICES ASSUME DetectionInit PROVE DetectionInv
  OBVIOUS
<1> DEFINE All == UNION {StatusesOf[k] : k \in Kinds}
<1>1. source \in [Records -> NewRecords] /\ \A r \in Records : source[r].status \in StatusesOf[source[r].kind]
  BY DEF DetectionInit
<1>2. DOMAIN source = Records /\ (\A r \in Records : source[r] \in NewRecords) /\ source = [r \in Records |-> source[r]]
  BY <1>1
<1>3. ASSUME NEW r \in Records
      PROVE  source[r] \in SourceType /\ source[r].heard = FALSE
  <2>1. PICK k \in Kinds, st \in FirstStatuses :
          source[r] = [kind |-> k, status |-> st, there |-> TRUE, ripe |-> FALSE, answered |-> FALSE,
                       heard |-> FALSE, after |-> "none", worth |-> "low"]
    BY <1>2 DEF NewRecords
  <2>2. st \in All
    BY <2>1, <1>1
  <2> HIDE DEF All
  <2>3. source[r] \in [kind : Kinds, status : All, there : BOOLEAN, ripe : BOOLEAN, answered : BOOLEAN,
                       heard : BOOLEAN, after : Afters, worth : Worths]
    BY <2>1, <2>2 DEF Afters, Worths
  <2> QED
    BY <2>1, <2>3 DEF SourceType, All
<1>4. source \in [Records -> SourceType] /\ HeardOK
  BY <1>2, <1>3 DEF HeardOK
<1>5. DOMAIN cases = {} /\ cases \in [DOMAIN cases -> CaseType]
  BY DEF DetectionInit
<1>6. scan \in [Scans -> ScanType] /\ \A s \in Scans : scan[s].at \notin InHand
  BY NoScanIsOK DEF DetectionInit, InHand
<1>7. items \in [Keys -> ItemType] /\ \A k \in Keys : ~items[k].open
  BY DEF DetectionInit, ItemType
<1>8. loose = {} /\ stirs = 0 /\ scanFaults = 0
  BY DEF DetectionInit
<1>9. DetectionTypes
  BY <1>4, <1>5, <1>6, <1>7, <1>8, DetectionAssumption DEF DetectionTypes
<1>10. EndedOK /\ FollowsOK
  BY <1>5, <1>7 DEF EndedOK, CaseEnded, FollowsOK, Follows
<1> QED
  BY <1>4, <1>9, <1>10 DEF DetectionInv

LEMMA DetectionInvStep == DetectionInv /\ [DetectionNext]_detectionVars => DetectionInv'
<1> SUFFICES ASSUME DetectionInv, [DetectionNext]_detectionVars PROVE DetectionInv'
  OBVIOUS
<1>1. CASE UNCHANGED detectionVars
  <2>1. DetectionTypes'
    BY <1>1 DEF detectionVars, DetectionInv, DetectionTypes
  <2>2. (HeardOK /\ EndedOK /\ FollowsOK)'
    BY <1>1 DEF detectionVars, DetectionInv, HeardOK, EndedOK, CaseEnded, FollowsOK, Follows
  <2> QED
    BY <2>1, <2>2 DEF DetectionInv
<1>2. ASSUME NEW r \in Records,
             \/ Ripen(r) \/ Respond(r) \/ FallSilent(r) \/ Vanish(r)
             \/ \E st \in StatusesOf[source[r].kind] : MoveStatus(r, st)
             \/ \E a \in Afters : Follow(r, a)
             \/ \E w \in Worths : Reprice(r, w)
      PROVE  DetectionInv'
  BY <1>2, SourceStep
<1>3. ASSUME NEW k \in OpenKeys, Operator(k) PROVE DetectionInv'
  BY <1>3, OperatorKeeps
<1>4. ASSUME NEW s \in Scans, ScanBegin(s) PROVE DetectionInv'
  BY <1>4, ScanBeginKeeps
<1>5. ASSUME NEW s \in Scans, ScanStep(s) PROVE DetectionInv'
  BY <1>5, ScanJudgeKeeps, ScanCloseKeeps, ScanEnqueueKeeps, ScanAttachKeeps, ScanLookKeeps, ScanOpenKeeps DEF ScanStep
<1>6. ASSUME NEW s \in Scans, ScanFault(s) PROVE DetectionInv'
  BY <1>6, ScanFaultKeeps
<1> QED
  BY <1>1, <1>2, <1>3, <1>4, <1>5, <1>6 DEF DetectionNext

(***************************************************************************)
(* However many records, sweeps, changes and faults: a lane raises nothing *)
(* the reconciler would end at once but the no-show that has booked again, *)
(* and open work is an open case's, which refers to it, unless it was cut  *)
(* off (run_detection, close_case, _enqueue_case_work).                    *)
(***************************************************************************)
THEOREM WorkIsTheCases == DetectionSpec => [](DetectionTypeOK /\ LanesAgreeWithVerdicts /\ WorkFollowsCase)
<1>1. DetectionInv => DetectionTypeOK /\ LanesAgreeWithVerdicts /\ WorkFollowsCase
  BY DetectionTypesOK, InvLanes, InvFollows DEF DetectionInv
<1> QED
  BY <1>1, DetectionInvInit, DetectionInvStep, PTL DEF DetectionSpec
=============================================================================
