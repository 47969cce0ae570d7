----------------------------- MODULE LeadClock -----------------------------
(***************************************************************************)
(* The speed-to-lead clock of backend/website_forms.py: how a lead comes   *)
(* to be responded to, from the inbox, its call-back task or an activity   *)
(* logged on its contact; how it is opened again; and how one nobody has   *)
(* responded to is escalated, once.                                        *)
(*                                                                         *)
(* A worker is a run of the sweep, of which two may overlap, or a request. *)
(* Each of its reads and writes of the database is a step.                 *)
(*                                                                         *)
(* Bounds: the leads and LastMinute.                                       *)
(***************************************************************************)
EXTENDS Integers

CONSTANTS Leads, Contacts, ClockWorkers, LastMinute, NoLead

ASSUME LeadClockAssumption == LastMinute \in Nat /\ NoLead \notin Leads /\ Contacts # {}

LeadStatuses == {"absent", "new", "responded", "closed", "spam"}
Vias == {"none", "marked_in_inbox", "task_completed", "activity"}
TaskStates == {"none", "todo", "done", "cancelled"}

VARIABLES
  minute,
  lead,       \* web_enquiries
  task,       \* the call-back task of each lead
  reached,    \* the minute of the last outreach logged on a contact, -1 for none
  worker,
  alerted     \* history: how often the admins were told of a lead

clockVars == <<minute, lead, task, reached, worker, alerted>>

LeadType == [status : LeadStatuses, via : Vias, contact : Contacts, received : 0..LastMinute,
             escalated : BOOLEAN]
Pcs == {"idle", "sync", "check", "mark", "finish", "ticked", "unticked", "patch", "retask",
        "escalate", "claim", "tell"}
WorkerType == [pc : Pcs, l : Leads \cup {NoLead}, todo : SUBSET Leads, via : Vias,
               to : LeadStatuses]

LeadClockTypeOK ==
  /\ minute \in 0..LastMinute /\ lead \in [Leads -> LeadType] /\ task \in [Leads -> TaskStates]
  /\ reached \in [Contacts -> -1..LastMinute] /\ worker \in [ClockWorkers -> WorkerType]
  /\ alerted \in [Leads -> Nat]

Off == [pc |-> "idle", l |-> NoLead, todo |-> {}, via |-> "none", to |-> "new"]

LeadClockInit ==
  /\ minute = 0
  /\ lead = [l \in Leads |-> [status |-> "absent", via |-> "none", received |-> 0, escalated |-> FALSE,
                              contact |-> CHOOSE c \in Contacts : TRUE]]
  /\ task = [l \in Leads |-> "none"] /\ reached = [c \in Contacts |-> -1]
  /\ worker = [x \in ClockWorkers |-> Off]
  /\ alerted = [l \in Leads |-> 0]

ClockAt(x, pc) == worker[x].pc = pc
To(x, pc) == worker' = [worker EXCEPT ![x].pc = pc]
End(x) == worker' = [worker EXCEPT ![x] = Off]
Start(x, w) == ClockAt(x, "idle") /\ worker' = [worker EXCEPT ![x] = w]

(* The pipeline has filed a lead, with a call-back task or without. *)
Arrive(l, c) ==
  /\ lead[l].status = "absent"
  /\ lead' = [lead EXCEPT ![l].status = "new", ![l].contact = c, ![l].received = minute]
  /\ task' \in {[task EXCEPT ![l] = t] : t \in {"none", "todo"}}
  /\ UNCHANGED <<minute, reached, worker, alerted>>

-----------------------------------------------------------------------------
(* mark_responded(): the lead if it is new, then its task.  `done`, what is *)
(* left of the worker's list, is the sweep's.                               *)
Responded(l, via) == [lead EXCEPT ![l].status = "responded", ![l].via = via]

NextLead(x) == worker' = [worker EXCEPT ![x] = IF worker[x].todo = {} THEN Off
                            ELSE [Off EXCEPT !.pc = "check", !.todo = worker[x].todo]]

MarkResponded(x) ==
  /\ ClockAt(x, "mark")
  /\ LET l == worker[x].l
     IN IF lead[l].status = "new"
        THEN /\ lead' = Responded(l, worker[x].via)
             /\ IF worker[x].via = "task_completed" THEN NextLead(x) ELSE To(x, "finish")
        ELSE NextLead(x) /\ UNCHANGED lead
  /\ UNCHANGED <<minute, task, reached, alerted>>

FinishTask(x) ==
  /\ ClockAt(x, "finish")
  /\ task' = [task EXCEPT ![worker[x].l] = IF @ = "todo" THEN "done" ELSE @]
  /\ NextLead(x)
  /\ UNCHANGED <<minute, lead, reached, alerted>>

(* sync_responses(): the new leads, of everyone or of one contact ... *)
SyncBegin(x, leads) ==
  /\ leads # {} /\ leads \subseteq {l \in Leads : lead[l].status = "new"}
  /\ Start(x, [Off EXCEPT !.pc = "check", !.todo = leads])
  /\ UNCHANGED <<minute, lead, task, reached, alerted>>

(* ... and of each, as it is now, its task and its contact's activities.    *)
Evidence(l) == IF task[l] = "done" THEN "task_completed"
               ELSE IF reached[lead[l].contact] >= lead[l].received THEN "activity" ELSE "none"

SyncCheck(x, l) ==
  /\ ClockAt(x, "check") /\ l \in worker[x].todo
  /\ LET w == [worker[x] EXCEPT !.l = l, !.todo = @ \ {l}, !.via = Evidence(l), !.pc = "mark"]
     IN worker' = [worker EXCEPT ![x] =
          IF Evidence(l) # "none" THEN w
          ELSE IF w.todo = {} THEN Off ELSE [Off EXCEPT !.pc = "check", !.todo = w.todo]]
  /\ UNCHANGED <<minute, lead, task, reached, alerted>>

(* recognise_activity(): an outreach logged on a contact is looked for at   *)
(* once among its leads.                                                    *)
LogActivity(c) ==
  /\ reached' = [reached EXCEPT ![c] = minute] /\ reached' # reached
  /\ UNCHANGED <<minute, lead, task, worker, alerted>>

(* A call-back task is ticked off, or opened again; the lead follows.       *)
TickOff(x, l) ==
  /\ task[l] = "todo"
  /\ task' = [task EXCEPT ![l] = "done"]
  /\ Start(x, [Off EXCEPT !.pc = "mark", !.l = l, !.via = "task_completed"])
  /\ UNCHANGED <<minute, lead, reached, alerted>>

Untick(x, l) ==
  /\ task[l] = "done"
  /\ task' = [task EXCEPT ![l] = "todo"]
  /\ Start(x, [Off EXCEPT !.pc = "unticked", !.l = l])
  /\ UNCHANGED <<minute, lead, reached, alerted>>

(* task_status_changed(): only the response the task recorded is withdrawn. *)
ByTheTask(l) == lead[l].status = "responded" /\ lead[l].via = "task_completed"

Unmark(x) ==
  /\ ClockAt(x, "unticked")
  /\ lead' = IF ByTheTask(worker[x].l)
             THEN [lead EXCEPT ![worker[x].l].status = "new", ![worker[x].l].via = "none"] ELSE lead
  /\ End(x)
  /\ UNCHANGED <<minute, task, reached, alerted>>

-----------------------------------------------------------------------------
(* update_lead(): from the inbox, on the lead as it was read.               *)
Patch(x, l, s) ==
  /\ lead[l].status \notin {"absent", s} /\ s # "absent"
  /\ Start(x, IF s = "responded" /\ lead[l].status = "new"
              THEN [Off EXCEPT !.pc = "mark", !.l = l, !.via = "marked_in_inbox"]
              ELSE [Off EXCEPT !.pc = "patch", !.l = l, !.to = s])
  /\ UNCHANGED <<minute, lead, task, reached, alerted>>

PatchLead(x) ==
  /\ ClockAt(x, "patch")
  /\ LET l == worker[x].l
         s == worker[x].to
     IN /\ lead' = [lead EXCEPT ![l].status = s, ![l].via = IF s = "new" THEN "none" ELSE @]
        /\ IF s \in {"new", "spam"} THEN To(x, "retask") ELSE End(x)
  /\ UNCHANGED <<minute, task, reached, alerted>>

(* Opened again, the lead's task is too; spam takes the task with it, if    *)
(* the contact came with the lead.                                          *)
PatchTask(x) ==
  /\ ClockAt(x, "retask")
  /\ LET l == worker[x].l
     IN \/ /\ worker[x].to = "new"
           /\ task' = [task EXCEPT ![l] = IF @ \in {"done", "cancelled"} THEN "todo" ELSE @]
        \/ /\ worker[x].to = "spam"
           /\ task' \in {task, [task EXCEPT ![l] = IF @ = "none" THEN @ ELSE "cancelled"]}
  /\ End(x)
  /\ UNCHANGED <<minute, lead, reached, alerted>>

-----------------------------------------------------------------------------
(* escalate_overdue(): a lead that has waited past its deadline is claimed  *)
(* by one worker, which tells the admins.                                   *)
Overdue(l) == lead[l].status = "new" /\ ~lead[l].escalated /\ minute > lead[l].received

EscalateRead(x, l) ==
  /\ Overdue(l)
  /\ Start(x, [Off EXCEPT !.pc = "claim", !.l = l])
  /\ UNCHANGED <<minute, lead, task, reached, alerted>>

MayEscalateAgain(l) == lead[l].status = "new"  \* mutant
MayEscalate(l) == lead[l].status = "new" /\ ~lead[l].escalated

EscalateClaim(x) ==
  /\ ClockAt(x, "claim")
  /\ IF MayEscalate(worker[x].l)
     THEN lead' = [lead EXCEPT ![worker[x].l].escalated = TRUE] /\ To(x, "tell")
     ELSE End(x) /\ UNCHANGED lead
  /\ UNCHANGED <<minute, task, reached, alerted>>

TellAdmins(x) ==
  /\ ClockAt(x, "tell")
  /\ alerted' = [alerted EXCEPT ![worker[x].l] = @ + 1]
  /\ End(x)
  /\ UNCHANGED <<minute, lead, task, reached>>

WorkerDies(x) ==
  /\ ~ClockAt(x, "idle")
  /\ End(x)
  /\ UNCHANGED <<minute, lead, task, reached, alerted>>

MinutePasses ==
  /\ minute < LastMinute
  /\ minute' = minute + 1
  /\ UNCHANGED <<lead, task, reached, worker, alerted>>

Work(x) ==
  \/ MarkResponded(x) \/ FinishTask(x) \/ Unmark(x) \/ PatchLead(x) \/ PatchTask(x)
  \/ EscalateClaim(x) \/ TellAdmins(x) \/ \E l \in Leads : SyncCheck(x, l)

LeadClockNext ==
  \/ MinutePasses
  \/ \E l \in Leads, c \in Contacts : Arrive(l, c)
  \/ \E c \in Contacts : LogActivity(c)
  \/ \E x \in ClockWorkers :
       \/ Work(x) \/ WorkerDies(x)
       \/ \E leads \in SUBSET Leads : SyncBegin(x, leads)
       \/ \E l \in Leads : \/ TickOff(x, l) \/ Untick(x, l) \/ EscalateRead(x, l)
                           \/ \E s \in LeadStatuses : Patch(x, l, s)

(***************************************************************************)
(* The watcher sweeps every minute, and what begins goes on; the watcher   *)
(* may die in one sweep, not in all of them.                               *)
(***************************************************************************)
LeadClockFairness ==
  /\ \A x \in ClockWorkers : WF_clockVars(Work(x))
  /\ \A l \in Leads : /\ SF_clockVars(\E x \in ClockWorkers : EscalateRead(x, l))
                      /\ SF_clockVars(\E x \in ClockWorkers : worker[x].l = l /\ EscalateClaim(x))

LeadClockSpec == LeadClockInit /\ [][LeadClockNext]_clockVars /\ LeadClockFairness

-----------------------------------------------------------------------------
(***************************************************************************)
(* The admins are told of a lead at most once, however many sweeps overlap *)
(* and however often it is opened again (escalate_overdue).                *)
(***************************************************************************)
EscalatedOnce == \A l \in Leads : alerted[l] <= 1

(***************************************************************************)
(* A response that was recorded another way is not withdrawn with the      *)
(* tick of the task, whatever happens between the two writes: only the     *)
(* inbox opens such a lead again (task_status_changed).                    *)
(***************************************************************************)
OtherResponsesStay ==
  [][\A l \in Leads :
       (lead[l].status = "responded" /\ lead[l].via # "task_completed" /\ lead'[l].status = "new")
         => \E x \in ClockWorkers : ClockAt(x, "patch") /\ worker[x].l = l]_clockVars

(***************************************************************************)
(* A lead past its deadline is responded to, put away or escalated: no     *)
(* death of a worker leaves it waiting (escalate_overdue, run_watcher).    *)
(***************************************************************************)
AnsweredOrEscalated == \A l \in Leads : []<>~Overdue(l)

(***************************************************************************)
(* What the clock of a lead promises.                                      *)
(***************************************************************************)
ClockHolds == [](LeadClockTypeOK /\ EscalatedOnce) /\ OtherResponsesStay /\ AnsweredOrEscalated
=============================================================================
