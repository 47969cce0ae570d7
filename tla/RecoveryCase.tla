---------------------------- MODULE RecoveryCase ----------------------------
(***************************************************************************)
(* A recovery case from detection to its end: backend/recovery_case.py     *)
(* with the composer and the decision hook (recovery_strategy.py), the     *)
(* runner (recovery_runner.py) and the close that withdraws its work       *)
(* (recovery_lifecycle.py).  Cases share nothing, so one stands for all.   *)
(*                                                                         *)
(* No two documents are ever written together: the case, its strategies,   *)
(* the approvals and the messages are each written by a call of their own, *)
(* on what the caller read before.  Every such write is an action, as are  *)
(* the reads that follow one another before it, and any number of          *)
(* composers, decisions, runs and closes may be in flight.                 *)
(*                                                                         *)
(* A strategy's content stands for its fingerprint.  A step that stays in  *)
(* the CRM leaves nothing another component reads, so every step is an     *)
(* outbound one.  Of a message's way to the client, which OutboundDelivery *)
(* models, only the statuses are kept: a decision on a message, a send and *)
(* an operator's request are each one step here.                           *)
(***************************************************************************)
EXTENDS Naturals, FiniteSets

CONSTANTS Composers,     \* calls in flight that compose,
          Callers,       \* and that decide, run or close; one may do either
          Contents,      \* what the composer may recommend
          NSteps,        \* steps of a plan
          MaxPlans,      \* bound on the strategies inserted
          MaxApprovals,  \* bound on the requests raised
          MaxCrashes,    \* bound on the calls that die
          NoContent

ASSUME RecoveryAssumption ==
  /\ {NSteps, MaxPlans, MaxApprovals, MaxCrashes} \subseteq Nat
  /\ IsFiniteSet(Composers) /\ IsFiniteSet(Callers)
  /\ NoContent \notin Contents

VARIABLES
  state,               \* the case's state
  plan_reference, approval_reference,
  queued,              \* the case has an open Second Chance work item
  strategy,            \* recovery_strategies: state, content, approval, active key held
  status, about,       \* approvals: status, and the plan or message it authorises
  message,             \* the message each step drafted: status and approval
  call,                \* where a call is, and what it has read
  ran,                 \* history: a step run, of which plan and content, on which approval
  overtaken,           \* history: plans written by a call when its read was out of date
  asked_late,          \* history: messages an operator requested after the case ended
  crashes

caseVars == <<state, plan_reference, approval_reference, queued>>
histVars == <<ran, overtaken, asked_late, crashes>>
vars == <<caseVars, strategy, status, about, message, call, histVars>>

States   == {"detected", "planned", "awaiting_approval", "approved", "executing",
             "engaged", "recovered", "closed", "failed"}
TERMINAL_STATES == {"recovered", "closed", "failed"}
PLANNABLE_CASE_STATES == {"detected", "planned", "awaiting_approval"}

ALLOWED_TRANSITIONS ==
  [detected          |-> {"planned", "awaiting_approval", "closed", "failed"},
   planned           |-> {"planned", "awaiting_approval", "closed", "failed"},
   awaiting_approval |-> {"approved", "planned", "closed", "failed"},
   approved          |-> {"executing", "planned", "closed", "failed"},
   executing         |-> {"engaged", "approved", "closed", "failed"},
   engaged           |-> {"recovered", "executing", "closed", "failed"},
   recovered         |-> {"closed"},
   closed            |-> {},
   failed            |-> {"detected"}]

Calls == Composers \cup Callers

(* Plans, approvals and messages are numbered as they are made; 0 is None. *)
Plans     == 1..MaxPlans
Approvals == 1..MaxApprovals
Steps     == 1..NSteps
None      == 0
NoSubject == <<>>
PlanOf(p, v) == <<"plan", p, v>>
MessageOf(n) == <<"message", n>>
Subjects  == {NoSubject} \cup {PlanOf(p, v) : p \in Plans, v \in Contents}
                         \cup {MessageOf(n) : n \in Steps}

PlanStates    == {"proposed", "approved", "rejected", "withdrawn"}
MessageStates == {"none", "draft", "pending_approval", "approved", "sent", "blocked"}
PENDING_MESSAGE_STATES == {"draft", "pending_approval", "approved"}

(* What a call holds: a plan, its approval and content, a state read, a     *)
(* step, and messages with the approvals they were listed or asked with.    *)
Idle == [pc |-> "idle", p |-> None, a |-> None, v |-> NoContent,
         st |-> "none", n |-> None, msgs |-> {}]

Pcs == {"idle", "find", "insert", "cancel", "replace", "request", "save", "attach", "state",
        "decided", "sync", "sync_attach", "to_awaiting", "to_approved", "to_planned",
        "close", "plan", "approval", "enter", "step", "draft", "ask", "pend",
        "withdraw", "read_plan", "withdraw_plan", "list", "refuse"}

CallType ==
  [pc : Pcs, p : Plans \cup {None}, a : Approvals \cup {None}, v : Contents \cup {NoContent},
   st : States \cup PlanStates \cup MessageStates, n : Nat,
   msgs : SUBSET (Steps \X (Approvals \cup {None}))]

TypeOK ==
  /\ state \in States
  /\ plan_reference \in Plans \cup {None}
  /\ approval_reference \in Approvals \cup {None}
  /\ queued \in BOOLEAN
  /\ strategy \in [Plans -> [state : PlanStates \cup {"none"}, content : Contents \cup {NoContent},
                             approval : Approvals \cup {None}, live : BOOLEAN]]
  /\ status \in [Approvals -> {"absent", "requested", "approved", "rejected",
                               "expired", "cancelled"}]
  /\ about \in [Approvals -> Subjects]
  /\ message \in [Steps -> [status : MessageStates, approval : Approvals \cup {None}]]
  /\ call \in [Calls -> CallType]
  /\ ran \subseteq [plan : Plans \cup {None}, content : Contents \cup {NoContent},
                    approval : Approvals \cup {None}]
  /\ overtaken \subseteq Plans
  /\ asked_late \subseteq Steps
  /\ crashes \in 0..MaxCrashes

(* open_case: the unique index makes one case of a source event. *)
Init ==
  /\ state = "detected"
  /\ plan_reference = None /\ approval_reference = None
  /\ queued \in BOOLEAN
  /\ strategy = [p \in Plans |-> [state |-> "none", content |-> NoContent,
                                  approval |-> None, live |-> FALSE]]
  /\ status = [a \in Approvals |-> "absent"]
  /\ about = [a \in Approvals |-> NoSubject]
  /\ message = [n \in Steps |-> [status |-> "none", approval |-> None]]
  /\ call = [x \in Calls |-> Idle]
  /\ ran = {} /\ overtaken = {} /\ asked_late = {} /\ crashes = 0

-----------------------------------------------------------------------------
Ended       == state \in TERMINAL_STATES
At(x, pc)   == call[x].pc = pc
Goto(x, pc) == call' = [call EXCEPT ![x].pc = pc]
Return(x)   == call' = [call EXCEPT ![x] = Idle]

Requested(a) == a # None /\ status[a] = "requested"
Granted(a)   == a # None /\ status[a] = "approved"

(* Every call that will raise a request has one left to raise. *)
Unused == {a \in Approvals : status[a] = "absent"}
Room   == Cardinality(Unused) >
            Cardinality({x \in Calls : call[x].pc \in {"insert", "cancel", "replace", "request",
                                                       "ask"}})

(* recovery_case._transition: a move the matrix refuses is an error.  One    *)
(* that lost to another move between its read and its conditional update is  *)
(* the same error, and here it is the other move that is read.               *)
MayMove(to) == to \in ALLOWED_TRANSITIONS[state]
MoveCase(to) == state' = to /\ UNCHANGED <<plan_reference, approval_reference, queued>>

(* ... as the last word of a call, and as one step of it. *)
MoveAndReturn(x, pc, to) ==
  /\ At(x, pc)
  /\ IF MayMove(to) THEN MoveCase(to) ELSE UNCHANGED caseVars
  /\ Return(x)
  /\ UNCHANGED <<strategy, status, about, message, histVars>>

MoveAndGo(x, pc, to, next) ==
  /\ At(x, pc)
  /\ \/ MayMove(to) /\ MoveCase(to) /\ Goto(x, next)
     \/ ~MayMove(to) /\ Return(x) /\ UNCHANGED caseVars
  /\ UNCHANGED <<strategy, status, about, message, histVars>>

(* approval_queue.request with its dedupe key: the open request or a new one. *)
OpenFor(s) == {a \in Approvals : status[a] = "requested" /\ about[a] = s}
RequestFor(a, s) ==
  \/ /\ a \in OpenFor(s)
     /\ UNCHANGED <<status, about>>
  \/ /\ OpenFor(s) = {} /\ a \in Unused /\ \A b \in Unused : a <= b
     /\ status' = [status EXCEPT ![a] = "requested"]
     /\ about' = [about EXCEPT ![a] = s]

(* approval_queue.cancel: only an open request can be withdrawn. *)
CancelIfOpen(a) ==
  /\ status' = IF Requested(a) THEN [status EXCEPT ![a] = "cancelled"] ELSE status
  /\ UNCHANGED about

-----------------------------------------------------------------------------
(***************************************************************************)
(* The composer.  compose_for_tenant takes the case from its open work     *)
(* item; without one, because it was never planned or because its approval *)
(* is dead, and of a rejected plan it then only applies the rejection.     *)
(***************************************************************************)
NeverPlanned == state = "detected" /\ plan_reference = None
(* Mutant: only a case that waits for its approval is looked at. *)
DeadIfWaiting == state = "awaiting_approval" /\ ~Requested(approval_reference)

DeadApproval == state \in {"planned", "awaiting_approval"} /\ ~Requested(approval_reference)
RejectedPlan == /\ DeadApproval /\ approval_reference # None /\ plan_reference # None
                /\ status[approval_reference] = "rejected"

ComposeBegin(x) ==
  /\ x \in Composers /\ call[x] = Idle
  /\ \/ /\ queued /\ state \in PLANNABLE_CASE_STATES
        /\ Goto(x, "find")
     \/ /\ ~queued /\ (NeverPlanned \/ (DeadApproval /\ ~RejectedPlan))
        /\ Goto(x, "find")
     \/ /\ ~queued /\ RejectedPlan
        /\ call' = [call EXCEPT ![x] = [Idle EXCEPT !.pc = "sync", !.p = plan_reference,
                                                    !.st = "rejected"]]
  /\ UNCHANGED <<caseVars, strategy, status, about, message, histVars>>

(***************************************************************************)
(* compose_for_case refuses an ended case; compose_for_candidate then      *)
(* reads the live strategy.  An approved one stands; one whose content is  *)
(* recommended again stands while its approval is live; any other is to be *)
(* replaced.  Without one, a new strategy is to be inserted.               *)
(***************************************************************************)
Live(p)      == strategy[p].live
UnusedPlans  == {p \in Plans : strategy[p].state = "none"}
(* Mutant: an approved plan is recomposed like any other. *)
StandsIfSame(p, v) ==
  /\ strategy[p].content = v
  /\ Requested(strategy[p].approval) \/ Granted(strategy[p].approval)

Stands(p, v) ==
  \/ strategy[p].state = "approved"
  \/ /\ strategy[p].state = "proposed" /\ strategy[p].content = v
     /\ Requested(strategy[p].approval) \/ Granted(strategy[p].approval)

Read(x, pc, p, v) ==
  call' = [call EXCEPT ![x] = [Idle EXCEPT !.pc = pc, !.p = p, !.a = strategy[p].approval,
                                           !.v = v, !.st = strategy[p].state]]

ComposeFind(x) ==
  /\ At(x, "find")
  /\ \/ Ended /\ Return(x)
     \/ /\ ~Ended
        /\ \E v \in Contents :
             \/ \E p \in Plans : Live(p) /\ Stands(p, v) /\ Read(x, "attach", p, NoContent)
             \/ \E p \in Plans : Live(p) /\ ~Stands(p, v) /\ Room /\ Read(x, "cancel", p, v)
             \/ /\ \A p \in Plans : ~Live(p)
                /\ UnusedPlans # {} /\ Room
                /\ call' = [call EXCEPT ![x] = [Idle EXCEPT !.pc = "insert", !.v = v]]
  /\ UNCHANGED <<caseVars, strategy, status, about, message, histVars>>

(* Mutant: the old request is left to its operator. *)
ComposeKeep(x) ==
  /\ At(x, "cancel")
  /\ Goto(x, "replace")
  /\ UNCHANGED <<caseVars, strategy, status, about, message, histVars>>

(* A refusal to withdraw the old approval is swallowed. *)
ComposeCancel(x) ==
  /\ At(x, "cancel")
  /\ CancelIfOpen(call[x].a)
  /\ Goto(x, "replace")
  /\ UNCHANGED <<caseVars, strategy, message, histVars>>

Proposal(v) == [state |-> "proposed", content |-> v, approval |-> None, live |-> TRUE]

(* insert_one: the active key is unique, and the loser's call ends. *)
ComposeInsert(x) ==
  /\ At(x, "insert")
  /\ \/ \E p \in UnusedPlans :
          /\ \A q \in Plans : ~Live(q)
          /\ \A q \in UnusedPlans : p <= q
          /\ strategy' = [strategy EXCEPT ![p] = Proposal(call[x].v)]
          /\ call' = [call EXCEPT ![x].pc = "request", ![x].p = p, ![x].st = "proposed"]
     \/ /\ UnusedPlans = {} \/ (\E q \in Plans : Live(q))
        /\ Return(x) /\ UNCHANGED strategy
  /\ UNCHANGED <<caseVars, status, about, message, histVars>>

(* replace_one by the document's id, whatever the document has become. *)
ComposeReplace(x) ==
  LET p == call[x].p
      unread == \/ strategy[p].state # call[x].st \/ strategy[p].approval # call[x].a
                \/ call[x].st = "proposed" /\ Granted(call[x].a)
  IN /\ At(x, "replace")
     /\ \/ /\ \A q \in Plans \ {p} : ~Live(q)
           /\ strategy' = [strategy EXCEPT ![p] = Proposal(call[x].v)]
           /\ overtaken' = IF unread THEN overtaken \cup {p} ELSE overtaken
           /\ call' = [call EXCEPT ![x].pc = "request", ![x].st = "proposed"]
        \/ /\ \E q \in Plans \ {p} : Live(q)
           /\ Return(x) /\ UNCHANGED <<strategy, overtaken>>
     /\ UNCHANGED <<caseVars, status, about, message, ran, asked_late, crashes>>

ComposeRequest(x) ==
  /\ At(x, "request")
  /\ \E a \in Approvals : /\ RequestFor(a, PlanOf(call[x].p, call[x].v))
                          /\ call' = [call EXCEPT ![x].pc = "save", ![x].a = a]
  /\ UNCHANGED <<caseVars, strategy, message, histVars>>

ComposeSave(x) ==
  LET p == call[x].p
      unread == strategy[p] # Proposal(call[x].v)
  IN /\ At(x, "save")
     /\ strategy' = [strategy EXCEPT ![p].approval = call[x].a]
     /\ overtaken' = IF unread THEN overtaken \cup {p} ELSE overtaken
     /\ call' = [call EXCEPT ![x].pc = "attach", ![x].v = NoContent]
     /\ UNCHANGED <<caseVars, status, about, message, ran, asked_late, crashes>>

(* recovery_case.attach: unconditional, and it skips what is None. *)
Attach(p, a) ==
  /\ plan_reference' = p
  /\ approval_reference' = IF a = None THEN approval_reference ELSE a
  /\ UNCHANGED <<state, queued>>

(* Mutant: a plan found approved is treated as one just proposed. *)
AttachOnly(x) ==
  /\ At(x, "attach")
  /\ Attach(call[x].p, call[x].a)
  /\ Goto(x, "state")
  /\ UNCHANGED <<strategy, status, about, message, histVars>>

ComposeAttach(x) ==
  /\ At(x, "attach")
  /\ Attach(call[x].p, call[x].a)
  /\ Goto(x, IF call[x].st = "approved" THEN "sync" ELSE "state")
  /\ UNCHANGED <<strategy, status, about, message, histVars>>

(* A case past planning is not dragged back; the refusal is swallowed. *)
ComposeState(x) ==
  MoveAndReturn(x, "state", IF call[x].a # None THEN "awaiting_approval" ELSE "planned")

-----------------------------------------------------------------------------
(***************************************************************************)
(* A decision on a strategy's approval, and its side effects: the strategy *)
(* is set, whatever it has become, and the case is moved to match.         *)
(***************************************************************************)
PlanVerdict == [approved |-> "approved", rejected |-> "rejected", cancelled |-> "withdrawn"]

DecidePlan(x, a, verdict) ==
  /\ x \in Callers /\ call[x] = Idle
  /\ Requested(a)
  /\ status' = [status EXCEPT ![a] = verdict]
  /\ \E p \in Plans, v \in Contents :
       /\ about[a] = PlanOf(p, v)
       /\ call' = [call EXCEPT ![x] = [Idle EXCEPT !.pc = "decided", !.p = p, !.a = a,
                                                   !.st = PlanVerdict[verdict]]]
  /\ UNCHANGED <<caseVars, strategy, about, message, histVars>>

(* recovery_strategy.set_state: it returns the document as it is then. *)
SetPlan(p, st) ==
  strategy' = [strategy EXCEPT ![p].state = st, ![p].live = st = "approved" /\ Live(p)]

DecidedPlan(x) ==
  LET p == call[x].p
      unread == strategy[p].state # "proposed" \/ strategy[p].approval # call[x].a
  IN /\ At(x, "decided")
     /\ SetPlan(p, call[x].st)
     /\ overtaken' = IF unread THEN overtaken \cup {p} ELSE overtaken
     /\ call' = [call EXCEPT ![x].pc = "sync", ![x].a = strategy[p].approval]
     /\ UNCHANGED <<caseVars, status, about, message, ran, asked_late, crashes>>

(* sync_case_with_strategy: the reads, and where the case has to go. *)
Walk == IF state \in {"detected", "planned"} THEN "to_awaiting"
        ELSE IF state = "awaiting_approval" THEN "to_approved" ELSE "idle"
Last(x, pc) == call' = [call EXCEPT ![x] = [Idle EXCEPT !.pc = pc]]

SyncTakes(x) ==
  /\ ~Ended /\ plan_reference \in {None, call[x].p}
  /\ \/ call[x].st = "approved" /\ Granted(call[x].a)
     \/ call[x].st = "rejected"
     \/ call[x].st = "withdrawn" /\ state = "awaiting_approval"

Sync(x) ==
  LET attached == plan_reference = call[x].p /\ approval_reference = call[x].a
  IN /\ At(x, "sync")
     /\ \/ ~SyncTakes(x) /\ Return(x)
        \/ /\ SyncTakes(x) /\ call[x].st = "approved"
           /\ IF attached THEN Last(x, Walk) ELSE Goto(x, "sync_attach")
        \/ SyncTakes(x) /\ call[x].st = "rejected" /\ Last(x, "close")
        \/ SyncTakes(x) /\ call[x].st = "withdrawn" /\ Last(x, "to_planned")
     /\ UNCHANGED <<caseVars, strategy, status, about, message, histVars>>

SyncAttach(x) ==
  /\ At(x, "sync_attach")
  /\ Attach(call[x].p, call[x].a)
  /\ Last(x, Walk)
  /\ UNCHANGED <<strategy, status, about, message, histVars>>

ToAwaiting(x) == MoveAndGo(x, "to_awaiting", "awaiting_approval", "to_approved")
ToApproved(x) == MoveAndReturn(x, "to_approved", "approved")
ToPlanned(x)  == MoveAndReturn(x, "to_planned", "planned")

(* Nobody decides: the request lapses and is swept; no side effects. *)
ExpireApproval(a) ==
  /\ Requested(a)
  /\ status' = [status EXCEPT ![a] = "expired"]
  /\ UNCHANGED <<caseVars, strategy, about, message, call, histVars>>

-----------------------------------------------------------------------------
(***************************************************************************)
(* The close: the case is moved, and what the moved case pointed at is     *)
(* withdrawn: an open approval, a proposed plan, every message that was    *)
(* pending when the messages were listed, and the work item.               *)
(***************************************************************************)
GoWithdraw(x) ==
  call' = [call EXCEPT ![x] = [Idle EXCEPT !.pc = "withdraw", !.p = plan_reference,
                                           !.a = approval_reference]]

Close(x) ==
  /\ At(x, "close") \/ (x \in Callers /\ call[x] = Idle)
  /\ ~Ended /\ MayMove("closed")
  /\ MoveCase("closed")
  /\ GoWithdraw(x)
  /\ UNCHANGED <<strategy, status, about, message, histVars>>

CloseRefused(x) ==
  /\ At(x, "close") /\ Ended
  /\ Return(x)
  /\ UNCHANGED <<caseVars, strategy, status, about, message, histVars>>

WithdrawApproval(x) ==
  /\ At(x, "withdraw")
  /\ CancelIfOpen(call[x].a)
  /\ Goto(x, "read_plan")
  /\ UNCHANGED <<caseVars, strategy, message, histVars>>

ReadPlan(x) ==
  LET p == call[x].p
  IN /\ At(x, "read_plan")
     /\ \/ p # None /\ strategy[p].state = "proposed" /\ Goto(x, "withdraw_plan")
        \/ (p = None \/ (p # None /\ strategy[p].state # "proposed")) /\ Goto(x, "list")
     /\ UNCHANGED <<caseVars, strategy, status, about, message, histVars>>

WithdrawPlan(x) ==
  LET p == call[x].p
      unread == strategy[p].state # "proposed"
  IN /\ At(x, "withdraw_plan")
     /\ SetPlan(p, "withdrawn")
     /\ overtaken' = IF unread THEN overtaken \cup {p} ELSE overtaken
     /\ Goto(x, "list")
     /\ UNCHANGED <<caseVars, status, about, message, ran, asked_late, crashes>>

Pending(n) == message[n].status \in PENDING_MESSAGE_STATES

ListMessages(x) ==
  /\ At(x, "list")
  /\ call' = [call EXCEPT ![x].pc = "refuse",
                          ![x].msgs = {<<n, message[n].approval>> :
                                         n \in {m \in Steps : Pending(m)}}]
  /\ UNCHANGED <<caseVars, strategy, status, about, message, histVars>>

(* mark_refused: a message already gone is left alone. *)
Refuse(n) == message' = IF Pending(n) THEN [message EXCEPT ![n].status = "blocked"] ELSE message

RefuseMessage(x) ==
  /\ At(x, "refuse")
  /\ \E m \in call[x].msgs : /\ CancelIfOpen(m[2])
                             /\ Refuse(m[1])
                             /\ call' = [call EXCEPT ![x].msgs = call[x].msgs \ {m}]
  /\ UNCHANGED <<caseVars, strategy, histVars>>

ResolveItem(x) ==
  /\ At(x, "refuse") /\ call[x].msgs = {}
  /\ queued' = FALSE
  /\ Return(x)
  /\ UNCHANGED <<state, plan_reference, approval_reference, strategy, status, about, message,
                 histVars>>

-----------------------------------------------------------------------------
(***************************************************************************)
(* The runner.  run_case reads the case, then its plan, then the plan's    *)
(* approval, and enters execution; before every step the case is read      *)
(* again.                                                                  *)
(***************************************************************************)
RunBegin(x) ==
  /\ x \in Callers /\ call[x] = Idle
  /\ state \in {"approved", "executing"} /\ plan_reference # None
  /\ call' = [call EXCEPT ![x] = [Idle EXCEPT !.pc = "plan", !.p = plan_reference,
                                              !.a = approval_reference, !.st = state]]
  /\ UNCHANGED <<caseVars, strategy, status, about, message, histVars>>

RunPlan(x) ==
  /\ At(x, "plan")
  /\ call' = [call EXCEPT ![x].pc = "approval", ![x].v = strategy[call[x].p].content]
  /\ UNCHANGED <<caseVars, strategy, status, about, message, histVars>>

Entry(x) == IF call[x].st = "executing" THEN "step" ELSE "enter"

RunApproval(x) ==
  /\ At(x, "approval")
  /\ \/ Granted(call[x].a) /\ call' = [call EXCEPT ![x].pc = Entry(x), ![x].n = 1]
     \/ ~Granted(call[x].a) /\ Return(x)
  /\ UNCHANGED <<caseVars, strategy, status, about, message, histVars>>

RunEnter(x) == MoveAndGo(x, "enter", "executing", "step")

(* A step drafted by an earlier run is kept as it is. *)
RunStep(x) ==
  LET n == call[x].n
  IN /\ At(x, "step") /\ n \in Steps /\ ~Ended
     /\ ran' = ran \cup {[plan |-> call[x].p, content |-> call[x].v, approval |-> call[x].a]}
     /\ call' = IF message[n].status = "none" THEN [call EXCEPT ![x].pc = "draft"]
                ELSE [call EXCEPT ![x].n = n + 1]
     /\ UNCHANGED <<caseVars, strategy, status, about, message, overtaken, asked_late, crashes>>

(* draft_message: the idempotency key is unique, and the draft that exists *)
(* is the draft returned.                                                  *)
RunDraft(x) ==
  LET n == call[x].n
  IN /\ At(x, "draft") /\ Room
     /\ message' = IF message[n].status = "none" THEN [message EXCEPT ![n].status = "draft"]
                   ELSE message
     /\ Goto(x, "ask")
     /\ UNCHANGED <<caseVars, strategy, status, about, histVars>>

(* conversations.request_approval: the message is read, a request raised,  *)
(* and the message moved unless it is no longer what was read.             *)
Requestable == {"draft", "approved", "blocked"}

RunAsk(x) ==
  LET n == call[x].n
  IN /\ At(x, "ask")
     /\ \E a \in Approvals :
          /\ RequestFor(a, MessageOf(n))
          /\ call' = [call EXCEPT ![x].pc = "pend", ![x].st = message[n].status,
                                  ![x].msgs = {<<n, a>>}]
     /\ UNCHANGED <<caseVars, strategy, message, histVars>>

RunPend(x) ==
  LET n == call[x].n
      legal == message[n].status = call[x].st /\ call[x].st \in Requestable
  IN /\ At(x, "pend")
     /\ \/ /\ legal
           /\ \E m \in call[x].msgs : message' = [message EXCEPT ![n] =
                                          [status |-> "pending_approval", approval |-> m[2]]]
           /\ call' = [call EXCEPT ![x].pc = "step", ![x].n = n + 1, ![x].msgs = {}]
        \/ ~legal /\ Return(x) /\ UNCHANGED message
     /\ UNCHANGED <<caseVars, strategy, status, about, histVars>>

(* last_contact_by_case, and the case moved on it (sync_engagement). *)
(* Mutant: a message about to be sent counts. *)
NearlyReached == \E n \in Steps : message[n].status \in {"approved", "sent"}

ClientReached == \E n \in Steps : message[n].status = "sent"
Engage == IF state = "executing" /\ ClientReached THEN MoveCase("engaged") ELSE UNCHANGED caseVars

(* Mutant: a run that finds its case ended just stops. *)
RunStop(x) ==
  /\ At(x, "step") /\ (Ended \/ call[x].n \notin Steps)
  /\ Return(x)
  /\ IF Ended THEN UNCHANGED caseVars ELSE Engage
  /\ UNCHANGED <<strategy, status, about, message, histVars>>

RunEnd(x) ==
  /\ At(x, "step") /\ (Ended \/ call[x].n \notin Steps)
  /\ IF Ended THEN GoWithdraw(x) /\ UNCHANGED caseVars ELSE Return(x) /\ Engage
  /\ UNCHANGED <<strategy, status, about, message, histVars>>

-----------------------------------------------------------------------------
(* A decision on a message's approval: mark_approved checks the approval the *)
(* message carries, not the one decided; mark_refused checks none.           *)
DecideMessage(a, verdict) ==
  /\ Requested(a)
  /\ status' = [status EXCEPT ![a] = verdict]
  /\ \E n \in Steps :
       /\ about[a] = MessageOf(n)
       /\ \/ verdict # "approved" /\ Refuse(n)
          \/ /\ verdict = "approved" /\ message[n].status = "pending_approval"
             /\ message[n].approval = a \/ Granted(message[n].approval)
             /\ message' = [message EXCEPT ![n].status = "approved"]
          \/ /\ verdict = "approved"
             /\ ~(message[n].status = "pending_approval"
                     /\ (message[n].approval = a \/ Granted(message[n].approval)))
             /\ UNCHANGED message
  /\ UNCHANGED <<caseVars, strategy, about, call, histVars>>

(* The send route: it asks nothing of the case. *)
Send(n) ==
  /\ message[n].status = "approved" /\ Granted(message[n].approval)
  /\ message' = [message EXCEPT ![n].status = "sent"]
  /\ UNCHANGED <<caseVars, strategy, status, about, call, histVars>>

(* An operator's request-approval route: nor does it. *)
OperatorRequest(n) ==
  /\ message[n].status \in Requestable /\ Room
  /\ \E a \in Approvals :
       /\ RequestFor(a, MessageOf(n))
       /\ message' = [message EXCEPT ![n] = [status |-> "pending_approval", approval |-> a]]
  /\ asked_late' = IF Ended THEN asked_late \cup {n} ELSE asked_late
  /\ UNCHANGED <<caseVars, strategy, call, ran, overtaken, crashes>>

(* The reconciler's and the send route's sync_engagement. *)
SyncEngagement ==
  /\ state = "executing" /\ ClientReached
  /\ Engage
  /\ UNCHANGED <<strategy, status, about, message, call, histVars>>

(* confirm_recovery, on an attributed outcome. *)
ConfirmRecovery ==
  /\ MayMove("recovered")
  /\ MoveCase("recovered")
  /\ UNCHANGED <<strategy, status, about, message, call, histVars>>

(* The process dies: what was written stays, what was read is lost. *)
Crash(x) ==
  /\ call[x] # Idle /\ crashes < MaxCrashes
  /\ crashes' = crashes + 1
  /\ Return(x)
  /\ UNCHANGED <<caseVars, strategy, status, about, message, ran, overtaken, asked_late>>

Compose(x) ==
  \/ ComposeFind(x) \/ ComposeCancel(x) \/ ComposeInsert(x) \/ ComposeReplace(x)
  \/ ComposeRequest(x) \/ ComposeSave(x) \/ ComposeAttach(x) \/ ComposeState(x)

Follow(x) == \/ DecidedPlan(x) \/ Sync(x) \/ SyncAttach(x)
             \/ ToAwaiting(x) \/ ToApproved(x) \/ ToPlanned(x)

Withdraw(x) == \/ WithdrawApproval(x) \/ ReadPlan(x) \/ WithdrawPlan(x)
               \/ ListMessages(x) \/ RefuseMessage(x) \/ ResolveItem(x)

Run(x) == \/ RunPlan(x) \/ RunApproval(x) \/ RunEnter(x) \/ RunStep(x)
          \/ RunDraft(x) \/ RunAsk(x) \/ RunPend(x) \/ RunEnd(x)

(* A call under way goes on; a close that starts is the operator's choice. *)
Proceed(x) == \/ Compose(x) \/ Follow(x) \/ Withdraw(x) \/ Run(x)
              \/ (At(x, "close") /\ (Close(x) \/ CloseRefused(x)))

Next ==
  \/ \E x \in Calls : \/ ComposeBegin(x) \/ Compose(x) \/ Follow(x)
                       \/ Close(x) \/ CloseRefused(x) \/ Withdraw(x)
                       \/ RunBegin(x) \/ Run(x) \/ Crash(x)
                       \/ \E a \in Approvals, verdict \in DOMAIN PlanVerdict :
                            DecidePlan(x, a, verdict)
  \/ \E a \in Approvals : \/ ExpireApproval(a)
                           \/ \E verdict \in DOMAIN PlanVerdict : DecideMessage(a, verdict)
  \/ \E n \in Steps : Send(n) \/ OperatorRequest(n)
  \/ SyncEngagement \/ ConfirmRecovery

(***************************************************************************)
(* A call in flight finishes unless its process dies, and the composer's   *)
(* and the expiry's sweeps are jobs the scheduler keeps running: a case    *)
(* the composer should take is taken, and no request stays open for ever.  *)
(* Nobody has to decide, send, close or run anything.                      *)
(***************************************************************************)
Fairness ==
  /\ \A x \in Calls : WF_vars(Proceed(x))
  /\ \A a \in Approvals : WF_vars(ExpireApproval(a))
  /\ SF_vars(\E x \in Calls : ComposeBegin(x))

Spec == Init /\ [][Next]_vars /\ Fairness

-----------------------------------------------------------------------------
AtRest == \A x \in Calls : call[x] = Idle

(***************************************************************************)
(* Closing a case stops its outreach: once nothing is in flight, and if no *)
(* process died, no message of a closed case is still on its way, unless   *)
(* an operator then asked for that message.  A run that was drafting when  *)
(* the case was closed has to withdraw what it drafted after the close had *)
(* listed the messages (recovery_runner.run_case,                          *)
(* recovery_lifecycle.withdraw_pending_work).                              *)
(***************************************************************************)
ClosedIsQuiet ==
  state = "closed" /\ AtRest /\ crashes = 0
    => \A n \in Steps : Pending(n) => n \in asked_late

(***************************************************************************)
(* The runner executes what an operator approved: the approval it verified *)
(* was given for the content of the plan it ran                            *)
(* (recovery_strategy.compose_for_candidate, recovery_runner.run_case).    *)
(***************************************************************************)
ExecutedPlanWasApproved ==
  \A r \in ran : Granted(r.approval) /\ about[r.approval] = PlanOf(r.plan, r.content)

(***************************************************************************)
(* ... and the one way it can fail to is a composer, a decision or a close *)
(* writing on a strategy that was decided, or rewritten, since it was read. *)
(***************************************************************************)
UnapprovedRunWasOvertaken ==
  \A r \in ran : \/ Granted(r.approval) /\ about[r.approval] = PlanOf(r.plan, r.content)
                 \/ r.plan \in overtaken

(***************************************************************************)
(* One question at a time: with no call in flight, none that died and none *)
(* that crossed another, an open case asks its operator about one plan at  *)
(* most (recovery_strategy._adopt_case_strategies, compose_for_tenant).    *)
(***************************************************************************)
OnePlanRequest ==
  AtRest /\ crashes = 0 /\ overtaken = {} /\ ~Ended
    => Cardinality({a \in Approvals : Requested(a) /\ about[a][1] = "plan"}) <= 1

(* A case is engaged or recovered only if a message on it reached the client *)
(* (recovery_lifecycle.sync_engagement, attribution.record_outcome).         *)
EngagedMeansContact ==
  state \in {"engaged", "recovered"} => \E n \in Steps : message[n].status = "sent"

(***************************************************************************)
(* An approval moves the case: if the plan a waiting case points at is     *)
(* approved the case is eventually approved, or ended, or its plan         *)
(* rewritten, even if the process that took the decision dies after it set *)
(* the strategy (sync_case_with_strategy, compose_for_case).               *)
(***************************************************************************)
ApprovedPlan(p) == Live(p) /\ strategy[p].state = "approved" /\ Granted(strategy[p].approval)
ApprovalMovesCase ==
  \A p \in Plans :
    []<>~(ApprovedPlan(p) /\ plan_reference = p /\ state \in {"planned", "awaiting_approval"})

(***************************************************************************)
(* A case whose request lapsed or was withdrawn is asked about again       *)
(* (_cases_awaiting_a_dead_approval), whoever died meanwhile.              *)
(***************************************************************************)
Exhausted == Unused = {} \/ (UnusedPlans = {} /\ \A p \in Plans : ~Live(p))
Lapsed    == approval_reference # None /\ status[approval_reference] \in {"expired", "cancelled"}
ReProposed ==
  []<>(state \in {"planned", "awaiting_approval"} /\ Lapsed => Exhausted)

(***************************************************************************)
(* What a case promises of the plans it asks about and runs.               *)
(***************************************************************************)
RecoveryHolds == TypeOK /\ OnePlanRequest /\ UnapprovedRunWasOvertaken
=============================================================================
