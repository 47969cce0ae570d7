------------------------- MODULE RecoveryCaseProofs -------------------------
(***************************************************************************)
(* What holds of a recovery case for every number of composers, decisions, *)
(* runs and closes in flight, every playbook and every bound.              *)
(***************************************************************************)
EXTENDS RecoveryCase, FiniteSetTheorems, TLAPS

(* What a call must hold at each point for its next write to be well typed. *)
Holds(c) ==
  /\ c.pc \in {"cancel", "replace", "request"} => c.p \in Plans /\ c.v \in Contents
  /\ c.pc = "insert" => c.v \in Contents
  /\ c.pc \in {"save", "decided", "plan", "withdraw_plan"} => c.p \in Plans
  /\ c.pc = "decided" => c.st \in PlanStates
  /\ c.pc \in {"draft", "ask", "pend"} => c.n \in Steps

CallOK == \A x \in Calls : Holds(call[x])

IInv == TypeOK /\ CallOK

Strategies == [state : PlanStates \cup {"none"}, content : Contents \cup {NoContent},
               approval : Approvals \cup {None}, live : BOOLEAN]
Messages   == [status : MessageStates, approval : Approvals \cup {None}]

(* The types of the parts: TypeOK with names for its sets. *)
LEMMA Types ==
  ASSUME TypeOK
  PROVE  /\ state \in States
         /\ strategy \in [Plans -> Strategies] /\ message \in [Steps -> Messages]
         /\ call \in [Calls -> CallType]
BY DEF TypeOK, Strategies, Messages

LEMMA IdleOK == Idle \in CallType /\ Holds(Idle)
BY DEF Idle, CallType, Holds, Pcs, MessageStates, None

(* A call that changes alone, to one that holds what it needs. *)
LEMMA Update ==
  ASSUME TypeOK, CallOK, NEW x \in Calls, NEW c \in CallType, Holds(c),
         call' = [call EXCEPT ![x] = c]
  PROVE  call' \in [Calls -> CallType] /\ CallOK'
<1>1. call \in [Calls -> CallType]
  BY Types
<1>2. \A y \in Calls : call'[y] = IF y = x THEN c ELSE call[y]
  BY <1>1
<1>3. call' \in [Calls -> CallType]
  BY <1>1
<1>4. CallOK'
  BY <1>2 DEF CallOK
<1>5. QED BY <1>3, <1>4

LEMMA GotoOK ==
  ASSUME TypeOK, CallOK, NEW x \in Calls, NEW pc \in Pcs, Goto(x, pc),
         Holds([call[x] EXCEPT !.pc = pc])
  PROVE  call' \in [Calls -> CallType] /\ CallOK'
<1> DEFINE c == [call[x] EXCEPT !.pc = pc]
<1>1. c \in CallType
  BY Types DEF CallType
<1>2. call' = [call EXCEPT ![x] = c]
  BY Types DEF Goto, CallType
<1> HIDE DEF c
<1>3. Holds(c)
  BY DEF c
<1>4. QED BY <1>1, <1>2, <1>3, Update

LEMMA ReturnOK ==
  ASSUME TypeOK, CallOK, NEW x \in Calls, Return(x)
  PROVE  call' \in [Calls -> CallType] /\ CallOK'
BY IdleOK, Update DEF Return

LEMMA InitIInv == Init => IInv
<1> SUFFICES ASSUME Init PROVE IInv
  OBVIOUS
<1>1. TypeOK
  BY IdleOK, RecoveryAssumption
  DEF Init, TypeOK, States, PlanStates, MessageStates, Subjects, None, CallType
<1>2. CallOK
  BY IdleOK DEF Init, CallOK
<1>3. QED BY <1>1, <1>2 DEF IInv

-----------------------------------------------------------------------------
(* What is raised, withdrawn or moved keeps the types of what it writes. *)
LEMMA RequestsOK ==
  ASSUME TypeOK, NEW a \in Approvals, NEW s \in Subjects, RequestFor(a, s) \/ CancelIfOpen(a)
  PROVE  /\ status' \in [Approvals -> {"absent", "requested", "approved", "rejected",
                                        "expired", "cancelled"}]
         /\ about' \in [Approvals -> Subjects]
BY DEF TypeOK, RequestFor, CancelIfOpen

LEMMA CancelOK ==
  ASSUME TypeOK, NEW a \in Approvals \cup {None}, CancelIfOpen(a)
  PROVE  /\ status' \in [Approvals -> {"absent", "requested", "approved", "rejected",
                                        "expired", "cancelled"}]
         /\ about' \in [Approvals -> Subjects]
BY DEF TypeOK, CancelIfOpen

(* The composer: each of its steps leaves the case, the strategy, the       *)
(* approvals and its own call well typed.                                   *)
LEMMA BeginIInv ==
  ASSUME IInv, NEW x \in Calls, ComposeBegin(x)
  PROVE  IInv'
<1> USE DEF IInv
<1>1. call' \in [Calls -> CallType] /\ CallOK'
  <2>1. CASE Goto(x, "find")
    BY <2>1, GotoOK DEF Pcs, Holds
  <2>2. CASE call' = [call EXCEPT ![x] = [Idle EXCEPT !.pc = "sync", !.p = plan_reference,
                                                     !.st = "rejected"]]
    <3> DEFINE c == [Idle EXCEPT !.pc = "sync", !.p = plan_reference, !.st = "rejected"]
    <3>1. c \in CallType /\ Holds(c)
      <4>1. c \in CallType
        BY IdleOK DEF TypeOK, CallType, Pcs, PlanStates
      <4>2. Holds(c)
        BY IdleOK DEF TypeOK, CallType, Holds, PlanStates
      <4>3. QED BY <4>1, <4>2
    <3>2. call' = [call EXCEPT ![x] = c]
      BY <2>2
    <3> HIDE DEF c
    <3>3. QED BY <3>1, <3>2, Update
  <2>3. QED BY <2>1, <2>2 DEF ComposeBegin
<1>2. QED BY <1>1 DEF ComposeBegin, TypeOK, caseVars, histVars

LEMMA ReadOK ==
  ASSUME IInv, NEW x \in Calls, NEW p \in Plans, NEW v \in Contents \cup {NoContent},
         NEW pc \in {"attach", "cancel"}, pc = "cancel" => v \in Contents, Read(x, pc, p, v)
  PROVE  call' \in [Calls -> CallType] /\ CallOK'
<1> USE DEF IInv
<1> DEFINE c == [Idle EXCEPT !.pc = pc, !.p = p, !.a = strategy[p].approval,
                             !.v = v, !.st = strategy[p].state]
<1>1. c \in CallType /\ Holds(c)
  <2>1. c \in CallType
    BY IdleOK, Types DEF CallType, Pcs, PlanStates, MessageStates, Strategies
  <2>2. Holds(c)
    BY IdleOK, Types DEF CallType, Holds, PlanStates, MessageStates, Strategies
  <2>3. QED BY <2>1, <2>2
<1>2. call' = [call EXCEPT ![x] = c]
  BY DEF Read
<1> HIDE DEF c
<1>3. QED BY <1>1, <1>2, Update

LEMMA FindIInv ==
  ASSUME IInv, NEW x \in Calls, ComposeFind(x)
  PROVE  IInv'
<1> USE DEF IInv
<1>1. call' \in [Calls -> CallType] /\ CallOK'
  <2>1. CASE Return(x)
    BY <2>1, ReturnOK
  <2>2. ASSUME NEW v \in Contents, NEW p \in Plans,
               Read(x, "attach", p, NoContent) \/ Read(x, "cancel", p, v)
        PROVE  call' \in [Calls -> CallType] /\ CallOK'
    BY <2>2, ReadOK
  <2>3. ASSUME NEW v \in Contents,
               call' = [call EXCEPT ![x] = [Idle EXCEPT !.pc = "insert", !.v = v]]
        PROVE  call' \in [Calls -> CallType] /\ CallOK'
    <3> DEFINE c == [Idle EXCEPT !.pc = "insert", !.v = v]
    <3>1. c \in CallType /\ Holds(c)
      <4>1. c \in CallType
        BY IdleOK DEF CallType, Pcs
      <4>2. Holds(c)
        BY IdleOK DEF CallType, Holds
      <4>3. QED BY <4>1, <4>2
    <3>2. call' = [call EXCEPT ![x] = c]
      BY <2>3
    <3> HIDE DEF c
    <3>3. QED BY <3>1, <3>2, Update
  <2>4. QED BY <2>1, <2>2, <2>3 DEF ComposeFind
<1>2. QED BY <1>1 DEF ComposeFind, TypeOK, caseVars, histVars

LEMMA CancelIInv ==
  ASSUME IInv, NEW x \in Calls, ComposeCancel(x)
  PROVE  IInv'
<1> USE DEF IInv
<1>1. Holds([call[x] EXCEPT !.pc = "replace"])
  BY Types DEF ComposeCancel, At, CallOK, Holds, CallType
<1>2. call' \in [Calls -> CallType] /\ CallOK'
  BY <1>1, GotoOK DEF ComposeCancel, Pcs
<1>3. call[x].a \in Approvals \cup {None}
  BY Types DEF CallType
<1>4. QED BY <1>2, <1>3, CancelOK DEF ComposeCancel, TypeOK, caseVars, histVars

LEMMA ProposalOK ==
  ASSUME NEW v \in Contents
  PROVE  Proposal(v) \in Strategies
BY DEF Proposal, Strategies, PlanStates

LEMMA InsertIInv ==
  ASSUME IInv, NEW x \in Calls, ComposeInsert(x)
  PROVE  IInv'
<1> USE DEF IInv
<1>1. CASE Return(x) /\ UNCHANGED strategy
  BY <1>1, ReturnOK DEF ComposeInsert, TypeOK, caseVars, histVars
<1>2. ASSUME NEW p \in Plans, strategy' = [strategy EXCEPT ![p] = Proposal(call[x].v)],
             call' = [call EXCEPT ![x].pc = "request", ![x].p = p, ![x].st = "proposed"]
      PROVE  IInv'
  <2> DEFINE c == [call[x] EXCEPT !.pc = "request", !.p = p, !.st = "proposed"]
  <2>1. call[x].v \in Contents
    BY DEF ComposeInsert, At, CallOK, Holds
  <2>2. c \in CallType /\ Holds(c)
    <3>1. c \in CallType
      <4>1. call[x] \in CallType
        BY Types
      <4>2. QED BY <4>1, <2>1 DEF CallType, Pcs, PlanStates
    <3>2. Holds(c)
      BY <2>1, Types DEF CallType, Holds, PlanStates
    <3>3. QED BY <3>1, <3>2
  <2>3. call' = [call EXCEPT ![x] = c]
    BY <1>2, Types DEF CallType
  <2> HIDE DEF c
  <2>4. call' \in [Calls -> CallType] /\ CallOK'
    BY <2>2, <2>3, Update
  <2>5. strategy' \in [Plans -> Strategies]
    BY <1>2, <2>1, ProposalOK, Types
  <2>6. QED BY <2>4, <2>5 DEF ComposeInsert, TypeOK, caseVars, histVars, Strategies
<1>3. QED BY <1>1, <1>2 DEF ComposeInsert, UnusedPlans

LEMMA ReplaceIInv ==
  ASSUME IInv, NEW x \in Calls, ComposeReplace(x)
  PROVE  IInv'
<1> USE DEF IInv
<1>1. CASE Return(x) /\ UNCHANGED <<strategy, overtaken>>
  BY <1>1, ReturnOK DEF ComposeReplace, TypeOK, caseVars
<1>2. CASE /\ strategy' = [strategy EXCEPT ![call[x].p] = Proposal(call[x].v)]
           /\ call' = [call EXCEPT ![x].pc = "request", ![x].st = "proposed"]
           /\ overtaken' \in {overtaken, overtaken \cup {call[x].p}}
  <2> DEFINE c == [call[x] EXCEPT !.pc = "request", !.st = "proposed"]
  <2>1. call[x].v \in Contents /\ call[x].p \in Plans
    BY DEF ComposeReplace, At, CallOK, Holds
  <2>2. c \in CallType /\ Holds(c)
    <3>1. c \in CallType
      <4>1. call[x] \in CallType
        BY Types
      <4>2. QED BY <4>1, <2>1 DEF CallType, Pcs, PlanStates
    <3>2. Holds(c)
      BY <2>1, Types DEF CallType, Holds, PlanStates
    <3>3. QED BY <3>1, <3>2
  <2>3. call' = [call EXCEPT ![x] = c]
    BY <1>2, Types DEF CallType
  <2> HIDE DEF c
  <2>4. call' \in [Calls -> CallType] /\ CallOK'
    BY <2>2, <2>3, Update
  <2>5. strategy' \in [Plans -> Strategies]
    BY <1>2, <2>1, ProposalOK, Types
  <2>6. overtaken' \subseteq Plans
    BY <1>2, <2>1 DEF TypeOK
  <2>7. QED BY <2>4, <2>5, <2>6 DEF ComposeReplace, TypeOK, caseVars, Strategies
<1>3. QED BY <1>1, <1>2 DEF ComposeReplace

LEMMA SubjectsOK ==
  /\ \A p \in Plans, v \in Contents : PlanOf(p, v) \in Subjects
  /\ \A n \in Steps : MessageOf(n) \in Subjects
BY DEF Subjects

LEMMA RequestIInv ==
  ASSUME IInv, NEW x \in Calls, ComposeRequest(x)
  PROVE  IInv'
<1> USE DEF IInv
<1>1. PICK a \in Approvals : /\ RequestFor(a, PlanOf(call[x].p, call[x].v))
                             /\ call' = [call EXCEPT ![x].pc = "save", ![x].a = a]
  BY DEF ComposeRequest
<1> DEFINE c == [call[x] EXCEPT !.pc = "save", !.a = a]
<1>2. call[x].p \in Plans /\ call[x].v \in Contents
  BY DEF ComposeRequest, At, CallOK, Holds
<1>3. c \in CallType /\ Holds(c)
  <2>1. c \in CallType
    <3>1. call[x] \in CallType
      BY Types
    <3>2. QED BY <3>1, <1>2 DEF CallType, Pcs
  <2>2. Holds(c)
    BY <1>2, Types DEF CallType, Holds
  <2>3. QED BY <2>1, <2>2
<1>4. call' = [call EXCEPT ![x] = c]
  BY <1>1, Types DEF CallType
<1> HIDE DEF c
<1>5. call' \in [Calls -> CallType] /\ CallOK'
  BY <1>3, <1>4, Update
<1>6. PlanOf(call[x].p, call[x].v) \in Subjects
  BY <1>2, SubjectsOK
<1>7. QED BY <1>1, <1>5, <1>6, RequestsOK DEF ComposeRequest, TypeOK, caseVars, histVars

LEMMA SaveIInv ==
  ASSUME IInv, NEW x \in Calls, ComposeSave(x)
  PROVE  IInv'
<1> USE DEF IInv
<1> DEFINE c == [call[x] EXCEPT !.pc = "attach", !.v = NoContent]
<1>1. call[x].p \in Plans /\ call[x].a \in Approvals \cup {None}
  BY Types DEF ComposeSave, At, CallOK, Holds, CallType
<1>2. c \in CallType /\ Holds(c)
  <2>1. c \in CallType
    <3>1. call[x] \in CallType
      BY Types
    <3>2. QED BY <3>1 DEF CallType, Pcs
  <2>2. Holds(c)
    BY Types DEF CallType, Holds
  <2>3. QED BY <2>1, <2>2
<1>3. call' = [call EXCEPT ![x] = c]
  BY Types DEF ComposeSave, CallType
<1> HIDE DEF c
<1>4. call' \in [Calls -> CallType] /\ CallOK'
  BY <1>2, <1>3, Update
<1>5. strategy' \in [Plans -> Strategies]
  BY <1>1, Types DEF ComposeSave, Strategies
<1>6. overtaken' \subseteq Plans
  BY <1>1 DEF TypeOK, ComposeSave
<1>7. QED BY <1>4, <1>5, <1>6 DEF ComposeSave, TypeOK, caseVars, Strategies

LEMMA AttachOK ==
  ASSUME TypeOK, NEW p \in Plans \cup {None}, NEW a \in Approvals \cup {None}, Attach(p, a)
  PROVE  /\ state' \in States /\ queued' \in BOOLEAN
         /\ plan_reference' \in Plans \cup {None}
         /\ approval_reference' \in Approvals \cup {None}
BY DEF TypeOK, Attach

LEMMA AttachIInv ==
  ASSUME IInv, NEW x \in Calls, ComposeAttach(x)
  PROVE  IInv'
<1> USE DEF IInv
<1>1. call[x].p \in Plans \cup {None} /\ call[x].a \in Approvals \cup {None}
  BY Types DEF CallType
<1>2. \A pc \in {"sync", "state"} : Holds([call[x] EXCEPT !.pc = pc])
  BY Types DEF Holds, CallType
<1>3. call' \in [Calls -> CallType] /\ CallOK'
  <2>1. PICK pc \in {"sync", "state"} : Goto(x, pc)
    BY DEF ComposeAttach
  <2>2. pc \in Pcs
    BY DEF Pcs
  <2>3. QED BY <2>1, <2>2, <1>2, GotoOK
<1>4. QED BY <1>1, <1>3, AttachOK DEF ComposeAttach, TypeOK, histVars

(* A move of the case stays within the states, whatever the matrix says. *)
LEMMA MoveOK ==
  ASSUME TypeOK, NEW to \in States, MoveCase(to) \/ UNCHANGED caseVars
  PROVE  /\ state' \in States /\ queued' \in BOOLEAN
         /\ plan_reference' \in Plans \cup {None}
         /\ approval_reference' \in Approvals \cup {None}
BY DEF TypeOK, MoveCase, caseVars

LEMMA MoveAndReturnIInv ==
  ASSUME IInv, NEW x \in Calls, NEW pc \in Pcs, NEW to \in States, MoveAndReturn(x, pc, to)
  PROVE  IInv'
<1> USE DEF IInv
<1>1. call' \in [Calls -> CallType] /\ CallOK'
  BY ReturnOK DEF MoveAndReturn
<1>2. MoveCase(to) \/ UNCHANGED caseVars
  BY DEF MoveAndReturn
<1>3. QED BY <1>1, <1>2, MoveOK DEF MoveAndReturn, TypeOK, histVars

LEMMA MoveAndGoIInv ==
  ASSUME IInv, NEW x \in Calls, NEW pc \in Pcs, NEW to \in States,
         NEW next \in {"step", "to_approved"}, MoveAndGo(x, pc, to, next)
  PROVE  IInv'
<1> USE DEF IInv
<1>1. call' \in [Calls -> CallType] /\ CallOK'
  <2>1. CASE Goto(x, next)
    <3>1. Holds([call[x] EXCEPT !.pc = next])
      BY Types DEF Holds, CallType
    <3>2. next \in Pcs
      BY DEF Pcs
    <3>3. QED BY <2>1, <3>1, <3>2, GotoOK
  <2>2. CASE Return(x)
    BY <2>2, ReturnOK
  <2>3. QED BY <2>1, <2>2 DEF MoveAndGo
<1>2. MoveCase(to) \/ UNCHANGED caseVars
  BY DEF MoveAndGo
<1>3. QED BY <1>1, <1>2, MoveOK DEF MoveAndGo, TypeOK, histVars

LEMMA ComposeIInv ==
  ASSUME IInv, NEW x \in Calls, Compose(x)
  PROVE  IInv'
<1>1. CASE ComposeState(x)
  BY <1>1, MoveAndReturnIInv DEF ComposeState, States, Pcs
<1>2. QED
  BY <1>1, FindIInv, CancelIInv, InsertIInv, ReplaceIInv, RequestIInv, SaveIInv, AttachIInv
  DEF Compose

-----------------------------------------------------------------------------
(* Decisions on a plan, and what follows them. *)
LEMMA VerdictOK ==
  ASSUME NEW verdict \in DOMAIN PlanVerdict
  PROVE  /\ PlanVerdict[verdict] \in PlanStates
         /\ verdict \in {"approved", "rejected", "cancelled"}
BY DEF PlanVerdict, PlanStates

LEMMA DecidePlanIInv ==
  ASSUME IInv, NEW x \in Calls, NEW a \in Approvals, NEW verdict \in DOMAIN PlanVerdict,
         DecidePlan(x, a, verdict)
  PROVE  IInv'
<1> USE DEF IInv
<1> DEFINE c(p) == [Idle EXCEPT !.pc = "decided", !.p = p, !.a = a, !.st = PlanVerdict[verdict]]
<1>1. PICK p \in Plans : call' = [call EXCEPT ![x] = c(p)]
  BY DEF DecidePlan
<1>2. c(p) \in CallType
  BY IdleOK, VerdictOK DEF CallType, Pcs
<1>3. Holds(c(p))
  BY IdleOK, VerdictOK DEF CallType, Holds
<1> HIDE DEF c
<1>4. call' \in [Calls -> CallType] /\ CallOK'
  BY <1>1, <1>2, <1>3, Update
<1>5. status' \in [Approvals -> {"absent", "requested", "approved", "rejected",
                                 "expired", "cancelled"}]
  BY VerdictOK DEF DecidePlan, TypeOK
<1>6. QED BY <1>4, <1>5 DEF DecidePlan, TypeOK, caseVars, histVars

LEMMA SetPlanOK ==
  ASSUME TypeOK, NEW p \in Plans, NEW st \in PlanStates, SetPlan(p, st)
  PROVE  strategy' \in [Plans -> Strategies]
BY Types DEF SetPlan, Strategies, Live

LEMMA DecidedIInv ==
  ASSUME IInv, NEW x \in Calls, DecidedPlan(x)
  PROVE  IInv'
<1> USE DEF IInv
<1> DEFINE c == [call[x] EXCEPT !.pc = "sync", !.a = strategy[call[x].p].approval]
<1>1. call[x] \in CallType /\ call[x].p \in Plans /\ call[x].st \in PlanStates
  BY Types DEF DecidedPlan, At, CallOK, Holds
<1>2. c \in CallType
  BY <1>1, Types DEF CallType, Pcs, Strategies
<1>3. Holds(c)
  BY <1>1 DEF CallType, Holds
<1>4. call' = [call EXCEPT ![x] = c]
  BY Types DEF DecidedPlan, CallType
<1> HIDE DEF c
<1>5. call' \in [Calls -> CallType] /\ CallOK'
  BY <1>2, <1>3, <1>4, Update
<1>6. strategy' \in [Plans -> Strategies]
  BY <1>1, SetPlanOK DEF DecidedPlan
<1>7. overtaken' \subseteq Plans
  BY <1>1 DEF DecidedPlan, TypeOK
<1>8. QED BY <1>5, <1>6, <1>7 DEF DecidedPlan, TypeOK, caseVars, Strategies

LEMMA LastOK ==
  ASSUME TypeOK, CallOK, NEW x \in Calls,
         NEW pc \in {"idle", "to_awaiting", "to_approved", "to_planned", "close"}, Last(x, pc)
  PROVE  call' \in [Calls -> CallType] /\ CallOK'
<1> DEFINE c == [Idle EXCEPT !.pc = pc]
<1>1. c \in CallType
  BY IdleOK DEF CallType, Pcs
<1>2. Holds(c)
  BY IdleOK DEF CallType, Holds
<1>3. call' = [call EXCEPT ![x] = c]
  BY DEF Last
<1> HIDE DEF c
<1>4. QED BY <1>1, <1>2, <1>3, Update

LEMMA SyncIInv ==
  ASSUME IInv, NEW x \in Calls, Sync(x)
  PROVE  IInv'
<1> USE DEF IInv
<1>1. call' \in [Calls -> CallType] /\ CallOK'
  <2>1. CASE Return(x)
    BY <2>1, ReturnOK
  <2>2. CASE Goto(x, "sync_attach")
    BY <2>2, GotoOK DEF Pcs, Holds
  <2>3. CASE Last(x, "close") \/ Last(x, "to_planned") \/ Last(x, Walk)
    BY <2>3, LastOK DEF Walk
  <2>4. QED BY <2>1, <2>2, <2>3 DEF Sync
<1>2. QED BY <1>1 DEF Sync, TypeOK, caseVars, histVars

LEMMA SyncAttachIInv ==
  ASSUME IInv, NEW x \in Calls, SyncAttach(x)
  PROVE  IInv'
<1> USE DEF IInv
<1>1. call[x].p \in Plans \cup {None} /\ call[x].a \in Approvals \cup {None}
  BY Types DEF CallType
<1>2. call' \in [Calls -> CallType] /\ CallOK'
  BY LastOK DEF SyncAttach, Walk
<1>3. QED BY <1>1, <1>2, AttachOK DEF SyncAttach, TypeOK, histVars

LEMMA FollowIInv ==
  ASSUME IInv, NEW x \in Calls, Follow(x)
  PROVE  IInv'
<1>1. CASE ToAwaiting(x)
  BY <1>1, MoveAndGoIInv DEF ToAwaiting, States, Pcs
<1>2. CASE ToApproved(x) \/ ToPlanned(x)
  BY <1>2, MoveAndReturnIInv DEF ToApproved, ToPlanned, States, Pcs
<1>3. QED BY <1>1, <1>2, DecidedIInv, SyncIInv, SyncAttachIInv DEF Follow

-----------------------------------------------------------------------------
(* The close, and its withdrawals. *)
LEMMA GoWithdrawOK ==
  ASSUME TypeOK, CallOK, NEW x \in Calls, GoWithdraw(x)
  PROVE  call' \in [Calls -> CallType] /\ CallOK'
<1> DEFINE c == [Idle EXCEPT !.pc = "withdraw", !.p = plan_reference, !.a = approval_reference]
<1>1. c \in CallType
  BY IdleOK DEF TypeOK, CallType, Pcs
<1>2. Holds(c)
  BY IdleOK DEF CallType, Holds
<1>3. call' = [call EXCEPT ![x] = c]
  BY DEF GoWithdraw
<1> HIDE DEF c
<1>4. QED BY <1>1, <1>2, <1>3, Update

LEMMA CloseIInv ==
  ASSUME IInv, NEW x \in Calls, Close(x) \/ CloseRefused(x)
  PROVE  IInv'
<1> USE DEF IInv
<1>1. CASE Close(x)
  BY <1>1, GoWithdrawOK, MoveOK DEF Close, TypeOK, histVars, States
<1>2. CASE CloseRefused(x)
  BY <1>2, ReturnOK DEF CloseRefused, TypeOK, caseVars, histVars
<1>3. QED BY <1>1, <1>2

LEMMA RefuseOK ==
  ASSUME TypeOK, NEW n \in Steps, Refuse(n)
  PROVE  message' \in [Steps -> Messages]
BY Types DEF Refuse, Messages, MessageStates

LEMMA ListIInv ==
  ASSUME IInv, NEW x \in Calls, ListMessages(x)
  PROVE  IInv'
<1> USE DEF IInv
<1> DEFINE ms == {<<n, message[n].approval>> : n \in {m \in Steps : Pending(m)}}
           c == [call[x] EXCEPT !.pc = "refuse", !.msgs = ms]
<1>1. call[x] \in CallType
  BY Types
<1>2. ms \in SUBSET (Steps \X (Approvals \cup {None}))
  BY Types DEF Messages
<1>3. call' = [call EXCEPT ![x] = c]
  BY Types DEF ListMessages, CallType
<1> HIDE DEF ms
<1>4. c \in CallType
  BY <1>1, <1>2 DEF CallType, Pcs
<1>5. Holds(c)
  BY <1>1 DEF CallType, Holds
<1> HIDE DEF c
<1>6. call' \in [Calls -> CallType] /\ CallOK'
  BY <1>3, <1>4, <1>5, Update
<1>7. QED BY <1>6 DEF ListMessages, TypeOK, caseVars, histVars

LEMMA RefuseMessageIInv ==
  ASSUME IInv, NEW x \in Calls, RefuseMessage(x)
  PROVE  IInv'
<1> USE DEF IInv
<1>1. PICK m \in call[x].msgs : /\ CancelIfOpen(m[2]) /\ Refuse(m[1])
                                /\ call' = [call EXCEPT ![x].msgs = call[x].msgs \ {m}]
  BY DEF RefuseMessage
<1> DEFINE c == [call[x] EXCEPT !.msgs = call[x].msgs \ {m}]
<1>2. call[x] \in CallType
  BY Types
<1>3. call[x].msgs \in SUBSET (Steps \X (Approvals \cup {None}))
  BY <1>2 DEF CallType
<1>4. m[1] \in Steps /\ m[2] \in Approvals \cup {None}
  BY <1>3
<1>5. call' = [call EXCEPT ![x] = c]
  BY <1>1, Types DEF CallType
<1>6. c \in CallType
  BY <1>2 DEF CallType
<1>7. Holds(c)
  BY <1>2 DEF CallType, Holds, CallOK
<1> HIDE DEF c
<1>8. call' \in [Calls -> CallType] /\ CallOK'
  BY <1>5, <1>6, <1>7, Update
<1>9. message' \in [Steps -> Messages]
  BY <1>1, <1>4, RefuseOK
<1>10. QED
  BY <1>1, <1>4, <1>8, <1>9, CancelOK DEF RefuseMessage, TypeOK, caseVars, histVars, Messages

LEMMA WithdrawIInv ==
  ASSUME IInv, NEW x \in Calls, Withdraw(x)
  PROVE  IInv'
<1> USE DEF IInv
<1>1. CASE WithdrawApproval(x)
  <2>1. call' \in [Calls -> CallType] /\ CallOK'
    BY <1>1, Types, GotoOK DEF WithdrawApproval, Pcs, Holds, CallType
  <2>2. call[x].a \in Approvals \cup {None}
    BY Types DEF CallType
  <2>3. QED BY <1>1, <2>1, <2>2, CancelOK DEF WithdrawApproval, TypeOK, caseVars, histVars
<1>2. CASE ReadPlan(x)
  <2>1. call' \in [Calls -> CallType] /\ CallOK'
    <3>1. CASE Goto(x, "list")
      BY <3>1, Types, GotoOK DEF Pcs, Holds, CallType
    <3>2. CASE call[x].p # None /\ Goto(x, "withdraw_plan")
      <4>1. call[x].p \in Plans
        BY <3>2, Types DEF CallType
      <4>2. Holds([call[x] EXCEPT !.pc = "withdraw_plan"])
        BY <4>1, Types DEF Holds, CallType
      <4>3. QED BY <3>2, <4>2, GotoOK DEF Pcs
    <3>3. QED BY <1>2, <3>1, <3>2 DEF ReadPlan
  <2>2. QED BY <1>2, <2>1 DEF ReadPlan, TypeOK, caseVars, histVars
<1>3. CASE WithdrawPlan(x)
  <2>1. call[x].p \in Plans
    BY <1>3 DEF WithdrawPlan, At, CallOK, Holds
  <2>2. call' \in [Calls -> CallType] /\ CallOK'
    BY <1>3, Types, GotoOK DEF WithdrawPlan, Pcs, Holds, CallType
  <2>3. strategy' \in [Plans -> Strategies]
    BY <1>3, <2>1, SetPlanOK DEF WithdrawPlan, PlanStates
  <2>4. overtaken' \subseteq Plans
    BY <1>3, <2>1 DEF WithdrawPlan, TypeOK
  <2>5. QED BY <1>3, <2>2, <2>3, <2>4 DEF WithdrawPlan, TypeOK, caseVars, Strategies
<1>4. CASE ResolveItem(x)
  BY <1>4, ReturnOK DEF ResolveItem, TypeOK, histVars
<1>5. QED BY <1>1, <1>2, <1>3, <1>4, ListIInv, RefuseMessageIInv DEF Withdraw

-----------------------------------------------------------------------------
(* The runner. *)
LEMMA RunBeginIInv ==
  ASSUME IInv, NEW x \in Calls, RunBegin(x)
  PROVE  IInv'
<1> USE DEF IInv
<1> DEFINE c == [Idle EXCEPT !.pc = "plan", !.p = plan_reference,
                             !.a = approval_reference, !.st = state]
<1>1. c \in CallType
  BY IdleOK DEF TypeOK, CallType, Pcs
<1>2. Holds(c)
  BY IdleOK DEF RunBegin, TypeOK, CallType, Holds
<1>3. call' = [call EXCEPT ![x] = c]
  BY DEF RunBegin
<1> HIDE DEF c
<1>4. call' \in [Calls -> CallType] /\ CallOK'
  BY <1>1, <1>2, <1>3, Update
<1>5. QED BY <1>4 DEF RunBegin, TypeOK, caseVars, histVars

LEMMA RunPlanIInv ==
  ASSUME IInv, NEW x \in Calls, RunPlan(x)
  PROVE  IInv'
<1> USE DEF IInv
<1> DEFINE c == [call[x] EXCEPT !.pc = "approval", !.v = strategy[call[x].p].content]
<1>1. call[x] \in CallType /\ call[x].p \in Plans
  BY Types DEF RunPlan, At, CallOK, Holds
<1>2. c \in CallType
  BY <1>1, Types DEF CallType, Pcs, Strategies
<1>3. Holds(c)
  BY <1>1 DEF CallType, Holds
<1>4. call' = [call EXCEPT ![x] = c]
  BY Types DEF RunPlan, CallType
<1> HIDE DEF c
<1>5. call' \in [Calls -> CallType] /\ CallOK'
  BY <1>2, <1>3, <1>4, Update
<1>6. QED BY <1>5 DEF RunPlan, TypeOK, caseVars, histVars

LEMMA RunApprovalIInv ==
  ASSUME IInv, NEW x \in Calls, RunApproval(x)
  PROVE  IInv'
<1> USE DEF IInv
<1>1. call' \in [Calls -> CallType] /\ CallOK'
  <2>1. CASE Return(x)
    BY <2>1, ReturnOK
  <2>2. CASE call' = [call EXCEPT ![x].pc = Entry(x), ![x].n = 1]
    <3> DEFINE c == [call[x] EXCEPT !.pc = Entry(x), !.n = 1]
    <3>1. call[x] \in CallType
      BY Types
    <3>2. c \in CallType
      <4>1. Entry(x) \in Pcs /\ 1 \in Nat
        BY DEF Entry, Pcs
      <4>2. QED BY <3>1, <4>1 DEF CallType
    <3>3. Holds(c)
      BY <3>1 DEF CallType, Holds, Entry
    <3>4. call' = [call EXCEPT ![x] = c]
      BY <2>2, Types DEF CallType
    <3> HIDE DEF c
    <3>5. QED BY <3>2, <3>3, <3>4, Update
  <2>3. QED BY <2>1, <2>2 DEF RunApproval
<1>2. QED BY <1>1 DEF RunApproval, TypeOK, caseVars, histVars

LEMMA RunStepIInv ==
  ASSUME IInv, NEW x \in Calls, RunStep(x)
  PROVE  IInv'
<1> USE DEF IInv
<1>1. call[x] \in CallType /\ call[x].n \in Steps
  BY Types DEF RunStep
<1>2. call' \in [Calls -> CallType] /\ CallOK'
  <2>1. CASE call' = [call EXCEPT ![x].pc = "draft"]
    BY <2>1, <1>1, GotoOK DEF Goto, Pcs, Holds, CallType
  <2>2. CASE call' = [call EXCEPT ![x].n = call[x].n + 1]
    <3> DEFINE c == [call[x] EXCEPT !.n = call[x].n + 1]
    <3>1. c \in CallType
      BY <1>1, RecoveryAssumption DEF CallType
    <3>2. Holds(c)
      BY <1>1 DEF CallType, Holds, RunStep, At
    <3>3. call' = [call EXCEPT ![x] = c]
      BY <2>2, Types DEF CallType
    <3> HIDE DEF c
    <3>4. QED BY <3>1, <3>2, <3>3, Update
  <2>3. QED BY <2>1, <2>2 DEF RunStep
<1>3. ran' \subseteq [plan : Plans \cup {None}, content : Contents \cup {NoContent},
                      approval : Approvals \cup {None}]
  BY <1>1 DEF RunStep, TypeOK, CallType
<1>4. QED BY <1>2, <1>3 DEF RunStep, TypeOK, caseVars

LEMMA RunDraftIInv ==
  ASSUME IInv, NEW x \in Calls, RunDraft(x)
  PROVE  IInv'
<1> USE DEF IInv
<1>1. call[x] \in CallType /\ call[x].n \in Steps
  BY Types DEF RunDraft, At, CallOK, Holds
<1>2. call' \in [Calls -> CallType] /\ CallOK'
  BY <1>1, GotoOK DEF RunDraft, Pcs, Holds, CallType
<1>3. message' \in [Steps -> Messages]
  BY <1>1, Types DEF RunDraft, Messages, MessageStates
<1>4. QED BY <1>2, <1>3 DEF RunDraft, TypeOK, caseVars, histVars, Messages

LEMMA RunAskIInv ==
  ASSUME IInv, NEW x \in Calls, RunAsk(x)
  PROVE  IInv'
<1> USE DEF IInv
<1> DEFINE n == call[x].n
           c(a) == [call[x] EXCEPT !.pc = "pend", !.st = message[n].status, !.msgs = {<<n, a>>}]
<1>1. PICK a \in Approvals : /\ RequestFor(a, MessageOf(n))
                             /\ call' = [call EXCEPT ![x].pc = "pend",
                                                     ![x].st = message[n].status,
                                                     ![x].msgs = {<<n, a>>}]
  BY DEF RunAsk
<1>2. call[x] \in CallType /\ n \in Steps
  BY Types DEF RunAsk, At, CallOK, Holds
<1>3. c(a) \in CallType
  <2>1. {<<n, a>>} \in SUBSET (Steps \X (Approvals \cup {None}))
    BY <1>2
  <2>2. message[n].status \in MessageStates
    BY <1>2, Types DEF Messages
  <2>3. QED BY <1>2, <2>1, <2>2 DEF CallType, Pcs
<1>4. Holds(c(a))
  BY <1>2 DEF CallType, Holds
<1>5. call' = [call EXCEPT ![x] = c(a)]
  BY <1>1, Types DEF CallType
<1>6. MessageOf(n) \in Subjects
  BY <1>2, SubjectsOK
<1> HIDE DEF c
<1>7. call' \in [Calls -> CallType] /\ CallOK'
  BY <1>3, <1>4, <1>5, Update
<1>8. QED BY <1>1, <1>6, <1>7, RequestsOK DEF RunAsk, TypeOK, caseVars, histVars

LEMMA RunPendIInv ==
  ASSUME IInv, NEW x \in Calls, RunPend(x)
  PROVE  IInv'
<1> USE DEF IInv
<1> DEFINE n == call[x].n
<1>1. call[x] \in CallType /\ n \in Steps
  BY Types DEF RunPend, At, CallOK, Holds
<1>2. CASE Return(x) /\ UNCHANGED message
  BY <1>2, ReturnOK DEF RunPend, TypeOK, caseVars, histVars
<1>3. ASSUME NEW m \in call[x].msgs,
             message' = [message EXCEPT ![n] = [status |-> "pending_approval", approval |-> m[2]]],
             call' = [call EXCEPT ![x].pc = "step", ![x].n = n + 1, ![x].msgs = {}]
      PROVE  IInv'
  <2> DEFINE c == [call[x] EXCEPT !.pc = "step", !.n = n + 1, !.msgs = {}]
  <2>1. c \in CallType
    <3>1. n + 1 \in Nat
      BY <1>1 DEF CallType
    <3>2. {} \in SUBSET (Steps \X (Approvals \cup {None})) /\ "step" \in Pcs
      BY DEF Pcs
    <3>3. QED BY <1>1, <3>1, <3>2 DEF CallType
  <2>2. Holds(c)
    BY <1>1 DEF CallType, Holds
  <2>3. call' = [call EXCEPT ![x] = c]
    BY <1>3, Types DEF CallType
  <2> HIDE DEF c
  <2>4. call' \in [Calls -> CallType] /\ CallOK'
    BY <2>1, <2>2, <2>3, Update
  <2>5. m[2] \in Approvals \cup {None}
    BY <1>1 DEF CallType
  <2>6. message' \in [Steps -> Messages]
    BY <1>1, <1>3, <2>5, Types DEF Messages, MessageStates
  <2>7. QED BY <2>4, <2>6 DEF RunPend, TypeOK, caseVars, histVars, Messages
<1>4. QED BY <1>2, <1>3 DEF RunPend

LEMMA RunIInv ==
  ASSUME IInv, NEW x \in Calls, RunBegin(x) \/ Run(x)
  PROVE  IInv'
<1>1. CASE RunEnter(x)
  BY <1>1, MoveAndGoIInv DEF RunEnter, States, Pcs
<1>2. CASE RunEnd(x)
  <2> USE DEF IInv
  <2>1. call' \in [Calls -> CallType] /\ CallOK'
    BY <1>2, GoWithdrawOK, ReturnOK DEF RunEnd
  <2>2. MoveCase("engaged") \/ UNCHANGED caseVars
    BY <1>2 DEF RunEnd, Engage
  <2>3. QED BY <1>2, <2>1, <2>2, MoveOK DEF RunEnd, TypeOK, histVars, States
<1>3. QED
  BY <1>1, <1>2, RunBeginIInv, RunPlanIInv, RunApprovalIInv, RunStepIInv, RunDraftIInv,
     RunAskIInv, RunPendIInv
  DEF Run

-----------------------------------------------------------------------------
(* Decisions on messages, sends, and what touches no call. *)
LEMMA MessageIInv ==
  ASSUME IInv, \/ \E a \in Approvals, verdict \in DOMAIN PlanVerdict : DecideMessage(a, verdict)
               \/ \E n \in Steps : Send(n) \/ OperatorRequest(n)
  PROVE  IInv'
<1> USE DEF IInv
<1>1. ASSUME NEW a \in Approvals, NEW verdict \in DOMAIN PlanVerdict, DecideMessage(a, verdict)
      PROVE  IInv'
  <2>1. status' \in [Approvals -> {"absent", "requested", "approved", "rejected",
                                   "expired", "cancelled"}]
    BY <1>1, VerdictOK DEF DecideMessage, TypeOK
  <2>2. message' \in [Steps -> Messages]
    BY <1>1, Types, RefuseOK DEF DecideMessage, Messages, MessageStates
  <2>3. CallOK'
    BY <1>1 DEF DecideMessage, CallOK
  <2>4. QED BY <1>1, <2>1, <2>2, <2>3 DEF DecideMessage, TypeOK, caseVars, histVars, Messages
<1>2. ASSUME NEW n \in Steps, Send(n)
      PROVE  IInv'
  <2>1. message' \in [Steps -> Messages]
    BY <1>2, Types DEF Send, Messages, MessageStates
  <2>2. CallOK'
    BY <1>2 DEF Send, CallOK
  <2>3. QED BY <1>2, <2>1, <2>2 DEF Send, TypeOK, caseVars, histVars, Messages
<1>3. ASSUME NEW n \in Steps, OperatorRequest(n)
      PROVE  IInv'
  <2>1. PICK a \in Approvals :
          /\ RequestFor(a, MessageOf(n))
          /\ message' = [message EXCEPT ![n] = [status |-> "pending_approval", approval |-> a]]
    BY <1>3 DEF OperatorRequest
  <2>2. message' \in [Steps -> Messages]
    BY <2>1, Types DEF Messages, MessageStates
  <2>3. CallOK'
    BY <1>3 DEF OperatorRequest, CallOK
  <2>4. QED
    BY <1>3, <2>1, <2>2, <2>3, RequestsOK, SubjectsOK
    DEF OperatorRequest, TypeOK, caseVars, Messages
<1>4. QED BY <1>1, <1>2, <1>3

LEMMA OthersIInv ==
  ASSUME IInv, \/ \E a \in Approvals : ExpireApproval(a)
               \/ \E x \in Calls : Crash(x)
               \/ SyncEngagement \/ ConfirmRecovery
  PROVE  IInv'
<1> USE DEF IInv
<1>1. ASSUME NEW a \in Approvals, ExpireApproval(a)
      PROVE  IInv'
  BY <1>1 DEF ExpireApproval, TypeOK, CallOK, caseVars, histVars
<1>2. ASSUME NEW x \in Calls, Crash(x)
      PROVE  IInv'
  <2>1. crashes' \in 0..MaxCrashes
    BY <1>2, RecoveryAssumption DEF Crash, TypeOK
  <2>2. QED BY <1>2, <2>1, ReturnOK DEF Crash, TypeOK, caseVars
<1>3. CASE SyncEngagement \/ ConfirmRecovery
  <2>1. \E to \in States : MoveCase(to) \/ UNCHANGED caseVars
    BY <1>3 DEF SyncEngagement, ConfirmRecovery, Engage, States
  <2>2. CallOK' /\ UNCHANGED <<strategy, status, about, message, call, histVars>>
    BY <1>3 DEF SyncEngagement, ConfirmRecovery, CallOK
  <2>3. QED BY <2>1, <2>2, MoveOK DEF TypeOK, histVars
<1>4. QED BY <1>1, <1>2, <1>3

(* Every step of the model is one of those. *)
LEMMA NextIInv == IInv /\ [Next]_vars => IInv'
<1> SUFFICES ASSUME IInv, [Next]_vars PROVE IInv'
  OBVIOUS
<1>1. CASE UNCHANGED vars
  BY <1>1 DEF IInv, TypeOK, CallOK, vars, caseVars, histVars
<1>2. CASE Next
  BY <1>2, BeginIInv, ComposeIInv, FollowIInv, CloseIInv, WithdrawIInv, RunIInv,
     DecidePlanIInv, MessageIInv, OthersIInv
  DEF Next
<1>3. QED BY <1>1, <1>2

LEMMA IInvInvariant == Spec => []IInv
BY InitIInv, NextIInv, PTL DEF Spec

(* However many calls are in flight, what they write is well typed. *)
THEOREM TypeCorrect == Spec => []TypeOK
<1>1. IInv => TypeOK
  BY DEF IInv
<1>2. QED BY <1>1, IInvInvariant, PTL

-----------------------------------------------------------------------------
(***************************************************************************)
(* A message that was sent stays sent: it is refused only while pending,   *)
(* drafted only where there was none, and its approval asked for only from *)
(* a status that is not "sent".                                            *)
(***************************************************************************)
LEMMA SentIsFinal ==
  ASSUME IInv, [Next]_vars
  PROVE  \A n \in Steps : message[n].status = "sent" => message'[n].status = "sent"
<1> USE DEF IInv
<1> SUFFICES ASSUME NEW n \in Steps, message[n].status = "sent"
             PROVE  message'[n].status = "sent"
  OBVIOUS
<1>1. CASE UNCHANGED message
  BY <1>1
<1>2. ASSUME NEW k \in Steps, Refuse(k)
      PROVE  message'[n].status = "sent"
  BY <1>2, Types DEF Refuse, Pending, PENDING_MESSAGE_STATES, Messages
<1>3. ASSUME NEW x \in Calls, RunDraft(x) \/ RunPend(x)
      PROVE  message'[n].status = "sent"
  <2>1. call[x].n \in Steps
    BY <1>3 DEF RunDraft, RunPend, At, CallOK, Holds
  <2>2. QED BY <1>3, <2>1, Types DEF RunDraft, RunPend, Requestable, Messages
<1>4. ASSUME NEW x \in Calls, RefuseMessage(x)
      PROVE  message'[n].status = "sent"
  <2>1. call[x].msgs \in SUBSET (Steps \X (Approvals \cup {None}))
    BY Types DEF CallType
  <2>2. PICK m \in call[x].msgs : Refuse(m[1])
    BY <1>4 DEF RefuseMessage
  <2>3. m[1] \in Steps
    BY <2>1
  <2>4. QED BY <2>2, <2>3, <1>2
<1>5. ASSUME NEW a \in Approvals, NEW verdict \in DOMAIN PlanVerdict, DecideMessage(a, verdict)
      PROVE  message'[n].status = "sent"
  BY <1>2, <1>5, Types DEF DecideMessage, Messages
<1>6. ASSUME NEW k \in Steps, Send(k) \/ OperatorRequest(k)
      PROVE  message'[n].status = "sent"
  BY <1>6, Types DEF Send, OperatorRequest, Requestable, Messages
<1>7. QED
  BY <1>1, <1>3, <1>4, <1>5, <1>6
  DEF Next, vars, ComposeBegin, Compose, ComposeFind, ComposeCancel, ComposeInsert,
      ComposeReplace, ComposeRequest, ComposeSave, ComposeAttach, ComposeState, MoveAndReturn,
      Follow, DecidedPlan, Sync, SyncAttach, ToAwaiting, ToApproved, ToPlanned, MoveAndGo,
      Close, CloseRefused, Withdraw, WithdrawApproval, ReadPlan, WithdrawPlan, ListMessages,
      ResolveItem,
      RunBegin, Run, RunPlan, RunApproval, RunEnter, RunStep, RunAsk, RunEnd, Crash,
      DecidePlan, ExpireApproval, SyncEngagement, ConfirmRecovery

(* The matrix lets nothing out of "closed", and recovers an engaged case only. *)
LEMMA Matrix ==
  ASSUME TypeOK
  PROVE  /\ \A to \in States : MayMove(to) => state # "closed"
         /\ MayMove("recovered") => state = "engaged"
BY DEF TypeOK, States, ALLOWED_TRANSITIONS, MayMove

(* Where a step can take the case, and by what: a closed case stays closed. *)
Moved ==
  \/ state' = state
  \/ /\ state # "closed"
     /\ \/ state' \in {"planned", "awaiting_approval", "approved", "executing"}
        \/ state' = "closed" /\ \E x \in Calls : Close(x)
        \/ state' = "engaged" /\ ClientReached
        \/ state' = "recovered" /\ state = "engaged"

LEMMA Moves ==
  ASSUME IInv, [Next]_vars
  PROVE  Moved
<1> USE DEF IInv
<1>1. CASE state' = state
  BY <1>1 DEF Moved
<1>2. ASSUME NEW x \in Calls, ComposeAttach(x) \/ SyncAttach(x)
      PROVE  Moved
  BY <1>2 DEF ComposeAttach, SyncAttach, Attach, Moved
<1>3. ASSUME NEW x \in Calls, ComposeState(x) \/ ToAwaiting(x) \/ ToApproved(x) \/ ToPlanned(x)
                               \/ RunEnter(x)
      PROVE  Moved
  <2>1. \/ UNCHANGED caseVars
        \/ \E to \in {"planned", "awaiting_approval", "approved", "executing"} :
             MayMove(to) /\ MoveCase(to)
    BY <1>3 DEF ComposeState, ToAwaiting, ToApproved, ToPlanned, RunEnter, MoveAndReturn, MoveAndGo
  <2>2. QED BY <2>1, Matrix DEF MoveCase, caseVars, Moved, States
<1>4. ASSUME NEW x \in Calls, Close(x)
      PROVE  Moved
  BY <1>4, Matrix DEF Close, MoveCase, Moved, States
<1>5. CASE Engage
  BY <1>5 DEF Engage, MoveCase, caseVars, Moved
<1>6. CASE ConfirmRecovery
  BY <1>6, Matrix DEF ConfirmRecovery, MoveCase, Moved, States
<1>7. ASSUME NEW x \in Calls, ComposeBegin(x) \/ Compose(x) \/ Follow(x) \/ CloseRefused(x)
      PROVE  Moved
  BY <1>1, <1>2, <1>3, <1>7
  DEF ComposeBegin, Compose, ComposeFind, ComposeCancel, ComposeInsert, ComposeReplace,
      ComposeRequest, ComposeSave, Follow, DecidedPlan, Sync, CloseRefused, caseVars
<1>8. ASSUME NEW x \in Calls, Withdraw(x) \/ RunBegin(x) \/ Run(x) \/ Crash(x)
      PROVE  Moved
  BY <1>1, <1>3, <1>5, <1>8
  DEF Withdraw, WithdrawApproval, ReadPlan, WithdrawPlan, ListMessages, RefuseMessage,
      ResolveItem, RunBegin, Run, RunPlan, RunApproval, RunStep, RunDraft, RunAsk, RunPend,
      RunEnd, Crash, caseVars
<1>9. QED
  BY <1>1, <1>4, <1>5, <1>6, <1>7, <1>8
  DEF Next, vars, DecidePlan, ExpireApproval, DecideMessage, Send, OperatorRequest,
      SyncEngagement, caseVars

(***************************************************************************)
(* A case is engaged or recovered only if a message of it reached the      *)
(* client (recovery_lifecycle.sync_engagement), whoever else writes.       *)
(***************************************************************************)
THEOREM EngagedMeansContactHolds == Spec => []EngagedMeansContact
<1>1. Init => EngagedMeansContact
  BY DEF Init, EngagedMeansContact
<1>2. IInv /\ EngagedMeansContact /\ [Next]_vars => EngagedMeansContact'
  <2> SUFFICES ASSUME IInv, EngagedMeansContact, [Next]_vars, state' \in {"engaged", "recovered"}
               PROVE  \E n \in Steps : message'[n].status = "sent"
    BY DEF EngagedMeansContact
  <2>1. \E n \in Steps : message[n].status = "sent"
    BY Moves DEF Moved, EngagedMeansContact, ClientReached
  <2>2. QED BY <2>1, SentIsFinal
<1>3. QED BY <1>1, <1>2, IInvInvariant, PTL DEF Spec

-----------------------------------------------------------------------------
(***************************************************************************)
(* ClosedIsQuiet speaks of a system at rest, so it is not inductive: while *)
(* calls are in flight a closed case may have pending messages, as long as *)
(* a call is on its way to each of them.  It is a close that has not       *)
(* listed the messages, or has listed this one; a run about to read the    *)
(* case again, which will then withdraw; or the run that drafted it, which *)
(* asks for its approval and comes to read the case as long as nobody else *)
(* moves the draft.                                                        *)
(***************************************************************************)
Watches(x, n) ==
  \/ call[x].pc \in {"withdraw", "read_plan", "withdraw_plan", "list", "step"}
  \/ call[x].pc = "refuse" /\ \E m \in call[x].msgs : m[1] = n
  \/ /\ call[x].pc = "ask" \/ (call[x].pc = "pend" /\ call[x].st = "draft")
     /\ call[x].n = n /\ message[n].status = "draft"

QuietInv ==
  state = "closed" /\ crashes = 0
    => \A n \in Steps : Pending(n) => n \in asked_late \/ \E x \in Calls : Watches(x, n)

(* A message keeps its watcher as long as the call that moves, if it was the *)
(* one, goes on watching.                                                    *)
LEMMA OthersWatch ==
  ASSUME NEW n \in Steps, NEW y \in Calls,
         message'[n].status = message[n].status,
         \A z \in Calls \ {y} : call'[z] = call[z],
         \E x \in Calls : Watches(x, n),
         Watches(y, n) => Watches(y, n)'
  PROVE  \E x \in Calls : Watches(x, n)'
BY DEF Watches

(* The points of a call at which it may be watching a message. *)
Watching == {"withdraw", "read_plan", "withdraw_plan", "list", "refuse", "step", "ask", "pend"}

LEMMA Unconcerned ==
  ASSUME NEW n \in Steps, NEW y \in Calls, call[y].pc \notin Watching,
         UNCHANGED message, \A z \in Calls \ {y} : call'[z] = call[z],
         \E x \in Calls : Watches(x, n)
  PROVE  \E x \in Calls : Watches(x, n)'
<1>1. ~Watches(y, n)
  BY DEF Watches, Watching
<1>2. QED BY <1>1, OthersWatch

(* A step that a watcher, or nobody, takes on the way of a closed case. *)
LEMMA ComposeWatched ==
  ASSUME IInv, NEW n \in Steps, NEW y \in Calls, ComposeBegin(y) \/ Compose(y),
         \E x \in Calls : Watches(x, n)
  PROVE  \E x \in Calls : Watches(x, n)'
<1>1. call[y].pc \notin Watching /\ UNCHANGED message
  <2>1. CASE ComposeBegin(y)
    BY <2>1 DEF ComposeBegin, Idle, Watching
  <2>2. CASE Compose(y)
    BY <2>2
    DEF Compose, ComposeFind, ComposeCancel, ComposeInsert, ComposeReplace, ComposeRequest,
        ComposeSave, ComposeAttach, ComposeState, MoveAndReturn, At, Watching
  <2>3. QED BY <2>1, <2>2
<1>2. \A z \in Calls \ {y} : call'[z] = call[z]
  BY Types
  DEF IInv, ComposeBegin, Compose, ComposeFind, ComposeCancel, ComposeInsert, ComposeReplace,
      ComposeRequest, ComposeSave, ComposeAttach, ComposeState, MoveAndReturn, Return, Goto, Read
<1>3. QED BY <1>1, <1>2, Unconcerned

LEMMA FollowWatched ==
  ASSUME IInv, NEW n \in Steps, NEW y \in Calls,
         \/ Follow(y) \/ CloseRefused(y)
         \/ \E a \in Approvals, verdict \in DOMAIN PlanVerdict : DecidePlan(y, a, verdict),
         \E x \in Calls : Watches(x, n)
  PROVE  \E x \in Calls : Watches(x, n)'
<1>1. call[y].pc \notin Watching /\ UNCHANGED message
  <2>1. CASE Follow(y) \/ CloseRefused(y)
    BY <2>1
    DEF Follow, DecidedPlan, Sync, SyncAttach, ToAwaiting, ToApproved, ToPlanned, MoveAndGo,
        MoveAndReturn, CloseRefused, At, Watching
  <2>2. ASSUME NEW a \in Approvals, NEW verdict \in DOMAIN PlanVerdict, DecidePlan(y, a, verdict)
        PROVE  call[y].pc \notin Watching /\ UNCHANGED message
    <3>1. call[y] = Idle /\ UNCHANGED message
      BY <2>2 DEF DecidePlan
    <3>2. Idle.pc \notin Watching
      BY DEF Idle, Watching
    <3>3. QED BY <3>1, <3>2
  <2>3. QED BY <2>1, <2>2
<1>2. \A z \in Calls \ {y} : call'[z] = call[z]
  BY Types
  DEF IInv, Follow, DecidedPlan, Sync, SyncAttach, ToAwaiting, ToApproved, ToPlanned, MoveAndGo,
      MoveAndReturn, CloseRefused, DecidePlan, Return, Goto, Last
<1>3. QED BY <1>1, <1>2, Unconcerned

LEMMA WithdrawWatched ==
  ASSUME IInv, NEW n \in Steps, NEW y \in Calls, Withdraw(y), Pending(n), Pending(n)',
         \E x \in Calls : Watches(x, n)
  PROVE  \E x \in Calls : Watches(x, n)'
<1> USE DEF IInv
<1>1. CASE WithdrawApproval(y) \/ ReadPlan(y) \/ WithdrawPlan(y)
  <2>1. call'[y].pc \in {"read_plan", "withdraw_plan", "list"}
    BY <1>1, Types DEF WithdrawApproval, ReadPlan, WithdrawPlan, Goto, CallType
  <2>2. QED BY <2>1 DEF Watches
<1>2. CASE ListMessages(y)
  <2>1. /\ call'[y].pc = "refuse"
        /\ <<n, message[n].approval>> \in call'[y].msgs
    BY <1>2, Types DEF ListMessages, CallType
  <2>2. <<n, message[n].approval>>[1] = n
    OBVIOUS
  <2>3. QED BY <2>1, <2>2 DEF Watches
<1>3. CASE RefuseMessage(y)
  <2>1. PICK m \in call[y].msgs : /\ Refuse(m[1])
                                  /\ call' = [call EXCEPT ![y].msgs = call[y].msgs \ {m}]
    BY <1>3 DEF RefuseMessage
  <2>2. \A z \in Calls \ {y} : call'[z] = call[z]
    BY <2>1, Types
  <2>3. call[y].msgs \in SUBSET (Steps \X (Approvals \cup {None}))
    BY Types DEF CallType
  <2>4. m[1] # n
    BY <2>1, <2>3, Types DEF Refuse, Pending, Messages, PENDING_MESSAGE_STATES
  <2>5. message'[n].status = message[n].status
    BY <2>1, <2>3, <2>4, Types DEF Refuse, Messages
  <2>6. call[y].pc = "refuse" /\ call'[y].pc = "refuse" /\ call'[y].msgs = call[y].msgs \ {m}
    BY <1>3, <2>1, Types DEF RefuseMessage, At, CallType
  <2>7. Watches(y, n) => Watches(y, n)'
    BY <2>4, <2>6 DEF Watches
  <2>8. QED BY <2>2, <2>5, <2>7, OthersWatch
<1>4. CASE ResolveItem(y)
  <2>1. ~Watches(y, n)
    BY <1>4 DEF ResolveItem, At, Watches
  <2>2. (\A z \in Calls \ {y} : call'[z] = call[z]) /\ UNCHANGED message
    BY <1>4, Types DEF ResolveItem, Return
  <2>3. QED BY <2>1, <2>2, OthersWatch
<1>5. QED BY <1>1, <1>2, <1>3, <1>4 DEF Withdraw

(* The runner: a draft it makes it watches, and a case it finds closed it *)
(* withdraws from.                                                        *)
LEMMA RunWatched ==
  ASSUME IInv, NEW n \in Steps, NEW y \in Calls, RunBegin(y) \/ Run(y), state = "closed",
         Pending(n)', Pending(n) => \E x \in Calls : Watches(x, n)
  PROVE  \E x \in Calls : Watches(x, n)'
<1> USE DEF IInv
<1>1. CASE RunBegin(y) \/ RunPlan(y) \/ RunApproval(y) \/ RunEnter(y)
  <2>1. call[y].pc \notin Watching /\ UNCHANGED message
    BY <1>1 DEF RunBegin, RunPlan, RunApproval, RunEnter, MoveAndGo, At, Idle, Watching
  <2>2. \A z \in Calls \ {y} : call'[z] = call[z]
    BY <1>1, Types
    DEF RunBegin, RunPlan, RunApproval, RunEnter, MoveAndGo, Return, Goto
  <2>3. Pending(n)
    BY <2>1 DEF Pending
  <2>4. QED BY <2>1, <2>2, <2>3, Unconcerned
<1>2. CASE RunStep(y)
  BY <1>2 DEF RunStep, Ended, TERMINAL_STATES
<1>3. CASE RunDraft(y)
  <2>1. call[y].pc = "draft" /\ call'[y] = [call[y] EXCEPT !.pc = "ask"] /\ call[y].n \in Steps
    BY <1>3, Types DEF RunDraft, Goto, At, CallOK, Holds
  <2>2. \A z \in Calls \ {y} : call'[z] = call[z]
    BY <1>3, Types DEF RunDraft, Goto
  <2>3. CASE call[y].n = n /\ message[n].status = "none"
    <3>1. message'[n].status = "draft"
      BY <1>3, <2>3, Types DEF RunDraft, Messages
    <3>2. call'[y].pc = "ask" /\ call'[y].n = n
      BY <2>1, <2>3, Types DEF CallType
    <3>3. QED BY <3>1, <3>2 DEF Watches
  <2>4. CASE call[y].n # n \/ message[n].status # "none"
    <3>1. message'[n].status = message[n].status
      BY <1>3, <2>1, <2>4, Types DEF RunDraft, Messages
    <3>2. ~Watches(y, n)
      BY <2>1 DEF Watches
    <3>3. QED BY <2>2, <3>1, <3>2, OthersWatch DEF Pending
  <2>5. QED BY <2>3, <2>4
<1>4. CASE RunAsk(y)
  <2>1. call[y].pc = "ask" /\ UNCHANGED message
    BY <1>4 DEF RunAsk, At
  <2>2. PICK a \in Approvals :
          call' = [call EXCEPT ![y].pc = "pend", ![y].st = message[call[y].n].status,
                               ![y].msgs = {<<call[y].n, a>>}]
    BY <1>4 DEF RunAsk
  <2>3. \A z \in Calls \ {y} : call'[z] = call[z]
    BY <2>2, Types
  <2>4. /\ call'[y].pc = "pend" /\ call'[y].n = call[y].n
        /\ call'[y].st = message[call[y].n].status
    BY <2>2, Types DEF CallType
  <2>5. Watches(y, n) => Watches(y, n)'
    BY <2>1, <2>4 DEF Watches
  <2>6. QED BY <2>1, <2>3, <2>5, OthersWatch DEF Pending
<1>5. CASE RunPend(y)
  <2>1. call[y].pc = "pend"
    BY <1>5 DEF RunPend, At
  <2>2. CASE Return(y) /\ UNCHANGED message
                       /\ ~(/\ message[call[y].n].status = call[y].st
                            /\ call[y].st \in Requestable)
    <3>1. ~Watches(y, n)
      BY <2>1, <2>2 DEF Watches, Requestable
    <3>2. \A z \in Calls \ {y} : call'[z] = call[z]
      BY <2>2, Types DEF Return
    <3>3. QED BY <2>2, <3>1, <3>2, OthersWatch DEF Pending
  <2>3. CASE call' = [call EXCEPT ![y].pc = "step", ![y].n = call[y].n + 1, ![y].msgs = {}]
    <3>1. call'[y].pc = "step"
      BY <2>3, Types DEF CallType
    <3>2. QED BY <3>1 DEF Watches
  <2>4. QED BY <1>5, <2>2, <2>3 DEF RunPend
<1>6. CASE RunEnd(y)
  <2>1. GoWithdraw(y)
    BY <1>6 DEF RunEnd, Ended, TERMINAL_STATES
  <2>2. call'[y].pc = "withdraw"
    BY <2>1, Types DEF GoWithdraw, Idle
  <2>3. QED BY <2>2 DEF Watches
<1>7. QED BY <1>1, <1>2, <1>3, <1>4, <1>5, <1>6 DEF Run

(* A decision takes no draft from the call that watches it. *)
LEMMA MessageWatched ==
  ASSUME IInv, NEW n \in Steps, state = "closed", Pending(n)', n \notin asked_late',
         \/ \E a \in Approvals, verdict \in DOMAIN PlanVerdict : DecideMessage(a, verdict)
         \/ \E k \in Steps : Send(k) \/ OperatorRequest(k)
         \/ \E a \in Approvals : ExpireApproval(a)
         \/ SyncEngagement \/ ConfirmRecovery,
         Pending(n) => \E x \in Calls : Watches(x, n)
  PROVE  \E x \in Calls : Watches(x, n)'
<1> USE DEF IInv
<1>1. UNCHANGED call
  BY DEF DecideMessage, Send, OperatorRequest, ExpireApproval, SyncEngagement, ConfirmRecovery
<1>2. \/ message'[n].status = message[n].status
      \/ message[n].status = "pending_approval" /\ message'[n].status = "approved"
  <2>1. ASSUME NEW k \in Steps, Refuse(k)
        PROVE  message'[n].status = message[n].status
    BY <2>1, Types DEF Refuse, Pending, Messages, PENDING_MESSAGE_STATES
  <2>2. ASSUME NEW a \in Approvals, NEW verdict \in DOMAIN PlanVerdict, DecideMessage(a, verdict)
        PROVE  \/ message'[n].status = message[n].status
               \/ message[n].status = "pending_approval" /\ message'[n].status = "approved"
    BY <2>1, <2>2, Types DEF DecideMessage, Messages
  <2>3. ASSUME NEW k \in Steps, Send(k) \/ OperatorRequest(k)
        PROVE  message'[n].status = message[n].status
    BY <2>3, Types DEF Send, OperatorRequest, Pending, Messages, PENDING_MESSAGE_STATES,
                           Ended, TERMINAL_STATES
  <2>4. QED BY <2>2, <2>3 DEF ExpireApproval, SyncEngagement, ConfirmRecovery
<1>3. Pending(n)
  BY <1>2 DEF Pending, PENDING_MESSAGE_STATES
<1>4. QED BY <1>1, <1>2, <1>3 DEF Watches

(* What is asked again stays asked, and what crashed stays crashed. *)
LEMMA HistoryGrows ==
  ASSUME IInv, [Next]_vars
  PROVE  asked_late \subseteq asked_late' /\ (crashes' = 0 => crashes = 0)
<1>1. CASE UNCHANGED <<asked_late, crashes>>
  BY <1>1
<1>2. ASSUME NEW x \in Calls, Crash(x)
      PROVE  asked_late \subseteq asked_late' /\ (crashes' = 0 => crashes = 0)
  BY <1>2 DEF Crash, IInv, TypeOK
<1>3. ASSUME NEW n \in Steps, OperatorRequest(n)
      PROVE  asked_late \subseteq asked_late' /\ (crashes' = 0 => crashes = 0)
  BY <1>3 DEF OperatorRequest
<1>4. ASSUME NEW x \in Calls, ComposeBegin(x) \/ Compose(x) \/ Follow(x)
      PROVE  UNCHANGED <<asked_late, crashes>>
  BY <1>4
  DEF histVars, ComposeBegin, Compose, ComposeFind, ComposeCancel, ComposeInsert,
      ComposeReplace, ComposeRequest, ComposeSave, ComposeAttach, ComposeState, MoveAndReturn,
      Follow, DecidedPlan, Sync, SyncAttach, ToAwaiting, ToApproved, ToPlanned, MoveAndGo
<1>5. ASSUME NEW x \in Calls, Close(x) \/ CloseRefused(x) \/ Withdraw(x) \/ RunBegin(x) \/ Run(x)
      PROVE  UNCHANGED <<asked_late, crashes>>
  BY <1>5
  DEF histVars, Close, CloseRefused, Withdraw, WithdrawApproval, ReadPlan, WithdrawPlan,
      ListMessages,
      RefuseMessage, ResolveItem, RunBegin, Run, RunPlan, RunApproval, RunEnter, RunStep,
      RunDraft, RunAsk, RunPend, RunEnd, MoveAndGo
<1>6. QED
  BY <1>1, <1>2, <1>3, <1>4, <1>5
  DEF Next, vars, histVars, DecidePlan, ExpireApproval, DecideMessage, Send,
      SyncEngagement, ConfirmRecovery

LEMMA QuietStep == IInv /\ QuietInv /\ [Next]_vars => QuietInv'
<1> SUFFICES ASSUME IInv, QuietInv, [Next]_vars, state' = "closed", crashes' = 0,
                    NEW n \in Steps, Pending(n)', n \notin asked_late'
             PROVE  \E x \in Calls : Watches(x, n)'
  BY DEF QuietInv
<1>1. ASSUME NEW x \in Calls, Close(x)
      PROVE  Watches(x, n)'
  BY <1>1, Types DEF IInv, Close, GoWithdraw, Idle, Watches
<1>2. CASE state = "closed"
  <2>1. Pending(n) => \E x \in Calls : Watches(x, n)
    BY <1>2, HistoryGrows DEF QuietInv
  <2>2. CASE UNCHANGED vars
    BY <2>1, <2>2 DEF vars, Pending, Watches
  <2>3. ASSUME NEW x \in Calls, Crash(x)
        PROVE  FALSE
    BY <2>3 DEF Crash, IInv, TypeOK
  <2>4. ASSUME NEW x \in Calls, \/ ComposeBegin(x) \/ Compose(x) \/ Follow(x) \/ CloseRefused(x)
                                \/ \E a \in Approvals, verdict \in DOMAIN PlanVerdict :
                                     DecidePlan(x, a, verdict)
        PROVE  \E z \in Calls : Watches(z, n)'
    <3>1. UNCHANGED message
      BY <2>4
      DEF ComposeBegin, Compose, ComposeFind, ComposeCancel, ComposeInsert, ComposeReplace,
          ComposeRequest, ComposeSave, ComposeAttach, ComposeState, MoveAndReturn, Follow,
          DecidedPlan, Sync, SyncAttach, ToAwaiting, ToApproved, ToPlanned, MoveAndGo,
          CloseRefused, DecidePlan
    <3>2. \E z \in Calls : Watches(z, n)
      BY <2>1, <3>1 DEF Pending
    <3>3. QED BY <2>4, <3>2, ComposeWatched, FollowWatched
  <2>5. ASSUME NEW x \in Calls, Withdraw(x)
        PROVE  \E z \in Calls : Watches(z, n)'
    <3>1. Pending(n)
      <4>1. ASSUME NEW k \in Steps, Refuse(k)
            PROVE  Pending(n)
        BY <4>1, Types DEF Refuse, IInv, Pending, Messages, PENDING_MESSAGE_STATES
      <4>2. CASE RefuseMessage(x)
        <5>1. call[x].msgs \in SUBSET (Steps \X (Approvals \cup {None}))
          BY Types DEF IInv, CallType
        <5>2. QED BY <4>1, <4>2, <5>1 DEF RefuseMessage
      <4>3. CASE UNCHANGED message
        BY <4>3 DEF Pending
      <4>4. QED
        BY <2>5, <4>2, <4>3
        DEF Withdraw, WithdrawApproval, ReadPlan, WithdrawPlan, ListMessages, ResolveItem
    <3>2. QED BY <2>1, <2>5, <3>1, WithdrawWatched
  <2>6. ASSUME NEW x \in Calls, RunBegin(x) \/ Run(x)
        PROVE  \E z \in Calls : Watches(z, n)'
    BY <1>2, <2>1, <2>6, RunWatched
  <2>7. QED
    BY <1>1, <1>2, <2>1, <2>2, <2>3, <2>4, <2>5, <2>6, MessageWatched DEF Next
<1>3. QED BY <1>1, <1>2, Moves DEF Moved

(***************************************************************************)
(* Closing a case stops its outreach, however many composers, decisions,   *)
(* runs and closes were in flight (recovery_lifecycle.withdraw_pending_    *)
(* work, and the re-read before every step in recovery_runner.run_case).   *)
(***************************************************************************)
THEOREM ClosedIsQuietHolds == Spec => []ClosedIsQuiet
<1>1. Init => QuietInv
  BY DEF Init, QuietInv
<1>2. QuietInv => ClosedIsQuiet
  BY DEF QuietInv, ClosedIsQuiet, AtRest, Watches, Idle
<1>3. QED BY <1>1, <1>2, QuietStep, IInvInvariant, PTL DEF Spec

-----------------------------------------------------------------------------
(***************************************************************************)
(* What is run was approved, unless a write crossed another, and an open   *)
(* case at rest has one question at most.  Both speak of what a call ends  *)
(* up with, so the invariant says what is known at every point on the way. *)
(* An approval that was raised is about one plan and content for good, and *)
(* once decided it is never open again.  A plan that no stale write ever   *)
(* hit carries the approval that asks about its present content, and what  *)
(* the case, or a call, points at it with is that approval or a dead one.  *)
(***************************************************************************)
Raised(a)   == a \in Approvals /\ status[a] # "absent"
Standing(a) == Requested(a) \/ Granted(a)

Refers(p, a) ==
  a # None /\ p # None
    => Raised(a) /\ (p \notin overtaken /\ Standing(a) => strategy[p].approval = a)

(* A plan's document: it is the active one only while proposed or approved, *)
(* and unless overtaken its approval asks about what it contains.           *)
PlanOK(p) ==
  /\ strategy[p].approval # None => Raised(strategy[p].approval)
  /\ strategy[p].live => strategy[p].state \in {"proposed", "approved"}
  /\ p \notin overtaken =>
       /\ strategy[p].approval # None
            => about[strategy[p].approval] = PlanOf(p, strategy[p].content)
       /\ strategy[p].state = "none" => strategy[p].approval = None
       /\ strategy[p].state = "approved" => strategy[p].approval # None

Verified(c) == c.p \notin overtaken => about[c.a] = PlanOf(c.p, c.v)

(* What a call knows of the approval it has in hand. *)
Knows(c) ==
  /\ c.pc \in {"attach", "sync", "sync_attach", "plan"} => Refers(c.p, c.a)
  /\ c.pc \in {"attach", "sync_attach"} => c.p \in overtaken \/ Raised(c.a)
  /\ c.pc = "save" => Raised(c.a) /\ about[c.a] = PlanOf(c.p, c.v)
  /\ c.pc \in {"cancel", "replace"} => c.st = "proposed" /\ (c.a # None => Raised(c.a))
  /\ c.pc = "replace" => ~Requested(c.a)
  /\ c.pc = "decided" => Raised(c.a) /\ ~Requested(c.a)
  /\ c.pc = "approval" /\ c.a # None => Raised(c.a) /\ (Standing(c.a) => Verified(c))
  /\ c.pc \in {"enter", "step", "draft", "ask", "pend"} => Granted(c.a) /\ Verified(c)
  /\ c.pc \in {"withdraw", "read_plan", "withdraw_plan"} => Ended

AllKnow == \A x \in Calls, c \in CallType : c = call[x] => Knows(c)

OneLive == \A p, q \in Plans : Live(p) /\ Live(q) => p = q

(* An open question about a plan is that of the live plan, or is about to be. *)
Asked(a) == Requested(a) /\ about[a][1] = "plan"
Held(a)  == \/ \E p \in Plans : Live(p) /\ strategy[p].approval = a
            \/ \E x \in Calls : At(x, "save") /\ call[x].a = a
QuestionsHeld ==
  crashes = 0 /\ overtaken = {} /\ ~Ended => \A a \in Approvals : Asked(a) => Held(a)

PlanInv ==
  /\ \A p \in Plans : PlanOK(p)
  /\ OneLive
  /\ Refers(plan_reference, approval_reference)
  /\ approval_reference # None => Raised(approval_reference)
  /\ AllKnow
  /\ UnapprovedRunWasOvertaken
  /\ QuestionsHeld

LEMMA NoneIsNoId == None \notin Plans /\ None \notin Approvals
BY RecoveryAssumption DEF None, Plans, Approvals

(***************************************************************************)
(* The approvals: a step raises one, closes an open one, or leaves them.   *)
(***************************************************************************)
Raises(a, s) ==
  /\ a \in Unused
  /\ status' = [status EXCEPT ![a] = "requested"] /\ about' = [about EXCEPT ![a] = s]
Closes(a) ==
  /\ Requested(a) /\ UNCHANGED about
  /\ \E v \in {"approved", "rejected", "expired", "cancelled"} :
       status' = [status EXCEPT ![a] = v]
ApprovalsMove ==
  \/ UNCHANGED <<status, about>>
  \/ \E a \in Approvals : Closes(a)
  \/ \E a \in Approvals, s \in Subjects : Raises(a, s)

LEMMA ApprovalsMoves ==
  ASSUME IInv, [Next]_vars
  PROVE  ApprovalsMove
<1> USE DEF IInv
<1>1. ASSUME NEW a \in Approvals \cup {None}, CancelIfOpen(a)
      PROVE  ApprovalsMove
  BY <1>1 DEF CancelIfOpen, ApprovalsMove, Closes, Requested
<1>2. ASSUME NEW a \in Approvals, NEW s \in Subjects, RequestFor(a, s)
      PROVE  ApprovalsMove
  BY <1>2 DEF RequestFor, ApprovalsMove, Raises
<1>3. ASSUME NEW x \in Calls, ComposeBegin(x) \/ Compose(x)
      PROVE  ApprovalsMove
  <2>1. CASE ComposeCancel(x)
    <3>1. call[x].a \in Approvals \cup {None}
      BY Types DEF CallType
    <3>2. QED BY <1>1, <2>1, <3>1 DEF ComposeCancel
  <2>2. CASE ComposeRequest(x)
    <3>1. PlanOf(call[x].p, call[x].v) \in Subjects
      BY <2>2 DEF ComposeRequest, At, CallOK, Holds, Subjects
    <3>2. QED BY <1>2, <2>2, <3>1 DEF ComposeRequest
  <2>3. QED
    BY <1>3, <2>1, <2>2
    DEF ApprovalsMove, ComposeBegin, Compose, ComposeFind, ComposeInsert, ComposeReplace,
        ComposeSave, ComposeAttach, ComposeState, MoveAndReturn
<1>4. ASSUME NEW x \in Calls, Follow(x) \/ Close(x) \/ CloseRefused(x) \/ RunBegin(x) \/ Crash(x)
      PROVE  ApprovalsMove
  BY <1>4
  DEF ApprovalsMove, Follow, DecidedPlan, Sync, SyncAttach, ToAwaiting, ToApproved, ToPlanned,
      MoveAndGo, MoveAndReturn, Close, CloseRefused, RunBegin, Crash
<1>5. ASSUME NEW x \in Calls, Withdraw(x)
      PROVE  ApprovalsMove
  <2>1. CASE WithdrawApproval(x)
    <3>1. call[x].a \in Approvals \cup {None}
      BY Types DEF CallType
    <3>2. QED BY <1>1, <2>1, <3>1 DEF WithdrawApproval
  <2>2. CASE RefuseMessage(x)
    <3>1. call[x].msgs \in SUBSET (Steps \X (Approvals \cup {None}))
      BY Types DEF CallType
    <3>2. PICK m \in call[x].msgs : CancelIfOpen(m[2])
      BY <2>2 DEF RefuseMessage
    <3>3. m[2] \in Approvals \cup {None}
      BY <3>1
    <3>4. QED BY <1>1, <3>2, <3>3
  <2>3. QED
    BY <1>5, <2>1, <2>2
    DEF ApprovalsMove, Withdraw, ReadPlan, WithdrawPlan, ListMessages, ResolveItem
<1>6. ASSUME NEW x \in Calls, Run(x)
      PROVE  ApprovalsMove
  <2>1. CASE RunAsk(x)
    <3>1. MessageOf(call[x].n) \in Subjects
      BY <2>1 DEF RunAsk, At, CallOK, Holds, Subjects
    <3>2. QED BY <1>2, <2>1, <3>1 DEF RunAsk
  <2>2. QED
    BY <1>6, <2>1
    DEF ApprovalsMove, Run, RunPlan, RunApproval, RunEnter, MoveAndGo, RunStep, RunDraft,
        RunPend, RunEnd
<1>7. ASSUME NEW a \in Approvals, NEW verdict \in DOMAIN PlanVerdict, NEW x \in Calls,
             DecidePlan(x, a, verdict)
      PROVE  ApprovalsMove
  <2>1. verdict \in {"approved", "rejected", "cancelled"}
    BY DEF PlanVerdict
  <2>2. Closes(a)
    BY <1>7, <2>1 DEF DecidePlan, Closes
  <2>3. QED BY <2>2 DEF ApprovalsMove
<1>8. ASSUME NEW a \in Approvals, ExpireApproval(a)
      PROVE  ApprovalsMove
  BY <1>8 DEF ExpireApproval, ApprovalsMove, Closes
<1>9. ASSUME NEW n \in Steps, Send(n) \/ OperatorRequest(n)
      PROVE  ApprovalsMove
  BY <1>2, <1>9 DEF Send, OperatorRequest, ApprovalsMove, Subjects
<1>10. ASSUME NEW a \in Approvals, NEW verdict \in DOMAIN PlanVerdict, DecideMessage(a, verdict)
       PROVE  ApprovalsMove
  <2>1. verdict \in {"approved", "rejected", "cancelled"}
    BY DEF PlanVerdict
  <2>2. Closes(a)
    BY <1>10, <2>1 DEF DecideMessage, Closes
  <2>3. QED BY <2>2 DEF ApprovalsMove
<1>11. CASE SyncEngagement \/ ConfirmRecovery \/ UNCHANGED vars
  BY <1>11 DEF SyncEngagement, ConfirmRecovery, vars, ApprovalsMove
<1>12. QED
  BY <1>3, <1>4, <1>5, <1>6, <1>7, <1>8, <1>9, <1>10, <1>11 DEF Next

(* Time goes one way: what was raised is about the same thing for good, what *)
(* was closed is not opened, and an ended case stays ended.                  *)
Onward(a) ==
  /\ about'[a] = about[a] /\ status'[a] # "absent"
  /\ status'[a] = "requested" => status[a] = "requested"
  /\ status'[a] = "approved" => status[a] \in {"requested", "approved"}
  /\ status[a] = "approved" => status'[a] = "approved"

LEMMA ApprovalsOnward ==
  ASSUME IInv, [Next]_vars
  PROVE  \A a : Raised(a) => Onward(a)
<1> SUFFICES ASSUME NEW a, Raised(a) PROVE Onward(a)
  OBVIOUS
<1>1. /\ status \in [Approvals -> {"absent", "requested", "approved", "rejected",
                                    "expired", "cancelled"}]
      /\ about \in [Approvals -> Subjects]
  BY DEF IInv, TypeOK
<1>2. CASE UNCHANGED <<status, about>>
  BY <1>2 DEF Onward, Raised
<1>3. ASSUME NEW b \in Approvals, Closes(b)
      PROVE  Onward(a)
  <2>1. PICK v \in {"approved", "rejected", "expired", "cancelled"} :
          status' = [status EXCEPT ![b] = v]
    BY <1>3 DEF Closes
  <2>2. status'[a] = IF a = b THEN v ELSE status[a]
    BY <1>1, <2>1 DEF Raised
  <2>3. status[b] = "requested" /\ about' = about
    BY <1>3 DEF Closes, Requested
  <2>4. QED BY <2>2, <2>3 DEF Onward, Raised
<1>4. ASSUME NEW b \in Approvals, NEW s \in Subjects, Raises(b, s)
      PROVE  Onward(a)
  <2>1. a # b
    BY <1>4 DEF Raises, Unused, Raised
  <2>2. status'[a] = status[a] /\ about'[a] = about[a]
    BY <1>1, <1>4, <2>1 DEF Raises, Raised
  <2>3. QED BY <2>2 DEF Onward, Raised
<1>5. QED BY <1>2, <1>3, <1>4, ApprovalsMoves DEF ApprovalsMove

(* The matrix lets an ended case nowhere but to "closed", or "detected". *)
LEMMA EndedStays ==
  ASSUME IInv, [Next]_vars, Ended
  PROVE  Ended'
<1>1. state \in {"recovered", "closed", "failed"}
  BY DEF Ended, TERMINAL_STATES
<1>2. \A to \in {"planned", "awaiting_approval", "approved", "executing"} : ~MayMove(to)
  BY <1>1 DEF ALLOWED_TRANSITIONS, MayMove
<1>3. ASSUME NEW x \in Calls, ComposeState(x) \/ ToAwaiting(x) \/ ToApproved(x) \/ ToPlanned(x)
                               \/ RunEnter(x)
      PROVE  state' = state
  BY <1>2, <1>3
  DEF ComposeState, ToAwaiting, ToApproved, ToPlanned, RunEnter, MoveAndReturn, MoveAndGo,
      caseVars
<1>4. ASSUME NEW x \in Calls, ComposeBegin(x) \/ Compose(x) \/ Follow(x) \/ CloseRefused(x)
      PROVE  state' = state
  BY <1>3, <1>4
  DEF ComposeBegin, Compose, ComposeFind, ComposeCancel, ComposeInsert, ComposeReplace,
      ComposeRequest, ComposeSave, ComposeAttach, Attach, Follow, DecidedPlan, Sync, SyncAttach,
      CloseRefused, caseVars
<1>5. ASSUME NEW x \in Calls, Withdraw(x) \/ RunBegin(x) \/ Run(x) \/ Crash(x)
      PROVE  state' = state
  BY <1>1, <1>3, <1>5
  DEF Withdraw, WithdrawApproval, ReadPlan, WithdrawPlan, ListMessages, RefuseMessage,
      ResolveItem, RunBegin, Run, RunPlan, RunApproval, RunStep, RunDraft, RunAsk, RunPend,
      RunEnd, Engage, Crash, caseVars
<1>6. ASSUME NEW x \in Calls, Close(x)
      PROVE  FALSE
  BY <1>6 DEF Close
<1>7. CASE ConfirmRecovery
  BY <1>7 DEF ConfirmRecovery, MoveCase, Ended, TERMINAL_STATES
<1>8. CASE state' = state
  BY <1>8 DEF Ended
<1>9. QED
  BY <1>1, <1>4, <1>5, <1>6, <1>7, <1>8
  DEF Next, vars, DecidePlan, ExpireApproval, DecideMessage, Send, OperatorRequest,
      SyncEngagement, Engage, caseVars

-----------------------------------------------------------------------------
(***************************************************************************)
(* The plans: a step proposes one, saves the approval that asks about one, *)
(* or sets one's state; and unless that overtook something, it is known    *)
(* what the plan was.                                                      *)
(***************************************************************************)
Proposes(p, v) ==
  /\ strategy' = [strategy EXCEPT ![p] = Proposal(v)]
  /\ \A q \in Plans \ {p} : ~Live(q)
  /\ \/ p \in overtaken'
     \/ strategy[p].approval = None \/ ~Standing(strategy[p].approval)

Saves(p, a) ==
  /\ Raised(a)
  /\ strategy' = [strategy EXCEPT ![p].approval = a]
  /\ \/ p \in overtaken'
     \/ /\ strategy[p].state = "proposed" /\ strategy[p].live /\ strategy[p].approval = None
        /\ about[a] = PlanOf(p, strategy[p].content)

Sets(p, st) ==
  /\ SetPlan(p, st)
  /\ \/ p \in overtaken'
     \/ Ended /\ st # "approved"
     \/ strategy[p].approval # None /\ ~Requested(strategy[p].approval)

PlansMove ==
  /\ overtaken \subseteq overtaken'
  /\ \/ UNCHANGED strategy
     \/ \E p \in Plans : \/ \E v \in Contents : Proposes(p, v)
                         \/ \E a \in Approvals : Saves(p, a)
                         \/ \E st \in PlanStates : Sets(p, st)

LEMMA ComposePlans ==
  ASSUME IInv, PlanInv, NEW x \in Calls, Compose(x)
  PROVE  PlansMove
<1> USE DEF IInv
<1>1. PICK c \in CallType : c = call[x]
  BY Types
<1>2. Knows(c)
  BY <1>1 DEF PlanInv, AllKnow
<1>3. CASE ComposeInsert(x)
  <2>1. CASE UNCHANGED strategy
    BY <1>3, <2>1 DEF ComposeInsert, PlansMove, histVars
  <2>2. CASE strategy' # strategy
    <3>1. PICK p \in UnusedPlans : /\ \A q \in Plans : ~Live(q)
                                   /\ strategy' = [strategy EXCEPT ![p] = Proposal(call[x].v)]
      BY <1>3, <2>2 DEF ComposeInsert
    <3>2. call[x].v \in Contents /\ p \in Plans /\ strategy[p].state = "none"
      BY <1>3, <3>1 DEF ComposeInsert, At, CallOK, Holds, UnusedPlans
    <3>3. overtaken' = overtaken
      BY <1>3 DEF ComposeInsert, histVars
    <3>4. p \in overtaken' \/ strategy[p].approval = None
      BY <3>2, <3>3 DEF PlanInv, PlanOK
    <3>5. Proposes(p, call[x].v)
      BY <3>1, <3>4 DEF Proposes
    <3>6. QED BY <3>2, <3>3, <3>5 DEF PlansMove
  <2>3. QED BY <2>1, <2>2
<1>4. CASE ComposeReplace(x)
  <2>1. CASE UNCHANGED <<strategy, overtaken>>
    BY <2>1 DEF PlansMove
  <2>2. CASE ~UNCHANGED <<strategy, overtaken>>
    <3>1. /\ \A q \in Plans \ {c.p} : ~Live(q)
          /\ strategy' = [strategy EXCEPT ![c.p] = Proposal(c.v)]
      BY <1>1, <1>4, <2>2 DEF ComposeReplace
    <3>2. /\ overtaken \subseteq overtaken'
          /\ c.p \in overtaken' \/ (/\ strategy[c.p].approval = c.a
                                    /\ ~(c.st = "proposed" /\ Granted(c.a)))
      BY <1>1, <1>4, <2>2 DEF ComposeReplace
    <3>3. c.p \in Plans /\ c.v \in Contents /\ c.pc = "replace"
      BY <1>1, <1>4 DEF ComposeReplace, At, CallOK, Holds
    <3>4. c.st = "proposed" /\ ~Requested(c.a)
      BY <1>2, <3>3 DEF Knows
    <3>5. Proposes(c.p, c.v)
      BY <3>1, <3>2, <3>4 DEF Proposes, Standing
    <3>6. QED BY <3>2, <3>3, <3>5 DEF PlansMove
  <2>3. QED BY <2>1, <2>2
<1>5. CASE ComposeSave(x)
  <2>1. /\ strategy' = [strategy EXCEPT ![c.p].approval = c.a]
        /\ overtaken \subseteq overtaken'
        /\ c.p \in overtaken' \/ strategy[c.p] = Proposal(c.v)
    BY <1>1, <1>5 DEF ComposeSave
  <2>2. c.p \in Plans /\ c.pc = "save"
    BY <1>1, <1>5 DEF ComposeSave, At, CallOK, Holds
  <2>3. Raised(c.a) /\ about[c.a] = PlanOf(c.p, c.v)
    BY <1>2, <2>2 DEF Knows
  <2>4. Saves(c.p, c.a)
    BY <2>1, <2>3 DEF Saves, Proposal
  <2>5. QED BY <2>1, <2>2, <2>3, <2>4 DEF PlansMove, Raised
<1>6. QED
  BY <1>3, <1>4, <1>5
  DEF Compose, PlansMove, ComposeFind, ComposeCancel, ComposeRequest, ComposeAttach,
      ComposeState, MoveAndReturn, histVars

LEMMA PlansMoves ==
  ASSUME IInv, PlanInv, [Next]_vars
  PROVE  PlansMove
<1> USE DEF IInv
<1>1. ASSUME NEW x \in Calls, DecidedPlan(x)
      PROVE  PlansMove
  <2>1. PICK c \in CallType : c = call[x]
    BY Types
  <2>2. c.pc = "decided" /\ c.p \in Plans /\ c.st \in PlanStates
    BY <1>1, <2>1 DEF DecidedPlan, At, CallOK, Holds
  <2>3. Raised(c.a) /\ ~Requested(c.a)
    BY <2>1, <2>2 DEF PlanInv, AllKnow, Knows
  <2>4. /\ SetPlan(c.p, c.st) /\ overtaken \subseteq overtaken'
        /\ c.p \in overtaken' \/ strategy[c.p].approval = c.a
    BY <1>1, <2>1 DEF DecidedPlan
  <2>5. Sets(c.p, c.st)
    BY <2>3, <2>4, NoneIsNoId DEF Sets, Raised
  <2>6. QED BY <2>2, <2>4, <2>5 DEF PlansMove
<1>2. ASSUME NEW x \in Calls, WithdrawPlan(x)
      PROVE  PlansMove
  <2>1. PICK c \in CallType : c = call[x]
    BY Types
  <2>2. c.pc = "withdraw_plan" /\ c.p \in Plans
    BY <1>2, <2>1 DEF WithdrawPlan, At, CallOK, Holds
  <2>3. Ended
    BY <2>1, <2>2 DEF PlanInv, AllKnow, Knows
  <2>4. SetPlan(c.p, "withdrawn") /\ overtaken \subseteq overtaken'
    BY <1>2, <2>1 DEF WithdrawPlan
  <2>5. Sets(c.p, "withdrawn")
    BY <2>3, <2>4 DEF Sets
  <2>6. QED BY <2>2, <2>4, <2>5 DEF PlansMove, PlanStates
<1>3. ASSUME NEW x \in Calls, \/ ComposeBegin(x) \/ Follow(x) \/ Close(x) \/ CloseRefused(x)
                              \/ Withdraw(x)
      PROVE  PlansMove
  BY <1>1, <1>2, <1>3
  DEF PlansMove, histVars, ComposeBegin, Follow, Sync, SyncAttach, ToAwaiting, ToApproved,
      ToPlanned, MoveAndGo, MoveAndReturn, Close, CloseRefused, Withdraw, WithdrawApproval,
      ReadPlan, ListMessages, RefuseMessage, ResolveItem
<1>4. ASSUME NEW x \in Calls, RunBegin(x) \/ Run(x) \/ Crash(x)
      PROVE  PlansMove
  BY <1>4
  DEF PlansMove, histVars, RunBegin, Run, RunPlan, RunApproval, RunEnter, MoveAndGo, RunStep,
      RunDraft, RunAsk, RunPend, RunEnd, Crash
<1>5. QED
  BY <1>3, <1>4, ComposePlans
  DEF Next, vars, PlansMove, histVars, DecidePlan, ExpireApproval, DecideMessage, Send,
      OperatorRequest, SyncEngagement, ConfirmRecovery

(***************************************************************************)
(* What holds of the plans, and what was known, stays.                     *)
(***************************************************************************)
LEMMA AfterProposes ==
  ASSUME IInv, NEW p \in Plans, NEW v, Proposes(p, v)
  PROVE  /\ strategy'[p] = Proposal(v)
         /\ \A q \in Plans \ {p} : strategy'[q] = strategy[q]
BY Types DEF IInv, Proposes

LEMMA AfterSaves ==
  ASSUME IInv, NEW p \in Plans, NEW a, Saves(p, a)
  PROVE  /\ strategy'[p].approval = a
         /\ strategy'[p].state = strategy[p].state
         /\ strategy'[p].content = strategy[p].content
         /\ strategy'[p].live = strategy[p].live
         /\ \A q \in Plans \ {p} : strategy'[q] = strategy[q]
BY Types DEF IInv, Saves, Strategies

LEMMA AfterSets ==
  ASSUME IInv, NEW p \in Plans, NEW st, Sets(p, st)
  PROVE  /\ strategy'[p].approval = strategy[p].approval
         /\ strategy'[p].state = st
         /\ strategy'[p].content = strategy[p].content
         /\ strategy'[p].live => (st = "approved" /\ strategy[p].live)
         /\ \A q \in Plans \ {p} : strategy'[q] = strategy[q]
<1>1. strategy \in [Plans -> Strategies]
  BY Types DEF IInv
<1>2. PICK b : b = (st = "approved" /\ Live(p))
  OBVIOUS
<1>3. strategy' = [strategy EXCEPT ![p].state = st, ![p].live = b]
  BY <1>2 DEF Sets, SetPlan
<1>4. /\ strategy'[p].approval = strategy[p].approval
      /\ strategy'[p].state = st
      /\ strategy'[p].content = strategy[p].content
      /\ strategy'[p].live = b
      /\ \A q \in Plans \ {p} : strategy'[q] = strategy[q]
  BY <1>1, <1>3 DEF Strategies
<1>5. QED BY <1>2, <1>4 DEF Live

(* Only one plan's document is written in a step. *)
LEMMA StrategyAfter ==
  ASSUME IInv, NEW p \in Plans
  PROVE  /\ (\E v : Proposes(p, v)) => \A q \in Plans \ {p} : strategy'[q] = strategy[q]
         /\ (\E a : Saves(p, a)) => \A q \in Plans \ {p} : strategy'[q] = strategy[q]
         /\ (\E st : Sets(p, st)) => \A q \in Plans \ {p} : strategy'[q] = strategy[q]
BY AfterProposes, AfterSaves, AfterSets

LEMMA PlansStayOK ==
  ASSUME IInv, PlanInv, [Next]_vars, NEW p \in Plans
  PROVE  PlanOK(p)'
<1>1. PlanOK(p) /\ strategy[p] \in Strategies /\ overtaken \subseteq overtaken'
  BY Types, PlansMoves DEF IInv, PlanInv, PlansMove
<1>2. CASE strategy'[p] = strategy[p]
  BY <1>1, <1>2, ApprovalsOnward DEF PlanOK, Onward, Raised
<1>3. ASSUME NEW v \in Contents, Proposes(p, v)
      PROVE  PlanOK(p)'
  <2>1. strategy'[p] = Proposal(v)
    BY <1>3, AfterProposes
  <2>2. /\ strategy'[p].approval = None /\ strategy'[p].state = "proposed"
    BY <2>1 DEF Proposal
  <2>3. QED BY <2>2 DEF PlanOK
<1>4. ASSUME NEW a \in Approvals, Saves(p, a)
      PROVE  PlanOK(p)'
  <2>2. /\ strategy'[p].approval = a /\ strategy'[p].state = strategy[p].state
        /\ strategy'[p].content = strategy[p].content /\ strategy'[p].live = strategy[p].live
    BY <1>4, AfterSaves
  <2>3. Raised(a) /\ Onward(a) /\ a # None
    BY <1>4, ApprovalsOnward, NoneIsNoId DEF Saves
  <2>4. p \in overtaken' \/ (/\ strategy[p].state = "proposed"
                             /\ about[a] = PlanOf(p, strategy[p].content))
    BY <1>4 DEF Saves
  <2>5. QED BY <1>1, <2>2, <2>3, <2>4 DEF PlanOK, Onward, Raised
<1>5. ASSUME NEW st \in PlanStates, Sets(p, st)
      PROVE  PlanOK(p)'
  <2>2. /\ strategy'[p].approval = strategy[p].approval /\ strategy'[p].state = st
        /\ strategy'[p].content = strategy[p].content
        /\ strategy'[p].live => st = "approved"
    BY <1>5, AfterSets
  <2>3. strategy[p].approval # None => Onward(strategy[p].approval)
    BY <1>1, ApprovalsOnward DEF PlanOK
  <2>4. p \in overtaken' \/ st # "approved" \/ strategy[p].approval # None
    BY <1>5 DEF Sets
  <2>5. QED BY <1>1, <2>2, <2>3, <2>4 DEF PlanOK, Onward, Raised, PlanStates
<1>6. QED BY <1>2, <1>3, <1>4, <1>5, PlansMoves, StrategyAfter DEF PlansMove

LEMMA OneLiveStays ==
  ASSUME IInv, PlanInv, [Next]_vars
  PROVE  OneLive'
<1>1. \A q, r \in Plans : strategy[q].live /\ strategy[r].live => q = r
  BY DEF PlanInv, OneLive, Live
<1>2. ASSUME NEW p \in Plans, NEW v \in Contents, Proposes(p, v)
      PROVE  \A q \in Plans \ {p} : ~strategy'[q].live
  BY <1>2, AfterProposes DEF Live, Proposes
<1>3. ASSUME NEW p \in Plans, NEW a \in Approvals, Saves(p, a)
      PROVE  \A q \in Plans : strategy'[q].live => strategy[q].live
  <2>1. /\ strategy'[p].live = strategy[p].live
        /\ \A q \in Plans \ {p} : strategy'[q] = strategy[q]
    BY <1>3, AfterSaves
  <2>2. QED BY <2>1
<1>4. ASSUME NEW p \in Plans, NEW st \in PlanStates, Sets(p, st)
      PROVE  \A q \in Plans : strategy'[q].live => strategy[q].live
  <2>1. /\ strategy'[p].live => strategy[p].live
        /\ \A q \in Plans \ {p} : strategy'[q] = strategy[q]
    BY <1>4, AfterSets
  <2>2. QED BY <2>1
<1>5. \A q, r \in Plans : strategy'[q].live /\ strategy'[r].live => q = r
  BY <1>1, <1>2, <1>3, <1>4, PlansMoves DEF PlansMove
<1>6. QED BY <1>5 DEF OneLive, Live

(* A standing approval that a plan carries is not lost from it unseen. *)
LEMMA CarriedStays ==
  ASSUME IInv, PlanInv, [Next]_vars, NEW p \in Plans, NEW a \in Approvals, Raised(a),
         Standing(a), strategy[p].approval = a, p \notin overtaken'
  PROVE  strategy'[p].approval = a
<1>1. strategy[p] \in Strategies /\ a # None
  BY Types, NoneIsNoId DEF IInv
<1>2. ASSUME NEW v \in Contents, Proposes(p, v)
      PROVE  FALSE
  BY <1>1, <1>2 DEF Proposes
<1>3. ASSUME NEW b \in Approvals, Saves(p, b)
      PROVE  FALSE
  BY <1>1, <1>3 DEF Saves
<1>4. ASSUME NEW st \in PlanStates, Sets(p, st)
      PROVE  strategy'[p].approval = a
  BY <1>4, AfterSets
<1>5. QED BY <1>2, <1>3, <1>4, PlansMoves, StrategyAfter DEF PlansMove

LEMMA StandingStood ==
  ASSUME IInv, [Next]_vars, NEW a, Raised(a), Standing(a)'
  PROVE  Standing(a)
BY ApprovalsOnward DEF Onward, Standing, Requested, Granted

LEMMA RefersStays ==
  ASSUME IInv, PlanInv, [Next]_vars, NEW p \in Plans \cup {None}, NEW a, Refers(p, a)
  PROVE  Refers(p, a)'
<1> SUFFICES ASSUME a # None, p # None
             PROVE  /\ Raised(a)'
                    /\ p \notin overtaken' /\ Standing(a)' => strategy'[p].approval = a
  BY DEF Refers
<1>1. Raised(a) /\ (p \notin overtaken /\ Standing(a) => strategy[p].approval = a)
  BY DEF Refers
<1>2. Raised(a)'
  BY <1>1, ApprovalsOnward DEF Onward, Raised
<1>3. overtaken \subseteq overtaken'
  BY PlansMoves DEF PlansMove
<1>4. QED BY <1>1, <1>2, <1>3, CarriedStays, StandingStood DEF Raised

(* What a call knows, it goes on knowing whoever else writes. *)
LEMMA KnowledgeStays ==
  ASSUME IInv, PlanInv, [Next]_vars, NEW c \in CallType, Knows(c)
  PROVE  Knows(c)'
<1>1. c.p \in Plans \cup {None} /\ overtaken \subseteq overtaken'
  BY PlansMoves DEF CallType, PlansMove
<1>2. \A a : Raised(a) => Onward(a) /\ Raised(a)'
  BY ApprovalsOnward DEF Onward, Raised
<1>3. Refers(c.p, c.a) => Refers(c.p, c.a)'
  BY <1>1, RefersStays
<1>4. ASSUME Raised(c.a), ~Requested(c.a)
      PROVE  ~Requested(c.a)'
  BY <1>2, <1>4, NoneIsNoId DEF Onward, Requested, Raised
<1>5. ASSUME Raised(c.a), Standing(c.a) => Verified(c)
      PROVE  Standing(c.a)' => Verified(c)'
  BY <1>1, <1>2, <1>5, StandingStood DEF Onward, Verified
<1>6. ASSUME Granted(c.a), Verified(c)
      PROVE  Granted(c.a)' /\ Verified(c)'
  <2>1. Raised(c.a)
    BY <1>6 DEF Granted, Raised, CallType
  <2>2. QED BY <1>1, <1>2, <1>6, <2>1 DEF Granted, Onward, Verified
<1>7. c.pc = "save" => Raised(c.a)' /\ (about[c.a] = PlanOf(c.p, c.v))'
  BY <1>2 DEF Knows, Onward
<1>8. c.pc \in {"cancel", "replace"} => c.st = "proposed" /\ (c.a # None => Raised(c.a)')
  BY <1>2 DEF Knows
<1>9. c.pc = "replace" => ~Requested(c.a)'
  BY <1>4 DEF Knows, Requested
<1>10. c.pc = "decided" => Raised(c.a)' /\ ~Requested(c.a)'
  BY <1>2, <1>4 DEF Knows
<1>11. c.pc = "approval" /\ c.a # None => Raised(c.a)' /\ (Standing(c.a)' => Verified(c)')
  BY <1>2, <1>5 DEF Knows
<1>12. c.pc \in {"enter", "step", "draft", "ask", "pend"} => Granted(c.a)' /\ Verified(c)'
  BY <1>6 DEF Knows
<1>13. c.pc \in {"withdraw", "read_plan", "withdraw_plan"} => Ended'
  BY EndedStays DEF Knows
<1>14. /\ c.pc \in {"attach", "sync", "sync_attach", "plan"} => Refers(c.p, c.a)'
       /\ c.pc \in {"attach", "sync_attach"} => c.p \in overtaken' \/ Raised(c.a)'
  BY <1>1, <1>2, <1>3 DEF Knows
<1>15. QED
  BY <1>7, <1>8, <1>9, <1>10, <1>11, <1>12, <1>13, <1>14 DEF Knows

-----------------------------------------------------------------------------
(***************************************************************************)
(* What a call knows after a step of its own.                              *)
(***************************************************************************)
Empty == {"idle", "find", "insert", "request", "state", "to_awaiting", "to_approved",
          "to_planned", "close", "list", "refuse"}
Running == {"enter", "step", "draft", "ask", "pend"}

LEMMA EmptyHanded ==
  ASSUME NEW d, d.pc \in Empty
  PROVE  Knows(d)'
BY DEF Knows, Empty

LEMMA StillVerified ==
  ASSUME NEW c, NEW d, Knows(c), c.pc \in Running, d.pc \in Running,
         d.p = c.p, d.a = c.a, d.v = c.v
  PROVE  Knows(d)
BY DEF Knows, Running, Verified

LEMMA ComposerLearns ==
  ASSUME IInv, PlanInv, [Next]_vars, NEW x \in Calls, NEW c \in CallType, NEW d \in CallType,
         c = call[x], d = call'[x], ComposeBegin(x) \/ Compose(x)
  PROVE  Knows(d)'
<1> USE DEF IInv
<1>0. Knows(c) /\ call \in [Calls -> CallType]
  BY Types DEF PlanInv, AllKnow
<1>1. CASE ComposeBegin(x)
  <2>1. d.pc = "find" \/ (d.pc = "sync" /\ d.a = None)
    BY <1>0, <1>1, NoneIsNoId DEF ComposeBegin, Goto, Idle, CallType
  <2>2. d.pc = "sync" /\ d.a = None => Knows(d)'
    BY DEF Knows, Refers
  <2>3. QED BY <2>1, <2>2, EmptyHanded DEF Empty
<1>2. CASE ComposeFind(x)
  <2>1. ASSUME NEW p \in Plans, NEW v \in Contents, Live(p), Stands(p, v),
               Read(x, "attach", p, NoContent)
        PROVE  Knows(d)'
    <3>1. d.pc = "attach" /\ d.p = p /\ d.a = strategy[p].approval
      BY <1>0, <2>1 DEF Read, Idle
    <3>2. p \in overtaken \/ Raised(strategy[p].approval)
      BY <2>1 DEF Stands, PlanInv, PlanOK, Requested, Granted
    <3>3. Refers(p, strategy[p].approval)
      BY DEF PlanInv, PlanOK, Refers
    <3>4. Knows(d)
      BY <3>1, <3>2, <3>3 DEF Knows
    <3>5. QED BY <3>4, KnowledgeStays
  <2>2. ASSUME NEW p \in Plans, NEW v \in Contents, Live(p), ~Stands(p, v),
               Read(x, "cancel", p, v)
        PROVE  Knows(d)'
    <3>1. d.pc = "cancel" /\ d.a = strategy[p].approval /\ d.st = strategy[p].state
      BY <1>0, <2>2 DEF Read, Idle
    <3>2. strategy[p].state = "proposed"
      BY <2>2 DEF Live, Stands, PlanInv, PlanOK
    <3>3. d.a # None => Raised(d.a)
      BY <3>1 DEF PlanInv, PlanOK
    <3>4. Knows(d)
      BY <3>1, <3>2, <3>3 DEF Knows
    <3>5. QED BY <3>4, KnowledgeStays
  <2>3. CASE Return(x)
    <3>1. d.pc = "idle"
      BY <1>0, <2>3 DEF Return, Idle
    <3>2. QED BY <3>1, EmptyHanded DEF Empty
  <2>4. ASSUME NEW v \in Contents, call' = [call EXCEPT ![x] = [Idle EXCEPT !.pc = "insert", !.v = v]]
        PROVE  Knows(d)'
    <3>1. d.pc = "insert"
      BY <1>0, <2>4 DEF Idle
    <3>2. QED BY <3>1, EmptyHanded DEF Empty
  <2>5. QED BY <1>2, <2>1, <2>2, <2>3, <2>4 DEF ComposeFind
<1>3. CASE ComposeCancel(x)
  <2>1. c.pc = "cancel" /\ d = [c EXCEPT !.pc = "replace"]
    BY <1>0, <1>3 DEF ComposeCancel, At, Goto
  <2>2. d.pc = "replace" /\ d.a = c.a /\ d.st = c.st
    BY <2>1 DEF CallType
  <2>3. d.st = "proposed" /\ (d.a # None => Raised(d.a)')
    BY <1>0, <2>1, <2>2, ApprovalsOnward DEF Knows, Onward, Raised
  <2>4. ~Requested(d.a)'
    <3>1. CancelIfOpen(d.a) /\ d.a \in Approvals \cup {None}
      BY <1>3, <2>2 DEF ComposeCancel, CallType
    <3>2. QED BY <3>1, NoneIsNoId DEF CancelIfOpen, Requested, TypeOK
  <2>5. QED BY <2>2, <2>3, <2>4 DEF Knows
<1>4. CASE ComposeInsert(x) \/ ComposeReplace(x) \/ ComposeState(x)
  <2>1. d.pc \in {"request", "idle"}
    <3>1. CASE Return(x)
      BY <1>0, <3>1 DEF Return, Idle
    <3>2. CASE ComposeInsert(x) /\ ~Return(x)
      <4>1. PICK p \in Plans :
              call' = [call EXCEPT ![x].pc = "request", ![x].p = p, ![x].st = "proposed"]
        BY <3>2 DEF ComposeInsert, UnusedPlans
      <4>2. QED BY <1>0, <4>1 DEF CallType
    <3>3. CASE ComposeReplace(x) /\ ~Return(x)
      BY <1>0, <3>3 DEF ComposeReplace, CallType
    <3>4. QED BY <1>4, <3>1, <3>2, <3>3 DEF ComposeState, MoveAndReturn
  <2>2. QED BY <2>1, EmptyHanded DEF Empty
<1>5. CASE ComposeRequest(x)
  <2>1. PICK a \in Approvals : /\ RequestFor(a, PlanOf(c.p, c.v))
                               /\ call' = [call EXCEPT ![x].pc = "save", ![x].a = a]
    BY <1>5 DEF ComposeRequest
  <2>2. d.pc = "save" /\ d.a = a /\ d.p = c.p /\ d.v = c.v
    BY <1>0, <2>1 DEF CallType
  <2>3. PlanOf(c.p, c.v) \in Subjects
    BY <1>5 DEF ComposeRequest, At, CallOK, Holds, Subjects
  <2>4. Raised(a)' /\ about'[a] = PlanOf(c.p, c.v)
    BY <2>1, <2>3 DEF RequestFor, OpenFor, Unused, Raised, TypeOK
  <2>5. QED BY <2>2, <2>4 DEF Knows
<1>6. CASE ComposeSave(x)
  <2>1. c.pc = "save" /\ c.p \in Plans
    BY <1>6 DEF ComposeSave, At, CallOK, Holds
  <2>2. d.pc = "attach" /\ d.p = c.p /\ d.a = c.a
    BY <1>0, <1>6 DEF ComposeSave, CallType
  <2>3. Raised(c.a)' /\ c.a # None
    BY <1>0, <2>1, ApprovalsOnward, NoneIsNoId DEF Knows, Onward, Raised
  <2>4. strategy'[c.p].approval = c.a
    BY <1>6, <2>1, Types DEF ComposeSave, Strategies
  <2>5. QED BY <2>2, <2>3, <2>4 DEF Knows, Refers
<1>7. CASE ComposeAttach(x)
  <2>1. c.pc = "attach" /\ d.pc \in {"sync", "state"} /\ d.p = c.p /\ d.a = c.a
    BY <1>0, <1>7 DEF ComposeAttach, At, Goto, CallType
  <2>2. Knows(d)
    BY <1>0, <2>1 DEF Knows
  <2>3. QED BY <2>2, KnowledgeStays
<1>8. QED BY <1>1, <1>2, <1>3, <1>4, <1>5, <1>6, <1>7 DEF Compose

LEMMA FollowerLearns ==
  ASSUME IInv, PlanInv, [Next]_vars, NEW x \in Calls, NEW c \in CallType, NEW d \in CallType,
         c = call[x], d = call'[x],
         \/ Follow(x) \/ Close(x) \/ CloseRefused(x) \/ Withdraw(x) \/ Crash(x)
         \/ \E a \in Approvals, verdict \in DOMAIN PlanVerdict : DecidePlan(x, a, verdict)
  PROVE  Knows(d)'
<1> USE DEF IInv
<1>0. Knows(c) /\ call \in [Calls -> CallType]
  BY Types DEF PlanInv, AllKnow
<1>1. CASE DecidedPlan(x)
  <2>1. c.p \in Plans
    BY <1>1 DEF DecidedPlan, At, CallOK, Holds
  <2>2. d.pc = "sync" /\ d.p = c.p /\ d.a = strategy[c.p].approval
    BY <1>0, <1>1 DEF DecidedPlan, CallType
  <2>3. Refers(c.p, strategy[c.p].approval)
    BY <2>1 DEF PlanInv, PlanOK, Refers
  <2>4. Knows(d)
    BY <2>2, <2>3 DEF Knows
  <2>5. QED BY <2>4, KnowledgeStays
<1>2. CASE Sync(x)
  <2>1. CASE Granted(c.a) /\ Goto(x, "sync_attach")
    <3>1. c.pc = "sync" /\ d.pc = "sync_attach" /\ d.p = c.p /\ d.a = c.a
      BY <1>0, <1>2, <2>1 DEF Sync, At, Goto, CallType
    <3>2. Knows(d)
      BY <1>0, <2>1, <3>1 DEF Knows, Granted, Raised, CallType
    <3>3. QED BY <3>2, KnowledgeStays
  <2>2. CASE Return(x) \/ Last(x, Walk) \/ Last(x, "close") \/ Last(x, "to_planned")
    <3>1. d.pc \in {"idle", "to_awaiting", "to_approved", "close", "to_planned"}
      BY <1>0, <2>2 DEF Return, Last, Walk, Idle
    <3>2. QED BY <3>1, EmptyHanded DEF Empty
  <2>3. QED BY <1>2, <2>1, <2>2 DEF Sync, SyncTakes
<1>3. CASE \/ SyncAttach(x) \/ ToAwaiting(x) \/ ToApproved(x) \/ ToPlanned(x) \/ CloseRefused(x)
           \/ Crash(x) \/ WithdrawPlan(x) \/ ListMessages(x) \/ ResolveItem(x)
  <2>1. d.pc \in {"idle", "to_awaiting", "to_approved", "list", "refuse"}
    BY <1>0, <1>3
    DEF SyncAttach, ToAwaiting, ToApproved, ToPlanned, MoveAndGo, MoveAndReturn, CloseRefused,
        Crash, WithdrawPlan, ListMessages, ResolveItem, Return, Goto, Last, Walk, Idle, CallType
  <2>2. QED BY <2>1, EmptyHanded DEF Empty
<1>4. CASE RefuseMessage(x)
  <2>1. d.pc = "refuse"
    BY <1>0, <1>4 DEF RefuseMessage, At, CallType
  <2>2. QED BY <2>1, EmptyHanded DEF Empty
<1>5. CASE Close(x)
  <2>1. d.pc = "withdraw" /\ Ended'
    BY <1>0, <1>5 DEF Close, GoWithdraw, MoveCase, Ended, TERMINAL_STATES, Idle
  <2>2. QED BY <2>1 DEF Knows
<1>6. CASE WithdrawApproval(x) \/ ReadPlan(x)
  <2>1. /\ c.pc \in {"withdraw", "read_plan"} /\ d.pc \in {"read_plan", "withdraw_plan", "list"}
    BY <1>0, <1>6 DEF WithdrawApproval, ReadPlan, At, Goto, CallType
  <2>2. Ended'
    BY <1>0, <2>1, EndedStays DEF Knows
  <2>3. QED BY <2>1, <2>2 DEF Knows
<1>7. ASSUME NEW a \in Approvals, NEW verdict \in DOMAIN PlanVerdict, DecidePlan(x, a, verdict)
      PROVE  Knows(d)'
  <2>1. d.pc = "decided" /\ d.a = a
    <3>1. PICK p \in Plans, st \in PlanStates :
            call' = [call EXCEPT ![x] = [Idle EXCEPT !.pc = "decided", !.p = p, !.a = a, !.st = st]]
      BY <1>7, VerdictOK DEF DecidePlan
    <3>2. QED BY <1>0, <3>1 DEF Idle
  <2>2. status'[a] = verdict /\ verdict \in {"approved", "rejected", "cancelled"}
    BY <1>7 DEF DecidePlan, PlanVerdict, TypeOK
  <2>3. QED BY <2>1, <2>2 DEF Knows, Raised, Requested
<1>8. QED BY <1>1, <1>2, <1>3, <1>4, <1>5, <1>6, <1>7 DEF Follow, Withdraw

LEMMA RunnerLearns ==
  ASSUME IInv, PlanInv, [Next]_vars, NEW x \in Calls, NEW c \in CallType, NEW d \in CallType,
         c = call[x], d = call'[x], RunBegin(x) \/ Run(x)
  PROVE  Knows(d)'
<1> USE DEF IInv
<1>0. Knows(c) /\ call \in [Calls -> CallType]
  BY Types DEF PlanInv, AllKnow
<1>1. CASE RunBegin(x)
  <2>1. d.pc = "plan" /\ d.p = plan_reference /\ d.a = approval_reference
    BY <1>0, <1>1 DEF RunBegin, Idle
  <2>2. Knows(d)
    BY <2>1 DEF Knows, PlanInv
  <2>3. QED BY <2>2, KnowledgeStays
<1>2. CASE RunPlan(x)
  <2>1. c.pc = "plan" /\ c.p \in Plans
    BY <1>2 DEF RunPlan, At, CallOK, Holds
  <2>2. d.pc = "approval" /\ d.p = c.p /\ d.a = c.a /\ d.v = strategy[c.p].content
    BY <1>0, <1>2 DEF RunPlan, CallType
  <2>3. c.a # None => Raised(c.a) /\ (c.p \notin overtaken /\ Standing(c.a)
                                        => strategy[c.p].approval = c.a)
    BY <1>0, <2>1, NoneIsNoId DEF Knows, Refers
  <2>4. c.p \notin overtaken /\ strategy[c.p].approval # None
          => about[strategy[c.p].approval] = PlanOf(c.p, strategy[c.p].content)
    BY <2>1 DEF PlanInv, PlanOK
  <2>5. Knows(d)
    BY <2>2, <2>3, <2>4 DEF Knows, Verified
  <2>6. QED BY <2>5, KnowledgeStays
<1>3. CASE RunApproval(x)
  <2>1. CASE Granted(c.a) /\ call' = [call EXCEPT ![x].pc = Entry(x), ![x].n = 1]
    <3>1. /\ c.pc = "approval" /\ d.pc \in {"enter", "step"}
          /\ d.p = c.p /\ d.a = c.a /\ d.v = c.v
      BY <1>0, <1>3, <2>1 DEF RunApproval, At, Entry, CallType
    <3>2. c.a # None /\ Standing(c.a)
      BY <2>1 DEF Granted, Standing
    <3>3. Verified(c)
      BY <1>0, <3>1, <3>2 DEF Knows
    <3>4. Knows(d)
      BY <2>1, <3>1, <3>3 DEF Knows, Verified
    <3>5. QED BY <3>4, KnowledgeStays
  <2>2. CASE Return(x)
    <3>1. d.pc = "idle"
      BY <1>0, <2>2 DEF Return, Idle
    <3>2. QED BY <3>1, EmptyHanded DEF Empty
  <2>3. QED BY <1>3, <2>1, <2>2 DEF RunApproval
<1>4. CASE RunEnter(x) \/ RunStep(x) \/ RunDraft(x) \/ RunAsk(x) \/ RunPend(x)
  <2>1. \/ d.pc = "idle"
        \/ c.pc \in Running /\ d.pc \in Running /\ d.p = c.p /\ d.a = c.a /\ d.v = c.v
    <3>1. CASE RunEnter(x)
      BY <1>0, <3>1 DEF RunEnter, MoveAndGo, Return, Goto, At, Idle, Running, CallType
    <3>2. CASE RunStep(x)
      BY <1>0, <3>2 DEF RunStep, At, Running, CallType
    <3>3. CASE RunDraft(x)
      BY <1>0, <3>3 DEF RunDraft, Goto, At, Running, CallType
    <3>4. CASE RunAsk(x)
      <4>1. PICK a \in Approvals :
              call' = [call EXCEPT ![x].pc = "pend", ![x].st = message[call[x].n].status,
                                   ![x].msgs = {<<call[x].n, a>>}]
        BY <3>4 DEF RunAsk
      <4>2. d.pc = "pend" /\ d.p = c.p /\ d.a = c.a /\ d.v = c.v
        BY <1>0, <4>1 DEF CallType
      <4>3. QED BY <3>4, <4>2 DEF RunAsk, At, Running
    <3>5. CASE RunPend(x)
      BY <1>0, <3>5 DEF RunPend, Return, At, Idle, Running, CallType
    <3>6. QED BY <1>4, <3>1, <3>2, <3>3, <3>4, <3>5
  <2>2. CASE d.pc = "idle"
    BY <2>2, EmptyHanded DEF Empty
  <2>3. CASE c.pc \in Running /\ d.pc \in Running /\ d.p = c.p /\ d.a = c.a /\ d.v = c.v
    BY <1>0, <2>3, StillVerified, KnowledgeStays
  <2>4. QED BY <2>1, <2>2, <2>3
<1>5. CASE RunEnd(x)
  <2>1. d.pc = "idle" \/ (d.pc = "withdraw" /\ Ended)
    <3>1. CASE Ended
      BY <1>0, <1>5, <3>1 DEF RunEnd, GoWithdraw, Idle
    <3>2. CASE Return(x)
      BY <1>0, <3>2 DEF Return, Idle
    <3>3. QED BY <1>5, <3>1, <3>2 DEF RunEnd
  <2>2. QED BY <2>1, EndedStays, EmptyHanded DEF Empty, Knows
<1>6. QED BY <1>1, <1>2, <1>3, <1>4, <1>5 DEF Run

-----------------------------------------------------------------------------
(***************************************************************************)
(* The calls together, the case, the runs and the questions.               *)
(***************************************************************************)
LEMMA OthersRest ==
  ASSUME IInv, [Next]_vars
  PROVE  \/ UNCHANGED call
         \/ \E x \in Calls :
              /\ \A y \in Calls \ {x} : call'[y] = call[y]
              /\ \/ ComposeBegin(x) \/ Compose(x) \/ Follow(x) \/ Close(x) \/ CloseRefused(x)
                 \/ Withdraw(x) \/ Crash(x) \/ RunBegin(x) \/ Run(x)
                 \/ \E a \in Approvals, verdict \in DOMAIN PlanVerdict : DecidePlan(x, a, verdict)
<1>1. call \in [Calls -> CallType]
  BY Types DEF IInv
<1>2. ASSUME NEW x \in Calls, ComposeBegin(x) \/ Compose(x) \/ Follow(x)
      PROVE  \A y \in Calls \ {x} : call'[y] = call[y]
  BY <1>1, <1>2
  DEF ComposeBegin, Compose, ComposeFind, ComposeCancel, ComposeInsert, ComposeReplace,
      ComposeRequest, ComposeSave, ComposeAttach, ComposeState, MoveAndReturn, Return, Goto, Read,
      Follow, DecidedPlan, Sync, SyncAttach, ToAwaiting, ToApproved, ToPlanned, MoveAndGo, Last
<1>3. ASSUME NEW x \in Calls, Close(x) \/ CloseRefused(x) \/ Withdraw(x) \/ Crash(x)
      PROVE  \A y \in Calls \ {x} : call'[y] = call[y]
  BY <1>1, <1>3
  DEF Close, CloseRefused, Withdraw, WithdrawApproval, ReadPlan, WithdrawPlan, ListMessages,
      RefuseMessage, ResolveItem, Crash, GoWithdraw, Return, Goto
<1>4. ASSUME NEW x \in Calls, RunBegin(x) \/ Run(x)
      PROVE  \A y \in Calls \ {x} : call'[y] = call[y]
  BY <1>1, <1>4
  DEF RunBegin, Run, RunPlan, RunApproval, RunEnter, MoveAndGo, RunStep, RunDraft, RunAsk,
      RunPend, RunEnd, GoWithdraw, Return, Goto
<1>5. ASSUME NEW x \in Calls, NEW a \in Approvals, NEW verdict \in DOMAIN PlanVerdict,
             DecidePlan(x, a, verdict)
      PROVE  \A y \in Calls \ {x} : call'[y] = call[y]
  BY <1>1, <1>5 DEF DecidePlan
<1>6. CASE \/ UNCHANGED vars \/ SyncEngagement \/ ConfirmRecovery
           \/ \E a \in Approvals : \/ ExpireApproval(a)
                                    \/ \E verdict \in DOMAIN PlanVerdict : DecideMessage(a, verdict)
           \/ \E n \in Steps : Send(n) \/ OperatorRequest(n)
  BY <1>6 DEF vars, SyncEngagement, ConfirmRecovery, ExpireApproval, DecideMessage, Send,
              OperatorRequest
<1>7. QED BY <1>2, <1>3, <1>4, <1>5, <1>6 DEF Next

LEMMA AllKnowStays ==
  ASSUME IInv, PlanInv, [Next]_vars
  PROVE  AllKnow'
<1> SUFFICES ASSUME NEW y \in Calls, NEW d \in CallType, d = call'[y]
             PROVE  Knows(d)'
  BY DEF AllKnow
<1>1. PICK c \in CallType : c = call[y]
  BY Types DEF IInv
<1>2. d = c => Knows(d)'
  BY <1>1, KnowledgeStays DEF PlanInv, AllKnow
<1>3. QED
  BY <1>1, <1>2, OthersRest, ComposerLearns, FollowerLearns, RunnerLearns

LEMMA ReferencesStay ==
  ASSUME IInv, PlanInv, [Next]_vars
  PROVE  /\ Refers(plan_reference, approval_reference)'
         /\ (approval_reference # None => Raised(approval_reference))'
<1>1. PICK p \in Plans \cup {None}, a \in Approvals \cup {None} :
        p = plan_reference /\ a = approval_reference
  BY DEF IInv, TypeOK
<1>2. Refers(p, a) /\ (a # None => Raised(a))
  BY <1>1 DEF PlanInv
<1>3. Refers(p, a)' /\ (a # None => Raised(a)')
  BY <1>2, RefersStays, ApprovalsOnward DEF Onward, Raised
<1>4. CASE UNCHANGED <<plan_reference, approval_reference>>
  BY <1>1, <1>3, <1>4 DEF Refers, Raised, Standing, Requested, Granted
<1>5. ASSUME NEW x \in Calls, ComposeAttach(x) \/ SyncAttach(x)
      PROVE  /\ Refers(plan_reference, approval_reference)'
             /\ (approval_reference # None => Raised(approval_reference))'
  <2>1. PICK c \in CallType : c = call[x]
    BY Types DEF IInv
  <2>2. c.pc \in {"attach", "sync_attach"} /\ Attach(c.p, c.a)
    BY <1>5, <2>1 DEF ComposeAttach, SyncAttach, At
  <2>3. Knows(c)
    BY <2>1 DEF PlanInv, AllKnow
  <2>4. Refers(c.p, c.a) /\ (c.p \in overtaken \/ Raised(c.a))
    BY <2>2, <2>3 DEF Knows
  <2>5. Refers(c.p, c.a)' /\ c.p \in Plans \cup {None} /\ overtaken \subseteq overtaken'
    BY <2>4, RefersStays, PlansMoves DEF CallType, PlansMove
  <2>6. CASE c.a = None
    <3>1. plan_reference' = c.p /\ approval_reference' = a /\ c.p \in overtaken'
      BY <1>1, <2>2, <2>4, <2>5, <2>6, NoneIsNoId DEF Attach, Raised
    <3>2. QED BY <1>3, <3>1 DEF Refers, Raised
  <2>7. CASE c.a # None
    <3>1. plan_reference' = c.p /\ approval_reference' = c.a
      BY <2>2, <2>7 DEF Attach
    <3>2. Raised(c.a)
      BY <2>4, <2>5, <2>7, NoneIsNoId DEF Refers, IInv, TypeOK
    <3>3. Raised(c.a)'
      BY <3>2, ApprovalsOnward DEF Onward, Raised
    <3>4. QED BY <2>5, <3>1, <3>3 DEF Refers, Raised, Standing, Requested, Granted
  <2>8. QED BY <2>6, <2>7
<1>6. ASSUME NEW x \in Calls, ComposeBegin(x) \/ Compose(x) \/ Follow(x), ~ComposeAttach(x),
             ~SyncAttach(x)
      PROVE  UNCHANGED <<plan_reference, approval_reference>>
  BY <1>6
  DEF ComposeBegin, Compose, ComposeFind, ComposeCancel, ComposeInsert, ComposeReplace,
      ComposeRequest, ComposeSave, ComposeState, MoveAndReturn, MoveCase,
      Follow, DecidedPlan, Sync, ToAwaiting, ToApproved, ToPlanned, MoveAndGo, caseVars
<1>7. ASSUME NEW x \in Calls, \/ Close(x) \/ CloseRefused(x) \/ Withdraw(x) \/ RunBegin(x)
                              \/ Run(x) \/ Crash(x)
      PROVE  UNCHANGED <<plan_reference, approval_reference>>
  BY <1>7
  DEF Close, CloseRefused, Withdraw, WithdrawApproval, ReadPlan, WithdrawPlan, ListMessages,
      RefuseMessage, ResolveItem, RunBegin, Run, RunPlan, RunApproval, RunEnter, MoveAndGo,
      RunStep, RunDraft, RunAsk, RunPend, RunEnd, Engage, Crash, MoveCase, caseVars
<1>8. QED
  BY <1>4, <1>5, <1>6, <1>7
  DEF Next, vars, DecidePlan, ExpireApproval, DecideMessage, Send, OperatorRequest,
      SyncEngagement, Engage, ConfirmRecovery, MoveCase, caseVars

(* A run is of the plan and content its approval asked about, or overtaken. *)
LEMMA RunsStay ==
  ASSUME IInv, PlanInv, [Next]_vars
  PROVE  UnapprovedRunWasOvertaken'
<1>1. ASSUME NEW r \in ran
      PROVE  \/ Granted(r.approval)' /\ about'[r.approval] = PlanOf(r.plan, r.content)
             \/ r.plan \in overtaken'
  <2>1. \/ Granted(r.approval) /\ about[r.approval] = PlanOf(r.plan, r.content)
        \/ r.plan \in overtaken
    BY DEF PlanInv, UnapprovedRunWasOvertaken
  <2>2. r.approval \in Approvals \cup {None}
    BY DEF IInv, TypeOK
  <2>3. Granted(r.approval) => Raised(r.approval)
    BY <2>2 DEF Granted, Raised
  <2>4. QED
    BY <2>1, <2>3, ApprovalsOnward, PlansMoves DEF Onward, Granted, PlansMove
<1>2. ASSUME NEW x \in Calls, RunStep(x)
      PROVE  UnapprovedRunWasOvertaken'
  <2>1. PICK c \in CallType : c = call[x]
    BY Types DEF IInv
  <2>2. c.pc = "step" /\ ran' = ran \cup {[plan |-> c.p, content |-> c.v, approval |-> c.a]}
    BY <1>2, <2>1 DEF RunStep, At
  <2>3. Granted(c.a) /\ Verified(c)
    BY <2>1, <2>2 DEF PlanInv, AllKnow, Knows
  <2>4. UNCHANGED <<status, about>> /\ overtaken \subseteq overtaken'
    BY <1>2, PlansMoves DEF RunStep, PlansMove
  <2>5. PICK r : r = [plan |-> c.p, content |-> c.v, approval |-> c.a]
    OBVIOUS
  <2>6. \/ Granted(r.approval)' /\ about'[r.approval] = PlanOf(r.plan, r.content)
        \/ r.plan \in overtaken'
    BY <2>3, <2>4, <2>5 DEF Granted, Verified
  <2>7. QED BY <1>1, <2>2, <2>5, <2>6 DEF UnapprovedRunWasOvertaken
<1>3. CASE UNCHANGED ran
  BY <1>1, <1>3 DEF UnapprovedRunWasOvertaken
<1>4. ASSUME NEW x \in Calls, \/ ComposeBegin(x) \/ Compose(x) \/ Follow(x) \/ Close(x)
                              \/ CloseRefused(x) \/ Withdraw(x) \/ Crash(x)
      PROVE  UNCHANGED ran
  BY <1>4
  DEF histVars, ComposeBegin, Compose, ComposeFind, ComposeCancel, ComposeInsert,
      ComposeReplace, ComposeRequest, ComposeSave, ComposeAttach, ComposeState, MoveAndReturn,
      Follow, DecidedPlan, Sync, SyncAttach, ToAwaiting, ToApproved, ToPlanned, MoveAndGo,
      Close, CloseRefused, Withdraw, WithdrawApproval, ReadPlan, WithdrawPlan, ListMessages,
      RefuseMessage, ResolveItem, Crash
<1>5. ASSUME NEW x \in Calls, RunBegin(x) \/ Run(x), ~RunStep(x)
      PROVE  UNCHANGED ran
  BY <1>5
  DEF histVars, RunBegin, Run, RunPlan, RunApproval, RunEnter, MoveAndGo, RunDraft, RunAsk,
      RunPend, RunEnd
<1>6. QED
  BY <1>2, <1>3, <1>4, <1>5
  DEF Next, vars, histVars, DecidePlan, ExpireApproval, DecideMessage, Send, OperatorRequest,
      SyncEngagement, ConfirmRecovery

(* A call about to save the approval it raised goes on to, or dies. *)
LEMMA SaversSave ==
  ASSUME IInv, [Next]_vars, NEW y \in Calls, At(y, "save"), ~ComposeSave(y), ~Crash(y)
  PROVE  call'[y] = call[y]
<1>1. ASSUME ComposeBegin(y) \/ Compose(y) \/ Follow(y)
      PROVE  FALSE
  BY <1>1
  DEF At, Idle, ComposeBegin, Compose, ComposeFind, ComposeCancel, ComposeInsert,
      ComposeReplace, ComposeRequest, ComposeAttach, ComposeState, MoveAndReturn,
      Follow, DecidedPlan, Sync, SyncAttach, ToAwaiting, ToApproved, ToPlanned, MoveAndGo
<1>2. ASSUME \/ Close(y) \/ CloseRefused(y) \/ Withdraw(y)
             \/ \E a \in Approvals, verdict \in DOMAIN PlanVerdict : DecidePlan(y, a, verdict)
      PROVE  FALSE
  <2>1. call[y] # Idle
    BY DEF At, Idle
  <2>2. QED
    BY <1>2, <2>1
    DEF At, Close, CloseRefused, Withdraw, WithdrawApproval, ReadPlan, WithdrawPlan,
        ListMessages, RefuseMessage, ResolveItem, DecidePlan
<1>3. ASSUME RunBegin(y) \/ Run(y)
      PROVE  FALSE
  BY <1>3
  DEF At, Idle, RunBegin, Run, RunPlan, RunApproval, RunEnter, MoveAndGo, RunStep, RunDraft,
      RunAsk, RunPend, RunEnd
<1>4. QED BY <1>1, <1>2, <1>3, OthersRest

LEMMA QuestionsStayHeld ==
  ASSUME IInv, PlanInv, [Next]_vars
  PROVE  QuestionsHeld'
<1> SUFFICES ASSUME crashes' = 0, overtaken' = {}, ~Ended', NEW a \in Approvals, Asked(a)'
             PROVE  Held(a)'
  BY DEF QuestionsHeld
<1>1. crashes = 0 /\ overtaken = {} /\ ~Ended
  BY HistoryGrows, PlansMoves, EndedStays DEF PlansMove
<1>2. CASE Raised(a)
  <2>1. Asked(a)
    BY <1>2, ApprovalsOnward DEF Asked, Requested, Onward
  <2>2. Held(a)
    BY <1>1, <2>1 DEF PlanInv, QuestionsHeld
  <2>3. ASSUME NEW p \in Plans, Live(p), strategy[p].approval = a
        PROVE  Held(a)'
    <3>1. strategy[p] \in Strategies /\ Requested(a)
      BY <2>1, Types DEF IInv, Asked
    <3>2. ASSUME NEW v \in Contents, Proposes(p, v)
          PROVE  FALSE
      BY <2>3, <3>1, <3>2, NoneIsNoId DEF Proposes, Standing
    <3>3. ASSUME NEW b \in Approvals, Saves(p, b)
          PROVE  FALSE
      BY <2>3, <3>3, NoneIsNoId DEF Saves
    <3>4. ASSUME NEW st \in PlanStates, Sets(p, st)
          PROVE  FALSE
      BY <1>1, <2>3, <3>1, <3>4 DEF Sets
    <3>5. strategy'[p] = strategy[p]
      BY <3>2, <3>3, <3>4, PlansMoves, StrategyAfter DEF PlansMove
    <3>6. QED BY <2>3, <3>5 DEF Held, Live
  <2>4. ASSUME NEW y \in Calls, At(y, "save"), call[y].a = a
        PROVE  Held(a)'
    <3>1. CASE ComposeSave(y)
      <4>1. PICK c \in CallType : c = call[y]
        BY Types DEF IInv
      <4>2. /\ c.p \in Plans /\ strategy' = [strategy EXCEPT ![c.p].approval = a]
            /\ c.p \in overtaken' \/ strategy[c.p] = Proposal(c.v)
        BY <2>4, <3>1, <4>1 DEF ComposeSave, At, IInv, CallOK, Holds
      <4>3. strategy[c.p].live
        BY <4>2 DEF Proposal
      <4>4. strategy'[c.p].approval = a /\ strategy'[c.p].live
        BY <4>2, <4>3, Types DEF IInv, Strategies
      <4>5. QED BY <4>2, <4>4 DEF Held, Live
    <3>2. CASE Crash(y)
      BY <1>1, <3>2 DEF Crash
    <3>3. CASE ~ComposeSave(y) /\ ~Crash(y)
      BY <2>4, <3>3, SaversSave DEF Held, At
    <3>4. QED BY <3>1, <3>2, <3>3
  <2>5. QED BY <2>2, <2>3, <2>4 DEF Held
<1>3. CASE ~Raised(a)
  <2>1. status[a] = "absent" /\ status'[a] = "requested" /\ about'[a][1] = "plan"
    BY <1>3 DEF Raised, Asked, Requested
  <2>2. ASSUME NEW n \in Steps, NEW b \in Approvals, RequestFor(b, MessageOf(n))
        PROVE  FALSE
    <3>1. a = b /\ about'[a] = MessageOf(n)
      BY <2>1, <2>2 DEF RequestFor, IInv, TypeOK
    <3>2. MessageOf(n)[1] = "message"
      BY DEF MessageOf
    <3>3. QED BY <2>1, <3>1, <3>2
  <2>3. ASSUME NEW x \in Calls, ComposeRequest(x)
        PROVE  Held(a)'
    <3>1. PICK b \in Approvals : /\ RequestFor(b, PlanOf(call[x].p, call[x].v))
                                 /\ call' = [call EXCEPT ![x].pc = "save", ![x].a = b]
      BY <2>3 DEF ComposeRequest
    <3>2. a = b
      BY <2>1, <3>1 DEF RequestFor, IInv, TypeOK
    <3>3. call'[x].pc = "save" /\ call'[x].a = b
      BY <3>1, Types DEF IInv, CallType
    <3>4. QED BY <3>2, <3>3 DEF Held, At
  <2>4. ASSUME \/ UNCHANGED status
               \/ \E b \in Approvals \cup {None} : CancelIfOpen(b)
               \/ \E b \in Approvals : Requested(b) /\ \E v : status' = [status EXCEPT ![b] = v]
        PROVE  FALSE
    BY <2>1, <2>4 DEF CancelIfOpen, Requested, IInv, TypeOK
  <2>5. ASSUME NEW x \in Calls, ComposeBegin(x) \/ Compose(x) \/ Follow(x)
        PROVE  Held(a)'
    <3>1. call[x].a \in Approvals \cup {None}
      BY Types DEF IInv, CallType
    <3>2. QED
      BY <2>3, <2>4, <2>5, <3>1
      DEF ComposeBegin, Compose, ComposeFind, ComposeCancel, ComposeInsert, ComposeReplace,
          ComposeSave, ComposeAttach, ComposeState, MoveAndReturn,
          Follow, DecidedPlan, Sync, SyncAttach, ToAwaiting, ToApproved, ToPlanned, MoveAndGo
  <2>6. ASSUME NEW x \in Calls, Close(x) \/ CloseRefused(x) \/ Withdraw(x) \/ Crash(x)
        PROVE  FALSE
    <3>1. call[x].a \in Approvals \cup {None}
      BY Types DEF IInv, CallType
    <3>2. ASSUME RefuseMessage(x)
          PROVE  FALSE
      <4>1. call[x].msgs \in SUBSET (Steps \X (Approvals \cup {None}))
        BY Types DEF IInv, CallType
      <4>2. PICK m \in call[x].msgs : CancelIfOpen(m[2])
        BY <3>2 DEF RefuseMessage
      <4>3. QED BY <2>4, <4>1, <4>2
    <3>3. QED
      BY <2>4, <2>6, <3>1, <3>2
      DEF Close, CloseRefused, Withdraw, WithdrawApproval, ReadPlan, WithdrawPlan, ListMessages,
          ResolveItem, Crash
  <2>7. ASSUME NEW x \in Calls, RunBegin(x) \/ Run(x)
        PROVE  FALSE
    <3>1. ASSUME RunAsk(x)
          PROVE  FALSE
      <4>1. call[x].n \in Steps
        BY <3>1 DEF RunAsk, At, IInv, CallOK, Holds
      <4>2. QED BY <2>2, <3>1, <4>1 DEF RunAsk
    <3>2. QED
      BY <2>4, <2>7, <3>1
      DEF RunBegin, Run, RunPlan, RunApproval, RunEnter, MoveAndGo, RunStep, RunDraft, RunPend,
          RunEnd
  <2>8. ASSUME NEW b \in Approvals,
               \/ ExpireApproval(b)
               \/ \E verdict \in DOMAIN PlanVerdict :
                    DecideMessage(b, verdict) \/ \E x \in Calls : DecidePlan(x, b, verdict)
        PROVE  FALSE
    BY <2>4, <2>8 DEF ExpireApproval, DecideMessage, DecidePlan
  <2>9. ASSUME NEW n \in Steps, Send(n) \/ OperatorRequest(n)
        PROVE  FALSE
    BY <2>2, <2>4, <2>9 DEF Send, OperatorRequest
  <2>10. QED
    BY <2>4, <2>5, <2>6, <2>7, <2>8, <2>9 DEF Next, vars, SyncEngagement, ConfirmRecovery
<1>4. QED BY <1>2, <1>3

LEMMA PlanStep == IInv /\ PlanInv /\ [Next]_vars => PlanInv'
BY PlansStayOK, OneLiveStays, ReferencesStay, AllKnowStays, RunsStay, QuestionsStayHeld
DEF PlanInv

LEMMA PlanInit == Init => PlanInv
<1> SUFFICES ASSUME Init PROVE PlanInv
  OBVIOUS
<1>1. (\A p \in Plans : PlanOK(p)) /\ OneLive
  BY DEF Init, PlanOK, OneLive, Live
<1>2. AllKnow
  <2>1. \A x \in Calls, c \in CallType : c = call[x] => c.pc = "idle"
    BY DEF Init, Idle
  <2>2. QED BY <2>1 DEF AllKnow, Knows
<1>3. QED
  BY <1>1, <1>2
  DEF Init, PlanInv, Refers, UnapprovedRunWasOvertaken, QuestionsHeld, Asked, Requested

(***************************************************************************)
(* For any number of composers, decisions, runs and closes in flight and   *)
(* any number of plans, contents and steps: an open case at rest asks its  *)
(* operator about one plan at most (recovery_strategy.compose_for_tenant), *)
(* and whatever the runner executes was approved, plan and content, unless *)
(* a call wrote on that plan after it was decided or rewritten             *)
(* (recovery_runner.run_case).                                             *)
(***************************************************************************)
THEOREM PlansAreApproved == Spec => []RecoveryHolds
<1>1. IInv /\ PlanInv => RecoveryHolds
  <2> SUFFICES ASSUME IInv, PlanInv PROVE RecoveryHolds
    OBVIOUS
  <2>1. TypeOK /\ UnapprovedRunWasOvertaken
    BY DEF IInv, PlanInv
  <2>2. ASSUME AtRest, crashes = 0, overtaken = {}, ~Ended
        PROVE  Cardinality({a \in Approvals : Asked(a)}) <= 1
    <3> DEFINE S == {a \in Approvals : Asked(a)}
    <3>1. \A x \in Calls : ~At(x, "save")
      BY <2>2 DEF AtRest, At, Idle
    <3>2. \A a \in S : \E p \in Plans : Live(p) /\ strategy[p].approval = a
      BY <2>2, <3>1 DEF PlanInv, QuestionsHeld, Held
    <3>3. \A a, b \in S : a = b
      BY <3>2 DEF PlanInv, OneLive
    <3>4. CASE S = {}
      BY <3>4, FS_EmptySet
    <3>5. ASSUME NEW a \in S
          PROVE  Cardinality(S) = 1
      <4>1. S = {a}
        BY <3>3
      <4>2. QED BY <4>1, FS_Singleton
    <3>6. QED BY <3>4, <3>5
  <2>3. QED BY <2>1, <2>2 DEF RecoveryHolds, OnePlanRequest, Asked
<1>2. QED BY <1>1, PlanInit, PlanStep, IInvInvariant, PTL DEF Spec
=============================================================================
