---------------------------- MODULE MailProofs ------------------------------
(***************************************************************************)
(* What the records of deliveries say, for any number of messages, calls   *)
(* and approvals.  Three things make it inductive: an approval that is     *)
(* spent stays spent, so the sender it paid for is alone with it; an       *)
(* attempt's number is the message's count when it set out, so no two      *)
(* attempts share a key; and until a message is refused in mid-flight or   *)
(* judged by an answer to an older attempt, a sender on its way is the     *)
(* only one and its message is `sending'.                                  *)
(*                                                                         *)
(* Below it, what is proved of the letters that come in.                   *)
(***************************************************************************)
EXTENDS OutboundDelivery, InboundMail, ApprovalQueueProofs, FiniteSetTheorems

AWAY == {"send", "accepted", "rejected", "lost"}
PAID == AWAY \cup {"mark"}

(* The messages of which the record may be wrong. *)
Excused(m) == m \in InternalMessages \cup interrupted \cup misread

(* Whoever is between two awaits holds a message, and an approval from the  *)
(* check on; an approval once raised is about a message.                    *)
HandsOK ==
  /\ \A s \in Senders :
       /\ sender[s].pc # "idle" => sender[s].m \in Messages
       /\ sender[s].pc \in PAID \cup {"consume", "claim"} => sender[s].a \in Approvals
       /\ sender[s].pc = "claim" => /\ claim[s] = sender[s].a /\ status[sender[s].a] # "absent"
                                    /\ subject[sender[s].a] = sender[s].m
  /\ \A o \in Operators :
       /\ operator[o].pc # "idle" => operator[o].m \in Messages
       /\ operator[o].pc = "attach" => operator[o].a \in Approvals /\ operator[o].n \in MessageStates
  /\ \A r \in Reconcilers : reconciler[r] # Idle =>
       reconciler[r].pc \in {"found", "not_found"} /\ reconciler[r].m \in Messages
  /\ \A a \in Approvals : status[a] # "absent" => subject[a] \in Messages

(* A spent approval is with the one sender it paid for, or dispatched.      *)
PaidOnce ==
  /\ \A s \in Senders : sender[s].pc \in PAID =>
       execution[sender[s].a] = "consumed" /\ subject[sender[s].a] = sender[s].m
  /\ \A s, t \in Senders : sender[s].pc \in PAID /\ sender[t].pc \in PAID /\ sender[s].a = sender[t].a => s = t
  /\ \A d \in dispatches, s \in Senders :
       sender[s].pc \in {"mark", "send"} => d.a # sender[s].a
  /\ OneDispatchPerApproval

(* No attempt has the number of another.                                    *)
KeysOK ==
  /\ \A s \in Senders : sender[s].pc \in AWAY => sender[s].n \in 1..sendings[sender[s].m]
  /\ \A s, t \in Senders : sender[s].pc \in AWAY /\ sender[t].pc \in AWAY
                           /\ sender[s].m = sender[t].m /\ sender[s].n = sender[t].n => s = t
  /\ \A d \in dispatches : d.n \in 1..sendings[d.m]
  /\ \A d \in dispatches, s \in Senders : sender[s].pc = "send" => d.m # sender[s].m \/ d.n # sender[s].n
  /\ \A m \in Messages, n \in Nat : <<m, n>> \in held =>
       m \notin InternalMessages /\ \E d \in dispatches : d.m = m /\ d.n = n
  /\ KeysNeverReused

(* What the client may have of a message is its last attempt.               *)
RecordOK(m) ==
  ~Excused(m) =>
    /\ \A n \in Nat : <<m, n>> \in held /\ <<m, n>> \notin bounced =>
         n = sendings[m] /\ mstatus[m] \in {"sending", "outcome_unknown", "sent"}
    /\ mstatus[m] = "sent" => provider_message_id[m] = sendings[m] /\ <<m, sendings[m]>> \in held

AwayOK(s) ==
  sender[s].pc \in AWAY /\ ~Excused(sender[s].m) =>
    /\ mstatus[sender[s].m] = "sending" /\ sender[s].n = sendings[sender[s].m]
    /\ sender[s].pc = "accepted" => <<sender[s].m, sender[s].n>> \in held
    /\ sender[s].pc = "rejected" => <<sender[s].m, sender[s].n>> \notin held

(* An answer of the provider's stays true of the attempt it was about.      *)
AnswerOK(r) ==
  reconciler[r] # Idle /\ ~Excused(reconciler[r].m) =>
    /\ reconciler[r].n <= sendings[reconciler[r].m]
    /\ reconciler[r].n = sendings[reconciler[r].m] => mstatus[reconciler[r].m] # "sending"
    /\ (reconciler[r].pc = "found") = (<<reconciler[r].m, reconciler[r].n>> \in held)

RecordsOK ==
  /\ \A m \in Messages : RecordOK(m)
  /\ \A s \in Senders : AwayOK(s)
  /\ \A r \in Reconcilers : AnswerOK(r)

OInv == IInv /\ OutboundTypeOK /\ HandsOK /\ PaidOnce /\ KeysOK /\ RecordsOK

-----------------------------------------------------------------------------
SenderType == [Senders -> [pc : SenderSteps, m : Messages \cup {NoSubject},
                           a : Approvals \cup {NoApproval}, n : Nat]]

(* What the step of one sender makes of the senders.                        *)
LEMMA Going ==
  ASSUME sender \in SenderType, NEW s \in Senders, NEW pc, Goto(s, pc)
  PROVE  /\ \A t \in Senders \ {s} : sender'[t] = sender[t]
         /\ sender'[s].pc = pc /\ sender'[s].m = sender[s].m
         /\ sender'[s].a = sender[s].a /\ sender'[s].n = sender[s].n
         /\ pc \in SenderSteps => sender' \in SenderType
BY DEF SenderType, Goto

LEMMA Leaving ==
  ASSUME sender \in SenderType, NEW s \in Senders, SenderDone(s)
  PROVE  /\ \A t \in Senders \ {s} : sender'[t] = sender[t]
         /\ sender'[s] = Idle /\ sender'[s].pc = "idle" /\ sender' \in SenderType
BY DEF SenderType, SenderDone, Idle, At, SenderSteps

(* Every step of a delivery is a step of the approval queue, or none.       *)
LEMMA OnTheQueue ==
  ASSUME OutboundTypeOK, HandsOK, OutboundNext
  PROVE  [Next]_approvalVars
<1> USE DEF Messages, Senders
<1>1. ASSUME NEW s \in Senders, SenderNext(s) PROVE [Next]_approvalVars
  <2> DEFINE a == sender[s].a
             m == sender[s].m
  <2>1. CASE Check(s)
    <3>1. UNCHANGED approvalVars \/ (a \in Approvals /\ RefreshBlocks(a, FALSE))
      BY <2>1 DEF Check, OutboundTypeOK
    <3> QED
      BY <3>1 DEF Next
  <2>2. CASE Consume(s)
    <3>1. UNCHANGED approvalVars \/ (a \in Approvals /\ m \in Subjects /\ ConsumeCheck(s, a, m))
      BY <2>2 DEF Consume, HandsOK
    <3> QED
      BY <3>1 DEF Next
  <2>3. CASE Claim(s) \/ SenderCrash(s)
    BY <2>3 DEF Claim, SenderCrash, Next
  <2>4. ASSUME UNCHANGED approvalVars PROVE [Next]_approvalVars
    BY <2>4
  <2> QED
    BY <1>1, <2>1, <2>2, <2>3, <2>4 DEF SenderNext, Begin, Refuse, MarkSending, DeliverInternal, Dispatch, Record
<1>2. ASSUME NEW o \in Operators, OperatorNext(o) PROVE [Next]_approvalVars
  <2>1. ASSUME NEW m \in Messages, RequestApproval(o, m) PROVE [Next]_approvalVars
    <3>1. PICK b \in BOOLEAN : b = ~Passes(m)
      BY DEF Passes, OutboundTypeOK
    <3>2. UNCHANGED approvalVars \/ \E a \in Approvals : Request(a, m, m, b)
      BY <2>1, <3>1 DEF RequestApproval
    <3>3. (\E a \in Approvals : Request(a, m, m, b)) => Next
      BY <3>1 DEF Next
    <3> QED
      BY <3>2, <3>3
  <2>2. ASSUME NEW m \in Messages, Withdraw(o, m) PROVE [Next]_approvalVars
    <3>1. UNCHANGED approvalVars \/ (approval_id[m] \in Approvals /\ Cancel(approval_id[m]))
      BY <2>2 DEF Withdraw, OutboundTypeOK
    <3> QED
      BY <3>1 DEF Next
  <2>3. ASSUME NEW a \in Approvals, DecideApproval(o, a) \/ CancelApproval(o, a) PROVE [Next]_approvalVars
    BY <2>3 DEF DecideApproval, CancelApproval, Next
  <2>4. ASSUME UNCHANGED approvalVars PROVE [Next]_approvalVars
    BY <2>4
  <2> QED
    BY <1>2, <2>1, <2>2, <2>3, <2>4 DEF OperatorNext, AttachApproval, MarkApprovedRead, MarkApproved, OperatorRefuse, OperatorCrash
<1>3. ASSUME NEW a \in Approvals, Expiry(a) PROVE [Next]_approvalVars
  BY <1>3 DEF Expiry, Next
<1>4. ASSUME UNCHANGED approvalVars PROVE [Next]_approvalVars
  BY <1>4
<1> QED
  BY <1>1, <1>2, <1>3, <1>4 DEF OutboundNext, Locate, Reconcile, ReconcilerCrash, Bounce, SetCleared

(* An approval once raised is about what it was raised for, and spent       *)
(* stays spent.                                                             *)
LEMMA QueueMoves ==
  ASSUME IInv, [Next]_approvalVars, NEW a \in Approvals
  PROVE  /\ status[a] # "absent" => status'[a] # "absent" /\ subject'[a] = subject[a]
         /\ execution[a] = "consumed" => execution'[a] = "consumed" /\ subject'[a] = subject[a]
<1> USE DEF IInv, TypeOK
<1>1. ASSUME NEW b \in Approvals, NEW s \in Subjects \cup {NoSubject}, NEW key, NEW blocks, Request(b, s, key, blocks)
      PROVE  /\ status[a] # "absent" => status'[a] # "absent" /\ subject'[a] = subject[a]
             /\ execution[a] = "consumed" => status[a] # "absent" /\ execution'[a] = "consumed"
  BY <1>1 DEF Request, Insert, SingleUse
<1>2. ASSUME UNCHANGED subject, \A b \in Approvals : status[b] # "absent" => status'[b] # "absent",
             execution' = execution \/ \E b \in Approvals : execution' = [execution EXCEPT ![b] = "consumed"]
      PROVE  /\ status[a] # "absent" => status'[a] # "absent" /\ subject'[a] = subject[a]
             /\ execution[a] = "consumed" => execution'[a] = "consumed" /\ subject'[a] = subject[a]
  BY <1>2
<1>3. ASSUME NEW b \in Approvals, MarkExpired(b) \/ Cancel(b) \/ Lapse(b) \/ (\E d \in Decisions : Decide(b, d))
                                  \/ \E x \in BOOLEAN : RefreshBlocks(b, x)
      PROVE  UNCHANGED <<subject, execution>> /\ \A c \in Approvals : status[c] # "absent" => status'[c] # "absent"
  BY <1>3 DEF MarkExpired, Cancel, Lapse, Decide, Decisions, RefreshBlocks
<1>4. ASSUME NEW w \in Workers, \/ \E b \in Approvals, s \in Subjects : ConsumeCheck(w, b, s)
                                \/ ConsumeClaim(w) \/ ConsumeLost(w) \/ WorkerCrash(w)
      PROVE  /\ UNCHANGED <<subject, status>>
             /\ execution' = execution \/ \E b \in Approvals : execution' = [execution EXCEPT ![b] = "consumed"]
  BY <1>4 DEF ConsumeCheck, ConsumeClaim, ConsumeLost, WorkerCrash
<1>5. CASE UNCHANGED approvalVars
  BY <1>5 DEF approvalVars
<1> QED
  BY <1>1, <1>2, <1>3, <1>4, <1>5 DEF Next

-----------------------------------------------------------------------------
LEMMA RefusedTypes ==
  ASSUME OutboundTypeOK, NEW m \in Messages, MarkRefused(m)
  PROVE  /\ mstatus' \in [Messages -> MessageStates] /\ interrupted' \subseteq Messages
         /\ UNCHANGED <<approval_id, sendings, provider_message_id>>
         /\ interrupted \subseteq interrupted'
BY DEF MarkRefused, Transition, OutboundTypeOK, MessageStates

LEMMA SenderTypes ==
  ASSUME OutboundTypeOK, HandsOK, TypeOK', NEW s \in Senders, SenderNext(s)
  PROVE  OutboundTypeOK'
<1>0. sender \in SenderType /\ UNCHANGED <<cleared, operator, reconciler>>
  BY DEF OutboundTypeOK, SenderType, SenderNext, Begin, Check, Consume, Claim, Refuse, MarkSending, DeliverInternal, Dispatch,
     Record, SenderCrash, OnlySender
<1>1. ASSUME sender' \in SenderType, UNCHANGED <<messageVars, held, bounced, dispatches, interrupted, misread>>,
             dropped' = dropped \/ \E a \in Approvals : dropped' = dropped \cup {a}
      PROVE  OutboundTypeOK'
  BY <1>0, <1>1 DEF OutboundTypeOK, SenderType, messageVars
<1>2. ASSUME NEW m \in Messages, Begin(s, m) PROVE OutboundTypeOK'
  <2>1. \A a \in Approvals \cup {NoApproval} : At("check", m, a, 0) \in [pc : SenderSteps, m : Messages \cup {NoSubject},
                                                                       a : Approvals \cup {NoApproval}, n : Nat]
    BY DEF At, SenderSteps
  <2>2. At("refuse", m, NoApproval, 0) \in [pc : SenderSteps, m : Messages \cup {NoSubject},
                                           a : Approvals \cup {NoApproval}, n : Nat]
    BY DEF At, SenderSteps
  <2>3. sender' = [sender EXCEPT ![s] = At("check", m, approval_id[m], 0)]
        \/ sender' = [sender EXCEPT ![s] = At("refuse", m, NoApproval, 0)]
    BY <1>2 DEF Begin
  <2>4. sender' \in SenderType
    BY <1>0, <2>1, <2>2, <2>3 DEF OutboundTypeOK, SenderType
  <2> QED
    BY <1>1, <1>2, <2>4 DEF Begin, historyVars
<1>3. CASE Check(s) \/ Consume(s) \/ Claim(s)
  <2>1. \E pc \in SenderSteps : Goto(s, pc)
    BY <1>3 DEF Check, Consume, Claim, SenderSteps
  <2>2. sender' \in SenderType
    BY <1>0, <2>1, Going
  <2> QED
    BY <1>1, <1>3, <2>2 DEF Check, Consume, Claim, historyVars
<1>4. CASE Refuse(s)
  <2>1. sender[s].m \in Messages /\ sender' \in SenderType
    BY <1>0, <1>4, Leaving DEF Refuse, HandsOK
  <2> QED
    BY <1>0, <1>4, <2>1, RefusedTypes DEF Refuse, OutboundTypeOK, SenderType
<1>5. CASE MarkSending(s)
  <2>1. sender[s].m \in Messages
    BY <1>5 DEF MarkSending, HandsOK
  <2>2. /\ mstatus' \in [Messages -> MessageStates] /\ sendings' \in [Messages -> Nat]
        /\ UNCHANGED <<approval_id, provider_message_id, historyVars, held, bounced>>
    BY <1>5, <2>1 DEF MarkSending, Transition, OutboundTypeOK, MessageStates
  <2>3. CASE SenderDone(s)
    BY <1>0, <2>2, <2>3, Leaving DEF OutboundTypeOK, SenderType, historyVars
  <2>4. CASE sender' = [sender EXCEPT ![s].pc = "send", ![s].n = sendings[sender[s].m] + 1]
    <3>1. sendings[sender[s].m] + 1 \in Nat
      BY <2>1 DEF OutboundTypeOK
    <3>2. sender' \in SenderType
      BY <1>0, <2>4, <3>1 DEF SenderType, SenderSteps
    <3> QED
      BY <1>0, <2>2, <3>2 DEF OutboundTypeOK, SenderType, historyVars
  <2> QED
    BY <1>5, <2>3, <2>4 DEF MarkSending
<1>6. CASE DeliverInternal(s) \/ Dispatch(s)
  <2> DEFINE m == sender[s].m
             n == sender[s].n
             a == sender[s].a
  <2>1. m \in Messages /\ n \in Nat /\ a \in Approvals
    BY <1>0, <1>6 DEF DeliverInternal, Dispatch, HandsOK, SenderType, PAID, AWAY
  <2>2. dispatches' = dispatches \cup {[m |-> m, n |-> n, a |-> a]}
    BY <1>6 DEF DeliverInternal, Dispatch
  <2>3. dispatches' \subseteq [m : Messages, n : Nat, a : Approvals]
    BY <2>1, <2>2 DEF OutboundTypeOK
  <2>4. mstatus' \in [Messages -> MessageStates] /\ UNCHANGED <<approval_id, sendings, provider_message_id, interrupted, misread, dropped, bounced>>
    BY <1>6, <2>1 DEF DeliverInternal, Dispatch, Transition, OutboundTypeOK, MessageStates, messageVars
  <2>5. sender' \in SenderType
    <3>1. CASE DeliverInternal(s)
      BY <1>0, <3>1, Leaving DEF DeliverInternal
    <3>2. CASE Dispatch(s)
      <4>1. \E pc \in SenderSteps : Goto(s, pc)
        BY <3>2 DEF Dispatch, SenderSteps
      <4> QED
        BY <1>0, <4>1, Going
    <3> QED
      BY <1>6, <3>1, <3>2
  <2>6. held \subseteq held' /\ held' \subseteq Messages \X Nat
    BY <1>6, <2>1 DEF DeliverInternal, Dispatch, OutboundTypeOK
  <2> QED
    BY <1>0, <2>3, <2>4, <2>5, <2>6 DEF OutboundTypeOK, SenderType
<1>7. CASE Record(s)
  <2>1. sender[s].m \in Messages /\ sender[s].n \in Nat
    BY <1>0, <1>7 DEF Record, HandsOK, OutcomeStatus, SenderType
  <2>2. mstatus' \in [Messages -> MessageStates] /\ provider_message_id' \in [Messages -> Nat]
    BY <1>7, <2>1 DEF Record, Transition, OutboundTypeOK, MessageStates, OutcomeStatus
  <2> QED
    BY <1>0, <1>7, <2>2, Leaving DEF Record, OutboundTypeOK, SenderType, historyVars
<1>8. CASE SenderCrash(s)
  <2>1. sender[s].a = NoApproval \/ sender[s].a \in Approvals
    BY <1>0 DEF SenderType
  <2> QED
    BY <1>0, <1>1, <1>8, <2>1, Leaving DEF SenderCrash
<1> QED
  BY <1>2, <1>3, <1>4, <1>5, <1>6, <1>7, <1>8 DEF SenderNext

OperatorType == [Operators -> [pc : OperatorSteps, m : Messages \cup {NoSubject},
                               a : Approvals \cup {NoApproval}, n : MessageStates \cup {"none"}]]

(* What the step of one operator makes of the operators.                    *)
LEMMA Operating ==
  ASSUME operator \in OperatorType, NEW o \in Operators
  PROVE  /\ OperatorDone(o) => operator' \in OperatorType /\ operator'[o].pc = "idle"
         /\ \A pc \in OperatorSteps, m \in Messages \cup {NoSubject}, a \in Approvals \cup {NoApproval},
               n \in MessageStates \cup {"none"} :
              OperatorAt(o, pc, m, a, n) => operator' \in OperatorType /\ operator'[o] = At(pc, m, a, n)
         /\ \A q \in Operators \ {o} :
              OperatorDone(o) \/ (\E pc, m, a, n : OperatorAt(o, pc, m, a, n)) => operator'[q] = operator[q]
BY DEF OperatorType, OperatorDone, OperatorAt, IdleOperator, At, OperatorSteps

LEMMA OperatorTypes ==
  ASSUME OutboundTypeOK, HandsOK, TypeOK', NEW o \in Operators, OperatorNext(o)
  PROVE  OutboundTypeOK'
<1>0. operator \in OperatorType /\ OnlyOperator
  BY DEF OutboundTypeOK, OperatorType, OperatorNext, RequestApproval, Withdraw, DecideApproval, CancelApproval, AttachApproval,
     MarkApprovedRead, MarkApproved, OperatorRefuse, OperatorCrash
<1>1. ASSUME operator' \in OperatorType, mstatus' \in [Messages -> MessageStates], approval_id' \in [Messages -> Approvals \cup {NoApproval}],
             UNCHANGED <<sendings, provider_message_id>>, interrupted' \subseteq Messages
      PROVE  OutboundTypeOK'
  BY <1>0, <1>1 DEF OutboundTypeOK, OperatorType, OnlyOperator
<1>2. ASSUME operator' \in OperatorType, UNCHANGED <<messageVars, interrupted>> PROVE OutboundTypeOK'
  BY <1>1, <1>2 DEF OutboundTypeOK, messageVars
<1>3. ASSUME NEW m \in Messages, RequestApproval(o, m) \/ Withdraw(o, m) PROVE OutboundTypeOK'
  <2>1. mstatus[m] \in MessageStates /\ {"attach", "refuse"} \subseteq OperatorSteps
    BY DEF OutboundTypeOK, OperatorSteps
  <2>2. \E pc \in {"attach", "refuse"}, a \in Approvals \cup {NoApproval}, n \in {mstatus[m], "none"} : OperatorAt(o, pc, m, a, n)
    BY <1>3 DEF RequestApproval, Withdraw, HoldersOf
  <2>3. operator' \in OperatorType
    BY <1>0, <2>1, <2>2, Operating
  <2> QED
    BY <1>2, <1>3, <2>3 DEF RequestApproval, Withdraw
<1>4. ASSUME NEW a \in Approvals, DecideApproval(o, a) \/ CancelApproval(o, a) PROVE OutboundTypeOK'
  <2>1. subject[a] \in Messages \cup {NoSubject} /\ {"mark_read", "refuse"} \subseteq OperatorSteps
    BY DEF OutboundTypeOK, TypeOK, OperatorSteps, Messages
  <2>2. \E pc \in {"mark_read", "refuse"} : OperatorAt(o, pc, subject[a], NoApproval, "none")
    BY <1>4 DEF DecideApproval, CancelApproval
  <2>3. operator' \in OperatorType
    BY <1>0, <2>1, <2>2, Operating
  <2> QED
    BY <1>2, <1>4, <2>3 DEF DecideApproval, CancelApproval
<1>5. CASE MarkApprovedRead(o)
  <2>1. OperatorDone(o) \/ (operator[o].m \in Messages /\ OperatorAt(o, "mark", operator[o].m, approval_id[operator[o].m], "none"))
    BY <1>5 DEF MarkApprovedRead, HandsOK
  <2>2. \A m \in Messages : approval_id[m] \in Approvals \cup {NoApproval}
    BY DEF OutboundTypeOK
  <2>3. operator' \in OperatorType
    BY <1>0, <2>1, <2>2, Operating DEF OperatorSteps
  <2> QED
    BY <1>2, <1>5, <2>3 DEF MarkApprovedRead
<1>6. CASE AttachApproval(o)
  <2>1. operator[o].m \in Messages /\ operator[o].a \in Approvals
    BY <1>6 DEF AttachApproval, HandsOK
  <2>2. mstatus' \in [Messages -> MessageStates] /\ approval_id' \in [Messages -> Approvals \cup {NoApproval}]
    BY <1>6, <2>1 DEF AttachApproval, Transition, OutboundTypeOK, MessageStates
  <2> QED
    BY <1>0, <1>1, <1>6, <2>2, Operating DEF AttachApproval, OutboundTypeOK
<1>7. CASE MarkApproved(o)
  <2>1. operator[o].m \in Messages
    BY <1>7 DEF MarkApproved, HandsOK
  <2>2. mstatus' \in [Messages -> MessageStates]
    BY <1>7, <2>1 DEF MarkApproved, Transition, OutboundTypeOK, MessageStates
  <2> QED
    BY <1>0, <1>1, <1>7, <2>2, Operating DEF MarkApproved, OutboundTypeOK
<1>8. CASE OperatorRefuse(o)
  <2>1. operator[o].m \in Messages
    BY <1>8 DEF OperatorRefuse, HandsOK
  <2> QED
    BY <1>0, <1>1, <1>8, <2>1, Operating, RefusedTypes DEF OperatorRefuse, OutboundTypeOK
<1>9. CASE OperatorCrash(o)
  BY <1>0, <1>2, <1>9, Operating DEF OperatorCrash
<1> QED
  BY <1>3, <1>4, <1>5, <1>6, <1>7, <1>8, <1>9 DEF OperatorNext

ReconcilerType == [Reconcilers -> [pc : ReconcilerSteps, m : Messages \cup {NoSubject}, a : {NoApproval}, n : Nat]]

(* What the step of one reconciler makes of the reconcilers.                *)
LEMMA Reconciling ==
  ASSUME reconciler \in ReconcilerType, sendings \in [Messages -> Nat], NEW r \in Reconcilers
  PROVE  /\ reconciler' = [reconciler EXCEPT ![r] = Idle] => reconciler' \in ReconcilerType /\ reconciler'[r] = Idle
         /\ \A m \in Messages : Locate(r, m) =>
              /\ reconciler' \in ReconcilerType /\ reconciler'[r].m = m /\ reconciler'[r].n = sendings[m]
              /\ reconciler'[r].pc = IF <<m, sendings[m]>> \in held THEN "found" ELSE "not_found"
         /\ \A q \in Reconcilers \ {r} :
              reconciler' = [reconciler EXCEPT ![r] = Idle] \/ (\E m : Locate(r, m)) => reconciler'[q] = reconciler[q]
<1>1. Idle \in [pc : ReconcilerSteps, m : Messages \cup {NoSubject}, a : {NoApproval}, n : Nat]
  BY DEF Idle, At, ReconcilerSteps
<1>2. ASSUME NEW m \in Messages, Locate(r, m)
      PROVE  /\ reconciler' \in ReconcilerType /\ reconciler'[r].m = m /\ reconciler'[r].n = sendings[m]
             /\ reconciler'[r].pc = IF <<m, sendings[m]>> \in held THEN "found" ELSE "not_found"
  <2> DEFINE pc == IF <<m, sendings[m]>> \in held THEN "found" ELSE "not_found"
  <2>1. reconciler' = [reconciler EXCEPT ![r] = [pc |-> pc, m |-> m, a |-> NoApproval, n |-> sendings[m]]]
    BY <1>2 DEF Locate, At
  <2>2. pc \in ReconcilerSteps
    BY DEF ReconcilerSteps
  <2> HIDE DEF pc
  <2>3. reconciler' \in ReconcilerType
    BY <2>1, <2>2 DEF ReconcilerType
  <2> QED
    BY <2>1, <2>2, <2>3 DEF ReconcilerType, pc
<1> QED
  BY <1>1, <1>2 DEF ReconcilerType, Locate

LEMMA OtherTypes ==
  ASSUME OutboundTypeOK, HandsOK, TypeOK',
         \/ \E r \in Reconcilers : (\E m \in Messages : Locate(r, m)) \/ Reconcile(r) \/ ReconcilerCrash(r)
         \/ \E m \in Messages : Bounce(m) \/ \E b \in BOOLEAN : SetCleared(m, b)
         \/ \E a \in Approvals : Expiry(a)
  PROVE  OutboundTypeOK'
<1>0. reconciler \in ReconcilerType /\ sendings \in [Messages -> Nat]
  BY DEF OutboundTypeOK, ReconcilerType
<1>1. ASSUME NEW r \in Reconcilers, NEW m \in Messages, Locate(r, m) PROVE OutboundTypeOK'
  BY <1>0, <1>1, Reconciling DEF Locate, OutboundTypeOK, ReconcilerType, messageVars, historyVars
<1>2. ASSUME NEW r \in Reconcilers, Reconcile(r) PROVE OutboundTypeOK'
  <2>1. reconciler[r].m \in Messages /\ reconciler[r].n \in Nat
    BY <1>0, <1>2 DEF Reconcile, HandsOK, ReconcilerType
  <2>2. /\ mstatus' \in [Messages -> MessageStates] /\ provider_message_id' \in [Messages -> Nat] /\ misread' \subseteq Messages
    BY <1>2, <2>1 DEF Reconcile, Transition, OutboundTypeOK, MessageStates
  <2>3. reconciler' \in ReconcilerType
    BY <1>0, <1>2, Reconciling DEF Reconcile
  <2> QED
    BY <1>2, <2>2, <2>3 DEF Reconcile, OutboundTypeOK, ReconcilerType
<1>3. ASSUME NEW r \in Reconcilers, ReconcilerCrash(r) PROVE OutboundTypeOK'
  BY <1>0, <1>3, Reconciling DEF ReconcilerCrash, OutboundTypeOK, ReconcilerType, messageVars, historyVars
<1>4. ASSUME NEW m \in Messages, Bounce(m) PROVE OutboundTypeOK'
  <2>1. bounced' \subseteq held' /\ mstatus' \in [Messages -> MessageStates]
    BY <1>4 DEF Bounce, Transition, OutboundTypeOK, MessageStates
  <2> QED
    BY <1>4, <2>1 DEF Bounce, OutboundTypeOK, historyVars
<1>5. ASSUME NEW m \in Messages, NEW b \in BOOLEAN, SetCleared(m, b) PROVE OutboundTypeOK'
  BY <1>5 DEF SetCleared, OutboundTypeOK, messageVars, historyVars
<1>6. ASSUME NEW a \in Approvals, Expiry(a) PROVE OutboundTypeOK'
  BY <1>6 DEF Expiry, OutboundTypeOK, messageVars, historyVars
<1> QED
  BY <1>1, <1>2, <1>3, <1>4, <1>5, <1>6

-----------------------------------------------------------------------------
(* The approvals that a step leaves raised, and about what.                 *)
LEMMA RaisedStay ==
  ASSUME IInv, [Next]_approvalVars, HandsOK, NEW a \in Approvals, status[a] # "absent"
  PROVE  status'[a] # "absent" /\ subject'[a] = subject[a] /\ subject'[a] \in Messages
BY QueueMoves DEF HandsOK

SenderHand(s) ==
  /\ sender[s].pc # "idle" => sender[s].m \in Messages
  /\ sender[s].pc \in PAID \cup {"consume", "claim"} => sender[s].a \in Approvals
  /\ sender[s].pc = "claim" => /\ claim[s] = sender[s].a /\ status[sender[s].a] # "absent"
                               /\ subject[sender[s].a] = sender[s].m
OperatorHand(o) ==
  /\ operator[o].pc # "idle" => operator[o].m \in Messages
  /\ operator[o].pc = "attach" => operator[o].a \in Approvals /\ operator[o].n \in MessageStates
ReconcilerHand(r) ==
  reconciler[r] # Idle => reconciler[r].pc \in {"found", "not_found"} /\ reconciler[r].m \in Messages
AboutMessages == \A a \in Approvals : status[a] # "absent" => subject[a] \in Messages

LEMMA Hands ==
  ASSUME (\A s \in Senders : SenderHand(s))', (\A o \in Operators : OperatorHand(o))',
         (\A r \in Reconcilers : ReconcilerHand(r))', AboutMessages'
  PROVE  HandsOK'
BY DEF HandsOK, SenderHand, OperatorHand, ReconcilerHand, AboutMessages

(* A sender whose turn it is not keeps what it has, as does its claim.      *)
LEMMA WaitingSender ==
  ASSUME IInv, HandsOK, [Next]_approvalVars, NEW s \in Senders, sender'[s] = sender[s], claim'[s] = claim[s]
  PROVE  SenderHand(s)'
BY RaisedStay DEF HandsOK, SenderHand

LEMMA SenderHands ==
  ASSUME IInv, OutboundTypeOK, HandsOK, [Next]_approvalVars, NEW s \in Senders, SenderNext(s)
  PROVE  HandsOK'
<1>0. sender \in SenderType /\ UNCHANGED <<cleared, operator, reconciler>>
  BY DEF OutboundTypeOK, SenderType, SenderNext, Begin, Check, Consume, Claim, Refuse, MarkSending, DeliverInternal, Dispatch,
     Record, SenderCrash, OnlySender
<1>1. (\A o \in Operators : OperatorHand(o))' /\ (\A r \in Reconcilers : ReconcilerHand(r))'
  BY <1>0 DEF HandsOK, OperatorHand, ReconcilerHand
<1>2. AboutMessages'
  BY RaisedStay DEF SenderNext, Begin, Check, Consume, Claim, Refuse, MarkSending, DeliverInternal, Dispatch, Record, SenderCrash,
     AboutMessages, approvalVars, RefreshBlocks, ConsumeCheck, ConsumeClaim, ConsumeLost, WorkerCrash
<1>3. ASSUME NEW t \in Senders \ {s} PROVE SenderHand(t)'
  <2>1. claim'[t] = claim[t]
    BY DEF IInv, TypeOK, Senders, SenderNext, Begin, Check, Consume, Claim, Refuse, MarkSending, DeliverInternal, Dispatch, Record,
       SenderCrash, approvalVars, RefreshBlocks, ConsumeCheck, ConsumeClaim, ConsumeLost, WorkerCrash
  <2>2. sender'[t] = sender[t]
    BY <1>0 DEF SenderType, SenderNext, Begin, Check, Consume, Claim, Refuse, MarkSending, DeliverInternal, Dispatch, Record,
       SenderCrash, Goto, SenderDone
  <2> QED
    BY <2>1, <2>2, WaitingSender
<1>4. SenderHand(s)'
  <2>1. CASE SenderDone(s)
    BY <1>0, <2>1, Leaving DEF SenderHand, PAID, AWAY
  <2>2. ASSUME NEW m \in Messages, Begin(s, m) PROVE SenderHand(s)'
    BY <1>0, <2>2 DEF Begin, SenderHand, SenderType, At, PAID, AWAY
  <2>3. ASSUME NEW pc, Goto(s, pc), pc # "claim", sender[s].pc # "idle",
               pc \in PAID \cup {"consume"} => sender[s].a \in Approvals
        PROVE  SenderHand(s)'
    BY <1>0, <2>3, Going DEF SenderHand, HandsOK
  <2>4. CASE Check(s)
    <3>1. \/ sender[s].a \in Approvals /\ Goto(s, "consume")
          \/ Goto(s, "refuse")
      BY <1>0, <2>4 DEF Check, SenderType
    <3> QED
      BY <2>3, <2>4, <3>1 DEF Check, PAID, AWAY
  <2>5. CASE Consume(s)
    <3>1. CASE Goto(s, "refuse")
      BY <2>3, <2>5, <3>1 DEF Consume, PAID, AWAY
    <3>2. CASE ConsumeCheck(s, sender[s].a, sender[s].m) /\ Goto(s, "claim")
      <4>1. sender[s].m \in Messages /\ sender[s].a \in Approvals
        BY <2>5 DEF Consume, HandsOK
      <4>2. claim'[s] = sender[s].a /\ status'[sender[s].a] # "absent" /\ subject'[sender[s].a] = sender[s].m
        BY <3>2, <4>1 DEF ConsumeCheck, MayConsume, IInv, TypeOK, Senders
      <4> QED
        BY <1>0, <3>2, <4>1, <4>2, Going DEF SenderHand
    <3> QED
      BY <2>5, <3>1, <3>2 DEF Consume
  <2>6. CASE Claim(s)
    BY <2>3, <2>6 DEF Claim, HandsOK, PAID, AWAY
  <2>7. CASE MarkSending(s)
    <3>1. CASE sender' = [sender EXCEPT ![s].pc = "send", ![s].n = sendings[sender[s].m] + 1]
      BY <1>0, <2>7, <3>1 DEF MarkSending, SenderHand, HandsOK, PAID, AWAY, SenderType
    <3> QED
      BY <2>1, <2>7, <3>1 DEF MarkSending
  <2>8. CASE Dispatch(s)
    <3>1. \E pc \in {"accepted", "rejected", "lost"} : Goto(s, pc)
      BY <2>8 DEF Dispatch
    <3> QED
      BY <2>3, <2>8, <3>1 DEF Dispatch, HandsOK, PAID, AWAY
  <2> QED
    BY <2>1, <2>2, <2>4, <2>5, <2>6, <2>7, <2>8 DEF SenderNext, Refuse, DeliverInternal, Record, SenderCrash
<1> QED
  BY <1>1, <1>2, <1>3, <1>4, Hands

LEMMA OperatorHands ==
  ASSUME IInv, OutboundTypeOK, HandsOK, [Next]_approvalVars, NEW o \in Operators, OperatorNext(o)
  PROVE  HandsOK'
<1>0. operator \in OperatorType /\ UNCHANGED <<sender, reconciler>>
  BY DEF OutboundTypeOK, OperatorType, OperatorNext, RequestApproval, Withdraw, DecideApproval, CancelApproval, AttachApproval,
     MarkApprovedRead, MarkApproved, OperatorRefuse, OperatorCrash, OnlyOperator
<1>1. claim' = claim
  BY DEF OperatorNext, RequestApproval, Withdraw, DecideApproval, CancelApproval, AttachApproval, MarkApprovedRead, MarkApproved,
     OperatorRefuse, OperatorCrash, approvalVars, Request, Insert, Cancel, Decide
<1>2. (\A s \in Senders : SenderHand(s))' /\ (\A r \in Reconcilers : ReconcilerHand(r))'
  <2>1. ASSUME NEW s \in Senders PROVE SenderHand(s)'
    BY <1>0, <1>1, WaitingSender
  <2>2. ASSUME NEW r \in Reconcilers PROVE ReconcilerHand(r)'
    BY <1>0 DEF HandsOK, ReconcilerHand
  <2> QED
    BY <2>1, <2>2
<1>3. AboutMessages'
  <2>1. ASSUME NEW m \in Messages, RequestApproval(o, m) PROVE AboutMessages'
    <3>1. ASSUME NEW a \in Approvals, Request(a, m, m, ~Passes(m)) PROVE AboutMessages'
      <4>1. subject' = [subject EXCEPT ![a] = m] /\ \A b \in Approvals \ {a} : status'[b] # "absent" => status[b] # "absent"
        BY <3>1 DEF Request, Insert, HoldersOf, IsExpired
      <4> QED
        BY <4>1 DEF AboutMessages, HandsOK, IInv, TypeOK
    <3>2. CASE UNCHANGED approvalVars
      BY <3>2 DEF approvalVars, AboutMessages, HandsOK
    <3> QED
      BY <2>1, <3>1, <3>2 DEF RequestApproval
  <2>2. ASSUME UNCHANGED subject, \A a \in Approvals : status'[a] # "absent" => status[a] # "absent" PROVE AboutMessages'
    BY <2>2 DEF AboutMessages, HandsOK
  <2> QED
    BY <2>1, <2>2 DEF OperatorNext, Withdraw, DecideApproval, CancelApproval, AttachApproval, MarkApprovedRead, MarkApproved,
       OperatorRefuse, OperatorCrash, approvalVars, Cancel, Decide, IInv, TypeOK
<1>4. ASSUME NEW q \in Operators PROVE OperatorHand(q)'
  <2>1. CASE OperatorDone(o) /\ q = o
    BY <1>0, <2>1, Operating DEF OperatorHand
  <2>2. CASE q # o
    <3>1. operator'[q] = operator[q]
      BY <1>0, <2>2, Operating DEF OperatorNext, RequestApproval, Withdraw, DecideApproval, CancelApproval, AttachApproval,
         MarkApprovedRead, MarkApproved, OperatorRefuse, OperatorCrash
    <3> QED
      BY <3>1 DEF HandsOK, OperatorHand
  <2>3. ASSUME NEW pc \in OperatorSteps, NEW m \in Messages, NEW a \in Approvals \cup {NoApproval}, NEW n \in MessageStates \cup {"none"},
               OperatorAt(o, pc, m, a, n), pc = "attach" => a \in Approvals /\ n \in MessageStates, q = o
        PROVE  OperatorHand(q)'
    <3>1. operator'[q] = At(pc, m, a, n)
      BY <1>0, <2>3, Operating
    <3> QED
      BY <2>3, <3>1 DEF OperatorHand, At
  <2> USE DEF OperatorSteps
  <2>4. ASSUME NEW m \in Messages, RequestApproval(o, m) \/ Withdraw(o, m), q = o PROVE OperatorHand(q)'
    <3>1. mstatus[m] \in MessageStates
      BY DEF OutboundTypeOK
    <3>2. CASE Withdraw(o, m)
      BY <2>3, <2>4, <3>2 DEF Withdraw
    <3>3. CASE RequestApproval(o, m)
      <4>1. PICK a \in Approvals : OperatorAt(o, "attach", m, a, mstatus[m])
        BY <3>3 DEF RequestApproval, HoldersOf
      <4> QED
        BY <2>3, <2>4, <3>1, <4>1
    <3> QED
      BY <2>4, <3>2, <3>3
  <2>5. ASSUME NEW a \in Approvals, DecideApproval(o, a) \/ CancelApproval(o, a), q = o PROVE OperatorHand(q)'
    <3>1. status[a] = "requested"
      BY <2>5 DEF DecideApproval, CancelApproval, Decide, Cancel
    <3>2. subject[a] \in Messages
      BY <3>1 DEF HandsOK
    <3>3. \E pc \in {"mark_read", "refuse"} : OperatorAt(o, pc, subject[a], NoApproval, "none")
      BY <2>5 DEF DecideApproval, CancelApproval
    <3> QED
      BY <2>3, <2>5, <3>2, <3>3
  <2>6. CASE MarkApprovedRead(o) /\ q = o
    <3>1. operator[o].m \in Messages
      BY <2>6 DEF MarkApprovedRead, HandsOK
    <3>2. approval_id[operator[o].m] \in Approvals \cup {NoApproval}
      BY <3>1 DEF OutboundTypeOK
    <3> QED
      BY <2>1, <2>3, <2>6, <3>1, <3>2 DEF MarkApprovedRead
  <2> QED
    BY <2>1, <2>2, <2>4, <2>5, <2>6 DEF OperatorNext, AttachApproval, MarkApproved, OperatorRefuse, OperatorCrash
<1> QED
  BY <1>2, <1>3, <1>4, Hands

LEMMA OtherHands ==
  ASSUME IInv, OutboundTypeOK, HandsOK, [Next]_approvalVars,
         \/ \E r \in Reconcilers : (\E m \in Messages : Locate(r, m)) \/ Reconcile(r) \/ ReconcilerCrash(r)
         \/ \E m \in Messages : Bounce(m) \/ \E b \in BOOLEAN : SetCleared(m, b)
         \/ \E a \in Approvals : Expiry(a)
  PROVE  HandsOK'
<1>0. /\ reconciler \in ReconcilerType /\ sendings \in [Messages -> Nat]
      /\ UNCHANGED <<sender, operator, claim, subject>>
      /\ \A a \in Approvals : status'[a] # "absent" => status[a] # "absent"
  BY DEF OutboundTypeOK, ReconcilerType, Locate, Reconcile, ReconcilerCrash, Bounce, SetCleared, Expiry, approvalVars, Lapse,
     MarkExpired, IsExpired, IInv, TypeOK
<1>1. ASSUME NEW s \in Senders PROVE SenderHand(s)'
  BY <1>0, WaitingSender
<1>2. (\A o \in Operators : OperatorHand(o))' /\ AboutMessages'
  BY <1>0 DEF HandsOK, OperatorHand, AboutMessages
<1>3. ASSUME NEW q \in Reconcilers PROVE ReconcilerHand(q)'
  <2>1. CASE UNCHANGED reconciler
    BY <2>1 DEF HandsOK, ReconcilerHand
  <2>2. ASSUME NEW r \in Reconcilers, Reconcile(r) \/ ReconcilerCrash(r) PROVE ReconcilerHand(q)'
    BY <1>0, <2>2, Reconciling DEF Reconcile, ReconcilerCrash, HandsOK, ReconcilerHand
  <2>3. ASSUME NEW r \in Reconcilers, NEW m \in Messages, Locate(r, m) PROVE ReconcilerHand(q)'
    <3>1. q # r => reconciler'[q] = reconciler[q]
      BY <1>0, <2>3, Reconciling
    <3>2. q = r => reconciler'[q].pc \in {"found", "not_found"} /\ reconciler'[q].m = m
      BY <1>0, <2>3, Reconciling
    <3> QED
      BY <3>1, <3>2 DEF HandsOK, ReconcilerHand
  <2> QED
    BY <2>1, <2>2, <2>3 DEF Bounce, SetCleared, Expiry
<1> QED
  BY <1>1, <1>2, <1>3, Hands

-----------------------------------------------------------------------------
(* What most steps do to the senders on their way: nothing, or one of them  *)
(* is back.                                                                 *)
StaysPaid(s) == sender'[s].pc \in PAID =>
  /\ sender[s].pc \in PAID /\ sender'[s].a = sender[s].a /\ sender'[s].m = sender[s].m
  /\ sender'[s].pc \in {"mark", "send"} => sender[s].pc \in {"mark", "send"}
SameAway(s) == sender'[s].pc \in AWAY =>
  sender'[s].pc = sender[s].pc /\ sender'[s].m = sender[s].m /\ sender'[s].n = sender[s].n

LEMMA QuietSender ==
  ASSUME OutboundTypeOK, NEW s \in Senders,
         \/ (\E m \in Messages : Begin(s, m)) \/ Check(s) \/ Consume(s) \/ Refuse(s) \/ Record(s) \/ SenderCrash(s)
         \/ (Claim(s) /\ Goto(s, "refuse")) \/ (MarkSending(s) /\ SenderDone(s))
  PROVE  /\ \A t \in Senders : StaysPaid(t) /\ SameAway(t)
         /\ UNCHANGED <<sendings, dispatches, held>>
<1>0. sender \in SenderType
  BY DEF OutboundTypeOK, SenderType
<1> USE DEF StaysPaid, SameAway, PAID, AWAY
<1>1. ASSUME NEW m \in Messages, Begin(s, m) PROVE \A t \in Senders : StaysPaid(t) /\ SameAway(t)
  BY <1>0, <1>1 DEF Begin, SenderType, At
<1>2. ASSUME NEW pc, Goto(s, pc), pc \notin PAID PROVE \A t \in Senders : StaysPaid(t) /\ SameAway(t)
  BY <1>0, <1>2, Going
<1>3. ASSUME SenderDone(s) PROVE \A t \in Senders : StaysPaid(t) /\ SameAway(t)
  BY <1>0, <1>3, Leaving
<1>4. \A t \in Senders : StaysPaid(t) /\ SameAway(t)
  <2>1. ASSUME Goto(s, "consume") \/ Goto(s, "claim") \/ Goto(s, "refuse")
        PROVE  \A t \in Senders : StaysPaid(t) /\ SameAway(t)
    BY <1>2, <2>1
  <2> QED
    BY <1>1, <1>3, <2>1 DEF Check, Consume, Refuse, Record, SenderCrash
<1>5. UNCHANGED <<sendings, dispatches, held>>
  <2>1. ASSUME MarkSending(s), SenderDone(s) PROVE UNCHANGED <<sendings, dispatches, held>>
    <3>1. sender'[s].pc = "idle"
      BY <1>0, <2>1, Leaving
    <3>2. sender' # [sender EXCEPT ![s].pc = "send", ![s].n = sendings[sender[s].m] + 1]
      BY <1>0, <3>1 DEF SenderType
    <3> QED
      BY <2>1, <3>2 DEF MarkSending, historyVars
  <2> QED
    BY <2>1 DEF Begin, Check, Consume, Refuse, Record, SenderCrash, Claim, messageVars, historyVars, MarkRefused
<1> QED
  BY <1>4, <1>5

LEMMA SpentStay ==
  ASSUME IInv, OutboundTypeOK, PaidOnce, [Next]_approvalVars, dispatches' = dispatches
  PROVE  OneDispatchPerApproval'
<1>1. ASSUME NEW d \in dispatches PROVE execution'[d.a] = "consumed" /\ subject'[d.a] = d.m
  <2>1. PICK a \in Approvals : a = d.a
    BY DEF OutboundTypeOK
  <2>2. execution[a] = "consumed" /\ subject[a] = d.m
    BY <2>1 DEF PaidOnce, OneDispatchPerApproval
  <2>3. execution'[a] = "consumed" /\ subject'[a] = subject[a]
    BY <2>2, QueueMoves
  <2> QED
    BY <2>1, <2>2, <2>3
<1> QED
  BY <1>1 DEF PaidOnce, OneDispatchPerApproval

LEMMA PaidFrame ==
  ASSUME IInv, OutboundTypeOK, HandsOK, PaidOnce, [Next]_approvalVars, dispatches' = dispatches, \A s \in Senders : StaysPaid(s)
  PROVE  PaidOnce'
<1>1. ASSUME NEW s \in Senders, sender'[s].pc \in PAID
      PROVE  (execution[sender[s].a] = "consumed" /\ subject[sender[s].a] = sender[s].m)'
  <2>1. PICK a \in Approvals : a = sender[s].a
    BY <1>1 DEF StaysPaid, HandsOK
  <2>2. execution[a] = "consumed" /\ subject[a] = sender[s].m
    BY <1>1, <2>1 DEF StaysPaid, PaidOnce
  <2>3. execution'[a] = "consumed" /\ subject'[a] = sender[s].m
    BY <2>2, QueueMoves
  <2> QED
    BY <1>1, <2>1, <2>3 DEF StaysPaid
<1>2. ASSUME NEW s \in Senders, NEW t \in Senders, sender'[s].pc \in PAID, sender'[t].pc \in PAID, sender'[s].a = sender'[t].a
      PROVE  s = t
  BY <1>2 DEF StaysPaid, PaidOnce
<1>3. ASSUME NEW d \in dispatches, NEW s \in Senders, sender'[s].pc \in {"mark", "send"}
      PROVE  d.a # sender'[s].a
  BY <1>3 DEF StaysPaid, PaidOnce, PAID, AWAY
<1>4. OneDispatchPerApproval'
  BY SpentStay
<1> QED
  BY <1>1, <1>2, <1>3, <1>4 DEF PaidOnce

(* The one that wins the claim is alone with the approval.                  *)
LEMMA PaidClaim ==
  ASSUME IInv, OutboundTypeOK, HandsOK, PaidOnce, [Next]_approvalVars, NEW s \in Senders, Claim(s), Goto(s, "mark")
  PROVE  PaidOnce'
<1> DEFINE a == sender[s].a
           m == sender[s].m
<1>0. sender \in SenderType /\ dispatches' = dispatches
  BY DEF OutboundTypeOK, SenderType, Claim, historyVars
<1>1. a \in Approvals /\ subject[a] = m /\ execution[a] = "pending"
      /\ execution' = [execution EXCEPT ![a] = "consumed"] /\ subject' = subject
  <2>1. sender[s].pc = "claim" /\ claim[s] = a /\ a \in Approvals /\ subject[a] = m
    BY DEF Claim, HandsOK
  <2>2. ConsumeClaim(s)
    BY <1>0, Going DEF Claim
  <2> QED
    BY <2>1, <2>2 DEF ConsumeClaim, CanClaim
<1>2. execution'[a] = "consumed" /\ subject'[a] = m
  BY <1>1 DEF IInv, TypeOK
<1>3. /\ \A t \in Senders \ {s} : sender'[t] = sender[t]
      /\ sender'[s].pc = "mark" /\ sender'[s].m = m /\ sender'[s].a = a
  BY <1>0, Going
<1>4. \A t \in Senders : sender[t].pc \in PAID => sender[t].a # a
  BY <1>1 DEF PaidOnce
<1>5. \A d \in dispatches : d.a # a
  BY <1>1 DEF PaidOnce, OneDispatchPerApproval
<1>6. ASSUME NEW t \in Senders, sender'[t].pc \in PAID
      PROVE  (execution[sender[t].a] = "consumed" /\ subject[sender[t].a] = sender[t].m)'
  <2>1. CASE t = s
    BY <1>2, <1>3, <2>1
  <2>2. CASE t # s
    <3>1. PICK b \in Approvals : b = sender[t].a /\ execution[b] = "consumed" /\ subject[b] = sender[t].m
      BY <1>3, <1>6, <2>2 DEF HandsOK, PaidOnce
    <3>2. execution'[b] = "consumed" /\ subject'[b] = subject[b]
      BY <3>1, QueueMoves
    <3> QED
      BY <1>3, <2>2, <3>1, <3>2
  <2> QED
    BY <2>1, <2>2
<1>7. ASSUME NEW t \in Senders, NEW u \in Senders, sender'[t].pc \in PAID, sender'[u].pc \in PAID, sender'[t].a = sender'[u].a
      PROVE  t = u
  BY <1>3, <1>4, <1>7 DEF PaidOnce
<1>8. ASSUME NEW d \in dispatches, NEW t \in Senders, sender'[t].pc \in {"mark", "send"}
      PROVE  d.a # sender'[t].a
  BY <1>3, <1>5, <1>8 DEF PaidOnce
<1>9. OneDispatchPerApproval'
  BY <1>0, SpentStay
<1> QED
  BY <1>0, <1>6, <1>7, <1>8, <1>9 DEF PaidOnce

(* What it paid for is spent in one dispatch.                               *)
LEMMA PaidDispatch ==
  ASSUME IInv, OutboundTypeOK, HandsOK, PaidOnce, NEW s \in Senders, DeliverInternal(s) \/ Dispatch(s)
  PROVE  PaidOnce'
<1> DEFINE d0 == [m |-> sender[s].m, n |-> sender[s].n, a |-> sender[s].a]
<1>0. sender \in SenderType /\ dispatches' = dispatches \cup {d0} /\ sender[s].pc = "send" /\ UNCHANGED <<execution, subject>>
  BY DEF OutboundTypeOK, SenderType, DeliverInternal, Dispatch, approvalVars
<1>1. /\ \A t \in Senders \ {s} : sender'[t] = sender[t]
      /\ sender'[s].pc \notin {"mark", "send"}
      /\ sender'[s].pc \in PAID => sender'[s].a = sender[s].a /\ sender'[s].m = sender[s].m
  <2>1. CASE SenderDone(s)
    BY <1>0, <2>1, Leaving DEF PAID, AWAY
  <2>2. ASSUME NEW pc \in {"accepted", "rejected", "lost"}, Goto(s, pc)
        PROVE  /\ \A t \in Senders \ {s} : sender'[t] = sender[t]
               /\ sender'[s].pc \notin {"mark", "send"}
               /\ sender'[s].pc \in PAID => sender'[s].a = sender[s].a /\ sender'[s].m = sender[s].m
    BY <1>0, <2>2, Going
  <2> QED
    BY <2>1, <2>2 DEF DeliverInternal, Dispatch
<1>2. execution[d0.a] = "consumed" /\ subject[d0.a] = d0.m /\ \A d \in dispatches : d.a # d0.a
  BY <1>0 DEF PaidOnce, PAID, AWAY
<1> HIDE DEF d0
<1>3. ASSUME NEW t \in Senders, sender'[t].pc \in PAID
      PROVE  (execution[sender[t].a] = "consumed" /\ subject[sender[t].a] = sender[t].m)'
  BY <1>0, <1>1, <1>3 DEF PaidOnce, PAID, AWAY
<1>4. ASSUME NEW t \in Senders, NEW u \in Senders, sender'[t].pc \in PAID, sender'[u].pc \in PAID, sender'[t].a = sender'[u].a
      PROVE  t = u
  BY <1>0, <1>1, <1>4 DEF PaidOnce, PAID, AWAY
<1>5. ASSUME NEW d \in dispatches', NEW t \in Senders, sender'[t].pc \in {"mark", "send"}
      PROVE  d.a # sender'[t].a
  <2>1. t # s /\ sender'[t] = sender[t]
    BY <1>1, <1>5
  <2>2. sender[t].a # sender[s].a
    BY <1>0, <1>5, <2>1 DEF PaidOnce, PAID, AWAY
  <2> QED
    BY <1>0, <1>5, <2>1, <2>2 DEF PaidOnce, d0
<1>6. OneDispatchPerApproval'
  BY <1>0, <1>2 DEF PaidOnce, OneDispatchPerApproval
<1> QED
  BY <1>3, <1>4, <1>5, <1>6 DEF PaidOnce

LEMMA PaidStep ==
  ASSUME IInv, OutboundTypeOK, HandsOK, PaidOnce, OutboundNext, [Next]_approvalVars
  PROVE  PaidOnce'
<1>1. CASE UNCHANGED <<sender, dispatches>>
  BY <1>1, PaidFrame DEF StaysPaid
<1>2. ASSUME NEW s \in Senders, SenderNext(s) PROVE PaidOnce'
  <2>1. CASE MarkSending(s)
    <3>1. CASE sender' = [sender EXCEPT ![s].pc = "send", ![s].n = sendings[sender[s].m] + 1]
      <4>1. \A t \in Senders : StaysPaid(t)
        BY <2>1, <3>1 DEF MarkSending, StaysPaid, PAID, AWAY, OutboundTypeOK
      <4> QED
        BY <2>1, <4>1, PaidFrame DEF MarkSending, historyVars
    <3> QED
      BY <2>1, <3>1, QuietSender, PaidFrame DEF MarkSending
  <2>2. CASE Claim(s)
    BY <2>2, PaidClaim, QuietSender, PaidFrame DEF Claim
  <2> QED
    BY <1>2, <2>1, <2>2, PaidDispatch, QuietSender, PaidFrame DEF SenderNext
<1> QED
  BY <1>1, <1>2 DEF OutboundNext, OperatorNext, RequestApproval, Withdraw, DecideApproval, CancelApproval, AttachApproval,
     MarkApprovedRead, MarkApproved, OperatorRefuse, OperatorCrash, OnlyOperator, Locate, Reconcile, ReconcilerCrash, Bounce,
     SetCleared, Expiry, historyVars

-----------------------------------------------------------------------------
LEMMA KeysFrame ==
  ASSUME KeysOK, UNCHANGED <<sendings, dispatches, held>>, \A s \in Senders : SameAway(s)
  PROVE  KeysOK'
<1> USE DEF SameAway
<1>1. ASSUME NEW s \in Senders, sender'[s].pc \in AWAY PROVE sender'[s].n \in 1..sendings[sender'[s].m]
  BY <1>1 DEF KeysOK
<1>2. ASSUME NEW s \in Senders, NEW t \in Senders, sender'[s].pc \in AWAY, sender'[t].pc \in AWAY,
             sender'[s].m = sender'[t].m, sender'[s].n = sender'[t].n
      PROVE  s = t
  BY <1>2 DEF KeysOK
<1>3. ASSUME NEW d \in dispatches, NEW s \in Senders, sender'[s].pc = "send"
      PROVE  d.m # sender'[s].m \/ d.n # sender'[s].n
  BY <1>3 DEF KeysOK, AWAY
<1> QED
  BY <1>1, <1>2, <1>3 DEF KeysOK, KeysNeverReused

(* A new attempt is numbered past all others.                               *)
LEMMA KeysNew ==
  ASSUME OutboundTypeOK, HandsOK, KeysOK, NEW s \in Senders, MarkSending(s),
         sender' = [sender EXCEPT ![s].pc = "send", ![s].n = sendings[sender[s].m] + 1]
  PROVE  /\ KeysOK' /\ sendings' = [sendings EXCEPT ![sender[s].m] = @ + 1]
         /\ \A t \in Senders \ {s} : sender'[t] = sender[t]
         /\ sender'[s].pc = "send" /\ sender'[s].m = sender[s].m /\ sender'[s].n = sendings[sender[s].m] + 1
         /\ Transition(sender[s].m, "approved", "sending")
<1> DEFINE m == sender[s].m
<1>0. sender \in SenderType /\ sendings \in [Messages -> Nat] /\ m \in Messages
      /\ UNCHANGED <<dispatches, held>>
  BY DEF OutboundTypeOK, SenderType, MarkSending, HandsOK, historyVars
<1>1. /\ \A t \in Senders \ {s} : sender'[t] = sender[t]
      /\ sender'[s].pc = "send" /\ sender'[s].m = m /\ sender'[s].n = sendings[m] + 1
  BY <1>0 DEF SenderType
<1>2. sendings' = [sendings EXCEPT ![m] = @ + 1] /\ Transition(m, "approved", "sending")
  <2>1. ~SenderDone(s)
    BY <1>0, <1>1, Leaving
  <2> QED
    BY <2>1 DEF MarkSending
<1>3. sendings'[m] = sendings[m] + 1 /\ \A x \in Messages : sendings'[x] \in Nat /\ sendings[x] \in Nat /\ sendings[x] <= sendings'[x]
  BY <1>0, <1>2
<1> HIDE DEF m
<1>4. ASSUME NEW t \in Senders, sender'[t].pc \in AWAY PROVE sender'[t].n \in 1..sendings'[sender'[t].m]
  <2>1. CASE t = s
    BY <1>0, <1>1, <1>3, <2>1
  <2>2. CASE t # s
    <3>1. sender'[t] = sender[t]
      BY <1>1, <2>2
    <3>2. PICK x \in Messages : x = sender[t].m
      BY <1>4, <3>1 DEF HandsOK, AWAY
    <3>3. sender[t].n \in 1..sendings[x]
      BY <1>4, <3>1, <3>2 DEF KeysOK
    <3>4. sender[t].n \in 1..sendings'[x]
      BY <1>3, <3>3
    <3> QED
      BY <3>1, <3>2, <3>4
  <2> QED
    BY <2>1, <2>2
<1>5. ASSUME NEW t \in Senders \ {s}, sender[t].pc \in AWAY, sender[t].m = m PROVE sender[t].n # sendings[m] + 1
  BY <1>0, <1>5 DEF KeysOK
<1>6. ASSUME NEW t \in Senders, NEW u \in Senders, sender'[t].pc \in AWAY, sender'[u].pc \in AWAY,
             sender'[t].m = sender'[u].m, sender'[t].n = sender'[u].n
      PROVE  t = u
  <2>1. CASE t # s /\ u # s
    <3>1. sender'[t] = sender[t] /\ sender'[u] = sender[u]
      BY <1>1, <2>1
    <3> QED
      BY <1>6, <3>1 DEF KeysOK
  <2>2. CASE t = s /\ u # s
    BY <1>1, <1>5, <1>6, <2>2
  <2>3. CASE t # s /\ u = s
    BY <1>1, <1>5, <1>6, <2>3
  <2> QED
    BY <2>1, <2>2, <2>3
<1>7. ASSUME NEW d \in dispatches PROVE d.m \in Messages /\ d.n \in 1..sendings[d.m] /\ d.n \in 1..sendings'[d.m]
  <2>1. d.m \in Messages /\ d.n \in 1..sendings[d.m]
    BY DEF OutboundTypeOK, KeysOK
  <2> QED
    BY <1>3, <2>1
<1>8. ASSUME NEW d \in dispatches, NEW t \in Senders, sender'[t].pc = "send"
      PROVE  d.m # sender'[t].m \/ d.n # sender'[t].n
  <2>1. CASE t = s
    BY <1>0, <1>1, <1>7, <2>1
  <2>2. CASE t # s
    <3>1. sender'[t] = sender[t]
      BY <1>1, <2>2
    <3>2. sender[t].pc = "send"
      BY <1>8, <3>1
    <3>3. d.m # sender[t].m \/ d.n # sender[t].n
      BY <3>2 DEF KeysOK
    <3> QED
      BY <3>1, <3>3
  <2> QED
    BY <2>1, <2>2
<1>9. KeysOK'
  <2>1. \A x \in Messages, n \in Nat : <<x, n>> \in held' =>
          x \notin InternalMessages /\ \E d \in dispatches' : d.m = x /\ d.n = n
    BY <1>0 DEF KeysOK
  <2>2. KeysNeverReused' /\ \A d \in dispatches' : d.n \in 1..sendings'[d.m]
    BY <1>0, <1>7 DEF KeysOK, KeysNeverReused
  <2>3. \A d \in dispatches', t \in Senders : sender'[t].pc = "send" => d.m # sender'[t].m \/ d.n # sender'[t].n
    BY <1>0, <1>8
  <2> QED
    BY <1>4, <1>6, <2>1, <2>2, <2>3 DEF KeysOK
<1> QED
  BY <1>1, <1>2, <1>9 DEF m

(* A dispatch uses the key its sender alone has.                            *)
LEMMA KeysDispatch ==
  ASSUME OutboundTypeOK, HandsOK, KeysOK, NEW s \in Senders, DeliverInternal(s) \/ Dispatch(s)
  PROVE  KeysOK'
<1> DEFINE m == sender[s].m
           n == sender[s].n
           d0 == [m |-> m, n |-> n, a |-> sender[s].a]
<1>0. /\ sender \in SenderType /\ dispatches' = dispatches \cup {d0} /\ sender[s].pc = "send" /\ sendings' = sendings
      /\ m \in Messages /\ n \in 1..sendings[m]
  BY DEF OutboundTypeOK, SenderType, DeliverInternal, Dispatch, messageVars, HandsOK, KeysOK, AWAY
<1>1. /\ \A t \in Senders \ {s} : sender'[t] = sender[t]
      /\ sender'[s].pc # "send"
      /\ sender'[s].pc \in AWAY => sender'[s].m = m /\ sender'[s].n = n
  <2>1. ASSUME SenderDone(s)
        PROVE  sender'[s].pc \notin AWAY /\ \A t \in Senders \ {s} : sender'[t] = sender[t]
    BY <1>0, <2>1, Leaving DEF AWAY
  <2>2. ASSUME NEW pc \in {"accepted", "rejected", "lost"}, Goto(s, pc)
        PROVE  /\ \A t \in Senders \ {s} : sender'[t] = sender[t]
               /\ sender'[s].pc # "send" /\ sender'[s].m = m /\ sender'[s].n = n
    BY <1>0, <2>2, Going
  <2> QED
    BY <2>1, <2>2 DEF DeliverInternal, Dispatch, AWAY
<1>2. \A x \in Messages, k \in Nat : <<x, k>> \in held' =>
        <<x, k>> \in held \/ (x = m /\ k = n /\ m \notin InternalMessages)
  BY DEF DeliverInternal, Dispatch
<1>3. \A d \in dispatches : d.m # m \/ d.n # n
  BY <1>0 DEF KeysOK
<1>4. \A t \in Senders \ {s} : sender[t].pc \in AWAY => sender[t].m # m \/ sender[t].n # n
  BY <1>0 DEF KeysOK, AWAY
<1>5. d0.m = m /\ d0.n = n
  OBVIOUS
<1> HIDE DEF d0, m, n
<1>6. ASSUME NEW t \in Senders, sender'[t].pc \in AWAY PROVE sender'[t].n \in 1..sendings'[sender'[t].m]
  BY <1>0, <1>1, <1>6 DEF KeysOK
<1>7. ASSUME NEW t \in Senders, NEW u \in Senders, sender'[t].pc \in AWAY, sender'[u].pc \in AWAY,
             sender'[t].m = sender'[u].m, sender'[t].n = sender'[u].n
      PROVE  t = u
  BY <1>1, <1>4, <1>7 DEF KeysOK
<1>8. ASSUME NEW d \in dispatches' PROVE d.n \in 1..sendings'[d.m]
  BY <1>0, <1>5, <1>8 DEF KeysOK
<1>9. ASSUME NEW d \in dispatches', NEW t \in Senders, sender'[t].pc = "send"
      PROVE  d.m # sender'[t].m \/ d.n # sender'[t].n
  BY <1>0, <1>1, <1>4, <1>5, <1>9 DEF KeysOK, AWAY
<1>10. ASSUME NEW x \in Messages, NEW k \in Nat, <<x, k>> \in held'
       PROVE  x \notin InternalMessages /\ \E d \in dispatches' : d.m = x /\ d.n = k
  BY <1>0, <1>2, <1>5, <1>10 DEF KeysOK
<1>11. KeysNeverReused'
  BY <1>0, <1>3, <1>5 DEF KeysOK, KeysNeverReused
<1> QED
  BY <1>6, <1>7, <1>8, <1>9, <1>10, <1>11 DEF KeysOK

LEMMA KeysStep ==
  ASSUME OutboundTypeOK, HandsOK, KeysOK, OutboundNext
  PROVE  KeysOK'
<1>1. CASE UNCHANGED <<sender, sendings, dispatches, held>>
  BY <1>1, KeysFrame DEF SameAway
<1>2. ASSUME NEW s \in Senders, SenderNext(s) PROVE KeysOK'
  <2>1. CASE MarkSending(s)
    BY <2>1, KeysNew, QuietSender, KeysFrame DEF MarkSending
  <2>2. CASE Claim(s)
    <3>1. sender \in SenderType
      BY DEF OutboundTypeOK, SenderType
    <3>2. UNCHANGED <<sendings, dispatches, held>>
      BY <2>2 DEF Claim, messageVars, historyVars
    <3>3. \A t \in Senders : SameAway(t)
      BY <2>2, <3>1, Going DEF Claim, SameAway, AWAY
    <3> QED
      BY <3>2, <3>3, KeysFrame
  <2> QED
    BY <1>2, <2>1, <2>2, KeysDispatch, QuietSender, KeysFrame DEF SenderNext
<1> QED
  BY <1>1, <1>2 DEF OutboundNext, OperatorNext, RequestApproval, Withdraw, DecideApproval, CancelApproval, AttachApproval,
     MarkApprovedRead, MarkApproved, OperatorRefuse, OperatorCrash, OnlyOperator, Locate, Reconcile, ReconcilerCrash, Bounce,
     SetCleared, Expiry, historyVars, messageVars, MarkRefused

-----------------------------------------------------------------------------
(* A step that leaves alone what the record of m is about, or moves it      *)
(* among the states in which nothing of it is with the client.              *)
QUIET == {"draft", "pending_approval", "approved", "failed", "blocked"}

Calm(m) == ~Excused(m)' =>
  /\ ~Excused(m) /\ sendings'[m] = sendings[m] /\ provider_message_id'[m] = provider_message_id[m]
  /\ \A n \in Nat : /\ <<m, n>> \in held' <=> <<m, n>> \in held
                    /\ <<m, n>> \in bounced' <=> <<m, n>> \in bounced
  /\ mstatus'[m] = mstatus[m] \/ {mstatus[m], mstatus'[m]} \subseteq QUIET

LEMMA CalmRecord ==
  ASSUME OutboundTypeOK, RecordsOK, NEW m \in Messages, Calm(m)
  PROVE  RecordOK(m)'
<1>1. sendings[m] \in Nat /\ RecordOK(m)
  BY DEF OutboundTypeOK, RecordsOK
<1> SUFFICES ASSUME ~Excused(m)'
             PROVE  /\ \A n \in Nat : <<m, n>> \in held' /\ <<m, n>> \notin bounced' =>
                         n = sendings'[m] /\ mstatus'[m] \in {"sending", "outcome_unknown", "sent"}
                    /\ mstatus'[m] = "sent" => provider_message_id'[m] = sendings'[m] /\ <<m, sendings'[m]>> \in held'
  BY DEF RecordOK
<1> QED
  BY <1>1 DEF RecordOK, Calm, QUIET

LEMMA CalmAway ==
  ASSUME OutboundTypeOK, HandsOK, RecordsOK, NEW s \in Senders, SameAway(s), NEW m, m = sender[s].m, Calm(m)
  PROVE  AwayOK(s)'
<1>1. sender[s].n \in Nat /\ AwayOK(s)
  BY DEF OutboundTypeOK, RecordsOK
<1> SUFFICES ASSUME sender'[s].pc \in AWAY, ~Excused(m)'
             PROVE  /\ mstatus'[m] = "sending" /\ sender'[s].n = sendings'[m]
                    /\ sender'[s].pc = "accepted" => <<m, sender'[s].n>> \in held'
                    /\ sender'[s].pc = "rejected" => <<m, sender'[s].n>> \notin held'
  <2>1. sender'[s].pc \in AWAY => sender'[s].m = m
    BY DEF SameAway
  <2> QED
    BY <2>1 DEF AwayOK, Excused
<1>2. ~Excused(m) /\ mstatus[m] = "sending" /\ sender[s].n = sendings[m]
  BY <1>1 DEF AwayOK, Calm, SameAway
<1> QED
  BY <1>1, <1>2 DEF AwayOK, Calm, SameAway, QUIET

LEMMA CalmAnswer ==
  ASSUME OutboundTypeOK, RecordsOK, NEW r \in Reconcilers, reconciler'[r] = reconciler[r], NEW m, m = reconciler[r].m, Calm(m)
  PROVE  AnswerOK(r)'
<1>1. reconciler[r].n \in Nat /\ AnswerOK(r)
  BY DEF OutboundTypeOK, RecordsOK
<1> SUFFICES ASSUME reconciler[r] # Idle, ~Excused(m)'
             PROVE  /\ reconciler[r].n <= sendings'[m]
                    /\ reconciler[r].n = sendings'[m] => mstatus'[m] # "sending"
                    /\ (reconciler[r].pc = "found") = (<<m, reconciler[r].n>> \in held')
  BY DEF AnswerOK, Excused, Idle, At
<1> QED
  BY <1>1 DEF AnswerOK, Calm, QUIET

LEMMA IdleAnswer ==
  ASSUME NEW r \in Reconcilers, reconciler'[r] = Idle
  PROVE  AnswerOK(r)'
BY DEF AnswerOK, Idle, At

LEMMA RecordsFrame ==
  ASSUME OutboundTypeOK, HandsOK, RecordsOK, \A m \in Messages : Calm(m), \A s \in Senders : SameAway(s),
         \A r \in Reconcilers : reconciler'[r] = reconciler[r] \/ reconciler'[r] = Idle
  PROVE  RecordsOK'
<1>1. ASSUME NEW m \in Messages PROVE RecordOK(m)'
  BY CalmRecord
<1>2. ASSUME NEW s \in Senders PROVE AwayOK(s)'
  <2>1. CASE sender'[s].pc \in AWAY
    <3>1. sender[s].m \in Messages
      BY <2>1 DEF HandsOK, SameAway, AWAY
    <3> QED
      BY <3>1, CalmAway
  <2>2. CASE sender'[s].pc \notin AWAY
    BY <2>2 DEF AwayOK
  <2> QED
    BY <2>1, <2>2
<1>3. ASSUME NEW r \in Reconcilers PROVE AnswerOK(r)'
  <2>1. CASE reconciler'[r] = Idle
    BY <2>1, IdleAnswer
  <2>2. CASE reconciler'[r] # Idle
    <3>1. reconciler'[r] = reconciler[r] /\ reconciler[r].m \in Messages
      BY <2>2 DEF HandsOK
    <3> QED
      BY <3>1, CalmAnswer
  <2> QED
    BY <2>1, <2>2
<1> QED
  BY <1>1, <1>2, <1>3 DEF RecordsOK

(* The same when one message m is not calm, given what becomes of it.       *)
LEMMA RecordsAbout ==
  ASSUME OutboundTypeOK, HandsOK, RecordsOK, NEW m \in Messages, \A x \in Messages \ {m} : Calm(x),
         RecordOK(m)',
         \A s \in Senders : SameAway(s) \/ sender'[s].m = m,
         \A r \in Reconcilers : reconciler'[r] = reconciler[r] \/ reconciler'[r] = Idle,
         \A s \in Senders : sender'[s].pc \in AWAY /\ sender'[s].m = m /\ ~Excused(m)' => AwayOK(s)',
         \A r \in Reconcilers : reconciler'[r] = reconciler[r] /\ reconciler[r] # Idle /\ reconciler[r].m = m /\ ~Excused(m)'
           => AnswerOK(r)'
  PROVE  RecordsOK'
<1>1. ASSUME NEW x \in Messages PROVE RecordOK(x)'
  BY CalmRecord
<1>2. ASSUME NEW s \in Senders PROVE AwayOK(s)'
  <2>1. CASE sender'[s].pc \notin AWAY \/ (sender'[s].m = m /\ Excused(m)')
    BY <2>1 DEF AwayOK, Excused
  <2>2. CASE sender'[s].pc \in AWAY /\ sender'[s].m # m
    <3>1. SameAway(s)
      BY <2>2
    <3>2. sender[s].m \in Messages \ {m}
      BY <2>2, <3>1 DEF HandsOK, SameAway, AWAY
    <3> QED
      BY <3>1, <3>2, CalmAway
  <2> QED
    BY <2>1, <2>2
<1>3. ASSUME NEW r \in Reconcilers PROVE AnswerOK(r)'
  <2>1. CASE reconciler'[r] = Idle
    BY <2>1, IdleAnswer
  <2>2. CASE reconciler'[r] # Idle
    <3>1. reconciler'[r] = reconciler[r] /\ reconciler[r].m \in Messages
      BY <2>2 DEF HandsOK
    <3>2. CASE reconciler[r].m = m /\ Excused(m)'
      BY <3>1, <3>2 DEF AnswerOK, Excused
    <3> QED
      BY <2>2, <3>1, <3>2, CalmAnswer
  <2> QED
    BY <2>1, <2>2
<1> QED
  BY <1>1, <1>2, <1>3 DEF RecordsOK

(* A new attempt sets out from a message that nobody has.                   *)
LEMMA RecordsNew ==
  ASSUME OutboundTypeOK, HandsOK, KeysOK, RecordsOK, NEW s \in Senders, MarkSending(s),
         sender' = [sender EXCEPT ![s].pc = "send", ![s].n = sendings[sender[s].m] + 1]
  PROVE  RecordsOK'
<1>1. PICK m \in Messages : m = sender[s].m
  BY DEF MarkSending, HandsOK
<1>2. /\ sendings' = [sendings EXCEPT ![m] = @ + 1]
      /\ \A t \in Senders \ {s} : sender'[t] = sender[t]
      /\ sender'[s].pc = "send" /\ sender'[s].m = m /\ sender'[s].n = sendings[m] + 1
      /\ mstatus[m] = "approved" /\ mstatus' = [mstatus EXCEPT ![m] = "sending"]
      /\ sendings \in [Messages -> Nat] /\ mstatus \in [Messages -> MessageStates]
      /\ UNCHANGED <<provider_message_id, interrupted, misread, held, bounced, reconciler>>
  BY <1>1, KeysNew DEF MarkSending, Transition, OutboundTypeOK, historyVars, OnlySender
<1>3. \A x \in Messages \ {m} : Calm(x)
  BY <1>2 DEF Calm, Excused
<1>4. RecordOK(m)'
  <2>1. RecordOK(m) /\ mstatus'[m] = "sending" /\ (~Excused(m)' => ~Excused(m))
    BY <1>2 DEF RecordsOK, Excused
  <2>2. \A n \in Nat : ~Excused(m)' /\ <<m, n>> \in held' => <<m, n>> \in bounced'
    BY <1>2, <2>1 DEF RecordOK
  <2> QED
    BY <2>1, <2>2 DEF RecordOK
<1>5. ASSUME NEW t \in Senders, sender'[t].pc \in AWAY, sender'[t].m = m, ~Excused(m)' PROVE AwayOK(t)'
  <2>1. CASE t = s
    <3>1. sender'[t].pc = "send" /\ sender'[t].m = m /\ mstatus'[m] = "sending" /\ sender'[t].n = sendings'[m]
      BY <1>2, <2>1
    <3> QED
      BY <3>1 DEF AwayOK
  <2>2. CASE t # s
    <3>1. AwayOK(t) /\ sender[t].pc \in AWAY /\ sender[t].m = m /\ ~Excused(m)
      BY <1>2, <1>5, <2>2 DEF RecordsOK, Excused
    <3>2. mstatus[m] = "sending"
      BY <3>1 DEF AwayOK
    <3> QED
      BY <1>2, <3>2
  <2> QED
    BY <2>1, <2>2
<1>6. ASSUME NEW r \in Reconcilers, reconciler[r] # Idle, reconciler[r].m = m, ~Excused(m)' PROVE AnswerOK(r)'
  <2>1. reconciler[r].n \in Nat /\ sendings[m] \in Nat /\ sendings'[m] = sendings[m] + 1
    BY <1>2 DEF OutboundTypeOK
  <2>2. AnswerOK(r) /\ ~Excused(m)
    BY <1>2, <1>6 DEF RecordsOK, Excused
  <2>3. /\ reconciler[r].n <= sendings[m]
        /\ (reconciler[r].pc = "found") = (<<m, reconciler[r].n>> \in held)
    BY <1>6, <2>2 DEF AnswerOK
  <2>4. reconciler'[r] = reconciler[r] /\ reconciler[r].n <= sendings'[m] /\ reconciler[r].n # sendings'[m] /\ held' = held
    BY <1>2, <2>1, <2>3
  <2> QED
    BY <1>6, <2>3, <2>4 DEF AnswerOK, Idle, At
<1>7. \A t \in Senders : SameAway(t) \/ sender'[t].m = m
  BY <1>2 DEF SameAway
<1>8. \A r \in Reconcilers : reconciler'[r] = reconciler[r]
  BY <1>2
<1> QED
  BY <1>3, <1>4, <1>5, <1>6, <1>7, <1>8, RecordsAbout

(* An unexcused message has one sender on its way.                          *)
LEMMA AloneAway ==
  ASSUME OutboundTypeOK, HandsOK, KeysOK, RecordsOK, NEW m \in Messages, ~Excused(m),
         NEW s \in Senders, sender[s].pc \in AWAY, sender[s].m = m
  PROVE  /\ mstatus[m] = "sending" /\ sender[s].n = sendings[m]
         /\ \A t \in Senders : sender[t].pc \in AWAY /\ sender[t].m = m => t = s
<1>1. \A t \in Senders : sender[t].pc \in AWAY /\ sender[t].m = m => mstatus[m] = "sending" /\ sender[t].n = sendings[m]
  BY DEF RecordsOK, AwayOK
<1> QED
  BY <1>1 DEF KeysOK

LEMMA RecordsDispatch ==
  ASSUME OutboundTypeOK, HandsOK, KeysOK, RecordsOK, NEW s \in Senders, Dispatch(s)
  PROVE  RecordsOK'
<1>1. PICK m \in Messages : m = sender[s].m
  BY DEF Dispatch, HandsOK
<1>2. PICK n \in Nat : n = sender[s].n
  BY DEF OutboundTypeOK
<1>3. PICK outcome \in {"accepted", "rejected", "lost"}, accepts \in BOOLEAN :
        /\ outcome = "accepted" => accepts
        /\ outcome = "rejected" => ~accepts
        /\ Goto(s, outcome)
        /\ held' = IF accepts THEN held \cup {<<m, n>>} ELSE held
  BY <1>1, <1>2 DEF Dispatch
<1>4. /\ sender[s].pc = "send"
      /\ UNCHANGED <<mstatus, sendings, provider_message_id, interrupted, misread, bounced, reconciler>>
  BY DEF Dispatch, messageVars, OnlySender
<1>5. /\ \A t \in Senders \ {s} : sender'[t] = sender[t]
      /\ sender'[s].pc = outcome /\ sender'[s].m = m /\ sender'[s].n = n
  <2>1. sender \in SenderType
    BY DEF OutboundTypeOK, SenderType
  <2> QED
    BY <1>1, <1>2, <1>3, <2>1, Going
<1>6. \A x \in Messages, k \in Nat : <<x, k>> # <<m, n>> => (<<x, k>> \in held' <=> <<x, k>> \in held)
  BY <1>3
<1>7. <<m, n>> \notin held
  BY <1>1, <1>2, <1>4 DEF KeysOK
<1>8. \A x \in Messages \ {m} : Calm(x)
  <2>1. ASSUME NEW x \in Messages \ {m} PROVE \A k \in Nat : (<<x, k>> \in held' <=> <<x, k>> \in held)
    BY <1>6
  <2> QED
    BY <1>4, <2>1 DEF Calm, Excused
<1>9. ASSUME ~Excused(m)
      PROVE  /\ mstatus[m] = "sending" /\ n = sendings[m]
             /\ \A t \in Senders : sender[t].pc \in AWAY /\ sender[t].m = m => t = s
  BY <1>1, <1>2, <1>4, <1>9, AloneAway DEF AWAY
<1>10. RecordOK(m)'
  <2>1. RecordOK(m) /\ (~Excused(m)' => ~Excused(m))
    BY <1>4 DEF RecordsOK, Excused
  <2>2. ASSUME ~Excused(m)', NEW k \in Nat, <<m, k>> \in held', <<m, k>> \notin bounced' PROVE k = sendings[m]
    BY <1>4, <1>6, <1>9, <2>1, <2>2 DEF RecordOK
  <2>3. ~Excused(m)' => mstatus[m] = "sending"
    BY <1>9, <2>1
  <2> QED
    BY <1>4, <2>2, <2>3 DEF RecordOK
<1>11. ASSUME NEW t \in Senders, sender'[t].pc \in AWAY, sender'[t].m = m, ~Excused(m)' PROVE AwayOK(t)'
  <2>1. ~Excused(m)
    BY <1>4, <1>11 DEF Excused
  <2>2. t = s
    BY <1>5, <1>9, <1>11, <2>1
  <2>3. outcome = "accepted" => <<m, n>> \in held'
    BY <1>3
  <2>4. outcome = "rejected" => <<m, n>> \notin held'
    BY <1>3, <1>7
  <2> QED
    BY <1>4, <1>5, <1>9, <2>1, <2>2, <2>3, <2>4 DEF AwayOK
<1>12. ASSUME NEW r \in Reconcilers, reconciler[r] # Idle, reconciler[r].m = m, ~Excused(m)' PROVE AnswerOK(r)'
  <2>1. AnswerOK(r) /\ ~Excused(m) /\ reconciler[r].n \in Nat
    BY <1>4, <1>12 DEF RecordsOK, Excused, OutboundTypeOK
  <2>2. reconciler[r].n # n
    BY <1>9, <1>12, <2>1 DEF AnswerOK
  <2>3. <<m, reconciler[r].n>> \in held' <=> <<m, reconciler[r].n>> \in held
    BY <1>6, <2>1, <2>2
  <2> QED
    BY <1>4, <1>12, <2>1, <2>3 DEF AnswerOK
<1>13. \A t \in Senders : SameAway(t) \/ sender'[t].m = m
  BY <1>5 DEF SameAway
<1>14. \A r \in Reconcilers : reconciler'[r] = reconciler[r]
  BY <1>4
<1> QED
  BY <1>8, <1>10, <1>11, <1>12, <1>13, <1>14, RecordsAbout

LEMMA RecordsRecord ==
  ASSUME OutboundTypeOK, HandsOK, KeysOK, RecordsOK, NEW s \in Senders, Record(s)
  PROVE  RecordsOK'
<1>1. PICK m \in Messages : m = sender[s].m
  BY DEF Record, HandsOK, OutcomeStatus
<1>2. PICK n \in Nat : n = sender[s].n
  BY DEF OutboundTypeOK
<1>3. PICK outcome \in {"accepted", "rejected", "lost"} : outcome = sender[s].pc
  BY DEF Record, OutcomeStatus
<1>4. /\ UNCHANGED <<sendings, interrupted, misread, held, bounced, reconciler>>
      /\ \A t \in Senders : SameAway(t)
      /\ sender'[s].pc = "idle"
  <2>1. sender \in SenderType
    BY DEF OutboundTypeOK, SenderType
  <2> QED
    BY <2>1, QuietSender, Leaving DEF Record, historyVars, OnlySender
<1>5. CASE UNCHANGED <<mstatus, provider_message_id>>
  <2>1. \A x \in Messages : Calm(x)
    BY <1>4, <1>5 DEF Calm, Excused
  <2> QED
    BY <1>4, <2>1, RecordsFrame
<1>6. CASE /\ mstatus[m] = "sending" /\ mstatus' = [mstatus EXCEPT ![m] = OutcomeStatus[outcome]]
           /\ provider_message_id' = IF outcome = "accepted" THEN [provider_message_id EXCEPT ![m] = n]
                                     ELSE provider_message_id
  <2>1. \A x \in Messages \ {m} : Calm(x)
    BY <1>4, <1>6 DEF Calm, Excused, OutboundTypeOK
  <2>2. /\ mstatus'[m] = OutcomeStatus[outcome]
        /\ outcome = "accepted" => provider_message_id'[m] = n
    BY <1>6 DEF OutboundTypeOK
  <2>3. ASSUME ~Excused(m)'
        PROVE  /\ ~Excused(m) /\ n = sendings[m]
               /\ \A t \in Senders : sender[t].pc \in AWAY /\ sender[t].m = m => t = s
               /\ outcome = "accepted" => <<m, n>> \in held
               /\ outcome = "rejected" => <<m, n>> \notin held
    <3>1. ~Excused(m)
      BY <1>4, <2>3 DEF Excused
    <3>2. n = sendings[m] /\ \A t \in Senders : sender[t].pc \in AWAY /\ sender[t].m = m => t = s
      BY <1>1, <1>2, <1>3, <3>1, AloneAway DEF AWAY
    <3>3. AwayOK(s)
      BY DEF RecordsOK
    <3> QED
      BY <1>1, <1>2, <1>3, <3>1, <3>2, <3>3 DEF AwayOK, AWAY
  <2>4. RecordOK(m)'
    <3>1. RecordOK(m)
      BY DEF RecordsOK
    <3>2. ASSUME ~Excused(m)', NEW k \in Nat, <<m, k>> \in held', <<m, k>> \notin bounced'
          PROVE  k = sendings[m] /\ outcome \in {"accepted", "lost"}
      <4>1. k = sendings[m]
        BY <1>4, <2>3, <3>1, <3>2 DEF RecordOK
      <4>2. outcome # "rejected"
        BY <1>4, <2>3, <3>2, <4>1
      <4> QED
        BY <4>1, <4>2
    <3>3. outcome \in {"accepted", "lost"} => mstatus'[m] \in {"sent", "outcome_unknown"}
      BY <2>2 DEF OutcomeStatus
    <3>4. mstatus'[m] = "sent" => outcome = "accepted"
      BY <2>2 DEF OutcomeStatus
    <3> QED
      BY <1>4, <2>2, <2>3, <3>2, <3>3, <3>4 DEF RecordOK
  <2>5. ASSUME NEW t \in Senders, sender'[t].pc \in AWAY, sender'[t].m = m, ~Excused(m)' PROVE AwayOK(t)'
    <3>1. sender[t].pc \in AWAY /\ sender[t].m = m
      BY <1>4, <2>5 DEF SameAway
    <3>2. t = s
      BY <2>3, <2>5, <3>1
    <3> QED
      BY <1>4, <2>5, <3>2 DEF AWAY
  <2>6. ASSUME NEW r \in Reconcilers, reconciler[r] # Idle, reconciler[r].m = m, ~Excused(m)' PROVE AnswerOK(r)'
    <3>1. AnswerOK(r) /\ ~Excused(m) /\ mstatus'[m] # "sending"
      BY <2>2, <2>3, <2>6 DEF RecordsOK, OutcomeStatus
    <3> QED
      BY <1>4, <2>6, <3>1 DEF AnswerOK
  <2>7. \A r \in Reconcilers : reconciler'[r] = reconciler[r]
    BY <1>4
  <2> QED
    BY <1>4, <2>1, <2>4, <2>5, <2>6, <2>7, RecordsAbout
<1> QED
  BY <1>1, <1>2, <1>3, <1>5, <1>6 DEF Record, Transition

LEMMA RecordsLocate ==
  ASSUME OutboundTypeOK, HandsOK, RecordsOK, NEW r \in Reconcilers, NEW m \in Messages, Locate(r, m)
  PROVE  RecordsOK'
<1>1. /\ mstatus[m] = "outcome_unknown" /\ sendings[m] \in Nat
      /\ UNCHANGED <<sender, mstatus, sendings, provider_message_id, interrupted, misread, held, bounced>>
  BY DEF Locate, messageVars, historyVars, OutboundTypeOK
<1>2. /\ reconciler'[r].m = m /\ reconciler'[r].n = sendings[m]
      /\ reconciler'[r].pc = IF <<m, sendings[m]>> \in held THEN "found" ELSE "not_found"
      /\ \A q \in Reconcilers \ {r} : reconciler'[q] = reconciler[q]
  <2>1. reconciler \in ReconcilerType /\ sendings \in [Messages -> Nat]
    BY DEF OutboundTypeOK, ReconcilerType
  <2> QED
    BY <2>1, Reconciling
<1>3. \A x \in Messages : Calm(x)
  BY <1>1 DEF Calm, Excused
<1>4. \A x \in Messages : RecordOK(x)'
  BY <1>3, CalmRecord
<1>5. ASSUME NEW s \in Senders PROVE AwayOK(s)'
  BY <1>1, <1>5 DEF RecordsOK, AwayOK, Excused
<1>6. ASSUME NEW q \in Reconcilers PROVE AnswerOK(q)'
  <2>1. CASE q = r
    BY <1>1, <1>2, <2>1 DEF AnswerOK
  <2>2. CASE q # r
    BY <1>1, <1>2, <2>2 DEF RecordsOK, AnswerOK, Excused, Idle, At
  <2> QED
    BY <2>1, <2>2
<1> QED
  BY <1>4, <1>5, <1>6 DEF RecordsOK

(* A message whose outcome is unknown, or that is sent, has nobody on its   *)
(* way to it.                                                               *)
LEMMA RecordsSettled ==
  ASSUME OutboundTypeOK, HandsOK, RecordsOK, NEW m \in Messages, \A x \in Messages \ {m} : Calm(x), RecordOK(m)',
         ~Excused(m)' => ~Excused(m) /\ mstatus[m] # "sending", mstatus'[m] # "sending", UNCHANGED <<sender, sendings, held>>,
         \A q \in Reconcilers : reconciler'[q] = reconciler[q] \/ reconciler'[q] = Idle
  PROVE  RecordsOK'
<1>1. ASSUME NEW s \in Senders, sender'[s].pc \in AWAY, sender'[s].m = m, ~Excused(m)' PROVE AwayOK(s)'
  BY <1>1 DEF RecordsOK, AwayOK
<1>2. ASSUME NEW q \in Reconcilers, reconciler'[q] = reconciler[q], reconciler[q] # Idle, reconciler[q].m = m, ~Excused(m)'
      PROVE  AnswerOK(q)'
  BY <1>2 DEF RecordsOK, AnswerOK
<1>3. \A s \in Senders : SameAway(s)
  BY DEF SameAway
<1> QED
  BY <1>1, <1>2, <1>3, RecordsAbout

LEMMA RecordsReconcile ==
  ASSUME OutboundTypeOK, HandsOK, RecordsOK, NEW r \in Reconcilers, Reconcile(r)
  PROVE  RecordsOK'
<1>1. PICK m \in Messages : m = reconciler[r].m
  BY DEF Reconcile, HandsOK
<1>2. PICK n \in Nat : n = reconciler[r].n
  BY DEF OutboundTypeOK
<1>3. PICK found \in BOOLEAN : found = (reconciler[r].pc = "found")
  OBVIOUS
<1>4. /\ UNCHANGED <<sender, sendings, interrupted, held, bounced>> /\ reconciler[r] # Idle
      /\ \A q \in Reconcilers : reconciler'[q] = reconciler[q] \/ reconciler'[q] = Idle
  BY DEF Reconcile, OutboundTypeOK
<1>5. CASE UNCHANGED <<mstatus, provider_message_id, misread>>
  <2>1. (\A x \in Messages : Calm(x)) /\ \A s \in Senders : SameAway(s)
    BY <1>4, <1>5 DEF Calm, Excused, SameAway
  <2> QED
    BY <1>4, <2>1, RecordsFrame
<1>6. CASE /\ mstatus[m] = "outcome_unknown" /\ mstatus' = [mstatus EXCEPT ![m] = IF found THEN "sent" ELSE "failed"]
           /\ provider_message_id' = IF found THEN [provider_message_id EXCEPT ![m] = n] ELSE provider_message_id
           /\ misread' = IF n = sendings[m] THEN misread ELSE misread \cup {m}
  <2>1. \A x \in Messages \ {m} : Calm(x)
    BY <1>4, <1>6 DEF Calm, Excused, OutboundTypeOK
  <2>2. /\ mstatus'[m] = IF found THEN "sent" ELSE "failed"
        /\ found => provider_message_id'[m] = n
        /\ ~Excused(m)' => ~Excused(m) /\ n = sendings[m]
    BY <1>4, <1>6 DEF OutboundTypeOK, Excused
  <2>3. ~Excused(m)' => (found <=> <<m, n>> \in held)
    BY <1>1, <1>2, <1>3, <1>4, <2>2 DEF RecordsOK, AnswerOK
  <2>4. RecordOK(m)'
    <3>1. RecordOK(m)
      BY DEF RecordsOK
    <3>2. ASSUME ~Excused(m)', NEW k \in Nat, <<m, k>> \in held', <<m, k>> \notin bounced' PROVE k = sendings[m] /\ found
      BY <1>4, <2>2, <2>3, <3>1, <3>2 DEF RecordOK
    <3> QED
      BY <1>4, <2>2, <2>3, <3>2 DEF RecordOK
  <2>5. mstatus'[m] # "sending"
    BY <2>2
  <2> QED
    BY <1>4, <1>6, <2>1, <2>2, <2>4, <2>5, RecordsSettled
<1> QED
  BY <1>1, <1>2, <1>3, <1>5, <1>6 DEF Reconcile, Transition

LEMMA RecordsBounce ==
  ASSUME OutboundTypeOK, HandsOK, RecordsOK, NEW m \in Messages, Bounce(m)
  PROVE  RecordsOK'
<1>1. /\ mstatus[m] = "sent" /\ mstatus' = [mstatus EXCEPT ![m] = "failed"]
      /\ bounced' = bounced \cup {<<m, provider_message_id[m]>>}
      /\ UNCHANGED <<sender, reconciler, sendings, provider_message_id, interrupted, misread, held>>
  BY DEF Bounce, Transition, historyVars
<1>2. \A x \in Messages \ {m} : Calm(x)
  <2>1. \A x \in Messages \ {m}, k \in Nat : <<x, k>> \in bounced' <=> <<x, k>> \in bounced
    BY <1>1
  <2> QED
    BY <1>1, <2>1 DEF Calm, Excused, OutboundTypeOK
<1>3. (~Excused(m)' => ~Excused(m)) /\ mstatus'[m] = "failed"
  BY <1>1 DEF Excused, OutboundTypeOK
<1>4. RecordOK(m)'
  <2>1. RecordOK(m)
    BY DEF RecordsOK
  <2>2. \A k \in Nat : ~Excused(m)' /\ <<m, k>> \in held' => <<m, k>> \in bounced'
    BY <1>1, <1>3, <2>1 DEF RecordOK
  <2> QED
    BY <1>3, <2>2 DEF RecordOK
<1>5. \A q \in Reconcilers : reconciler'[q] = reconciler[q]
  BY <1>1
<1> QED
  BY <1>1, <1>2, <1>3, <1>4, <1>5, RecordsSettled

(* A refusal moves a message to where nothing of it is with the client, or  *)
(* it is one in mid-flight, which excuses it.                               *)
LEMMA CalmRefusal ==
  ASSUME OutboundTypeOK, NEW m \in Messages, MarkRefused(m), UNCHANGED <<held, bounced, misread>>
  PROVE  \A x \in Messages : Calm(x)
<1>1. UNCHANGED <<sendings, provider_message_id>> /\ interrupted \subseteq interrupted'
  BY RefusedTypes
<1>2. \/ UNCHANGED <<mstatus, interrupted>>
      \/ /\ mstatus' = [mstatus EXCEPT ![m] = "blocked"]
         /\ mstatus[m] = "sending" /\ m \in interrupted'
      \/ /\ mstatus' = [mstatus EXCEPT ![m] = "blocked"]
         /\ mstatus[m] \in QUIET
  BY DEF MarkRefused, Transition, MESSAGE_TRANSITIONS, QUIET, MessageStates, OutboundTypeOK
<1>3. mstatus \in [Messages -> MessageStates] /\ "blocked" \in QUIET
  BY DEF OutboundTypeOK, QUIET
<1>4. CASE UNCHANGED <<mstatus, interrupted>>
  BY <1>1, <1>4 DEF Calm, Excused
<1>5. CASE mstatus' = [mstatus EXCEPT ![m] = "blocked"] /\ m \in interrupted'
  BY <1>1, <1>3, <1>5 DEF Calm, Excused
<1>6. CASE mstatus' = [mstatus EXCEPT ![m] = "blocked"] /\ mstatus[m] \in QUIET
  BY <1>1, <1>3, <1>6 DEF Calm, Excused
<1> QED
  BY <1>2, <1>4, <1>5, <1>6

LEMMA CalmSender ==
  ASSUME OutboundTypeOK, HandsOK, NEW s \in Senders,
         \/ (\E m \in Messages : Begin(s, m)) \/ Check(s) \/ Consume(s) \/ Claim(s) \/ Refuse(s)
         \/ (MarkSending(s) /\ mstatus' = mstatus) \/ DeliverInternal(s) \/ SenderCrash(s),
         sendings' = sendings
  PROVE  \A x \in Messages : Calm(x)
<1>1. CASE Refuse(s)
  <2>1. sender[s].m \in Messages
    BY <1>1 DEF Refuse, HandsOK
  <2> QED
    BY <1>1, <2>1, CalmRefusal DEF Refuse
<1>2. CASE DeliverInternal(s)
  <2>1. PICK m \in Messages : m = sender[s].m
    BY <1>2 DEF DeliverInternal, HandsOK
  <2>2. /\ m \in InternalMessages /\ \A x \in Messages \ {m} : mstatus'[x] = mstatus[x]
        /\ UNCHANGED <<sendings, provider_message_id, interrupted, misread, held, bounced>>
    BY <1>2, <2>1 DEF DeliverInternal, Transition, OutboundTypeOK
  <2> QED
    BY <2>2 DEF Calm, Excused
<1>3. ASSUME UNCHANGED <<mstatus, sendings, provider_message_id, interrupted, misread, held, bounced>>
      PROVE  \A x \in Messages : Calm(x)
  BY <1>3 DEF Calm, Excused
<1> QED
  BY <1>1, <1>2, <1>3 DEF Begin, Check, Consume, Claim, MarkSending, SenderCrash, messageVars, historyVars

LEMMA CalmOperator ==
  ASSUME OutboundTypeOK, HandsOK, NEW o \in Operators, OperatorNext(o)
  PROVE  (\A x \in Messages : Calm(x)) /\ UNCHANGED <<sender, reconciler>>
<1>1. UNCHANGED <<sender, reconciler, held, bounced, misread>>
  BY DEF OperatorNext, RequestApproval, Withdraw, DecideApproval, CancelApproval, AttachApproval, MarkApprovedRead, MarkApproved,
     OperatorRefuse, OperatorCrash, OnlyOperator
<1>2. CASE OperatorRefuse(o)
  <2>1. operator[o].m \in Messages
    BY <1>2 DEF OperatorRefuse, HandsOK
  <2> QED
    BY <1>1, <1>2, <2>1, CalmRefusal DEF OperatorRefuse
<1>3. ASSUME NEW m \in Messages, UNCHANGED <<sendings, provider_message_id, interrupted>>,
             \/ mstatus' = mstatus
             \/ \E to \in QUIET : mstatus' = [mstatus EXCEPT ![m] = to] /\ mstatus[m] \in QUIET
      PROVE  \A x \in Messages : Calm(x)
  BY <1>1, <1>3 DEF Calm, Excused, OutboundTypeOK
<1>4. CASE AttachApproval(o)
  <2>1. PICK m \in Messages : m = operator[o].m
    BY <1>4 DEF AttachApproval, HandsOK
  <2>2. PICK read \in MessageStates : read = operator[o].n
    BY <1>4 DEF AttachApproval, HandsOK
  <2>3. "pending_approval" \in MESSAGE_TRANSITIONS[read] => read \in QUIET
    BY DEF MESSAGE_TRANSITIONS, MessageStates, QUIET
  <2>4. \/ mstatus' = mstatus
        \/ mstatus' = [mstatus EXCEPT ![m] = "pending_approval"] /\ mstatus[m] \in QUIET
    BY <1>4, <2>1, <2>2, <2>3 DEF AttachApproval, Transition
  <2>5. "pending_approval" \in QUIET
    BY DEF QUIET
  <2>6. UNCHANGED <<sendings, provider_message_id, interrupted>>
    BY <1>4 DEF AttachApproval
  <2> QED
    BY <1>1, <1>3, <2>4, <2>5, <2>6
<1>5. CASE MarkApproved(o)
  <2>1. PICK m \in Messages : m = operator[o].m
    BY <1>5 DEF MarkApproved, HandsOK
  <2>2. \/ mstatus' = mstatus
        \/ mstatus' = [mstatus EXCEPT ![m] = "approved"] /\ mstatus[m] = "pending_approval"
    BY <1>5, <2>1 DEF MarkApproved, Transition
  <2>3. {"approved", "pending_approval"} \subseteq QUIET /\ UNCHANGED <<sendings, provider_message_id, interrupted>>
    BY <1>5 DEF QUIET, MarkApproved
  <2> QED
    BY <1>1, <1>3, <2>2, <2>3
<1>6. CASE UNCHANGED <<mstatus, sendings, provider_message_id, interrupted>>
  BY <1>1, <1>6 DEF Calm, Excused
<1> QED
  BY <1>1, <1>2, <1>4, <1>5, <1>6 DEF OperatorNext, RequestApproval, Withdraw, DecideApproval, CancelApproval, MarkApprovedRead,
     OperatorCrash, messageVars

LEMMA RecordsStep ==
  ASSUME OutboundTypeOK, HandsOK, KeysOK, RecordsOK, OutboundNext
  PROVE  RecordsOK'
<1>0. (UNCHANGED sender => \A t \in Senders : SameAway(t)) /\ sender \in SenderType
  BY DEF SameAway, OutboundTypeOK, SenderType
<1>1. ASSUME NEW s \in Senders, SenderNext(s) PROVE RecordsOK'
  <2>0. reconciler' = reconciler
    BY <1>1 DEF SenderNext, Begin, Check, Consume, Claim, Refuse, MarkSending, DeliverInternal, Dispatch, Record, SenderCrash, OnlySender
  <2>1. CASE MarkSending(s)
    <3>1. CASE sender' = [sender EXCEPT ![s].pc = "send", ![s].n = sendings[sender[s].m] + 1]
      BY <2>1, <3>1, RecordsNew
    <3>2. CASE sender' # [sender EXCEPT ![s].pc = "send", ![s].n = sendings[sender[s].m] + 1]
      <4>1. SenderDone(s) /\ mstatus' = mstatus /\ sendings' = sendings
        BY <2>1, <3>2 DEF MarkSending
      <4> QED
        BY <2>0, <2>1, <4>1, QuietSender, CalmSender, RecordsFrame
    <3> QED
      BY <3>1, <3>2
  <2>2. CASE Claim(s)
    <3>1. \A t \in Senders : SameAway(t)
      BY <1>0, <2>2, Going DEF Claim, SameAway, AWAY
    <3>2. sendings' = sendings
      BY <2>2 DEF Claim, messageVars
    <3> QED
      BY <2>0, <2>2, <3>1, <3>2, CalmSender, RecordsFrame
  <2>3. CASE DeliverInternal(s)
    <3>1. \A t \in Senders : SameAway(t)
      BY <1>0, <2>3, Leaving DEF DeliverInternal, SameAway, AWAY
    <3>2. sendings' = sendings
      BY <2>3 DEF DeliverInternal
    <3> QED
      BY <2>0, <2>3, <3>1, <3>2, CalmSender, RecordsFrame
  <2>4. CASE (\E m \in Messages : Begin(s, m)) \/ Check(s) \/ Consume(s) \/ Refuse(s) \/ SenderCrash(s)
    BY <2>0, <2>4, QuietSender, CalmSender, RecordsFrame
  <2> QED
    BY <1>1, <2>1, <2>2, <2>3, <2>4, RecordsDispatch, RecordsRecord DEF SenderNext
<1>2. ASSUME NEW o \in Operators, OperatorNext(o) PROVE RecordsOK'
  BY <1>0, <1>2, CalmOperator, RecordsFrame
<1>3. ASSUME NEW r \in Reconcilers, ReconcilerCrash(r) PROVE RecordsOK'
  <2>1. \A x \in Messages : Calm(x)
    BY <1>3 DEF ReconcilerCrash, Calm, Excused, messageVars, historyVars
  <2>2. UNCHANGED sender /\ \A q \in Reconcilers : reconciler'[q] = reconciler[q] \/ reconciler'[q] = Idle
    BY <1>3 DEF ReconcilerCrash, OutboundTypeOK
  <2> QED
    BY <1>0, <2>1, <2>2, RecordsFrame
<1>4. ASSUME (\E m \in Messages, b \in BOOLEAN : SetCleared(m, b)) \/ \E a \in Approvals : Expiry(a) PROVE RecordsOK'
  <2>1. (\A x \in Messages : Calm(x)) /\ UNCHANGED <<sender, reconciler>>
    BY <1>4 DEF SetCleared, Expiry, Calm, Excused, messageVars, historyVars
  <2> QED
    BY <1>0, <2>1, RecordsFrame
<1> QED
  BY <1>1, <1>2, <1>3, <1>4, RecordsLocate, RecordsReconcile, RecordsBounce DEF OutboundNext

-----------------------------------------------------------------------------
LEMMA OInvInit == OutboundInit => OInv
<1> SUFFICES ASSUME OutboundInit PROVE OInv
  OBVIOUS
<1>1. IInv
  BY InitIInv DEF OutboundInit
<1>2. OutboundTypeOK
  BY <1>1 DEF IInv, OutboundInit, OutboundTypeOK, MessageStates, Idle, IdleOperator, At, SenderSteps, OperatorSteps, ReconcilerSteps
<1>3. HandsOK
  BY DEF OutboundInit, Init, HandsOK, Idle, IdleOperator, At, PAID, AWAY
<1>4. PaidOnce
  BY DEF OutboundInit, PaidOnce, OneDispatchPerApproval, Idle, At, PAID, AWAY
<1>5. KeysOK
  BY DEF OutboundInit, KeysOK, KeysNeverReused, Idle, At, AWAY
<1>6. RecordsOK
  BY DEF OutboundInit, RecordsOK, RecordOK, AwayOK, AnswerOK, Idle, At, AWAY
<1> QED
  BY <1>1, <1>2, <1>3, <1>4, <1>5, <1>6 DEF OInv

LEMMA OInvNext == OInv /\ [OutboundNext]_vars => OInv'
<1> SUFFICES ASSUME OInv, [OutboundNext]_vars PROVE OInv'
  OBVIOUS
<1>1. CASE OutboundNext
  <2>1. [Next]_approvalVars
    BY <1>1, OnTheQueue DEF OInv
  <2>2. IInv' /\ TypeOK'
    BY <2>1, NextIInv DEF OInv, IInv
  <2>3. OutboundTypeOK'
    BY <1>1, <2>2, SenderTypes, OperatorTypes, OtherTypes DEF OInv, OutboundNext
  <2>4. HandsOK'
    BY <1>1, <2>1, SenderHands, OperatorHands, OtherHands DEF OInv, OutboundNext
  <2>5. PaidOnce' /\ KeysOK' /\ RecordsOK'
    BY <1>1, <2>1, PaidStep, KeysStep, RecordsStep DEF OInv
  <2> QED
    BY <2>2, <2>3, <2>4, <2>5 DEF OInv
<1>2. CASE UNCHANGED vars
  <2> USE <1>2 DEF vars, approvalVars, messageVars, historyVars
  <2>1. IInv'
    BY NextIInv DEF OInv
  <2>2. OutboundTypeOK' /\ HandsOK'
    BY <2>1 DEF OInv, IInv, OutboundTypeOK, HandsOK
  <2>3. PaidOnce' /\ KeysOK'
    BY DEF OInv, PaidOnce, OneDispatchPerApproval, KeysOK, KeysNeverReused
  <2>4. RecordsOK'
    BY DEF OInv, RecordsOK, RecordOK, AwayOK, AnswerOK, Excused
  <2> QED
    BY <2>1, <2>2, <2>3, <2>4 DEF OInv
<1> QED
  BY <1>1, <1>2

(* What the client has of an unexcused message is one copy at the most.     *)
LEMMA OneCopy ==
  ASSUME OInv, NEW m \in Messages, m \notin interrupted \cup misread
  PROVE  ~(Cardinality(Copies(m)) > 1)
<1>1. OutboundTypeOK /\ KeysOK /\ RecordOK(m)
  BY DEF OInv, RecordsOK
<1>2. \A key \in Copies(m) : \E n \in Nat : key = <<m, n>> /\ <<m, n>> \in held /\ <<m, n>> \notin bounced
  <2>1. ASSUME NEW key \in held \ bounced, key[1] = m
        PROVE  \E n \in Nat : key = <<m, n>> /\ <<m, n>> \in held /\ <<m, n>> \notin bounced
    <3>1. PICK x \in Messages, n \in Nat : key = <<x, n>>
      BY <1>1 DEF OutboundTypeOK
    <3>2. x = m
      BY <2>1, <3>1
    <3> QED
      BY <3>1, <3>2
  <2> QED
    BY <2>1 DEF Copies
<1>3. Copies(m) \subseteq {<<m, sendings[m]>>}
  <2>1. CASE m \in InternalMessages
    BY <1>1, <1>2, <2>1 DEF KeysOK
  <2>2. CASE m \notin InternalMessages
    BY <1>1, <1>2, <2>2 DEF RecordOK, Excused
  <2> QED
    BY <2>1, <2>2
<1>4. Cardinality({<<m, sendings[m]>>}) = 1 /\ IsFiniteSet({<<m, sendings[m]>>})
  BY FS_Singleton
<1>5. IsFiniteSet(Copies(m)) /\ Cardinality(Copies(m)) <= 1
  BY <1>3, <1>4, FS_Subset
<1>6. Cardinality(Copies(m)) \in Nat
  BY <1>5, FS_CardinalityType
<1> QED
  BY <1>5, <1>6

LEMMA OInvHolds == OInv => OutboundHolds
<1> SUFFICES ASSUME OInv PROVE OutboundHolds
  OBVIOUS
<1>1. OutboundTypeOK /\ OneDispatchPerApproval /\ KeysNeverReused
  BY DEF OInv, PaidOnce, KeysOK
<1>2. VerdictsMatchProvider
  <2>1. ASSUME NEW m \in Messages \ (InternalMessages \cup interrupted \cup misread)
        PROVE  /\ mstatus[m] = "sent" => <<m, provider_message_id[m]>> \in held
               /\ mstatus[m] = "failed" => \A n \in 1..sendings[m] : <<m, n>> \in held => <<m, n>> \in bounced
    <3>1. RecordOK(m) /\ ~Excused(m) /\ sendings[m] \in Nat
      BY DEF OInv, RecordsOK, Excused, OutboundTypeOK
    <3> QED
      BY <3>1 DEF RecordOK
  <2> QED
    BY <2>1 DEF VerdictsMatchProvider
<1>3. DuplicateHasCause
  BY OneCopy DEF DuplicateHasCause
<1> QED
  BY <1>1, <1>2, <1>3 DEF OutboundHolds

(***************************************************************************)
(* What the records of deliveries promise, for any number of senders,      *)
(* operators, reconcilers, messages and approvals: one dispatch per        *)
(* approval, each under a key of its own, a verdict the provider bears     *)
(* out, and no second copy of a message without one of the two causes.     *)
(***************************************************************************)
THEOREM DeliveriesHold == OutboundSpec => []OutboundHolds
<1>1. OInv => OutboundHolds
  BY OInvHolds
<1> QED
  BY <1>1, OInvInit, OInvNext, PTL DEF OutboundSpec

-----------------------------------------------------------------------------
(* The letters that come in.  What a filer past the matching has in hand    *)
(* are a letter and a conversation.                                         *)
MailPcs == {"idle", "take", "header", "contact", "read", "insert", "reopen", "learn", "count", "mark"}
FilerType == [at : MailPcs, batch : SUBSET Letters, letter : Letters \cup {NoLetter}, conv : Convs \cup {NoConv},
              status : ConvStatuses \cup {"none"}, learns : BOOLEAN]
LetterType == [thread : Threads, ref : Convs \cup {NoConv}, bounce : BOOLEAN]
ConvType == [status : ConvStatuses, thread : Threads \cup {NoThread}]
ParkType == [status : {"none", "open", "assigned"}, to : Convs \cup {NoConv}]

MailTypes ==
  /\ mail \in [Letters -> LetterType] /\ inbox \subseteq Letters /\ contacts \in 0..2
  /\ convs \in [Convs -> ConvType] /\ reported \subseteq Convs /\ filed \in [Letters -> Convs \cup {NoConv}]
  /\ parked \in [Letters -> ParkType] /\ counted \in [Letters -> Nat] /\ filer \in [Filers -> FilerType]
  /\ cut \subseteq Letters /\ byHand \subseteq Letters /\ crossed \subseteq Convs /\ answered \subseteq Convs
  /\ abreast \subseteq Threads /\ mailTurns \in 0..MaxTurns /\ mailFaults \in 0..MaxMailFaults

FilerOK(f) ==
  /\ filer[f].batch \subseteq inbox
  /\ filer[f].at \in {"take", "header", "contact", "learn", "count"} => f \in Polls
  /\ filer[f].at = "mark" => f \in People
  /\ filer[f].at \notin {"idle", "take"} => filer[f].letter \in Letters
  /\ filer[f].at = "header" => mail[filer[f].letter].ref \in Convs
  /\ filer[f].at \in {"read", "insert", "reopen", "learn", "count", "mark"} => filer[f].conv \in Convs
  /\ filer[f].at \in {"insert", "reopen"} => filer[f].status \in ConvStatuses

(* A filed letter that is to be counted is in one filer's hand, where it    *)
(* was filed; a poll's was neither cut off nor filed by hand.               *)
Counting == {"reopen", "learn", "count"}
HandOK(f) ==
  filer[f].at \in Counting =>
    /\ filed[filer[f].letter] = filer[f].conv /\ counted[filer[f].letter] = 0
    /\ (f \in Polls => filer[f].letter \notin byHand \cup cut) /\ (f \in People => filer[f].letter \in byHand)
    /\ \A g \in Filers : filer[g].at \in Counting /\ filer[g].letter = filer[f].letter => g = f
FiledOK(l) ==
  /\ filed[l] = NoConv => counted[l] = 0 /\ l \notin cut /\ l \notin byHand
  /\ filed[l] # NoConv /\ ~InHand(l) => counted[l] = IF l \in cut \cup byHand THEN 0 ELSE 1

(* A report is taken in hand by people alone, and if it is parked.          *)
ReportOK(f) ==
  filer[f].at \notin {"idle", "take"} =>
    ~mail[filer[f].letter].bounce \/ (f \in People /\ mail[filer[f].letter].ref = NoConv)
ParkOK(l) == parked[l].status # "none" /\ mail[l].bounce => mail[l].ref = NoConv

(* Who is to learn a thread found no conversation that tracks it, and there *)
(* is none since, unless another poll was on the way with it.               *)
Learner(p) == filer[p].at \in {"header", "contact", "learn"} \/ (filer[p].at \in {"read", "insert", "reopen"} /\ filer[p].learns)
LearnerOK(p) ==
  filer[p].at \in Beyond =>
    LET t == mail[filer[p].letter].thread IN
    /\ Learner(p) => Tracks(t) = {} \/ t \in abreast
    /\ \A q \in Polls \ {p} : filer[q].at \in Beyond /\ mail[filer[q].letter].thread = t => t \in abreast

(* What a filer knows of its conversation holds, or it is open.             *)
StatusOK(f) ==
  filer[f].at \in {"insert", "reopen"} /\ filer[f].conv \notin crossed =>
    convs[filer[f].conv].status \in {filer[f].status, "open"}

(* What one person alone has filed is marked, or in that person's hand.     *)
SinglePerson == \A g, h \in People : g = h
MarkOK(f) ==
  filer[f].at = "mark" =>
    /\ filed[filer[f].letter] # NoConv
    /\ filed[filer[f].letter] = filer[f].conv \/ filer[f].letter \in cut \/ filer[f].letter \notin byHand \/ ~SinglePerson
OpenOK(h) == filer[h].at \in {"read", "insert"} /\ SinglePerson => parked[filer[h].letter].status = "open"
PlacedOK(l) ==
  l \in byHand \ cut /\ SinglePerson =>
    parked[l].status = "assigned" \/ \E h \in People : filer[h].letter = l /\ filer[h].at \in {"reopen", "mark"}
ToldOK(l) ==
  parked[l].status = "assigned" =>
    filed[l] # NoConv /\ (filed[l] = parked[l].to \/ l \in cut \/ l \notin byHand \/ ~SinglePerson)

FilersOK == \A f \in Filers : FilerOK(f)
CountsOK == (\A f \in Filers : HandOK(f)) /\ (\A l \in Letters : FiledOK(l))
ReportsOK == (\A f \in Filers : ReportOK(f)) /\ (\A l \in Letters : ParkOK(l)) /\ ReportsAreNoReplies
LearnersOK == (\A p \in Polls : LearnerOK(p)) /\ ThreadsApart
StatusesOK == (\A f \in Filers : StatusOK(f)) /\ RepliesReopen
PlacesOK ==
  /\ (\A f \in Filers : MarkOK(f)) /\ (\A h \in People : OpenOK(h))
  /\ (\A l \in Letters : PlacedOK(l) /\ ToldOK(l))

MailInv == MailTypes /\ FilersOK /\ CountsOK /\ ReportsOK /\ LearnersOK /\ StatusesOK /\ PlacesOK

-----------------------------------------------------------------------------
(* What the invariant says.                                                 *)
LEMMA SingleIsOne == ~(Cardinality(People) > 1) => SinglePerson
<1> SUFFICES ASSUME NEW g \in People, NEW h \in People, g # h PROVE Cardinality(People) > 1
  BY DEF SinglePerson
<1>1. Cardinality({g, h}) = 2
  <2>1. Cardinality({g}) = 1 /\ IsFiniteSet({g})
    BY FS_Singleton
  <2>2. Cardinality({g} \cup {h}) = 2
    BY <2>1, FS_AddElement
  <2>3. {g} \cup {h} = {g, h}
    OBVIOUS
  <2> QED
    BY <2>2, <2>3
<1>2. {g, h} \subseteq People /\ IsFiniteSet(People)
  BY InboundAssumption
<1>3. Cardinality({g, h}) <= Cardinality(People)
  BY <1>2, FS_Subset
<1>4. Cardinality(People) \in Nat
  BY <1>2, FS_CardinalityType
<1> QED
  BY <1>1, <1>3, <1>4

LEMMA MailSafe ==
  MailInv => InboundTypeOK /\ CountedOnce /\ ReportsAreNoReplies /\ ThreadsApart /\ RepliesReopen /\ AssignedIsFiled
<1> SUFFICES ASSUME MailInv
             PROVE  InboundTypeOK /\ CountedOnce /\ ReportsAreNoReplies /\ ThreadsApart /\ RepliesReopen /\ AssignedIsFiled
  OBVIOUS
<1>1. InboundTypeOK
  BY DEF MailInv, MailTypes, InboundTypeOK, FilerType, MailPcs, LetterType, ConvType, ParkType
<1>2. CountedOnce
  <2> SUFFICES ASSUME NEW l \in Letters
               PROVE  /\ counted[l] <= 1
                      /\ counted[l] = 1 => filed[l] # NoConv
                      /\ filed[l] # NoConv /\ ~InHand(l) => counted[l] = IF l \in cut \cup byHand THEN 0 ELSE 1
    BY DEF CountedOnce
  <2>1. FiledOK(l) /\ counted[l] \in Nat
    BY DEF MailInv, CountsOK, MailTypes
  <2>2. CASE InHand(l)
    <3>1. counted[l] = 0
      BY <2>2 DEF InHand, MailInv, CountsOK, HandOK, Counting
    <3> QED
      BY <3>1, <2>2
  <2>3. CASE ~InHand(l)
    BY <2>1, <2>3 DEF FiledOK
  <2> QED
    BY <2>2, <2>3
<1>3. AssignedIsFiled
  BY SingleIsOne DEF AssignedIsFiled, MailInv, PlacesOK, ToldOK
<1> QED
  BY <1>1, <1>2, <1>3 DEF MailInv, ReportsOK, LearnersOK, StatusesOK

-----------------------------------------------------------------------------
(* One filer moves.                                                         *)
Moves(f) == filer' \in [Filers -> FilerType] /\ \A g \in Filers \ {f} : filer'[g] = filer[g]

LEMMA FilerMoved ==
  ASSUME MailTypes, NEW f \in Filers, NEW x \in FilerType, FilerMoves(f, x)
  PROVE  Moves(f) /\ filer'[f] = x
BY DEF MailTypes, FilerMoves, Moves

LEMMA FilersStay ==
  ASSUME FilersOK, NEW f \in Filers, Moves(f), FilerOK(f)', UNCHANGED <<mail, inbox>>
  PROVE  FilersOK'
<1>1. ASSUME NEW g \in Filers \ {f} PROVE FilerOK(g)'
  BY <1>1 DEF FilersOK, FilerOK, Moves
<1> QED
  BY <1>1 DEF FilersOK

LEMMA CountsStay ==
  ASSUME CountsOK, NEW f \in Filers, Moves(f), UNCHANGED <<filed, counted, byHand, cut>>,
         filer'[f].at \in Counting => filer[f].at \in Counting,
         filer[f].at \in Counting =>
           \/ filer'[f].at \in Counting /\ filer'[f].letter = filer[f].letter /\ filer'[f].conv = filer[f].conv
           \/ filer'[f].at \notin Counting /\ filer[f].letter \in byHand
  PROVE  CountsOK'
<1>1. ASSUME NEW g \in Filers, filer'[g].at \in Counting
      PROVE  filer[g].at \in Counting /\ filer'[g].letter = filer[g].letter /\ filer'[g].conv = filer[g].conv
  BY <1>1 DEF Moves
<1>2. ASSUME NEW g \in Filers PROVE HandOK(g)'
  <2>1. HandOK(g)
    BY DEF CountsOK
  <2> QED
    BY <2>1, <1>1 DEF HandOK
<1>3. ASSUME NEW l \in Letters PROVE FiledOK(l)'
  <2>1. FiledOK(l)
    BY DEF CountsOK
  <2>2. CASE InHand(l) /\ ~InHand(l)'
    <3>1. PICK g \in Filers : filer[g].letter = l /\ filer[g].at \in Counting
      BY <2>2 DEF InHand, Counting
    <3>2. g = f /\ l \in byHand
      BY <2>2, <3>1 DEF InHand, Counting, Moves
    <3>3. counted[l] = 0
      BY <3>1 DEF CountsOK, HandOK
    <3> QED
      BY <3>2, <3>3, <2>1 DEF FiledOK
  <2>3. CASE ~InHand(l) \/ InHand(l)'
    BY <2>1, <2>3 DEF FiledOK
  <2> QED
    BY <2>2, <2>3
<1> QED
  BY <1>2, <1>3 DEF CountsOK

LEMMA ReportsStay ==
  ASSUME ReportsOK, NEW f \in Filers, Moves(f), UNCHANGED <<mail, inbox, filed, byHand, reported>>, ReportOK(f)',
         \A l \in Letters : parked'[l].status # "none" => parked[l].status # "none" \/ ~mail[l].bounce \/ mail[l].ref = NoConv
  PROVE  ReportsOK'
<1>1. ASSUME NEW g \in Filers \ {f} PROVE ReportOK(g)'
  BY <1>1 DEF ReportsOK, ReportOK, Moves
<1>2. ASSUME NEW l \in Letters PROVE ParkOK(l)'
  BY DEF ReportsOK, ParkOK
<1>3. ReportsAreNoReplies'
  BY DEF ReportsOK, ReportsAreNoReplies
<1> QED
  BY <1>1, <1>2, <1>3 DEF ReportsOK

LEMMA LearnersStay ==
  ASSUME LearnersOK, NEW f \in Filers, Moves(f), UNCHANGED mail, abreast \subseteq abreast',
         \A c \in Convs : convs'[c].thread = convs[c].thread,
         f \in Polls /\ filer'[f].at \in Beyond =>
           filer[f].at \in Beyond /\ filer'[f].letter = filer[f].letter /\ (Learner(f)' => Learner(f))
  PROVE  LearnersOK'
<1>1. ASSUME NEW p \in Polls, filer'[p].at \in Beyond
      PROVE  filer[p].at \in Beyond /\ filer'[p].letter = filer[p].letter /\ (Learner(p)' => Learner(p))
  <2>1. CASE p = f
    BY <1>1, <2>1
  <2>2. CASE p # f
    BY <1>1, <2>2 DEF Moves, Filers, Learner
  <2> QED
    BY <2>1, <2>2
<1>2. \A t : Tracks(t)' = Tracks(t)
  BY DEF Tracks
<1>3. ASSUME NEW p \in Polls PROVE LearnerOK(p)'
  <2>1. LearnerOK(p)
    BY DEF LearnersOK
  <2> QED
    BY <2>1, <1>1, <1>2 DEF LearnerOK
<1>4. ThreadsApart'
  BY DEF LearnersOK, ThreadsApart
<1> QED
  BY <1>3, <1>4 DEF LearnersOK

LEMMA StatusesStay ==
  ASSUME StatusesOK, NEW f \in Filers, Moves(f), UNCHANGED <<answered, crossed, filed>>, cut \subseteq cut',
         \A c \in Convs : convs'[c].status = convs[c].status, answered \subseteq Convs, StatusOK(f)',
         filer[f].at = "reopen" => \E l \in cut' : filed[l] = filer[f].conv,
         \A g \in Filers : filer[g].at \in {"insert", "reopen"} => filer[g].conv \in Convs
  PROVE  StatusesOK'
<1>1. ASSUME NEW g \in Filers \ {f} PROVE StatusOK(g)'
  BY <1>1 DEF StatusesOK, StatusOK, Moves
<1>2. ASSUME NEW c \in answered \ crossed
      PROVE  \/ convs'[c].status = "open"
             \/ \E g \in Filers : filer'[g].conv = c /\ filer'[g].at = "reopen"
             \/ \E l \in cut' : filed'[l] = c
  <2>1. CASE convs[c].status = "open"
    BY <2>1
  <2>2. ASSUME NEW g \in Filers, filer[g].conv = c, filer[g].at = "reopen"
        PROVE  \/ \E h \in Filers : filer'[h].conv = c /\ filer'[h].at = "reopen"
               \/ \E l \in cut' : filed'[l] = c
    <3>1. CASE g = f
      BY <2>2, <3>1
    <3>2. CASE g # f
      BY <2>2, <3>2 DEF Moves
    <3> QED
      BY <3>1, <3>2
  <2>3. CASE \E l \in cut : filed[l] = c
    BY <2>3
  <2> QED
    BY <2>1, <2>2, <2>3 DEF StatusesOK, RepliesReopen, FilerAt
<1> QED
  BY <1>1, <1>2 DEF StatusesOK, RepliesReopen, FilerAt

(* A letter that is parked anew was not parked.                             *)
ParksOnly == \A l \in Letters : parked'[l] = parked[l] \/ (parked[l].status = "none" /\ parked'[l].status = "open")

LEMMA PlacesStay ==
  ASSUME PlacesOK, NEW f \in Filers, Moves(f), UNCHANGED <<filed, byHand>>, cut \subseteq cut', ParksOnly,
         \A g \in Filers : filer[g].at \notin {"idle", "take"} => filer[g].letter \in Letters,
         MarkOK(f)', f \in People => OpenOK(f)',
         f \in People /\ filer[f].at \in {"reopen", "mark"} /\ filer[f].letter \in byHand \ cut' =>
           filer'[f].at \in {"reopen", "mark"} /\ filer'[f].letter = filer[f].letter
  PROVE  PlacesOK'
<1>1. ASSUME NEW g \in Filers \ {f} PROVE MarkOK(g)'
  BY <1>1 DEF PlacesOK, MarkOK, Moves
<1>2. ASSUME NEW h \in People \ {f} PROVE OpenOK(h)'
  <2>1. OpenOK(h) /\ filer'[h] = filer[h] /\ (filer[h].at \in {"read", "insert"} => filer[h].letter \in Letters)
    BY <1>2 DEF PlacesOK, Moves, Filers
  <2> QED
    BY <2>1 DEF OpenOK, ParksOnly
<1>3. ASSUME NEW l \in Letters PROVE PlacedOK(l)'
  <2>1. PlacedOK(l)
    BY DEF PlacesOK
  <2> SUFFICES ASSUME l \in byHand \ cut', SinglePerson
               PROVE  parked'[l].status = "assigned" \/ \E h \in People : filer'[h].letter = l /\ filer'[h].at \in {"reopen", "mark"}
    BY DEF PlacedOK
  <2>2. CASE parked[l].status = "assigned"
    BY <2>2 DEF ParksOnly
  <2>3. ASSUME NEW h \in People, filer[h].letter = l, filer[h].at \in {"reopen", "mark"}
        PROVE  filer'[h].letter = l /\ filer'[h].at \in {"reopen", "mark"}
    <3>1. CASE h = f
      BY <2>3, <3>1
    <3>2. CASE h # f
      BY <2>3, <3>2 DEF Moves, Filers
    <3> QED
      BY <3>1, <3>2
  <2> QED
    BY <2>1, <2>2, <2>3 DEF PlacedOK
<1>4. ASSUME NEW l \in Letters PROVE ToldOK(l)'
  <2>1. ToldOK(l)
    BY DEF PlacesOK
  <2> QED
    BY <2>1 DEF ToldOK, ParksOnly
<1> QED
  BY <1>1, <1>2, <1>3, <1>4 DEF PlacesOK

-----------------------------------------------------------------------------
(* Steps that write no conversation, no reply and no count.                 *)
ParkTypes == parked' \in [Letters -> ParkType]
MatchingOnly ==
  /\ UNCHANGED <<mail, inbox, contacts, convs, filed, counted, cut, byHand, crossed, answered, mailTurns>>
  /\ reported' \subseteq Convs /\ abreast \subseteq abreast' /\ abreast' \subseteq Threads /\ mailFaults' \in 0..MaxMailFaults
  /\ ParkTypes /\ ParksOnly

LEMMA InvFilers ==
  ASSUME MailInv
  PROVE  /\ \A g \in Filers : filer[g].at \notin {"idle", "take"} => filer[g].letter \in Letters
         /\ \A g \in Filers : filer[g].at \in {"insert", "reopen"} => filer[g].conv \in Convs
         /\ answered \subseteq Convs /\ filer \in [Filers -> FilerType]
BY DEF MailInv, FilersOK, FilerOK, MailTypes

LEMMA MatchingKeeps ==
  ASSUME MailInv, NEW f \in Filers, Moves(f), MatchingOnly, FilerOK(f)', StatusOK(f)', MarkOK(f)', f \in People => OpenOK(f)',
         ReportsOK', LearnersOK', filer'[f].at \notin Counting,
         filer[f].at \notin Counting, filer[f].at # "mark"
  PROVE  MailInv'
<1>1. MailTypes'
  BY DEF MailInv, MailTypes, MatchingOnly, ParkTypes, Moves
<1>2. FilersOK'
  BY FilersStay DEF MailInv, MatchingOnly
<1>3. CountsOK'
  BY CountsStay DEF MailInv, MatchingOnly
<1>4. StatusesOK'
  BY StatusesStay, InvFilers DEF MailInv, MatchingOnly, Counting
<1>5. PlacesOK'
  BY PlacesStay, InvFilers DEF MailInv, MatchingOnly, Counting
<1> QED
  BY <1>1, <1>2, <1>3, <1>4, <1>5 DEF MailInv

(* A filer that puts down what it had, or goes on with its other letters.   *)
PutsDownMail(f) == Moves(f) /\ filer'[f].at \in {"idle", "take"} /\ FilerOK(f)'

LEMMA PutResting ==
  ASSUME MailTypes, NEW f \in Filers, FilerMoves(f, Resting), UNCHANGED <<mail, inbox>>
  PROVE  PutsDownMail(f)
<1>1. Resting \in FilerType /\ Resting.at = "idle" /\ Resting.batch = {}
  BY DEF Resting, FilerType, MailPcs
<1>2. Moves(f) /\ filer'[f] = Resting
  BY <1>1, FilerMoved
<1> QED
  BY <1>1, <1>2 DEF PutsDownMail, FilerOK

LEMMA PutWith ==
  ASSUME MailTypes, NEW p \in Polls, NEW b, b \subseteq inbox, UNCHANGED <<mail, inbox>>,
         FilerMoves(p, [Resting EXCEPT !.at = "take", !.batch = b])
  PROVE  PutsDownMail(p)
<1> DEFINE x == [Resting EXCEPT !.at = "take", !.batch = b]
<1>1. x \in FilerType /\ x.at = "take" /\ x.batch = b
  BY DEF Resting, FilerType, MailPcs, MailTypes
<1> HIDE DEF x
<1>2. Moves(p) /\ filer'[p] = x
  BY <1>1, FilerMoved DEF Filers, x
<1> QED
  BY <1>1, <1>2 DEF PutsDownMail, FilerOK

LEMMA PutRest ==
  ASSUME MailTypes, FilersOK, NEW f \in Filers, FilerMoves(f, RestOf(f)), UNCHANGED <<mail, inbox>>
  PROVE  PutsDownMail(f)
<1>1. filer[f].batch \subseteq inbox
  BY DEF FilersOK, FilerOK
<1> QED
  BY <1>1, PutResting, PutWith DEF RestOf

LEMMA PutLeft ==
  ASSUME MailTypes, FilersOK, NEW p \in Polls, NEW l, FilerMoves(p, Left(p, l)), UNCHANGED <<mail, inbox>>
  PROVE  PutsDownMail(p)
<1>1. filer[p].batch \ {l} \subseteq inbox
  BY DEF FilersOK, FilerOK, Filers
<1> QED
  BY <1>1, PutWith DEF Left

LEMMA PutDownKeeps ==
  ASSUME MailInv, NEW f \in Filers, PutsDownMail(f), MatchingOnly, ReportsOK',
         filer[f].at \notin Counting, filer[f].at # "mark"
  PROVE  MailInv'
<1>1. Moves(f) /\ filer'[f].at \in {"idle", "take"} /\ FilerOK(f)'
  BY DEF PutsDownMail
<1>2. StatusOK(f)' /\ MarkOK(f)' /\ OpenOK(f)' /\ filer'[f].at \notin Counting /\ filer'[f].at \notin Beyond
  BY <1>1 DEF StatusOK, MarkOK, OpenOK, Counting, Beyond
<1>3. LearnersOK'
  BY <1>1, <1>2, LearnersStay DEF MailInv, MatchingOnly
<1> QED
  BY <1>1, <1>2, <1>3, MatchingKeeps

LEMMA PutDownReports ==
  ASSUME MailInv, NEW f \in Filers, PutsDownMail(f), UNCHANGED <<mail, inbox, filed, byHand, reported>>,
         \A l \in Letters : parked'[l].status # "none" => parked[l].status # "none" \/ ~mail[l].bounce \/ mail[l].ref = NoConv
  PROVE  ReportsOK'
<1>1. Moves(f) /\ ReportOK(f)'
  BY DEF PutsDownMail, ReportOK
<1> QED
  BY <1>1, ReportsStay DEF MailInv

(* record_unmatched().                                                      *)
LEMMA ParksIs ==
  ASSUME MailTypes, NEW l \in Letters, Parks(l)
  PROVE  ParkTypes /\ ParksOnly /\ \A j \in Letters \ {l} : parked'[j] = parked[j]
<1>1. CASE parked[l].status # "none"
  BY <1>1 DEF Parks, ParkTypes, ParksOnly, MailTypes
<1>2. CASE parked[l].status = "none"
  <2> DEFINE x == [parked[l] EXCEPT !.status = "open"]
  <2>1. x \in ParkType /\ x.status = "open"
    BY DEF MailTypes, ParkType
  <2>2. parked' = [parked EXCEPT ![l] = x]
    BY <1>2 DEF Parks, MailTypes
  <2> HIDE DEF x
  <2> QED
    BY <2>1, <2>2, <1>2 DEF ParkTypes, ParksOnly, MailTypes
<1> QED
  BY <1>1, <1>2

-----------------------------------------------------------------------------
(* Around the filers.                                                       *)
LEMMA EnterKeeps == MailInv /\ Enter => MailInv'
<1> SUFFICES ASSUME MailInv, Enter PROVE MailInv'
  OBVIOUS
<1>1. /\ UNCHANGED <<mail, inbox, convs, reported, filed, parked, counted, filer, cut, byHand, crossed, answered, abreast, mailFaults>>
      /\ contacts' \in 0..2 /\ mailTurns' \in 0..MaxTurns
  BY InboundAssumption DEF Enter, MailTurn, store, past, MailInv, MailTypes
<1>2. MailTypes'
  BY <1>1 DEF MailInv, MailTypes
<1>3. FilersOK' /\ CountsOK'
  BY <1>1 DEF MailInv, FilersOK, FilerOK, CountsOK, HandOK, FiledOK, InHand
<1>4. ReportsOK' /\ LearnersOK'
  BY <1>1 DEF MailInv, ReportsOK, ReportOK, ParkOK, ReportsAreNoReplies, LearnersOK, LearnerOK, Learner, Tracks, ThreadsApart
<1>5. StatusesOK'
  BY <1>1 DEF MailInv, StatusesOK, StatusOK, RepliesReopen, FilerAt
<1>6. PlacesOK'
  BY <1>1 DEF MailInv, PlacesOK, MarkOK, OpenOK, PlacedOK, ToldOK
<1> QED
  BY <1>2, <1>3, <1>4, <1>5, <1>6 DEF MailInv

(* The status of one conversation.                                          *)
LEMMA ConvMoves ==
  ASSUME MailTypes, NEW c \in Convs, NEW s \in ConvStatuses, convs' = [convs EXCEPT ![c].status = s]
  PROVE  /\ convs' \in [Convs -> ConvType] /\ convs'[c].status = s
         /\ \A d \in Convs : convs'[d].thread = convs[d].thread
         /\ \A d \in Convs \ {c} : convs'[d] = convs[d]
<1> DEFINE x == [convs[c] EXCEPT !.status = s]
<1>1. x \in ConvType /\ x.status = s /\ x.thread = convs[c].thread
  BY DEF MailTypes, ConvType
<1>2. convs' = [convs EXCEPT ![c] = x]
  BY DEF MailTypes
<1> HIDE DEF x
<1> QED
  BY <1>1, <1>2 DEF MailTypes

LEMMA MoveConvKeeps == ASSUME MailInv, NEW c \in Convs, NEW s \in ConvStatuses, MoveConv(c, s) PROVE MailInv'
<1>0. MailTypes /\ StatusesOK
  BY DEF MailInv
<1>1. /\ UNCHANGED <<mail, inbox, contacts, reported, filed, parked, counted, filer, cut, byHand, abreast, mailFaults>>
      /\ convs' = [convs EXCEPT ![c].status = s] /\ answered' = answered \ {c}
      /\ crossed' = IF \E f \in Filers : filer[f].conv = c /\ filer[f].at \in {"insert", "reopen"}
                    THEN crossed \cup {c} ELSE crossed
      /\ mailTurns' \in 0..MaxTurns
  BY <1>0, InboundAssumption DEF MoveConv, MailTurn, MailTypes
<1>2. /\ convs' \in [Convs -> ConvType] /\ \A d \in Convs : convs'[d].thread = convs[d].thread
      /\ \A d \in Convs \ {c} : convs'[d] = convs[d]
  BY <1>0, <1>1, ConvMoves
<1>3. MailTypes'
  BY <1>0, <1>1, <1>2 DEF MailTypes
<1>4. FilersOK' /\ CountsOK'
  BY <1>1 DEF MailInv, FilersOK, FilerOK, CountsOK, HandOK, FiledOK, InHand
<1>5. ReportsOK'
  BY <1>1 DEF MailInv, ReportsOK, ReportOK, ParkOK, ReportsAreNoReplies
<1>6. LearnersOK'
  <2>1. \A t : Tracks(t)' = Tracks(t)
    BY <1>2 DEF Tracks
  <2>2. \A p \in Polls : LearnerOK(p)'
    BY <2>1, <1>1 DEF MailInv, LearnersOK, LearnerOK, Learner
  <2>3. ThreadsApart'
    BY <1>1, <1>2 DEF MailInv, LearnersOK, ThreadsApart
  <2> QED
    BY <2>2, <2>3 DEF LearnersOK
<1>7. StatusesOK'
  <2>1. ASSUME NEW f \in Filers, filer[f].at \in {"insert", "reopen"}, filer[f].conv \notin crossed'
        PROVE  convs'[filer[f].conv].status \in {filer[f].status, "open"}
    <3>1. filer[f].conv # c /\ filer[f].conv \notin crossed /\ filer[f].conv \in Convs
      BY <2>1, <1>1, InvFilers
    <3> QED
      BY <3>1, <2>1, <1>0, <1>2 DEF StatusesOK, StatusOK
  <2>2. RepliesReopen'
    BY <1>0, <1>1, <1>2 DEF MailTypes, StatusesOK, RepliesReopen, FilerAt
  <2> QED
    BY <2>1, <2>2, <1>1 DEF StatusesOK, StatusOK
<1>8. PlacesOK'
  BY <1>1 DEF MailInv, PlacesOK, MarkOK, OpenOK, PlacedOK, ToldOK
<1> QED
  BY <1>3, <1>4, <1>5, <1>6, <1>7, <1>8 DEF MailInv

-----------------------------------------------------------------------------
(* poll_tenant().                                                           *)
LEMMA AllUnchanged ==
  ASSUME MailInv, KeepsAll
  PROVE  /\ UNCHANGED <<mail, inbox, contacts, convs, reported, filed, parked, counted, cut, byHand, crossed, answered, abreast,
                        mailTurns, mailFaults>>
         /\ MatchingOnly
BY DEF MailInv, MailTypes, KeepsAll, KeepsOutside, store, past, MatchingOnly, ParkTypes, ParksOnly

LEMMA FetchKeeps == ASSUME MailInv, NEW p \in Polls, Fetch(p) PROVE MailInv'
<1>1. KeepsAll /\ p \in Filers /\ filer[p].at = "idle" /\ FilerMoves(p, [Resting EXCEPT !.at = "take", !.batch = inbox])
  BY DEF Fetch, Filers, FilerAt
<1>2. PutsDownMail(p)
  BY <1>1, AllUnchanged, PutWith DEF MailInv
<1> QED
  BY <1>1, <1>2, AllUnchanged, PutDownReports, PutDownKeeps DEF Counting

LEMMA FetchedAllKeeps == ASSUME MailInv, NEW p \in Polls, FetchedAll(p) PROVE MailInv'
<1>1. KeepsAll /\ p \in Filers /\ filer[p].at = "take" /\ FilerMoves(p, Resting)
  BY DEF FetchedAll, Filers, FilerAt
<1>2. PutsDownMail(p)
  BY <1>1, AllUnchanged, PutResting DEF MailInv
<1> QED
  BY <1>1, <1>2, AllUnchanged, PutDownReports, PutDownKeeps DEF Counting

LEMMA ReportKeeps == ASSUME MailInv, NEW p \in Polls, NEW l \in Letters, Report(p, l) PROVE MailInv'
<1>0. MailTypes /\ FilersOK /\ ReportsOK /\ p \in Filers /\ filer[p].at = "take" /\ l \in inbox /\ mail[l].bounce
      /\ mailFaults \in 0..MaxMailFaults
  BY DEF MailInv, Report, Takes, FilerAt, Filers, FilersOK, FilerOK, MailTypes
<1>1. UNCHANGED <<mail, inbox, contacts, convs, filed, counted, cut, byHand, crossed, answered, abreast, mailTurns, mailFaults>>
  BY DEF Report, KeepsOutside, past
<1>2. PutsDownMail(p)
  BY <1>0, <1>1, PutLeft DEF Report
<1>3. CASE mail[l].ref = NoConv
  <2>1. Parks(l) /\ UNCHANGED reported
    BY <1>3 DEF Report
  <2>2. MatchingOnly
    BY <1>0, <1>1, <2>1, ParksIs DEF MatchingOnly, MailTypes
  <2>3. ReportsOK'
    BY <1>0, <1>1, <1>2, <1>3, <2>1, ParksIs, PutDownReports
  <2> QED
    BY <1>0, <1>2, <2>2, <2>3, PutDownKeeps DEF Counting
<1>4. CASE mail[l].ref # NoConv
  <2>1. reported' = reported \cup {mail[l].ref} /\ UNCHANGED parked /\ mail[l].ref \in Convs
    BY <1>0, <1>4 DEF Report, MailTypes, LetterType
  <2>2. MatchingOnly
    BY <1>0, <1>1, <2>1 DEF MatchingOnly, MailTypes, ParkTypes, ParksOnly
  <2>3. \A f \in Filers : ReportOK(f)'
    BY <1>0, <1>1, <1>2 DEF PutsDownMail, Moves, ReportsOK, ReportOK
  <2>4. \A j \in Letters : ParkOK(j)'
    BY <1>0, <1>1, <2>1 DEF ReportsOK, ParkOK
  <2>5. ReportsAreNoReplies'
    BY <1>0, <1>1, <2>1 DEF ReportsOK, ReportsAreNoReplies
  <2>6. ReportsOK'
    BY <2>3, <2>4, <2>5 DEF ReportsOK
  <2> QED
    BY <1>0, <1>2, <2>2, <2>6, PutDownKeeps DEF Counting
<1> QED
  BY <1>3, <1>4

-----------------------------------------------------------------------------
(* match_conversation(): where a poll that has taken a letter goes.         *)
LEMMA MatchedIs ==
  ASSUME MailInv, NEW p \in Polls, NEW l \in Letters, NEW c \in Convs, Matched(p, l, c), UNCHANGED <<mail, inbox>>
  PROVE  /\ Moves(p) /\ filer'[p].at = "read" /\ filer'[p].letter = l /\ filer'[p].conv = c
         /\ filer'[p].learns = Learns(c) /\ filer'[p].batch \subseteq inbox /\ FilerOK(p)'
<1> DEFINE b == filer[p].batch \ {l}
           n == Learns(c)
           x == [[Resting EXCEPT !.at = "take", !.batch = b] EXCEPT !.at = "read", !.letter = l, !.conv = c, !.learns = n]
<1>1. p \in Filers /\ MailTypes /\ b \subseteq inbox /\ n \in BOOLEAN
  BY DEF MailInv, FilersOK, FilerOK, Filers, Learns
<1>2. FilerMoves(p, x)
  BY DEF Matched, Left
<1>3. b \subseteq Letters
  BY <1>1 DEF MailTypes
<1> HIDE DEF b, n
<1>4. x \in FilerType /\ x.at = "read" /\ x.letter = l /\ x.conv = c /\ x.learns = n /\ x.batch = b
  BY <1>1, <1>3 DEF Resting, FilerType, MailPcs
<1> HIDE DEF x
<1>5. Moves(p) /\ filer'[p] = x
  BY <1>1, <1>2, <1>4, FilerMoved
<1> QED
  BY <1>1, <1>4, <1>5 DEF FilerOK, n

LEMMA ReadingOK ==
  ASSUME NEW p \in Polls, filer'[p].at \in {"header", "contact", "read"}
  PROVE  StatusOK(p)' /\ MarkOK(p)' /\ filer'[p].at \notin Counting
BY DEF StatusOK, MarkOK, Counting

LEMMA MatchesOn ==
  ASSUME MailInv, NEW p \in Polls, NEW c \in Convs, KeepsAll, filer[p].at \in {"header", "contact"},
         Matched(p, filer[p].letter, c)
  PROVE  MailInv'
<1>0. p \in Filers /\ p \notin People /\ filer[p].letter \in Letters /\ ReportOK(p)
  BY InvFilers, InboundAssumption DEF Filers, MailInv, ReportsOK
<1>1. MatchingOnly /\ UNCHANGED <<mail, inbox, convs, filed, parked, byHand, reported, abreast>>
  BY AllUnchanged
<1>2. /\ Moves(p) /\ filer'[p].at = "read" /\ filer'[p].letter = filer[p].letter /\ FilerOK(p)'
  BY <1>0, <1>1, MatchedIs
<1>3. ReportOK(p)'
  BY <1>0, <1>1, <1>2 DEF ReportOK
<1>4. ReportsOK'
  BY <1>0, <1>1, <1>2, <1>3, ReportsStay DEF MailInv
<1>5. filer[p].at \in Beyond /\ Learner(p)
  BY DEF Beyond, Learner
<1>6. LearnersOK'
  BY <1>0, <1>1, <1>2, <1>5, LearnersStay DEF MailInv
<1>7. StatusOK(p)' /\ MarkOK(p)' /\ filer'[p].at \notin Counting
  BY <1>2, ReadingOK
<1>8. filer[p].at \notin Counting /\ filer[p].at # "mark"
  BY DEF Counting
<1> QED
  BY <1>0, <1>1, <1>2, <1>4, <1>6, <1>7, <1>8, MatchingKeeps

LEMMA ByHeaderKeeps == ASSUME MailInv, NEW p \in Polls, ByHeader(p) PROVE MailInv'
<1>1. filer[p].at = "header" /\ KeepsAll /\ Matched(p, filer[p].letter, mail[filer[p].letter].ref)
  BY DEF ByHeader, FilerAt
<1>2. mail[filer[p].letter].ref \in Convs
  BY <1>1 DEF MailInv, FilersOK, FilerOK, Filers
<1> QED
  BY <1>1, <1>2, MatchesOn

LEMMA ByContactKeeps == ASSUME MailInv, NEW p \in Polls, ByContact(p) PROVE MailInv'
<1>0. /\ MailTypes /\ FilersOK /\ ReportsOK /\ p \in Filers /\ p \notin People /\ filer[p].at = "contact"
      /\ filer[p].letter \in Letters /\ mailFaults \in 0..MaxMailFaults
  BY InvFilers, InboundAssumption DEF MailInv, Filers, ByContact, FilerAt, MailTypes
<1>1. UNCHANGED <<mail, inbox, contacts, convs, reported, filed, counted, cut, byHand, crossed, answered, abreast, mailTurns, mailFaults>>
  BY DEF ByContact, KeepsOutside, past
<1>2. CASE Cardinality(Candidates) = 1
  <2>1. PICK c \in Candidates : Matched(p, filer[p].letter, c)
    BY <1>2 DEF ByContact
  <2>2. c \in Convs /\ KeepsAll
    BY <1>1, <1>2 DEF Candidates, ByContact, KeepsAll, KeepsOutside, store, past
  <2> QED
    BY <1>0, <2>1, <2>2, MatchesOn
<1>3. CASE Cardinality(Candidates) # 1
  <2>1. FilerMoves(p, RestOf(p)) /\ Parks(filer[p].letter)
    BY <1>3 DEF ByContact
  <2>2. PutsDownMail(p)
    BY <1>0, <1>1, <2>1, PutRest
  <2>3. ParkTypes /\ ParksOnly /\ \A j \in Letters \ {filer[p].letter} : parked'[j] = parked[j]
    BY <1>0, <2>1, ParksIs
  <2>4. MatchingOnly
    BY <1>0, <1>1, <2>3 DEF MatchingOnly, MailTypes
  <2>5. ~mail[filer[p].letter].bounce
    BY <1>0 DEF ReportsOK, ReportOK
  <2>6. ReportsOK'
    BY <1>0, <1>1, <2>2, <2>3, <2>5, PutDownReports
  <2> QED
    BY <1>0, <2>2, <2>4, <2>6, PutDownKeeps DEF Counting
<1> QED
  BY <1>2, <1>3

LEMMA ByThreadKeeps == ASSUME MailInv, NEW p \in Polls, NEW l \in Letters, ByThread(p, l) PROVE MailInv'
<1> DEFINE t == mail[l].thread
<1>0. /\ MailTypes /\ FilersOK /\ ReportsOK /\ LearnersOK /\ p \in Filers /\ p \notin People /\ filer[p].at = "take"
      /\ ~mail[l].bounce /\ t \in Threads /\ mailFaults \in 0..MaxMailFaults /\ filer[p].batch \subseteq inbox
  BY InboundAssumption DEF MailInv, Filers, ByThread, Takes, FilerAt, MailTypes, LetterType, FilersOK, FilerOK
<1>1. UNCHANGED <<mail, inbox, contacts, convs, reported, filed, parked, counted, cut, byHand, crossed, answered, mailTurns, mailFaults>>
  BY DEF ByThread, KeepsOutside, store
<1>2. abreast' = IF \E q \in Polls \ {p} : ThreadOf(q) = t /\ filer[q].at \in Beyond THEN abreast \cup {t} ELSE abreast
  BY DEF ByThread
<1>3. /\ Moves(p) /\ filer'[p].at \in {"header", "contact", "read"} /\ filer'[p].letter = l /\ FilerOK(p)'
      /\ Learner(p)' => Tracks(t) = {}
  <2>1. CASE Tracks(t) = {}
    <3> DEFINE b == filer[p].batch \ {l}
               a == IF mail[l].ref = NoConv THEN "contact" ELSE "header"
               x == [[Resting EXCEPT !.at = "take", !.batch = b] EXCEPT !.at = a, !.letter = l]
    <3>1. FilerMoves(p, x)
      BY <2>1 DEF ByThread, Left
    <3>2. b \subseteq inbox /\ b \subseteq Letters /\ a \in {"header", "contact"} /\ (a = "header" => mail[l].ref \in Convs)
      BY <1>0 DEF MailTypes, LetterType
    <3> HIDE DEF a, b
    <3>3. x \in FilerType /\ x.at = a /\ x.letter = l /\ x.batch = b
      BY <3>2 DEF Resting, FilerType, MailPcs
    <3> HIDE DEF x
    <3>4. Moves(p) /\ filer'[p] = x
      BY <1>0, <3>1, <3>3, FilerMoved
    <3> QED
      BY <1>0, <1>1, <2>1, <3>2, <3>3, <3>4 DEF FilerOK
  <2>2. CASE Tracks(t) # {}
    <3>1. PICK c \in Tracks(t) : Matched(p, l, c)
      BY <2>2 DEF ByThread
    <3>2. c \in Convs /\ ~Learns(c)
      BY <1>0, InboundAssumption DEF Tracks, Learns
    <3> QED
      BY <1>1, <3>1, <3>2, MatchedIs DEF Learner
  <2> QED
    BY <2>1, <2>2
<1>4. MatchingOnly
  BY <1>0, <1>1, <1>2 DEF MatchingOnly, MailTypes, ParkTypes, ParksOnly
<1>5. ReportsOK'
  <2>1. ReportOK(p)'
    BY <1>0, <1>1, <1>3 DEF ReportOK
  <2> QED
    BY <2>1, <1>0, <1>1, <1>3, ReportsStay
<1>6. LearnersOK'
  <2> HIDE DEF t
  <2>1. \A u : Tracks(u)' = Tracks(u)
    BY <1>1 DEF Tracks
  <2>2. \A q \in Polls \ {p} : filer[q].at \in Beyond => ThreadOf(q) = mail[filer[q].letter].thread
    <3> SUFFICES ASSUME NEW q \in Polls \ {p}, filer[q].at \in Beyond PROVE filer[q].letter # NoLetter
      BY DEF ThreadOf
    <3>1. q \in Filers /\ filer[q].at \notin {"idle", "take"}
      BY DEF Filers, Beyond
    <3> QED
      BY <3>1, InvFilers, InboundAssumption
  <2>3. \A q \in Polls \ {p} : filer[q].at \in Beyond /\ mail[filer[q].letter].thread = t => t \in abreast'
    BY <1>2, <2>2
  <2>4. \A q \in Polls \ {p} : filer'[q] = filer[q]
    BY <1>3 DEF Moves, Filers
  <2>5. LearnerOK(p)'
    BY <1>1, <1>3, <2>1, <2>3, <2>4 DEF LearnerOK, t
  <2>6. ASSUME NEW q \in Polls \ {p} PROVE LearnerOK(q)'
    <3> DEFINE u == mail[filer[q].letter].thread
    <3> SUFFICES ASSUME filer[q].at \in Beyond
                 PROVE  /\ Learner(q) => Tracks(u) = {} \/ u \in abreast'
                        /\ \A r \in Polls \ {q} : filer'[r].at \in Beyond /\ mail[filer'[r].letter].thread = u => u \in abreast'
      BY <1>1, <2>1, <2>4 DEF LearnerOK, Learner
    <3>1. abreast \subseteq abreast'
      BY <1>2
    <3>2. LearnerOK(q)
      BY <1>0 DEF LearnersOK
    <3>3. mail[filer'[p].letter].thread = t
      BY <1>3 DEF t
    <3> QED
      BY <3>1, <3>2, <3>3, <2>3, <2>4 DEF LearnerOK
  <2>7. ThreadsApart'
    BY <1>0, <1>1, <1>2 DEF LearnersOK, ThreadsApart
  <2> QED
    BY <2>5, <2>6, <2>7 DEF LearnersOK
<1>7. StatusOK(p)' /\ MarkOK(p)' /\ filer'[p].at \notin Counting
  BY <1>3, ReadingOK
<1> QED
  BY <1>0, <1>3, <1>4, <1>5, <1>6, <1>7, MatchingKeeps DEF Counting

LEMMA TakeInHandKeeps ==
  ASSUME MailInv, NEW h \in People, NEW l \in Letters, NEW c \in Convs, TakeInHand(h, l, c)
  PROVE  MailInv'
<1>0. /\ MailTypes /\ ReportsOK /\ h \in Filers /\ h \notin Polls /\ filer[h].at = "idle" /\ parked[l].status = "open"
      /\ KeepsAll
  BY InboundAssumption DEF MailInv, Filers, TakeInHand, FilerAt
<1>1. MatchingOnly /\ UNCHANGED <<mail, inbox, convs, filed, parked, byHand, reported, abreast>>
  BY <1>0, AllUnchanged
<1> DEFINE x == [Resting EXCEPT !.at = "read", !.letter = l, !.conv = c]
<1>2. x \in FilerType /\ x.at = "read" /\ x.letter = l /\ x.conv = c /\ x.batch = {} /\ FilerMoves(h, x)
  BY DEF Resting, FilerType, MailPcs, TakeInHand
<1> HIDE DEF x
<1>3. Moves(h) /\ filer'[h] = x
  BY <1>0, <1>2, FilerMoved
<1>4. FilerOK(h)' /\ OpenOK(h)' /\ StatusOK(h)' /\ MarkOK(h)' /\ filer'[h].at \notin Counting
  BY <1>0, <1>1, <1>2, <1>3 DEF FilerOK, OpenOK, StatusOK, MarkOK, Counting
<1>5. ReportOK(h)'
  BY <1>0, <1>1, <1>2, <1>3 DEF ReportOK, ReportsOK, ParkOK
<1>6. ReportsOK'
  BY <1>0, <1>1, <1>3, <1>5, ReportsStay
<1>7. LearnersOK'
  BY <1>0, <1>1, <1>3, LearnersStay DEF MailInv
<1> QED
  BY <1>0, <1>1, <1>3, <1>4, <1>6, <1>7, MatchingKeeps DEF Counting

LEMMA ReadConvKeeps == ASSUME MailInv, NEW f \in Filers, ReadConv(f) PROVE MailInv'
<1>0. /\ MailTypes /\ FilersOK /\ ReportsOK /\ filer[f].at = "read" /\ filer[f] \in FilerType /\ KeepsAll
      /\ filer[f].conv \in Convs /\ FilerOK(f) /\ ReportOK(f) /\ (f \in People => OpenOK(f))
  BY DEF MailInv, MailTypes, FilersOK, FilerOK, ReportsOK, PlacesOK, ReadConv, FilerAt
<1>1. MatchingOnly /\ UNCHANGED <<mail, inbox, convs, filed, parked, byHand, reported, abreast>>
  BY <1>0, AllUnchanged
<1> DEFINE s == convs[filer[f].conv].status
           x == [filer[f] EXCEPT !.at = "insert", !.status = s]
<1>2. s \in ConvStatuses /\ FilerMoves(f, x)
  BY <1>0 DEF MailTypes, ConvType, ReadConv
<1> HIDE DEF s
<1>3. x \in FilerType /\ x.at = "insert" /\ x.letter = filer[f].letter /\ x.conv = filer[f].conv /\ x.status = s
      /\ x.learns = filer[f].learns /\ x.batch = filer[f].batch
  BY <1>0, <1>2 DEF FilerType, MailPcs
<1> HIDE DEF x
<1>4. Moves(f) /\ filer'[f] = x
  BY <1>0, <1>2, <1>3, FilerMoved
<1>5. FilerOK(f)'
  BY <1>0, <1>1, <1>2, <1>3, <1>4 DEF FilerOK
<1>6. StatusOK(f)'
  BY <1>1, <1>3, <1>4 DEF StatusOK, s
<1>7. MarkOK(f)' /\ (f \in People => OpenOK(f)') /\ filer'[f].at \notin Counting
  BY <1>0, <1>1, <1>3, <1>4 DEF MarkOK, OpenOK, Counting
<1>8. ReportOK(f)'
  BY <1>0, <1>1, <1>3, <1>4 DEF ReportOK
<1>9. ReportsOK'
  BY <1>0, <1>1, <1>4, <1>8, ReportsStay
<1>10. filer[f].at \in Beyond /\ (Learner(f)' => Learner(f))
  BY <1>0, <1>3, <1>4 DEF Beyond, Learner
<1>11. LearnersOK'
  BY <1>1, <1>3, <1>4, <1>10, LearnersStay DEF MailInv
<1> QED
  BY <1>0, <1>1, <1>4, <1>5, <1>6, <1>7, <1>9, <1>11, MatchingKeeps DEF Counting

-----------------------------------------------------------------------------
(* record_inbound(), and what ingest() does after it.                       *)

(* A filer with a letter goes on with it.                                   *)
LEMMA GoesOnIs ==
  ASSUME MailTypes, NEW f \in Filers, NEW a \in MailPcs, FilerMoves(f, [filer[f] EXCEPT !.at = a])
  PROVE  /\ Moves(f) /\ filer'[f].at = a /\ filer'[f].letter = filer[f].letter /\ filer'[f].conv = filer[f].conv
         /\ filer'[f].status = filer[f].status /\ filer'[f].learns = filer[f].learns /\ filer'[f].batch = filer[f].batch
<1> DEFINE x == [filer[f] EXCEPT !.at = a]
<1>1. filer[f] \in FilerType
  BY DEF MailTypes
<1>2. x \in FilerType /\ x.at = a /\ x.letter = filer[f].letter /\ x.conv = filer[f].conv /\ x.status = filer[f].status
      /\ x.learns = filer[f].learns /\ x.batch = filer[f].batch
  BY <1>1 DEF FilerType
<1> HIDE DEF x
<1>3. Moves(f) /\ filer'[f] = x
  BY <1>2, FilerMoved DEF x
<1> QED
  BY <1>2, <1>3

LEMMA InsertNewKeeps == ASSUME MailInv, NEW f \in Filers, InsertReply(f), New(filer[f].letter) PROVE MailInv'
<1>l. PICK l, c : l = filer[f].letter /\ c = filer[f].conv
  OBVIOUS
<1>0. /\ MailTypes /\ FilersOK /\ CountsOK /\ ReportsOK /\ LearnersOK /\ StatusesOK /\ PlacesOK /\ filer[f].at = "insert"
      /\ l \in Letters /\ c \in Convs /\ filer[f].status \in ConvStatuses /\ filed[l] = NoConv
  BY <1>l DEF MailInv, FilersOK, FilerOK, InsertReply, FilerAt, New
<1>1. /\ UNCHANGED <<mail, inbox, contacts, convs, reported, parked, counted, cut, crossed, abreast, mailTurns, mailFaults>>
      /\ filed' = [filed EXCEPT ![l] = c] /\ answered' = answered \cup {c}
      /\ byHand' = IF f \in People THEN byHand \cup {l} ELSE byHand
      /\ FilerMoves(f, [filer[f] EXCEPT !.at = "reopen"])
  BY <1>l DEF InsertReply, KeepsOutside
<1>2. /\ Moves(f) /\ filer'[f].at = "reopen" /\ filer'[f].letter = l /\ filer'[f].conv = c
      /\ filer'[f].status = filer[f].status /\ filer'[f].learns = filer[f].learns /\ filer'[f].batch = filer[f].batch
  <2>1. "reopen" \in MailPcs
    BY DEF MailPcs
  <2> QED
    BY <1>0, <1>1, <1>l, <2>1, GoesOnIs
<1>3. /\ filed' \in [Letters -> Convs \cup {NoConv}] /\ filed'[l] = c /\ \A j \in Letters \ {l} : filed'[j] = filed[j]
  BY <1>0, <1>1 DEF MailTypes
<1>4. counted[l] = 0 /\ l \notin cut /\ l \notin byHand
  BY <1>0 DEF CountsOK, FiledOK
<1>5. \A g \in Filers : filer[g].at \in Counting => filer[g].letter # l /\ filer[g].letter \in Letters
  <2>1. ASSUME NEW g \in Filers, filer[g].at \in Counting PROVE filer[g].conv \in Convs /\ filer[g].letter \in Letters
    BY <1>0, <2>1 DEF FilersOK, FilerOK, Counting
  <2> QED
    BY <2>1, <1>0, InboundAssumption DEF CountsOK, HandOK
<1>6. \A j \in Letters \ {l} : j \in byHand' <=> j \in byHand
  BY <1>1
<1>7. MailTypes'
  BY <1>0, <1>1, <1>2, <1>3 DEF MailTypes, Moves
<1>8. FilersOK'
  <2>1. FilerOK(f)'
    BY <1>0, <1>1, <1>2 DEF FilersOK, FilerOK
  <2> QED
    BY <2>1, <1>0, <1>1, <1>2, FilersStay
<1>9. CountsOK'
  <2>1. HandOK(f)'
    <3>1. \A g \in Filers : filer'[g].at \in Counting /\ filer'[g].letter = l => g = f
      BY <1>2, <1>5 DEF Moves
    <3>2. (f \in Polls => l \notin byHand' \cup cut) /\ (f \in People => l \in byHand')
      BY <1>1, <1>4, InboundAssumption
    <3> QED
      BY <3>1, <3>2, <1>1, <1>2, <1>3, <1>4 DEF HandOK
  <2>2. ASSUME NEW g \in Filers \ {f} PROVE HandOK(g)'
    <3> SUFFICES ASSUME filer[g].at \in Counting PROVE HandOK(g)'
      BY <1>2 DEF Moves, HandOK
    <3>1. filer'[g] = filer[g] /\ filer[g].letter \in Letters \ {l} /\ HandOK(g)
      BY <1>0, <1>2, <1>5 DEF Moves, CountsOK
    <3>2. \A h \in Filers : filer'[h].at \in Counting /\ filer'[h].letter = filer[g].letter => h = g
      BY <3>1, <1>2 DEF Moves, HandOK
    <3> QED
      BY <3>1, <3>2, <1>1, <1>3, <1>6 DEF HandOK
  <2>3. FiledOK(l)'
    <3>1. InHand(l)'
      BY <1>2 DEF InHand
    <3>2. filed'[l] # NoConv
      BY <1>0, <1>3, InboundAssumption
    <3> QED
      BY <3>1, <3>2 DEF FiledOK
  <2>4. ASSUME NEW j \in Letters \ {l} PROVE FiledOK(j)'
    <3>1. FiledOK(j)
      BY <1>0 DEF CountsOK
    <3>2. InHand(j) => InHand(j)'
      <4> SUFFICES ASSUME NEW g \in Filers, filer[g].letter = j, filer[g].at \in Counting
                   PROVE  filer'[g] = filer[g]
        BY DEF InHand, Counting
      <4>1. g # f
        BY <1>0 DEF Counting
      <4> QED
        BY <4>1, <1>2 DEF Moves
    <3> QED
      BY <3>1, <3>2, <1>1, <1>3, <1>6 DEF FiledOK
  <2> QED
    BY <2>1, <2>2, <2>3, <2>4 DEF CountsOK
<1>10. ReportsOK'
  <2>1. mail[l].bounce => f \in People /\ mail[l].ref = NoConv
    BY <1>l, <1>0 DEF ReportsOK, ReportOK
  <2>2. ReportOK(f)'
    BY <2>1, <1>1, <1>2 DEF ReportOK
  <2>3. \A g \in Filers \ {f} : ReportOK(g)'
    BY <1>0, <1>1, <1>2 DEF ReportsOK, ReportOK, Moves
  <2>4. \A j \in Letters : ParkOK(j)'
    BY <1>0, <1>1 DEF ReportsOK, ParkOK
  <2>5. ReportsAreNoReplies'
    BY <2>1, <1>0, <1>1, <1>3 DEF ReportsOK, ReportsAreNoReplies
  <2> QED
    BY <2>2, <2>3, <2>4, <2>5 DEF ReportsOK
<1>11. LearnersOK'
  <2>1. filer[f].at \in Beyond /\ filer'[f].letter = filer[f].letter /\ (Learner(f)' => Learner(f))
    BY <1>l, <1>0, <1>2 DEF Beyond, Learner
  <2> QED
    BY <2>1, <1>0, <1>1, <1>2, LearnersStay
<1>12. StatusesOK'
  <2>1. StatusOK(f)'
    BY <1>l, <1>0, <1>1, <1>2 DEF StatusesOK, StatusOK
  <2>2. \A g \in Filers \ {f} : StatusOK(g)'
    BY <1>0, <1>1, <1>2 DEF StatusesOK, StatusOK, Moves
  <2>3. ASSUME NEW d \in answered' \ crossed
        PROVE  \/ convs[d].status = "open"
               \/ \E g \in Filers : filer'[g].conv = d /\ filer'[g].at = "reopen"
               \/ \E j \in cut : filed'[j] = d
    <3>1. CASE d = c
      BY <3>1, <1>2
    <3>2. CASE d # c
      <4>1. d \in answered \ crossed
        BY <3>2, <1>1
      <4>2. CASE convs[d].status = "open"
        BY <4>2
      <4>3. ASSUME NEW g \in Filers, filer[g].conv = d, filer[g].at = "reopen"
            PROVE  filer'[g] = filer[g]
        BY <4>3, <1>0, <1>2 DEF Moves
      <4>4. ASSUME NEW j \in cut, filed[j] = d PROVE filed'[j] = d
        BY <4>4, <1>0, <1>3, <1>4 DEF MailTypes
      <4> QED
        BY <4>1, <4>2, <4>3, <4>4, <1>0 DEF StatusesOK, RepliesReopen, FilerAt
    <3> QED
      BY <3>1, <3>2
  <2> QED
    BY <2>1, <2>2, <2>3, <1>1 DEF StatusesOK, RepliesReopen, FilerAt
<1>13. PlacesOK'
  <2>1. MarkOK(f)' /\ OpenOK(f)'
    BY <1>2 DEF MarkOK, OpenOK
  <2>2. ASSUME NEW g \in Filers \ {f} PROVE MarkOK(g)'
    <3> SUFFICES ASSUME filer[g].at = "mark" PROVE MarkOK(g)'
      BY <1>2 DEF Moves, MarkOK
    <3>1. filer'[g] = filer[g] /\ MarkOK(g) /\ filer[g].letter \in Letters
      BY <1>0, <1>2, InvFilers DEF Moves, PlacesOK
    <3>2. filer[g].letter # l
      BY <1>l, <3>1, <1>0 DEF MarkOK
    <3> QED
      BY <3>1, <3>2, <1>1, <1>3, <1>6 DEF MarkOK
  <2>3. ASSUME NEW h \in People \ {f} PROVE OpenOK(h)'
    BY <1>0, <1>1, <1>2 DEF PlacesOK, OpenOK, Moves, Filers
  <2>4. ASSUME NEW j \in Letters PROVE PlacedOK(j)' /\ ToldOK(j)'
    <3>1. PlacedOK(j) /\ ToldOK(j)
      BY <1>0 DEF PlacesOK
    <3>2. CASE j = l
      <4>1. PlacedOK(l)'
        BY <1>1, <1>2, <1>4 DEF PlacedOK
      <4>2. ToldOK(l)'
        BY <3>1, <3>2, <1>0, <1>1 DEF ToldOK
      <4> QED
        BY <4>1, <4>2, <3>2
    <3>3. CASE j # l
      <4>1. ASSUME NEW h \in People, filer[h].letter = j, filer[h].at \in {"reopen", "mark"}
            PROVE  filer'[h] = filer[h]
        BY <4>1, <1>0, <1>2 DEF Moves, Filers
      <4>2. PlacedOK(j)'
        BY <4>1, <3>1, <3>3, <1>1, <1>6 DEF PlacedOK
      <4>3. ToldOK(j)'
        BY <3>1, <3>3, <1>1, <1>3, <1>6 DEF ToldOK
      <4> QED
        BY <4>2, <4>3
    <3> QED
      BY <3>2, <3>3
  <2> QED
    BY <2>1, <2>2, <2>3, <2>4 DEF PlacesOK
<1> QED
  BY <1>7, <1>8, <1>9, <1>10, <1>11, <1>12, <1>13 DEF MailInv

LEMMA InsertKnownKeeps == ASSUME MailInv, NEW f \in Filers, InsertReply(f), ~New(filer[f].letter) PROVE MailInv'
<1> DEFINE l == filer[f].letter
<1>0. /\ MailTypes /\ FilersOK /\ ReportsOK /\ LearnersOK /\ PlacesOK /\ filer[f].at = "insert"
      /\ l \in Letters /\ filed[l] # NoConv /\ FilerOK(f) /\ ReportOK(f)
  BY DEF MailInv, FilersOK, FilerOK, ReportsOK, InsertReply, FilerAt, New
<1>1. KeepsAll
  BY DEF InsertReply, KeepsAll, KeepsOutside, store, past
<1>2. MatchingOnly /\ UNCHANGED <<mail, inbox, convs, filed, parked, byHand, reported, abreast, cut>>
  BY <1>1, AllUnchanged
<1>3. FilerMoves(f, IF f \in People THEN [filer[f] EXCEPT !.at = "mark"] ELSE RestOf(f))
  BY DEF InsertReply
<1>4. CASE f \notin People
  <2>1. PutsDownMail(f)
    BY <1>0, <1>2, <1>3, <1>4, PutRest
  <2> QED
    BY <2>1, <1>0, <1>2, PutDownReports, PutDownKeeps DEF Counting
<1>5. CASE f \in People
  <2>1. f \notin Polls /\ "mark" \in MailPcs
    BY <1>5, InboundAssumption DEF MailPcs
  <2>2. /\ Moves(f) /\ filer'[f].at = "mark" /\ filer'[f].letter = l /\ filer'[f].conv = filer[f].conv
        /\ filer'[f].batch = filer[f].batch
    BY <2>1, <1>0, <1>3, <1>5, GoesOnIs
  <2>3. FilerOK(f)' /\ ReportOK(f)' /\ StatusOK(f)' /\ OpenOK(f)' /\ filer'[f].at \notin Counting
    BY <2>2, <1>0, <1>2, <1>5 DEF FilerOK, ReportOK, StatusOK, OpenOK, Counting
  <2>4. SinglePerson /\ l \in byHand => l \in cut
    <3> SUFFICES ASSUME SinglePerson, l \in byHand, l \notin cut PROVE FALSE
      OBVIOUS
    <3>1. PlacedOK(l) /\ OpenOK(f)
      BY <1>0, <1>5 DEF PlacesOK
    <3>2. parked[l].status = "open"
      BY <3>1, <1>0 DEF OpenOK
    <3>3. PICK h \in People : filer[h].letter = l /\ filer[h].at \in {"reopen", "mark"}
      BY <3>1, <3>2 DEF PlacedOK
    <3>4. h = f
      BY <1>5 DEF SinglePerson
    <3> QED
      BY <3>3, <3>4, <1>0
  <2>5. MarkOK(f)'
    BY <2>2, <2>4, <1>0, <1>2 DEF MarkOK
  <2>6. ReportsOK'
    BY <2>2, <2>3, <1>0, <1>2, ReportsStay
  <2>7. LearnersOK'
    BY <2>1, <2>2, <1>0, <1>2, LearnersStay
  <2> QED
    BY <2>2, <2>3, <2>5, <2>6, <2>7, <1>0, <1>2, MatchingKeeps DEF Counting
<1> QED
  BY <1>4, <1>5

LEMMA ReopenKeeps == ASSUME MailInv, NEW f \in Filers, Reopen(f) PROVE MailInv'
<1> DEFINE l == filer[f].letter
           c == filer[f].conv
           a == IF f \in People THEN "mark" ELSE IF filer[f].learns THEN "learn" ELSE "count"
<1>0. /\ MailTypes /\ FilersOK /\ CountsOK /\ ReportsOK /\ LearnersOK /\ StatusesOK /\ PlacesOK /\ filer[f].at = "reopen"
      /\ l \in Letters /\ c \in Convs /\ filer[f].status \in ConvStatuses /\ FilerOK(f) /\ HandOK(f) /\ ReportOK(f)
      /\ StatusOK(f) /\ f \in Polls \cup People
  BY DEF MailInv, FilersOK, FilerOK, CountsOK, ReportsOK, StatusesOK, Reopen, FilerAt, Filers
<1>1. /\ UNCHANGED <<mail, inbox, contacts, reported, filed, parked, counted, cut, byHand, crossed, answered, abreast, mailTurns, mailFaults>>
      /\ convs' = IF Reopens(filer[f].status) THEN [convs EXCEPT ![c].status = "open"] ELSE convs
      /\ FilerMoves(f, [filer[f] EXCEPT !.at = a]) /\ a \in MailPcs
  BY DEF Reopen, KeepsOutside, past, MailPcs
<1>2. /\ Moves(f) /\ filer'[f].at = a /\ filer'[f].letter = l /\ filer'[f].conv = c /\ filer'[f].batch = filer[f].batch
  BY <1>0, <1>1, GoesOnIs
<1>3. /\ f \in People => a = "mark"
      /\ f \notin People => a \in {"learn", "count"} /\ f \in Polls
      /\ a = "learn" => filer[f].learns
  BY <1>0
<1>4. /\ convs' \in [Convs -> ConvType] /\ \A d \in Convs : convs'[d].thread = convs[d].thread
      /\ \A d \in Convs \ {c} : convs'[d] = convs[d]
      /\ Reopens(filer[f].status) => convs'[c].status = "open"
      /\ ~Reopens(filer[f].status) => convs' = convs /\ filer[f].status = "open"
  <2>1. CASE Reopens(filer[f].status)
    <3>1. "open" \in ConvStatuses
      BY DEF ConvStatuses
    <3> QED
      BY <3>1, <2>1, <1>0, <1>1, ConvMoves
  <2>2. CASE ~Reopens(filer[f].status)
    BY <2>2, <1>0, <1>1 DEF Reopens, ConvStatuses, MailTypes
  <2> QED
    BY <2>1, <2>2
<1> HIDE DEF l, c, a
<1>5. MailTypes'
  BY <1>0, <1>1, <1>2, <1>4 DEF MailTypes, Moves
<1>6. FilersOK'
  <2>1. FilerOK(f)'
    BY <1>0, <1>1, <1>2, <1>3 DEF FilerOK
  <2> QED
    BY <2>1, <1>0, <1>1, <1>2, FilersStay
<1>7. CountsOK'
  <2>1. f \in People => l \in byHand /\ a \notin Counting
    BY <1>0, <1>3 DEF HandOK, Counting, l
  <2>2. f \notin People => a \in Counting
    BY <1>3 DEF Counting
  <2>3. filer[f].at \in Counting
    BY <1>0 DEF Counting
  <2> QED
    BY <2>1, <2>2, <2>3, <1>0, <1>1, <1>2, CountsStay DEF l, c
<1>8. ReportsOK'
  <2>1. ReportOK(f)'
    BY <1>0, <1>1, <1>2 DEF ReportOK, l
  <2> QED
    BY <2>1, <1>0, <1>1, <1>2, ReportsStay
<1>9. LearnersOK'
  <2>1. f \in Polls /\ filer'[f].at \in Beyond => a = "learn"
    BY <1>2, <1>3, InboundAssumption DEF Beyond
  <2>2. filer[f].at \in Beyond /\ (a = "learn" => Learner(f))
    BY <1>0, <1>3 DEF Beyond, Learner
  <2> QED
    BY <2>1, <2>2, <1>0, <1>1, <1>2, <1>4, LearnersStay DEF l
<1>10. StatusesOK'
  <2>1. ASSUME NEW g \in Filers PROVE StatusOK(g)'
    <3> SUFFICES ASSUME filer'[g].at \in {"insert", "reopen"}, filer'[g].conv \notin crossed
                 PROVE  convs'[filer'[g].conv].status \in {filer'[g].status, "open"}
      BY <1>1 DEF StatusOK
    <3>1. g # f
      BY <1>2, <1>3
    <3>2. filer'[g] = filer[g] /\ filer[g].conv \in Convs /\ StatusOK(g)
      BY <3>1, <1>0, <1>2, InvFilers DEF Moves, StatusesOK
    <3> QED
      BY <3>2, <1>4 DEF StatusOK
  <2>2. ASSUME NEW d \in answered \ crossed
        PROVE  \/ convs'[d].status = "open"
               \/ \E g \in Filers : filer'[g].conv = d /\ filer'[g].at = "reopen"
               \/ \E j \in cut : filed[j] = d
    <3>1. CASE d = c
      <4>1. ~Reopens(filer[f].status) => convs[c].status = "open"
        BY <3>1, <2>2, <1>0, <1>4 DEF StatusOK, c
      <4> QED
        BY <4>1, <3>1, <1>4
    <3>2. CASE d # c
      <4>1. d \in Convs /\ convs'[d] = convs[d]
        BY <3>2, <1>0, <1>4 DEF MailTypes
      <4>2. ASSUME NEW g \in Filers, filer[g].conv = d, filer[g].at = "reopen" PROVE filer'[g] = filer[g]
        BY <4>2, <3>2, <1>2 DEF Moves, c
      <4> QED
        BY <4>1, <4>2, <1>0 DEF StatusesOK, RepliesReopen, FilerAt
    <3> QED
      BY <3>1, <3>2
  <2> QED
    BY <2>1, <2>2, <1>1 DEF StatusesOK, RepliesReopen, FilerAt
<1>11. PlacesOK'
  <2>1. filed[l] = c /\ c # NoConv
    BY <1>0, InboundAssumption DEF HandOK, Counting, l, c
  <2>2. MarkOK(f)' /\ OpenOK(f)'
    BY <2>1, <1>1, <1>2, <1>3 DEF MarkOK, OpenOK
  <2>3. ParksOnly
    BY <1>1 DEF ParksOnly
  <2> QED
    BY <2>2, <2>3, <1>0, <1>1, <1>2, <1>3, InvFilers, PlacesStay DEF l
<1> QED
  BY <1>5, <1>6, <1>7, <1>8, <1>9, <1>10, <1>11 DEF MailInv

LEMMA LearnThreadKeeps == ASSUME MailInv, NEW p \in Polls, LearnThread(p) PROVE MailInv'
<1> DEFINE l == filer[p].letter
           c == filer[p].conv
           t == mail[l].thread
<1>0. /\ MailTypes /\ FilersOK /\ CountsOK /\ ReportsOK /\ LearnersOK /\ StatusesOK /\ PlacesOK /\ filer[p].at = "learn"
      /\ p \in Filers /\ p \notin People /\ l \in Letters /\ c \in Convs /\ FilerOK(p) /\ ReportOK(p) /\ LearnerOK(p)
  BY InboundAssumption DEF MailInv, FilersOK, FilerOK, ReportsOK, LearnersOK, LearnThread, FilerAt, Filers
<1>1. /\ UNCHANGED <<mail, inbox, contacts, reported, filed, parked, counted, cut, byHand, crossed, answered, abreast, mailTurns, mailFaults>>
      /\ convs' = [convs EXCEPT ![c].thread = t]
      /\ FilerMoves(p, [filer[p] EXCEPT !.at = "count"]) /\ "count" \in MailPcs
  BY <1>0, InboundAssumption DEF LearnThread, ThreadOf, KeepsOutside, past, MailPcs
<1>2. /\ Moves(p) /\ filer'[p].at = "count" /\ filer'[p].letter = l /\ filer'[p].conv = c /\ filer'[p].batch = filer[p].batch
  BY <1>0, <1>1, GoesOnIs
<1>3. t \in Threads /\ t # NoThread
  BY <1>0, InboundAssumption DEF MailTypes, LetterType
<1> HIDE DEF t
<1>4. /\ convs' \in [Convs -> ConvType] /\ convs'[c].thread = t
      /\ \A d \in Convs : convs'[d].status = convs[d].status
      /\ \A d \in Convs \ {c} : convs'[d] = convs[d]
  <2> DEFINE x == [convs[c] EXCEPT !.thread = t]
  <2>1. x \in ConvType /\ x.status = convs[c].status /\ x.thread = t
    BY <1>0, <1>3 DEF MailTypes, ConvType
  <2>2. convs' = [convs EXCEPT ![c] = x]
    BY <1>0, <1>1 DEF MailTypes
  <2> HIDE DEF x
  <2> QED
    BY <2>1, <2>2, <1>0 DEF MailTypes
<1> HIDE DEF l, c
<1>5. MailTypes'
  BY <1>0, <1>1, <1>2, <1>4 DEF MailTypes, Moves
<1>6. FilersOK'
  <2>1. FilerOK(p)'
    BY <1>0, <1>1, <1>2 DEF FilerOK
  <2> QED
    BY <2>1, <1>0, <1>1, <1>2, FilersStay
<1>7. CountsOK'
  BY <1>0, <1>1, <1>2, CountsStay DEF Counting, l, c
<1>8. ReportsOK'
  <2>1. ReportOK(p)'
    BY <1>0, <1>1, <1>2 DEF ReportOK, l
  <2> QED
    BY <2>1, <1>0, <1>1, <1>2, ReportsStay
<1>9. LearnersOK'
  <2>1. filer[p].at \in Beyond /\ Learner(p) /\ filer'[p].at \notin Beyond
    BY <1>0, <1>2 DEF Beyond, Learner
  <2>2. Tracks(t) = {} \/ t \in abreast
    BY <2>1, <1>0 DEF LearnerOK, t, l
  <2>3. \A u : u # t => Tracks(u)' \subseteq Tracks(u)
    BY <1>4 DEF Tracks
  <2>4. LearnerOK(p)'
    BY <2>1 DEF LearnerOK
  <2>5. ASSUME NEW q \in Polls \ {p} PROVE LearnerOK(q)'
    <3>u. PICK u : u = mail[filer[q].letter].thread
      OBVIOUS
    <3>0. filer'[q] = filer[q] /\ \A r \in Polls \ {p} : filer'[r] = filer[r]
      BY <1>2 DEF Moves, Filers
    <3> SUFFICES ASSUME filer[q].at \in Beyond
                 PROVE  /\ Learner(q) => Tracks(u)' = {} \/ u \in abreast
                        /\ \A r \in Polls \ {q} : filer'[r].at \in Beyond /\ mail[filer'[r].letter].thread = u => u \in abreast
      BY <3>0, <3>u, <1>1 DEF LearnerOK, Learner
    <3>1. LearnerOK(q)
      BY <1>0 DEF LearnersOK
    <3>2. u = t => u \in abreast
      BY <3>1, <3>u, <2>1 DEF LearnerOK, t, l
    <3>3. u # t => Tracks(u)' \subseteq Tracks(u)
      BY <2>3
    <3>4. Learner(q) => Tracks(u) = {} \/ u \in abreast
      BY <3>1, <3>u DEF LearnerOK
    <3>5. \A r \in Polls \ {q} : filer'[r].at \in Beyond /\ mail[filer'[r].letter].thread = u => u \in abreast
      BY <3>0, <3>1, <3>u, <2>1 DEF LearnerOK
    <3> QED
      BY <3>2, <3>3, <3>4, <3>5
  <2>6. ThreadsApart'
    <3> SUFFICES ASSUME NEW d \in Convs, NEW e \in Convs, d # e, convs'[d].thread = convs'[e].thread, convs'[d].thread # NoThread
                 PROVE  convs'[d].thread \in abreast
      BY <1>1 DEF ThreadsApart
    <3>1. CASE d # c /\ e # c
      BY <3>1, <1>0, <1>4 DEF LearnersOK, ThreadsApart
    <3>2. CASE d = c
      <4>1. e \in Tracks(t)
        BY <3>2, <1>4 DEF Tracks
      <4> QED
        BY <4>1, <2>2, <3>2, <1>4
    <3>3. CASE e = c
      <4>1. d \in Tracks(t)
        BY <3>3, <1>4 DEF Tracks
      <4> QED
        BY <4>1, <2>2, <3>3, <1>4
    <3> QED
      BY <3>1, <3>2, <3>3
  <2> QED
    BY <2>4, <2>5, <2>6 DEF LearnersOK
<1>10. StatusesOK'
  <2>1. StatusOK(p)'
    BY <1>2 DEF StatusOK
  <2> QED
    BY <2>1, <1>0, <1>1, <1>2, <1>4, InvFilers, StatusesStay
<1>11. PlacesOK'
  <2>1. MarkOK(p)' /\ OpenOK(p)' /\ ParksOnly
    BY <1>1, <1>2 DEF MarkOK, OpenOK, ParksOnly
  <2> QED
    BY <2>1, <1>0, <1>1, <1>2, InvFilers, PlacesStay
<1> QED
  BY <1>5, <1>6, <1>7, <1>8, <1>9, <1>10, <1>11 DEF MailInv

(* _on_inbound_reply(): the one that holds the letter counts it.            *)
LEMMA CountReplyKeeps == ASSUME MailInv, NEW p \in Polls, CountReply(p) PROVE MailInv'
<1>l. PICK l : l = filer[p].letter
  OBVIOUS
<1>0. /\ MailTypes /\ FilersOK /\ CountsOK /\ ReportsOK /\ LearnersOK /\ StatusesOK /\ PlacesOK /\ filer[p].at = "count"
      /\ p \in Filers /\ p \notin People /\ l \in Letters /\ HandOK(p) /\ filer[p].conv \in Convs
  BY <1>l, InboundAssumption DEF MailInv, FilersOK, FilerOK, CountsOK, CountReply, FilerAt, Filers
<1>1. /\ UNCHANGED <<mail, inbox, contacts, convs, reported, filed, parked, cut, byHand, crossed, answered, abreast, mailTurns, mailFaults>>
      /\ counted' = [counted EXCEPT ![l] = counted[l] + 1] /\ FilerMoves(p, RestOf(p))
  BY <1>l DEF CountReply, KeepsOutside, past
<1>2. PutsDownMail(p) /\ Moves(p) /\ filer'[p].at \in {"idle", "take"} /\ FilerOK(p)'
  BY <1>0, <1>1, PutRest DEF PutsDownMail
<1>3. filed[l] # NoConv /\ counted[l] = 0 /\ l \notin byHand \cup cut /\ filer[p].at \in Counting
  BY <1>0, <1>l, InboundAssumption DEF HandOK, Counting
<1>4. counted' \in [Letters -> Nat] /\ counted'[l] = 1 /\ \A j \in Letters \ {l} : counted'[j] = counted[j]
  BY <1>0, <1>1, <1>3 DEF MailTypes
<1>5. MailTypes'
  BY <1>0, <1>1, <1>2, <1>4 DEF MailTypes, Moves
<1>6. FilersOK'
  BY <1>0, <1>1, <1>2, FilersStay
<1>7. CountsOK'
  <2>1. ASSUME NEW g \in Filers, filer'[g].at \in Counting
        PROVE  filer'[g] = filer[g] /\ filer[g].at \in Counting /\ filer[g].letter \in Letters \ {l}
    <3>1. g # p
      BY <2>1, <1>2 DEF Counting
    <3>2. filer'[g] = filer[g] /\ filer[g].letter \in Letters
      BY <3>1, <2>1, <1>0, <1>2 DEF Moves, FilersOK, FilerOK, Counting
    <3>3. filer[g].letter # l
      BY <3>1, <3>2, <2>1, <1>0, <1>3, <1>l DEF HandOK
    <3> QED
      BY <3>2, <3>3, <2>1
  <2>2. ASSUME NEW g \in Filers PROVE HandOK(g)'
    <3>1. HandOK(g)
      BY <1>0 DEF CountsOK
    <3> QED
      BY <3>1, <2>1, <1>1, <1>4 DEF HandOK
  <2>3. FiledOK(l)'
    BY <1>1, <1>3, <1>4 DEF FiledOK
  <2>4. ASSUME NEW j \in Letters \ {l} PROVE FiledOK(j)'
    <3>1. InHand(j) => InHand(j)'
      <4> SUFFICES ASSUME NEW g \in Filers, filer[g].letter = j, filer[g].at \in Counting
                   PROVE  filer'[g] = filer[g]
        BY DEF InHand, Counting
      <4> QED
        BY <1>2, <1>l DEF Moves
    <3>2. FiledOK(j)
      BY <1>0 DEF CountsOK
    <3> QED
      BY <3>1, <3>2, <1>1, <1>4 DEF FiledOK
  <2> QED
    BY <2>2, <2>3, <2>4 DEF CountsOK
<1>8. ReportsOK'
  BY <1>0, <1>1, <1>2, PutDownReports
<1>9. LearnersOK'
  BY <1>0, <1>1, <1>2, LearnersStay DEF Beyond
<1>10. StatusesOK'
  <2>1. StatusOK(p)'
    BY <1>2 DEF StatusOK
  <2> QED
    BY <2>1, <1>0, <1>1, <1>2, InvFilers, StatusesStay
<1>11. PlacesOK'
  <2>1. MarkOK(p)' /\ ParksOnly
    BY <1>1, <1>2 DEF MarkOK, ParksOnly
  <2> QED
    BY <2>1, <1>0, <1>1, <1>2, InvFilers, PlacesStay
<1> QED
  BY <1>5, <1>6, <1>7, <1>8, <1>9, <1>10, <1>11 DEF MailInv

LEMMA MarkAssignedKeeps == ASSUME MailInv, NEW h \in People, MarkAssigned(h) PROVE MailInv'
<1>l. PICK l, c : l = filer[h].letter /\ c = filer[h].conv
  OBVIOUS
<1>0. /\ MailTypes /\ FilersOK /\ CountsOK /\ ReportsOK /\ LearnersOK /\ StatusesOK /\ PlacesOK /\ filer[h].at = "mark"
      /\ h \in Filers /\ h \notin Polls /\ l \in Letters /\ c \in Convs /\ MarkOK(h) /\ ReportOK(h)
  BY <1>l, InboundAssumption DEF MailInv, FilersOK, FilerOK, ReportsOK, PlacesOK, MarkAssigned, FilerAt, Filers
<1>1. /\ UNCHANGED <<mail, inbox, contacts, convs, reported, filed, counted, cut, byHand, crossed, answered, abreast, mailTurns, mailFaults>>
      /\ parked' = [parked EXCEPT ![l] = [status |-> "assigned", to |-> c]] /\ FilerMoves(h, Resting)
  BY <1>l DEF MarkAssigned, KeepsOutside, past
<1>2. PutsDownMail(h) /\ Moves(h) /\ filer'[h].at \in {"idle", "take"} /\ FilerOK(h)'
  BY <1>0, <1>1, PutResting DEF PutsDownMail
<1>3. /\ parked' \in [Letters -> ParkType] /\ parked'[l].status = "assigned" /\ parked'[l].to = c
      /\ \A j \in Letters \ {l} : parked'[j] = parked[j]
  <2>1. [status |-> "assigned", to |-> c] \in ParkType
    BY <1>0 DEF ParkType
  <2> QED
    BY <2>1, <1>0, <1>1 DEF MailTypes
<1>4. MailTypes'
  BY <1>0, <1>1, <1>2, <1>3 DEF MailTypes, Moves
<1>5. FilersOK'
  BY <1>0, <1>1, <1>2, FilersStay
<1>6. CountsOK'
  BY <1>0, <1>1, <1>2, CountsStay DEF Counting
<1>7. ReportsOK'
  <2>1. ~mail[l].bounce \/ mail[l].ref = NoConv
    BY <1>0, <1>l DEF ReportOK
  <2> QED
    BY <2>1, <1>0, <1>1, <1>2, <1>3, PutDownReports
<1>8. LearnersOK'
  BY <1>0, <1>1, <1>2, LearnersStay DEF Beyond
<1>9. StatusesOK'
  <2>1. StatusOK(h)'
    BY <1>2 DEF StatusOK
  <2> QED
    BY <2>1, <1>0, <1>1, <1>2, InvFilers, StatusesStay
<1>10. PlacesOK'
  <2>1. ASSUME NEW g \in Filers PROVE MarkOK(g)'
    <3>1. CASE g = h
      BY <3>1, <1>2 DEF MarkOK
    <3>2. CASE g # h
      BY <3>2, <1>0, <1>1, <1>2 DEF MarkOK, PlacesOK, Moves
    <3> QED
      BY <3>1, <3>2
  <2>2. ASSUME NEW g \in People PROVE OpenOK(g)'
    <3>1. CASE g = h
      BY <3>1, <1>2 DEF OpenOK
    <3>2. CASE g # h
      BY <3>2 DEF OpenOK, SinglePerson
    <3> QED
      BY <3>1, <3>2
  <2>3. PlacedOK(l)' /\ ToldOK(l)'
    BY <1>0, <1>1, <1>3, <1>l DEF PlacedOK, ToldOK, MarkOK
  <2>4. ASSUME NEW j \in Letters \ {l} PROVE PlacedOK(j)' /\ ToldOK(j)'
    <3>1. PlacedOK(j) /\ ToldOK(j)
      BY <1>0 DEF PlacesOK
    <3>2. ASSUME NEW g \in People, filer[g].letter = j, filer[g].at \in {"reopen", "mark"} PROVE filer'[g] = filer[g]
      BY <3>2, <1>2, <1>l DEF Moves, Filers
    <3> QED
      BY <3>1, <3>2, <1>1, <1>3 DEF PlacedOK, ToldOK
  <2> QED
    BY <2>1, <2>2, <2>3, <2>4 DEF PlacesOK
<1> QED
  BY <1>4, <1>5, <1>6, <1>7, <1>8, <1>9, <1>10 DEF MailInv

(* A filer that stops; what it had inserted but not counted is cut off.     *)
LEMMA MailFaultKeeps == ASSUME MailInv, NEW f \in Filers, MailFault(f) PROVE MailInv'
<1>l. PICK l : l = filer[f].letter
  OBVIOUS
<1>0. /\ MailTypes /\ FilersOK /\ CountsOK /\ ReportsOK /\ LearnersOK /\ StatusesOK /\ PlacesOK /\ HandOK(f) /\ FilerOK(f)
  BY DEF MailInv, CountsOK, FilersOK
<1> DEFINE Lost == filer[f].at \in Counting \/ (filer[f].at = "mark" /\ l \in byHand)
<1>1. /\ UNCHANGED <<mail, inbox, contacts, convs, reported, filed, parked, counted, byHand, crossed, answered, abreast, mailTurns>>
      /\ mailFaults' \in 0..MaxMailFaults
      /\ cut' = IF Lost THEN cut \cup {l} ELSE cut
  BY <1>0, <1>l, InboundAssumption DEF MailFault, store, MailTypes, FilerAt, Counting
<1>2. PutsDownMail(f)
  <2>1. CASE FilerMoves(f, Resting)
    BY <2>1, <1>0, <1>1, PutResting
  <2>2. CASE FilerMoves(f, RestOf(f))
    BY <2>2, <1>0, <1>1, PutRest
  <2>3. ASSUME NEW j \in filer[f].batch, FilerAt(f, "take"), FilerMoves(f, Left(f, j)) PROVE PutsDownMail(f)
    <3>1. f \in Polls
      BY <2>3, <1>0 DEF FilerAt, FilerOK
    <3> QED
      BY <3>1, <2>3, <1>0, <1>1, PutLeft
  <2> QED
    BY <2>1, <2>2, <2>3 DEF MailFault
<1>3. Moves(f) /\ filer'[f].at \in {"idle", "take"} /\ FilerOK(f)'
  BY <1>2 DEF PutsDownMail
<1>4. Lost => l \in Letters
  BY <1>0, <1>l DEF FilerOK, Counting
<1>5. cut' \subseteq Letters /\ cut \subseteq cut' /\ \A j \in cut' \ cut : j = l /\ Lost
  BY <1>0, <1>1, <1>4 DEF MailTypes
<1>6. filer[f].at \in Counting =>
        filed[l] = filer[f].conv /\ filer[f].conv \in Convs /\ counted[l] = 0 /\ l \in Letters /\ l \in cut'
  BY <1>0, <1>1, <1>l, <1>4 DEF HandOK, FilerOK, Counting
<1>7. filer[f].at = "mark" /\ l \in byHand => l \in cut'
  BY <1>1
<1> HIDE DEF Lost
<1>8. MailTypes'
  BY <1>0, <1>1, <1>3, <1>5 DEF MailTypes, Moves
<1>9. FilersOK'
  BY <1>0, <1>1, <1>3, FilersStay
<1>10. CountsOK'
  <2>1. ASSUME NEW g \in Filers, filer'[g].at \in Counting
        PROVE  g # f /\ filer'[g] = filer[g] /\ filer[g].at \in Counting /\ HandOK(g)
    BY <2>1, <1>0, <1>3 DEF Moves, Counting, CountsOK
  <2>2. ASSUME NEW g \in Filers, filer'[g].at \in Counting, g \in Polls PROVE filer[g].letter \notin cut'
    <3>1. filer[g].letter \notin byHand \cup cut
      BY <2>1, <2>2 DEF HandOK
    <3>2. filer[f].at \in Counting => filer[g].letter # l
      BY <2>1, <2>2, <1>0, <1>l DEF HandOK
    <3> QED
      BY <3>1, <3>2, <1>5 DEF Lost
  <2>3. ASSUME NEW g \in Filers PROVE HandOK(g)'
    BY <2>1, <2>2, <1>1 DEF HandOK
  <2>4. ASSUME NEW j \in Letters PROVE FiledOK(j)'
    <3>1. FiledOK(j)
      BY <1>0 DEF CountsOK
    <3>2. filed[j] = NoConv => j \notin cut'
      <4> SUFFICES ASSUME filed[j] = NoConv, j \in cut' PROVE FALSE
        OBVIOUS
      <4>1. j \notin cut /\ j \notin byHand
        BY <3>1 DEF FiledOK
      <4>2. j = l /\ filer[f].at \in Counting
        BY <4>1, <1>5 DEF Lost
      <4> QED
        BY <4>2, <1>6, InboundAssumption
    <3>3. CASE filed[j] # NoConv /\ ~InHand(j)
      <4>1. j \in cut' \cup byHand <=> j \in cut \cup byHand
        <5> SUFFICES ASSUME j \in cut', j \notin cut PROVE j \in byHand
          BY <1>5
        <5>1. j = l /\ Lost
          BY <1>5
        <5>2. filer[f].at \notin Counting
          BY <5>1, <3>3, <1>l DEF InHand, Counting
        <5> QED
          BY <5>1, <5>2 DEF Lost
      <4> QED
        BY <4>1, <3>1, <3>3, <1>1 DEF FiledOK
    <3>4. CASE InHand(j) /\ ~InHand(j)'
      <4>1. PICK g \in Filers : filer[g].letter = j /\ filer[g].at \in Counting
        BY <3>4 DEF InHand, Counting
      <4>2. g = f
        BY <4>1, <3>4, <1>3 DEF InHand, Counting, Moves
      <4>3. counted[j] = 0 /\ j \in cut'
        BY <4>1, <4>2, <1>6, <1>l
      <4> QED
        BY <4>3, <3>2, <1>1 DEF FiledOK
    <3>5. CASE InHand(j)'
      BY <3>1, <3>2, <3>5, <1>1 DEF FiledOK
    <3>6. CASE filed[j] = NoConv
      BY <3>1, <3>2, <3>6, <1>1 DEF FiledOK
    <3> QED
      BY <3>3, <3>4, <3>5, <3>6
  <2> QED
    BY <2>3, <2>4 DEF CountsOK
<1>11. ReportsOK'
  BY <1>0, <1>1, <1>2, PutDownReports DEF MailInv
<1>12. LearnersOK'
  BY <1>0, <1>1, <1>3, LearnersStay DEF Beyond
<1>13. StatusesOK'
  <2>1. StatusOK(f)'
    BY <1>3 DEF StatusOK
  <2>2. filer[f].at = "reopen" => \E j \in cut' : filed[j] = filer[f].conv
    BY <1>6 DEF Counting
  <2> QED
    BY <2>1, <2>2, <1>0, <1>1, <1>3, <1>5, InvFilers, StatusesStay
<1>14. PlacesOK'
  <2>1. MarkOK(f)' /\ (f \in People => OpenOK(f)') /\ ParksOnly
    BY <1>1, <1>3 DEF MarkOK, OpenOK, ParksOnly
  <2>2. ~(filer[f].at \in {"reopen", "mark"} /\ filer[f].letter \in byHand \ cut')
    BY <1>6, <1>7, <1>l DEF Counting
  <2> QED
    BY <2>1, <2>2, <1>0, <1>1, <1>3, <1>5, InvFilers, PlacesStay
<1> QED
  BY <1>8, <1>9, <1>10, <1>11, <1>12, <1>13, <1>14 DEF MailInv

-----------------------------------------------------------------------------
LEMMA MailInvInit == InboundInit => MailInv
<1> SUFFICES ASSUME InboundInit PROVE MailInv
  OBVIOUS
<1>1. Resting \in FilerType /\ Resting.at = "idle" /\ Resting.batch = {}
  BY DEF Resting, FilerType, MailPcs
<1>2. filer \in [Filers -> FilerType] /\ \A f \in Filers : filer[f].at = "idle" /\ filer[f].batch = {}
  BY <1>1 DEF InboundInit
<1>3. convs \in [Convs -> ConvType]
  <2>1. [status : {"open"}, thread : Threads \cup {NoThread}] \subseteq ConvType
    BY DEF ConvType, ConvStatuses
  <2> HIDE DEF ConvType
  <2> QED
    BY <2>1 DEF InboundInit
<1>4. /\ mail \in [Letters -> LetterType] /\ inbox \subseteq Letters /\ contacts \in 0..2
      /\ \A l \in Letters : filed[l] = NoConv /\ counted[l] = 0 /\ parked[l].status = "none"
      /\ reported = {} /\ cut = {} /\ byHand = {} /\ crossed = {} /\ answered = {} /\ abreast = {}
      /\ filed \in [Letters -> Convs \cup {NoConv}] /\ counted \in [Letters -> Nat] /\ parked \in [Letters -> ParkType]
      /\ mailTurns \in 0..MaxTurns /\ mailFaults \in 0..MaxMailFaults
  BY InboundAssumption DEF InboundInit, LetterType, ParkType
<1>5. MailTypes
  BY <1>2, <1>3, <1>4 DEF MailTypes
<1>6. FilersOK /\ CountsOK
  BY <1>2, <1>4 DEF FilersOK, FilerOK, CountsOK, HandOK, FiledOK, Counting
<1>7. ReportsOK
  BY <1>2, <1>4 DEF ReportsOK, ReportOK, ParkOK, ReportsAreNoReplies
<1>8. LearnersOK
  <2>1. \A p \in Polls : LearnerOK(p)
    BY <1>2 DEF LearnerOK, Filers, Beyond
  <2>2. ASSUME NEW c \in Convs, NEW d \in Convs, c # d, convs[c].thread = convs[d].thread, convs[c].thread # NoThread
        PROVE  FALSE
    <3>1. PICK t \in Threads : t = convs[c].thread
      BY <2>2, <1>3 DEF ConvType
    <3>2. Cardinality(Tracks(t)) <= 1
      BY DEF InboundInit
    <3>3. IsFiniteSet(Tracks(t)) /\ {c, d} \subseteq Tracks(t)
      <4>1. Tracks(t) \subseteq Convs /\ {c, d} \subseteq Tracks(t)
        BY <3>1, <2>2 DEF Tracks
      <4> QED
        BY <4>1, FS_Subset, InboundAssumption
    <3>4. Cardinality({c, d}) = 2
      <4>1. Cardinality({c}) = 1 /\ IsFiniteSet({c})
        BY FS_Singleton
      <4>2. Cardinality({c} \cup {d}) = 2
        BY <4>1, <2>2, FS_AddElement
      <4>3. {c} \cup {d} = {c, d}
        OBVIOUS
      <4> QED
        BY <4>2, <4>3
    <3>5. Cardinality({c, d}) <= Cardinality(Tracks(t)) /\ Cardinality(Tracks(t)) \in Nat
      BY <3>3, FS_Subset, FS_CardinalityType
    <3> QED
      BY <3>2, <3>4, <3>5
  <2>3. ThreadsApart
    BY <2>2 DEF ThreadsApart
  <2> QED
    BY <2>1, <2>3 DEF LearnersOK
<1>9. StatusesOK
  BY <1>2, <1>4 DEF StatusesOK, StatusOK, RepliesReopen
<1>10. PlacesOK
  BY <1>2, <1>4 DEF PlacesOK, MarkOK, OpenOK, PlacedOK, ToldOK, Filers
<1> QED
  BY <1>5, <1>6, <1>7, <1>8, <1>9, <1>10 DEF MailInv

LEMMA MailInvStep == MailInv /\ [InboundNext]_mailVars => MailInv'
<1> SUFFICES ASSUME MailInv, [InboundNext]_mailVars PROVE MailInv'
  OBVIOUS
<1>1. CASE UNCHANGED mailVars
  <2>1. UNCHANGED <<mail, inbox, contacts, convs, reported, filed, parked, counted, filer, cut, byHand, crossed, answered,
                    abreast, mailTurns, mailFaults>>
    BY <1>1 DEF mailVars, store, past
  <2>2. MailTypes' /\ FilersOK'
    BY <2>1 DEF MailInv, MailTypes, FilersOK, FilerOK
  <2>3. CountsOK'
    BY <2>1 DEF MailInv, CountsOK, HandOK, FiledOK, InHand
  <2>4. ReportsOK' /\ LearnersOK'
    BY <2>1 DEF MailInv, ReportsOK, ReportOK, ParkOK, ReportsAreNoReplies, LearnersOK, LearnerOK, Learner, Tracks, ThreadsApart
  <2>5. StatusesOK'
    BY <2>1 DEF MailInv, StatusesOK, StatusOK, RepliesReopen, FilerAt
  <2>6. PlacesOK'
    BY <2>1 DEF MailInv, PlacesOK, MarkOK, OpenOK, PlacedOK, ToldOK
  <2> QED
    BY <2>2, <2>3, <2>4, <2>5, <2>6 DEF MailInv
<1>2. CASE Enter
  BY <1>2, EnterKeeps
<1>3. ASSUME NEW c \in Convs, NEW s \in ConvStatuses, MoveConv(c, s) PROVE MailInv'
  BY <1>3, MoveConvKeeps
<1>4. ASSUME NEW p \in Polls, Fetch(p) \/ PollStep(p) PROVE MailInv'
  BY <1>4, FetchKeeps, FetchedAllKeeps, ByHeaderKeeps, ByContactKeeps, LearnThreadKeeps, CountReplyKeeps, ReportKeeps,
     ByThreadKeeps DEF PollStep
<1>5. ASSUME NEW h \in People, MarkAssigned(h) \/ \E l \in Letters, c \in Convs : TakeInHand(h, l, c) PROVE MailInv'
  BY <1>5, MarkAssignedKeeps, TakeInHandKeeps
<1>6. ASSUME NEW f \in Filers, FileStep(f) \/ MailFault(f) PROVE MailInv'
  BY <1>6, ReadConvKeeps, InsertNewKeeps, InsertKnownKeeps, ReopenKeeps, MailFaultKeeps DEF FileStep
<1> QED
  BY <1>1, <1>2, <1>3, <1>4, <1>5, <1>6 DEF InboundNext

(***************************************************************************)
(* However many letters, polls, people, changes and faults: a reply is     *)
(* counted once, a report is none, threads stay apart, replies reopen, and *)
(* what is assigned is filed, each but for what the property names         *)
(* (poll_tenant, ingest, record_inbound, assign_unmatched).                *)
(***************************************************************************)
THEOREM RepliesArriveOnce ==
  InboundSpec =>
    [](InboundTypeOK /\ CountedOnce /\ ReportsAreNoReplies /\ ThreadsApart /\ RepliesReopen /\ AssignedIsFiled)
BY MailSafe, MailInvInit, MailInvStep, PTL DEF InboundSpec
=============================================================================
