-------------------------- MODULE OutboundDelivery --------------------------
(***************************************************************************)
(* backend/conversations.py: an outbound message from draft to the client, *)
(* composed with the approval queue that gates it.  Senders are the        *)
(* Workers that race to consume; Subjects are the messages.                *)
(*                                                                         *)
(* Actors, each one step per await that another actor can slip past:       *)
(*   sender      attempt_delivery (send route, deliver_approved, auto      *)
(*               reply); may crash or raise at any step                    *)
(*   operator    request_approval, a decision or cancellation followed by  *)
(*               _apply_approval_side_effects, and the withdrawals of      *)
(*               recovery_lifecycle and booking; may crash between steps   *)
(*   reconciler  run_reconcile_unknown_sweep and the reconcile route       *)
(*   provider    the mailbox: holds what was dispatched to it, may bounce  *)
(*                                                                         *)
(* Bounds: every dispatch consumes an approval, so Approvals bounds the    *)
(* attempts.  A provider call that has raised is assumed settled: it is    *)
(* not accepted afterwards.                                                *)
(***************************************************************************)
EXTENDS ApprovalQueue

CONSTANTS Operators, Reconcilers,
          InternalMessages   \* messages of the internal channel: no provider

ASSUME InternalAssumption == InternalMessages \subseteq Subjects

Messages == Subjects
Senders  == Workers

VARIABLES
  mstatus,              \* the message document's status
  approval_id,          \* the approval it carries
  sendings,             \* `sending' entries of its history: the dispatch attempt
  provider_message_id,  \* which attempt's provider id it records, 0 for none
  cleared,              \* channel authorised, consent granted, provider registered
  sender,               \* attempt_delivery in flight, with what it has read
  operator,             \* request, decision or withdrawal in flight
  reconciler,           \* a provider lookup in flight
  held,                 \* <<message, attempt>> the provider accepted
  bounced,              \* ... of which the client never got a copy
  dispatches,           \* history: provider calls and the approval that paid
  interrupted,          \* history: messages refused while `sending'
  misread,              \* history: messages given the answer to an older attempt
  dropped               \* history: approvals held by a sender that crashed

messageVars == <<mstatus, approval_id, sendings, provider_message_id>>
historyVars == <<dispatches, interrupted, misread, dropped>>
vars == <<approvalVars, messageVars, historyVars, cleared, sender, operator,
          reconciler, held, bounced>>

MessageStates == {"draft", "pending_approval", "approved", "sending", "sent",
                  "failed", "outcome_unknown", "blocked"}

(* Mutant: the table loses the way from an unknown outcome to `failed'. *)
MESSAGE_TRANSITIONS_OneWay ==
  [draft            |-> {"pending_approval", "blocked"},
   pending_approval |-> {"approved", "blocked", "draft"},
   approved         |-> {"sending", "blocked", "pending_approval"},
   sending          |-> {"sent", "failed", "outcome_unknown", "blocked"},
   sent             |-> {"delivered", "failed"},
   failed           |-> {"pending_approval", "draft"},
   outcome_unknown  |-> {"sent", "delivered"},
   blocked          |-> {"draft", "pending_approval"}]

MESSAGE_TRANSITIONS ==
  [draft            |-> {"pending_approval", "blocked"},
   pending_approval |-> {"approved", "blocked", "draft"},
   approved         |-> {"sending", "blocked", "pending_approval"},
   sending          |-> {"sent", "failed", "outcome_unknown", "blocked"},
   sent             |-> {"delivered", "failed"},
   failed           |-> {"pending_approval", "draft"},
   outcome_unknown  |-> {"sent", "delivered", "failed"},
   blocked          |-> {"draft", "pending_approval"}]

(* An actor between two awaits: where it is, and the message, approval and *)
(* dispatch attempt (or status) it has read.                               *)
At(pc, m, a, n) == [pc |-> pc, m |-> m, a |-> a, n |-> n]
Idle     == At("idle", NoSubject, NoApproval, 0)
IdleOperator == At("idle", NoSubject, NoApproval, "none")

SenderSteps     == {"idle", "check", "consume", "claim", "mark", "send",
                    "accepted", "rejected", "lost", "refuse"}
OperatorSteps   == {"idle", "attach", "mark", "mark_read", "refuse"}
ReconcilerSteps == {"idle", "found", "not_found"}

OutboundTypeOK ==
  /\ TypeOK
  /\ mstatus \in [Messages -> MessageStates]
  /\ approval_id \in [Messages -> Approvals \cup {NoApproval}]
  /\ sendings \in [Messages -> Nat]
  /\ provider_message_id \in [Messages -> Nat]
  /\ cleared \in [Messages -> BOOLEAN]
  /\ sender \in [Senders -> [pc : SenderSteps, m : Messages \cup {NoSubject},
                             a : Approvals \cup {NoApproval}, n : Nat]]
  /\ operator \in [Operators -> [pc : OperatorSteps, m : Messages \cup {NoSubject},
                                 a : Approvals \cup {NoApproval},
                                 n : MessageStates \cup {"none"}]]
  /\ reconciler \in [Reconcilers -> [pc : ReconcilerSteps, m : Messages \cup {NoSubject},
                                     a : {NoApproval}, n : Nat]]
  /\ held \subseteq Messages \X Nat
  /\ bounced \subseteq held
  /\ dispatches \subseteq [m : Messages, n : Nat, a : Approvals]
  /\ interrupted \subseteq Messages
  /\ misread \subseteq Messages
  /\ dropped \subseteq Approvals

OutboundInit ==
  /\ Init
  /\ mstatus = [m \in Messages |-> "draft"]
  /\ approval_id = [m \in Messages |-> NoApproval]
  /\ sendings = [m \in Messages |-> 0]
  /\ provider_message_id = [m \in Messages |-> 0]
  /\ cleared = [m \in Messages |-> TRUE]
  /\ sender = [s \in Senders |-> Idle]
  /\ operator = [o \in Operators |-> IdleOperator]
  /\ reconciler = [r \in Reconcilers |-> Idle]
  /\ held = {} /\ bounced = {}
  /\ dispatches = {} /\ interrupted = {} /\ misread = {} /\ dropped = {}

-----------------------------------------------------------------------------
(***************************************************************************)
(* _transition(): the update is conditional on the status the caller read, *)
(* and on nothing else the caller read.                                    *)
(***************************************************************************)
Transition(m, from, to) ==
  /\ to \in MESSAGE_TRANSITIONS[from]
  /\ mstatus[m] = from
  /\ mstatus' = [mstatus EXCEPT ![m] = to]

(***************************************************************************)
(* mark_refused(): it reads the message again, so whoever refuses blocks   *)
(* the message in whatever state it has reached, `sending' included.       *)
(***************************************************************************)
MarkRefused(m) ==
  /\ IF "blocked" \in MESSAGE_TRANSITIONS[mstatus[m]]
     THEN /\ Transition(m, mstatus[m], "blocked")
          /\ interrupted' = IF mstatus[m] = "sending" THEN interrupted \cup {m}
                            ELSE interrupted
     ELSE UNCHANGED <<mstatus, interrupted>>
  /\ UNCHANGED <<approval_id, sendings, provider_message_id>>

-----------------------------------------------------------------------------
(* The sender: attempt_delivery. *)
Goto(s, pc) == sender' = [sender EXCEPT ![s].pc = pc]
SenderDone(s) == sender' = [sender EXCEPT ![s] = Idle]

OnlySender == UNCHANGED <<cleared, operator, reconciler>>

(* get_message: an approved message is snapshotted, any other is refused. *)
Begin(s, m) ==
  /\ sender[s] = Idle
  /\ \/ /\ mstatus[m] = "approved"
        /\ sender' = [sender EXCEPT ![s] = At("check", m, approval_id[m], 0)]
     \/ /\ mstatus[m] # "approved"
        /\ "blocked" \in MESSAGE_TRANSITIONS[mstatus[m]]
        /\ sender' = [sender EXCEPT ![s] = At("refuse", m, NoApproval, 0)]
  /\ OnlySender
  /\ UNCHANGED <<approvalVars, messageVars, historyVars, held, bounced>>

(***************************************************************************)
(* The live preconditions (none for an internal message), then             *)
(* refresh_blocks, which clears the recorded blocks because they all hold, *)
(* and raises when the approval is closed.                                 *)
(***************************************************************************)
Passes(m) == m \in InternalMessages \/ cleared[m]

Check(s) ==
  LET m == sender[s].m  a == sender[s].a
      passes == Passes(m) /\ a # NoApproval /\ status[a] \in {"requested", "approved"}
  IN /\ sender[s].pc = "check"
     /\ \/ passes /\ RefreshBlocks(a, FALSE) /\ Goto(s, "consume")
        \/ ~passes /\ Goto(s, "refuse") /\ UNCHANGED approvalVars
     /\ OnlySender
     /\ UNCHANGED <<messageVars, historyVars, held, bounced>>

(* approval_queue.consume bound to this message, in its two halves. *)
Consume(s) ==
  LET m == sender[s].m  a == sender[s].a
  IN /\ sender[s].pc = "consume"
     /\ \/ ConsumeCheck(s, a, m) /\ Goto(s, "claim")
        \/ ~MayConsume(a, m) /\ Goto(s, "refuse") /\ UNCHANGED approvalVars
     /\ OnlySender
     /\ UNCHANGED <<messageVars, historyVars, held, bounced>>

Claim(s) ==
  /\ sender[s].pc = "claim"
  /\ \/ ConsumeClaim(s) /\ Goto(s, "mark")
     \/ ConsumeLost(s) /\ Goto(s, "refuse")
  /\ OnlySender
  /\ UNCHANGED <<messageVars, historyVars, held, bounced>>

Refuse(s) ==
  /\ sender[s].pc = "refuse"
  /\ MarkRefused(sender[s].m)
  /\ SenderDone(s)
  /\ OnlySender
  /\ UNCHANGED <<approvalVars, dispatches, misread, dropped, held, bounced>>

(* Mutant: the dispatch key does not count attempts. *)
MarkSendingSameKey(s) ==
  LET m == sender[s].m
  IN /\ sender[s].pc = "mark"
     /\ \/ /\ Transition(m, "approved", "sending")
           /\ sender' = [sender EXCEPT ![s].pc = "send", ![s].n = 1]
        \/ mstatus[m] # "approved" /\ SenderDone(s) /\ UNCHANGED mstatus
     /\ OnlySender
     /\ UNCHANGED <<approvalVars, approval_id, sendings, provider_message_id, historyVars,
                    held, bounced>>

(***************************************************************************)
(* approved -> sending.  The update names the message and its status, not  *)
(* the approval that was consumed.  When it fails the exception leaves     *)
(* attempt_delivery with the approval spent and nothing sent.              *)
(***************************************************************************)
MarkSending(s) ==
  LET m == sender[s].m
  IN /\ sender[s].pc = "mark"
     /\ \/ /\ Transition(m, "approved", "sending")
           /\ sendings' = [sendings EXCEPT ![m] = @ + 1]
           /\ sender' = [sender EXCEPT ![s].pc = "send", ![s].n = sendings[m] + 1]
        \/ /\ mstatus[m] # "approved"
           /\ SenderDone(s)
           /\ UNCHANGED <<mstatus, sendings>>
     /\ OnlySender
     /\ UNCHANGED <<approvalVars, approval_id, provider_message_id, historyVars,
                    held, bounced>>

(* An internal message never leaves the CRM: sending -> sent, or an exception. *)
DeliverInternal(s) ==
  LET m == sender[s].m
  IN /\ sender[s].pc = "send" /\ m \in InternalMessages
     /\ \/ Transition(m, "sending", "sent")
        \/ mstatus[m] # "sending" /\ UNCHANGED mstatus
     /\ dispatches' = dispatches \cup {[m |-> m, n |-> sender[s].n, a |-> sender[s].a]}
     /\ SenderDone(s)
     /\ OnlySender
     /\ UNCHANGED <<approvalVars, approval_id, sendings, provider_message_id,
                    interrupted, misread, dropped, held, bounced>>

(***************************************************************************)
(* provider.send with the dispatch key <<message, attempt>>: the provider  *)
(* accepts and says so, proves it rejected, or the answer is lost whether  *)
(* or not it accepted.                                                     *)
(***************************************************************************)
Dispatch(s) ==
  LET m == sender[s].m  key == <<m, sender[s].n>>
  IN /\ sender[s].pc = "send" /\ m \notin InternalMessages
     /\ \E outcome \in {"accepted", "rejected", "lost"}, accepts \in BOOLEAN :
          /\ outcome = "accepted" => accepts
          /\ outcome = "rejected" => ~accepts
          /\ Goto(s, outcome)
          /\ held' = IF accepts THEN held \cup {key} ELSE held
     /\ dispatches' = dispatches \cup {[m |-> m, n |-> sender[s].n, a |-> sender[s].a]}
     /\ OnlySender
     /\ UNCHANGED <<approvalVars, messageVars, interrupted, misread, dropped, bounced>>

(* Mutant: an answer that never came is recorded as a rejection. *)
OutcomeStatusOptimistic ==
  [accepted |-> "sent", rejected |-> "failed", lost |-> "failed"]

(* Only a proven rejection is `failed'. *)
OutcomeStatus == [accepted |-> "sent", rejected |-> "failed", lost |-> "outcome_unknown"]

(* The outcome is recorded if the message is still `sending'. *)
Record(s) ==
  LET m == sender[s].m  outcome == sender[s].pc
  IN /\ outcome \in DOMAIN OutcomeStatus
     /\ \/ /\ Transition(m, "sending", OutcomeStatus[outcome])
           /\ provider_message_id' = IF outcome = "accepted"
                THEN [provider_message_id EXCEPT ![m] = sender[s].n]
                ELSE provider_message_id
        \/ mstatus[m] # "sending" /\ UNCHANGED <<mstatus, provider_message_id>>
     /\ SenderDone(s)
     /\ OnlySender
     /\ UNCHANGED <<approvalVars, approval_id, sendings, historyVars, held, bounced>>

SenderCrash(s) ==
  /\ sender[s] # Idle
  /\ SenderDone(s)
  /\ IF sender[s].pc = "claim" THEN WorkerCrash(s) ELSE UNCHANGED approvalVars
  /\ dropped' = IF sender[s].a = NoApproval THEN dropped ELSE dropped \cup {sender[s].a}
  /\ OnlySender
  /\ UNCHANGED <<messageVars, dispatches, interrupted, misread, held, bounced>>

SenderNext(s) ==
  \/ \E m \in Messages : Begin(s, m)
  \/ Check(s) \/ Consume(s) \/ Claim(s) \/ Refuse(s) \/ MarkSending(s)
  \/ DeliverInternal(s) \/ Dispatch(s) \/ Record(s) \/ SenderCrash(s)

-----------------------------------------------------------------------------
(* The operator's routes. *)
OperatorDone(o) == operator' = [operator EXCEPT ![o] = IdleOperator]
OperatorAt(o, pc, m, a, n) == operator' = [operator EXCEPT ![o] = At(pc, m, a, n)]

OnlyOperator == UNCHANGED <<cleared, sender, reconciler, held, bounced, dispatches,
                            misread, dropped>>

(***************************************************************************)
(* request_approval up to the transition.  The request is raised, or the   *)
(* open one of this message returned, whatever status the message has; the *)
(* recorded blocks are what would refuse the message now.                  *)
(***************************************************************************)
RequestApproval(o, m) ==
  /\ operator[o] = IdleOperator
  /\ \/ \E a \in Approvals :
          /\ Request(a, m, m, ~Passes(m))
          /\ OperatorAt(o, "attach", m, a, mstatus[m])
     \/ \E a \in HoldersOf(m) :
          /\ ~IsExpired(a)
          /\ OperatorAt(o, "attach", m, a, mstatus[m])
          /\ UNCHANGED approvalVars
  /\ OnlyOperator
  /\ UNCHANGED <<messageVars, interrupted>>

(* ... and the transition, conditional on the status read before the raise. *)
AttachApproval(o) ==
  LET m == operator[o].m  read == operator[o].n
      legal == "pending_approval" \in MESSAGE_TRANSITIONS[read] /\ mstatus[m] = read
  IN /\ operator[o].pc = "attach"
     /\ \/ /\ legal
           /\ Transition(m, read, "pending_approval")
           /\ approval_id' = [approval_id EXCEPT ![m] = operator[o].a]
        \/ ~legal /\ UNCHANGED <<mstatus, approval_id>>
     /\ OperatorDone(o)
     /\ OnlyOperator
     /\ UNCHANGED <<approvalVars, sendings, provider_message_id, interrupted>>

(* decide() or cancel(), after which the route runs the side effects. *)
DecideApproval(o, a) ==
  /\ operator[o] = IdleOperator
  /\ \E d \in Decisions :
       /\ Decide(a, d)
       /\ OperatorAt(o, IF d = "approved" THEN "mark_read" ELSE "refuse",
                     subject[a], NoApproval, "none")
  /\ OnlyOperator
  /\ UNCHANGED <<messageVars, interrupted>>

CancelApproval(o, a) ==
  /\ operator[o] = IdleOperator
  /\ Cancel(a)
  /\ OperatorAt(o, "refuse", subject[a], NoApproval, "none")
  /\ OnlyOperator
  /\ UNCHANGED <<messageVars, interrupted>>

(* mark_approved: the message is read, then the approval it carried. *)
MarkApprovedRead(o) ==
  LET m == operator[o].m
  IN /\ operator[o].pc = "mark_read"
     /\ IF mstatus[m] = "pending_approval"
        THEN OperatorAt(o, "mark", m, approval_id[m], "none")
        ELSE OperatorDone(o)
     /\ OnlyOperator
     /\ UNCHANGED <<approvalVars, messageVars, interrupted>>

(***************************************************************************)
(* ... and the transition, conditional on the status only.  An approved    *)
(* request stays approved, so the check may as well be made here.          *)
(***************************************************************************)
MarkApproved(o) ==
  LET m == operator[o].m  a == operator[o].a
      legal == status[a] = "approved" /\ mstatus[m] = "pending_approval"
  IN /\ operator[o].pc = "mark"
     /\ \/ legal /\ Transition(m, "pending_approval", "approved")
        \/ ~legal /\ UNCHANGED mstatus
     /\ OperatorDone(o)
     /\ OnlyOperator
     /\ UNCHANGED <<approvalVars, approval_id, sendings, provider_message_id, interrupted>>

(***************************************************************************)
(* withdraw_pending_work and supersede_messages: pick the message while it *)
(* is unsent, cancel its open approval, then refuse it.  A message's       *)
(* approval is replaced only once closed, so the pick and the cancellation *)
(* are one step.                                                           *)
(***************************************************************************)
Withdraw(o, m) ==
  LET a == approval_id[m]
      open == a # NoApproval /\ status[a] = "requested"
  IN /\ operator[o] = IdleOperator
     /\ mstatus[m] \in {"draft", "pending_approval", "approved"}
     /\ \/ open /\ Cancel(a)
        \/ ~open /\ UNCHANGED approvalVars
     /\ OperatorAt(o, "refuse", m, NoApproval, "none")
     /\ OnlyOperator
     /\ UNCHANGED <<messageVars, interrupted>>

OperatorRefuse(o) ==
  /\ operator[o].pc = "refuse"
  /\ MarkRefused(operator[o].m)
  /\ OperatorDone(o)
  /\ OnlyOperator
  /\ UNCHANGED approvalVars

OperatorCrash(o) ==
  /\ operator[o] # IdleOperator
  /\ OperatorDone(o)
  /\ OnlyOperator
  /\ UNCHANGED <<approvalVars, messageVars, interrupted>>

OperatorNext(o) ==
  \/ \E m \in Messages : RequestApproval(o, m) \/ Withdraw(o, m)
  \/ \E a \in Approvals : DecideApproval(o, a) \/ CancelApproval(o, a)
  \/ AttachApproval(o) \/ MarkApprovedRead(o) \/ MarkApproved(o)
  \/ OperatorRefuse(o) \/ OperatorCrash(o)

-----------------------------------------------------------------------------
(***************************************************************************)
(* Reconciliation.  dispatch_key() of the message as read, and the         *)
(* provider's answer about that key; a lookup that raises is no step.      *)
(***************************************************************************)
Locate(r, m) ==
  /\ reconciler[r] = Idle
  /\ mstatus[m] = "outcome_unknown"
  /\ reconciler' = [reconciler EXCEPT ![r] =
       At(IF <<m, sendings[m]>> \in held THEN "found" ELSE "not_found",
          m, NoApproval, sendings[m])]
  /\ UNCHANGED <<approvalVars, messageVars, historyVars, cleared, sender, operator,
                 held, bounced>>

(* reconcile_unknown: it asserts the status, not the attempt asked about. *)
Reconcile(r) ==
  LET m == reconciler[r].m  n == reconciler[r].n  found == reconciler[r].pc = "found"
      unknown == mstatus[m] = "outcome_unknown"
  IN /\ reconciler[r] # Idle
     /\ \/ /\ unknown
           /\ Transition(m, "outcome_unknown", IF found THEN "sent" ELSE "failed")
           /\ provider_message_id' = IF found THEN [provider_message_id EXCEPT ![m] = n]
                                     ELSE provider_message_id
           /\ misread' = IF n = sendings[m] THEN misread ELSE misread \cup {m}
        \/ ~unknown /\ UNCHANGED <<mstatus, provider_message_id, misread>>
     /\ reconciler' = [reconciler EXCEPT ![r] = Idle]
     /\ UNCHANGED <<approvalVars, approval_id, sendings, dispatches, interrupted, dropped,
                    cleared, sender, operator, held, bounced>>

ReconcilerCrash(r) ==
  /\ reconciler[r] # Idle
  /\ reconciler' = [reconciler EXCEPT ![r] = Idle]
  /\ UNCHANGED <<approvalVars, messageVars, historyVars, cleared, sender, operator,
                 held, bounced>>

(* A delivery report about the copy the message records: record_receipt. *)
Bounce(m) ==
  LET key == <<m, provider_message_id[m]>>
  IN /\ provider_message_id[m] # 0 /\ key \in held
     /\ Transition(m, "sent", "failed")
     /\ bounced' = bounced \cup {key}
     /\ UNCHANGED <<approvalVars, approval_id, sendings, provider_message_id, historyVars,
                    cleared, sender, operator, reconciler, held>>

(* Authority, consent or the provider's registration changes. *)
SetCleared(m, isCleared) ==
  /\ cleared' = [cleared EXCEPT ![m] = isCleared]
  /\ UNCHANGED <<approvalVars, messageVars, historyVars, sender, operator, reconciler,
                 held, bounced>>

(* Only the expiry of an open request matters. *)
Expiry(a) ==
  /\ \/ status[a] = "requested" /\ Lapse(a)
     \/ MarkExpired(a)
  /\ UNCHANGED <<messageVars, historyVars, cleared, sender, operator, reconciler,
                 held, bounced>>

OutboundNext ==
  \/ \E s \in Senders : SenderNext(s)
  \/ \E o \in Operators : OperatorNext(o)
  \/ \E r \in Reconcilers : \/ \E m \in Messages : Locate(r, m)
                            \/ Reconcile(r) \/ ReconcilerCrash(r)
  \/ \E m \in Messages : Bounce(m)
  \/ \E m \in Messages \ InternalMessages, b \in BOOLEAN : SetCleared(m, b)
  \/ \E a \in Approvals : Expiry(a)

OutboundSpec == OutboundInit /\ [][OutboundNext]_vars

(***************************************************************************)
(* Fairness: the reconcile cron keeps ticking, every tick looks up every   *)
(* stranded message, and not every tick crashes before its answer is       *)
(* recorded.  Nobody else owes a step.                                     *)
(***************************************************************************)
OutboundFairness ==
  \A r \in Reconcilers : /\ \A m \in Messages : SF_vars(Locate(r, m))
                         /\ SF_vars(Reconcile(r))

OutboundFairSpec == OutboundSpec /\ OutboundFairness

-----------------------------------------------------------------------------
(***************************************************************************)
(* Every dispatch was paid for by an approval of that very message, and no *)
(* approval pays twice: concurrent senders, re-requests and crashes never  *)
(* turn one decision into two dispatches.                                  *)
(***************************************************************************)
OneDispatchPerApproval ==
  /\ \A d \in dispatches : execution[d.a] = "consumed" /\ subject[d.a] = d.m
  /\ \A d, e \in dispatches : d.a = e.a => d = e

(***************************************************************************)
(* A dispatch key is used by one dispatch: the provider's deduplication    *)
(* never swallows a separately approved message.                           *)
(***************************************************************************)
KeysNeverReused ==
  \A d, e \in dispatches : d.m = e.m /\ d.n = e.n => d = e

(***************************************************************************)
(* What the record says is what the provider did: a message recorded sent  *)
(* is held under the id it records, and one recorded failed is not with    *)
(* the client.  It can be wrong only for a message that was refused while  *)
(* it was being sent, or judged by an answer about an earlier attempt.     *)
(***************************************************************************)
VerdictsMatchProvider ==
  \A m \in Messages \ (InternalMessages \cup interrupted \cup misread) :
    /\ mstatus[m] = "sent" => <<m, provider_message_id[m]>> \in held
    /\ mstatus[m] = "failed" => \A n \in 1..sendings[m] : <<m, n>> \in held => <<m, n>> \in bounced

(***************************************************************************)
(* The client gets two copies of a message only in those two ways: a lost  *)
(* answer, a crash or a bounce alone never sends a second copy.            *)
(***************************************************************************)
Copies(m) == {key \in held \ bounced : key[1] = m}
DuplicateHasCause ==
  \A m \in Messages : Cardinality(Copies(m)) > 1 => m \in interrupted \cup misread

(***************************************************************************)
(* A message whose outcome is unknown is eventually settled.               *)
(***************************************************************************)
UnknownResolves ==
  \A m \in Messages : []<>(mstatus[m] # "outcome_unknown")

(***************************************************************************)
(* What the documents promise of all messages: never a second copy.        *)
(***************************************************************************)
NoDuplicateSend == \A m \in Messages : Cardinality(Copies(m)) <= 1

(***************************************************************************)
(* What the records of deliveries promise: one dispatch per approval, each *)
(* under a key of its own, a verdict the provider bears out, and no second *)
(* copy without one of the two causes.                                     *)
(***************************************************************************)
OutboundHolds ==
  OutboundTypeOK /\ OneDispatchPerApproval /\ KeysNeverReused /\ VerdictsMatchProvider /\ DuplicateHasCause
=============================================================================
