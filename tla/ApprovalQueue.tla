---------------------------- MODULE ApprovalQueue ----------------------------
(***************************************************************************)
(* backend/approval_queue.py: the human-in-the-loop gate.  A document of   *)
(* the `approvals' collection is a row of the functions below.  Every      *)
(* find_one_and_update is one action; a read whose answer is used after a  *)
(* later await is an action of its own (ConsumeCheck before ConsumeClaim). *)
(*                                                                         *)
(* decide, cancel and _mark_expired also read before they write, but their *)
(* conditional update re-asserts everything the read established, so one   *)
(* action per call has the same successful steps.                          *)
(*                                                                         *)
(* Time is abstracted to lapsed[a]: expires_at lies in the past.           *)
(***************************************************************************)
EXTENDS Naturals, FiniteSets

CONSTANTS Approvals,   \* request ids; their number bounds the requests raised
          Subjects,    \* the things acted on: the bound action names one
          Workers,     \* callers that may race to consume
          NoSubject, NoApproval

ASSUME ApprovalAssumption == /\ NoSubject \notin Subjects
                             /\ NoApproval \notin Approvals

VARIABLES
  status,            \* status, "absent" before the insert
  lapsed,            \* expires_at <= now
  execution,         \* execution.state
  blocked,           \* blocked_reasons is non-empty
  subject,           \* action.message_id: what the approval authorises
  active_dedupe_key, \* NoSubject when the field is unset
  claim,             \* consume() in flight: the request whose read passed
  executions         \* history: how often consume() returned for a request

approvalVars == <<status, lapsed, execution, blocked, subject,
                  active_dedupe_key, claim, executions>>

Statuses  == {"requested", "approved", "rejected", "expired", "cancelled"}
Decisions == {"approved", "rejected"}
Closed    == Statuses \ {"requested"}

TypeOK ==
  /\ status \in [Approvals -> Statuses \cup {"absent"}]
  /\ lapsed \in [Approvals -> BOOLEAN]
  /\ execution \in [Approvals -> {"pending", "consumed", "not_applicable"}]
  /\ blocked \in [Approvals -> BOOLEAN]
  /\ subject \in [Approvals -> Subjects \cup {NoSubject}]
  /\ active_dedupe_key \in [Approvals -> Subjects \cup {NoSubject}]
  /\ claim \in [Workers -> Approvals \cup {NoApproval}]
  /\ executions \in [Approvals -> Nat]

Init ==
  /\ status = [a \in Approvals |-> "absent"]
  /\ lapsed = [a \in Approvals |-> FALSE]
  /\ execution = [a \in Approvals |-> "not_applicable"]
  /\ blocked = [a \in Approvals |-> FALSE]
  /\ subject = [a \in Approvals |-> NoSubject]
  /\ active_dedupe_key = [a \in Approvals |-> NoSubject]
  /\ claim = [w \in Workers |-> NoApproval]
  /\ executions = [a \in Approvals |-> 0]

-----------------------------------------------------------------------------
(* The open request that already holds a dedupe key, if any. *)
HoldersOf(key) == {a \in Approvals : active_dedupe_key[a] = key /\ key # NoSubject}

(* Mutant: a lapse that no longer asks whether the request is still open. *)
IsExpiredWhenClosed(a) == status[a] # "absent" /\ lapsed[a]

IsExpired(a) == status[a] = "requested" /\ lapsed[a]

(* request(): the insert.  old is the set of lapsed requests it closes first. *)
Insert(a, s, key, isBlocked, old) ==
  /\ status[a] = "absent"
  /\ status' = [x \in Approvals |-> IF x = a THEN "requested"
                                    ELSE IF x \in old THEN "expired" ELSE status[x]]
  /\ active_dedupe_key' = [x \in Approvals |-> IF x = a THEN key
                             ELSE IF x \in old THEN NoSubject ELSE active_dedupe_key[x]]
  /\ subject' = [subject EXCEPT ![a] = s]
  /\ execution' = [execution EXCEPT ![a] = IF s = NoSubject THEN "not_applicable"
                                           ELSE "pending"]
  /\ blocked' = [blocked EXCEPT ![a] = isBlocked]
  /\ UNCHANGED <<lapsed, claim, executions>>

(***************************************************************************)
(* request() with a dedupe key.  The unique index refuses the insert while *)
(* a holder exists: a live holder is returned as it is (no step here), a   *)
(* lapsed one is marked expired, which frees the key, and then the insert  *)
(* succeeds.                                                               *)
(***************************************************************************)
Request(a, s, key, isBlocked) ==
  /\ \A h \in HoldersOf(key) : IsExpired(h)
  /\ Insert(a, s, key, isBlocked, HoldersOf(key))

(* Mutant: the lapse is stamped and the key freed, the status forgotten. *)
MarkExpiredStampOnly(a) ==
  /\ IsExpired(a)
  /\ active_dedupe_key' = [active_dedupe_key EXCEPT ![a] = NoSubject]
  /\ UNCHANGED <<status, lapsed, execution, blocked, subject, claim, executions>>

(* _mark_expired(), reached from get, list_requests, decide and expire_due. *)
MarkExpired(a) ==
  /\ IsExpired(a)
  /\ status' = [status EXCEPT ![a] = "expired"]
  /\ active_dedupe_key' = [active_dedupe_key EXCEPT ![a] = NoSubject]
  /\ UNCHANGED <<lapsed, execution, blocked, subject, claim, executions>>

(***************************************************************************)
(* decide(): approve or reject a request that is open and has not lapsed.  *)
(* Requests that demand a separate approver refuse some deciders: the      *)
(* decider is not modelled, so every open request may find a willing one.  *)
(***************************************************************************)
Decide(a, decision) ==
  /\ status[a] = "requested"
  /\ ~lapsed[a]
  /\ status' = [status EXCEPT ![a] = decision]
  /\ active_dedupe_key' = [active_dedupe_key EXCEPT ![a] = NoSubject]
  /\ UNCHANGED <<lapsed, execution, blocked, subject, claim, executions>>

(* Mutant: a cancellation that leaves the key held. *)
CancelKeepsKey(a) ==
  /\ status[a] = "requested"
  /\ status' = [status EXCEPT ![a] = "cancelled"]
  /\ UNCHANGED <<lapsed, execution, blocked, subject, active_dedupe_key,
                 claim, executions>>

(* cancel(): withdraw an undecided request; it does not look at the expiry. *)
Cancel(a) ==
  /\ status[a] = "requested"
  /\ status' = [status EXCEPT ![a] = "cancelled"]
  /\ active_dedupe_key' = [active_dedupe_key EXCEPT ![a] = NoSubject]
  /\ UNCHANGED <<lapsed, execution, blocked, subject, claim, executions>>

(* refresh_blocks(): rewrite the recorded blocks, never the status. *)
RefreshBlocks(a, isBlocked) ==
  /\ status[a] \in {"requested", "approved"}
  /\ blocked' = [blocked EXCEPT ![a] = isBlocked]
  /\ UNCHANGED <<status, lapsed, execution, subject, active_dedupe_key,
                 claim, executions>>

(***************************************************************************)
(* consume(), first half: the read and the refusals based on it.  The      *)
(* caller names the subject it is about to act on.                         *)
(***************************************************************************)
MayConsume(a, s) == /\ status[a] = "approved"
                    /\ ~blocked[a]
                    /\ execution[a] # "not_applicable"
                    /\ subject[a] = s

ConsumeCheck(w, a, s) ==
  /\ claim[w] = NoApproval
  /\ MayConsume(a, s)
  /\ claim' = [claim EXCEPT ![w] = a]
  /\ UNCHANGED <<status, lapsed, execution, blocked, subject,
                 active_dedupe_key, executions>>

(* Mutant: the claim trusts the earlier read of execution.state. *)
CanClaimAgain(a) == status[a] = "approved"

(* consume(), second half: the atomic claim, won or lost. *)
CanClaim(a) == status[a] = "approved" /\ execution[a] = "pending"

ConsumeClaim(w) ==
  /\ claim[w] # NoApproval
  /\ CanClaim(claim[w])
  /\ execution' = [execution EXCEPT ![claim[w]] = "consumed"]
  /\ executions' = [executions EXCEPT ![claim[w]] = @ + 1]
  /\ claim' = [claim EXCEPT ![w] = NoApproval]
  /\ UNCHANGED <<status, lapsed, blocked, subject, active_dedupe_key>>

ConsumeLost(w) ==
  /\ claim[w] # NoApproval
  /\ ~CanClaim(claim[w])
  /\ claim' = [claim EXCEPT ![w] = NoApproval]
  /\ UNCHANGED <<status, lapsed, execution, blocked, subject,
                 active_dedupe_key, executions>>

(* The worker dies between the read and the claim. *)
WorkerCrash(w) ==
  /\ claim[w] # NoApproval
  /\ claim' = [claim EXCEPT ![w] = NoApproval]
  /\ UNCHANGED <<status, lapsed, execution, blocked, subject,
                 active_dedupe_key, executions>>

(* Time passes the expiry of a request. *)
Lapse(a) ==
  /\ status[a] # "absent"
  /\ ~lapsed[a]
  /\ lapsed' = [lapsed EXCEPT ![a] = TRUE]
  /\ UNCHANGED <<status, execution, blocked, subject, active_dedupe_key,
                 claim, executions>>

-----------------------------------------------------------------------------
Next ==
  \/ \E a \in Approvals :
       \/ \E s, key \in Subjects \cup {NoSubject}, b \in BOOLEAN : Request(a, s, key, b)
       \/ MarkExpired(a)
       \/ \E d \in Decisions : Decide(a, d)
       \/ Cancel(a)
       \/ \E b \in BOOLEAN : RefreshBlocks(a, b)
       \/ Lapse(a)
  \/ \E w \in Workers :
       \/ \E a \in Approvals, s \in Subjects : ConsumeCheck(w, a, s)
       \/ ConsumeClaim(w)
       \/ ConsumeLost(w)
       \/ WorkerCrash(w)

Spec == Init /\ [][Next]_approvalVars

(***************************************************************************)
(* Fairness: clocks advance, and the approval-expiry job (scheduler.py     *)
(* runs expire_due hourly) keeps sweeping.  People owe nothing: Decide and *)
(* Cancel are not fair.                                                    *)
(***************************************************************************)
Fairness == \A a \in Approvals : /\ WF_approvalVars(Lapse(a))
                                 /\ WF_approvalVars(MarkExpired(a))

FairSpec == Spec /\ Fairness

-----------------------------------------------------------------------------
(***************************************************************************)
(* Single use.  Two workers racing consume() on one request produce at     *)
(* most one execution, and the record says `consumed' exactly when one     *)
(* happened.                                                               *)
(***************************************************************************)
SingleUse ==
  \A a \in Approvals :
    /\ executions[a] <= 1
    /\ executions[a] = 1 <=> execution[a] = "consumed"
    /\ execution[a] = "consumed" => status[a] = "approved"

(***************************************************************************)
(* The dedupe key is held by open requests only, each key by at most one,  *)
(* so a subject whose request was closed in any way can be asked about     *)
(* again and an open request is never duplicated.                          *)
(***************************************************************************)
OneOpenRequestPerKey ==
  /\ \A a \in Approvals : active_dedupe_key[a] # NoSubject => status[a] = "requested"
  /\ \A a, b \in Approvals :
       active_dedupe_key[a] = active_dedupe_key[b] /\ active_dedupe_key[a] # NoSubject
         => a = b

(***************************************************************************)
(* What the queue promises of its rows, their executions and their keys.   *)
(***************************************************************************)
QueueHolds == TypeOK /\ SingleUse /\ OneOpenRequestPerKey

(***************************************************************************)
(* A closed request stays as it was closed: no later expiry sweep, cancel  *)
(* or decision rewrites it, and a spent execution is never handed back.    *)
(***************************************************************************)
ClosedIsFinal ==
  [][\A a \in Approvals :
       /\ status[a] \in Closed => status'[a] = status[a]
       /\ execution[a] = "consumed" => execution'[a] = "consumed"]_approvalVars

(***************************************************************************)
(* No request stays approvable forever: under FairSpec it is decided,      *)
(* cancelled or expired.                                                   *)
(***************************************************************************)
RequestsClose ==
  \A a \in Approvals : []<>(status[a] # "requested")

(***************************************************************************)
(* The queue implements the single-use gate.                               *)
(***************************************************************************)
GateOf(a) ==
  IF status[a] = "absent" THEN "unraised"
  ELSE IF status[a] = "requested" THEN "open"
  ELSE IF status[a] # "approved" THEN "refused"
  ELSE IF execution[a] = "consumed" THEN "spent" ELSE "granted"

Gate == INSTANCE SingleUseGate WITH Gates <- Approvals,
                                    gate <- [a \in Approvals |-> GateOf(a)],
                                    passes <- executions

ImplementsGate == Gate!Spec
=============================================================================
