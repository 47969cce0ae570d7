------------------------------ MODULE ToolCall ------------------------------
(***************************************************************************)
(* Writes by MCP tools (backend/server.py): mcp_invoke() raises a request, *)
(* stores the pending action and then the invocation; whoever approves the *)
(* request consumes it and runs the pending action; an admin may undo what *)
(* a successful run wrote.  Each is a row of its own, written one at a     *)
(* time, and a process may die between any two writes.                     *)
(*                                                                         *)
(* The request is the approval queue's (ApprovalQueue.tla), as far as this *)
(* handler sees it: open, then approved or turned down, once.  Tools that  *)
(* only read leave one row of their own and are left out, as is the limit  *)
(* by the minute (FormDoor's kind).                                        *)
(***************************************************************************)
EXTENDS Naturals, FiniteSets

CONSTANTS
  ToolCalls,      \* invocations of writing tools
  Undoers,        \* admins undoing
  SameKey,        \* the calls that carry one idempotency key
  MaxToolDeaths   \* bound on processes that die

ASSUME ToolCallAssumption == SameKey \subseteq ToolCalls /\ MaxToolDeaths \in Nat

VARIABLES
  killSwitch,   \* mcp_server_state.kill_switch
  invoke,       \* where each mcp_invoke() is
  toolRequest,  \* the approval each raised
  pending,      \* mcp_pending_actions, by invocation
  invocation,   \* mcp_tool_invocations
  runner,       \* where the side effects of each approval are
  undo,         \* what each admin is doing: the step, and the invocation
  written,      \* the tasks and notes there are, by the invocation that wrote them
  wrote,        \* history: how many rows each invocation has written
  toolDeaths

toolVars == <<killSwitch, invoke, toolRequest, pending, invocation, runner, undo, written, wrote, toolDeaths>>

ToolCallTypeOK ==
  /\ killSwitch \in BOOLEAN
  /\ invoke \in [ToolCalls -> {"new", "key", "request", "pending", "row", "over"}]
  /\ toolRequest \in [ToolCalls -> {"none", "open", "approved", "consumed", "refused"}]
  /\ pending \in [ToolCalls -> {"none", "pending_approval", "executed", "failed", "rejected"}]
  /\ invocation \in [ToolCalls -> {"none", "pending_approval", "success", "failed", "rejected", "undone"}]
  /\ runner \in [ToolCalls -> {"idle", "consume", "read", "run", "event", "good", "goodRow", "bad", "badRow",
                               "no", "noRow", "over"}]
  /\ undo \in [Undoers -> [at : {"idle"}] \cup [at : {"delete", "mark"}, of : ToolCalls]]
  /\ written \subseteq ToolCalls /\ wrote \in [ToolCalls -> Nat] /\ toolDeaths \in 0..MaxToolDeaths

ToolCallInit ==
  /\ killSwitch = FALSE
  /\ invoke = [c \in ToolCalls |-> "new"] /\ toolRequest = [c \in ToolCalls |-> "none"]
  /\ pending = [c \in ToolCalls |-> "none"] /\ invocation = [c \in ToolCalls |-> "none"]
  /\ runner = [c \in ToolCalls |-> "idle"] /\ undo = [u \in Undoers |-> [at |-> "idle"]]
  /\ written = {} /\ wrote = [c \in ToolCalls |-> 0] /\ toolDeaths = 0

InvokeGoes(c, from, to) == invoke[c] = from /\ invoke' = [invoke EXCEPT ![c] = to]
RunnerGoes(c, from, to) == runner[c] = from /\ runner' = [runner EXCEPT ![c] = to]

(* mcp_kill() *)
Kill ==
  /\ killSwitch' = ~killSwitch
  /\ UNCHANGED <<invoke, toolRequest, pending, invocation, runner, undo, written, wrote, toolDeaths>>

(* The switch, the allowlist and the arguments; a refusal leaves a failed   *)
(* row, under the call's own id.                                            *)
CheckCall(c) ==
  /\ \/ ~killSwitch /\ InvokeGoes(c, "new", "key") /\ UNCHANGED invocation
     \/ /\ InvokeGoes(c, "new", "over")
        /\ invocation' = [invocation EXCEPT ![c] = "failed"]
  /\ UNCHANGED <<killSwitch, toolRequest, pending, runner, undo, written, wrote, toolDeaths>>

(* The idempotency key answers for the calls that have succeeded, and for   *)
(* no other.                                                                *)
Prior(c) == {d \in ToolCalls \ {c} : {c, d} \subseteq SameKey /\ invocation[d] = "success"}

ReplayKey(c) ==
  /\ invoke[c] = "key"
  /\ InvokeGoes(c, "key", IF Prior(c) = {} THEN "request" ELSE "over")
  /\ UNCHANGED <<killSwitch, toolRequest, pending, invocation, runner, undo, written, wrote, toolDeaths>>

RaiseRequest(c) ==
  /\ InvokeGoes(c, "request", "pending")
  /\ toolRequest' = [toolRequest EXCEPT ![c] = "open"]
  /\ UNCHANGED <<killSwitch, pending, invocation, runner, undo, written, wrote, toolDeaths>>

StorePending(c) ==
  /\ InvokeGoes(c, "pending", "row")
  /\ pending' = [pending EXCEPT ![c] = "pending_approval"]
  /\ UNCHANGED <<killSwitch, toolRequest, invocation, runner, undo, written, wrote, toolDeaths>>

StoreInvocation(c) ==
  /\ InvokeGoes(c, "row", "over")
  /\ invocation' = [invocation EXCEPT ![c] = "pending_approval"]
  /\ UNCHANGED <<killSwitch, toolRequest, pending, runner, undo, written, wrote, toolDeaths>>

(* approval_queue.decide() or cancel(), then _apply_approval_side_effects(). *)
Decide(c) ==
  /\ toolRequest[c] = "open"
  /\ \/ toolRequest' = [toolRequest EXCEPT ![c] = "approved"] /\ RunnerGoes(c, "idle", "consume")
     \/ toolRequest' = [toolRequest EXCEPT ![c] = "refused"] /\ RunnerGoes(c, "idle", "no")
  /\ UNCHANGED <<killSwitch, invoke, pending, invocation, undo, written, wrote, toolDeaths>>

ConsumeRequest(c) ==
  /\ RunnerGoes(c, "consume", "read")
  /\ toolRequest' = [toolRequest EXCEPT ![c] = "consumed"]
  /\ UNCHANGED <<killSwitch, invoke, pending, invocation, undo, written, wrote, toolDeaths>>

(* Sets the rows that are there, whatever they say. *)
IfThere(f, c, s) == [f EXCEPT ![c] = IF @ = "none" THEN @ ELSE s]

TurnDown(c) ==
  /\ \/ RunnerGoes(c, "no", "noRow") /\ pending' = IfThere(pending, c, "rejected") /\ UNCHANGED invocation
     \/ RunnerGoes(c, "noRow", "over") /\ invocation' = IfThere(invocation, c, "rejected") /\ UNCHANGED pending
  /\ UNCHANGED <<killSwitch, invoke, toolRequest, undo, written, wrote, toolDeaths>>

(* execute_pending_mcp(): what is not pending is skipped. *)
MayRun(c) == pending[c] = "pending_approval"

ReadPending(c) ==
  /\ runner[c] = "read"
  /\ RunnerGoes(c, "read", IF MayRun(c) THEN "run" ELSE "over")
  /\ UNCHANGED <<killSwitch, invoke, toolRequest, pending, invocation, undo, written, wrote, toolDeaths>>

(* _tool_create_task(), _tool_add_note(): the row, then its event. *)
WriteRow(c) ==
  /\ \/ RunnerGoes(c, "run", "event") /\ written' = written \cup {c} /\ wrote' = [wrote EXCEPT ![c] = @ + 1]
     \/ RunnerGoes(c, "run", "bad") /\ UNCHANGED <<written, wrote>>
  /\ UNCHANGED <<killSwitch, invoke, toolRequest, pending, invocation, undo, toolDeaths>>

(* wait_for() gives up, or the event cannot be recorded: the row is there.  *)
RecordRun(c) ==
  /\ RunnerGoes(c, "event", "good") \/ RunnerGoes(c, "event", "bad")
  /\ UNCHANGED <<killSwitch, invoke, toolRequest, pending, invocation, undo, written, wrote, toolDeaths>>

MarkPending(c) ==
  /\ \/ RunnerGoes(c, "good", "goodRow") /\ pending' = IfThere(pending, c, "executed")
     \/ RunnerGoes(c, "bad", "badRow") /\ pending' = IfThere(pending, c, "failed")
  /\ UNCHANGED <<killSwitch, invoke, toolRequest, invocation, undo, written, wrote, toolDeaths>>

MarkInvocation(c) ==
  /\ \/ RunnerGoes(c, "goodRow", "over") /\ invocation' = IfThere(invocation, c, "success")
     \/ RunnerGoes(c, "badRow", "over") /\ invocation' = IfThere(invocation, c, "failed")
  /\ UNCHANGED <<killSwitch, invoke, toolRequest, pending, undo, written, wrote, toolDeaths>>

(* mcp_undo(): looks, deletes the row, and marks the invocation. *)
MayUndoAny(c) == invocation[c] # "none"  \* mutant
MayUndo(c) == invocation[c] = "success"

Undo(u) ==
  /\ \/ \E c \in ToolCalls :
          /\ undo[u].at = "idle" /\ MayUndo(c)
          /\ undo' = [undo EXCEPT ![u] = [at |-> "delete", of |-> c]]
          /\ UNCHANGED <<written, invocation>>
     \/ /\ undo[u].at = "delete"
        /\ undo' = [undo EXCEPT ![u].at = "mark"]
        /\ written' = written \ {undo[u].of} /\ UNCHANGED invocation
     \/ /\ undo[u].at = "mark"
        /\ undo' = [undo EXCEPT ![u] = [at |-> "idle"]]
        /\ invocation' = IfThere(invocation, undo[u].of, "undone") /\ UNCHANGED written
  /\ UNCHANGED <<killSwitch, invoke, toolRequest, pending, runner, wrote, toolDeaths>>

(* A process dies between two writes. *)
ToolDies ==
  /\ toolDeaths < MaxToolDeaths /\ toolDeaths' = toolDeaths + 1
  /\ \/ \E c \in ToolCalls : invoke[c] \notin {"new", "over"} /\ invoke' = [invoke EXCEPT ![c] = "over"]
                             /\ UNCHANGED <<runner, undo>>
     \/ \E c \in ToolCalls : runner[c] \notin {"idle", "over"} /\ runner' = [runner EXCEPT ![c] = "over"]
                             /\ UNCHANGED <<invoke, undo>>
     \/ \E u \in Undoers : undo[u].at # "idle" /\ undo' = [undo EXCEPT ![u] = [at |-> "idle"]]
                           /\ UNCHANGED <<invoke, runner>>
  /\ UNCHANGED <<killSwitch, toolRequest, pending, invocation, written, wrote>>

ToolCallNext ==
  \/ Kill \/ ToolDies
  \/ \E c \in ToolCalls :
       \/ CheckCall(c) \/ ReplayKey(c) \/ RaiseRequest(c) \/ StorePending(c) \/ StoreInvocation(c)
       \/ Decide(c) \/ ConsumeRequest(c) \/ TurnDown(c)
       \/ ReadPending(c) \/ WriteRow(c) \/ RecordRun(c) \/ MarkPending(c) \/ MarkInvocation(c)
  \/ \E u \in Undoers : Undo(u)

ToolCallSpec == ToolCallInit /\ [][ToolCallNext]_toolVars

-----------------------------------------------------------------------------
(* What the records say of the rows, whatever dies and in whatever order    *)
(* approver, caller and admins go on: nothing is written without a request  *)
(* consumed for it, nor twice; an invocation that succeeded, or is undone,  *)
(* did write; and what is marked undone is gone.                            *)
WrittenWithApproval == \A c \in ToolCalls : wrote[c] <= IF toolRequest[c] = "consumed" THEN 1 ELSE 0
SuccessDidWrite == \A c \in ToolCalls : invocation[c] \in {"success", "undone"} => wrote[c] = 1
UndoneIsGone == \A c \in ToolCalls : invocation[c] = "undone" => c \notin written
InvocationsAreHonest == WrittenWithApproval /\ SuccessDidWrite /\ UndoneIsGone

(***************************************************************************)
(* What a writing tool promises.                                           *)
(***************************************************************************)
ToolCallsHold == ToolCallTypeOK /\ InvocationsAreHonest
=============================================================================
