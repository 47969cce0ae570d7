----------------------------- MODULE OfficeProofs -----------------------------
(***************************************************************************)
(* What holds of appointments, accounts, grants, tools and reviews, one    *)
(* component after the other: they share no state.                         *)
(***************************************************************************)
EXTENDS Booking, Appointment, Team, SignIn, ToolCall, Payment, GoogleGrant, SecurityGate, FiniteSetTheorems, TLAPS

(***************************************************************************)
(* What may execute has passed every gate, for any number of components,   *)
(* gates, checks and admins.  What a tool call asks (MayExecute) is        *)
(* narrower than what the steps preserve: the invariant is of every        *)
(* component in an executable state, lapsed, limited or not.               *)
(***************************************************************************)

Passed(d) == \A g \in Gates : GatePassed(component[d].checks, g)
DecidedOnItsGates == \A d \in Digests : component[d].state \in EXECUTABLE_STATES => Passed(d) \/ d \in overtaken

(* An operation in flight is on a component.                                *)
ReviewsTyped ==
  /\ review \in [Reviewers -> [op : {"none", "register", "write"}, of : Digests \cup {NoDigest}, seen : ComponentType]]
  /\ \A r \in Reviewers : review[r].op # "none" => review[r].of \in Digests

GateInv ==
  /\ component \in [Digests -> ComponentType] /\ overtaken \subseteq Digests
  /\ ReviewsTyped /\ DecidedOnItsGates

-----------------------------------------------------------------------------
LEMMA Suspending ==
  ASSUME NEW row \in ComponentType, NEW seen \in ComponentType
  PROVE  /\ Suspended(row, seen) \in ComponentType
         /\ Suspended(row, seen).state = IF seen.state \in EXECUTABLE_STATES \cup {"DISCOVERED"}
                                         THEN "UNDER_REVIEW" ELSE row.state
BY DEF Suspended, ComponentType, GateStates, EXECUTABLE_STATES

(* A check written into a gate, with the state left by Suspended.           *)
LEMMA Recording ==
  ASSUME NEW c0 \in ComponentType, NEW s0 \in ComponentType, NEW g \in Gates, NEW c \in Checks, NEW result \in CheckResults
  PROVE  /\ [c0 EXCEPT !.checks[g] = [s0.checks[g] EXCEPT ![c] = result]] \in ComponentType
         /\ [c0 EXCEPT !.checks[g] = [s0.checks[g] EXCEPT ![c] = result]].state = c0.state
<1> DEFINE new == [c0 EXCEPT !.checks[g] = [s0.checks[g] EXCEPT ![c] = result]]
<1>1. s0.checks \in CheckedType /\ c0.checks \in CheckedType
  BY DEF ComponentType
<1>2. [s0.checks[g] EXCEPT ![c] = result] \in [Checks -> CheckResults]
  BY <1>1 DEF CheckedType
<1>3. [c0.checks EXCEPT ![g] = [s0.checks[g] EXCEPT ![c] = result]] \in CheckedType
  BY <1>1, <1>2 DEF CheckedType
<1>4. new = [c0 EXCEPT !.checks = [c0.checks EXCEPT ![g] = [s0.checks[g] EXCEPT ![c] = result]]]
  BY DEF ComponentType
<1> QED
  BY <1>3, <1>4 DEF ComponentType

(* What every operation leaves of the operations in flight.                 *)
LEMMA ReviewTypes ==
  ASSUME ReviewsTyped, component \in [Digests -> ComponentType], NEW r \in Reviewers
  PROVE  /\ ReviewDone(r) => ReviewsTyped'
         /\ \A d \in Digests, op \in {"register", "write"} : ReviewAs(r, op, d) => ReviewsTyped'
         /\ review[r].seen \in ComponentType /\ (review[r].op # "none" => review[r].of \in Digests)
<1>1. NotThere \in ComponentType
  BY DEF NotThere, Blank, ComponentType, CheckedType, CheckResults, GateStates
<1> QED
  BY <1>1 DEF ReviewsTyped, ReviewDone, ReviewAs, NoReview

LEMMA GateStep ==
  ASSUME GateInv, [SecurityNext]_securityVars
  PROVE  GateInv'
<1> USE SecurityAssumption DEF SecurityAssumption
<1> DEFINE Changes(d, new) == component' = [component EXCEPT ![d] = new]
<1>0. ReviewsTyped /\ component \in [Digests -> ComponentType] /\ overtaken \subseteq Digests
  BY DEF GateInv
(* A step may change one component, and what it makes of that is what       *)
(* there is to show.                                                        *)
<1>1. ASSUME NEW d \in Digests, NEW new \in ComponentType, Changes(d, new),
             overtaken \subseteq overtaken', overtaken' \subseteq Digests,
             new.state \in EXECUTABLE_STATES => (\A g \in Gates : GatePassed(new.checks, g)) \/ d \in overtaken',
             ReviewsTyped'
      PROVE  GateInv'
  <2>1. component' \in [Digests -> ComponentType]
    BY <1>0, <1>1
  <2>2. ASSUME NEW e \in Digests, component'[e].state \in EXECUTABLE_STATES
        PROVE  Passed(e)' \/ e \in overtaken'
    BY <1>0, <1>1, <2>2 DEF GateInv, DecidedOnItsGates, Passed
  <2> QED
    BY <1>1, <2>1, <2>2 DEF GateInv, DecidedOnItsGates
<1>2. ASSUME component' = component, overtaken' = overtaken, ReviewsTyped'
      PROVE  GateInv'
  BY <1>0, <1>2 DEF GateInv, DecidedOnItsGates, Passed
<1>3. ASSUME NEW r \in Reviewers, NEW d \in Digests, AskToRegister(r, d) \/ OpenComponent(r, d)
      PROVE  GateInv'
  BY <1>0, <1>2, <1>3, ReviewTypes DEF AskToRegister, OpenComponent
<1>4. ASSUME NEW r \in Reviewers, RegisterComponent(r)
      PROVE  GateInv'
  <2> DEFINE d == review[r].of
             new == IF component[d].state = "absent" THEN [component[d] EXCEPT !.state = "DISCOVERED"] ELSE component[d]
  <2>1. ReviewsTyped' /\ overtaken' = overtaken
    BY <1>0, <1>4, ReviewTypes DEF RegisterComponent
  <2>2. d \in Digests
    BY <1>0, <1>4, ReviewTypes DEF RegisterComponent
  <2>3. Changes(d, new)
    BY <1>0, <1>4 DEF RegisterComponent
  <2>4. new \in ComponentType
    BY <1>0, <2>2 DEF ComponentType, GateStates
  <2>5. new.state \in EXECUTABLE_STATES => (Passed(d) /\ new.checks = component[d].checks) \/ d \in overtaken
    BY <1>0, <2>2 DEF GateInv, DecidedOnItsGates, ComponentType, EXECUTABLE_STATES
  <2> QED
    BY <1>0, <1>1, <2>1, <2>2, <2>3, <2>4, <2>5 DEF Passed
<1>5. ASSUME NEW r \in Reviewers, review[r].op = "write",
             RecordGate(r) \/ \E decision \in GateStates : DecideComponent(r, decision)
      PROVE  GateInv'
  <2> DEFINE d == review[r].of
             seen == review[r].seen
  <2>1. ReviewsTyped' /\ seen \in ComponentType /\ Overtakes(r) /\ d \in Digests
    BY <1>0, <1>5, ReviewTypes DEF RecordGate, DecideComponent
  <2>2. overtaken \subseteq overtaken' /\ overtaken' \subseteq Digests /\ (component[d] # seen => d \in overtaken')
    BY <1>0, <2>1 DEF Overtakes
  <2>3. CASE RecordGate(r)
    <3>1. PICK g \in Gates, c \in Checks, result \in CheckResults :
            Changes(d, [Suspended(component[d], seen) EXCEPT !.checks[g] = [seen.checks[g] EXCEPT ![c] = result]])
      BY <1>0, <2>3 DEF RecordGate
    <3> DEFINE new == [Suspended(component[d], seen) EXCEPT !.checks[g] = [seen.checks[g] EXCEPT ![c] = result]]
    <3>2. Suspended(component[d], seen) \in ComponentType
      BY <1>0, <2>1, Suspending
    <3> DEFINE base == Suspended(component[d], seen)
    <3>3. new \in ComponentType /\ new.state = base.state
      <4>1. base \in ComponentType /\ seen \in ComponentType
        BY <2>1, <3>2
      <4> HIDE DEF base, seen
      <4>2. /\ [base EXCEPT !.checks[g] = [seen.checks[g] EXCEPT ![c] = result]] \in ComponentType
            /\ [base EXCEPT !.checks[g] = [seen.checks[g] EXCEPT ![c] = result]].state = base.state
        BY <3>1, <4>1, Recording
      <4> QED
        BY <4>2 DEF base
    <3>4. new.state = IF seen.state \in EXECUTABLE_STATES \cup {"DISCOVERED"} THEN "UNDER_REVIEW" ELSE component[d].state
      BY <1>0, <2>1, <3>3, Suspending
    <3>5. new.state \in EXECUTABLE_STATES => component[d] # seen
      BY <3>4 DEF EXECUTABLE_STATES
    <3> QED
      BY <1>1, <2>1, <2>2, <3>1, <3>3, <3>5
  <2>4. ASSUME NEW decision \in GateStates, DecideComponent(r, decision)
        PROVE  GateInv'
    <3>1. PICK limited \in BOOLEAN :
            component' = [component EXCEPT ![d].state = decision, ![d].limited = limited, ![d].lapsed = FALSE]
      BY <2>4 DEF DecideComponent
    <3> DEFINE new == [component[d] EXCEPT !.state = decision, !.limited = limited, !.lapsed = FALSE]
    <3>2. Changes(d, new)
      BY <1>0, <2>1, <3>1
    <3>3. new \in ComponentType /\ new.state = decision /\ new.checks = component[d].checks
      BY <1>0, <2>1 DEF ComponentType
    <3>4. decision \in EXECUTABLE_STATES /\ component[d] = seen => \A g \in Gates : GatePassed(new.checks, g)
      BY <2>4, <3>3 DEF DecideComponent, Eligible
    <3> QED
      BY <1>1, <2>1, <2>2, <3>2, <3>3, <3>4
  <2> QED
    BY <1>5, <2>3, <2>4
<1>6. ASSUME NEW r \in Reviewers, GiveReviewUp(r)
      PROVE  GateInv'
  BY <1>0, <1>2, <1>6, ReviewTypes DEF GiveReviewUp
<1>7. ASSUME NEW d \in Digests, ApprovalLapses(d)
      PROVE  GateInv'
  <2> DEFINE new == [component[d] EXCEPT !.lapsed = TRUE]
  <2>1. Changes(d, new) /\ UNCHANGED <<review, overtaken>>
    BY <1>0, <1>7 DEF ApprovalLapses
  <2>2. new \in ComponentType /\ new.state = component[d].state /\ new.checks = component[d].checks
    BY <1>0 DEF ComponentType
  <2>3. ReviewsTyped'
    BY <1>0, <2>1 DEF ReviewsTyped
  <2> QED
    BY <1>0, <1>1, <2>1, <2>2, <2>3 DEF GateInv, DecidedOnItsGates, Passed
<1>8. CASE UNCHANGED securityVars
  BY <1>0, <1>2, <1>8 DEF securityVars, ReviewsTyped
<1> QED
  BY <1>3, <1>4, <1>5, <1>6, <1>7, <1>8 DEF SecurityNext, RecordGate, DecideComponent

-----------------------------------------------------------------------------
(***************************************************************************)
(* Whatever admins record and decide side by side, a component that may    *)
(* execute has passed every gate as it stands, unless one of them wrote    *)
(* over what another had changed (record_gate, decide, assert_executable). *)
(***************************************************************************)
THEOREM GatesHold == SecuritySpec => []SecurityHolds
<1>1. SecurityInit => GateInv
  BY SecurityAssumption DEF SecurityInit, GateInv, ReviewsTyped, DecidedOnItsGates, NoReview, NotThere, Blank,
     ComponentType, CheckedType, CheckResults, GateStates, EXECUTABLE_STATES
<1>2. GateInv => SecurityHolds
  BY DEF GateInv, ReviewsTyped, DecidedOnItsGates, Passed, SecurityHolds, SecurityTypeOK, ExecutableHasPassed, MayExecute
<1> QED
  BY <1>1, <1>2, GateStep, PTL DEF SecuritySpec

-----------------------------------------------------------------------------
(***************************************************************************)
(* What the records of a writing tool say of its rows, for any number of   *)
(* calls, admins and deaths.  The invariant ties where the side effects of *)
(* an approval are to the approval and to what has been written: a call    *)
(* that is on its way has not succeeded, and an undo under way is of one   *)
(* that has written and is over.                                           *)
(***************************************************************************)

Started(c) == toolRequest[c] \in {"approved", "consumed", "refused"}

CallOK(c) ==
  /\ invoke[c] \in {"new", "key", "request"} => toolRequest[c] = "none"
  /\ runner[c] = "idle" <=> ~Started(c)
  /\ runner[c] = "consume" => toolRequest[c] = "approved"
  /\ runner[c] \in {"read", "run", "event", "good", "goodRow", "bad", "badRow"} => toolRequest[c] = "consumed"
  /\ runner[c] \in {"idle", "consume", "read", "run", "no", "noRow"} => wrote[c] = 0
  /\ runner[c] \in {"event", "good", "goodRow"} => wrote[c] = 1
  /\ wrote[c] \in {0, 1} /\ (wrote[c] = 1 => toolRequest[c] = "consumed")
  /\ invocation[c] \in {"success", "undone"} => wrote[c] = 1 /\ runner[c] = "over"
  /\ invocation[c] = "undone" => c \notin written

UndoOK(u) ==
  undo[u].at # "idle" => /\ wrote[undo[u].of] = 1 /\ runner[undo[u].of] = "over"
                         /\ undo[u].at = "mark" => undo[u].of \notin written

ToolInv == ToolCallTypeOK /\ (\A c \in ToolCalls : CallOK(c)) /\ (\A u \in Undoers : UndoOK(u))

-----------------------------------------------------------------------------
CallStep(c) ==
  \/ CheckCall(c) \/ ReplayKey(c) \/ RaiseRequest(c) \/ StorePending(c) \/ StoreInvocation(c)
  \/ Decide(c) \/ ConsumeRequest(c) \/ TurnDown(c)
  \/ ReadPending(c) \/ WriteRow(c) \/ RecordRun(c) \/ MarkPending(c) \/ MarkInvocation(c)

LEMMA CallTypes ==
  ASSUME ToolCallTypeOK, NEW c \in ToolCalls, CallStep(c)
  PROVE  ToolCallTypeOK'
<1> USE ToolCallAssumption DEF ToolCallAssumption, ToolCallTypeOK, InvokeGoes, RunnerGoes, IfThere
<1>1. CASE CheckCall(c) \/ ReplayKey(c) \/ RaiseRequest(c) \/ StorePending(c) \/ StoreInvocation(c)
  BY <1>1 DEF CheckCall, ReplayKey, RaiseRequest, StorePending, StoreInvocation
<1>2. CASE Decide(c) \/ ConsumeRequest(c) \/ TurnDown(c)
  BY <1>2 DEF Decide, ConsumeRequest, TurnDown
<1>3. CASE ReadPending(c) \/ WriteRow(c) \/ RecordRun(c)
  BY <1>3 DEF ReadPending, WriteRow, RecordRun
<1>4. CASE MarkPending(c) \/ MarkInvocation(c)
  BY <1>4 DEF MarkPending, MarkInvocation
<1> QED
  BY <1>1, <1>2, <1>3, <1>4 DEF CallStep

(* A call's own step touches nothing of the others.                         *)
LEMMA OthersStay ==
  ASSUME ToolInv, NEW c \in ToolCalls, CallStep(c), NEW d \in ToolCalls, d # c
  PROVE  CallOK(d)'
<1> USE DEF ToolInv, ToolCallTypeOK, InvokeGoes, RunnerGoes, IfThere
<1>1. CASE CheckCall(c) \/ ReplayKey(c) \/ RaiseRequest(c) \/ StorePending(c) \/ StoreInvocation(c)
  BY <1>1 DEF CheckCall, ReplayKey, RaiseRequest, StorePending, StoreInvocation, CallOK, Started
<1>2. CASE Decide(c) \/ ConsumeRequest(c) \/ TurnDown(c)
  BY <1>2 DEF Decide, ConsumeRequest, TurnDown, CallOK, Started
<1>3. CASE ReadPending(c) \/ WriteRow(c) \/ RecordRun(c) \/ MarkPending(c) \/ MarkInvocation(c)
  BY <1>3 DEF ReadPending, WriteRow, RecordRun, MarkPending, MarkInvocation, CallOK, Started
<1> QED
  BY <1>1, <1>2, <1>3 DEF CallStep

LEMMA OwnStep ==
  ASSUME ToolInv, NEW c \in ToolCalls, CallStep(c)
  PROVE  CallOK(c)'
<1> USE DEF ToolInv, ToolCallTypeOK, InvokeGoes, RunnerGoes, IfThere, CallOK, Started
<1>1. CASE CheckCall(c) \/ ReplayKey(c) \/ RaiseRequest(c) \/ StorePending(c) \/ StoreInvocation(c)
  BY <1>1 DEF CheckCall, ReplayKey, RaiseRequest, StorePending, StoreInvocation
<1>2. CASE Decide(c) \/ ConsumeRequest(c) \/ TurnDown(c)
  BY <1>2 DEF Decide, ConsumeRequest, TurnDown
<1>3. CASE ReadPending(c) \/ WriteRow(c) \/ RecordRun(c)
  BY <1>3 DEF ReadPending, WriteRow, RecordRun
<1>4. CASE MarkPending(c) \/ MarkInvocation(c)
  BY <1>4 DEF MarkPending, MarkInvocation
<1> QED
  BY <1>1, <1>2, <1>3, <1>4 DEF CallStep

(* Once its call is over, what an undo relies on stays.                     *)
LEMMA UndoStays ==
  ASSUME ToolInv, NEW c \in ToolCalls, CallStep(c), NEW u \in Undoers
  PROVE  UndoOK(u)'
<1>1. undo' = undo
  BY DEF CallStep, CheckCall, ReplayKey, RaiseRequest, StorePending, StoreInvocation, Decide, ConsumeRequest, TurnDown,
     ReadPending, WriteRow, RecordRun, MarkPending, MarkInvocation
<1>2. CASE undo[u].at = "idle"
  BY <1>1, <1>2 DEF UndoOK
<1>3. CASE undo[u].at # "idle"
  <2>1. PICK d \in ToolCalls : d = undo[u].of
    BY <1>3 DEF ToolInv, ToolCallTypeOK
  <2>2. wrote[d] = 1 /\ runner[d] = "over" /\ (undo[u].at = "mark" => d \notin written)
    BY <1>3, <2>1 DEF ToolInv, UndoOK
  <2>3. Started(d) /\ invoke[d] \notin {"new", "key", "request"}
    BY <2>2 DEF ToolInv, CallOK, Started
  <2>4. wrote'[d] = 1 /\ runner'[d] = "over" /\ (d \in written' => d \in written)
    BY <2>2, <2>3 DEF ToolInv, ToolCallTypeOK, Started, InvokeGoes, RunnerGoes, CallStep, CheckCall, ReplayKey, RaiseRequest,
       StorePending, StoreInvocation, Decide, ConsumeRequest, TurnDown, ReadPending, WriteRow, RecordRun, MarkPending, MarkInvocation
  <2> QED
    BY <1>1, <2>1, <2>2, <2>4 DEF UndoOK
<1> QED
  BY <1>2, <1>3

-----------------------------------------------------------------------------
LEMMA UndoStep ==
  ASSUME ToolInv, NEW u \in Undoers, Undo(u)
  PROVE  ToolInv'
<1>0. ToolCallTypeOK /\ UNCHANGED <<killSwitch, invoke, toolRequest, pending, runner, wrote, toolDeaths>>
  BY DEF ToolInv, Undo
<1>1. ASSUME NEW c \in ToolCalls, undo[u].at = "idle", MayUndo(c),
             undo' = [undo EXCEPT ![u] = [at |-> "delete", of |-> c]], UNCHANGED <<written, invocation>>
      PROVE  ToolInv'
  <2>1. ToolCallTypeOK'
    BY <1>0, <1>1 DEF ToolCallTypeOK
  <2>2. \A d \in ToolCalls : CallOK(d)'
    BY <1>0, <1>1 DEF ToolInv, CallOK, Started
  <2>3. wrote[c] = 1 /\ runner[c] = "over"
    BY <1>1 DEF ToolInv, CallOK, MayUndo
  <2>4. ASSUME NEW w \in Undoers PROVE UndoOK(w)'
    BY <1>0, <1>1, <2>3 DEF ToolInv, UndoOK, ToolCallTypeOK
  <2> QED
    BY <2>1, <2>2, <2>4 DEF ToolInv
<1>2. ASSUME undo[u].at = "delete", undo' = [undo EXCEPT ![u].at = "mark"],
             written' = written \ {undo[u].of}, UNCHANGED invocation
      PROVE  ToolInv'
  <2>1. PICK c \in ToolCalls : undo[u] = [at |-> "delete", of |-> c]
    BY <1>0, <1>2 DEF ToolCallTypeOK
  <2>2. undo' = [undo EXCEPT ![u] = [at |-> "mark", of |-> c]]
    <3>1. [undo[u] EXCEPT !.at = "mark"] = [at |-> "mark", of |-> c]
      BY <2>1
    <3>2. undo' = [undo EXCEPT ![u] = [undo[u] EXCEPT !.at = "mark"]]
      BY <1>2
    <3> QED
      BY <3>1, <3>2
  <2>3. ToolCallTypeOK'
    BY <1>0, <1>2, <2>2 DEF ToolCallTypeOK
  <2>4. ASSUME NEW d \in ToolCalls PROVE CallOK(d)'
    <3>1. CallOK(d) /\ (d \in written' => d \in written)
      BY <1>2 DEF ToolInv
    <3> QED
      BY <1>0, <1>2, <3>1 DEF CallOK, Started
  <2>5. wrote[c] = 1 /\ runner[c] = "over" /\ c \notin written'
    BY <1>2, <2>1 DEF ToolInv, UndoOK
  <2>6. ASSUME NEW w \in Undoers PROVE UndoOK(w)'
    BY <1>0, <1>2, <2>2, <2>5 DEF ToolInv, UndoOK, ToolCallTypeOK
  <2> QED
    BY <2>3, <2>4, <2>6 DEF ToolInv
<1>3. ASSUME undo[u].at = "mark", undo' = [undo EXCEPT ![u] = [at |-> "idle"]],
             invocation' = IfThere(invocation, undo[u].of, "undone"), UNCHANGED written
      PROVE  ToolInv'
  <2>1. PICK c \in ToolCalls : undo[u].of = c
    BY <1>0, <1>3 DEF ToolCallTypeOK
  <2>2. wrote[c] = 1 /\ runner[c] = "over" /\ c \notin written
    BY <1>3, <2>1 DEF ToolInv, UndoOK
  <2>3. ToolCallTypeOK'
    BY <1>0, <1>3, <2>1 DEF ToolCallTypeOK, IfThere
  <2>4. ASSUME NEW d \in ToolCalls PROVE CallOK(d)'
    BY <1>0, <1>3, <2>1, <2>2 DEF ToolInv, CallOK, Started, IfThere, ToolCallTypeOK
  <2>5. ASSUME NEW w \in Undoers PROVE UndoOK(w)'
    BY <1>0, <1>3 DEF ToolInv, UndoOK, ToolCallTypeOK
  <2> QED
    BY <2>3, <2>4, <2>5 DEF ToolInv
<1> QED
  BY <1>1, <1>2, <1>3 DEF Undo

LEMMA DeathStep ==
  ASSUME ToolInv, ToolDies
  PROVE  ToolInv'
<1>0. ToolCallTypeOK /\ UNCHANGED <<killSwitch, toolRequest, pending, invocation, written, wrote>>
  BY DEF ToolInv, ToolDies
<1>1. toolDeaths' \in 0..MaxToolDeaths
  BY ToolCallAssumption, <1>0 DEF ToolDies, ToolCallTypeOK, ToolCallAssumption
<1>2. ASSUME NEW c \in ToolCalls, invoke' = [invoke EXCEPT ![c] = "over"], UNCHANGED <<runner, undo>>
      PROVE  ToolInv'
  <2>1. ToolCallTypeOK'
    BY <1>0, <1>1, <1>2 DEF ToolCallTypeOK
  <2>2. \A d \in ToolCalls : CallOK(d)'
    BY <1>0, <1>2 DEF ToolInv, ToolCallTypeOK, CallOK, Started
  <2>3. \A w \in Undoers : UndoOK(w)'
    BY <1>0, <1>2 DEF ToolInv, UndoOK
  <2> QED
    BY <2>1, <2>2, <2>3 DEF ToolInv
<1>3. ASSUME NEW c \in ToolCalls, runner[c] \notin {"idle", "over"}, runner' = [runner EXCEPT ![c] = "over"], UNCHANGED <<invoke, undo>>
      PROVE  ToolInv'
  <2>1. ToolCallTypeOK'
    BY <1>0, <1>1, <1>3 DEF ToolCallTypeOK
  <2>2. ASSUME NEW d \in ToolCalls PROVE CallOK(d)'
    BY <1>0, <1>3 DEF ToolInv, ToolCallTypeOK, CallOK, Started
  <2>3. ASSUME NEW w \in Undoers PROVE UndoOK(w)'
    BY <1>0, <1>3 DEF ToolInv, UndoOK, ToolCallTypeOK
  <2> QED
    BY <2>1, <2>2, <2>3 DEF ToolInv
<1>4. ASSUME NEW u \in Undoers, undo' = [undo EXCEPT ![u] = [at |-> "idle"]], UNCHANGED <<invoke, runner>>
      PROVE  ToolInv'
  <2>1. ToolCallTypeOK'
    BY <1>0, <1>1, <1>4 DEF ToolCallTypeOK
  <2>2. \A d \in ToolCalls : CallOK(d)'
    BY <1>0, <1>4 DEF ToolInv, CallOK, Started
  <2>3. ASSUME NEW w \in Undoers PROVE UndoOK(w)'
    BY <1>0, <1>4 DEF ToolInv, UndoOK, ToolCallTypeOK
  <2> QED
    BY <2>1, <2>2, <2>3 DEF ToolInv
<1> QED
  BY <1>2, <1>3, <1>4 DEF ToolDies

-----------------------------------------------------------------------------
(***************************************************************************)
(* Whatever dies between two writes, and however callers, approvers and    *)
(* admins interleave, a writing tool writes at most once and only with a   *)
(* request consumed for it, success means it wrote, and undone means gone  *)
(* (mcp_invoke, execute_pending_mcp, mcp_undo).                            *)
(***************************************************************************)
THEOREM RecordsHold == ToolCallSpec => []ToolCallsHold
<1>1. ToolCallInit => ToolInv
  <2> SUFFICES ASSUME ToolCallInit PROVE ToolInv
    OBVIOUS
  <2>1. ToolCallTypeOK
    <3>1. undo \in [Undoers -> [at : {"idle"}] \cup [at : {"delete", "mark"}, of : ToolCalls]]
      <4>1. [at |-> "idle"] \in [at : {"idle"}]
        OBVIOUS
      <4>2. undo = [u \in Undoers |-> [at |-> "idle"]]
        BY DEF ToolCallInit
      <4> QED
        BY <4>1, <4>2
    <3>2. killSwitch \in BOOLEAN /\ written \subseteq ToolCalls
      BY DEF ToolCallInit
    <3>3. toolDeaths \in 0..MaxToolDeaths /\ wrote \in [ToolCalls -> Nat]
      BY ToolCallAssumption DEF ToolCallAssumption, ToolCallInit
    <3> QED
      BY <3>1, <3>2, <3>3 DEF ToolCallInit, ToolCallTypeOK
  <2>2. \A c \in ToolCalls : CallOK(c)
    BY DEF ToolCallInit, CallOK, Started
  <2>3. \A u \in Undoers : UndoOK(u)
    BY DEF ToolCallInit, UndoOK
  <2> QED
    BY <2>1, <2>2, <2>3 DEF ToolInv
<1>2. ToolInv /\ [ToolCallNext]_toolVars => ToolInv'
  <2> SUFFICES ASSUME ToolInv, [ToolCallNext]_toolVars PROVE ToolInv'
    OBVIOUS
  <2>1. ASSUME NEW c \in ToolCalls, CallStep(c) PROVE ToolInv'
    <3>1. ToolCallTypeOK'
      BY <2>1, CallTypes DEF ToolInv
    <3>2. \A d \in ToolCalls : CallOK(d)'
      BY <2>1, OwnStep, OthersStay
    <3>3. \A u \in Undoers : UndoOK(u)'
      BY <2>1, UndoStays
    <3> QED
      BY <3>1, <3>2, <3>3 DEF ToolInv
  <2>2. CASE Kill
    BY <2>2 DEF Kill, ToolInv, ToolCallTypeOK, CallOK, Started, UndoOK
  <2>3. CASE UNCHANGED toolVars
    BY <2>3 DEF toolVars, ToolInv, ToolCallTypeOK, CallOK, Started, UndoOK
  <2> QED
    BY <2>1, <2>2, <2>3, UndoStep, DeathStep DEF ToolCallNext, CallStep
<1>3. ToolInv => ToolCallsHold
  BY DEF ToolInv, CallOK, ToolCallsHold, InvocationsAreHonest, WrittenWithApproval, SuccessDidWrite, UndoneIsGone
<1> QED
  BY <1>1, <1>2, <1>3, PTL DEF ToolCallSpec

-----------------------------------------------------------------------------
(***************************************************************************)
(* Bookings of any number of hosts and calls.  A call about to write while *)
(* the lock is still its own knows the calendar: whatever is on it by now  *)
(* and collides was placed by a call that had lost its lock.               *)
(***************************************************************************)
BookerOK(x) ==
  /\ call[x].pc \in {"check", "write", "unlock"} => call[x].h \in Hosts
  /\ call[x].op \in {"move", "outcome"} => call[x].a \in Appointments
  /\ call[x].pc \in {"lock", "check", "write", "unlock"} => call[x].op \in {"book", "move"}
  /\ call[x].pc = "outcome" => call[x].op = "outcome"

Against(b, s) == Meets(Commitment(appt[b].start, Rule), Commitment(s, Rule))

CalendarKnown(x) ==
  At(x, "write") /\ Holds(x, call[x].h) =>
    \A b \in Appointments \ Moving(x) :
      Active(b) /\ appt[b].host = call[x].h => b \in unlocked \/ ~Against(b, call[x].s)

BookInv ==
  /\ BookingTypeOK
  /\ \A x \in Calls : BookerOK(x) /\ CalendarKnown(x)
  /\ \A a \in Appointments : Active(a) => appt[a].host \in Hosts
  /\ OverlapWasUnlocked

-----------------------------------------------------------------------------
LEMMA RuleIsNat ==
  /\ Rule.duration \in Nat /\ Rule.before \in Nat /\ Rule.after \in Nat
  /\ LastTime \in Nat /\ Times \subseteq Nat /\ MaxAppointments \in Nat /\ Appointments \subseteq Nat
  /\ 0 \in Times /\ 0 \notin Appointments
BY BookingAssumption DEF BookingAssumption, Times, Appointments

(* Which of two commitments is asked about the other does not matter.       *)
LEMMA MeetsIsMutual ==
  ASSUME NEW s \in Times, NEW t \in Times
  PROVE  Meets(Commitment(s, Rule), Commitment(t, Rule)) <=> Meets(Commitment(t, Rule), Commitment(s, Rule))
BY RuleIsNat DEF Meets, Commitment

LEMMA IdleIsACall == Idle \in CallType /\ Idle.pc = "idle" /\ Idle.op = "none"
BY RuleIsNat DEF Idle, CallType

(* A step that places nothing.                                              *)
LEMMA CalmStep ==
  ASSUME BookInv, BookingTypeOK', \A x \in Calls : BookerOK(x)', unlocked' = unlocked,
         \A a \in Appointments : Active(a)' => Active(a) /\ appt'[a] = appt[a],
         \A x \in Calls : At(x, "write")' =>
           /\ call'[x] = call[x]
           /\ lock'[call[x].h].holder = x => lock[call[x].h].holder = x
  PROVE  BookInv'
<1>1. ASSUME NEW x \in Calls PROVE CalendarKnown(x)'
  <2> SUFFICES ASSUME At(x, "write")', Holds(x, call[x].h)',
                      NEW b \in Appointments, b \notin Moving(x)', Active(b)', (appt[b].host = call[x].h)'
               PROVE  (b \in unlocked \/ ~Against(b, call[x].s))'
    BY DEF CalendarKnown
  <2>1. call'[x] = call[x] /\ appt'[b] = appt[b] /\ Active(b)
    OBVIOUS
  <2>2. At(x, "write") /\ Holds(x, call[x].h) /\ b \notin Moving(x) /\ appt[b].host = call[x].h
    BY <2>1 DEF At, Holds, Moving
  <2> QED
    BY <2>1, <2>2 DEF BookInv, CalendarKnown, Against
<1>2. OverlapWasUnlocked'
  BY DEF BookInv, OverlapWasUnlocked, Overlap
<1> QED
  BY <1>1, <1>2 DEF BookInv

(* What a call does to itself alone.                                        *)
LEMMA OwnCall ==
  ASSUME BookInv, NEW x \in Calls, NEW c \in CallType, call' = [call EXCEPT ![x] = c],
         c.pc # "write", now' = now, appt' = appt, unlocked' = unlocked,
         lock' \in [Hosts -> [holder : Calls \cup {NoCall}, expired : BOOLEAN]],
         \A h \in Hosts : lock'[h].holder = lock[h].holder \/ lock'[h].holder \in {x, NoCall},
         c.pc \in {"check", "unlock"} => c.h \in Hosts,
         c.op \in {"move", "outcome"} => c.a \in Appointments,
         c.pc \in {"lock", "check", "unlock"} => c.op \in {"book", "move"},
         c.pc = "outcome" => c.op = "outcome"
  PROVE  BookInv'
<1>1. BookingTypeOK'
  BY DEF BookInv, BookingTypeOK
<1>2. \A y \in Calls : call'[y] = IF y = x THEN c ELSE call[y]
  BY DEF BookInv, BookingTypeOK
<1>3. \A y \in Calls : BookerOK(y)'
  BY <1>2 DEF BookInv, BookerOK
<1>4. ASSUME NEW y \in Calls, At(y, "write")'
      PROVE  /\ call'[y] = call[y]
             /\ lock'[call[y].h].holder = y => lock[call[y].h].holder = y
  <2>1. y # x /\ call'[y] = call[y] /\ At(y, "write")
    BY <1>2, <1>4 DEF At
  <2>2. call[y].h \in Hosts
    BY <2>1 DEF BookInv, BookerOK, At
  <2> QED
    BY <2>1, <2>2, BookingAssumption DEF BookingAssumption
<1> QED
  BY <1>1, <1>3, <1>4, CalmStep DEF Active

(* The calendar a call reads under its lock is what it knows when it writes. *)
LEMMA CheckStep ==
  ASSUME BookInv, NEW x \in Calls, CheckFree(x)
  PROVE  BookInv'
<1>1. /\ call[x].pc = "check" /\ call[x].h \in Hosts /\ call[x] \in CallType
      /\ call' = [call EXCEPT ![x].pc = "write"]
  BY DEF CheckFree, BookInv, BookingTypeOK, BookerOK, At, Goto
<1>2. BookingTypeOK'
  <2>1. [call[x] EXCEPT !.pc = "write"] \in CallType
    BY <1>1 DEF CallType
  <2> QED
    BY <1>1, <2>1 DEF BookInv, BookingTypeOK, CheckFree
<1>3. \A y \in Calls \ {x} : call'[y] = call[y]
  BY <1>1 DEF BookInv, BookingTypeOK
<1>4. call'[x].pc = "write" /\ call'[x].h = call[x].h /\ call'[x].op = call[x].op /\ call'[x].a = call[x].a
      /\ call'[x].s = call[x].s
  BY <1>1 DEF BookInv, BookingTypeOK, CallType
<1>5. \A y \in Calls : BookerOK(y)'
  BY <1>1, <1>3, <1>4 DEF BookInv, BookerOK
<1>6. ASSUME NEW y \in Calls PROVE CalendarKnown(y)'
  <2>1. CASE y # x
    BY <1>3, <2>1 DEF CheckFree, BookInv, CalendarKnown, At, Holds, Moving, Active, Against
  <2>2. CASE y = x
    <3> SUFFICES ASSUME NEW b \in Appointments \ Moving(x), Active(b), appt[b].host = call[x].h
                 PROVE  ~Against(b, call[x].s)
      BY <1>4, <2>2 DEF CheckFree, CalendarKnown, Moving, Active, Against
    <3>1. Commitment(appt[b].start, Rule) \in Busy(call[x].h, Moving(x))
      BY DEF Busy, Active, ACTIVE_STATUSES, CANCELLED_STATUSES
    <3>2. ~Meets(Commitment(call[x].s, Rule), Commitment(appt[b].start, Rule))
      BY <3>1 DEF CheckFree, Taken, Conflicts
    <3>3. call[x].s \in Times /\ appt[b].start \in Times
      BY <1>1 DEF CallType, BookInv, BookingTypeOK, AppointmentType
    <3> QED
      BY <3>2, <3>3, MeetsIsMutual DEF Against
  <2> QED
    BY <2>1, <2>2
<1> QED
  BY <1>2, <1>5, <1>6 DEF CheckFree, BookInv, OverlapWasUnlocked, Overlap, Active

(* A booking, or a move, is written.                                        *)
LEMMA PlacingStep ==
  ASSUME BookInv, NEW x \in Calls, NEW a \in Appointments, NEW new \in AppointmentType,
         NEW c \in CallType, At(x, "write"), ~Claimed(call[x].h, call[x].s, Moving(x)),
         a \in Moving(x) \/ (Moving(x) = {} /\ ~Active(a)),
         new.status = "confirmed", new.host = call[x].h, new.start = call[x].s,
         appt' = [appt EXCEPT ![a] = new], Place(x, a),
         call' = [call EXCEPT ![x] = c],
         c.pc = "unlock", c.op = call[x].op, c.a = a, c.h = call[x].h, now' = now, lock' = lock
  PROVE  BookInv'
<1> DEFINE h == call[x].h
           s == call[x].s
<1>0. h \in Hosts /\ s \in Times
  BY DEF BookInv, BookingTypeOK, CallType, BookerOK, At
<1>1. BookingTypeOK'
  BY DEF BookInv, BookingTypeOK, Place
<1>2. /\ appt'[a] = new /\ \A b \in Appointments \ {a} : appt'[b] = appt[b]
      /\ call'[x] = c /\ \A y \in Calls \ {x} : call'[y] = call[y]
  BY DEF BookInv, BookingTypeOK
<1>3. \A y \in Calls : BookerOK(y)'
  BY <1>0, <1>2 DEF BookInv, BookerOK, At
<1>4. \A b \in Appointments \ {a} : b \in unlocked' <=> b \in unlocked
  BY DEF Place
<1>5. ASSUME NEW y \in Calls PROVE CalendarKnown(y)'
  <2>1. CASE y = x
    BY <1>2, <2>1 DEF CalendarKnown, At
  <2>2. CASE y # x
    <3> SUFFICES ASSUME At(y, "write"), Holds(y, call[y].h),
                        NEW b \in Appointments \ Moving(y), Active(b)', appt'[b].host = call[y].h
                 PROVE  b \in unlocked' \/ ~Against(b, call[y].s)'
      BY <1>2, <2>2 DEF CalendarKnown, At, Holds, Moving, Against
    <3>1. CASE b # a
      BY <1>2, <1>4, <2>2, <3>1 DEF BookInv, CalendarKnown, Active, Against
    <3>2. CASE b = a
      BY <1>2, <2>2, <3>2 DEF Place, Holds
    <3> QED
      BY <3>1, <3>2
  <2> QED
    BY <2>1, <2>2
<1>6. ASSUME NEW b \in Appointments, b # a, Active(b), appt[b].host = h
      PROVE  /\ appt[b].start # s
             /\ a \in unlocked' \/ b \in unlocked' \/ ~Against(b, s)
  <2>1. b \notin Moving(x)
    BY <1>6 DEF Moving
  <2>2. appt[b].start # s
    BY <1>6, <2>1 DEF Claimed
  <2>3. CASE Holds(x, h)
    BY <1>4, <1>6, <2>1, <2>2, <2>3 DEF BookInv, CalendarKnown
  <2>4. CASE ~Holds(x, h)
    BY <2>2, <2>4 DEF Place
  <2> QED
    BY <2>2, <2>3, <2>4
<1>7. OverlapWasUnlocked'
  <2> SUFFICES ASSUME NEW b \in Appointments, NEW d \in Appointments, Overlap(b, d)'
               PROVE  (b \in unlocked' \/ d \in unlocked') /\ appt'[b].start # appt'[d].start
    BY DEF OverlapWasUnlocked
  <2>1. CASE b # a /\ d # a
    BY <1>2, <1>4, <2>1 DEF BookInv, OverlapWasUnlocked, Overlap, Active
  <2>2. CASE b = a
    <3>1. d # a /\ Active(d) /\ appt[d].host = h /\ appt'[d] = appt[d]
      BY <1>2, <2>2 DEF Overlap, Active
    <3>2. Meets(Commitment(s, Rule), Commitment(appt[d].start, Rule))
      BY <1>2, <2>2, <3>1 DEF Overlap
    <3>3. Against(d, s)
      BY <1>0, <3>2, MeetsIsMutual DEF Against, BookInv, BookingTypeOK, AppointmentType
    <3> QED
      BY <1>2, <1>6, <2>2, <3>1, <3>3
  <2>3. CASE d = a
    <3>1. b # a /\ Active(b) /\ appt[b].host = h /\ appt'[b] = appt[b]
      BY <1>2, <2>3 DEF Overlap, Active
    <3>2. Against(b, s)
      BY <1>2, <2>3, <3>1 DEF Overlap, Against
    <3> QED
      BY <1>2, <1>6, <2>3, <3>1, <3>2
  <2> QED
    BY <2>1, <2>2, <2>3
<1>8. \A b \in Appointments : Active(b)' => appt'[b].host \in Hosts
  BY <1>0, <1>2 DEF BookInv, Active
<1> QED
  BY <1>1, <1>3, <1>5, <1>7, <1>8 DEF BookInv

LEMMA UnlockTypes ==
  ASSUME BookInv, NEW x \in Calls, Unlock(x)
  PROVE  /\ lock' \in [Hosts -> [holder : Calls \cup {NoCall}, expired : BOOLEAN]]
         /\ \A h \in Hosts : lock'[h].holder = lock[h].holder \/ lock'[h].holder \in {x, NoCall}
BY DEF Unlock, BookInv, BookingTypeOK

(* A call goes on with its next host, or ends.                              *)
LEMMA GoingOn ==
  ASSUME BookInv, NEW x \in Calls, call[x].pc \in {"check", "write"}, Unlock(x), TryNext(x) \/ Return(x),
         now' = now, appt' = appt, unlocked' = unlocked
  PROVE  BookInv'
<1>1. call[x] \in CallType /\ BookerOK(x)
  BY DEF BookInv, BookingTypeOK
<1>2. CASE Return(x)
  BY <1>2, IdleIsACall, UnlockTypes, OwnCall DEF Return
<1>3. CASE call' = [call EXCEPT ![x].pc = "lock", ![x].h = NoHost]
  <2> DEFINE c == [call[x] EXCEPT !.pc = "lock", !.h = NoHost]
  <2>1. c \in CallType /\ c.pc = "lock" /\ c.op = call[x].op /\ c.a = call[x].a
    BY <1>1 DEF CallType
  <2>2. call' = [call EXCEPT ![x] = c]
    BY <1>3
  <2>3. BookerOK(x) /\ call[x].pc \in {"check", "write"}
    BY <1>1
  <2> HIDE DEF c
  <2> QED
    BY <2>1, <2>2, <2>3, UnlockTypes, OwnCall DEF BookerOK
<1> QED
  BY <1>2, <1>3 DEF TryNext, Return

LEMMA BookStep ==
  ASSUME BookInv, [BookingNext]_bookingVars
  PROVE  BookInv'
<1>0. BookingTypeOK /\ \A x \in Calls : call[x] \in CallType /\ BookerOK(x)
  BY DEF BookInv, BookingTypeOK
<1>1. ASSUME NEW x \in Calls, NEW s \in Times, NEW k \in Keys \cup {NoKey}, BookBegin(x, s, k)
      PROVE  BookInv'
  <2> DEFINE c == [Idle EXCEPT !.pc = "lock", !.op = "book", !.s = s, !.k = k, !.todo = Offered(s, {}, Notice)]
  <2>1. c \in CallType /\ c.pc = "lock" /\ c.op = "book"
    BY RuleIsNat DEF Idle, CallType, Offered
  <2> QED
    BY <1>0, <1>1, <2>1, OwnCall DEF BookBegin, BookingTypeOK
<1>2. ASSUME NEW x \in Calls, NEW a \in Appointments, OutcomeBegin(x, a)
      PROVE  BookInv'
  <2> DEFINE c == [Idle EXCEPT !.pc = "outcome", !.op = "outcome", !.a = a]
  <2>1. c \in CallType /\ c.pc = "outcome" /\ c.op = "outcome" /\ c.a = a
    BY RuleIsNat DEF Idle, CallType
  <2> QED
    BY <1>0, <1>2, <2>1, OwnCall DEF OutcomeBegin, BookingTypeOK
<1>3. ASSUME NEW x \in Calls, NEW a \in Appointments, NEW s \in Times, MoveBegin(x, a, s)
      PROVE  BookInv'
  <2>1. PICK hosts \in MoveHosts(a, s) : call' = [call EXCEPT ![x] =
               [Idle EXCEPT !.pc = "lock", !.op = "move", !.a = a, !.s = s, !.todo = hosts]]
    BY <1>3 DEF MoveBegin
  <2>2. hosts \subseteq Hosts
    BY <1>3 DEF MoveBegin, MoveHosts, Offered, BookInv
  <2> DEFINE c == [Idle EXCEPT !.pc = "lock", !.op = "move", !.a = a, !.s = s, !.todo = hosts]
  <2>3. c \in CallType /\ c.pc = "lock" /\ c.op = "move" /\ c.a = a
    BY <2>2, RuleIsNat DEF Idle, CallType
  <2> QED
    BY <1>0, <1>3, <2>1, <2>3, OwnCall DEF MoveBegin, BookingTypeOK
<1>4. ASSUME NEW x \in Calls, GiveUp(x) \/ Crash(x)
      PROVE  BookInv'
  BY <1>0, <1>4, IdleIsACall, OwnCall DEF GiveUp, Crash, Return, BookingTypeOK
<1>5. ASSUME NEW x \in Calls, Lock(x)
      PROVE  BookInv'
  <2>1. PICK h \in call[x].todo :
          /\ lock' = [lock EXCEPT ![h] = [holder |-> x, expired |-> FALSE]]
          /\ call' = [call EXCEPT ![x] = [call[x] EXCEPT !.pc = "check", !.h = h, !.todo = call[x].todo \ {h}]]
    BY <1>5 DEF Lock
  <2> DEFINE c == [call[x] EXCEPT !.pc = "check", !.h = h, !.todo = call[x].todo \ {h}]
  <2>2. h \in Hosts /\ c \in CallType /\ c.pc = "check" /\ c.h = h /\ c.op = call[x].op /\ c.a = call[x].a
    BY <1>0 DEF CallType
  <2>3. /\ lock' \in [Hosts -> [holder : Calls \cup {NoCall}, expired : BOOLEAN]]
        /\ \A g \in Hosts : lock'[g].holder = lock[g].holder \/ lock'[g].holder \in {x, NoCall}
    BY <1>0, <2>1, <2>2 DEF BookingTypeOK
  <2>4. BookerOK(x) /\ call[x].pc = "lock" /\ now' = now /\ appt' = appt /\ unlocked' = unlocked
    BY <1>0, <1>5 DEF Lock, At
  <2> HIDE DEF c
  <2> QED
    BY <2>1, <2>2, <2>3, <2>4, OwnCall DEF c, BookerOK
<1>6. ASSUME NEW x \in Calls, CheckTaken(x) \/ WriteRefused(x)
      PROVE  BookInv'
  BY <1>6, GoingOn DEF CheckTaken, WriteRefused, At
<1>7. ASSUME NEW x \in Calls, WriteBooking(x)
      PROVE  BookInv'
  <2>1. PICK a \in Unused :
          /\ appt' = [appt EXCEPT ![a] = [NoAppointment EXCEPT !.status = "confirmed", !.host = call[x].h,
                                                               !.start = call[x].s, !.key = call[x].k]]
          /\ Place(x, a)
          /\ call' = [call EXCEPT ![x] = [call[x] EXCEPT !.pc = "unlock", !.a = a]]
    BY <1>7 DEF WriteBooking
  <2> DEFINE new == [NoAppointment EXCEPT !.status = "confirmed", !.host = call[x].h,
                                          !.start = call[x].s, !.key = call[x].k]
             c == [call[x] EXCEPT !.pc = "unlock", !.a = a]
  <2>2. a \in Appointments /\ ~Active(a) /\ Moving(x) = {} /\ At(x, "write")
        /\ ~Claimed(call[x].h, call[x].s, Moving(x))
    BY <1>7 DEF WriteBooking, Unused, Active, ACTIVE_STATUSES, Moving
  <2>3. c \in CallType /\ c.pc = "unlock" /\ c.op = call[x].op /\ c.a = a /\ c.h = call[x].h
    BY <1>0, <2>2 DEF CallType
  <2>4. new \in AppointmentType /\ new.status = "confirmed" /\ new.host = call[x].h /\ new.start = call[x].s
    BY <1>0 DEF NoAppointment, AppointmentType, CallType, Statuses, ACTIVE_STATUSES
  <2> QED
    BY <1>7, <2>1, <2>2, <2>3, <2>4, PlacingStep DEF WriteBooking
<1>8. ASSUME NEW x \in Calls, WriteMove(x)
      PROVE  BookInv'
  <2> DEFINE a == call[x].a
             new == [appt[a] EXCEPT !.host = call[x].h, !.start = call[x].s]
             c == [call[x] EXCEPT !.pc = "unlock"]
  <2>1. a \in Appointments /\ Active(a) /\ Moving(x) = {a} /\ At(x, "write")
        /\ ~Claimed(call[x].h, call[x].s, Moving(x))
    BY <1>0, <1>8 DEF WriteMove, BookerOK, Moving
  <2>2. c \in CallType /\ c.pc = "unlock" /\ c.op = call[x].op /\ c.a = a /\ c.h = call[x].h
    BY <1>0 DEF CallType
  <2>3. appt[a] \in AppointmentType /\ call[x].h \in Hosts /\ call[x].s \in Times
    BY <1>0, <2>1 DEF BookingTypeOK, BookerOK, CallType, At
  <2>4. new \in AppointmentType /\ new.status = "confirmed" /\ new.host = call[x].h /\ new.start = call[x].s
    BY <2>1, <2>3 DEF AppointmentType, Active, ACTIVE_STATUSES
  <2>5. appt' = [appt EXCEPT ![a] = new] /\ call' = [call EXCEPT ![x] = c]
        /\ Place(x, a) /\ now' = now /\ lock' = lock
    BY <1>8 DEF WriteMove, Goto
  <2> QED
    BY <2>1, <2>2, <2>4, <2>5, PlacingStep
<1>9. ASSUME NEW x \in Calls, Release(x)
      PROVE  BookInv'
  BY <1>9, IdleIsACall, UnlockTypes, OwnCall DEF Release, Return
<1>10. ASSUME NEW x \in Calls, RecordOutcome(x)
       PROVE  BookInv'
  <2>1. call' = [call EXCEPT ![x] = Idle] /\ call[x].a \in Appointments
    BY <1>0, <1>10 DEF RecordOutcome, Return, BookerOK, At
  <2>2. PICK a \in Appointments : a = call[x].a
    BY <2>1
  <2>3. appt' = [appt EXCEPT ![a] = [appt[a] EXCEPT !.status = "outcome"]]
    BY <1>10, <2>2 DEF RecordOutcome, OUTCOMES
  <2>4. appt[a] \in AppointmentType
    BY <1>0 DEF BookingTypeOK
  <2>5. [appt[a] EXCEPT !.status = "outcome"] \in AppointmentType
    BY <2>4 DEF AppointmentType, Statuses, OUTCOMES
  <2>6. BookingTypeOK'
    BY <1>0, <1>10, <2>1, <2>3, <2>5, IdleIsACall DEF RecordOutcome, BookingTypeOK
  <2>7. \A y \in Calls : call'[y] = IF y = x THEN Idle ELSE call[y]
    BY <1>0, <2>1 DEF BookingTypeOK
  <2>8. \A y \in Calls : BookerOK(y)'
    BY <1>0, <2>7 DEF BookerOK, Idle
  <2>9. \A b \in Appointments : Active(b)' => Active(b) /\ appt'[b] = appt[b]
    BY <1>0, <2>3, <2>4 DEF BookingTypeOK, AppointmentType, Active, ACTIVE_STATUSES
  <2>10. \A y \in Calls : At(y, "write")' =>
           /\ call'[y] = call[y]
           /\ lock'[call[y].h].holder = y => lock[call[y].h].holder = y
    BY <1>10, <2>7 DEF At, Idle, RecordOutcome
  <2> QED
    BY <1>10, <2>6, <2>8, <2>9, <2>10, CalmStep DEF RecordOutcome
<1>11. ASSUME NEW a \in Appointments, Cancel(a)
       PROVE  BookInv'
  <2>1. appt[a] \in AppointmentType
    BY <1>0 DEF BookingTypeOK
  <2>2. [appt[a] EXCEPT !.status = "cancelled"] \in AppointmentType
    BY <2>1 DEF AppointmentType, Statuses, CANCELLED_STATUSES
  <2>3. BookingTypeOK'
    BY <1>0, <1>11, <2>2 DEF Cancel, BookingTypeOK
  <2>4. \A b \in Appointments : Active(b)' => Active(b) /\ appt'[b] = appt[b]
    BY <1>0, <1>11, <2>1 DEF Cancel, BookingTypeOK, AppointmentType, Active, ACTIVE_STATUSES
  <2>5. \A y \in Calls : BookerOK(y)'
    BY <1>0, <1>11 DEF Cancel, BookerOK
  <2> QED
    BY <1>11, <2>3, <2>4, <2>5, CalmStep DEF Cancel
<1>12. ASSUME TimePasses PROVE BookInv'
  <2>1. BookingTypeOK'
    BY <1>0, <1>12, RuleIsNat DEF TimePasses, BookingTypeOK, Times
  <2>2. \A y \in Calls : BookerOK(y)'
    BY <1>0, <1>12 DEF TimePasses, BookerOK
  <2> QED
    BY <1>12, <2>1, <2>2, CalmStep DEF TimePasses, Active
<1>13. ASSUME NEW h \in Hosts, LockExpires(h) PROVE BookInv'
  <2>1. lock' = [lock EXCEPT ![h] = [lock[h] EXCEPT !.expired = TRUE]]
    BY <1>13 DEF LockExpires
  <2>2. BookingTypeOK' /\ \A g \in Hosts : lock'[g].holder = lock[g].holder
    BY <1>0, <1>13, <2>1 DEF LockExpires, BookingTypeOK
  <2>3. \A y \in Calls : BookerOK(y)'
    BY <1>0, <1>13 DEF LockExpires, BookerOK
  <2>4. \A y \in Calls : At(y, "write") => call[y].h \in Hosts
    BY <1>0 DEF BookerOK, At
  <2> QED
    BY <1>13, <2>2, <2>3, <2>4, CalmStep DEF LockExpires, Active, At
<1>14. ASSUME UNCHANGED bookingVars PROVE BookInv'
  BY <1>14 DEF bookingVars, BookInv, BookingTypeOK, BookerOK, CalendarKnown, At, Holds, Moving, Active, Against,
       OverlapWasUnlocked, Overlap
<1> QED
  BY <1>1, <1>2, <1>3, <1>4, <1>5, <1>6, <1>7, <1>8, <1>9, <1>10, <1>11, <1>12, <1>13, <1>14, CheckStep
  DEF BookingNext, Reserve

(***************************************************************************)
(* With any number of hosts and calls, two active bookings of a host       *)
(* collide only if one of them was placed after its lock had been lost,    *)
(* and never at the same start (host_lock, _reserve).                      *)
(***************************************************************************)
THEOREM NoOverlap == BookingSpec => []BookingHolds
<1>1. BookingInit => BookInv
  <2> SUFFICES ASSUME BookingInit PROVE BookInv
    OBVIOUS
  <2>1. NoAppointment \in AppointmentType /\ \A a \in Appointments : ~Active(a)
    BY RuleIsNat DEF BookingInit, NoAppointment, AppointmentType, Statuses, Active, ACTIVE_STATUSES
  <2>2. BookingTypeOK
    BY <2>1, IdleIsACall, RuleIsNat DEF BookingInit, BookingTypeOK
  <2> QED
    BY <2>1, <2>2 DEF BookInv, BookingInit, BookerOK, CalendarKnown, Idle, At, OverlapWasUnlocked, Overlap
<1>2. BookInv => BookingHolds
  BY DEF BookInv, BookingHolds
<1> QED
  BY <1>1, <1>2, BookStep, PTL DEF BookingSpec

-----------------------------------------------------------------------------
(***************************************************************************)
(* The lock on guessing, for any number of attempts side by side and any   *)
(* threshold.  An attempt about to start the count again (restart) takes   *)
(* one lock away.  Ahead(r) is twice the guesses that r of them still let  *)
(* through after the present count, Left those the present count does.     *)
(***************************************************************************)
M == Cardinality(Attempts)
Among(f, S) == Cardinality({x \in Attempts : f[x] \in S})
In(S) == Among(attempt, S)

Able == {"idle", "verify", "right"}
Left ==
  IF lockout.until = "live" THEN In({"verify"})
  ELSE IF In({"restart"}) = M THEN 0
  ELSE In(Able) + IF lockout.count < Threshold THEN In({"look"}) + Threshold - 1 - lockout.count ELSE 0

Ahead(r) == r * (2 * M - r + 2 * Threshold - 3)
Most     == M * (2 * Threshold + M - 1)

SignInInv ==
  /\ SignInTypeOK
  /\ lockout.until = "over" => guesses <= In({"wrong"}) + In({"restart"})
  /\ lockout.until # "over" => 2 * (guesses + Left) + Ahead(In({"restart"})) <= Most

-----------------------------------------------------------------------------
LEMMA MIsNat == M \in Nat /\ Threshold \in Nat /\ Threshold > 0 /\ Most \in Int /\ \A r \in Int : Ahead(r) \in Int
BY SignInAssumption, FS_CardinalityType DEF SignInAssumption, M, Most, Ahead

(* What one more restart takes from those ahead, the present count gets.    *)
LEMMA OneRestart == ASSUME NEW r \in Int PROVE Ahead(r) = Ahead(r - 1) + 2 * (M - r + Threshold - 1)
BY MIsNat DEF Ahead

LEMMA AheadIsNat == ASSUME NEW r \in 0..M PROVE Ahead(r) >= 0
<1>1. r \in Int /\ r >= 0 /\ M - r >= 0 /\ M \in Int /\ Threshold \in Int /\ Threshold >= 1
  BY MIsNat
<1>2. CASE r = 0
  BY <1>1, <1>2 DEF Ahead
<1>3. CASE r >= 1
  <2> DEFINE k == 2 * M - r + 2 * Threshold - 3
  <2>1. k \in Int /\ k >= 0
    BY <1>1, <1>3
  <2>2. \A a, b \in Int : a >= 0 /\ b >= 0 => a * b >= 0
    OBVIOUS
  <2> QED
    BY <1>1, <2>1, <2>2 DEF Ahead
<1> QED
  BY <1>1, <1>2, <1>3

(* All the others have guessed while the lock was over, and one restarts.   *)
LEMMA AheadIsBounded ==
  /\ \A q \in 0..(M - 1) : 2 * (M + Threshold - 1) + Ahead(q) <= Most
  /\ Ahead(M) <= Most /\ 2 * M <= Most
<1> USE MIsNat
<1>1. ASSUME NEW q \in 0..(M - 1) PROVE 2 * (M + Threshold - 1) + Ahead(q) <= Most
  <2> DEFINE d == M - 1 - q
  <2>1. d \in Int /\ d >= 0 /\ q = M - 1 - d
    OBVIOUS
  <2>2. Most - (2 * (M + Threshold - 1) + Ahead(q)) = d * (d + 2 * Threshold - 1)
    BY <2>1 DEF Most, Ahead
  <2>3. d + 2 * Threshold - 1 \in Int /\ d + 2 * Threshold - 1 >= 0
    BY <2>1
  <2>4. \A a, b \in Int : a >= 0 /\ b >= 0 => a * b >= 0
    OBVIOUS
  <2>5. d * (d + 2 * Threshold - 1) >= 0
    BY <2>1, <2>3, <2>4
  <2> QED
    BY <2>2, <2>5
<1>2. \A a, b \in Int : a >= 0 /\ b >= 0 => a * b >= 0
  OBVIOUS
<1>3. Most - Ahead(M) = 2 * M
  BY DEF Most, Ahead
<1>4. 2 * M <= Most
  <2>1. CASE M = 0
    BY <2>1 DEF Most
  <2>2. CASE M > 0
    <3>1. Most - 2 * M = M * (2 * Threshold + M - 3)
      BY DEF Most
    <3>2. M * (2 * Threshold + M - 3) >= 0
      BY <1>2, <2>2
    <3> QED
      BY <3>1, <3>2
  <2> QED
    BY <2>1, <2>2
<1> QED
  BY <1>1, <1>3, <1>4

-----------------------------------------------------------------------------
LEMMA AmongIsNat == ASSUME NEW f, NEW S PROVE Among(f, S) \in Nat /\ Among(f, S) <= M
<1>1. IsFiniteSet(Attempts)
  BY SignInAssumption DEF SignInAssumption
<1> QED
  BY <1>1, FS_Subset, FS_CardinalityType DEF Among, M

(* An attempt that goes on leaves one count and joins another.              *)
Shift(S, from, to) ==
  /\ to \in S /\ from \notin S => In(S)' = In(S) + 1
  /\ to \notin S /\ from \in S => In(S)' = In(S) - 1
  /\ (to \in S <=> from \in S) => In(S)' = In(S)

LEMMA Moves ==
  ASSUME SignInTypeOK, NEW x \in Attempts, NEW to, Goes(x, to),
         NEW S
  PROVE  Shift(S, attempt[x], to)
<1> DEFINE A == {y \in Attempts : attempt[y] \in S}
           B == {y \in Attempts : attempt'[y] \in S}
<1>1. IsFiniteSet(A) /\ IsFiniteSet(B) /\ Cardinality(A) \in Nat /\ Cardinality(B) \in Nat
  BY SignInAssumption, FS_Subset, FS_CardinalityType DEF SignInAssumption
<1>2. B = IF to \in S THEN A \cup {x} ELSE A \ {x}
  BY DEF SignInTypeOK, Goes
<1>3. In(S) = Cardinality(A) /\ In(S)' = Cardinality(B) /\ (x \in A <=> attempt[x] \in S)
  BY DEF In, Among
<1> HIDE DEF A, B
<1>4. /\ Cardinality(A \cup {x}) = IF x \in A THEN Cardinality(A) ELSE Cardinality(A) + 1
      /\ Cardinality(A \ {x}) = IF x \in A THEN Cardinality(A) - 1 ELSE Cardinality(A)
  BY <1>1, FS_AddElement, FS_RemoveElement
<1> QED
  BY <1>1, <1>2, <1>3, <1>4 DEF Shift

LEMMA Disjoint ==
  ASSUME NEW f, NEW S, NEW T, S \cap T = {}
  PROVE  Among(f, S \cup T) = Among(f, S) + Among(f, T)
<1> DEFINE A == {y \in Attempts : f[y] \in S}
           B == {y \in Attempts : f[y] \in T}
<1>1. IsFiniteSet(A) /\ IsFiniteSet(B) /\ Cardinality(A) \in Nat /\ Cardinality(B) \in Nat
  BY SignInAssumption, FS_Subset, FS_CardinalityType DEF SignInAssumption
<1>2. A \cap B = {} /\ {y \in Attempts : f[y] \in S \cup T} = A \cup B
  OBVIOUS
<1>3. Cardinality(A \cup B) = Cardinality(A) + Cardinality(B)
  <2> HIDE DEF A, B
  <2>1. Cardinality(A \cup B) = Cardinality(A) + Cardinality(B) - Cardinality(A \cap B)
    BY <1>1, FS_Union
  <2>2. Cardinality(A \cap B) = 0
    BY <1>2, FS_EmptySet
  <2> QED
    BY <1>1, <2>1, <2>2
<1> QED
  BY <1>2, <1>3 DEF Among

(* Everyone is somewhere.                                                   *)
LEMMA Everyone ==
  ASSUME NEW f \in [Attempts -> AttemptPcs]
  PROVE  /\ Among(f, Able) + Among(f, {"look"}) + Among(f, {"wrong"}) + Among(f, {"restart"})
              + Among(f, {"count"}) + Among(f, {"lock"}) = M
         /\ Among(f, {"verify"}) <= Among(f, Able)
<1> DEFINE L == Able \cup {"look"}
           W == L \cup {"wrong"}
           R == W \cup {"restart"}
           C == R \cup {"count"}
<1>1. Among(f, L) = Among(f, Able) + Among(f, {"look"})
  BY Disjoint DEF Able
<1>2. Among(f, W) = Among(f, L) + Among(f, {"wrong"})
  BY Disjoint DEF Able
<1>3. Among(f, R) = Among(f, W) + Among(f, {"restart"})
  BY Disjoint DEF Able
<1>4. Among(f, C) = Among(f, R) + Among(f, {"count"})
  BY Disjoint DEF Able
<1>5. Among(f, C \cup {"lock"}) = Among(f, C) + Among(f, {"lock"})
  BY Disjoint DEF Able
<1>6. C \cup {"lock"} = AttemptPcs /\ {"verify"} \cup {"idle", "right"} = Able
  BY DEF Able, AttemptPcs
<1> HIDE DEF L, W, R, C
<1>7. Among(f, AttemptPcs) = M
  <2>1. {y \in Attempts : f[y] \in AttemptPcs} = Attempts
    OBVIOUS
  <2> QED
    BY <2>1 DEF Among, M
<1>8. Among(f, {"verify"} \cup {"idle", "right"}) = Among(f, {"verify"}) + Among(f, {"idle", "right"})
  BY Disjoint
<1>9. /\ Among(f, Able) \in Nat /\ Among(f, {"look"}) \in Nat /\ Among(f, {"wrong"}) \in Nat
      /\ Among(f, {"restart"}) \in Nat /\ Among(f, {"count"}) \in Nat /\ Among(f, {"lock"}) \in Nat
      /\ Among(f, {"verify"}) \in Nat /\ Among(f, {"idle", "right"}) \in Nat
  BY AmongIsNat
<1>10. Among(f, {"verify"}) <= Among(f, Able)
  BY <1>6, <1>8, <1>9
<1> QED
  BY <1>1, <1>2, <1>3, <1>4, <1>5, <1>6, <1>7, <1>9, <1>10

(* The same of the attempts as they are, before and after a step.           *)
LEMMA Counts ==
  ASSUME attempt \in [Attempts -> AttemptPcs]
  PROVE  /\ In(Able) \in Nat /\ In({"look"}) \in Nat /\ In({"wrong"}) \in Nat /\ In({"restart"}) \in Nat
         /\ In({"count"}) \in Nat /\ In({"lock"}) \in Nat /\ In({"verify"}) \in Nat
         /\ In(Able) + In({"look"}) + In({"wrong"}) + In({"restart"}) + In({"count"}) + In({"lock"}) = M
         /\ In({"verify"}) <= In(Able)
BY AmongIsNat, Everyone DEF In

LEMMA CountsAfter ==
  ASSUME attempt' \in [Attempts -> AttemptPcs]
  PROVE  /\ In(Able)' \in Nat /\ In({"look"})' \in Nat /\ In({"wrong"})' \in Nat /\ In({"restart"})' \in Nat
         /\ In({"count"})' \in Nat /\ In({"lock"})' \in Nat /\ In({"verify"})' \in Nat
         /\ In(Able)' + In({"look"})' + In({"wrong"})' + In({"restart"})' + In({"count"})' + In({"lock"})' = M
         /\ In({"verify"})' <= In(Able)'
<1>1. /\ In(Able)' = Among(attempt', Able) /\ In({"look"})' = Among(attempt', {"look"})
      /\ In({"wrong"})' = Among(attempt', {"wrong"}) /\ In({"restart"})' = Among(attempt', {"restart"})
      /\ In({"count"})' = Among(attempt', {"count"}) /\ In({"lock"})' = Among(attempt', {"lock"})
      /\ In({"verify"})' = Among(attempt', {"verify"})
  BY DEF In, Able
<1> QED
  BY <1>1, AmongIsNat, Everyone

-----------------------------------------------------------------------------
(* The guesses start again at nothing, under a lifted lock.                 *)
LEMMA Anew ==
  ASSUME SignInTypeOK', lockout' = [count |-> 0, until |-> "none"], guesses' = 0
  PROVE  SignInInv'
<1> DEFINE r == In({"restart"})'
<1>1. /\ r \in 0..M /\ In(Able)' \in Nat /\ In({"look"})' \in Nat /\ In(Able)' + In({"look"})' + r <= M
      /\ (In({"restart"}) = M)' <=> r = M
  BY CountsAfter, MIsNat DEF SignInTypeOK, M
<1>2. Left' = IF r = M THEN 0 ELSE In(Able)' + In({"look"})' + Threshold - 1
  BY <1>1, MIsNat DEF Left, M
<1>3. Ahead(In({"restart"}))' = Ahead(r) /\ Most' = Most
  BY DEF Ahead, Most, M
<1>4. 2 * Left' + Ahead(r) <= Most
  <2>1. CASE r = M
    BY <1>2, <2>1, AheadIsBounded, MIsNat
  <2>2. CASE r # M
    <3>1. 2 * (M + Threshold - 1) + Ahead(r) <= Most
      BY <1>1, <2>2, AheadIsBounded, MIsNat
    <3>2. Left' <= M + Threshold - 1 /\ Left' \in Int
      BY <1>1, <1>2, <2>2, MIsNat
    <3> QED
      BY <1>1, <3>1, <3>2, MIsNat
  <2> QED
    BY <2>1, <2>2
<1>5. Left' \in Int
  BY <1>1, <1>2, MIsNat
<1>6. lockout'.until # "over" /\ 2 * (guesses' + Left') = 2 * Left'
  BY <1>5
<1> QED
  BY <1>3, <1>4, <1>6 DEF SignInInv

LEMMA LeftIsNat == ASSUME SignInTypeOK PROVE Left \in Nat
BY Counts, MIsNat DEF Left, SignInTypeOK, LockoutType

LEMMA SignInTypes == ASSUME SignInTypeOK, SignInNext PROVE SignInTypeOK'
BY SignInAssumption DEF SignInAssumption, SignInTypeOK, LockoutType, AttemptPcs, SignInNext, Attempt, VerifyWrong,
   VerifyRight, ReadLock, RestartCount, CountFailure, LookAtCount, SetLock, Lift, AdminLifts, LockOver, Goes, Trying

(* While the lock is over, a guess is paid by the attempt that made it.     *)
LEMMA StillOver ==
  ASSUME SignInInv, SignInTypeOK', lockout.until = "over", lockout'.until = "over",
         guesses' - guesses <= In({"wrong"})' + In({"restart"})' - In({"wrong"}) - In({"restart"})
  PROVE  SignInInv'
<1>1. /\ In({"wrong"}) \in Nat /\ In({"restart"}) \in Nat /\ In({"wrong"})' \in Nat /\ In({"restart"})' \in Nat
      /\ guesses \in Nat /\ guesses' \in Nat
  BY Counts, CountsAfter DEF SignInInv, SignInTypeOK
<1> QED
  BY <1>1 DEF SignInInv

(* Otherwise it is paid by what is left of the present count.               *)
LEMMA StillCounting ==
  ASSUME SignInInv, SignInTypeOK', lockout.until # "over", lockout'.until # "over",
         In({"restart"})' = In({"restart"}), guesses' + Left' <= guesses + Left
  PROVE  SignInInv'
<1>1. Left \in Int /\ Left' \in Int /\ guesses \in Int /\ guesses' \in Int /\ In({"restart"}) \in Int
  <2>1. Left \in Int
    BY LeftIsNat DEF SignInInv
  <2>2. Left' \in Int
    BY CountsAfter, MIsNat DEF Left, SignInTypeOK, LockoutType, M
  <2> QED
    BY <2>1, <2>2, Counts DEF SignInInv, SignInTypeOK
<1>2. Ahead(In({"restart"}))' = Ahead(In({"restart"})) /\ Most' = Most /\ Ahead(In({"restart"})) \in Int /\ Most \in Int
  BY <1>1, MIsNat DEF Ahead, Most, M
<1>3. 2 * (guesses + Left) + Ahead(In({"restart"})) <= Most
  BY DEF SignInInv
<1>4. 2 * (guesses' + Left') + Ahead(In({"restart"})) <= Most
  <2>1. \A g, l, g2, l2, h, m \in Int : 2 * (g + l) + h <= m /\ g2 + l2 <= g + l => 2 * (g2 + l2) + h <= m
    OBVIOUS
  <2> QED
    BY <1>1, <1>2, <1>3, <2>1
<1>5. 2 * (guesses' + Left') + Ahead(In({"restart"}))' <= Most'
  BY <1>2, <1>4
<1> HIDE DEF SignInTypeOK
<1> QED
  BY <1>5 DEF SignInInv

(* A step of one attempt that leaves the lock and the guesses alone, and    *)
(* does not make it able to guess again.                                    *)
LEMMA NoGuess ==
  ASSUME SignInInv, SignInTypeOK', lockout' = lockout, guesses' = guesses,
         In({"restart"})' = In({"restart"}), In({"wrong"})' = In({"wrong"}), Left' <= Left
  PROVE  SignInInv'
<1>1. /\ In({"wrong"}) \in Nat /\ In({"restart"}) \in Nat /\ guesses \in Nat
      /\ Left \in Int /\ Left' \in Int
  <2>1. Left' \in Int
    BY CountsAfter, MIsNat DEF Left, SignInTypeOK, LockoutType, M
  <2> QED
    BY <2>1, Counts, LeftIsNat DEF SignInInv, SignInTypeOK
<1>2. guesses' + Left' <= guesses + Left
      /\ guesses' - guesses <= In({"wrong"})' + In({"restart"})' - In({"wrong"}) - In({"restart"})
  <2>1. guesses' = guesses /\ guesses \in Int
    BY <1>1
  <2>2. guesses' + Left' <= guesses + Left
    <3>1. \A g, a, b \in Int : a <= b => g + a <= g + b
      OBVIOUS
    <3> QED
      BY <1>1, <2>1, <3>1
  <2>3. guesses' - guesses = 0
    BY <2>1
  <2>4. In({"wrong"})' + In({"restart"})' - In({"wrong"}) - In({"restart"}) = 0
    BY <1>1
  <2> QED
    BY <2>2, <2>3, <2>4
<1>3. CASE lockout.until = "over"
  BY <1>2, <1>3, StillOver
<1>4. CASE lockout.until # "over"
  BY <1>2, <1>4, StillCounting
<1> QED
  BY <1>3, <1>4

LEMMA GuessStep ==
  ASSUME SignInInv, SignInNext
  PROVE  SignInInv'
<1>0. /\ SignInTypeOK' /\ SignInTypeOK
      /\ lockout \in LockoutType /\ guesses \in Nat /\ lockout.count \in Nat /\ lockout.count <= Threshold
  BY SignInTypes, MIsNat DEF SignInInv, SignInTypeOK, LockoutType
<1>c. /\ In(Able) \in Nat /\ In({"look"}) \in Nat /\ In({"wrong"}) \in Nat /\ In({"restart"}) \in Nat
      /\ In({"count"}) \in Nat /\ In({"lock"}) \in Nat /\ In({"verify"}) \in Nat
      /\ In(Able) + In({"look"}) + In({"wrong"}) + In({"restart"}) + In({"count"}) + In({"lock"}) = M
      /\ In({"verify"}) <= In(Able)
  BY <1>0, Counts DEF SignInTypeOK
<1>d. /\ In(Able)' \in Nat /\ In({"look"})' \in Nat /\ In({"wrong"})' \in Nat /\ In({"restart"})' \in Nat
      /\ In({"count"})' \in Nat /\ In({"lock"})' \in Nat /\ In({"verify"})' \in Nat
      /\ In(Able)' + In({"look"})' + In({"wrong"})' + In({"restart"})' + In({"count"})' + In({"lock"})' = M
      /\ In({"verify"})' <= In(Able)'
  BY <1>0, CountsAfter DEF SignInTypeOK
<1>l. Left' = IF lockout'.until = "live" THEN In({"verify"})'
              ELSE IF In({"restart"})' = M THEN 0
              ELSE In(Able)' + IF lockout'.count < Threshold
                               THEN In({"look"})' + Threshold - 1 - lockout'.count ELSE 0
  BY DEF Left, M, Able
(* How a step from one place to another changes every count.                *)
<1>m. ASSUME NEW x \in Attempts, NEW from, NEW to, attempt[x] = from, Goes(x, to)
      PROVE  /\ Shift(Able, from, to) /\ Shift({"look"}, from, to) /\ Shift({"wrong"}, from, to)
             /\ Shift({"restart"}, from, to) /\ Shift({"verify"}, from, to) /\ Shift({"lock"}, from, to)
  BY <1>0, <1>m, Moves
<1>a. "idle" \in Able /\ "verify" \in Able /\ "right" \in Able
      /\ \A pc \in {"wrong", "restart", "count", "look", "lock"} : pc \notin Able
  BY DEF Able
<1>1. ASSUME NEW x \in Attempts, Attempt(x) PROVE SignInInv'
  <2>1. CASE IsLocked
    <3>1. attempt' = attempt /\ lockout' = lockout /\ guesses' = guesses
      BY <1>1, <2>1 DEF Attempt
    <3>2. Left' = Left /\ In({"restart"})' = In({"restart"}) /\ In({"wrong"})' = In({"wrong"})
      BY <3>1 DEF Left, In, Able
    <3> QED
      BY <1>0, <1>c, <3>1, <3>2, NoGuess, LeftIsNat
  <2>2. CASE ~IsLocked
    <3>1. attempt[x] = "idle" /\ Goes(x, "verify") /\ lockout' = lockout /\ guesses' = guesses
          /\ lockout.until # "live"
      BY <1>1, <2>2 DEF Attempt, Trying, IsLocked
    <3>2. /\ In(Able)' = In(Able) /\ In({"look"})' = In({"look"})
          /\ In({"restart"})' = In({"restart"}) /\ In({"wrong"})' = In({"wrong"})
      BY <1>a, <1>c, <1>m, <3>1 DEF Shift
    <3>3. Left' <= Left
      BY <1>0, <1>c, <1>l, <3>1, <3>2, MIsNat DEF Left
    <3> QED
      BY <1>0, <3>1, <3>2, <3>3, NoGuess
  <2> QED
    BY <2>1, <2>2
<1>2. ASSUME NEW x \in Attempts, VerifyWrong(x) PROVE SignInInv'
  <2>1. attempt[x] = "verify" /\ Goes(x, "wrong") /\ lockout' = lockout /\ guesses' = guesses + 1
    BY <1>2 DEF VerifyWrong, Trying
  <2>2. /\ In(Able)' = In(Able) - 1 /\ In({"look"})' = In({"look"}) /\ In({"verify"})' = In({"verify"}) - 1
        /\ In({"restart"})' = In({"restart"}) /\ In({"wrong"})' = In({"wrong"}) + 1
    BY <1>a, <1>c, <1>m, <2>1 DEF Shift
  <2>3. CASE lockout.until = "over"
    BY <1>0, <1>c, <2>1, <2>2, <2>3, StillOver
  <2>4. CASE lockout.until # "over"
    <3>1. guesses' + Left' <= guesses + Left
      BY <1>0, <1>c, <1>d, <1>l, <2>1, <2>2, MIsNat DEF Left
    <3> QED
      BY <1>0, <2>1, <2>2, <2>4, <3>1, StillCounting
  <2> QED
    BY <2>3, <2>4
<1>3. ASSUME NEW x \in Attempts, VerifyRight(x) PROVE SignInInv'
  <2>1. attempt[x] = "verify" /\ Goes(x, "right") /\ lockout' = lockout /\ guesses' = guesses
    BY <1>3 DEF VerifyRight, Trying
  <2>2. /\ In(Able)' = In(Able) /\ In({"look"})' = In({"look"}) /\ In({"verify"})' = In({"verify"}) - 1
        /\ In({"restart"})' = In({"restart"}) /\ In({"wrong"})' = In({"wrong"})
    BY <1>a, <1>c, <1>m, <2>1 DEF Shift
  <2>3. Left' <= Left
    BY <1>0, <1>c, <1>l, <2>1, <2>2, MIsNat DEF Left
  <2> QED
    BY <1>0, <2>1, <2>2, <2>3, NoGuess
<1>4. ASSUME NEW x \in Attempts, ReadLock(x) PROVE SignInInv'
  <2>1. attempt[x] = "wrong" /\ lockout' = lockout /\ guesses' = guesses
        /\ Goes(x, IF lockout.until = "over" THEN "restart" ELSE "count")
    BY <1>4 DEF ReadLock, Trying
  <2>2. CASE lockout.until = "over"
    <3>1. Goes(x, "restart")
      BY <2>1, <2>2
    <3>2. In({"restart"})' = In({"restart"}) + 1 /\ In({"wrong"})' = In({"wrong"}) - 1
      BY <1>c, <1>m, <2>1, <3>1 DEF Shift
    <3> QED
      BY <1>0, <1>c, <2>1, <2>2, <3>2, StillOver
  <2>3. CASE lockout.until # "over"
    <3>1. Goes(x, "count")
      BY <2>1, <2>3
    <3>2. /\ In(Able)' = In(Able) /\ In({"look"})' = In({"look"}) /\ In({"verify"})' = In({"verify"})
          /\ In({"restart"})' = In({"restart"})
      BY <1>a, <1>c, <1>m, <2>1, <3>1 DEF Shift
    <3>3. Left' <= Left
      BY <1>0, <1>c, <1>l, <2>1, <3>2, MIsNat DEF Left
    <3>4. Left' \in Int /\ Left \in Int
      BY <1>0, <1>d, <1>l, <2>1, LeftIsNat, MIsNat
    <3>5. guesses' + Left' <= guesses + Left
      <4>1. \A g, a, b \in Int : a <= b => g + a <= g + b
        OBVIOUS
      <4>2. guesses \in Int /\ guesses' = guesses
        BY <1>0, <2>1
      <4> QED
        BY <3>3, <3>4, <4>1, <4>2
    <3> QED
      BY <1>0, <2>1, <2>3, <3>2, <3>5, StillCounting
  <2> QED
    BY <2>2, <2>3
<1>5. ASSUME NEW x \in Attempts, RestartCount(x) PROVE SignInInv'
  <2> DEFINE r == In({"restart"})
  <2>1. attempt[x] = "restart" /\ Goes(x, "count") /\ lockout' = [count |-> 0, until |-> "none"] /\ guesses' = guesses
    BY <1>5 DEF RestartCount, Trying
  <2>2. /\ In(Able)' = In(Able) /\ In({"look"})' = In({"look"}) /\ In({"wrong"})' = In({"wrong"})
        /\ In({"restart"})' = r - 1 /\ r - 1 \in 0..(M - 1)
    <3>1. /\ In(Able)' = In(Able) /\ In({"look"})' = In({"look"}) /\ In({"wrong"})' = In({"wrong"})
          /\ In({"restart"})' = r - 1
      BY <1>a, <1>m, <2>1 DEF Shift
    <3> QED
      BY <1>c, <1>d, <3>1, MIsNat
  <2>3. Left' \in Int /\ Left' = In(Able) + In({"look"}) + Threshold - 1
    BY <1>0, <1>c, <1>l, <2>1, <2>2, MIsNat
  <2>4. /\ Ahead(In({"restart"}))' = Ahead(r - 1) /\ Most' = Most
        /\ Ahead(r) \in Int /\ Ahead(r - 1) \in Int /\ Most \in Int
        /\ Ahead(r) = Ahead(r - 1) + 2 * (M - r + Threshold - 1)
        /\ 2 * (M + Threshold - 1) + Ahead(r - 1) <= Most
    <3>1. Ahead(In({"restart"}))' = Ahead(r - 1) /\ Most' = Most
      BY <2>2 DEF Ahead, Most, M
    <3> QED
      BY <1>c, <2>2, <3>1, MIsNat, OneRestart, AheadIsBounded
  <2>5. 2 * (guesses' + Left') + Ahead(r - 1) <= Most
    <3>1. CASE lockout.until = "over"
      <4>1. guesses <= In({"wrong"}) + r
        BY <3>1 DEF SignInInv
      <4>2. guesses' + Left' <= M + Threshold - 1
        BY <1>0, <1>c, <2>1, <2>3, <4>1, MIsNat
      <4> QED
        BY <1>0, <2>1, <2>3, <2>4, <4>2, MIsNat
    <3>2. CASE lockout.until # "over"
      <4>1. 2 * (guesses + Left) + Ahead(r) <= Most /\ Left \in Nat
        BY <1>0, <3>2, LeftIsNat DEF SignInInv
      <4>2. Left' <= M - r + Threshold - 1
        BY <1>c, <2>3, MIsNat
      <4> QED
        BY <1>0, <1>c, <2>1, <2>3, <2>4, <4>1, <4>2, MIsNat
    <3> QED
      BY <3>1, <3>2
  <2>6. lockout'.until # "over"
    BY <2>1
  <2> QED
    BY <1>0, <2>4, <2>5, <2>6 DEF SignInInv
<1>6. ASSUME NEW x \in Attempts, CountFailure(x) PROVE SignInInv'
  <2>1. /\ attempt[x] = "count" /\ Goes(x, "look") /\ guesses' = guesses
        /\ lockout' = [lockout EXCEPT !.count = IF @ = Threshold THEN @ ELSE @ + 1]
    BY <1>6 DEF CountFailure, Trying
  <2>2. /\ lockout'.until = lockout.until
        /\ lockout'.count = IF lockout.count = Threshold THEN Threshold ELSE lockout.count + 1
    BY <1>0, <2>1 DEF LockoutType
  <2>3. /\ In(Able)' = In(Able) /\ In({"look"})' = In({"look"}) + 1 /\ In({"verify"})' = In({"verify"})
        /\ In({"restart"})' = In({"restart"}) /\ In({"wrong"})' = In({"wrong"})
    BY <1>a, <1>c, <1>m, <2>1 DEF Shift
  <2>4. CASE lockout.until = "over"
    BY <1>0, <1>c, <2>1, <2>2, <2>3, <2>4, StillOver
  <2>5. CASE lockout.until # "over"
    <3>1. Left' <= Left
      BY <1>0, <1>c, <1>l, <2>2, <2>3, MIsNat DEF Left
    <3>2. Left' \in Int /\ Left \in Int
      BY <1>0, <1>c, <1>l, <2>2, <2>3, LeftIsNat, MIsNat
    <3> QED
      BY <1>0, <2>1, <2>2, <2>3, <2>5, <3>1, <3>2, StillCounting
  <2> QED
    BY <2>4, <2>5
<1>7. ASSUME NEW x \in Attempts, LookAtCount(x) PROVE SignInInv'
  <2>1. /\ attempt[x] = "look" /\ Goes(x, IF Reaches THEN "lock" ELSE "idle")
        /\ lockout' = lockout /\ guesses' = guesses
    BY <1>7 DEF LookAtCount, Trying
  <2>2. CASE Reaches
    <3>1. Goes(x, "lock")
      BY <2>1, <2>2
    <3>2. /\ In(Able)' = In(Able) /\ In({"look"})' = In({"look"}) - 1 /\ In({"verify"})' = In({"verify"})
          /\ In({"restart"})' = In({"restart"}) /\ In({"wrong"})' = In({"wrong"})
      BY <1>a, <1>c, <1>m, <2>1, <3>1 DEF Shift
    <3>3. Left' <= Left
      BY <1>0, <1>c, <1>l, <2>1, <3>2, MIsNat DEF Left
    <3> QED
      BY <1>0, <2>1, <3>2, <3>3, NoGuess
  <2>3. CASE ~Reaches
    <3>1. Goes(x, "idle") /\ lockout.count < Threshold
      BY <1>0, <2>1, <2>3, MIsNat DEF Reaches
    <3>2. /\ In(Able)' = In(Able) + 1 /\ In({"look"})' = In({"look"}) - 1 /\ In({"verify"})' = In({"verify"})
          /\ In({"restart"})' = In({"restart"}) /\ In({"wrong"})' = In({"wrong"})
      BY <1>a, <1>c, <1>m, <2>1, <3>1 DEF Shift
    <3>3. Left' <= Left
      BY <1>0, <1>c, <1>l, <2>1, <3>1, <3>2, MIsNat DEF Left
    <3> QED
      BY <1>0, <2>1, <3>2, <3>3, NoGuess
  <2> QED
    BY <2>2, <2>3
<1>8. ASSUME NEW x \in Attempts, SetLock(x) PROVE SignInInv'
  <2> DEFINE r == In({"restart"})
  <2>1. /\ attempt[x] = "lock" /\ Goes(x, "idle") /\ guesses' = guesses
        /\ lockout' = [lockout EXCEPT !.until = "live"]
    BY <1>8 DEF SetLock, Trying
  <2>2. lockout'.until = "live"
    BY <1>0, <2>1 DEF LockoutType
  <2>3. /\ In({"lock"})' = In({"lock"}) - 1 /\ In({"verify"})' = In({"verify"}) /\ In({"restart"})' = r
    BY <1>a, <1>c, <1>m, <2>1 DEF Shift
  <2>4. Left' = In({"verify"})
    BY <1>l, <2>2, <2>3
  <2>5. CASE lockout.until = "over"
    <3>1. guesses <= In({"wrong"}) + r /\ r \in 0..(M - 1)
      BY <1>c, <1>d, <2>3, <2>5, MIsNat DEF SignInInv
    <3>2. /\ Ahead(In({"restart"}))' = Ahead(r) /\ Most' = Most
          /\ Ahead(r) \in Int /\ Most \in Int /\ 2 * (M + Threshold - 1) + Ahead(r) <= Most
      <4>1. Ahead(In({"restart"}))' = Ahead(r) /\ Most' = Most
        BY <2>3 DEF Ahead, Most, M
      <4> QED
        BY <3>1, <4>1, MIsNat, AheadIsBounded
    <3>3. guesses' + Left' <= M + Threshold - 1
      BY <1>0, <1>c, <1>d, <2>1, <2>3, <2>4, <3>1, MIsNat
    <3>4. 2 * (guesses' + Left') + Ahead(r) <= Most
      BY <1>0, <1>c, <2>1, <2>4, <3>2, <3>3, MIsNat
    <3> QED
      BY <1>0, <2>2, <3>2, <3>4 DEF SignInInv
  <2>6. CASE lockout.until # "over"
    <3>1. Left' <= Left
      <4>1. r < M
        BY <1>c, <1>d, <2>3, MIsNat
      <4> QED
        BY <1>0, <1>c, <2>4, <4>1, MIsNat DEF Left
    <3>2. Left \in Int /\ Left' \in Int
      BY <1>0, <1>c, <2>4, LeftIsNat
    <3> QED
      BY <1>0, <2>1, <2>2, <2>3, <2>6, <3>1, <3>2, StillCounting
  <2> QED
    BY <2>5, <2>6
<1>9. ASSUME NEW x \in Attempts, Lift(x) PROVE SignInInv'
  BY <1>0, <1>9, Anew DEF Lift
<1>10. CASE AdminLifts
  BY <1>0, <1>10, Anew DEF AdminLifts
<1>11. CASE LockOver
  <2>1. lockout'.until = "over" /\ guesses' = 0
    BY <1>0, <1>11 DEF LockOver, LockoutType
  <2> QED
    BY <1>0, <1>d, <2>1 DEF SignInInv
<1> QED
  BY <1>1, <1>2, <1>3, <1>4, <1>5, <1>6, <1>7, <1>8, <1>9, <1>10, <1>11 DEF SignInNext

(***************************************************************************)
(* However many attempts guess at a password side by side, and whatever    *)
(* the threshold, the guesses before a lock is over are bounded            *)
(* (_login_is_locked, _record_login_failure).                              *)
(***************************************************************************)
THEOREM FewGuesses == SignInSpec => []SignInHolds
<1>1. SignInInit => SignInInv
  <2> SUFFICES ASSUME SignInInit PROVE SignInInv
    OBVIOUS
  <2>1. SignInTypeOK /\ lockout.until = "none" /\ lockout.count = 0 /\ guesses = 0
    BY MIsNat DEF SignInInit, SignInTypeOK, LockoutType, AttemptPcs
  <2>2. \A S : "idle" \notin S => In(S) = 0
    <3> SUFFICES ASSUME NEW S, "idle" \notin S PROVE In(S) = 0
      OBVIOUS
    <3>1. {x \in Attempts : attempt[x] \in S} = {}
      BY DEF SignInInit
    <3> QED
      BY <3>1, FS_EmptySet DEF In, Among
  <2>3. In({"restart"}) = 0 /\ In({"look"}) = 0
    BY <2>2
  <2>4. In(Able) \in Nat /\ In(Able) <= M
    BY AmongIsNat DEF In
  <2>5. Ahead(0) = 0 /\ 2 * M <= Most /\ Most \in Int
    BY MIsNat, AheadIsBounded DEF Ahead
  <2>6. CASE M = 0
    <3>1. Left = 0
      BY <2>1, <2>3, <2>6 DEF Left
    <3> QED
      BY <2>1, <2>3, <2>5, <2>6, <3>1, MIsNat DEF SignInInv
  <2>7. CASE M # 0
    <3>1. Left \in Int /\ Left <= M + Threshold - 1
      BY <2>1, <2>3, <2>4, MIsNat DEF Left
    <3>2. 2 * (M + Threshold - 1) + Ahead(0) <= Most
      BY <2>7, MIsNat, AheadIsBounded
    <3>3. 2 * (guesses + Left) + Ahead(0) <= Most
      BY <2>1, <2>5, <3>1, <3>2, MIsNat
    <3> QED
      BY <2>1, <2>3, <3>3 DEF SignInInv
  <2> QED
    BY <2>6, <2>7
<1>2. SignInInv /\ UNCHANGED signInVars => SignInInv'
  BY DEF signInVars, SignInInv, SignInTypeOK, Left, In, Able, Ahead, Most, M
<1>3. SignInInv => SignInHolds
  <2> SUFFICES ASSUME SignInInv PROVE 2 * guesses <= Most
    BY DEF SignInInv, SignInHolds, GuessesAreBounded, Most, M
  <2>1. /\ In({"wrong"}) \in Nat /\ In({"restart"}) \in 0..M /\ In({"wrong"}) + In({"restart"}) <= M
        /\ guesses \in Nat /\ Left \in Nat
    BY Counts, LeftIsNat, MIsNat DEF SignInInv, SignInTypeOK
  <2>2. Ahead(In({"restart"})) >= 0 /\ Ahead(In({"restart"})) \in Int /\ 2 * M <= Most /\ Most \in Int
    BY <2>1, AheadIsNat, AheadIsBounded, MIsNat
  <2>3. CASE lockout.until = "over"
    BY <2>1, <2>2, <2>3, MIsNat DEF SignInInv
  <2>4. CASE lockout.until # "over"
    <3>1. 2 * (guesses + Left) + Ahead(In({"restart"})) <= Most
      BY <2>4 DEF SignInInv
    <3> QED
      BY <2>1, <2>2, <3>1
  <2> QED
    BY <2>3, <2>4
<1> QED
  BY <1>1, <1>2, <1>3, GuessStep, PTL DEF SignInSpec

-----------------------------------------------------------------------------
(***************************************************************************)
(* The grant, for any number of mailboxes and requests.  While the switch  *)
(* names another mailbox than the row, the connect that wrote the row has  *)
(* still to see to it (TurnsOff); and a test of another mailbox than the   *)
(* row's can still be committed only until that connect has moved the      *)
(* revision (NotVoided).  While both rows are disconnected and the tokens  *)
(* still there, a disconnect is about to drop them (TokensGo).             *)
(***************************************************************************)
Late  == {"calendar", "void", "look", "off", "list", "clear"}
Early == {"calendar", "void"}
Connecting(m, pcs) == \E y \in GrantCalls : /\ grantCall[y].op = "connect" /\ grantCall[y].mailbox = m
                                            /\ grantCall[y].at \in pcs
RowBox == conn["gmail"].mailbox
Gone == \A p \in Providers : conn[p].status = "disconnected"

TurnsOff == RowBox \in SendingBoxes /\ sending.mailbox \notin {NoMailbox, RowBox} => Connecting(RowBox, Late)
NotVoided ==
  \A x \in GrantCalls :
    GrantAt(x, "enable", "commit") /\ grantCall[x].revision = sending.revision
      /\ RowBox \in SendingBoxes /\ grantCall[x].mailbox # RowBox => Connecting(RowBox, Early)
OldRevisions == \A x \in GrantCalls : grantCall[x].op = "enable" => grantCall[x].revision <= sending.revision
TokensGo ==
  Gone /\ ~rowMoved /\ creds # NoMailbox =>
    \E x \in GrantCalls : GrantAt(x, "connect", "gmail") \/ GrantAt(x, "disconnect", "other") \/ GrantAt(x, "disconnect", "drop")
OwnRowIsOff ==
  ~rowMoved => \A x \in GrantCalls : grantCall[x].op = "disconnect" /\ grantCall[x].at # "mark"
                                       => conn[On(x)].status = "disconnected"

GrantInv == GrantTypeOK /\ TurnsOff /\ NotVoided /\ OldRevisions /\ TokensGo /\ OwnRowIsOff

GrantCallType == [op : GrantOps, at : GrantPcs, of : Providers, mailbox : MaybeMailbox, revision : Nat]

-----------------------------------------------------------------------------
LEMMA RestIsACall == /\ GrantAtRest \in GrantCallType /\ GrantAtRest.op = "disable" /\ GrantAtRest.at = "idle"
                     /\ NoMailbox \in MaybeMailbox /\ NoMailbox \notin SendingBoxes
BY GrantAssumption DEF GrantAssumption, GrantAtRest, GrantCallType, GrantOps, GrantPcs, Providers, MaybeMailbox

CallsType == [GrantCalls -> GrantCallType]
RowsType  == [Providers -> ConnType]
SwitchType == [mailbox : MaybeMailbox, revision : Nat]

LEMMA TypesApart ==
  /\ GrantTypeOK <=> /\ creds \in MaybeMailbox /\ conn \in RowsType /\ sending \in SwitchType
                      /\ grantCall \in CallsType /\ begun \in 0..MaxGrantCalls /\ rowMoved \in BOOLEAN
  /\ GrantTypeOK' <=> /\ creds' \in MaybeMailbox /\ conn' \in RowsType /\ sending' \in SwitchType
                       /\ grantCall' \in CallsType /\ begun' \in 0..MaxGrantCalls /\ rowMoved' \in BOOLEAN
BY DEF GrantTypeOK, CallsType, RowsType, SwitchType, GrantCallType, MaybeMailbox, GrantOps, GrantPcs, Providers, ConnType

(* A request that goes on, with or without a mailbox, or ends.              *)
LEMMA CallWrites ==
  ASSUME grantCall \in CallsType, NEW x \in GrantCalls
  PROVE  /\ \A pc \in GrantPcs : CallGoes(x, pc) => grantCall' \in CallsType
         /\ \A pc \in GrantPcs, m \in MaybeMailbox :
              grantCall' = [grantCall EXCEPT ![x].at = pc, ![x].mailbox = m] => grantCall' \in CallsType
         /\ CallEnds(x) => grantCall' \in CallsType
         /\ grantCall[x].mailbox \in MaybeMailbox /\ On(x) \in Providers
BY RestIsACall DEF CallsType, GrantCallType, CallGoes, CallEnds, On

LEMMA RowWrites ==
  ASSUME conn \in RowsType
  PROVE  /\ \A p \in Providers, s \in {"active", "disconnected", "other"} : SetRow(p, s) => conn' \in RowsType
         /\ \A p \in Providers, m \in MaybeMailbox, s \in {"active", "disconnected", "other"} :
              conn' = [conn EXCEPT ![p] = [status |-> s, mailbox |-> m]] => conn' \in RowsType
         /\ conn["gmail"].mailbox \in MaybeMailbox
BY DEF RowsType, ConnType, SetRow, Providers

LEMMA SwitchWrites ==
  ASSUME sending \in SwitchType
  PROVE  /\ sending.revision \in Nat
         /\ sending' = [sending EXCEPT !.revision = @ + 1] => sending' \in SwitchType
         /\ sending' = [sending EXCEPT !.mailbox = NoMailbox] => sending' \in SwitchType
         /\ \A m \in MaybeMailbox :
              sending' = [mailbox |-> m, revision |-> sending.revision + 1] => sending' \in SwitchType
BY RestIsACall DEF SwitchType

LEMMA GrantTypes ==
  ASSUME GrantTypeOK, GrantNext
  PROVE  GrantTypeOK'
<1>0. /\ creds \in MaybeMailbox /\ conn \in RowsType /\ sending \in SwitchType
      /\ grantCall \in CallsType /\ begun \in 0..MaxGrantCalls /\ rowMoved \in BOOLEAN
  BY TypesApart
<1> USE <1>0, RestIsACall
<1>p. GrantPcs = {"idle", "mark", "markNext", "exchange", "fail", "failNext", "gmail", "calendar", "void", "look",
        "off", "list", "clear", "other", "drop", "after", "again", "token", "refresh", "finish", "test", "answer",
        "check", "commit"} /\ "gmail" \in Providers /\ "calendar" \in Providers
  BY DEF GrantPcs, Providers
<1>1. PICK x \in GrantCalls :
        \/ BeginGrantCall(x) \/ Connect(x) \/ Exchange(x) \/ VoidTests(x) \/ LookAtCertificate(x) \/ TurnOff(x)
        \/ Disconnect(x) \/ Sync(x) \/ Enable(x) \/ CommitSending(x)
  BY DEF GrantNext
<1>2. CASE BeginGrantCall(x)
  <2>1. PICK op \in GrantOps, p \in Providers :
          grantCall' = [grantCall EXCEPT ![x] =
            [GrantAtRest EXCEPT !.op = op, !.of = p, !.revision = IF op = "enable" THEN sending.revision ELSE 0,
                           !.at = CASE op = "enable" -> "test" [] op = "disable" -> "off" [] OTHER -> "mark"]]
    BY <1>2 DEF BeginGrantCall
  <2>2. (IF op = "enable" THEN sending.revision ELSE 0) \in Nat
    BY SwitchWrites
  <2>3. (CASE op = "enable" -> "test" [] op = "disable" -> "off" [] OTHER -> "mark") \in GrantPcs
    BY <1>p
  <2>4. [GrantAtRest EXCEPT !.op = op, !.of = p, !.revision = IF op = "enable" THEN sending.revision ELSE 0,
           !.at = CASE op = "enable" -> "test" [] op = "disable" -> "off" [] OTHER -> "mark"] \in GrantCallType
    BY <2>2, <2>3 DEF GrantCallType
  <2>5. grantCall' \in CallsType
    BY <2>1, <2>4 DEF CallsType
  <2>6. begun' \in 0..MaxGrantCalls
    BY <1>2, GrantAssumption DEF BeginGrantCall, GrantAssumption
  <2> QED
    BY <1>2, <2>5, <2>6, TypesApart DEF BeginGrantCall
<1>3. CASE Connect(x)
  BY <1>3, <1>p, CallWrites, RowWrites, TypesApart DEF Connect, RowMoves
<1>4. CASE Exchange(x)
  <2>1. PICK m \in Mailboxes : creds' = m /\ grantCall' = [grantCall EXCEPT ![x].at = "gmail", ![x].mailbox = m]
    BY <1>4 DEF Exchange
  <2>2. m \in MaybeMailbox
    BY DEF MaybeMailbox
  <2> QED
    BY <1>4, <1>p, <2>1, <2>2, CallWrites, TypesApart DEF Exchange
<1>5. CASE VoidTests(x)
  BY <1>5, <1>p, CallWrites, SwitchWrites, TypesApart DEF VoidTests
<1>6. CASE LookAtCertificate(x)
  BY <1>6, <1>p, CallWrites, TypesApart DEF LookAtCertificate
<1>7. CASE TurnOff(x)
  BY <1>7, <1>p, CallWrites, SwitchWrites, TypesApart DEF TurnOff
<1>8. CASE Disconnect(x)
  BY <1>8, <1>p, CallWrites, RowWrites, TypesApart DEF Disconnect
<1>9. CASE Sync(x)
  BY <1>9, <1>p, CallWrites, RowWrites, TypesApart DEF Sync, RowMoves
<1>10. CASE Enable(x)
  BY <1>10, <1>p, CallWrites, RowWrites, TypesApart DEF Enable
<1>11. CASE CommitSending(x)
  BY <1>11, <1>p, CallWrites, SwitchWrites, TypesApart DEF CommitSending
<1> QED
  BY <1>1, <1>2, <1>3, <1>4, <1>5, <1>6, <1>7, <1>8, <1>9, <1>10, <1>11

-----------------------------------------------------------------------------
(* What a step makes of the call x, and that the others stay.               *)
Becomes(x, d) == d = grantCall'[x] /\ \A y \in GrantCalls \ {x} : grantCall'[y] = grantCall[y]

LEMMA Becoming ==
  ASSUME GrantTypeOK, NEW x \in GrantCalls
  PROVE  /\ \A pc : CallGoes(x, pc) =>
              /\ Becomes(x, grantCall'[x]) /\ grantCall'[x].at = pc
              /\ grantCall'[x].op = grantCall[x].op /\ grantCall'[x].of = grantCall[x].of
              /\ grantCall'[x].mailbox = grantCall[x].mailbox /\ grantCall'[x].revision = grantCall[x].revision
         /\ \A pc, m : grantCall' = [grantCall EXCEPT ![x].at = pc, ![x].mailbox = m] =>
              /\ Becomes(x, grantCall'[x]) /\ grantCall'[x].at = pc
              /\ grantCall'[x].op = grantCall[x].op /\ grantCall'[x].of = grantCall[x].of
              /\ grantCall'[x].mailbox = m /\ grantCall'[x].revision = grantCall[x].revision
         /\ CallEnds(x) => /\ Becomes(x, grantCall'[x]) /\ grantCall'[x].op = "disable"
                           /\ grantCall'[x].at = "idle"
<1>1. grantCall \in CallsType
  BY TypesApart
<1> QED
  BY <1>1, RestIsACall DEF CallsType, GrantCallType, CallGoes, CallEnds, Becomes

(* A call goes on and writes neither a row nor the switch; it may put other *)
(* tokens where there were tokens, or drop them.                            *)
LEMMA Walks ==
  ASSUME GrantInv, GrantTypeOK', NEW x \in GrantCalls, NEW d, Becomes(x, d),
         creds = NoMailbox => creds' = NoMailbox, conn' = conn, sending' = sending, rowMoved' = rowMoved,
         grantCall[x].op = "connect" /\ grantCall[x].at \in Late
           /\ sending.mailbox \notin {NoMailbox, grantCall[x].mailbox}
           => d.op = "connect" /\ d.mailbox = grantCall[x].mailbox /\ d.at \in Late,
         ~(grantCall[x].op = "connect" /\ grantCall[x].at \in Early \cup {"gmail"}),
         d.op = "enable" /\ d.at = "commit" => d.mailbox = RowBox,
         d.op = "enable" => d.revision <= sending.revision,
         \/ creds' = NoMailbox
         \/ grantCall[x].op = "disconnect" /\ grantCall[x].at \in {"other", "drop"} /\ Gone
             => d.op = "disconnect" /\ d.at \in {"other", "drop"},
         d.op = "disconnect" /\ d.at # "mark"
           => grantCall[x].op = "disconnect" /\ grantCall[x].at # "mark" /\ d.of = grantCall[x].of
  PROVE  GrantInv'
<1> USE DEF GrantInv, Becomes, RowBox, GrantAt
<1>2. TurnsOff'
  BY DEF TurnsOff, Connecting
<1>3. NotVoided'
  <2>1. Connecting(RowBox, Early) => Connecting(RowBox, Early)'
    BY DEF Connecting
  <2> QED
    BY <2>1 DEF NotVoided
<1>4. OldRevisions'
  BY DEF OldRevisions
<1>5. TokensGo'
  BY DEF TokensGo, Gone
<1>6. OwnRowIsOff'
  BY DEF OwnRowIsOff, On
<1> QED
  BY <1>2, <1>3, <1>4, <1>5, <1>6

(* A row is written by something that is not a disconnect.                  *)
LEMMA RowStep ==
  ASSUME GrantInv, GrantTypeOK', NEW x \in GrantCalls, NEW d, Becomes(x, d), RowMoves,
         creds' = creds, sending' = sending,
         NEW p \in Providers, conn'[p].status # "disconnected", d.op \notin {"enable", "disconnect"},
         \/ /\ RowBox' = RowBox
            /\ grantCall[x].op = "connect" => grantCall[x].at \notin Late
         \/ /\ RowBox' = RowBox
            /\ d.op = "connect" /\ d.mailbox = grantCall[x].mailbox /\ d.at \in Early
         \/ d.op = "connect" /\ d.mailbox = RowBox' /\ d.at \in Early
  PROVE  GrantInv'
<1> USE DEF GrantInv, Becomes, GrantAt
<1>0. Early \subseteq Late
  BY DEF Early, Late
<1>1. ASSUME NEW pcs \in {Early, Late}, RowBox' = RowBox, Connecting(RowBox, pcs)
      PROVE  Connecting(RowBox, pcs)'
  <2>1. PICK y \in GrantCalls : grantCall[y].op = "connect" /\ grantCall[y].mailbox = RowBox /\ grantCall[y].at \in pcs
    BY <1>1 DEF Connecting
  <2>2. CASE y # x
    BY <1>1, <2>1, <2>2 DEF Connecting
  <2>3. CASE y = x
    BY <1>0, <1>1, <2>1, <2>3 DEF Connecting
  <2> QED
    BY <2>2, <2>3
<1>2. TurnsOff'
  <2>1. CASE RowBox' = RowBox
    BY <1>1, <2>1 DEF TurnsOff
  <2>2. CASE d.op = "connect" /\ d.mailbox = RowBox' /\ d.at \in Early
    BY <1>0, <2>2 DEF TurnsOff, Connecting
  <2> QED
    BY <2>1, <2>2
<1>3. NotVoided'
  <2>1. CASE RowBox' = RowBox
    BY <1>1, <2>1 DEF NotVoided
  <2>2. CASE d.op = "connect" /\ d.mailbox = RowBox' /\ d.at \in Early
    <3>1. Connecting(RowBox, Early)'
      BY <2>2 DEF Connecting
    <3> QED
      BY <3>1 DEF NotVoided
  <2> QED
    BY <2>1, <2>2
<1>4. OldRevisions'
  BY DEF OldRevisions
<1>5. TokensGo'
  BY DEF TokensGo, Gone
<1>6. OwnRowIsOff'
  BY DEF OwnRowIsOff, On, RowMoves
<1> QED
  BY <1>2, <1>3, <1>4, <1>5, <1>6

(* The switch moves to the next revision: no test asked for before it can   *)
(* be committed any more.                                                   *)
LEMMA RevisionStep ==
  ASSUME GrantInv, GrantTypeOK', NEW x \in GrantCalls, NEW d, Becomes(x, d),
         creds' = creds, conn' = conn, rowMoved' = rowMoved,
         sending'.revision = sending.revision + 1,
         \/ /\ sending'.mailbox = sending.mailbox
            /\ grantCall[x].op = "connect" /\ grantCall[x].at \in Late
                 => d.op = "connect" /\ d.mailbox = grantCall[x].mailbox /\ d.at \in Late
         \/ GrantAt(x, "enable", "commit") /\ sending'.mailbox = grantCall[x].mailbox
            /\ sending.revision = grantCall[x].revision,
         grantCall[x].at \notin {"gmail", "other", "drop", "mark"},
         d.op = "enable" => d.at # "commit" /\ grantCall[x].op = "enable" /\ d.revision = grantCall[x].revision,
         d.op = "disconnect" => grantCall[x].op = "disconnect" /\ d.of = grantCall[x].of
  PROVE  GrantInv'
<1> USE DEF GrantInv, Becomes, RowBox
<1>0. /\ sending.revision \in Nat /\ \A y \in GrantCalls : grantCall[y].revision \in Nat
      /\ \A a, b \in Nat : a <= b => a <= b + 1 /\ a # b + 1
  BY TypesApart DEF SwitchType, CallsType, GrantCallType
<1>1. \A y \in GrantCalls : grantCall[y].op = "enable" =>
        grantCall[y].revision <= sending.revision + 1 /\ grantCall[y].revision # sending.revision + 1
  BY <1>0 DEF OldRevisions
<1>2. TurnsOff'
  <2>1. CASE sending'.mailbox = sending.mailbox /\ ~GrantAt(x, "enable", "commit")
    BY <2>1 DEF TurnsOff, Connecting
  <2>2. CASE GrantAt(x, "enable", "commit") /\ sending'.mailbox = sending.mailbox
    BY <2>2 DEF TurnsOff, Connecting, GrantAt
  <2>3. CASE GrantAt(x, "enable", "commit") /\ sending'.mailbox = grantCall[x].mailbox
             /\ sending.revision = grantCall[x].revision
    <3> SUFFICES ASSUME RowBox \in SendingBoxes, grantCall[x].mailbox # RowBox PROVE Connecting(RowBox, Late)'
      BY <2>3 DEF TurnsOff
    <3>1. Connecting(RowBox, Early)
      BY <2>3 DEF NotVoided
    <3>2. PICK y \in GrantCalls : grantCall[y].op = "connect" /\ grantCall[y].mailbox = RowBox /\ grantCall[y].at \in Early
      BY <3>1 DEF Connecting
    <3>3. y # x /\ Early \subseteq Late
      BY <2>3, <3>2 DEF GrantAt, Early, Late
    <3> QED
      BY <3>2, <3>3 DEF Connecting
  <2> QED
    BY <2>1, <2>2, <2>3
<1>3. NotVoided'
  BY <1>1 DEF NotVoided, GrantAt
<1>4. OldRevisions'
  BY <1>1 DEF OldRevisions
<1>5. TokensGo'
  BY DEF TokensGo, Gone, GrantAt
<1>6. OwnRowIsOff'
  BY DEF OwnRowIsOff, On
<1> QED
  BY <1>2, <1>3, <1>4, <1>5, <1>6

(* disconnect_provider() writes its row, for the first or the second time.  *)
LEMMA RowGoes ==
  ASSUME GrantInv, GrantTypeOK', NEW x \in GrantCalls, NEW d, Becomes(x, d),
         grantCall[x].op = "disconnect", NEW p \in Providers, p = grantCall[x].of,
         conn' = [conn EXCEPT ![p] = [status |-> "disconnected", mailbox |-> NoMailbox]],
         creds' = creds, sending' = sending, rowMoved' = rowMoved,
         \/ grantCall[x].at = "mark" /\ d.op = "disconnect" /\ d.at = "other" /\ d.of = p
         \/ grantCall[x].at = "again" /\ d.op = "disable"
  PROVE  GrantInv'
<1> USE DEF GrantInv, Becomes, GrantAt
<1>0. conn \in RowsType
  BY TypesApart
<1>1. /\ conn'[p].status = "disconnected" /\ \A q \in Providers \ {p} : conn'[q] = conn[q]
      /\ RowBox' = RowBox \/ RowBox' = NoMailbox
  BY <1>0 DEF RowsType, RowBox, Providers
<1>2. TurnsOff'
  BY <1>1, RestIsACall DEF TurnsOff, Connecting
<1>3. NotVoided'
  <2>1. Connecting(RowBox, Early) /\ RowBox' = RowBox => Connecting(RowBox, Early)'
    BY DEF Connecting
  <2> QED
    BY <1>1, <2>1, RestIsACall DEF NotVoided
<1>4. OldRevisions'
  BY DEF OldRevisions
<1>5. TokensGo'
  <2> SUFFICES ASSUME Gone', ~rowMoved, creds # NoMailbox
               PROVE  \E y \in GrantCalls : (GrantAt(y, "connect", "gmail") \/ GrantAt(y, "disconnect", "other")
                                               \/ GrantAt(y, "disconnect", "drop"))'
    BY DEF TokensGo
  <2>1. CASE grantCall[x].at = "mark"
    BY <2>1
  <2>2. CASE grantCall[x].at = "again"
    <3>1. conn[p].status = "disconnected"
      BY <2>2 DEF OwnRowIsOff, On
    <3>2. Gone
      BY <1>1, <3>1 DEF Gone
    <3> QED
      BY <2>2, <3>2 DEF TokensGo
  <2> QED
    BY <2>1, <2>2
<1>6. OwnRowIsOff'
  <2>1. \A y \in GrantCalls : grantCall[y].of \in Providers
    BY TypesApart DEF CallsType, GrantCallType
  <2> QED
    BY <1>1, <2>1 DEF OwnRowIsOff, On
<1> QED
  BY <1>2, <1>3, <1>4, <1>5, <1>6

(* The switch is turned off.                                                *)
LEMMA SwitchOff ==
  ASSUME GrantInv, GrantTypeOK', NEW x \in GrantCalls, NEW d, Becomes(x, d), grantCall[x].at = "clear",
         creds' = creds, conn' = conn, rowMoved' = rowMoved,
         sending'.mailbox = NoMailbox, sending'.revision = sending.revision,
         d.op # "enable", d.op = "disconnect" => grantCall[x].op = "disconnect" /\ d.of = grantCall[x].of
  PROVE  GrantInv'
<1> USE DEF GrantInv, Becomes, RowBox, GrantAt
<1>2. TurnsOff'
  BY DEF TurnsOff
<1>3. NotVoided'
  <2>1. Connecting(RowBox, Early) => Connecting(RowBox, Early)'
    BY DEF Connecting, Early
  <2> QED
    BY <2>1 DEF NotVoided
<1>4. OldRevisions'
  BY DEF OldRevisions
<1>5. TokensGo'
  BY DEF TokensGo, Gone
<1>6. OwnRowIsOff'
  BY DEF OwnRowIsOff, On
<1> QED
  BY <1>2, <1>3, <1>4, <1>5, <1>6

-----------------------------------------------------------------------------
LEMMA OldOnes ==
  ASSUME GrantInv
  PROVE  \A x \in GrantCalls : grantCall[x].op = "enable" => grantCall[x].revision <= sending.revision
BY DEF GrantInv, OldRevisions

LEMMA NewTokens ==
  ASSUME GrantInv, GrantTypeOK', NEW x \in GrantCalls, Exchange(x)
  PROVE  GrantInv'
<1>0. PICK m \in Mailboxes : creds' = m /\ grantCall' = [grantCall EXCEPT ![x].at = "gmail", ![x].mailbox = m]
  BY DEF Exchange
<1>1. /\ Becomes(x, grantCall'[x]) /\ grantCall'[x].at = "gmail" /\ grantCall'[x].op = "connect"
      /\ grantCall[x].op = "connect" /\ grantCall[x].at = "exchange"
      /\ conn' = conn /\ sending' = sending /\ rowMoved' = rowMoved
  BY <1>0, Becoming DEF GrantInv, Exchange, GrantAt
<1> USE <1>1 DEF GrantInv, Becomes, RowBox, GrantAt
<1>2. TurnsOff'
  BY DEF TurnsOff, Connecting, Late
<1>3. NotVoided'
  <2>1. Connecting(RowBox, Early) => Connecting(RowBox, Early)'
    BY DEF Connecting, Early
  <2> QED
    BY <2>1 DEF NotVoided
<1>4. OldRevisions'
  BY DEF OldRevisions
<1>5. TokensGo'
  BY DEF TokensGo
<1>6. OwnRowIsOff'
  BY DEF OwnRowIsOff, On
<1> QED
  BY <1>2, <1>3, <1>4, <1>5, <1>6

LEMMA ConnectKeeps ==
  ASSUME GrantInv, GrantTypeOK', NEW x \in GrantCalls, Connect(x)
  PROVE  GrantInv'
<1> DEFINE d == grantCall'[x]
<1>0. /\ GrantTypeOK /\ conn \in RowsType /\ creds' = creds /\ sending' = sending /\ grantCall[x].op = "connect"
      /\ "gmail" \in Providers /\ "calendar" \in Providers /\ "connect" \notin {"enable", "disconnect"}
      /\ "other" # "disconnected" /\ "active" # "disconnected"
  BY TypesApart DEF GrantInv, Connect, GrantAt, Providers
<1>1. ASSUME NEW p \in {"gmail", "calendar"}, SetRow(p, "other"), RowMoves, GrantAt(x, "connect", "mark") \/ GrantAt(x, "connect", "markNext")
               \/ GrantAt(x, "connect", "fail") \/ GrantAt(x, "connect", "failNext"),
             CallGoes(x, "markNext") \/ CallGoes(x, "exchange") \/ CallGoes(x, "failNext") \/ CallEnds(x)
      PROVE  GrantInv'
  <2>1. p \in Providers /\ conn'[p].status # "disconnected" /\ RowBox' = RowBox
    BY <1>0, <1>1 DEF SetRow, RowBox, RowsType, ConnType, Providers
  <2>2. Becomes(x, d) /\ d.op \notin {"enable", "disconnect"} /\ grantCall[x].at \notin Late
    BY <1>0, <1>1, Becoming DEF GrantAt, Late
  <2> HIDE DEF d
  <2> QED
    BY <1>0, <1>1, <2>1, <2>2, RowStep
<1>2. CASE GrantAt(x, "connect", "exchange") /\ (CallGoes(x, "fail") \/ CallEnds(x)) /\ UNCHANGED <<conn, rowMoved>>
  <2>1. /\ Becomes(x, d) /\ d.op \in {"connect", "disable"} /\ grantCall[x].at \notin Late
        /\ grantCall[x].at \notin Early \cup {"gmail"}
    BY <1>0, <1>2, Becoming DEF GrantAt, Late, Early
  <2> HIDE DEF d
  <2> QED
    BY <1>0, <1>2, <2>1, Walks
<1>3. CASE /\ GrantAt(x, "connect", "gmail")
           /\ conn' = [conn EXCEPT !["gmail"] = [status |-> "active", mailbox |-> grantCall[x].mailbox]]
           /\ CallGoes(x, "calendar") /\ RowMoves
  <2>1. conn'["gmail"].status # "disconnected" /\ RowBox' = grantCall[x].mailbox
    BY <1>0, <1>3 DEF RowBox, RowsType
  <2>2. Becomes(x, d) /\ d.op = "connect" /\ d.at \in Early /\ d.mailbox = grantCall[x].mailbox
    BY <1>0, <1>3, Becoming DEF Early
  <2> HIDE DEF d
  <2> QED
    BY <1>0, <1>3, <2>1, <2>2, RowStep
<1>4. CASE /\ GrantAt(x, "connect", "calendar")
           /\ conn' = [conn EXCEPT !["calendar"] = [status |-> "active", mailbox |-> grantCall[x].mailbox]]
           /\ CallGoes(x, "void") /\ RowMoves
  <2>1. conn'["calendar"].status # "disconnected" /\ RowBox' = RowBox
    BY <1>0, <1>4 DEF RowBox, RowsType
  <2>2. Becomes(x, d) /\ d.op = "connect" /\ d.at \in Early /\ d.mailbox = grantCall[x].mailbox
    BY <1>0, <1>4, Becoming DEF Early
  <2> HIDE DEF d
  <2> QED
    BY <1>0, <1>4, <2>1, <2>2, RowStep
<1> QED
  BY <1>1, <1>2, <1>3, <1>4 DEF Connect

LEMMA DisconnectKeeps ==
  ASSUME GrantInv, GrantTypeOK', NEW x \in GrantCalls, Disconnect(x)
  PROVE  GrantInv'
<1> DEFINE d == grantCall'[x]
<1>0. /\ GrantTypeOK /\ sending' = sending /\ rowMoved' = rowMoved /\ grantCall[x].op = "disconnect"
      /\ On(x) \in Providers
  BY TypesApart, CallWrites DEF GrantInv, Disconnect, GrantAt
<1>1. CASE /\ grantCall[x].at \in {"mark", "again"}
           /\ conn' = [conn EXCEPT ![On(x)] = [status |-> "disconnected", mailbox |-> NoMailbox]]
           /\ IF grantCall[x].at = "mark" THEN CallGoes(x, "other") ELSE CallEnds(x)
           /\ UNCHANGED creds
  <2>1. /\ Becomes(x, d)
        /\ \/ grantCall[x].at = "mark" /\ d.op = "disconnect" /\ d.at = "other" /\ d.of = On(x)
           \/ grantCall[x].at = "again" /\ d.op = "disable"
    BY <1>0, <1>1, Becoming DEF On
  <2>2. On(x) = grantCall[x].of
    BY DEF On
  <2> HIDE DEF d
  <2> QED
    BY <1>0, <1>1, <2>1, <2>2, RowGoes
<1>2. CASE /\ GrantAt(x, "disconnect", "other") /\ CallGoes(x, IF DropsGrant(On(x)) THEN "drop" ELSE "after")
           /\ UNCHANGED <<conn, creds>>
  <2>1. Gone => DropsGrant(On(x))
    BY <1>0 DEF Gone, DropsGrant, OtherProvider, Providers
  <2>2. /\ Becomes(x, d) /\ d.op = "disconnect" /\ d.of = grantCall[x].of
        /\ Gone => d.at \in {"other", "drop"}
    BY <1>0, <1>2, <2>1, Becoming
  <2> HIDE DEF d
  <2> QED
    BY <1>0, <1>2, <2>2, Walks DEF GrantAt
<1>3. CASE GrantAt(x, "disconnect", "drop") /\ creds' = NoMailbox /\ CallGoes(x, "after") /\ UNCHANGED conn
  <2>1. Becomes(x, d) /\ d.op = "disconnect" /\ d.of = grantCall[x].of
    BY <1>0, <1>3, Becoming
  <2> HIDE DEF d
  <2> QED
    BY <1>0, <1>3, <2>1, Walks DEF GrantAt
<1>4. CASE /\ GrantAt(x, "disconnect", "after") /\ CallGoes(x, IF On(x) = "gmail" THEN "off" ELSE "again")
           /\ UNCHANGED <<conn, creds>>
  <2>1. Becomes(x, d) /\ d.op = "disconnect" /\ d.of = grantCall[x].of
    BY <1>0, <1>4, Becoming
  <2> HIDE DEF d
  <2> QED
    BY <1>0, <1>4, <2>1, Walks DEF GrantAt
<1> QED
  BY <1>1, <1>2, <1>3, <1>4 DEF Disconnect

LEMMA SyncKeeps ==
  ASSUME GrantInv, GrantTypeOK', NEW x \in GrantCalls, Sync(x)
  PROVE  GrantInv'
<1> DEFINE d == grantCall'[x]
<1>0. /\ GrantTypeOK /\ conn \in RowsType /\ sending' = sending /\ grantCall[x].op = "sync" /\ On(x) \in Providers
  BY TypesApart, CallWrites DEF GrantInv, Sync, GrantAt
<1>1. ASSUME NEW s \in {"active", "other"}, SetRow(On(x), s), RowMoves, creds' = creds,
             CallGoes(x, "token") \/ CallEnds(x)
      PROVE  GrantInv'
  <2>1. conn'[On(x)].status # "disconnected" /\ RowBox' = RowBox
    BY <1>0, <1>1 DEF SetRow, RowBox, RowsType, ConnType
  <2>2. Becomes(x, d) /\ d.op \notin {"enable", "disconnect"}
    BY <1>0, <1>1, Becoming
  <2>3. PICK p \in Providers : p = On(x)
    BY <1>0
  <2> HIDE DEF d
  <2>4. conn'[p].status # "disconnected"
    BY <2>1, <2>3
  <2> QED
    BY <1>0, <1>1, <2>1, <2>2, <2>4, RowStep
<1>2. ASSUME conn' = conn, rowMoved' = rowMoved, creds = NoMailbox => creds' = NoMailbox,
             Becomes(x, d), d.op = "sync"
      PROVE  GrantInv'
  <2> HIDE DEF d
  <2> QED
    BY <1>0, <1>2, Walks
<1>3. ASSUME CallGoes(x, "finish") \/ \E m : grantCall' = [grantCall EXCEPT ![x].at = "refresh", ![x].mailbox = m]
      PROVE  Becomes(x, d) /\ d.op = "sync"
  BY <1>0, <1>3, Becoming
<1> QED
  BY <1>1, <1>2, <1>3 DEF Sync

LEMMA EnableKeeps ==
  ASSUME GrantInv, GrantTypeOK', NEW x \in GrantCalls, Enable(x)
  PROVE  GrantInv'
<1> DEFINE d == grantCall'[x]
<1>0. /\ GrantTypeOK /\ grantCall[x].op = "enable" /\ grantCall[x].revision <= sending.revision
      /\ creds' = creds /\ conn' = conn /\ sending' = sending /\ rowMoved' = rowMoved
  BY OldOnes DEF GrantInv, Enable, GrantAt
<1> DEFINE Steps == /\ Becomes(x, d) /\ d.op \in {"enable", "disable"}
                    /\ d.op = "enable" => d.revision = grantCall[x].revision
                    /\ d.at = "commit" => d.mailbox = RowBox
<1>1. Steps
  <2>1. CallGoes(x, "check") => Steps
    BY <1>0, Becoming
  <2>2. SendsAs(grantCall[x].mailbox) /\ CallGoes(x, "commit") => Steps
    BY <1>0, Becoming DEF SendsAs, RowBox
  <2>3. grantCall' = [grantCall EXCEPT ![x].at = "answer", ![x].mailbox = conn["gmail"].mailbox] => Steps
    <3>1. ASSUME NEW m, grantCall' = [grantCall EXCEPT ![x].at = "answer", ![x].mailbox = m] PROVE Steps
      <4>1. Becomes(x, d) /\ d.op = "enable" /\ d.revision = grantCall[x].revision /\ d.at = "answer"
        BY <1>0, <3>1, Becoming
      <4> HIDE DEF d
      <4> QED
        BY <4>1
    <3> HIDE DEF Steps, d
    <3>2. PICK m : m = conn["gmail"].mailbox
      OBVIOUS
    <3>3. grantCall' = [grantCall EXCEPT ![x].at = "answer", ![x].mailbox = m] => Steps
      BY <3>1, Zenon
    <3> QED
      BY <3>2, <3>3, Zenon
  <2>4. CallEnds(x) => Steps
    BY <1>0, Becoming
  <2> DEFINE Answer == grantCall' = [grantCall EXCEPT ![x].at = "answer", ![x].mailbox = conn["gmail"].mailbox]
  <2>5. \/ CallGoes(x, "check") \/ Answer \/ CallEnds(x)
        \/ SendsAs(grantCall[x].mailbox) /\ CallGoes(x, "commit")
    <3>1. CASE SendsAs(conn["gmail"].mailbox)
      BY <3>1, Zenon DEF Enable
    <3>2. CASE ~SendsAs(conn["gmail"].mailbox)
      BY <3>2, Zenon DEF Enable
    <3> QED
      BY <3>1, <3>2
  <2>6. Answer => Steps
    BY <2>3
  <2> HIDE DEF d, Steps, Answer
  <2> QED
    BY <2>1, <2>2, <2>4, <2>5, <2>6
<1> HIDE DEF d
<1> QED
  BY <1>0, <1>1, Walks

LEMMA CommitKeeps ==
  ASSUME GrantInv, GrantTypeOK', NEW x \in GrantCalls, CommitSending(x)
  PROVE  GrantInv'
<1> DEFINE d == grantCall'[x]
<1>0. /\ GrantTypeOK /\ GrantAt(x, "enable", "commit")
      /\ creds' = creds /\ conn' = conn /\ rowMoved' = rowMoved
      /\ Becomes(x, d) /\ d.op = "disable" /\ d.at = "idle"
  BY Becoming DEF GrantInv, CommitSending
<1> HIDE DEF d
<1>1. CASE CommitIfUnmoved(x)
  <2>1. /\ sending'.mailbox = grantCall[x].mailbox /\ sending'.revision = sending.revision + 1
        /\ sending.revision = grantCall[x].revision
    BY <1>1 DEF CommitSending, CommitIfUnmoved
  <2> QED
    BY <1>0, <2>1, RevisionStep DEF GrantAt
<1>2. CASE ~CommitIfUnmoved(x)
  <2>1. sending' = sending
    BY <1>2 DEF CommitSending
  <2> QED
    BY <1>0, <2>1, Walks DEF GrantAt
<1> QED
  BY <1>1, <1>2

LEMMA SwitchKeeps ==
  ASSUME GrantInv, GrantTypeOK', NEW x \in GrantCalls, VoidTests(x) \/ LookAtCertificate(x) \/ TurnOff(x)
  PROVE  GrantInv'
<1> DEFINE d == grantCall'[x]
<1>0. /\ GrantTypeOK /\ creds' = creds /\ conn' = conn /\ rowMoved' = rowMoved
      /\ sending \in SwitchType
  BY TypesApart DEF GrantInv, VoidTests, LookAtCertificate, TurnOff
<1>1. CASE VoidTests(x)
  <2>1. /\ Becomes(x, d) /\ d.op = grantCall[x].op /\ d.of = grantCall[x].of /\ d.mailbox = grantCall[x].mailbox
        /\ d.revision = grantCall[x].revision /\ d.at \in {"look", "list"} /\ grantCall[x].at \in {"void", "off"}
    BY <1>0, <1>1, Becoming DEF VoidTests
  <2>2. sending'.revision = sending.revision + 1 /\ sending'.mailbox = sending.mailbox
    BY <1>0, <1>1 DEF VoidTests, SwitchType
  <2> HIDE DEF d
  <2> QED
    BY <1>0, <2>1, <2>2, RevisionStep DEF Late
<1>2. CASE LookAtCertificate(x)
  <2>1. /\ Becomes(x, d) /\ grantCall[x].op = "connect" /\ grantCall[x].at = "look" /\ sending' = sending
        /\ d.op \in {"connect", "disable"}
        /\ sending.mailbox \notin {NoMailbox, grantCall[x].mailbox}
             => d.op = "connect" /\ d.mailbox = grantCall[x].mailbox /\ d.at = "off"
    BY <1>0, <1>2, Becoming DEF LookAtCertificate, GrantAt, MustTurnOff
  <2> HIDE DEF d
  <2> QED
    BY <1>0, <2>1, Walks DEF Late, Early
<1>3. ASSUME IF grantCall[x].op = "disconnect" THEN CallGoes(x, "again") ELSE CallEnds(x)
      PROVE  /\ Becomes(x, d) /\ d.op \in {"disconnect", "disable"}
             /\ d.op = "disconnect" => grantCall[x].op = "disconnect" /\ d.of = grantCall[x].of
  BY <1>0, <1>3, Becoming
<1>4. CASE TurnOff(x) /\ grantCall[x].at = "list" /\ sending.mailbox # NoMailbox
  <2>1. CallGoes(x, "clear") /\ sending' = sending
    BY <1>4 DEF TurnOff
  <2>2. /\ Becomes(x, d) /\ d.at = "clear" /\ d.op = grantCall[x].op /\ d.of = grantCall[x].of
        /\ d.mailbox = grantCall[x].mailbox /\ d.revision = grantCall[x].revision
    BY <1>0, <2>1, Becoming
  <2> HIDE DEF d
  <2> QED
    BY <1>0, <1>4, <2>1, <2>2, OldOnes, Walks DEF Late, Early
<1>5. CASE TurnOff(x) /\ grantCall[x].at = "list" /\ sending.mailbox = NoMailbox
  <2>1. /\ IF grantCall[x].op = "disconnect" THEN CallGoes(x, "again") ELSE CallEnds(x)
        /\ sending' = sending
    BY <1>5 DEF TurnOff
  <2> HIDE DEF d
  <2> QED
    BY <1>0, <1>3, <1>5, <2>1, Walks DEF Early
<1>6. CASE TurnOff(x) /\ grantCall[x].at = "clear"
  <2>1. /\ IF grantCall[x].op = "disconnect" THEN CallGoes(x, "again") ELSE CallEnds(x)
        /\ sending'.mailbox = NoMailbox /\ sending'.revision = sending.revision
    BY <1>0, <1>6 DEF TurnOff, SwitchType
  <2> HIDE DEF d
  <2> QED
    BY <1>0, <1>3, <1>6, <2>1, SwitchOff
<1> QED
  BY <1>1, <1>2, <1>4, <1>5, <1>6 DEF TurnOff

LEMMA BeginKeeps ==
  ASSUME GrantInv, GrantTypeOK', NEW x \in GrantCalls, BeginGrantCall(x)
  PROVE  GrantInv'
<1> DEFINE d == grantCall'[x]
<1>0. /\ GrantTypeOK /\ grantCall[x] = GrantAtRest /\ creds' = creds /\ conn' = conn /\ sending' = sending
      /\ rowMoved' = rowMoved /\ sending \in SwitchType /\ grantCall \in CallsType
  BY TypesApart DEF GrantInv, BeginGrantCall
<1>1. PICK op \in GrantOps, p \in Providers :
        grantCall' = [grantCall EXCEPT ![x] =
          [GrantAtRest EXCEPT !.op = op, !.of = p, !.revision = IF op = "enable" THEN sending.revision ELSE 0,
                         !.at = CASE op = "enable" -> "test" [] op = "disable" -> "off" [] OTHER -> "mark"]]
  BY DEF BeginGrantCall
<1>2. /\ d.op = op
      /\ op = "enable" => d.revision = sending.revision /\ d.at = "test"
      /\ op = "disconnect" => d.at = "mark"
      /\ Becomes(x, d)
  BY <1>0, <1>1 DEF CallsType, GrantAtRest, Becomes
<1>3. sending.revision <= sending.revision
  BY <1>0 DEF SwitchType
<1> HIDE DEF d
<1> QED
  BY <1>0, <1>2, <1>3, RestIsACall, Walks

(* What sends was tested, and the grant goes with the last disconnect, for  *)
(* any number of mailboxes and requests.                                    *)
THEOREM GrantIsTested == GrantSpec => []GrantHolds
<1>1. GrantInit => GrantInv
  <2> SUFFICES ASSUME GrantInit PROVE GrantInv
    OBVIOUS
  <2>0. GrantTypeOK
    <3>1. conn \in RowsType /\ creds \in MaybeMailbox /\ rowMoved \in BOOLEAN
      BY RestIsACall DEF GrantInit, RowsType, ConnType
    <3>2. sending \in SwitchType /\ grantCall \in CallsType
      BY RestIsACall DEF GrantInit, SwitchType, CallsType
    <3>3. begun \in 0..MaxGrantCalls
      BY GrantAssumption DEF GrantInit, GrantAssumption
    <3> QED
      BY <3>1, <3>2, <3>3, TypesApart
  <2>1. /\ sending.mailbox = NoMailbox /\ creds = NoMailbox
        /\ \A x \in GrantCalls : grantCall[x].op = "disable"
    BY RestIsACall DEF GrantInit
  <2> QED
    BY <2>0, <2>1 DEF GrantInv, TurnsOff, NotVoided, OldRevisions, TokensGo, OwnRowIsOff, GrantAt
<1>2. GrantInv /\ [GrantNext]_grantVars => GrantInv'
  <2> SUFFICES ASSUME GrantInv, [GrantNext]_grantVars PROVE GrantInv'
    OBVIOUS
  <2>1. CASE UNCHANGED grantVars
    BY <2>1 DEF grantVars, GrantInv, GrantTypeOK, TurnsOff, NotVoided, OldRevisions, TokensGo, OwnRowIsOff, Gone,
                RowBox, Connecting, GrantAt, On
  <2>2. CASE GrantNext
    <3>1. GrantTypeOK'
      BY <2>2, GrantTypes DEF GrantInv
    <3> QED
      BY <2>2, <3>1, BeginKeeps, ConnectKeeps, NewTokens, SwitchKeeps, DisconnectKeeps, SyncKeeps, EnableKeeps,
         CommitKeeps DEF GrantNext
  <2> QED
    BY <2>1, <2>2
<1>3. GrantInv => GrantHolds
  <2> SUFFICES ASSUME GrantInv PROVE GrantHolds
    OBVIOUS
  <2>1. \A x \in GrantCalls, pcs \in {Late, Early} : grantCall[x].at \in pcs => grantCall[x] # GrantAtRest
    BY RestIsACall DEF Late, Early
  <2>2. SendingWasTested
    BY <2>1 DEF SendingWasTested, GrantInv, TurnsOff, Connecting, NoneOf, SendsAs, RowBox
  <2>3. GrantGoesWithTheLast
    BY RestIsACall DEF GrantGoesWithTheLast, GrantInv, TokensGo, Gone, NoneOf, GrantAt
  <2> QED
    BY <2>2, <2>3 DEF GrantHolds, GrantInv
<1> QED
  BY <1>1, <1>2, <1>3, PTL DEF GrantSpec

-----------------------------------------------------------------------------
(***************************************************************************)
(* Payments of any number of events, deliveries and admins.  A delivery     *)
(* that still holds its row finds it processing, so only one closes it; a  *)
(* closed row is never opened again, and who closed it records once.       *)
(***************************************************************************)
InvoiceType == [bound : BOOLEAN, pay : {"none", "open"} \cup PayKinds, paid : BOOLEAN]
EventRowType == [status : {"none", "processing", "failed", "completed"},
                 token : Deliveries \cup {"none"}, live : BOOLEAN]
PayerType == {NoPayer} \cup [at : {"call"}, paid : BOOLEAN]
                       \cup [at : {"write"}, paid : BOOLEAN, said : {"open", "paid", "failed"}]

HolderFindsItProcessing ==
  \A d \in Deliveries : webhook[d].at \in {"read", "write", "complete", "raise"} /\ HoldsClaim(d)
    => stripeRow[webhook[d].of].status = "processing"
ClosedThenRecorded ==
  /\ \A e \in PayEvents : recorded[e] \in {0, 1} /\ (recorded[e] = 1 => stripeRow[e].status = "completed")
  /\ \A d \in Deliveries : Webhook(d, "record") =>
       /\ stripeRow[webhook[d].of].status = "completed" /\ recorded[webhook[d].of] = 0
       /\ \A c \in Deliveries : Webhook(c, "record") /\ webhook[c].of = webhook[d].of => c = d

PayInv == PaymentTypeOK /\ HolderFindsItProcessing /\ ClosedThenRecorded

-----------------------------------------------------------------------------
LEMMA PayTypesApart ==
  /\ PaymentTypeOK <=> /\ invoice \in InvoiceType /\ charged \in BOOLEAN /\ kind \in [PayEvents -> PayKinds]
                       /\ stripeRow \in [PayEvents -> EventRowType] /\ webhook \in [Deliveries -> WebhookType]
                       /\ payer \in [Payers -> PayerType] /\ claims \in 0..MaxClaims
                       /\ recorded \in [PayEvents -> Nat]
  /\ PaymentTypeOK' <=> /\ invoice' \in InvoiceType /\ charged' \in BOOLEAN /\ kind' \in [PayEvents -> PayKinds]
                        /\ stripeRow' \in [PayEvents -> EventRowType] /\ webhook' \in [Deliveries -> WebhookType]
                        /\ payer' \in [Payers -> PayerType] /\ claims' \in 0..MaxClaims
                        /\ recorded' \in [PayEvents -> Nat]
BY DEF PaymentTypeOK, InvoiceType, EventRowType, PayerType, WebhookType, PayKinds

(* A request in hand has an event, and goes on as another one in hand.      *)
LEMMA InHandOfEvent ==
  ASSUME NEW w \in WebhookType, w.at # "idle"
  PROVE  /\ w.of \in PayEvents /\ w.handled \in BOOLEAN
         /\ \A pc \in {"read", "write", "complete", "record", "raise"} : [w EXCEPT !.at = pc] \in WebhookType
         /\ \A pc \in {"read", "write", "complete", "record", "raise"}, h \in BOOLEAN :
              [w EXCEPT !.at = pc, !.handled = h] \in WebhookType
         /\ \A pc : [w EXCEPT !.at = pc].at = pc /\ [w EXCEPT !.at = pc].of = w.of
         /\ \A pc, h : [w EXCEPT !.at = pc, !.handled = h].at = pc /\ [w EXCEPT !.at = pc, !.handled = h].of = w.of
<1> DEFINE InHandType == [at : {"read", "write", "complete", "record", "raise"}, of : PayEvents, handled : BOOLEAN]
<1>1. w \in InHandType /\ InHandType \subseteq WebhookType
  BY DEF WebhookType, NoWebhook
<1>2. w.of \in PayEvents /\ w.handled \in BOOLEAN
  BY <1>1
<1>3. ASSUME NEW pc \in {"read", "write", "complete", "record", "raise"} PROVE [w EXCEPT !.at = pc] \in WebhookType
  <2>1. [w EXCEPT !.at = pc] \in InHandType
    BY <1>1
  <2> HIDE DEF InHandType
  <2> QED
    BY <1>1, <2>1
<1>4. ASSUME NEW pc \in {"read", "write", "complete", "record", "raise"}, NEW h \in BOOLEAN
      PROVE  [w EXCEPT !.at = pc, !.handled = h] \in WebhookType
  <2>1. [w EXCEPT !.at = pc, !.handled = h] \in InHandType
    BY <1>1
  <2> HIDE DEF InHandType
  <2> QED
    BY <1>1, <2>1
<1>5. DOMAIN w = {"at", "of", "handled"} /\ w = [f \in {"at", "of", "handled"} |-> w[f]]
  BY <1>1
<1> HIDE DEF InHandType
<1>6. ASSUME NEW pc PROVE [w EXCEPT !.at = pc].at = pc /\ [w EXCEPT !.at = pc].of = w.of
  BY <1>5
<1>7. ASSUME NEW pc, NEW h
      PROVE  [w EXCEPT !.at = pc, !.handled = h].at = pc /\ [w EXCEPT !.at = pc, !.handled = h].of = w.of
  BY <1>5
<1> QED
  BY <1>2, <1>3, <1>4, <1>6, <1>7, Zenon

(* What a step makes of the request d, that the others stay and where the   *)
(* requests in hand have their events.                                      *)
Turns(d, w) == w = webhook'[d] /\ \A c \in Deliveries \ {d} : webhook'[c] = webhook[c]

LEMMA WebhookSteps ==
  ASSUME webhook \in [Deliveries -> WebhookType], NEW d \in Deliveries
  PROVE  /\ webhook' = [webhook EXCEPT ![d] = NoWebhook]
              => webhook' \in [Deliveries -> WebhookType] /\ Turns(d, webhook'[d]) /\ webhook'[d].at = "idle"
         /\ webhook[d].at # "idle" =>
              /\ webhook[d].of \in PayEvents
              /\ \A pc \in {"read", "write", "complete", "record", "raise"} : WebhookGoes(d, pc) =>
                   /\ webhook' \in [Deliveries -> WebhookType] /\ Turns(d, webhook'[d])
                   /\ webhook'[d].at = pc /\ webhook'[d].of = webhook[d].of
<1>1. NoWebhook \in WebhookType /\ NoWebhook.at = "idle"
  BY DEF WebhookType, NoWebhook
<1>2. CASE webhook' = [webhook EXCEPT ![d] = NoWebhook]
  BY <1>1, <1>2 DEF Turns, WebhookGoes, WebhookType
<1>3. ASSUME webhook[d].at # "idle", NEW pc \in {"read", "write", "complete", "record", "raise"}, WebhookGoes(d, pc)
      PROVE  /\ webhook' \in [Deliveries -> WebhookType] /\ Turns(d, webhook'[d])
             /\ webhook'[d].at = pc /\ webhook'[d].of = webhook[d].of
  <2>1. webhook[d] \in WebhookType
    OBVIOUS
  <2>2. PICK w : w = [webhook[d] EXCEPT !.at = pc]
    OBVIOUS
  <2>3. w \in WebhookType /\ w.at = pc /\ w.of = webhook[d].of
    BY <1>3, <2>1, <2>2, InHandOfEvent
  <2>4. webhook' = [webhook EXCEPT ![d] = w]
    BY <1>3, <2>2 DEF WebhookGoes
  <2> QED
    BY <2>3, <2>4 DEF Turns
<1>4. webhook[d].at # "idle" => webhook[d].of \in PayEvents
  BY InHandOfEvent
<1>5. webhook' = [webhook EXCEPT ![d] = NoWebhook]
        => webhook' \in [Deliveries -> WebhookType] /\ Turns(d, webhook'[d]) /\ webhook'[d].at = "idle"
  BY <1>1 DEF Turns
<1> QED
  BY <1>3, <1>4, <1>5

(* The row of one event is written.                                         *)
LEMMA EventRows ==
  ASSUME stripeRow \in [PayEvents -> EventRowType], NEW e \in PayEvents, NEW r \in EventRowType,
         stripeRow' = [stripeRow EXCEPT ![e] = r]
  PROVE  /\ stripeRow' \in [PayEvents -> EventRowType] /\ stripeRow'[e] = r
         /\ \A f \in PayEvents \ {e} : stripeRow'[f] = stripeRow[f]
OBVIOUS

(* A step of a request that neither closes a row nor records anything.      *)
LEMMA OnTheWay ==
  ASSUME PayInv, PaymentTypeOK', NEW d \in Deliveries, NEW w, Turns(d, w),
         stripeRow' = stripeRow, recorded' = recorded,
         w.at # "idle" => w.of = webhook[d].of /\ webhook[d].at \in {"read", "write", "complete", "raise"}
                          /\ w.at \in {"read", "write", "complete", "raise"}
  PROVE  PayInv'
<1>1. HolderFindsItProcessing'
  BY DEF PayInv, HolderFindsItProcessing, HoldsClaim, Turns
<1>2. ClosedThenRecorded'
  BY DEF PayInv, ClosedThenRecorded, Webhook, Turns
<1> QED
  BY <1>1, <1>2 DEF PayInv

(* A step that writes no row of an event and records nothing.               *)
LEMMA OthersWork ==
  ASSUME PayInv, PaymentTypeOK', stripeRow' = stripeRow, webhook' = webhook, recorded' = recorded
  PROVE  PayInv'
BY DEF PayInv, HolderFindsItProcessing, ClosedThenRecorded, HoldsClaim, Webhook

LEMMA InvoiceWrites ==
  ASSUME invoice \in InvoiceType
  PROVE  /\ [invoice EXCEPT !.pay = "failed"] \in InvoiceType
         /\ \A p \in {"open", "paid"}, b \in BOOLEAN : [bound |-> TRUE, pay |-> p, paid |-> b] \in InvoiceType
         /\ \A k \in PayKinds : [invoice EXCEPT !.pay = k, !.paid = @ \/ k = "paid"] \in InvoiceType
         /\ invoice.paid \in BOOLEAN
BY DEF InvoiceType, PayKinds

LEMMA AdminsStep ==
  ASSUME PayInv, NEW p \in Payers, ReadInvoice(p) \/ CreateIntent(p) \/ WriteAnswer(p)
  PROVE  PayInv'
<1>0. /\ invoice \in InvoiceType /\ charged \in BOOLEAN /\ payer \in [Payers -> PayerType]
      /\ stripeRow' = stripeRow /\ webhook' = webhook /\ recorded' = recorded /\ kind' = kind /\ claims' = claims
  BY PayTypesApart DEF PayInv, ReadInvoice, CreateIntent, WriteAnswer
<1>1. NoPayer \in PayerType /\ NoPayer.at = "idle"
  BY DEF NoPayer, PayerType
<1>2. CASE ReadInvoice(p)
  <2>1. [at |-> "call", paid |-> invoice.paid] \in PayerType
    BY <1>0, InvoiceWrites DEF PayerType
  <2>2. payer' \in [Payers -> PayerType] /\ invoice' = invoice /\ charged' = charged
    BY <1>0, <1>2, <2>1 DEF ReadInvoice
  <2> QED
    BY <1>0, <2>2, PayTypesApart, OthersWork DEF PayInv
<1>3. CASE CreateIntent(p)
  <2>1. PICK said \in {"open", "paid", "failed"} :
          /\ payer' = [payer EXCEPT ![p] = [at |-> "write", paid |-> @.paid, said |-> said]]
          /\ charged' = (charged \/ said = "paid")
    BY <1>3 DEF CreateIntent
  <2>2. payer[p].paid \in BOOLEAN
    BY <1>0, <1>3 DEF CreateIntent, PayerType, NoPayer
  <2>3. [at |-> "write", paid |-> payer[p].paid, said |-> said] \in PayerType
    BY <2>2 DEF PayerType
  <2>4. payer' \in [Payers -> PayerType] /\ invoice' = invoice
    BY <1>0, <1>3, <2>1, <2>3 DEF CreateIntent
  <2>5. charged' \in BOOLEAN
    BY <1>0, <2>1
  <2> QED
    BY <1>0, <2>4, <2>5, PayTypesApart, OthersWork DEF PayInv
<1>4. CASE WriteAnswer(p)
  <2>1. payer[p].paid \in BOOLEAN /\ payer[p].said \in {"open", "paid", "failed"}
    BY <1>0, <1>4 DEF WriteAnswer, PayerType, NoPayer
  <2>2. payer' \in [Payers -> PayerType] /\ charged' = charged
    BY <1>0, <1>1, <1>4 DEF WriteAnswer
  <2>3. invoice' \in InvoiceType
    <3>1. CASE payer[p].said = "failed"
      BY <1>0, <1>4, <3>1, InvoiceWrites DEF WriteAnswer
    <3>2. CASE payer[p].said # "failed"
      <4>1. PICK b \in BOOLEAN : b = (payer[p].paid \/ payer[p].said = "paid")
        OBVIOUS
      <4>2. PICK said \in {"open", "paid"} : said = payer[p].said
        BY <2>1, <3>2
      <4>3. invoice' = [bound |-> TRUE, pay |-> said, paid |-> b]
        BY <1>4, <3>2, <4>1, <4>2 DEF WriteAnswer
      <4> QED
        BY <1>0, <4>3, InvoiceWrites
    <3> QED
      BY <3>1, <3>2
  <2> QED
    BY <1>0, <2>2, <2>3, PayTypesApart, OthersWork DEF PayInv
<1> QED
  BY <1>2, <1>3, <1>4

LEMMA DeliveryStep ==
  ASSUME PayInv, NEW d \in Deliveries, ReadBound(d) \/ ApplyEvent(d) \/ WebhookRaises(d) \/ WebhookDies(d)
  PROVE  PayInv'
<1>0. /\ invoice \in InvoiceType /\ kind \in [PayEvents -> PayKinds] /\ webhook \in [Deliveries -> WebhookType]
      /\ stripeRow' = stripeRow /\ recorded' = recorded /\ kind' = kind /\ claims' = claims
      /\ payer' = payer /\ charged' = charged /\ PaymentTypeOK
  BY PayTypesApart DEF PayInv, ReadBound, ApplyEvent, WebhookRaises, WebhookDies
<1>1. ASSUME NEW pc \in {"raise", "write", "complete"}, WebhookGoes(d, pc), invoice' = invoice,
             webhook[d].at \in {"read", "write", "complete"}
      PROVE  PayInv'
  <2>1. /\ webhook' \in [Deliveries -> WebhookType] /\ Turns(d, webhook'[d])
        /\ webhook'[d].at = pc /\ webhook'[d].of = webhook[d].of
    BY <1>0, <1>1, WebhookSteps
  <2>2. PaymentTypeOK'
    BY <1>0, <1>1, <2>1, PayTypesApart
  <2>3. PICK w : w = webhook'[d]
    OBVIOUS
  <2> QED
    BY <1>0, <1>1, <2>1, <2>2, <2>3, OnTheWay
<1>2. CASE ReadBound(d)
  BY <1>1, <1>2 DEF ReadBound, Webhook
<1>3. CASE WebhookRaises(d)
  BY <1>1, <1>3 DEF WebhookRaises
<1>4. CASE WebhookDies(d)
  <2>1. webhook' \in [Deliveries -> WebhookType] /\ Turns(d, webhook'[d]) /\ webhook'[d].at = "idle" /\ invoice' = invoice
    BY <1>0, <1>4, WebhookSteps DEF WebhookDies
  <2>2. PaymentTypeOK'
    BY <1>0, <2>1, PayTypesApart
  <2>3. PICK w : w = webhook'[d]
    OBVIOUS
  <2> QED
    BY <1>0, <2>1, <2>2, <2>3, OnTheWay
<1>5. CASE ApplyEvent(d)
  <2>1. /\ webhook[d].at = "write" /\ webhook[d] \in WebhookType
        /\ webhook[d].of \in PayEvents
    BY <1>0, <1>5, WebhookSteps DEF ApplyEvent, Webhook
  <2>2. PICK h \in BOOLEAN : h = Filter(d)
    BY DEF Filter
  <2>3. PICK w : w = [webhook[d] EXCEPT !.at = "complete", !.handled = h]
    OBVIOUS
  <2>4. w \in WebhookType /\ w.at = "complete" /\ w.of = webhook[d].of
    BY <2>1, <2>3, InHandOfEvent
  <2>5. webhook' = [webhook EXCEPT ![d] = w]
    BY <1>5, <2>2, <2>3 DEF ApplyEvent
  <2>6. webhook' \in [Deliveries -> WebhookType] /\ Turns(d, w)
    BY <1>0, <2>4, <2>5 DEF Turns
  <2>7. invoice' \in InvoiceType
    <3>1. kind[webhook[d].of] \in PayKinds
      BY <1>0, <2>1
    <3>2. CASE Filter(d)
      BY <1>0, <1>5, <3>1, <3>2, InvoiceWrites DEF ApplyEvent
    <3>3. CASE ~Filter(d)
      BY <1>0, <1>5, <3>3 DEF ApplyEvent
    <3> QED
      BY <3>2, <3>3
  <2>8. PaymentTypeOK'
    BY <1>0, <2>6, <2>7, PayTypesApart
  <2> QED
    BY <1>0, <2>1, <2>4, <2>6, <2>8, OnTheWay
<1> QED
  BY <1>2, <1>3, <1>4, <1>5

LEMMA LeaseStep ==
  ASSUME PayInv, NEW e \in PayEvents, LeaseOver(e)
  PROVE  PayInv'
<1>a. /\ webhook \in [Deliveries -> WebhookType] /\ stripeRow \in [PayEvents -> EventRowType]
      /\ kind' = kind /\ payer' = payer /\ charged' = charged /\ invoice' = invoice /\ PaymentTypeOK
  BY PayTypesApart DEF PayInv, LeaseOver
<1>b. \A c \in Deliveries : webhook[c].at # "idle" => webhook[c].of \in PayEvents
  BY <1>a, WebhookSteps
<1> USE DEF HoldsClaim, Webhook
<1>1. PICK r : r = [stripeRow[e] EXCEPT !.live = FALSE]
  OBVIOUS
<1>2. r \in EventRowType /\ r.status = stripeRow[e].status /\ r.token = stripeRow[e].token
  BY <1>a, <1>1 DEF EventRowType
<1>3. stripeRow' = [stripeRow EXCEPT ![e] = r] /\ webhook' = webhook /\ recorded' = recorded /\ claims' = claims
  BY <1>1 DEF LeaseOver
<1>4. /\ stripeRow' \in [PayEvents -> EventRowType]
      /\ \A f \in PayEvents : stripeRow'[f].status = stripeRow[f].status /\ stripeRow'[f].token = stripeRow[f].token
  BY <1>a, <1>2, <1>3, EventRows
<1>5. PaymentTypeOK'
  BY <1>a, <1>3, <1>4, PayTypesApart
<1>6. HolderFindsItProcessing' /\ ClosedThenRecorded'
  BY <1>b, <1>3, <1>4 DEF PayInv, HolderFindsItProcessing, ClosedThenRecorded
<1> QED
  BY <1>5, <1>6 DEF PayInv

LEMMA RowsStep ==
  ASSUME PayInv, NEW d \in Deliveries, NEW e \in PayEvents,
         ClaimEvent(d, e) \/ CompleteEvent(d) \/ RaiseEvent(d) \/ RecordPayment(d)
  PROVE  PayInv'
<1>0. /\ webhook \in [Deliveries -> WebhookType] /\ stripeRow \in [PayEvents -> EventRowType]
      /\ recorded \in [PayEvents -> Nat] /\ claims \in 0..MaxClaims
      /\ kind' = kind /\ payer' = payer /\ charged' = charged /\ invoice' = invoice /\ PaymentTypeOK
  BY PayTypesApart DEF PayInv, ClaimEvent, CompleteEvent, RaiseEvent, RecordPayment
<1>1. NoWebhook.at = "idle" /\ NoWebhook \in WebhookType
  BY DEF NoWebhook, WebhookType
<1>2. \A c \in Deliveries : webhook[c].at # "idle" => webhook[c].of \in PayEvents
  BY <1>0, WebhookSteps
<1> USE DEF HoldsClaim, Webhook
<1>3. CASE ClaimEvent(d, e)
  <2>1. PICK r, w : /\ r = [status |-> "processing", token |-> d, live |-> TRUE]
                    /\ w = [at |-> "read", of |-> e, handled |-> FALSE]
    OBVIOUS
  <2>2. /\ r \in EventRowType /\ r.status = "processing" /\ r.token = d
        /\ w \in WebhookType /\ w.at = "read" /\ w.of = e
    BY <2>1 DEF EventRowType, WebhookType
  <2>3. /\ stripeRow' = [stripeRow EXCEPT ![e] = r] /\ webhook' = [webhook EXCEPT ![d] = w]
        /\ claims' = claims + 1 /\ claims < MaxClaims /\ recorded' = recorded /\ webhook[d] = NoWebhook
        /\ stripeRow[e].status # "completed"
    BY <1>3, <2>1 DEF ClaimEvent, Claimable
  <2>4. /\ stripeRow' \in [PayEvents -> EventRowType] /\ stripeRow'[e] = r
        /\ \A f \in PayEvents \ {e} : stripeRow'[f] = stripeRow[f]
        /\ webhook' \in [Deliveries -> WebhookType] /\ Turns(d, w)
    BY <1>0, <2>2, <2>3, EventRows DEF Turns
  <2>5. PaymentTypeOK'
    <3>1. claims' \in 0..MaxClaims
      BY <1>0, <2>3, PaymentAssumption DEF PaymentAssumption
    <3> QED
      BY <1>0, <2>3, <2>4, <3>1, PayTypesApart
  <2>6. HolderFindsItProcessing'
    BY <1>2, <2>2, <2>4 DEF PayInv, HolderFindsItProcessing, Turns
  <2>7. ClosedThenRecorded'
    BY <1>2, <2>2, <2>3, <2>4 DEF PayInv, ClosedThenRecorded, Turns
  <2> QED
    BY <2>5, <2>6, <2>7 DEF PayInv
<1>4. CASE CompleteEvent(d) /\ HoldsClaim(d)
  <2>0. webhook[d].at = "complete" /\ webhook[d] \in WebhookType
    BY <1>0, <1>4 DEF CompleteEvent
  <2>1. PICK f \in PayEvents : f = webhook[d].of
    BY <1>2, <2>0
  <2>2. stripeRow[f].status = "processing" /\ stripeRow[f].token = d
    BY <1>4, <2>0, <2>1 DEF PayInv, HolderFindsItProcessing
  <2>3. PICK r : r = [stripeRow[f] EXCEPT !.status = "completed", !.live = FALSE]
    OBVIOUS
  <2>4. r \in EventRowType /\ r.status = "completed" /\ r.token = stripeRow[f].token
    BY <1>0, <2>3 DEF EventRowType
  <2>5. stripeRow' = [stripeRow EXCEPT ![f] = r] /\ recorded' = recorded /\ claims' = claims
    BY <1>4, <2>1, <2>3 DEF CompleteEvent
  <2>6. /\ webhook' \in [Deliveries -> WebhookType] /\ Turns(d, webhook'[d])
        /\ webhook'[d].at = "idle" \/ (webhook'[d].at = "record" /\ webhook'[d].of = f)
    <3>1. PICK w : w = [webhook[d] EXCEPT !.at = "record"]
      OBVIOUS
    <3>2. w \in WebhookType /\ w.at = "record" /\ w.of = f
      BY <2>0, <2>1, <3>1, InHandOfEvent
    <3>3. webhook' = [webhook EXCEPT ![d] = w] \/ webhook' = [webhook EXCEPT ![d] = NoWebhook]
      <4>1. webhook' = [webhook EXCEPT ![d] = IF webhook[d].handled THEN [webhook[d] EXCEPT !.at = "record"] ELSE NoWebhook]
        BY <1>4, Zenon DEF CompleteEvent
      <4>2. (IF webhook[d].handled THEN [webhook[d] EXCEPT !.at = "record"] ELSE NoWebhook) \in {w, NoWebhook}
        BY <3>1, Zenon
      <4> QED
        BY <4>1, <4>2, Zenon
    <3>4. CASE webhook' = [webhook EXCEPT ![d] = w]
      BY <1>0, <3>2, <3>4 DEF Turns
    <3>5. CASE webhook' = [webhook EXCEPT ![d] = NoWebhook]
      BY <1>0, <3>5, WebhookSteps
    <3> QED
      BY <3>3, <3>4, <3>5
  <2>7. /\ stripeRow' \in [PayEvents -> EventRowType] /\ stripeRow'[f] = r
        /\ \A g \in PayEvents \ {f} : stripeRow'[g] = stripeRow[g]
    BY <1>0, <2>4, <2>5, EventRows
  <2>8. PaymentTypeOK'
    BY <1>0, <2>5, <2>6, <2>7, PayTypesApart
  <2>9. HolderFindsItProcessing'
    BY <1>2, <2>1, <2>2, <2>4, <2>6, <2>7 DEF PayInv, HolderFindsItProcessing, Turns
  <2>10. ClosedThenRecorded'
    BY <1>2, <2>1, <2>2, <2>4, <2>5, <2>6, <2>7 DEF PayInv, ClosedThenRecorded, Turns
  <2> QED
    BY <2>8, <2>9, <2>10 DEF PayInv
<1>5. CASE CompleteEvent(d) /\ ~HoldsClaim(d)
  <2>1. /\ webhook[d].at = "complete" /\ WebhookGoes(d, "raise") /\ stripeRow' = stripeRow /\ recorded' = recorded
        /\ claims' = claims
    BY <1>5 DEF CompleteEvent
  <2>2. /\ webhook' \in [Deliveries -> WebhookType] /\ Turns(d, webhook'[d])
        /\ webhook'[d].at = "raise" /\ webhook'[d].of = webhook[d].of
    BY <1>0, <2>1, WebhookSteps
  <2>3. PaymentTypeOK'
    BY <1>0, <2>1, <2>2, PayTypesApart
  <2>4. PICK w : w = webhook'[d]
    OBVIOUS
  <2> QED
    BY <1>0, <2>1, <2>2, <2>3, <2>4, OnTheWay
<1>6. CASE RaiseEvent(d)
  <2>0. /\ webhook[d].at = "raise" /\ webhook' = [webhook EXCEPT ![d] = NoWebhook] /\ recorded' = recorded
        /\ claims' = claims
    BY <1>6 DEF RaiseEvent
  <2>1. PICK f \in PayEvents : f = webhook[d].of
    BY <1>2, <2>0
  <2>2. webhook' \in [Deliveries -> WebhookType] /\ Turns(d, webhook'[d]) /\ webhook'[d].at = "idle"
    BY <1>0, <2>0, WebhookSteps
  <2>3. /\ stripeRow' \in [PayEvents -> EventRowType]
        /\ \A g \in PayEvents : stripeRow'[g].token = stripeRow[g].token
        /\ \A g \in PayEvents : stripeRow'[g] = stripeRow[g] \/ (g = f /\ stripeRow[f].token = d)
    <3>1. CASE stripeRow[f].token # d
      <4>1. stripeRow' = stripeRow
        <5>1. stripeRow[webhook[d].of].token # d
          BY <2>1, <3>1
        <5> QED
          BY <1>6, <5>1, Zenon DEF RaiseEvent
      <4> QED
        BY <1>0, <4>1
    <3>2. CASE stripeRow[f].token = d
      <4>1. PICK r : r = [stripeRow[f] EXCEPT !.status = "failed", !.live = FALSE]
        OBVIOUS
      <4>2. r \in EventRowType /\ r.token = d
        BY <1>0, <3>2, <4>1 DEF EventRowType
      <4>3. stripeRow' = [stripeRow EXCEPT ![f] = r]
        BY <1>0, <1>6, <2>1, <3>2, <4>1 DEF RaiseEvent
      <4> QED
        BY <1>0, <3>2, <4>2, <4>3, EventRows
    <3> QED
      BY <3>1, <3>2
  <2>4. stripeRow[f].token = d => stripeRow[f].status = "processing"
    BY <2>0, <2>1 DEF PayInv, HolderFindsItProcessing
  <2>5. PaymentTypeOK'
    BY <1>0, <2>0, <2>2, <2>3, PayTypesApart
  <2>6. HolderFindsItProcessing'
    BY <1>2, <2>2, <2>3 DEF PayInv, HolderFindsItProcessing, Turns
  <2>7. ClosedThenRecorded'
    BY <1>2, <2>0, <2>2, <2>3, <2>4 DEF PayInv, ClosedThenRecorded, Turns
  <2> QED
    BY <2>5, <2>6, <2>7 DEF PayInv
<1>7. CASE RecordPayment(d)
  <2>0. /\ webhook[d].at = "record" /\ webhook' = [webhook EXCEPT ![d] = NoWebhook] /\ stripeRow' = stripeRow
        /\ claims' = claims
    BY <1>7 DEF RecordPayment
  <2>1. PICK f \in PayEvents : f = webhook[d].of
    BY <1>2, <2>0
  <2>2. webhook' \in [Deliveries -> WebhookType] /\ Turns(d, webhook'[d]) /\ webhook'[d].at = "idle"
    BY <1>0, <2>0, WebhookSteps
  <2>3. /\ recorded[f] = 0 /\ stripeRow[f].status = "completed"
        /\ \A c \in Deliveries : webhook[c].at = "record" /\ webhook[c].of = f => c = d
    BY <2>0, <2>1 DEF PayInv, ClosedThenRecorded
  <2>4. recorded' = [recorded EXCEPT ![f] = 1]
    BY <1>0, <1>7, <2>1, <2>3 DEF RecordPayment
  <2>5. PaymentTypeOK'
    BY <1>0, <2>0, <2>2, <2>4, PayTypesApart
  <2>6. HolderFindsItProcessing'
    BY <2>0, <2>2 DEF PayInv, HolderFindsItProcessing, Turns
  <2>7. ClosedThenRecorded'
    BY <1>0, <1>2, <2>0, <2>2, <2>3, <2>4 DEF PayInv, ClosedThenRecorded, Turns
  <2> QED
    BY <2>5, <2>6, <2>7 DEF PayInv
<1> QED
  BY <1>3, <1>4, <1>5, <1>6, <1>7

(* An event is recorded once, and events take back no payment, for any      *)
(* number of events, deliveries and admins.                                 *)
THEOREM PaidOnceOnly == PaymentSpec => PaymentsHold
<1>1. PaymentInit => PayInv
  <2> SUFFICES ASSUME PaymentInit PROVE PayInv
    OBVIOUS
  <2>1. /\ invoice \in InvoiceType /\ charged \in BOOLEAN /\ kind \in [PayEvents -> PayKinds]
        /\ stripeRow \in [PayEvents -> EventRowType] /\ recorded \in [PayEvents -> Nat]
    BY DEF PaymentInit, InvoiceType, EventRowType
  <2>2. webhook \in [Deliveries -> WebhookType] /\ payer \in [Payers -> PayerType]
    BY DEF PaymentInit, WebhookType, PayerType
  <2>3. claims \in 0..MaxClaims
    BY PaymentAssumption DEF PaymentInit, PaymentAssumption
  <2>4. (\A d \in Deliveries : webhook[d].at = "idle") /\ (\A e \in PayEvents : recorded[e] = 0)
    BY DEF PaymentInit, NoWebhook
  <2> QED
    BY <2>1, <2>2, <2>3, <2>4, PayTypesApart DEF PayInv, HolderFindsItProcessing, ClosedThenRecorded, Webhook
<1>2. PayInv /\ [PaymentNext]_payVars => PayInv'
  <2> SUFFICES ASSUME PayInv, [PaymentNext]_payVars PROVE PayInv'
    OBVIOUS
  <2>1. CASE UNCHANGED payVars
    BY <2>1, PayTypesApart, OthersWork DEF payVars, PayInv
  <2>2. CASE Charge
    BY <2>2, PayTypesApart, OthersWork DEF Charge, PayInv
  <2>3. CASE PaymentNext /\ ~Charge
    <3>1. ASSUME NEW d \in Deliveries, CompleteEvent(d) \/ RecordPayment(d) \/ RaiseEvent(d)
          PROVE  PayInv'
      <4>1. webhook[d].of \in PayEvents
        BY <3>1, WebhookSteps, PayTypesApart DEF PayInv, CompleteEvent, RecordPayment, RaiseEvent, Webhook
      <4> QED
        BY <3>1, <4>1, RowsStep
    <3> QED
      BY <2>3, <3>1, LeaseStep, AdminsStep, DeliveryStep, RowsStep DEF PaymentNext
  <2> QED
    BY <2>1, <2>2, <2>3
<1>3. PayInv => PaymentTypeOK /\ RecordedOnce
  BY DEF PayInv, ClosedThenRecorded, RecordedOnce
<1>4. PayInv /\ [PaymentNext]_payVars
        => [(invoice.paid \/ invoice.pay = "paid") /\ payer' = payer
              => /\ invoice.pay = "paid" => invoice'.pay = "paid"
                 /\ invoice.paid => invoice'.paid]_payVars
  <2> SUFFICES ASSUME PayInv, PaymentNext, invoice.paid \/ invoice.pay = "paid", payer' = payer
               PROVE  /\ invoice.pay = "paid" => invoice'.pay = "paid"
                      /\ invoice.paid => invoice'.paid
    BY DEF payVars
  <2>0. invoice \in InvoiceType /\ payer \in [Payers -> PayerType]
    BY PayTypesApart DEF PayInv
  <2>1. ASSUME NEW p \in Payers, WriteAnswer(p) PROVE FALSE
    BY <2>0, <2>1 DEF WriteAnswer, NoPayer
  <2>2. ASSUME NEW d \in Deliveries, ApplyEvent(d)
        PROVE  /\ invoice.pay = "paid" => invoice'.pay = "paid"
               /\ invoice.paid => invoice'.paid
    BY <2>0, <2>2 DEF ApplyEvent, Filter, InvoiceType
  <2>3. CASE invoice' = invoice
    BY <2>3
  <2> QED
    BY <2>1, <2>2, <2>3 DEF PaymentNext, Charge, ReadInvoice, CreateIntent, LeaseOver, ClaimEvent, ReadBound,
       CompleteEvent, RecordPayment, RaiseEvent, WebhookRaises, WebhookDies
<1> QED
  BY <1>1, <1>2, <1>3, <1>4, PTL DEF PaymentSpec, PaymentsHold, EventsNeverDowngrade

-----------------------------------------------------------------------------
(***************************************************************************)
(* One appointment and any number of calls about it.  Only the call that    *)
(* placed the booking ever makes the task, so a cancellation that saw a     *)
(* task knows that it is the last one; and it is not over until it has      *)
(* cancelled it.                                                           *)
(***************************************************************************)
ToMakeTask == {"token", "task"}
ToCancelTask == {"reread", "supersede", "mail", "untask"}

CallerOK(x) ==
  /\ caller[x].pc = "claim" => hour >= caller[x].start - ReminderLead
  /\ caller[x].pc = "move" => caller[x].start \in Starts
  /\ caller[x].pc = "cancel" => caller[x].kind = "cancelled"
  /\ caller[x].seen.task => booking.task # "none"
  /\ caller[x].pc \in ToMakeTask =>
       booking.task = "none" /\ \A y \in Callers : caller[y].pc \in ToMakeTask => y = x

TaskIsSeenTo ==
  booking.status = "cancelled" /\ ~hurried =>
    /\ \A x \in Callers : caller[x].pc \notin ToMakeTask
    /\ deaths = 0 /\ booking.task = "todo" =>
         \E x \in Callers : caller[x].kind = "cancelled" /\ caller[x].seen.task /\ caller[x].pc \in ToCancelTask

AppInv == AppointmentTypeOK /\ (\A x \in Callers : CallerOK(x)) /\ ClaimedIsDue /\ TaskIsSeenTo

-----------------------------------------------------------------------------
MailType == [Emails -> EmailStates]
SeenType == [task : BOOLEAN, messages : [Mailed -> Starts \cup {0}]]

LEMMA AppTypesApart ==
  /\ AppointmentTypeOK <=> /\ hour \in 0..LastHour /\ booking \in BookingType /\ email \in MailType
                           /\ caller \in [Callers -> CallerType] /\ deaths \in 0..MaxDeaths /\ hurried \in BOOLEAN
  /\ AppointmentTypeOK' <=> /\ hour' \in 0..LastHour /\ booking' \in BookingType /\ email' \in MailType
                            /\ caller' \in [Callers -> CallerType] /\ deaths' \in 0..MaxDeaths /\ hurried' \in BOOLEAN
BY DEF AppointmentTypeOK, MailType

LEMMA AppFacts ==
  /\ LastHour \in Nat /\ MaxDeaths \in Nat /\ ReminderLead \in Nat /\ \A s \in Starts : s \in Nat /\ s # 0
  /\ Free \in CallerType /\ Free.pc = "idle" /\ ~Free.seen.task
  /\ Nothing \in SeenType
  /\ Stages = {"idle", "token", "task", "move", "cancel", "reread", "supersede", "mail", "untask",
               "outcome", "claim", "send", "refuse"}
BY AppointmentAssumption DEF AppointmentAssumption, Free, CallerType, Nothing, SeenType, Stages, Kinds

(* What a step makes of the call x; the others stay.                        *)
Leads(x, c) == c = caller'[x] /\ \A y \in Callers \ {x} : caller'[y] = caller[y]

LEMMA CallerWrites ==
  ASSUME caller \in [Callers -> CallerType], NEW x \in Callers
  PROVE  /\ \A to \in Stages : caller' = [caller EXCEPT ![x].pc = to] =>
              /\ caller' \in [Callers -> CallerType] /\ Leads(x, caller'[x]) /\ caller'[x].pc = to
              /\ caller'[x].kind = caller[x].kind /\ caller'[x].start = caller[x].start
              /\ caller'[x].seen = caller[x].seen
         /\ \A to \in Stages, s \in Starts : caller' = [caller EXCEPT ![x].pc = to, ![x].start = s] =>
              /\ caller' \in [Callers -> CallerType] /\ Leads(x, caller'[x]) /\ caller'[x].pc = to
              /\ caller'[x].kind = caller[x].kind /\ caller'[x].seen = caller[x].seen
         /\ Leave(x) => /\ caller' \in [Callers -> CallerType] /\ Leads(x, caller'[x]) /\ caller'[x] = Free
         /\ caller[x].kind \in Kinds /\ caller[x].start \in Starts \cup {0} /\ caller[x].seen.task \in BOOLEAN
         /\ caller[x].seen \in SeenType
<1>1. ASSUME NEW to \in Stages, caller' = [caller EXCEPT ![x].pc = to]
      PROVE  /\ caller' \in [Callers -> CallerType] /\ Leads(x, caller'[x]) /\ caller'[x].pc = to
             /\ caller'[x].kind = caller[x].kind /\ caller'[x].start = caller[x].start
             /\ caller'[x].seen = caller[x].seen
  BY <1>1 DEF CallerType, Leads
<1>2. ASSUME NEW to \in Stages, NEW s \in Starts, caller' = [caller EXCEPT ![x].pc = to, ![x].start = s]
      PROVE  /\ caller' \in [Callers -> CallerType] /\ Leads(x, caller'[x]) /\ caller'[x].pc = to
             /\ caller'[x].kind = caller[x].kind /\ caller'[x].seen = caller[x].seen
  BY <1>2 DEF CallerType, Leads
<1>3. Leave(x) => caller' \in [Callers -> CallerType] /\ Leads(x, caller'[x]) /\ caller'[x] = Free
  BY AppFacts DEF Leave, Leads
<1>4. /\ caller[x].kind \in Kinds /\ caller[x].start \in Starts \cup {0} /\ caller[x].seen.task \in BOOLEAN
      /\ caller[x].seen \in SeenType
  BY DEF CallerType, SeenType
<1> QED
  BY <1>1, <1>2, <1>3, <1>4

LEMMA Entering ==
  ASSUME AppointmentTypeOK, NEW x \in Callers, NEW pc \in Stages, NEW k \in Kinds, NEW s \in Starts \cup {0},
         Enter(x, pc, k, s)
  PROVE  /\ AppointmentTypeOK' /\ Leads(x, caller'[x]) /\ caller'[x].pc = pc /\ caller'[x].kind = k
         /\ caller'[x].start = s /\ (caller'[x].seen.task => booking.task # "none")
         /\ caller[x].pc = "idle" /\ hour' = hour /\ booking' = booking /\ deaths' = deaths /\ hurried' = hurried
<1>0. /\ booking \in BookingType /\ caller \in [Callers -> CallerType]
  BY AppTypesApart
<1>1. Seen \in SeenType /\ (Seen.task => booking.task # "none") /\ ~Nothing.task
  BY <1>0 DEF Seen, SeenType, BookingType, Nothing
<1>2. PICK seen : seen = IF pc \in {"move", "cancel"} THEN Seen ELSE Nothing
  OBVIOUS
<1>3. seen \in SeenType /\ (seen.task => booking.task # "none")
  BY <1>1, <1>2, AppFacts
<1>4. PICK c : c = [pc |-> pc, kind |-> k, start |-> s, seen |-> seen]
  OBVIOUS
<1>5. c \in CallerType /\ c.pc = pc /\ c.kind = k /\ c.start = s /\ c.seen = seen
  BY <1>3, <1>4 DEF CallerType, SeenType
<1>6. caller' = [caller EXCEPT ![x] = c] /\ UNCHANGED <<hour, booking, email, deaths, hurried>> /\ caller[x].pc = "idle"
  BY <1>2, <1>4 DEF Enter
<1>7. caller' \in [Callers -> CallerType] /\ Leads(x, c)
  BY <1>0, <1>5, <1>6 DEF Leads
<1> QED
  BY <1>3, <1>5, <1>6, <1>7, AppTypesApart DEF Leads

(* One step of one call.                                                    *)
LEMMA OneCall ==
  ASSUME AppInv, AppointmentTypeOK', NEW x \in Callers, NEW c, Leads(x, c), hour' = hour, ClaimedIsDue',
         c.pc = "claim" => hour >= c.start - ReminderLead,
         c.pc = "move" => c.start \in Starts,
         c.pc = "cancel" => c.kind = "cancelled",
         c.seen.task => booking'.task # "none",
         c.pc \in ToMakeTask => caller[x].pc \in ToMakeTask /\ booking'.task = booking.task,
         \/ booking'.task = booking.task
         \/ booking.task # "none" /\ booking'.task = "cancelled"
         \/ caller[x].pc = "task" /\ booking'.task # "none",
         hurried => hurried',
         booking'.status = "cancelled" =>
           \/ booking.status = "cancelled"
           \/ /\ caller[x].pc = "cancel" /\ c.pc = "reread" /\ c.kind = caller[x].kind /\ c.seen = caller[x].seen
              /\ hurried' \/ caller[x].seen.task,
         deaths' = 0 =>
           /\ deaths = 0
           /\ caller[x].kind = "cancelled" /\ caller[x].seen.task /\ caller[x].pc \in ToCancelTask =>
                \/ c.kind = "cancelled" /\ c.seen.task /\ c.pc \in ToCancelTask
                \/ booking'.task # "todo"
  PROVE  AppInv'
<1>1. ASSUME NEW y \in Callers PROVE CallerOK(y)'
  <2>1. CASE y = x
    BY <2>1 DEF AppInv, CallerOK, Leads, ToMakeTask
  <2>2. CASE y # x
    BY <2>2 DEF AppInv, CallerOK, Leads, ToMakeTask
  <2> QED
    BY <2>1, <2>2
<1>2. TaskIsSeenTo'
  <2> SUFFICES ASSUME booking'.status = "cancelled", ~hurried'
               PROVE  /\ \A y \in Callers : caller'[y].pc \notin ToMakeTask
                      /\ deaths' = 0 /\ booking'.task = "todo" =>
                          \E y \in Callers : /\ caller'[y].kind = "cancelled" /\ caller'[y].seen.task
                                             /\ caller'[y].pc \in ToCancelTask
    BY DEF TaskIsSeenTo
  <2>1. CASE booking.status = "cancelled"
    <3>1. /\ \A y \in Callers : caller[y].pc \notin ToMakeTask
          /\ deaths = 0 /\ booking.task = "todo" =>
              \E y \in Callers : caller[y].kind = "cancelled" /\ caller[y].seen.task /\ caller[y].pc \in ToCancelTask
      BY <2>1 DEF AppInv, TaskIsSeenTo
    <3> QED
      BY <3>1 DEF Leads, ToMakeTask
  <2>2. CASE booking.status # "cancelled"
    <3>1. /\ caller[x].pc = "cancel" /\ c.pc = "reread" /\ c.kind = "cancelled" /\ c.seen.task
          /\ booking.task # "none"
      BY <2>2 DEF AppInv, CallerOK
    <3> QED
      BY <3>1 DEF AppInv, CallerOK, Leads, ToMakeTask, ToCancelTask
  <2> QED
    BY <2>1, <2>2
<1> QED
  BY <1>1, <1>2 DEF AppInv

(* A step of no call.                                                       *)
LEMMA NoCaller ==
  ASSUME AppInv, AppointmentTypeOK', hour' >= hour, booking' = booking, caller' = caller, deaths' = deaths,
         hurried' = hurried
  PROVE  AppInv'
<1>0. /\ hour \in Int /\ hour' \in Int /\ ReminderLead \in Int /\ booking.start \in Int
      /\ \A x \in Callers : caller[x].start \in Int
  BY AppTypesApart, AppFacts DEF AppInv, BookingType, CallerType
<1>1. \A y \in Callers : CallerOK(y)'
  BY <1>0 DEF AppInv, CallerOK
<1>2. ClaimedIsDue' /\ TaskIsSeenTo'
  BY <1>0 DEF AppInv, ClaimedIsDue, TaskIsSeenTo
<1> QED
  BY <1>1, <1>2 DEF AppInv

-----------------------------------------------------------------------------
(* The booking with some of its fields written.                             *)
WithFields(task, status, claimed, start) ==
  /\ booking' \in BookingType /\ booking'.task = task /\ booking'.status = status
  /\ booking'.claimed = claimed /\ booking'.start = start

LEMMA BookingWrites ==
  ASSUME booking \in BookingType
  PROVE  /\ booking' = [booking EXCEPT !.token = TRUE] => WithFields(booking.task, booking.status, booking.claimed, booking.start)
         /\ \A t \in {"none", "todo", "cancelled"} : booking' = [booking EXCEPT !.task = t] => WithFields(t, booking.status, booking.claimed, booking.start)
         /\ \A s \in {"confirmed", "cancelled", "completed", "no_show"} : booking' = [booking EXCEPT !.status = s] => WithFields(booking.task, s, booking.claimed, booking.start)
         /\ booking' = [booking EXCEPT !.claimed = TRUE] => WithFields(booking.task, booking.status, TRUE, booking.start)
         /\ \A s \in Starts : booking' = [booking EXCEPT !.start = s, !.claimed = FALSE] => WithFields(booking.task, booking.status, FALSE, s)
         /\ \A k \in Mailed, s \in Starts \cup {0} : booking' = [booking EXCEPT !.messages[k] = s] => WithFields(booking.task, booking.status, booking.claimed, booking.start)
         /\ booking.start \in Starts /\ booking.claimed \in BOOLEAN
<1>1. booking' = [booking EXCEPT !.token = TRUE] => WithFields(booking.task, booking.status, booking.claimed, booking.start)
  BY DEF BookingType, WithFields
<1>2. \A t \in {"none", "todo", "cancelled"} : booking' = [booking EXCEPT !.task = t] => WithFields(t, booking.status, booking.claimed, booking.start)
  BY DEF BookingType, WithFields
<1>3. \A s \in {"confirmed", "cancelled", "completed", "no_show"} : booking' = [booking EXCEPT !.status = s] => WithFields(booking.task, s, booking.claimed, booking.start)
  BY DEF BookingType, WithFields
<1>4. booking' = [booking EXCEPT !.claimed = TRUE] => WithFields(booking.task, booking.status, TRUE, booking.start)
  BY DEF BookingType, WithFields
<1>5. \A s \in Starts : booking' = [booking EXCEPT !.start = s, !.claimed = FALSE] => WithFields(booking.task, booking.status, FALSE, s)
  BY DEF BookingType, WithFields
<1>6. \A k \in Mailed, s \in Starts \cup {0} : booking' = [booking EXCEPT !.messages[k] = s] => WithFields(booking.task, booking.status, booking.claimed, booking.start)
  BY DEF BookingType, WithFields
<1> QED
  BY <1>1, <1>2, <1>3, <1>4, <1>5, <1>6 DEF BookingType

LEMMA MailWrites ==
  ASSUME email \in MailType
  PROVE  /\ \A e : Draft(e) \in MailType
         /\ \A es : Refused(es) => email' \in MailType
         /\ \A e : [email EXCEPT ![e] = IF @ = "approved" THEN "sent" ELSE @] \in MailType
         /\ \A e : \A s \in EmailStates : [email EXCEPT ![e] = s] \in MailType
BY DEF MailType, Draft, Refused, EmailStates

LEMMA ProceedKeeps ==
  ASSUME AppInv, NEW x \in Callers, Proceed(x) \/ Die(x)
  PROVE  AppInv'
<1> DEFINE c == caller'[x]
<1>0. /\ hour \in 0..LastHour /\ booking \in BookingType /\ email \in MailType
      /\ caller \in [Callers -> CallerType] /\ deaths \in 0..MaxDeaths /\ hurried \in BOOLEAN
      /\ AppointmentTypeOK /\ CallerOK(x) /\ ClaimedIsDue
      /\ Free.pc = "idle" /\ ~Free.seen.task
      /\ Stages = {"idle", "token", "task", "move", "cancel", "reread", "supersede", "mail", "untask",
                    "outcome", "claim", "send", "refuse"}
  BY AppTypesApart, AppFacts DEF AppInv
<1>1. \A to \in Stages : CallerOK(x) => caller[x].pc \in Stages
  BY <1>0 DEF CallerType
<1>2. CASE StoreToken(x)
  <2>1. /\ caller' \in [Callers -> CallerType] /\ Leads(x, c) /\ c.pc = "task" /\ c.kind = caller[x].kind
        /\ c.seen = caller[x].seen /\ caller[x].pc = "token"
    BY <1>0, <1>2, CallerWrites DEF StoreToken, Step
  <2>2. /\ booking' \in BookingType /\ booking'.task = booking.task /\ booking'.status = booking.status
        /\ booking'.claimed = booking.claimed /\ booking'.start = booking.start
    BY <1>0, <1>2, BookingWrites DEF StoreToken, WithFields
  <2>3. hour' = hour /\ email' = email /\ deaths' = deaths /\ hurried' = hurried
    BY <1>2 DEF StoreToken
  <2>4. AppointmentTypeOK' /\ ClaimedIsDue'
    BY <1>0, <2>1, <2>2, <2>3, AppTypesApart DEF ClaimedIsDue
  <2> HIDE DEF c
  <2> QED
    BY <1>0, <2>1, <2>2, <2>3, <2>4, OneCall DEF CallerOK, ToMakeTask, ToCancelTask
<1>3. CASE PrepTask(x)
  <2>1. /\ caller' \in [Callers -> CallerType] /\ Leads(x, c) /\ c.pc = "mail" /\ c.kind = caller[x].kind
        /\ c.seen = caller[x].seen /\ caller[x].pc = "task"
    BY <1>0, <1>3, CallerWrites DEF PrepTask, Step
  <2>2. /\ booking' \in BookingType /\ booking'.task = "todo" /\ booking'.status = booking.status
        /\ booking'.claimed = booking.claimed /\ booking'.start = booking.start
    BY <1>0, <1>3, BookingWrites DEF PrepTask, WithFields
  <2>3. hour' = hour /\ email' = email /\ deaths' = deaths /\ hurried' = hurried
    BY <1>3 DEF PrepTask
  <2>4. AppointmentTypeOK' /\ ClaimedIsDue'
    BY <1>0, <2>1, <2>2, <2>3, AppTypesApart DEF ClaimedIsDue
  <2> HIDE DEF c
  <2> QED
    BY <1>0, <2>1, <2>2, <2>3, <2>4, OneCall DEF CallerOK, ToMakeTask, ToCancelTask
<1>4. ASSUME AfterMail(x), caller[x].pc = "mail", UNCHANGED <<hour, deaths, hurried>>, booking' \in BookingType,
             email' \in MailType, booking'.task = booking.task, booking'.status = booking.status,
             booking'.claimed = booking.claimed, booking'.start = booking.start
      PROVE  AppInv'
  <2>1. /\ caller' \in [Callers -> CallerType] /\ Leads(x, c)
        /\ \/ c = Free /\ caller[x].kind # "cancelled"
           \/ c.pc = "untask" /\ c.kind = caller[x].kind /\ c.seen = caller[x].seen
    <3>1. CASE caller[x].kind = "cancelled"
      BY <1>0, <1>4, <3>1, CallerWrites DEF AfterMail
    <3>2. CASE caller[x].kind # "cancelled"
      BY <1>0, <1>4, <3>2, CallerWrites DEF AfterMail
    <3> QED
      BY <3>1, <3>2
  <2>4. AppointmentTypeOK' /\ ClaimedIsDue'
    BY <1>0, <1>4, <2>1, AppTypesApart DEF ClaimedIsDue
  <2> HIDE DEF c
  <2> QED
    BY <1>0, <1>4, <2>1, <2>4, OneCall DEF CallerOK, ToMakeTask, ToCancelTask
<1>5. CASE QueueMail(x)
  <2>1. PICK k \in Mailed, s \in Starts \cup {0} : k = caller[x].kind /\ s = caller[x].start
    BY <1>0, <1>5, CallerWrites DEF QueueMail
  <2>2. booking' = [booking EXCEPT !.messages[k] = s]
    BY <1>5, <2>1 DEF QueueMail
  <2>3. /\ booking' \in BookingType /\ booking'.task = booking.task /\ booking'.status = booking.status
        /\ booking'.claimed = booking.claimed /\ booking'.start = booking.start
    BY <1>0, <2>2, BookingWrites DEF WithFields
  <2>4. email' \in MailType
    BY <1>0, <1>5, MailWrites DEF QueueMail
  <2> QED
    BY <1>4, <1>5, <2>3, <2>4 DEF QueueMail
<1>6. CASE NoMail(x)
  BY <1>0, <1>4, <1>6 DEF NoMail
<1>7. CASE Supersede(x)
  <2>1. /\ caller' \in [Callers -> CallerType] /\ Leads(x, c) /\ c.pc = "mail" /\ c.kind = caller[x].kind
        /\ c.seen = caller[x].seen /\ caller[x].pc = "supersede"
    BY <1>0, <1>7, CallerWrites DEF Supersede, Step
  <2>3. hour' = hour /\ email' \in MailType /\ deaths' = deaths /\ hurried' = hurried /\ booking' = booking
    BY <1>0, <1>7, MailWrites DEF Supersede
  <2>4. AppointmentTypeOK' /\ ClaimedIsDue'
    BY <1>0, <2>1, <2>3, AppTypesApart DEF ClaimedIsDue
  <2> HIDE DEF c
  <2> QED
    BY <1>0, <2>1, <2>3, <2>4, OneCall DEF CallerOK, ToMakeTask, ToCancelTask
<1>8. ASSUME Leave(x), caller[x].pc \notin ToCancelTask, UNCHANGED <<hour, hurried>>, deaths' \in 0..MaxDeaths,
             deaths' = deaths, booking' \in BookingType, email' \in MailType,
             booking'.task = booking.task, booking'.status = booking.status \/ booking'.status # "cancelled",
             booking'.claimed = booking.claimed, booking'.start = booking.start
      PROVE  AppInv'
  <2>1. caller' \in [Callers -> CallerType] /\ Leads(x, c) /\ c = Free
    BY <1>0, <1>8, CallerWrites
  <2>4. AppointmentTypeOK' /\ ClaimedIsDue'
    BY <1>0, <1>8, <2>1, AppTypesApart DEF ClaimedIsDue
  <2> HIDE DEF c
  <2> QED
    BY <1>0, <1>8, <2>1, <2>4, OneCall DEF CallerOK, ToMakeTask
<1>9. CASE Move(x) /\ Upcoming
  <2>1. /\ caller' \in [Callers -> CallerType] /\ Leads(x, c) /\ c.pc = "reread" /\ c.kind = caller[x].kind
        /\ c.seen = caller[x].seen /\ caller[x].pc = "move" /\ caller[x].start \in Starts
    BY <1>0, <1>9, CallerWrites DEF Move, Step, CallerOK
  <2>2. PICK s \in Starts : s = caller[x].start
    BY <2>1
  <2>3. booking' = [booking EXCEPT !.start = s, !.claimed = FALSE]
    BY <1>9, <2>2 DEF Move, Reminders
  <2>4. /\ booking' \in BookingType /\ booking'.task = booking.task /\ booking'.status = booking.status
        /\ ~booking'.claimed
    BY <1>0, <2>3, BookingWrites DEF WithFields
  <2>5. hour' = hour /\ email' = email /\ deaths' = deaths /\ hurried' = hurried
    BY <1>9 DEF Move
  <2>6. AppointmentTypeOK' /\ ClaimedIsDue'
    BY <1>0, <2>1, <2>4, <2>5, AppTypesApart DEF ClaimedIsDue
  <2> HIDE DEF c
  <2> QED
    BY <1>0, <2>1, <2>4, <2>5, <2>6, OneCall DEF CallerOK, ToMakeTask, ToCancelTask
<1>10. CASE Move(x) /\ ~Upcoming
  BY <1>0, <1>8, <1>10 DEF Move, ToCancelTask
<1>11. CASE ReRead(x)
  <2>1. PICK s \in Starts : s = booking.start
    BY <1>0, BookingWrites
  <2>2. caller' = [caller EXCEPT ![x].pc = "supersede", ![x].start = s]
    BY <1>11, <2>1 DEF ReRead
  <2>3. /\ caller' \in [Callers -> CallerType] /\ Leads(x, c) /\ c.pc = "supersede" /\ c.kind = caller[x].kind
        /\ c.seen = caller[x].seen /\ caller[x].pc = "reread"
    BY <1>0, <1>11, <2>2, CallerWrites DEF ReRead
  <2>4. hour' = hour /\ email' = email /\ deaths' = deaths /\ hurried' = hurried /\ booking' = booking
    BY <1>11 DEF ReRead
  <2>5. AppointmentTypeOK' /\ ClaimedIsDue'
    BY <1>0, <2>3, <2>4, AppTypesApart DEF ClaimedIsDue
  <2> HIDE DEF c
  <2> QED
    BY <1>0, <2>3, <2>4, <2>5, OneCall DEF CallerOK, ToMakeTask, ToCancelTask
<1>12. CASE CancelAppointment(x) /\ Upcoming
  <2>1. /\ caller' \in [Callers -> CallerType] /\ Leads(x, c) /\ c.pc = "reread" /\ c.kind = caller[x].kind
        /\ c.seen = caller[x].seen /\ caller[x].pc = "cancel" /\ caller[x].seen.task \in BOOLEAN
    BY <1>0, <1>12, CallerWrites DEF CancelAppointment, Step
  <2>2. /\ booking' \in BookingType /\ booking'.task = booking.task
        /\ booking'.claimed = booking.claimed /\ booking'.start = booking.start
    BY <1>0, <1>12, BookingWrites DEF CancelAppointment, WithFields
  <2>3. hour' = hour /\ email' = email /\ deaths' = deaths /\ hurried' = (hurried \/ ~caller[x].seen.task)
    BY <1>12 DEF CancelAppointment
  <2>4. hurried' \in BOOLEAN /\ (hurried => hurried') /\ (hurried' \/ caller[x].seen.task)
    BY <1>0, <2>1, <2>3
  <2>5. AppointmentTypeOK' /\ ClaimedIsDue'
    BY <1>0, <2>1, <2>2, <2>3, <2>4, AppTypesApart DEF ClaimedIsDue
  <2> HIDE DEF c
  <2> QED
    BY <1>0, <2>1, <2>2, <2>3, <2>4, <2>5, OneCall DEF CallerOK, ToMakeTask, ToCancelTask
<1>13. CASE CancelAppointment(x) /\ ~Upcoming
  BY <1>0, <1>8, <1>13 DEF CancelAppointment, ToCancelTask
<1>14. CASE CancelTask(x)
  <2>1. caller' \in [Callers -> CallerType] /\ Leads(x, c) /\ c = Free /\ caller[x].pc = "untask"
    BY <1>0, <1>14, CallerWrites DEF CancelTask
  <2>2. PICK t : t = IF caller[x].seen.task THEN "cancelled" ELSE booking.task
    OBVIOUS
  <2>3. t \in {"none", "todo", "cancelled"} /\ booking' = [booking EXCEPT !.task = t]
    BY <1>0, <1>14, <2>2 DEF CancelTask, BookingType
  <2>4. /\ booking' \in BookingType /\ booking'.task = t /\ booking'.status = booking.status
        /\ booking'.claimed = booking.claimed /\ booking'.start = booking.start
    BY <1>0, <2>3, BookingWrites DEF WithFields
  <2>5. hour' = hour /\ email' = email /\ deaths' = deaths /\ hurried' = hurried
    BY <1>14 DEF CancelTask
  <2>6. AppointmentTypeOK' /\ ClaimedIsDue'
    BY <1>0, <2>1, <2>4, <2>5, AppTypesApart DEF ClaimedIsDue
  <2> HIDE DEF c
  <2> QED
    BY <1>0, <2>1, <2>2, <2>4, <2>5, <2>6, OneCall DEF CallerOK, ToMakeTask, ToCancelTask
<1>15. CASE SaveOutcome(x)
  <2>1. PICK s \in {"completed", "no_show"} : booking' = [booking EXCEPT !.status = s]
    BY <1>15 DEF SaveOutcome
  <2>2. /\ booking' \in BookingType /\ booking'.task = booking.task /\ booking'.status # "cancelled"
        /\ booking'.claimed = booking.claimed /\ booking'.start = booking.start
    BY <1>0, <2>1, BookingWrites DEF WithFields
  <2> QED
    BY <1>0, <1>8, <1>15, <2>2 DEF SaveOutcome, ToCancelTask
<1>16. CASE ClaimReminder(x) /\ MayRemind(x)
  <2>1. /\ caller' \in [Callers -> CallerType] /\ Leads(x, c) /\ caller[x].pc = "claim"
        /\ c = Free \/ (c.pc = "mail" /\ c.kind = caller[x].kind /\ c.seen = caller[x].seen)
    BY <1>0, <1>16, CallerWrites DEF ClaimReminder, Step
  <2>2. /\ booking' \in BookingType /\ booking'.task = booking.task /\ booking'.status = booking.status
        /\ booking'.start = caller[x].start
    BY <1>0, <1>16, BookingWrites DEF ClaimReminder, MayRemind, WithFields
  <2>3. hour' = hour /\ email' = email /\ deaths' = deaths /\ hurried' = hurried
    BY <1>16 DEF ClaimReminder
  <2>4. AppointmentTypeOK' /\ ClaimedIsDue'
    BY <1>0, <2>1, <2>2, <2>3, AppTypesApart DEF ClaimedIsDue, CallerOK
  <2> HIDE DEF c
  <2> QED
    BY <1>0, <2>1, <2>2, <2>3, <2>4, OneCall DEF CallerOK, ToMakeTask, ToCancelTask
<1>17. CASE ClaimReminder(x) /\ ~MayRemind(x)
  BY <1>0, <1>8, <1>17 DEF ClaimReminder, ToCancelTask
<1>18. CASE Deliver(x)
  <2>1. email' \in MailType
    BY <1>0, <1>18, MailWrites DEF Deliver
  <2> QED
    BY <1>0, <1>8, <1>18, <2>1 DEF Deliver, ToCancelTask
<1>19. CASE Die(x)
  <2>1. caller' \in [Callers -> CallerType] /\ Leads(x, c) /\ c = Free
    BY <1>0, <1>19, CallerWrites DEF Die
  <2>2. hour' = hour /\ email' = email /\ booking' = booking /\ hurried' = hurried /\ deaths' = deaths + 1
        /\ deaths < MaxDeaths
    BY <1>19 DEF Die
  <2>3. deaths' \in 0..MaxDeaths /\ deaths' # 0
    BY <1>0, <2>2, AppFacts
  <2>4. AppointmentTypeOK' /\ ClaimedIsDue'
    BY <1>0, <2>1, <2>2, <2>3, AppTypesApart DEF ClaimedIsDue
  <2> HIDE DEF c
  <2> QED
    BY <1>0, <2>1, <2>2, <2>3, <2>4, OneCall DEF CallerOK, ToMakeTask
<1> QED
  BY <1>2, <1>3, <1>5, <1>6, <1>7, <1>9, <1>10, <1>11, <1>12, <1>13, <1>14, <1>15, <1>16, <1>17, <1>18, <1>19
     DEF Proceed

LEMMA EntriesKeep ==
  ASSUME AppInv, NEW x \in Callers, NEW pc \in Stages, NEW k \in Kinds, NEW s \in Starts \cup {0},
         Enter(x, pc, k, s),
         pc = "claim" => hour >= s - ReminderLead,
         pc = "move" => s \in Starts,
         pc = "cancel" => k = "cancelled",
         pc \notin ToMakeTask
  PROVE  AppInv'
<1>1. AppointmentTypeOK
  BY DEF AppInv
<1>2. /\ AppointmentTypeOK' /\ Leads(x, caller'[x]) /\ caller'[x].pc = pc /\ caller'[x].kind = k
      /\ caller'[x].start = s /\ (caller'[x].seen.task => booking.task # "none")
      /\ caller[x].pc = "idle" /\ hour' = hour /\ booking' = booking /\ deaths' = deaths /\ hurried' = hurried
  BY <1>1, Entering
<1>3. ClaimedIsDue'
  BY <1>2 DEF AppInv, ClaimedIsDue
<1>4. PICK c : c = caller'[x]
  OBVIOUS
<1> QED
  BY <1>2, <1>3, <1>4, OneCall DEF ToCancelTask

(* A claimed reminder is due, and the task goes with the booking, whatever  *)
(* the times, the emails and the number of calls.                           *)
THEOREM RemindersAndTasks == AppointmentSpec => []AppointmentHolds
<1>1. AppointmentInit => AppInv
  <2> SUFFICES ASSUME AppointmentInit PROVE AppInv
    OBVIOUS
  <2>1. PICK s \in Starts, c \in Callers :
          /\ booking = [Placed EXCEPT !.start = s]
          /\ caller = [x \in Callers |-> IF x = c THEN [Free EXCEPT !.pc = "token", !.start = s] ELSE Free]
    BY DEF AppointmentInit
  <2>2. /\ booking \in BookingType /\ booking.task = "none" /\ ~booking.claimed /\ booking.status = "confirmed"
    BY <2>1 DEF Placed, BookingType
  <2>3. PICK f : f = [Free EXCEPT !.pc = "token", !.start = s]
    OBVIOUS
  <2>4. f \in CallerType /\ f.pc = "token" /\ ~f.seen.task
    BY <2>3, AppFacts DEF Free, Nothing, CallerType, Kinds
  <2>5. caller = [x \in Callers |-> IF x = c THEN f ELSE Free]
    BY <2>1, <2>3
  <2>6. caller \in [Callers -> CallerType]
    BY <2>4, <2>5, AppFacts
  <2>7. /\ hour \in 0..LastHour /\ deaths \in 0..MaxDeaths /\ hurried \in BOOLEAN /\ email \in MailType
    <3>1. email = [e \in Emails |-> "none"] /\ "none" \in EmailStates
      BY DEF AppointmentInit, EmailStates
    <3>2. email \in MailType
      BY <3>1 DEF MailType
    <3>3. hour = 0 /\ deaths = 0 /\ hurried = FALSE
      BY Zenon DEF AppointmentInit
    <3>4. 0 \in 0..LastHour /\ 0 \in 0..MaxDeaths
      BY AppointmentAssumption DEF AppointmentAssumption
    <3> QED
      BY <3>2, <3>3, <3>4
  <2>8. \A x \in Callers : CallerOK(x)
    BY <2>2, <2>4, <2>5, AppFacts DEF CallerOK, ToMakeTask
  <2> QED
    BY <2>2, <2>6, <2>7, <2>8, AppTypesApart DEF AppInv, ClaimedIsDue, TaskIsSeenTo
<1>2. AppInv /\ [AppointmentNext]_appointmentVars => AppInv'
  <2> SUFFICES ASSUME AppInv, [AppointmentNext]_appointmentVars PROVE AppInv'
    OBVIOUS
  <2>0. /\ hour \in 0..LastHour /\ booking \in BookingType /\ email \in MailType
        /\ caller \in [Callers -> CallerType] /\ deaths \in 0..MaxDeaths /\ hurried \in BOOLEAN
        /\ AppointmentTypeOK
    BY AppTypesApart DEF AppInv
  <2>1. CASE UNCHANGED appointmentVars
    <3>1. hour' >= hour /\ AppointmentTypeOK'
      BY <2>0, <2>1, AppTypesApart DEF appointmentVars
    <3> QED
      BY <2>1, <3>1, NoCaller DEF appointmentVars
  <2>2. CASE HourPasses
    <3>1. hour' \in 0..LastHour /\ hour' >= hour
      BY <2>0, <2>2, AppFacts DEF HourPasses
    <3>2. AppointmentTypeOK'
      BY <2>0, <2>2, <3>1, AppTypesApart DEF HourPasses
    <3> QED
      BY <2>2, <3>1, <3>2, NoCaller DEF HourPasses
  <2>3. ASSUME NEW e \in Emails, SendByHand(e) \/ DecideMail(e, "approved") \/ DecideMail(e, "blocked")
        PROVE  AppInv'
    <3>1. /\ email' \in MailType /\ UNCHANGED <<hour, booking, caller, deaths, hurried>> /\ hour' >= hour
      <4>1. PICK v \in {"sent", "approved", "blocked"} : email' = [email EXCEPT ![e] = v]
        BY <2>3 DEF SendByHand, DecideMail
      <4>2. v \in EmailStates
        BY DEF EmailStates
      <4>3. email' \in MailType
        BY <2>0, <4>1, <4>2, MailWrites
      <4>4. UNCHANGED <<hour, booking, caller, deaths, hurried>>
        BY <2>3 DEF SendByHand, DecideMail
      <4>5. hour \in Int
        BY <2>0
      <4> QED
        BY <4>3, <4>4, <4>5
    <3>2. AppointmentTypeOK'
      BY <2>0, <3>1, AppTypesApart
    <3> QED
      BY <3>1, <3>2, NoCaller
  <2>4. ASSUME NEW x \in Callers, Proceed(x) \/ Die(x) PROVE AppInv'
    BY <2>4, ProceedKeeps
  <2>k. /\ Kinds = {"confirmation", "rescheduled", "cancelled", "reminder"} /\ Mailed \subseteq Kinds
        /\ booking.start \in Starts /\ 0 \in Starts \cup {0}
    BY <2>0, BookingWrites, AppointmentAssumption DEF Kinds, AppointmentAssumption
  <2>5. ASSUME NEW x \in Callers, NEW s \in Starts, AskMove(x, s) PROVE AppInv'
    BY <2>5, <2>k, EntriesKeep, AppFacts DEF AskMove, ToMakeTask
  <2>6. ASSUME NEW x \in Callers, CancelBegin(x) \/ RemindBegin(x) PROVE AppInv'
    <3>1. PICK s \in Starts : s = booking.start
      BY <2>k
    <3>2. CASE CancelBegin(x)
      BY <3>1, <3>2, <2>k, EntriesKeep, AppFacts DEF CancelBegin, ToMakeTask
    <3>3. CASE RemindBegin(x)
      BY <3>1, <3>3, <2>k, EntriesKeep, AppFacts DEF RemindBegin, ToMakeTask
    <3> QED
      BY <2>6, <3>2, <3>3
  <2>7. ASSUME NEW x \in Callers, AskOutcome(x) PROVE AppInv'
    BY <2>7, <2>k, EntriesKeep, AppFacts DEF AskOutcome, ToMakeTask
  <2>8. ASSUME NEW x \in Callers, NEW e \in Emails, DeliverBegin(x, e) PROVE AppInv'
    <3>1. PICK k \in Mailed, s \in Starts : k = e[1] /\ s = e[2]
      BY DEF Emails
    <3>2. PICK pc \in {"refuse", "send"} : pc = IF NoLongerTrue(e) THEN "refuse" ELSE "send"
      OBVIOUS
    <3>3. Enter(x, pc, k, s)
      BY <2>8, <3>1, <3>2 DEF DeliverBegin
    <3> QED
      BY <3>1, <3>2, <3>3, <2>k, EntriesKeep, AppFacts DEF ToMakeTask
  <2> QED
    BY <2>1, <2>2, <2>3, <2>4, <2>5, <2>6, <2>7, <2>8 DEF AppointmentNext
<1>3. AppInv => AppointmentHolds
  <2> SUFFICES ASSUME AppInv PROVE AppointmentHolds
    OBVIOUS
  <2>1. TaskGoesWithBooking
    BY DEF AppInv, TaskIsSeenTo, TaskGoesWithBooking, ToCancelTask
  <2> QED
    BY <2>1 DEF AppInv, AppointmentHolds
<1> QED
  BY <1>1, <1>2, <1>3, PTL DEF AppointmentSpec

-----------------------------------------------------------------------------
(***************************************************************************)
(* Any number of users, invitations, tokens and calls.  A token is in one   *)
(* place: with the invitation, with the one call that claimed it, or used   *)
(* up by who joined.                                                       *)
(***************************************************************************)
Holding == {"account", "release", "join"}

InviteOK(v) ==
  /\ v.token <= v.issued
  /\ v.status = "none" => v.issued = 0
  /\ v.status = "accepted" => v.token = 0

TokenIsHeldOnce(x) ==
  /\ tcall[x].pc \in Holding \cup {"claim"} => tcall[x].token \in 1..invite[tcall[x].i].issued
  /\ tcall[x].pc \in Holding =>
       /\ invite[tcall[x].i].token # tcall[x].token
       /\ joined[<<tcall[x].i, tcall[x].token>>] = 0
       /\ \A y \in TeamCalls : tcall[y].pc \in Holding /\ tcall[y].i = tcall[x].i /\ tcall[y].token = tcall[x].token
            => y = x
  /\ tcall[x].pc = "set" => tcall[x].admins # 1

JoinedIsUsedUp ==
  \A i \in Invites, t \in 1..MaxToken :
    /\ joined[<<i, t>>] \in {0, 1}
    /\ joined[<<i, t>>] = 1 => t <= invite[i].issued /\ invite[i].token # t

TeamInv ==
  /\ TeamTypeOK /\ (\A i \in Invites : InviteOK(invite[i])) /\ (\A x \in TeamCalls : TokenIsHeldOnce(x))
  /\ JoinedIsUsedUp /\ ClaimedHasJoined

-----------------------------------------------------------------------------
LEMMA TeamTypesApart ==
  /\ TeamTypeOK <=> /\ member \in [Users -> MemberType] /\ account \in SUBSET Users
                    /\ invite \in [Invites -> InviteType] /\ tcall \in [TeamCalls -> TeamCallType]
                    /\ joined \in [Invites \X (1..MaxToken) -> Nat] /\ cut \in 0..MaxTeamDeaths
  /\ TeamTypeOK' <=> /\ member' \in [Users -> MemberType] /\ account' \in SUBSET Users
                     /\ invite' \in [Invites -> InviteType] /\ tcall' \in [TeamCalls -> TeamCallType]
                     /\ joined' \in [Invites \X (1..MaxToken) -> Nat] /\ cut' \in 0..MaxTeamDeaths
BY DEF TeamTypeOK

LEMMA TeamFacts ==
  /\ MaxToken \in Nat /\ MaxToken >= 1 /\ MaxTeamDeaths \in Nat /\ AnInvite \in Invites /\ AUser \in Users
  /\ Resting \in TeamCallType /\ Resting.pc = "idle" /\ "member" \in Roles /\ "admin" \in Roles
BY TeamAssumption DEF TeamAssumption, AnInvite, AUser, Resting, TeamCallType, CallPcs, Roles

(* What a step makes of the call x; the others stay.                        *)
Does(x, c) == c = tcall'[x] /\ \A y \in TeamCalls \ {x} : tcall'[y] = tcall[y]

LEMMA TeamCallWrites ==
  ASSUME tcall \in [TeamCalls -> TeamCallType], NEW x \in TeamCalls
  PROVE  /\ \A pc \in CallPcs : GoesOn(x, pc) =>
              /\ tcall' \in [TeamCalls -> TeamCallType] /\ Does(x, tcall'[x]) /\ tcall'[x].pc = pc
              /\ tcall'[x].i = tcall[x].i /\ tcall'[x].token = tcall[x].token /\ tcall'[x].admins = tcall[x].admins
         /\ Hangs(x) => tcall' \in [TeamCalls -> TeamCallType] /\ Does(x, tcall'[x]) /\ tcall'[x].pc = "idle"
         /\ \A c \in TeamCallType : Call(x, c) =>
              /\ tcall' \in [TeamCalls -> TeamCallType] /\ Does(x, c) /\ tcall[x].pc = "idle"
         /\ tcall[x].i \in Invites /\ tcall[x].u \in Users /\ tcall[x].token \in 0..MaxToken
         /\ tcall[x].role \in Roles /\ tcall[x].status \in {"active", "disabled"}
<1>1. ASSUME NEW pc \in CallPcs, GoesOn(x, pc)
      PROVE  /\ tcall' \in [TeamCalls -> TeamCallType] /\ Does(x, tcall'[x]) /\ tcall'[x].pc = pc
             /\ tcall'[x].i = tcall[x].i /\ tcall'[x].token = tcall[x].token /\ tcall'[x].admins = tcall[x].admins
  BY <1>1 DEF GoesOn, Does, TeamCallType
<1>2. Hangs(x) => tcall' \in [TeamCalls -> TeamCallType] /\ Does(x, tcall'[x]) /\ tcall'[x].pc = "idle"
  BY TeamFacts DEF Hangs, Does
<1>3. ASSUME NEW c \in TeamCallType, Call(x, c)
      PROVE  /\ tcall' \in [TeamCalls -> TeamCallType] /\ Does(x, c) /\ tcall[x].pc = "idle"
  BY <1>3 DEF Call, OnCall, Does
<1>4. /\ tcall[x].i \in Invites /\ tcall[x].u \in Users /\ tcall[x].token \in 0..MaxToken
      /\ tcall[x].role \in Roles /\ tcall[x].status \in {"active", "disabled"}
  BY DEF TeamCallType
<1> QED
  BY <1>1, <1>2, <1>3, <1>4

(* One step of one call, on one invitation at most.                         *)
LEMMA OneTeamCall ==
  ASSUME TeamInv, TeamTypeOK', NEW x \in TeamCalls, NEW c, Does(x, c), NEW i \in Invites, NEW v,
         v = invite'[i], \A j \in Invites \ {i} : invite'[j] = invite[j], joined' = joined, cut' >= cut,
         InviteOK(v), v.issued >= invite[i].issued,
         \/ v.token = invite[i].token
         \/ v.token = 0
         \/ v.token > invite[i].issued
         \/ tcall[x].pc \in Holding /\ tcall[x].i = i /\ v.token = tcall[x].token /\ c.pc \notin Holding,
         \/ c.pc \notin Holding
         \/ tcall[x].pc \in Holding /\ c.i = tcall[x].i /\ c.token = tcall[x].token
         \/ /\ tcall[x].pc = "claim" /\ tcall[x].i = i /\ c.i = i /\ c.token = tcall[x].token
            /\ invite[i].token = c.token /\ v.token # c.token,
         c.pc = "claim" => c.token \in 1..invite[c.i].issued /\ c.i \in Invites,
         c.pc = "set" => c.admins # 1,
         v.status = "accepted" => invite[i].status = "accepted" \/ (c.pc \in Holding /\ c.i = i),
         tcall[x].pc \in Holding =>
           \/ cut' > 0
           \/ c.pc \in Holding /\ c.i = tcall[x].i
           \/ tcall[x].i = i /\ v.status # "accepted"
  PROVE  TeamInv'
<1>0. /\ invite \in [Invites -> InviteType] /\ invite' \in [Invites -> InviteType]
      /\ tcall \in [TeamCalls -> TeamCallType] /\ tcall' \in [TeamCalls -> TeamCallType] /\ cut \in Nat /\ cut' \in Nat
      /\ \A j \in Invites : /\ invite[j].token \in Nat /\ invite[j].issued \in Nat
                            /\ invite'[j].token \in Nat /\ invite'[j].issued \in Nat
      /\ \A j \in Invites : invite'[j].issued >= invite[j].issued
      /\ \A y \in TeamCalls : tcall[y].token \in Nat /\ tcall[y].i \in Invites /\ tcall'[y].i \in Invites
                              /\ tcall[y].token <= MaxToken
      /\ MaxToken \in Nat
  <2>1. /\ invite \in [Invites -> InviteType] /\ invite' \in [Invites -> InviteType]
        /\ tcall \in [TeamCalls -> TeamCallType] /\ tcall' \in [TeamCalls -> TeamCallType] /\ cut \in Nat /\ cut' \in Nat
    BY TeamTypesApart DEF TeamInv
  <2>2. MaxToken \in Nat
    BY TeamFacts
  <2>3. \A j \in Invites : /\ invite[j].token \in Nat /\ invite[j].issued \in Nat
                           /\ invite'[j].token \in Nat /\ invite'[j].issued \in Nat
    BY <2>1, <2>2 DEF InviteType
  <2>4. \A y \in TeamCalls : tcall[y].token \in Nat /\ tcall[y].i \in Invites /\ tcall'[y].i \in Invites
                              /\ tcall[y].token <= MaxToken
    BY <2>1, <2>2 DEF TeamCallType
  <2>5. \A j \in Invites : invite'[j].issued >= invite[j].issued
    BY <2>3
  <2> QED
    BY <2>1, <2>2, <2>3, <2>4, <2>5
<1>1. \A j \in Invites : InviteOK(invite[j])'
  BY DEF TeamInv, InviteOK
<1>2. \A y \in TeamCalls : TokenIsHeldOnce(y)
  BY DEF TeamInv
<1>n. \A a, b, n \in Nat : (a \in 1..b /\ n >= b => a \in 1..n) /\ (a \in 1..b /\ a <= n => a \in 1..n)
  OBVIOUS
(* A token with the invitation was there before, is new, or was x's.        *)
<1>3. ASSUME NEW j \in Invites, NEW t \in 1..invite[j].issued, invite'[j].token = t
      PROVE  \/ invite[j].token = t
             \/ tcall[x].pc \in Holding /\ tcall[x].i = j /\ tcall[x].token = t /\ c.pc \notin Holding
  BY <1>0, <1>3
<1>4. ASSUME NEW y \in TeamCalls PROVE TokenIsHeldOnce(y)'
  <2>1. CASE y # x
    <3>0. tcall'[y] = tcall[y]
      BY <2>1 DEF Does
    <3>1. tcall[y].pc \in Holding \cup {"claim"} => tcall[y].token \in 1..invite'[tcall[y].i].issued
      <4>1. tcall[y].pc \in Holding \cup {"claim"} => tcall[y].token \in 1..invite[tcall[y].i].issued
        BY <1>2 DEF TokenIsHeldOnce
      <4>2. /\ tcall[y].i \in Invites /\ tcall[y].token \in Nat /\ invite[tcall[y].i].issued \in Nat
            /\ invite'[tcall[y].i].issued \in Nat /\ invite'[tcall[y].i].issued >= invite[tcall[y].i].issued
        BY <1>0
      <4> QED
        BY <1>n, <4>1, <4>2
    <3>2. ASSUME tcall[y].pc \in Holding PROVE invite'[tcall[y].i].token # tcall[y].token
      <4>1. /\ invite[tcall[y].i].token # tcall[y].token /\ tcall[y].token \in 1..invite[tcall[y].i].issued
            /\ \A z \in TeamCalls : tcall[z].pc \in Holding /\ tcall[z].i = tcall[y].i /\ tcall[z].token = tcall[y].token
                 => z = y
        BY <1>2, <3>2 DEF TokenIsHeldOnce
      <4> QED
        BY <1>0, <1>3, <2>1, <4>1
    <3>3. ASSUME tcall[y].pc \in Holding, NEW z \in TeamCalls, tcall'[z].pc \in Holding,
                 tcall'[z].i = tcall[y].i, tcall'[z].token = tcall[y].token
          PROVE  z = y
      <4>1. CASE z # x
        BY <1>2, <3>3, <4>1 DEF TokenIsHeldOnce, Does
      <4>2. CASE z = x /\ tcall[x].pc \in Holding
        BY <1>2, <3>3, <4>2 DEF TokenIsHeldOnce, Does, Holding
      <4>3. CASE z = x /\ tcall[x].pc \notin Holding
        <5>1. invite[tcall[y].i].token # tcall[y].token
          BY <1>2, <3>3 DEF TokenIsHeldOnce
        <5>2. c.pc \in Holding /\ c.i = tcall[y].i /\ c.token = tcall[y].token
          BY <3>3, <4>3 DEF Does
        <5> QED
          BY <4>3, <5>1, <5>2
      <4> QED
        BY <4>1, <4>2, <4>3
    <3> QED
      BY <1>2, <3>0, <3>1, <3>2, <3>3 DEF TokenIsHeldOnce
  <2>2. CASE y = x
    <3>0. tcall'[x] = c
      BY DEF Does
    <3>1. CASE c.pc \notin Holding
      BY <1>0, <2>2, <3>0, <3>1 DEF TokenIsHeldOnce
    <3>2. CASE c.pc \in Holding /\ tcall[x].pc \in Holding /\ c.i = tcall[x].i /\ c.token = tcall[x].token
      <4>1. /\ invite[c.i].token # c.token /\ c.token \in 1..invite[c.i].issued /\ joined[<<c.i, c.token>>] = 0
            /\ \A z \in TeamCalls : tcall[z].pc \in Holding /\ tcall[z].i = c.i /\ tcall[z].token = c.token => z = x
            /\ c.i \in Invites
        BY <1>0, <1>2, <3>2 DEF TokenIsHeldOnce
      <4>2. invite'[c.i].token # c.token /\ c.token \in 1..invite'[c.i].issued
        BY <1>0, <1>3, <3>2, <4>1
      <4>3. \A z \in TeamCalls : tcall'[z].pc \in Holding /\ tcall'[z].i = c.i /\ tcall'[z].token = c.token => z = x
        BY <4>1 DEF Does
      <4> QED
        BY <2>2, <3>0, <3>2, <4>1, <4>2, <4>3 DEF TokenIsHeldOnce, Holding
    <3>3. CASE /\ c.pc \in Holding /\ tcall[x].pc = "claim" /\ tcall[x].i = i /\ c.i = i /\ c.token = tcall[x].token
               /\ invite[i].token = c.token /\ v.token # c.token
      <4>1. c.token \in 1..invite[i].issued /\ c.token \in 1..MaxToken
        <5>1. tcall[x].token \in 1..invite[i].issued
          BY <1>2, <3>3 DEF TokenIsHeldOnce
        <5>2. c.token \in Nat /\ invite[i].issued \in Nat /\ MaxToken \in Nat /\ c.token <= MaxToken
          BY <1>0, <3>3
        <5> QED
          BY <1>n, <3>3, <5>1, <5>2
      <4>2. joined[<<i, c.token>>] = 0
        BY <3>3, <4>1 DEF TeamInv, JoinedIsUsedUp
      <4>3. \A z \in TeamCalls : tcall'[z].pc \in Holding /\ tcall'[z].i = c.i /\ tcall'[z].token = c.token => z = x
        <5>1. SUFFICES ASSUME NEW z \in TeamCalls, z # x, tcall[z].pc \in Holding, tcall[z].i = i,
                              tcall[z].token = c.token
                       PROVE  FALSE
          BY <3>3 DEF Does
        <5>2. invite[tcall[z].i].token # tcall[z].token
          BY <1>2, <5>1 DEF TokenIsHeldOnce
        <5> QED
          BY <3>3, <5>1, <5>2
      <4>4. c.token \in 1..invite'[i].issued /\ invite'[i].token # c.token
        BY <1>0, <3>3, <4>1
      <4> QED
        BY <2>2, <3>0, <3>3, <4>2, <4>3, <4>4 DEF TokenIsHeldOnce, Holding
    <3> QED
      BY <3>1, <3>2, <3>3
  <2> QED
    BY <2>1, <2>2
<1>5. JoinedIsUsedUp'
  <2> SUFFICES ASSUME NEW j \in Invites, NEW t \in 1..MaxToken, joined[<<j, t>>] = 1
               PROVE  t <= invite'[j].issued /\ invite'[j].token # t
    BY DEF TeamInv, JoinedIsUsedUp
  <2>1. t <= invite[j].issued /\ invite[j].token # t
    BY DEF TeamInv, JoinedIsUsedUp
  <2>2. t \in 1..invite[j].issued /\ t <= invite'[j].issued
    BY <1>0, <2>1
  <2>3. ~(tcall[x].pc \in Holding /\ tcall[x].i = j /\ tcall[x].token = t)
    BY <1>2 DEF TokenIsHeldOnce
  <2> QED
    BY <1>3, <2>1, <2>2, <2>3
<1>6. ClaimedHasJoined'
  <2> SUFFICES ASSUME NEW j \in Invites, invite'[j].status = "accepted", cut' = 0
               PROVE  \/ \E t \in 1..MaxToken : joined[<<j, t>>] > 0
                      \/ \E y \in TeamCalls : tcall'[y].i = j /\ tcall'[y].pc \in Holding
    BY <1>0 DEF ClaimedHasJoined, Holding
  <2>1. CASE invite[j].status = "accepted"
    <3>1. cut = 0
      BY <1>0
    <3>2. \/ \E t \in 1..MaxToken : joined[<<j, t>>] > 0
          \/ \E y \in TeamCalls : tcall[y].i = j /\ tcall[y].pc \in Holding
      BY <2>1, <3>1 DEF TeamInv, ClaimedHasJoined, Holding
    <3> QED
      BY <3>2 DEF Does
  <2>2. CASE invite[j].status # "accepted"
    BY <2>2 DEF Does
  <2> QED
    BY <2>1, <2>2
<1> QED
  BY <1>1, <1>4, <1>5, <1>6 DEF TeamInv

(* A step of a call that goes on, on no invitation.                         *)
LEMMA TeamGoesOn ==
  ASSUME TeamInv, TeamTypeOK', NEW x \in TeamCalls, NEW c, Does(x, c), invite' = invite, joined' = joined, cut' >= cut,
         \/ c.pc \notin Holding
         \/ tcall[x].pc \in Holding /\ c.i = tcall[x].i /\ c.token = tcall[x].token,
         c.pc = "claim" => c.token \in 1..invite[c.i].issued /\ c.i \in Invites,
         c.pc = "set" => c.admins # 1,
         tcall[x].pc \in Holding =>
           \/ cut' > 0
           \/ c.pc \in Holding /\ c.i = tcall[x].i
           \/ invite[tcall[x].i].status # "accepted"
  PROVE  TeamInv'
<1>0. invite \in [Invites -> InviteType] /\ tcall \in [TeamCalls -> TeamCallType]
  BY TeamTypesApart DEF TeamInv
<1>1. PICK i \in Invites : i = tcall[x].i
  BY <1>0 DEF TeamCallType
<1>2. PICK v : v = invite'[i]
  OBVIOUS
<1>3. /\ InviteOK(v) /\ v.token = invite[i].token
      /\ v.status = "accepted" => invite[i].status = "accepted"
  BY <1>2 DEF TeamInv
<1>4. v.issued = invite[i].issued /\ invite[i].issued \in Int
  BY <1>0, <1>2 DEF InviteType
<1>5. \A n, m \in Int : n = m => n >= m
  OBVIOUS
<1>6. v.issued >= invite[i].issued
  BY <1>4, <1>5
<1>7. tcall[x].pc \in Holding =>
           \/ cut' > 0
           \/ c.pc \in Holding /\ c.i = tcall[x].i
           \/ tcall[x].i = i /\ v.status # "accepted"
  BY <1>1, <1>2
<1> QED
  BY <1>2, <1>3, <1>6, <1>7, OneTeamCall

(* A step of no call: an account appears, an invitation lapses.             *)
LEMMA NoTeamCall ==
  ASSUME TeamInv, TeamTypeOK', tcall' = tcall, joined' = joined, cut' = cut,
         \A i \in Invites : /\ invite'[i].token = invite[i].token /\ invite'[i].issued = invite[i].issued
                            /\ invite'[i].status = invite[i].status
  PROVE  TeamInv'
<1>1. \A x \in TeamCalls : tcall[x].i \in Invites
  BY TeamTypesApart DEF TeamInv, TeamCallType
<1>2. \A x \in TeamCalls : TokenIsHeldOnce(x)'
  BY <1>1 DEF TeamInv, TokenIsHeldOnce
<1>3. JoinedIsUsedUp' /\ ClaimedHasJoined' /\ \A i \in Invites : InviteOK(invite[i])'
  BY DEF TeamInv, JoinedIsUsedUp, ClaimedHasJoined, InviteOK
<1> QED
  BY <1>2, <1>3 DEF TeamInv

LEMMA AdminsAreCounted == Cardinality(Admins) \in Nat
<1>1. Admins \subseteq Users /\ IsFiniteSet(Users)
  BY TeamAssumption DEF Admins, TeamAssumption
<1>2. IsFiniteSet(Admins)
  BY <1>1, FS_Subset
<1> QED
  BY <1>2, FS_CardinalityType

(* A call begins, by what it reads.                                         *)
LEMMA CallsBegin ==
  ASSUME TeamInv, NEW x \in TeamCalls,
         \/ \E u \in Users, role \in Roles : Invite(x, u, role) \/ Change(x, u, "role", role, "active")
         \/ \E u \in Users, status \in {"active", "disabled"} : Change(x, u, "status", "member", status)
         \/ \E i \in Invites : Accept(x, i) \/ \E pc \in {"resend", "revoke", "expire"} : Reads(x, i, pc)
  PROVE  TeamInv'
<1>0. /\ member \in [Users -> MemberType] /\ account \in SUBSET Users /\ invite \in [Invites -> InviteType]
      /\ tcall \in [TeamCalls -> TeamCallType] /\ joined \in [Invites \X (1..MaxToken) -> Nat]
      /\ cut \in 0..MaxTeamDeaths /\ cut >= cut
  BY TeamTypesApart DEF TeamInv
<1>1. ASSUME NEW c \in TeamCallType, Call(x, c), UNCHANGED <<member, account, invite, joined, cut>>,
             c.pc \notin Holding, c.pc = "set" => c.admins # 1,
             c.pc = "claim" => c.token \in 1..invite[c.i].issued
      PROVE  TeamInv'
  <2>1. tcall' \in [TeamCalls -> TeamCallType] /\ Does(x, c) /\ tcall[x].pc = "idle"
    BY <1>0, <1>1, TeamCallWrites
  <2>2. TeamTypeOK' /\ c.i \in Invites
    BY <1>0, <1>1, <2>1, TeamTypesApart DEF TeamCallType
  <2>3. tcall[x].pc \notin Holding
    BY <2>1 DEF Holding
  <2> QED
    BY <1>0, <1>1, <2>1, <2>2, <2>3, TeamGoesOn
<1> USE DEF Holding, CallPcs
<1>2. ASSUME NEW u \in Users, NEW role \in Roles, Invite(x, u, role) PROVE TeamInv'
  <2>1. PICK c : c = [Resting EXCEPT !.pc = "insert", !.u = u, !.role = role]
    OBVIOUS
  <2>2. c \in TeamCallType /\ c.pc = "insert"
    BY <2>1, TeamFacts DEF TeamCallType
  <2> QED
    BY <1>1, <1>2, <2>1, <2>2 DEF Invite
<1>3. ASSUME NEW u \in Users, NEW what \in {"role", "status"}, NEW role \in Roles,
             NEW status \in {"active", "disabled"}, Change(x, u, what, role, status)
      PROVE  TeamInv'
  <2>0. PICK pc \in {"count", "set"} :
          pc = IF IsActiveAdmin(u) /\ (IF what = "role" THEN role # "admin" ELSE status = "disabled")
               THEN "count" ELSE "set"
    OBVIOUS
  <2>1. PICK c : c = [Resting EXCEPT !.u = u, !.what = what, !.role = role, !.status = status, !.pc = pc]
    OBVIOUS
  <2>2. c \in TeamCallType /\ c.pc = pc /\ c.admins = 0
    BY <2>1, TeamFacts DEF TeamCallType, Resting
  <2>3. Call(x, c) /\ UNCHANGED <<member, account, invite, joined, cut>>
    BY <1>3, <2>0, <2>1 DEF Change
  <2> QED
    BY <1>1, <2>2, <2>3
<1>4. ASSUME NEW i \in Invites, NEW pc \in {"resend", "revoke", "expire"}, Reads(x, i, pc) PROVE TeamInv'
  <2>1. PICK c : c = [Resting EXCEPT !.pc = pc, !.i = i]
    OBVIOUS
  <2>2. c \in TeamCallType /\ c.pc = pc
    BY <2>1, TeamFacts DEF TeamCallType
  <2> QED
    BY <1>1, <1>4, <2>1, <2>2 DEF Reads
<1>5. ASSUME NEW i \in Invites, Accept(x, i) PROVE TeamInv'
  <2>0. PICK what \in {"role", "signup"} : what = IF invite[i].to \in account THEN "role" ELSE "signup"
    OBVIOUS
  <2>1. PICK c : c = [Resting EXCEPT !.pc = "claim", !.i = i, !.u = invite[i].to, !.token = invite[i].token,
                                     !.role = invite[i].role, !.what = what]
    OBVIOUS
  <2>2. /\ invite[i].to \in Users /\ invite[i].token \in 0..MaxToken /\ invite[i].role \in Roles
        /\ invite[i].issued \in Nat
    BY <1>0, TeamFacts DEF InviteType
  <2>3. c \in TeamCallType /\ c.pc = "claim" /\ c.i = i /\ c.token = invite[i].token
    BY <2>1, <2>2, TeamFacts DEF TeamCallType
  <2>4. c.token \in 1..invite[c.i].issued
    <3>1. invite[i].token <= invite[i].issued /\ invite[i].token # 0
      BY <1>5 DEF TeamInv, InviteOK, Accept
    <3> QED
      BY <2>2, <2>3, <3>1
  <2>5. Call(x, c) /\ UNCHANGED <<member, account, invite, joined, cut>>
    BY <1>5, <2>0, <2>1 DEF Accept
  <2> QED
    BY <1>1, <2>3, <2>4, <2>5
<1> QED
  BY <1>2, <1>3, <1>4, <1>5, TeamFacts

(* A call writes its invitation.                                            *)
LEMMA InviteWritten ==
  ASSUME TeamInv, NEW x \in TeamCalls,
         \/ \E i \in Invites : InsertInvite(x, i)
         \/ Resend(x) \/ Mark(x, "revoke", "revoked") \/ Mark(x, "expire", "expired")
         \/ ClaimInvite(x) \/ ReleaseInvite(x)
  PROVE  TeamInv'
<1>0. /\ member \in [Users -> MemberType] /\ account \in SUBSET Users /\ invite \in [Invites -> InviteType]
      /\ tcall \in [TeamCalls -> TeamCallType] /\ joined \in [Invites \X (1..MaxToken) -> Nat]
      /\ cut \in 0..MaxTeamDeaths /\ cut >= cut
      /\ UNCHANGED <<member, account, joined, cut>>
  BY TeamTypesApart DEF TeamInv, InsertInvite, Resend, Mark, ClaimInvite, ReleaseInvite
<1>1. /\ MaxToken \in Nat /\ MaxToken >= 1
      /\ \A i \in Invites : /\ invite[i].token \in Nat /\ invite[i].issued \in Nat /\ invite[i].issued <= MaxToken
                             /\ invite[i].token <= MaxToken /\ InviteOK(invite[i])
      /\ tcall[x].i \in Invites /\ tcall[x].u \in Users /\ tcall[x].token \in 0..MaxToken /\ tcall[x].role \in Roles
      /\ \A n, m \in Int : n = m => n >= m
  BY <1>0, TeamFacts, TeamCallWrites DEF InviteType, TeamInv
(* The call ends; what it wrote.                                            *)
<1>2. ASSUME NEW i \in Invites, NEW v \in InviteType, invite' = [invite EXCEPT ![i] = v], Hangs(x),
             InviteOK(v), v.issued >= invite[i].issued,
             \/ v.token = invite[i].token \/ v.token = 0 \/ v.token > invite[i].issued
             \/ tcall[x].pc \in Holding /\ tcall[x].i = i /\ v.token = tcall[x].token,
             v.status = "accepted" => invite[i].status = "accepted",
             tcall[x].pc \in Holding => tcall[x].i = i /\ v.status # "accepted"
      PROVE  TeamInv'
  <2>1. tcall' \in [TeamCalls -> TeamCallType] /\ Does(x, tcall'[x]) /\ tcall'[x].pc = "idle"
    BY <1>0, <1>2, TeamCallWrites
  <2>2. invite' \in [Invites -> InviteType] /\ v = invite'[i] /\ \A j \in Invites \ {i} : invite'[j] = invite[j]
    BY <1>0, <1>2
  <2>3. TeamTypeOK'
    BY <1>0, <2>1, <2>2, TeamTypesApart
  <2>4. PICK c : c = tcall'[x]
    OBVIOUS
  <2>5. c.pc \notin Holding /\ c.pc # "set" /\ c.pc # "claim" /\ joined' = joined /\ cut' >= cut
    BY <1>0, <2>1, <2>4 DEF Holding
  <2> QED
    BY <1>0, <1>2, <2>1, <2>2, <2>3, <2>4, <2>5, OneTeamCall
<1>3. ASSUME NEW i \in Invites, InsertInvite(x, i) PROVE TeamInv'
  <2>1. PICK v : v = [to |-> tcall[x].u, role |-> tcall[x].role, token |-> 1,
                      issued |-> 1, overdue |-> FALSE, status |-> "pending"]
    OBVIOUS
  <2>2. v \in InviteType /\ v.token = 1 /\ v.issued = 1 /\ v.status = "pending"
    BY <1>1, <2>1 DEF InviteType
  <2>3. invite[i].issued = 0 /\ InviteOK(v) /\ v.token > invite[i].issued /\ v.issued >= invite[i].issued
    BY <1>1, <1>3, <2>2 DEF InviteOK, InsertInvite
  <2>4. tcall[x].pc \notin Holding
    BY <1>3 DEF InsertInvite, OnCall, Holding
  <2> QED
    BY <1>2, <1>3, <2>1, <2>2, <2>3, <2>4 DEF InsertInvite
<1>i. PICK i \in Invites : i = tcall[x].i
  BY <1>1
<1>4. CASE Resend(x)
  <2>1. PICK v : v = [invite[i] EXCEPT !.status = "pending", !.token = invite[i].issued + 1,
                      !.issued = invite[i].issued + 1, !.overdue = FALSE]
    OBVIOUS
  <2>2. invite[i].issued < MaxToken /\ invite[i].issued + 1 \in 0..MaxToken /\ invite[i].issued + 1 > invite[i].issued
        /\ invite[i].issued + 1 >= invite[i].issued
    BY <1>1, <1>4, <1>i DEF Resend, Mine
  <2>3. /\ v \in InviteType /\ v.token = invite[i].issued + 1 /\ v.issued = invite[i].issued + 1
        /\ v.status = "pending"
    BY <1>0, <2>1, <2>2 DEF InviteType
  <2>4. InviteOK(v)
    BY <1>1, <2>3 DEF InviteOK
  <2>5. tcall[x].pc \notin Holding
    BY <1>4 DEF Resend, OnCall, Holding
  <2>6. invite' = [invite EXCEPT ![i] = v] /\ Hangs(x)
    BY <1>4, <1>i, <2>1 DEF Resend, Mine
  <2> QED
    BY <1>2, <2>2, <2>3, <2>4, <2>5, <2>6
<1>5. ASSUME NEW pc \in {"revoke", "expire"}, NEW status \in {"revoked", "expired"}, Mark(x, pc, status) PROVE TeamInv'
  <2>1. PICK v : v = [invite[i] EXCEPT !.status = status]
    OBVIOUS
  <2>2. v \in InviteType /\ v.token = invite[i].token /\ v.issued = invite[i].issued /\ v.status = status
    BY <1>0, <2>1 DEF InviteType
  <2>3. InviteOK(v) /\ v.issued >= invite[i].issued
    BY <1>1, <2>2 DEF InviteOK
  <2>4. tcall[x].pc \notin Holding
    BY <1>5 DEF Mark, OnCall, Holding
  <2>5. invite' = [invite EXCEPT ![i] = v] /\ Hangs(x)
    BY <1>0, <1>5, <1>i, <2>1 DEF Mark
  <2> QED
    BY <1>2, <2>2, <2>3, <2>4, <2>5
<1>6. CASE ClaimInvite(x) /\ StillPending(x)
  <2>0. tcall[x].pc = "claim" /\ invite[i].token = tcall[x].token /\ tcall[x].token \in 1..invite[i].issued
    BY <1>6, <1>i DEF ClaimInvite, OnCall, StillPending, Mine, TeamInv, TokenIsHeldOnce
  <2>1. PICK v : v = [invite[i] EXCEPT !.status = "accepted", !.token = 0]
    OBVIOUS
  <2>2. v \in InviteType /\ v.token = 0 /\ v.issued = invite[i].issued /\ v.status = "accepted"
    <3>1. 0 \in 0..MaxToken
      BY <1>1
    <3> QED
      BY <1>0, <2>1, <3>1 DEF InviteType
  <2>3. InviteOK(v) /\ v.issued >= invite[i].issued /\ v.token # tcall[x].token
    BY <1>1, <2>0, <2>2 DEF InviteOK
  <2>4. invite' = [invite EXCEPT ![i] = v]
    BY <1>0, <1>6, <1>i, <2>1 DEF ClaimInvite
  <2>5. PICK pc \in {"account", "join"} : GoesOn(x, pc)
    BY <1>6 DEF ClaimInvite
  <2>6. /\ tcall' \in [TeamCalls -> TeamCallType] /\ Does(x, tcall'[x]) /\ tcall'[x].pc = pc
        /\ tcall'[x].i = i /\ tcall'[x].token = tcall[x].token
    BY <1>0, <1>i, <2>5, TeamCallWrites DEF CallPcs
  <2>7. invite' \in [Invites -> InviteType] /\ v = invite'[i] /\ \A j \in Invites \ {i} : invite'[j] = invite[j]
    BY <1>0, <2>2, <2>4
  <2>8. TeamTypeOK'
    BY <1>0, <2>6, <2>7, TeamTypesApart
  <2>9. PICK c : c = tcall'[x]
    OBVIOUS
  <2>10. /\ c.pc \in Holding /\ c.pc # "claim" /\ c.pc # "set" /\ tcall[x].pc \notin Holding
         /\ joined' = joined /\ cut' >= cut
    BY <1>0, <2>0, <2>6, <2>9 DEF Holding
  <2> QED
    BY <1>i, <2>0, <2>2, <2>3, <2>6, <2>7, <2>8, <2>9, <2>10, OneTeamCall
<1>7. CASE ClaimInvite(x) /\ ~StillPending(x)
  <2>1. tcall[x].pc \notin Holding /\ Hangs(x) /\ invite' = [invite EXCEPT ![i] = invite[i]] /\ invite[i] \in InviteType
    BY <1>0, <1>7 DEF ClaimInvite, OnCall, Holding
  <2>2. PICK v : v = invite[i]
    OBVIOUS
  <2>3. InviteOK(v) /\ v.issued >= invite[i].issued
    BY <1>1, <2>2
  <2> QED
    BY <1>2, <2>1, <2>2, <2>3
<1>8. CASE ReleaseInvite(x)
  <2>0. tcall[x].pc = "release" /\ tcall[x].token \in 1..invite[i].issued /\ Hangs(x)
    BY <1>8, <1>i DEF ReleaseInvite, OnCall, TeamInv, TokenIsHeldOnce, Holding
  <2>1. CASE Returnable(x)
    <3>1. PICK v : v = [invite[i] EXCEPT !.status = "pending", !.token = tcall[x].token]
      OBVIOUS
    <3>2. v \in InviteType /\ v.token = tcall[x].token /\ v.issued = invite[i].issued /\ v.status = "pending"
      BY <1>0, <1>1, <3>1 DEF InviteType
    <3>3. InviteOK(v) /\ v.issued >= invite[i].issued
      BY <1>1, <2>0, <3>2 DEF InviteOK
    <3>4. invite' = [invite EXCEPT ![i] = v]
      BY <1>0, <1>8, <1>i, <2>1, <3>1 DEF ReleaseInvite
    <3> QED
      BY <1>2, <1>i, <2>0, <3>2, <3>3, <3>4 DEF Holding
  <2>2. CASE ~Returnable(x)
    <3>1. invite' = [invite EXCEPT ![i] = invite[i]] /\ invite[i] \in InviteType /\ invite[i].status # "accepted"
      BY <1>0, <1>1, <1>8, <1>i, <2>2 DEF ReleaseInvite, Returnable, Mine, InviteOK
    <3>2. PICK v : v = invite[i]
      OBVIOUS
    <3>3. InviteOK(v) /\ v.issued >= invite[i].issued
      BY <1>1, <3>2
    <3> QED
      BY <1>2, <1>i, <2>0, <3>1, <3>2, <3>3
  <2> QED
    BY <2>1, <2>2
<1> QED
  BY <1>3, <1>4, <1>5, <1>6, <1>7, <1>8

(* A call joins.                                                            *)
LEMMA JoinKeeps ==
  ASSUME TeamInv, NEW x \in TeamCalls, Join(x)
  PROVE  TeamInv'
<1>0. /\ member \in [Users -> MemberType] /\ account \in SUBSET Users /\ invite \in [Invites -> InviteType]
      /\ tcall \in [TeamCalls -> TeamCallType] /\ joined \in [Invites \X (1..MaxToken) -> Nat]
      /\ cut \in 0..MaxTeamDeaths
      /\ UNCHANGED <<account, invite, cut>>
  BY TeamTypesApart DEF TeamInv, Join
<1>1. PICK i \in Invites, t \in 0..MaxToken : i = tcall[x].i /\ t = tcall[x].token
  BY <1>0, TeamCallWrites
<1>2. /\ t \in 1..invite[i].issued /\ invite[i].token # t /\ joined[<<i, t>>] = 0
      /\ \A y \in TeamCalls : tcall[y].pc \in Holding /\ tcall[y].i = i /\ tcall[y].token = t => y = x
  BY <1>1 DEF TeamInv, TokenIsHeldOnce, Join, OnCall, Holding
<1>3. t \in 1..MaxToken /\ t <= invite[i].issued
  BY <1>0, <1>2, TeamFacts DEF InviteType
<1>4. joined' = [joined EXCEPT ![<<i, t>>] = 1]
  BY <1>0, <1>1, <1>2, <1>3 DEF Join
<1>5. /\ joined' \in [Invites \X (1..MaxToken) -> Nat] /\ joined'[<<i, t>>] = 1
      /\ \A j \in Invites, s \in 1..MaxToken : <<j, s>> # <<i, t>> => joined'[<<j, s>>] = joined[<<j, s>>]
  BY <1>0, <1>3, <1>4
<1>6. tcall' \in [TeamCalls -> TeamCallType] /\ Does(x, tcall'[x]) /\ tcall'[x].pc = "idle"
  BY <1>0, TeamCallWrites DEF Join
<1>7. member' \in [Users -> MemberType]
  <2>1. tcall[x].u \in Users /\ tcall[x].role \in Roles
    BY <1>0, TeamCallWrites
  <2>2. [status |-> "active", role |-> tcall[x].role] \in MemberType
    BY <2>1 DEF MemberType
  <2> QED
    BY <1>0, <2>1, <2>2 DEF Join
<1>8. TeamTypeOK'
  BY <1>0, <1>5, <1>6, <1>7, TeamTypesApart
<1>9. ASSUME NEW y \in TeamCalls PROVE TokenIsHeldOnce(y)'
  <2>1. CASE y = x
    BY <1>6, <2>1 DEF TokenIsHeldOnce, Holding
  <2>2. CASE y # x
    <3>1. tcall'[y] = tcall[y] /\ TokenIsHeldOnce(y)
      BY <1>6, <2>2 DEF Does, TeamInv
    <3>2. ASSUME tcall[y].pc \in Holding PROVE joined'[<<tcall[y].i, tcall[y].token>>] = 0
      <4>1. PICK j \in Invites, s \in 0..MaxToken : j = tcall[y].i /\ s = tcall[y].token
        BY <1>0, TeamCallWrites
      <4>2. s \in 1..MaxToken /\ joined[<<j, s>>] = 0
        BY <3>1, <3>2, <4>1 DEF TokenIsHeldOnce
      <4>3. <<j, s>> # <<i, t>>
        BY <1>2, <2>2, <3>2, <4>1
      <4> QED
        BY <1>5, <4>1, <4>2, <4>3
    <3>3. \A z \in TeamCalls : tcall'[z].pc \in Holding => tcall'[z] = tcall[z]
      BY <1>6 DEF Does, Holding
    <3> QED
      BY <1>0, <3>1, <3>2, <3>3 DEF TokenIsHeldOnce
  <2> QED
    BY <2>1, <2>2
<1>10. JoinedIsUsedUp'
  <2> SUFFICES ASSUME NEW j \in Invites, NEW s \in 1..MaxToken
               PROVE  /\ joined'[<<j, s>>] \in {0, 1}
                      /\ joined'[<<j, s>>] = 1 => s <= invite[j].issued /\ invite[j].token # s
    BY <1>0 DEF JoinedIsUsedUp
  <2>1. CASE j = i /\ s = t
    BY <1>2, <1>3, <1>5, <2>1
  <2>2. CASE ~(j = i /\ s = t)
    <3>1. joined'[<<j, s>>] = joined[<<j, s>>]
      BY <1>5, <2>2
    <3> QED
      BY <3>1 DEF TeamInv, JoinedIsUsedUp
  <2> QED
    BY <2>1, <2>2
<1>11. ClaimedHasJoined'
  <2> SUFFICES ASSUME NEW j \in Invites, invite[j].status = "accepted", ~(cut > 0)
               PROVE  \/ \E s \in 1..MaxToken : joined'[<<j, s>>] > 0
                      \/ \E y \in TeamCalls : tcall'[y].i = j /\ tcall'[y].pc \in {"account", "release", "join"}
    BY <1>0 DEF ClaimedHasJoined
  <2>1. CASE j = i
    BY <1>3, <1>5, <2>1
  <2>2. CASE j # i
    <3>1. \/ \E s \in 1..MaxToken : joined[<<j, s>>] > 0
          \/ \E y \in TeamCalls : tcall[y].i = j /\ tcall[y].pc \in {"account", "release", "join"}
      BY DEF TeamInv, ClaimedHasJoined
    <3>2. \A s \in 1..MaxToken : joined'[<<j, s>>] = joined[<<j, s>>]
      BY <1>5, <2>2
    <3> QED
      BY <1>1, <1>6, <2>2, <3>1, <3>2 DEF Does
  <2> QED
    BY <2>1, <2>2
<1> QED
  BY <1>0, <1>8, <1>9, <1>10, <1>11 DEF TeamInv

(* A call goes on with no invitation in hand, or dies.                      *)
LEMMA MembersStep ==
  ASSUME TeamInv, NEW x \in TeamCalls, MakeAccount(x) \/ CountAdmins(x) \/ SetMember(x) \/ TeamCallDies(x)
  PROVE  TeamInv'
<1>0. /\ member \in [Users -> MemberType] /\ account \in SUBSET Users /\ invite \in [Invites -> InviteType]
      /\ tcall \in [TeamCalls -> TeamCallType] /\ joined \in [Invites \X (1..MaxToken) -> Nat]
      /\ cut \in 0..MaxTeamDeaths /\ cut >= cut
      /\ UNCHANGED <<invite, joined>>
  BY TeamTypesApart DEF TeamInv, MakeAccount, CountAdmins, SetMember, TeamCallDies
<1>1. tcall[x].u \in Users /\ tcall[x].role \in Roles /\ tcall[x].status \in {"active", "disabled"}
  BY <1>0, TeamCallWrites
<1>2. CASE MakeAccount(x)
  <2>1. PICK pc \in {"release", "join"} : GoesOn(x, pc)
    BY <1>2 DEF MakeAccount
  <2>2. /\ tcall' \in [TeamCalls -> TeamCallType] /\ Does(x, tcall'[x]) /\ tcall'[x].pc = pc
        /\ tcall'[x].i = tcall[x].i /\ tcall'[x].token = tcall[x].token
    BY <1>0, <2>1, TeamCallWrites DEF CallPcs
  <2>3. account' \in SUBSET Users /\ member' = member /\ cut' = cut /\ tcall[x].pc = "account"
    BY <1>0, <1>1, <1>2 DEF MakeAccount, OnCall
  <2>4. TeamTypeOK'
    BY <1>0, <2>2, <2>3, TeamTypesApart
  <2>5. PICK c : c = tcall'[x]
    OBVIOUS
  <2>6. c.pc \in Holding /\ tcall[x].pc \in Holding /\ c.pc # "claim" /\ c.pc # "set"
    BY <2>2, <2>3, <2>5 DEF Holding
  <2> QED
    BY <1>0, <2>2, <2>3, <2>4, <2>5, <2>6, TeamGoesOn
<1>3. CASE CountAdmins(x) /\ OneMayGo
  <2>1. PICK n : n = Cardinality(Admins)
    OBVIOUS
  <2>2. n \in Nat /\ n > 1 /\ tcall' = [tcall EXCEPT ![x].pc = "set", ![x].admins = n] /\ tcall[x].pc = "count"
    BY <1>3, <2>1, AdminsAreCounted DEF CountAdmins, OneMayGo, OnCall
  <2>3. /\ tcall' \in [TeamCalls -> TeamCallType] /\ Does(x, tcall'[x]) /\ tcall'[x].pc = "set"
        /\ tcall'[x].admins = n
    <3>1. PICK c : c = [tcall[x] EXCEPT !.pc = "set", !.admins = n]
      OBVIOUS
    <3>2. c \in TeamCallType /\ c.pc = "set" /\ c.admins = n
      BY <1>0, <2>2, <3>1 DEF TeamCallType, CallPcs
    <3>3. tcall' = [tcall EXCEPT ![x] = c]
      BY <1>0, <2>2, <3>1 DEF TeamCallType
    <3> QED
      BY <1>0, <3>2, <3>3 DEF Does
  <2>4. TeamTypeOK' /\ cut' = cut
    BY <1>0, <1>3, <2>3, TeamTypesApart DEF CountAdmins
  <2>5. PICK c : c = tcall'[x]
    OBVIOUS
  <2>6. c.pc \notin Holding /\ tcall[x].pc \notin Holding /\ c.pc # "claim" /\ c.admins # 1
    BY <2>2, <2>3, <2>5 DEF Holding
  <2> QED
    BY <1>0, <2>3, <2>4, <2>5, <2>6, TeamGoesOn
<1>4. ASSUME Hangs(x), tcall[x].pc \in Holding => cut' > 0, account' = account, member' \in [Users -> MemberType],
             cut' \in 0..MaxTeamDeaths, cut' >= cut
      PROVE  TeamInv'
  <2>1. tcall' \in [TeamCalls -> TeamCallType] /\ Does(x, tcall'[x]) /\ tcall'[x].pc = "idle"
    BY <1>0, <1>4, TeamCallWrites
  <2>2. TeamTypeOK'
    BY <1>0, <1>4, <2>1, TeamTypesApart
  <2>3. PICK c : c = tcall'[x]
    OBVIOUS
  <2>4. c.pc \notin Holding /\ c.pc # "claim" /\ c.pc # "set"
    BY <2>1, <2>3 DEF Holding
  <2> QED
    BY <1>0, <1>4, <2>1, <2>2, <2>3, <2>4, TeamGoesOn
<1>5. CASE CountAdmins(x) /\ ~OneMayGo
  BY <1>0, <1>4, <1>5 DEF CountAdmins, OnCall, Holding
<1>6. CASE SetMember(x)
  <2>1. member' \in [Users -> MemberType]
    BY <1>0, <1>1, <1>6 DEF SetMember, MemberType
  <2> QED
    BY <1>0, <1>4, <1>6, <2>1 DEF SetMember, OnCall, Holding
<1>7. CASE TeamCallDies(x)
  <2>1. cut' \in 0..MaxTeamDeaths /\ cut' > 0 /\ cut' >= cut
    BY <1>0, <1>7, TeamFacts DEF TeamCallDies
  <2> QED
    BY <1>0, <1>4, <1>7, <2>1 DEF TeamCallDies
<1> QED
  BY <1>2, <1>3, <1>5, <1>6, <1>7

(* Tokens, claims and the last admin, for any number of users and calls.    *)
THEOREM TokensAndAdmins == TeamSpec => TeamHolds
<1>1. TeamInit => TeamInv
  <2> SUFFICES ASSUME TeamInit PROVE TeamInv
    OBVIOUS
  <2>1. /\ member \in [Users -> MemberType] /\ account \in SUBSET Users
        /\ tcall \in [TeamCalls -> TeamCallType] /\ joined \in [Invites \X (1..MaxToken) -> Nat]
    BY TeamFacts DEF TeamInit, MemberType
  <2>2. cut \in 0..MaxTeamDeaths /\ 0 \in 0..MaxToken
    BY TeamFacts DEF TeamInit
  <2>3. /\ invite \in [Invites -> InviteType]
        /\ \A i \in Invites : invite[i].token = 0 /\ invite[i].issued = 0 /\ invite[i].status = "none"
    BY <2>2, TeamFacts DEF TeamInit, InviteType
  <2>4. /\ \A x \in TeamCalls : tcall[x].pc = "idle"
        /\ \A i \in Invites, t \in 1..MaxToken : joined[<<i, t>>] = 0
    BY TeamFacts DEF TeamInit
  <2> QED
    BY <2>1, <2>2, <2>3, <2>4, TeamTypesApart
       DEF TeamInv, InviteOK, TokenIsHeldOnce, JoinedIsUsedUp, ClaimedHasJoined, Holding
<1>2. TeamInv /\ [TeamNext]_teamVars => TeamInv'
  <2> SUFFICES ASSUME TeamInv, [TeamNext]_teamVars PROVE TeamInv'
    OBVIOUS
  <2>0. /\ member \in [Users -> MemberType] /\ account \in SUBSET Users /\ invite \in [Invites -> InviteType]
        /\ tcall \in [TeamCalls -> TeamCallType] /\ joined \in [Invites \X (1..MaxToken) -> Nat]
        /\ cut \in 0..MaxTeamDeaths
    BY TeamTypesApart DEF TeamInv
  <2>1. CASE UNCHANGED teamVars
    BY <2>0, <2>1, TeamTypesApart, NoTeamCall DEF teamVars
  <2>2. ASSUME NEW i \in Invites, InviteLapses(i) PROVE TeamInv'
    <3>1. /\ invite' \in [Invites -> InviteType]
          /\ \A j \in Invites : /\ invite'[j].token = invite[j].token /\ invite'[j].issued = invite[j].issued
                                 /\ invite'[j].status = invite[j].status
      BY <2>0, <2>2 DEF InviteLapses, InviteType
    <3> QED
      BY <2>0, <2>2, <3>1, TeamTypesApart, NoTeamCall DEF InviteLapses
  <2>3. ASSUME NEW u \in Users, Register(u) PROVE TeamInv'
    BY <2>0, <2>3, TeamTypesApart, NoTeamCall DEF Register
  <2> QED
    BY <2>1, <2>2, <2>3, CallsBegin, InviteWritten, JoinKeeps, MembersStep DEF TeamNext
<1>3. TeamInv => TeamTypeOK /\ TokenJoinsOnce /\ ClaimedHasJoined
  <2>1. ASSUME TeamInv PROVE TokenJoinsOnce
    <3>1. joined \in [Invites \X (1..MaxToken) -> Nat]
      BY <2>1, TeamTypesApart DEF TeamInv
    <3> QED
      BY <2>1, <3>1 DEF TeamInv, JoinedIsUsedUp, TokenJoinsOnce
  <2> QED
    BY <2>1 DEF TeamInv
<1>4. TeamInv /\ [TeamNext]_teamVars
        => [(Admins # {} /\ Admins' = {}) =>
              \E x \in TeamCalls : tcall'[x].pc = "idle" /\
                (tcall[x].pc = "join" \/ (tcall[x].pc = "set" /\ tcall[x].admins # 1))]_teamVars
  <2> SUFFICES ASSUME TeamInv, TeamNext, Admins # {}, Admins' = {}
               PROVE  \E x \in TeamCalls : tcall'[x].pc = "idle" /\
                        (tcall[x].pc = "join" \/ (tcall[x].pc = "set" /\ tcall[x].admins # 1))
    OBVIOUS
  <2>1. member' # member
    BY DEF Admins
  <2>2. PICK x \in TeamCalls : Join(x) \/ SetMember(x)
    BY <2>1 DEF TeamNext, Invite, Change, InsertInvite, Reads, Resend, Mark, InviteLapses, Accept, ClaimInvite,
       MakeAccount, ReleaseInvite, Register, CountAdmins, TeamCallDies
  <2>3. tcall'[x].pc = "idle"
    BY <2>2, TeamTypesApart, TeamCallWrites DEF TeamInv, Join, SetMember
  <2>4. tcall[x].pc = "join" \/ (tcall[x].pc = "set" /\ tcall[x].admins # 1)
    BY <2>2 DEF Join, SetMember, OnCall, TeamInv, TokenIsHeldOnce
  <2> QED
    BY <2>3, <2>4
<1> QED
  BY <1>1, <1>2, <1>3, <1>4, PTL DEF TeamSpec, TeamHolds, LastAdminWasOneOfTwo
=============================================================================
