------------------------- MODULE ApprovalQueueProofs -------------------------
(***************************************************************************)
(* The safety of the approval queue for every set of requests, subjects    *)
(* and workers.  IInv is inductive: single use needs the types (counters   *)
(* are naturals) and the uniqueness of dedupe keys is preserved by the     *)
(* insert only because every closing step frees the key.                   *)
(***************************************************************************)
EXTENDS ApprovalQueue, TLAPS

IInv == TypeOK /\ SingleUse /\ OneOpenRequestPerKey

(* The inductive invariant holds of an empty collection. *)
LEMMA InitIInv == Init => IInv
BY ApprovalAssumption DEF Init, IInv, TypeOK, SingleUse, OneOpenRequestPerKey, Statuses

(* An insert keeps the invariant: it closes the lapsed holder of its key. *)
LEMMA RequestIInv ==
  ASSUME IInv, NEW a \in Approvals, NEW s \in Subjects \cup {NoSubject},
         NEW key \in Subjects \cup {NoSubject}, NEW b \in BOOLEAN,
         Request(a, s, key, b)
  PROVE  IInv'
<1> USE DEF IInv, Request, Insert
<1>1. TypeOK'
  BY DEF TypeOK, Statuses
<1>2. SingleUse'
  BY DEF TypeOK, SingleUse, HoldersOf, IsExpired
<1>3. OneOpenRequestPerKey'
  <2>1. ASSUME NEW x \in Approvals, active_dedupe_key'[x] # NoSubject
        PROVE  status'[x] = "requested"
    BY <2>1 DEF TypeOK, OneOpenRequestPerKey, HoldersOf
  <2>2. ASSUME NEW x \in Approvals, NEW y \in Approvals,
               active_dedupe_key'[x] = active_dedupe_key'[y],
               active_dedupe_key'[x] # NoSubject
        PROVE  x = y
    BY <2>2 DEF TypeOK, OneOpenRequestPerKey, HoldersOf
  <2>3. QED BY <2>1, <2>2 DEF OneOpenRequestPerKey
<1>4. QED BY <1>1, <1>2, <1>3

(* Closing a request in any of the three ways frees its key. *)
LEMMA CloseIInv ==
  ASSUME IInv, NEW a \in Approvals,
         MarkExpired(a) \/ Cancel(a) \/ \E d \in Decisions : Decide(a, d)
  PROVE  IInv'
<1> USE DEF IInv, MarkExpired, Cancel, Decide, Decisions
<1>1. TypeOK'
  BY DEF TypeOK, Statuses
<1>2. SingleUse'
  BY DEF TypeOK, SingleUse, IsExpired
<1>3. OneOpenRequestPerKey'
  BY DEF TypeOK, OneOpenRequestPerKey
<1>4. QED BY <1>1, <1>2, <1>3

(* Consumption: the claim itself re-asserts that nobody claimed before. *)
LEMMA ConsumeIInv ==
  ASSUME IInv, NEW w \in Workers,
         \/ \E a \in Approvals, s \in Subjects : ConsumeCheck(w, a, s)
         \/ ConsumeClaim(w) \/ ConsumeLost(w) \/ WorkerCrash(w)
  PROVE  IInv'
<1> USE DEF IInv
<1>1. CASE \E a \in Approvals, s \in Subjects : ConsumeCheck(w, a, s)
  BY <1>1 DEF ConsumeCheck, TypeOK, SingleUse, OneOpenRequestPerKey
<1>2. CASE ConsumeClaim(w)
  <2>1. claim[w] \in Approvals
    BY <1>2 DEF ConsumeClaim, TypeOK
  <2>2. TypeOK'
    BY <1>2, <2>1 DEF ConsumeClaim, TypeOK
  <2>3. SingleUse'
    BY <1>2, <2>1 DEF ConsumeClaim, CanClaim, TypeOK, SingleUse
  <2>4. OneOpenRequestPerKey'
    BY <1>2 DEF ConsumeClaim, OneOpenRequestPerKey
  <2>5. QED BY <2>2, <2>3, <2>4
<1>3. CASE ConsumeLost(w)
  BY <1>3 DEF ConsumeLost, TypeOK, SingleUse, OneOpenRequestPerKey
<1>4. CASE WorkerCrash(w)
  BY <1>4 DEF WorkerCrash, TypeOK, SingleUse, OneOpenRequestPerKey
<1>5. QED BY <1>1, <1>2, <1>3, <1>4

(* Every step of the queue preserves the inductive invariant. *)
LEMMA NextIInv == IInv /\ [Next]_approvalVars => IInv'
<1> SUFFICES ASSUME IInv, [Next]_approvalVars PROVE IInv'
  OBVIOUS
<1>1. ASSUME NEW a \in Approvals, NEW b \in BOOLEAN, RefreshBlocks(a, b)
      PROVE  IInv'
  BY <1>1 DEF IInv, RefreshBlocks, TypeOK, SingleUse, OneOpenRequestPerKey
<1>2. ASSUME NEW a \in Approvals, Lapse(a)
      PROVE  IInv'
  BY <1>2 DEF IInv, Lapse, TypeOK, SingleUse, OneOpenRequestPerKey
<1>3. CASE UNCHANGED approvalVars
  BY <1>3 DEF IInv, approvalVars, TypeOK, SingleUse, OneOpenRequestPerKey
<1>4. CASE Next
  BY <1>1, <1>2, <1>4, RequestIInv, CloseIInv, ConsumeIInv DEF Next
<1>5. QED BY <1>3, <1>4

(***************************************************************************)
(* Types, single use and key uniqueness hold in every reachable state:     *)
(* the queue's invariant is inductive as it stands.                        *)
(***************************************************************************)
THEOREM Safety == Spec => []QueueHolds
<1>1. IInv => QueueHolds
  BY DEF IInv, QueueHolds
<1>2. QED BY InitIInv, NextIInv, <1>1, PTL DEF Spec

-----------------------------------------------------------------------------
(* A single step neither reopens a closed request nor unspends one. *)
LEMMA StepClosedIsFinal ==
  ASSUME IInv, Next, NEW x \in Approvals
  PROVE  /\ status[x] \in Closed => status'[x] = status[x]
         /\ execution[x] = "consumed" => execution'[x] = "consumed"
<1> USE DEF IInv, Closed, Statuses
<1>1. ASSUME NEW a \in Approvals, NEW s \in Subjects \cup {NoSubject},
             NEW key \in Subjects \cup {NoSubject}, NEW b \in BOOLEAN,
             Request(a, s, key, b)
      PROVE  /\ status[x] \in Closed => status'[x] = status[x]
             /\ execution[x] = "consumed" => execution'[x] = "consumed"
  BY <1>1 DEF Request, Insert, HoldersOf, IsExpired, TypeOK, SingleUse
<1>2. ASSUME NEW a \in Approvals,
             \/ MarkExpired(a) \/ Cancel(a) \/ Lapse(a)
             \/ \E d \in Decisions : Decide(a, d)
             \/ \E b \in BOOLEAN : RefreshBlocks(a, b)
      PROVE  /\ status[x] \in Closed => status'[x] = status[x]
             /\ execution[x] = "consumed" => execution'[x] = "consumed"
  BY <1>2 DEF MarkExpired, IsExpired, Cancel, Lapse, Decide, RefreshBlocks, TypeOK
<1>3. ASSUME NEW w \in Workers,
             \/ \E a \in Approvals, s \in Subjects : ConsumeCheck(w, a, s)
             \/ ConsumeClaim(w) \/ ConsumeLost(w) \/ WorkerCrash(w)
      PROVE  /\ status[x] \in Closed => status'[x] = status[x]
             /\ execution[x] = "consumed" => execution'[x] = "consumed"
  BY <1>3 DEF ConsumeCheck, ConsumeClaim, ConsumeLost, WorkerCrash, TypeOK
<1>4. QED BY <1>1, <1>2, <1>3 DEF Next

(***************************************************************************)
(* Decisions, lapses and executions are final.                             *)
(***************************************************************************)
THEOREM Finality == Spec => ClosedIsFinal
<1>1. IInv /\ [Next]_approvalVars =>
        [\A a \in Approvals :
           /\ status[a] \in Closed => status'[a] = status[a]
           /\ execution[a] = "consumed" => execution'[a] = "consumed"]_approvalVars
  BY StepClosedIsFinal
<1>2. QED BY InitIInv, NextIInv, <1>1, PTL DEF Spec, ClosedIsFinal

-----------------------------------------------------------------------------
GateMap == [a \in Approvals |-> GateOf(a)]

(* A step that leaves the status and execution of every request but x      *)
(* alone moves no other gate.                                              *)
LEMMA GateMoves ==
  ASSUME NEW x \in Approvals, NEW to,
         \A y \in Approvals \ {x} : status'[y] = status[y] /\ execution'[y] = execution[y],
         GateOf(x)' = to
  PROVE  GateMap' = [GateMap EXCEPT ![x] = to]
BY DEF GateMap, GateOf

(* The three ways a request closes undecided, and an approval, as gate steps. *)
LEMMA CloseImplementsGate ==
  ASSUME IInv, NEW a \in Approvals,
         MarkExpired(a) \/ Cancel(a) \/ \E d \in Decisions : Decide(a, d)
  PROVE  Gate!Refuse(a) \/ Gate!Grant(a)
<1> USE DEF IInv, TypeOK, MarkExpired, Cancel, Decide, IsExpired, Decisions
<1>1. GateOf(a) = "open"
  BY DEF GateOf
<1>2. GateOf(a)' = "refused" \/ GateOf(a)' = "granted"
  <2>1. status'[a] \in {"expired", "cancelled", "rejected", "approved"}
    OBVIOUS
  <2>2. execution'[a] # "consumed"
    BY DEF SingleUse
  <2>3. QED BY <2>1, <2>2 DEF GateOf
<1>3. \A y \in Approvals \ {a} : status'[y] = status[y] /\ execution'[y] = execution[y]
  OBVIOUS
<1>4. GateMap' = [GateMap EXCEPT ![a] = "refused"] \/ GateMap' = [GateMap EXCEPT ![a] = "granted"]
  BY <1>2, <1>3, GateMoves
<1>5. QED BY <1>1, <1>4 DEF Gate!Refuse, Gate!Grant, Gate!Move, GateMap

(* A request raised over a lapsed one, or over nothing, as a gate step. *)
LEMMA RequestImplementsGate ==
  ASSUME IInv, NEW a \in Approvals, NEW s \in Subjects \cup {NoSubject},
         NEW key \in Subjects \cup {NoSubject}, NEW b \in BOOLEAN,
         Request(a, s, key, b)
  PROVE  Gate!Raise(a) \/ \E g \in Approvals : Gate!Replace(g, a)
<1> USE DEF IInv, TypeOK, Request, Insert, IsExpired
<1>1. GateOf(a) = "unraised" /\ GateOf(a)' = "open"
  BY DEF GateOf
<1>2. CASE HoldersOf(key) = {}
  <2>1. GateMap' = [GateMap EXCEPT ![a] = "open"]
    <3>1. \A y \in Approvals \ {a} : status'[y] = status[y] /\ execution'[y] = execution[y]
      BY <1>2
    <3>2. QED BY <1>1, <3>1, GateMoves
  <2>2. QED BY <1>1, <2>1 DEF Gate!Raise, Gate!Move, GateMap
<1>3. CASE HoldersOf(key) # {}
  <2>1. PICK g \in Approvals : HoldersOf(key) = {g}
    BY <1>3 DEF HoldersOf, OneOpenRequestPerKey
  <2>2. GateOf(g) = "open" /\ GateOf(g)' = "refused" /\ g # a
    BY <2>1 DEF GateOf, SingleUse
  <2>3. \A y \in Approvals \ {a, g} : GateOf(y)' = GateOf(y)
    BY <2>1 DEF GateOf
  <2>4. GateMap' = [GateMap EXCEPT ![g] = "refused", ![a] = "open"]
    BY <1>1, <2>2, <2>3 DEF GateMap
  <2>5. QED BY <1>1, <2>2, <2>4 DEF Gate!Replace, GateMap
<1>4. QED BY <1>2, <1>3

(* The atomic claim spends a granted gate; every other half-step of        *)
(* consume() is invisible.                                                 *)
LEMMA ConsumeImplementsGate ==
  ASSUME IInv, NEW w \in Workers,
         \/ \E a \in Approvals, s \in Subjects : ConsumeCheck(w, a, s)
         \/ ConsumeClaim(w) \/ ConsumeLost(w) \/ WorkerCrash(w)
  PROVE  \/ \E g \in Approvals : Gate!Spend(g)
         \/ UNCHANGED <<GateMap, executions>>
<1> USE DEF IInv, TypeOK
<1>1. CASE ConsumeClaim(w)
  <2>1. PICK g \in Approvals : g = claim[w]
    BY <1>1 DEF ConsumeClaim
  <2>2. status[g] = "approved" /\ execution[g] # "consumed"
    BY <1>1, <2>1 DEF ConsumeClaim, CanClaim
  <2>3. status' = status /\ execution' = [execution EXCEPT ![g] = "consumed"]
    BY <1>1, <2>1 DEF ConsumeClaim
  <2>4. GateOf(g) = "granted" /\ GateOf(g)' = "spent"
    BY <2>2, <2>3 DEF GateOf
  <2>5. \A y \in Approvals \ {g} : status'[y] = status[y] /\ execution'[y] = execution[y]
    BY <2>3
  <2>6. GateMap' = [GateMap EXCEPT ![g] = "spent"]
    BY <2>4, <2>5, GateMoves
  <2>7. executions' = [executions EXCEPT ![g] = @ + 1]
    BY <1>1, <2>1 DEF ConsumeClaim
  <2>8. QED BY <2>4, <2>6, <2>7 DEF Gate!Spend, Gate!Move, GateMap
<1>2. CASE ~ConsumeClaim(w)
  BY <1>2 DEF ConsumeCheck, ConsumeLost, WorkerCrash, GateMap, GateOf
<1>3. QED BY <1>1, <1>2

(***************************************************************************)
(* Every behaviour of the queue is a behaviour of the single-use gate.     *)
(***************************************************************************)
THEOREM Refinement == Spec => ImplementsGate
<1>1. Init => Gate!Init
  BY DEF Init, Gate!Init, GateOf
<1>2. ASSUME IInv, [Next]_approvalVars
      PROVE  [Gate!Next]_<<GateMap, executions>>
  <2>1. CASE UNCHANGED approvalVars
    BY <2>1 DEF approvalVars, GateMap, GateOf
  <2>2. CASE Next
    <3>1. ASSUME NEW a \in Approvals,
                 Lapse(a) \/ \E b \in BOOLEAN : RefreshBlocks(a, b)
          PROVE  UNCHANGED <<GateMap, executions>>
      BY <3>1 DEF Lapse, RefreshBlocks, GateMap, GateOf
    <3>2. QED BY <1>2, <2>2, <3>1, CloseImplementsGate, RequestImplementsGate,
                 ConsumeImplementsGate DEF Next, Gate!Next
  <2>3. QED BY <1>2, <2>1, <2>2
<1>3. QED
  BY <1>1, <1>2, InitIInv, NextIInv, PTL DEF Spec, ImplementsGate, Gate!Spec, Gate!gateVars, GateMap
=============================================================================
