-------------------------- MODULE WorkEndsProofs ----------------------------
(***************************************************************************)
(* The work queue for every number of items, keys, ticks and attempts.     *)
(* The invariants the runs check are not inductive: that a handler never   *)
(* starts more often than the item was claimed needs that a claimed item   *)
(* has not been started for its last claim, and that open items do not     *)
(* share a dedupe key needs that each of them holds it in the index.       *)
(*                                                                         *)
(* Below it, the next best actions, for every number of sources and        *)
(* generations.                                                            *)
(***************************************************************************)
EXTENDS WorkQueue, Advice, TLAPS

ItemOK(i) ==
  /\ i \notin overwritten => (Leased(i) <=> lease_owner[i] # NoWorker)
  /\ ~Leased(i) => lease_owner[i] = NoWorker
  /\ status[i] \in WaitingStates => attempts[i] < MaxAttempts
  /\ attempts[i] <= MaxAttempts
  /\ starts[i] <= attempts[i]
  /\ status[i] = "claimed" => starts[i] < attempts[i]
  /\ status[i] = "absent" => attempts[i] = 0
  /\ active_dedupe_key[i] # NoKey => Open(i)
  /\ i \notin overwritten /\ Open(i) => active_dedupe_key[i] = dedupe_key[i]

KeysDistinct ==
  \A i, j \in Items :
    active_dedupe_key[i] = active_dedupe_key[j] /\ active_dedupe_key[i] # NoKey => i = j

IInv == TypeOK /\ KeysDistinct /\ \A i \in Items : ItemOK(i)

Ticks == [stage : {"idle", "claiming", "working"}, batch : SUBSET Items,
          current : Items \cup {NoItem}]

USE DEF OpenStates, LeasedStates, WaitingStates, TerminalStates, Kinds

(* The inductive invariant holds of an empty queue. *)
LEMMA InitIInv == Init => IInv
BY WorkAssumption DEF Init, IInv, TypeOK, KeysDistinct, ItemOK, Leased, Open, Asleep

(* It has the invariants that the runs check for consequences. *)
LEMMA IInvImplies ==
  IInv => TypeOK /\ LeaseDiscipline /\ StartsBounded /\ OneOpenItemPerKey
<1> SUFFICES ASSUME IInv PROVE LeaseDiscipline /\ StartsBounded /\ OneOpenItemPerKey
  BY DEF IInv
<1>1. LeaseDiscipline
  BY DEF IInv, ItemOK, LeaseDiscipline
<1>2. StartsBounded
  BY DEF IInv, ItemOK, StartsBounded
<1>3. OneOpenItemPerKey
  BY DEF IInv, ItemOK, KeysDistinct, OneOpenItemPerKey
<1>4. QED BY <1>1, <1>2, <1>3

(* A tick that drops an item, or turns to one, remains a tick. *)
LEMMA DropType ==
  ASSUME TypeOK, NEW w \in Workers, NEW i \in Items, Drop(w, i)
  PROVE  worker' \in [Workers -> Ticks]
BY DEF TypeOK, Drop, Ticks

LEMMA TurnType ==
  ASSUME TypeOK, NEW w \in Workers, NEW i \in Items,
         worker' = [worker EXCEPT ![w].current = i]
  PROVE  worker' \in [Workers -> Ticks]
<1>1. worker \in [Workers -> Ticks]
  BY DEF TypeOK, Ticks
<1>2. [worker[w] EXCEPT !.current = i] \in Ticks
  BY <1>1 DEF Ticks
<1>3. QED BY <1>1, <1>2

(* Steps of a tick that touch no item: they move the tick itself. *)
LEMMA TickIInv ==
  ASSUME IInv, NEW w \in Workers,
         \/ StartTick(w) \/ StopClaiming(w) \/ EndTick(w) \/ Crash(w)
         \/ \E i \in Items : Lost(w, i)
  PROVE  IInv'
<1>1. worker' \in [Workers -> Ticks]
  <2>1. worker \in [Workers -> Ticks] /\ Asleep \in Ticks
    BY DEF IInv, TypeOK, Ticks, Asleep
  <2>2. CASE StartTick(w) \/ StopClaiming(w)
    BY <2>1, <2>2 DEF StartTick, StopClaiming, Ticks
  <2>3. CASE EndTick(w) \/ Crash(w)
    BY <2>1, <2>3 DEF EndTick, Crash
  <2>4. CASE \E i \in Items : Lost(w, i)
    BY <2>4, DropType DEF IInv, Lost
  <2>5. QED BY <2>2, <2>3, <2>4
<1>2. UNCHANGED <<itemVars, resolver, starts, overwritten>>
  BY DEF StartTick, StopClaiming, EndTick, Crash, Lost
<1>3. QED
  BY <1>1, <1>2 DEF IInv, TypeOK, KeysDistinct, ItemOK, Leased, Open, itemVars, Ticks

(* Time: an item falls due, a lease runs out or is renewed. *)
LEMMA TimeIInv ==
  ASSUME IInv,
         \/ \E i \in Items : BecomeDue(i) \/ LeaseExpires(i)
         \/ \E w \in Workers : Heartbeat(w)
  PROVE  IInv'
<1>1. UNCHANGED <<status, kind, lease_owner, attempts, dedupe_key, active_dedupe_key,
                  worker, resolver, starts, overwritten>>
  BY DEF BecomeDue, LeaseExpires, Heartbeat
<1>2. due' \in [Items -> BOOLEAN] /\ expired' \in [Items -> BOOLEAN]
  BY DEF IInv, TypeOK, BecomeDue, LeaseExpires, Heartbeat
<1>3. QED
  BY <1>1, <1>2 DEF IInv, TypeOK, KeysDistinct, ItemOK, Leased, Open

(* The insert takes a free key. *)
LEMMA EnqueueIInv ==
  ASSUME IInv, NEW i \in Items, NEW key \in Keys \cup {NoKey}, NEW k \in Kinds,
         NEW d \in BOOLEAN, Enqueue(i, key, k, d)
  PROVE  IInv'
<1> USE DEF IInv, Enqueue
<1>1. TypeOK'
  BY DEF TypeOK
<1>2. KeysDistinct'
  BY DEF TypeOK, KeysDistinct, KeyFree
<1>3. \A j \in Items : ItemOK(j)'
  BY WorkAssumption DEF TypeOK, ItemOK, Leased, Open
<1>4. QED BY <1>1, <1>2, <1>3

(* A claim is the only step that makes an owner, of an item with attempts left. *)
LEMMA ClaimIInv ==
  ASSUME IInv, NEW w \in Workers, NEW i \in Items, Claim(w, i)
  PROVE  IInv'
<1> USE DEF IInv, Claim, Claimable
<1>1. TypeOK'
  BY DEF TypeOK
<1>2. KeysDistinct'
  BY DEF KeysDistinct
<1>3. \A j \in Items : ItemOK(j)'
  BY WorkAssumption DEF TypeOK, ItemOK, Leased, Open
<1>4. QED BY <1>1, <1>2, <1>3

(* Only the owner of a claimed item can start it, once for each claim. *)
LEMMA StartIInv ==
  ASSUME IInv, NEW w \in Workers, NEW i \in Items, StartProcessing(w, i)
  PROVE  IInv'
<1> USE DEF IInv, StartProcessing
<1>1. lease_owner[i] = w /\ w # NoWorker /\ w # Anonymous
  BY WorkAssumption DEF MayMove, Anonymous
<1>2. status[i] = "claimed"
  BY <1>1 DEF MayMove, ALLOWED_TRANSITIONS, ItemOK, Leased
<1>3. TypeOK'
  BY TurnType DEF TypeOK, Ticks
<1>4. KeysDistinct'
  BY DEF KeysDistinct
<1>5. \A j \in Items : ItemOK(j)'
  BY <1>1, <1>2 DEF TypeOK, ItemOK, Leased, Open
<1>6. QED BY <1>3, <1>4, <1>5

(***************************************************************************)
(* What every way of ending an attempt or closing an item has in common:   *)
(* the item loses its owner and ends up where its key may be.              *)
(***************************************************************************)
LEMMA ReleaseIInv ==
  ASSUME IInv, NEW i \in Items, NEW to \in TerminalStates \cup {"retry_scheduled"},
         status[i] # "absent",
         \/ to \in TerminalStates /\ Finish(i, to)
         \/ to = "retry_scheduled" /\ attempts[i] < MaxAttempts /\ Open(i) /\ Retry(i),
         UNCHANGED <<starts, overwritten>>,
         worker' \in [Workers -> Ticks],
         resolver' \in [Resolvers -> Items \cup {NoItem}]
  PROVE  IInv'
<1> USE DEF IInv, Finish, Retry, Release
<1>1. TypeOK'
  <2>1. /\ status' \in [Items -> OpenStates \cup TerminalStates \cup {"absent"}]
        /\ lease_owner' \in [Items -> Workers \cup {NoWorker}]
        /\ expired' \in [Items -> BOOLEAN]
    BY DEF TypeOK
  <2>2. /\ active_dedupe_key' \in [Items -> Keys \cup {NoKey}]
        /\ due' \in [Items -> BOOLEAN]
    BY DEF TypeOK
  <2>3. UNCHANGED <<kind, dedupe_key, attempts, starts, overwritten>>
    OBVIOUS
  <2>4. QED BY <2>1, <2>2, <2>3 DEF TypeOK, Ticks
<1>2. KeysDistinct'
  BY DEF TypeOK, KeysDistinct
<1>3. \A j \in Items : ItemOK(j)'
  BY DEF TypeOK, ItemOK, Leased, Open
<1>4. QED BY <1>1, <1>2, <1>3

(* A failure goes to the dead letters or, with attempts left, back to wait. *)
LEMMA FailReleases ==
  ASSUME IInv, NEW i \in Items, NEW retryable \in BOOLEAN, Fail(i, retryable)
  PROVE  \/ Finish(i, "dead_letter")
         \/ attempts[i] < MaxAttempts /\ Retry(i)
BY WorkAssumption DEF IInv, TypeOK, Fail, FailureStatus

(* A recovery, a handler's end and a resolve() of a waiting item. *)
LEMMA EndIInv ==
  ASSUME IInv,
         \/ \E i \in Items : Recover(i) \/ ResolveOpen(i)
         \/ \E w \in Workers : Complete(w) \/ HandlerFails(w)
         \/ \E w \in Workers, i \in Items : RejectUnhandled(w, i)
  PROVE  IInv'
<1> USE DEF IInv
<1>0. worker \in [Workers -> Ticks] /\ resolver \in [Resolvers -> Items \cup {NoItem}]
  BY DEF TypeOK, Ticks
<1>1. ASSUME NEW i \in Items, Recover(i) PROVE IInv'
  <2>1. Fail(i, TRUE) /\ Open(i) /\ status[i] # "absent"
    BY <1>1 DEF Recover, Open
  <2>2. UNCHANGED <<worker, resolver, starts, overwritten>>
    BY <1>1 DEF Recover
  <2>3. QED BY <1>0, <2>1, <2>2, FailReleases, ReleaseIInv
<1>2. ASSUME NEW i \in Items, ResolveOpen(i) PROVE IInv'
  BY <1>0, <1>2, ReleaseIInv DEF ResolveOpen
<1>3. ASSUME NEW w \in Workers, NEW i \in Items, Drop(w, i)
      PROVE  worker' \in [Workers -> Ticks]
  BY <1>3, DropType
<1>4. ASSUME NEW w \in Workers, NEW i \in Items, NEW to, MayMove(i, to, w)
      PROVE  status[i] # "absent" /\ Open(i)
  BY <1>4, WorkAssumption DEF MayMove, Anonymous, ItemOK, Leased, Open
<1>5. ASSUME NEW w \in Workers, Complete(w) PROVE IInv'
  <2>1. PICK i \in Items : i = worker[w].current
    BY <1>5 DEF Complete, TypeOK
  <2>2. QED BY <1>3, <1>4, <1>5, <2>1, ReleaseIInv DEF Complete, TypeOK
<1>6. ASSUME NEW w \in Workers, HandlerFails(w) PROVE IInv'
  <2>1. PICK i \in Items : i = worker[w].current
    BY <1>6 DEF HandlerFails, TypeOK
  <2>2. QED BY <1>3, <1>4, <1>6, <2>1, FailReleases, ReleaseIInv DEF HandlerFails, TypeOK
<1>7. ASSUME NEW w \in Workers, NEW i \in Items, RejectUnhandled(w, i) PROVE IInv'
  BY <1>3, <1>4, <1>7, FailReleases, ReleaseIInv DEF RejectUnhandled, TypeOK
<1>8. QED BY <1>1, <1>2, <1>5, <1>6, <1>7

(* resolve() of an item read as terminal: what was reopened meanwhile is noted. *)
LEMMA ResolveIInv ==
  ASSUME IInv, NEW o \in Resolvers,
         ResolveWrite(o) \/ \E i \in Items : ResolveRead(o, i)
  PROVE  IInv'
<1> USE DEF IInv
<1>1. ASSUME NEW i \in Items, ResolveRead(o, i) PROVE IInv'
  BY <1>1 DEF ResolveRead, itemVars, TypeOK, KeysDistinct, ItemOK, Leased, Open
<1>2. CASE ResolveWrite(o)
  <2>1. PICK i \in Items : i = resolver[o]
    BY <1>2 DEF ResolveWrite, TypeOK
  <2> USE DEF ResolveWrite, Finish, Release
  <2>2. TypeOK'
    BY <1>2, <2>1 DEF TypeOK
  <2>3. KeysDistinct'
    BY <1>2, <2>1 DEF TypeOK, KeysDistinct
  <2>4. \A j \in Items : ItemOK(j)'
    BY <1>2, <2>1 DEF TypeOK, ItemOK, Leased, Open
  <2>5. QED BY <2>2, <2>3, <2>4
<1>3. QED BY <1>1, <1>2

(* A replay takes the key again, if it is free, and starts counting anew. *)
LEMMA ReplayIInv ==
  ASSUME IInv, NEW i \in Items, Replay(i)
  PROVE  IInv'
<1> USE DEF IInv, Replay, Release
<1>1. TypeOK'
  BY DEF TypeOK
<1>2. KeysDistinct'
  BY DEF TypeOK, KeysDistinct, KeyFree
<1>3. \A j \in Items : ItemOK(j)'
  BY WorkAssumption DEF TypeOK, ItemOK, Leased, Open
<1>4. QED BY <1>1, <1>2, <1>3

(* Every step of the queue preserves the inductive invariant. *)
LEMMA NextIInv == IInv /\ [Next]_vars => IInv'
<1> SUFFICES ASSUME IInv, [Next]_vars PROVE IInv'
  OBVIOUS
<1>1. CASE UNCHANGED vars
  BY <1>1 DEF vars, itemVars, IInv, TypeOK, KeysDistinct, ItemOK, Leased, Open
<1>2. ASSUME NEW i \in Items, ItemNext(i) PROVE IInv'
  BY <1>2, EnqueueIInv, EndIInv, ReplayIInv, TimeIInv DEF ItemNext
<1>3. ASSUME NEW w \in Workers, WorkerNext(w) PROVE IInv'
  BY <1>3, TickIInv, TimeIInv, ClaimIInv, StartIInv, EndIInv DEF WorkerNext
<1>4. QED BY <1>1, <1>2, <1>3, ResolveIInv DEF Next

(***************************************************************************)
(* In every reachable state of a queue of any size a leased item and only  *)
(* such a one has an owner, a handler starts at most once for each attempt *)
(* and open items do not share a dedupe key (but for the resolve() race).  *)
(***************************************************************************)
THEOREM Safety == Spec => [](WorkHolds /\ LeaseDiscipline)
<1>1. IInv => WorkHolds /\ LeaseDiscipline
  BY IInvImplies DEF WorkHolds
<1> QED
  BY InitIInv, NextIInv, <1>1, PTL DEF Spec

(***************************************************************************)
(* In particular no handler starts more often than its item has attempts,  *)
(* and no dedupe key has two open items, whatever workers, replays and     *)
(* sweeps do (claim_batch, enqueue).                                       *)
(***************************************************************************)
THEOREM StartsAndKeys == Spec => []WorkHolds
BY Safety, PTL

-----------------------------------------------------------------------------
(* What LiveLeaseIsSafe asks of one step, of one item and one worker. *)
StepKeepsLease(i, w) ==
  /\ lease_owner[i] = w /\ ~expired[i] /\ Holds(w, i) /\ Holds(w, i)'
  /\ i \notin overwritten'
  => lease_owner'[i] = w

(* An anonymous caller closes no item that somebody owns. *)
LEMMA OwnedIsKept ==
  ASSUME IInv, NEW i \in Items, NEW w \in Workers, lease_owner[i] = w
  PROVE  /\ Leased(i)
         /\ ~ResolveOpen(i) /\ ~Replay(i)
         /\ \A v \in Workers : ~Claim(v, i)
         /\ Recover(i) => expired[i]
<1>1. Leased(i) /\ w # NoWorker
  BY WorkAssumption DEF IInv, ItemOK
<1>2. ~ResolveOpen(i)
  BY <1>1 DEF ResolveOpen, MayMove, Anonymous
<1>3. ~Replay(i) /\ \A v \in Workers : ~Claim(v, i)
  BY <1>1 DEF Replay, Claim, Claimable, Leased
<1>4. QED BY <1>1, <1>2, <1>3 DEF Recover

(* The steps that end an attempt drop its item from the batch they end it in. *)
LEMMA EndedIsDropped ==
  ASSUME IInv, NEW v \in Workers, NEW j \in Items,
         lease_owner[j] = v, Drop(v, j),
         lease_owner' = [lease_owner EXCEPT ![j] = NoWorker],
         NEW i \in Items, NEW w \in Workers
  PROVE  StepKeepsLease(i, w)
BY DEF IInv, TypeOK, Drop, Holds, StepKeepsLease

(* A step on an item nobody owns, or one whose lease ran out, is harmless. *)
LEMMA OtherItemStep ==
  ASSUME IInv, NEW j \in Items, NEW o \in Workers \cup {NoWorker},
         lease_owner' = [lease_owner EXCEPT ![j] = o],
         \/ lease_owner[j] \notin Workers
         \/ expired[j]
         \/ j \in overwritten',
         NEW i \in Items, NEW w \in Workers
  PROVE  StepKeepsLease(i, w)
BY DEF IInv, TypeOK, StepKeepsLease

(* So no step takes a live lease from the worker that still holds the item. *)
LEMMA NextKeepsLease ==
  ASSUME IInv, [Next]_vars, NEW i \in Items, NEW w \in Workers
  PROVE  StepKeepsLease(i, w)
<1>1. CASE UNCHANGED lease_owner
  BY <1>1 DEF StepKeepsLease
<1>2. ASSUME NEW j \in Items, ItemNext(j) PROVE StepKeepsLease(i, w)
  <2>1. CASE Recover(j)
    <3>1. lease_owner' = [lease_owner EXCEPT ![j] = NoWorker] /\ expired[j]
      BY <2>1 DEF Recover, Fail, Finish, Retry, Release
    <3>2. QED BY <3>1, OtherItemStep
  <2>2. CASE ResolveOpen(j) \/ Replay(j)
    <3>1. lease_owner' = [lease_owner EXCEPT ![j] = NoWorker]
      BY <2>2 DEF ResolveOpen, Replay, Finish, Release
    <3>2. lease_owner[j] \notin Workers
      BY <2>2, OwnedIsKept
    <3>3. QED BY <3>1, <3>2, OtherItemStep
  <2>3. QED
    BY <1>1, <1>2, <2>1, <2>2 DEF ItemNext, Enqueue, BecomeDue, LeaseExpires
<1>3. ASSUME NEW v \in Workers, WorkerNext(v) PROVE StepKeepsLease(i, w)
  <2>1. ASSUME NEW j \in Items, Claim(v, j) PROVE StepKeepsLease(i, w)
    <3>1. lease_owner' = [lease_owner EXCEPT ![j] = v] /\ lease_owner[j] \notin Workers
      BY <2>1, OwnedIsKept DEF Claim
    <3>2. QED BY <3>1, OtherItemStep
  <2>2. ASSUME NEW j, j = worker[v].current, Complete(v) \/ HandlerFails(v)
        PROVE  StepKeepsLease(i, w)
    <3>1. j \in Items
      BY <2>2 DEF IInv, TypeOK, Complete, HandlerFails
    <3>2. lease_owner[j] = v
      BY <2>2, WorkAssumption DEF Complete, HandlerFails, MayMove, Anonymous
    <3>3. Drop(v, j) /\ lease_owner' = [lease_owner EXCEPT ![j] = NoWorker]
      BY <2>2 DEF Complete, HandlerFails, Fail, Finish, Retry, Release
    <3>4. QED BY <3>1, <3>2, <3>3, EndedIsDropped
  <2>3. ASSUME NEW j \in Items, RejectUnhandled(v, j) PROVE StepKeepsLease(i, w)
    <3>1. lease_owner[j] = v
      BY <2>3, WorkAssumption DEF RejectUnhandled, MayMove, Anonymous
    <3>2. Drop(v, j) /\ lease_owner' = [lease_owner EXCEPT ![j] = NoWorker]
      BY <2>3 DEF RejectUnhandled, Fail, Finish, Retry, Release
    <3>3. QED BY <3>1, <3>2, EndedIsDropped
  <2>4. CASE Heartbeat(v) \/ StartTick(v) \/ StopClaiming(v) \/ EndTick(v) \/ Crash(v)
    BY <1>1, <2>4 DEF Heartbeat, StartTick, StopClaiming, EndTick, Crash, itemVars
  <2>5. ASSUME NEW j \in Items, StartProcessing(v, j) \/ Lost(v, j)
        PROVE  StepKeepsLease(i, w)
    BY <1>1, <2>5 DEF StartProcessing, Lost, itemVars
  <2>6. QED BY <1>3, <2>1, <2>2, <2>3, <2>4, <2>5 DEF WorkerNext
<1>4. ASSUME NEW o \in Resolvers, ResolveWrite(o) PROVE StepKeepsLease(i, w)
  <2>1. PICK j \in Items : j = resolver[o]
    BY <1>4 DEF ResolveWrite, IInv, TypeOK
  <2>2. lease_owner' = [lease_owner EXCEPT ![j] = NoWorker]
    BY <1>4, <2>1 DEF ResolveWrite, Finish, Release
  <2>3. lease_owner[j] \notin Workers \/ j \in overwritten'
    <3>1. CASE lease_owner[j] \in Workers
      <4>1. Leased(j)
        BY <3>1, OwnedIsKept
      <4>2. QED BY <4>1, <1>4, <2>1 DEF ResolveWrite, Leased
    <3>2. QED BY <3>1
  <2>4. QED BY <2>2, <2>3, OtherItemStep
<1>5. ASSUME NEW o \in Resolvers, NEW j \in Items, ResolveRead(o, j)
      PROVE  StepKeepsLease(i, w)
  BY <1>1, <1>5 DEF ResolveRead, itemVars
<1>6. CASE UNCHANGED vars
  BY <1>1, <1>6 DEF vars, itemVars
<1>7. QED BY <1>2, <1>3, <1>4, <1>5, <1>6 DEF Next

(***************************************************************************)
(* While its lease is live an item stays with the worker that has it in    *)
(* hand, whatever recoveries, operators and other ticks do.                *)
(***************************************************************************)
THEOREM LeaseSafety == Spec => LiveLeaseIsSafe
<1>1. IInv /\ [Next]_vars =>
        [\A i \in Items, w \in Workers :
           /\ lease_owner[i] = w /\ ~expired[i] /\ Holds(w, i) /\ Holds(w, i)'
           /\ i \notin overwritten'
           => lease_owner'[i] = w]_vars
  BY NextKeepsLease DEF StepKeepsLease
<1>2. QED BY InitIInv, NextIInv, <1>1, PTL DEF Spec, LiveLeaseIsSafe

-----------------------------------------------------------------------------
(* The next best actions.                                                   *)
AdvicePcs == {"idle", "rules", "upsert", "list", "retire"}
AdvisedType == [of : Sources, priority : Priorities]
GenType == [at : AdvicePcs, rules : SUBSET Rules, found : SUBSET AdvisedType, seen : SUBSET Sources,
            failed : BOOLEAN, open : SUBSET Sources, steady : SUBSET Sources, beyond : SUBSET Sources]
RowType == [state : STATES \cup {"none"}, priority : Priorities \cup {0}]

AdviceTypes ==
  /\ topic \in [Sources -> SubjectType] /\ advice \in [Sources -> RowType] /\ gen \in [Generations -> GenType]
  /\ shifts \in 0..MaxShifts /\ ruleFailures \in 0..MaxRuleFailures

(* What has called for attention since a generation began, and was not      *)
(* beyond the page of its rule, the generation has seen once it has asked   *)
(* the rule, unless a rule failed; then it does not come to the retirement. *)
Attends(g) ==
  /\ g.at \notin {"idle", "rules"} => g.rules = {}
  /\ g.at \in {"list", "retire"} => ~g.failed
  /\ g.at # "idle" =>
       \A x \in g.steady : /\ Due(x)
                           /\ x \notin g.beyond /\ ~g.failed /\ topic[x].kind \notin g.rules => x \in g.seen
  /\ g.at = "retire" => g.open \cap g.seen = {}
AllAttend == \A g \in Generations : Attends(gen[g])

AdviceInv == AdviceTypes /\ AllAttend /\ RetiredInGoodFaith

LEMMA AdviceTypesOK == AdviceTypes /\ RetiredInGoodFaith => AdviceTypeOK
BY DEF AdviceTypes, AdviceTypeOK, RetiredInGoodFaith, GenType, AdvicePcs, AdvisedType, RowType

LEMMA AtRestIsOK == AtRest \in GenType /\ Attends(AtRest)
BY DEF AtRest, GenType, AdvicePcs, Attends

(* A step of one generation.                                                *)
LEMMA GenChanges ==
  ASSUME AdviceTypes, AllAttend, NEW g \in Generations, NEW x \in GenType, Attends(x), GenGoes(g, x), UNCHANGED topic
  PROVE  gen' \in [Generations -> GenType] /\ AllAttend'
<1>1. gen' \in [Generations -> GenType] /\ gen'[g] = x /\ \A h \in Generations \ {g} : gen'[h] = gen[h]
  BY DEF AdviceTypes, GenGoes
<1>2. \A h \in Generations : Attends(gen[h])'
  BY <1>1 DEF AllAttend, Attends, Due
<1> QED
  BY <1>1, <1>2 DEF AllAttend

(* ... that writes nothing else.                                            *)
LEMMA GenOnly ==
  ASSUME AdviceInv, NEW g \in Generations, NEW x \in GenType, Attends(x), GenGoes(g, x),
         UNCHANGED <<topic, advice, wronged, shifts>>, ruleFailures' \in 0..MaxRuleFailures
  PROVE  AdviceInv'
<1>1. gen' \in [Generations -> GenType] /\ AllAttend'
  BY GenChanges DEF AdviceInv
<1> QED
  BY <1>1 DEF AdviceInv, AdviceTypes, RetiredInGoodFaith

LEMMA KindsLemma ==
  Rules = {"commitment", "approval", "task", "work_item", "integration", "workspace"}
BY DEF Rules, SituationsOf

LEMMA UrgencyType == \A x : Urgency(x) \in Priorities
BY DEF Urgency, Priorities

LEMMA PagesLemma == \A rule : \A p \in Pages(rule) : p \subseteq Asked(rule)
BY DEF Pages

-----------------------------------------------------------------------------
LEMMA ChangeSubjectKeeps ==
  ASSUME AdviceInv, NEW x \in Sources, NEW s \in SituationsOf[topic[x].kind], ChangeSubject(x, s)
  PROVE  AdviceInv'
<1>0. AdviceTypes /\ AllAttend /\ topic[x] \in SubjectType
  BY DEF AdviceInv, AdviceTypes
<1> DEFINE All == UNION {SituationsOf[k] : k \in Rules}
           t == [topic[x] EXCEPT !.status = s]
           Steady(g) == IF Due(x)' THEN gen[g].steady ELSE gen[g].steady \ {x}
           new(g) == [gen[g] EXCEPT !.steady = Steady(g)]
<1>1. topic' = [topic EXCEPT ![x] = t] /\ t.kind = topic[x].kind
  BY <1>0 DEF ChangeSubject, SubjectType
<1>2. topic[x] \in [kind : Rules, status : All] /\ s \in All
  BY <1>0 DEF SubjectType
<1>3. t \in SubjectType
  <2> HIDE DEF All
  <2>1. t \in [kind : Rules, status : All]
    BY <1>2
  <2> QED
    BY <2>1 DEF SubjectType, All
<1> HIDE DEF t, All
<1>4. /\ topic' \in [Sources -> SubjectType] /\ \A y \in Sources : topic'[y].kind = topic[y].kind
      /\ \A y \in Sources \ {x} : topic'[y] = topic[y]
  BY <1>0, <1>1, <1>3 DEF AdviceTypes
<1>5. DOMAIN gen' = Generations /\ (\A g \in Generations : gen'[g] = new(g)) /\ gen' = [g \in Generations |-> gen'[g]]
  BY <1>0 DEF ChangeSubject, AdviceTypes, GenType
<1>6. ASSUME NEW g \in Generations
      PROVE  gen'[g] \in GenType /\ Attends(gen[g])'
  <2>1. gen[g] \in GenType /\ Attends(gen[g])
    BY <1>0 DEF AdviceTypes, AllAttend
  <2>2. Steady(g) \subseteq gen[g].steady /\ gen[g].steady \subseteq Sources /\ (x \in Steady(g) => Due(x)')
    BY <2>1 DEF GenType
  <2> HIDE DEF Steady
  <2>3. /\ new(g) \in GenType /\ new(g).steady = Steady(g) /\ new(g).at = gen[g].at /\ new(g).rules = gen[g].rules
        /\ new(g).failed = gen[g].failed /\ new(g).beyond = gen[g].beyond /\ new(g).seen = gen[g].seen
        /\ new(g).open = gen[g].open
    BY <2>1, <2>2 DEF GenType
  <2>4. gen[g].at # "idle" => \A y \in Steady(g) : Due(y)'
    BY <2>1, <2>2, <1>4 DEF Attends, Due
  <2> HIDE DEF new
  <2>5. /\ gen'[g] \in GenType /\ gen'[g].steady = Steady(g) /\ gen'[g].at = gen[g].at /\ gen'[g].rules = gen[g].rules
        /\ gen'[g].failed = gen[g].failed /\ gen'[g].beyond = gen[g].beyond /\ gen'[g].seen = gen[g].seen
        /\ gen'[g].open = gen[g].open
    BY <2>3, <1>5
  <2>6. \A y \in Steady(g) : topic'[y].kind = topic[y].kind
    BY <2>2, <1>4
  <2>7. gen[g].at # "idle" => \A y \in Steady(g) :
          /\ Due(y)'
          /\ y \notin gen[g].beyond /\ ~gen[g].failed /\ topic'[y].kind \notin gen[g].rules => y \in gen[g].seen
    BY <2>1, <2>2, <2>4, <2>6 DEF Attends
  <2> QED
    BY <2>1, <2>5, <2>7 DEF Attends
<1> HIDE DEF new
<1>7. gen' \in [Generations -> GenType] /\ AllAttend'
  BY <1>5, <1>6 DEF AllAttend
<1>8. shifts' \in 0..MaxShifts /\ UNCHANGED <<advice, wronged, ruleFailures>>
  BY <1>0, AdviceAssumption DEF ChangeSubject, Shift, AdviceTypes
<1> QED
  BY <1>0, <1>4, <1>7, <1>8 DEF AdviceInv, AdviceTypes, RetiredInGoodFaith

LEMMA SetStateKeeps == ASSUME AdviceInv, NEW x \in Sources, NEW st \in STATES, SetState(x, st) PROVE AdviceInv'
<1>0. AdviceTypes /\ AllAttend
  BY DEF AdviceInv
<1>1. advice' \in [Sources -> RowType]
  BY <1>0 DEF AdviceTypes, RowType, SetState
<1>2. shifts' \in 0..MaxShifts /\ UNCHANGED <<topic, gen, wronged, ruleFailures>>
  BY <1>0, AdviceAssumption DEF SetState, Shift, AdviceTypes
<1>3. AllAttend'
  BY <1>0, <1>2 DEF AllAttend, Attends, Due
<1> QED
  BY <1>0, <1>1, <1>2, <1>3 DEF AdviceInv, AdviceTypes, RetiredInGoodFaith

LEMMA BeginKeeps == ASSUME AdviceInv, NEW g \in Generations, BeginGeneration(g) PROVE AdviceInv'
<1> DEFINE rs == {topic[x].kind : x \in Sources}
           st == {x \in Sources : Due(x)}
           n == [AtRest EXCEPT !.at = "rules", !.rules = rs, !.steady = st]
<1>1. rs \subseteq Rules /\ ruleFailures \in 0..MaxRuleFailures
  BY DEF AdviceInv, AdviceTypes, SubjectType
<1>2. GenGoes(g, n) /\ UNCHANGED <<topic, advice, wronged, shifts, ruleFailures>>
  BY DEF BeginGeneration
<1>3. (\A x \in st : Due(x) /\ topic[x].kind \in rs) /\ st \subseteq Sources
  OBVIOUS
<1> HIDE DEF rs, st
<1>4. n \in GenType /\ n.at = "rules" /\ n.rules = rs /\ n.steady = st
  BY <1>1, <1>3 DEF AtRest, GenType, AdvicePcs
<1> HIDE DEF n
<1>5. Attends(n)
  BY <1>3, <1>4 DEF Attends
<1> QED
  BY <1>1, <1>2, <1>4, <1>5, GenOnly

LEMMA RuleKeeps == ASSUME AdviceInv, NEW g \in Generations, NEW rule \in Rules, Rule(g, rule) PROVE AdviceInv'
<1>0. /\ AdviceTypes /\ gen[g] \in GenType /\ Attends(gen[g]) /\ gen[g].at = "rules" /\ ruleFailures \in 0..MaxRuleFailures
  BY DEF AdviceInv, AdviceTypes, AllAttend, Rule
<1>1. PICK page \in Pages(rule) :
        LET found == {x \in page : Due(x)} IN
        GenGoes(g, RulesLeft(g, [gen[g] EXCEPT !.seen = @ \cup found, !.beyond = @ \cup (Asked(rule) \ page),
                                            !.found = @ \cup {[of |-> x, priority |-> Urgency(x)] : x \in found}], rule))
  BY DEF Rule
<1> DEFINE nowDue == {x \in page : Due(x)}
           sn == gen[g].seen \cup nowDue
           by == gen[g].beyond \cup (Asked(rule) \ page)
           fd == gen[g].found \cup {[of |-> x, priority |-> Urgency(x)] : x \in nowDue}
           rs == gen[g].rules \ {rule}
           at == IF gen[g].rules = {rule} THEN "upsert" ELSE gen[g].at
           m == [gen[g] EXCEPT !.seen = sn, !.beyond = by, !.found = fd]
           n == [m EXCEPT !.rules = rs, !.at = at]
<1>2. page \subseteq Asked(rule) /\ Asked(rule) \subseteq Sources
  BY PagesLemma DEF Asked
<1>3. /\ sn \subseteq Sources /\ by \subseteq Sources /\ fd \subseteq AdvisedType /\ rs \subseteq Rules
      /\ at \in {"rules", "upsert"} /\ (at = "upsert" => rs = {})
  BY <1>0, <1>2, UrgencyType DEF GenType, AdvisedType
<1>4. ASSUME NEW x \in Sources, Due(x), x \notin by, topic[x].kind = rule
      PROVE  x \in sn
  BY <1>4 DEF Due, Asked, Queried
<1>5. /\ gen[g].seen \subseteq sn /\ gen[g].beyond \subseteq by
      /\ \A k \in Rules : k \notin rs => k = rule \/ k \notin gen[g].rules
  OBVIOUS
<1>6. GenGoes(g, n)
  BY <1>0, <1>1 DEF RulesLeft, GenType
<1> HIDE DEF nowDue, sn, by, fd, rs, at
<1>7. /\ n \in GenType /\ n.at = at /\ n.rules = rs /\ n.seen = sn /\ n.beyond = by /\ n.steady = gen[g].steady
      /\ n.failed = gen[g].failed
  BY <1>0, <1>3 DEF GenType, AdvicePcs
<1> HIDE DEF m, n
<1>8. \A x \in gen[g].steady : x \in Sources /\ topic[x].kind \in Rules /\ Due(x)
  BY <1>0 DEF GenType, AdviceTypes, SubjectType, Attends
<1>9. Attends(n)
  <2>1. \A x \in n.steady : Due(x) /\ (x \notin n.beyond /\ ~n.failed /\ topic[x].kind \notin n.rules => x \in n.seen)
    BY <1>0, <1>4, <1>5, <1>7, <1>8 DEF Attends
  <2> QED
    BY <2>1, <1>3, <1>7 DEF Attends
<1> QED
  BY <1>0, <1>6, <1>7, <1>9, GenOnly DEF Rule

LEMMA RuleFailsKeeps == ASSUME AdviceInv, NEW g \in Generations, NEW rule \in Rules, RuleFails(g, rule) PROVE AdviceInv'
<1>0. /\ AdviceTypes /\ gen[g] \in GenType /\ Attends(gen[g]) /\ gen[g].at = "rules"
  BY DEF AdviceInv, AdviceTypes, AllAttend, RuleFails
<1> DEFINE rs == gen[g].rules \ {rule}
           at == IF gen[g].rules = {rule} THEN "upsert" ELSE gen[g].at
           n == [[gen[g] EXCEPT !.failed = TRUE] EXCEPT !.rules = rs, !.at = at]
<1>1. rs \subseteq Rules /\ at \in {"rules", "upsert"} /\ (at = "upsert" => rs = {})
  BY <1>0 DEF GenType
<1>2. GenGoes(g, n)
  BY <1>0 DEF RuleFails, RulesLeft, GenType
<1> HIDE DEF rs, at
<1>3. n \in GenType /\ n.at = at /\ n.rules = rs /\ n.failed /\ n.steady = gen[g].steady
  BY <1>0, <1>1 DEF GenType, AdvicePcs
<1> HIDE DEF n
<1>4. Attends(n)
  BY <1>0, <1>1, <1>3 DEF Attends
<1>5. ruleFailures' \in 0..MaxRuleFailures /\ UNCHANGED <<topic, advice, wronged, shifts>>
  BY <1>0, AdviceAssumption DEF RuleFails, AdviceTypes
<1> QED
  BY <1>2, <1>3, <1>4, <1>5, GenOnly

LEMMA UpsertKeeps == ASSUME AdviceInv, NEW g \in Generations, Upsert(g) PROVE AdviceInv'
<1>0. /\ AdviceTypes /\ AllAttend /\ gen[g] \in GenType /\ Attends(gen[g]) /\ gen[g].at = "upsert"
  BY DEF AdviceInv, AdviceTypes, AllAttend, Upsert
<1>1. PICK f \in gen[g].found :
        /\ advice' = [advice EXCEPT ![f.of] = [state |-> IF @.state = "none" THEN "new" ELSE @.state,
                                               priority |-> f.priority]]
        /\ GenGoes(g, [gen[g] EXCEPT !.found = @ \ {f}])
  BY DEF Upsert
<1>2. f.of \in Sources /\ f.priority \in Priorities
  BY <1>0 DEF GenType, AdvisedType
<1> DEFINE s == IF advice[f.of].state = "none" THEN "new" ELSE advice[f.of].state
           fd == gen[g].found \ {f}
           n == [gen[g] EXCEPT !.found = fd]
<1>3. s \in STATES /\ advice' = [advice EXCEPT ![f.of] = [state |-> s, priority |-> f.priority]]
  BY <1>0, <1>1, <1>2 DEF AdviceTypes, RowType, STATES, OPEN_STATES
<1>4. GenGoes(g, n) /\ fd \subseteq AdvisedType
  BY <1>0, <1>1 DEF GenType
<1> HIDE DEF s, fd
<1>5. advice' \in [Sources -> RowType]
  BY <1>0, <1>2, <1>3 DEF AdviceTypes, RowType
<1>6. n \in GenType /\ n.at = gen[g].at /\ n.rules = gen[g].rules /\ n.seen = gen[g].seen /\ n.failed = gen[g].failed
      /\ n.beyond = gen[g].beyond /\ n.steady = gen[g].steady /\ n.open = gen[g].open
  BY <1>0, <1>4 DEF GenType
<1> HIDE DEF n
<1>7. Attends(n)
  BY <1>0, <1>6 DEF Attends
<1>8. UNCHANGED <<topic, wronged, shifts, ruleFailures>>
  BY DEF Upsert
<1>9. gen' \in [Generations -> GenType] /\ AllAttend'
  BY <1>0, <1>4, <1>6, <1>7, <1>8, GenChanges
<1> QED
  BY <1>0, <1>5, <1>8, <1>9 DEF AdviceInv, AdviceTypes, RetiredInGoodFaith

LEMMA UpsertedKeeps == ASSUME AdviceInv, NEW g \in Generations, Upserted(g) PROVE AdviceInv'
<1>0. /\ AdviceTypes /\ gen[g] \in GenType /\ Attends(gen[g]) /\ gen[g].at = "upsert" /\ ruleFailures \in 0..MaxRuleFailures
      /\ UNCHANGED <<topic, advice, wronged, shifts, ruleFailures>>
  BY DEF AdviceInv, AdviceTypes, AllAttend, Upserted
<1>1. CASE gen[g].failed
  BY <1>0, <1>1, AtRestIsOK, GenOnly DEF Upserted, SkipsRetirement
<1>2. CASE ~gen[g].failed
  <2> DEFINE n == [gen[g] EXCEPT !.at = "list"]
  <2>1. /\ n \in GenType /\ n.at = "list" /\ n.rules = gen[g].rules /\ n.seen = gen[g].seen /\ n.failed = gen[g].failed
        /\ n.beyond = gen[g].beyond /\ n.steady = gen[g].steady
    BY <1>0 DEF GenType, AdvicePcs
  <2>2. GenGoes(g, n)
    BY <1>2 DEF Upserted, SkipsRetirement
  <2> HIDE DEF n
  <2>3. Attends(n)
    BY <2>1, <1>0, <1>2 DEF Attends
  <2> QED
    BY <2>1, <2>2, <2>3, <1>0, GenOnly
<1> QED
  BY <1>1, <1>2

LEMMA ListOpenKeeps == ASSUME AdviceInv, NEW g \in Generations, ListOpen(g) PROVE AdviceInv'
<1>0. /\ AdviceTypes /\ gen[g] \in GenType /\ Attends(gen[g]) /\ gen[g].at = "list" /\ ruleFailures \in 0..MaxRuleFailures
      /\ UNCHANGED <<topic, advice, wronged, shifts, ruleFailures>>
  BY DEF AdviceInv, AdviceTypes, AllAttend, ListOpen
<1> DEFINE o == {x \in Sources : advice[x].state \in OPEN_STATES} \ gen[g].seen
           n == [gen[g] EXCEPT !.at = "retire", !.open = o]
<1>1. o \subseteq Sources /\ o \cap gen[g].seen = {} /\ GenGoes(g, n)
  BY DEF ListOpen
<1> HIDE DEF o
<1>2. /\ n \in GenType /\ n.at = "retire" /\ n.rules = gen[g].rules /\ n.seen = gen[g].seen /\ n.failed = gen[g].failed
      /\ n.beyond = gen[g].beyond /\ n.steady = gen[g].steady /\ n.open = o
  BY <1>0, <1>1 DEF GenType, AdvicePcs
<1> HIDE DEF n
<1>3. Attends(n)
  BY <1>0, <1>1, <1>2 DEF Attends
<1> QED
  BY <1>0, <1>1, <1>2, <1>3, GenOnly

(* The row that is retired had no reason all along, or was beyond the page. *)
LEMMA RetireKeeps == ASSUME AdviceInv, NEW g \in Generations, Retire(g) PROVE AdviceInv'
<1>0. /\ AdviceTypes /\ AllAttend /\ gen[g] \in GenType /\ Attends(gen[g]) /\ gen[g].at = "retire"
      /\ ruleFailures \in 0..MaxRuleFailures /\ UNCHANGED <<topic, shifts, ruleFailures>> /\ wronged = {}
  BY DEF AdviceInv, AdviceTypes, AllAttend, Retire, RetiredInGoodFaith
<1>1. CASE gen[g].open = {}
  BY <1>0, <1>1, AtRestIsOK, GenOnly DEF Retire
<1>2. CASE gen[g].open # {}
  <2>1. PICK x \in gen[g].open :
          /\ advice' = [advice EXCEPT ![x].state = "completed"]
          /\ GenGoes(g, [gen[g] EXCEPT !.open = @ \ {x}])
          /\ wronged' = wronged \cup ({x} \cap (gen[g].steady \ gen[g].beyond))
    BY <1>2 DEF Retire
  <2> DEFINE o == gen[g].open \ {x}
             n == [gen[g] EXCEPT !.open = o]
  <2>2. GenGoes(g, n) /\ o \subseteq gen[g].open
    BY <1>0, <2>1 DEF GenType
  <2> HIDE DEF o
  <2>3. /\ n \in GenType /\ n.at = gen[g].at /\ n.rules = gen[g].rules /\ n.seen = gen[g].seen
        /\ n.failed = gen[g].failed /\ n.beyond = gen[g].beyond /\ n.steady = gen[g].steady /\ n.open = o
    BY <1>0, <2>2 DEF GenType
  <2> HIDE DEF n
  <2>4. Attends(n)
    BY <1>0, <2>2, <2>3 DEF Attends
  <2>5. gen' \in [Generations -> GenType] /\ AllAttend'
    BY <1>0, <2>2, <2>3, <2>4, GenChanges
  <2>6. advice' \in [Sources -> RowType]
    BY <1>0, <2>1 DEF AdviceTypes, RowType, STATES
  <2>7. ~gen[g].failed /\ gen[g].rules = {} /\ x \notin gen[g].seen
    BY <1>0 DEF Attends
  <2>8. x \notin gen[g].steady \ gen[g].beyond
    BY <1>0, <2>7 DEF Attends
  <2>9. wronged' = {}
    BY <1>0, <2>1, <2>8
  <2> QED
    BY <1>0, <2>5, <2>6, <2>9 DEF AdviceInv, AdviceTypes, RetiredInGoodFaith
<1> QED
  BY <1>1, <1>2

LEMMA GenStopsKeeps == ASSUME AdviceInv, NEW g \in Generations, GenStops(g) PROVE AdviceInv'
<1>1. ruleFailures' \in 0..MaxRuleFailures
  BY AdviceAssumption DEF AdviceInv, AdviceTypes, GenStops
<1> QED
  BY <1>1, AtRestIsOK, GenOnly DEF GenStops

-----------------------------------------------------------------------------
LEMMA AdviceInvInit == AdviceInit => AdviceInv
<1> SUFFICES ASSUME AdviceInit PROVE AdviceInv
  OBVIOUS
<1>1. topic \in [Sources -> SubjectType]
  BY DEF AdviceInit
<1>2. advice \in [Sources -> RowType]
  BY DEF AdviceInit, RowType
<1>3. gen \in [Generations -> GenType] /\ AllAttend
  BY AtRestIsOK DEF AdviceInit, AllAttend
<1>4. shifts \in 0..MaxShifts /\ ruleFailures \in 0..MaxRuleFailures /\ wronged = {}
  BY AdviceAssumption DEF AdviceInit
<1> QED
  BY <1>1, <1>2, <1>3, <1>4 DEF AdviceInv, AdviceTypes, RetiredInGoodFaith

LEMMA AdviceInvStep == AdviceInv /\ [AdviceNext]_adviceVars => AdviceInv'
<1> SUFFICES ASSUME AdviceInv, [AdviceNext]_adviceVars PROVE AdviceInv'
  OBVIOUS
<1>1. CASE UNCHANGED adviceVars
  <2>1. AllAttend'
    BY <1>1 DEF AdviceInv, adviceVars, AllAttend, Attends, Due
  <2> QED
    BY <2>1, <1>1 DEF AdviceInv, adviceVars, AdviceTypes, RetiredInGoodFaith
<1>2. ASSUME NEW x \in Sources, NEW s \in SituationsOf[topic[x].kind], ChangeSubject(x, s) PROVE AdviceInv'
  BY <1>2, ChangeSubjectKeeps
<1>3. ASSUME NEW x \in Sources, NEW st \in STATES, SetState(x, st) PROVE AdviceInv'
  BY <1>3, SetStateKeeps
<1>4. ASSUME NEW g \in Generations, BeginGeneration(g) \/ GenStep(g) \/ GenStops(g) \/ \E rule \in Rules : RuleFails(g, rule)
      PROVE  AdviceInv'
  BY <1>4, BeginKeeps, RuleKeeps, UpsertKeeps, UpsertedKeeps, ListOpenKeeps, RetireKeeps, GenStopsKeeps, RuleFailsKeeps
     DEF GenStep
<1> QED
  BY <1>1, <1>2, <1>3, <1>4 DEF AdviceNext

(***************************************************************************)
(* However many sources, generations and failures: no row is retired whose *)
(* reason held throughout, but one beyond the page of its rule (generate). *)
(***************************************************************************)
THEOREM RowsAreRetiredInGoodFaith == AdviceSpec => [](AdviceTypeOK /\ RetiredInGoodFaith)
<1>1. AdviceInv => AdviceTypeOK /\ RetiredInGoodFaith
  BY AdviceTypesOK DEF AdviceInv
<1> QED
  BY <1>1, AdviceInvInit, AdviceInvStep, PTL DEF AdviceSpec
=============================================================================
