------------------------------ MODULE WorkQueue ------------------------------
(***************************************************************************)
(* backend/work_queue.py: the durable queue.  Producers enqueue, the ticks *)
(* of run_worker_tick recover, claim and process, operators resolve and    *)
(* replay.  A worker is an identity that a tick runs under.  It names the  *)
(* cron delivery, so a redelivered one is used again, by a tick that finds *)
(* the items an earlier tick died with still leased to it.                 *)
(*                                                                         *)
(* The calls that read and then update conditionally re-assert in the      *)
(* update all that the read established, so each is one action; resolve()  *)
(* does not on its terminal branch, so it is two.                          *)
(*                                                                         *)
(* Time is abstracted to due (available_at has passed) and expired         *)
(* (lease_expires_at has passed).  Priorities and the rotation over        *)
(* tenants are abstracted to a free choice among the due items.            *)
(***************************************************************************)
EXTENDS Naturals, FiniteSets

CONSTANTS Items,         \* work item ids; their number bounds the items raised
          Keys,          \* dedupe keys
          Workers,       \* worker ticks
          Resolvers,     \* callers of resolve() between its read and its write
          MaxAttempts,   \* max_attempts, the same for every item
          BatchLimit,    \* the limit of one claim
          NoKey, NoWorker, NoItem

ASSUME WorkAssumption ==
  /\ MaxAttempts \in Nat \ {0}
  /\ BatchLimit \in Nat \ {0}
  /\ NoKey \notin Keys /\ NoWorker \notin Workers /\ NoItem \notin Items

VARIABLES
  status,             \* status, "absent" before the insert
  kind,               \* handled, unhandled (no handler) or operator (never claimed)
  due,                \* available_at <= now
  lease_owner, expired, attempts,
  dedupe_key, active_dedupe_key,
  worker,             \* a tick: its stage, the batch in hand, the item it runs
  resolver,           \* resolve() between its read and its write
  starts,             \* history: handler runs since the item was last queued anew
  overwritten         \* history: open items a resolve() took for terminal

itemVars == <<status, kind, due, lease_owner, expired, attempts, dedupe_key,
              active_dedupe_key>>
vars == <<itemVars, worker, resolver, starts, overwritten>>

OpenStates     == {"queued", "claimed", "processing", "retry_scheduled"}
LeasedStates   == {"claimed", "processing"}
WaitingStates  == {"queued", "retry_scheduled"}
TerminalStates == {"completed", "dead_letter"}

(* ALLOWED_TRANSITIONS; no code path writes `failed'. *)
ALLOWED_TRANSITIONS ==
  [queued          |-> {"claimed", "completed", "failed", "dead_letter"},
   retry_scheduled |-> {"claimed", "completed", "failed", "dead_letter"},
   claimed         |-> {"processing", "completed", "retry_scheduled", "failed",
                        "dead_letter", "queued"},
   processing      |-> {"completed", "retry_scheduled", "failed", "dead_letter", "queued"},
   dead_letter     |-> {"queued"},
   completed       |-> {}]

Kinds == {"handled", "unhandled", "operator"}

TypeOK ==
  /\ status \in [Items -> OpenStates \cup TerminalStates \cup {"absent"}]
  /\ kind \in [Items -> Kinds]
  /\ due \in [Items -> BOOLEAN]
  /\ lease_owner \in [Items -> Workers \cup {NoWorker}]
  /\ expired \in [Items -> BOOLEAN]
  /\ attempts \in [Items -> Nat]
  /\ dedupe_key \in [Items -> Keys \cup {NoKey}]
  /\ active_dedupe_key \in [Items -> Keys \cup {NoKey}]
  /\ worker \in [Workers -> [stage : {"idle", "claiming", "working"},
                             batch : SUBSET Items, current : Items \cup {NoItem}]]
  /\ resolver \in [Resolvers -> Items \cup {NoItem}]
  /\ starts \in [Items -> Nat]
  /\ overwritten \subseteq Items

Asleep == [stage |-> "idle", batch |-> {}, current |-> NoItem]

Init ==
  /\ status = [i \in Items |-> "absent"]
  /\ kind = [i \in Items |-> "handled"]
  /\ due = [i \in Items |-> FALSE]
  /\ lease_owner = [i \in Items |-> NoWorker]
  /\ expired = [i \in Items |-> FALSE]
  /\ attempts = [i \in Items |-> 0]
  /\ dedupe_key = [i \in Items |-> NoKey]
  /\ active_dedupe_key = [i \in Items |-> NoKey]
  /\ worker = [w \in Workers |-> Asleep]
  /\ resolver = [o \in Resolvers |-> NoItem]
  /\ starts = [i \in Items |-> 0]
  /\ overwritten = {}

-----------------------------------------------------------------------------
(* The unique index on active_dedupe_key. *)
KeyFree(key) == key = NoKey \/ \A i \in Items : active_dedupe_key[i] # key

(***************************************************************************)
(* enqueue(): insert unless an item holds the key; else it folds into that *)
(* item, which changes nothing modelled here.                              *)
(***************************************************************************)
Enqueue(i, key, k, isDue) ==
  /\ status[i] = "absent"
  /\ KeyFree(key)
  /\ status' = [status EXCEPT ![i] = "queued"]
  /\ kind' = [kind EXCEPT ![i] = k]
  /\ due' = [due EXCEPT ![i] = isDue]
  /\ dedupe_key' = [dedupe_key EXCEPT ![i] = key]
  /\ active_dedupe_key' = [active_dedupe_key EXCEPT ![i] = key]
  /\ UNCHANGED <<lease_owner, expired, attempts, worker, resolver, starts, overwritten>>

(***************************************************************************)
(* _transition(): refused when the table does not list it, when the caller *)
(* is not the owner it claims to be, and when an anonymous caller would    *)
(* finish an item that has an owner.                                       *)
(***************************************************************************)
Anonymous == NoWorker
MayMove(i, to, by) ==
  /\ to \in ALLOWED_TRANSITIONS[status[i]]
  /\ by # Anonymous => lease_owner[i] = by
  /\ by = Anonymous /\ to \in TerminalStates => lease_owner[i] = NoWorker

(* The fields every outcome that ends an attempt writes. *)
Release(i, to, key) ==
  /\ status' = [status EXCEPT ![i] = to]
  /\ lease_owner' = [lease_owner EXCEPT ![i] = NoWorker]
  /\ expired' = [expired EXCEPT ![i] = FALSE]
  /\ active_dedupe_key' = [active_dedupe_key EXCEPT ![i] = key]
  /\ UNCHANGED <<kind, dedupe_key>>

Finish(i, to) == Release(i, to, NoKey) /\ UNCHANGED <<due, attempts>>

Retry(i) == /\ Release(i, "retry_scheduled", active_dedupe_key[i])
            /\ due' = [due EXCEPT ![i] = FALSE]
            /\ UNCHANGED attempts

(* Mutant: one attempt too many. *)
FailureStatusOffByOne(i, retryable) ==
  IF ~retryable \/ attempts[i] > MaxAttempts THEN "dead_letter" ELSE "retry_scheduled"

(* fail() and recovery: dead-letter when the attempts are used up. *)
FailureStatus(i, retryable) ==
  IF ~retryable \/ attempts[i] >= MaxAttempts THEN "dead_letter" ELSE "retry_scheduled"

Fail(i, retryable) == IF FailureStatus(i, retryable) = "dead_letter"
                      THEN Finish(i, "dead_letter") ELSE Retry(i)

-----------------------------------------------------------------------------
(* Mutant: the recovery trusts its cursor and does not re-assert the expiry. *)
RecoverAnyLease(i) ==
  /\ status[i] \in LeasedStates
  /\ MayMove(i, FailureStatus(i, TRUE), Anonymous)
  /\ Fail(i, TRUE)
  /\ UNCHANGED <<worker, resolver, starts, overwritten>>

(* Mutant: a first attempt is not thought worth recovering. *)
RecoverSecondAttempt(i) ==
  /\ status[i] \in LeasedStates
  /\ expired[i]
  /\ attempts[i] > 1
  /\ MayMove(i, FailureStatus(i, TRUE), Anonymous)
  /\ Fail(i, TRUE)
  /\ UNCHANGED <<worker, resolver, starts, overwritten>>

(***************************************************************************)
(* recover_expired_leases(): every tick begins with it.  The recovery is   *)
(* an anonymous caller, so of an exhausted item the move to dead_letter is *)
(* refused and the refusal swallowed: no step.                             *)
(***************************************************************************)
Recover(i) ==
  /\ status[i] \in LeasedStates
  /\ expired[i]
  /\ MayMove(i, FailureStatus(i, TRUE), Anonymous)
  /\ Fail(i, TRUE)
  /\ UNCHANGED <<worker, resolver, starts, overwritten>>

(* A tick begins. *)
StartTick(w) ==
  /\ worker[w] = Asleep
  /\ worker' = [worker EXCEPT ![w].stage = "claiming"]
  /\ UNCHANGED <<itemVars, resolver, starts, overwritten>>

Claimable(i) == status[i] \in WaitingStates /\ due[i] /\ kind[i] # "operator"

(* _claim_one: one atomic update; claim() repeats it up to its limit. *)
Claim(w, i) ==
  /\ worker[w].stage = "claiming"
  /\ Cardinality(worker[w].batch) < BatchLimit
  /\ Claimable(i)
  /\ status' = [status EXCEPT ![i] = "claimed"]
  /\ lease_owner' = [lease_owner EXCEPT ![i] = w]
  /\ expired' = [expired EXCEPT ![i] = FALSE]
  /\ attempts' = [attempts EXCEPT ![i] = @ + 1]
  /\ worker' = [worker EXCEPT ![w].batch = @ \cup {i}]
  /\ UNCHANGED <<kind, due, dedupe_key, active_dedupe_key, resolver, starts, overwritten>>

StopClaiming(w) ==
  /\ worker[w].stage = "claiming"
  /\ \/ Cardinality(worker[w].batch) >= BatchLimit
     \/ \A i \in Items : ~Claimable(i)
  /\ worker' = [worker EXCEPT ![w].stage = "working"]
  /\ UNCHANGED <<itemVars, resolver, starts, overwritten>>

(* The item a tick turns to next; its lease may be long gone. *)
Turn(w, i) == worker[w].stage = "working" /\ worker[w].current = NoItem
              /\ i \in worker[w].batch

Drop(w, i) == worker' = [worker EXCEPT ![w] =
                [stage |-> "working", batch |-> @.batch \ {i}, current |-> NoItem]]

(* Mutant: start_processing does not say who starts. *)
StartProcessingAnonymously(w, i) ==
  /\ Turn(w, i) /\ kind[i] # "unhandled"
  /\ status[i] \in LeasedStates
  /\ status' = [status EXCEPT ![i] = "processing"]
  /\ worker' = [worker EXCEPT ![w].current = i]
  /\ starts' = [starts EXCEPT ![i] = @ + 1]
  /\ UNCHANGED <<kind, due, lease_owner, expired, attempts, dedupe_key,
                 active_dedupe_key, resolver, overwritten>>

(* start_processing, and then the handler runs. *)
StartProcessing(w, i) ==
  /\ Turn(w, i) /\ kind[i] # "unhandled"
  /\ MayMove(i, "processing", w)
  /\ status' = [status EXCEPT ![i] = "processing"]
  /\ worker' = [worker EXCEPT ![w].current = i]
  /\ starts' = [starts EXCEPT ![i] = @ + 1]
  /\ UNCHANGED <<kind, due, lease_owner, expired, attempts, dedupe_key,
                 active_dedupe_key, resolver, overwritten>>

(* No handler for the type: fail(), not retryable. *)
RejectUnhandled(w, i) ==
  /\ Turn(w, i) /\ kind[i] = "unhandled"
  /\ MayMove(i, "dead_letter", w)
  /\ Fail(i, FALSE)
  /\ Drop(w, i)
  /\ UNCHANGED <<resolver, starts, overwritten>>

(* The heartbeat task renews the lease of the item being run, if still held. *)
Heartbeat(w) ==
  LET i == worker[w].current
  IN /\ i # NoItem
     /\ lease_owner[i] = w /\ status[i] \in LeasedStates
     /\ expired' = [expired EXCEPT ![i] = FALSE]
     /\ UNCHANGED <<status, kind, due, lease_owner, attempts, dedupe_key,
                    active_dedupe_key, worker, resolver, starts, overwritten>>

(* The handler returns: complete().  It raises: fail(). *)
Complete(w) ==
  LET i == worker[w].current
  IN /\ i # NoItem
     /\ MayMove(i, "completed", w)
     /\ Finish(i, "completed")
     /\ Drop(w, i)
     /\ UNCHANGED <<resolver, starts, overwritten>>

HandlerFails(w) ==
  LET i == worker[w].current
  IN /\ i # NoItem
     /\ MayMove(i, FailureStatus(i, TRUE), w)
     /\ Fail(i, TRUE)
     /\ Drop(w, i)
     /\ UNCHANGED <<resolver, starts, overwritten>>

(* WorkQueueError: the item moved on without this worker. *)
Lost(w, i) ==
  /\ worker[w].stage = "working"
  /\ \/ Turn(w, i)
     \/ worker[w].current = i
  /\ lease_owner[i] # w
  /\ Drop(w, i)
  /\ UNCHANGED <<itemVars, resolver, starts, overwritten>>

EndTick(w) ==
  /\ worker[w].stage = "working" /\ worker[w].batch = {}
  /\ worker' = [worker EXCEPT ![w] = Asleep]
  /\ UNCHANGED <<itemVars, resolver, starts, overwritten>>

Crash(w) ==
  /\ worker[w].stage # "idle"
  /\ worker' = [worker EXCEPT ![w] = Asleep]
  /\ UNCHANGED <<itemVars, resolver, starts, overwritten>>

-----------------------------------------------------------------------------
(***************************************************************************)
(* resolve().  An item in a worker's hands is refused.  An item read as    *)
(* waiting is completed through _transition, which re-reads it.  An item   *)
(* read as terminal is rewritten unconditionally, by a second step.        *)
(***************************************************************************)
ResolveOpen(i) ==
  /\ status[i] \in OpenStates
  /\ MayMove(i, "completed", Anonymous)
  /\ Finish(i, "completed")
  /\ UNCHANGED <<worker, resolver, starts, overwritten>>

ResolveRead(o, i) ==
  /\ resolver[o] = NoItem
  /\ status[i] \in TerminalStates
  /\ resolver' = [resolver EXCEPT ![o] = i]
  /\ UNCHANGED <<itemVars, worker, starts, overwritten>>

ResolveWrite(o) ==
  LET i == resolver[o]
  IN /\ i # NoItem
     /\ Finish(i, status[i])
     /\ resolver' = [resolver EXCEPT ![o] = NoItem]
     /\ overwritten' = IF status[i] \in OpenStates THEN overwritten \cup {i} ELSE overwritten
     /\ UNCHANGED <<worker, starts>>

(* Mutant: the replayed item does not take its key again. *)
ReplayKeyless(i) ==
  /\ status[i] = "dead_letter"
  /\ MayMove(i, "queued", Anonymous)
  /\ Release(i, "queued", NoKey)
  /\ attempts' = [attempts EXCEPT ![i] = 0]
  /\ due' = [due EXCEPT ![i] = TRUE]
  /\ starts' = [starts EXCEPT ![i] = 0]
  /\ UNCHANGED <<worker, resolver, overwritten>>

(* replay(): the key is taken again, if the index lets it. *)
Replay(i) ==
  /\ status[i] = "dead_letter"
  /\ MayMove(i, "queued", Anonymous)
  /\ KeyFree(dedupe_key[i])
  /\ Release(i, "queued", dedupe_key[i])
  /\ attempts' = [attempts EXCEPT ![i] = 0]
  /\ due' = [due EXCEPT ![i] = TRUE]
  /\ starts' = [starts EXCEPT ![i] = 0]
  /\ UNCHANGED <<worker, resolver, overwritten>>

(* Time. *)
BecomeDue(i) ==
  /\ status[i] \in WaitingStates /\ ~due[i]
  /\ due' = [due EXCEPT ![i] = TRUE]
  /\ UNCHANGED <<status, kind, lease_owner, expired, attempts, dedupe_key,
                 active_dedupe_key, worker, resolver, starts, overwritten>>

LeaseExpires(i) ==
  /\ lease_owner[i] # NoWorker /\ ~expired[i]
  /\ expired' = [expired EXCEPT ![i] = TRUE]
  /\ UNCHANGED <<status, kind, due, lease_owner, attempts, dedupe_key,
                 active_dedupe_key, worker, resolver, starts, overwritten>>

ItemNext(i) ==
  \/ \E key \in Keys \cup {NoKey}, k \in Kinds, d \in BOOLEAN : Enqueue(i, key, k, d)
  \/ Recover(i) \/ ResolveOpen(i) \/ Replay(i) \/ BecomeDue(i) \/ LeaseExpires(i)

WorkerNext(w) ==
  \/ StartTick(w) \/ StopClaiming(w) \/ EndTick(w) \/ Crash(w)
  \/ Heartbeat(w) \/ Complete(w) \/ HandlerFails(w)
  \/ \E i \in Items : \/ Claim(w, i) \/ StartProcessing(w, i)
                      \/ RejectUnhandled(w, i) \/ Lost(w, i)

Next ==
  \/ \E i \in Items : ItemNext(i)
  \/ \E w \in Workers : WorkerNext(w)
  \/ \E o \in Resolvers : ResolveWrite(o) \/ \E i \in Items : ResolveRead(o, i)

Spec == Init /\ [][Next]_vars

(***************************************************************************)
(* Fairness: clocks advance; the scheduler keeps starting ticks; each tick *)
(* recovers first; not every tick dies before it claims an item that stays *)
(* due; and a tick that does not die works through its batch, its handlers *)
(* returning or raising in the end.  Operators owe nothing.                *)
(***************************************************************************)
Work(w) == StopClaiming(w) \/ EndTick(w) \/ Complete(w) \/ HandlerFails(w)
           \/ \E i \in Items : \/ Claim(w, i) \/ StartProcessing(w, i)
                               \/ RejectUnhandled(w, i) \/ Lost(w, i)

Fairness ==
  /\ \A i \in Items : /\ WF_vars(BecomeDue(i)) /\ WF_vars(LeaseExpires(i))
                      /\ WF_vars(Recover(i))
                      /\ SF_vars(\E w \in Workers : Claim(w, i))
  /\ \A w \in Workers : WF_vars(StartTick(w)) /\ WF_vars(Work(w))

FairSpec == Spec /\ Fairness

-----------------------------------------------------------------------------
Leased(i) == status[i] \in LeasedStates
Open(i)   == status[i] \in OpenStates

(***************************************************************************)
(* A leased item has an owner and no other item has one, whatever ticks    *)
(* crash, stall or overtake each other; an item waiting for a worker has   *)
(* an attempt left.  A resolve() that raced a replay voids it.             *)
(***************************************************************************)
LeaseDiscipline ==
  \A i \in Items :
    /\ i \notin overwritten => (Leased(i) <=> lease_owner[i] # NoWorker)
    /\ ~Leased(i) => lease_owner[i] = NoWorker
    /\ status[i] \in WaitingStates => attempts[i] < MaxAttempts
    /\ attempts[i] <= MaxAttempts

(***************************************************************************)
(* Between two replays a handler runs at most max_attempts times: a batch  *)
(* in the hands of a tick whose leases ran out starts nothing.             *)
(***************************************************************************)
StartsBounded == \A i \in Items : starts[i] <= attempts[i]

(***************************************************************************)
(* At most one open item exists per dedupe key, but for a resolve() that   *)
(* raced a replay; a closed item holds no key.                             *)
(***************************************************************************)
OneOpenItemPerKey ==
  /\ \A i \in Items : active_dedupe_key[i] # NoKey => Open(i)
  /\ \A i, j \in Items \ overwritten :
       Open(i) /\ Open(j) /\ dedupe_key[i] = dedupe_key[j] /\ dedupe_key[i] # NoKey => i = j

(***************************************************************************)
(* While a lease has not expired only the worker that holds it can end the *)
(* attempt: no recovery, operator or stale tick takes the item away.       *)
(***************************************************************************)
Holds(w, i) == i \in worker[w].batch
LiveLeaseIsSafe ==
  [][\A i \in Items, w \in Workers :
       /\ lease_owner[i] = w /\ ~expired[i] /\ Holds(w, i) /\ Holds(w, i)'
       /\ i \notin overwritten'
       => lease_owner'[i] = w]_vars

(***************************************************************************)
(* No item is worked on forever: it is completed or dead-lettered, waits   *)
(* for an operator, or is lost: stranded on its last lease (a finding), or *)
(* rewritten by a resolve() that raced a replay.                           *)
(***************************************************************************)
Stranded(i) == Leased(i) /\ expired[i] /\ attempts[i] >= MaxAttempts
WorkEnds ==
  \A i \in Items : []<>(~Open(i) \/ kind[i] = "operator" \/ Stranded(i) \/ i \in overwritten)

(***************************************************************************)
(* What recover_expired_leases promises: work is never stranded.           *)
(***************************************************************************)
NeverStranded ==
  \A i \in Items : Leased(i) /\ expired[i] ~> ~(Leased(i) /\ expired[i])

(***************************************************************************)
(* What the queue promises of its items and their keys.                    *)
(***************************************************************************)
WorkHolds == TypeOK /\ StartsBounded /\ OneOpenItemPerKey
=============================================================================
