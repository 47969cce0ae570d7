---------------------------- MODULE SaleLedger ----------------------------
(***************************************************************************)
(* One deal, the recovery cases on it, and the ledger that books its sale  *)
(* (backend/attribution.py, recovery_reconcile.py, recovery_lifecycle.py). *)
(* record_outcome() is called by an admin or by a reconciliation sweep; a  *)
(* sweep reads the open cases, the deal, the entries in flight and the     *)
(* contact, one after the other, and closes or records on what it read.    *)
(* The deal, its messages and the records behind the cases go on moving.   *)
(*                                                                         *)
(* All cases know the deal, so every outcome is one sale (sale_key), and   *)
(* the ledger holds at most one entry for it, by its unique index.  A move *)
(* of a case and the read it rests on are one step here: RecoveryCase.tla  *)
(* has them apart.  Of the messages, contact says that one reached the     *)
(* client, and faded that it is older than the attribution window.         *)
(***************************************************************************)
EXTENDS Integers, FiniteSets

CONSTANTS
  NCases,         \* cases 1..NCases, the earliest first
  Recorders,      \* requests of admins in hand at once
  Sweepers,       \* sweeps in hand at once
  MaxMoves,       \* bound on what happens around them: see MoveDeal and below
  MaxLedgerDeaths

ASSUME LedgerAssumption == NCases \in Nat /\ MaxMoves \in Nat /\ MaxLedgerDeaths \in Nat

VARIABLES
  dealStage,  \* open, won or lost
  casing,     \* recovery_cases: the state of each
  confirmed,  \* the case whose confirmed_value is set, or 0
  reachedBy,  \* per case: none, contact, or faded
  record,     \* per case: what the record behind it says
  entry,      \* attribution_entries: the sale's entry
  recording,  \* the calls
  moves,
  ledgerDeaths

ledgerVars == <<dealStage, casing, confirmed, reachedBy, record, entry, recording, moves, ledgerDeaths>>

Cases == 1..NCases
LedgerCallers == Recorders \cup Sweepers
OpenStates == {"waiting", "executing", "engaged"}
IsOpen(c) == casing[c] \in OpenStates
NoEntry == [of |-> 0, claim |-> FALSE, since |-> "none"]
RecordingPcs == {"idle", "deal", "flight", "ledger", "engage", "settle", "verdicts", "look", "replay", "derive",
             "insert", "sync", "confirm", "closeAfter", "finish", "close"}
NoRecording == [at |-> "idle", sweep |-> FALSE, of |-> 0, open |-> {}, engaged |-> {}, stage |-> "open",
                contact |-> FALSE, updated |-> FALSE]

LedgerTypeOK ==
  /\ dealStage \in {"open", "won", "lost"}
  /\ casing \in [Cases -> OpenStates \cup {"recovered", "closed"}]
  /\ confirmed \in 0..NCases
  /\ reachedBy \in [Cases -> {"none", "contact", "faded"}]
  /\ record \in [Cases -> {"unresolved", "answered", "ended"}]
  /\ entry \in [of : 0..NCases, claim : BOOLEAN, since : {"none", "fresh", "stale"}]
  /\ recording \in [LedgerCallers ->
       [at : RecordingPcs, sweep : BOOLEAN, of : 0..NCases, open : SUBSET Cases, engaged : SUBSET Cases,
        stage : {"open", "won", "lost"}, contact : BOOLEAN, updated : BOOLEAN]]
  /\ moves \in 0..MaxMoves /\ ledgerDeaths \in 0..MaxLedgerDeaths

LedgerInit ==
  /\ dealStage = "open" /\ casing \in [Cases -> {"waiting", "executing"}] /\ confirmed = 0
  /\ reachedBy = [c \in Cases |-> "none"] /\ record = [c \in Cases |-> "unresolved"]
  /\ entry = NoEntry /\ recording = [r \in LedgerCallers |-> NoRecording]
  /\ moves = 0 /\ ledgerDeaths = 0

-----------------------------------------------------------------------------
(* The deal's stage, the runner and the messages, the records behind the    *)
(* cases, an operator closing a case, and time.                             *)
MoveDeal ==
  /\ moves < MaxMoves /\ moves' = moves + 1
  /\ dealStage' \in {"open", "won", "lost"} \ {dealStage}
  /\ UNCHANGED <<casing, confirmed, reachedBy, record, entry, recording, ledgerDeaths>>

MoveCase(c) ==
  /\ moves < MaxMoves /\ moves' = moves + 1
  /\ \/ casing[c] = "waiting" /\ casing' = [casing EXCEPT ![c] = "executing"] /\ UNCHANGED reachedBy
     \/ casing[c] = "executing" /\ reachedBy' = [reachedBy EXCEPT ![c] = "contact"] /\ UNCHANGED casing
     \/ IsOpen(c) /\ casing' = [casing EXCEPT ![c] = "closed"] /\ UNCHANGED reachedBy
  /\ UNCHANGED <<dealStage, confirmed, record, entry, recording, ledgerDeaths>>

ResolveRecord(c) ==
  /\ moves < MaxMoves /\ moves' = moves + 1
  /\ record' \in {[record EXCEPT ![c] = s] : s \in {"answered", "ended"} \ {record[c]}}
  /\ UNCHANGED <<dealStage, casing, confirmed, reachedBy, entry, recording, ledgerDeaths>>

Fade(c) ==
  /\ moves < MaxMoves /\ moves' = moves + 1
  /\ reachedBy[c] = "contact" /\ reachedBy' = [reachedBy EXCEPT ![c] = "faded"]
  /\ UNCHANGED <<dealStage, casing, confirmed, record, entry, recording, ledgerDeaths>>

(* IN_FLIGHT_SECONDS pass. *)
GoStale ==
  /\ entry.since = "fresh" /\ entry' = [entry EXCEPT !.since = "stale"]
  /\ UNCHANGED <<dealStage, casing, confirmed, reachedBy, record, recording, moves, ledgerDeaths>>

-----------------------------------------------------------------------------
Doing(r, pc) == recording[r].at = pc
Proceeds(r, pc) == recording' = [recording EXCEPT ![r].at = pc]
Finishes(r) == recording' = [recording EXCEPT ![r] = NoRecording]
ClosedIfOpen(c) == IF IsOpen(c) THEN [casing EXCEPT ![c] = "closed"] ELSE casing

(* A duplicate, a refusal or an entry: an admin is told; a sweep closes the *)
(* cases that share the sale.                                               *)
AfterRecord(r, left) ==
  recording' = [recording EXCEPT ![r] = IF @.sweep THEN [@ EXCEPT !.at = "close", !.open = left] ELSE NoRecording]

(* POST /attribution/outcomes: the outcome is read from its own record. *)
AskToRecord(r, c) ==
  /\ r \in Recorders /\ recording[r] = NoRecording /\ dealStage = "won"
  /\ recording' = [recording EXCEPT ![r] = [NoRecording EXCEPT !.at = "look", !.of = c]]
  /\ UNCHANGED <<dealStage, casing, confirmed, reachedBy, record, entry, moves, ledgerDeaths>>

(* _existing_for_sale(): this case's own entry is returned, and the case    *)
(* closed if it was left open; another case's is refused.                   *)
LookForSale(r) ==
  /\ Doing(r, "look")
  /\ LET c == recording[r].of IN
       CASE recording[r].sweep /\ dealStage # "won" -> AfterRecord(r, recording[r].open)
         [] entry.of = 0 -> Proceeds(r, "derive")
         [] entry.of = c -> Proceeds(r, "replay")
         [] OTHER -> AfterRecord(r, recording[r].open)
  /\ UNCHANGED <<dealStage, casing, confirmed, reachedBy, record, entry, moves, ledgerDeaths>>

Replay(r) ==
  /\ Doing(r, "replay")
  /\ casing' = ClosedIfOpen(recording[r].of)
  /\ AfterRecord(r, recording[r].open \ {recording[r].of})
  /\ UNCHANGED <<dealStage, confirmed, reachedBy, record, entry, moves, ledgerDeaths>>

(* derive_basis(): a message that reached the client, within the window.    *)
DeriveBasis(r) ==
  /\ Doing(r, "derive")
  /\ recording' = [recording EXCEPT ![r].at = "insert", ![r].contact = reachedBy[recording[r].of] = "contact"]
  /\ UNCHANGED <<dealStage, casing, confirmed, reachedBy, record, entry, moves, ledgerDeaths>>

(* Written unattributed, and in flight if there is something to confirm;    *)
(* refused by the index when another writer was first.                      *)
InsertEntry(r) ==
  /\ Doing(r, "insert")
  /\ IF entry.of = 0
     THEN /\ entry' = [of |-> recording[r].of, claim |-> FALSE,
                       since |-> IF recording[r].contact THEN "fresh" ELSE "none"]
          /\ Proceeds(r, IF recording[r].contact THEN "sync" ELSE "closeAfter")
     ELSE /\ AfterRecord(r, recording[r].open \ IF entry.of = recording[r].of THEN {entry.of} ELSE {})
          /\ UNCHANGED entry
  /\ UNCHANGED <<dealStage, casing, confirmed, reachedBy, record, moves, ledgerDeaths>>

(* sync_engagement() *)
Engaged(c) == IF casing[c] = "executing" /\ reachedBy[c] # "none" THEN "engaged" ELSE casing[c]

SyncEngagement(r) ==
  /\ Doing(r, "sync")
  /\ casing' = [casing EXCEPT ![recording[r].of] = Engaged(recording[r].of)]
  /\ Proceeds(r, "confirm")
  /\ UNCHANGED <<dealStage, confirmed, reachedBy, record, entry, moves, ledgerDeaths>>

(* confirm_recovery(): the state and the confirmed value in one write. *)
ConfirmRecovery(r) ==
  /\ Doing(r, "confirm")
  /\ LET c == recording[r].of IN
       IF casing[c] = "engaged"
       THEN /\ casing' = [casing EXCEPT ![c] = "recovered"] /\ confirmed' = c
            /\ recording' = [recording EXCEPT ![r].at = "finish", ![r].updated = TRUE]
       ELSE Proceeds(r, "closeAfter") /\ UNCHANGED <<casing, confirmed>>
  /\ UNCHANGED <<dealStage, reachedBy, record, entry, moves, ledgerDeaths>>

CloseAfter(r) ==
  /\ Doing(r, "closeAfter")
  /\ casing' = ClosedIfOpen(recording[r].of) /\ Proceeds(r, "finish")
  /\ UNCHANGED <<dealStage, confirmed, reachedBy, record, entry, moves, ledgerDeaths>>

(* Attributed only if the case could be confirmed, whatever the basis.      *)
ClaimsByBasis(r) == recording[r].contact  \* mutant
Claims(r) == recording[r].updated

FinishEntry(r) ==
  /\ Doing(r, "finish")
  /\ entry' = [entry EXCEPT !.claim = Claims(r), !.since = "none"]
  /\ AfterRecord(r, recording[r].open \ {recording[r].of})
  /\ UNCHANGED <<dealStage, casing, confirmed, reachedBy, record, moves, ledgerDeaths>>

-----------------------------------------------------------------------------
(* _reconcile(): the open cases, as they are now; *)
ReadCases(r) ==
  /\ r \in Sweepers /\ recording[r] = NoRecording
  /\ LET s == {c \in Cases : IsOpen(c)} IN
       /\ s # {}
       /\ recording' = [recording EXCEPT ![r] = [NoRecording EXCEPT
            !.at = "deal", !.sweep = TRUE, !.open = s, !.engaged = {c \in s : casing[c] = "engaged"}]]
  /\ UNCHANGED <<dealStage, casing, confirmed, reachedBy, record, entry, moves, ledgerDeaths>>

(* the deal; *)
ReadDealStage(r) ==
  /\ Doing(r, "deal")
  /\ recording' = [recording EXCEPT ![r].at = "flight", ![r].stage = dealStage]
  /\ UNCHANGED <<dealStage, casing, confirmed, reachedBy, record, entry, moves, ledgerDeaths>>

(* _in_flight(): a case being confirmed is left alone, but not for ever;    *)
FreshEntry == entry.since = "fresh"

ReadInFlight(r) ==
  /\ Doing(r, "flight")
  /\ recording' = [recording EXCEPT ![r].at = "ledger",
                                    ![r].open = IF FreshEntry THEN @ \ {entry.of} ELSE @]
  /\ UNCHANGED <<dealStage, casing, confirmed, reachedBy, record, entry, moves, ledgerDeaths>>

(* an open case that has an entry is closed;                                *)
CloseBooked(r) ==
  /\ Doing(r, "ledger")
  /\ casing' = IF entry.of \in recording[r].open THEN ClosedIfOpen(entry.of) ELSE casing
  /\ recording' = [recording EXCEPT ![r].at = "engage", ![r].open = @ \ {entry.of}]
  /\ UNCHANGED <<dealStage, confirmed, reachedBy, record, entry, moves, ledgerDeaths>>

(* contact makes an executing case engaged;                                 *)
EngageCases(r) ==
  /\ Doing(r, "engage")
  /\ LET moved == {c \in recording[r].open : Engaged(c) # casing[c]} IN
       /\ casing' = [c \in Cases |-> IF c \in moved THEN "engaged" ELSE casing[c]]
       /\ recording' = [recording EXCEPT ![r].at = "settle", ![r].engaged = @ \cup moved]
  /\ UNCHANGED <<dealStage, confirmed, reachedBy, record, entry, moves, ledgerDeaths>>

(* a deal that was won is recorded on the case that reached the client, or  *)
(* on the earliest; one that was lost closes them all.                      *)
Claimants(s) == IF \E c \in s : reachedBy[c] # "none" THEN {c \in s : reachedBy[c] # "none"} ELSE s
Earliest(s) == CHOOSE c \in s : \A d \in s : c <= d

SettleSale(r) ==
  /\ Doing(r, "settle")
  /\ LET s == recording[r].open IN
       CASE s = {} -> Finishes(r)
         [] s # {} /\ recording[r].stage = "won" ->
              recording' = [recording EXCEPT ![r].at = "look", ![r].of = Earliest(Claimants(s))]
         [] s # {} /\ recording[r].stage = "lost" -> Proceeds(r, "close")
         [] OTHER -> Proceeds(r, "verdicts")
  /\ UNCHANGED <<dealStage, casing, confirmed, reachedBy, record, entry, moves, ledgerDeaths>>

(* The records behind the cases of an open deal: an ending closes a case    *)
(* (gone, spam, declined, voided); an answer closes it unless it is         *)
(* engaged; engagement older than the window closes it.                     *)
HardVerdict(c) == record[c] = "ended"
SoftVerdict(c) == record[c] = "answered"
WindowElapsed(c) == reachedBy[c] = "faded"

ReadVerdicts(r) ==
  /\ Doing(r, "verdicts")
  /\ LET engaged == recording[r].engaged IN
       recording' = [recording EXCEPT ![r].at = "close", ![r].open =
         {c \in @ : HardVerdict(c) \/ (SoftVerdict(c) /\ c \notin engaged)
                    \/ (WindowElapsed(c) /\ c \in engaged)}]
  /\ UNCHANGED <<dealStage, casing, confirmed, reachedBy, record, entry, moves, ledgerDeaths>>

CloseOne(r) ==
  /\ Doing(r, "close")
  /\ IF recording[r].open = {} THEN Finishes(r) /\ UNCHANGED casing
     ELSE LET c == Earliest(recording[r].open) IN
            casing' = ClosedIfOpen(c) /\ recording' = [recording EXCEPT ![r].open = @ \ {c}]
  /\ UNCHANGED <<dealStage, confirmed, reachedBy, record, entry, moves, ledgerDeaths>>

(* A process dies in a call. *)
RecorderDies(r) ==
  /\ ledgerDeaths < MaxLedgerDeaths /\ recording[r] # NoRecording
  /\ Finishes(r) /\ ledgerDeaths' = ledgerDeaths + 1
  /\ UNCHANGED <<dealStage, casing, confirmed, reachedBy, record, entry, moves>>

RecordStep(r) ==
  \/ LookForSale(r) \/ Replay(r) \/ DeriveBasis(r) \/ InsertEntry(r) \/ SyncEngagement(r)
  \/ ConfirmRecovery(r) \/ CloseAfter(r) \/ FinishEntry(r)

SweepStep(r) ==
  \/ ReadDealStage(r) \/ ReadInFlight(r) \/ CloseBooked(r) \/ EngageCases(r) \/ SettleSale(r) \/ ReadVerdicts(r)
  \/ CloseOne(r)

LedgerNext ==
  \/ MoveDeal \/ GoStale
  \/ \E c \in Cases : MoveCase(c) \/ ResolveRecord(c) \/ Fade(c) \/ \E r \in LedgerCallers : AskToRecord(r, c)
  \/ \E r \in LedgerCallers : RecordStep(r) \/ ReadCases(r) \/ SweepStep(r) \/ RecorderDies(r)

(* A call that runs goes on, the cron starts sweeps, and time passes.       *)
LedgerFairness ==
  /\ WF_ledgerVars(GoStale)
  /\ \A r \in LedgerCallers : WF_ledgerVars(RecordStep(r) \/ SweepStep(r)) /\ WF_ledgerVars(ReadCases(r))

LedgerSpec == LedgerInit /\ [][LedgerNext]_ledgerVars /\ LedgerFairness

-----------------------------------------------------------------------------
(* The ledger claims what a case has confirmed, and no more: a claim has    *)
(* its case recovered with it.  The other way round they agree too, once    *)
(* the calls in hand are through and unless one of them died.               *)
ClaimIsConfirmed == entry.claim => confirmed = entry.of
CaseAgreesWithLedger ==
  (\A r \in LedgerCallers : recording[r] = NoRecording) /\ ledgerDeaths = 0 /\ confirmed # 0 => entry.claim
LedgerAgrees == ClaimIsConfirmed /\ CaseAgreesWithLedger

(* A deal settled for good leaves no case open, whichever sweep, call or    *)
(* death came first: a call that dies does not shield its case for ever.    *)
SettledLeavesPotential ==
  <>[](dealStage # "open") => <>[](\A c \in Cases : ~IsOpen(c))

(***************************************************************************)
(* What the ledger of recovered sales promises.                            *)
(***************************************************************************)
LedgerHolds == [](LedgerTypeOK /\ LedgerAgrees) /\ SettledLeavesPotential
=============================================================================
