----------------------------- MODULE Detection ------------------------------
(***************************************************************************)
(* How what a business let slip becomes a recovery case: the lanes of      *)
(* backend/detectors.py and backend/second_chance.py, the verdicts of      *)
(* backend/recovery_reconcile.py on the cases they opened, and the case,   *)
(* the work item and the reference between them that a sweep writes.       *)
(*                                                                         *)
(* A record is what a lane reads, with the facts that decide: `ripe', its  *)
(* grace has passed; `answered', somebody responded on it (a call back, an *)
(* activity or a task, a reply after our last message, life on the deal);  *)
(* `heard', a conversation was answered since its case was opened;         *)
(* `after', what came of it later: a live booking, or an invoice.  A case  *)
(* is identified by the record and the lane: cases is the collection, and  *)
(* its domain what is in it.  RecoveryCase.tla has the rest of a case's    *)
(* life; here it is waiting, engaged or ended.                             *)
(*                                                                         *)
(* Bounds: MaxStirs on what happens around the sweeps, MaxScanFaults on    *)
(* what goes wrong in them.                                                *)
(***************************************************************************)
EXTENDS Integers

CONSTANTS Records, Scans, MaxStirs, MaxScanFaults, NoKey

ASSUME DetectionAssumption == MaxStirs \in Nat /\ MaxScanFaults \in Nat

VARIABLES
  source,   \* the records
  cases,    \* recovery_cases
  items,    \* work_queue: how many items a key has had, and whether the last is open
  scan,     \* the sweeps
  loose,    \* history: keys whose reference was cut off from their item: the case or the sweep
            \* ended between the two writes, or another sweep wrote in between
  stirs, scanFaults

detectionVars == <<source, cases, items, scan, loose, stirs, scanFaults>>

StatusesOf ==
  [call |-> {"missed", "hidden"}, web_enquiry |-> {"new", "responded", "closed", "spam", "test"},
   estimate |-> {"draft", "sent", "accepted", "declined"}, conversation |-> {"open", "snoozed", "closed"},
   appointment |-> {"booked", "cancelled", "completed", "no_show"},
   external_event |-> {"new", "processed", "unknown"}, opportunity |-> {"open", "archived", "lost", "won"},
   followup |-> {"due", "done", "of_lead"}]
Kinds == DOMAIN StatusesOf
Lanes == {"missed_call", "web_enquiry", "unanswered_estimate", "no_response", "appointment_cancelled",
          "appointment_no_show", "external_crm_event", "dormant_deal", "missed_followup"}
Keys == Records \X Lanes
Worths == {"low", "high", "nonsense"}
Afters == {"none", "live", "void", "paid"}
SourceType == [kind : Kinds, status : UNION {StatusesOf[k] : k \in Kinds}, there : BOOLEAN, ripe : BOOLEAN,
               answered : BOOLEAN, heard : BOOLEAN, after : Afters, worth : Worths]

Terminal == {"ended"}
CaseType == [state : {"waiting", "engaged", "ended"}, worth : {"none", "low", "high"}, ref : Nat]
(* A sweep: where it is, what it has read of the open cases, what it could *)
(* not read, what it has found, and the case and item in hand.             *)
NoScan == [at |-> "idle", open |-> {}, engaged |-> {}, unread |-> {}, found |-> {}, key |-> NoKey,
           ref |-> 0, item |-> 0]

DetectionTypeOK ==
  /\ source \in [Records -> SourceType]
  /\ DOMAIN cases \subseteq Keys /\ \A k \in DOMAIN cases : cases[k] \in CaseType
  /\ items \in [Keys -> [n : Nat, open : BOOLEAN]]
  /\ \A s \in Scans : /\ DOMAIN scan[s] = DOMAIN NoScan /\ scan[s].open \subseteq Keys
                      /\ scan[s].found \subseteq [key : Keys, worth : {"none", "low", "high"}]
  /\ loose \subseteq Keys /\ stirs \in 0..MaxStirs /\ scanFaults \in 0..MaxScanFaults

\* The statuses a record of some kind is made in, and the records as they are made: nothing
\* about them is due, answered or heard yet.
FirstStatuses == {"missed", "hidden", "new", "test", "draft", "sent", "open", "booked", "unknown", "due", "of_lead"}
NewRecords == {[kind |-> k, status |-> st, there |-> TRUE, ripe |-> FALSE, answered |-> FALSE, heard |-> FALSE,
                after |-> "none", worth |-> "low"] : k \in Kinds, st \in FirstStatuses}

DetectionInit ==
  /\ source \in [Records -> NewRecords]
  /\ \A r \in Records : source[r].status \in StatusesOf[source[r].kind]
  /\ cases = <<>> /\ items = [k \in Keys |-> [n |-> 0, open |-> FALSE]]
  /\ scan = [s \in Scans |-> NoScan] /\ loose = {} /\ stirs = 0 /\ scanFaults = 0

-----------------------------------------------------------------------------
(* The lanes: what each raises.                                             *)
Reached(x) == x.answered /\ x.status # "hidden"

MissedCall(x) == x.kind = "call" /\ x.ripe /\ ~Reached(x)

EnquiryResolved(x) == x.status \in {"test", "responded", "closed", "spam"}
WebEnquiry(x) == x.kind = "web_enquiry" /\ x.ripe /\ ~EnquiryResolved(x) /\ ~x.answered

(* An invoice of any state, a void one too, takes an estimate out.          *)
OpenOffer(x) == x.kind = "estimate" /\ x.ripe /\ x.status = "sent" /\ ~x.answered /\ x.after = "none"

NoResponse(x) == x.kind = "conversation" /\ x.status = "open" /\ x.ripe /\ ~x.answered

Rebooked(x) == x.after # "none"
CancelledAppointment(x) == x.kind = "appointment" /\ x.status = "cancelled" /\ ~x.answered /\ ~Rebooked(x)
NoShow(x) == x.kind = "appointment" /\ x.status \in {"booked", "no_show"} /\ x.ripe /\ ~x.answered

ExternalEvent(x) == x.kind = "external_event" /\ x.status = "new"
StalledLead(x) == x.kind = "opportunity" /\ x.status = "open" /\ x.ripe /\ ~x.answered
MissedFollowup(x) == x.kind = "followup" /\ x.status = "due" /\ x.ripe

Detects(x, lane) ==
  x.there /\ CASE lane = "missed_call" -> MissedCall(x)
               [] lane = "web_enquiry" -> WebEnquiry(x)
               [] lane = "unanswered_estimate" -> OpenOffer(x)
               [] lane = "no_response" -> NoResponse(x)
               [] lane = "appointment_cancelled" -> CancelledAppointment(x)
               [] lane = "appointment_no_show" -> NoShow(x)
               [] lane = "external_crm_event" -> ExternalEvent(x)
               [] lane = "dormant_deal" -> StalledLead(x)
               [] OTHER -> MissedFollowup(x)

(* sanitize_value(): what could not be money is dropped, and the case opens. *)
Sanitized(x) == IF x.worth = "nonsense" \/ x.kind \notin {"web_enquiry", "estimate", "external_event", "opportunity"}
                THEN "none" ELSE x.worth

-----------------------------------------------------------------------------
(* The verdicts: what ends an open case, whatever its state (hard), and     *)
(* what ends one that has not reached the client (soft).                    *)
OfferVerdict(x) == x.after \in {"void", "paid"} \/ (x.after = "none" /\ x.status = "declined")
DealVerdict(x) == x.status \in {"archived", "lost", "won"}
MissedCallVerdict(x) == Reached(x)
WebEnquiryVerdict(x) == EnquiryResolved(x) \/ x.answered
NoResponseVerdict(x) == x.heard \/ x.status = "closed"
AppointmentVerdict(x, lane) ==
  Rebooked(x) \/ IF lane = "appointment_cancelled" THEN x.status # "cancelled" ELSE x.status = "completed"
ExternalVerdict(x) == x.status = "processed"
FollowupVerdict(x) == x.status = "done"

Hard(x, lane) ==
  \/ ~x.there
  \/ lane = "web_enquiry" /\ x.status \in {"test", "spam"}
  \/ lane = "unanswered_estimate" /\ OfferVerdict(x)
  \/ lane = "dormant_deal" /\ DealVerdict(x)

Soft(x, lane) ==
  CASE lane = "missed_call" -> MissedCallVerdict(x)
    [] lane = "web_enquiry" -> WebEnquiryVerdict(x)
    [] lane = "no_response" -> NoResponseVerdict(x)
    [] lane \in {"appointment_cancelled", "appointment_no_show"} -> AppointmentVerdict(x, lane)
    [] lane = "external_crm_event" -> ExternalVerdict(x)
    [] lane = "missed_followup" -> FollowupVerdict(x)
    [] OTHER -> FALSE

Closable(k, engaged) == Hard(source[k[1]], k[2]) \/ (~engaged /\ Soft(source[k[1]], k[2]))

-----------------------------------------------------------------------------
(* What happens around the sweeps, a stir at a time.                        *)
Stir == stirs < MaxStirs /\ stirs' = stirs + 1
Change(r, x) == x # source[r] /\ source' = [source EXCEPT ![r] = x] /\ Stir
                /\ UNCHANGED <<cases, items, scan, loose, scanFaults>>

Ripen(r) == Change(r, [source[r] EXCEPT !.ripe = TRUE])
Respond(r) == Change(r, [source[r] EXCEPT !.answered = TRUE,
                                          !.heard = source[r].kind = "conversation" /\ <<r, "no_response">> \in DOMAIN cases])
(* We write to the client again, or a deal falls quiet again. *)
FallSilent(r) == source[r].kind \in {"conversation", "opportunity"} /\ Change(r, [source[r] EXCEPT !.answered = FALSE])
MoveStatus(r, st) ==
  /\ st \in StatusesOf[source[r].kind] \ {"test", "hidden", "unknown", "of_lead"}
  /\ source[r].status \notin {"test", "hidden", "unknown", "of_lead"}
  /\ Change(r, [source[r] EXCEPT !.status = st])
Follow(r, a) ==
  /\ \/ source[r].kind = "appointment" /\ a = "live"
     \/ source[r].kind = "estimate" /\ <<source[r].after, a>> \in {<<"none", "live">>, <<"live", "void">>, <<"live", "paid">>}
  /\ Change(r, [source[r] EXCEPT !.after = a])
Reprice(r, w) == Sanitized([source[r] EXCEPT !.worth = "low"]) # "none" /\ Change(r, [source[r] EXCEPT !.worth = w])
Vanish(r) == Change(r, [source[r] EXCEPT !.there = FALSE])

OpenKeys == {k \in DOMAIN cases : cases[k].state \notin Terminal}

(* close_case(): the work item the case refers to is resolved with it.      *)
EndCase(k) ==
  /\ cases' = [cases EXCEPT ![k].state = "ended"]
  /\ items' = [items EXCEPT ![k].open = @ /\ cases[k].ref # items[k].n]
  /\ loose' = loose \cup {j \in {k} : \E s \in Scans : scan[s].key = j}

Operator(k) ==
  /\ k \in OpenKeys /\ Stir
  /\ \/ EndCase(k)
     \/ cases' = [cases EXCEPT ![k].state = "engaged"] /\ UNCHANGED <<items, loose>>
     \/ items[k].open /\ items' = [items EXCEPT ![k].open = FALSE] /\ UNCHANGED <<cases, loose>>
  /\ UNCHANGED <<source, scan, scanFaults>>

-----------------------------------------------------------------------------
(* run_detection(): the open cases are read and judged, and ended one by    *)
(* one if they are still open; ...                                          *)
ScanAt(s, at) == scan[s].at = at
Scanning(s, f) == scan' = [scan EXCEPT ![s] = f]
NextFound(s, left) == Scanning(s, IF left = {} THEN NoScan ELSE [NoScan EXCEPT !.at = "open", !.found = left])

ScanBegin(s) ==
  /\ ScanAt(s, "idle")
  /\ Scanning(s, [NoScan EXCEPT !.at = "judge", !.open = OpenKeys,
                                !.engaged = {k \in OpenKeys : cases[k].state = "engaged"}])
  /\ UNCHANGED <<source, cases, items, loose, stirs, scanFaults>>

ScanJudge(s) ==
  /\ ScanAt(s, "judge")
  /\ Scanning(s, [scan[s] EXCEPT !.at = "close", !.open = {k \in @ : Closable(k, k \in scan[s].engaged)}, !.engaged = {}])
  /\ UNCHANGED <<source, cases, items, loose, stirs, scanFaults>>

ScanClose(s) ==
  /\ ScanAt(s, "close")
  /\ IF scan[s].open = {}
     THEN Scanning(s, [scan[s] EXCEPT !.at = "look", !.unread = Records]) /\ UNCHANGED <<cases, items, loose>>
     ELSE \E k \in scan[s].open :
            /\ Scanning(s, [scan[s] EXCEPT !.open = @ \ {k}])
            /\ IF k \in OpenKeys THEN EndCase(k) ELSE UNCHANGED <<cases, items, loose>>
  /\ UNCHANGED <<source, stirs, scanFaults>>

(* ... then the lanes read their records; ...                               *)
ScanLook(s, r) ==
  /\ ScanAt(s, "look") /\ r \in scan[s].unread
  /\ LET found == scan[s].found \cup {[key |-> <<r, lane>>, worth |-> Sanitized(source[r])]
                                       : lane \in {l \in Lanes : Detects(source[r], l)}}
     IN IF scan[s].unread # {r} THEN Scanning(s, [scan[s] EXCEPT !.unread = @ \ {r}, !.found = found])
        ELSE NextFound(s, found)
  /\ UNCHANGED <<source, cases, items, loose, stirs, scanFaults>>

(* open_case(): inserted, or found and, if it is open, brought up to date;  *)
(* one that has ended is left, and gets no work.                            *)
Refreshed(k, worth) == IF cases[k].state \in Terminal THEN cases ELSE [cases EXCEPT ![k].worth = worth]
Opened(k, worth) == IF k \in DOMAIN cases THEN Refreshed(k, worth)
                    ELSE [j \in DOMAIN cases \cup {k} |->
                            IF j = k THEN [state |-> "waiting", worth |-> worth, ref |-> 0] ELSE cases[j]]
ReopensNothing(k) == k \in DOMAIN cases /\ cases[k].state \in Terminal

ScanOpen(s, f) ==
  /\ ScanAt(s, "open") /\ f \in scan[s].found
  /\ cases' = Opened(f.key, f.worth)
  /\ IF ReopensNothing(f.key) THEN NextFound(s, scan[s].found \ {f})
     ELSE Scanning(s, [scan[s] EXCEPT !.at = "enqueue", !.found = @ \ {f}, !.key = f.key, !.ref = cases'[f.key].ref])
  /\ UNCHANGED <<source, items, loose, stirs, scanFaults>>

(* WorkQueue.enqueue(): folded into the open item of the key, if any.       *)
ScanEnqueue(s) ==
  /\ ScanAt(s, "enqueue")
  /\ LET k == scan[s].key IN
       /\ items' = [items EXCEPT ![k] = IF @.open THEN @ ELSE [n |-> @.n + 1, open |-> TRUE]]
       /\ Scanning(s, [scan[s] EXCEPT !.at = "attach", !.item = items'[k].n])
  /\ UNCHANGED <<source, cases, loose, stirs, scanFaults>>

(* The case is pointed at the item, unless it pointed there when it was     *)
(* read; attach() does not ask whether the case is still open.              *)
PointsElsewhereIfUnset(s) == scan[s].ref = 0  \* mutant
PointsElsewhere(s) == scan[s].ref # scan[s].item

ScanAttach(s) ==
  /\ ScanAt(s, "attach")
  /\ LET k == scan[s].key IN
       /\ cases' = IF PointsElsewhere(s) THEN [cases EXCEPT ![k].ref = scan[s].item] ELSE cases
       /\ loose' = IF scan[s].item # items[k].n \/ scan[s].ref # cases[k].ref THEN loose \cup {k}
                   ELSE IF k \in OpenKeys THEN loose \ {k} ELSE loose
  /\ NextFound(s, scan[s].found)
  /\ UNCHANGED <<source, items, stirs, scanFaults>>

(* A reconciliation that stops does not cost the lanes, nor one detection   *)
(* the others; a sweep dies with what it had in hand.                       *)
ScanFault(s) ==
  /\ scanFaults < MaxScanFaults /\ ~ScanAt(s, "idle") /\ scanFaults' = scanFaults + 1
  /\ \/ ScanAt(s, "judge") /\ Scanning(s, [NoScan EXCEPT !.at = "look", !.unread = Records])
     \/ \E f \in scan[s].found : ScanAt(s, "open") /\ NextFound(s, scan[s].found \ {f})
     \/ scan[s].key # NoKey /\ NextFound(s, scan[s].found)
     \/ Scanning(s, NoScan)
  /\ loose' = IF ScanAt(s, "attach") THEN loose \cup {scan[s].key} ELSE loose
  /\ UNCHANGED <<source, cases, items, stirs>>

ScanStep(s) ==
  \/ ScanJudge(s) \/ ScanClose(s) \/ ScanEnqueue(s) \/ ScanAttach(s)
  \/ \E r \in Records : ScanLook(s, r)
  \/ \E f \in scan[s].found : ScanOpen(s, f)

DetectionNext ==
  \/ \E r \in Records :
       \/ Ripen(r) \/ Respond(r) \/ FallSilent(r) \/ Vanish(r)
       \/ \E st \in StatusesOf[source[r].kind] : MoveStatus(r, st)
       \/ \E a \in Afters : Follow(r, a)
       \/ \E w \in Worths : Reprice(r, w)
  \/ \E k \in OpenKeys : Operator(k)
  \/ \E s \in Scans : ScanBegin(s) \/ ScanStep(s) \/ ScanFault(s)

(* The crons start sweeps, and a sweep that runs goes on. *)
DetectionFairness == \A s \in Scans : WF_detectionVars(ScanBegin(s)) /\ WF_detectionVars(ScanStep(s))

DetectionSpec == DetectionInit /\ [][DetectionNext]_detectionVars /\ DetectionFairness

-----------------------------------------------------------------------------
(***************************************************************************)
(* The lanes and the verdicts read a record alike: what a lane would raise *)
(* the reconciler would not end at once, but for a no-show whose client    *)
(* has booked again, which only the reconciler looks at (detect_no_shows,  *)
(* _appointment_verdicts).                                                 *)
(***************************************************************************)
LanesAgreeWithVerdicts ==
  \A k \in Keys \ DOMAIN cases :
    Detects(source[k[1]], k[2]) /\ Closable(k, FALSE) => k[2] = "appointment_no_show" /\ Rebooked(source[k[1]])

(***************************************************************************)
(* A case that has ended leaves no open work behind, and an open one with  *)
(* open work refers to that work, however sweeps, resolutions and ends of  *)
(* cases interleave: unless the case ended, or the sweep, between the item *)
(* and the reference to it, or two sweeps wrote it side by side            *)
(* (_enqueue_case_work, withdraw_pending_work).                            *)
(***************************************************************************)
WorkFollowsCase ==
  \A k \in DOMAIN cases : items[k].open /\ k \notin loose /\ (\A s \in Scans : scan[s].key # k) =>
    cases[k].state \notin Terminal /\ cases[k].ref = items[k].n

(***************************************************************************)
(* What is lost once the records stay as they are is taken up: it has a    *)
(* case, which has ended or refers to open work, for good (run_detection). *)
(***************************************************************************)
TakenUp(k) == k \in DOMAIN cases /\ (cases[k].state \in Terminal \/ (items[k].open /\ cases[k].ref = items[k].n))
LostIsTakenUp == <>[](\A k \in Keys : Detects(source[k[1]], k[2]) => TakenUp(k))

(***************************************************************************)
(* Once the records stay as they are, no case is left open whose source is *)
(* resolved, and one that a lane still finds carries the source's value of *)
(* now (_reconcile, _refresh_from_event).                                  *)
(***************************************************************************)
ResolvedIsClosed == []<>(\A k \in OpenKeys : ~Closable(k, cases[k].state = "engaged"))
ValueCatchesUp ==
  <>[](\A k \in OpenKeys : Detects(source[k[1]], k[2]) => cases[k].worth = Sanitized(source[k[1]]))

(***************************************************************************)
(* What detection promises.                                                *)
(***************************************************************************)
DetectionHolds ==
  /\ [](DetectionTypeOK /\ LanesAgreeWithVerdicts /\ WorkFollowsCase)
  /\ LostIsTakenUp /\ ResolvedIsClosed /\ ValueCatchesUp
=============================================================================
