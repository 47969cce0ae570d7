------------------------------- MODULE Advice -------------------------------
(***************************************************************************)
(* The next best actions (backend/next_best_action.py): a generation reads *)
(* what calls for somebody's attention, rule by rule, upserts one row per  *)
(* thing, and retires the open rows it found no reason for.  Generations   *)
(* run from a cron, from the work queue and on a user's request, and may   *)
(* overlap; users accept, snooze, dismiss or complete rows meanwhile.      *)
(*                                                                         *)
(* A source is one thing a rule looks at; its row has its dedupe key.      *)
(*                                                                         *)
(* Bounds: MaxShifts on the changes of sources and rows by people,         *)
(* MaxRuleFailures on failing rules and dying generations.  Page is the    *)
(* to_list() limit of the rules' queries.                                  *)
(***************************************************************************)
EXTENDS Integers, FiniteSets

CONSTANTS Sources, Generations, Page, MaxShifts, MaxRuleFailures

ASSUME AdviceAssumption == Page \in Nat /\ MaxShifts \in Nat /\ MaxRuleFailures \in Nat

VARIABLES
  topic,    \* the sources
  advice,     \* next_best_actions, a row for each source
  gen,        \* the generations
  wronged,    \* history: rows retired though their reason held throughout
  shifts, ruleFailures

adviceVars == <<topic, advice, gen, wronged, shifts, ruleFailures>>

SituationsOf ==
  [commitment |-> {"kept", "open", "overdue", "at_risk", "breached"}, approval |-> {"decided", "requested"},
   task |-> {"done", "open", "overdue"}, work_item |-> {"resolved", "stalled_lead", "missed_followup", "other"},
   integration |-> {"active", "degraded", "expired"}, workspace |-> {"healthy", "watch", "at_risk"}]
Quiet == {"kept", "decided", "done", "resolved", "active", "healthy"}
Rules == DOMAIN SituationsOf
SubjectType == [kind : Rules, status : UNION {SituationsOf[k] : k \in Rules}]

OPEN_STATES == {"new", "accepted", "snoozed"}
STATES == OPEN_STATES \cup {"dismissed", "completed"}
Priorities == {10, 30, 50, 70}
AtRest == [at |-> "idle", rules |-> {}, found |-> {}, seen |-> {}, failed |-> FALSE, open |-> {}, steady |-> {},
           beyond |-> {}]

AdviceTypeOK ==
  /\ topic \in [Sources -> SubjectType]
  /\ advice \in [Sources -> [state : STATES \cup {"none"}, priority : Priorities \cup {0}]]
  /\ gen \in [Generations -> [at : {"idle", "rules", "upsert", "list", "retire"}, rules : SUBSET Rules,
                              found : SUBSET [of : Sources, priority : Priorities], seen : SUBSET Sources, failed : BOOLEAN,
                              open : SUBSET Sources, steady : SUBSET Sources, beyond : SUBSET Sources]]
  /\ wronged \subseteq Sources /\ shifts \in 0..MaxShifts /\ ruleFailures \in 0..MaxRuleFailures

AdviceInit ==
  /\ topic \in [Sources -> {s \in SubjectType : s.status \in SituationsOf[s.kind] \cap Quiet}]
  /\ advice = [x \in Sources |-> [state |-> "none", priority |-> 0]]
  /\ gen = [g \in Generations |-> AtRest] /\ wronged = {} /\ shifts = 0 /\ ruleFailures = 0

-----------------------------------------------------------------------------
(* The rules: what the query finds, what of it calls for a recommendation,  *)
(* and how urgent that is.                                                  *)
Queried(x) == topic[x].status \notin Quiet \/ topic[x].kind = "workspace"
Due(x) == topic[x].status \notin Quiet \cup {"open", "other"}
Urgency(x) ==
  CASE topic[x].status \in {"breached"} -> 10
    [] topic[x].kind = "workspace" -> IF topic[x].status = "at_risk" THEN 10 ELSE 70
    [] topic[x].status \in {"requested", "missed_followup", "expired"} \/ topic[x].kind = "commitment" -> 30
    [] OTHER -> 50

Asked(rule) == {x \in Sources : topic[x].kind = rule /\ Queried(x)}
Fits(rule) == Cardinality(Asked(rule)) <= Page
Pages(rule) == IF Fits(rule) THEN {Asked(rule)} ELSE {p \in SUBSET Asked(rule) : Cardinality(p) = Page}

-----------------------------------------------------------------------------
(* People: a source changes, or a row is given another state (set_state()). *)
Shift == shifts < MaxShifts /\ shifts' = shifts + 1 /\ UNCHANGED <<wronged, ruleFailures>>

ChangeSubject(x, status) ==
  /\ Shift /\ status # topic[x].status /\ topic' = [topic EXCEPT ![x].status = status]
  /\ gen' = [g \in Generations |-> [gen[g] EXCEPT !.steady = IF Due(x)' THEN @ ELSE @ \ {x}]]
  /\ UNCHANGED advice

SetState(x, state) ==
  /\ Shift /\ advice[x].state \notin {"none", state} /\ advice' = [advice EXCEPT ![x].state = state]
  /\ UNCHANGED <<topic, gen>>

-----------------------------------------------------------------------------
(* generate()                                                               *)
GenGoes(g, x) == gen' = [gen EXCEPT ![g] = x]
RulesLeft(g, x, rule) == [x EXCEPT !.rules = @ \ {rule}, !.at = IF gen[g].rules = {rule} THEN "upsert" ELSE @]

BeginGeneration(g) ==
  /\ gen[g].at = "idle"
  /\ GenGoes(g, [AtRest EXCEPT !.at = "rules", !.rules = {topic[x].kind : x \in Sources}, !.steady = {x \in Sources : Due(x)}])
  /\ UNCHANGED <<topic, advice, wronged, shifts, ruleFailures>>

Rule(g, rule) ==
  /\ gen[g].at = "rules" /\ rule \in gen[g].rules
  /\ \E page \in Pages(rule) :
       LET found == {x \in page : Due(x)} IN
       GenGoes(g, RulesLeft(g, [gen[g] EXCEPT !.seen = @ \cup found, !.beyond = @ \cup (Asked(rule) \ page),
                                           !.found = @ \cup {[of |-> x, priority |-> Urgency(x)] : x \in found}], rule))
  /\ UNCHANGED <<topic, advice, wronged, shifts, ruleFailures>>

RuleFails(g, rule) ==
  /\ gen[g].at = "rules" /\ rule \in gen[g].rules /\ ruleFailures < MaxRuleFailures
  /\ ruleFailures' = ruleFailures + 1
  /\ GenGoes(g, RulesLeft(g, [gen[g] EXCEPT !.failed = TRUE], rule))
  /\ UNCHANGED <<topic, advice, wronged, shifts>>

(* A new row is new; one that is there keeps its state, whatever it is.     *)
Upsert(g) ==
  /\ gen[g].at = "upsert"
  /\ \E f \in gen[g].found :
       /\ advice' = [advice EXCEPT ![f.of] = [state |-> IF @.state = "none" THEN "new" ELSE @.state,
                                              priority |-> f.priority]]
       /\ GenGoes(g, [gen[g] EXCEPT !.found = @ \ {f}])
  /\ UNCHANGED <<topic, wronged, shifts, ruleFailures>>

NeverSkips(g) == FALSE  \* mutant
SkipsRetirement(g) == gen[g].failed

Upserted(g) ==
  /\ gen[g].at = "upsert" /\ gen[g].found = {}
  /\ GenGoes(g, IF SkipsRetirement(g) THEN AtRest ELSE [gen[g] EXCEPT !.at = "list"])
  /\ UNCHANGED <<topic, advice, wronged, shifts, ruleFailures>>

ListOpen(g) ==
  /\ gen[g].at = "list"
  /\ GenGoes(g, [gen[g] EXCEPT !.at = "retire", !.open = {x \in Sources : advice[x].state \in OPEN_STATES} \ gen[g].seen])
  /\ UNCHANGED <<topic, advice, wronged, shifts, ruleFailures>>

(* A row is retired by its id, whatever became of it since it was listed.   *)
Retire(g) ==
  /\ gen[g].at = "retire"
  /\ IF gen[g].open = {} THEN GenGoes(g, AtRest) /\ UNCHANGED <<advice, wronged>>
     ELSE \E x \in gen[g].open :
            /\ advice' = [advice EXCEPT ![x].state = "completed"]
            /\ GenGoes(g, [gen[g] EXCEPT !.open = @ \ {x}])
            /\ wronged' = wronged \cup ({x} \cap (gen[g].steady \ gen[g].beyond))
  /\ UNCHANGED <<topic, shifts, ruleFailures>>

(* The generation stops where it is. *)
GenStops(g) ==
  /\ gen[g].at # "idle" /\ ruleFailures < MaxRuleFailures /\ ruleFailures' = ruleFailures + 1
  /\ GenGoes(g, AtRest) /\ UNCHANGED <<topic, advice, wronged, shifts>>

GenStep(g) == (\E rule \in Rules : Rule(g, rule)) \/ Upsert(g) \/ Upserted(g) \/ ListOpen(g) \/ Retire(g)

AdviceNext ==
  \/ \E x \in Sources : \/ \E s \in SituationsOf[topic[x].kind] : ChangeSubject(x, s)
                        \/ \E st \in STATES : SetState(x, st)
  \/ \E g \in Generations : \/ BeginGeneration(g) \/ GenStep(g) \/ GenStops(g)
                            \/ \E rule \in Rules : RuleFails(g, rule)

(* The cron starts generations, and one that runs goes on. *)
AdviceFairness == \A g \in Generations : WF_adviceVars(BeginGeneration(g)) /\ WF_adviceVars(GenStep(g))

AdviceSpec == AdviceInit /\ [][AdviceNext]_adviceVars /\ AdviceFairness

-----------------------------------------------------------------------------
(***************************************************************************)
(* A generation retires no row whose reason held from its start to the     *)
(* retirement, whatever rule failed; but one that more open records of its *)
(* kind than the rule reads at once kept from it (generate, to_list).      *)
(***************************************************************************)
RetiredInGoodFaith == wronged = {}

(***************************************************************************)
(* A row whose reason is gone does not stay open (generate's retirement).  *)
(***************************************************************************)
ClearedIsRetired == \A x \in Sources : ~<>[](~Due(x) /\ advice[x].state \in OPEN_STATES)

(***************************************************************************)
(* What goes on calling for attention, and fits the rule's query, ends     *)
(* with a row of its present urgency; one that was closed once stays so    *)
(* (generate's upsert).                                                    *)
(***************************************************************************)
DueIsShown ==
  \A x \in Sources : <>[](Due(x) /\ Fits(topic[x].kind))
                       => <>[](advice[x].state # "none" /\ advice[x].priority = Urgency(x))

(***************************************************************************)
(* What the next best actions promise.                                     *)
(***************************************************************************)
AdviceHolds == [](AdviceTypeOK /\ RetiredInGoodFaith) /\ ClearedIsRetired /\ DueIsShown
=============================================================================
