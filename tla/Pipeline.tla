------------------------------ MODULE Pipeline ------------------------------
(***************************************************************************)
(* A tenant's pipeline and the deals in it: set_pipeline() and the stage   *)
(* helpers of backend/crm_core.py, create_opp() and move_stage() of        *)
(* backend/server.py, the stage a website form gives its leads             *)
(* (_opportunity() of backend/website_forms.py), and what a won deal       *)
(* brings about: its client workspace and its people's lifecycle.          *)
(*                                                                         *)
(* A stage is open, won or lost, or not in the pipeline.  Writers are the  *)
(* people and the forms that put a deal into a stage.                      *)
(*                                                                         *)
(* Bounds: an admin changes one stage at a time (Near), and MaxChanges on *)
(* what admins and writers begin.                                          *)
(***************************************************************************)
EXTENDS Integers, FiniteSets

CONSTANTS Stages, Deals, Admins, Writers, MaxChanges, NoStage, NoOpp

ASSUME PipelineAssumption == MaxChanges \in Nat /\ NoStage \notin Stages /\ NoOpp \notin Deals

VARIABLES
  stages,     \* pipelines: what each stage is
  stage,      \* opportunities: the stage of a deal
  outcome,    \* domain_events: how each deal was last said to have closed
  feeds,      \* website_forms: the stage a form gives its leads
  spaces,     \* workspaces: how many a deal has
  client,     \* contacts: the lifecycle of a deal's person
  admin,      \* the pipelines being set
  writer,     \* the deals being moved or created
  overtaken,  \* history: stages a deal or a form was put in while a pipeline was being set
  together,   \* history: deals moved by two writers at once
  requests

pipelineVars == <<stages, stage, outcome, feeds, spaces, client, admin, writer, overtaken, together, requests>>

Outcomes == {"open", "won", "lost"}
PipelineType == [Stages -> Outcomes \cup {"none"}]
NoPlan == [at |-> "idle", want |-> [s \in Stages |-> "none"], was |-> [s \in Stages |-> "none"]]
NoTask == [at |-> "idle", deal |-> NoOpp, to |-> NoStage, outcome |-> "none", byForm |-> FALSE]

PipelineTypeOK ==
  /\ stages \in PipelineType /\ stage \in [Deals -> Stages \cup {NoStage}] /\ feeds \in Stages \cup {NoStage}
  /\ outcome \in [Deals -> Outcomes \cup {"none"}] /\ spaces \in [Deals -> Nat] /\ client \in [Deals -> {"none", "lead", "customer", "partner"}]
  /\ admin \in [Admins -> [at : {"idle", "usage", "write"}, want : PipelineType, was : PipelineType]]
  /\ writer \in [Writers -> [at : {"idle", "create", "judge", "move", "event", "look", "space", "promote"}, deal : Deals \cup {NoOpp},
                             to : Stages \cup {NoStage}, outcome : Outcomes \cup {"none"}, byForm : BOOLEAN]]
  /\ overtaken \subseteq Stages /\ together \subseteq Deals /\ requests \in 0..MaxChanges

KeysOf(p) == {s \in Stages : p[s] # "none"}
Has(p, kind) == \E s \in Stages : p[s] = kind

PipelineInit ==
  /\ stages \in {p \in PipelineType : Has(p, "open") /\ Has(p, "won")}
  /\ stage \in [Deals -> KeysOf(stages) \cup {NoStage}] /\ feeds \in KeysOf(stages) \cup {NoStage}
  /\ \A d \in Deals : stage[d] # NoStage => stages[stage[d]] = "open"
  /\ feeds # NoStage => stages[feeds] = "open"
  /\ outcome = [d \in Deals |-> "none"] /\ spaces = [d \in Deals |-> 0] /\ client \in [Deals -> {"none", "lead", "partner"}]
  /\ admin = [a \in Admins |-> NoPlan] /\ writer = [w \in Writers |-> NoTask]
  /\ overtaken = {} /\ together = {} /\ requests = 0

-----------------------------------------------------------------------------
Request == requests < MaxChanges /\ requests' = requests + 1

(* set_pipeline(): a proposal that could work is compared with what is      *)
(* configured, ...                                                          *)
Sound(p) == Has(p, "won") /\ Has(p, "open")
Near(p) == Cardinality({s \in Stages : p[s] # stages[s]}) = 1

Propose(a, p) ==
  /\ admin[a].at = "idle" /\ Request /\ Sound(p) /\ Near(p)
  /\ admin' = [admin EXCEPT ![a] = [at |-> "usage", want |-> p, was |-> stages]]
  /\ UNCHANGED <<stages, stage, outcome, feeds, spaces, client, writer, overtaken, together>>

(* ... what the stages it would remove or reclassify hold is counted, ...   *)
Removed(x) == {s \in Stages : x.was[s] # "none" /\ x.want[s] = "none"}
Reclassified(x) == {s \in Stages : x.was[s] # "none" /\ x.want[s] \notin {"none", x.was[s]}}
NewlyClosed(x) == {s \in Reclassified(x) : x.was[s] = "open"}
Used(s) == \E d \in Deals : stage[d] = s
RemovedOnly(x) == \A s \in Removed(x) : ~Used(s)  \* mutant
NothingTouched(x) ==
  /\ \A s \in Removed(x) \cup Reclassified(x) : ~Used(s)
  /\ feeds \notin Removed(x) \cup NewlyClosed(x)

CountUsage(a) ==
  /\ admin[a].at = "usage"
  /\ admin' = [admin EXCEPT ![a] = IF NothingTouched(@) THEN [@ EXCEPT !.at = "write"] ELSE NoPlan]
  /\ UNCHANGED <<stages, stage, outcome, feeds, spaces, client, writer, overtaken, together, requests>>

(* ... and the stages replaced, whatever they are by now.                   *)
WriteStages(a) ==
  /\ admin[a].at = "write" /\ stages' = admin[a].want /\ admin' = [admin EXCEPT ![a] = NoPlan]
  /\ overtaken' = IF stages = admin[a].was THEN overtaken ELSE overtaken \cup Stages
  /\ UNCHANGED <<stage, outcome, feeds, spaces, client, writer, together, requests>>

-----------------------------------------------------------------------------
(* A form is given a stage its leads start in (website_forms' settings).    *)
Settle(s) ==
  /\ Request /\ s # feeds /\ (s # NoStage => stages[s] = "open")
  /\ feeds' = s /\ overtaken' = IF \E a \in Admins : admin[a].at # "idle" THEN overtaken \cup ({s} \ {NoStage}) ELSE overtaken
  /\ UNCHANGED <<stages, stage, outcome, spaces, client, admin, writer, together>>

(* classify_stage() *)
Class(s) == IF stages[s] = "none" THEN "open" ELSE stages[s]
WriterGoes(w, x) == writer' = [writer EXCEPT ![w] = x]
Bystanders == UNCHANGED <<stages, feeds, admin, together, requests>>

(* move_stage(), create_opp(): the stage asked for is in the pipeline; a    *)
(* form's lead starts where the form says, while that stage is open, or in  *)
(* the first open one.                                                      *)
Allowed(s) == stages[s] # "none"
BeginMove(w, d, s) ==
  /\ writer[w].at = "idle" /\ Request /\ Allowed(s)
  /\ WriterGoes(w, [NoTask EXCEPT !.at = IF stage[d] = NoStage THEN "create" ELSE "move", !.deal = d, !.to = s, !.outcome = Class(s)])
  /\ together' = IF \E v \in Writers : writer[v].deal = d THEN together \cup {d} ELSE together
  /\ UNCHANGED <<stages, stage, outcome, feeds, spaces, client, admin, overtaken>>

BeginLead(w, d) ==
  /\ writer[w].at = "idle" /\ Request /\ stage[d] = NoStage
  /\ \A v \in Writers : writer[v].deal # d
  /\ \E s \in IF feeds # NoStage /\ stages[feeds] = "open" THEN {feeds} ELSE {t \in Stages : stages[t] = "open"} :
       WriterGoes(w, [NoTask EXCEPT !.at = "create", !.deal = d, !.to = s, !.outcome = "open", !.byForm = TRUE])
  /\ UNCHANGED <<stages, stage, outcome, feeds, spaces, client, admin, overtaken, together>>

PutIn(d, s, asked) ==
  /\ stage' = [stage EXCEPT ![d] = s]
  /\ overtaken' = IF stages[s] # asked \/ \E a \in Admins : admin[a].at # "idle" THEN overtaken \cup {s} ELSE overtaken

Create(w) ==
  /\ writer[w].at = "create" /\ PutIn(writer[w].deal, writer[w].to, writer[w].outcome)
  /\ WriterGoes(w, IF writer[w].byForm THEN NoTask ELSE [writer[w] EXCEPT !.at = "judge"])
  /\ UNCHANGED <<outcome, spaces, client>> /\ Bystanders

(* is_won_stage() asks what the stage is by now. *)
Judge(w) ==
  /\ writer[w].at = "judge"
  /\ WriterGoes(w, IF Class(writer[w].to) = "won" THEN [writer[w] EXCEPT !.at = "promote"] ELSE NoTask)
  /\ UNCHANGED <<stage, outcome, spaces, client, overtaken>> /\ Bystanders

Move(w) ==
  /\ writer[w].at = "move" /\ PutIn(writer[w].deal, writer[w].to, writer[w].outcome)
  /\ WriterGoes(w, [writer[w] EXCEPT !.at = "event"])
  /\ UNCHANGED <<outcome, spaces, client>> /\ Bystanders

Event(w) ==
  /\ writer[w].at = "event" /\ outcome' = [outcome EXCEPT ![writer[w].deal] = writer[w].outcome]
  /\ WriterGoes(w, IF writer[w].outcome = "won" THEN [writer[w] EXCEPT !.at = "look"] ELSE NoTask)
  /\ UNCHANGED <<stage, spaces, client, overtaken>> /\ Bystanders

(* A won deal opens a client workspace, if a look finds none.               *)
Spaceless(d) == spaces[d] = 0

Look(w) ==
  /\ writer[w].at = "look"
  /\ WriterGoes(w, [writer[w] EXCEPT !.at = IF Spaceless(writer[w].deal) THEN "space" ELSE "promote"])
  /\ UNCHANGED <<stage, outcome, spaces, client, overtaken>> /\ Bystanders

Open(w) ==
  /\ writer[w].at = "space" /\ spaces' = [spaces EXCEPT ![writer[w].deal] = @ + 1]
  /\ WriterGoes(w, [writer[w] EXCEPT !.at = "promote"])
  /\ UNCHANGED <<stage, outcome, client, overtaken>> /\ Bystanders

(* promote_to_customers(): unless somebody said otherwise.                  *)
Promote(w) ==
  /\ writer[w].at = "promote" /\ WriterGoes(w, NoTask)
  /\ client' = [client EXCEPT ![writer[w].deal] = IF @ \in {"none", "lead"} THEN "customer" ELSE @]
  /\ UNCHANGED <<stage, outcome, spaces, overtaken>> /\ Bystanders

PipelineNext ==
  \/ \E a \in Admins : CountUsage(a) \/ WriteStages(a) \/ \E p \in PipelineType : Propose(a, p)
  \/ \E s \in Stages \cup {NoStage} : Settle(s)
  \/ \E w \in Writers : \/ Create(w) \/ Judge(w) \/ Move(w) \/ Event(w) \/ Look(w) \/ Open(w) \/ Promote(w)
                        \/ \E d \in Deals : BeginLead(w, d) \/ \E s \in Stages : BeginMove(w, d, s)

PipelineSpec == PipelineInit /\ [][PipelineNext]_pipelineVars

-----------------------------------------------------------------------------
Busy(d) == \E w \in Writers : writer[w].deal = d

(***************************************************************************)
(* No deal and no form is in a stage the pipeline does not have, and none  *)
(* became won or lost without being moved: unless it was put there while a *)
(* pipeline was being set, or two were set at once (set_pipeline counts    *)
(* before it writes, move_stage asks before it writes).                    *)
(***************************************************************************)
DealsKeepTheirStage ==
  \A d \in Deals : stage[d] \notin {NoStage} \cup overtaken => stages[stage[d]] # "none"
NobodyWinsUnmoved ==
  \A d \in Deals : stage[d] \notin {NoStage} \cup overtaken /\ d \notin together /\ ~Busy(d) =>
    outcome[d] \in {stages[stage[d]], "none"} /\ (outcome[d] = "none" /\ stages[stage[d]] = "won" => client[d] \in {"customer", "partner"})
FormsKeepTheirStage == feeds \notin {NoStage} \cup overtaken => stages[feeds] = "open"

(***************************************************************************)
(* A deal has one client workspace at most, and one once it was won by a   *)
(* move: unless two moved it at once, each finding none (move_stage).      *)
(***************************************************************************)
OneWorkspace ==
  \A d \in Deals : d \notin together => spaces[d] <= 1 /\ (outcome[d] = "won" /\ ~Busy(d) => spaces[d] = 1)

(***************************************************************************)
(* A customer was on a deal that was won, and who was said to be a partner *)
(* stays one (promote_to_customers).                                       *)
(***************************************************************************)
CustomersWereWon == \A d \in Deals : outcome[d] = "won" /\ ~Busy(d) => client[d] \in {"customer", "partner"}

(***************************************************************************)
(* What the pipeline promises.                                             *)
(***************************************************************************)
PipelineHolds ==
  /\ PipelineTypeOK /\ DealsKeepTheirStage /\ NobodyWinsUnmoved /\ FormsKeepTheirStage /\ OneWorkspace
  /\ CustomersWereWon
=============================================================================
