------------------------------ MODULE MCForms -------------------------------
(***************************************************************************)
(* How strangers become contacts, leads and deals, by the website's forms  *)
(* and by an imported file, and how contacts are merged and deals moved    *)
(* through the pipeline, in one run.  The parts share no state, so each is *)
(* checked by itself: `part' says which one this behaviour is of, and the  *)
(* others stay as they begin.                                              *)
(***************************************************************************)
EXTENDS TLC, WebForm, LeadIntake, FormDoor, DealValue, FormAnswers, ContactImport, ContactMerge, Pipeline

CONSTANTS c1, c2, k1, k2, s1, s2, w1, w2

VARIABLE part

formsVars == <<formVars, intakeVars, doorVars, worthVars, answersVars, importVars, mergeVars, pipelineVars, part>>

(* The parts that may begin in several ways begin in one, unless they go on. *)
Pinned ==
  /\ part = "worth" \/ worth = [value |-> ValueOf(1), basis |-> BasisOf(1), ours |-> TRUE]
  /\ \/ part = "answers"
     \/ /\ part # "answers" /\ unread = {} /\ condition = (CHOOSE c \in Conditions : TRUE)
        /\ shows = [q \in 1..Questions |-> TRUE] /\ kept = {}
  /\ \/ part = "import"
     \/ people = <<>> /\ file = [n \in RowNumbers |-> CHOOSE r \in RowType : TRUE]
  /\ holds = [r \in References |-> IF r \in Singles THEN {k1} ELSE IF part = "merge" THEN {k1, k2} ELSE {}]
  /\ client = [d \in Deals |-> "lead"]
  /\ IF part = "pipeline"
     THEN stages \in {p \in PipelineType : p[s1] = "open" /\ p[s2] = "won"} /\ feeds \in {s1, NoStage}
     ELSE stages = [s \in Stages |-> IF s = s1 THEN "open" ELSE "won"] /\ feeds = NoStage
  /\ part = "pipeline" \/ stage = [d \in Deals |-> NoStage]

FormsInit ==
  /\ part \in {"form", "intake", "door", "worth", "answers", "import", "merge", "pipeline"}
  /\ Pinned
  /\ WebFormInit /\ LeadIntakeInit /\ FormDoorInit /\ DealValueInit /\ FormAnswersInit /\ ImportInit
  /\ MergeInit /\ PipelineInit

FormsNext ==
  /\ UNCHANGED part
  /\ \/ part = "form" /\ WebFormNext
     \/ part # "form" /\ UNCHANGED formVars
  /\ \/ part = "intake" /\ LeadIntakeNext
     \/ part # "intake" /\ UNCHANGED intakeVars
  /\ \/ part = "door" /\ FormDoorNext
     \/ part # "door" /\ UNCHANGED doorVars
  /\ \/ part = "worth" /\ DealValueNext
     \/ part # "worth" /\ UNCHANGED worthVars
  /\ \/ part = "answers" /\ FormAnswersNext
     \/ part # "answers" /\ UNCHANGED answersVars
  /\ \/ part = "import" /\ ImportNext
     \/ part # "import" /\ UNCHANGED importVars
  /\ \/ part = "merge" /\ MergeNext
     \/ part # "merge" /\ UNCHANGED mergeVars
  /\ \/ part = "pipeline" /\ PipelineNext
     \/ part # "pipeline" /\ UNCHANGED pipelineVars

FormsSpec == FormsInit /\ [][FormsNext]_formsVars

Actors == Permutations({c1, c2})

MCSubmissions == {[who |-> "ann", says |-> w1, sid |-> "s1"], [who |-> "ann", says |-> w1, sid |-> NoSid]}
=============================================================================
