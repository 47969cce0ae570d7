----------------------------- MODULE MCWorkEnds ------------------------------
(***************************************************************************)
(* What the ticks of the work queue bring to an end: its items, and the    *)
(* generations of next best actions that one of its handlers runs.  The    *)
(* two share no state here; `part' says which of them this behaviour is    *)
(* of, and the other stays as it begins.                                   *)
(***************************************************************************)
EXTENDS WorkQueue, Advice

CONSTANTS x1, x2

VARIABLE part

endsVars == <<vars, adviceVars, part>>

EndsInit ==
  /\ part \in {"items", "advice"}
  /\ Init
  /\ AdviceInit /\ topic[x2].kind = "task"
  /\ IF part = "advice" THEN topic[x1].kind \in {"task", "commitment"} ELSE topic[x1].kind = "task"

EndsNext ==
  /\ UNCHANGED part
  /\ \/ part = "items" /\ Next /\ UNCHANGED adviceVars
     \/ part = "advice" /\ AdviceNext /\ UNCHANGED vars

(* As in the modules; what starts by itself is owed only where it runs. *)
EndsFairness ==
  /\ \A i \in Items : /\ WF_vars(BecomeDue(i)) /\ WF_vars(LeaseExpires(i)) /\ WF_vars(Recover(i))
                      /\ SF_vars(\E w \in Workers : Claim(w, i))
  /\ \A w \in Workers : WF_vars(part = "items" /\ StartTick(w)) /\ WF_vars(Work(w))
  /\ \A g \in Generations : WF_adviceVars(part = "advice" /\ BeginGeneration(g)) /\ WF_adviceVars(GenStep(g))

EndsSpec == EndsInit /\ [][EndsNext]_endsVars /\ EndsFairness
=============================================================================
