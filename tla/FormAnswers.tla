---------------------------- MODULE FormAnswers -----------------------------
(***************************************************************************)
(* What a submission's answers become (backend/website_forms.py,           *)
(* normalise_submission): the budget, which a website words in many ways   *)
(* and many fields, and the answers to questions that depend on others.    *)
(* The other fields are a first answer that wins, the rest kept as extras. *)
(*                                                                         *)
(* Bounds: Amounts, the number of answers and of questions.                *)
(***************************************************************************)
EXTENDS Naturals, FiniteSets

CONSTANTS Amounts, MaxAnswers, Questions

ASSUME FormAnswersAssumption ==
  Amounts \subseteq Nat \ {0} /\ MaxAnswers \in Nat /\ Questions \in Nat

(* An answer about the budget: a bound of its own (price_min, price_max) or *)
(* a whole one (budget, price_range, a range typed as a price), with its    *)
(* two ends as worded; 0 is an open end.  rank: a field's own name is read    *)
(* before an alias, what is at the top before what a server nests in it.    *)
Span(a, b) == [low |-> a, high |-> b]
Ends == {Span(a, b) : a, b \in Amounts \cup {0}} \ {Span(0, 0)}
Wholes == [whole : {TRUE}, ends : Ends, rank : 1..2]
Bounds == [whole : {FALSE}, ends : {e \in Ends : e.low = 0 \/ e.high = 0}, rank : 1..2]
Answers == Wholes \cup Bounds

VARIABLES
  unread,     \* the answers still to be read
  budget,     \* fields.price_min and price_max
  budgetOf,   \* budget_answer: whether it is a whole answer that was filed
  condition,  \* the form's fields: the question each depends on, or 0
  shows,      \* whether the answer to each is one that shows those that depend on it
  kept,       \* the questions whose answer is kept
  asked       \* the questions gone through

answersVars == <<unread, budget, budgetOf, condition, shows, kept, asked>>

FormAnswersTypeOK ==
  /\ unread \in SUBSET Answers /\ budget \in Ends \cup {Span(0, 0)} /\ budgetOf \in BOOLEAN
  /\ condition \in [1..Questions -> 0..Questions] /\ shows \in [1..Questions -> BOOLEAN]
  /\ kept \in SUBSET (1..Questions) /\ asked \in 0..Questions

(* validate_fields(): "can only depend on a field above it". *)
AnyConditions == {c \in [1..Questions -> 0..Questions] : \A q \in 1..Questions : c[q] # q}  \* mutant
Conditions == {c \in [1..Questions -> 0..Questions] : \A q \in 1..Questions : c[q] < q}

FormAnswersInit ==
  /\ unread \in {answers \in SUBSET Answers : Cardinality(answers) <= MaxAnswers}
  /\ budget = Span(0, 0) /\ budgetOf = FALSE
  /\ condition \in Conditions /\ shows \in [1..Questions -> BOOLEAN]
  /\ kept \in SUBSET (1..Questions) /\ asked = 0

NamesPrice == budget # Span(0, 0)

(* parse_price_range(): the ends in order; one amount is a ceiling. *)
InOrder(e) ==
  IF e.low = e.high THEN Span(0, e.high)
  ELSE IF e.low # 0 /\ e.high # 0 /\ e.low > e.high THEN Span(e.high, e.low) ELSE e

(* set_field(): the first answer wins. *)
Topped(e) == Span(IF budget.low = 0 THEN e.low ELSE budget.low,
                  IF budget.high = 0 THEN e.high ELSE budget.high)

(* apply_budget(): a whole answer is filed if no price is yet, and a bound  *)
(* is not added to one.                                                     *)
WholeFiled == budgetOf

ReadAnswer(a) ==
  /\ a \in unread /\ \A b \in unread : a.rank <= b.rank
  /\ unread' = unread \ {a}
  /\ IF a.whole
     THEN IF NamesPrice THEN UNCHANGED <<budget, budgetOf>>
          ELSE budget' = InOrder(a.ends) /\ budgetOf' = TRUE
     ELSE /\ budget' = IF WholeFiled THEN budget ELSE Topped(a.ends)
          /\ UNCHANGED budgetOf
  /\ UNCHANGED <<condition, shows, kept, asked>>

(* shown(): an answer is dropped if its question was hidden from the visitor. *)
Shown(q) == condition[q] = 0 \/ (condition[q] \in kept /\ shows[condition[q]])

AskNext ==
  /\ unread = {} /\ asked < Questions
  /\ asked' = asked + 1
  /\ kept' = IF Shown(asked + 1) THEN kept ELSE kept \ {asked + 1}
  /\ UNCHANGED <<unread, budget, budgetOf, condition, shows>>

FormAnswersNext == (\E a \in unread : ReadAnswer(a)) \/ AskNext

FormAnswersSpec == FormAnswersInit /\ [][FormAnswersNext]_answersVars

-----------------------------------------------------------------------------
(***************************************************************************)
(* "A budget is one answer" (apply_budget): one that was filed whole never *)
(* makes an inverted range, whatever else was answered; only a minimum and *)
(* a maximum the visitor gave apart may.                                   *)
(***************************************************************************)
BudgetIsOneAnswer ==
  budgetOf => budget.low = 0 \/ budget.high = 0 \/ budget.low < budget.high

(***************************************************************************)
(* "A stale answer to a question that no longer applied must not reach the *)
(* record": a kept answer's question was shown by an answer that is kept   *)
(* too, however long the chain (validate_fields, normalise_submission).    *)
(***************************************************************************)
KeptAnswersApplied == asked = Questions => \A q \in kept : Shown(q)

(***************************************************************************)
(* What the reading of answers promises.                                   *)
(***************************************************************************)
AnswersHold == FormAnswersTypeOK /\ BudgetIsOneAnswer /\ KeptAnswersApplied
=============================================================================
