----------------------------- MODULE DealValue ------------------------------
(***************************************************************************)
(* The value of one deal that several website requests reuse               *)
(* (backend/website_forms.py, _opportunity and revalue): a request with a  *)
(* budget re-prices the deal while it still carries a value the CRM worked *)
(* out, and leaves alone one an agent typed.                               *)
(*                                                                         *)
(* A price stands for the commission on it; 0 is the flat value of a form  *)
(* and of a request that names no price.                                   *)
(*                                                                         *)
(* Bounds: Prices and the requests.                                        *)
(***************************************************************************)
EXTENDS Naturals

CONSTANTS Prices, Figures, Requesters, SmallestPrice, LargestPrice

ASSUME DealValueAssumption ==
  Prices \subseteq Nat /\ Figures \subseteq Nat /\ SmallestPrice \in Nat \ {0} /\ LargestPrice \in Nat

Values == Prices \cup Figures \cup {0}
Bases == [method : {"fixed", "commission", "none"}, price : Prices \cup {0}]
NoBasis == [method |-> "none", price |-> 0]

VARIABLES
  worth,      \* opportunities: value, value_basis and currency
  pricing,    \* the requests that have found the deal
  worked      \* history: the values the CRM worked out for the deal

worthVars == <<worth, pricing, worked>>

WorthType == [value : Values, basis : Bases, ours : BOOLEAN]
PricingType == [pc : {"idle", "read", "reread"}, price : Prices \cup {0}, deal : WorthType]

DealValueTypeOK ==
  /\ worth \in WorthType /\ pricing \in [Requesters -> PricingType] /\ worked \in SUBSET Values

(* _price_basis(), value_basis(), expected_value(): a price no home costs  *)
(* is none.                                                                *)
Plausible(p) == SmallestPrice <= p /\ p <= LargestPrice
BasisOf(p) == IF Plausible(p) THEN [method |-> "commission", price |-> p]
              ELSE [method |-> "fixed", price |-> 0]
ValueOf(p) == BasisOf(p).price

(* Opened by a form, by an agent, or by a form in another currency. *)
DealValueInit ==
  /\ \E p \in Prices, ours \in BOOLEAN :
       worth \in {[value |-> ValueOf(p), basis |-> BasisOf(p), ours |-> ours],
                  [value |-> p, basis |-> NoBasis, ours |-> ours]}
  /\ worked = IF worth.basis = NoBasis THEN {} ELSE {worth.value}
  /\ pricing = [q \in Requesters |-> [pc |-> "idle", price |-> 0, deal |-> worth]]

(* revalue() *)
Reprices(d, p) ==
  /\ d.basis # NoBasis /\ d.value = d.basis.price
  /\ d.ours
  /\ BasisOf(p).method = "commission" /\ BasisOf(p) # d.basis

-----------------------------------------------------------------------------
(* _opportunity(), of a request that names a price, or none (0). *)
ReadDeal(q, p) ==
  /\ pricing[q].pc = "idle"
  /\ pricing' = [pricing EXCEPT ![q] = [pc |-> "read", price |-> p, deal |-> worth]]
  /\ UNCHANGED <<worth, worked>>

WriteAnyway(d) == TRUE  \* mutant
ValueUnmoved(d) == worth.value = d.value

Reprice(q) ==
  /\ pricing[q].pc = "read" /\ Reprices(pricing[q].deal, pricing[q].price)
  /\ IF ValueUnmoved(pricing[q].deal)
     THEN /\ worth' = [worth EXCEPT !.value = ValueOf(pricing[q].price),
                                    !.basis = BasisOf(pricing[q].price)]
          /\ worked' = worked \cup {ValueOf(pricing[q].price)}
          /\ pricing' = [pricing EXCEPT ![q].pc = "idle"]
     ELSE /\ pricing' = [pricing EXCEPT ![q].pc = "reread"]
          /\ UNCHANGED <<worth, worked>>

(* The request goes on the deal's history and its value is left alone. *)
LeaveValue(q) ==
  /\ \/ pricing[q].pc = "reread"
     \/ pricing[q].pc = "read" /\ ~Reprices(pricing[q].deal, pricing[q].price)
  /\ pricing' = [pricing EXCEPT ![q].pc = "idle"]
  /\ UNCHANGED <<worth, worked>>

(* An agent saves a figure (crm_core, update_opportunity). *)
TypeFigure(v) ==
  /\ worth' = [worth EXCEPT !.value = v]
  /\ UNCHANGED <<pricing, worked>>

DealValueNext ==
  \/ \E q \in Requesters : (\E p \in Prices \cup {0} : ReadDeal(q, p)) \/ Reprice(q) \/ LeaveValue(q)
  \/ \E v \in Figures : TypeFigure(v)

DealValueSpec == DealValueInit /\ [][DealValueNext]_worthVars

-----------------------------------------------------------------------------
(***************************************************************************)
(* "A figure someone typed is theirs" (revalue): while the deal carries    *)
(* one the CRM never worked out for it, no request changes it, however the *)
(* requests and the agent's saves fall between one another.                *)
(***************************************************************************)
TypedFigureStays ==
  [][worth.value \notin worked => worth'.basis = worth.basis]_worthVars

(***************************************************************************)
(* The basis on the deal is one of a value worked out for it: the history  *)
(* never shows a commission on a price nobody gave.                        *)
(***************************************************************************)
BasisWasWorked == worth.basis # NoBasis => worth.basis.price \in worked

(***************************************************************************)
(* What the value of a deal promises.                                      *)
(***************************************************************************)
FiguresHold == [](DealValueTypeOK /\ BasisWasWorked) /\ TypedFigureStays
=============================================================================
