---------------------------- MODULE SingleUseGate ----------------------------
(***************************************************************************)
(* What an approval promises, with everything else forgotten: a gate is    *)
(* raised once, decided once, and a granted gate lets one execution        *)
(* through.  ApprovalQueue implements this specification.                  *)
(***************************************************************************)
EXTENDS Naturals

CONSTANT Gates          \* every approval request that can ever be raised

VARIABLES gate,
          passes        \* executions let through

gateVars == <<gate, passes>>

GateStates == {"unraised", "open", "granted", "refused", "spent"}

Move(g, from, to) == /\ gate[g] = from
                     /\ gate' = [gate EXCEPT ![g] = to]

Raise(g)  == Move(g, "unraised", "open") /\ UNCHANGED passes
Grant(g)  == Move(g, "open", "granted") /\ UNCHANGED passes
Refuse(g) == Move(g, "open", "refused") /\ UNCHANGED passes

(* The one way through: a granted gate closes behind whoever passes it. *)
Spend(g)  == /\ Move(g, "granted", "spent")
             /\ passes' = [passes EXCEPT ![g] = @ + 1]

(***************************************************************************)
(* A request whose subject still holds a lapsed request refuses the lapsed *)
(* one and raises the new one in one step.                                 *)
(***************************************************************************)
Replace(g, h) ==
  /\ gate[g] = "open"
  /\ gate[h] = "unraised"
  /\ gate' = [gate EXCEPT ![g] = "refused", ![h] = "open"]
  /\ UNCHANGED passes

Init == /\ gate = [g \in Gates |-> "unraised"]
        /\ passes = [g \in Gates |-> 0]

Next == \E g \in Gates : \/ Raise(g) \/ Grant(g) \/ Refuse(g) \/ Spend(g)
                         \/ \E h \in Gates : Replace(g, h)

Spec == Init /\ [][Next]_gateVars
=============================================================================
