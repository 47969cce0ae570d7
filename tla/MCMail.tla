------------------------------- MODULE MCMail --------------------------------
(***************************************************************************)
(* The ends of the letters, those that go out and those that come in, in   *)
(* one run.  They share no state here; `part' says which of them this      *)
(* behaviour is of, and the other stays as it begins.                      *)
(***************************************************************************)
EXTENDS OutboundDelivery, InboundMail

CONSTANTS l1, l2, c1

VARIABLE part

letterVars == <<vars, mailVars, part>>

(* One letter of any kind with everything around it, or two replies alone.  *)
AnyMail == [thread |-> CHOOSE t \in Threads : TRUE, ref |-> NoConv, bounce |-> FALSE]
AFewLetters ==
  /\ mail[l1].ref \in {NoConv, c1}
  /\ \/ inbox = {l1} /\ mailTurns = 0 /\ mailFaults = 0 /\ mail[l2] = AnyMail
     \/ /\ inbox = {l1, l2} /\ mailTurns = MaxTurns /\ mailFaults = MaxMailFaults /\ contacts = 0
        /\ \A l \in Letters : ~mail[l].bounce /\ mail[l].ref # NoConv
NoLetters ==
  /\ inbox = {} /\ contacts = 0 /\ mailTurns = 0 /\ mailFaults = 0
  /\ \A l \in Letters : mail[l] = AnyMail
  /\ \A c \in Convs : convs[c].thread = NoThread

LettersInit ==
  /\ part \in {"out", "in"}
  /\ OutboundInit
  /\ InboundInit /\ IF part = "in" THEN AFewLetters ELSE NoLetters

LettersNext ==
  /\ UNCHANGED part
  /\ \/ part = "out" /\ OutboundNext /\ UNCHANGED mailVars
     \/ part = "in" /\ InboundNext /\ UNCHANGED vars

(* As in the modules; polls are owed only where letters come in. *)
LettersFairness ==
  /\ OutboundFairness
  /\ \A p \in Polls : WF_mailVars(part = "in" /\ Fetch(p)) /\ WF_mailVars(PollStep(p) \/ FileStep(p))

LettersSpec == LettersInit /\ [][LettersNext]_letterVars /\ LettersFairness
=============================================================================
