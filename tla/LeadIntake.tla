----------------------------- MODULE LeadIntake -----------------------------
(***************************************************************************)
(* The way of a website submission into the CRM (backend/website_forms.py, *)
(* LeadPipeline): filed once, then matched to a contact, assigned, given a *)
(* deal and a call-back task, and linked to all of them.  Every look-up    *)
(* and every write is a step of its own, and calls run side by side.       *)
(*                                                                         *)
(* A submission is known by who sent it, what it says and the id the       *)
(* website gave it.  The contact policy is update_existing, the deal's     *)
(* reuse_open_deal.  What becomes of a filed lead is LeadClock's, the      *)
(* value of the deal DealValue's.                                          *)
(*                                                                         *)
(* Bounds: the ids of enquiries, contacts and deals.                       *)
(***************************************************************************)
EXTENDS Naturals

CONSTANTS Submissions, Filers, MaxIds, NoSid, NoOne

ASSUME LeadIntakeAssumption ==
  /\ MaxIds \in Nat /\ Submissions # {}
  /\ \A s \in Submissions : DOMAIN s = {"who", "says", "sid"} /\ s.who # NoOne

Ids == 1..MaxIds
People == {s.who : s \in Submissions}

VARIABLES
  enquiry,    \* web_enquiries
  contact,    \* contacts, by the person they are of
  deal,       \* opportunities, by the contact they are of
  filer       \* the calls of submit()

intakeVars == <<enquiry, contact, deal, filer>>

(* since: history, the ids taken when the call that made the record came in. *)
Absent == [status |-> "absent"]
EnquiryType == [status : {"filed", "linked"}, sub : Submissions, recent : BOOLEAN,
                contact : Ids \cup {0}, deal : Ids \cup {0}, task : BOOLEAN, since : SUBSET Ids]
ContactType == [who : People \cup {NoOne}, assigned : BOOLEAN, since : SUBSET Ids]
DealType == [contact : Ids \cup {0}, open : BOOLEAN, since : SUBSET Ids]
FilerPcs == {"idle", "recent", "insert", "find", "create", "assign", "reuse", "open", "task", "link"}
FilerType == [pc : FilerPcs, e : Ids \cup {0}, c : Ids \cup {0}, d : Ids \cup {0}, task : BOOLEAN,
              enquiries : SUBSET Ids, contacts : SUBSET Ids, deals : SUBSET Ids]

NoContact == [who |-> NoOne, assigned |-> FALSE, since |-> {}]
NoDeal == [contact |-> 0, open |-> FALSE, since |-> {}]
FilerAtRest == [pc |-> "idle", e |-> 0, c |-> 0, d |-> 0, task |-> FALSE,
           enquiries |-> {}, contacts |-> {}, deals |-> {}]

Filed == {e \in Ids : enquiry[e] # Absent}
Known == {c \in Ids : contact[c] # NoContact}
Opened == {d \in Ids : deal[d] # NoDeal}

LeadIntakeTypeOK ==
  /\ enquiry \in [Ids -> EnquiryType \cup {Absent}] /\ contact \in [Ids -> ContactType]
  /\ deal \in [Ids -> DealType]
  /\ \A x \in Filers : filer[x].call \in FilerType /\ filer[x].sub \in Submissions

LeadIntakeInit ==
  /\ enquiry = [e \in Ids |-> Absent] /\ contact = [c \in Ids |-> NoContact]
  /\ deal = [d \in Ids |-> NoDeal]
  /\ filer = [x \in Filers |-> [call |-> FilerAtRest, sub |-> CHOOSE s \in Submissions : TRUE]]

Filing(x, pc) == filer[x].call.pc = pc
Then(x, call) == filer' = [filer EXCEPT ![x].call = call]
Rest(x) == Then(x, FilerAtRest)
NewId(taken) == CHOOSE i \in Ids \ taken : TRUE

(* submit(), of what got past the door; a bot's submission is answered and *)
(* forgotten (FormAnswers).                                                *)
Submit(x, s) ==
  /\ Filing(x, "idle") /\ Filed # Ids
  /\ filer' = [filer EXCEPT ![x] =
       [sub |-> s, call |-> [FilerAtRest EXCEPT !.pc = "recent", !.enquiries = Filed, !.contacts = Known,
                                           !.deals = Opened]]]
  /\ UNCHANGED <<enquiry, contact, deal>>

Same(s, t) == s.who = t.who /\ s.says = t.says
RecentRetry(s) == \E e \in Filed : enquiry[e].recent /\ enquiry[e].sub = s  \* mutant
RecentLike(s) == \E e \in Filed : enquiry[e].recent /\ Same(enquiry[e].sub, s)

(* The same answers within minutes are the same submission. *)
CheckRecent(x) ==
  /\ Filing(x, "recent")
  /\ IF RecentLike(filer[x].sub) THEN Rest(x) ELSE Then(x, [filer[x].call EXCEPT !.pc = "insert"])
  /\ UNCHANGED <<enquiry, contact, deal>>

(* The unique index on the website's own id. *)
SidTaken(s) == \E e \in Filed : enquiry[e].sub.sid = s.sid /\ s.sid # NoSid

FileLead(x) ==
  /\ Filing(x, "insert")
  /\ IF SidTaken(filer[x].sub) THEN Rest(x) /\ UNCHANGED enquiry
     ELSE /\ Filed # Ids
          /\ LET e == NewId(Filed)
             IN /\ enquiry' = [enquiry EXCEPT ![e] =
                     [status |-> "filed", sub |-> filer[x].sub, recent |-> TRUE, contact |-> 0,
                      deal |-> 0, task |-> FALSE, since |-> filer[x].call.enquiries]]
                /\ Then(x, [filer[x].call EXCEPT !.pc = "find", !.e = e, !.enquiries = {}])
  /\ UNCHANGED <<contact, deal>>

ContactsOf(who) == {c \in Known : contact[c].who = who}

(* _upsert_contact(): looked for, by address or number, then made. *)
FindContact(x) ==
  /\ Filing(x, "find")
  /\ \/ /\ ContactsOf(filer[x].sub.who) = {}
        /\ Then(x, [filer[x].call EXCEPT !.pc = "create"])
     \/ \E c \in ContactsOf(filer[x].sub.who) :
          Then(x, [filer[x].call EXCEPT !.pc = "assign", !.c = c, !.contacts = {}])
  /\ UNCHANGED <<enquiry, contact, deal>>

CreateContact(x) ==
  /\ Filing(x, "create") /\ Known # Ids
  /\ LET c == NewId(Known)
     IN /\ contact' = [contact EXCEPT ![c] = [who |-> filer[x].sub.who, assigned |-> FALSE,
                                              since |-> filer[x].call.contacts]]
        /\ Then(x, [filer[x].call EXCEPT !.pc = "assign", !.c = c, !.contacts = {}])
  /\ UNCHANGED <<enquiry, deal>>

(* _assign(): nobody, a named agent, the next in turn, or who has the       *)
(* contact already.  An existing client and a form without deals get none.  *)
Assign(x) ==
  /\ Filing(x, "assign")
  /\ \E assigned \in {TRUE, contact[filer[x].call.c].assigned} :
       contact' = [contact EXCEPT ![filer[x].call.c].assigned = assigned]
  /\ \E pc \in {"reuse", "task"} : Then(x, [filer[x].call EXCEPT !.pc = pc])
  /\ UNCHANGED <<enquiry, deal>>

DealsOf(c) == {d \in Opened : deal[d].contact = c /\ deal[d].open}

(* _opportunity(): a person's open deal carries every later request. *)
ReuseDeal(x) ==
  /\ Filing(x, "reuse")
  /\ \/ /\ DealsOf(filer[x].call.c) = {}
        /\ Then(x, [filer[x].call EXCEPT !.pc = "open"])
     \/ \E d \in DealsOf(filer[x].call.c) :
          Then(x, [filer[x].call EXCEPT !.pc = "task", !.d = d, !.deals = {}])
  /\ UNCHANGED <<enquiry, contact, deal>>

OpenDeal(x) ==
  /\ Filing(x, "open") /\ Opened # Ids
  /\ LET d == NewId(Opened)
     IN /\ deal' = [deal EXCEPT ![d] = [contact |-> filer[x].call.c, open |-> TRUE,
                                        since |-> filer[x].call.deals]]
        /\ Then(x, [filer[x].call EXCEPT !.pc = "task", !.d = d, !.deals = {}])
  /\ UNCHANGED <<enquiry, contact>>

(* _task(), if the form makes one. *)
CallBackTask(x) ==
  /\ Filing(x, "task")
  /\ \E task \in BOOLEAN : Then(x, [filer[x].call EXCEPT !.pc = "link", !.task = task])
  /\ UNCHANGED <<enquiry, contact, deal>>

(* The lead is linked; the alerts, the webhook and the reply follow. *)
Link(x) ==
  /\ Filing(x, "link")
  /\ enquiry' = [enquiry EXCEPT ![filer[x].call.e] =
       [@ EXCEPT !.status = "linked", !.contact = filer[x].call.c, !.deal = filer[x].call.d,
                 !.task = filer[x].call.task]]
  /\ Rest(x)
  /\ UNCHANGED <<contact, deal>>

(* A step fails or the process dies: what is filed stays, and is all. *)
GiveUpLead(x) ==
  /\ ~Filing(x, "idle")
  /\ Rest(x)
  /\ UNCHANGED <<enquiry, contact, deal>>

MinutesPass(e) ==
  /\ e \in Filed /\ enquiry[e].recent
  /\ enquiry' = [enquiry EXCEPT ![e].recent = FALSE]
  /\ UNCHANGED <<contact, deal, filer>>

(* The deal is won, lost, archived or too old to carry a new request. *)
DealCloses(d) ==
  /\ d \in Opened /\ deal[d].open
  /\ deal' = [deal EXCEPT ![d].open = FALSE]
  /\ UNCHANGED <<enquiry, contact, filer>>

LeadIntakeNext ==
  \/ \E x \in Filers :
       \/ \E s \in Submissions : Submit(x, s)
       \/ CheckRecent(x) \/ FileLead(x) \/ FindContact(x) \/ CreateContact(x) \/ Assign(x)
       \/ ReuseDeal(x) \/ OpenDeal(x) \/ CallBackTask(x) \/ Link(x) \/ GiveUpLead(x)
  \/ \E i \in Ids : MinutesPass(i) \/ DealCloses(i)

LeadIntakeSpec == LeadIntakeInit /\ [][LeadIntakeNext]_intakeVars

-----------------------------------------------------------------------------
(***************************************************************************)
(* A website's retry with its own id is filed once, however many calls     *)
(* carry it at once (submit, the index on external_id).                    *)
(***************************************************************************)
OneEnquiryPerSid ==
  \A e, f \in Filed : enquiry[e].sub.sid = enquiry[f].sub.sid /\ enquiry[e].sub.sid # NoSid => e = f

(***************************************************************************)
(* What is looked for before it is made is made twice only by calls that   *)
(* ran side by side: no call makes a second contact for a person, or a     *)
(* second open deal for a contact, when there was one as it came in        *)
(* (_upsert_contact, _opportunity).                                        *)
(***************************************************************************)
TwinsAreConcurrent ==
  /\ \A c, d \in Known : c \in contact[d].since => contact[c].who # contact[d].who
  /\ \A c, d \in Opened : c \in deal[d].since /\ deal[c].open => deal[c].contact # deal[d].contact

(***************************************************************************)
(* The same for a submission with the answers of a recent one (submit).    *)
(***************************************************************************)
LateDuplicateCollapses ==
  \A e, f \in Filed :
    e \in enquiry[f].since /\ enquiry[e].recent => ~Same(enquiry[e].sub, enquiry[f].sub)

(***************************************************************************)
(* What the filing of leads promises.                                      *)
(***************************************************************************)
LeadsHold == LeadIntakeTypeOK /\ OneEnquiryPerSid /\ TwinsAreConcurrent /\ LateDuplicateCollapses
=============================================================================
