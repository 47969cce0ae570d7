------------------------------ MODULE WebForm ------------------------------
(***************************************************************************)
(* The settings of one website form of backend/website_forms.py, which two *)
(* admins may edit at once, and the automatic reply to its leads, which    *)
(* goes out under one approval of its words.  The door is FormDoor's, what *)
(* else is made of a lead LeadIntake's.  The settings are the words of the *)
(* reply, whether it is on, and the approval of its words; the others tell *)
(* nothing apart here.                                                     *)
(*                                                                         *)
(* Bounds: MaxRequests approvals and the replies.                          *)
(***************************************************************************)
EXTENDS Integers

CONSTANTS Words, Edits, Replies, MaxRequests

ASSUME WebFormAssumption == MaxRequests \in Nat /\ Words # {}

Requests == 1..MaxRequests
VARIABLES
  form,       \* website_forms: the stored settings
  request,    \* approval_requests for the words of the reply
  edit,       \* the admins' updates in flight
  reply       \* the leads, each with the settings its submission read

formVars == <<form, request, edit, reply>>

SettingsType == [words : Words, enabled : BOOLEAN, approval : Requests \cup {0}]
RequestType == [status : {"none", "requested", "approved", "closed"},
                words : Words]
EditType == [pc : {"idle", "write", "request", "bind"}, settings : SettingsType]
ReplyType == [pc : {"none", "filed", "send", "sent", "unsent"}, settings : SettingsType]

WebFormTypeOK ==
  /\ form \in SettingsType /\ request \in [Requests -> RequestType] /\ edit \in [Edits -> EditType]
  /\ reply \in [Replies -> ReplyType]

AnyWords == CHOOSE w \in Words : TRUE
NewSettings == [words |-> AnyWords, enabled |-> FALSE, approval |-> 0]
NoEdit == [pc |-> "idle", settings |-> NewSettings]
NoReply == [pc |-> "none", settings |-> NewSettings]
Unsent == [pc |-> "unsent", settings |-> NewSettings]

WebFormInit ==
  /\ form = NewSettings
  /\ request = [r \in Requests |-> [status |-> "none", words |-> AnyWords]]
  /\ edit = [x \in Edits |-> NoEdit]
  /\ reply = [l \in Replies |-> NoReply]

(* Mutant: the approval on the form counts for whatever words it has.       *)
ApprovalOfForm(f) == IF f.approval = 0 THEN "not_requested" ELSE request[f.approval].status

(* template_approval_state(): of the form as a call holds it; the approval  *)
(* counts only for the words it is bound to.                                *)
ApprovalState(f) ==
  IF f.approval = 0 \/ request[f.approval].words # f.words THEN "not_requested"
  ELSE request[f.approval].status

-----------------------------------------------------------------------------
(* update_form(): the form is read, the change merged into what was read,   *)
(* and the settings written whole (merge_settings, validate_fields).        *)
EditRead(x, words, enabled) ==
  /\ edit[x].pc = "idle"
  /\ edit' = [edit EXCEPT ![x] = [pc |-> "write",
                                  settings |-> [form EXCEPT !.words = words, !.enabled = enabled]]]
  /\ UNCHANGED <<form, request, reply>>

EditWrite(x) ==
  /\ edit[x].pc = "write"
  /\ form' = edit[x].settings
  /\ edit' = IF edit[x].settings.enabled /\ ApprovalState(edit[x].settings) \notin {"requested", "approved"}
             THEN [edit EXCEPT ![x].pc = "request"] ELSE [edit EXCEPT ![x] = NoEdit]
  /\ UNCHANGED <<request, reply>>

(* request_template_approval(): one open request for the same words.        *)
OpenFor(w) == {r \in Requests : request[r].status = "requested" /\ request[r].words = w}

RequestWords(x) ==
  /\ edit[x].pc = "request"
  /\ \E r \in Requests :
       /\ IF OpenFor(edit[x].settings.words) # {} THEN r \in OpenFor(edit[x].settings.words) /\ UNCHANGED request
          ELSE /\ request[r].status = "none"
               /\ request' = [request EXCEPT ![r] = [status |-> "requested", words |-> edit[x].settings.words]]
       /\ edit' = [edit EXCEPT ![x].pc = "bind", ![x].settings.approval = r]
  /\ UNCHANGED <<form, reply>>

BindRequest(x) ==
  /\ edit[x].pc = "bind"
  /\ form' = [form EXCEPT !.approval = edit[x].settings.approval]
  /\ edit' = [edit EXCEPT ![x] = NoEdit]
  /\ UNCHANGED <<request, reply>>

(* The admin's request dies. *)
EditDies(x) ==
  /\ edit[x].pc # "idle"
  /\ edit' = [edit EXCEPT ![x] = NoEdit]
  /\ UNCHANGED <<form, request, reply>>

(* An admin decides, or the request lapses. *)
DecideWords(r, verdict) ==
  /\ request[r].status = "requested"
  /\ request' = [request EXCEPT ![r].status = verdict]
  /\ UNCHANGED <<form, edit, reply>>

-----------------------------------------------------------------------------
(* A submission, with the settings of the form as they are then. *)
Submitted(l) ==
  /\ reply[l].pc = "none"
  /\ reply' = [reply EXCEPT ![l] = IF form.enabled THEN [pc |-> "filed", settings |-> form] ELSE Unsent]
  /\ UNCHANGED <<form, request, edit>>

(* auto_reply(), spawned for a lead with an address, goes by those settings. *)
CheckReply(l) ==
  /\ reply[l].pc = "filed"
  /\ reply' = IF ApprovalState(reply[l].settings) = "approved"
             THEN [reply EXCEPT ![l].pc = "send"] ELSE [reply EXCEPT ![l] = Unsent]
  /\ UNCHANGED <<form, request, edit>>

(* The rendered message has an approval of its own and may yet be blocked.  *)
SendReply(l) ==
  /\ reply[l].pc = "send"
  /\ \/ reply' = [reply EXCEPT ![l].pc = "sent"]
     \/ reply' = [reply EXCEPT ![l] = Unsent]
  /\ UNCHANGED <<form, request, edit>>

WebFormNext ==
  \/ \E x \in Edits : \/ \E words \in Words, enabled \in BOOLEAN : EditRead(x, words, enabled)
                      \/ EditWrite(x) \/ RequestWords(x) \/ BindRequest(x) \/ EditDies(x)
  \/ \E r \in Requests, verdict \in {"approved", "closed"} : DecideWords(r, verdict)
  \/ \E l \in Replies : Submitted(l) \/ CheckReply(l) \/ SendReply(l)

WebFormSpec == WebFormInit /\ [][WebFormNext]_formVars

-----------------------------------------------------------------------------
(***************************************************************************)
(* Nothing is sent on a standing approval but words an admin approved:     *)
(* whichever of two edits is lost, and whatever approval the form is left  *)
(* with, no reply bears other words (template_approval_state, auto_reply). *)
(***************************************************************************)
ReplyWordsWereApproved ==
  \A l \in Replies : reply[l].pc = "sent" =>
    \E r \in Requests : request[r].words = reply[l].settings.words /\ request[r].status = "approved"

(***************************************************************************)
(* What a form promises of its standing reply.                             *)
(***************************************************************************)
WebFormHolds == WebFormTypeOK /\ ReplyWordsWereApproved
=============================================================================
