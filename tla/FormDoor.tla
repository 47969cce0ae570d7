------------------------------ MODULE FormDoor ------------------------------
(***************************************************************************)
(* The door of a website form (backend/website_forms.py): which form a     *)
(* request reaches, what is asked of it, and the limits on how many get    *)
(* in, from one visitor and of one form.  The same limits guard the public *)
(* booking pages (backend/booking.py, rate_limited).                       *)
(*                                                                         *)
(* A limit is a count of the attempts of the last hour or minute and then  *)
(* a record of one more: other requests get between.  The windows slide in *)
(* the code, and are emptied at once here.                                 *)
(*                                                                         *)
(* Bounds: Keys, the server keys a form is ever given, are used in order.  *)
(***************************************************************************)
EXTENDS Naturals, FiniteSets

CONSTANTS Knocks, Visitors, PerVisitor, PerForm, MaxKey

Server == "server"

ASSUME FormDoorAssumption ==
  /\ IsFiniteSet(Knocks) /\ Server \notin Visitors
  /\ PerVisitor \in Nat \ {0} /\ PerForm \in Nat \ {0} /\ MaxKey \in Nat

Senders == Visitors \cup {Server}

VARIABLES
  door,       \* website_forms: status, server_key_hash and whether a challenge is set
  lately,     \* web_form_attempts of the last minute
  perHour,    \* web_form_attempts of the last hour, by visitor
  knock       \* the requests

doorVars == <<door, lately, perHour, knock>>

DoorType == [status : {"active", "paused", "archived"}, key : 0..MaxKey, captcha : BOOLEAN]
KnockPcs == {"idle", "origin", "visitor", "form", "record", "captcha", "in", "refused"}
KnockType == [pc : KnockPcs, who : Senders, captcha : BOOLEAN]

FormDoorTypeOK ==
  /\ door \in DoorType /\ lately \in Nat /\ perHour \in [Visitors -> Nat]
  /\ knock \in [Knocks -> KnockType]

FormDoorInit ==
  /\ door = [status |-> "active", key |-> 0, captcha |-> FALSE]
  /\ lately = 0 /\ perHour = [v \in Visitors |-> 0]
  /\ knock = [x \in Knocks |-> [pc |-> "idle", who |-> Server, captcha |-> FALSE]]

Answer(x, pc) == knock' = [knock EXCEPT ![x].pc = pc]

(* form_by_key(), server_key_matches(), server_intake(): only an active     *)
(* form is found; a server key that is not the form's is refused, not taken *)
(* for a visitor, and a request that bears the form's own skips what is     *)
(* asked of a browser.                                                      *)
Arrives(x, v, key) ==
  /\ knock[x].pc = "idle"
  /\ (key = 0) = (v # Server)
  /\ knock' = [knock EXCEPT ![x] =
       [who |-> v, captcha |-> door.captcha,
        pc |-> IF door.status # "active" \/ (key # 0 /\ key # door.key) THEN "refused"
               ELSE IF key = 0 THEN "origin" ELSE "form"]]
  /\ UNCHANGED <<door, lately, perHour>>

(* handle_public_submission(): the website it comes from. *)
CheckOrigin(x, allowed) ==
  /\ knock[x].pc = "origin"
  /\ Answer(x, IF allowed THEN "visitor" ELSE "refused")
  /\ UNCHANGED <<door, lately, perHour>>

(* _rate_limited() *)
VisitorMayTryOnceMore(v) == perHour[v] <= PerVisitor  \* mutant
VisitorMayTry(v) == perHour[v] < PerVisitor

CountVisitor(x) ==
  /\ knock[x].pc = "visitor"
  /\ Answer(x, IF VisitorMayTry(knock[x].who) THEN "form" ELSE "refused")
  /\ UNCHANGED <<door, lately, perHour>>

FormMayTry == lately < PerForm

CountForm(x) ==
  /\ knock[x].pc = "form"
  /\ Answer(x, IF FormMayTry THEN "record" ELSE "refused")
  /\ UNCHANGED <<door, lately, perHour>>

RecordAttempt(x) ==
  /\ knock[x].pc = "record"
  /\ lately' = lately + 1
  /\ perHour' = [v \in Visitors |-> perHour[v] + IF v = knock[x].who THEN 1 ELSE 0]
  /\ Answer(x, IF knock[x].who = Server THEN "in" ELSE "captcha")
  /\ UNCHANGED door

(* _captcha_passed(), verify_turnstile(): fails closed, on the form as read. *)
CheckCaptcha(x, passed) ==
  /\ knock[x].pc = "captcha"
  /\ Answer(x, IF knock[x].captcha => passed THEN "in" ELSE "refused")
  /\ UNCHANGED <<door, lately, perHour>>

(* The caller has its answer; what gets in is LeadIntake's. *)
Leaves(x) ==
  /\ knock[x].pc \in {"in", "refused"}
  /\ Answer(x, "idle")
  /\ UNCHANGED <<door, lately, perHour>>

MinuteOver ==
  /\ lately # 0
  /\ lately' = 0
  /\ UNCHANGED <<door, perHour, knock>>

HourOver(v) ==
  /\ lately = 0 /\ perHour[v] # 0
  /\ perHour' = [perHour EXCEPT ![v] = 0]
  /\ UNCHANGED <<door, lately, knock>>

(* update_form(), create_server_key(), revoke_server_key() *)
SetStatus(status, captcha) ==
  /\ door' = [door EXCEPT !.status = status, !.captcha = captcha]
  /\ UNCHANGED <<lately, perHour, knock>>

SetServerKey(key) ==
  /\ key \in {0, door.key + 1}
  /\ door' = [door EXCEPT !.key = key]
  /\ UNCHANGED <<lately, perHour, knock>>

FormDoorNext ==
  \/ \E x \in Knocks :
       \/ \E v \in Senders, key \in 0..MaxKey : Arrives(x, v, key)
       \/ CountVisitor(x) \/ CountForm(x) \/ RecordAttempt(x) \/ Leaves(x)
       \/ \E ok \in BOOLEAN : CheckOrigin(x, ok) \/ CheckCaptcha(x, ok)
  \/ MinuteOver
  \/ \E v \in Visitors : HourOver(v)
  \/ \E status \in {"active", "paused", "archived"}, captcha \in BOOLEAN : SetStatus(status, captcha)
  \/ \E key \in 0..MaxKey : SetServerKey(key)

FormDoorSpec == FormDoorInit /\ [][FormDoorNext]_doorVars

-----------------------------------------------------------------------------
Recording == {x \in Knocks : knock[x].pc = "record"}
Admitted(v) == {x \in Knocks : knock[x].pc \in {"form", "record"} /\ knock[x].who = v}

(***************************************************************************)
(* The limits hold but for the requests that counted side by side: of n    *)
(* requests at a time, n - 1 more than the limit get in, and never more,   *)
(* of a form in a minute and of a visitor in an hour (_rate_limited).      *)
(***************************************************************************)
FormLimitHolds == lately + Cardinality(Recording) <= PerForm + Cardinality(Knocks) - 1
VisitorLimitHolds ==
  \A v \in Visitors : perHour[v] + Cardinality(Admitted(v)) <= PerVisitor + Cardinality(Knocks) - 1
LimitsHold == FormDoorTypeOK /\ FormLimitHolds /\ VisitorLimitHolds
=============================================================================
