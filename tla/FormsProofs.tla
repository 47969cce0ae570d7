----------------------------- MODULE FormsProofs -----------------------------
(***************************************************************************)
(* What holds at the website's forms and of the records they become, one   *)
(* component after the other: they share no state.                         *)
(***************************************************************************)
EXTENDS WebForm, FormDoor, LeadIntake, FormAnswers, DealValue, ContactImport, ContactMerge, Pipeline,
  FiniteSetTheorems, SequenceTheorems, WellFoundedInduction, TLAPS

(***************************************************************************)
(* The limits at a form's door for any number of requests, visitors and    *)
(* attempts allowed.  A limit is counted before the attempt is recorded,   *)
(* so what stays within bounds is the attempts recorded together with the  *)
(* requests that have been let past the count: that sum is inductive.      *)
(***************************************************************************)

N == Cardinality(Knocks)

LEMMA NIsNat == N \in Nat /\ IsFiniteSet(Knocks)
BY FormDoorAssumption, FS_CardinalityType DEF FormDoorAssumption, N

(* A set of requests that one more request joins was not all of them.       *)
LEMMA Joins ==
  ASSUME NEW S, S \subseteq Knocks, NEW x \in Knocks, x \notin S
  PROVE  /\ Cardinality(S \cup {x}) = Cardinality(S) + 1
         /\ Cardinality(S) \in Nat /\ Cardinality(S) + 1 <= N
<1>1. IsFiniteSet(S) /\ IsFiniteSet(S \cup {x})
  BY NIsNat, FS_Subset
<1>2. Cardinality(S \cup {x}) = Cardinality(S) + 1 /\ Cardinality(S) \in Nat
  BY <1>1, FS_AddElement, FS_CardinalityType
<1>3. Cardinality(S \cup {x}) <= N
  BY NIsNat, FS_Subset DEF N
<1> QED
  BY <1>2, <1>3

LEMMA Parts ==
  ASSUME NEW S, S \subseteq Knocks, NEW x \in S
  PROVE  /\ Cardinality(S \ {x}) = Cardinality(S) - 1
         /\ Cardinality(S) \in Nat /\ Cardinality(S \ {x}) \in Nat
<1>1. IsFiniteSet(S)
  BY NIsNat, FS_Subset
<1> QED
  BY <1>1, FS_RemoveElement, FS_CardinalityType

LEMMA NoMore ==
  ASSUME NEW S, NEW T, S \subseteq Knocks, T \subseteq S
  PROVE  Cardinality(T) <= Cardinality(S) /\ Cardinality(S) \in Nat /\ Cardinality(T) \in Nat
<1>1. IsFiniteSet(S) /\ IsFiniteSet(T)
  BY NIsNat, FS_Subset
<1> QED
  BY <1>1, FS_Subset, FS_CardinalityType

-----------------------------------------------------------------------------
LEMMA DoorTypes ==
  ASSUME FormDoorTypeOK, FormDoorNext
  PROVE  FormDoorTypeOK'
<1> USE FormDoorAssumption DEF FormDoorAssumption, FormDoorTypeOK, DoorType, KnockType, KnockPcs, Senders, Server, Answer
<1>1. ASSUME NEW x \in Knocks, NEW v \in Senders, NEW key \in 0..MaxKey, Arrives(x, v, key)
      PROVE  FormDoorTypeOK'
  BY <1>1 DEF Arrives
<1>2. ASSUME NEW x \in Knocks, CountVisitor(x) \/ CountForm(x) \/ RecordAttempt(x) \/ Leaves(x)
      PROVE  FormDoorTypeOK'
  BY <1>2 DEF CountVisitor, CountForm, RecordAttempt, Leaves
<1>3. ASSUME NEW x \in Knocks, NEW ok \in BOOLEAN, CheckOrigin(x, ok) \/ CheckCaptcha(x, ok)
      PROVE  FormDoorTypeOK'
  BY <1>3 DEF CheckOrigin, CheckCaptcha
<1>4. ASSUME MinuteOver \/ \E v \in Visitors : HourOver(v)
      PROVE  FormDoorTypeOK'
  BY <1>4 DEF MinuteOver, HourOver
<1>5. ASSUME NEW status \in {"active", "paused", "archived"}, NEW captcha \in BOOLEAN, SetStatus(status, captcha)
      PROVE  FormDoorTypeOK'
  BY <1>5 DEF SetStatus
<1>6. ASSUME NEW key \in 0..MaxKey, SetServerKey(key)
      PROVE  FormDoorTypeOK'
  BY <1>6 DEF SetServerKey
<1> QED
  BY <1>1, <1>2, <1>3, <1>4, <1>5, <1>6 DEF FormDoorNext

-----------------------------------------------------------------------------
(* The two sets a step can enlarge, and when.                               *)
LEMMA RecordingMoves ==
  ASSUME FormDoorTypeOK, NEW x \in Knocks, NEW pc, Answer(x, pc)
  PROVE  Recording' = IF pc = "record" THEN Recording \cup {x} ELSE Recording \ {x}
BY DEF FormDoorTypeOK, KnockType, Recording, Answer

LEMMA AdmittedMoves ==
  ASSUME FormDoorTypeOK, NEW x \in Knocks, NEW pc, Answer(x, pc), NEW v \in Visitors
  PROVE  Admitted(v)' = IF pc \in {"form", "record"} /\ knock[x].who = v THEN Admitted(v) \cup {x} ELSE Admitted(v) \ {x}
BY DEF FormDoorTypeOK, KnockType, Admitted, Answer

LEMMA FormStep ==
  ASSUME FormDoorTypeOK, FormLimitHolds, FormDoorNext
  PROVE  FormLimitHolds'
<1> DEFINE Sum == lately + Cardinality(Recording)
<1>0. /\ N \in Nat /\ lately \in Nat /\ PerForm \in Nat \ {0} /\ Recording \subseteq Knocks
      /\ Cardinality(Recording) \in Nat /\ Sum <= PerForm + N - 1
  BY FormDoorAssumption, NIsNat, NoMore DEF FormDoorTypeOK, FormDoorAssumption, FormLimitHolds, Recording, N
<1> SUFFICES (lately + Cardinality(Recording))' <= PerForm + N - 1
  BY DEF FormLimitHolds, N
<1>1. ASSUME Recording' \subseteq Recording, lately' = lately \/ lately' = 0
      PROVE  (lately + Cardinality(Recording))' <= PerForm + N - 1
  <2>1. Cardinality(Recording') <= Cardinality(Recording) /\ Cardinality(Recording') \in Nat
    BY <1>0, <1>1, NoMore
  <2> QED
    BY <1>0, <1>1, <2>1
<1>2. ASSUME NEW x \in Knocks, NEW v \in Senders, NEW key \in 0..MaxKey, Arrives(x, v, key)
      PROVE  Recording' \subseteq Recording /\ lately' = lately
  BY <1>2 DEF Arrives, Recording, FormDoorTypeOK, KnockType
<1>3. ASSUME NEW x \in Knocks, CountVisitor(x) \/ Leaves(x)
      PROVE  Recording' \subseteq Recording /\ lately' = lately
  BY <1>3, RecordingMoves DEF CountVisitor, Leaves
<1>4. ASSUME NEW x \in Knocks, NEW ok \in BOOLEAN, CheckOrigin(x, ok) \/ CheckCaptcha(x, ok)
      PROVE  Recording' \subseteq Recording /\ lately' = lately
  BY <1>4, RecordingMoves DEF CheckOrigin, CheckCaptcha
<1>5. ASSUME NEW x \in Knocks, CountForm(x)
      PROVE  (lately + Cardinality(Recording))' <= PerForm + N - 1
  <2>1. lately' = lately /\ x \notin Recording
    BY <1>5 DEF CountForm, Recording
  <2>2. CASE FormMayTry
    <3>1. Recording' = Recording \cup {x} /\ lately + 1 <= PerForm
      BY <1>0, <1>5, <2>2, RecordingMoves DEF CountForm, FormMayTry
    <3>2. Cardinality(Recording') = Cardinality(Recording) + 1 /\ Cardinality(Recording) + 1 <= N
      BY <1>0, <2>1, <3>1, Joins
    <3> QED
      BY <1>0, <2>1, <3>1, <3>2
  <2>3. CASE ~FormMayTry
    BY <1>1, <1>5, <2>1, <2>3, RecordingMoves DEF CountForm
  <2> QED
    BY <2>2, <2>3
<1>6. ASSUME NEW x \in Knocks, RecordAttempt(x)
      PROVE  (lately + Cardinality(Recording))' <= PerForm + N - 1
  <2>1. x \in Recording /\ lately' = lately + 1
    BY <1>6 DEF RecordAttempt, Recording
  <2>2. Recording' = Recording \ {x}
    BY <1>6, RecordingMoves DEF RecordAttempt
  <2>3. Cardinality(Recording') = Cardinality(Recording) - 1
    BY <1>0, <2>1, <2>2, Parts
  <2> QED
    BY <1>0, <2>1, <2>3
<1>7. ASSUME MinuteOver \/ (\E v \in Visitors : HourOver(v)) \/ (\E s, c : SetStatus(s, c)) \/ (\E k : SetServerKey(k))
      PROVE  Recording' \subseteq Recording /\ (lately' = lately \/ lately' = 0)
  BY <1>7 DEF MinuteOver, HourOver, SetStatus, SetServerKey, Recording
<1> QED
  BY <1>1, <1>2, <1>3, <1>4, <1>5, <1>6, <1>7 DEF FormDoorNext

LEMMA VisitorStep ==
  ASSUME FormDoorTypeOK, VisitorLimitHolds, FormDoorNext
  PROVE  VisitorLimitHolds'
<1> SUFFICES ASSUME NEW v \in Visitors
             PROVE  (perHour[v] + Cardinality(Admitted(v)))' <= PerVisitor + N - 1
  BY DEF VisitorLimitHolds, N
<1>0. /\ N \in Nat /\ perHour[v] \in Nat /\ PerVisitor \in Nat \ {0} /\ Admitted(v) \subseteq Knocks
      /\ Cardinality(Admitted(v)) \in Nat /\ perHour[v] + Cardinality(Admitted(v)) <= PerVisitor + N - 1
  BY FormDoorAssumption, NIsNat, NoMore DEF FormDoorTypeOK, FormDoorAssumption, VisitorLimitHolds, Admitted, N
<1>1. ASSUME Admitted(v)' \subseteq Admitted(v), perHour'[v] = perHour[v] \/ perHour'[v] = 0
      PROVE  (perHour[v] + Cardinality(Admitted(v)))' <= PerVisitor + N - 1
  <2>1. Cardinality(Admitted(v)') <= Cardinality(Admitted(v)) /\ Cardinality(Admitted(v)') \in Nat
    BY <1>0, <1>1, NoMore
  <2> QED
    BY <1>0, <1>1, <2>1
<1>2. ASSUME NEW x \in Knocks, NEW w \in Senders, NEW key \in 0..MaxKey, Arrives(x, w, key)
      PROVE  Admitted(v)' \subseteq Admitted(v) /\ perHour'[v] = perHour[v]
  <2>1. perHour' = perHour /\ knock[x].pc = "idle"
    BY <1>2 DEF Arrives
  <2>2. knock'[x].pc \in {"form", "record"} => knock'[x].who # v
    BY <1>2, FormDoorAssumption DEF Arrives, FormDoorTypeOK, FormDoorAssumption
  <2>3. \A y \in Knocks \ {x} : knock'[y] = knock[y]
    BY <1>2 DEF Arrives, FormDoorTypeOK
  <2> QED
    BY <2>1, <2>2, <2>3 DEF Admitted
<1>3. ASSUME NEW x \in Knocks, CountForm(x) \/ Leaves(x)
      PROVE  Admitted(v)' \subseteq Admitted(v) /\ perHour'[v] = perHour[v]
  <2>1. CASE Leaves(x)
    BY <2>1, AdmittedMoves DEF Leaves
  <2>2. CASE CountForm(x)
    <3>1. knock[x].pc = "form" /\ perHour' = perHour
      BY <2>2 DEF CountForm
    <3>2. PICK pc : Answer(x, pc)
      BY <2>2 DEF CountForm
    <3>3. knock[x].who = v => x \in Admitted(v)
      BY <3>1 DEF Admitted
    <3>4. Admitted(v)' = IF pc \in {"form", "record"} /\ knock[x].who = v THEN Admitted(v) \cup {x} ELSE Admitted(v) \ {x}
      BY <3>2, AdmittedMoves
    <3> QED
      BY <3>1, <3>3, <3>4
  <2> QED
    BY <1>3, <2>1, <2>2
<1>4. ASSUME NEW x \in Knocks, NEW ok \in BOOLEAN, CheckOrigin(x, ok) \/ CheckCaptcha(x, ok)
      PROVE  Admitted(v)' \subseteq Admitted(v) /\ perHour'[v] = perHour[v]
  BY <1>4, AdmittedMoves DEF CheckOrigin, CheckCaptcha
<1>5. ASSUME NEW x \in Knocks, CountVisitor(x)
      PROVE  (perHour[v] + Cardinality(Admitted(v)))' <= PerVisitor + N - 1
  <2>1. perHour' = perHour /\ x \notin Admitted(v)
    BY <1>5 DEF CountVisitor, Admitted
  <2>2. CASE VisitorMayTry(knock[x].who) /\ knock[x].who = v
    <3>1. Admitted(v)' = Admitted(v) \cup {x} /\ perHour[v] + 1 <= PerVisitor
      BY <1>0, <1>5, <2>2, AdmittedMoves DEF CountVisitor, VisitorMayTry
    <3>2. Cardinality(Admitted(v)') = Cardinality(Admitted(v)) + 1 /\ Cardinality(Admitted(v)) + 1 <= N
      BY <1>0, <2>1, <3>1, Joins
    <3> QED
      BY <1>0, <2>1, <3>1, <3>2
  <2>3. CASE ~(VisitorMayTry(knock[x].who) /\ knock[x].who = v)
    BY <1>1, <1>5, <2>1, <2>3, AdmittedMoves DEF CountVisitor
  <2> QED
    BY <2>2, <2>3
<1>6. ASSUME NEW x \in Knocks, RecordAttempt(x)
      PROVE  (perHour[v] + Cardinality(Admitted(v)))' <= PerVisitor + N - 1
  <2>1. Admitted(v)' = Admitted(v) \ {x}
    BY <1>6, AdmittedMoves DEF RecordAttempt
  <2>2. CASE knock[x].who = v
    <3>1. x \in Admitted(v) /\ perHour'[v] = perHour[v] + 1
      BY <1>0, <1>6, <2>2 DEF RecordAttempt, Admitted
    <3>2. Cardinality(Admitted(v)') = Cardinality(Admitted(v)) - 1
      BY <1>0, <2>1, <3>1, Parts
    <3> QED
      BY <1>0, <3>1, <3>2
  <2>3. CASE knock[x].who # v
    <3>1. perHour'[v] = perHour[v]
      BY <1>0, <1>6, <2>3 DEF RecordAttempt
    <3> QED
      BY <1>1, <2>1, <3>1
  <2> QED
    BY <2>2, <2>3
<1>7. ASSUME MinuteOver \/ (\E w \in Visitors : HourOver(w)) \/ (\E s, c : SetStatus(s, c)) \/ (\E k : SetServerKey(k))
      PROVE  Admitted(v)' \subseteq Admitted(v) /\ (perHour'[v] = perHour[v] \/ perHour'[v] = 0)
  BY <1>7 DEF MinuteOver, HourOver, SetStatus, SetServerKey, Admitted, FormDoorTypeOK
<1> QED
  BY <1>1, <1>2, <1>3, <1>4, <1>5, <1>6, <1>7 DEF FormDoorNext

-----------------------------------------------------------------------------
(***************************************************************************)
(* However many requests come side by side, from however many visitors, a  *)
(* form lets in at most its limit and one less than there are requests at  *)
(* a time, in a minute and of each visitor in an hour (_rate_limited).     *)
(***************************************************************************)
THEOREM Limits == FormDoorSpec => []LimitsHold
<1>1. FormDoorInit => LimitsHold
  <2> SUFFICES ASSUME FormDoorInit PROVE LimitsHold
    OBVIOUS
  <2>1. FormDoorTypeOK
    BY FormDoorAssumption DEF FormDoorAssumption, FormDoorInit, FormDoorTypeOK, DoorType, KnockType, KnockPcs, Senders, Server
  <2>2. Recording = {} /\ \A v \in Visitors : Admitted(v) = {}
    BY DEF FormDoorInit, Recording, Admitted
  <2>3. Cardinality({}) = 0
    BY FS_EmptySet
  <2>4. /\ lately = 0 /\ \A v \in Visitors : perHour[v] = 0
        /\ N \in Nat /\ PerForm \in Nat \ {0} /\ PerVisitor \in Nat \ {0}
    BY NIsNat, FormDoorAssumption DEF FormDoorAssumption, FormDoorInit
  <2>5. FormLimitHolds
    BY <2>2, <2>3, <2>4 DEF FormLimitHolds, N
  <2>6. ASSUME NEW v \in Visitors
        PROVE  perHour[v] + Cardinality(Admitted(v)) <= PerVisitor + N - 1
    <3>1. Cardinality(Admitted(v)) = 0 /\ perHour[v] = 0
      BY <2>2, <2>3, <2>4
    <3> QED
      BY <3>1, <2>4
  <2>7. VisitorLimitHolds
    BY <2>6 DEF VisitorLimitHolds, N
  <2> QED
    BY <2>1, <2>5, <2>7 DEF LimitsHold
<1>2. LimitsHold /\ [FormDoorNext]_doorVars => LimitsHold'
  <2> SUFFICES ASSUME LimitsHold, [FormDoorNext]_doorVars PROVE LimitsHold'
    OBVIOUS
  <2>1. CASE FormDoorNext
    BY <2>1, DoorTypes, FormStep, VisitorStep DEF LimitsHold
  <2>2. CASE UNCHANGED doorVars
    BY <2>2 DEF doorVars, LimitsHold, FormDoorTypeOK, FormLimitHolds, VisitorLimitHolds, Recording, Admitted
  <2> QED
    BY <2>1, <2>2
<1> QED
  BY <1>1, <1>2, PTL DEF FormDoorSpec

-----------------------------------------------------------------------------
(***************************************************************************)
(* The standing reply for any number of words, edits, approvals and leads. *)
(* A reply checks the approval and is sent later, with the settings it     *)
(* was filed with; what lasts from the check to the sending is that an     *)
(* approved request stays approved and keeps its words.                    *)
(***************************************************************************)

Approved(w) == \E r \in Requests : request[r].words = w /\ request[r].status = "approved"
GoesOutWith(l, w) == reply[l].pc \in {"send", "sent"} /\ reply[l].settings.words = w
PassedOnItsWords == \A l \in Replies, w \in Words : GoesOutWith(l, w) => Approved(w)

FormInv == WebFormTypeOK /\ PassedOnItsWords

-----------------------------------------------------------------------------
LEMMA SomeWords == AnyWords \in Words /\ NewSettings \in SettingsType
<1>1. AnyWords \in Words
  BY WebFormAssumption DEF WebFormAssumption, AnyWords
<1> QED
  BY <1>1 DEF NewSettings, SettingsType

(* What a request is approved for, no step takes back.                      *)
LEMMA ApprovedStays ==
  ASSUME FormInv, [WebFormNext]_formVars, NEW w, Approved(w)
  PROVE  Approved(w)'
<1>1. PICK r \in Requests : request[r].words = w /\ request[r].status = "approved"
  BY DEF Approved
<1>2. request' = request => request'[r] = request[r]
  OBVIOUS
<1>3. ASSUME NEW x \in Edits, RequestWords(x)
      PROVE  request'[r] = request[r]
  BY <1>1, <1>3 DEF RequestWords, FormInv, WebFormTypeOK
<1>4. ASSUME NEW q \in Requests, NEW verdict, DecideWords(q, verdict)
      PROVE  request'[r] = request[r]
  BY <1>1, <1>4 DEF DecideWords, FormInv, WebFormTypeOK
<1>5. request'[r] = request[r]
  BY <1>2, <1>3, <1>4 DEF WebFormNext, formVars, EditRead, EditWrite, BindRequest, EditDies, Submitted, CheckReply, SendReply
<1> QED
  BY <1>1, <1>5 DEF Approved

LEMMA FormTypes ==
  ASSUME WebFormTypeOK, WebFormNext
  PROVE  WebFormTypeOK'
<1> USE SomeWords DEF WebFormTypeOK, SettingsType, EditType, ReplyType, NoEdit, Unsent
<1>1. ASSUME NEW x \in Edits, NEW words \in Words, NEW enabled \in BOOLEAN, EditRead(x, words, enabled)
      PROVE  WebFormTypeOK'
  <2>1. [form EXCEPT !.words = words, !.enabled = enabled] \in SettingsType
    OBVIOUS
  <2> QED
    BY <1>1, <2>1 DEF EditRead
<1>2. ASSUME NEW x \in Edits, EditWrite(x) \/ BindRequest(x) \/ EditDies(x)
      PROVE  WebFormTypeOK'
  <2>1. CASE EditWrite(x)
    <3>1. form' \in SettingsType
      BY <2>1 DEF EditWrite
    <3>2. edit' = [edit EXCEPT ![x].pc = "request"] \/ edit' = [edit EXCEPT ![x] = NoEdit]
      BY <2>1 DEF EditWrite
    <3>3. edit' \in [Edits -> EditType]
      BY <3>2
    <3> QED
      BY <2>1, <3>1, <3>3 DEF EditWrite
  <2>2. CASE BindRequest(x)
    <3>1. form' \in SettingsType
      BY <2>2 DEF BindRequest
    <3> QED
      BY <2>2, <3>1 DEF BindRequest
  <2>3. CASE EditDies(x)
    BY <2>3 DEF EditDies
  <2> QED
    BY <1>2, <2>1, <2>2, <2>3
<1>3. ASSUME NEW x \in Edits, RequestWords(x)
      PROVE  WebFormTypeOK'
  <2>1. PICK r \in Requests :
          /\ \/ UNCHANGED request
             \/ request' = [request EXCEPT ![r] = [status |-> "requested", words |-> edit[x].settings.words]]
          /\ edit' = [edit EXCEPT ![x].pc = "bind", ![x].settings.approval = r]
    BY <1>3 DEF RequestWords
  <2>2. request' \in [Requests -> RequestType]
    BY <2>1 DEF RequestType
  <2>3. edit' \in [Edits -> EditType]
    <3> DEFINE new == [edit[x] EXCEPT !.pc = "bind", !.settings = [edit[x].settings EXCEPT !.approval = r]]
    <3>1. edit[x] \in EditType /\ [edit[x].settings EXCEPT !.approval = r] \in SettingsType
      BY <2>1
    <3>2. new \in EditType
      BY <3>1
    <3>3. edit' = [edit EXCEPT ![x] = new]
      BY <2>1, <3>1
    <3> HIDE DEF new
    <3> QED
      BY <3>2, <3>3
  <2> QED
    BY <1>3, <2>2, <2>3 DEF RequestWords
<1>4. ASSUME NEW r \in Requests, NEW verdict \in {"approved", "closed"}, DecideWords(r, verdict)
      PROVE  WebFormTypeOK'
  BY <1>4 DEF DecideWords, RequestType
<1>5. ASSUME NEW l \in Replies, Submitted(l) \/ CheckReply(l) \/ SendReply(l)
      PROVE  WebFormTypeOK'
  BY <1>5 DEF Submitted, CheckReply, SendReply
<1> QED
  BY <1>1, <1>2, <1>3, <1>4, <1>5 DEF WebFormNext

(* A reply starts on its way only past an approval of its own words.        *)
LEMMA WordsStep ==
  ASSUME FormInv, WebFormNext, NEW l \in Replies, NEW w \in Words, GoesOutWith(l, w)'
  PROVE  Approved(w)
<1> USE DEF GoesOutWith, Unsent
<1>0. WebFormTypeOK /\ (GoesOutWith(l, w) => Approved(w))
  BY DEF FormInv, PassedOnItsWords
<1>1. CASE UNCHANGED reply
  BY <1>0, <1>1
<1>2. ASSUME NEW m \in Replies, Submitted(m)
      PROVE  Approved(w)
  BY <1>0, <1>2 DEF Submitted, WebFormTypeOK
<1>3. ASSUME NEW m \in Replies, CheckReply(m)
      PROVE  Approved(w)
  <2>1. CASE l # m
    BY <1>0, <1>3, <2>1 DEF CheckReply, WebFormTypeOK
  <2>2. CASE l = m
    <3>1. ApprovalState(reply[l].settings) = "approved" /\ reply[l].settings.words = w
      BY <1>0, <1>3, <2>2 DEF CheckReply, WebFormTypeOK
    <3>2. /\ reply[l].settings.approval # 0 /\ request[reply[l].settings.approval].words = w
          /\ request[reply[l].settings.approval].status = "approved"
      BY <3>1 DEF ApprovalState
    <3>3. reply[l].settings.approval \in Requests
      BY <1>0, <3>2 DEF WebFormTypeOK, ReplyType, SettingsType
    <3> QED
      BY <3>2, <3>3 DEF Approved
  <2> QED
    BY <2>1, <2>2
<1>4. ASSUME NEW m \in Replies, SendReply(m)
      PROVE  Approved(w)
  <2>1. CASE l # m
    BY <1>0, <1>4, <2>1 DEF SendReply, WebFormTypeOK
  <2>2. CASE l = m
    <3>1. reply[l].pc = "send" /\ reply[l] \in ReplyType
      BY <1>0, <1>4, <2>2 DEF SendReply, WebFormTypeOK
    <3>2. reply' = [reply EXCEPT ![l].pc = "sent"]
      BY <1>0, <1>4, <2>2 DEF SendReply, WebFormTypeOK
    <3>3. reply'[l].settings = reply[l].settings
      BY <1>0, <3>1, <3>2 DEF WebFormTypeOK, ReplyType
    <3> QED
      BY <1>0, <3>1, <3>3
  <2> QED
    BY <2>1, <2>2
<1> QED
  BY <1>1, <1>2, <1>3, <1>4 DEF WebFormNext, EditRead, EditWrite, RequestWords, BindRequest, EditDies, DecideWords

-----------------------------------------------------------------------------
(***************************************************************************)
(* However the settings are edited, by however many admins at once, and    *)
(* whatever is decided meanwhile, no standing reply goes out with words    *)
(* that no request was approved for (template_approval_state, auto_reply). *)
(***************************************************************************)
THEOREM WordsHold == WebFormSpec => []WebFormHolds
<1>1. WebFormInit => FormInv
  BY SomeWords DEF WebFormInit, FormInv, WebFormTypeOK, PassedOnItsWords, GoesOutWith, RequestType, EditType, ReplyType, NoEdit, NoReply
<1>2. FormInv /\ [WebFormNext]_formVars => FormInv'
  <2> SUFFICES ASSUME FormInv, [WebFormNext]_formVars PROVE FormInv'
    OBVIOUS
  <2>1. WebFormTypeOK'
    BY FormTypes DEF FormInv, formVars, WebFormTypeOK
  <2>2. ASSUME NEW l \in Replies, NEW w \in Words, GoesOutWith(l, w)'
        PROVE  Approved(w)'
    <3>1. Approved(w)
      BY <2>2, WordsStep DEF FormInv, PassedOnItsWords, GoesOutWith, formVars
    <3> QED
      BY <3>1, ApprovedStays
  <2> QED
    BY <2>1, <2>2 DEF FormInv, PassedOnItsWords
<1>3. FormInv => WebFormHolds
  <2> SUFFICES ASSUME FormInv, NEW l \in Replies, reply[l].pc = "sent"
               PROVE  Approved(reply[l].settings.words)
    BY DEF FormInv, WebFormHolds, Approved, ReplyWordsWereApproved
  <2>1. reply[l].settings.words \in Words
    BY DEF FormInv, WebFormTypeOK, ReplyType, SettingsType
  <2> QED
    BY <2>1 DEF FormInv, PassedOnItsWords, GoesOutWith
<1> QED
  BY <1>1, <1>2, <1>3, PTL DEF WebFormSpec

-----------------------------------------------------------------------------
(***************************************************************************)
(* The filing of leads, for any number of calls side by side.  A call that *)
(* is about to make a record has looked, and what it looked for was not    *)
(* there; what was there when it came in is still there, unchanged but for *)
(* what can only close it.  So a record has a twin among those that came   *)
(* before its call only if the twin has closed.                            *)
(***************************************************************************)
FilerRow == [call : FilerType, sub : Submissions]

HasFiled == {"find", "create", "assign", "reuse", "open", "task", "link"}
HasMatched == {"assign", "reuse", "open", "task", "link"}

(* What a call knows of the tables at the step it has come to.              *)
Knows(k, s) ==
  /\ k.enquiries \subseteq Filed /\ k.contacts \subseteq Known /\ k.deals \subseteq Opened
  /\ k.pc \in HasFiled => k.e \in Filed
  /\ k.pc \in HasMatched => k.c \in Known
  /\ k.pc = "insert" => \A e \in k.enquiries : enquiry[e].recent => ~Same(enquiry[e].sub, s)
  /\ k.pc = "create" => \A c \in k.contacts : contact[c].who # s.who
  /\ k.pc = "open" => \A d \in k.deals : deal[d].open => deal[d].contact # k.c

CallsKnow == filer \in [Filers -> FilerRow] /\ \A x \in Filers : Knows(filer[x].call, filer[x].sub)

EnquiriesOK ==
  /\ enquiry \in [Ids -> EnquiryType \cup {Absent}]
  /\ \A e \in Filed : enquiry[e].since \subseteq Filed
  /\ OneEnquiryPerSid /\ LateDuplicateCollapses
ContactsOK ==
  /\ contact \in [Ids -> ContactType]
  /\ \A c \in Known : contact[c].since \subseteq Known /\ contact[c].who # NoOne
  /\ \A c, d \in Known : c \in contact[d].since => contact[c].who # contact[d].who
LeadDealsOK ==
  /\ deal \in [Ids -> DealType]
  /\ \A d \in Opened : deal[d].since \subseteq Opened /\ deal[d].contact # 0
  /\ \A c, d \in Opened : c \in deal[d].since /\ deal[c].open => deal[c].contact # deal[d].contact

LeadInv == CallsKnow /\ EnquiriesOK /\ ContactsOK /\ LeadDealsOK

(* A step keeps the records: what they say of a call's look-ups stays true. *)
EnquiriesStay ==
  /\ Filed \subseteq Filed'
  /\ \A e \in Filed : enquiry'[e].sub = enquiry[e].sub /\ (enquiry'[e].recent => enquiry[e].recent)
ContactsStay == Known \subseteq Known' /\ \A c \in Known : contact'[c].who = contact[c].who
DealsStay ==
  /\ Opened \subseteq Opened'
  /\ \A d \in Opened : deal'[d].contact = deal[d].contact /\ (deal'[d].open => deal[d].open)
LeadTablesStay == EnquiriesStay /\ ContactsStay /\ DealsStay

-----------------------------------------------------------------------------
LEMMA FilersAtRest == FilerAtRest \in FilerType
BY DEF FilerAtRest, FilerType, FilerPcs

LEMMA NewIds ==
  ASSUME NEW taken, taken \subseteq Ids, taken # Ids
  PROVE  NewId(taken) \in Ids /\ NewId(taken) \notin taken
BY DEF NewId

LEMMA KnowsStays ==
  ASSUME LeadTablesStay, NEW k, NEW s, Knows(k, s)
  PROVE  Knows(k, s)'
<1>1. k.enquiries \subseteq Filed' /\ k.contacts \subseteq Known' /\ k.deals \subseteq Opened'
  BY DEF Knows, LeadTablesStay, EnquiriesStay, ContactsStay, DealsStay
<1>2. (k.pc \in HasFiled => k.e \in Filed') /\ (k.pc \in HasMatched => k.c \in Known')
  BY DEF Knows, LeadTablesStay, EnquiriesStay, ContactsStay, DealsStay
<1>3. k.pc = "insert" => \A e \in k.enquiries : enquiry'[e].recent => ~Same(enquiry'[e].sub, s)
  BY DEF Knows, LeadTablesStay, EnquiriesStay
<1>4. k.pc = "create" => \A c \in k.contacts : contact'[c].who # s.who
  BY DEF Knows, LeadTablesStay, ContactsStay
<1>5. k.pc = "open" => \A d \in k.deals : deal'[d].open => deal'[d].contact # k.c
  BY DEF Knows, LeadTablesStay, DealsStay
<1> QED BY <1>1, <1>2, <1>3, <1>4, <1>5 DEF Knows, Same

LEMMA CallsStay ==
  ASSUME CallsKnow, LeadTablesStay, UNCHANGED filer
  PROVE  CallsKnow'
BY KnowsStays DEF CallsKnow

(* A call goes on to k.                                                     *)
LEMMA CallGoes ==
  ASSUME CallsKnow, LeadTablesStay, NEW x \in Filers, NEW k \in FilerType, Then(x, k),
         NEW s, s = filer[x].sub, Knows(k, s)'
  PROVE  CallsKnow'
<1>0. filer \in [Filers -> FilerRow]
  BY DEF CallsKnow
<1>1. PICK r : r = [filer[x] EXCEPT !.call = k]
  OBVIOUS
<1>2. filer' = [filer EXCEPT ![x] = r]
  BY <1>1 DEF Then
<1>3. r \in FilerRow /\ r.call = k /\ r.sub = s
  BY <1>0, <1>1 DEF FilerRow
<1>4. filer' \in [Filers -> FilerRow]
  BY <1>0, <1>2, <1>3
<1>5. ASSUME NEW y \in Filers PROVE Knows(filer[y].call, filer[y].sub)'
  <2>1. CASE y = x
    <3>1. filer'[y].call = k /\ filer'[y].sub = s
      BY <1>0, <1>2, <1>3, <2>1
    <3> QED BY <3>1
  <2>2. CASE y # x
    <3>1. PICK k2, s2 : k2 = filer[y].call /\ s2 = filer[y].sub
      OBVIOUS
    <3>2. filer'[y].call = k2 /\ filer'[y].sub = s2
      BY <1>0, <1>2, <2>2, <3>1
    <3>3. Knows(k2, s2)'
      BY <3>1, KnowsStays DEF CallsKnow
    <3> QED BY <3>2, <3>3
  <2> QED BY <2>1, <2>2
<1> QED BY <1>4, <1>5 DEF CallsKnow

LEMMA CallRests ==
  ASSUME CallsKnow, LeadTablesStay, NEW x \in Filers, Rest(x)
  PROVE  CallsKnow'
<1>1. PICK s : s = filer[x].sub
  OBVIOUS
<1>2. Knows(FilerAtRest, s)'
  BY DEF Knows, FilerAtRest, HasFiled, HasMatched
<1> QED BY <1>1, <1>2, CallGoes, FilersAtRest DEF Rest

-----------------------------------------------------------------------------
(* The three tables: a record is added, or one that is there edited.        *)
LEMMA EnquiryAdded ==
  ASSUME EnquiriesOK, NEW e \in Ids, e \notin Filed, NEW r \in EnquiryType,
         enquiry' = [enquiry EXCEPT ![e] = r], r.since \subseteq Filed,
         \A f \in r.since : enquiry[f].recent => ~Same(enquiry[f].sub, r.sub),
         \A f \in Filed : ~(enquiry[f].sub.sid = r.sub.sid /\ r.sub.sid # NoSid)
  PROVE  EnquiriesOK' /\ EnquiriesStay /\ e \in Filed'
<1> USE DEF EnquiriesOK
<1>1. r # Absent
  BY DEF EnquiryType, Absent
<1>2. Filed' = Filed \cup {e} /\ Filed \subseteq Ids
  BY <1>1 DEF Filed
<1>3. enquiry'[e] = r /\ \A f \in Filed : enquiry'[f] = enquiry[f]
  BY <1>2
<1>4. enquiry' \in [Ids -> EnquiryType \cup {Absent}]
  OBVIOUS
<1>5. \A f \in Filed' : enquiry'[f].since \subseteq Filed'
  BY <1>2, <1>3
<1>6. OneEnquiryPerSid'
  BY <1>2, <1>3 DEF OneEnquiryPerSid
<1>7. LateDuplicateCollapses'
  <2> SUFFICES ASSUME NEW f \in Filed', NEW g \in Filed', f \in enquiry'[g].since, enquiry'[f].recent
               PROVE  ~Same(enquiry'[f].sub, enquiry'[g].sub)
    BY DEF LateDuplicateCollapses, Same
  <2>1. CASE g = e
    BY <1>2, <1>3, <2>1
  <2>2. CASE g # e
    <3>1. g \in Filed /\ f \in Filed
      BY <1>2, <1>3, <2>2
    <3> QED BY <1>3, <3>1 DEF LateDuplicateCollapses
  <2> QED BY <2>1, <2>2
<1>8. EnquiriesStay
  BY <1>2, <1>3 DEF EnquiriesStay
<1> QED BY <1>2, <1>4, <1>5, <1>6, <1>7, <1>8

LEMMA EnquiryEdited ==
  ASSUME EnquiriesOK, NEW e \in Filed, NEW r \in EnquiryType,
         enquiry' = [enquiry EXCEPT ![e] = r],
         r.sub = enquiry[e].sub, r.since = enquiry[e].since, r.recent => enquiry[e].recent
  PROVE  EnquiriesOK' /\ EnquiriesStay
<1> USE DEF EnquiriesOK
<1>1. r # Absent
  BY DEF EnquiryType, Absent
<1>2. Filed' = Filed /\ Filed \subseteq Ids
  BY <1>1 DEF Filed
<1>3. \A f \in Filed : /\ enquiry'[f].sub = enquiry[f].sub /\ enquiry'[f].since = enquiry[f].since
                       /\ enquiry'[f].recent => enquiry[f].recent
  BY <1>2
<1>4. enquiry' \in [Ids -> EnquiryType \cup {Absent}]
  OBVIOUS
<1>5. OneEnquiryPerSid'
  BY <1>2, <1>3 DEF OneEnquiryPerSid
<1>6. LateDuplicateCollapses'
  BY <1>2, <1>3 DEF LateDuplicateCollapses, Same
<1> QED BY <1>2, <1>3, <1>4, <1>5, <1>6 DEF EnquiriesStay

LEMMA ContactAdded ==
  ASSUME ContactsOK, NEW c \in Ids, c \notin Known, NEW r \in ContactType,
         contact' = [contact EXCEPT ![c] = r], r.who # NoOne, r.since \subseteq Known,
         \A d \in r.since : contact[d].who # r.who
  PROVE  ContactsOK' /\ ContactsStay /\ c \in Known'
<1> USE DEF ContactsOK
<1>1. r # NoContact
  BY DEF NoContact
<1>2. Known' = Known \cup {c} /\ Known \subseteq Ids
  BY <1>1 DEF Known
<1>3. contact'[c] = r /\ \A d \in Known : contact'[d] = contact[d]
  BY <1>2
<1>4. contact' \in [Ids -> ContactType]
  OBVIOUS
<1>5. \A d \in Known' : contact'[d].since \subseteq Known' /\ contact'[d].who # NoOne
  BY <1>2, <1>3
<1>6. ASSUME NEW d \in Known', NEW g \in Known', d \in contact'[g].since
      PROVE  contact'[d].who # contact'[g].who
  <2>1. CASE g = c
    BY <1>2, <1>3, <1>6, <2>1
  <2>2. CASE g # c
    <3>1. g \in Known /\ d \in Known
      BY <1>2, <1>3, <1>6, <2>2
    <3> QED BY <1>3, <1>6, <3>1
  <2> QED BY <2>1, <2>2
<1>7. ContactsStay
  BY <1>2, <1>3 DEF ContactsStay
<1> QED BY <1>2, <1>4, <1>5, <1>6, <1>7

LEMMA ContactEdited ==
  ASSUME ContactsOK, NEW c \in Known, NEW r \in ContactType,
         contact' = [contact EXCEPT ![c] = r],
         r.who = contact[c].who, r.since = contact[c].since
  PROVE  ContactsOK' /\ ContactsStay
<1> USE DEF ContactsOK
<1>1. r # NoContact
  BY DEF NoContact
<1>2. Known' = Known /\ Known \subseteq Ids
  BY <1>1 DEF Known
<1>3. \A d \in Known : contact'[d].who = contact[d].who /\ contact'[d].since = contact[d].since
  BY <1>2
<1>4. contact' \in [Ids -> ContactType]
  OBVIOUS
<1> QED BY <1>2, <1>3, <1>4 DEF ContactsStay

LEMMA DealAdded ==
  ASSUME LeadDealsOK, NEW d \in Ids, d \notin Opened, NEW r \in DealType,
         deal' = [deal EXCEPT ![d] = r], r.contact # 0, r.since \subseteq Opened,
         \A g \in r.since : deal[g].open => deal[g].contact # r.contact
  PROVE  LeadDealsOK' /\ DealsStay
<1> USE DEF LeadDealsOK
<1>1. r # NoDeal
  BY DEF NoDeal
<1>2. Opened' = Opened \cup {d} /\ Opened \subseteq Ids
  BY <1>1 DEF Opened
<1>3. deal'[d] = r /\ \A g \in Opened : deal'[g] = deal[g]
  BY <1>2
<1>4. deal' \in [Ids -> DealType]
  OBVIOUS
<1>5. \A g \in Opened' : deal'[g].since \subseteq Opened' /\ deal'[g].contact # 0
  BY <1>2, <1>3
<1>6. ASSUME NEW g \in Opened', NEW h \in Opened', g \in deal'[h].since, deal'[g].open
      PROVE  deal'[g].contact # deal'[h].contact
  <2>1. CASE h = d
    BY <1>2, <1>3, <1>6, <2>1
  <2>2. CASE h # d
    <3>1. h \in Opened /\ g \in Opened
      BY <1>2, <1>3, <1>6, <2>2
    <3> QED BY <1>3, <1>6, <3>1
  <2> QED BY <2>1, <2>2
<1>7. DealsStay
  BY <1>2, <1>3 DEF DealsStay
<1> QED BY <1>2, <1>4, <1>5, <1>6, <1>7

LEMMA DealClosed ==
  ASSUME LeadDealsOK, NEW d \in Opened, NEW r \in DealType,
         deal' = [deal EXCEPT ![d] = r],
         r.contact = deal[d].contact, r.since = deal[d].since, r.open = FALSE
  PROVE  LeadDealsOK' /\ DealsStay
<1> USE DEF LeadDealsOK
<1>1. r # NoDeal
  BY DEF NoDeal
<1>2. Opened' = Opened /\ Opened \subseteq Ids
  BY <1>1 DEF Opened
<1>3. \A g \in Opened : /\ deal'[g].contact = deal[g].contact /\ deal'[g].since = deal[g].since
                        /\ deal'[g].open => deal[g].open
  BY <1>2
<1>4. deal' \in [Ids -> DealType]
  OBVIOUS
<1> QED BY <1>2, <1>3, <1>4 DEF DealsStay

(* A table nobody writes.                                                   *)
LEMMA Untouched ==
  /\ EnquiriesOK /\ UNCHANGED enquiry => EnquiriesOK' /\ EnquiriesStay
  /\ ContactsOK /\ UNCHANGED contact => ContactsOK' /\ ContactsStay
  /\ LeadDealsOK /\ UNCHANGED deal => LeadDealsOK' /\ DealsStay
<1>1. ASSUME EnquiriesOK, UNCHANGED enquiry PROVE EnquiriesOK' /\ EnquiriesStay
  <2>1. Filed' = Filed
    BY <1>1 DEF Filed
  <2> QED BY <1>1, <2>1 DEF EnquiriesOK, EnquiriesStay, OneEnquiryPerSid, LateDuplicateCollapses, Same
<1>2. ASSUME ContactsOK, UNCHANGED contact PROVE ContactsOK' /\ ContactsStay
  <2>1. Known' = Known
    BY <1>2 DEF Known
  <2> QED BY <1>2, <2>1 DEF ContactsOK, ContactsStay
<1>3. ASSUME LeadDealsOK, UNCHANGED deal PROVE LeadDealsOK' /\ DealsStay
  <2>1. Opened' = Opened
    BY <1>3 DEF Opened
  <2> QED BY <1>3, <2>1 DEF LeadDealsOK, DealsStay
<1> QED BY <1>1, <1>2, <1>3

-----------------------------------------------------------------------------
LEMMA LeadInit == LeadIntakeInit => LeadInv
<1> SUFFICES ASSUME LeadIntakeInit PROVE LeadInv
  OBVIOUS
<1>1. Filed = {} /\ Known = {} /\ Opened = {}
  BY DEF LeadIntakeInit, Filed, Known, Opened
<1>2. enquiry \in [Ids -> EnquiryType \cup {Absent}]
  BY DEF LeadIntakeInit
<1>3. contact \in [Ids -> ContactType] /\ deal \in [Ids -> DealType]
  BY DEF LeadIntakeInit, NoContact, ContactType, NoDeal, DealType
<1>4. (CHOOSE s \in Submissions : TRUE) \in Submissions
  BY LeadIntakeAssumption DEF LeadIntakeAssumption
<1>5. PICK s : s = CHOOSE t \in Submissions : TRUE
  OBVIOUS
<1>6. filer = [x \in Filers |-> [call |-> FilerAtRest, sub |-> s]]
  BY <1>5 DEF LeadIntakeInit
<1>7. Knows(FilerAtRest, s)
  BY DEF Knows, FilerAtRest, HasFiled, HasMatched
<1>8. CallsKnow
  BY <1>4, <1>5, <1>6, <1>7, FilersAtRest DEF CallsKnow, FilerRow
<1>9. EnquiriesOK /\ ContactsOK /\ LeadDealsOK
  BY <1>1, <1>2, <1>3 DEF EnquiriesOK, ContactsOK, LeadDealsOK, OneEnquiryPerSid, LateDuplicateCollapses
<1> QED BY <1>8, <1>9 DEF LeadInv

(* What a call carries.                                                     *)
LEMMA CallTypes ==
  ASSUME CallsKnow, NEW x \in Filers
  PROVE  /\ filer[x] \in FilerRow /\ filer[x].call \in FilerType /\ filer[x].sub \in Submissions
         /\ Knows(filer[x].call, filer[x].sub)
         /\ filer[x].sub.who # NoOne /\ filer[x].sub.who \in People
BY LeadIntakeAssumption DEF LeadIntakeAssumption, CallsKnow, FilerRow, People

(* The steps of a call that only look.                                      *)
LEMMA LooksStep ==
  ASSUME LeadInv, NEW x \in Filers,
         UNCHANGED <<enquiry, contact, deal>>, CallsKnow'
  PROVE  LeadInv'
BY Untouched DEF LeadInv

LEMMA SubmitStep ==
  ASSUME LeadInv, NEW x \in Filers, NEW s \in Submissions, Submit(x, s)
  PROVE  LeadInv'
<1>1. PICK k : k = [FilerAtRest EXCEPT !.pc = "recent", !.enquiries = Filed, !.contacts = Known, !.deals = Opened]
  OBVIOUS
<1>2. filer' = [filer EXCEPT ![x] = [sub |-> s, call |-> k]] /\ UNCHANGED <<enquiry, contact, deal>>
  BY <1>1 DEF Submit
<1>3. k \in FilerType
  BY <1>1 DEF FilerAtRest, FilerType, FilerPcs, Filed, Known, Opened
<1>4. k.pc = "recent" /\ k.enquiries = Filed /\ k.contacts = Known /\ k.deals = Opened
  BY <1>1 DEF FilerAtRest
<1>5. LeadTablesStay
  BY <1>2, Untouched DEF LeadInv, LeadTablesStay
<1>6. Knows(k, s)
  BY <1>4 DEF Knows, HasFiled, HasMatched
<1>7. Knows(k, s)'
  BY <1>5, <1>6, KnowsStays
<1>8. ASSUME NEW y \in Filers PROVE Knows(filer[y].call, filer[y].sub)'
  <2>0. filer \in [Filers -> FilerRow]
    BY DEF LeadInv, CallsKnow
  <2>1. CASE y = x
    BY <1>2, <1>7, <2>0, <2>1
  <2>2. CASE y # x
    <3>1. PICK k2, s2 : k2 = filer[y].call /\ s2 = filer[y].sub
      OBVIOUS
    <3>2. filer'[y].call = k2 /\ filer'[y].sub = s2
      BY <1>2, <2>0, <2>2, <3>1
    <3>3. Knows(k2, s2)'
      BY <1>5, <3>1, KnowsStays DEF CallsKnow, LeadInv
    <3> QED BY <3>2, <3>3
  <2> QED BY <2>1, <2>2
<1>9. filer' \in [Filers -> FilerRow]
  BY <1>2, <1>3 DEF LeadInv, CallsKnow, FilerRow
<1> QED BY <1>2, <1>8, <1>9, LooksStep DEF CallsKnow

LEMMA CheckStep ==
  ASSUME LeadInv, NEW x \in Filers, CheckRecent(x)
  PROVE  LeadInv'
<1>1. UNCHANGED <<enquiry, contact, deal>> /\ filer[x].call.pc = "recent"
  BY DEF CheckRecent, Filing
<1>2. LeadTablesStay /\ CallsKnow
  BY <1>1, Untouched DEF LeadInv, LeadTablesStay
<1>3. CASE RecentLike(filer[x].sub)
  BY <1>1, <1>2, <1>3, CallRests, LooksStep DEF CheckRecent
<1>4. CASE ~RecentLike(filer[x].sub)
  <2>1. PICK s, c : s = filer[x].sub /\ c = filer[x].call
    OBVIOUS
  <2>2. PICK k : k = [c EXCEPT !.pc = "insert"]
    OBVIOUS
  <2>3. c \in FilerType /\ Knows(c, s)
    BY <1>2, <2>1, CallTypes
  <2>4. k \in FilerType /\ k.pc = "insert" /\ k.enquiries = c.enquiries /\ k.contacts = c.contacts /\ k.deals = c.deals
    BY <2>2, <2>3 DEF FilerType, FilerPcs
  <2>5. Knows(k, s)
    BY <1>4, <2>1, <2>3, <2>4 DEF Knows, HasFiled, HasMatched, RecentLike
  <2>6. Then(x, k)
    BY <1>4, <2>1, <2>2 DEF CheckRecent
  <2>7. CallsKnow'
    BY <1>2, <2>1, <2>4, <2>5, <2>6, KnowsStays, CallGoes
  <2> QED BY <1>1, <2>7, LooksStep
<1> QED BY <1>3, <1>4

LEMMA FileStep ==
  ASSUME LeadInv, NEW x \in Filers, FileLead(x)
  PROVE  LeadInv'
<1>1. UNCHANGED <<contact, deal>> /\ filer[x].call.pc = "insert"
  BY DEF FileLead, Filing
<1>2. ContactsOK' /\ LeadDealsOK' /\ ContactsStay /\ DealsStay
  BY <1>1, Untouched DEF LeadInv
<1>3. PICK s, c : s = filer[x].sub /\ c = filer[x].call
  OBVIOUS
<1>4. c \in FilerType /\ Knows(c, s) /\ s \in Submissions
  BY <1>3, CallTypes DEF LeadInv
<1>5. CASE SidTaken(s)
  <2>1. Rest(x) /\ UNCHANGED enquiry
    BY <1>3, <1>5 DEF FileLead
  <2>2. EnquiriesOK' /\ LeadTablesStay
    BY <1>2, <2>1, Untouched DEF LeadInv, LeadTablesStay
  <2> QED BY <1>2, <2>1, <2>2, CallRests DEF LeadInv
<1>6. CASE ~SidTaken(s)
  <2>1. PICK e : e = NewId(Filed)
    OBVIOUS
  <2>2. PICK r : r = [status |-> "filed", sub |-> s, recent |-> TRUE, contact |-> 0,
                      deal |-> 0, task |-> FALSE, since |-> c.enquiries]
    OBVIOUS
  <2>3. PICK k : k = [c EXCEPT !.pc = "find", !.e = e, !.enquiries = {}]
    OBVIOUS
  <2>4. enquiry' = [enquiry EXCEPT ![e] = r] /\ Then(x, k) /\ Filed # Ids
    BY <1>3, <1>6, <2>1, <2>2, <2>3 DEF FileLead
  <2>5. e \in Ids /\ e \notin Filed
    BY <2>1, <2>4, NewIds DEF Filed
  <2>6. r \in EnquiryType /\ r.sub = s /\ r.since = c.enquiries
    BY <1>4, <2>2 DEF EnquiryType, FilerType
  <2>7. /\ c.enquiries \subseteq Filed
        /\ \A f \in c.enquiries : enquiry[f].recent => ~Same(enquiry[f].sub, s)
    BY <1>1, <1>3, <1>4 DEF Knows
  <2>8. \A f \in Filed : ~(enquiry[f].sub.sid = s.sid /\ s.sid # NoSid)
    BY <1>6 DEF SidTaken
  <2>9. EnquiriesOK' /\ EnquiriesStay /\ e \in Filed'
    BY <2>4, <2>5, <2>6, <2>7, <2>8, EnquiryAdded DEF LeadInv
  <2>10. LeadTablesStay
    BY <1>2, <2>9 DEF LeadTablesStay
  <2>11. k \in FilerType /\ k.pc = "find" /\ k.e = e /\ k.enquiries = {} /\ k.contacts = c.contacts /\ k.deals = c.deals
    BY <1>4, <2>3, <2>5 DEF FilerType, FilerPcs
  <2>12. Knows(c, s)'
    BY <1>4, <2>10, KnowsStays
  <2>13. Knows(k, s)'
    BY <2>9, <2>11, <2>12 DEF Knows, HasMatched
  <2> QED BY <1>2, <1>3, <2>4, <2>9, <2>10, <2>11, <2>13, CallGoes DEF LeadInv
<1> QED BY <1>5, <1>6

LEMMA FindStep ==
  ASSUME LeadInv, NEW x \in Filers, FindContact(x)
  PROVE  LeadInv'
<1>1. UNCHANGED <<enquiry, contact, deal>> /\ filer[x].call.pc = "find"
  BY DEF FindContact, Filing
<1>2. LeadTablesStay /\ CallsKnow
  BY <1>1, Untouched DEF LeadInv, LeadTablesStay
<1>3. PICK s, c : s = filer[x].sub /\ c = filer[x].call
  OBVIOUS
<1>4. c \in FilerType /\ Knows(c, s) /\ c.pc = "find"
  BY <1>1, <1>2, <1>3, CallTypes
<1>5. CASE ContactsOf(s.who) = {} /\ Then(x, [c EXCEPT !.pc = "create"])
  <2>1. PICK k : k = [c EXCEPT !.pc = "create"]
    OBVIOUS
  <2>2. /\ k \in FilerType /\ k.pc = "create" /\ k.e = c.e
        /\ k.enquiries = c.enquiries /\ k.contacts = c.contacts /\ k.deals = c.deals
    BY <1>4, <2>1 DEF FilerType, FilerPcs
  <2>3. Knows(k, s)
    BY <1>4, <1>5, <2>2 DEF Knows, HasFiled, HasMatched, ContactsOf
  <2>4. CallsKnow'
    BY <1>2, <1>3, <1>5, <2>1, <2>2, <2>3, KnowsStays, CallGoes
  <2> QED BY <1>1, <2>4, LooksStep
<1>6. ASSUME NEW i \in ContactsOf(s.who), Then(x, [c EXCEPT !.pc = "assign", !.c = i, !.contacts = {}])
      PROVE  LeadInv'
  <2>1. PICK k : k = [c EXCEPT !.pc = "assign", !.c = i, !.contacts = {}]
    OBVIOUS
  <2>0. i \in Known /\ i \in Ids
    BY <1>6 DEF ContactsOf, Known
  <2>2. /\ k \in FilerType /\ k.pc = "assign" /\ k.e = c.e /\ k.c = i
        /\ k.enquiries = c.enquiries /\ k.contacts = {} /\ k.deals = c.deals
    BY <1>4, <2>0, <2>1 DEF FilerType, FilerPcs
  <2>3. Knows(k, s)
    BY <1>4, <2>0, <2>2 DEF Knows, HasFiled, HasMatched
  <2>4. CallsKnow'
    BY <1>2, <1>3, <1>6, <2>1, <2>2, <2>3, KnowsStays, CallGoes
  <2> QED BY <1>1, <2>4, LooksStep
<1> QED BY <1>3, <1>5, <1>6 DEF FindContact

LEMMA CreateStep ==
  ASSUME LeadInv, NEW x \in Filers, CreateContact(x)
  PROVE  LeadInv'
<1>1. UNCHANGED <<enquiry, deal>> /\ filer[x].call.pc = "create" /\ Known # Ids
  BY DEF CreateContact, Filing
<1>2. EnquiriesOK' /\ LeadDealsOK' /\ EnquiriesStay /\ DealsStay
  BY <1>1, Untouched DEF LeadInv
<1>3. PICK s, c : s = filer[x].sub /\ c = filer[x].call
  OBVIOUS
<1>4. c \in FilerType /\ Knows(c, s) /\ c.pc = "create" /\ s.who # NoOne /\ s.who \in People
  BY <1>1, <1>3, CallTypes DEF LeadInv
<1>5. PICK i : i = NewId(Known)
  OBVIOUS
<1>6. PICK r : r = [who |-> s.who, assigned |-> FALSE, since |-> c.contacts]
  OBVIOUS
<1>7. PICK k : k = [c EXCEPT !.pc = "assign", !.c = i, !.contacts = {}]
  OBVIOUS
<1>8. contact' = [contact EXCEPT ![i] = r] /\ Then(x, k)
  BY <1>3, <1>5, <1>6, <1>7 DEF CreateContact
<1>9. i \in Ids /\ i \notin Known
  BY <1>1, <1>5, NewIds DEF Known
<1>10. r \in ContactType /\ r.who = s.who /\ r.since = c.contacts
  BY <1>4, <1>6 DEF ContactType, FilerType
<1>11. c.contacts \subseteq Known /\ \A d \in c.contacts : contact[d].who # s.who
  BY <1>4 DEF Knows
<1>12. ContactsOK' /\ ContactsStay /\ i \in Known'
  BY <1>4, <1>8, <1>9, <1>10, <1>11, ContactAdded DEF LeadInv
<1>13. LeadTablesStay
  BY <1>2, <1>12 DEF LeadTablesStay
<1>14. /\ k \in FilerType /\ k.pc = "assign" /\ k.e = c.e /\ k.c = i
       /\ k.enquiries = c.enquiries /\ k.contacts = {} /\ k.deals = c.deals
  BY <1>4, <1>7, <1>9 DEF FilerType, FilerPcs
<1>15. Knows(c, s)'
  BY <1>4, <1>13, KnowsStays
<1>16. Knows(k, s)'
  BY <1>4, <1>12, <1>14, <1>15 DEF Knows, HasFiled
<1> QED BY <1>2, <1>3, <1>8, <1>12, <1>13, <1>14, <1>16, CallGoes DEF LeadInv

LEMMA AssignStep ==
  ASSUME LeadInv, NEW x \in Filers, Assign(x)
  PROVE  LeadInv'
<1>1. UNCHANGED <<enquiry, deal>> /\ filer[x].call.pc = "assign"
  BY DEF Assign, Filing
<1>2. EnquiriesOK' /\ LeadDealsOK' /\ EnquiriesStay /\ DealsStay
  BY <1>1, Untouched DEF LeadInv
<1>3. PICK s, c : s = filer[x].sub /\ c = filer[x].call
  OBVIOUS
<1>4. c \in FilerType /\ Knows(c, s) /\ c.pc = "assign"
  BY <1>1, <1>3, CallTypes DEF LeadInv
<1>5. c.c \in Known /\ c.c \in Ids /\ c.e \in Filed
  BY <1>4 DEF Knows, HasMatched, HasFiled, Known
<1>6. PICK i : i = c.c
  OBVIOUS
<1>7. contact \in [Ids -> ContactType] /\ contact[i] \in ContactType
  BY <1>5, <1>6 DEF LeadInv, ContactsOK
<1>8. PICK a \in {TRUE, contact[i].assigned} : contact' = [contact EXCEPT ![i].assigned = a]
  BY <1>3, <1>6 DEF Assign
<1>9. PICK r : r = [contact[i] EXCEPT !.assigned = a]
  OBVIOUS
<1>10. contact' = [contact EXCEPT ![i] = r]
  BY <1>8, <1>9
<1>11. a \in BOOLEAN
  BY <1>7, <1>8 DEF ContactType
<1>12. r \in ContactType /\ r.who = contact[i].who /\ r.since = contact[i].since
  BY <1>7, <1>9, <1>11 DEF ContactType
<1>13. ContactsOK' /\ ContactsStay
  BY <1>5, <1>6, <1>10, <1>12, ContactEdited DEF LeadInv
<1>14. LeadTablesStay
  BY <1>2, <1>13 DEF LeadTablesStay
<1>15. PICK pc \in {"reuse", "task"} : Then(x, [c EXCEPT !.pc = pc])
  BY <1>3 DEF Assign
<1>16. PICK k : k = [c EXCEPT !.pc = pc]
  OBVIOUS
<1>17. /\ k \in FilerType /\ k.pc = pc /\ k.e = c.e /\ k.c = c.c
       /\ k.enquiries = c.enquiries /\ k.contacts = c.contacts /\ k.deals = c.deals
  BY <1>4, <1>15, <1>16 DEF FilerType, FilerPcs
<1>18. Knows(c, s)'
  BY <1>4, <1>14, KnowsStays
<1>19. Knows(k, s)'
  BY <1>4, <1>15, <1>17, <1>18 DEF Knows, HasFiled, HasMatched
<1> QED BY <1>2, <1>3, <1>13, <1>14, <1>15, <1>16, <1>17, <1>19, CallGoes DEF LeadInv

LEMMA ReuseStep ==
  ASSUME LeadInv, NEW x \in Filers, ReuseDeal(x)
  PROVE  LeadInv'
<1>1. UNCHANGED <<enquiry, contact, deal>> /\ filer[x].call.pc = "reuse"
  BY DEF ReuseDeal, Filing
<1>2. LeadTablesStay /\ CallsKnow
  BY <1>1, Untouched DEF LeadInv, LeadTablesStay
<1>3. PICK s, c : s = filer[x].sub /\ c = filer[x].call
  OBVIOUS
<1>4. c \in FilerType /\ Knows(c, s) /\ c.pc = "reuse"
  BY <1>1, <1>2, <1>3, CallTypes
<1>5. CASE DealsOf(c.c) = {} /\ Then(x, [c EXCEPT !.pc = "open"])
  <2>1. PICK k : k = [c EXCEPT !.pc = "open"]
    OBVIOUS
  <2>2. /\ k \in FilerType /\ k.pc = "open" /\ k.e = c.e /\ k.c = c.c
        /\ k.enquiries = c.enquiries /\ k.contacts = c.contacts /\ k.deals = c.deals
    BY <1>4, <2>1 DEF FilerType, FilerPcs
  <2>3. \A d \in c.deals : deal[d].open => deal[d].contact # c.c
    BY <1>4, <1>5 DEF Knows, DealsOf
  <2>4. Knows(k, s)
    BY <1>4, <2>2, <2>3 DEF Knows, HasFiled, HasMatched
  <2>5. CallsKnow'
    BY <1>2, <1>3, <1>5, <2>1, <2>2, <2>4, KnowsStays, CallGoes
  <2> QED BY <1>1, <2>5, LooksStep
<1>6. ASSUME NEW d \in DealsOf(c.c), Then(x, [c EXCEPT !.pc = "task", !.d = d, !.deals = {}])
      PROVE  LeadInv'
  <2>1. PICK k : k = [c EXCEPT !.pc = "task", !.d = d, !.deals = {}]
    OBVIOUS
  <2>2. /\ k \in FilerType /\ k.pc = "task" /\ k.e = c.e /\ k.c = c.c
        /\ k.enquiries = c.enquiries /\ k.contacts = c.contacts /\ k.deals = {}
    BY <1>4, <1>6, <2>1 DEF FilerType, FilerPcs, DealsOf, Opened
  <2>3. Knows(k, s)
    BY <1>4, <2>2 DEF Knows, HasFiled, HasMatched
  <2>4. CallsKnow'
    BY <1>2, <1>3, <1>6, <2>1, <2>2, <2>3, KnowsStays, CallGoes
  <2> QED BY <1>1, <2>4, LooksStep
<1> QED BY <1>3, <1>5, <1>6 DEF ReuseDeal

LEMMA OpenStep ==
  ASSUME LeadInv, NEW x \in Filers, OpenDeal(x)
  PROVE  LeadInv'
<1>1. UNCHANGED <<enquiry, contact>> /\ filer[x].call.pc = "open" /\ Opened # Ids
  BY DEF OpenDeal, Filing
<1>2. EnquiriesOK' /\ ContactsOK' /\ EnquiriesStay /\ ContactsStay
  BY <1>1, Untouched DEF LeadInv
<1>3. PICK s, c : s = filer[x].sub /\ c = filer[x].call
  OBVIOUS
<1>4. c \in FilerType /\ Knows(c, s) /\ c.pc = "open"
  BY <1>1, <1>3, CallTypes DEF LeadInv
<1>5. PICK d : d = NewId(Opened)
  OBVIOUS
<1>6. PICK r : r = [contact |-> c.c, open |-> TRUE, since |-> c.deals]
  OBVIOUS
<1>7. PICK k : k = [c EXCEPT !.pc = "task", !.d = d, !.deals = {}]
  OBVIOUS
<1>8. deal' = [deal EXCEPT ![d] = r] /\ Then(x, k)
  BY <1>3, <1>5, <1>6, <1>7 DEF OpenDeal
<1>9. d \in Ids /\ d \notin Opened
  BY <1>1, <1>5, NewIds DEF Opened
<1>10. r \in DealType /\ r.contact = c.c /\ r.since = c.deals
  BY <1>4, <1>6 DEF DealType, FilerType
<1>11. c.c \in Ids
  BY <1>4 DEF Knows, HasMatched, Known
<1>12. c.c # 0
  BY <1>11, LeadIntakeAssumption DEF LeadIntakeAssumption, Ids
<1>13. c.deals \subseteq Opened /\ \A g \in c.deals : deal[g].open => deal[g].contact # c.c
  BY <1>4 DEF Knows
<1>14. LeadDealsOK' /\ DealsStay
  BY <1>8, <1>9, <1>10, <1>12, <1>13, DealAdded DEF LeadInv
<1>15. LeadTablesStay
  BY <1>2, <1>14 DEF LeadTablesStay
<1>16. /\ k \in FilerType /\ k.pc = "task" /\ k.e = c.e /\ k.c = c.c
       /\ k.enquiries = c.enquiries /\ k.contacts = c.contacts /\ k.deals = {}
  BY <1>4, <1>7, <1>9 DEF FilerType, FilerPcs
<1>17. Knows(c, s)'
  BY <1>4, <1>15, KnowsStays
<1>18. Knows(k, s)'
  BY <1>4, <1>16, <1>17 DEF Knows, HasFiled, HasMatched
<1> QED BY <1>2, <1>3, <1>8, <1>14, <1>15, <1>16, <1>18, CallGoes DEF LeadInv

LEMMA TaskStep ==
  ASSUME LeadInv, NEW x \in Filers, CallBackTask(x)
  PROVE  LeadInv'
<1>1. UNCHANGED <<enquiry, contact, deal>> /\ filer[x].call.pc = "task"
  BY DEF CallBackTask, Filing
<1>2. LeadTablesStay /\ CallsKnow
  BY <1>1, Untouched DEF LeadInv, LeadTablesStay
<1>3. PICK s, c : s = filer[x].sub /\ c = filer[x].call
  OBVIOUS
<1>4. c \in FilerType /\ Knows(c, s) /\ c.pc = "task"
  BY <1>1, <1>2, <1>3, CallTypes
<1>5. PICK task \in BOOLEAN : Then(x, [c EXCEPT !.pc = "link", !.task = task])
  BY <1>3 DEF CallBackTask
<1>6. PICK k : k = [c EXCEPT !.pc = "link", !.task = task]
  OBVIOUS
<1>7. /\ k \in FilerType /\ k.pc = "link" /\ k.e = c.e /\ k.c = c.c
      /\ k.enquiries = c.enquiries /\ k.contacts = c.contacts /\ k.deals = c.deals
  BY <1>4, <1>6 DEF FilerType, FilerPcs
<1>8. Knows(k, s)
  BY <1>4, <1>7 DEF Knows, HasFiled, HasMatched
<1>9. CallsKnow'
  BY <1>2, <1>3, <1>5, <1>6, <1>7, <1>8, KnowsStays, CallGoes
<1> QED BY <1>1, <1>9, LooksStep

LEMMA LinkStep ==
  ASSUME LeadInv, NEW x \in Filers, Link(x)
  PROVE  LeadInv'
<1>1. UNCHANGED <<contact, deal>> /\ filer[x].call.pc = "link" /\ Rest(x)
  BY DEF Link, Filing
<1>2. ContactsOK' /\ LeadDealsOK' /\ ContactsStay /\ DealsStay
  BY <1>1, Untouched DEF LeadInv
<1>3. PICK s, c : s = filer[x].sub /\ c = filer[x].call
  OBVIOUS
<1>4. c \in FilerType /\ Knows(c, s) /\ c.pc = "link"
  BY <1>1, <1>3, CallTypes DEF LeadInv
<1>5. PICK e : e = c.e
  OBVIOUS
<1>6. e \in Filed /\ e \in Ids
  BY <1>4, <1>5 DEF Knows, HasFiled, Filed
<1>7. enquiry[e] \in EnquiryType
  BY <1>6 DEF LeadInv, EnquiriesOK, Filed
<1>8. PICK r : r = [enquiry[e] EXCEPT !.status = "linked", !.contact = c.c, !.deal = c.d, !.task = c.task]
  OBVIOUS
<1>9. enquiry' = [enquiry EXCEPT ![e] = r]
  BY <1>3, <1>5, <1>8 DEF Link
<1>10. /\ r \in EnquiryType /\ r.sub = enquiry[e].sub /\ r.since = enquiry[e].since
       /\ r.recent = enquiry[e].recent
  BY <1>4, <1>7, <1>8 DEF EnquiryType, FilerType
<1>11. EnquiriesOK' /\ EnquiriesStay
  BY <1>6, <1>9, <1>10, EnquiryEdited DEF LeadInv
<1>12. LeadTablesStay
  BY <1>2, <1>11 DEF LeadTablesStay
<1> QED BY <1>1, <1>2, <1>11, <1>12, CallRests DEF LeadInv

LEMMA LeadTimeStep ==
  ASSUME LeadInv, NEW i \in Ids, MinutesPass(i) \/ DealCloses(i)
  PROVE  LeadInv'
<1>1. CASE MinutesPass(i)
  <2>1. i \in Filed /\ UNCHANGED <<contact, deal, filer>>
    BY <1>1 DEF MinutesPass
  <2>2. enquiry[i] \in EnquiryType
    BY <2>1 DEF LeadInv, EnquiriesOK, Filed
  <2>3. PICK r : r = [enquiry[i] EXCEPT !.recent = FALSE]
    OBVIOUS
  <2>4. enquiry' = [enquiry EXCEPT ![i] = r]
    BY <1>1, <2>3 DEF MinutesPass
  <2>5. r \in EnquiryType /\ r.sub = enquiry[i].sub /\ r.since = enquiry[i].since /\ ~r.recent
    BY <2>2, <2>3 DEF EnquiryType
  <2>6. EnquiriesOK' /\ EnquiriesStay
    BY <2>1, <2>4, <2>5, EnquiryEdited DEF LeadInv
  <2>7. ContactsOK' /\ LeadDealsOK' /\ LeadTablesStay
    BY <2>1, <2>6, Untouched DEF LeadInv, LeadTablesStay
  <2> QED BY <2>1, <2>6, <2>7, CallsStay DEF LeadInv
<1>2. CASE DealCloses(i)
  <2>1. i \in Opened /\ UNCHANGED <<enquiry, contact, filer>>
    BY <1>2 DEF DealCloses
  <2>2. deal[i] \in DealType
    BY DEF LeadInv, LeadDealsOK
  <2>3. PICK r : r = [deal[i] EXCEPT !.open = FALSE]
    OBVIOUS
  <2>4. deal' = [deal EXCEPT ![i] = r]
    BY <1>2, <2>3 DEF DealCloses
  <2>5. r \in DealType /\ r.contact = deal[i].contact /\ r.since = deal[i].since /\ r.open = FALSE
    BY <2>2, <2>3 DEF DealType
  <2>6. LeadDealsOK' /\ DealsStay
    BY <2>1, <2>4, <2>5, DealClosed DEF LeadInv
  <2>7. EnquiriesOK' /\ ContactsOK' /\ LeadTablesStay
    BY <2>1, <2>6, Untouched DEF LeadInv, LeadTablesStay
  <2> QED BY <2>1, <2>6, <2>7, CallsStay DEF LeadInv
<1> QED BY <1>1, <1>2

LEMMA LeadStep ==
  ASSUME LeadInv, [LeadIntakeNext]_intakeVars
  PROVE  LeadInv'
<1>1. CASE UNCHANGED intakeVars
  <2>1. UNCHANGED <<enquiry, contact, deal, filer>>
    BY <1>1 DEF intakeVars
  <2>2. EnquiriesOK' /\ ContactsOK' /\ LeadDealsOK' /\ LeadTablesStay
    BY <2>1, Untouched DEF LeadInv, LeadTablesStay
  <2> QED BY <2>1, <2>2, CallsStay DEF LeadInv
<1>2. ASSUME NEW x \in Filers, GiveUpLead(x) PROVE LeadInv'
  <2>1. UNCHANGED <<enquiry, contact, deal>> /\ Rest(x)
    BY <1>2 DEF GiveUpLead
  <2>2. LeadTablesStay
    BY <2>1, Untouched DEF LeadInv, LeadTablesStay
  <2> QED BY <2>1, <2>2, CallRests, LooksStep DEF LeadInv
<1> QED
  BY <1>1, <1>2, SubmitStep, CheckStep, FileStep, FindStep, CreateStep, AssignStep, ReuseStep,
     OpenStep, TaskStep, LinkStep, LeadTimeStep DEF LeadIntakeNext

(***************************************************************************)
(* For any number of calls of submit(): an id of the website's is filed    *)
(* once, and a second enquiry, contact or open deal like one that was      *)
(* there when the call came in is never made.                              *)
(***************************************************************************)
THEOREM LeadsAreFiledOnce == LeadIntakeSpec => []LeadsHold
<1>1. LeadInv => LeadsHold
  <2> SUFFICES ASSUME LeadInv PROVE LeadsHold
    OBVIOUS
  <2>1. LeadIntakeTypeOK
    BY DEF LeadInv, EnquiriesOK, ContactsOK, LeadDealsOK, CallsKnow, LeadIntakeTypeOK, FilerRow
  <2>2. TwinsAreConcurrent
    BY DEF LeadInv, ContactsOK, LeadDealsOK, TwinsAreConcurrent
  <2> QED BY <2>1, <2>2 DEF LeadInv, EnquiriesOK, LeadsHold
<1> QED BY LeadInit, LeadStep, <1>1, PTL DEF LeadIntakeSpec

-----------------------------------------------------------------------------
(***************************************************************************)
(* The reading of answers, for any number of them and of questions.  The   *)
(* questions are gone through in their order and each depends on one above *)
(* it only, so what has been judged is never undone: the answers kept so   *)
(* far apply, whatever is dropped further down.                            *)
(***************************************************************************)
KeptSoFar == \A q \in kept : q <= asked => Shown(q)

AnsInv == FormAnswersTypeOK /\ condition \in Conditions /\ BudgetIsOneAnswer /\ KeptSoFar

(* The ends of a whole answer, put in order.                                *)
LEMMA OrderedEnds ==
  ASSUME NEW e \in Ends
  PROVE  /\ InOrder(e) \in Ends \cup {Span(0, 0)}
         /\ LET o == InOrder(e) IN (o.low = 0 \/ o.high = 0 \/ o.low < o.high)
<1>1. PICK a \in Amounts \cup {0}, b \in Amounts \cup {0} : e = Span(a, b)
  BY DEF Ends
<1>2. a \in Nat /\ b \in Nat /\ 0 \in Amounts \cup {0}
  BY FormAnswersAssumption DEF FormAnswersAssumption
<1>3. e.low = a /\ e.high = b
  BY <1>1 DEF Span
<1>4. \A x, y \in Amounts \cup {0} :
        Span(x, y) \in Ends \cup {Span(0, 0)} /\ Span(x, y).low = x /\ Span(x, y).high = y
  BY DEF Ends, Span
<1>5. CASE a = b
  <2>1. InOrder(e) = Span(0, b)
    BY <1>3, <1>5 DEF InOrder
  <2> QED BY <1>2, <1>4, <2>1
<1>6. CASE a # b /\ a # 0 /\ b # 0 /\ a > b
  <2>1. InOrder(e) = Span(b, a)
    BY <1>3, <1>6 DEF InOrder
  <2> QED BY <1>2, <1>4, <1>6, <2>1
<1>7. CASE a # b /\ ~(a # 0 /\ b # 0 /\ a > b)
  <2>1. InOrder(e) = Span(a, b)
    BY <1>1, <1>3, <1>7 DEF InOrder
  <2>2. a = 0 \/ b = 0 \/ a < b
    BY <1>2, <1>7
  <2> QED BY <1>4, <2>1, <2>2
<1> QED BY <1>5, <1>6, <1>7

LEMMA ToppedType ==
  ASSUME budget \in Ends \cup {Span(0, 0)}, NEW e \in Ends
  PROVE  Topped(e) \in Ends \cup {Span(0, 0)}
<1>1. \A f \in Ends \cup {Span(0, 0)} : f.low \in Amounts \cup {0} /\ f.high \in Amounts \cup {0}
  BY DEF Ends, Span
<1>2. \A x, y \in Amounts \cup {0} : Span(x, y) \in Ends \cup {Span(0, 0)}
  BY DEF Ends
<1> QED BY <1>1, <1>2 DEF Topped

LEMMA AnsInit == FormAnswersInit => AnsInv
<1> SUFFICES ASSUME FormAnswersInit PROVE AnsInv
  OBVIOUS
<1>1. FormAnswersTypeOK
  <2>1. unread \in SUBSET Answers /\ condition \in [1..Questions -> 0..Questions]
    BY DEF FormAnswersInit, Conditions
  <2>2. budget \in Ends \cup {Span(0, 0)} /\ budgetOf \in BOOLEAN
    BY DEF FormAnswersInit
  <2>3. shows \in [1..Questions -> BOOLEAN] /\ kept \in SUBSET (1..Questions) /\ asked \in 0..Questions
    BY FormAnswersAssumption DEF FormAnswersAssumption, FormAnswersInit
  <2> QED BY <2>1, <2>2, <2>3 DEF FormAnswersTypeOK
<1>2. KeptSoFar
  <2>1. \A q \in 1..Questions : ~(q <= asked)
    BY FormAnswersAssumption DEF FormAnswersAssumption, FormAnswersInit
  <2> QED BY <1>1, <2>1 DEF KeptSoFar, FormAnswersTypeOK
<1> QED BY <1>1, <1>2 DEF AnsInv, FormAnswersInit, BudgetIsOneAnswer

LEMMA AnsStep ==
  ASSUME AnsInv, [FormAnswersNext]_answersVars
  PROVE  AnsInv'
<1> USE DEF AnsInv
<1>1. CASE UNCHANGED answersVars
  BY <1>1 DEF answersVars, FormAnswersTypeOK, BudgetIsOneAnswer, KeptSoFar, Shown
<1>2. ASSUME NEW a \in unread, ReadAnswer(a) PROVE AnsInv'
  <2>1. a \in Answers /\ a.ends \in Ends
    BY DEF FormAnswersTypeOK, Answers, Wholes, Bounds
  <2>2. UNCHANGED <<condition, shows, kept, asked>> /\ unread' = unread \ {a}
    BY <1>2 DEF ReadAnswer
  <2>3. KeptSoFar'
    BY <2>2 DEF KeptSoFar, Shown
  <2>4. /\ budget' \in Ends \cup {Span(0, 0)} /\ budgetOf' \in BOOLEAN
        /\ BudgetIsOneAnswer'
    <3>1. CASE a.whole /\ NamesPrice
      BY <1>2, <3>1 DEF ReadAnswer, FormAnswersTypeOK, BudgetIsOneAnswer
    <3>2. CASE a.whole /\ ~NamesPrice
      <4>1. budget' = InOrder(a.ends) /\ budgetOf' = TRUE
        BY <1>2, <3>2 DEF ReadAnswer
      <4> QED BY <2>1, <4>1, OrderedEnds DEF BudgetIsOneAnswer
    <3>3. CASE ~a.whole
      <4>1. budget' = (IF WholeFiled THEN budget ELSE Topped(a.ends)) /\ budgetOf' = budgetOf
        BY <1>2, <3>3 DEF ReadAnswer
      <4> QED BY <2>1, <4>1, ToppedType DEF WholeFiled, FormAnswersTypeOK, BudgetIsOneAnswer
    <3> QED BY <3>1, <3>2, <3>3
  <2> QED BY <2>2, <2>3, <2>4 DEF FormAnswersTypeOK
<1>3. CASE AskNext
  <2>1. /\ asked < Questions /\ asked' = asked + 1
        /\ kept' = IF Shown(asked + 1) THEN kept ELSE kept \ {asked + 1}
        /\ UNCHANGED <<unread, budget, budgetOf, condition, shows>>
    BY <1>3 DEF AskNext
  <2>2. asked \in Nat /\ Questions \in Nat /\ kept \in SUBSET (1..Questions)
    BY FormAnswersAssumption DEF FormAnswersAssumption, FormAnswersTypeOK
  <2>3. FormAnswersTypeOK'
    BY <2>1, <2>2 DEF FormAnswersTypeOK
  <2>4. ASSUME NEW q \in kept', q <= asked' PROVE Shown(q)'
    <3>1. q \in kept /\ q \in 1..Questions
      BY <2>1, <2>2
    <3>2. Shown(q)
      BY <2>1, <2>2, <2>4, <3>1 DEF KeptSoFar
    <3>3. condition[q] < q /\ condition[q] \in 0..Questions
      BY <3>1 DEF Conditions
    <3>4. condition[q] # asked + 1
      BY <2>1, <2>2, <2>4, <3>1, <3>3
    <3> QED BY <2>1, <3>2, <3>4 DEF Shown
  <2>5. KeptSoFar'
    BY <2>4 DEF KeptSoFar
  <2>6. BudgetIsOneAnswer'
    BY <2>1 DEF BudgetIsOneAnswer
  <2> QED BY <2>1, <2>3, <2>5, <2>6
<1> QED BY <1>1, <1>2, <1>3 DEF FormAnswersNext

(***************************************************************************)
(* For any amounts, answers and chains of questions, a budget filed whole  *)
(* is no inverted range, and at the end every answer kept is to a question *)
(* that a kept answer showed (apply_budget, normalise_submission).         *)
(***************************************************************************)
THEOREM AnswersApply == FormAnswersSpec => []AnswersHold
<1>1. AnsInv => AnswersHold
  <2> SUFFICES ASSUME AnsInv, asked = Questions, NEW q \in kept PROVE Shown(q)
    BY DEF AnsInv, AnswersHold, KeptAnswersApplied
  <2>1. q <= asked
    BY FormAnswersAssumption DEF FormAnswersAssumption, AnsInv, FormAnswersTypeOK
  <2> QED BY <2>1 DEF AnsInv, KeptSoFar
<1> QED BY AnsInit, AnsStep, <1>1, PTL DEF FormAnswersSpec

-----------------------------------------------------------------------------
(***************************************************************************)
(* The value of a deal, for any number of requests and any prices.  What a *)
(* request read was, when it read it, a value the CRM had worked out; the  *)
(* values worked out are never fewer, and the write is guarded by the      *)
(* value: so a value nobody worked out is one no request replaces.         *)
(***************************************************************************)
ReadWasWorked ==
  \A q \in Requesters :
    pricing[q].deal.basis # NoBasis => pricing[q].deal.basis.price \in worked

FigInv == DealValueTypeOK /\ BasisWasWorked /\ ReadWasWorked

LEMMA BasisTypes ==
  ASSUME NEW p \in Prices \cup {0}
  PROVE  /\ BasisOf(p) \in Bases /\ ValueOf(p) \in Values /\ BasisOf(p) # NoBasis
         /\ ValueOf(p) = BasisOf(p).price
<1>1. [method |-> "commission", price |-> p] \in Bases /\ [method |-> "fixed", price |-> 0] \in Bases
  BY DEF Bases
<1>2. BasisOf(p) # NoBasis
  BY DEF BasisOf, NoBasis
<1>3. BasisOf(p).price \in Prices \cup {0}
  BY DEF BasisOf
<1> QED BY <1>1, <1>2, <1>3 DEF BasisOf, ValueOf, Values

LEMMA FigInit == DealValueInit => FigInv
<1> SUFFICES ASSUME DealValueInit PROVE FigInv
  OBVIOUS
<1>1. PICK p \in Prices, ours \in BOOLEAN :
        worth \in {[value |-> ValueOf(p), basis |-> BasisOf(p), ours |-> ours],
                   [value |-> p, basis |-> NoBasis, ours |-> ours]}
  BY DEF DealValueInit
<1>2. NoBasis \in Bases /\ p \in Values
  BY DEF NoBasis, Bases, Values
<1>3. worth \in WorthType
  BY <1>1, <1>2, BasisTypes DEF WorthType
<1>4. worth.basis # NoBasis => worth.value = worth.basis.price
  BY <1>1, BasisTypes
<1>5. worked = IF worth.basis = NoBasis THEN {} ELSE {worth.value}
  BY DEF DealValueInit
<1>6. pricing = [q \in Requesters |-> [pc |-> "idle", price |-> 0, deal |-> worth]]
  BY DEF DealValueInit
<1>7. worth.value \in Values
  BY <1>3 DEF WorthType
<1>8. DealValueTypeOK
  <2>1. [pc |-> "idle", price |-> 0, deal |-> worth] \in PricingType
    BY <1>3 DEF PricingType
  <2> QED BY <1>3, <1>5, <1>6, <1>7, <2>1 DEF DealValueTypeOK
<1>9. BasisWasWorked /\ ReadWasWorked
  BY <1>4, <1>5, <1>6 DEF BasisWasWorked, ReadWasWorked
<1> QED BY <1>8, <1>9 DEF FigInv

(* One step, and what TypedFigureStays asks of it.                          *)
LEMMA FigStep ==
  ASSUME FigInv, [DealValueNext]_worthVars
  PROVE  FigInv' /\ (worth.value \notin worked => worth'.basis = worth.basis)
<1> USE DEF FigInv
<1>t. worth \in WorthType /\ pricing \in [Requesters -> PricingType] /\ worked \in SUBSET Values
  BY DEF DealValueTypeOK
<1>1. CASE UNCHANGED worthVars
  BY <1>1 DEF worthVars, DealValueTypeOK, BasisWasWorked, ReadWasWorked
<1>2. ASSUME NEW q \in Requesters, NEW p \in Prices \cup {0}, ReadDeal(q, p)
      PROVE  FigInv' /\ worth'.basis = worth.basis
  <2>1. PICK r : r = [pc |-> "read", price |-> p, deal |-> worth]
    OBVIOUS
  <2>2. pricing' = [pricing EXCEPT ![q] = r] /\ UNCHANGED <<worth, worked>>
    BY <1>2, <2>1 DEF ReadDeal
  <2>3. r \in PricingType
    BY <1>t, <2>1 DEF PricingType
  <2>4. r.deal = worth
    BY <2>1
  <2>5. DealValueTypeOK'
    BY <1>t, <2>2, <2>3 DEF DealValueTypeOK
  <2>6. ReadWasWorked' /\ BasisWasWorked'
    BY <1>t, <2>2, <2>4 DEF ReadWasWorked, BasisWasWorked
  <2> QED BY <2>2, <2>5, <2>6
<1>3. ASSUME NEW q \in Requesters, Reprice(q)
      PROVE  FigInv' /\ (worth.value \notin worked => worth'.basis = worth.basis)
  <2>0. pricing[q] \in PricingType
    BY <1>t
  <2>1. PICK p : p = pricing[q].price
    OBVIOUS
  <2>2. p \in Prices \cup {0} /\ pricing[q].deal \in WorthType
    BY <2>0, <2>1 DEF PricingType
  <2>3. CASE ValueUnmoved(pricing[q].deal)
    <3>1. PICK r : r = [pricing[q] EXCEPT !.pc = "idle"]
      OBVIOUS
    <3>2. PICK w : w = [worth EXCEPT !.value = ValueOf(p), !.basis = BasisOf(p)]
      OBVIOUS
    <3>3. /\ worth' = w /\ worked' = worked \cup {ValueOf(p)}
          /\ pricing' = [pricing EXCEPT ![q] = r]
      BY <1>3, <2>1, <2>3, <3>1, <3>2 DEF Reprice
    <3>4. w \in WorthType /\ w.basis = BasisOf(p)
      BY <1>t, <2>2, <3>2, BasisTypes DEF WorthType
    <3>5. r \in PricingType /\ r.deal = pricing[q].deal
      BY <2>0, <3>1 DEF PricingType
    <3>6. ValueOf(p) \in Values /\ ValueOf(p) = BasisOf(p).price
      BY <2>2, BasisTypes
    <3>7. DealValueTypeOK'
      BY <1>t, <3>3, <3>4, <3>5, <3>6 DEF DealValueTypeOK
    <3>8. BasisWasWorked'
      BY <3>3, <3>4, <3>6 DEF BasisWasWorked
    <3>9. ReadWasWorked'
      BY <1>t, <3>3, <3>5 DEF ReadWasWorked
    <3>10. worth.value \in worked
      BY <1>3, <2>3 DEF Reprice, Reprices, ValueUnmoved, ReadWasWorked
    <3> QED BY <3>7, <3>8, <3>9, <3>10
  <2>4. CASE ~ValueUnmoved(pricing[q].deal)
    <3>1. PICK r : r = [pricing[q] EXCEPT !.pc = "reread"]
      OBVIOUS
    <3>2. pricing' = [pricing EXCEPT ![q] = r] /\ UNCHANGED <<worth, worked>>
      BY <1>3, <2>4, <3>1 DEF Reprice
    <3>3. r \in PricingType /\ r.deal = pricing[q].deal
      BY <2>0, <3>1 DEF PricingType
    <3> QED BY <1>t, <3>2, <3>3 DEF DealValueTypeOK, BasisWasWorked, ReadWasWorked
  <2> QED BY <2>3, <2>4
<1>4. ASSUME NEW q \in Requesters, LeaveValue(q)
      PROVE  FigInv' /\ worth'.basis = worth.basis
  <2>0. pricing[q] \in PricingType
    BY <1>t
  <2>1. PICK r : r = [pricing[q] EXCEPT !.pc = "idle"]
    OBVIOUS
  <2>2. pricing' = [pricing EXCEPT ![q] = r] /\ UNCHANGED <<worth, worked>>
    BY <1>4, <2>1 DEF LeaveValue
  <2>3. r \in PricingType /\ r.deal = pricing[q].deal
    BY <2>0, <2>1 DEF PricingType
  <2> QED BY <1>t, <2>2, <2>3 DEF DealValueTypeOK, BasisWasWorked, ReadWasWorked
<1>5. ASSUME NEW v \in Figures, TypeFigure(v)
      PROVE  FigInv' /\ worth'.basis = worth.basis
  <2>1. PICK w : w = [worth EXCEPT !.value = v]
    OBVIOUS
  <2>2. worth' = w /\ UNCHANGED <<pricing, worked>>
    BY <1>5, <2>1 DEF TypeFigure
  <2>3. w \in WorthType /\ w.basis = worth.basis
    BY <1>t, <2>1 DEF WorthType, Values
  <2> QED BY <1>t, <2>2, <2>3 DEF DealValueTypeOK, BasisWasWorked, ReadWasWorked
<1> QED BY <1>1, <1>2, <1>3, <1>4, <1>5 DEF DealValueNext

(***************************************************************************)
(* For any prices, figures and number of requests side by side, a figure   *)
(* an agent typed is never replaced by a request's (revalue), and a basis  *)
(* on the deal is of a value worked out for it.                            *)
(***************************************************************************)
THEOREM TypedIsTheirs == DealValueSpec => FiguresHold
<1>1. FigInv => DealValueTypeOK /\ BasisWasWorked
  BY DEF FigInv
<1>2. ASSUME FigInv, [DealValueNext]_worthVars
      PROVE  [worth.value \notin worked => worth'.basis = worth.basis]_worthVars
  BY <1>2, FigStep
<1>3. FigInv /\ [DealValueNext]_worthVars => FigInv'
  BY FigStep
<1> QED BY FigInit, <1>1, <1>2, <1>3, PTL DEF DealValueSpec, FiguresHold, TypedFigureStays

-----------------------------------------------------------------------------
(***************************************************************************)
(* The merging of contacts, for any number of contacts, records and merges *)
(* side by side, however often they are stopped and repeated.  A contact   *)
(* that is marked is Clean on a record when it is not on it, or was put    *)
(* there late; the records a merge has been through are clean of its       *)
(* source, and stay so.  A contact that no two merges have in hand is one  *)
(* whose mark and whose inquiries only its own merge can touch.            *)
(***************************************************************************)
MergeRow == [at : {"idle", "mark", "fold", "move", "archive"}, source : Contacts \cup {Nobody},
             target : Contacts \cup {Nobody}, repeat : BOOLEAN,
             left : SUBSET References, list : Rosters \cup {Nobody}, row : SUBSET Contacts]
PersonRow == [archived : BOOLEAN, into : Contacts \cup {Nobody}]

Hands(x) == {x.source, x.target} \cap Contacts
Clean(c, r) == c \in holds[r] => <<r, c>> \in late

(* What is known of a merge's contacts at the step it has come to.          *)
HandOK(x) ==
  /\ x.at \in {"idle", "mark", "fold", "move"}
  /\ x.at = "idle" => Hands(x) = {}
  /\ x.at # "idle" => x.source \in Contacts /\ x.target \in Contacts /\ x.source # x.target
  /\ x.at = "mark" => ~x.repeat
  /\ x.at \in {"fold", "move"} => Merged(x.source)
  /\ x.at = "move" => \A r \in References \ x.left : Clean(x.source, r)
  /\ x.at # "idle" /\ abreast = {} => ~person[x.target].archived

(* And of a source that it alone has in hand.                               *)
OwnOK(x) ==
  x.source \in Contacts \ abreast =>
    /\ x.at = "mark" => person[x.source].into = Nobody
    /\ x.at \in {"fold", "move"} => person[x.source].into = x.target
    /\ x.at = "fold" /\ ~x.repeat => \A u \in Contacts : folded[x.source][u] = 0

Alone == \A m, n \in Mergers : m # n => Hands(merge[m]) \cap Hands(merge[n]) \subseteq abreast
HandsOK == merge \in [Mergers -> MergeRow] /\ \A m \in Mergers : HandOK(merge[m]) /\ OwnOK(merge[m])

ArchivedIsClean ==
  \A c \in Contacts : person[c].archived => Merged(c) /\ \A r \in References : Clean(c, r)
FoldsOK ==
  \A s \in Contacts \ abreast, t \in Contacts :
    folded[s][t] <= 1 /\ (folded[s][t] > 0 => person[s].into = t)
ToFold(s) == \E m \in Mergers : merge[m].at = "fold" /\ ~merge[m].repeat /\ merge[m].source = s
FollowsOK ==
  \A s \in Contacts \ (abreast \cup unfolded) :
    Merged(s) => folded[s][person[s].into] = 1 \/ ToFold(s)

Records ==
  /\ person \in [Contacts -> PersonRow]
  /\ folded \in [Contacts -> [Contacts -> Nat]]
  /\ holds \in [References -> SUBSET Contacts] /\ \A r \in Singles : Cardinality(holds[r]) <= 1
  /\ late \subseteq References \X Contacts /\ abreast \subseteq Contacts /\ unfolded \subseteq Contacts
  /\ merges \in 0..MaxMerges /\ edits \in 0..MaxEdits /\ stops \in 0..MaxStops

MergeInv ==
  /\ Records /\ HandsOK /\ Alone
  /\ ArchivedIsClean /\ FoldsOK /\ FollowsOK /\ SomebodyIsKept

(* What a step leaves to the merges that are not its own.                   *)
Calm ==
  /\ abreast \subseteq abreast'
  /\ \A c \in Contacts : Merged(c) => Merged(c)'
  /\ \A c \in Contacts, r \in References : Merged(c) /\ Clean(c, r) => Clean(c, r)'
(* ... and what it leaves of a contact.                                     *)
Spared(c) == person'[c].into = person[c].into /\ folded'[c] = folded[c]

-----------------------------------------------------------------------------
LEMMA Single ==
  ASSUME NEW cs \in SUBSET Contacts
  PROVE  Cardinality(cs) <= 1 <=> \A a, b \in cs : a = b
<1>1. IsFiniteSet(cs) /\ Cardinality(cs) \in Nat
  BY MergeAssumption, FS_Subset, FS_CardinalityType DEF MergeAssumption
<1>2. ASSUME NEW a \in cs, NEW b \in cs, a # b PROVE ~(Cardinality(cs) <= 1)
  <2>1. IsFiniteSet({a}) /\ Cardinality({a}) = 1
    BY FS_Singleton
  <2>2. Cardinality({a} \cup {b}) = 2 /\ IsFiniteSet({a} \cup {b})
    BY <1>2, <2>1, FS_AddElement
  <2>3. Cardinality({a} \cup {b}) <= Cardinality(cs)
    BY <1>1, FS_Subset
  <2> QED BY <1>1, <2>2, <2>3
<1>3. ASSUME \A a, b \in cs : a = b PROVE Cardinality(cs) <= 1
  <2>1. CASE cs = {}
    BY <2>1, FS_EmptySet
  <2>2. CASE cs # {}
    <3>1. PICK a \in cs : cs = {a}
      BY <1>3, <2>2
    <3> QED BY <3>1, FS_Singleton
  <2> QED BY <2>1, <2>2
<1> QED BY <1>2, <1>3

LEMMA AtRest == NotMerging \in MergeRow /\ NotMerging.at = "idle" /\ Hands(NotMerging) = {}
BY MergeAssumption DEF MergeAssumption, NotMerging, MergeRow, Hands

(* A merge that a step is not about.                                        *)
LEMMA HandStays ==
  ASSUME Calm, NEW x \in MergeRow, HandOK(x), OwnOK(x),
         x.at # "idle" /\ x.source \notin abreast' => Spared(x.source),
         x.at # "idle" /\ abreast' = {} /\ ~person[x.target].archived => ~person'[x.target].archived
  PROVE  HandOK(x)' /\ OwnOK(x)'
<1>1. x.at = "move" => \A r \in References \ x.left : Clean(x.source, r)'
  BY DEF HandOK, Calm, Clean
<1>2. x.at \in {"fold", "move"} => Merged(x.source)'
  BY DEF HandOK, Calm, Merged
<1>3. x.at # "idle" /\ abreast' = {} => ~person'[x.target].archived
  <2>1. abreast' = {} => abreast = {}
    BY DEF Calm
  <2> QED BY <2>1 DEF HandOK
<1>4. HandOK(x)'
  BY <1>1, <1>2, <1>3 DEF HandOK, Clean, Merged, Hands
<1>5. OwnOK(x)'
  <2> SUFFICES ASSUME x.source \in Contacts \ abreast', x.at # "idle"
               PROVE  OwnOK(x)'
    BY DEF OwnOK
  <2>1. x.source \in Contacts \ abreast /\ Spared(x.source)
    BY DEF Calm
  <2> QED BY <2>1 DEF OwnOK, Spared
<1> QED BY <1>4, <1>5

(* Merge m goes on to x: what is left to show is about x.                   *)
LEMMA HandsGo ==
  ASSUME HandsOK, Alone, Calm, NEW m \in Mergers, NEW x \in MergeRow, Goes(m, x),
         Hands(x) \subseteq Hands(merge[m]),
         HandOK(x)', OwnOK(x)',
         \A c \in Contacts \ Hands(merge[m]) : Spared(c) /\ person'[c].archived = person[c].archived
  PROVE  HandsOK' /\ Alone'
<1>1. merge \in [Mergers -> MergeRow] /\ merge' = [merge EXCEPT ![m] = x]
  BY DEF HandsOK, Goes
<1>2. ASSUME NEW n \in Mergers PROVE HandOK(merge[n])' /\ OwnOK(merge[n])'
  <2>1. CASE n = m
    <3>1. merge'[n] = x
      BY <1>1, <2>1
    <3> QED BY <3>1 DEF HandOK, OwnOK, Hands, Clean, Merged
  <2>2. CASE n # m
    <3>1. PICK y : y = merge[n]
      OBVIOUS
    <3>2. y \in MergeRow /\ HandOK(y) /\ OwnOK(y) /\ merge'[n] = y
      BY <1>1, <2>2, <3>1 DEF HandsOK
    <3>3. Hands(y) \cap Hands(merge[m]) \subseteq abreast /\ abreast \subseteq abreast'
      BY <2>2, <3>1 DEF Alone, Calm
    <3>4. y.at # "idle" => y.source \in Hands(y) /\ y.target \in Hands(y)
      BY <3>2 DEF HandOK, Hands
    <3>5. y.at # "idle" /\ y.source \notin abreast' => Spared(y.source)
      BY <3>2, <3>3, <3>4 DEF Hands
    <3>6. y.at # "idle" /\ abreast' = {} /\ ~person[y.target].archived => ~person'[y.target].archived
      BY <3>2, <3>3, <3>4 DEF Hands
    <3>7. HandOK(y)' /\ OwnOK(y)'
      BY <3>2, <3>5, <3>6, HandStays
    <3> QED BY <3>2, <3>7 DEF HandOK, OwnOK, Hands, Clean, Merged
  <2> QED BY <2>1, <2>2
<1>3. Alone'
  <2> SUFFICES ASSUME NEW a \in Mergers, NEW b \in Mergers, a # b
               PROVE  Hands(merge'[a]) \cap Hands(merge'[b]) \subseteq abreast'
    BY DEF Alone, Hands
  <2>1. Hands(merge[a]) \cap Hands(merge[b]) \subseteq abreast'
    BY DEF Alone, Calm
  <2>2. Hands(merge'[a]) \subseteq Hands(merge[a]) /\ Hands(merge'[b]) \subseteq Hands(merge[b])
    BY <1>1 DEF Hands
  <2> QED BY <2>1, <2>2
<1> QED BY <1>1, <1>2, <1>3 DEF HandsOK

(* No merge goes on.                                                        *)
LEMMA HandsWait ==
  ASSUME HandsOK, Alone, Calm, UNCHANGED <<merge, abreast>>,
         \A c \in Contacts : Spared(c) /\ (~person[c].archived => ~person'[c].archived)
  PROVE  HandsOK' /\ Alone'
<1>1. ASSUME NEW n \in Mergers PROVE HandOK(merge[n])' /\ OwnOK(merge[n])'
  <2>1. PICK y : y = merge[n]
    OBVIOUS
  <2>2. y \in MergeRow /\ HandOK(y) /\ OwnOK(y) /\ merge'[n] = y
    BY <2>1 DEF HandsOK
  <2>3. HandOK(y)' /\ OwnOK(y)'
    BY <2>2, HandStays DEF HandOK
  <2> QED BY <2>2, <2>3 DEF HandOK, OwnOK, Hands, Clean, Merged
<1> QED BY <1>1 DEF HandsOK, Alone, Hands

(* A record is written: who is on his way out is put on it late.            *)
LEMMA WriteIsCalm ==
  ASSUME Records, NEW r \in References, NEW cs \in SUBSET Contacts,
         holds' = [holds EXCEPT ![r] = cs], late \subseteq late',
         \A c \in cs \ holds[r] : Merged(c) => <<r, c>> \in late',
         UNCHANGED <<person, abreast>>
  PROVE  Calm
BY DEF Records, Calm, Merged, Clean

(* The tables only a merge's mark, fold and archiving touch.                *)
LEMMA TablesStay ==
  ASSUME Records, ArchivedIsClean, FoldsOK, FollowsOK, SomebodyIsKept, Calm,
         UNCHANGED <<person, folded, abreast, unfolded>>,
         \A s \in Contacts : ToFold(s) => ToFold(s)'
  PROVE  ArchivedIsClean' /\ FoldsOK' /\ FollowsOK' /\ SomebodyIsKept'
<1>1. ArchivedIsClean'
  BY DEF ArchivedIsClean, Calm, Merged, Clean
<1>2. FoldsOK' /\ SomebodyIsKept'
  BY DEF FoldsOK, SomebodyIsKept
<1>3. FollowsOK'
  BY DEF FollowsOK, Merged, ToFold
<1> QED BY <1>1, <1>2, <1>3

(* A merge that goes on from another step than its fold.                    *)
LEMMA ToFoldStays ==
  ASSUME HandsOK, NEW m \in Mergers, NEW x, Goes(m, x), merge[m].at # "fold" \/ merge[m].repeat
  PROVE  \A s \in Contacts : ToFold(s) => ToFold(s)'
BY DEF HandsOK, Goes, ToFold

-----------------------------------------------------------------------------
LEMMA MergeInitInv == MergeInit => MergeInv
<1> SUFFICES ASSUME MergeInit PROVE MergeInv
  OBVIOUS
<1>1. Records
  <2>1. person \in [Contacts -> PersonRow]
    BY DEF MergeInit, PersonRow
  <2>2. folded \in [Contacts -> [Contacts -> Nat]]
    BY DEF MergeInit
  <2>3. holds \in [References -> SUBSET Contacts] /\ \A r \in Singles : Cardinality(holds[r]) <= 1
    BY DEF MergeInit
  <2>4. /\ late \subseteq References \X Contacts /\ abreast \subseteq Contacts /\ unfolded \subseteq Contacts
        /\ merges = 0 /\ edits = 0 /\ stops = 0
    BY DEF MergeInit
  <2>5. 0 \in 0..MaxMerges /\ 0 \in 0..MaxEdits /\ 0 \in 0..MaxStops
    BY MergeAssumption DEF MergeAssumption
  <2> QED BY <2>1, <2>2, <2>3, <2>4, <2>5 DEF Records
<1>2. \A m \in Mergers : merge[m] = NotMerging
  BY DEF MergeInit
<1>3. HandOK(NotMerging) /\ OwnOK(NotMerging)
  BY AtRest, MergeAssumption DEF MergeAssumption, HandOK, OwnOK, NotMerging
<1>4. HandsOK
  BY <1>2, <1>3, AtRest DEF MergeInit, HandsOK
<1>5. Alone
  BY <1>2, AtRest DEF Alone
<1>6. \A c \in Contacts : ~person[c].archived /\ ~Merged(c)
  BY DEF MergeInit, Merged
<1>7. SomebodyIsKept /\ ArchivedIsClean /\ FollowsOK
  BY <1>6, MergeAssumption DEF MergeAssumption, SomebodyIsKept, ArchivedIsClean, FollowsOK
<1>8. FoldsOK
  BY DEF MergeInit, FoldsOK
<1> QED BY <1>1, <1>4, <1>5, <1>7, <1>8 DEF MergeInv

LEMMA EditStep ==
  ASSUME MergeInv, NEW r \in References, NEW cs \in SUBSET Contacts, Edit(r, cs)
  PROVE  MergeInv'
<1>1. /\ holds' = [holds EXCEPT ![r] = cs] /\ late' = late \cup Lately(r, cs, {})
      /\ UNCHANGED <<person, folded, merge, abreast, unfolded, merges, stops>>
      /\ edits < MaxEdits /\ edits' = edits + 1 /\ (r \in Singles => Cardinality(cs) = 1)
  BY DEF Edit
<1>2. Calm
  BY <1>1, WriteIsCalm DEF MergeInv, Lately
<1>3. Records'
  <2>1. \A q \in Singles : Cardinality(holds'[q]) <= 1
    BY <1>1 DEF MergeInv, Records, References
  <2> QED BY <1>1, <2>1, MergeAssumption DEF MergeAssumption, MergeInv, Records, Lately
<1>4. HandsOK' /\ Alone'
  BY <1>1, <1>2, HandsWait DEF MergeInv, Spared
<1>5. \A s \in Contacts : ToFold(s) => ToFold(s)'
  BY <1>1 DEF ToFold
<1> QED BY <1>1, <1>2, <1>3, <1>4, <1>5, TablesStay DEF MergeInv

LEMMA RestoreStep ==
  ASSUME MergeInv, NEW c \in Contacts, Restore(c)
  PROVE  MergeInv'
<1>1. PICK p : p = [person[c] EXCEPT !.archived = FALSE]
  OBVIOUS
<1>2. /\ person' = [person EXCEPT ![c] = p]
      /\ UNCHANGED <<folded, holds, merge, late, abreast, unfolded, merges, stops>>
      /\ edits < MaxEdits /\ edits' = edits + 1
  BY <1>1 DEF Restore
<1>3. p \in PersonRow /\ p.into = person[c].into /\ ~p.archived
  BY <1>1 DEF MergeInv, Records, PersonRow
<1>4. Records'
  BY <1>2, <1>3, MergeAssumption DEF MergeAssumption, MergeInv, Records
<1>5. \A d \in Contacts : person'[d].into = person[d].into /\ (person'[d].archived => person[d].archived)
  BY <1>2, <1>3 DEF MergeInv, Records
<1>6. Calm
  BY <1>2, <1>5 DEF Calm, Merged, Clean
<1>7. HandsOK' /\ Alone'
  BY <1>2, <1>5, <1>6, HandsWait DEF MergeInv, Spared
<1>8. ArchivedIsClean' /\ FoldsOK'
  BY <1>2, <1>5 DEF MergeInv, ArchivedIsClean, FoldsOK, Merged, Clean
<1>9. FollowsOK'
  BY <1>2, <1>5 DEF MergeInv, FollowsOK, Merged, ToFold
<1>10. SomebodyIsKept'
  BY <1>2, <1>5 DEF MergeInv, SomebodyIsKept
<1> QED BY <1>4, <1>7, <1>8, <1>9, <1>10 DEF MergeInv

LEMMA BeginStep ==
  ASSUME MergeInv, NEW m \in Mergers, NEW s \in Contacts, NEW t \in Contacts, Begin(m, s, t)
  PROVE  MergeInv'
<1>1. PICK again : again = (person[s].into = t)
  OBVIOUS
<1>2. PICK x : x = [NotMerging EXCEPT !.at = IF again THEN "fold" ELSE "mark",
                      !.source = s, !.target = t, !.repeat = again]
  OBVIOUS
<1>3. /\ Goes(m, x) /\ s # t /\ ~person[t].archived /\ person[s].into \in {Nobody, t}
      /\ abreast' = abreast \cup {c \in {s, t} : InMerge(c)}
      /\ UNCHANGED <<person, folded, holds, late, unfolded, edits, stops>>
      /\ merges < MaxMerges /\ merges' = merges + 1 /\ merge[m].at = "idle"
  BY <1>1, <1>2 DEF Begin, At, NotElsewhere
<1>4. /\ x \in MergeRow /\ x.source = s /\ x.target = t /\ x.repeat = again
      /\ x.at = IF again THEN "fold" ELSE "mark"
  BY <1>1, <1>2, AtRest DEF MergeRow, NotMerging
<1>5. Hands(x) = {s, t}
  BY <1>4 DEF Hands
<1>6. Records'
  BY <1>3, MergeAssumption DEF MergeAssumption, MergeInv, Records
<1>7. Calm
  BY <1>3 DEF Calm, Merged, Clean
<1>8. \A c \in Contacts : Spared(c) /\ person'[c] = person[c]
  BY <1>3 DEF Spared
<1>9. merge \in [Mergers -> MergeRow] /\ merge' = [merge EXCEPT ![m] = x]
  BY <1>3 DEF MergeInv, HandsOK, Goes
<1>10. HandOK(x)' /\ OwnOK(x)'
  <2>1. HandOK(x)'
    BY <1>1, <1>3, <1>4, MergeAssumption DEF MergeAssumption, HandOK, Merged
  <2>2. OwnOK(x)'
    BY <1>1, <1>3, <1>4 DEF OwnOK
  <2> QED BY <2>1, <2>2
<1>11. ASSUME NEW n \in Mergers PROVE HandOK(merge[n])' /\ OwnOK(merge[n])'
  <2>1. PICK y : y = merge'[n]
    OBVIOUS
  <2>2. HandOK(y)' /\ OwnOK(y)'
    <3>1. CASE n = m
      BY <1>9, <1>10, <2>1, <3>1
    <3>2. CASE n # m
      <4>1. y = merge[n] /\ y \in MergeRow /\ HandOK(y) /\ OwnOK(y)
        BY <1>9, <2>1, <3>2 DEF MergeInv, HandsOK
      <4> QED BY <1>7, <1>8, <4>1, HandStays DEF HandOK
    <3> QED BY <3>1, <3>2
  <2> QED BY <2>1, <2>2 DEF HandOK, OwnOK, Hands, Clean, Merged
<1>12. HandsOK'
  BY <1>4, <1>9, <1>11 DEF HandsOK
<1>13. Alone'
  <2>1. \A n \in Mergers : Hands(merge[n]) \cap {s, t} \subseteq abreast'
    BY <1>3 DEF Hands, InMerge
  <2> SUFFICES ASSUME NEW a \in Mergers, NEW b \in Mergers, a # b
               PROVE  Hands(merge'[a]) \cap Hands(merge'[b]) \subseteq abreast'
    BY DEF Alone, Hands
  <2>2. CASE a = m
    BY <1>5, <1>9, <2>1, <2>2
  <2>3. CASE b = m
    BY <1>5, <1>9, <2>1, <2>3
  <2>4. CASE a # m /\ b # m
    BY <1>3, <1>9, <2>4 DEF MergeInv, Alone
  <2> QED BY <2>2, <2>3, <2>4
<1>14. \A c \in Contacts : ToFold(c) => ToFold(c)'
  BY <1>3, ToFoldStays DEF MergeInv
<1>15. ArchivedIsClean' /\ FoldsOK' /\ SomebodyIsKept'
  BY <1>3 DEF MergeInv, ArchivedIsClean, FoldsOK, SomebodyIsKept, Merged, Clean
<1>16. FollowsOK'
  BY <1>3, <1>14 DEF MergeInv, FollowsOK, Merged
<1> QED BY <1>6, <1>12, <1>13, <1>15, <1>16 DEF MergeInv

(* A merge at work: its source and target are two contacts.                 *)
LEMMA AtWork ==
  ASSUME MergeInv, NEW m \in Mergers, merge[m].at # "idle"
  PROVE  /\ merge[m] \in MergeRow /\ HandOK(merge[m]) /\ OwnOK(merge[m])
         /\ merge[m].source \in Contacts /\ merge[m].target \in Contacts
         /\ merge[m].source # merge[m].target
         /\ Hands(merge[m]) = {merge[m].source, merge[m].target}
BY DEF MergeInv, HandsOK, HandOK, Hands

LEMMA MarkStep ==
  ASSUME MergeInv, NEW m \in Mergers, Mark(m)
  PROVE  MergeInv'
<1>1. merge[m].at = "mark"
  BY DEF Mark, At
<1>2. PICK w, s, t : w = merge[m] /\ s = w.source /\ t = w.target
  OBVIOUS
<1>3. /\ w \in MergeRow /\ HandOK(w) /\ OwnOK(w) /\ s \in Contacts /\ t \in Contacts /\ s # t
      /\ Hands(w) = {s, t} /\ w.at = "mark"
  BY <1>1, <1>2, AtWork
<1>4. PICK x : x = [w EXCEPT !.at = "fold"]
  OBVIOUS
<1>5. PICK p : p = [person[s] EXCEPT !.into = t]
  OBVIOUS
<1>6. /\ Goes(m, x) /\ person' = [person EXCEPT ![s] = p]
      /\ UNCHANGED <<folded, holds, late, abreast, unfolded, merges, edits, stops>>
  BY <1>2, <1>4, <1>5 DEF Mark
<1>7. p \in PersonRow /\ p.into = t /\ p.archived = person[s].archived /\ t # Nobody
  BY <1>3, <1>5, MergeAssumption DEF MergeAssumption, MergeInv, Records, PersonRow
<1>8. /\ x \in MergeRow /\ x.at = "fold" /\ x.source = s /\ x.target = t /\ x.repeat = w.repeat
  BY <1>2, <1>3, <1>4 DEF MergeRow
<1>9. Records'
  BY <1>6, <1>7 DEF MergeInv, Records
<1>10. /\ person'[s] = p /\ \A c \in Contacts \ {s} : person'[c] = person[c]
       /\ \A c \in Contacts : person'[c].archived = person[c].archived
  BY <1>3, <1>6, <1>7 DEF MergeInv, Records
<1>11. Calm
  BY <1>6, <1>7, <1>10 DEF Calm, Merged, Clean
<1>12. \A c \in Contacts \ Hands(w) : Spared(c) /\ person'[c].archived = person[c].archived
  BY <1>3, <1>6, <1>10 DEF Spared
<1>13. ~w.repeat /\ (s \notin abreast => person[s].into = Nobody)
  BY <1>2, <1>3 DEF HandOK, OwnOK
<1>14. s \notin abreast => \A u \in Contacts : folded[s][u] = 0
  <2> SUFFICES ASSUME s \notin abreast, NEW u \in Contacts PROVE folded[s][u] = 0
    OBVIOUS
  <2>1. folded[s][u] \in Nat
    BY <1>3 DEF MergeInv, Records
  <2>2. u # Nobody
    BY MergeAssumption DEF MergeAssumption
  <2> QED BY <1>3, <1>13, <2>1, <2>2 DEF MergeInv, FoldsOK
<1>15. HandOK(x)'
  <2>1. abreast' = {} => ~person'[t].archived
    BY <1>2, <1>3, <1>6, <1>10 DEF HandOK
  <2> QED BY <1>3, <1>7, <1>8, <1>10, <2>1 DEF HandOK, Merged
<1>16. OwnOK(x)'
  BY <1>6, <1>7, <1>8, <1>10, <1>14 DEF OwnOK
<1>17. HandsOK' /\ Alone'
  <2>1. Hands(x) \subseteq Hands(w)
    BY <1>3, <1>8 DEF Hands
  <2> QED BY <1>2, <1>6, <1>8, <1>11, <1>12, <1>15, <1>16, <2>1, HandsGo DEF MergeInv
<1>18. ArchivedIsClean'
  BY <1>6, <1>10, <1>11 DEF MergeInv, ArchivedIsClean, Calm
<1>19. FoldsOK'
  <2> SUFFICES ASSUME NEW c \in Contacts \ abreast', NEW u \in Contacts
               PROVE  folded'[c][u] <= 1 /\ (folded'[c][u] > 0 => person'[c].into = u)
    BY DEF FoldsOK
  <2>1. CASE c = s
    BY <1>6, <1>14, <2>1
  <2>2. CASE c # s
    BY <1>6, <1>10, <2>2 DEF MergeInv, FoldsOK
  <2> QED BY <2>1, <2>2
<1>20. FollowsOK'
  <2>1. \A c \in Contacts : ToFold(c) => ToFold(c)'
    BY <1>1, <1>6, ToFoldStays DEF MergeInv
  <2>2. ToFold(s)'
    <3>1. merge'[m] = x
      BY <1>6 DEF Goes, MergeInv, HandsOK
    <3> QED BY <1>8, <1>13, <3>1 DEF ToFold
  <2> SUFFICES ASSUME NEW c \in Contacts \ (abreast' \cup unfolded'), Merged(c)'
               PROVE  folded'[c][person'[c].into] = 1 \/ ToFold(c)'
    BY DEF FollowsOK
  <2>3. CASE c = s
    BY <2>2, <2>3
  <2>4. CASE c # s
    BY <1>6, <1>10, <2>1, <2>4 DEF MergeInv, FollowsOK, Merged
  <2> QED BY <2>3, <2>4
<1>21. SomebodyIsKept'
  BY <1>6, <1>10 DEF MergeInv, SomebodyIsKept
<1> QED BY <1>9, <1>17, <1>18, <1>19, <1>20, <1>21 DEF MergeInv

LEMMA FoldStep ==
  ASSUME MergeInv, NEW m \in Mergers, Fold(m)
  PROVE  MergeInv'
<1>1. merge[m].at = "fold"
  BY DEF Fold, At
<1>2. PICK w, s, t : w = merge[m] /\ s = w.source /\ t = w.target
  OBVIOUS
<1>3. /\ w \in MergeRow /\ HandOK(w) /\ OwnOK(w) /\ s \in Contacts /\ t \in Contacts /\ s # t
      /\ Hands(w) = {s, t} /\ w.at = "fold"
  BY <1>1, <1>2, AtWork
<1>4. PICK x : x = [w EXCEPT !.at = "move", !.left = References]
  OBVIOUS
<1>5. PICK f : f = [folded[s] EXCEPT ![t] = @ + 1]
  OBVIOUS
<1>6. /\ Goes(m, x) /\ UNCHANGED <<person, holds, late, abreast, unfolded, merges, edits, stops>>
      /\ folded' = IF ~w.repeat THEN [folded EXCEPT ![s] = f] ELSE folded
  BY <1>2, <1>4, <1>5 DEF Fold, Folds
<1>7. x \in MergeRow /\ x.at = "move" /\ x.source = s /\ x.target = t /\ x.left = References
  BY <1>2, <1>3, <1>4 DEF MergeRow
<1>8. /\ folded[s] \in [Contacts -> Nat] /\ f \in [Contacts -> Nat]
      /\ f[t] = folded[s][t] + 1 /\ \A u \in Contacts \ {t} : f[u] = folded[s][u]
  BY <1>3, <1>5 DEF MergeInv, Records
<1>9. Records'
  BY <1>6, <1>8 DEF MergeInv, Records
<1>10. \A c \in Contacts \ {s} : folded'[c] = folded[c]
  BY <1>6 DEF MergeInv, Records
<1>11. Calm
  BY <1>6 DEF Calm, Merged, Clean
<1>12. \A c \in Contacts \ Hands(w) : Spared(c) /\ person'[c].archived = person[c].archived
  BY <1>3, <1>6, <1>10 DEF Spared
<1>13. /\ s \notin abreast => person[s].into = t
       /\ s \notin abreast /\ ~w.repeat => \A u \in Contacts : folded[s][u] = 0
  BY <1>2, <1>3 DEF OwnOK
<1>14. HandOK(x)' /\ OwnOK(x)'
  <2>1. HandOK(x)'
    BY <1>2, <1>3, <1>6, <1>7 DEF HandOK, Merged
  <2>2. OwnOK(x)'
    BY <1>6, <1>7, <1>13 DEF OwnOK
  <2> QED BY <2>1, <2>2
<1>15. HandsOK' /\ Alone'
  <2>1. Hands(x) \subseteq Hands(w)
    BY <1>3, <1>7 DEF Hands
  <2> QED BY <1>2, <1>6, <1>7, <1>11, <1>12, <1>14, <2>1, HandsGo DEF MergeInv
<1>16. ArchivedIsClean' /\ SomebodyIsKept'
  BY <1>6 DEF MergeInv, ArchivedIsClean, SomebodyIsKept, Merged, Clean
<1>17. CASE w.repeat
  <2>1. folded' = folded
    BY <1>6, <1>17
  <2>2. \A c \in Contacts : ToFold(c) => ToFold(c)'
    BY <1>2, <1>6, <1>17, ToFoldStays DEF MergeInv
  <2>3. FoldsOK' /\ FollowsOK'
    BY <1>6, <2>1, <2>2 DEF MergeInv, FoldsOK, FollowsOK, Merged
  <2> QED BY <1>9, <1>15, <1>16, <2>3 DEF MergeInv
<1>18. CASE ~w.repeat
  <2>1. folded'[s] = f
    BY <1>3, <1>6, <1>18 DEF MergeInv, Records
  <2>2. s \notin abreast => f[t] = 1 /\ \A u \in Contacts \ {t} : f[u] = 0
    BY <1>3, <1>8, <1>13, <1>18
  <2>3. FoldsOK'
    <3> SUFFICES ASSUME NEW c \in Contacts \ abreast', NEW u \in Contacts
                 PROVE  folded'[c][u] <= 1 /\ (folded'[c][u] > 0 => person'[c].into = u)
      BY DEF FoldsOK
    <3>1. CASE c = s
      BY <1>6, <1>13, <2>1, <2>2, <3>1
    <3>2. CASE c # s
      BY <1>6, <1>10, <3>2 DEF MergeInv, FoldsOK
    <3> QED BY <3>1, <3>2
  <2>4. FollowsOK'
    <3> SUFFICES ASSUME NEW c \in Contacts \ (abreast' \cup unfolded'), Merged(c)'
                 PROVE  folded'[c][person'[c].into] = 1 \/ ToFold(c)'
      BY DEF FollowsOK
    <3>1. CASE c = s
      BY <1>6, <1>13, <2>1, <2>2, <3>1
    <3>2. CASE c # s
      <4>1. ToFold(c) => ToFold(c)'
        BY <1>2, <1>6, <3>2 DEF ToFold, Goes, MergeInv, HandsOK
      <4> QED BY <1>6, <1>10, <3>2, <4>1 DEF MergeInv, FollowsOK, Merged
    <3> QED BY <3>1, <3>2
  <2> QED BY <1>9, <1>15, <1>16, <2>3, <2>4 DEF MergeInv
<1> QED BY <1>17, <1>18

(* A merge at its references goes on there.                                 *)
LEMMA MovesOn ==
  ASSUME MergeInv, NEW m \in Mergers, merge[m].at = "move", Calm, Records',
         UNCHANGED <<person, folded, abreast, unfolded>>,
         NEW x \in MergeRow, Goes(m, x), x.at = "move",
         x.source = merge[m].source, x.target = merge[m].target,
         \A r \in References \ x.left : r \in merge[m].left => Clean(x.source, r)'
  PROVE  MergeInv'
<1>1. PICK w : w = merge[m]
  OBVIOUS
<1>2. w \in MergeRow /\ HandOK(w) /\ OwnOK(w) /\ w.source \in Contacts /\ w.target \in Contacts
  BY <1>1, AtWork
<1>3. \A r \in References \ x.left : Clean(x.source, r)'
  <2> SUFFICES ASSUME NEW r \in References \ x.left, r \notin w.left PROVE Clean(x.source, r)'
    BY <1>1
  <2>1. Clean(w.source, r) /\ Merged(w.source)
    BY <1>1, <1>2 DEF HandOK
  <2> QED BY <1>1, <1>2, <2>1 DEF Calm, Clean
<1>4. HandOK(x)'
  BY <1>1, <1>2, <1>3 DEF HandOK, Merged
<1>5. OwnOK(x)'
  BY <1>1, <1>2 DEF OwnOK
<1>6. Hands(x) \subseteq Hands(merge[m])
  BY DEF Hands
<1>7. \A c \in Contacts : Spared(c) /\ person'[c].archived = person[c].archived
  BY DEF Spared
<1>8. HandsOK' /\ Alone'
  BY <1>4, <1>5, <1>6, <1>7, HandsGo DEF MergeInv
<1>9. \A s \in Contacts : ToFold(s) => ToFold(s)'
  BY ToFoldStays DEF MergeInv
<1> QED BY <1>8, <1>9, TablesStay DEF MergeInv

(* A reference is written with the target in the place of the source.       *)
LEMMA MovedStep ==
  ASSUME MergeInv, NEW m \in Mergers, merge[m].at = "move", NEW r \in References,
         NEW row \in SUBSET Contacts, Moved(m, r, InPlace(m, row)),
         r \in Singles => row = holds[r]
  PROVE  MergeInv'
<1>1. PICK w, s, t, cs : w = merge[m] /\ s = w.source /\ t = w.target /\ cs = InPlace(m, row)
  OBVIOUS
<1>2. w \in MergeRow /\ s \in Contacts /\ t \in Contacts /\ s # t
  BY <1>1, AtWork
<1>3. cs \in SUBSET Contacts /\ s \notin cs
  BY <1>1, <1>2 DEF InPlace
<1>4. PICK x : x = [w EXCEPT !.left = @ \ {r}, !.list = Nobody, !.row = {}]
  OBVIOUS
<1>5. /\ holds' = [holds EXCEPT ![r] = cs] /\ late' = late \cup Lately(r, cs, holds[r])
      /\ Goes(m, x) /\ UNCHANGED <<person, folded, abreast, unfolded, merges, edits, stops>>
  BY <1>1, <1>4 DEF Moved
<1>6. /\ x \in MergeRow /\ x.at = "move" /\ x.source = s /\ x.target = t /\ x.left = w.left \ {r}
  BY <1>1, <1>2, <1>4 DEF MergeRow
<1>7. Calm
  BY <1>3, <1>5, WriteIsCalm DEF MergeInv, Lately
<1>8. r \in Singles => Cardinality(cs) <= 1
  <2> SUFFICES ASSUME r \in Singles PROVE \A a, b \in cs : a = b
    BY <1>3, Single
  <2>1. \A a, b \in row : a = b
    BY Single DEF MergeInv, Records
  <2> QED BY <1>1, <2>1 DEF InPlace
<1>9. Records'
  <2>1. \A q \in Singles : Cardinality(holds'[q]) <= 1
    BY <1>5, <1>8 DEF MergeInv, Records, References
  <2>2. holds' \in [References -> SUBSET Contacts]
    BY <1>3, <1>5 DEF MergeInv, Records
  <2>3. late' \subseteq References \X Contacts
    BY <1>3, <1>5 DEF MergeInv, Records, Lately
  <2> QED BY <1>5, <2>1, <2>2, <2>3 DEF MergeInv, Records
<1>10. holds'[r] = cs
  BY <1>5 DEF MergeInv, Records
<1>11. \A q \in References \ x.left : q \in w.left => Clean(x.source, q)'
  BY <1>3, <1>6, <1>10 DEF Clean
<1> QED BY <1>1, <1>5, <1>6, <1>7, <1>9, <1>11, MovesOn

LEMMA ReadListStep ==
  ASSUME MergeInv, NEW m \in Mergers, ReadList(m)
  PROVE  MergeInv'
<1>1. PICK w : w = merge[m]
  OBVIOUS
<1>2. PICK r \in w.left \cap Rosters :
        IF w.source \in holds[r] THEN Goes(m, [w EXCEPT !.list = r, !.row = holds[r]])
        ELSE Goes(m, [w EXCEPT !.left = @ \ {r}])
  BY <1>1 DEF ReadList
<1>3. merge[m].at = "move" /\ UNCHANGED <<person, folded, holds, late, abreast, unfolded, merges, edits, stops>>
  BY DEF ReadList, At
<1>4. w \in MergeRow /\ holds[r] \in SUBSET Contacts /\ r \in References
  BY <1>1, <1>2, <1>3, AtWork DEF MergeInv, Records, References
<1>5. Calm /\ Records'
  BY <1>3 DEF Calm, Merged, Clean, MergeInv, Records
<1>6. PICK x : Goes(m, x) /\ x = IF w.source \in holds[r] THEN [w EXCEPT !.list = r, !.row = holds[r]]
                                 ELSE [w EXCEPT !.left = @ \ {r}]
  BY <1>2
<1>7. /\ x \in MergeRow /\ x.at = w.at /\ x.source = w.source /\ x.target = w.target
      /\ x.left = IF w.source \in holds[r] THEN w.left ELSE w.left \ {r}
  BY <1>2, <1>4, <1>6 DEF MergeRow
<1>8. \A q \in References \ x.left : q \in w.left => Clean(x.source, q)'
  BY <1>3, <1>7 DEF Clean
<1> QED BY <1>1, <1>3, <1>5, <1>6, <1>7, <1>8, MovesOn

LEMMA ArchiveStep ==
  ASSUME MergeInv, NEW m \in Mergers, Archive(m)
  PROVE  MergeInv'
<1>1. merge[m].at = "move" /\ merge[m].left = {}
  BY DEF Archive, At
<1>2. PICK w, s, t : w = merge[m] /\ s = w.source /\ t = w.target
  OBVIOUS
<1>3. /\ w \in MergeRow /\ HandOK(w) /\ OwnOK(w) /\ s \in Contacts /\ t \in Contacts /\ s # t
      /\ Hands(w) = {s, t} /\ w.at = "move" /\ w.left = {}
  BY <1>1, <1>2, AtWork
<1>4. PICK p : p = [person[s] EXCEPT !.archived = TRUE, !.into = t]
  OBVIOUS
<1>5. person[s] \in PersonRow
  BY <1>3 DEF MergeInv, Records
<1>6. /\ Goes(m, NotMerging) /\ person' = [person EXCEPT ![s] = p]
      /\ UNCHANGED <<folded, holds, late, abreast, unfolded, merges, edits, stops>>
  <2>1. person' = [person EXCEPT ![s].archived = TRUE, ![s].into = t]
    BY <1>2 DEF Archive
  <2>2. person' = [person EXCEPT ![s] = p]
    BY <1>3, <1>4, <1>5, <2>1 DEF MergeInv, Records, PersonRow
  <2> QED BY <2>2 DEF Archive
<1>7. p \in PersonRow /\ p.into = t /\ p.archived /\ t # Nobody
  BY <1>3, <1>4, <1>5, MergeAssumption DEF MergeAssumption, PersonRow
<1>8. Records'
  BY <1>6, <1>7 DEF MergeInv, Records
<1>9. person'[s] = p /\ \A c \in Contacts \ {s} : person'[c] = person[c]
  BY <1>3, <1>6 DEF MergeInv, Records
<1>10. Calm
  BY <1>6, <1>7, <1>9 DEF Calm, Merged, Clean
<1>11. Merged(s) /\ (\A r \in References : Clean(s, r)) /\ (s \notin abreast => person[s].into = t)
  BY <1>2, <1>3 DEF HandOK, OwnOK
<1>12. abreast = {} => ~person[t].archived
  BY <1>2, <1>3 DEF HandOK
<1>13. HandsOK' /\ Alone'
  <2>1. HandOK(NotMerging)' /\ OwnOK(NotMerging)'
    BY AtRest, MergeAssumption DEF MergeAssumption, HandOK, OwnOK, NotMerging, Hands
  <2>2. \A c \in Contacts \ Hands(w) : Spared(c) /\ person'[c].archived = person[c].archived
    BY <1>3, <1>6, <1>9 DEF Spared
  <2> QED BY <1>2, <1>6, <1>10, <2>1, <2>2, AtRest, HandsGo DEF MergeInv
<1>14. ArchivedIsClean'
  <2> SUFFICES ASSUME NEW c \in Contacts, person'[c].archived
               PROVE  Merged(c)' /\ \A r \in References : Clean(c, r)'
    BY DEF ArchivedIsClean, Clean, Merged
  <2>1. Merged(c) /\ \A r \in References : Clean(c, r)
    BY <1>9, <1>11 DEF MergeInv, ArchivedIsClean
  <2> QED BY <1>10, <2>1 DEF Calm
<1>15. \A c \in Contacts \ abreast : person'[c].into = person[c].into
  BY <1>7, <1>9, <1>11
<1>16. FoldsOK'
  BY <1>6, <1>15 DEF MergeInv, FoldsOK
<1>17. FollowsOK'
  <2>1. \A c \in Contacts : ToFold(c) => ToFold(c)'
    BY <1>1, <1>6, ToFoldStays DEF MergeInv
  <2> QED BY <1>6, <1>15, <2>1 DEF MergeInv, FollowsOK, Merged
<1>18. SomebodyIsKept'
  <2>1. abreast = {} => ~person'[t].archived
    BY <1>3, <1>9, <1>12
  <2> QED BY <1>3, <1>6, <2>1 DEF SomebodyIsKept
<1> QED BY <1>8, <1>13, <1>14, <1>16, <1>17, <1>18 DEF MergeInv

LEMMA StopStep ==
  ASSUME MergeInv, NEW m \in Mergers, Stop(m)
  PROVE  MergeInv'
<1>1. PICK w : w = merge[m]
  OBVIOUS
<1>2. /\ Goes(m, NotMerging) /\ stops < MaxStops /\ stops' = stops + 1 /\ w.at # "idle"
      /\ unfolded' = IF w.at = "fold" /\ ~w.repeat THEN unfolded \cup {w.source} ELSE unfolded
      /\ UNCHANGED <<person, folded, holds, late, abreast, merges, edits>>
  BY <1>1 DEF Stop, At
<1>3. w.source \in Contacts
  BY <1>1, <1>2, AtWork
<1>4. Records'
  BY <1>2, <1>3, MergeAssumption DEF MergeAssumption, MergeInv, Records
<1>5. Calm
  BY <1>2 DEF Calm, Merged, Clean
<1>6. HandsOK' /\ Alone'
  <2>1. HandOK(NotMerging)' /\ OwnOK(NotMerging)'
    BY AtRest, MergeAssumption DEF MergeAssumption, HandOK, OwnOK, NotMerging, Hands
  <2>2. \A c \in Contacts : Spared(c) /\ person'[c].archived = person[c].archived
    BY <1>2 DEF Spared
  <2> QED BY <1>2, <1>5, <2>1, <2>2, AtRest, HandsGo DEF MergeInv
<1>7. ArchivedIsClean' /\ FoldsOK' /\ SomebodyIsKept'
  BY <1>2 DEF MergeInv, ArchivedIsClean, FoldsOK, SomebodyIsKept, Merged, Clean
<1>8. FollowsOK'
  <2>1. \A c \in Contacts \ unfolded' : ToFold(c) => ToFold(c)'
    BY <1>1, <1>2 DEF ToFold, Goes, MergeInv, HandsOK
  <2>2. unfolded \subseteq unfolded'
    BY <1>2
  <2> QED BY <1>2, <2>1, <2>2 DEF MergeInv, FollowsOK, Merged
<1> QED BY <1>4, <1>6, <1>7, <1>8 DEF MergeInv

LEMMA MergeStep ==
  ASSUME MergeInv, [MergeNext]_mergeVars
  PROVE  MergeInv'
<1>1. CASE UNCHANGED mergeVars
  BY <1>1 DEF mergeVars, MergeInv, Records, HandsOK, HandOK, OwnOK, Hands, Alone, ArchivedIsClean,
     FoldsOK, FollowsOK, SomebodyIsKept, Merged, Clean, ToFold
<1>2. ASSUME NEW m \in Mergers, MoveSingle(m) PROVE MergeInv'
  <2>1. PICK r \in merge[m].left \cap Singles : Moved(m, r, InPlace(m, holds[r])) /\ merge[m].at = "move"
    BY <1>2 DEF MoveSingle, At
  <2>2. holds[r] \in SUBSET Contacts /\ r \in References
    BY <2>1 DEF MergeInv, Records, References
  <2> QED BY <2>1, <2>2, MovedStep
<1>3. ASSUME NEW m \in Mergers, WriteList(m) PROVE MergeInv'
  <2>1. merge[m].at = "move" /\ merge[m].list # Nobody
        /\ Moved(m, merge[m].list, InPlace(m, merge[m].row))
    BY <1>3 DEF WriteList, At
  <2>2. PICK r, row : r = merge[m].list /\ row = merge[m].row
    OBVIOUS
  <2>3. r \in Rosters /\ row \in SUBSET Contacts
    BY <2>1, <2>2, AtWork DEF MergeRow
  <2>4. r \in References /\ r \notin Singles
    BY <2>3, MergeAssumption DEF MergeAssumption, References
  <2> QED BY <2>1, <2>2, <2>3, <2>4, MovedStep
<1> QED
  BY <1>1, <1>2, <1>3, EditStep, RestoreStep, BeginStep, MarkStep, FoldStep, ReadListStep,
     ArchiveStep, StopStep DEF MergeNext

(***************************************************************************)
(* For any number of contacts, records and merges: a merged contact is on  *)
(* no record but those written to it late, its inquiries are on the one it *)
(* was merged into exactly once, and somebody is kept, but for contacts    *)
(* two merges had in hand and merges stopped between mark and fold.        *)
(***************************************************************************)
THEOREM MergesFold == MergeSpec => []MergeHolds
<1>1. MergeInv => MergeHolds
  <2> SUFFICES ASSUME MergeInv PROVE MergeHolds
    OBVIOUS
  <2>1. MergeTypeOK
    BY DEF MergeInv, Records, HandsOK, MergeTypeOK, MergeRow, PersonRow
  <2>2. NothingLeftBehind
    BY DEF MergeInv, NothingLeftBehind, MergedAway, ArchivedIsClean, Clean
  <2>3. InquiriesFollowOnce
    <3> SUFFICES ASSUME NEW s \in Contacts, MergedAway(s), s \notin unfolded \cup abreast
                 PROVE  folded[s][person[s].into] = 1
      BY DEF InquiriesFollowOnce
    <3>1. Merged(s) /\ ~ToFold(s)
      BY DEF MergedAway, ToFold, InMerge
    <3> QED BY <3>1 DEF MergeInv, FollowsOK
  <2>4. FoldedAtMostOnce /\ MergedIntoOne
    BY DEF MergeInv, FoldsOK, FoldedAtMostOnce, MergedIntoOne
  <2> QED BY <2>1, <2>2, <2>3, <2>4 DEF MergeInv, MergeHolds
<1> QED BY MergeInitInv, MergeStep, <1>1, PTL DEF MergeSpec

-----------------------------------------------------------------------------
(***************************************************************************)
(* The pipeline, for any number of stages, deals, admins and writers.  A   *)
(* stage that holds a deal keeps its meaning unless it is overtaken: the   *)
(* plan about to be written counted the deals, and whoever has put one     *)
(* there since did so while a pipeline was being set.  A deal only one     *)
(* writer has in hand is, at each of the writer's steps, as far as that    *)
(* step has brought it.                                                    *)
(***************************************************************************)
PlanRow == [at : {"idle", "usage", "write"}, want : PipelineType, was : PipelineType]
WriterRow ==
  [at : {"idle", "create", "judge", "move", "event", "look", "space", "promote"}, deal : Deals \cup {NoOpp},
   to : Stages \cup {NoStage}, outcome : Outcomes \cup {"none"}, byForm : BOOLEAN]

PipeTypes ==
  /\ stages \in PipelineType /\ stage \in [Deals -> Stages \cup {NoStage}] /\ feeds \in Stages \cup {NoStage}
  /\ outcome \in [Deals -> Outcomes \cup {"none"}] /\ spaces \in [Deals -> Nat]
  /\ client \in [Deals -> {"none", "lead", "customer", "partner"}]
  /\ admin \in [Admins -> PlanRow] /\ writer \in [Writers -> WriterRow]
  /\ overtaken \subseteq Stages /\ together \subseteq Deals /\ requests \in 0..MaxChanges

On(d, steps) == \E w \in Writers : writer[w].deal = d /\ writer[w].at \in steps
IsClient(d) == client[d] \in {"customer", "partner"}
Settled(d) == stage[d] \in Stages \ overtaken

(* A plan about to be written touches no stage in use.                      *)
PlanOK(y) ==
  y.at = "write" =>
    /\ \A d \in Deals : stage[d] \in Removed(y) \cup Reclassified(y) => stage[d] \in overtaken
    /\ feeds \in Removed(y) \cup NewlyClosed(y) => feeds \in overtaken

(* What a writer has brought about so far.                                  *)
TaskOK(x) ==
  /\ x.at = "idle" => x.deal = NoOpp
  /\ x.at # "idle" => x.deal \in Deals /\ x.to \in Stages /\ x.outcome \in Outcomes
  /\ x.byForm => x.outcome = "open"
  /\ x.at \notin {"idle", "create"} => stage[x.deal] # NoStage
  /\ x.deal \in Deals \ together =>
       /\ x.at = "create" => stage[x.deal] = NoStage
       /\ x.at \in {"judge", "event"} => stage[x.deal] = x.to /\ (x.to \in overtaken \/ stages[x.to] = x.outcome)
       /\ x.at = "space" => spaces[x.deal] = 0

DealOK(d) ==
  /\ Settled(d) => stages[stage[d]] # "none"
  /\ stage[d] = NoStage => outcome[d] = "none"
  /\ outcome[d] = "won" => IsClient(d) \/ On(d, {"look", "space", "promote"})
  /\ d \notin together =>
       /\ Settled(d) => outcome[d] \in {stages[stage[d]], "none"} \/ On(d, {"event"})
       /\ Settled(d) /\ outcome[d] = "none" /\ stages[stage[d]] = "won" =>
            IsClient(d) \/ On(d, {"judge", "promote", "event"})
       /\ spaces[d] <= 1
       /\ outcome[d] = "won" => spaces[d] = 1 \/ On(d, {"look", "space"})

PlansOK == \A a \in Admins : PlanOK(admin[a])
TasksOK == \A w \in Writers : TaskOK(writer[w])
EachAlone ==
  \A v, w \in Writers : v # w /\ writer[v].deal = writer[w].deal /\ writer[w].deal \in Deals =>
    writer[w].deal \in together
DealsOK == \A d \in Deals : DealOK(d)

PipeInv == PipeTypes /\ PlansOK /\ TasksOK /\ EachAlone /\ DealsOK /\ FormsKeepTheirStage

(* What any step leaves: the stages in use mean what they meant.            *)
StagesKept ==
  /\ overtaken \subseteq overtaken' /\ together \subseteq together'
  /\ \A d \in Deals : stage[d] # NoStage => stage'[d] # NoStage
  /\ \A d \in Deals : Settled(d) /\ stage[d] \notin overtaken' /\ stages[stage[d]] # "none" =>
       stages'[stage[d]] = stages[stage[d]]
DealKept(d) ==
  stage'[d] = stage[d] /\ outcome'[d] = outcome[d] /\ spaces'[d] = spaces[d] /\ client'[d] = client[d]

-----------------------------------------------------------------------------
LEMMA NoTaskIs ==
  NoTask \in WriterRow /\ NoTask.at = "idle" /\ NoTask.deal = NoOpp /\ NoTask.byForm = FALSE /\ NoOpp \notin Deals
BY PipelineAssumption DEF PipelineAssumption, NoTask, WriterRow

LEMMA NoPlanIs == NoPlan \in PlanRow /\ NoPlan.at = "idle"
BY DEF NoPlan, PlanRow, PipelineType

LEMMA TaskKept ==
  ASSUME StagesKept, NEW x \in WriterRow, TaskOK(x),
         x.deal \in Deals \ together' => DealKept(x.deal)
  PROVE  TaskOK(x)'
<1>1. x.at \notin {"idle", "create"} => stage'[x.deal] # NoStage
  BY DEF TaskOK, StagesKept
<1>2. ASSUME x.deal \in Deals \ together'
      PROVE  /\ x.at = "create" => stage'[x.deal] = NoStage
             /\ x.at \in {"judge", "event"} =>
                  stage'[x.deal] = x.to /\ (x.to \in overtaken' \/ stages'[x.to] = x.outcome)
             /\ x.at = "space" => spaces'[x.deal] = 0
  <2>1. x.deal \in Deals \ together /\ DealKept(x.deal)
    BY <1>2 DEF StagesKept
  <2>2. ASSUME x.at \in {"judge", "event"}, x.to \notin overtaken' PROVE stages'[x.to] = x.outcome
    <3>1. stage[x.deal] = x.to /\ stages[x.to] = x.outcome /\ x.to \in Stages /\ x.outcome \in Outcomes
      BY <2>1, <2>2 DEF TaskOK, StagesKept
    <3>2. stages[x.to] # "none" /\ Settled(x.deal)
      BY <2>2, <3>1 DEF Outcomes, StagesKept, Settled
    <3> QED BY <2>1, <2>2, <3>1, <3>2 DEF StagesKept
  <2> QED BY <2>1, <2>2 DEF TaskOK, DealKept
<1> QED BY <1>1, <1>2 DEF TaskOK

LEMMA DealStays ==
  ASSUME StagesKept, NEW d \in Deals, DealOK(d), DealKept(d),
         \A steps \in SUBSET {"judge", "event", "look", "space", "promote"} : On(d, steps) => On(d, steps)'
  PROVE  DealOK(d)'
<1>1. Settled(d)' => Settled(d) /\ stages'[stage'[d]] = stages[stage[d]] /\ stages[stage[d]] # "none"
  BY DEF Settled, StagesKept, DealOK, DealKept
<1>2. /\ On(d, {"look", "space", "promote"}) => On(d, {"look", "space", "promote"})'
      /\ On(d, {"event"}) => On(d, {"event"})'
      /\ On(d, {"judge", "promote", "event"}) => On(d, {"judge", "promote", "event"})'
      /\ On(d, {"look", "space"}) => On(d, {"look", "space"})'
  OBVIOUS
<1>3. IsClient(d)' <=> IsClient(d)
  BY DEF IsClient, DealKept
<1>4. d \notin together' => d \notin together
  BY DEF StagesKept
<1> QED BY <1>1, <1>2, <1>3, <1>4 DEF DealOK, DealKept

(* A writer goes on to x, on the same deal or on none.                      *)
LEMMA WriterGoesOn ==
  ASSUME PipeInv, StagesKept, NEW w \in Writers, NEW x \in WriterRow, WriterGoes(w, x),
         NEW d \in Deals, d = writer[w].deal, x.deal \in {d, NoOpp},
         \A e \in Deals \ {d} : DealKept(e),
         TaskOK(x)'
  PROVE  /\ writer' \in [Writers -> WriterRow] /\ TasksOK' /\ EachAlone'
         /\ \A e \in Deals \ {d} : DealOK(e)'
         /\ \A steps : writer[w].at \notin steps => (On(d, steps) => On(d, steps)')
         /\ \A steps : x.deal = d /\ x.at \in steps => On(d, steps)'
<1>1. writer \in [Writers -> WriterRow] /\ writer' = [writer EXCEPT ![w] = x]
  BY DEF PipeInv, PipeTypes, WriterGoes
<1>2. writer'[w] = x /\ \A v \in Writers \ {w} : writer'[v] = writer[v]
  BY <1>1
<1>3. ASSUME NEW v \in Writers PROVE TaskOK(writer[v])'
  <2>1. PICK y : y = writer'[v]
    OBVIOUS
  <2>2. CASE v = w
    BY <1>2, <2>2 DEF TaskOK
  <2>3. CASE v # w
    <3>1. y = writer[v] /\ y \in WriterRow /\ TaskOK(y)
      BY <1>1, <1>2, <2>1, <2>3 DEF PipeInv, TasksOK
    <3>2. y.deal \in Deals \ together' => y.deal # d
      BY <2>3, <3>1 DEF PipeInv, EachAlone, StagesKept
    <3>3. TaskOK(y)'
      BY <3>1, <3>2, TaskKept
    <3> QED BY <2>1, <3>3 DEF TaskOK
  <2> QED BY <2>2, <2>3
<1>4. EachAlone'
  BY <1>2, NoTaskIs DEF PipeInv, EachAlone, StagesKept
<1>5. ASSUME NEW e \in Deals \ {d} PROVE DealOK(e)'
  <2>1. \A steps : On(e, steps) => On(e, steps)'
    BY <1>2 DEF On
  <2>2. DealOK(e) /\ DealKept(e)
    BY DEF PipeInv, DealsOK
  <2> QED BY <2>1, <2>2, DealStays
<1>6. \A steps : writer[w].at \notin steps => (On(d, steps) => On(d, steps)')
  BY <1>2 DEF On
<1>7. \A steps : x.deal = d /\ x.at \in steps => On(d, steps)'
  BY <1>2 DEF On
<1> QED BY <1>1, <1>3, <1>4, <1>5, <1>6, <1>7 DEF TasksOK

(* A deal is put in a stage.                                                *)
LEMMA PutInIs ==
  ASSUME PipeInv, NEW d \in Deals, NEW s \in Stages, NEW sought \in Outcomes, PutIn(d, s, sought),
         UNCHANGED <<stages, feeds, admin, together>>
  PROVE  /\ stage' = [stage EXCEPT ![d] = s] /\ stage' \in [Deals -> Stages \cup {NoStage}]
         /\ stage'[d] = s /\ overtaken' \subseteq Stages
         /\ s \in overtaken' \/ stages'[s] = sought
         /\ StagesKept /\ PlansOK' /\ FormsKeepTheirStage'
<1>1. /\ stage' = [stage EXCEPT ![d] = s] /\ overtaken \subseteq overtaken' /\ overtaken' \subseteq Stages
      /\ s \in overtaken' \/ stages'[s] = sought
      /\ (\E a \in Admins : admin[a].at # "idle") => s \in overtaken'
  BY DEF PutIn, PipeInv, PipeTypes
<1>2. stage \in [Deals -> Stages \cup {NoStage}] /\ s # NoStage
  BY PipelineAssumption DEF PipelineAssumption, PipeInv, PipeTypes
<1>3. stage'[d] = s /\ \A e \in Deals \ {d} : stage'[e] = stage[e]
  BY <1>1, <1>2
<1>4. StagesKept
  BY <1>1, <1>2, <1>3 DEF StagesKept
<1>5. PlansOK'
  <2> SUFFICES ASSUME NEW a \in Admins, admin[a].at = "write" PROVE PlanOK(admin[a])'
    BY DEF PlansOK, PlanOK
  <2>1. s \in overtaken' /\ PlanOK(admin[a])
    BY <1>1 DEF PipeInv, PlansOK
  <2>2. \A e \in Deals : stage'[e] \in Removed(admin[a]) \cup Reclassified(admin[a]) => stage'[e] \in overtaken'
    BY <1>1, <1>3, <2>1 DEF PlanOK
  <2> QED BY <1>1, <2>1, <2>2 DEF PlanOK, Removed, Reclassified, NewlyClosed
<1>6. FormsKeepTheirStage'
  BY <1>1 DEF PipeInv, FormsKeepTheirStage
<1> QED BY <1>1, <1>2, <1>3, <1>4, <1>5, <1>6

(* The steps that leave the stages and what is in them alone.               *)
LEMMA NoneMoved ==
  ASSUME PipeInv, UNCHANGED <<stages, stage, feeds, admin, together, overtaken>>
  PROVE  StagesKept /\ PlansOK' /\ FormsKeepTheirStage'
BY DEF StagesKept, PipeInv, PlansOK, PlanOK, FormsKeepTheirStage, Removed, Reclassified, NewlyClosed

-----------------------------------------------------------------------------
LEMMA PipeInit == PipelineInit => PipeInv
<1> SUFFICES ASSUME PipelineInit PROVE PipeInv
  OBVIOUS
<1>1. PipeTypes
  <2>1. stages \in PipelineType /\ stage \in [Deals -> Stages \cup {NoStage}] /\ feeds \in Stages \cup {NoStage}
    BY DEF PipelineInit, KeysOf
  <2>2. /\ outcome \in [Deals -> Outcomes \cup {"none"}] /\ spaces \in [Deals -> Nat]
        /\ client \in [Deals -> {"none", "lead", "customer", "partner"}]
    BY DEF PipelineInit
  <2>3. admin \in [Admins -> PlanRow] /\ writer \in [Writers -> WriterRow]
    BY NoPlanIs, NoTaskIs DEF PipelineInit
  <2>4. overtaken \subseteq Stages /\ together \subseteq Deals /\ requests \in 0..MaxChanges
    BY PipelineAssumption DEF PipelineAssumption, PipelineInit
  <2> QED BY <2>1, <2>2, <2>3, <2>4 DEF PipeTypes
<1>2. PlansOK
  BY NoPlanIs DEF PipelineInit, PlansOK, PlanOK
<1>3. TasksOK /\ EachAlone
  <2>1. \A w \in Writers : writer[w] = NoTask
    BY DEF PipelineInit
  <2>2. TaskOK(NoTask)
    BY NoTaskIs DEF TaskOK
  <2>3. TasksOK
    BY <2>1, <2>2 DEF TasksOK, TaskOK
  <2>4. EachAlone
    BY <2>1, NoTaskIs DEF EachAlone
  <2> QED BY <2>3, <2>4
<1>4. DealsOK
  <2>1. \A d \in Deals : outcome[d] = "none" /\ spaces[d] = 0
    BY DEF PipelineInit
  <2>2. \A d \in Deals : Settled(d) => stages[stage[d]] = "open"
    BY PipelineAssumption DEF PipelineAssumption, PipelineInit, Settled
  <2> QED BY <2>1, <2>2 DEF DealsOK, DealOK
<1>5. FormsKeepTheirStage
  BY DEF PipelineInit, FormsKeepTheirStage
<1> QED BY <1>1, <1>2, <1>3, <1>4, <1>5 DEF PipeInv

(* What a writer at work has in hand.                                       *)
LEMMA WorksOn ==
  ASSUME PipeInv, NEW w \in Writers, writer[w].at # "idle"
  PROVE  /\ writer[w] \in WriterRow /\ TaskOK(writer[w])
         /\ writer[w].deal \in Deals /\ writer[w].to \in Stages /\ writer[w].outcome \in Outcomes
         /\ DealOK(writer[w].deal)
BY DEF PipeInv, PipeTypes, TasksOK, TaskOK, DealsOK

LEMMA CreateDeal ==
  ASSUME PipeInv, NEW w \in Writers, Create(w)
  PROVE  PipeInv'
<1>1. writer[w].at = "create" /\ UNCHANGED <<outcome, spaces, client, stages, feeds, admin, together, requests>>
  BY DEF Create, Bystanders
<1>2. PICK y, d, s : y = writer[w] /\ d = y.deal /\ s = y.to
  OBVIOUS
<1>3. /\ y \in WriterRow /\ TaskOK(y) /\ d \in Deals /\ s \in Stages /\ y.outcome \in Outcomes /\ DealOK(d)
      /\ y.at = "create"
  BY <1>1, <1>2, WorksOn
<1>4. PICK x : x = IF y.byForm THEN NoTask ELSE [y EXCEPT !.at = "judge"]
  OBVIOUS
<1>5. PutIn(d, s, y.outcome) /\ WriterGoes(w, x)
  BY <1>2, <1>4 DEF Create
<1>6. /\ stage' = [stage EXCEPT ![d] = s] /\ stage' \in [Deals -> Stages \cup {NoStage}]
      /\ stage'[d] = s /\ overtaken' \subseteq Stages
      /\ s \in overtaken' \/ stages'[s] = y.outcome
      /\ StagesKept /\ PlansOK' /\ FormsKeepTheirStage'
  BY <1>1, <1>3, <1>5, PutInIs
<1>7. /\ x \in WriterRow
      /\ ~y.byForm => /\ x.at = "judge" /\ x.deal = d /\ x.to = s /\ x.outcome = y.outcome /\ ~x.byForm
      /\ y.byForm => x = NoTask
  BY <1>2, <1>3, <1>4, NoTaskIs DEF WriterRow
<1>8. s # NoStage
  BY <1>3, PipelineAssumption DEF PipelineAssumption
<1>9. TaskOK(x)'
  BY <1>1, <1>3, <1>6, <1>7, <1>8, NoTaskIs DEF TaskOK
<1>10. \A e \in Deals \ {d} : DealKept(e)
  BY <1>1, <1>6 DEF DealKept, PipeInv, PipeTypes
<1>11. /\ writer' \in [Writers -> WriterRow] /\ TasksOK' /\ EachAlone'
       /\ \A e \in Deals \ {d} : DealOK(e)'
       /\ On(d, {"look", "space", "promote"}) => On(d, {"look", "space", "promote"})'
       /\ On(d, {"look", "space"}) => On(d, {"look", "space"})'
       /\ ~y.byForm => On(d, {"judge", "promote", "event"})'
  <2>1. x.deal \in {d, NoOpp} /\ d = writer[w].deal /\ writer[w].at = "create"
    BY <1>1, <1>2, <1>7, NoTaskIs
  <2>2. /\ writer' \in [Writers -> WriterRow] /\ TasksOK' /\ EachAlone'
        /\ \A e \in Deals \ {d} : DealOK(e)'
        /\ \A steps : "create" \notin steps => (On(d, steps) => On(d, steps)')
        /\ \A steps : x.deal = d /\ x.at \in steps => On(d, steps)'
    BY <1>3, <1>5, <1>6, <1>7, <1>9, <1>10, <2>1, WriterGoesOn
  <2> QED BY <1>7, <2>2
<1>12. DealOK(d)'
  <2>1. Settled(d)' => stages'[stage'[d]] = y.outcome /\ y.outcome # "none"
    BY <1>3, <1>6 DEF Settled, Outcomes
  <2>2. outcome'[d] = "won" => IsClient(d)' \/ On(d, {"look", "space", "promote"})'
    BY <1>1, <1>3, <1>11 DEF DealOK, IsClient
  <2>3. ASSUME d \notin together'
        PROVE  /\ outcome'[d] = "none" /\ spaces'[d] <= 1
               /\ Settled(d)' /\ stages'[stage'[d]] = "won" => On(d, {"judge", "promote", "event"})'
    <3>1. outcome[d] = "none" /\ spaces[d] <= 1
      BY <1>1, <1>2, <1>3, <2>3 DEF TaskOK, DealOK
    <3>2. y.outcome = "won" => ~y.byForm
      BY <1>3 DEF TaskOK
    <3> QED BY <1>1, <1>11, <2>1, <3>1, <3>2
  <2> QED BY <1>6, <1>8, <2>1, <2>2, <2>3 DEF DealOK
<1>13. PipeTypes'
  BY <1>1, <1>6, <1>11 DEF PipeInv, PipeTypes
<1> QED BY <1>6, <1>11, <1>12, <1>13 DEF PipeInv, DealsOK

LEMMA MoveDeal ==
  ASSUME PipeInv, NEW w \in Writers, Move(w)
  PROVE  PipeInv'
<1>1. writer[w].at = "move" /\ UNCHANGED <<outcome, spaces, client, stages, feeds, admin, together, requests>>
  BY DEF Move, Bystanders
<1>2. PICK y, d, s : y = writer[w] /\ d = y.deal /\ s = y.to
  OBVIOUS
<1>3. /\ y \in WriterRow /\ TaskOK(y) /\ d \in Deals /\ s \in Stages /\ y.outcome \in Outcomes /\ DealOK(d)
      /\ y.at = "move"
  BY <1>1, <1>2, WorksOn
<1>4. PICK x : x = [y EXCEPT !.at = "event"]
  OBVIOUS
<1>5. PutIn(d, s, y.outcome) /\ WriterGoes(w, x)
  BY <1>2, <1>4 DEF Move
<1>6. /\ stage' = [stage EXCEPT ![d] = s] /\ stage' \in [Deals -> Stages \cup {NoStage}]
      /\ stage'[d] = s /\ overtaken' \subseteq Stages
      /\ s \in overtaken' \/ stages'[s] = y.outcome
      /\ StagesKept /\ PlansOK' /\ FormsKeepTheirStage'
  BY <1>1, <1>3, <1>5, PutInIs
<1>7. /\ x \in WriterRow /\ x.at = "event" /\ x.deal = d /\ x.to = s /\ x.outcome = y.outcome
      /\ x.byForm = y.byForm
  BY <1>2, <1>3, <1>4 DEF WriterRow
<1>8. s # NoStage
  BY <1>3, PipelineAssumption DEF PipelineAssumption
<1>9. TaskOK(x)'
  BY <1>3, <1>6, <1>7, <1>8 DEF TaskOK
<1>10. \A e \in Deals \ {d} : DealKept(e)
  BY <1>1, <1>6 DEF DealKept, PipeInv, PipeTypes
<1>11. /\ writer' \in [Writers -> WriterRow] /\ TasksOK' /\ EachAlone'
       /\ \A e \in Deals \ {d} : DealOK(e)'
       /\ On(d, {"look", "space", "promote"}) => On(d, {"look", "space", "promote"})'
       /\ On(d, {"look", "space"}) => On(d, {"look", "space"})'
       /\ On(d, {"judge", "promote", "event"})' /\ On(d, {"event"})'
  BY <1>2, <1>3, <1>5, <1>6, <1>7, <1>9, <1>10, WriterGoesOn
<1>12. DealOK(d)'
  <2>1. Settled(d)' => stages'[stage'[d]] # "none"
    BY <1>3, <1>6 DEF Settled, Outcomes
  <2>2. outcome'[d] = "won" => IsClient(d)' \/ On(d, {"look", "space", "promote"})'
    BY <1>1, <1>3, <1>11 DEF DealOK, IsClient
  <2>3. d \notin together' => spaces'[d] <= 1 /\ (outcome'[d] = "won" => spaces'[d] = 1 \/ On(d, {"look", "space"})')
    BY <1>1, <1>3, <1>11 DEF DealOK
  <2> QED BY <1>6, <1>8, <1>11, <2>1, <2>2, <2>3 DEF DealOK
<1>13. PipeTypes'
  BY <1>1, <1>6, <1>11 DEF PipeInv, PipeTypes
<1> QED BY <1>6, <1>11, <1>12, <1>13 DEF PipeInv, DealsOK

(* The steps of a writer that move no deal.                                 *)
LEMMA StillStep ==
  ASSUME PipeInv, NEW w \in Writers, NEW x \in WriterRow, WriterGoes(w, x), writer[w].at # "idle",
         UNCHANGED <<stage, overtaken, stages, feeds, admin, together, requests>>,
         outcome' \in [Deals -> Outcomes \cup {"none"}], spaces' \in [Deals -> Nat],
         client' \in [Deals -> {"none", "lead", "customer", "partner"}],
         NEW d \in Deals, d = writer[w].deal, x.deal \in {d, NoOpp}, TaskOK(x)',
         \A e \in Deals \ {d} : DealKept(e),
         (\A steps : writer[w].at \notin steps => (On(d, steps) => On(d, steps)'))
         /\ (\A steps : x.deal = d /\ x.at \in steps => On(d, steps)')
         => DealOK(d)'
  PROVE  PipeInv'
<1>1. StagesKept /\ PlansOK' /\ FormsKeepTheirStage'
  BY NoneMoved
<1>2. /\ writer' \in [Writers -> WriterRow] /\ TasksOK' /\ EachAlone'
      /\ \A e \in Deals \ {d} : DealOK(e)'
      /\ DealOK(d)'
  BY <1>1, WorksOn, WriterGoesOn
<1>3. DealsOK'
  <2>1. ASSUME NEW e \in Deals PROVE DealOK(e)'
    BY <1>2
  <2> QED BY <2>1 DEF DealsOK
<1> QED BY <1>1, <1>2, <1>3 DEF PipeInv, PipeTypes

LEMMA JudgeDeal ==
  ASSUME PipeInv, NEW w \in Writers, Judge(w)
  PROVE  PipeInv'
<1>1. writer[w].at = "judge" /\ UNCHANGED <<stage, outcome, spaces, client, overtaken, stages, feeds, admin, together, requests>>
  BY DEF Judge, Bystanders
<1>2. PICK y, d : y = writer[w] /\ d = y.deal
  OBVIOUS
<1>3. y \in WriterRow /\ TaskOK(y) /\ d \in Deals /\ DealOK(d) /\ y.at = "judge" /\ y.to \in Stages
  BY <1>1, <1>2, WorksOn
<1>4. PICK x : x = IF Class(y.to) = "won" THEN [y EXCEPT !.at = "promote"] ELSE NoTask
  OBVIOUS
<1>5. WriterGoes(w, x)
  BY <1>2, <1>4 DEF Judge
<1>6. /\ x \in WriterRow /\ x.deal \in {d, NoOpp}
      /\ Class(y.to) = "won" => /\ x.at = "promote" /\ x.deal = d /\ x.to = y.to
                                /\ x.outcome = y.outcome /\ x.byForm = y.byForm
      /\ Class(y.to) # "won" => x = NoTask
  BY <1>2, <1>3, <1>4, NoTaskIs DEF WriterRow
<1>7. TaskOK(x)'
  BY <1>1, <1>2, <1>3, <1>6, NoTaskIs DEF TaskOK
<1>8. \A e \in Deals \ {d} : DealKept(e)
  BY <1>1 DEF DealKept
<1>9. ASSUME \A steps : writer[w].at \notin steps => (On(d, steps) => On(d, steps)'),
             \A steps : x.deal = d /\ x.at \in steps => On(d, steps)'
      PROVE  DealOK(d)'
  <2>1. /\ On(d, {"look", "space", "promote"}) => On(d, {"look", "space", "promote"})'
        /\ On(d, {"event"}) => On(d, {"event"})'
        /\ On(d, {"look", "space"}) => On(d, {"look", "space"})'
        /\ Class(y.to) = "won" => On(d, {"judge", "promote", "event"})'
    BY <1>1, <1>6, <1>9
  <2>2. d \notin together /\ Settled(d) /\ stages[stage[d]] = "won" => Class(y.to) = "won"
    BY <1>2, <1>3 DEF TaskOK, Class
  <2>3. (Settled(d)' <=> Settled(d)) /\ (IsClient(d)' <=> IsClient(d))
    BY <1>1 DEF Settled, IsClient
  <2> QED BY <1>1, <1>3, <2>1, <2>2, <2>3 DEF DealOK
<1>10. PipeTypes
  BY DEF PipeInv
<1> QED BY <1>1, <1>2, <1>3, <1>5, <1>6, <1>7, <1>8, <1>9, <1>10, StillStep DEF PipeTypes

LEMMA EventOfDeal ==
  ASSUME PipeInv, NEW w \in Writers, Event(w)
  PROVE  PipeInv'
<1>1. writer[w].at = "event" /\ UNCHANGED <<stage, spaces, client, overtaken, stages, feeds, admin, together, requests>>
  BY DEF Event, Bystanders
<1>2. PICK y, d, o : y = writer[w] /\ d = y.deal /\ o = y.outcome
  OBVIOUS
<1>3. /\ y \in WriterRow /\ TaskOK(y) /\ d \in Deals /\ DealOK(d) /\ y.at = "event"
      /\ y.to \in Stages /\ o \in Outcomes
  BY <1>1, <1>2, WorksOn
<1>4. PICK x : x = IF o = "won" THEN [y EXCEPT !.at = "look"] ELSE NoTask
  OBVIOUS
<1>5. WriterGoes(w, x) /\ outcome' = [outcome EXCEPT ![d] = o]
  BY <1>2, <1>4 DEF Event
<1>6. /\ x \in WriterRow /\ x.deal \in {d, NoOpp}
      /\ o = "won" => x.at = "look" /\ x.deal = d /\ x.to = y.to /\ x.outcome = o /\ x.byForm = y.byForm
      /\ o # "won" => x = NoTask
  BY <1>2, <1>3, <1>4, NoTaskIs DEF WriterRow
<1>7. TaskOK(x)'
  BY <1>1, <1>2, <1>3, <1>6, NoTaskIs DEF TaskOK
<1>8. PipeTypes
  BY DEF PipeInv
<1>9. /\ outcome'[d] = o /\ outcome' \in [Deals -> Outcomes \cup {"none"}]
      /\ \A e \in Deals \ {d} : DealKept(e)
  BY <1>1, <1>3, <1>5, <1>8 DEF DealKept, PipeTypes
<1>10. ASSUME \A steps : writer[w].at \notin steps => (On(d, steps) => On(d, steps)'),
              \A steps : x.deal = d /\ x.at \in steps => On(d, steps)'
       PROVE  DealOK(d)'
  <2>1. o = "won" => On(d, {"look", "space", "promote"})' /\ On(d, {"look", "space"})'
    BY <1>6, <1>10
  <2>2. d \notin together /\ Settled(d) => stages[stage[d]] = o
    BY <1>2, <1>3 DEF TaskOK, Settled
  <2>3. stage[d] # NoStage /\ o # "none"
    BY <1>2, <1>3 DEF TaskOK, Outcomes
  <2>4. (Settled(d)' <=> Settled(d)) /\ (IsClient(d)' <=> IsClient(d))
    BY <1>1 DEF Settled, IsClient
  <2> QED BY <1>1, <1>3, <1>9, <2>1, <2>2, <2>3, <2>4 DEF DealOK
<1> QED BY <1>1, <1>2, <1>3, <1>5, <1>6, <1>7, <1>8, <1>9, <1>10, StillStep DEF PipeTypes

LEMMA LookStep ==
  ASSUME PipeInv, NEW w \in Writers, Look(w)
  PROVE  PipeInv'
<1>1. writer[w].at = "look" /\ UNCHANGED <<stage, outcome, spaces, client, overtaken, stages, feeds, admin, together, requests>>
  BY DEF Look, Bystanders
<1>2. PICK y, d : y = writer[w] /\ d = y.deal
  OBVIOUS
<1>3. y \in WriterRow /\ TaskOK(y) /\ d \in Deals /\ DealOK(d) /\ y.at = "look"
  BY <1>1, <1>2, WorksOn
<1>4. PICK x : x = [y EXCEPT !.at = IF Spaceless(d) THEN "space" ELSE "promote"]
  OBVIOUS
<1>5. WriterGoes(w, x)
  BY <1>2, <1>4 DEF Look
<1>6. /\ x \in WriterRow /\ x.deal = d /\ x.at = (IF spaces[d] = 0 THEN "space" ELSE "promote")
      /\ x.to = y.to /\ x.outcome = y.outcome /\ x.byForm = y.byForm
  BY <1>2, <1>3, <1>4 DEF WriterRow, Spaceless
<1>7. TaskOK(x)'
  BY <1>1, <1>2, <1>3, <1>6 DEF TaskOK
<1>8. PipeTypes
  BY DEF PipeInv
<1>9. \A e \in Deals \ {d} : DealKept(e)
  BY <1>1 DEF DealKept
<1>10. ASSUME \A steps : writer[w].at \notin steps => (On(d, steps) => On(d, steps)'),
              \A steps : x.deal = d /\ x.at \in steps => On(d, steps)'
       PROVE  DealOK(d)'
  <2>1. /\ On(d, {"look", "space", "promote"})'
        /\ On(d, {"event"}) => On(d, {"event"})'
        /\ On(d, {"judge", "promote", "event"}) => On(d, {"judge", "promote", "event"})'
        /\ spaces[d] = 0 => On(d, {"look", "space"})'
    BY <1>1, <1>6, <1>10
  <2>2. spaces[d] \in Nat
    BY <1>3, <1>8 DEF PipeTypes
  <2>3. d \notin together /\ spaces[d] # 0 => spaces[d] = 1
    BY <1>3, <2>2 DEF DealOK
  <2>4. (Settled(d)' <=> Settled(d)) /\ (IsClient(d)' <=> IsClient(d))
    BY <1>1 DEF Settled, IsClient
  <2> QED BY <1>1, <1>3, <2>1, <2>3, <2>4 DEF DealOK
<1> QED BY <1>1, <1>2, <1>3, <1>5, <1>6, <1>7, <1>8, <1>9, <1>10, StillStep DEF PipeTypes

LEMMA OpenSpace ==
  ASSUME PipeInv, NEW w \in Writers, Open(w)
  PROVE  PipeInv'
<1>1. writer[w].at = "space" /\ UNCHANGED <<stage, outcome, client, overtaken, stages, feeds, admin, together, requests>>
  BY DEF Open, Bystanders
<1>2. PICK y, d : y = writer[w] /\ d = y.deal
  OBVIOUS
<1>3. y \in WriterRow /\ TaskOK(y) /\ d \in Deals /\ DealOK(d) /\ y.at = "space"
  BY <1>1, <1>2, WorksOn
<1>4. PICK x : x = [y EXCEPT !.at = "promote"]
  OBVIOUS
<1>5. WriterGoes(w, x) /\ spaces' = [spaces EXCEPT ![d] = @ + 1]
  BY <1>2, <1>4 DEF Open
<1>6. /\ x \in WriterRow /\ x.deal = d /\ x.at = "promote"
      /\ x.to = y.to /\ x.outcome = y.outcome /\ x.byForm = y.byForm
  BY <1>2, <1>3, <1>4 DEF WriterRow
<1>7. TaskOK(x)'
  BY <1>1, <1>2, <1>3, <1>6 DEF TaskOK
<1>8. PipeTypes
  BY DEF PipeInv
<1>9. /\ spaces'[d] = spaces[d] + 1 /\ spaces' \in [Deals -> Nat]
      /\ \A e \in Deals \ {d} : DealKept(e)
  BY <1>1, <1>3, <1>5, <1>8 DEF DealKept, PipeTypes
<1>10. ASSUME \A steps : writer[w].at \notin steps => (On(d, steps) => On(d, steps)'),
              \A steps : x.deal = d /\ x.at \in steps => On(d, steps)'
       PROVE  DealOK(d)'
  <2>1. /\ On(d, {"look", "space", "promote"})'
        /\ On(d, {"event"}) => On(d, {"event"})'
        /\ On(d, {"judge", "promote", "event"})'
    BY <1>1, <1>6, <1>10
  <2>2. d \notin together => spaces'[d] = 1
    BY <1>2, <1>3, <1>9 DEF TaskOK
  <2>3. (Settled(d)' <=> Settled(d)) /\ (IsClient(d)' <=> IsClient(d))
    BY <1>1 DEF Settled, IsClient
  <2> QED BY <1>1, <1>3, <2>1, <2>2, <2>3 DEF DealOK
<1> QED BY <1>1, <1>2, <1>3, <1>5, <1>6, <1>7, <1>8, <1>9, <1>10, StillStep DEF PipeTypes

LEMMA PromoteStep ==
  ASSUME PipeInv, NEW w \in Writers, Promote(w)
  PROVE  PipeInv'
<1>1. writer[w].at = "promote" /\ UNCHANGED <<stage, outcome, spaces, overtaken, stages, feeds, admin, together, requests>>
  BY DEF Promote, Bystanders
<1>2. PICK y, d : y = writer[w] /\ d = y.deal
  OBVIOUS
<1>3. y \in WriterRow /\ TaskOK(y) /\ d \in Deals /\ DealOK(d) /\ y.at = "promote"
  BY <1>1, <1>2, WorksOn
<1>4. PICK p : p = IF client[d] \in {"none", "lead"} THEN "customer" ELSE client[d]
  OBVIOUS
<1>5. WriterGoes(w, NoTask) /\ client' = [client EXCEPT ![d] = p]
  BY <1>2, <1>4 DEF Promote
<1>6. PipeTypes
  BY DEF PipeInv
<1>7. p \in {"customer", "partner"}
  BY <1>3, <1>4, <1>6 DEF PipeTypes
<1>8. /\ client'[d] = p /\ client' \in [Deals -> {"none", "lead", "customer", "partner"}]
      /\ \A e \in Deals \ {d} : DealKept(e)
  BY <1>1, <1>3, <1>5, <1>6, <1>7 DEF DealKept, PipeTypes
<1>9. TaskOK(NoTask)'
  BY NoTaskIs DEF TaskOK
<1>10. ASSUME \A steps : writer[w].at \notin steps => (On(d, steps) => On(d, steps)')
       PROVE  DealOK(d)'
  <2>1. /\ On(d, {"event"}) => On(d, {"event"})'
        /\ On(d, {"look", "space"}) => On(d, {"look", "space"})'
    BY <1>1, <1>10
  <2>2. (Settled(d)' <=> Settled(d)) /\ IsClient(d)'
    BY <1>1, <1>7, <1>8 DEF Settled, IsClient
  <2> QED BY <1>1, <1>3, <2>1, <2>2 DEF DealOK
<1> QED BY <1>1, <1>2, <1>3, <1>5, <1>6, <1>8, <1>9, <1>10, NoTaskIs, StillStep DEF PipeTypes

-----------------------------------------------------------------------------
(* A writer takes a deal in hand.                                           *)
LEMMA TaskBegun ==
  ASSUME PipeInv, NEW w \in Writers, writer[w].at = "idle", NEW x \in WriterRow, WriterGoes(w, x),
         x.deal \in Deals, TaskOK(x)', Request,
         UNCHANGED <<stages, stage, outcome, feeds, spaces, client, admin, overtaken>>,
         together \subseteq together', together' \subseteq Deals,
         \A v \in Writers : writer[v].deal = x.deal => x.deal \in together'
  PROVE  PipeInv'
<1>1. writer \in [Writers -> WriterRow] /\ writer' = [writer EXCEPT ![w] = x] /\ writer[w].deal = NoOpp
  BY DEF PipeInv, PipeTypes, WriterGoes, TasksOK, TaskOK
<1>2. writer'[w] = x /\ \A v \in Writers \ {w} : writer'[v] = writer[v]
  BY <1>1
<1>3. StagesKept
  BY DEF StagesKept
<1>4. \A d \in Deals : DealKept(d)
  BY DEF DealKept
<1>5. ASSUME NEW v \in Writers PROVE TaskOK(writer[v])'
  <2>1. PICK y : y = writer'[v]
    OBVIOUS
  <2>2. CASE v = w
    BY <1>2, <2>2 DEF TaskOK
  <2>3. CASE v # w
    <3>1. y = writer[v] /\ y \in WriterRow /\ TaskOK(y)
      BY <1>1, <1>2, <2>1, <2>3 DEF PipeInv, TasksOK
    <3>2. TaskOK(y)'
      BY <1>3, <1>4, <3>1, TaskKept
    <3> QED BY <2>1, <3>2 DEF TaskOK
  <2> QED BY <2>2, <2>3
<1>6. EachAlone'
  BY <1>2 DEF PipeInv, EachAlone
<1>7. ASSUME NEW d \in Deals PROVE DealOK(d)'
  <2>1. \A steps : On(d, steps) => On(d, steps)'
    BY <1>1, <1>2, NoTaskIs DEF On
  <2> QED BY <1>3, <1>4, <2>1, DealStays DEF PipeInv, DealsOK
<1>8. PlansOK' /\ FormsKeepTheirStage'
  BY DEF PipeInv, PlansOK, PlanOK, FormsKeepTheirStage, Removed, Reclassified, NewlyClosed
<1>9. PipeTypes'
  BY <1>1, PipelineAssumption DEF PipelineAssumption, PipeInv, PipeTypes, Request
<1> QED BY <1>5, <1>6, <1>7, <1>8, <1>9 DEF PipeInv, TasksOK, DealsOK

LEMMA BeginMoveStep ==
  ASSUME PipeInv, NEW w \in Writers, NEW d \in Deals, NEW s \in Stages, BeginMove(w, d, s)
  PROVE  PipeInv'
<1>1. PICK x : x = [NoTask EXCEPT !.at = IF stage[d] = NoStage THEN "create" ELSE "move",
                                  !.deal = d, !.to = s, !.outcome = Class(s)]
  OBVIOUS
<1>2. /\ writer[w].at = "idle" /\ Request /\ Allowed(s) /\ WriterGoes(w, x)
      /\ together' = IF \E v \in Writers : writer[v].deal = d THEN together \cup {d} ELSE together
      /\ UNCHANGED <<stages, stage, outcome, feeds, spaces, client, admin, overtaken>>
  BY <1>1 DEF BeginMove
<1>3. Class(s) \in Outcomes
  BY <1>2 DEF Allowed, Class, PipeInv, PipeTypes, PipelineType
<1>4. /\ x \in WriterRow /\ x.deal = d /\ x.to = s /\ x.outcome = Class(s) /\ x.byForm = FALSE
      /\ x.at = IF stage[d] = NoStage THEN "create" ELSE "move"
  BY <1>1, <1>3, NoTaskIs DEF WriterRow, NoTask
<1>5. TaskOK(x)'
  BY <1>2, <1>3, <1>4 DEF TaskOK
<1>6. /\ together \subseteq together' /\ together' \subseteq Deals
      /\ \A v \in Writers : writer[v].deal = x.deal => x.deal \in together'
  BY <1>2, <1>4 DEF PipeInv, PipeTypes
<1> QED BY <1>2, <1>4, <1>5, <1>6, TaskBegun

LEMMA BeginLeadStep ==
  ASSUME PipeInv, NEW w \in Writers, NEW d \in Deals, BeginLead(w, d)
  PROVE  PipeInv'
<1>1. PICK s \in Stages :
        WriterGoes(w, [NoTask EXCEPT !.at = "create", !.deal = d, !.to = s, !.outcome = "open", !.byForm = TRUE])
  <2>1. \A s \in (IF feeds # NoStage /\ stages[feeds] = "open" THEN {feeds}
                  ELSE {t \in Stages : stages[t] = "open"}) : s \in Stages
    BY DEF PipeInv, PipeTypes
  <2> QED BY <2>1 DEF BeginLead
<1>2. PICK x : x = [NoTask EXCEPT !.at = "create", !.deal = d, !.to = s, !.outcome = "open", !.byForm = TRUE]
  OBVIOUS
<1>3. /\ writer[w].at = "idle" /\ Request /\ stage[d] = NoStage /\ WriterGoes(w, x)
      /\ \A v \in Writers : writer[v].deal # d
      /\ UNCHANGED <<stages, stage, outcome, feeds, spaces, client, admin, overtaken, together>>
  BY <1>1, <1>2 DEF BeginLead
<1>4. /\ x \in WriterRow /\ x.deal = d /\ x.to = s /\ x.outcome = "open" /\ x.byForm = TRUE /\ x.at = "create"
  BY <1>2, NoTaskIs DEF WriterRow, NoTask, Outcomes
<1>5. TaskOK(x)'
  BY <1>3, <1>4 DEF TaskOK, Outcomes
<1>6. together \subseteq together' /\ together' \subseteq Deals
  BY <1>3 DEF PipeInv, PipeTypes
<1> QED BY <1>3, <1>4, <1>5, <1>6, TaskBegun

(* Neither writers nor deals move: an admin, or a form's settings.          *)
LEMMA OthersWait ==
  ASSUME PipeInv, StagesKept, UNCHANGED <<stage, outcome, spaces, client, writer, together>>
  PROVE  TasksOK' /\ EachAlone' /\ DealsOK'
<1>1. \A d \in Deals : DealKept(d)
  BY DEF DealKept
<1>2. ASSUME NEW v \in Writers PROVE TaskOK(writer[v])'
  <2>1. PICK y : y = writer[v]
    OBVIOUS
  <2>2. y \in WriterRow /\ TaskOK(y)
    BY <2>1 DEF PipeInv, PipeTypes, TasksOK
  <2>3. TaskOK(y)'
    BY <1>1, <2>2, TaskKept
  <2> QED BY <2>1, <2>3 DEF TaskOK
<1>3. ASSUME NEW d \in Deals PROVE DealOK(d)'
  <2>1. \A steps : On(d, steps) => On(d, steps)'
    BY DEF On
  <2> QED BY <1>1, <2>1, DealStays DEF PipeInv, DealsOK
<1> QED BY <1>2, <1>3 DEF TasksOK, DealsOK, PipeInv, EachAlone

(* An admin goes on to plan y.                                              *)
LEMMA PlanGoes ==
  ASSUME PipeInv, NEW a \in Admins, NEW y \in PlanRow, admin' = [admin EXCEPT ![a] = y], PlanOK(y)',
         UNCHANGED <<stage, feeds>>, overtaken \subseteq overtaken'
  PROVE  admin' \in [Admins -> PlanRow] /\ PlansOK'
<1>1. admin \in [Admins -> PlanRow]
  BY DEF PipeInv, PipeTypes
<1>2. ASSUME NEW b \in Admins PROVE PlanOK(admin[b])'
  <2>1. PICK z : z = admin'[b]
    OBVIOUS
  <2>2. CASE b = a
    BY <1>1, <2>2 DEF PlanOK
  <2>3. CASE b # a
    <3>1. z = admin[b] /\ PlanOK(z)
      BY <1>1, <2>1, <2>3 DEF PipeInv, PlansOK
    <3>2. PlanOK(z)'
      BY <3>1 DEF PlanOK
    <3> QED BY <2>1, <3>2 DEF PlanOK
  <2> QED BY <2>2, <2>3
<1> QED BY <1>1, <1>2 DEF PlansOK

LEMMA ProposeStep ==
  ASSUME PipeInv, NEW a \in Admins, NEW p \in PipelineType, Propose(a, p)
  PROVE  PipeInv'
<1>1. PICK y : y = [at |-> "usage", want |-> p, was |-> stages]
  OBVIOUS
<1>2. /\ admin' = [admin EXCEPT ![a] = y] /\ Request
      /\ UNCHANGED <<stages, stage, outcome, feeds, spaces, client, writer, overtaken, together>>
  BY <1>1 DEF Propose
<1>3. y \in PlanRow /\ y.at = "usage"
  BY <1>1 DEF PlanRow, PipeInv, PipeTypes
<1>4. StagesKept
  BY <1>2 DEF StagesKept
<1>5. admin' \in [Admins -> PlanRow] /\ PlansOK'
  <2>1. PlanOK(y)'
    BY <1>3 DEF PlanOK
  <2> QED BY <1>2, <1>3, <2>1, PlanGoes
<1>6. FormsKeepTheirStage'
  BY <1>2 DEF PipeInv, FormsKeepTheirStage
<1>7. PipeTypes'
  BY <1>2, <1>5, PipelineAssumption DEF PipelineAssumption, PipeInv, PipeTypes, Request
<1> QED BY <1>2, <1>4, <1>5, <1>6, <1>7, OthersWait DEF PipeInv

LEMMA CountStep ==
  ASSUME PipeInv, NEW a \in Admins, CountUsage(a)
  PROVE  PipeInv'
<1>1. PICK z : z = admin[a]
  OBVIOUS
<1>2. PICK y : y = IF NothingTouched(z) THEN [z EXCEPT !.at = "write"] ELSE NoPlan
  OBVIOUS
<1>3. /\ admin' = [admin EXCEPT ![a] = y]
      /\ UNCHANGED <<stages, stage, outcome, feeds, spaces, client, writer, overtaken, together, requests>>
  BY <1>1, <1>2 DEF CountUsage
<1>4. z \in PlanRow
  BY <1>1 DEF PipeInv, PipeTypes
<1>5. /\ y \in PlanRow
      /\ NothingTouched(z) => y.at = "write" /\ y.was = z.was /\ y.want = z.want
      /\ ~NothingTouched(z) => y.at = "idle"
  BY <1>2, <1>4, NoPlanIs DEF PlanRow
<1>6. PlanOK(y)
  <2> SUFFICES ASSUME NothingTouched(z) PROVE PlanOK(y)
    BY <1>5 DEF PlanOK
  <2>1. Removed(y) = Removed(z) /\ Reclassified(y) = Reclassified(z) /\ NewlyClosed(y) = NewlyClosed(z)
    BY <1>5 DEF Removed, Reclassified, NewlyClosed
  <2> QED BY <2>1 DEF PlanOK, NothingTouched, Used
<1>7. admin' \in [Admins -> PlanRow] /\ PlansOK'
  <2>1. PlanOK(y)'
    BY <1>3, <1>6 DEF PlanOK
  <2> QED BY <1>3, <1>5, <2>1, PlanGoes
<1>8. StagesKept
  BY <1>3 DEF StagesKept
<1>9. FormsKeepTheirStage' /\ PipeTypes'
  BY <1>3, <1>7 DEF PipeInv, FormsKeepTheirStage, PipeTypes
<1> QED BY <1>3, <1>7, <1>8, <1>9, OthersWait DEF PipeInv

LEMMA WriteStep ==
  ASSUME PipeInv, NEW a \in Admins, WriteStages(a)
  PROVE  PipeInv'
<1>1. PICK z : z = admin[a]
  OBVIOUS
<1>2. /\ z.at = "write" /\ stages' = z.want /\ admin' = [admin EXCEPT ![a] = NoPlan]
      /\ overtaken' = IF stages = z.was THEN overtaken ELSE overtaken \cup Stages
      /\ UNCHANGED <<stage, outcome, feeds, spaces, client, writer, together, requests>>
  BY <1>1 DEF WriteStages
<1>3. z \in PlanRow /\ PlanOK(z)
  BY <1>1 DEF PipeInv, PipeTypes, PlansOK
<1>4. overtaken \subseteq overtaken' /\ overtaken' \subseteq Stages /\ stages' \in PipelineType
  BY <1>2, <1>3 DEF PipeInv, PipeTypes, PlanRow
<1>5. \A s \in Stages \ overtaken' : stages = z.was /\ s \notin overtaken
  BY <1>2
<1>6. ASSUME NEW d \in Deals, Settled(d), stage[d] \notin overtaken', stages[stage[d]] # "none"
      PROVE  stages'[stage[d]] = stages[stage[d]]
  <2>1. PICK s : s = stage[d]
    OBVIOUS
  <2>2. s \in Stages \ overtaken' /\ stages = z.was /\ z.was[s] # "none"
    BY <1>5, <1>6, <2>1 DEF Settled
  <2>3. s \notin Removed(z) /\ s \notin Reclassified(z)
    BY <1>2, <1>3, <1>4, <2>1, <2>2 DEF PlanOK
  <2>4. z.want[s] = z.was[s]
    BY <2>2, <2>3 DEF Removed, Reclassified
  <2> QED BY <1>2, <2>1, <2>2, <2>4
<1>7. StagesKept
  BY <1>2, <1>4, <1>6 DEF StagesKept
<1>8. FormsKeepTheirStage'
  <2> SUFFICES ASSUME feeds \notin {NoStage} \cup overtaken' PROVE stages'[feeds] = "open"
    BY <1>2 DEF FormsKeepTheirStage
  <2>1. feeds \in Stages \ overtaken' /\ stages = z.was /\ feeds \notin overtaken
    BY <1>5 DEF PipeInv, PipeTypes
  <2>2. z.was[feeds] = "open"
    BY <2>1 DEF PipeInv, FormsKeepTheirStage
  <2>3. feeds \notin Removed(z) /\ feeds \notin NewlyClosed(z)
    BY <1>2, <1>3, <2>1 DEF PlanOK
  <2>4. z.want[feeds] = "open"
    BY <2>1, <2>2, <2>3 DEF Removed, NewlyClosed, Reclassified
  <2> QED BY <1>2, <2>4
<1>9. admin' \in [Admins -> PlanRow] /\ PlansOK'
  <2>1. PlanOK(NoPlan)'
    BY NoPlanIs DEF PlanOK
  <2> QED BY <1>2, <1>4, <2>1, NoPlanIs, PlanGoes
<1>10. PipeTypes'
  BY <1>2, <1>4, <1>9 DEF PipeInv, PipeTypes
<1> QED BY <1>2, <1>7, <1>8, <1>9, <1>10, OthersWait DEF PipeInv

LEMMA SettleStep ==
  ASSUME PipeInv, NEW s \in Stages \cup {NoStage}, Settle(s)
  PROVE  PipeInv'
<1>1. /\ Request /\ (s # NoStage => stages[s] = "open") /\ feeds' = s
      /\ overtaken' = IF \E a \in Admins : admin[a].at # "idle" THEN overtaken \cup ({s} \ {NoStage}) ELSE overtaken
      /\ UNCHANGED <<stages, stage, outcome, spaces, client, admin, writer, together>>
  BY DEF Settle
<1>2. overtaken \subseteq overtaken' /\ overtaken' \subseteq Stages
  BY <1>1 DEF PipeInv, PipeTypes
<1>3. StagesKept
  BY <1>1, <1>2 DEF StagesKept
<1>4. FormsKeepTheirStage'
  BY <1>1 DEF FormsKeepTheirStage
<1>5. PlansOK'
  <2> SUFFICES ASSUME NEW a \in Admins, admin[a].at = "write" PROVE PlanOK(admin[a])'
    BY <1>1 DEF PlansOK, PlanOK
  <2>1. PlanOK(admin[a]) /\ (s # NoStage => s \in overtaken')
    BY <1>1 DEF PipeInv, PlansOK
  <2>2. s \in Removed(admin[a]) \cup NewlyClosed(admin[a]) => s # NoStage
    BY PipelineAssumption DEF PipelineAssumption, Removed, NewlyClosed, Reclassified
  <2> QED BY <1>1, <1>2, <2>1, <2>2 DEF PlanOK, Removed, NewlyClosed, Reclassified
<1>6. PipeTypes'
  BY <1>1, <1>2, PipelineAssumption DEF PipelineAssumption, PipeInv, PipeTypes, Request
<1> QED BY <1>1, <1>3, <1>4, <1>5, <1>6, OthersWait DEF PipeInv

LEMMA PipeStep ==
  ASSUME PipeInv, [PipelineNext]_pipelineVars
  PROVE  PipeInv'
<1>1. CASE UNCHANGED pipelineVars
  <2>1. UNCHANGED <<stages, stage, outcome, feeds, spaces, client, admin, writer, overtaken, together, requests>>
    BY <1>1 DEF pipelineVars
  <2>2. StagesKept /\ PlansOK' /\ FormsKeepTheirStage'
    BY <2>1, NoneMoved
  <2>3. PipeTypes'
    BY <2>1 DEF PipeInv, PipeTypes
  <2> QED BY <2>1, <2>2, <2>3, OthersWait DEF PipeInv
<1> QED
  BY <1>1, CreateDeal, MoveDeal, JudgeDeal, EventOfDeal, LookStep, OpenSpace, PromoteStep,
     BeginMoveStep, BeginLeadStep, ProposeStep, CountStep, WriteStep, SettleStep DEF PipelineNext

(***************************************************************************)
(* For any pipeline, deals, admins and writers: no deal or form is in a    *)
(* stage the pipeline does not have, none is won or lost unmoved, a deal   *)
(* has one workspace and its people are customers once it is won; but for  *)
(* what a pipeline being set overtook and deals that two moved at once     *)
(* (set_pipeline, move_stage).                                             *)
(***************************************************************************)
THEOREM StagesKeepDeals == PipelineSpec => []PipelineHolds
<1>1. PipeInv => PipelineHolds
  <2> SUFFICES ASSUME PipeInv PROVE PipelineHolds
    OBVIOUS
  <2>1. PipelineTypeOK
    BY DEF PipeInv, PipeTypes, PipelineTypeOK, PlanRow, WriterRow
  <2>2. \A d \in Deals : stage[d] \notin {NoStage} \cup overtaken => Settled(d)
    BY DEF PipeInv, PipeTypes, Settled
  <2>3. \A d \in Deals : ~Busy(d) => \A steps : ~On(d, steps)
    BY DEF Busy, On
  <2>4. DealsKeepTheirStage
    BY <2>2 DEF PipeInv, DealsOK, DealOK, DealsKeepTheirStage
  <2>5. NobodyWinsUnmoved
    BY <2>2, <2>3 DEF PipeInv, DealsOK, DealOK, NobodyWinsUnmoved, IsClient
  <2>6. OneWorkspace /\ CustomersWereWon
    BY <2>3 DEF PipeInv, DealsOK, DealOK, OneWorkspace, CustomersWereWon, IsClient
  <2> QED BY <2>1, <2>4, <2>5, <2>6 DEF PipeInv, PipelineHolds
<1> QED BY PipeInit, PipeStep, <1>1, PTL DEF PipelineSpec

-----------------------------------------------------------------------------
(***************************************************************************)
(* What an import reports is what it did.  A pass decides on each row from *)
(* what it read and what it has made; the invariant says what it knows of  *)
(* both, what it has decided, and where what it made is: among the         *)
(* contacts, or waiting for the flush, in the order of the rows.           *)
(***************************************************************************)
Identities == {Identity(r) : r \in RowType}
KnownType  == [row : RowType, of : Origins]
Actions    == {"skip", "update", "create"}
PassType   == [pc : {"new", "rows", "finish", "over", "dead"}, mode : Modes, commit : BOOLEAN,
               read : Seq(RowType), known : Seq(KnownType), pending : Seq(PersonType),
               seen : SUBSET Identities, plan : Seq(Actions), beside : BOOLEAN]

ImportTypes ==
  /\ file \in [RowNumbers -> RowType]
  /\ people \in Seq(PersonType) /\ Len(people) <= MaxContacts
  /\ import \in [Imports -> PassType]

(* How far a pass is. *)
FarOK(s) ==
  /\ Len(s.plan) <= RowCount /\ Len(s.pending) < Batch
  /\ s.pc = "rows" => Len(s.plan) < RowCount
  /\ s.pc \in {"finish", "over"} => Len(s.plan) = RowCount
  /\ s.pc = "new" => s.plan = <<>>
  /\ s.pc \in {"over", "dead"} \/ ~s.commit => s.pending = <<>>

(* The keys it has met in the file, and the contacts it knows: those it read, *)
(* each still there, and those it has made.                                   *)
HasKey(n, id) == HasIdentity(file[n]) /\ id = Identity(file[n])
SeenOK(s) == \A id : id \in s.seen <=> \E n \in 1..Len(s.plan) : HasKey(n, id)
Made(x, n) == [row |-> file[n], of |-> <<x, n>>]
KnownOK(x, s) ==
  /\ Len(s.read) <= Len(s.known)
  /\ \A i \in 1..Len(s.read) : /\ s.known[i].row = s.read[i]
                               /\ \E j \in 1..Len(people) : people[j].of = s.known[i].of
  /\ \A i \in 1..Len(s.known) :
       i > Len(s.read) => \E n \in 1..Len(s.plan) : s.known[i] = Made(x, n)
  /\ s.commit => \A n \in 1..Len(s.plan) :
       s.plan[n] = "create" => \E i \in 1..Len(s.known) : s.known[i].row = file[n]

(* What it decides on a row that meets nothing of its own file follows from *)
(* the file and what it read; what it makes, it looked for.                 *)
Again(n)     == HasIdentity(file[n]) /\ \E m \in 1..(n - 1) : HasKey(m, Identity(file[n]))
Met(read, n) == \E i \in 1..Len(read) : Matches(read[i], file[n])
Said(s, n) ==
  IF s.mode = "create" THEN "create"
  ELSE IF Again(n) THEN "skip" ELSE IF Met(s.read, n) THEN s.mode ELSE "create"
DecidedOK(s, n, action) ==
  /\ s.mode = "create" \/ ~MeetsItself(n) => action = Said(s, n)
  /\ s.mode # "create" /\ action = "create" =>
       /\ ~Met(s.read, n)
       /\ s.commit => \A m \in 1..(n - 1) : s.plan[m] = "create" => ~Matches(file[m], file[n])
PassPlanOK(s) == \A n \in 1..Len(s.plan) : DecidedOK(s, n, s.plan[n])

(* What it made is there, or waits; what it updated is there. *)
There(x, n)   == \E i \in 1..Len(people) : people[i].of = <<x, n>>
Waits(s, x, n) == \E k \in 1..Len(s.pending) : s.pending[k].of = <<x, n>>
Touched(x, n) == \E i \in 1..Len(people) : <<x, n>> \in people[i].rows
DoneOK(x, s) ==
  s.commit => \A n \in 1..Len(s.plan) :
    /\ s.plan[n] = "create" /\ s.pc # "dead" => There(x, n) \/ Waits(s, x, n)
    /\ s.plan[n] = "update" /\ ~MeetsItself(n) => Touched(x, n)

(* A contact that an import made is of a row it created, and stands in the   *)
(* order of the rows, before what still waits.                               *)
Creates(s, n) == s.commit /\ n \in 1..Len(s.plan) /\ s.plan[n] = "create"
PeopleOK ==
  \A j \in 1..Len(people), x \in Imports, n \in RowNumbers :
    people[j].of = <<x, n>> =>
      Creates(import[x], n) /\ (people[j].rows = {} => people[j].row = file[n])
RowsInOrder ==
  \A i, j \in 1..Len(people), x \in Imports, m, n \in RowNumbers :
    people[i].of = <<x, m>> /\ people[j].of = <<x, n>> /\ i < j => m < n

Waiting(x, n) == [row |-> file[n], of |-> <<x, n>>, rows |-> {}]
QueueOK(x, s, w) ==
  /\ \A k \in 1..Len(w) : \E n \in RowNumbers : Creates(s, n) /\ w[k] = Waiting(x, n)
  /\ \A k, l \in 1..Len(w), m, n \in RowNumbers :
       k < l /\ w[k].of = <<x, m>> /\ w[l].of = <<x, n>> => m < n
  /\ \A j \in 1..Len(people), k \in 1..Len(w), m, n \in RowNumbers :
       people[j].of = <<x, m>> /\ w[k].of = <<x, n>> => m < n

(* While no other import writes, the contacts are those it read, then its own. *)
LineOK(x, s) ==
  s.pc # "new" /\ ~s.beside =>
    /\ Len(s.read) <= Len(people)
    /\ \A i \in 1..Len(s.read) : /\ \A n \in RowNumbers : people[i].of # <<x, n>>
                                 /\ people[i].rows = {} => people[i].row = s.read[i]
    /\ \A i \in 1..Len(people) :
         i > Len(s.read) => \E n \in RowNumbers : people[i].of = <<x, n>>

PassOK(x, s) ==
  /\ FarOK(s) /\ SeenOK(s) /\ KnownOK(x, s) /\ PassPlanOK(s) /\ DoneOK(x, s)
  /\ QueueOK(x, s, s.pending) /\ LineOK(x, s)

AllPassesOK == \A x \in Imports, s \in PassType : s = import[x] => PassOK(x, s)
ImpInv == ImportTypes /\ PeopleOK /\ RowsInOrder /\ AllPassesOK

(* Every set of numbers has a least one. *)
LEMMA LeastNumber ==
  ASSUME NEW M, M \subseteq Nat, M # {}
  PROVE  \E i \in M : \A j \in M : i <= j
<1> DEFINE T == {0..i : i \in M}
<1>1. T \subseteq FiniteSubsetsOf(Nat) /\ T # {}
  <2>1. ASSUME NEW i \in M
        PROVE  0..i \in FiniteSubsetsOf(Nat)
    BY FS_Interval DEF FiniteSubsetsOf
  <2>2. QED BY <2>1
<1>2. PICK t \in T : \A u \in T : ~(<<u, t>> \in StrictSubsetOrdering(Nat))
  BY <1>1, FS_StrictSubsetOrderingWellFounded, WFMin
<1>3. PICK i \in M : t = 0..i
  OBVIOUS
<1>4. ASSUME NEW j \in M, ~(i <= j)
      PROVE  FALSE
  <2>1. 0..j \in SUBSET Nat /\ 0..i \in SUBSET Nat /\ 0..j \subseteq 0..i /\ 0..j # 0..i
    BY <1>4
  <2>2. <<0..j, 0..i>> \in StrictSubsetOrdering(Nat)
    BY <2>1 DEF StrictSubsetOrdering
  <2>3. QED BY <1>2, <1>3, <2>2
<1>5. QED BY <1>4

-----------------------------------------------------------------------------
LEMMA PassesApart ==
  ASSUME NEW s \in PassType
  PROVE  /\ s.pc \in {"new", "rows", "finish", "over", "dead"} /\ s.mode \in Modes
         /\ s.commit \in BOOLEAN /\ s.read \in Seq(RowType) /\ s.known \in Seq(KnownType)
         /\ s.pending \in Seq(PersonType) /\ s.seen \in SUBSET Identities
         /\ s.plan \in Seq(Actions) /\ s.beside \in BOOLEAN
BY DEF PassType

(* A pass that did not move differs at most in having been written beside. *)
SamePass(s, d) ==
  /\ d.pc = s.pc /\ d.mode = s.mode /\ d.commit = s.commit /\ d.read = s.read
  /\ d.known = s.known /\ d.pending = s.pending /\ d.seen = s.seen /\ d.plan = s.plan
  /\ ~d.beside => ~s.beside /\ people' = people

(* The row a pass decides on: what it becomes, and what becomes of the pass. *)
RowTaken(s, d, action) ==
  /\ d.plan = Append(s.plan, action) /\ d.mode = s.mode /\ d.commit = s.commit
  /\ d.read = s.read /\ d.beside = s.beside
  /\ d.pc = IF Len(s.plan) + 1 = RowCount THEN "finish" ELSE s.pc
  /\ d.seen = IF HasIdentity(file[Len(s.plan) + 1])
              THEN s.seen \cup {Identity(file[Len(s.plan) + 1])} ELSE s.seen

LEMMA TookEffect ==
  ASSUME ImportTypes, NEW x \in Imports, NEW s \in PassType, s = import[x],
         NEW action \in Actions, NEW known \in Seq(KnownType), NEW pending \in Seq(PersonType),
         Took(x, action, known, pending), Len(s.plan) < RowCount
  PROVE  /\ import' \in [Imports -> PassType]
         /\ RowTaken(s, import'[x], action)
         /\ import'[x].known = known /\ import'[x].pending = pending
         /\ \A y \in Imports \ {x} : SamePass(import[y], import'[y])
<1>1. PICK n \in RowNumbers : n = Len(s.plan) + 1
  BY PassesApart, LenProperties, ImportAssumption DEF RowNumbers
<1>2. PICK d : d = [s EXCEPT !.plan = Append(s.plan, action), !.known = known, !.pending = pending,
                     !.seen = IF HasIdentity(file[n]) THEN s.seen \cup {Identity(file[n])} ELSE s.seen,
                     !.pc = IF n = RowCount THEN "finish" ELSE s.pc]
  OBVIOUS
<1>3. /\ Append(s.plan, action) \in Seq(Actions)
      /\ Identity(file[n]) \in Identities
  BY PassesApart, AppendProperties DEF ImportTypes, Identities
<1>4. /\ d \in PassType
      /\ d.plan = Append(s.plan, action) /\ d.known = known /\ d.pending = pending
      /\ d.seen = IF HasIdentity(file[n]) THEN s.seen \cup {Identity(file[n])} ELSE s.seen
      /\ d.pc = IF n = RowCount THEN "finish" ELSE s.pc
      /\ d.mode = s.mode /\ d.commit = s.commit /\ d.read = s.read /\ d.beside = s.beside
  BY <1>2, <1>3 DEF PassType
<1>5. import' = [y \in Imports |-> IF y = x THEN d
                                   ELSE [import[y] EXCEPT !.beside = @ \/ people' # people]]
  BY <1>1, <1>2 DEF Took, RowNumber, RowHere
<1>6. ASSUME NEW y \in Imports \ {x}
      PROVE  import'[y] \in PassType /\ SamePass(import[y], import'[y])
  <2>1. PICK b \in BOOLEAN : b = (import[y].beside \/ people' # people)
    OBVIOUS
  <2>2. PICK c \in PassType : c = import[y]
    BY DEF ImportTypes
  <2>3. import'[y] = [c EXCEPT !.beside = b]
    BY <1>5, <2>1, <2>2
  <2>4. [c EXCEPT !.beside = b] \in PassType /\ ([c EXCEPT !.beside = b]).beside = b
    BY DEF PassType
  <2>5. QED BY <2>1, <2>2, <2>3, <2>4 DEF SamePass, PassType
<1>7. import'[x] = d
  BY <1>5
<1>8. import' \in [Imports -> PassType]
  BY <1>4, <1>5, <1>6, <1>7
<1>9. QED BY <1>1, <1>4, <1>6, <1>7, <1>8 DEF RowTaken

-----------------------------------------------------------------------------
(* A row that meets a row of its own file either repeats its identity, or *)
(* meets by its phone one that had an email.                              *)
LEMMA OwnMeetings ==
  ASSUME NEW m \in RowNumbers, NEW n \in RowNumbers, m < n, file \in [RowNumbers -> RowType],
         Matches(file[m], file[n])
  PROVE  Again(n) \/ MeetsItself(n)
<1>1. m \in 1..(n - 1)
  BY ImportAssumption DEF RowNumbers
<1>2. CASE file[n].email # NoValue
  <2>1. file[m].email = file[n].email
    BY <1>2 DEF Matches
  <2>2. HasIdentity(file[n]) /\ HasKey(m, Identity(file[n]))
    BY <1>2, <2>1 DEF HasKey, HasIdentity, Identity
  <2>3. QED BY <1>1, <2>2 DEF Again
<1>3. CASE file[n].email = NoValue
  <2>1. file[n].phone # NoValue /\ file[m].phone = file[n].phone
    BY <1>3 DEF Matches
  <2>2. CASE file[m].email = NoValue
    <3>1. HasIdentity(file[n]) /\ HasKey(m, Identity(file[n]))
      BY <1>3, <2>1, <2>2 DEF HasKey, HasIdentity, Identity
    <3>2. QED BY <1>1, <3>1 DEF Again
  <2>3. CASE file[m].email # NoValue
    BY <1>1, <1>3, <2>1, <2>3 DEF MeetsItself
  <2>4. QED BY <2>2, <2>3
<1>4. QED BY <1>2, <1>3

LEMMA ExistingIs ==
  ASSUME ImportTypes, NEW x \in Imports, NEW s \in PassType, s = import[x], NEW n \in RowNumbers,
         n = Len(s.plan) + 1
  PROVE  /\ Existing(x) = 0 => \A i \in 1..Len(s.known) : ~Matches(s.known[i].row, file[n])
         /\ Existing(x) # 0 => Existing(x) \in 1..Len(s.known)
                               /\ Matches(s.known[Existing(x)].row, file[n])
<1> DEFINE M == {i \in DOMAIN import[x].known : Matches(import[x].known[i].row, RowHere(x))}
<1>1. DOMAIN s.known = 1..Len(s.known) /\ Len(s.known) \in Nat
  BY PassesApart, LenProperties
<1>2. RowHere(x) = file[n]
  BY DEF RowHere, RowNumber
<1>3. M = {i \in 1..Len(s.known) : Matches(s.known[i].row, file[n])}
  BY <1>1, <1>2
<1>4. Existing(x) = IF M = {} THEN 0 ELSE CHOOSE i \in M : \A j \in M : i <= j
  BY DEF Existing
<1>5. M # {} => Existing(x) \in M
  <2>1. M \subseteq Nat
    BY <1>1, <1>3
  <2>2. M # {} => \E i \in M : \A j \in M : i <= j
    BY <2>1, LeastNumber
  <2>3. QED BY <1>4, <2>2
<1>6. 0 \notin M
  BY <1>1, <1>3
<1> HIDE DEF M
<1>7. Existing(x) = 0 => M = {}
  BY <1>5, <1>6
<1>8. Existing(x) # 0 => Existing(x) \in M
  BY <1>4, <1>5
<1>9. QED BY <1>3, <1>7, <1>8

(* What a pass decides on its next row. *)
LEMMA Decides ==
  ASSUME ImpInv, NEW x \in Imports, NEW s \in PassType, s = import[x], PassOK(x, s),
         s.pc = "rows", NEW n \in RowNumbers, n = Len(s.plan) + 1, NEW action,
         action = RowAction(x)
  PROVE  /\ action \in Actions
         /\ DecidedOK(s, n, action)
         /\ action = "update" => Existing(x) \in 1..Len(s.known)
         /\ action = "update" /\ ~MeetsItself(n) => Existing(x) \in 1..Len(s.read)
<1> USE DEF ImpInv
<1>0. s.mode \in {"skip", "update", "create"} /\ Len(s.plan) \in Nat /\ file \in [RowNumbers -> RowType]
      /\ Len(s.read) \in Nat /\ Len(s.known) \in Nat
  BY PassesApart, LenProperties DEF Modes, ImportTypes
<1>1. SeenOK(s) /\ KnownOK(x, s)
  BY DEF PassOK
<1>2. Repeats(x) <=> Again(n)
  <2>1. RowHere(x) = file[n]
    BY DEF RowHere, RowNumber
  <2>2. n - 1 = Len(s.plan)
    BY <1>0
  <2>3. Repeats(x) <=> HasIdentity(file[n]) /\ Identity(file[n]) \in s.seen
    BY <2>1 DEF Repeats, IsRepeat
  <2>4. QED BY <1>1, <2>2, <2>3 DEF SeenOK, Again
<1>3. action = IF Again(n) /\ s.mode # "create" THEN "skip"
               ELSE IF Existing(x) # 0 /\ s.mode # "create" THEN s.mode ELSE "create"
  BY <1>2 DEF RowAction
<1>4. /\ Existing(x) = 0 => \A i \in 1..Len(s.known) : ~Matches(s.known[i].row, file[n])
      /\ Existing(x) # 0 => Existing(x) \in 1..Len(s.known)
                            /\ Matches(s.known[Existing(x)].row, file[n])
  BY ExistingIs
<1>5. \A i \in 1..Len(s.read) : i \in 1..Len(s.known) /\ s.known[i].row = s.read[i]
  BY <1>0, <1>1 DEF KnownOK
<1>6. ASSUME Existing(x) # 0, Existing(x) \notin 1..Len(s.read)
      PROVE  Again(n) \/ MeetsItself(n)
  <2>1. PICK m \in 1..Len(s.plan) : s.known[Existing(x)] = Made(x, m)
    BY <1>0, <1>1, <1>4, <1>6 DEF KnownOK
  <2>2. m \in RowNumbers /\ m < n
    BY <1>0, <2>1, ImportAssumption DEF RowNumbers
  <2>3. Matches(file[m], file[n])
    BY <1>4, <1>6, <2>1 DEF Made
  <2>4. QED BY <1>0, <2>2, <2>3, OwnMeetings
<1>7. Existing(x) = 0 => ~Met(s.read, n)
  BY <1>4, <1>5 DEF Met
<1>8. Existing(x) \in 1..Len(s.read) => Met(s.read, n)
  BY <1>4, <1>5, <1>0 DEF Met
<1>9. action \in Actions /\ (action = "update" => Existing(x) \in 1..Len(s.known))
  BY <1>0, <1>3, <1>4 DEF Actions
<1>10. action = "update" /\ ~MeetsItself(n) => Existing(x) \in 1..Len(s.read)
  BY <1>3, <1>6, <1>0
<1>11. s.mode = "create" \/ ~MeetsItself(n) => action = Said(s, n)
  BY <1>3, <1>6, <1>7, <1>8 DEF Said
<1>12. ASSUME s.mode # "create", action = "create"
       PROVE  /\ ~Met(s.read, n)
              /\ s.commit => \A m \in 1..(n - 1) : s.plan[m] = "create" => ~Matches(file[m], file[n])
  <2>1. Existing(x) = 0
    BY <1>0, <1>3, <1>12
  <2>2. ASSUME s.commit, NEW m \in 1..(n - 1), s.plan[m] = "create", Matches(file[m], file[n])
        PROVE  FALSE
    <3>1. m \in 1..Len(s.plan)
      BY <1>0
    <3>2. PICK i \in 1..Len(s.known) : s.known[i].row = file[m]
      BY <1>1, <2>2, <3>1 DEF KnownOK
    <3>3. QED BY <1>4, <2>1, <2>2, <3>2
  <2>3. QED BY <1>7, <2>1, <2>2
<1>13. QED BY <1>9, <1>10, <1>11, <1>12 DEF DecidedOK

-----------------------------------------------------------------------------
(* A pass x, at s, takes row n and is at d. *)
Takes(x, s, n, action, d) ==
  /\ s = import[x] /\ PassOK(x, s) /\ s.pc = "rows" /\ n = Len(s.plan) + 1
  /\ DecidedOK(s, n, action) /\ RowTaken(s, d, action)

(* A row taken: the pass is one row further, knows its key, and has decided. *)
LEMMA RowPlanned ==
  ASSUME ImpInv, NEW x \in Imports, NEW s \in PassType, NEW n \in RowNumbers,
         NEW action \in Actions, NEW d \in PassType, Takes(x, s, n, action, d),
         Len(d.pending) < Batch, ~d.commit => d.pending = <<>>, UNCHANGED file
  PROVE  /\ FarOK(d) /\ SeenOK(d)' /\ PassPlanOK(d)'
         /\ Len(d.plan) = n /\ d.plan[n] = action
         /\ \A m \in 1..Len(s.plan) : m \in 1..n /\ m # n /\ d.plan[m] = s.plan[m]
         /\ \A m \in 1..n : m = n \/ m \in 1..Len(s.plan)
<1> USE DEF Takes
<1>1. /\ s.plan \in Seq(Actions) /\ Len(s.plan) \in Nat /\ RowCount \in Nat
      /\ Len(s.plan) < RowCount
  BY PassesApart, LenProperties, ImportAssumption DEF PassOK, FarOK
<1>2. /\ Len(d.plan) = n /\ d.plan[n] = action
      /\ \A m \in 1..Len(s.plan) : d.plan[m] = s.plan[m]
  BY <1>1, AppendProperties DEF RowTaken
<1>3. /\ \A m \in 1..Len(s.plan) : m \in 1..n /\ m # n
      /\ \A m \in 1..n : m = n \/ m \in 1..Len(s.plan)
  BY <1>1
<1>4. FarOK(d)
  <2>1. d.pc = IF n = RowCount THEN "finish" ELSE "rows"
    BY DEF RowTaken
  <2>2. QED BY <1>1, <1>2, <2>1 DEF FarOK
<1>5. SeenOK(d)'
  <2>1. d.seen = IF HasIdentity(file[n]) THEN s.seen \cup {Identity(file[n])} ELSE s.seen
    BY DEF RowTaken
  <2>2. \A id : id \in s.seen <=> \E m \in 1..Len(s.plan) : HasKey(m, id)
    BY DEF PassOK, SeenOK
  <2>3. \A id : id \in d.seen <=> id \in s.seen \/ HasKey(n, id)
    BY <2>1 DEF HasKey
  <2>4. \A id : id \in d.seen <=> \E m \in 1..n : HasKey(m, id)
    BY <1>1, <1>3, <2>2, <2>3
  <2>5. QED BY <1>2, <2>4 DEF SeenOK, HasKey
<1>6. PassPlanOK(d)'
  <2>1. ASSUME NEW m \in 1..n, NEW a, m = n => a = action, m # n => a = s.plan[m]
        PROVE  DecidedOK(d, m, a)
    <3>1. DecidedOK(s, m, a)
      BY <1>3, <2>1 DEF PassOK, PassPlanOK
    <3>2. d.mode = s.mode /\ d.read = s.read /\ d.commit = s.commit
      BY DEF RowTaken
    <3>3. \A k \in 1..(m - 1) : d.plan[k] = s.plan[k]
      BY <1>1, <1>2
    <3>4. Said(d, m) = Said(s, m)
      BY <3>2 DEF Said
    <3>5. QED BY <3>1, <3>2, <3>3, <3>4 DEF DecidedOK
  <2>2. \A m \in 1..n : DecidedOK(d, m, d.plan[m])
    BY <1>2, <1>3, <2>1
  <2>3. \A m \in 1..n : DecidedOK(d, m, d.plan[m])'
    BY <2>2 DEF DecidedOK, MeetsItself, Said, Again, HasKey, Met
  <2>4. QED BY <1>2, <2>3 DEF PassPlanOK
<1>7. QED BY <1>2, <1>3, <1>4, <1>5, <1>6

-----------------------------------------------------------------------------
(* The contacts: what was there stays, and q comes after it. *)
Adds(q) ==
  /\ people' \in Seq(PersonType) /\ Len(people') = Len(people) + Len(q)
  /\ \A j \in 1..Len(people) : /\ people'[j].of = people[j].of
                               /\ people[j].rows \subseteq people'[j].rows
                               /\ people'[j].rows = {} => people'[j].row = people[j].row
  /\ \A k \in 1..Len(q) : people'[Len(people) + k] = q[k]

LEMMA AddsConcat ==
  ASSUME ImportTypes, NEW q \in Seq(PersonType), people' = people \o q
  PROVE  Adds(q)
<1>1. people \in Seq(PersonType) /\ Len(people) \in Nat /\ Len(q) \in Nat
  BY LenProperties DEF ImportTypes
<1>2. /\ people' \in Seq(PersonType) /\ Len(people') = Len(people) + Len(q)
      /\ \A i \in 1..Len(people) + Len(q) :
           people'[i] = IF i <= Len(people) THEN people[i] ELSE q[i - Len(people)]
  BY <1>1, ConcatProperties
<1>3. \A j \in 1..Len(people) : people'[j] = people[j]
  BY <1>1, <1>2
<1>4. \A k \in 1..Len(q) : people'[Len(people) + k] = q[k]
  BY <1>1, <1>2
<1>5. QED BY <1>2, <1>3, <1>4 DEF Adds

LEMMA AddsNothing ==
  ASSUME ImportTypes, people' = people
  PROVE  Adds(<<>>)
BY LenProperties, EmptySeq DEF ImportTypes, Adds

LEMMA PlacesAfter ==
  ASSUME ImportTypes, NEW q \in Seq(PersonType), Adds(q)
  PROVE  /\ \A j \in 1..Len(people) : j \in 1..Len(people')
         /\ \A k \in 1..Len(q) : Len(people) + k \in 1..Len(people')
         /\ \A j \in 1..Len(people') :
              j \in 1..Len(people) \/ \E k \in 1..Len(q) : j = Len(people) + k /\ people'[j] = q[k]
<1>1. Len(people) \in Nat /\ Len(q) \in Nat /\ Len(people') = Len(people) + Len(q)
  BY LenProperties DEF ImportTypes, Adds
<1>2. \A a, b \in Nat : /\ \A i \in 1..a : i \in 1..(a + b)
                         /\ \A k \in 1..b : a + k \in 1..(a + b)
                         /\ \A j \in 1..(a + b) : j \in 1..a \/ \E l \in 1..b : j = a + l
  <2>1. ASSUME NEW a \in Nat, NEW b \in Nat, NEW j \in 1..(a + b), j \notin 1..a
        PROVE  \E k \in 1..b : j = a + k
    <3>1. j - a \in 1..b /\ j = a + (j - a)
      BY <2>1
    <3>2. QED BY <3>1
  <2>2. QED BY <2>1
<1>3. PICK a, b \in Nat : a = Len(people) /\ b = Len(q)
  BY <1>1
<1>4. Len(people') = a + b
  BY <1>1, <1>3
<1>5. \A k \in 1..b : people'[a + k] = q[k]
  BY <1>3 DEF Adds
<1>6. \A j \in 1..(a + b) : j \in 1..a \/ \E k \in 1..b : j = a + k /\ people'[j] = q[k]
  BY <1>2, <1>5
<1>7. QED BY <1>2, <1>3, <1>4, <1>6

(* What was made or updated is still there, and what waited is if it was added. *)
LEMMA ThereStays ==
  ASSUME ImportTypes, NEW q \in Seq(PersonType), Adds(q), NEW x, NEW n
  PROVE  /\ There(x, n) => There(x, n)'
         /\ Touched(x, n) => Touched(x, n)'
         /\ (\E k \in 1..Len(q) : q[k].of = <<x, n>>) => There(x, n)'
         /\ There(x, n)' => There(x, n) \/ \E k \in 1..Len(q) : q[k].of = <<x, n>>
<1>1. There(x, n) => There(x, n)'
  BY PlacesAfter DEF There, Adds
<1>2. Touched(x, n) => Touched(x, n)'
  BY PlacesAfter DEF Touched, Adds
<1>3. (\E k \in 1..Len(q) : q[k].of = <<x, n>>) => There(x, n)'
  <2>1. ASSUME NEW k \in 1..Len(q), q[k].of = <<x, n>>
        PROVE  There(x, n)'
    <3>1. PICK j \in 1..Len(people') : j = Len(people) + k
      BY PlacesAfter
    <3>2. people'[j].of = <<x, n>>
      BY <2>1, <3>1 DEF Adds
    <3>3. QED BY <3>2 DEF There
  <2>2. QED BY <2>1
<1>4. There(x, n)' => There(x, n) \/ \E k \in 1..Len(q) : q[k].of = <<x, n>>
  <2>1. ASSUME NEW j \in 1..Len(people'), people'[j].of = <<x, n>>
        PROVE  There(x, n) \/ \E k \in 1..Len(q) : q[k].of = <<x, n>>
    <3>1. CASE j \in 1..Len(people)
      BY <2>1, <3>1 DEF Adds, There
    <3>2. ASSUME NEW k \in 1..Len(q), people'[j] = q[k]
          PROVE  q[k].of = <<x, n>>
      BY <2>1, <3>2
    <3>3. QED BY <3>1, <3>2, PlacesAfter
  <2>2. QED BY <2>1 DEF There
<1>5. QED BY <1>1, <1>2, <1>3, <1>4

(* The contacts after a step whose pass x had w waiting, none or all of it added. *)
LEMMA PeopleAfter ==
  ASSUME ImpInv, NEW x \in Imports, NEW d \in PassType, NEW w \in Seq(PersonType),
         QueueOK(x, d, w), NEW q \in {<<>>, w}, Adds(q), d = import'[x], UNCHANGED file,
         \A n \in RowNumbers : Creates(import[x], n) => Creates(d, n),
         \A y \in Imports \ {x} : SamePass(import[y], import'[y])
  PROVE  PeopleOK' /\ RowsInOrder'
<1> USE DEF ImpInv
<1>1. q \in Seq(PersonType) /\ Len(people) \in Nat /\ Len(q) \in Nat
      /\ \A k \in 1..Len(q) : k \in 1..Len(w) /\ q[k] = w[k]
  <2>1. CASE q = <<>>
    BY <2>1, EmptySeq, LenProperties DEF ImportTypes
  <2>2. CASE q = w
    BY <2>2, LenProperties DEF ImportTypes
  <2>3. QED BY <2>1, <2>2
<1>2. \A y \in Imports, n \in RowNumbers : Creates(import[y], n) => Creates(import'[y], n)
  BY DEF SamePass, Creates
<1>3. \A k \in 1..Len(q) : \E n \in RowNumbers : Creates(d, n) /\ q[k] = Waiting(x, n)
  BY <1>1 DEF QueueOK
<1>4. PeopleOK'
  <2>1. ASSUME NEW j \in 1..Len(people'), NEW y \in Imports, NEW n \in RowNumbers,
               people'[j].of = <<y, n>>
        PROVE  Creates(import'[y], n) /\ (people'[j].rows = {} => people'[j].row = file[n])
    <3>1. CASE j \in 1..Len(people)
      <4>1. people[j].of = <<y, n>> /\ (people'[j].rows = {} => people[j].rows = {}
                                         /\ people'[j].row = people[j].row)
        BY <2>1, <3>1 DEF Adds
      <4>2. Creates(import[y], n) /\ (people[j].rows = {} => people[j].row = file[n])
        BY <3>1, <4>1 DEF PeopleOK
      <4>3. QED BY <1>2, <4>1, <4>2
    <3>2. ASSUME NEW k \in 1..Len(q), people'[j] = q[k]
          PROVE  Creates(import'[y], n) /\ (people'[j].rows = {} => people'[j].row = file[n])
      <4>1. PICK m \in RowNumbers : Creates(d, m) /\ q[k] = Waiting(x, m)
        BY <1>3, <3>2
      <4>2. people'[j].of = <<x, m>> /\ people'[j].row = file[m]
        BY <3>2, <4>1 DEF Waiting
      <4>3. x = y /\ m = n
        BY <2>1, <4>2
      <4>4. QED BY <4>1, <4>2, <4>3
    <3>3. QED BY <1>1, <3>1, <3>2, PlacesAfter
  <2>2. QED BY <2>1 DEF PeopleOK, Creates
<1>5. RowsInOrder'
  <2>1. ASSUME NEW i \in 1..Len(people'), NEW j \in 1..Len(people'), NEW y \in Imports,
               NEW m \in RowNumbers, NEW n \in RowNumbers,
               people'[i].of = <<y, m>>, people'[j].of = <<y, n>>, i < j
        PROVE  m < n
    <3>1. CASE j \in 1..Len(people)
      <4>1. i \in 1..Len(people)
        BY <1>1, <2>1, <3>1
      <4>2. people[i].of = <<y, m>> /\ people[j].of = <<y, n>>
        BY <2>1, <3>1, <4>1 DEF Adds
      <4>3. QED BY <2>1, <3>1, <4>1, <4>2 DEF RowsInOrder
    <3>2. ASSUME NEW l \in 1..Len(q), j = Len(people) + l, people'[j] = q[l]
          PROVE  m < n
      <4>0. PICK p \in RowNumbers : q[l] = Waiting(x, p)
        BY <1>3, <3>2
      <4>9. q[l].of = <<x, p>> /\ q[l].of = <<y, n>>
        BY <2>1, <3>2, <4>0 DEF Waiting
      <4>1. x = y /\ w[l].of = <<x, n>>
        BY <1>1, <3>2, <4>9
      <4>2. CASE i \in 1..Len(people)
        <5>1. people[i].of = <<x, m>>
          BY <2>1, <4>1, <4>2 DEF Adds
        <5>2. QED BY <1>1, <3>2, <4>1, <4>2, <5>1 DEF QueueOK
      <4>3. ASSUME NEW k \in 1..Len(q), i = Len(people) + k, people'[i] = q[k]
            PROVE  m < n
        <5>1. k < l /\ w[k].of = <<x, m>>
          BY <1>1, <2>1, <3>2, <4>1, <4>3
        <5>2. QED BY <1>1, <3>2, <4>1, <4>3, <5>1 DEF QueueOK
      <4>4. QED BY <1>1, <4>2, <4>3, PlacesAfter
    <3>3. QED BY <1>1, <3>1, <3>2, PlacesAfter
  <2>2. QED BY <2>1 DEF RowsInOrder
<1>6. QED BY <1>4, <1>5

(* A pass beside the one that moved. *)
LEMMA BesideOK ==
  ASSUME ImpInv, NEW x \in Imports, NEW y \in Imports \ {x}, NEW c \in PassType, NEW d \in PassType,
         PassOK(y, c), SamePass(c, d), NEW q \in Seq(PersonType), Adds(q), UNCHANGED file,
         \A k \in 1..Len(q) : \A n : q[k].of # <<y, n>>
  PROVE  PassOK(y, d)'
<1> USE DEF ImpInv
<1>1. FarOK(d) /\ SeenOK(d)' /\ PassPlanOK(d)'
  <2>1. FarOK(d)
    BY DEF PassOK, SamePass, FarOK
  <2>2. SeenOK(d)'
    BY DEF PassOK, SamePass, SeenOK, HasKey
  <2>3. PassPlanOK(d)'
    BY DEF PassOK, SamePass, PassPlanOK, DecidedOK, MeetsItself, Said, Again, HasKey, Met
  <2>4. QED BY <2>1, <2>2, <2>3
<1>2. KnownOK(y, d)'
  <2>1. \A id : (\E j \in 1..Len(people) : people[j].of = id)
                  => \E j \in 1..Len(people') : people'[j].of = id
    BY PlacesAfter DEF Adds
  <2>2. KnownOK(y, c) /\ d.read = c.read /\ d.known = c.known /\ d.plan = c.plan /\ d.commit = c.commit
    BY DEF PassOK, SamePass
  <2>3. ASSUME NEW i \in 1..Len(d.read)
        PROVE  \E j \in 1..Len(people') : people'[j].of = d.known[i].of
    <3>1. PICK id : id = d.known[i].of
      OBVIOUS
    <3>2. \E j \in 1..Len(people) : people[j].of = id
      BY <2>2, <3>1 DEF KnownOK
    <3>3. QED BY <2>1, <3>1, <3>2
  <2>4. QED BY <2>2, <2>3 DEF KnownOK, Made
<1>3. DoneOK(y, d)'
  <2>1. \A n : (There(y, n) => There(y, n)') /\ (Touched(y, n) => Touched(y, n)')
    BY ThereStays
  <2>2. QED BY <2>1 DEF PassOK, SamePass, DoneOK, Waits, MeetsItself
<1>4. QueueOK(y, d, d.pending)'
  <2>1. ASSUME NEW j \in 1..Len(people'), NEW m \in RowNumbers, people'[j].of = <<y, m>>
        PROVE  j \in 1..Len(people) /\ people[j].of = <<y, m>>
    <3>1. ASSUME NEW k \in 1..Len(q), people'[j] = q[k]
          PROVE  FALSE
      BY <2>1, <3>1
    <3>2. j \in 1..Len(people)
      BY <3>1, PlacesAfter
    <3>3. QED BY <2>1, <3>2 DEF Adds
  <2>2. QueueOK(y, c, c.pending) /\ d.pending = c.pending /\ d.plan = c.plan /\ d.commit = c.commit
    BY DEF PassOK, SamePass
  <2>3. \A n : Creates(d, n) = Creates(c, n)
    BY <2>2 DEF Creates
  <2>4. \A k \in 1..Len(d.pending) : \E n \in RowNumbers : Creates(d, n) /\ d.pending[k] = Waiting(y, n)
    BY <2>2, <2>3 DEF QueueOK
  <2>5. \A k, l \in 1..Len(d.pending), m, n \in RowNumbers :
          k < l /\ d.pending[k].of = <<y, m>> /\ d.pending[l].of = <<y, n>> => m < n
    BY <2>2 DEF QueueOK
  <2>6. \A j \in 1..Len(people'), k \in 1..Len(d.pending), m, n \in RowNumbers :
          people'[j].of = <<y, m>> /\ d.pending[k].of = <<y, n>> => m < n
    BY <2>1, <2>2 DEF QueueOK
  <2>7. QED BY <2>4, <2>5, <2>6 DEF QueueOK, Creates, Waiting
<1>5. LineOK(y, d)'
  BY DEF PassOK, SamePass, LineOK
<1>6. QED BY <1>1, <1>2, <1>3, <1>4, <1>5 DEF PassOK, FarOK

-----------------------------------------------------------------------------
(* The pass that moved: w waited, and either it still does or it was added. *)
Settles(d, w, q) == (q = <<>> /\ d.pending = w) \/ (q = w /\ d.pending = <<>>)

LEMMA QueueAfter ==
  ASSUME ImportTypes, NEW x \in Imports, NEW d \in PassType, NEW w \in Seq(PersonType),
         NEW q \in Seq(PersonType), QueueOK(x, d, w), Settles(d, w, q), Adds(q), UNCHANGED file
  PROVE  /\ QueueOK(x, d, d.pending)'
         /\ \A k \in 1..Len(q) : \E n \in RowNumbers : Creates(d, n) /\ q[k].of = <<x, n>>
         /\ \A n : There(x, n) \/ (\E k \in 1..Len(w) : w[k].of = <<x, n>>)
                   => There(x, n)' \/ Waits(d, x, n)
<1>1. CASE q = <<>> /\ d.pending = w
  <2>1. Len(q) = 0 /\ Len(people) \in Nat /\ Len(people') = Len(people)
    BY <1>1, EmptySeq, LenProperties DEF Adds, ImportTypes
  <2>2. \A j \in 1..Len(people') : j \in 1..Len(people) /\ people'[j].of = people[j].of
    BY <2>1 DEF Adds
  <2>3. \A k \in 1..Len(w) : \E n \in RowNumbers : Creates(d, n) /\ w[k] = Waiting(x, n)
    BY DEF QueueOK
  <2>4. \A k, l \in 1..Len(w), m, n \in RowNumbers :
          k < l /\ w[k].of = <<x, m>> /\ w[l].of = <<x, n>> => m < n
    BY DEF QueueOK
  <2>5. \A j \in 1..Len(people'), k \in 1..Len(w), m, n \in RowNumbers :
          people'[j].of = <<x, m>> /\ w[k].of = <<x, n>> => m < n
    BY <2>2 DEF QueueOK
  <2>6. QueueOK(x, d, d.pending)'
    BY <1>1, <2>3, <2>4, <2>5 DEF QueueOK, Creates, Waiting
  <2>7. \A n : There(x, n) => There(x, n)'
    BY ThereStays
  <2>8. QED BY <1>1, <2>1, <2>6, <2>7 DEF Waits
<1>2. CASE q = w /\ d.pending = <<>>
  <2>1. Len(d.pending) = 0
    BY <1>2, EmptySeq
  <2>2. QueueOK(x, d, d.pending)'
    BY <2>1 DEF QueueOK
  <2>9. \A n : Waiting(x, n).of = <<x, n>>
    BY DEF Waiting
  <2>3. \A k \in 1..Len(q) : \E n \in RowNumbers : Creates(d, n) /\ q[k].of = <<x, n>>
    BY <1>2, <2>9 DEF QueueOK
  <2>4. \A n : There(x, n) \/ (\E k \in 1..Len(w) : w[k].of = <<x, n>>) => There(x, n)'
    BY <1>2, ThereStays
  <2>5. QED BY <2>2, <2>3, <2>4
<1>3. QED BY <1>1, <1>2 DEF Settles

LEMMA LineAfter ==
  ASSUME ImportTypes, NEW x \in Imports, NEW s \in PassType, NEW d \in PassType,
         NEW q \in Seq(PersonType), Adds(q), LineOK(x, s), s.pc # "new",
         d.read = s.read, d.beside = s.beside,
         \A k \in 1..Len(q) : \E n \in RowNumbers : q[k].of = <<x, n>>
  PROVE  LineOK(x, d)'
<1>1. SUFFICES ASSUME ~s.beside PROVE LineOK(x, d)'
  BY DEF LineOK
<1>2. Len(people) \in Nat /\ Len(q) \in Nat /\ Len(people') = Len(people) + Len(q) /\ Len(s.read) \in Nat
  BY LenProperties, PassesApart DEF ImportTypes, Adds
<1>3. Len(s.read) <= Len(people) /\ Len(s.read) <= Len(people')
  BY <1>1, <1>2 DEF LineOK
<1>4. ASSUME NEW i \in 1..Len(s.read)
      PROVE  /\ \A n \in RowNumbers : people'[i].of # <<x, n>>
             /\ people'[i].rows = {} => people'[i].row = s.read[i]
  <2>1. i \in 1..Len(people)
    BY <1>2, <1>3
  <2>2. /\ \A n \in RowNumbers : people[i].of # <<x, n>>
        /\ people[i].rows = {} => people[i].row = s.read[i]
    BY <1>1 DEF LineOK
  <2>3. QED BY <2>1, <2>2 DEF Adds
<1>5. ASSUME NEW i \in 1..Len(people'), i > Len(s.read)
      PROVE  \E n \in RowNumbers : people'[i].of = <<x, n>>
  <2>1. CASE i \in 1..Len(people)
    BY <1>1, <1>5, <2>1 DEF LineOK, Adds
  <2>2. ASSUME NEW k \in 1..Len(q), people'[i] = q[k]
        PROVE  \E n \in RowNumbers : people'[i].of = <<x, n>>
    BY <2>2
  <2>3. QED BY <2>1, <2>2, PlacesAfter
<1>6. QED BY <1>3, <1>4, <1>5 DEF LineOK

(* What is made of a row: a contact that waits, in a pass that writes. *)
Makes(x, s, d, n, action, w) ==
  IF s.commit /\ action = "create"
  THEN w = Append(s.pending, Waiting(x, n)) /\ d.known = Append(s.known, Made(x, n))
  ELSE w = s.pending /\ d.known = s.known

Queued(x, s, d, n, action, w) ==
  /\ QueueOK(x, d, w)
  /\ \A m : Creates(s, m) => Creates(d, m)
  /\ \A m : Waits(s, x, m) => \E k \in 1..Len(w) : w[k].of = <<x, m>>
  /\ s.commit /\ action = "create" => \E k \in 1..Len(w) : w[k].of = <<x, n>>

LEMMA QueueGrows ==
  ASSUME ImpInv, NEW x \in Imports, NEW s \in PassType, NEW n \in RowNumbers,
         NEW action \in Actions, NEW d \in PassType, Takes(x, s, n, action, d),
         NEW w \in Seq(PersonType), Makes(x, s, d, n, action, w)
  PROVE  Queued(x, s, d, n, action, w)
<1> USE DEF ImpInv, Takes, Queued
<1>1. Len(s.plan) \in Nat /\ s.plan \in Seq(Actions) /\ s.pending \in Seq(PersonType)
      /\ Len(s.pending) \in Nat
  BY PassesApart, LenProperties
<1>2. /\ Len(d.plan) = n /\ d.plan[n] = action
      /\ \A m \in 1..Len(s.plan) : d.plan[m] = s.plan[m] /\ m \in 1..n
  BY <1>1, AppendProperties DEF RowTaken
<1>3. \A m : Creates(s, m) => Creates(d, m) /\ m < n
  BY <1>1, <1>2 DEF Creates, RowTaken
<1>4. QueueOK(x, s, s.pending)
  BY DEF PassOK
<1>5. CASE s.commit /\ action = "create"
  <2>1. /\ Len(w) = Len(s.pending) + 1 /\ w[Len(s.pending) + 1] = Waiting(x, n)
        /\ \A k \in 1..Len(s.pending) : w[k] = s.pending[k]
    <3>1. Waiting(x, n) \in PersonType /\ w = Append(s.pending, Waiting(x, n))
      <4>1. file[n] \in RowType
        BY DEF ImportTypes
      <4>2. QED BY <1>5, <4>1 DEF Makes, Waiting, PersonType, Origins
    <3>2. QED BY <1>1, <3>1, AppendProperties
  <2>2. \A k \in 1..Len(w) : k \in 1..Len(s.pending) \/ k = Len(s.pending) + 1
    BY <1>1, <2>1
  <2>3. Creates(d, n)
    BY <1>2, <1>5, ImportAssumption DEF Creates, RowTaken, RowNumbers
  <2>4. \A k \in 1..Len(s.pending) : \E m \in RowNumbers :
          Creates(s, m) /\ m < n /\ w[k] = Waiting(x, m)
    BY <1>3, <1>4, <2>1 DEF QueueOK
  <2>5. \A k \in 1..Len(w) : \E m \in RowNumbers : Creates(d, m) /\ w[k] = Waiting(x, m)
    BY <1>3, <2>1, <2>2, <2>3, <2>4
  <2>14. \A m : Waiting(x, m).of = <<x, m>>
    BY DEF Waiting
  <2>6. ASSUME NEW k \in 1..Len(s.pending), NEW m \in RowNumbers, w[k].of = <<x, m>>
        PROVE  m < n
    <3>1. PICK p \in RowNumbers : p < n /\ w[k] = Waiting(x, p)
      BY <2>4
    <3>2. <<x, p>> = <<x, m>>
      BY <2>6, <2>14, <3>1
    <3>3. QED BY <3>1, <3>2
  <2>7. ASSUME NEW k \in 1..Len(w), NEW l \in 1..Len(w), NEW m \in RowNumbers, NEW p \in RowNumbers,
               k < l, w[k].of = <<x, m>>, w[l].of = <<x, p>>
        PROVE  m < p
    <3>1. k \in 1..Len(s.pending)
      BY <1>1, <2>1, <2>7
    <3>2. CASE l \in 1..Len(s.pending)
      <4>1. s.pending[k].of = <<x, m>> /\ s.pending[l].of = <<x, p>>
        BY <2>1, <2>7, <3>1, <3>2
      <4>2. QED BY <1>4, <2>7, <3>1, <3>2, <4>1 DEF QueueOK
    <3>3. CASE l = Len(s.pending) + 1
      <4>1. p = n
        BY <2>1, <2>7, <3>3 DEF Waiting
      <4>2. QED BY <2>6, <2>7, <3>1, <4>1
    <3>4. QED BY <2>2, <3>2, <3>3
  <2>8. ASSUME NEW j \in 1..Len(people), NEW k \in 1..Len(w), NEW m \in RowNumbers, NEW p \in RowNumbers,
               people[j].of = <<x, m>>, w[k].of = <<x, p>>
        PROVE  m < p
    <3>1. CASE k \in 1..Len(s.pending)
      <4>1. s.pending[k].of = <<x, p>>
        BY <2>1, <2>8, <3>1
      <4>2. QED BY <1>4, <2>8, <3>1, <4>1 DEF QueueOK
    <3>2. CASE k = Len(s.pending) + 1
      <4>1. p = n
        BY <2>1, <2>8, <3>2 DEF Waiting
      <4>2. Creates(s, m)
        BY <2>8 DEF PeopleOK
      <4>3. QED BY <1>3, <4>1, <4>2
    <3>3. QED BY <2>2, <3>1, <3>2
  <2>9. QueueOK(x, d, w)
    BY <2>5, <2>7, <2>8 DEF QueueOK
  <2>10. \A k \in 1..Len(s.pending) : k \in 1..Len(w)
    BY <1>1, <2>1
  <2>11. \A m : Waits(s, x, m) => \E k \in 1..Len(w) : w[k].of = <<x, m>>
    BY <2>1, <2>10 DEF Waits
  <2>12. Len(s.pending) + 1 \in 1..Len(w) /\ w[Len(s.pending) + 1].of = <<x, n>>
    BY <1>1, <2>1 DEF Waiting
  <2>13. QED BY <1>3, <2>9, <2>11, <2>12
<1>6. CASE ~(s.commit /\ action = "create")
  <2>1. w = s.pending
    BY <1>6 DEF Makes
  <2>2. QueueOK(x, d, w)
    BY <1>3, <1>4, <2>1 DEF QueueOK
  <2>3. QED BY <1>3, <1>6, <2>1, <2>2 DEF Waits
<1>7. QED BY <1>5, <1>6

(* A pass that took a row. *)
LEMMA RowOK ==
  ASSUME ImpInv, NEW x \in Imports, NEW s \in PassType, NEW n \in RowNumbers,
         NEW action \in Actions, NEW d \in PassType, Takes(x, s, n, action, d), d = import'[x],
         Len(d.pending) < Batch, UNCHANGED file,
         NEW w \in Seq(PersonType), Makes(x, s, d, n, action, w),
         NEW q \in Seq(PersonType), Settles(d, w, q), Adds(q),
         s.commit /\ action = "update" /\ ~MeetsItself(n) => Touched(x, n)',
         \A y \in Imports \ {x} : SamePass(import[y], import'[y])
  PROVE  PassOK(x, d)' /\ PeopleOK' /\ RowsInOrder'
<1>0. ImportTypes
  BY DEF ImpInv
<1>11. s = import[x] /\ PassOK(x, s) /\ s.pc = "rows" /\ n = Len(s.plan) + 1 /\ RowTaken(s, d, action)
  BY DEF Takes
<1>1. /\ QueueOK(x, d, w)
      /\ \A m : Creates(s, m) => Creates(d, m)
      /\ \A m : Waits(s, x, m) => \E k \in 1..Len(w) : w[k].of = <<x, m>>
      /\ s.commit /\ action = "create" => \E k \in 1..Len(w) : w[k].of = <<x, n>>
  <2>1. Queued(x, s, d, n, action, w)
    BY QueueGrows
  <2>2. QED BY <2>1 DEF Queued
<1>2. /\ QueueOK(x, d, d.pending)'
      /\ \A k \in 1..Len(q) : \E m \in RowNumbers : Creates(d, m) /\ q[k].of = <<x, m>>
      /\ \A m : There(x, m) \/ (\E k \in 1..Len(w) : w[k].of = <<x, m>>)
                => There(x, m)' \/ Waits(d, x, m)
  BY <1>0, <1>1, QueueAfter
<1>3. ~d.commit => d.pending = <<>>
  <2>1. ~s.commit => s.pending = <<>>
    BY <1>11 DEF PassOK, FarOK
  <2>2. ~d.commit => w = <<>>
    BY <1>11, <2>1 DEF Makes, RowTaken
  <2>3. QED BY <2>2 DEF Settles
<1>4. /\ FarOK(d) /\ SeenOK(d)' /\ PassPlanOK(d)'
      /\ Len(d.plan) = n /\ d.plan[n] = action
      /\ \A m \in 1..Len(s.plan) : m \in 1..n /\ m # n /\ d.plan[m] = s.plan[m]
      /\ \A m \in 1..n : m = n \/ m \in 1..Len(s.plan)
  BY <1>3, RowPlanned
<1>5. /\ d.commit = s.commit /\ d.read = s.read /\ d.beside = s.beside
      /\ Len(s.known) \in Nat /\ s.known \in Seq(KnownType) /\ Len(s.read) \in Nat
  BY PassesApart, LenProperties DEF RowTaken, Takes
<1>6. DoneOK(x, d)'
  <2>1. ASSUME d.commit, NEW m \in 1..n
        PROVE  /\ d.plan[m] = "create" => There(x, m)' \/ Waits(d, x, m)
               /\ d.plan[m] = "update" /\ ~MeetsItself(m) => Touched(x, m)'
    <3>1. CASE m = n
      BY <1>1, <1>2, <1>4, <1>5, <2>1, <3>1
    <3>2. CASE m \in 1..Len(s.plan)
      <4>1. /\ s.plan[m] = "create" => There(x, m) \/ Waits(s, x, m)
            /\ s.plan[m] = "update" /\ ~MeetsItself(m) => Touched(x, m)
        BY <1>5, <1>11, <2>1, <3>2 DEF PassOK, DoneOK
      <4>2. Touched(x, m) => Touched(x, m)'
        BY <1>0, ThereStays
      <4>3. QED BY <1>1, <1>2, <1>4, <3>2, <4>1, <4>2
    <3>3. QED BY <1>4, <3>1, <3>2
  <2>2. QED BY <1>4, <2>1 DEF DoneOK, Waits, MeetsItself
<1>7. KnownOK(x, d)'
  <2>1. KnownOK(x, s)
    BY <1>11 DEF PassOK
  <2>2. /\ Len(s.known) <= Len(d.known) /\ Len(d.known) \in Nat
        /\ \A i \in 1..Len(s.known) : i \in 1..Len(d.known) /\ d.known[i] = s.known[i]
        /\ \A i \in 1..Len(d.known) : i \in 1..Len(s.known)
                                       \/ (s.commit /\ action = "create" /\ d.known[i] = Made(x, n))
        /\ s.commit /\ action = "create" => \E i \in 1..Len(d.known) : d.known[i] = Made(x, n)
    <3>1. CASE s.commit /\ action = "create"
      <4>1. /\ Len(d.known) = Len(s.known) + 1 /\ d.known[Len(s.known) + 1] = Made(x, n)
            /\ \A i \in 1..Len(s.known) : d.known[i] = s.known[i]
        <5>1. d.known = Append(s.known, Made(x, n)) /\ Made(x, n) \in KnownType
          <6>1. Made(x, n) \in KnownType
            BY <1>0 DEF Made, KnownType, Origins, ImportTypes
          <6>2. QED BY <3>1, <6>1 DEF Makes
        <5>2. QED BY <1>5, <5>1, AppendProperties
      <4>2. /\ \A i \in 1..Len(s.known) : i \in 1..Len(d.known)
            /\ \A i \in 1..Len(d.known) : i \in 1..Len(s.known) \/ i = Len(s.known) + 1
            /\ Len(s.known) + 1 \in 1..Len(d.known)
        BY <1>5, <4>1
      <4>4. Len(s.known) <= Len(d.known) /\ Len(d.known) \in Nat
        BY <1>5, <4>1
      <4>5. \A i \in 1..Len(d.known) : i \in 1..Len(s.known) \/ d.known[i] = Made(x, n)
        BY <4>1, <4>2
      <4>3. QED BY <3>1, <4>1, <4>2, <4>4, <4>5
    <3>2. CASE ~(s.commit /\ action = "create")
      BY <1>5, <3>2 DEF Makes
    <3>3. QED BY <3>1, <3>2
  <2>3. \A i \in 1..Len(s.read) : i \in 1..Len(s.known)
    BY <1>5, <2>1 DEF KnownOK
  <2>4. \A id : (\E j \in 1..Len(people) : people[j].of = id)
                  => \E j \in 1..Len(people') : people'[j].of = id
    BY <1>0, PlacesAfter DEF Adds
  <2>5. ASSUME NEW i \in 1..Len(s.read)
        PROVE  d.known[i].row = s.read[i] /\ \E j \in 1..Len(people') : people'[j].of = d.known[i].of
    <3>1. PICK id : id = s.known[i].of
      OBVIOUS
    <3>2. d.known[i] = s.known[i] /\ s.known[i].row = s.read[i]
      BY <2>1, <2>2, <2>3 DEF KnownOK
    <3>3. \E j \in 1..Len(people) : people[j].of = id
      BY <2>1, <3>1 DEF KnownOK
    <3>4. QED BY <2>4, <3>1, <3>2, <3>3
  <2>6. ASSUME NEW i \in 1..Len(d.known), i > Len(s.read)
        PROVE  \E m \in 1..n : d.known[i] = Made(x, m)
    <3>1. n \in 1..n
      BY ImportAssumption DEF RowNumbers
    <3>2. CASE i \in 1..Len(s.known)
      <4>1. PICK m \in 1..Len(s.plan) : s.known[i] = Made(x, m)
        BY <2>1, <2>6, <3>2 DEF KnownOK
      <4>2. QED BY <1>4, <2>2, <3>2, <4>1
    <3>3. QED BY <2>2, <3>1, <3>2
  <2>7. ASSUME s.commit, NEW m \in 1..n, d.plan[m] = "create"
        PROVE  \E i \in 1..Len(d.known) : d.known[i].row = file[m]
    <3>1. CASE m = n
      BY <1>4, <2>2, <2>7, <3>1 DEF Made
    <3>2. CASE m \in 1..Len(s.plan)
      <4>1. PICK i \in 1..Len(s.known) : s.known[i].row = file[m]
        BY <1>4, <2>1, <2>7, <3>2 DEF KnownOK
      <4>2. QED BY <2>2, <4>1
    <3>3. QED BY <1>4, <3>1, <3>2
  <2>8. Len(s.read) <= Len(d.known)
    BY <1>5, <2>1, <2>2 DEF KnownOK
  <2>9. \A m : Made(x, m)' = Made(x, m)
    BY DEF Made
  <2>10. \A i \in 1..Len(d.read) : /\ d.known[i].row = d.read[i]
                                    /\ \E j \in 1..Len(people') : people'[j].of = d.known[i].of
    BY <1>5, <2>5
  <2>11. \A i \in 1..Len(d.known) :
           i > Len(d.read) => \E m \in 1..Len(d.plan) : d.known[i] = Made(x, m)'
    BY <1>4, <1>5, <2>6, <2>9
  <2>12. d.commit => \A m \in 1..Len(d.plan) :
           d.plan[m] = "create" => \E i \in 1..Len(d.known) : d.known[i].row = file'[m]
    BY <1>4, <1>5, <2>7
  <2>13. Len(d.read) <= Len(d.known)
    BY <1>5, <2>8
  <2>14. QED BY <2>10, <2>11, <2>12, <2>13 DEF KnownOK
<1>8. LineOK(x, d)'
  <2>1. \A k \in 1..Len(q) : \E m \in RowNumbers : q[k].of = <<x, m>>
    BY <1>2
  <2>2. LineOK(x, s) /\ s.pc # "new"
    BY <1>11 DEF PassOK
  <2>3. QED BY <1>0, <1>5, <2>1, <2>2, LineAfter
<1>9. PeopleOK' /\ RowsInOrder'
  <2>1. q \in {<<>>, w}
    BY DEF Settles
  <2>2. QED BY <1>1, <1>11, <2>1, PeopleAfter
<1>10. QED BY <1>2, <1>4, <1>6, <1>7, <1>8, <1>9 DEF PassOK, FarOK

-----------------------------------------------------------------------------
(* One step for each thing a pass does. *)
ImportBeginStep(x)  == \E mode \in Modes, commit \in BOOLEAN : BeginImport(x, mode, commit)
RowStep(x)    == SkipRow(x) \/ UpdateRow(x) \/ CreateRow(x)

(* Who did not move is as it was, or was written beside. *)
LEMMA OthersOK ==
  ASSUME ImpInv, ImportTypes', NEW x \in Imports, NEW q \in Seq(PersonType), Adds(q), UNCHANGED file,
         \A k \in 1..Len(q) : \E n \in RowNumbers : q[k].of = <<x, n>>,
         \A y \in Imports \ {x} : SamePass(import[y], import'[y]),
         NEW e \in PassType, e = import'[x], PassOK(x, e)'
  PROVE  AllPassesOK'
<1>1. ASSUME NEW y \in Imports \ {x}, NEW d \in PassType, d = import'[y]
      PROVE  PassOK(y, d)'
  <2>1. PICK c \in PassType : c = import[y]
    BY DEF ImpInv, ImportTypes
  <2>2. PassOK(y, c) /\ SamePass(c, d)
    BY <1>1, <2>1 DEF ImpInv, AllPassesOK
  <2>3. \A k \in 1..Len(q) : \A n : q[k].of # <<y, n>>
    BY <1>1
  <2>4. QED BY <2>2, <2>3, BesideOK
<1>2. ASSUME NEW y \in Imports, NEW d \in PassType, d = import'[y]
      PROVE  PassOK(y, d)'
  <2>1. CASE y = x
    BY <1>2, <2>1
  <2>2. QED BY <1>1, <1>2, <2>1
<1>3. QED BY <1>2 DEF AllPassesOK

RowAt(x, s, n, action) ==
  /\ s = import[x] /\ s.pc = "rows" /\ PassOK(x, s) /\ n = Len(s.plan) + 1 /\ n \in RowNumbers
  /\ action \in Actions /\ DecidedOK(s, n, action)
RowMade(x, s, n, action, known, w) ==
  IF s.commit /\ action = "create"
  THEN w = Append(s.pending, Waiting(x, n)) /\ known = Append(s.known, Made(x, n))
  ELSE w = s.pending /\ known = s.known
RowWrites(x, s, n, action, known, pending, w, q) ==
  /\ known \in Seq(KnownType) /\ pending \in Seq(PersonType)
  /\ Took(x, action, known, pending) /\ Len(pending) < Batch
  /\ w \in Seq(PersonType) /\ q \in Seq(PersonType)
  /\ (q = <<>> /\ pending = w) \/ (q = w /\ pending = <<>>)
  /\ Adds(q) /\ Len(people') <= MaxContacts /\ UNCHANGED file
  /\ s.commit /\ action = "update" /\ ~MeetsItself(n) => Touched(x, n)'

LEMMA RowMoves ==
  ASSUME ImpInv, NEW x \in Imports, NEW s \in PassType, NEW n, NEW action,
         RowAt(x, s, n, action), NEW known, NEW pending, NEW w, NEW q,
         RowMade(x, s, n, action, known, w), RowWrites(x, s, n, action, known, pending, w, q)
  PROVE  ImpInv'
<1> USE DEF RowAt, RowMade, RowWrites
<1>1. ImportTypes /\ Len(s.plan) < RowCount
  BY DEF ImpInv, PassOK, FarOK
<1>2. /\ import' \in [Imports -> PassType]
      /\ RowTaken(s, import'[x], action)
      /\ import'[x].known = known /\ import'[x].pending = pending
      /\ \A y \in Imports \ {x} : SamePass(import[y], import'[y])
  BY <1>1, TookEffect
<1>3. PICK d \in PassType : d = import'[x]
  BY <1>2
<1>4. ImportTypes'
  BY <1>1, <1>2 DEF ImportTypes, Adds
<1>5. Takes(x, s, n, action, d) /\ Makes(x, s, d, n, action, w) /\ Settles(d, w, q)
      /\ Len(d.pending) < Batch
  BY <1>2, <1>3 DEF Takes, Makes, Settles
<1>6. PassOK(x, d)' /\ PeopleOK' /\ RowsInOrder'
  BY <1>2, <1>3, <1>5, RowOK
<1>7. \A k \in 1..Len(q) : \E m \in RowNumbers : q[k].of = <<x, m>>
  <2>1. Queued(x, s, d, n, action, w)
    BY <1>5, QueueGrows
  <2>2. QueueOK(x, d, w)
    BY <2>1 DEF Queued
  <2>3. QED BY <1>1, <1>5, <2>2, QueueAfter
<1>8. AllPassesOK'
  BY <1>2, <1>3, <1>4, <1>6, <1>7, OthersOK
<1>9. QED BY <1>4, <1>6, <1>8 DEF ImpInv

(* An update is on the contact it met, which is there unless the pass made it. *)
LEMMA UpdateTouches ==
  ASSUME ImpInv, NEW x \in Imports, NEW s \in PassType, s = import[x], PassOK(x, s),
         NEW n \in RowNumbers, n = Len(s.plan) + 1, Existing(x) \in 1..Len(s.known), UpdateRow(x)
  PROVE  /\ Adds(<<>>)
         /\ s.commit /\ Existing(x) \in 1..Len(s.read) => Touched(x, n)'
<1>1. ImportTypes /\ people \in Seq(PersonType) /\ Len(people) \in Nat /\ DOMAIN people = 1..Len(people)
  BY LenProperties DEF ImpInv, ImportTypes
<1>2. CASE ~s.commit
  <2>1. people' = people
    BY <1>2 DEF UpdateRow
  <2>2. QED BY <1>1, <1>2, <2>1, AddsNothing
<1>3. CASE s.commit
  <2>1. PICK of : of = s.known[Existing(x)].of
    OBVIOUS
  <2>2. PICK row \in RowType : row = file[n]
    BY <1>1 DEF ImportTypes
  <2> DEFINE Meets(i) == \/ people[i].of # <<>> /\ people[i].of = of
                         \/ of = <<>> /\ people[i].of = <<>>
             Given(p) == [p EXCEPT !.rows = @ \cup {<<x, n>>},
                            !.row.phone = IF row.phone = NoValue THEN @ ELSE row.phone]
  <2>3. people' = [i \in 1..Len(people) |-> IF Meets(i) THEN Given(people[i]) ELSE people[i]]
    BY <1>1, <1>3, <2>1, <2>2 DEF UpdateRow, RowNumber, RowHere
  <2>4. ASSUME NEW p \in PersonType
        PROVE  Given(p) \in PersonType /\ Given(p).of = p.of /\ Given(p).rows = p.rows \cup {<<x, n>>}
    <3>1. PICK u : u = p.rows \cup {<<x, n>>}
      OBVIOUS
    <3>2. PICK ph : ph = IF row.phone = NoValue THEN p.row.phone ELSE row.phone
      OBVIOUS
    <3>3. p.row \in RowType /\ p.rows \in SUBSET (Imports \X RowNumbers) /\ p.of \in Origins
      BY DEF PersonType
    <3>4. ph \in FilePhones \cup {NoValue}
      BY <3>2, <3>3, <2>2 DEF RowType
    <3>5. PICK r : r = [p.row EXCEPT !.phone = ph]
      OBVIOUS
    <3>6. r \in RowType
      BY <3>3, <3>4, <3>5 DEF RowType
    <3>7. Given(p) = [p EXCEPT !.rows = u, !.row = r]
      BY <3>1, <3>2, <3>5, Zenon DEF PersonType
    <3>8. u \in SUBSET (Imports \X RowNumbers)
      BY <3>1, <3>3
    <3>9. QED BY <3>1, <3>3, <3>6, <3>7, <3>8 DEF PersonType
  <2> HIDE DEF Given
  <2>5. \A i \in 1..Len(people) : people[i] \in PersonType
    BY <1>1, ElementOfSeq
  <2>6. people' \in Seq(PersonType) /\ Len(people') = Len(people)
    <3>1. \A i \in 1..Len(people) : (IF Meets(i) THEN Given(people[i]) ELSE people[i]) \in PersonType
      BY <2>4, <2>5
    <3>2. people' \in [1..Len(people) -> PersonType]
      BY <2>3, <3>1
    <3>3. QED BY <1>1, <3>2, SeqDef, LenProperties
  <2>7. \A i \in 1..Len(people) :
          /\ people'[i].of = people[i].of /\ people[i].rows \subseteq people'[i].rows
          /\ people'[i].rows = {} => people'[i].row = people[i].row
          /\ Meets(i) => <<x, n>> \in people'[i].rows
    BY <2>3, <2>4, <2>5
  <2>8. Adds(<<>>)
    BY <1>1, <2>6, <2>7, EmptySeq DEF Adds
  <2>9. ASSUME Existing(x) \in 1..Len(s.read)
        PROVE  Touched(x, n)'
    <3>1. PICK j \in 1..Len(people) : people[j].of = of
      BY <2>1, <2>9 DEF PassOK, KnownOK
    <3>2. Meets(j)
      BY <3>1
    <3>3. QED BY <2>6, <2>7, <3>2 DEF Touched
  <2>10. QED BY <2>8, <2>9
<1>4. QED BY <1>2, <1>3, PassesApart

LEMMA RowStepOK ==
  ASSUME ImpInv, NEW x \in Imports, RowStep(x)
  PROVE  ImpInv'
<1>1. PICK s \in PassType : s = import[x]
  BY DEF ImpInv, ImportTypes
<1>2. ImportTypes /\ PassOK(x, s)
  BY <1>1 DEF ImpInv, AllPassesOK
<1>3. s.pc = "rows"
  BY <1>1 DEF RowStep, SkipRow, UpdateRow, CreateRow, TakesRow
<1>4. PICK n \in RowNumbers : n = Len(s.plan) + 1
  BY <1>2, <1>3, PassesApart, LenProperties, ImportAssumption DEF PassOK, FarOK, RowNumbers
<1>5. PICK action : action = RowAction(x)
  OBVIOUS
<1>6. /\ action \in Actions
      /\ DecidedOK(s, n, action)
      /\ action = "update" => Existing(x) \in 1..Len(s.known)
      /\ action = "update" /\ ~MeetsItself(n) => Existing(x) \in 1..Len(s.read)
  BY <1>1, <1>2, <1>3, <1>4, <1>5, Decides
<1>7. /\ s.known \in Seq(KnownType) /\ s.pending \in Seq(PersonType) /\ <<>> \in Seq(PersonType)
      /\ Len(s.pending) \in Nat /\ Len(s.pending) < Batch /\ Len(<<>>) = 0
  BY <1>2, PassesApart, LenProperties, EmptySeq DEF PassOK, FarOK
<1>12. RowAt(x, s, n, action)
  BY <1>1, <1>2, <1>3, <1>4, <1>6 DEF RowAt
<1>8. CASE SkipRow(x)
  <2>1. action = "skip" /\ UNCHANGED <<file, people>> /\ Took(x, action, s.known, s.pending)
    BY <1>1, <1>5, <1>8 DEF SkipRow, TakesRow
  <2>2. Adds(<<>>) /\ Len(people') <= MaxContacts
    BY <1>2, <2>1, AddsNothing DEF ImportTypes
  <2>3. RowMade(x, s, n, action, s.known, s.pending)
        /\ RowWrites(x, s, n, action, s.known, s.pending, s.pending, <<>>)
    BY <1>7, <2>1, <2>2 DEF RowMade, RowWrites
  <2>4. QED BY <1>12, <2>3, RowMoves
<1>9. CASE UpdateRow(x)
  <2>1. action = "update" /\ UNCHANGED file /\ Took(x, action, s.known, s.pending)
    BY <1>1, <1>5, <1>9 DEF UpdateRow, TakesRow
  <2>2. Adds(<<>>) /\ (s.commit /\ Existing(x) \in 1..Len(s.read) => Touched(x, n)')
    BY <1>1, <1>2, <1>4, <1>6, <1>9, <2>1, UpdateTouches
  <2>3. Len(people') <= MaxContacts
    BY <1>2, <1>7, <2>2, LenProperties DEF Adds, ImportTypes
  <2>4. s.commit /\ action = "update" /\ ~MeetsItself(n) => Touched(x, n)'
    BY <1>6, <2>2
  <2>5. RowMade(x, s, n, action, s.known, s.pending)
        /\ RowWrites(x, s, n, action, s.known, s.pending, s.pending, <<>>)
    BY <1>7, <2>1, <2>2, <2>3, <2>4 DEF RowMade, RowWrites
  <2>6. QED BY <1>12, <2>5, RowMoves
<1>10. CASE CreateRow(x)
  <2>1. action = "create" /\ UNCHANGED file
    BY <1>5, <1>10 DEF CreateRow, TakesRow
  <2>2. CASE ~s.commit
    <3>1. UNCHANGED people /\ Took(x, action, s.known, <<>>)
      BY <1>1, <1>10, <2>1, <2>2 DEF CreateRow
    <3>2. s.pending = <<>>
      BY <1>2, <2>2 DEF PassOK, FarOK
    <3>3. Adds(<<>>) /\ Len(people') <= MaxContacts
      BY <1>2, <3>1, AddsNothing DEF ImportTypes
    <3>4. RowMade(x, s, n, action, s.known, s.pending)
          /\ RowWrites(x, s, n, action, s.known, s.pending, s.pending, <<>>)
      BY <1>7, <2>1, <2>2, <3>1, <3>2, <3>3 DEF RowMade, RowWrites
    <3>5. QED BY <1>12, <3>4, RowMoves
  <2>3. CASE s.commit
    <3>1. PICK w : w = Append(s.pending, Waiting(x, n))
      OBVIOUS
    <3>2. PICK known : known = Append(s.known, Made(x, n))
      OBVIOUS
    <3>3. Waiting(x, n) \in PersonType /\ Made(x, n) \in KnownType
      BY <1>2 DEF Waiting, Made, PersonType, KnownType, Origins, ImportTypes
    <3>4. w \in Seq(PersonType) /\ known \in Seq(KnownType) /\ Len(w) = Len(s.pending) + 1
      BY <1>7, <3>1, <3>2, <3>3, AppendProperties
    <3>5. /\ people' = IF Len(w) >= Batch THEN people \o w ELSE people
          /\ Len(people') <= MaxContacts
          /\ Took(x, action, known, IF Len(w) >= Batch THEN <<>> ELSE w)
      BY <1>1, <1>4, <1>10, <2>1, <2>3, <3>1, <3>2 DEF CreateRow, Waiting, Made, RowHere, RowNumber
    <3>6. CASE Len(w) >= Batch
      <4>1. Adds(w) /\ Took(x, action, known, <<>>)
        BY <1>2, <3>4, <3>5, <3>6, AddsConcat
      <4>2. RowMade(x, s, n, action, known, w) /\ 0 < Batch
        BY <2>1, <2>3, <3>1, <3>2, ImportAssumption DEF RowMade
      <4>3. RowWrites(x, s, n, action, known, <<>>, w, w)
        BY <1>7, <2>1, <3>4, <3>5, <4>1, <4>2 DEF RowWrites
      <4>4. QED BY <1>12, <4>2, <4>3, RowMoves
    <3>7. CASE Len(w) < Batch
      <4>1. Adds(<<>>) /\ Took(x, action, known, w)
        BY <1>2, <3>4, <3>5, <3>7, ImportAssumption, AddsNothing
      <4>2. RowMade(x, s, n, action, known, w)
        BY <2>1, <2>3, <3>1, <3>2 DEF RowMade
      <4>3. RowWrites(x, s, n, action, known, w, w, <<>>)
        BY <1>7, <2>1, <3>4, <3>5, <3>7, <4>1 DEF RowWrites
      <4>4. QED BY <1>12, <4>2, <4>3, RowMoves
    <3>8. QED BY <1>7, <3>4, <3>6, <3>7, ImportAssumption
  <2>4. QED BY <2>2, <2>3, PassesApart
<1>11. QED BY <1>8, <1>9, <1>10 DEF RowStep

-----------------------------------------------------------------------------
(* A pass that is over, what waited being added, or dead, and it is lost. *)
Closes(s, d, q) ==
  /\ d.mode = s.mode /\ d.commit = s.commit /\ d.read = s.read /\ d.known = s.known
  /\ d.seen = s.seen /\ d.plan = s.plan /\ d.beside = s.beside /\ d.pending = <<>> /\ s.pc # "new"
  /\ \/ d.pc = "over" /\ s.pc = "finish" /\ q = s.pending
     \/ d.pc = "dead" /\ q = <<>>

LEMMA PassEnds ==
  ASSUME ImpInv, NEW x \in Imports, NEW s \in PassType, s = import[x], NEW d \in PassType, d = import'[x],
         NEW q \in Seq(PersonType), Closes(s, d, q), Adds(q), ImportTypes', UNCHANGED file,
         \A y \in Imports \ {x} : SamePass(import[y], import'[y])
  PROVE  ImpInv'
<1>0. ImportTypes /\ PassOK(x, s) /\ Len(<<>>) = 0
  BY EmptySeq DEF ImpInv, AllPassesOK
<1>1. /\ d.commit = s.commit /\ d.plan = s.plan /\ d.read = s.read /\ d.known = s.known
      /\ d.beside = s.beside /\ d.mode = s.mode /\ d.seen = s.seen /\ d.pending = <<>> /\ s.pc # "new"
  BY DEF Closes
<1>2. \A n : Creates(d, n) = Creates(s, n)
  BY <1>1 DEF Creates
<1>3. QueueOK(x, d, s.pending) /\ QueueOK(x, d, q)
  <2>1. QueueOK(x, s, s.pending)
    BY <1>0 DEF PassOK
  <2>2. QueueOK(x, d, s.pending)
    BY <1>2, <2>1 DEF QueueOK
  <2>3. QueueOK(x, d, <<>>)
    BY <1>0 DEF QueueOK
  <2>4. QED BY <2>2, <2>3 DEF Closes
<1>4. Settles(d, q, q)
  BY <1>1 DEF Settles
<1>5. /\ QueueOK(x, d, d.pending)'
      /\ \A k \in 1..Len(q) : \E n \in RowNumbers : Creates(d, n) /\ q[k].of = <<x, n>>
      /\ \A n : There(x, n) \/ (\E k \in 1..Len(q) : q[k].of = <<x, n>>)
                => There(x, n)' \/ Waits(d, x, n)
  BY <1>0, <1>3, <1>4, QueueAfter
<1>6. FarOK(d) /\ SeenOK(d)' /\ PassPlanOK(d)'
  <2>1. FarOK(d)
    BY <1>0, <1>1, ImportAssumption DEF PassOK, FarOK, Closes
  <2>2. SeenOK(d)'
    BY <1>0, <1>1 DEF PassOK, SeenOK, HasKey
  <2>3. PassPlanOK(d)'
    BY <1>0, <1>1 DEF PassOK, PassPlanOK, DecidedOK, MeetsItself, Said, Again, HasKey, Met
  <2>4. QED BY <2>1, <2>2, <2>3
<1>7. KnownOK(x, d)'
  <2>1. \A id : (\E j \in 1..Len(people) : people[j].of = id)
                  => \E j \in 1..Len(people') : people'[j].of = id
    BY <1>0, PlacesAfter DEF Adds
  <2>2. KnownOK(x, s)
    BY <1>0 DEF PassOK
  <2>3. ASSUME NEW i \in 1..Len(d.read)
        PROVE  \E j \in 1..Len(people') : people'[j].of = d.known[i].of
    <3>1. PICK id : id = d.known[i].of
      OBVIOUS
    <3>2. \E j \in 1..Len(people) : people[j].of = id
      BY <1>1, <2>2, <3>1 DEF KnownOK
    <3>3. QED BY <2>1, <3>1, <3>2
  <2>4. QED BY <1>1, <2>2, <2>3 DEF KnownOK, Made
<1>8. DoneOK(x, d)'
  <2>1. ASSUME d.commit, NEW n \in 1..Len(d.plan)
        PROVE  /\ d.plan[n] = "create" /\ d.pc # "dead" => There(x, n)' \/ Waits(d, x, n)
               /\ d.plan[n] = "update" /\ ~MeetsItself(n) => Touched(x, n)'
    <3>1. /\ s.plan[n] = "create" /\ s.pc # "dead" => There(x, n) \/ Waits(s, x, n)
          /\ s.plan[n] = "update" /\ ~MeetsItself(n) => Touched(x, n)
      BY <1>0, <1>1, <2>1 DEF PassOK, DoneOK
    <3>2. Touched(x, n) => Touched(x, n)'
      BY <1>0, ThereStays
    <3>3. CASE d.pc = "dead"
      BY <1>1, <3>1, <3>2, <3>3
    <3>4. CASE d.pc # "dead"
      <4>1. s.pc # "dead" /\ q = s.pending
        BY <3>4 DEF Closes
      <4>2. There(x, n) \/ Waits(s, x, n) => There(x, n)' \/ Waits(d, x, n)
        BY <1>5, <4>1 DEF Waits
      <4>3. QED BY <1>1, <3>1, <3>2, <4>1, <4>2
    <3>5. QED BY <3>3, <3>4
  <2>2. QED BY <2>1 DEF DoneOK, Waits, MeetsItself
<1>9. LineOK(x, d)'
  <2>1. \A k \in 1..Len(q) : \E m \in RowNumbers : q[k].of = <<x, m>>
    BY <1>5
  <2>2. LineOK(x, s)
    BY <1>0 DEF PassOK
  <2>3. QED BY <1>0, <1>1, <2>1, <2>2, LineAfter
<1>10. PassOK(x, d)'
  BY <1>5, <1>6, <1>7, <1>8, <1>9 DEF PassOK, FarOK
<1>11. PeopleOK' /\ RowsInOrder'
  <2>1. q \in {<<>>, q}
    OBVIOUS
  <2>2. QED BY <1>2, <1>3, <2>1, PeopleAfter
<1>12. AllPassesOK'
  <2>1. \A k \in 1..Len(q) : \E m \in RowNumbers : q[k].of = <<x, m>>
    BY <1>5
  <2>2. QED BY <1>10, <2>1, OthersOK
<1>13. QED BY <1>11, <1>12 DEF ImpInv

LEMMA ImportBegins ==
  ASSUME ImpInv, NEW x \in Imports, ImportBeginStep(x)
  PROVE  ImpInv'
<1>1. PICK s \in PassType : s = import[x]
  BY DEF ImpInv, ImportTypes
<1>2. /\ ImportTypes /\ PassOK(x, s) /\ people \in Seq(PersonType) /\ Len(people) \in Nat
      /\ DOMAIN people = 1..Len(people)
  BY <1>1, LenProperties DEF ImpInv, AllPassesOK, ImportTypes
<1>3. PICK mode \in Modes, commit \in BOOLEAN : BeginImport(x, mode, commit)
  BY DEF ImportBeginStep
<1>4. PICK read : read = [i \in 1..Len(people) |-> people[i].row]
  OBVIOUS
<1>5. PICK known : known = [i \in 1..Len(people) |-> [row |-> people[i].row, of |-> people[i].of]]
  OBVIOUS
<1>6. \A i \in 1..Len(people) : people[i] \in PersonType
  BY <1>2, ElementOfSeq
<1>7. /\ read \in Seq(RowType) /\ Len(read) = Len(people)
      /\ known \in Seq(KnownType) /\ Len(known) = Len(people)
  <2>1. read \in [1..Len(people) -> RowType]
    BY <1>4, <1>6 DEF PersonType
  <2>2. known \in [1..Len(people) -> KnownType]
    BY <1>5, <1>6 DEF PersonType, KnownType
  <2>3. read \in Seq(RowType) /\ known \in Seq(KnownType)
    BY <1>2, <2>1, <2>2, SeqDef
  <2>4. QED BY <1>2, <2>1, <2>2, <2>3, LenProperties
<1>8. PICK nb \in PassType : nb = NotBegun
  <2>1. <<>> \in Seq(PersonType) /\ <<>> \in Seq(Actions) /\ <<>> \in Seq(RowType) /\ <<>> \in Seq(KnownType)
    BY EmptySeq
  <2>2. QED BY <2>1 DEF PassType, NotBegun, Modes
<1>9. PICK d : d = [nb EXCEPT !.pc = "rows", !.mode = mode, !.commit = commit, !.read = read, !.known = known]
  OBVIOUS
<1>10. /\ d \in PassType
       /\ d.pc = "rows" /\ d.mode = mode /\ d.commit = commit /\ d.read = read /\ d.known = known
       /\ d.pending = <<>> /\ d.seen = {} /\ d.plan = <<>> /\ d.beside = FALSE
  <2>1. nb.pending = <<>> /\ nb.seen = {} /\ nb.plan = <<>> /\ nb.beside = FALSE
    BY <1>8 DEF NotBegun
  <2>2. QED BY <1>7, <1>9, <2>1 DEF PassType
<1>11. import' = [import EXCEPT ![x] = d] /\ UNCHANGED <<file, people>> /\ s.pc = "new"
  BY <1>1, <1>2, <1>3, <1>4, <1>5, <1>8, <1>9 DEF BeginImport
<1>12. ImportTypes' /\ import'[x] = d
  BY <1>2, <1>10, <1>11 DEF ImportTypes
<1>13. \A y \in Imports \ {x} : SamePass(import[y], import'[y])
  BY <1>11 DEF SamePass, ImpInv, ImportTypes
<1>14. Adds(<<>>) /\ Len(<<>>) = 0 /\ <<>> \in Seq(PersonType)
  BY <1>2, <1>11, AddsNothing, EmptySeq
<1>15. s.plan = <<>> /\ \A n : ~Creates(s, n)
  BY <1>2, <1>11, <1>14 DEF PassOK, FarOK, Creates
<1>16. PeopleOK' /\ RowsInOrder'
  <2>1. QueueOK(x, d, <<>>)
    BY <1>14 DEF QueueOK
  <2>2. \A n \in RowNumbers : Creates(import[x], n) => Creates(d, n)
    BY <1>1, <1>15
  <2>3. QED BY <1>10, <1>11, <1>12, <1>13, <1>14, <2>1, <2>2, PeopleAfter
<1>17. /\ d.pc = "rows" /\ d.mode = mode /\ d.commit = commit /\ d.read = read /\ d.known = known
       /\ d.pending = <<>> /\ d.seen = {} /\ d.plan = <<>> /\ d.beside = FALSE
       /\ Len(d.pending) = 0 /\ Len(d.plan) = 0
  BY <1>10, <1>14
<1>18. FarOK(d) /\ SeenOK(d)' /\ PassPlanOK(d)' /\ DoneOK(x, d)' /\ QueueOK(x, d, d.pending)'
  <2>1. FarOK(d)
    BY <1>17, ImportAssumption DEF FarOK
  <2>2. SeenOK(d)'
    BY <1>17 DEF SeenOK
  <2>3. PassPlanOK(d)' /\ DoneOK(x, d)' /\ QueueOK(x, d, d.pending)'
    BY <1>17 DEF PassPlanOK, DoneOK, QueueOK
  <2>4. QED BY <2>1, <2>2, <2>3
<1>19. KnownOK(x, d)'
  <2>1. \A i \in 1..Len(read) : known[i].row = read[i] /\ known[i].of = people'[i].of /\ i \in 1..Len(people')
    BY <1>4, <1>5, <1>7, <1>11
  <2>2. \A i \in 1..Len(read) : \E j \in 1..Len(people') : people'[j].of = known[i].of
    BY <2>1
  <2>3. \A i \in 1..Len(known) : ~(i > Len(read))
    BY <1>2, <1>7
  <2>4. Len(read) <= Len(known)
    BY <1>2, <1>7
  <2>5. QED BY <1>17, <2>1, <2>2, <2>3, <2>4 DEF KnownOK
<1>20. LineOK(x, d)'
  <2>1. \A i \in 1..Len(people) : \A n \in RowNumbers : people[i].of # <<x, n>>
    BY <1>1, <1>15 DEF ImpInv, PeopleOK
  <2>2. \A i \in 1..Len(people) : ~(i > Len(people)) /\ people[i].row = read[i]
    BY <1>2, <1>4
  <2>3. QED BY <1>2, <1>7, <1>11, <1>17, <2>1, <2>2 DEF LineOK
<1>21. PassOK(x, d)'
  BY <1>18, <1>19, <1>20 DEF PassOK, FarOK
<1>22. AllPassesOK'
  <2>1. PICK q \in Seq(PersonType) : q = <<>>
    BY <1>14
  <2>2. Adds(q) /\ \A k \in 1..Len(q) : \E n \in RowNumbers : q[k].of = <<x, n>>
    BY <1>14, <2>1
  <2>3. QED BY <1>10, <1>11, <1>12, <1>13, <1>21, <2>2, OthersOK
<1>23. QED BY <1>12, <1>16, <1>22 DEF ImpInv

LEMMA ImportEnds ==
  ASSUME ImpInv, NEW x \in Imports, FinishImport(x) \/ ImportDies(x)
  PROVE  ImpInv'
<1>1. PICK s \in PassType : s = import[x]
  BY DEF ImpInv, ImportTypes
<1>2. /\ ImportTypes /\ people \in Seq(PersonType) /\ s.pending \in Seq(PersonType)
      /\ <<>> \in Seq(PersonType)
  BY <1>1, PassesApart, EmptySeq DEF ImpInv, ImportTypes
<1>3. CASE FinishImport(x)
  <2>1. PICK d : d = [s EXCEPT !.pc = "over", !.pending = <<>>]
    OBVIOUS
  <2>2. d \in PassType /\ (s.pc = "finish" => Closes(s, d, s.pending))
    BY <1>2, <2>1 DEF PassType, Closes
  <2>3. /\ people' = people \o s.pending /\ Len(people') <= MaxContacts /\ UNCHANGED file /\ s.pc = "finish"
        /\ import' = [y \in Imports |-> IF y = x THEN d
                                         ELSE [import[y] EXCEPT !.beside = @ \/ people' # people]]
    BY <1>1, <1>3, <2>1 DEF FinishImport, Flushed, LastFlush
  <2>4. ASSUME NEW y \in Imports \ {x}
        PROVE  import'[y] \in PassType /\ SamePass(import[y], import'[y])
    <3>1. PICK b \in BOOLEAN : b = (import[y].beside \/ people' # people)
      OBVIOUS
    <3>2. PICK c \in PassType : c = import[y]
      BY <1>2 DEF ImportTypes
    <3>3. import'[y] = [c EXCEPT !.beside = b]
      BY <2>3, <3>1, <3>2
    <3>4. [c EXCEPT !.beside = b] \in PassType /\ ([c EXCEPT !.beside = b]).beside = b
      BY DEF PassType
    <3>5. QED BY <3>1, <3>2, <3>3, <3>4 DEF SamePass, PassType
  <2>5. import'[x] = d /\ import' \in [Imports -> PassType]
    BY <2>2, <2>3, <2>4
  <2>6. Adds(s.pending)
    BY <1>2, <2>3, AddsConcat
  <2>7. ImportTypes'
    BY <1>2, <2>3, <2>5, <2>6 DEF ImportTypes, Adds
  <2>8. QED BY <1>1, <1>2, <2>2, <2>3, <2>4, <2>5, <2>6, <2>7, PassEnds
<1>4. CASE ImportDies(x)
  <2>1. PICK d : d = [s EXCEPT !.pc = "dead", !.pending = <<>>]
    OBVIOUS
  <2>2. d \in PassType /\ (s.pc # "new" => Closes(s, d, <<>>))
    BY <1>2, <2>1 DEF PassType, Closes
  <2>3. import' = [import EXCEPT ![x] = d] /\ UNCHANGED <<file, people>> /\ s.pc # "new"
    BY <1>1, <1>2, <1>4, <2>1, Zenon DEF ImportDies, ImportTypes
  <2>4. ImportTypes' /\ import'[x] = d
    BY <1>2, <2>2, <2>3 DEF ImportTypes
  <2>5. \A y \in Imports \ {x} : SamePass(import[y], import'[y])
    BY <1>2, <2>3 DEF SamePass, ImportTypes
  <2>6. Adds(<<>>)
    BY <1>2, <2>3, AddsNothing
  <2>7. QED BY <1>1, <1>2, <2>2, <2>3, <2>4, <2>5, <2>6, PassEnds
<1>5. QED BY <1>3, <1>4

-----------------------------------------------------------------------------
(* It holds at the start, every step keeps it, and it says what the import *)
(* promises.                                                               *)
LEMMA ImpInitOK == ImportInit => ImpInv
<1> SUFFICES ASSUME ImportInit PROVE ImpInv
  OBVIOUS
<1>1. NotBegun \in PassType /\ Len(<<>>) = 0 /\ <<>> \in Seq(PersonType)
  <2>1. <<>> \in Seq(PersonType) /\ <<>> \in Seq(Actions) /\ <<>> \in Seq(RowType) /\ <<>> \in Seq(KnownType)
        /\ Len(<<>>) = 0
    BY EmptySeq
  <2>2. QED BY <2>1 DEF PassType, NotBegun, Modes
<1>2. /\ people \in Seq(PersonType) /\ Len(people) \in 0..1
      /\ \A i \in 1..Len(people) : people[i].of = <<>> /\ \A x, n : <<>> # <<x, n>>
  <2>1. CASE people = <<>>
    BY <1>1, <2>1
  <2>2. ASSUME NEW r \in RowType, people = <<[row |-> r, of |-> <<>>, rows |-> {}]>>
        PROVE  /\ people \in Seq(PersonType) /\ Len(people) = 1 /\ people[1].of = <<>>
               /\ \A x, n : <<>> # <<x, n>>
    <3>1. [row |-> r, of |-> <<>>, rows |-> {}] \in PersonType
      BY DEF PersonType, Origins
    <3>2. QED BY <2>2, <3>1
  <2>3. QED BY <2>1, <2>2 DEF ImportInit
<1>3. ImportTypes
  BY <1>1, <1>2, ImportAssumption DEF ImportInit, ImportTypes
<1>4. PeopleOK /\ RowsInOrder
  BY <1>2 DEF PeopleOK, RowsInOrder
<1>5. ASSUME NEW x \in Imports, NEW s \in PassType, s = import[x]
      PROVE  PassOK(x, s)
  <2>1. /\ s.pc = "new" /\ s.commit = FALSE /\ s.read = <<>> /\ s.known = <<>> /\ s.pending = <<>>
        /\ s.seen = {} /\ s.plan = <<>>
    BY <1>5 DEF ImportInit, NotBegun
  <2>2. FarOK(s) /\ SeenOK(s) /\ KnownOK(x, s)
    BY <1>1, <2>1, ImportAssumption DEF FarOK, SeenOK, KnownOK
  <2>3. PassPlanOK(s) /\ DoneOK(x, s) /\ QueueOK(x, s, s.pending) /\ LineOK(x, s)
    BY <1>1, <2>1 DEF PassPlanOK, DoneOK, QueueOK, LineOK
  <2>4. QED BY <2>2, <2>3 DEF PassOK
<1>6. QED BY <1>3, <1>4, <1>5 DEF ImpInv, AllPassesOK

LEMMA ImpInvIsInductive == ImpInv /\ [ImportNext]_importVars => ImpInv'
<1> SUFFICES ASSUME ImpInv, [ImportNext]_importVars PROVE ImpInv'
  OBVIOUS
<1>1. ASSUME NEW x \in Imports,
             \/ \E mode \in Modes, commit \in BOOLEAN : BeginImport(x, mode, commit)
             \/ SkipRow(x) \/ UpdateRow(x) \/ CreateRow(x) \/ FinishImport(x) \/ ImportDies(x)
      PROVE  ImpInv'
  <2>1. CASE ImportBeginStep(x)
    BY <2>1, ImportBegins
  <2>2. CASE RowStep(x)
    BY <2>2, RowStepOK
  <2>3. CASE FinishImport(x) \/ ImportDies(x)
    BY <2>3, ImportEnds
  <2>4. QED BY <1>1, <2>1, <2>2, <2>3 DEF ImportBeginStep, RowStep
<1>2. CASE UNCHANGED importVars
  <2>1. file' = file /\ people' = people /\ import' = import
    BY <1>2 DEF importVars
  <2>2. ImportTypes' /\ PeopleOK' /\ RowsInOrder'
    BY <2>1 DEF ImpInv, ImportTypes, PeopleOK, RowsInOrder, Creates
  <2>3. ASSUME NEW x \in Imports, NEW s \in PassType, s = import'[x]
        PROVE  PassOK(x, s)'
    <3>1. PassOK(x, s)
      BY <2>1, <2>3 DEF ImpInv, AllPassesOK
    <3>2. SeenOK(s)' /\ KnownOK(x, s)'
      BY <2>1, <3>1 DEF PassOK, SeenOK, KnownOK, HasKey, Made
    <3>3. PassPlanOK(s)'
      BY <2>1, <3>1 DEF PassOK, PassPlanOK, DecidedOK, MeetsItself, Said, Again, HasKey, Met
    <3>4. DoneOK(x, s)'
      BY <2>1, <3>1 DEF PassOK, DoneOK, There, Waits, Touched, MeetsItself
    <3>5. QueueOK(x, s, s.pending)'
      BY <2>1, <3>1 DEF PassOK, QueueOK, Creates, Waiting
    <3>6. LineOK(x, s)'
      BY <2>1, <3>1 DEF PassOK, LineOK
    <3>7. QED BY <3>1, <3>2, <3>3, <3>4, <3>5, <3>6 DEF PassOK, FarOK
  <2>4. QED BY <2>2, <2>3 DEF ImpInv, AllPassesOK
<1>3. QED BY <1>1, <1>2 DEF ImportNext

(* Of two contacts in line, what the pass that made the later one knew.    *)
LEMMA OneOfTwo ==
  ASSUME ImpInv, NEW i \in 1..Len(people), NEW j \in 1..Len(people), i < j, people[j].of # <<>>,
         HasIdentity(people[j].row), people[i].rows = {}, people[j].rows = {},
         NEW x, x = people[j].of[1], Matches(people[i].row, people[j].row)
  PROVE  import[x].mode = "create" \/ import[x].beside
<1>1. people \in Seq(PersonType) /\ Len(people) \in Nat
  BY LenProperties DEF ImpInv, ImportTypes
<1>2. people[j] \in PersonType
  BY <1>1, ElementOfSeq
<1>3. PICK n \in RowNumbers : x \in Imports /\ people[j].of = <<x, n>>
  BY <1>2 DEF PersonType, Origins
<1>4. PICK s \in PassType : s = import[x]
  BY <1>3 DEF ImpInv, ImportTypes
<1>5. PassOK(x, s) /\ Creates(s, n) /\ people[j].row = file[n]
  BY <1>3, <1>4 DEF ImpInv, AllPassesOK, PeopleOK
<1>6. SUFFICES ASSUME s.mode # "create", ~s.beside PROVE FALSE
  BY <1>4
<1>7. n \in 1..Len(s.plan) /\ s.plan[n] = "create" /\ s.commit
  BY <1>5 DEF Creates
<1>8. /\ ~Met(s.read, n)
      /\ \A m \in 1..(n - 1) : s.plan[m] = "create" => ~Matches(file[m], file[n])
  BY <1>5, <1>6, <1>7 DEF PassOK, PassPlanOK, DecidedOK
<1>9. s.pc # "new"
  BY <1>5, <1>7, EmptySeq DEF PassOK, FarOK
<1>10. Len(s.read) \in Nat
  BY PassesApart, LenProperties
<1>11. CASE i \in 1..Len(s.read)
  <2>1. people[i].row = s.read[i]
    BY <1>5, <1>6, <1>9, <1>11 DEF PassOK, LineOK
  <2>2. QED BY <1>5, <1>8, <1>11, <2>1 DEF Met
<1>12. CASE i > Len(s.read)
  <2>1. PICK m \in RowNumbers : people[i].of = <<x, m>>
    BY <1>5, <1>6, <1>9, <1>12 DEF PassOK, LineOK
  <2>2. m < n
    BY <1>3, <2>1 DEF ImpInv, RowsInOrder
  <2>3. Creates(s, m) /\ people[i].row = file[m]
    BY <1>3, <1>4, <2>1 DEF ImpInv, PeopleOK
  <2>4. m \in 1..(n - 1) /\ s.plan[m] = "create"
    BY <2>2, <2>3, ImportAssumption DEF RowNumbers, Creates
  <2>5. QED BY <1>5, <1>8, <2>3, <2>4
<1>13. QED BY <1>1, <1>10, <1>11, <1>12

LEMMA ImpInvSays == ImpInv => ImportHolds
<1> SUFFICES ASSUME ImpInv PROVE ImportHolds
  OBVIOUS
<1>1. \A x \in Imports : import[x] \in PassType
  BY DEF ImpInv, ImportTypes
<1>2. people \in Seq(PersonType) /\ DOMAIN people = 1..Len(people) /\ Len(people) \in Nat
  BY LenProperties DEF ImpInv, ImportTypes
<1>3. ImportTypeOK
  <2>1. \A i \in 1..Len(people) : people[i] \in PersonType
    BY <1>2, ElementOfSeq
  <2>2. ASSUME NEW x \in Imports
        PROVE  /\ import[x].pc \in {"new", "rows", "finish", "over", "dead"}
               /\ Len(import[x].plan) <= RowCount /\ Len(import[x].pending) < Batch
    <3>1. PICK s \in PassType : s = import[x]
      BY <1>1
    <3>2. FarOK(s)
      BY <3>1 DEF ImpInv, AllPassesOK, PassOK
    <3>3. QED BY <3>1, <3>2, PassesApart DEF FarOK
  <2>3. QED BY <1>2, <2>1, <2>2 DEF ImpInv, ImportTypes, ImportTypeOK
<1>4. ReportedIsThere
  <2>1. ASSUME NEW x \in Imports, NEW n \in RowNumbers, Committed(x)
        PROVE  /\ import[x].plan[n] = "create" => \E i \in DOMAIN people : people[i].of = <<x, n>>
               /\ import[x].plan[n] = "update" /\ ~MeetsItself(n)
                    => \E i \in DOMAIN people : <<x, n>> \in people[i].rows
    <3>1. PICK s \in PassType : s = import[x]
      BY <1>1
    <3>2. FarOK(s) /\ DoneOK(x, s) /\ s.pc = "over" /\ s.commit
      BY <2>1, <3>1 DEF ImpInv, AllPassesOK, PassOK, Committed
    <3>3. n \in 1..Len(s.plan) /\ Len(s.pending) = 0
      BY <3>2, EmptySeq DEF FarOK, RowNumbers
    <3>4. ~Waits(s, x, n)
      BY <3>3 DEF Waits
    <3>5. /\ s.plan[n] = "create" => There(x, n)
          /\ s.plan[n] = "update" /\ ~MeetsItself(n) => Touched(x, n)
      BY <3>2, <3>3, <3>4 DEF DoneOK
    <3>6. QED BY <1>2, <3>1, <3>5 DEF There, Touched
  <2>2. QED BY <2>1 DEF ReportedIsThere
<1>5. PreviewIsTrue
  <2>1. ASSUME NEW x \in Imports, NEW y \in Imports, import[x].pc = "over", import[y].pc = "over",
               import[x].mode = import[y].mode, import[x].read = import[y].read,
               ~\E n \in RowNumbers : MeetsItself(n)
        PROVE  import[x].plan = import[y].plan
    <3>1. PICK s \in PassType : s = import[x]
      BY <1>1
    <3>2. PICK r \in PassType : r = import[y]
      BY <1>1
    <3>3. /\ FarOK(s) /\ PassPlanOK(s) /\ FarOK(r) /\ PassPlanOK(r)
      BY <3>1, <3>2 DEF ImpInv, AllPassesOK, PassOK
    <3>4. Len(s.plan) = RowCount /\ Len(r.plan) = RowCount
      BY <2>1, <3>1, <3>2, <3>3 DEF FarOK
    <3>5. \A n \in 1..RowCount : s.plan[n] = Said(s, n) /\ r.plan[n] = Said(r, n)
      BY <2>1, <3>3, <3>4 DEF PassPlanOK, DecidedOK, RowNumbers
    <3>6. \A n : Said(s, n) = Said(r, n)
      BY <2>1, <3>1, <3>2 DEF Said
    <3>7. s.plan \in Seq(Actions) /\ r.plan \in Seq(Actions)
      BY PassesApart
    <3>8. s.plan = r.plan
      BY <3>4, <3>5, <3>6, <3>7, SeqEqual
    <3>9. QED BY <3>1, <3>2, <3>8
  <2>2. QED BY <2>1 DEF PreviewIsTrue
<1>6. NoSecondContact
  BY <1>2, OneOfTwo DEF NoSecondContact
<1>7. QED BY <1>3, <1>4, <1>5, <1>6 DEF ImportHolds

(* Whatever the file, the contacts and the batch: what an import that is over *)
(* reports is there, a preview of the same file against the same contacts     *)
(* told it, and no import makes a second contact of an identity it could see  *)
(* (backend/data_transfer.py: load_context, row, create, flush, finish).      *)
THEOREM ReportsAreTrue == ImportSpec => []ImportHolds
<1>1. ImpInv => ImportHolds
  BY ImpInvSays
<1>2. QED BY ImpInitOK, ImpInvIsInductive, <1>1, PTL DEF ImportSpec
=============================================================================
