---------------------------- MODULE ContactImport ----------------------------
(***************************************************************************)
(* backend/data_transfer.py: a file of contacts imported by an admin, or   *)
(* previewed: the same pass over the rows, which then writes nothing.  A   *)
(* pass reads the contacts once, when it begins, and matches its rows      *)
(* against what it read and what it has made itself; what it makes is      *)
(* inserted in batches.  Rows that are not valid, companies and deals are  *)
(* left out.                                                               *)
(*                                                                         *)
(* Bounds: RowCount rows in the file, MaxContacts contacts.                *)
(***************************************************************************)
EXTENDS Integers, Sequences

CONSTANTS Imports, FileEmails, FilePhones, NoValue, RowCount, MaxContacts, Batch

ASSUME ImportAssumption ==
  /\ RowCount \in Nat \ {0} /\ MaxContacts \in Nat \ {0} /\ Batch \in Nat \ {0}
  /\ NoValue \notin FileEmails \cup FilePhones

VARIABLES
  file,      \* the rows
  people,    \* contacts, by the order they are inserted in
  import     \* a pass over the file

importVars == <<file, people, import>>

RowType == [email : FileEmails \cup {NoValue}, phone : FilePhones \cup {NoValue}]
RowNumbers == 1..RowCount
Modes == {"skip", "update", "create"}

(* of: the pass and row that made it; rows: those that updated it.          *)
Origins == (Imports \X RowNumbers) \cup {<<>>}
PersonType == [row : RowType, of : Origins, rows : SUBSET (Imports \X RowNumbers)]

(* A pass: the contacts it read, those it knows by now (of # <<>> for one   *)
(* it made), what waits for the flush, the keys met in the file, its plan,  *)
(* and beside: whether another import wrote since it read the contacts.     *)
NotBegun == [pc |-> "new", mode |-> "skip", commit |-> FALSE, read |-> <<>>, known |-> <<>>, pending |-> <<>>,
             seen |-> {}, plan |-> <<>>, beside |-> FALSE]

ImportTypeOK ==
  /\ file \in [RowNumbers -> RowType]
  /\ Len(people) <= MaxContacts /\ \A i \in DOMAIN people : people[i] \in PersonType
  /\ \A x \in Imports : /\ import[x].pc \in {"new", "rows", "finish", "over", "dead"}
                        /\ Len(import[x].plan) <= RowCount /\ Len(import[x].pending) < Batch

ImportInit ==
  /\ file \in [RowNumbers -> RowType]
  /\ people \in {<<>>} \cup {<<[row |-> r, of |-> <<>>, rows |-> {}]>> : r \in RowType}
  /\ import = [x \in Imports |-> NotBegun]

-----------------------------------------------------------------------------
(* load_context(): the contacts as they are now. *)
BeginImport(x, mode, commit) ==
  /\ import[x].pc = "new"
  /\ import' = [import EXCEPT ![x] = [NotBegun EXCEPT
       !.pc = "rows", !.mode = mode, !.commit = commit,
       !.read = [i \in DOMAIN people |-> people[i].row],
       !.known = [i \in DOMAIN people |-> [row |-> people[i].row, of |-> people[i].of]]]]
  /\ UNCHANGED <<file, people>>

RowNumber(x) == Len(import[x].plan) + 1
RowHere(x) == file[RowNumber(x)]

(* identify(): by the email, or else by the phone.                          *)
Identity(row) == IF row.email # NoValue THEN <<"email", row.email>> ELSE <<"phone", row.phone>>
HasIdentity(row) == row.email # NoValue \/ row.phone # NoValue

Matches(known, row) ==
  IF row.email # NoValue THEN known.email = row.email
  ELSE row.phone # NoValue /\ known.phone = row.phone

(* The first contact known that the row matches, 0 for none. *)
Existing(x) ==
  LET matching == {i \in DOMAIN import[x].known : Matches(import[x].known[i].row, RowHere(x))}
  IN IF matching = {} THEN 0 ELSE CHOOSE i \in matching : \A j \in matching : i <= j

IsRepeat(x) == HasIdentity(RowHere(x)) /\ Identity(RowHere(x)) \in import[x].seen
NeverRepeat(x) == FALSE  \* mutant: rows of one file are not compared

(* row(): what becomes of the next row. *)
Repeats(x) == IsRepeat(x)

RowAction(x) ==
  IF Repeats(x) /\ import[x].mode # "create" THEN "skip"
  ELSE IF Existing(x) # 0 /\ import[x].mode # "create" THEN import[x].mode ELSE "create"

Took(x, action, known, pending) ==
  import' = [y \in Imports |->
    IF y = x THEN [import[x] EXCEPT !.plan = Append(@, action), !.known = known, !.pending = pending,
                     !.seen = IF HasIdentity(RowHere(x)) THEN @ \cup {Identity(RowHere(x))} ELSE @,
                     !.pc = IF RowNumber(x) = RowCount THEN "finish" ELSE @]
    ELSE [import[y] EXCEPT !.beside = @ \/ people' # people]]

TakesRow(x, action) == import[x].pc = "rows" /\ RowAction(x) = action

SkipRow(x) ==
  /\ TakesRow(x, "skip")
  /\ UNCHANGED <<file, people>>
  /\ Took(x, "skip", import[x].known, import[x].pending)

(* update(): of a contact that is still pending, nothing is there to write to. *)
UpdateRow(x) ==
  /\ TakesRow(x, "update")
  /\ people' = IF ~import[x].commit THEN people
               ELSE [i \in DOMAIN people |->
                       IF \/ people[i].of # <<>> /\ people[i].of = import[x].known[Existing(x)].of
                          \/ import[x].known[Existing(x)].of = <<>> /\ people[i].of = <<>>
                       THEN [people[i] EXCEPT !.rows = @ \cup {<<x, RowNumber(x)>>},
                               !.row.phone = IF RowHere(x).phone = NoValue THEN @ ELSE RowHere(x).phone]
                       ELSE people[i]]
  /\ UNCHANGED file
  /\ Took(x, "update", import[x].known, import[x].pending)

(* create(), remember() and, when a batch is full, flush(). *)
CreateRow(x) ==
  /\ TakesRow(x, "create")
  /\ LET made == [row |-> RowHere(x), of |-> <<x, RowNumber(x)>>, rows |-> {}]
         pending == Append(import[x].pending, made)
     IN IF ~import[x].commit
        THEN people' = people /\ Took(x, "create", import[x].known, <<>>)
        ELSE /\ people' = IF Len(pending) >= Batch THEN people \o pending ELSE people
             /\ Len(people') <= MaxContacts
             /\ Took(x, "create", Append(import[x].known, [row |-> RowHere(x), of |-> <<x, RowNumber(x)>>]),
                     IF Len(pending) >= Batch THEN <<>> ELSE pending)
  /\ UNCHANGED file

LastFlush(x) == people \o import[x].pending
NoLastFlush(x) == people  \* mutant: what is left of the last batch is forgotten

(* finish() *)
Flushed(x) == LastFlush(x)

FinishImport(x) ==
  /\ import[x].pc = "finish"
  /\ people' = Flushed(x) /\ Len(people') <= MaxContacts
  /\ import' = [y \in Imports |-> IF y = x THEN [import[x] EXCEPT !.pc = "over", !.pending = <<>>]
                                  ELSE [import[y] EXCEPT !.beside = @ \/ people' # people]]
  /\ UNCHANGED file

(* The process dies: what was inserted stays, and no import is recorded. *)
ImportDies(x) ==
  /\ import[x].pc \in {"rows", "finish"}
  /\ import' = [import EXCEPT ![x].pc = "dead", ![x].pending = <<>>]
  /\ UNCHANGED <<file, people>>

ImportNext ==
  \E x \in Imports :
    \/ \E mode \in Modes, commit \in BOOLEAN : BeginImport(x, mode, commit)
    \/ SkipRow(x) \/ UpdateRow(x) \/ CreateRow(x) \/ FinishImport(x) \/ ImportDies(x)

ImportSpec == ImportInit /\ [][ImportNext]_importVars

-----------------------------------------------------------------------------
(* A row meets by its phone a contact an earlier row gave an email to.      *)
MeetsItself(n) ==
  \E m \in 1..(n - 1) : /\ file[m].email # NoValue /\ file[n].email = NoValue
                        /\ file[n].phone # NoValue /\ file[m].phone = file[n].phone

Committed(x) == import[x].pc = "over" /\ import[x].commit

(***************************************************************************)
(* When an import is over, every row it reports as created is a contact    *)
(* and every row it reports as an update is on one, unless the row met a   *)
(* contact of its own file, which may have been pending (create, flush,    *)
(* update).                                                                *)
(***************************************************************************)
ReportedIsThere ==
  \A x \in Imports, n \in RowNumbers : Committed(x) =>
    /\ import[x].plan[n] = "create" => \E i \in DOMAIN people : people[i].of = <<x, n>>
    /\ import[x].plan[n] = "update" /\ ~MeetsItself(n) => \E i \in DOMAIN people : <<x, n>> \in people[i].rows

(***************************************************************************)
(* A preview of the file tells what the import of it does, if the contacts *)
(* they read were the same and no row meets a contact of its own file      *)
(* (row, identify).                                                        *)
(***************************************************************************)
PreviewIsTrue ==
  \A x, y \in Imports :
    /\ import[x].pc = "over" /\ import[y].pc = "over" /\ import[x].mode = import[y].mode
    /\ import[x].read = import[y].read /\ ~\E n \in RowNumbers : MeetsItself(n)
    => import[x].plan = import[y].plan

(***************************************************************************)
(* Importing does not make a second contact of an identity, unless it was  *)
(* told to, or another import wrote since it read the contacts; a contact  *)
(* an update has given a phone is another matter (identify, remember).     *)
(***************************************************************************)
NoSecondContact ==
  \A i, j \in DOMAIN people : i < j /\ people[j].of # <<>> /\ HasIdentity(people[j].row)
                                 /\ people[i].rows = {} /\ people[j].rows = {} =>
    LET x == people[j].of[1]
    IN Matches(people[i].row, people[j].row) => import[x].mode = "create" \/ import[x].beside

(***************************************************************************)
(* What an import promises.                                                *)
(***************************************************************************)
ImportHolds == ImportTypeOK /\ ReportedIsThere /\ PreviewIsTrue /\ NoSecondContact
=============================================================================
