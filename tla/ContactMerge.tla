---------------------------- MODULE ContactMerge ----------------------------
(***************************************************************************)
(* One contact folded into another: merge_contact() of backend/crm_core.py *)
(* as its awaits leave it, with what else writes the references meanwhile  *)
(* (update_deal, the doors that file new records) and with merges that are *)
(* stopped, repeated, or run side by side.                                 *)
(*                                                                         *)
(* A contact's inquiries are followed by whose they were: folded[s][t] is  *)
(* how often the inquiries of s were pushed on t.  A reference holds one   *)
(* contact (a task, an appointment) or a list (a deal, the participants).  *)
(*                                                                         *)
(* Bounds: MaxMerges on the merges begun, MaxEdits on the writes beside    *)
(* them, MaxStops on what stops them.                                      *)
(***************************************************************************)
EXTENDS Integers, FiniteSets

CONSTANTS Contacts, Singles, Rosters, Mergers, MaxMerges, MaxEdits, MaxStops, Nobody

ASSUME MergeAssumption ==
  /\ MaxMerges \in Nat /\ MaxEdits \in Nat /\ MaxStops \in Nat
  /\ IsFiniteSet(Contacts) /\ Contacts # {} /\ Nobody \notin Contacts \cup Rosters
  /\ Singles \cap Rosters = {}

VARIABLES
  person,    \* contacts: archived_at, merged_into
  folded,    \* contacts: the inquiries of one in the other
  holds,     \* the collections of CONTACT_REFERENCES: the contacts of a record
  merge,     \* the merges that run
  late,      \* history: references written to a contact that was being or had been merged
  abreast,   \* history: contacts in the hands of two merges at once
  unfolded,  \* history: contacts whose merge stopped between the mark and the fold
  merges, edits, stops

mergeVars == <<person, folded, holds, merge, late, abreast, unfolded, merges, edits, stops>>

References == Singles \cup Rosters
NotMerging == [at |-> "idle", source |-> Nobody, target |-> Nobody, repeat |-> FALSE, left |-> {},
               list |-> Nobody, row |-> {}]

MergeTypeOK ==
  /\ person \in [Contacts -> [archived : BOOLEAN, into : Contacts \cup {Nobody}]]
  /\ folded \in [Contacts -> [Contacts -> Nat]]
  /\ holds \in [References -> SUBSET Contacts] /\ \A r \in Singles : Cardinality(holds[r]) <= 1
  /\ merge \in [Mergers -> [at : {"idle", "mark", "fold", "move", "archive"}, source : Contacts \cup {Nobody},
                            target : Contacts \cup {Nobody}, repeat : BOOLEAN,
                            left : SUBSET References, list : Rosters \cup {Nobody}, row : SUBSET Contacts]]
  /\ late \subseteq References \X Contacts /\ abreast \subseteq Contacts /\ unfolded \subseteq Contacts
  /\ merges \in 0..MaxMerges /\ edits \in 0..MaxEdits /\ stops \in 0..MaxStops

MergeInit ==
  /\ person = [c \in Contacts |-> [archived |-> FALSE, into |-> Nobody]]
  /\ folded = [s \in Contacts |-> [t \in Contacts |-> 0]]
  /\ holds \in [References -> SUBSET Contacts] /\ \A r \in Singles : Cardinality(holds[r]) = 1
  /\ merge = [m \in Mergers |-> NotMerging] /\ late = {} /\ abreast = {} /\ unfolded = {}
  /\ merges = 0 /\ edits = 0 /\ stops = 0

-----------------------------------------------------------------------------
Merged(c) == person[c].into # Nobody
At(m, at) == merge[m].at = at
Goes(m, x) == merge' = [merge EXCEPT ![m] = x]
InMerge(c) == \E m \in Mergers : c \in {merge[m].source, merge[m].target}

(* Whom a record is written to, if that contact is on its way out.         *)
Lately(r, now, before) == {r} \X {c \in now \ before : Merged(c)}

(* Beside the merges: a list is replaced (update_deal: a contact that is   *)
(* archived is still known), or a new record filed for a contact.          *)
Edit(r, cs) ==
  /\ edits < MaxEdits /\ edits' = edits + 1 /\ holds[r] # cs
  /\ r \in Singles => Cardinality(cs) = 1
  /\ holds' = [holds EXCEPT ![r] = cs] /\ late' = late \cup Lately(r, cs, {})
  /\ UNCHANGED <<person, folded, merge, abreast, unfolded, merges, stops>>

(* archive_contact(), restore_contact(): merged_into stays.                *)
Restore(c) ==
  /\ edits < MaxEdits /\ edits' = edits + 1 /\ person[c].archived
  /\ person' = [person EXCEPT ![c].archived = FALSE]
  /\ UNCHANGED <<folded, holds, merge, late, abreast, unfolded, merges, stops>>

-----------------------------------------------------------------------------
(* merge_contact(): both are read, ...                                     *)
NeverElsewhere(s, t) == TRUE  \* mutant
NotElsewhere(s, t) == person[s].into \in {Nobody, t}

Begin(m, s, t) ==
  /\ At(m, "idle") /\ s # t /\ ~person[t].archived /\ NotElsewhere(s, t)
  /\ LET repeat == person[s].into = t IN
       Goes(m, [NotMerging EXCEPT !.at = IF repeat THEN "fold" ELSE "mark", !.source = s, !.target = t, !.repeat = repeat])
  /\ abreast' = abreast \cup {c \in {s, t} : InMerge(c)}
  /\ merges < MaxMerges /\ merges' = merges + 1
  /\ UNCHANGED <<person, folded, holds, late, unfolded, edits, stops>>

(* ... the source is marked (mark_merging()), ...                          *)
Mark(m) ==
  /\ At(m, "mark") /\ Goes(m, [merge[m] EXCEPT !.at = "fold"])
  /\ person' = [person EXCEPT ![merge[m].source].into = merge[m].target]
  /\ UNCHANGED <<folded, holds, late, abreast, unfolded, merges, edits, stops>>

(* ... the target's empty fields filled and, the first time, the inquiries *)
(* of the source put on it, ...                                            *)
Folds(m) == ~merge[m].repeat

Fold(m) ==
  /\ At(m, "fold") /\ Goes(m, [merge[m] EXCEPT !.at = "move", !.left = References])
  /\ LET s == merge[m].source
         t == merge[m].target
     IN folded' = IF Folds(m) THEN [folded EXCEPT ![s][t] = @ + 1] ELSE folded
  /\ UNCHANGED <<person, holds, late, abreast, unfolded, merges, edits, stops>>

(* ... the references moved, in any order: in a single update, ...         *)
InPlace(m, cs) == IF merge[m].source \in cs THEN (cs \ {merge[m].source}) \cup {merge[m].target} ELSE cs
Moved(m, r, cs) ==
  /\ holds' = [holds EXCEPT ![r] = cs]
  /\ late' = late \cup Lately(r, cs, holds[r])
  /\ Goes(m, [merge[m] EXCEPT !.left = @ \ {r}, !.list = Nobody, !.row = {}])
  /\ UNCHANGED <<person, folded, abreast, unfolded, merges, edits, stops>>

MoveSingle(m) == \E r \in merge[m].left \cap Singles : At(m, "move") /\ merge[m].list = Nobody /\ Moved(m, r, InPlace(m, holds[r]))

(* ... or, where it is a list, in a read of the rows that hold the source  *)
(* and a write of what was read.                                           *)
ReadList(m) ==
  /\ At(m, "move") /\ merge[m].list = Nobody
  /\ \E r \in merge[m].left \cap Rosters :
       IF merge[m].source \in holds[r] THEN Goes(m, [merge[m] EXCEPT !.list = r, !.row = holds[r]])
       ELSE Goes(m, [merge[m] EXCEPT !.left = @ \ {r}])
  /\ UNCHANGED <<person, folded, holds, late, abreast, unfolded, merges, edits, stops>>

WriteList(m) ==
  /\ At(m, "move") /\ merge[m].list # Nobody
  /\ Moved(m, merge[m].list, InPlace(m, merge[m].row))

(* ... and the source archived.                                            *)
Archive(m) ==
  /\ At(m, "move") /\ merge[m].left = {} /\ Goes(m, NotMerging)
  /\ person' = [person EXCEPT ![merge[m].source].archived = TRUE, ![merge[m].source].into = merge[m].target]
  /\ UNCHANGED <<folded, holds, late, abreast, unfolded, merges, edits, stops>>

Stop(m) ==
  /\ ~At(m, "idle") /\ stops < MaxStops /\ stops' = stops + 1 /\ Goes(m, NotMerging)
  /\ unfolded' = IF At(m, "fold") /\ ~merge[m].repeat THEN unfolded \cup {merge[m].source} ELSE unfolded
  /\ UNCHANGED <<person, folded, holds, late, abreast, merges, edits>>

MergeNext ==
  \/ \E r \in References, cs \in SUBSET Contacts : Edit(r, cs)
  \/ \E c \in Contacts : Restore(c)
  \/ \E m \in Mergers : \/ Mark(m) \/ Fold(m) \/ MoveSingle(m) \/ ReadList(m) \/ WriteList(m) \/ Archive(m) \/ Stop(m)
                        \/ \E s, t \in Contacts : Begin(m, s, t)

MergeSpec == MergeInit /\ [][MergeNext]_mergeVars

-----------------------------------------------------------------------------
MergedAway(c) == Merged(c) /\ person[c].archived /\ ~InMerge(c)

(***************************************************************************)
(* A contact that has been merged is on no record any more, but on those   *)
(* written to it while it was merged or later, or put back by a list that  *)
(* was read before (merge_contact, update_deal); a merge that was stopped  *)
(* half-way has not archived it.                                           *)
(***************************************************************************)
NothingLeftBehind == \A c \in Contacts, r \in References : MergedAway(c) /\ c \in holds[r] => <<r, c>> \in late

(***************************************************************************)
(* What a merged contact had asked is on the contact it was merged into    *)
(* exactly once, however often the merge is stopped and repeated: unless   *)
(* it stopped between the mark and the fold (then it is nowhere, and the   *)
(* repeat takes it for done), or two merges had one of them in hand        *)
(* (merge_contact, mark_merging).                                          *)
(***************************************************************************)
InquiriesFollowOnce ==
  \A s \in Contacts : MergedAway(s) /\ s \notin unfolded \cup abreast => folded[s][person[s].into] = 1
FoldedAtMostOnce == \A s, t \in Contacts : s \notin abreast => folded[s][t] <= 1

(***************************************************************************)
(* Merging never leaves nobody: somebody is kept, unless two merges had a  *)
(* contact in hand side by side, each into the other (merge_contact reads  *)
(* archived_at once, before anything moves).                               *)
(***************************************************************************)
SomebodyIsKept == (\E c \in Contacts : ~person[c].archived) \/ abreast # {}

(***************************************************************************)
(* A contact is merged into one other, ever (merged_into is asked before). *)
(***************************************************************************)
MergedIntoOne == \A s, t, u \in Contacts : folded[s][t] > 0 /\ folded[s][u] > 0 => t = u \/ s \in abreast

(***************************************************************************)
(* What a merge promises.                                                  *)
(***************************************************************************)
MergeHolds ==
  MergeTypeOK /\ NothingLeftBehind /\ InquiriesFollowOnce /\ FoldedAtMostOnce /\ SomebodyIsKept /\ MergedIntoOne
=============================================================================
