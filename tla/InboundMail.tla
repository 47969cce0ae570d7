---------------------------- MODULE InboundMail -----------------------------
(***************************************************************************)
(* How a letter in a tenant's mailbox becomes a reply in a conversation:   *)
(* backend/email_inbound.py, record_inbound of backend/conversations.py,   *)
(* and the fetch, the reply hook and the assignment by hand of             *)
(* backend/server.py.                                                      *)
(*                                                                         *)
(* A letter is what the matching reads of it: its thread, the conversation *)
(* whose message it answers (`ref'), whether it is a delivery report.  All *)
(* come from one address, which belongs to as many contacts as `contacts'  *)
(* says; every conversation is with the first of them.                     *)
(*                                                                         *)
(* Filers are the polls, one per cron run or tick, and the people who      *)
(* place a parked letter.  Each step is what a filer does between awaits.  *)
(*                                                                         *)
(* A conversation may have learned its thread from what was sent in it.    *)
(*                                                                         *)
(* Bounds: MaxTurns on what happens around the filers, MaxMailFaults on    *)
(* what goes wrong in them.                                                *)
(***************************************************************************)
EXTENDS Integers, FiniteSets

CONSTANTS Letters, Convs, Threads, Polls, People, MaxTurns, MaxMailFaults, NoConv, NoLetter, NoThread

ASSUME InboundAssumption ==
  /\ MaxTurns \in Nat /\ MaxMailFaults \in Nat
  /\ NoConv \notin Convs /\ NoLetter \notin Letters /\ NoThread \notin Threads
  /\ Polls \cap People = {} /\ IsFiniteSet(People) /\ IsFiniteSet(Convs)

VARIABLES
  mail,      \* what each letter says
  inbox,     \* the letters of the last days
  contacts,  \* how many contacts have the address
  convs,     \* communication_conversations: status and provider_thread_id
  reported,   \* conversations whose sent message is marked failed
  filed,     \* communication_messages: the conversation of a letter
  parked,    \* inbound_unmatched
  counted,   \* what a reply changes elsewhere: how often it did
  filer,     \* the polls and the people
  cut,       \* history: letters whose filer stopped after the insert
  byHand,    \* history: letters inserted by a person
  crossed,   \* history: conversations moved while a filer held their status
  answered,  \* history: conversations with a reply since they were last moved
  abreast,   \* history: threads matched by two filers side by side
  mailTurns, mailFaults

store == <<convs, reported, filed, parked, counted>>
past == <<cut, byHand, crossed, answered, abreast>>
mailVars == <<mail, inbox, contacts, store, filer, past, mailTurns, mailFaults>>

Filers == Polls \cup People
Tracks(t) == {c \in Convs : convs[c].thread = t}
ConvStatuses == {"open", "pending", "closed"}
OPEN_CONVERSATION_STATUSES == {"open", "pending"}
Resting == [at |-> "idle", batch |-> {}, letter |-> NoLetter, conv |-> NoConv, status |-> "none", learns |-> FALSE]

InboundTypeOK ==
  /\ mail \in [Letters -> [thread : Threads, ref : Convs \cup {NoConv}, bounce : BOOLEAN]]
  /\ inbox \subseteq Letters /\ contacts \in 0..2
  /\ convs \in [Convs -> [status : ConvStatuses, thread : Threads \cup {NoThread}]]
  /\ reported \subseteq Convs /\ filed \in [Letters -> Convs \cup {NoConv}]
  /\ parked \in [Letters -> [status : {"none", "open", "assigned"}, to : Convs \cup {NoConv}]]
  /\ counted \in [Letters -> Nat]
  /\ filer \in [Filers -> [at : {"idle", "take", "header", "contact", "read", "insert", "reopen", "learn",
                                 "count", "mark"}, batch : SUBSET Letters, letter : Letters \cup {NoLetter}, conv : Convs \cup {NoConv},
                           status : ConvStatuses \cup {"none"}, learns : BOOLEAN]]
  /\ cut \subseteq Letters /\ byHand \subseteq Letters /\ crossed \subseteq Convs /\ answered \subseteq Convs
  /\ abreast \subseteq Threads /\ mailTurns \in 0..MaxTurns /\ mailFaults \in 0..MaxMailFaults

InboundInit ==
  /\ mail \in [Letters -> [thread : Threads, ref : Convs \cup {NoConv}, bounce : BOOLEAN]]
  /\ inbox \in SUBSET Letters /\ contacts \in 0..2 /\ reported = {}
  /\ convs \in [Convs -> [status : {"open"}, thread : Threads \cup {NoThread}]]
  /\ \A t \in Threads : Cardinality(Tracks(t)) <= 1
  /\ filed = [l \in Letters |-> NoConv] /\ counted = [l \in Letters |-> 0]
  /\ parked = [l \in Letters |-> [status |-> "none", to |-> NoConv]]
  /\ filer = [f \in Filers |-> Resting]
  /\ cut = {} /\ byHand = {} /\ crossed = {} /\ answered = {} /\ abreast = {}
  /\ mailTurns \in {0, MaxTurns} /\ mailFaults \in {0, MaxMailFaults}  \* with them, or without any

-----------------------------------------------------------------------------
(* Around the filers: the address is entered for one more contact, and      *)
(* people and sweeps move conversations.                                    *)
MailTurn == mailTurns < MaxTurns /\ mailTurns' = mailTurns + 1

Enter == contacts < 2 /\ contacts' = contacts + 1 /\ MailTurn
         /\ UNCHANGED <<mail, inbox, store, filer, past, mailFaults>>

(* set_status() *)
MoveConv(c, status) ==
  /\ convs[c].status # status /\ convs' = [convs EXCEPT ![c].status = status] /\ MailTurn
  /\ answered' = answered \ {c}
  /\ crossed' = IF \E f \in Filers : filer[f].conv = c /\ filer[f].at \in {"insert", "reopen"}
                THEN crossed \cup {c} ELSE crossed
  /\ UNCHANGED <<mail, inbox, contacts, reported, filed, parked, counted, filer, cut, byHand, abreast, mailFaults>>

-----------------------------------------------------------------------------
(* poll_tenant(): fetch, then one letter after the other.                   *)
FilerAt(f, at) == filer[f].at = at
FilerMoves(f, x) == filer' = [filer EXCEPT ![f] = x]
RestOf(f) == IF f \in Polls THEN [Resting EXCEPT !.at = "take", !.batch = filer[f].batch] ELSE Resting
KeepsOutside == UNCHANGED <<mail, inbox, contacts, mailTurns, mailFaults>>
KeepsAll == KeepsOutside /\ UNCHANGED <<store, past>>

ThreadOf(f) == IF filer[f].letter = NoLetter THEN NoThread ELSE mail[filer[f].letter].thread

Fetch(p) == FilerAt(p, "idle") /\ FilerMoves(p, [Resting EXCEPT !.at = "take", !.batch = inbox]) /\ KeepsAll
FetchedAll(p) == FilerAt(p, "take") /\ filer[p].batch = {} /\ FilerMoves(p, Resting) /\ KeepsAll

Takes(p, l) == FilerAt(p, "take") /\ l \in filer[p].batch
Left(p, l) == [Resting EXCEPT !.at = "take", !.batch = filer[p].batch \ {l}]

(* record_unmatched(): unless it is parked already, whatever became of it.  *)
Parks(l) == parked' = IF parked[l].status # "none" THEN parked ELSE [parked EXCEPT ![l].status = "open"]

(* _ingest_bounce(): the message it refers to has failed, once.             *)
Report(p, l) ==
  /\ Takes(p, l) /\ mail[l].bounce /\ FilerMoves(p, Left(p, l))
  /\ IF mail[l].ref = NoConv THEN Parks(l) /\ UNCHANGED reported
     ELSE reported' = reported \cup {mail[l].ref} /\ UNCHANGED parked
  /\ KeepsOutside /\ UNCHANGED <<convs, filed, counted, past>>

(* match_conversation(): the thread, the message answered, the address.     *)
Learns(c) == convs[c].thread = NoThread
Matched(p, l, c) == FilerMoves(p, [Left(p, l) EXCEPT !.at = "read", !.letter = l, !.conv = c, !.learns = Learns(c)])
Beyond == {"header", "contact", "read", "insert", "reopen", "learn"}

ByThread(p, l) ==
  /\ Takes(p, l) /\ ~mail[l].bounce
  /\ IF Tracks(mail[l].thread) = {}
     THEN FilerMoves(p, [Left(p, l) EXCEPT !.at = IF mail[l].ref = NoConv THEN "contact" ELSE "header", !.letter = l])
     ELSE \E c \in Tracks(mail[l].thread) : Matched(p, l, c)
  /\ abreast' = IF \E q \in Polls \ {p} : ThreadOf(q) = mail[l].thread /\ filer[q].at \in Beyond
                THEN abreast \cup {mail[l].thread} ELSE abreast
  /\ KeepsOutside /\ UNCHANGED <<store, cut, byHand, crossed, answered>>

ByHeader(p) == FilerAt(p, "header") /\ Matched(p, filer[p].letter, mail[filer[p].letter].ref) /\ KeepsAll

(* One contact at the address, and one open conversation with it: no guess. *)
Candidates == {c \in Convs : contacts = 1 /\ convs[c].status \in OPEN_CONVERSATION_STATUSES}
ByContact(p) ==
  /\ FilerAt(p, "contact")
  /\ IF Cardinality(Candidates) = 1
     THEN (\E c \in Candidates : Matched(p, filer[p].letter, c)) /\ UNCHANGED parked
     ELSE FilerMoves(p, RestOf(p)) /\ Parks(filer[p].letter)
  /\ KeepsOutside /\ UNCHANGED <<convs, reported, filed, counted, past>>

-----------------------------------------------------------------------------
(* record_inbound(): the conversation is read, the message inserted if its  *)
(* provider id is new, and the conversation reopened by what was read.      *)
ReadConv(f) == FilerAt(f, "read") /\ FilerMoves(f, [filer[f] EXCEPT !.at = "insert", !.status = convs[filer[f].conv].status]) /\ KeepsAll

New(l) == filed[l] = NoConv

InsertReply(f) ==
  /\ FilerAt(f, "insert")
  /\ LET l == filer[f].letter IN
       IF New(l)
       THEN /\ filed' = [filed EXCEPT ![l] = filer[f].conv] /\ answered' = answered \cup {filer[f].conv}
            /\ byHand' = IF f \in People THEN byHand \cup {l} ELSE byHand
            /\ FilerMoves(f, [filer[f] EXCEPT !.at = "reopen"])
       ELSE FilerMoves(f, IF f \in People THEN [filer[f] EXCEPT !.at = "mark"] ELSE RestOf(f)) /\ UNCHANGED <<filed, answered, byHand>>
  /\ KeepsOutside /\ UNCHANGED <<convs, reported, parked, counted, cut, crossed, abreast>>

ReopensClosed(status) == status = "closed"  \* mutant
Reopens(status) == status \in {"closed", "pending"}

Reopen(f) ==
  /\ FilerAt(f, "reopen")
  /\ convs' = IF Reopens(filer[f].status) THEN [convs EXCEPT ![filer[f].conv].status = "open"] ELSE convs
  /\ FilerMoves(f, [filer[f] EXCEPT !.at = IF f \in People THEN "mark" ELSE IF filer[f].learns THEN "learn" ELSE "count"])
  /\ KeepsOutside /\ UNCHANGED <<reported, filed, parked, counted, past>>

(* ingest() after it: the thread is learned if there was none at the match, *)
(* and _on_inbound_reply() puts the reply on the timeline and on the case.  *)
LearnThread(p) ==
  /\ FilerAt(p, "learn") /\ FilerMoves(p, [filer[p] EXCEPT !.at = "count"])
  /\ convs' = [convs EXCEPT ![filer[p].conv].thread = ThreadOf(p)]
  /\ KeepsOutside /\ UNCHANGED <<reported, filed, parked, counted, past>>

CountReply(p) ==
  /\ FilerAt(p, "count") /\ FilerMoves(p, RestOf(p))
  /\ counted' = [counted EXCEPT ![filer[p].letter] = @ + 1]
  /\ KeepsOutside /\ UNCHANGED <<convs, reported, filed, parked, past>>

(* assign_unmatched(): what is parked and open when it is read is recorded  *)
(* in the conversation named, and the row says so, wherever it had been     *)
(* filed.                                                                   *)
TakeInHand(h, l, c) ==
  /\ FilerAt(h, "idle") /\ parked[l].status = "open"
  /\ FilerMoves(h, [Resting EXCEPT !.at = "read", !.letter = l, !.conv = c])
  /\ KeepsAll

MarkAssigned(h) ==
  /\ FilerAt(h, "mark") /\ FilerMoves(h, Resting)
  /\ parked' = [parked EXCEPT ![filer[h].letter] = [status |-> "assigned", to |-> filer[h].conv]]
  /\ KeepsOutside /\ UNCHANGED <<convs, reported, filed, counted, past>>

(* A mail that cannot be read, or a write that fails, costs that letter;    *)
(* the process may die, or the listing fail, with all the letters in hand.  *)
MailFault(f) ==
  /\ mailFaults < MaxMailFaults /\ ~FilerAt(f, "idle") /\ mailFaults' = mailFaults + 1
  /\ \/ FilerMoves(f, Resting)
     \/ filer[f].letter # NoLetter /\ FilerMoves(f, RestOf(f))
     \/ \E l \in filer[f].batch : FilerAt(f, "take") /\ FilerMoves(f, Left(f, l))
  /\ cut' = IF \/ filer[f].at \in {"reopen", "learn", "count"}
               \/ FilerAt(f, "mark") /\ filer[f].letter \in byHand
            THEN cut \cup {filer[f].letter} ELSE cut
  /\ UNCHANGED <<mail, inbox, contacts, store, byHand, crossed, answered, abreast, mailTurns>>

PollStep(p) ==
  \/ FetchedAll(p) \/ ByHeader(p) \/ ByContact(p) \/ LearnThread(p) \/ CountReply(p)
  \/ \E l \in Letters : Report(p, l) \/ ByThread(p, l)
FileStep(f) == ReadConv(f) \/ InsertReply(f) \/ Reopen(f)

InboundNext ==
  \/ Enter
  \/ \E c \in Convs, s \in ConvStatuses : MoveConv(c, s)
  \/ \E p \in Polls : Fetch(p) \/ PollStep(p)
  \/ \E h \in People : MarkAssigned(h) \/ \E l \in Letters, c \in Convs : TakeInHand(h, l, c)
  \/ \E f \in Filers : FileStep(f) \/ MailFault(f)

(* The cron and the ticks start polls, and one that runs goes on. *)
InboundFairness == \A p \in Polls : WF_mailVars(Fetch(p)) /\ WF_mailVars(PollStep(p) \/ FileStep(p))

InboundSpec == InboundInit /\ [][InboundNext]_mailVars /\ InboundFairness

-----------------------------------------------------------------------------
InHand(l) == \E f \in Filers : filer[f].letter = l /\ filer[f].at \in {"reopen", "learn", "count"}

(***************************************************************************)
(* A reply is put on the contact's timeline and on the recovery case       *)
(* exactly once, however many polls find it, if a poll filed it and was    *)
(* not stopped on the way; the next poll knows the message and leaves it   *)
(* (ingest, _on_inbound_reply).  One placed by hand is not put there.      *)
(***************************************************************************)
CountedOnce ==
  \A l \in Letters :
    /\ counted[l] <= 1
    /\ counted[l] = 1 => filed[l] # NoConv
    /\ filed[l] # NoConv /\ ~InHand(l) => counted[l] = IF l \in cut \cup byHand THEN 0 ELSE 1

(***************************************************************************)
(* A delivery report never becomes a reply by itself, and never marks the  *)
(* message of a conversation it does not refer to: only a person may place *)
(* one (is_bounce, _ingest_bounce).                                        *)
(***************************************************************************)
ReportsAreNoReplies ==
  /\ \A l \in Letters : mail[l].bounce /\ filed[l] # NoConv => l \in byHand /\ mail[l].ref = NoConv
  /\ \A c \in reported : \E l \in inbox : mail[l].bounce /\ mail[l].ref = c

(***************************************************************************)
(* Two conversations track one provider thread only if two polls matched   *)
(* letters of it side by side (match_conversation, ingest).                *)
(***************************************************************************)
ThreadsApart ==
  \A c, d \in Convs : c # d /\ convs[c].thread = convs[d].thread /\ convs[c].thread # NoThread => convs[c].thread \in abreast

(***************************************************************************)
(* A reply leaves its conversation open until somebody moves it, unless    *)
(* somebody moved it between the read and the write, or the filer stopped  *)
(* there (record_inbound).                                                 *)
(***************************************************************************)
RepliesReopen ==
  \A c \in answered \ crossed :
    \/ convs[c].status = "open"
    \/ \E f \in Filers : filer[f].conv = c /\ FilerAt(f, "reopen")
    \/ \E l \in cut : filed[l] = c

(***************************************************************************)
(* A parked letter said to be assigned is in a conversation: the one named *)
(* if a single person placed it at once; another, if the attempt was        *)
(* repeated, or a poll found evidence meanwhile (assign_unmatched).        *)
(***************************************************************************)
AssignedIsFiled ==
  \A l \in Letters : parked[l].status = "assigned" =>
    filed[l] # NoConv /\ (filed[l] # parked[l].to => l \in cut \/ l \notin byHand \/ Cardinality(People) > 1)

(***************************************************************************)
(* Every letter in the mailbox is recorded for good: filed, parked, or a   *)
(* report applied to its message (poll_tenant).                            *)
(***************************************************************************)
LettersEnd ==
  \A l \in Letters : <>[](\/ l \notin inbox \/ filed[l] # NoConv \/ parked[l].status # "none"
                          \/ mail[l].bounce /\ mail[l].ref \in reported)

(***************************************************************************)
(* What the way back promises.                                             *)
(***************************************************************************)
InboundHolds ==
  /\ [](InboundTypeOK /\ CountedOnce /\ ReportsAreNoReplies /\ ThreadsApart /\ RepliesReopen /\ AssignedIsFiled)
  /\ LettersEnd
=============================================================================
