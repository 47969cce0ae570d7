---------------------------- MODULE GoogleGrant ----------------------------
(***************************************************************************)
(* One tenant's Google grant (backend/server.py): the credentials Gmail    *)
(* and Calendar share, the connection row of each, and the switch that     *)
(* turns email sending on.  Admins connect (the OAuth callback),           *)
(* disconnect, sync, and turn sending on and off, side by side, each in    *)
(* several reads and writes.                                               *)
(*                                                                         *)
(* Sending is certified for the mailbox a test message left from and came  *)
(* back to.  The commit is conditional on sending_revision, which every    *)
(* operation that could make the test stale moves.                         *)
(*                                                                         *)
(* A mailbox is a member of Mailboxes, and Senders are those whose grant    *)
(* may send.  Of a connection's statuses only active and disconnected are   *)
(* told apart from the rest (connecting, error, degraded, expired).  The    *)
(* catalogue has one Gmail record, as it normally has.  Google is external: *)
(* it may refuse any call.  A request that dies halfway is left out.        *)
(*                                                                         *)
(* Bound: MaxGrantCalls, the requests.                                      *)
(***************************************************************************)
EXTENDS Naturals, FiniteSets

CONSTANTS
  Mailboxes, SendingBoxes,  \* the accounts that may be connected; those whose grant may send
  GrantCalls,          \* requests in hand at once
  MaxGrantCalls,
  NoMailbox

ASSUME GrantAssumption ==
  SendingBoxes \subseteq Mailboxes /\ NoMailbox \notin Mailboxes /\ MaxGrantCalls \in Nat

VARIABLES
  creds,      \* google_credentials: the account whose tokens are stored, or none
  conn,       \* integration_connections: status and account_identity, by provider
  sending,    \* integrations, the Gmail record: the certified mailbox, and sending_revision
  grantCall,  \* where each request is, and what it has read
  begun,      \* how many requests there were
  rowMoved    \* history: a sync or a connect wrote a row while a disconnect was at work

grantVars == <<creds, conn, sending, grantCall, begun, rowMoved>>

Providers == {"gmail", "calendar"}
OtherProvider(p) == IF p = "gmail" THEN "calendar" ELSE "gmail"
MaybeMailbox == Mailboxes \cup {NoMailbox}
ConnType == [status : {"active", "disconnected", "other"}, mailbox : MaybeMailbox]
GrantOps == {"connect", "disconnect", "sync", "enable", "disable"}
GrantPcs ==
  {"idle", "mark", "markNext", "exchange", "fail", "failNext", "gmail", "calendar", "void", "look", "off", "list",
   "clear", "other", "drop", "after", "again", "token", "refresh", "finish", "test", "answer", "check", "commit"}

GrantTypeOK ==
  /\ creds \in MaybeMailbox /\ conn \in [Providers -> ConnType]
  /\ sending \in [mailbox : MaybeMailbox, revision : Nat]
  /\ grantCall \in [GrantCalls -> [op : GrantOps, at : GrantPcs, of : Providers, mailbox : MaybeMailbox,
                                   revision : Nat]]
  /\ begun \in 0..MaxGrantCalls /\ rowMoved \in BOOLEAN

GrantAtRest == [op |-> "disable", at |-> "idle", of |-> "gmail", mailbox |-> NoMailbox, revision |-> 0]

GrantInit ==
  /\ creds = NoMailbox
  /\ conn = [p \in Providers |-> [status |-> "disconnected", mailbox |-> NoMailbox]]
  /\ sending = [mailbox |-> NoMailbox, revision |-> 0]
  /\ grantCall = [x \in GrantCalls |-> GrantAtRest] /\ begun = 0 /\ rowMoved = FALSE

GrantAt(x, op, pc) == grantCall[x].op = op /\ grantCall[x].at = pc
On(x) == grantCall[x].of
CallGoes(x, pc) == grantCall' = [grantCall EXCEPT ![x].at = pc]
CallEnds(x) == grantCall' = [grantCall EXCEPT ![x] = GrantAtRest]
SetRow(p, s) == conn' = [conn EXCEPT ![p].status = s]
(* For rowMoved: a row is written by something that is not a disconnect.    *)
RowMoves == rowMoved' = (rowMoved \/ \E y \in GrantCalls : grantCall[y].op = "disconnect")

BeginGrantCall(x) ==
  /\ grantCall[x] = GrantAtRest /\ begun < MaxGrantCalls
  /\ begun' = begun + 1
  /\ \E op \in GrantOps, p \in Providers :
       /\ op \in {"connect", "enable", "disable"} => p = "gmail"
       /\ op = "sync" => conn[p].status # "disconnected"
       /\ grantCall' = [grantCall EXCEPT ![x] =
            [GrantAtRest EXCEPT !.op = op, !.of = p, !.revision = IF op = "enable" THEN sending.revision ELSE 0,
                           !.at = CASE op = "enable" -> "test" [] op = "disable" -> "off" [] OTHER -> "mark"]]
  /\ UNCHANGED <<creds, conn, sending, rowMoved>>

-----------------------------------------------------------------------------
(* google_connect() marks both rows; google_callback() exchanges the code,  *)
(* stores the tokens, writes both rows, and then sees to the switch.        *)
Connect(x) ==
  /\ \/ GrantAt(x, "connect", "mark") /\ SetRow("gmail", "other") /\ CallGoes(x, "markNext") /\ RowMoves
     \/ GrantAt(x, "connect", "markNext") /\ SetRow("calendar", "other") /\ CallGoes(x, "exchange") /\ RowMoves
     \/ GrantAt(x, "connect", "exchange") /\ (CallGoes(x, "fail") \/ CallEnds(x)) /\ UNCHANGED <<conn, rowMoved>>
     \/ GrantAt(x, "connect", "fail") /\ SetRow("gmail", "other") /\ CallGoes(x, "failNext") /\ RowMoves
     \/ GrantAt(x, "connect", "failNext") /\ SetRow("calendar", "other") /\ CallEnds(x) /\ RowMoves
     \/ /\ GrantAt(x, "connect", "gmail")
        /\ conn' = [conn EXCEPT !["gmail"] = [status |-> "active", mailbox |-> grantCall[x].mailbox]]
        /\ CallGoes(x, "calendar") /\ RowMoves
     \/ /\ GrantAt(x, "connect", "calendar")
        /\ conn' = [conn EXCEPT !["calendar"] = [status |-> "active", mailbox |-> grantCall[x].mailbox]]
        /\ CallGoes(x, "void") /\ RowMoves
  /\ UNCHANGED <<creds, sending, begun>>

Exchange(x) ==
  /\ GrantAt(x, "connect", "exchange")
  /\ \E m \in Mailboxes :
       /\ creds' = m
       /\ grantCall' = [grantCall EXCEPT ![x].at = "gmail", ![x].mailbox = m]
  /\ UNCHANGED <<conn, sending, begun, rowMoved>>

(* _void_pending_gmail_tests(), by itself or in _turn_off_gmail_sending().  *)
VoidTests(x) ==
  /\ grantCall[x].at \in {"void", "off"}
  /\ sending' = [sending EXCEPT !.revision = @ + 1]
  /\ CallGoes(x, IF grantCall[x].at = "void" THEN "look" ELSE "list")
  /\ UNCHANGED <<creds, conn, begun, rowMoved>>

(* A grant that may not send, or is another mailbox's, turns sending off.   *)
MustTurnOff(x) ==
  \/ grantCall[x].mailbox \notin SendingBoxes
  \/ sending.mailbox \notin {NoMailbox, grantCall[x].mailbox}

LookAtCertificate(x) ==
  /\ GrantAt(x, "connect", "look")
  /\ IF MustTurnOff(x) THEN CallGoes(x, "off") ELSE CallEnds(x)
  /\ UNCHANGED <<creds, conn, sending, begun, rowMoved>>

(* _turn_off_gmail_sending(): reads whether sending is on, and clears it.   *)
TurnOff(x) ==
  LET then == IF grantCall[x].op = "disconnect" THEN CallGoes(x, "again") ELSE CallEnds(x) IN
  /\ \/ /\ grantCall[x].at = "list"
        /\ IF sending.mailbox # NoMailbox THEN CallGoes(x, "clear") ELSE then
        /\ UNCHANGED sending
     \/ grantCall[x].at = "clear" /\ sending' = [sending EXCEPT !.mailbox = NoMailbox] /\ then
  /\ UNCHANGED <<creds, conn, begun, rowMoved>>

(* disconnect_provider(): the row, then the other row, then the grant.      *)
DropsGrant(p) == conn[OtherProvider(p)].status = "disconnected"

Disconnect(x) ==
  /\ \/ /\ grantCall[x].op = "disconnect" /\ grantCall[x].at \in {"mark", "again"}
        /\ conn' = [conn EXCEPT ![On(x)] = [status |-> "disconnected", mailbox |-> NoMailbox]]
        /\ IF grantCall[x].at = "mark" THEN CallGoes(x, "other") ELSE CallEnds(x)
        /\ UNCHANGED creds
     \/ /\ GrantAt(x, "disconnect", "other")
        /\ CallGoes(x, IF DropsGrant(On(x)) THEN "drop" ELSE "after")
        /\ UNCHANGED <<conn, creds>>
     \/ GrantAt(x, "disconnect", "drop") /\ creds' = NoMailbox /\ CallGoes(x, "after") /\ UNCHANGED conn
     \/ /\ GrantAt(x, "disconnect", "after")
        /\ CallGoes(x, IF On(x) = "gmail" THEN "off" ELSE "again")
        /\ UNCHANGED <<conn, creds>>
  /\ UNCHANGED <<sending, begun, rowMoved>>

(* run_sync(): marks the row, takes a token, perhaps a fresh one, which is  *)
(* stored over whatever is there by then, and says how it went.             *)
Sync(x) ==
  /\ \/ /\ GrantAt(x, "sync", "mark") /\ SetRow(On(x), "other") /\ CallGoes(x, "token")
        /\ RowMoves /\ UNCHANGED creds
     \/ /\ GrantAt(x, "sync", "token") /\ creds # NoMailbox
        /\ grantCall' = [grantCall EXCEPT ![x].at = "refresh", ![x].mailbox = creds]
        /\ UNCHANGED <<creds, conn, rowMoved>>
     \/ /\ GrantAt(x, "sync", "refresh")
        /\ creds' = IF creds = NoMailbox THEN creds ELSE grantCall[x].mailbox
        /\ CallGoes(x, "finish") /\ UNCHANGED <<conn, rowMoved>>
     \/ /\ GrantAt(x, "sync", "refresh") /\ CallGoes(x, "finish") /\ UNCHANGED <<creds, conn, rowMoved>>
     \/ /\ GrantAt(x, "sync", "finish") /\ SetRow(On(x), "active") /\ CallEnds(x) /\ RowMoves /\ UNCHANGED creds
     \/ /\ grantCall[x].op = "sync" /\ grantCall[x].at \in {"token", "refresh", "finish"}
        /\ SetRow(On(x), "other") /\ CallEnds(x) /\ RowMoves /\ UNCHANGED creds
  /\ UNCHANGED <<sending, begun>>

-----------------------------------------------------------------------------
(* enable_gmail_sending(): send_test() takes the mailbox of the row and the *)
(* tokens there are, then the row is looked at again, then the commit.      *)
SendsAs(m) == conn["gmail"] = [status |-> "active", mailbox |-> m] /\ m \in SendingBoxes

CommitAnyway(x) == TRUE  \* mutant
CommitIfUnmoved(x) == sending.revision = grantCall[x].revision

Enable(x) ==
  /\ \/ /\ GrantAt(x, "enable", "test")
        /\ IF SendsAs(conn["gmail"].mailbox)
           THEN grantCall' = [grantCall EXCEPT ![x].at = "answer", ![x].mailbox = conn["gmail"].mailbox]
           ELSE CallEnds(x)
     \/ /\ GrantAt(x, "enable", "answer")
        /\ (CallEnds(x) \/ (creds # NoMailbox /\ CallGoes(x, "check")))
     \/ /\ GrantAt(x, "enable", "check")
        /\ IF SendsAs(grantCall[x].mailbox) THEN CallGoes(x, "commit") ELSE CallEnds(x)
  /\ UNCHANGED <<creds, conn, sending, begun, rowMoved>>

CommitSending(x) ==
  /\ GrantAt(x, "enable", "commit")
  /\ sending' = IF CommitIfUnmoved(x) THEN [mailbox |-> grantCall[x].mailbox, revision |-> sending.revision + 1]
                ELSE sending
  /\ CallEnds(x)
  /\ UNCHANGED <<creds, conn, begun, rowMoved>>

GrantNext ==
  \E x \in GrantCalls :
    \/ BeginGrantCall(x) \/ Connect(x) \/ Exchange(x) \/ VoidTests(x) \/ LookAtCertificate(x) \/ TurnOff(x)
    \/ Disconnect(x) \/ Sync(x) \/ Enable(x) \/ CommitSending(x)

GrantSpec == GrantInit /\ [][GrantNext]_grantVars

-----------------------------------------------------------------------------
NoneOf(ops) == \A x \in GrantCalls : grantCall[x].op \notin ops \/ grantCall[x] = GrantAtRest

(* What sends is an active connection with permission to send, and the      *)
(* switch.  Once the connects and disconnects under way are through, both   *)
(* together mean that the test left from the very mailbox that sends: no    *)
(* test of another mailbox, or of a grant since replaced, turned it on.     *)
SendingWasTested ==
  NoneOf({"connect", "disconnect"}) /\ sending.mailbox # NoMailbox /\ SendsAs(conn["gmail"].mailbox)
    => sending.mailbox = conn["gmail"].mailbox

(* disconnect_provider()'s comment: of two disconnects at once at least one *)
(* sees the other gone and revokes the grant.  So it is when no sync and no *)
(* connect wrote a row meanwhile.                                           *)
GrantGoesWithTheLast ==
  NoneOf({"connect", "disconnect"}) /\ ~rowMoved /\ (\A p \in Providers : conn[p].status = "disconnected")
    => creds = NoMailbox

GrantHolds == GrantTypeOK /\ SendingWasTested /\ GrantGoesWithTheLast
=============================================================================
