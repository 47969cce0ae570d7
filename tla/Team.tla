-------------------------------- MODULE Team --------------------------------
(***************************************************************************)
(* The members of one team and the invitations into it                     *)
(* (backend/server.py): an invitation is made, sent again under a new      *)
(* token, revoked, expires, and is accepted by someone with an account or  *)
(* without; admins change roles and disable members.  Each call reads      *)
(* first and writes afterwards, and other calls get between.               *)
(*                                                                         *)
(* Bounds: Invites, the invitations ever made, and MaxToken, the tokens of *)
(* each, numbered as they are issued; MaxTeamDeaths.                       *)
(***************************************************************************)
EXTENDS Naturals, FiniteSets

CONSTANTS Users, Invites, TeamCalls, MaxToken, MaxTeamDeaths

ASSUME TeamAssumption ==
  /\ MaxToken \in Nat \ {0} /\ MaxTeamDeaths \in Nat
  /\ IsFiniteSet(Users) /\ Users # {} /\ Invites # {}

Roles == {"admin", "member"}

VARIABLES
  member,     \* memberships
  account,    \* users: who has an account
  invite,     \* invitations
  tcall,      \* the calls
  joined,     \* history: the calls that joined by a token, <<invite, token>> -> how many
  cut         \* history: the calls that died

teamVars == <<member, account, invite, tcall, joined, cut>>

MemberType == [status : {"none", "active", "disabled"}, role : Roles]
InviteType == [to : Users, role : Roles, token : 0..MaxToken, issued : 0..MaxToken, overdue : BOOLEAN,
               status : {"none", "pending", "expired", "revoked", "accepted"}]
CallPcs == {"idle", "insert", "resend", "revoke", "expire", "claim", "account", "release", "join",
            "count", "set"}
TeamCallType == [pc : CallPcs, i : Invites, u : Users, token : 0..MaxToken, role : Roles,
                 status : {"active", "disabled"}, what : {"role", "status", "signup"}, admins : Nat]

TeamTypeOK ==
  /\ member \in [Users -> MemberType] /\ account \in SUBSET Users
  /\ invite \in [Invites -> InviteType] /\ tcall \in [TeamCalls -> TeamCallType]
  /\ joined \in [Invites \X (1..MaxToken) -> Nat] /\ cut \in 0..MaxTeamDeaths

AnInvite == CHOOSE i \in Invites : TRUE
AUser == CHOOSE u \in Users : TRUE
Resting == [pc |-> "idle", i |-> AnInvite, u |-> AUser, token |-> 0, role |-> "member",
            status |-> "active", what |-> "role", admins |-> 0]

(* register(): an organisation begins with one admin. *)
TeamInit ==
  /\ member = [u \in Users |-> [status |-> IF u = AUser THEN "active" ELSE "none",
                                role |-> IF u = AUser THEN "admin" ELSE "member"]]
  /\ account \in {a \in SUBSET Users : AUser \in a}
  /\ invite = [i \in Invites |-> [to |-> AUser, role |-> "member", token |-> 0, issued |-> 0,
                                  overdue |-> FALSE, status |-> "none"]]
  /\ tcall = [x \in TeamCalls |-> Resting]
  /\ joined = [t \in Invites \X (1..MaxToken) |-> 0] /\ cut = 0

OnCall(x, pc) == tcall[x].pc = pc
Call(x, c) == OnCall(x, "idle") /\ tcall' = [tcall EXCEPT ![x] = c]
Hangs(x) == tcall' = [tcall EXCEPT ![x] = Resting]
GoesOn(x, pc) == tcall' = [tcall EXCEPT ![x].pc = pc]
Mine(x) == invite[tcall[x].i]
Admins == {u \in Users : member[u].status = "active" /\ member[u].role = "admin"}

-----------------------------------------------------------------------------
(* create_invitation(): not for an active member, nor while one is open.    *)
OpenTo(u) == {i \in Invites : invite[i].to = u /\ invite[i].status = "pending"}

Invite(x, u, role) ==
  /\ member[u].status # "active" /\ OpenTo(u) = {}
  /\ Call(x, [Resting EXCEPT !.pc = "insert", !.u = u, !.role = role])
  /\ UNCHANGED <<member, account, invite, joined, cut>>

InsertInvite(x, i) ==
  /\ OnCall(x, "insert") /\ invite[i].status = "none"
  /\ invite' = [invite EXCEPT ![i] = [to |-> tcall[x].u, role |-> tcall[x].role, token |-> 1,
                                      issued |-> 1, overdue |-> FALSE, status |-> "pending"]]
  /\ Hangs(x)
  /\ UNCHANGED <<member, account, joined, cut>>

(* resend_invitation(), revoke_invitation(), and _expire_if_needed() of any *)
(* reader: each goes by the status it read.                                 *)
Reads(x, i, pc) ==
  /\ \/ pc = "resend" /\ invite[i].status \in {"pending", "expired"} /\ invite[i].issued < MaxToken
     \/ pc = "revoke" /\ invite[i].status = "pending"
     \/ pc = "expire" /\ invite[i].status = "pending" /\ invite[i].overdue
  /\ Call(x, [Resting EXCEPT !.pc = pc, !.i = i])
  /\ UNCHANGED <<member, account, invite, joined, cut>>

Resend(x) ==
  /\ OnCall(x, "resend") /\ Mine(x).issued < MaxToken
  /\ invite' = [invite EXCEPT ![tcall[x].i] =
       [@ EXCEPT !.status = "pending", !.token = Mine(x).issued + 1, !.issued = Mine(x).issued + 1,
                 !.overdue = FALSE]]
  /\ Hangs(x)
  /\ UNCHANGED <<member, account, joined, cut>>

Mark(x, pc, status) ==
  /\ OnCall(x, pc)
  /\ invite' = [invite EXCEPT ![tcall[x].i].status = status]
  /\ Hangs(x)
  /\ UNCHANGED <<member, account, joined, cut>>

InviteLapses(i) ==
  /\ invite[i].status = "pending" /\ ~invite[i].overdue
  /\ invite' = [invite EXCEPT ![i].overdue = TRUE]
  /\ UNCHANGED <<member, account, tcall, joined, cut>>

-----------------------------------------------------------------------------
(* accept_invitation() of someone signed in, accept_invitation_new_account() *)
(* of someone who has no account: of one pending, under the token it has.   *)
Accept(x, i) ==
  /\ invite[i].status = "pending" /\ ~invite[i].overdue /\ invite[i].token # 0
  /\ Call(x, [Resting EXCEPT !.pc = "claim", !.i = i, !.u = invite[i].to, !.token = invite[i].token,
                             !.role = invite[i].role,
                             !.what = IF invite[i].to \in account THEN "role" ELSE "signup"])
  /\ UNCHANGED <<member, account, invite, joined, cut>>

(* _claim_invitation(): status and token in the filter. *)
AnyClaim(x) == TRUE  \* mutant
StillPending(x) == Mine(x).status = "pending" /\ Mine(x).token = tcall[x].token

ClaimInvite(x) ==
  /\ OnCall(x, "claim")
  /\ IF StillPending(x)
     THEN /\ invite' = [invite EXCEPT ![tcall[x].i].status = "accepted", ![tcall[x].i].token = 0]
          /\ GoesOn(x, IF tcall[x].what = "signup" THEN "account" ELSE "join")
     ELSE Hangs(x) /\ UNCHANGED invite
  /\ UNCHANGED <<member, account, joined, cut>>

(* The unique index on users.email refuses a second account. *)
MakeAccount(x) ==
  /\ OnCall(x, "account")
  /\ account' = account \cup {tcall[x].u}
  /\ GoesOn(x, IF tcall[x].u \in account THEN "release" ELSE "join")
  /\ UNCHANGED <<member, invite, joined, cut>>

(* _release_invitation() *)
Returnable(x) == Mine(x).status = "accepted" /\ Mine(x).token = 0

ReleaseInvite(x) ==
  /\ OnCall(x, "release")
  /\ invite' = IF Returnable(x)
               THEN [invite EXCEPT ![tcall[x].i].status = "pending", ![tcall[x].i].token = tcall[x].token]
               ELSE invite
  /\ Hangs(x)
  /\ UNCHANGED <<member, account, joined, cut>>

Join(x) ==
  /\ OnCall(x, "join")
  /\ member' = [member EXCEPT ![tcall[x].u] = [status |-> "active", role |-> tcall[x].role]]
  /\ joined' = [joined EXCEPT ![<<tcall[x].i, tcall[x].token>>] = @ + 1]
  /\ Hangs(x)
  /\ UNCHANGED <<account, invite, cut>>

(* register() elsewhere: an account appears. *)
Register(u) ==
  /\ u \notin account
  /\ account' = account \cup {u}
  /\ UNCHANGED <<member, invite, tcall, joined, cut>>

-----------------------------------------------------------------------------
(* change_member_role(), change_member_status(): the member is read, and    *)
(* the active admins counted if one would go.                               *)
IsActiveAdmin(u) == member[u].role = "admin" /\ member[u].status = "active"

Change(x, u, what, role, status) ==
  /\ member[u].status # "none"
  /\ Call(x, [Resting EXCEPT !.u = u, !.what = what, !.role = role, !.status = status,
                 !.pc = IF IsActiveAdmin(u) /\ (IF what = "role" THEN role # "admin" ELSE status = "disabled")
                        THEN "count" ELSE "set"])
  /\ UNCHANGED <<member, account, invite, joined, cut>>

AnyMayGo == TRUE  \* mutant
OneMayGo == Cardinality(Admins) > 1

CountAdmins(x) ==
  /\ OnCall(x, "count")
  /\ IF OneMayGo THEN tcall' = [tcall EXCEPT ![x].pc = "set", ![x].admins = Cardinality(Admins)] ELSE Hangs(x)
  /\ UNCHANGED <<member, account, invite, joined, cut>>

(* Only the role or only the status is written. *)
SetMember(x) ==
  /\ OnCall(x, "set")
  /\ member' = [member EXCEPT ![tcall[x].u] =
       IF tcall[x].what = "role" THEN [@ EXCEPT !.role = tcall[x].role] ELSE [@ EXCEPT !.status = tcall[x].status]]
  /\ Hangs(x)
  /\ UNCHANGED <<account, invite, joined, cut>>

TeamCallDies(x) ==
  /\ ~OnCall(x, "idle") /\ cut < MaxTeamDeaths
  /\ cut' = cut + 1
  /\ Hangs(x)
  /\ UNCHANGED <<member, account, invite, joined>>

TeamNext ==
  \/ \E x \in TeamCalls :
       \/ \E u \in Users, role \in Roles : Invite(x, u, role) \/ Change(x, u, "role", role, "active")
       \/ \E u \in Users, status \in {"active", "disabled"} : Change(x, u, "status", "member", status)
       \/ \E i \in Invites : \/ InsertInvite(x, i) \/ Accept(x, i)
                             \/ \E pc \in {"resend", "revoke", "expire"} : Reads(x, i, pc)
       \/ Resend(x) \/ Mark(x, "revoke", "revoked") \/ Mark(x, "expire", "expired")
       \/ ClaimInvite(x) \/ MakeAccount(x) \/ ReleaseInvite(x) \/ Join(x)
       \/ CountAdmins(x) \/ SetMember(x) \/ TeamCallDies(x)
  \/ \E i \in Invites : InviteLapses(i)
  \/ \E u \in Users : Register(u)

TeamSpec == TeamInit /\ [][TeamNext]_teamVars

-----------------------------------------------------------------------------
(***************************************************************************)
(* A token joins once: however an invitation is sent again, revoked or     *)
(* handed back between the look and the claim, no two calls join by the    *)
(* same token ("consume a pending invitation exactly once").               *)
(***************************************************************************)
TokenJoinsOnce == \A t \in DOMAIN joined : joined[t] <= 1

(***************************************************************************)
(* What was claimed has joined someone or was handed back, unless the call *)
(* is still at it or died (_release_invitation).                           *)
(***************************************************************************)
ClaimedHasJoined ==
  \A i \in Invites :
    invite[i].status = "accepted" =>
      \/ cut > 0
      \/ \E t \in 1..MaxToken : joined[<<i, t>>] > 0
      \/ \E x \in TeamCalls : tcall[x].i = i /\ tcall[x].pc \in {"account", "release", "join"}

(***************************************************************************)
(* The last admin goes only in a race, by a call that counted another one  *)
(* or read a member that was no active admin yet (change_member_role,      *)
(* change_member_status), or by accepting an invitation as a member, where *)
(* nobody counts.                                                          *)
(***************************************************************************)
LastAdminWasOneOfTwo ==
  [][(Admins # {} /\ Admins' = {}) =>
       \E x \in TeamCalls : tcall'[x].pc = "idle" /\
         (tcall[x].pc = "join" \/ (tcall[x].pc = "set" /\ tcall[x].admins # 1))]_teamVars

(***************************************************************************)
(* What the handling of members and invitations promises.                  *)
(***************************************************************************)
TeamHolds == [](TeamTypeOK /\ TokenJoinsOnce /\ ClaimedHasJoined) /\ LastAdminWasOneOfTwo
=============================================================================
