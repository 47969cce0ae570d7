------------------------------- MODULE SignIn -------------------------------
(***************************************************************************)
(* The lock on guessing a password (backend/server.py): sign-ins, changes  *)
(* of the password, sign-ups on an invitation and an admin's reset, of one *)
(* address, side by side.  A sign-in looks at the lock, then at the        *)
(* password, and a wrong one is recorded in five reads and writes of       *)
(* login_lockouts.                                                         *)
(*                                                                         *)
(* A lock runs out by an action.  The limit by the caller's network        *)
(* address, a count with no lock, is FormDoor's kind and is left out.      *)
(*                                                                         *)
(* Bounds: MaxGuesses, the wrong guesses in a row; the count is not        *)
(* followed past Threshold, beyond which nothing tells it apart.           *)
(***************************************************************************)
EXTENDS Naturals, FiniteSets

CONSTANTS Attempts, Threshold, MaxGuesses  \* LOGIN_LOCKOUT_THRESHOLD

ASSUME SignInAssumption == IsFiniteSet(Attempts) /\ Threshold \in Nat \ {0} /\ MaxGuesses \in Nat

VARIABLES
  lockout,    \* login_lockouts: failed_count and locked_until
  attempt,
  guesses     \* history: the wrong guesses since the lock was last over, or lifted by right

signInVars == <<lockout, attempt, guesses>>

LockoutType == [count : 0..Threshold, until : {"none", "live", "over"}]
AttemptPcs == {"idle", "verify", "wrong", "restart", "count", "look", "lock", "right"}

SignInTypeOK ==
  /\ lockout \in LockoutType /\ attempt \in [Attempts -> AttemptPcs] /\ guesses \in Nat

SignInInit ==
  /\ lockout = [count |-> 0, until |-> "none"]
  /\ attempt = [x \in Attempts |-> "idle"] /\ guesses = 0

Trying(x, pc) == attempt[x] = pc
Goes(x, pc) == attempt' = [attempt EXCEPT ![x] = pc]

(* login(), change_password(): refused while the lock is live, right or     *)
(* wrong (_login_is_locked).                                                *)
IsLocked == lockout.until = "live"

Attempt(x) ==
  /\ Trying(x, "idle")
  /\ IF IsLocked THEN UNCHANGED attempt ELSE Goes(x, "verify")
  /\ UNCHANGED <<lockout, guesses>>

VerifyWrong(x) ==
  /\ Trying(x, "verify") /\ guesses < MaxGuesses
  /\ guesses' = guesses + 1
  /\ Goes(x, "wrong")
  /\ UNCHANGED lockout

(* The session follows, or the new password is stored. *)
VerifyRight(x) ==
  /\ Trying(x, "verify")
  /\ Goes(x, "right")
  /\ UNCHANGED <<lockout, guesses>>

-----------------------------------------------------------------------------
(* _record_login_failure(): whether the lock there is has run its course,   *)
(* the count started again if so, one more, the count read, the lock set.   *)
ReadLock(x) ==
  /\ Trying(x, "wrong")
  /\ Goes(x, IF lockout.until = "over" THEN "restart" ELSE "count")
  /\ UNCHANGED <<lockout, guesses>>

RestartCount(x) ==
  /\ Trying(x, "restart")
  /\ lockout' = [count |-> 0, until |-> "none"]
  /\ Goes(x, "count")
  /\ UNCHANGED guesses

CountFailure(x) ==
  /\ Trying(x, "count")
  /\ lockout' = [lockout EXCEPT !.count = IF @ = Threshold THEN @ ELSE @ + 1]
  /\ Goes(x, "look")
  /\ UNCHANGED guesses

ReachesNever == FALSE  \* mutant
Reaches == lockout.count >= Threshold

LookAtCount(x) ==
  /\ Trying(x, "look")
  /\ Goes(x, IF Reaches THEN "lock" ELSE "idle")
  /\ UNCHANGED <<lockout, guesses>>

SetLock(x) ==
  /\ Trying(x, "lock")
  /\ lockout' = [lockout EXCEPT !.until = "live"]
  /\ Goes(x, "idle")
  /\ UNCHANGED guesses

(* _reset_login_failures(), of a right password. *)
Lift(x) ==
  /\ Trying(x, "right")
  /\ lockout' = [count |-> 0, until |-> "none"]
  /\ guesses' = 0
  /\ Goes(x, "idle")

(* accept_invitation_new_account() and reset_member_password() lift it too. *)
AdminLifts ==
  /\ lockout' = [count |-> 0, until |-> "none"] /\ guesses' = 0
  /\ UNCHANGED attempt

LockOver ==
  /\ lockout.until = "live"
  /\ lockout' = [lockout EXCEPT !.until = "over"]
  /\ guesses' = 0
  /\ UNCHANGED attempt

SignInNext ==
  \/ \E x \in Attempts :
       \/ Attempt(x) \/ VerifyWrong(x) \/ VerifyRight(x) \/ ReadLock(x) \/ RestartCount(x)
       \/ CountFailure(x) \/ LookAtCount(x) \/ SetLock(x) \/ Lift(x)
  \/ AdminLifts \/ LockOver

SignInSpec == SignInInit /\ [][SignInNext]_signInVars

-----------------------------------------------------------------------------
(***************************************************************************)
(* However many guess side by side, no more of them than this are looked   *)
(* at before a lock is over or a right password lifts it.  It is more than *)
(* Threshold for each of them: an attempt that read the old lock as over   *)
(* starts the count again, and takes away the new lock, after others have  *)
(* used theirs up (_login_is_locked, _record_login_failure).               *)
(***************************************************************************)
GuessesAreBounded ==
  LET n == Cardinality(Attempts) IN 2 * guesses <= n * (2 * Threshold + n - 1)

(***************************************************************************)
(* What the lockout promises.                                              *)
(***************************************************************************)
SignInHolds == SignInTypeOK /\ GuessesAreBounded
=============================================================================
