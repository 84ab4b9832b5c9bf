-------------------------------- MODULE Sessions --------------------------------
(***************************************************************************)
(* One account's password, its lock after wrong passwords, and the sessions  *)
(* opened with it: AuthService's login, changePassword and refresh, and the  *)
(* resetPassword and unlock of UsersService.  Time counts halves of a        *)
(* second: a JWT states the second it was issued in, a datetime column       *)
(* rounds an instant to the nearest second.                                 *)
(***************************************************************************)
EXTENDS FiniteSets, Naturals

CONSTANTS
  Requests,      \* concurrent handlers
  MaxAttempts,   \* MAX_FAILED_LOGIN_ATTEMPTS
  Lock,          \* ACCOUNT_LOCKOUT_DURATION_MINUTES, in seconds
  RefreshTtl,    \* REFRESH_TOKEN_EXPIRATION, in seconds
  MaxTime,       \* bound on time
  MaxCount,      \* bound on the failures counted before another login begins
  MaxPasswords,  \* bound on the passwords the account ever has
  Guesses,       \* passwords somebody tries at a login; 0 is never right
  Null

Passwords == 1..MaxPasswords
Seconds   == 0..(MaxTime + Lock + 1)
Row       == [password : Passwords, changedAt : Seconds \cup {Null},
              attempts : Nat, lockedUntil : Seconds \cup {Null}]
(* The password that opened the session is not in the token; the properties  *)
(* need it.                                                                 *)
RefreshToken == [iat : Seconds, password : Passwords]

Call == [op : {"login"}, guess : Guesses] \cup [op : {"change"}, guess : Guesses]
        \cup [op : {"reset", "unlock"}] \cup [op : {"refresh"}, token : RefreshToken]
Steps == {"idle", "find", "compare", "increment", "reread", "lock", "clear", "sign", "write"}

SessionsAssumption ==
  /\ IsFiniteSet(Requests)
  /\ MaxAttempts \in Nat \ {0} /\ Lock \in Nat \ {0} /\ RefreshTtl \in Nat \ {0}
  /\ MaxTime \in Nat /\ MaxCount \in Nat /\ MaxPasswords \in Nat \ {0} /\ Guesses \subseteq Nat
  /\ Null \notin Nat \cup Row \cup Call

VARIABLES
  now,       \* halves of a second since the start
  user,      \* the row of the account
  tokens,    \* refresh tokens handed out
  pc, call,  \* step and call of each handler
  entity,    \* the row it loaded
  until,     \* the end of the lock it is about to write
  changed    \* history: when each password was set, in halves of a second

vars == <<now, user, tokens, pc, call, entity, until, changed>>

Second(t)  == t \div 2
Rounded(t) == (t + 1) \div 2

Init ==
  /\ now = 0 /\ tokens = {}
  /\ user = [password |-> 1, changedAt |-> Null, attempts |-> 0, lockedUntil |-> Null]
  /\ pc = [r \in Requests |-> "idle"]
  /\ call = [r \in Requests |-> Null]
  /\ entity = [r \in Requests |-> Null]
  /\ until = [r \in Requests |-> Null]
  /\ changed = [p \in Passwords |-> Null]

Tick ==
  /\ now < MaxTime /\ now' = now + 1
  /\ UNCHANGED <<user, tokens, pc, call, entity, until, changed>>

-----------------------------------------------------------------------------
Goto(r, step) == pc' = [pc EXCEPT ![r] = step]

(* The answer: what the handler held is gone.                               *)
Done(r) ==
  /\ Goto(r, "idle")
  /\ call' = [call EXCEPT ![r] = Null]
  /\ entity' = [entity EXCEPT ![r] = Null]
  /\ until' = [until EXCEPT ![r] = Null]
On(r, step) == Goto(r, step) /\ UNCHANGED <<call, entity, until>>

(* verifyRefreshToken *)
Live(token) == Second(now) < token.iat + RefreshTtl

Begin(r) ==
  /\ pc[r] = "idle"
  /\ \E c \in [op : {"login", "change"}, guess : Guesses] \cup [op : {"reset", "unlock"}]
              \cup [op : {"refresh"}, token : {t \in tokens : Live(t)}] :
       /\ c.op = "login" => user.attempts < MaxCount
       /\ call' = [call EXCEPT ![r] = c]
  /\ Goto(r, "find")
  /\ UNCHANGED <<now, user, tokens, entity, until, changed>>

Locked(row) == row.lockedUntil # Null /\ 2 * row.lockedUntil > now

(* Mutant: a token of the very second of the change is refused.              *)
EndedOrEqual(row, token) == row.changedAt # Null /\ row.changedAt >= token.iat

(* The password changed after the token was issued.                         *)
Ended(row, token) == row.changedAt # Null /\ row.changedAt > token.iat

(* The first read; what it decides.                                         *)
Find(r) ==
  LET c == call[r]
  IN /\ pc[r] = "find"
     /\ \/ /\ \/ c.op = "login" /\ Locked(user)
              \/ c.op = "refresh" /\ Ended(user, c.token)
           /\ Done(r)
        \/ /\ c.op = "login" => ~Locked(user)
           /\ c.op = "refresh" => ~Ended(user, c.token)
           /\ entity' = [entity EXCEPT ![r] = user]
           /\ Goto(r, CASE c.op \in {"login", "change"} -> "compare"
                        [] c.op = "reset"   -> "write"
                        [] c.op = "unlock"  -> "clear"
                        [] c.op = "refresh" -> "sign")
           /\ UNCHANGED <<call, until>>
     /\ UNCHANGED <<now, user, tokens, changed>>

(* bcrypt.compare with the hash that was read.                              *)
Compare(r) ==
  LET c == call[r]
      right == c.guess = entity[r].password
  IN /\ pc[r] = "compare"
     /\ CASE c.op = "change" /\ right  -> On(r, "write")
          [] c.op = "change" /\ ~right -> Done(r)
          [] c.op = "login" /\ right   -> On(r, IF entity[r].attempts > 0 THEN "clear" ELSE "sign")
          [] c.op = "login" /\ ~right  -> On(r, "increment")
     /\ UNCHANGED <<now, user, tokens, changed>>

(* incrementFailedLoginAttempts: an UPDATE, then a read of the row.          *)
Increment(r) ==
  /\ pc[r] = "increment"
  /\ user' = [user EXCEPT !.attempts = @ + 1]
  /\ On(r, "reread")
  /\ UNCHANGED <<now, tokens, changed>>

(* Mutant: the lock falls due one failure late.                              *)
LockDueLate(row) == row.attempts > MaxAttempts

LockDue(row) == row.attempts >= MaxAttempts

(* Mutant: a lock without an end.                                            *)
RereadEndless(r) ==
  /\ pc[r] = "reread"
  /\ IF LockDue(user) THEN On(r, "lock") ELSE Done(r)
  /\ UNCHANGED <<now, user, tokens, changed>>

Reread(r) ==
  /\ pc[r] = "reread"
  /\ IF LockDue(user)
       THEN /\ until' = [until EXCEPT ![r] = Rounded(now) + Lock]
            /\ Goto(r, "lock")
            /\ UNCHANGED <<call, entity>>
       ELSE Done(r)
  /\ UNCHANGED <<now, user, tokens, changed>>

LockAccount(r) ==
  /\ pc[r] = "lock"
  /\ user' = [user EXCEPT !.lockedUntil = until[r]]
  /\ Done(r)
  /\ UNCHANGED <<now, tokens, changed>>

(* Mutant: the counter is cleared, the lock stays.                           *)
CounterCleared(row) == [row EXCEPT !.attempts = 0]

Cleared(row) == [row EXCEPT !.attempts = 0, !.lockedUntil = Null]

(* resetFailedLoginAttempts, of a login with the right password and of an    *)
(* administrator's unlock.                                                  *)
Clear(r) ==
  /\ pc[r] = "clear"
  /\ user' = Cleared(user)
  /\ IF call[r].op = "login" THEN On(r, "sign") ELSE Done(r)
  /\ UNCHANGED <<now, tokens, changed>>

(* generateTokens, or the access token of a refresh, of which nothing stays. *)
Sign(r) ==
  /\ pc[r] = "sign"
  /\ tokens' = IF call[r].op = "refresh" THEN tokens
               ELSE tokens \cup {[iat |-> Second(now), password |-> entity[r].password]}
  /\ Done(r)
  /\ UNCHANGED <<now, user, changed>>

(* updatePassword: of a change or an administrator's reset.  The new password *)
(* is one the account never had.                                            *)
Write(r) ==
  /\ pc[r] = "write" /\ user.password < MaxPasswords
  /\ user' = [user EXCEPT !.password = @ + 1, !.changedAt = Rounded(now)]
  /\ changed' = [changed EXCEPT ![user.password + 1] = now]
  /\ Done(r)
  /\ UNCHANGED <<now, tokens>>

(* A failure between any two steps.                                         *)
Fail(r) ==
  /\ pc[r] # "idle"
  /\ Done(r)
  /\ UNCHANGED <<now, user, tokens, changed>>

-----------------------------------------------------------------------------
Handle(r) ==
  \/ Begin(r) \/ Find(r) \/ Compare(r) \/ Increment(r) \/ Reread(r) \/ LockAccount(r)
  \/ Clear(r) \/ Sign(r) \/ Write(r)

Next == Tick \/ \E r \in Requests : Handle(r)

Quiet == \A r \in Requests : pc[r] = "idle"

(* One call at a time, and any of them may break off.                        *)
SerialNext ==
  Tick \/ \E r \in Requests : (\A q \in Requests \ {r} : pc[q] = "idle") /\ (Handle(r) \/ Fail(r))

-----------------------------------------------------------------------------
(* Properties *)

TypeOK ==
  /\ now \in 0..MaxTime
  /\ user \in Row
  /\ tokens \subseteq RefreshToken
  /\ pc \in [Requests -> Steps]
  /\ \A r \in Requests : call[r] = Null <=> pc[r] = "idle"
  /\ entity \in [Requests -> Row \cup {Null}]
  /\ \A r \in Requests : (pc[r] = "lock" <=> until[r] # Null) /\ until[r] \in Seconds \cup {Null}
  /\ changed \in [Passwords -> 0..MaxTime \cup {Null}]

(* validateUser and registerFailedLogin, calls served one at a time and any   *)
(* of them possibly broken off: an account with a lock has failed at least  *)
(* MaxAttempts times since it last logged in or was unlocked, so that one   *)
(* more failure after the lock renews it; a login of the owner ends both.   *)
LockMatchesCounter == Quiet => (user.lockedUntil # Null => user.attempts >= MaxAttempts)

(* registerFailedLogin, however logins, unlocks and changes interleave, with   *)
(* handlers as slow as they may be: for as long as a lock lasts after a     *)
(* moment without failures, the wrong passwords tried in a row are at most  *)
(* MaxAttempts - 1, and one of every concurrent handler.                    *)
GuessesPerLock ==
  now < 2 * Lock => user.attempts <= MaxAttempts - 1 + Cardinality(Requests)

Passes(r)  == pc[r] = "find" /\ call[r].op = "refresh" /\ pc'[r] = "sign"
Refused(r) == pc[r] = "find" /\ call[r].op = "refresh" /\ pc'[r] = "idle" /\ Ended(user, call[r].token)

(* refresh, calls served one at a time: a session opened in another second    *)
(* than that of the last change of password is refreshed exactly when it was *)
(* opened with the present password.                                        *)
PasswordEndsSessions ==
  \A r \in Requests :
    LET token == call[r].token
        same  == changed[user.password] # Null /\ token.iat = Second(changed[user.password])
    IN /\ Passes(r)  => same \/ token.password = user.password
       /\ Refused(r) => same \/ token.password # user.password

=============================================================================
