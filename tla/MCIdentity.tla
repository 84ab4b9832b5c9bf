-------------------------------- MODULE MCIdentity --------------------------------
(***************************************************************************)
(* The components that say who somebody is: the account's password and its  *)
(* sessions, the table of accounts, the tokens of OAuth clients.  They write *)
(* no common state, so a behaviour is one of a single part; the variables of *)
(* the others stay as they are.                                             *)
(***************************************************************************)
EXTENDS OAuthFlow, TLC

CONSTANTS
  ada, bea, man, zed, ea, eb, em, ez, Off,
  MaxAttempts, Lock, RefreshTtl, LoginTime, MaxCount, MaxPasswords,             \* of the sessions
  AccountIds, Emails, AdminEmail, Managers, Backends, AccountCalls, AccountSeeds  \* of the accounts

VARIABLES
  part,
  clock, row, sessions, loginPc, loginCall, loginRow, lockEnd, changed,
  accounts, issued, role, adminPc, adminCall, as, adminRow

sessionVars == <<clock, row, sessions, loginPc, loginCall, loginRow, lockEnd, changed>>
accountVars == <<accounts, issued, role, adminPc, adminCall, as, adminRow>>

Logins == INSTANCE Sessions WITH
  now <- clock, user <- row, tokens <- sessions, pc <- loginPc, call <- loginCall, entity <- loginRow,
  until <- lockEnd, MaxTime <- LoginTime, Guesses <- 0..MaxPasswords

Table == INSTANCE Accounts WITH
  users <- accounts, token <- role, pc <- adminPc, call <- adminCall, entity <- adminRow,
  Ids <- AccountIds, Requests <- Backends, Calls <- AccountCalls, Seeds <- AccountSeeds

(* The accounts of the run: two administrators, a manager of users who is     *)
(* none, and a free id; or nobody but the manager, or nobody at all.         *)
Account(email, as_, active) == [email |-> email, role |-> as_, active |-> active]
Nobody     == [i \in AccountIds |-> Null]
SomeSeeds  ==
  { (ada :> Account(ea, "admin", TRUE)) @@ (bea :> Account(eb, "admin", active))
      @@ (man :> Account(em, "member", TRUE)) @@ (zed :> Null) : active \in BOOLEAN }
    \cup { Nobody, [Nobody EXCEPT ![man] = Account(em, "member", TRUE)] }

(* Their calls.                                                             *)
Removals(actors, on) ==
  [op : {"delete"}, actor : actors, on : on]
    \cup [op : {"status"}, actor : actors, on : on, active : BOOLEAN]
    \cup [op : {"update"}, actor : actors, on : on, email : {Null}, role : {"admin", "member", Null}]
Creations(actors) == [op : {"create"}, actor : actors, email : {ea, ez}, role : {"admin", Null}]
Moves     == [op : {"update"}, actor : {ada, man}, on : {man}, email : {ea, ez}, role : {Null}]
SomeCalls == Removals({ada, bea, man}, {ada, bea, man}) \cup Creations({ada, man}) \cup Moves
               \cup [op : {"boot"}] \cup [op : {"register"}, email : {ea, ez}]

ASSUME IdentityAssumption == Logins!SessionsAssumption /\ Table!AccountsAssumption

SessionsOff ==
  /\ clock = Off /\ row = Off /\ sessions = Off /\ loginPc = Off
  /\ loginCall = Off /\ loginRow = Off /\ lockEnd = Off /\ changed = Off
AccountsOff ==
  /\ accounts = Off /\ issued = Off /\ role = Off /\ adminPc = Off
  /\ adminCall = Off /\ as = Off /\ adminRow = Off

(* Bounds of the parts.  Logins at once are followed for as long as the first  *)
(* lock may last, under one password.  Calls about accounts come to the two  *)
(* handlers; backends start over a table without an administrator, while     *)
(* people register.                                                         *)
WithinOneLock == clock < 2 * Lock /\ row.password = 1
AtTwoHandlers ==
  \A b \in Backends : adminPc[b] # "idle" => b \in Requests /\ adminCall[b].op \notin Table!Anonymous
OnlyStarting  == \A b \in Backends : adminPc[b] # "idle" => adminCall[b].op \in Table!Anonymous

Begins ==
  /\ Init
  /\ \/ part \in {"logins", "loginsInTurn"} /\ Logins!Init /\ AccountsOff
     \/ /\ part \in {"table", "tableInTurn", "boot"} /\ Table!Init /\ SessionsOff
        /\ part = "boot" <=> Table!Admins(accounts) = {}
     \/ part \in {"grants", "grantsInTurn"} /\ SessionsOff /\ AccountsOff

Goes ==
  /\ UNCHANGED part
  /\ \/ /\ \/ part = "logins" /\ Logins!Next /\ WithinOneLock'
           \/ part = "loginsInTurn" /\ Logins!SerialNext
        /\ UNCHANGED <<accountVars, vars>>
     \/ /\ \/ part = "table" /\ Table!Next /\ AtTwoHandlers'
           \/ part = "tableInTurn" /\ Table!SerialNext /\ AtTwoHandlers'
           \/ part = "boot" /\ Table!Next /\ OnlyStarting'
        /\ UNCHANGED <<sessionVars, vars>>
     \/ /\ \/ part = "grants" /\ Next
           \/ part = "grantsInTurn" /\ SerialNext
        /\ UNCHANGED <<sessionVars, accountVars>>

Behaviour == Begins /\ [][Goes]_<<part, sessionVars, accountVars, vars>>

Symmetry ==
  Permutations(Requests) \cup Permutations(Users) \cup Permutations(Proofs)
    \cup Permutations(Clients) \cup Permutations(Codes)

-----------------------------------------------------------------------------
(* Properties *)

(* validateUser, registerFailedLogin and refresh: however logins interleave,  *)
(* a lock lets through at most the guesses the limit and the handlers allow; *)
(* in turn, a lock always has its failures, and a refresh passes exactly for *)
(* the present password, but for the second of the change.                  *)
PasswordsGuarded ==
  [][ /\ part = "logins" => (Logins!TypeOK /\ Logins!GuessesPerLock)'
      /\ part = "loginsInTurn" =>
           /\ (Logins!TypeOK /\ Logins!LockMatchesCounter)'
           /\ Logins!PasswordEndsSessions ]_sessionVars

(* UsersService's calls for administrators: whatever interleaves, only an       *)
(* administrator or a starting backend makes one; in turn, the last one stays *)
(* and one is changed only for another; backends that start together make    *)
(* one between them.                                                        *)
AdministratorsKept ==
  [][ /\ part = "table" => Table!TypeOK' /\ Table!AdminsMadeByAdmins
      /\ part = "tableInTurn" => Table!AdminRemains /\ Table!AdminsChangedByAdmins
      /\ part = "boot" => Table!OneDefaultAdmin' ]_accountVars

(* refresh and revoke of OAuth clients, calls served one at a time and any of  *)
(* them possibly broken off: one live token per grant, none after the last    *)
(* was revoked.                                                             *)
GrantsEnd ==
  [][ part = "grantsInTurn" => OneLiveToken' /\ RevokedForGood ]_vars

=============================================================================
