-------------------------------- MODULE Accounts --------------------------------
(***************************************************************************)
(* The table of users and who writes it: the handlers of UsersService for   *)
(* administrators, registration, and the default administrator that every   *)
(* starting backend ensures.  A handler knows its caller by the role in the *)
(* caller's access token, which may be older than the row of the caller.    *)
(***************************************************************************)
EXTENDS FiniteSets, Naturals

CONSTANTS
  Ids,          \* ids of accounts
  Emails, AdminEmail,
  Managers,     \* ids granted user.manage without being administrators
  Requests,     \* the handlers and the starting backends; each serves one call
  Calls,        \* the calls that may be made
  Seeds,        \* contents the table may start with
  Null

Roles   == {"admin", "member"}
Row     == [email : Emails, role : Roles, active : BOOLEAN]

(* Patch of an update: Null leaves the column alone.                        *)
CreateCall   == [op : {"create"}, actor : Ids, email : Emails, role : Roles \cup {Null}]
UpdateCall   == [op : {"update"}, actor : Ids, on : Ids, email : Emails \cup {Null}, role : Roles \cup {Null}]
StatusCall   == [op : {"status"}, actor : Ids, on : Ids, active : BOOLEAN]
DeleteCall   == [op : {"delete"}, actor : Ids, on : Ids]
RegisterCall == [op : {"register"}, email : Emails]
BootCall     == [op : {"boot"}]
Call         == UNION {CreateCall, UpdateCall, StatusCall, DeleteCall, RegisterCall, BootCall}
Anonymous    == {"register", "boot"}

Answers == {"ok", "refused", "failed"}
Steps   == {"idle", "guard", "find", "email", "count", "write"}

AccountsAssumption ==
  /\ Null \notin Call \cup Row \cup Ids \cup Emails \cup Roles
  /\ AdminEmail \in Emails /\ Managers \subseteq Ids
  /\ Calls \subseteq Call
  /\ \A s \in Seeds :
       /\ s \in [Ids -> Row \cup {Null}]
       /\ \A i, j \in Ids : (i # j /\ s[i] # Null /\ s[j] # Null) => s[i].email # s[j].email

VARIABLES
  users,    \* the table
  issued,   \* ids already given out
  token,    \* the role in each account's access token; Null without one
  pc,       \* next step of each handler, or its answer
  call,     \* the call it serves
  as,       \* the role its caller's token states
  entity    \* the row it loaded

vars == <<users, issued, token, pc, call, as, entity>>

Init ==
  /\ users \in Seeds
  /\ issued = {i \in Ids : users[i] # Null}
  /\ token = [i \in Ids |-> Null]
  /\ pc = [r \in Requests |-> "idle"]
  /\ call = [r \in Requests |-> Null]
  /\ as = [r \in Requests |-> Null]
  /\ entity = [r \in Requests |-> Null]

Admins(table)       == {i \in Ids : table[i] # Null /\ table[i].role = "admin"}
ActiveAdmins(table) == {i \in Admins(table) : table[i].active}
Taken(email, i)     == \E j \in Ids \ {i} : users[j] # Null /\ users[j].email = email

Goto(r, step)       == pc' = [pc EXCEPT ![r] = step]
Proceed(r, ok, step) == Goto(r, IF ok THEN step ELSE "refused")
Locals              == <<users, issued, token, call, as, entity>>

-----------------------------------------------------------------------------
(* A login or a refresh puts the role of the row into the token; the token   *)
(* of a removed or inactive account ends with its 15 minutes.               *)
Refresh(i) ==
  /\ token' = [token EXCEPT ![i] =
                 IF users[i] # Null /\ users[i].active THEN users[i].role ELSE Null]
  /\ token'[i] # token[i]
  /\ UNCHANGED <<users, issued, pc, call, as, entity>>

Begin(r) ==
  /\ pc[r] = "idle"
  /\ \E c \in Calls :
       /\ c.op \notin Anonymous => token[c.actor] # Null
       /\ call' = [call EXCEPT ![r] = c]
       /\ as' = [as EXCEPT ![r] = IF c.op \in Anonymous THEN Null ELSE token[c.actor]]
       /\ Goto(r, CASE c.op = "boot"     -> "count"
                    [] c.op = "register" -> "email"
                    [] OTHER             -> "guard")
  /\ UNCHANGED <<users, issued, token, entity>>

(* PermissionsGuard asks the database, not the token; an administrator who    *)
(* is inactive passes as long as the token lasts.                           *)
Manages(i) == users[i] # Null /\ (users[i].role = "admin" \/ (users[i].active /\ i \in Managers))

(* Mutant: whoever manages users may name administrators.                    *)
AnyRole(c, role) == TRUE

(* assertActorCanSetRole *)
MaySetRole(c, role) == (c.op \in {"create", "update"} /\ c.role = "admin") => role = "admin"

Guard(r) ==
  LET c == call[r]
  IN /\ pc[r] = "guard"
     /\ Proceed(r, Manages(c.actor) /\ (c.op = "create" => MaySetRole(c, as[r])),
                IF c.op = "create" THEN "email" ELSE "find")
     /\ UNCHANGED Locals

(* Mutant: only removals are refused.                                       *)
ActsOnAdminOnly(row, c, role) == (row.role = "admin" /\ c.op = "delete") => role = "admin"

(* assertActorIsAdminToActOnAdmin *)
MayActOn(row, c, role) == row.role = "admin" => role = "admin"

Deactivates(c) == c.op = "status" /\ ~c.active
Demotes(c, row) == c.op = "update" /\ c.role = "member" /\ row.role # "member"
Removes(c, row) == c.op = "delete" \/ Deactivates(c) \/ Demotes(c, row)

Find(r) ==
  LET c   == call[r]
      row == users[c.on]
  IN /\ pc[r] = "find"
     /\ Proceed(r, row # Null /\ MayActOn(row, c, as[r]) /\ (Removes(c, row) => c.actor # c.on),
                IF c.op = "update" /\ c.email # Null THEN "email" ELSE "count")
     /\ entity' = [entity EXCEPT ![r] = row]
     /\ UNCHANGED <<users, issued, token, call, as>>

CheckEmail(r) ==
  LET c == call[r]
      email == IF c.op = "boot" THEN AdminEmail ELSE c.email
  IN /\ pc[r] = "email"
     /\ Proceed(r, ~Taken(email, IF c.op = "update" THEN c.on ELSE Null),
                IF c.op = "update" THEN "count" ELSE "write")
     /\ UNCHANGED Locals

(* Mutant: one administrator is enough whoever goes.                         *)
SomeAdminLeft(c, row) == ActiveAdmins(users) # {}

(* assertNotRemovingLastActiveAdmin *)
AdminLeft(c, row) ==
  (Removes(c, row) /\ row.role = "admin" /\ row.active) => Cardinality(ActiveAdmins(users)) > 1

(* The count of administrators; a starting backend that finds one is done.   *)
Count(r) ==
  /\ pc[r] = "count"
  /\ IF call[r].op = "boot"
       THEN Goto(r, IF Admins(users) # {} THEN "ok" ELSE "email")
       ELSE Proceed(r, MaySetRole(call[r], as[r]) /\ AdminLeft(call[r], entity[r]), "write")
  /\ UNCHANGED Locals

(* Mutant: a role nobody named is not defaulted.                             *)
RowAsAsked(c) ==
  [email |-> IF c.op = "boot" THEN AdminEmail ELSE c.email, active |-> TRUE,
   role |-> CASE c.op = "create" -> c.role [] c.op = "register" -> "member" [] OTHER -> "admin"]

NewRow(c) ==
  CASE c.op = "create"   -> [email |-> c.email, active |-> TRUE,
                             role |-> IF c.role = Null THEN "member" ELSE c.role]
    [] c.op = "register" -> [email |-> c.email, role |-> "member", active |-> TRUE]
    [] c.op = "boot"     -> [email |-> AdminEmail, role |-> "admin", active |-> TRUE]

(* Mutant: without the unique index.                                        *)
InsertAnyway(r) ==
  /\ pc[r] = "write" /\ call[r].op \in {"create", "register", "boot"}
  /\ \E i \in Ids \ issued :
       /\ users' = [users EXCEPT ![i] = NewRow(call[r])]
       /\ issued' = issued \cup {i}
       /\ Goto(r, "ok")
  /\ UNCHANGED <<token, call, as, entity>>

(* The unique index on email decides; register tells what it refused.          *)
Insert(r) ==
  LET row == NewRow(call[r])
  IN /\ pc[r] = "write" /\ call[r].op \in {"create", "register", "boot"}
     /\ IF Taken(row.email, Null)
          THEN /\ Goto(r, IF call[r].op = "register" THEN "refused" ELSE "failed")
               /\ UNCHANGED <<users, issued>>
          ELSE \E i \in Ids \ issued :
                 /\ users' = [users EXCEPT ![i] = row]
                 /\ issued' = issued \cup {i}
                 /\ Goto(r, "ok")
     /\ UNCHANGED <<token, call, as, entity>>

(* adminUpdate and updateStatus write the columns they were given, whatever  *)
(* the row has become; no row, no change.                                   *)
Patched(row, c) ==
  IF c.op = "status" THEN [row EXCEPT !.active = c.active]
  ELSE [row EXCEPT !.email = IF c.email = Null THEN @ ELSE c.email,
                   !.role  = IF c.role = Null THEN @ ELSE c.role]

Write(r) ==
  LET c == call[r]
  IN /\ pc[r] = "write" /\ c.op \in {"update", "status", "delete"}
     /\ CASE users[c.on] = Null ->
               UNCHANGED users /\ Goto(r, IF c.op = "delete" THEN "ok" ELSE "failed")
          [] users[c.on] # Null /\ c.op = "delete" ->
               users' = [users EXCEPT ![c.on] = Null] /\ Goto(r, "ok")
          [] OTHER ->
               IF Taken(Patched(users[c.on], c).email, c.on)
                 THEN UNCHANGED users /\ Goto(r, "failed")
                 ELSE users' = [users EXCEPT ![c.on] = Patched(@, c)] /\ Goto(r, "ok")
     /\ UNCHANGED <<issued, token, call, as, entity>>

(* A database error or the end of the process, between any two steps.        *)
Fail(r) ==
  /\ pc[r] \notin Answers \cup {"idle"}
  /\ Goto(r, "failed")
  /\ UNCHANGED Locals

-----------------------------------------------------------------------------
Step(r) ==
  Guard(r) \/ Find(r) \/ CheckEmail(r) \/ Count(r) \/ Insert(r) \/ Write(r) \/ Fail(r)

Next == \/ \E i \in Ids : Refresh(i)
        \/ \E r \in Requests : Begin(r) \/ Step(r)

(* One call at a time.  Tokens may be as old as ever.                        *)
Quiet(r)   == pc[r] \in Answers \cup {"idle"}
SerialNext ==
  \/ \E i \in Ids : Refresh(i)
  \/ \E r \in Requests : (\A q \in Requests \ {r} : Quiet(q)) /\ (Begin(r) \/ Step(r))

-----------------------------------------------------------------------------
(* Properties *)

TypeOK ==
  /\ users \in [Ids -> Row \cup {Null}]
  /\ issued \subseteq Ids /\ \A i \in Ids : users[i] # Null => i \in issued
  /\ token \in [Ids -> Roles \cup {Null}]
  /\ pc \in [Requests -> Steps \cup Answers]
  /\ call \in [Requests -> Call \cup {Null}]
  /\ as \in [Requests -> Roles \cup {Null}]
  /\ entity \in [Requests -> Row \cup {Null}]

(* assertNotRemovingLastActiveAdmin, calls served one at a time: once there   *)
(* is an active administrator there always is one, through deletions,       *)
(* demotions and deactivations asked with tokens of any age.                *)
AdminRemains == ActiveAdmins(users) # {} => ActiveAdmins(users') # {}

(* assertActorIsAdminToActOnAdmin, calls served one at a time: the row of an *)
(* administrator is changed or deleted for a caller who came as one.        *)
AdminsChangedByAdmins ==
  \A i \in Admins(users) : users'[i] # users[i] =>
    \E r \in Requests : pc[r] = "write" /\ pc'[r] = "ok" /\ as[r] = "admin"

(* However calls interleave, somebody becomes an administrator by a call of  *)
(* one, or as the default administrator of a wiki that had none.            *)
AdminsMadeByAdmins ==
  \A i \in Admins(users') \ Admins(users) :
    \E r \in Requests :
      /\ pc[r] = "write" /\ pc'[r] = "ok"
      /\ as[r] = "admin" \/ (call[r].op = "boot" /\ users'[i].email = AdminEmail)

(* ensureDefaultAdmin by several backends that start together, while somebody *)
(* may register its address: they create one administrator between them,    *)
(* and one that reports success leaves an administrator behind.             *)
OneDefaultAdmin ==
  /\ Cardinality(Admins(users)) <= 1
  /\ (\E r \in Requests : pc[r] = "ok" /\ call[r].op = "boot") => Admins(users) # {}

=============================================================================
