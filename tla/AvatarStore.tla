------------------------------ MODULE AvatarStore ------------------------------
(***************************************************************************)
(* Avatars: one row per user names the extension of the one file that the   *)
(* bucket should hold for that user.  UsersService erases every file of the *)
(* user, stores the new one and updates the row; the backfill of a          *)
(* migration, or of the script an operator runs, restores rows from the     *)
(* files.  Any call to the bucket or the database may fail.                 *)
(***************************************************************************)
EXTENDS FiniteSets, Naturals

CONSTANTS
  Users, Extensions, Null,
  Requests,      \* the handlers; each serves one call
  MaxBackfills   \* bound on the runs of the backfill

AvatarAssumption == Null \notin Users \cup Extensions /\ MaxBackfills \in Nat

Answers == {"ok", "failed"}

VARIABLES
  row,       \* users.avatar_extension
  files,     \* extensions the bucket holds for each user
  pc,        \* next step of each handler, or its answer
  user,      \* whose avatar the handler changes
  extension, \* the extension it stores; Null removes the avatar
  pending,   \* extensions it has yet to erase
  step,      \* next step of the backfill
  listed,    \* the extension the backfill found for each user
  todo,      \* users it selected and has yet to update
  backfills, \* how often it ran
  answer     \* history: how the last call about each user ended

store    == <<row, files>>
handlers == <<pc, user, extension, pending>>
backfill == <<step, listed, todo, backfills>>
vars     == <<store, handlers, backfill, answer>>

Init ==
  /\ row = [u \in Users |-> Null]
  /\ files = [u \in Users |-> {}]
  /\ pc = [r \in Requests |-> "idle"]
  /\ user = [r \in Requests |-> Null]
  /\ extension = [r \in Requests |-> Null]
  /\ pending = [r \in Requests |-> {}]
  /\ step = "idle"
  /\ listed = [u \in Users |-> Null]
  /\ todo = {}
  /\ backfills = 0
  /\ answer = [u \in Users |-> "ok"]

Goto(r, next) == pc' = [pc EXCEPT ![r] = next]
Answer(r, a)  == Goto(r, a) /\ answer' = [answer EXCEPT ![user[r]] = a]

-----------------------------------------------------------------------------
(* uploadAvatar and removeAvatar *)

Begin(r) ==
  /\ pc[r] = "idle"
  /\ \E u \in Users, e \in Extensions \cup {Null} :
       /\ user' = [user EXCEPT ![r] = u]
       /\ extension' = [extension EXCEPT ![r] = e]
  /\ pending' = [pending EXCEPT ![r] = Extensions]
  /\ Goto(r, "erase")
  /\ UNCHANGED <<store, backfill, answer>>

(* Mutant: a removal stores a file too.                                      *)
ErasingThenPut(r, e, left) ==
  /\ pc[r] = "erase" /\ e \in pending[r]
  /\ files' = [files EXCEPT ![user[r]] = left]
  /\ pending' = [pending EXCEPT ![r] = @ \ {e}]
  /\ Goto(r, IF pending[r] # {e} THEN "erase" ELSE "put")
  /\ UNCHANGED <<row, user, extension, backfill, answer>>

(* deleteExistingAvatarFiles: every extension at once, in any order, and a   *)
(* removal that fails is taken for a file that was not there.               *)
Erasing(r, e, left) ==
  /\ pc[r] = "erase" /\ e \in pending[r]
  /\ files' = [files EXCEPT ![user[r]] = left]
  /\ pending' = [pending EXCEPT ![r] = @ \ {e}]
  /\ Goto(r, IF pending[r] # {e} THEN "erase" ELSE IF extension[r] = Null THEN "row" ELSE "put")
  /\ UNCHANGED <<row, user, extension, backfill, answer>>

(* Mutant: the file the upload will replace is left alone.                   *)
EraseOthers(r) ==
  \E e \in Extensions :
    Erasing(r, e, IF e = row[user[r]] THEN files[user[r]] ELSE files[user[r]] \ {e})

Erase(r) == \E e \in Extensions : Erasing(r, e, files[user[r]] \ {e})
EraseSwallowed(r) == \E e \in Extensions : Erasing(r, e, files[user[r]])

Put(r) ==
  /\ pc[r] = "put"
  /\ files' = [files EXCEPT ![user[r]] = @ \cup {extension[r]}]
  /\ Goto(r, "row")
  /\ UNCHANGED <<row, user, extension, pending, backfill, answer>>

(* Mutant: the row of a removed avatar keeps its extension.                  *)
SetRowUnlessRemoved(r) ==
  /\ pc[r] = "row"
  /\ row' = [row EXCEPT ![user[r]] = IF extension[r] = Null THEN @ ELSE extension[r]]
  /\ Answer(r, "ok")
  /\ UNCHANGED <<files, user, extension, pending, backfill>>

SetRow(r) ==
  /\ pc[r] = "row"
  /\ row' = [row EXCEPT ![user[r]] = extension[r]]
  /\ Answer(r, "ok")
  /\ UNCHANGED <<files, user, extension, pending, backfill>>

Fail(r) ==
  /\ pc[r] \in {"put", "row"}
  /\ Answer(r, "failed")
  /\ UNCHANGED <<store, user, extension, pending, backfill>>

-----------------------------------------------------------------------------
(* backfillAvatarExtensions *)

BackfillList ==
  /\ step = "idle" /\ backfills < MaxBackfills
  /\ listed' \in { f \in [Users -> Extensions \cup {Null}] :
                     \A u \in Users : IF files[u] = {} THEN f[u] = Null ELSE f[u] \in files[u] }
  /\ step' = "select"
  /\ backfills' = backfills + 1
  /\ UNCHANGED <<store, handlers, todo, answer>>

BackfillSelect ==
  /\ step = "select"
  /\ todo' = {u \in Users : row[u] = Null /\ listed[u] # Null}
  /\ step' = "update"
  /\ UNCHANGED <<store, handlers, listed, backfills, answer>>

(* Mutant: the update trusts what the select found.                          *)
RestoredBlindly(u) == [row EXCEPT ![u] = listed[u]]

(* The update repeats the condition of the select.                          *)
Restored(u) == [row EXCEPT ![u] = IF @ = Null THEN listed[u] ELSE @]

BackfillUpdate ==
  /\ step = "update"
  /\ \E u \in todo : row' = Restored(u) /\ todo' = todo \ {u}
  /\ UNCHANGED <<files, handlers, step, listed, backfills, answer>>

(* Nothing left to do, or an error: the migration logs it and goes on.       *)
BackfillEnd ==
  /\ step = "update" /\ todo = {}
  /\ step' = "idle" /\ listed' = [u \in Users |-> Null]
  /\ UNCHANGED <<store, handlers, todo, backfills, answer>>

BackfillFail ==
  /\ step # "idle"
  /\ step' = "idle" /\ todo' = {} /\ listed' = [u \in Users |-> Null]
  /\ UNCHANGED <<store, handlers, backfills, answer>>

-----------------------------------------------------------------------------
Handle(r) == Begin(r) \/ Erase(r) \/ Put(r) \/ SetRow(r)
Backfill  == BackfillList \/ BackfillSelect \/ BackfillUpdate \/ BackfillEnd
Faults(r) == EraseSwallowed(r) \/ Fail(r)

Next == Backfill \/ BackfillFail \/ \E r \in Requests : Handle(r) \/ Faults(r)

(* One handler, or one backfill, at a time, and each call served again.       *)
Quiet(r) == pc[r] \in Answers \cup {"idle"}
Turn(r)  == step = "idle" /\ \A q \in Requests \ {r} : Quiet(q)
SerialNext ==
  \/ (\A r \in Requests : Quiet(r)) /\ (Backfill \/ BackfillFail)
  \/ \E r \in Requests : Turn(r) /\ (Handle(r) \/ Faults(r))

(* The same without a failure.                                              *)
ReliableNext ==
  \/ (\A r \in Requests : Quiet(r)) /\ Backfill
  \/ \E r \in Requests : Turn(r) /\ Handle(r)

-----------------------------------------------------------------------------
(* Properties *)

TypeOK ==
  /\ row \in [Users -> Extensions \cup {Null}]
  /\ files \in [Users -> SUBSET Extensions]
  /\ pc \in [Requests -> Answers \cup {"idle", "erase", "put", "row"}]
  /\ user \in [Requests -> Users \cup {Null}]
  /\ extension \in [Requests -> Extensions \cup {Null}]
  /\ pending \in [Requests -> SUBSET Extensions]
  /\ step \in {"idle", "select", "update"}
  /\ listed \in [Users -> Extensions \cup {Null}]
  /\ todo \subseteq Users /\ backfills \in 0..MaxBackfills
  /\ answer \in [Users -> Answers]

Resting == step = "idle" /\ \A r \in Requests : Quiet(r)

(* Calls served one at a time: getAvatarRedirectUrl redirects to a file that *)
(* exists, unless the last call about the user failed: an upload erases the *)
(* old file before it has stored the new one.                               *)
BrokenOnlyAfterFailure ==
  Resting => \A u \in Users :
    (row[u] # Null /\ row[u] \notin files[u]) => answer[u] = "failed"

(* Without failures the bucket holds exactly the file each row names, so     *)
(* that a backfill, which takes any file it finds, changes nothing.         *)
OneFilePerAvatar ==
  Resting => \A u \in Users : files[u] = {row[u]} \ {Null}

(* A backfill beside running uploads never replaces an avatar somebody set:  *)
(* the update repeats the condition of its select.                          *)
BackfillKeepsAvatars ==
  \A u \in Users : (row[u] # Null /\ row'[u] # row[u]) =>
    \E r \in Requests : pc[r] = "row" /\ user[r] = u /\ pc'[r] = "ok"

=============================================================================
