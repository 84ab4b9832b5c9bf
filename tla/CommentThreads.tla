------------------------------ MODULE CommentThreads ------------------------------
(***************************************************************************)
(* The comments of one page: CommentsService over a table without foreign     *)
(* keys, its handlers step by step, and somebody who looks at the page and    *)
(* loads the list again at every comment:changed.                           *)
(***************************************************************************)
EXTENDS Naturals, Sequences, FiniteSets

CONSTANTS
  Ids,         \* uuids: each is given once
  Users,
  Moderators,  \* who holds comment.moderate (and user.manage, to purge)
  Handlers,    \* handlers that may run at once
  MaxLoads,    \* bound on the lists the viewer waits for
  MaxChanges,  \* bound on the changes of comments already there
  Null

(* An entity; of the content only whether there is any.                     *)
Comment == [author : Users, parent : Ids \cup {Null}, words : BOOLEAN, deleted : BOOLEAN]
Table   == [Ids -> Comment \cup {Null}]
Call    == [op : {"create", "update", "delete", "moderate", "purge"}, user : Users, id : Ids \cup {Null},
            entity : Comment \cup {Null}, ids : SUBSET Ids, step : {"replies", "write"}]

CommentsAssumption ==
  /\ Moderators \subseteq Users /\ MaxLoads \in Nat \ {0} /\ MaxChanges \in Nat
  /\ Null \notin Ids \cup Users /\ Null \notin Comment /\ Null \notin Call

VARIABLES
  rows,
  calls,    \* what each handler does
  events,   \* comment:changed on the way to the viewer
  loads,    \* lists the viewer has asked for: Null until served
  shown,    \* the list on the viewer's screen
  changes,
  removed   \* history: ids removed for good

vars == <<rows, calls, events, loads, shown, changes, removed>>
viewer == <<events, loads, shown>>

There == {c \in Ids : rows[c] # Null}
Fresh == Ids \ (There \cup removed \cup {calls[h].id : h \in {g \in Handlers : calls[g] # Null}})
Replies(table, c) == {r \in Ids : table[r] # Null /\ table[r].parent = c}

Init ==
  /\ rows = [c \in Ids |-> Null] /\ calls = [h \in Handlers |-> Null]
  /\ events = 0 /\ loads = <<>> /\ shown = rows
  /\ changes = 0 /\ removed = {}

Start(h, call)  == calls[h] = Null /\ calls' = [calls EXCEPT ![h] = call]
Return(h)       == calls' = [calls EXCEPT ![h] = Null]
At(h, op, step) == calls[h] # Null /\ calls[h].op = op /\ calls[h].step = step
Change          == changes < MaxChanges /\ changes' = changes + 1

-----------------------------------------------------------------------------
(* Mutant: any comment of the page can be answered.                         *)
AnswersAny(parent) == parent = Null \/ parent \in There

(* The parent is there and is no reply itself.                              *)
MayAnswer(parent) == parent = Null \/ (parent \in There /\ rows[parent].parent = Null)

BeginCreate(h, u) ==
  /\ \E c \in Fresh, p \in (Ids \cup {Null}) :
       /\ MayAnswer(p)
       /\ Start(h, [op |-> "create", user |-> u, id |-> c, ids |-> {}, step |-> "write",
                    entity |-> [author |-> u, parent |-> p, words |-> TRUE, deleted |-> FALSE]])
  /\ UNCHANGED <<rows, viewer, changes, removed>>

(* updateComment and deleteComment read the entity and check the author.     *)
BeginChange(h, u) ==
  /\ Change
  /\ \E c \in There : \E op \in IF rows[c].author = u THEN {"update", "delete"}
                               ELSE IF u \in Moderators THEN {"moderate"} ELSE {} :
       Start(h, [op |-> op, user |-> u, id |-> c, ids |-> {c}, entity |-> rows[c],
                 step |-> IF op = "moderate" THEN "replies" ELSE "write"])
  /\ UNCHANGED <<rows, viewer, removed>>

(* purgeByUser: a selection of somebody's comments, or all of them.          *)
BeginPurge(h, u) ==
  /\ Change /\ u \in Moderators
  /\ \E a \in Users : \E s \in SUBSET {c \in There : rows[c].author = a} :
       Start(h, [op |-> "purge", user |-> u, id |-> Null, ids |-> s, entity |-> Null, step |-> "replies"])
  /\ UNCHANGED <<rows, viewer, removed>>

(* Mutants: no look for replies; the rows for their ids.                     *)
NoReplies(c) == {}
ReplyRows(c) == {rows[r] : r \in Replies(rows, c)}

(* findRepliesByParentId of a comment; a reply has none.                    *)
RepliesOf(c) == Replies(rows, c)

FindReplies(h) ==
  /\ At(h, "moderate", "replies") \/ At(h, "purge", "replies")
  /\ calls' = [calls EXCEPT ![h].step = "write", ![h].ids = @ \cup UNION {RepliesOf(c) : c \in @}]
  /\ UNCHANGED <<rows, viewer, changes, removed>>

-----------------------------------------------------------------------------
(* Mutant: the author's deletion sends no event.                            *)
AnnouncedUnlessDeleted(op) == op \in {"create", "update", "moderate"}

(* COMMENT_CHANGED_EVENT is emitted by every handler but the purge.          *)
Announced(op) == op # "purge"

Announce(op) == events' = IF Announced(op) THEN events + 1 ELSE events

(* repository.save: the row becomes the entity, inserted when it is gone.     *)
Write(h, op, entity) ==
  /\ At(h, op, "write")
  /\ rows' = [rows EXCEPT ![calls[h].id] = entity]
  /\ Announce(op) /\ Return(h)
  /\ UNCHANGED <<loads, shown, changes, removed>>

Insert(h)     == Write(h, "create", calls[h].entity)
SaveContent(h) == Write(h, "update", [calls[h].entity EXCEPT !.words = TRUE])
SoftDelete(h) == Write(h, "delete", [calls[h].entity EXCEPT !.words = FALSE, !.deleted = TRUE])

DeleteMany(h) ==
  \E op \in {"moderate", "purge"} :
    /\ At(h, op, "write")
    /\ rows' = [c \in Ids |-> IF c \in calls[h].ids THEN Null ELSE rows[c]]
    /\ removed' = removed \cup calls[h].ids
    /\ Announce(op) /\ Return(h)
    /\ UNCHANGED <<loads, shown, changes>>

-----------------------------------------------------------------------------
(* useComments: handleCommentChanged loads again, the service lists, the      *)
(* answer is shown.                                                         *)
Reload ==
  /\ events > 0 /\ Len(loads) < MaxLoads
  /\ events' = events - 1 /\ loads' = Append(loads, Null)
  /\ UNCHANGED <<rows, calls, shown, changes, removed>>

List ==
  /\ loads # <<>> /\ Head(loads) = Null
  /\ loads' = [loads EXCEPT ![1] = rows]
  /\ UNCHANGED <<rows, calls, events, shown, changes, removed>>

Show ==
  /\ loads # <<>> /\ Head(loads) # Null
  /\ shown' = Head(loads) /\ loads' = Tail(loads)
  /\ UNCHANGED <<rows, calls, events, changes, removed>>

Begin(h) == \E u \in Users : BeginCreate(h, u) \/ BeginChange(h, u)
Continue(h) == FindReplies(h) \/ Insert(h) \/ SaveContent(h) \/ SoftDelete(h) \/ DeleteMany(h)
Purge(h) == \E u \in Users : BeginPurge(h, u)
(* The viewer's answers in turn.                                            *)
View == Reload \/ List \/ Show

(* Handlers at once, but no purge, of which the viewer is not told.          *)
Next == (\E h \in Handlers : Begin(h) \/ Continue(h)) \/ View

(* Calls one at a time.                                                      *)
Alone == \A h \in Handlers : calls[h] = Null
SerialNext == \E h \in Handlers : (Alone /\ (Begin(h) \/ Purge(h))) \/ Continue(h)

-----------------------------------------------------------------------------
(* Properties *)

TypeOK ==
  /\ rows \in Table /\ calls \in [Handlers -> Call \cup {Null}]
  /\ \A h \in Handlers : calls[h] # Null /\ calls[h].op = "create" => calls[h].id \in Ids \ There
  /\ events \in Nat /\ loads \in Seq(Table \cup {Null}) /\ shown \in Table
  /\ changes \in 0..MaxChanges /\ removed \subseteq Ids

(* createComment and hardDeleteWithReplies, calls one at a time: every reply   *)
(* hangs from a comment that is there, and is shown with it.                *)
RepliesHaveParents == \A c \in There : rows[c].parent # Null => rows[c].parent \in There

(* createComment, handlers at once: there are two levels, whatever is deleted *)
(* or put back meanwhile.                                                   *)
TwoLevels == \A c \in There : rows[c].parent \in There => rows[rows[c].parent].parent = Null

(* CHANGELOG 257: when nothing is on the way to the viewer any more, the       *)
(* screen shows what is stored.                                             *)
ViewerUpToDate == (events = 0 /\ loads = <<>>) => shown = rows

=============================================================================
