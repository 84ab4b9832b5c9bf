------------------------------ MODULE MediaStore ------------------------------
(***************************************************************************)
(* MediaService over its two stores: the table of attachments and the      *)
(* bucket of objects, with no transaction across them.  Either store may   *)
(* fail a call, and the process may stop between any two steps.  Pages,    *)
(* edited and deleted meanwhile, embed attachments.                        *)
(***************************************************************************)
EXTENDS FiniteSets, Naturals

CONSTANTS
  Requests,     \* the handlers; each serves one call
  Attachments,  \* ids of attachments
  Objects,      \* the uuids that uploads draw for their objects
  Pages,        \* the pages that may embed attachments
  Null

ASSUME UuidAssumption ==
  /\ Null \notin Attachments \cup Objects \cup Pages
  /\ Attachments \cap Objects = {}

(* How a page may name an attachment: by the id in the stable address       *)
(* /media/<id>/raw, or by the object in a presigned URL.                    *)
Links == [by : {"id"}, of : Attachments] \cup [by : {"object"}, of : Objects]

Answers == {"ok", "refused", "failed"}
Steps   == {"idle", "put", "insert", "sign", "find", "references", "remove", "forget"}

VARIABLES
  rows,      \* the table: the object of each attachment, Null when there is no row
  stored,    \* the objects in the bucket
  content,   \* the links in the current content of each page
  live,      \* the pages that are not deleted
  pc,        \* next step of each handler, or its answer
  target,    \* the attachment a delete is about
  object,    \* the object an upload or a delete is about
  drawn,     \* the uuids drawn so far, for objects and for rows
  doomed     \* history: objects the bucket was told to remove

media == <<rows, stored>>
wiki  == <<content, live>>
local == <<pc, target, object>>
vars  == <<media, wiki, local, drawn, doomed>>

Init ==
  /\ rows = [a \in Attachments |-> Null]
  /\ stored = {}
  /\ content = [p \in Pages |-> {}]
  /\ live = Pages
  /\ pc = [r \in Requests |-> "idle"]
  /\ target = [r \in Requests |-> Null]
  /\ object = [r \in Requests |-> Null]
  /\ drawn = {}
  /\ doomed = {}

Goto(r, step) == pc' = [pc EXCEPT ![r] = step]

-----------------------------------------------------------------------------
(* uploadFile: the object, then its row, then a URL for the answer *)

(* validateUpload or PermissionsGuard may refuse.                           *)
BeginUpload(r) ==
  /\ pc[r] = "idle"
  /\ \/ /\ Goto(r, "refused")
        /\ UNCHANGED <<object, drawn>>
     \/ \E o \in Objects \ drawn :
          /\ Goto(r, "put")
          /\ object' = [object EXCEPT ![r] = o]
          /\ drawn' = drawn \cup {o}
  /\ UNCHANGED <<media, wiki, target, doomed>>

(* Mutant: a bucket that fails is not noticed.                              *)
PutUnchecked(r) ==
  /\ pc[r] = "put"
  /\ stored' \in {stored, stored \cup {object[r]}}
  /\ Goto(r, "insert")
  /\ UNCHANGED <<rows, wiki, target, object, drawn, doomed>>

Put(r) ==
  /\ pc[r] = "put"
  /\ \/ stored' = stored \cup {object[r]} /\ Goto(r, "insert")
     \/ Goto(r, "failed") /\ UNCHANGED stored
  /\ UNCHANGED <<rows, wiki, target, object, drawn, doomed>>

Insert(r) ==
  /\ pc[r] = "insert"
  /\ \/ \E a \in Attachments :
          /\ a \notin drawn
          /\ rows' = [rows EXCEPT ![a] = object[r]]
          /\ drawn' = drawn \cup {a}
          /\ Goto(r, "sign")
     \/ Goto(r, "failed") /\ UNCHANGED <<rows, drawn>>
  /\ UNCHANGED <<stored, wiki, target, object, doomed>>

(* A URL that cannot be signed fails the call, after the row was written.   *)
Sign(r) ==
  /\ pc[r] = "sign"
  /\ Goto(r, "ok") \/ Goto(r, "failed")
  /\ UNCHANGED <<media, wiki, target, object, drawn, doomed>>

-----------------------------------------------------------------------------
(* deleteAttachment: find, look for pages that embed it, remove, forget *)

BeginDelete(r) ==
  /\ pc[r] = "idle"
  /\ \E a \in Attachments :
       /\ target' = [target EXCEPT ![r] = a]
       /\ Goto(r, "find") \/ Goto(r, "refused")
  /\ UNCHANGED <<media, wiki, object, drawn, doomed>>

(* Mutant: the id is taken for the object.                                   *)
FindId(r) ==
  /\ pc[r] = "find"
  /\ Goto(r, IF rows[target[r]] = Null THEN "refused" ELSE "references")
  /\ object' = [object EXCEPT ![r] = target[r]]
  /\ UNCHANGED <<media, wiki, target, drawn, doomed>>

Find(r) ==
  /\ pc[r] = "find"
  /\ Goto(r, IF rows[target[r]] = Null THEN "refused" ELSE "references")
  /\ object' = [object EXCEPT ![r] = rows[target[r]]]
  /\ UNCHANGED <<media, wiki, target, drawn, doomed>>

(* findPagesReferencing: it looks for the uuid in the object's key.          *)
(* Mutant: it looks at one of the pages only.                               *)
ReferencingOne(o) ==
  LET first == CHOOSE p \in Pages : TRUE
  IN {p \in live \cap {first} : [by |-> "object", of |-> o] \in content[p]}

Referencing(o) == {p \in live : [by |-> "object", of |-> o] \in content[p]}

CheckReferences(r) ==
  /\ pc[r] = "references"
  /\ Goto(r, IF Referencing(object[r]) = {} THEN "remove" ELSE "refused")
  /\ UNCHANGED <<media, wiki, target, object, drawn, doomed>>

(* Mutant: a failing removal is ignored, the row goes all the same.          *)
RemoveUnchecked(r) ==
  /\ pc[r] = "remove"
  /\ stored' \in {stored, stored \ {object[r]}}
  /\ Goto(r, "forget")
  /\ doomed' = doomed \cup {object[r]}
  /\ UNCHANGED <<rows, wiki, target, object, drawn>>

(* The bucket may have removed the object even when the call fails.  Removing *)
(* an object that is not there is no error.                                 *)
Remove(r) ==
  /\ pc[r] = "remove"
  /\ \/ stored' = stored \ {object[r]} /\ Goto(r, "forget")
     \/ stored' \in {stored, stored \ {object[r]}} /\ Goto(r, "failed")
  /\ doomed' = doomed \cup {object[r]}
  /\ UNCHANGED <<rows, wiki, target, object, drawn>>

Forget(r) ==
  /\ pc[r] = "forget"
  /\ \/ rows' = [rows EXCEPT ![target[r]] = Null] /\ Goto(r, "ok")
     \/ Goto(r, "failed") /\ UNCHANGED rows
  /\ UNCHANGED <<stored, wiki, target, object, drawn, doomed>>

-----------------------------------------------------------------------------
(* Around the handlers *)

(* What an editor may embed: the address its upload button or its media     *)
(* picker writes, or a URL a call answered with.                            *)
Offered ==
  { [by |-> "id", of |-> a] : a \in {b \in Attachments : rows[b] # Null} }
    \cup { [by |-> "object", of |-> rows[a]] : a \in {b \in Attachments : rows[b] # Null} }

Edit(p) ==
  /\ p \in live
  /\ \/ \E l \in Offered \ content[p] : content' = [content EXCEPT ![p] = @ \cup {l}]
     \/ \E l \in content[p] : content' = [content EXCEPT ![p] = @ \ {l}]
  /\ UNCHANGED <<media, live, local, drawn, doomed>>

DeletePage(p) ==
  /\ p \in live
  /\ live' = live \ {p}
  /\ UNCHANGED <<media, content, local, drawn, doomed>>

(* The process stops; whatever ran is gone.                                 *)
Restart ==
  /\ \E r \in Requests : pc[r] \notin Answers \cup {"idle"}
  /\ pc' = [r \in Requests |-> IF pc[r] \in Answers \cup {"idle"} THEN pc[r] ELSE "failed"]
  /\ UNCHANGED <<media, wiki, target, object, drawn, doomed>>

Upload(r) == BeginUpload(r) \/ Put(r) \/ Insert(r) \/ Sign(r)
Delete(r) == BeginDelete(r) \/ Find(r) \/ CheckReferences(r) \/ Remove(r) \/ Forget(r)
Editing   == \E p \in Pages : Edit(p) \/ DeletePage(p)

Next == Editing \/ Restart \/ \E r \in Requests : Upload(r) \/ Delete(r)
Spec == Init /\ [][Next]_vars

(* One handler at a time, and no edit while it runs.                        *)
Quiet(r)   == pc[r] \in Answers \cup {"idle"}
SerialNext ==
  \/ (\A r \in Requests : Quiet(r)) /\ Editing
  \/ Restart
  \/ \E r \in Requests : (\A q \in Requests \ {r} : Quiet(q)) /\ (Upload(r) \/ Delete(r))
SerialSpec == Init /\ [][SerialNext]_vars

-----------------------------------------------------------------------------
(* Properties *)

TypeOK ==
  /\ rows \in [Attachments -> Objects \cup {Null}]
  /\ stored \cup doomed \subseteq drawn \cap Objects
  /\ drawn \subseteq Objects \cup Attachments
  /\ content \in [Pages -> SUBSET Links] /\ live \subseteq Pages
  /\ pc \in [Requests -> Steps \cup Answers]
  /\ target \in [Requests -> Attachments \cup {Null}]
  /\ object \in [Requests -> Objects \cup {Null}]

(* uploadFile and deleteAttachment order their writes so that, wherever one *)
(* fails or stops, an attachment without its object is one somebody was     *)
(* deleting.                                                                *)
ListedIsStored ==
  \A a \in Attachments :
    (rows[a] # Null /\ rows[a] \notin stored) => rows[a] \in doomed

(* An object no row names, which nothing will ever remove, is left by an *)
(* upload only: a delete, however it fails, can be asked for again.          *)
LeftoversAreUploads ==
  \A o \in stored \cap doomed : \E a \in Attachments : rows[a] = o

(* The three of them, whatever interleaves, fails or stops.                  *)
MediaSound == TypeOK /\ ListedIsStored /\ LeftoversAreUploads

(* deleteAttachment answers 409 instead of removing the object of a URL that *)
(* a live page embeds.  It holds of calls served one at a time; a page saved *)
(* between the look and the removal defeats it.                             *)
EmbeddedObjectsStay ==
  \A o \in stored \ stored' : \A p \in live : [by |-> "object", of |-> o] \notin content[p]

=============================================================================
