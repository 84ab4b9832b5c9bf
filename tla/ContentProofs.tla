----------------------------- MODULE ContentProofs -----------------------------
(***************************************************************************)
(* Theorems about what hangs from pages and users, in every part of MCContent *)
(* and for every set of attachments, objects, users, handlers, comments, tags *)
(* and panels.                                                              *)
(***************************************************************************)
EXTENDS MCContent, SequenceTheorems, FiniteSetTheorems, TLAPS

-----------------------------------------------------------------------------
(* Media: an upload has an object that is in no row and with nobody else; a    *)
(* deletion has that of its row, which stays its row's or is gone from both    *)
(* stores.                                                                  *)


Uploading(r) == pc[r] \in {"put", "insert"}
Deleting(r)  == pc[r] \in {"references", "remove", "forget"}

Drawn ==
  /\ \A a \in Attachments : rows[a] # Null => a \in drawn /\ rows[a] \in drawn
  /\ \A r \in Requests : pc[r] = "find" => target[r] \in Attachments

(* The object of an upload is its own until its row is written; it is in the     *)
(* bucket by then.                                                          *)
UploadsOwn ==
  \A r \in Requests : Uploading(r) =>
    /\ object[r] \in (Objects \cap drawn) \ doomed
    /\ \A a \in Attachments : rows[a] # object[r]
    /\ \A q \in Requests \ {r} : (Uploading(q) \/ Deleting(q)) => object[q] # object[r]
    /\ pc[r] = "insert" => object[r] \in stored

(* The object of a deletion is its row's, or out of the bucket like the row of    *)
(* the table.                                                               *)
DeletionsFollowRows ==
  \A r \in Requests : Deleting(r) =>
    /\ target[r] \in Attachments \cap drawn /\ object[r] \in Objects \cap drawn
    /\ rows[target[r]] = object[r] \/ (rows[target[r]] = Null /\ object[r] \notin stored)
    /\ pc[r] = "forget" => object[r] \in doomed \ stored

MediaKnown == MediaSound /\ Drawn /\ UploadsOwn /\ DeletionsFollowRows

-----------------------------------------------------------------------------
LEMMA MediaBegins == Init => MediaKnown
BY UuidAssumption DEF Init, MediaKnown, MediaSound, TypeOK, ListedIsStored, LeftoversAreUploads, Drawn, UploadsOwn, Uploading,
  DeletionsFollowRows, Deleting, Steps, Answers

LEMMA BeginUploadSound ==
  ASSUME MediaKnown, NEW r \in Requests, BeginUpload(r)
  PROVE  MediaKnown'
<1> USE UuidAssumption DEF MediaKnown, MediaSound
<1>1. TypeOK'
  BY DEF BeginUpload, Goto, TypeOK, media, wiki, local, Steps, Answers, Drawn, DeletionsFollowRows, UploadsOwn, Uploading, Deleting
<1>2. (ListedIsStored /\ LeftoversAreUploads)'
  BY DEF BeginUpload, Goto, TypeOK, media, wiki, local, ListedIsStored, LeftoversAreUploads, UploadsOwn, Uploading, DeletionsFollowRows, Deleting
<1>3. Drawn'
  BY DEF BeginUpload, Goto, TypeOK, media, wiki, local, Drawn, UploadsOwn, Uploading
<1>4. UploadsOwn'
  BY DEF BeginUpload, Goto, TypeOK, media, wiki, local, Drawn, UploadsOwn, Uploading, DeletionsFollowRows, Deleting
<1>5. DeletionsFollowRows'
  BY DEF BeginUpload, Goto, TypeOK, media, wiki, local, Drawn, UploadsOwn, Uploading, DeletionsFollowRows, Deleting
<1> QED
  BY <1>1, <1>2, <1>3, <1>4, <1>5

LEMMA PutSound ==
  ASSUME MediaKnown, NEW r \in Requests, Put(r)
  PROVE  MediaKnown'
<1> USE UuidAssumption DEF MediaKnown, MediaSound
<1>1. TypeOK'
  BY DEF Put, Goto, TypeOK, media, wiki, local, Steps, Answers, Drawn, DeletionsFollowRows, UploadsOwn, Uploading, Deleting
<1>2. (ListedIsStored /\ LeftoversAreUploads)'
  BY DEF Put, Goto, TypeOK, media, wiki, local, ListedIsStored, LeftoversAreUploads, UploadsOwn, Uploading, DeletionsFollowRows, Deleting
<1>3. Drawn'
  BY DEF Put, Goto, TypeOK, media, wiki, local, Drawn, UploadsOwn, Uploading
<1>4. UploadsOwn'
  BY DEF Put, Goto, TypeOK, media, wiki, local, Drawn, UploadsOwn, Uploading, DeletionsFollowRows, Deleting
<1>5. DeletionsFollowRows'
  BY DEF Put, Goto, TypeOK, media, wiki, local, Drawn, UploadsOwn, Uploading, DeletionsFollowRows, Deleting
<1> QED
  BY <1>1, <1>2, <1>3, <1>4, <1>5

LEMMA InsertSound ==
  ASSUME MediaKnown, NEW r \in Requests, Insert(r)
  PROVE  MediaKnown'
<1> USE UuidAssumption DEF MediaKnown, MediaSound
<1>1. TypeOK'
  BY DEF Insert, Goto, TypeOK, media, wiki, local, Steps, Answers, Drawn, DeletionsFollowRows, UploadsOwn, Uploading, Deleting
<1>2. (ListedIsStored /\ LeftoversAreUploads)'
  BY DEF Insert, Goto, TypeOK, Drawn, media, wiki, local, ListedIsStored, LeftoversAreUploads, UploadsOwn, Uploading, DeletionsFollowRows, Deleting
<1>3. Drawn'
  BY DEF Insert, Goto, TypeOK, media, wiki, local, Drawn, UploadsOwn, Uploading
<1>4. UploadsOwn'
  BY DEF Insert, Goto, TypeOK, media, wiki, local, Drawn, UploadsOwn, Uploading, DeletionsFollowRows, Deleting
<1>5. DeletionsFollowRows'
  BY DEF Insert, Goto, TypeOK, media, wiki, local, Drawn, UploadsOwn, Uploading, DeletionsFollowRows, Deleting
<1> QED
  BY <1>1, <1>2, <1>3, <1>4, <1>5

LEMMA SignSound ==
  ASSUME MediaKnown, NEW r \in Requests, Sign(r)
  PROVE  MediaKnown'
<1> USE UuidAssumption DEF MediaKnown, MediaSound
<1>1. TypeOK'
  BY DEF Sign, Goto, TypeOK, media, wiki, local, Steps, Answers, Drawn, DeletionsFollowRows, UploadsOwn, Uploading, Deleting
<1>2. (ListedIsStored /\ LeftoversAreUploads)'
  BY DEF Sign, Goto, TypeOK, media, wiki, local, ListedIsStored, LeftoversAreUploads, UploadsOwn, Uploading, DeletionsFollowRows, Deleting
<1>3. Drawn'
  BY DEF Sign, Goto, TypeOK, media, wiki, local, Drawn, UploadsOwn, Uploading
<1>4. UploadsOwn'
  BY DEF Sign, Goto, TypeOK, media, wiki, local, Drawn, UploadsOwn, Uploading, DeletionsFollowRows, Deleting
<1>5. DeletionsFollowRows'
  BY DEF Sign, Goto, TypeOK, media, wiki, local, Drawn, UploadsOwn, Uploading, DeletionsFollowRows, Deleting
<1> QED
  BY <1>1, <1>2, <1>3, <1>4, <1>5

LEMMA BeginDeleteSound ==
  ASSUME MediaKnown, NEW r \in Requests, BeginDelete(r)
  PROVE  MediaKnown'
<1> USE UuidAssumption DEF MediaKnown, MediaSound
<1>1. TypeOK'
  BY DEF BeginDelete, Goto, TypeOK, media, wiki, local, Steps, Answers, Drawn, DeletionsFollowRows, UploadsOwn, Uploading, Deleting
<1>2. (ListedIsStored /\ LeftoversAreUploads)'
  BY DEF BeginDelete, Goto, TypeOK, media, wiki, local, ListedIsStored, LeftoversAreUploads, UploadsOwn, Uploading, DeletionsFollowRows, Deleting
<1>3. Drawn'
  BY DEF BeginDelete, Goto, TypeOK, media, wiki, local, Drawn, UploadsOwn, Uploading
<1>4. UploadsOwn'
  BY DEF BeginDelete, Goto, TypeOK, media, wiki, local, Drawn, UploadsOwn, Uploading, DeletionsFollowRows, Deleting
<1>5. DeletionsFollowRows'
  BY DEF BeginDelete, Goto, TypeOK, media, wiki, local, Drawn, UploadsOwn, Uploading, DeletionsFollowRows, Deleting
<1> QED
  BY <1>1, <1>2, <1>3, <1>4, <1>5

LEMMA FindSound ==
  ASSUME MediaKnown, NEW r \in Requests, Find(r)
  PROVE  MediaKnown'
<1> USE UuidAssumption DEF MediaKnown, MediaSound
<1>1. TypeOK'
  BY DEF Find, Goto, TypeOK, media, wiki, local, Steps, Answers, Drawn, DeletionsFollowRows, UploadsOwn, Uploading, Deleting
<1>2. (ListedIsStored /\ LeftoversAreUploads)'
  BY DEF Find, Goto, TypeOK, media, wiki, local, ListedIsStored, LeftoversAreUploads, UploadsOwn, Uploading, DeletionsFollowRows, Deleting
<1>3. Drawn'
  BY DEF Find, Goto, TypeOK, media, wiki, local, Drawn, UploadsOwn, Uploading
<1>4. UploadsOwn'
  BY DEF Find, Goto, TypeOK, media, wiki, local, Drawn, UploadsOwn, Uploading, DeletionsFollowRows, Deleting
<1>5. DeletionsFollowRows'
  BY DEF Find, Goto, TypeOK, media, wiki, local, Drawn, UploadsOwn, Uploading, DeletionsFollowRows, Deleting
<1> QED
  BY <1>1, <1>2, <1>3, <1>4, <1>5

LEMMA CheckReferencesSound ==
  ASSUME MediaKnown, NEW r \in Requests, CheckReferences(r)
  PROVE  MediaKnown'
<1> USE UuidAssumption DEF MediaKnown, MediaSound
<1>1. TypeOK'
  BY DEF CheckReferences, Goto, TypeOK, media, wiki, local, Steps, Answers, Drawn, DeletionsFollowRows, UploadsOwn, Uploading, Deleting
<1>2. (ListedIsStored /\ LeftoversAreUploads)'
  BY DEF CheckReferences, Goto, TypeOK, media, wiki, local, ListedIsStored, LeftoversAreUploads, UploadsOwn, Uploading, DeletionsFollowRows, Deleting
<1>3. Drawn'
  BY DEF CheckReferences, Goto, TypeOK, media, wiki, local, Drawn, UploadsOwn, Uploading
<1>4. UploadsOwn'
  BY DEF CheckReferences, Goto, TypeOK, media, wiki, local, Drawn, UploadsOwn, Uploading, DeletionsFollowRows, Deleting
<1>5. DeletionsFollowRows'
  BY DEF CheckReferences, Goto, TypeOK, media, wiki, local, Drawn, UploadsOwn, Uploading, DeletionsFollowRows, Deleting
<1> QED
  BY <1>1, <1>2, <1>3, <1>4, <1>5

LEMMA RemoveSound ==
  ASSUME MediaKnown, NEW r \in Requests, Remove(r)
  PROVE  MediaKnown'
<1> USE UuidAssumption DEF MediaKnown, MediaSound
<1>1. TypeOK'
  BY DEF Remove, Goto, TypeOK, media, wiki, local, Steps, Answers, Drawn, DeletionsFollowRows, UploadsOwn, Uploading, Deleting
<1>2. (ListedIsStored /\ LeftoversAreUploads)'
  BY DEF Remove, Goto, TypeOK, media, wiki, local, ListedIsStored, LeftoversAreUploads, UploadsOwn, Uploading, DeletionsFollowRows, Deleting
<1>3. Drawn'
  BY DEF Remove, Goto, TypeOK, media, wiki, local, Drawn, UploadsOwn, Uploading
<1>4. UploadsOwn'
  BY DEF Remove, Goto, TypeOK, media, wiki, local, Drawn, UploadsOwn, Uploading, DeletionsFollowRows, Deleting
<1>5. DeletionsFollowRows'
  BY DEF Remove, Goto, TypeOK, media, wiki, local, Drawn, UploadsOwn, Uploading, DeletionsFollowRows, Deleting
<1> QED
  BY <1>1, <1>2, <1>3, <1>4, <1>5

LEMMA ForgetSound ==
  ASSUME MediaKnown, NEW r \in Requests, Forget(r)
  PROVE  MediaKnown'
<1> USE UuidAssumption DEF MediaKnown, MediaSound
<1>1. TypeOK'
  BY DEF Forget, Goto, TypeOK, media, wiki, local, Steps, Answers, Drawn, DeletionsFollowRows, UploadsOwn, Uploading, Deleting
<1>2. (ListedIsStored /\ LeftoversAreUploads)'
  BY DEF Forget, Goto, TypeOK, media, wiki, local, ListedIsStored, LeftoversAreUploads, UploadsOwn, Uploading, DeletionsFollowRows, Deleting
<1>3. Drawn'
  BY DEF Forget, Goto, TypeOK, media, wiki, local, Drawn, UploadsOwn, Uploading
<1>4. UploadsOwn'
  BY DEF Forget, Goto, TypeOK, media, wiki, local, Drawn, UploadsOwn, Uploading, DeletionsFollowRows, Deleting
<1>5. DeletionsFollowRows'
  BY DEF Forget, Goto, TypeOK, media, wiki, local, Drawn, UploadsOwn, Uploading, DeletionsFollowRows, Deleting
<1> QED
  BY <1>1, <1>2, <1>3, <1>4, <1>5

LEMMA EditSound ==
  ASSUME MediaKnown, NEW p \in Pages, Edit(p)
  PROVE  MediaKnown'
<1> USE UuidAssumption DEF MediaKnown, MediaSound
<1>1. TypeOK'
  BY DEF Edit, Offered, Links, TypeOK, media, wiki, local, Steps, Answers, Drawn, DeletionsFollowRows, UploadsOwn, Uploading, Deleting
<1>2. (ListedIsStored /\ LeftoversAreUploads)'
  BY DEF Edit, Offered, Links, TypeOK, media, wiki, local, ListedIsStored, LeftoversAreUploads, UploadsOwn, Uploading, DeletionsFollowRows, Deleting
<1>3. Drawn'
  BY DEF Edit, Offered, Links, TypeOK, media, wiki, local, Drawn, UploadsOwn, Uploading
<1>4. UploadsOwn'
  BY DEF Edit, Offered, Links, TypeOK, media, wiki, local, Drawn, UploadsOwn, Uploading, DeletionsFollowRows, Deleting
<1>5. DeletionsFollowRows'
  BY DEF Edit, Offered, Links, TypeOK, media, wiki, local, Drawn, UploadsOwn, Uploading, DeletionsFollowRows, Deleting
<1> QED
  BY <1>1, <1>2, <1>3, <1>4, <1>5

LEMMA DeletePageSound ==
  ASSUME MediaKnown, NEW p \in Pages, DeletePage(p)
  PROVE  MediaKnown'
<1> USE UuidAssumption DEF MediaKnown, MediaSound
<1>1. TypeOK'
  BY DEF DeletePage, TypeOK, media, wiki, local, Steps, Answers, Drawn, DeletionsFollowRows, UploadsOwn, Uploading, Deleting
<1>2. (ListedIsStored /\ LeftoversAreUploads)'
  BY DEF DeletePage, TypeOK, media, wiki, local, ListedIsStored, LeftoversAreUploads, UploadsOwn, Uploading, DeletionsFollowRows, Deleting
<1>3. Drawn'
  BY DEF DeletePage, TypeOK, media, wiki, local, Drawn, UploadsOwn, Uploading
<1>4. UploadsOwn'
  BY DEF DeletePage, TypeOK, media, wiki, local, Drawn, UploadsOwn, Uploading, DeletionsFollowRows, Deleting
<1>5. DeletionsFollowRows'
  BY DEF DeletePage, TypeOK, media, wiki, local, Drawn, UploadsOwn, Uploading, DeletionsFollowRows, Deleting
<1> QED
  BY <1>1, <1>2, <1>3, <1>4, <1>5

LEMMA RestartSound ==
  ASSUME MediaKnown, Restart
  PROVE  MediaKnown'
<1> USE UuidAssumption DEF MediaKnown, MediaSound
<1>1. TypeOK'
  BY DEF Restart, TypeOK, media, wiki, local, Steps, Answers, Drawn, DeletionsFollowRows, UploadsOwn, Uploading, Deleting
<1>2. (ListedIsStored /\ LeftoversAreUploads)'
  BY DEF Restart, TypeOK, media, wiki, local, ListedIsStored, LeftoversAreUploads, UploadsOwn, Uploading, DeletionsFollowRows, Deleting
<1>3. Drawn'
  BY DEF Restart, TypeOK, media, wiki, local, Drawn, UploadsOwn, Uploading
<1>4. UploadsOwn'
  BY DEF Restart, TypeOK, media, wiki, local, Drawn, UploadsOwn, Uploading, DeletionsFollowRows, Deleting
<1>5. DeletionsFollowRows'
  BY DEF Restart, TypeOK, media, wiki, local, Drawn, UploadsOwn, Uploading, DeletionsFollowRows, Deleting
<1> QED
  BY <1>1, <1>2, <1>3, <1>4, <1>5

LEMMA MediaLeftAlone ==
  ASSUME MediaKnown, UNCHANGED vars
  PROVE  MediaKnown'
<1> USE UuidAssumption DEF MediaKnown, MediaSound
<1>1. TypeOK'
  BY DEF vars, TypeOK, media, wiki, local, Steps, Answers, Drawn, DeletionsFollowRows, UploadsOwn, Uploading, Deleting
<1>2. (ListedIsStored /\ LeftoversAreUploads)'
  BY DEF vars, TypeOK, media, wiki, local, ListedIsStored, LeftoversAreUploads, UploadsOwn, Uploading, DeletionsFollowRows, Deleting
<1>3. Drawn'
  BY DEF vars, TypeOK, media, wiki, local, Drawn, UploadsOwn, Uploading
<1>4. UploadsOwn'
  BY DEF vars, TypeOK, media, wiki, local, Drawn, UploadsOwn, Uploading, DeletionsFollowRows, Deleting
<1>5. DeletionsFollowRows'
  BY DEF vars, TypeOK, media, wiki, local, Drawn, UploadsOwn, Uploading, DeletionsFollowRows, Deleting
<1> QED
  BY <1>1, <1>2, <1>3, <1>4, <1>5

LEMMA MediaStep == MediaKnown /\ [Next]_vars => MediaKnown'
<1> SUFFICES ASSUME MediaKnown, [Next]_vars PROVE MediaKnown'
  OBVIOUS
<1>1. CASE Editing
  BY <1>1, EditSound, DeletePageSound DEF Editing
<1>2. CASE Restart
  BY <1>2, RestartSound
<1>3. ASSUME NEW r \in Requests, Upload(r) PROVE MediaKnown'
  BY <1>3, BeginUploadSound, PutSound, InsertSound, SignSound DEF Upload
<1>4. ASSUME NEW r \in Requests, Delete(r) PROVE MediaKnown'
  BY <1>4, BeginDeleteSound, FindSound, CheckReferencesSound, RemoveSound, ForgetSound DEF Delete
<1>5. CASE UNCHANGED vars
  BY <1>5, MediaLeftAlone
<1> QED
  BY <1>1, <1>2, <1>3, <1>4, <1>5 DEF Next

(* uploadFile and deleteAttachment, handlers interleaved with each other and     *)
(* with edits, either store failing anywhere: an attachment whose object is       *)
(* missing is being deleted, and a deletion leaves no object without its row.    *)
THEOREM MediaIsSound == Spec => []MediaSound
<1>1. MediaKnown => MediaSound
  BY DEF MediaKnown
<1> QED
  BY MediaBegins, MediaStep, <1>1, PTL DEF Spec

-----------------------------------------------------------------------------
(* Calls served one at a time, pages edited between them *)

OneHandler == \A q, r \in Requests : ~Quiet(q) /\ ~Quiet(r) => q = r

(* What the check found holds until the removal.                             *)
CheckedStays == \A r \in Requests : pc[r] = "remove" => Referencing(object[r]) = {}

MediaInTurn == MediaKnown /\ OneHandler /\ CheckedStays

LEMMA MediaInTurnBegins == Init => MediaInTurn
BY MediaBegins DEF Init, MediaInTurn, OneHandler, Quiet, CheckedStays

LEMMA MediaInTurnStep == MediaInTurn /\ [SerialNext]_vars => MediaInTurn'
<1> SUFFICES ASSUME MediaInTurn, [SerialNext]_vars PROVE MediaInTurn'
  OBVIOUS
<1>1. MediaKnown'
  BY MediaStep DEF MediaInTurn, SerialNext, Next
<1> USE DEF MediaInTurn, MediaKnown, MediaSound
<1>2. CASE (\A r \in Requests : Quiet(r)) /\ Editing
  BY <1>1, <1>2 DEF Editing, Edit, DeletePage, local, OneHandler, Quiet, CheckedStays, Answers
<1>3. CASE Restart
  BY <1>1, <1>3 DEF Restart, wiki, OneHandler, Quiet, CheckedStays, Answers
<1>4. ASSUME NEW r \in Requests, \A q \in Requests \ {r} : Quiet(q), Upload(r) \/ Delete(r)
      PROVE  MediaInTurn'
  <2>1. UNCHANGED wiki /\ \A q \in Requests \ {r} : pc'[q] = pc[q]
    BY <1>4 DEF Upload, Delete, BeginUpload, Put, Insert, Sign, BeginDelete, Find, CheckReferences, Remove,
      Forget, Goto, wiki, TypeOK
  <2>2. OneHandler'
    BY <1>4, <2>1 DEF OneHandler, Quiet
  <2>3. pc'[r] = "remove" => Referencing(object[r]) = {} /\ object'[r] = object[r]
    BY <1>4 DEF Upload, Delete, BeginUpload, Put, Insert, Sign, BeginDelete, Find, CheckReferences, Remove,
      Forget, Goto, TypeOK
  <2>4. CheckedStays'
    BY <1>4, <2>1, <2>3 DEF CheckedStays, Quiet, Answers, Referencing, wiki
  <2> QED
    BY <1>1, <2>2, <2>4
<1>5. CASE UNCHANGED vars
  BY <1>1, <1>5 DEF vars, local, wiki, OneHandler, Quiet, CheckedStays, Referencing
<1> QED
  BY <1>2, <1>3, <1>4, <1>5 DEF SerialNext

LEMMA RemovalsSpareEmbedded ==
  ASSUME MediaInTurn, [SerialNext]_vars
  PROVE  EmbeddedObjectsStay
<1> SUFFICES ASSUME NEW o \in stored \ stored', NEW p \in live
             PROVE  [by |-> "object", of |-> o] \notin content[p]
  BY DEF EmbeddedObjectsStay
<1>1. PICK r \in Requests : Remove(r)
  BY DEF SerialNext, Editing, Edit, DeletePage, Restart, Upload, Delete, BeginUpload, Put, Insert, Sign, BeginDelete,
    Find, CheckReferences, Forget, media, vars
<1>2. o = object[r]
  BY <1>1 DEF Remove
<1> QED
  BY <1>1, <1>2 DEF Remove, MediaInTurn, CheckedStays, Referencing

(* deleteAttachment, calls served one at a time: the object of a URL that a      *)
(* live page embeds stays.                                                  *)
THEOREM EmbeddedObjectsStayInTurn == SerialSpec => [][EmbeddedObjectsStay]_vars
<1>1. MediaInTurn /\ [SerialNext]_vars => [EmbeddedObjectsStay]_vars
  BY RemovalsSpareEmbedded
<1> QED
  BY MediaInTurnBegins, MediaInTurnStep, <1>1, PTL DEF SerialSpec

-----------------------------------------------------------------------------
(* Avatars: what a call about a user has made of the files by each of its     *)
(* steps, and the backfill of the files it lists.                           *)

Handling(r) == avatarPc[r] \in {"erase", "put", "row"}

AvatarsKnown ==
  /\ Avatars!TypeOK
  /\ \A r \in Requests : Handling(r) => whose[r] \in Users
  /\ \A r \in Requests : avatarPc[r] = "put" => extension[r] \in Extensions

(* One call at a time, or one backfill.                                      *)
OneCall ==
  /\ \A q, r \in Requests : Handling(q) /\ Handling(r) => q = r
  /\ \A r \in Requests : Handling(r) => step = "idle"

Untouched(u) == \A r \in Requests : Handling(r) => whose[r] # u

FilesListed == \A u \in Users : step # "idle" /\ listed[u] # Null => listed[u] \in files[u]

BrokenByFailure ==
  /\ \A u \in Users : Untouched(u) /\ avatar[u] # Null /\ avatar[u] \notin files[u] => answer[u] = "failed"
  /\ \A r \in Requests : avatarPc[r] = "row" /\ extension[r] # Null => extension[r] \in files[whose[r]]

(* Without failures: what is still to be erased, then nothing, then the new file. *)
OneFileEach ==
  /\ \A u \in Users : Untouched(u) => files[u] = {avatar[u]} \ {Null}
  /\ \A r \in Requests :
       /\ avatarPc[r] = "erase" => files[whose[r]] \subseteq erasing[r]
       /\ avatarPc[r] = "put" => files[whose[r]] = {}
       /\ avatarPc[r] = "row" => files[whose[r]] = {extension[r]} \ {Null}
  /\ todo = {}

AvatarsInv ==
  /\ part \in {"avatars", "avatarsInTurn", "avatarsCalm"} => AvatarsKnown
  /\ part \in {"avatarsInTurn", "avatarsCalm"} => OneCall /\ FilesListed /\ BrokenByFailure
  /\ part = "avatarsCalm" => OneFileEach

LEMMA AvatarAssumptions == Null \notin Users /\ Null \notin Extensions /\ MaxBackfills \in Nat
BY ContentAssumption DEF ContentAssumption, Avatars!AvatarAssumption

LEMMA AvatarsBegin ==
  ASSUME Avatars!Init
  PROVE  AvatarsKnown /\ OneCall /\ FilesListed /\ BrokenByFailure /\ OneFileEach
BY AvatarAssumptions DEF Avatars!Init, AvatarsKnown, Avatars!TypeOK, Avatars!Answers, Handling, OneCall, FilesListed,
  BrokenByFailure, OneFileEach, Untouched

LEMMA AvatarsStep ==
  ASSUME AvatarsKnown, Avatars!Next
  PROVE  AvatarsKnown' /\ Avatars!BackfillKeepsAvatars
<1> USE AvatarAssumptions DEF AvatarsKnown, Avatars!TypeOK, Avatars!Answers, Handling, Avatars!Goto, Avatars!Answer,
  Avatars!store, Avatars!handlers, Avatars!backfill
<1>1. ASSUME NEW r \in Requests, Avatars!Begin(r) PROVE AvatarsKnown' /\ Avatars!BackfillKeepsAvatars
  BY <1>1 DEF Avatars!Begin, Avatars!BackfillKeepsAvatars
<1>2. ASSUME NEW r \in Requests, NEW e \in Extensions, NEW left, left \subseteq Extensions, Avatars!Erasing(r, e, left)
      PROVE  AvatarsKnown' /\ Avatars!BackfillKeepsAvatars
  BY <1>2 DEF Avatars!Erasing, Avatars!BackfillKeepsAvatars
<1>3. ASSUME NEW r \in Requests, Avatars!Erase(r) \/ Avatars!EraseSwallowed(r)
      PROVE  AvatarsKnown' /\ Avatars!BackfillKeepsAvatars
  <2>1. PICK e \in Extensions :
          Avatars!Erasing(r, e, files[whose[r]]) \/ Avatars!Erasing(r, e, files[whose[r]] \ {e})
    BY <1>3 DEF Avatars!Erase, Avatars!EraseSwallowed
  <2>2. files[whose[r]] \subseteq Extensions
    BY <2>1 DEF Avatars!Erasing
  <2> QED
    BY <1>2, <2>1, <2>2
<1>4. ASSUME NEW r \in Requests, Avatars!Put(r) PROVE AvatarsKnown' /\ Avatars!BackfillKeepsAvatars
  BY <1>4 DEF Avatars!Put, Avatars!BackfillKeepsAvatars
<1>5. ASSUME NEW r \in Requests, Avatars!SetRow(r) PROVE AvatarsKnown' /\ Avatars!BackfillKeepsAvatars
  BY <1>5 DEF Avatars!SetRow, Avatars!BackfillKeepsAvatars
<1>6. ASSUME NEW r \in Requests, Avatars!Fail(r) PROVE AvatarsKnown' /\ Avatars!BackfillKeepsAvatars
  BY <1>6 DEF Avatars!Fail, Avatars!BackfillKeepsAvatars
<1>7. CASE Avatars!BackfillList
  BY <1>7 DEF Avatars!BackfillList, Avatars!BackfillKeepsAvatars
<1>8. CASE Avatars!BackfillSelect
  BY <1>8 DEF Avatars!BackfillSelect, Avatars!BackfillKeepsAvatars
<1>9. CASE Avatars!BackfillUpdate
  BY <1>9 DEF Avatars!BackfillUpdate, Avatars!Restored, Avatars!BackfillKeepsAvatars
<1>10. CASE Avatars!BackfillEnd \/ Avatars!BackfillFail
  BY <1>10 DEF Avatars!BackfillEnd, Avatars!BackfillFail, Avatars!BackfillKeepsAvatars
<1> QED
  BY <1>1, <1>3, <1>4, <1>5, <1>6, <1>7, <1>8, <1>9, <1>10
  DEF Avatars!Next, Avatars!Handle, Avatars!Faults, Avatars!Backfill

LEMMA TurnsAreNext == (Avatars!SerialNext => Avatars!Next) /\ (Avatars!ReliableNext => Avatars!SerialNext)
BY DEF Avatars!SerialNext, Avatars!ReliableNext, Avatars!Next

(* In turn, the files change by the one call, and never under a backfill.      *)
LEMMA AvatarsInTurnStep ==
  ASSUME AvatarsKnown, OneCall, FilesListed, BrokenByFailure, Avatars!SerialNext
  PROVE  (OneCall /\ FilesListed /\ BrokenByFailure)'
<1> USE AvatarAssumptions DEF AvatarsKnown, Avatars!TypeOK, Avatars!Answers, Handling, Avatars!Quiet, Avatars!Goto,
  Avatars!Answer, Avatars!store, Avatars!handlers, Avatars!backfill, OneCall, FilesListed, BrokenByFailure, Untouched
<1>1. ASSUME NEW r \in Requests, Avatars!Turn(r), Avatars!Begin(r)
      PROVE  (OneCall /\ FilesListed /\ BrokenByFailure)'
  BY <1>1 DEF Avatars!Turn, Avatars!Begin
<1>2. ASSUME NEW r \in Requests, Avatars!Turn(r), Avatars!Erase(r) \/ Avatars!EraseSwallowed(r)
      PROVE  (OneCall /\ FilesListed /\ BrokenByFailure)'
  BY <1>2 DEF Avatars!Turn, Avatars!Erase, Avatars!EraseSwallowed, Avatars!Erasing
<1>3. ASSUME NEW r \in Requests, Avatars!Turn(r), Avatars!Put(r)
      PROVE  (OneCall /\ FilesListed /\ BrokenByFailure)'
  BY <1>3 DEF Avatars!Turn, Avatars!Put
<1>4. ASSUME NEW r \in Requests, Avatars!Turn(r), Avatars!SetRow(r)
      PROVE  (OneCall /\ FilesListed /\ BrokenByFailure)'
  BY <1>4 DEF Avatars!Turn, Avatars!SetRow
<1>5. ASSUME NEW r \in Requests, Avatars!Turn(r), Avatars!Fail(r)
      PROVE  (OneCall /\ FilesListed /\ BrokenByFailure)'
  BY <1>5 DEF Avatars!Turn, Avatars!Fail
<1>6. CASE (\A r \in Requests : Avatars!Quiet(r)) /\ (Avatars!Backfill \/ Avatars!BackfillFail)
  BY <1>6 DEF Avatars!Backfill, Avatars!BackfillFail, Avatars!BackfillList, Avatars!BackfillSelect,
    Avatars!BackfillUpdate, Avatars!BackfillEnd, Avatars!Restored
<1> QED
  BY <1>1, <1>2, <1>3, <1>4, <1>5, <1>6 DEF Avatars!SerialNext, Avatars!Handle, Avatars!Faults

LEMMA AvatarsCalmStep ==
  ASSUME AvatarsKnown, OneCall, FilesListed, OneFileEach, Avatars!ReliableNext
  PROVE  OneFileEach'
<1> USE AvatarAssumptions DEF AvatarsKnown, Avatars!TypeOK, Avatars!Answers, Handling, Avatars!Quiet, Avatars!Goto,
  Avatars!Answer, Avatars!store, Avatars!handlers, Avatars!backfill, OneCall, FilesListed, OneFileEach, Untouched
<1>1. ASSUME NEW r \in Requests, Avatars!Turn(r), Avatars!Begin(r) PROVE OneFileEach'
  BY <1>1 DEF Avatars!Turn, Avatars!Begin
<1>2. ASSUME NEW r \in Requests, Avatars!Turn(r), Avatars!Erase(r) PROVE OneFileEach'
  BY <1>2 DEF Avatars!Turn, Avatars!Erase, Avatars!Erasing
<1>3. ASSUME NEW r \in Requests, Avatars!Turn(r), Avatars!Put(r) PROVE OneFileEach'
  BY <1>3 DEF Avatars!Turn, Avatars!Put
<1>4. ASSUME NEW r \in Requests, Avatars!Turn(r), Avatars!SetRow(r) PROVE OneFileEach'
  BY <1>4 DEF Avatars!Turn, Avatars!SetRow
<1>5. CASE (\A r \in Requests : Avatars!Quiet(r)) /\ Avatars!Backfill
  BY <1>5 DEF Avatars!Backfill, Avatars!BackfillList, Avatars!BackfillSelect, Avatars!BackfillUpdate,
    Avatars!BackfillEnd, Avatars!Restored
<1> QED
  BY <1>1, <1>2, <1>3, <1>4, <1>5 DEF Avatars!ReliableNext, Avatars!Handle

LEMMA AvatarsInvariance ==
  ASSUME AvatarsInv, [Goes]_<<part, vars, avatarVars, commentVars, tagVars>>
  PROVE  AvatarsInv'
<1>1. CASE UNCHANGED <<part, avatarVars>>
  BY <1>1 DEF AvatarsInv, avatarVars, AvatarsKnown, Avatars!TypeOK, OneCall, FilesListed, BrokenByFailure, OneFileEach,
    Handling, Untouched
<1>2. CASE part = "avatars" /\ Avatars!Next /\ UNCHANGED part
  BY <1>2, AvatarsStep DEF AvatarsInv
<1>3. CASE part = "avatarsInTurn" /\ Avatars!SerialNext /\ UNCHANGED part
  BY <1>3, AvatarsStep, AvatarsInTurnStep, TurnsAreNext DEF AvatarsInv
<1>4. CASE part = "avatarsCalm" /\ Avatars!ReliableNext /\ UNCHANGED part
  BY <1>4, AvatarsStep, AvatarsInTurnStep, AvatarsCalmStep, TurnsAreNext DEF AvatarsInv
<1> QED
  BY <1>1, <1>2, <1>3, <1>4 DEF Goes

(* At rest nobody's files are in the hands of a call.                         *)
LEMMA AtRest ==
  /\ AvatarsKnown /\ BrokenByFailure => Avatars!BrokenOnlyAfterFailure
  /\ AvatarsKnown /\ OneFileEach => Avatars!OneFilePerAvatar
BY DEF AvatarsKnown, BrokenByFailure, OneFileEach, Untouched, Handling, Avatars!BrokenOnlyAfterFailure,
  Avatars!OneFilePerAvatar, Avatars!Resting, Avatars!Quiet, Avatars!Answers

MediaInv == (part = "mediaInTurn") => MediaInTurn

LEMMA MediaInvariance ==
  ASSUME MediaInv, [Goes]_<<part, vars, avatarVars, commentVars, tagVars>>
  PROVE  MediaInv'
<1>1. part = "mediaInTurn" /\ part' = part => [SerialNext]_vars
  BY DEF Goes
<1> QED
  BY <1>1, MediaInTurnStep DEF MediaInv, Goes

(* uploadFile, deleteAttachment, uploadAvatar, removeAvatar and                *)
(* backfillAvatarExtensions: in turn, the object of an embedded URL stays, an   *)
(* avatar is broken only by a call that failed, and without a failure there    *)
(* is one file per avatar; beside running calls, the backfill replaces nothing. *)
THEOREM FilesAreKept == Behaviour => FilesKept
<1> DEFINE Kept == /\ part = "mediaInTurn" => EmbeddedObjectsStay
                   /\ part = "avatars" => Avatars!TypeOK' /\ Avatars!BackfillKeepsAvatars
                   /\ part = "avatarsInTurn" => Avatars!BrokenOnlyAfterFailure'
                   /\ part = "avatarsCalm" => Avatars!OneFilePerAvatar'
<1>1. Begins => MediaInv /\ AvatarsInv
  BY MediaInTurnBegins, AvatarsBegin DEF Begins, MediaInv, AvatarsInv
<1>2. ASSUME MediaInv, AvatarsInv, [Goes]_<<part, vars, avatarVars, commentVars, tagVars>>
      PROVE  [Kept]_<<vars, avatarVars>>
  <2> SUFFICES ASSUME <<vars, avatarVars>>' # <<vars, avatarVars>> PROVE Kept
    OBVIOUS
  <2>1. AvatarsInv' /\ part' = part
    BY <1>2, AvatarsInvariance DEF Goes
  <2>2. CASE part = "mediaInTurn"
    BY <1>2, <2>2, RemovalsSpareEmbedded DEF Goes, MediaInv
  <2>3. CASE part = "avatars"
    BY <1>2, <2>1, <2>3, AvatarsStep DEF Goes, AvatarsInv, AvatarsKnown
  <2>4. CASE part \in {"avatarsInTurn", "avatarsCalm"}
    <3>1. /\ (AvatarsKnown /\ BrokenByFailure => Avatars!BrokenOnlyAfterFailure)'
          /\ (AvatarsKnown /\ OneFileEach => Avatars!OneFilePerAvatar)'
      BY AtRest, PTL
    <3> QED
      BY <2>1, <2>4, <3>1 DEF AvatarsInv
  <2> QED
    BY <2>2, <2>3, <2>4
<1> QED
  BY <1>1, <1>2, AvatarsInvariance, MediaInvariance, PTL DEF Behaviour, FilesKept

-----------------------------------------------------------------------------
(* Comments: a comment has one parent as long as it is known, in the table    *)
(* and in the hands of every handler that may still put it back.             *)

Busy(h) == commentCalls[h] # Null
Has(h)  == Busy(h) /\ commentCalls[h].op # "purge"
Known   == Threads!There \cup removed

Hangs(c, p) ==
  \/ comments[c] # Null /\ comments[c].parent = p
  \/ \E h \in Handlers : Has(h) /\ commentCalls[h].id = c /\ commentCalls[h].entity.parent = p

(* A new comment's id is its own; what else a handler names is known.         *)
Named(h) ==
  LET c == commentCalls[h]
  IN Busy(h) =>
       /\ c.op # "purge" => c.id \in Ids /\ c.entity \in Threads!Comment
       /\ c.op = "create" => c.id \notin Known /\ c.step = "write"
       /\ c.op \in {"update", "delete", "moderate"} => c.id \in Known
       /\ c.ids \subseteq Known
       /\ c.op = "create" => \A g \in Handlers \ {h} : Busy(g) => commentCalls[g].id # c.id

OneParent    == \A c \in Ids : \A p, q \in Ids \cup {Null} : Hangs(c, p) /\ Hangs(c, q) => p = q
ParentsKnown == \A c, p \in Ids : Hangs(c, p) => p \in Known
Flat         == \A c, p \in Ids : \A q \in Ids \cup {Null} : Hangs(c, p) /\ Hangs(p, q) => q = Null

CommentsKnown ==
  Threads!TypeOK /\ (\A h \in Handlers : Named(h)) /\ OneParent /\ ParentsKnown /\ Flat

(* The viewer is served in turn, and what comes last is what is stored.       *)
ViewInTurn ==
  /\ \A h \in Handlers : Busy(h) => commentCalls[h].op # "purge"
  /\ \A i \in 2..Len(loads) : loads[i] = Null
  /\ (events = 0 /\ loads = <<>>) => shown = comments
  /\ (events = 0 /\ Len(loads) = 1 /\ loads[1] # Null) => loads[1] = comments

(* What a handler read alone is still true, and what it deletes is closed.    *)
Alone(h) ==
  LET c == commentCalls[h]
  IN Busy(h) =>
       /\ \A g \in Handlers : Busy(g) => g = h
       /\ c.op = "create" => c.entity.parent \in Threads!There \cup {Null}
       /\ c.op \in {"update", "delete"} => c.id \in Threads!There
       /\ (c.op \in {"moderate", "purge"} /\ c.step = "write") =>
            \A x \in c.ids : Threads!Replies(comments, x) \subseteq c.ids

InTurn == Threads!RepliesHaveParents /\ \A h \in Handlers : Alone(h)

CommentsInv ==
  /\ part \in {"comments", "commentsInTurn"} => CommentsKnown
  /\ part = "comments" => ViewInTurn
  /\ part = "commentsInTurn" => InTurn

-----------------------------------------------------------------------------
LEMMA CommentAssumptions ==
  /\ Moderators \subseteq Users /\ MaxLoads \in Nat \ {0} /\ MaxChanges \in Nat
  /\ Null \notin Ids \cup Users /\ Null \notin Threads!Comment /\ Null \notin Threads!Call
BY ContentAssumption DEF Threads!CommentsAssumption

LEMMA CommentsBegin ==
  ASSUME Threads!Init
  PROVE  CommentsKnown /\ ViewInTurn /\ InTurn
<1> USE CommentAssumptions DEF Threads!Init
<1>1. Threads!TypeOK
  BY DEF Threads!TypeOK, Threads!Table, Threads!There
<1>2. \A h \in Handlers : ~Busy(h)
  BY DEF Busy
<1>3. \A c, p : ~(c \in Ids /\ Hangs(c, p))
  BY <1>2 DEF Hangs, Has
<1> QED
  BY <1>1, <1>2, <1>3 DEF CommentsKnown, Named, OneParent, ParentsKnown, Flat, ViewInTurn, InTurn, Alone,
    Threads!RepliesHaveParents, Threads!There

(* No step forgets a comment, and only createComment makes one hang.          *)
LEMMA TreeStays ==
  ASSUME CommentsKnown, Known \subseteq Known',
         \A c \in Ids : \A p \in Ids \cup {Null} : Hangs(c, p)' => Hangs(c, p)
  PROVE  (OneParent /\ ParentsKnown /\ Flat)'
BY DEF CommentsKnown, OneParent, ParentsKnown, Flat

LEMMA CreateBegins ==
  ASSUME CommentsKnown, NEW h \in Handlers, NEW u \in Users, Threads!BeginCreate(h, u)
  PROVE  CommentsKnown'
<1> USE CommentAssumptions
<1>1. PICK c \in Threads!Fresh, p \in Ids \cup {Null} :
        /\ Threads!MayAnswer(p) /\ commentCalls[h] = Null
        /\ commentCalls' = [commentCalls EXCEPT ![h] =
             [op |-> "create", user |-> u, id |-> c, ids |-> {}, step |-> "write",
              entity |-> [author |-> u, parent |-> p, words |-> TRUE, deleted |-> FALSE]]]
  BY DEF Threads!BeginCreate, Threads!Start
<1>2. UNCHANGED <<comments, events, loads, shown, commentChanges, removed>>
  BY DEF Threads!BeginCreate, Threads!viewer
<1>3. /\ c \in Ids \ Known /\ Known' = Known
      /\ \A g \in Handlers : Busy(g) => commentCalls[g].id # c
  BY <1>2 DEF Threads!Fresh, Known, Threads!There, Busy
<1>4. Threads!TypeOK'
  BY <1>1, <1>2, <1>3 DEF CommentsKnown, Threads!TypeOK, Threads!Call, Threads!Comment, Threads!There, Known
<1>5. \A g \in Handlers : Named(g)'
  BY <1>1, <1>2, <1>3 DEF CommentsKnown, Named, Busy, Threads!TypeOK, Threads!Comment
<1>6. \A x \in Ids : \A q \in Ids \cup {Null} : Hangs(x, q)' => Hangs(x, q) \/ (x = c /\ q = p)
  BY <1>1, <1>2 DEF CommentsKnown, Hangs, Has, Busy, Threads!TypeOK
<1>7. \A q \in Ids \cup {Null} : ~Hangs(c, q) /\ \A x \in Ids : ~Hangs(x, c)
  BY <1>3 DEF CommentsKnown, ParentsKnown, Hangs, Has, Known, Threads!There
<1>8. p \in Ids => p \in Known /\ p # c /\ Hangs(p, Null)
  BY <1>1, <1>3 DEF Threads!MayAnswer, Known, Hangs, Threads!There
<1>9. (OneParent /\ ParentsKnown /\ Flat)'
  BY <1>3, <1>6, <1>7, <1>8 DEF CommentsKnown, OneParent, ParentsKnown, Flat
<1> QED
  BY <1>4, <1>5, <1>9 DEF CommentsKnown

LEMMA ChangeBegins ==
  ASSUME CommentsKnown, NEW h \in Handlers, NEW u \in Users,
         Threads!BeginChange(h, u) \/ Threads!BeginPurge(h, u)
  PROVE  CommentsKnown'
<1> USE CommentAssumptions
<1>1. PICK c \in Threads!Call :
        /\ commentCalls' = [commentCalls EXCEPT ![h] = c] /\ commentCalls[h] = Null
        /\ c.ids \subseteq Threads!There
        /\ \/ c.op \in {"update", "delete", "moderate"} /\ c.id \in Threads!There /\ c.entity = comments[c.id]
           \/ c.op = "purge" /\ c.id = Null
  <2>1. CASE Threads!BeginChange(h, u)
    <3>1. PICK i \in Threads!There, op \in {"update", "delete", "moderate"} :
            Threads!Start(h, [op |-> op, user |-> u, id |-> i, ids |-> {i}, entity |-> comments[i],
                              step |-> IF op = "moderate" THEN "replies" ELSE "write"])
      BY <2>1 DEF Threads!BeginChange
    <3> DEFINE new == [op |-> op, user |-> u, id |-> i, ids |-> {i}, entity |-> comments[i],
                       step |-> IF op = "moderate" THEN "replies" ELSE "write"]
    <3>2. comments[i] \in Threads!Comment
      BY DEF CommentsKnown, Threads!TypeOK, Threads!Table, Threads!There
    <3>3. new \in Threads!Call
      BY <3>2 DEF Threads!Call, Threads!There
    <3>4. new.ids \subseteq Threads!There /\ new.op \in {"update", "delete", "moderate"} /\ new.id \in Threads!There
          /\ new.entity = comments[new.id]
      OBVIOUS
    <3>5. commentCalls' = [commentCalls EXCEPT ![h] = new] /\ commentCalls[h] = Null
      BY <3>1 DEF Threads!Start
    <3> HIDE DEF new
    <3> QED
      BY <3>3, <3>4, <3>5
  <2>2. CASE Threads!BeginPurge(h, u)
    <3>1. PICK s \in SUBSET Threads!There :
            Threads!Start(h, [op |-> "purge", user |-> u, id |-> Null, ids |-> s, entity |-> Null,
                              step |-> "replies"])
      BY <2>2 DEF Threads!BeginPurge
    <3> DEFINE new == [op |-> "purge", user |-> u, id |-> Null, ids |-> s, entity |-> Null, step |-> "replies"]
    <3>2. new \in Threads!Call /\ new.ids \subseteq Threads!There /\ new.op = "purge" /\ new.id = Null
      BY DEF Threads!Call, Threads!There
    <3>3. commentCalls' = [commentCalls EXCEPT ![h] = new] /\ commentCalls[h] = Null
      BY <3>1 DEF Threads!Start
    <3> HIDE DEF new
    <3> QED
      BY <3>2, <3>3
  <2> QED
    BY <2>1, <2>2
<1>2. UNCHANGED <<comments, events, loads, shown, removed>> /\ commentChanges' \in 0..MaxChanges
  BY DEF Threads!BeginChange, Threads!BeginPurge, Threads!viewer, Threads!Change, CommentsKnown, Threads!TypeOK
<1>3. Known' = Known
  BY <1>2 DEF Known, Threads!There
<1>4. Threads!TypeOK'
  BY <1>1, <1>2 DEF CommentsKnown, Threads!TypeOK, Threads!There
<1>5. \A g \in Handlers : Named(g)'
  <2> SUFFICES ASSUME NEW g \in Handlers PROVE Named(g)'
    OBVIOUS
  <2>1. Threads!There \subseteq Known /\ (c.op # "purge" => c.entity \in Threads!Comment)
    BY <1>1 DEF Known, CommentsKnown, Threads!TypeOK, Threads!Table, Threads!There
  <2>2. CASE g = h
    BY <1>1, <1>2, <1>3, <2>1, <2>2 DEF CommentsKnown, Named, Busy, Threads!TypeOK, Threads!There
  <2>3. CASE g # h
    BY <1>1, <1>2, <1>3, <2>1, <2>3 DEF CommentsKnown, Named, Busy, Threads!TypeOK, Threads!There
  <2> QED
    BY <2>2, <2>3
<1>6. \A x \in Ids : \A q \in Ids \cup {Null} : Hangs(x, q)' => Hangs(x, q)
  BY <1>1, <1>2 DEF CommentsKnown, Hangs, Has, Busy, Threads!TypeOK, Threads!There
<1> QED
  BY <1>3, <1>4, <1>5, <1>6, TreeStays DEF CommentsKnown

LEMMA RepliesAreFound ==
  ASSUME CommentsKnown, NEW h \in Handlers, Threads!FindReplies(h)
  PROVE  /\ CommentsKnown'
         /\ UNCHANGED <<comments, events, loads, shown, commentChanges, removed>>
         /\ Busy(h) /\ commentCalls[h].op \in {"moderate", "purge"}
         /\ commentCalls' = [commentCalls EXCEPT ![h].step = "write",
              ![h].ids = @ \cup UNION {Threads!Replies(comments, c) : c \in @}]
<1> USE CommentAssumptions
<1>1. /\ UNCHANGED <<comments, events, loads, shown, commentChanges, removed>>
      /\ Busy(h) /\ commentCalls[h].op \in {"moderate", "purge"}
  BY DEF Threads!FindReplies, Threads!viewer, Threads!At, Busy
<1>2. PICK c \in Threads!Call : c = commentCalls[h]
  BY <1>1 DEF CommentsKnown, Threads!TypeOK, Busy
<1>3. PICK found \in SUBSET Ids :
        /\ found = c.ids \cup UNION {Threads!Replies(comments, x) : x \in c.ids} /\ found \subseteq Known
  <2>1. c.ids \subseteq Known /\ c.ids \subseteq Ids
    BY <1>1, <1>2 DEF CommentsKnown, Named, Threads!Call
  <2>2. \A x : Threads!Replies(comments, x) \subseteq Known \cap Ids
    BY DEF Threads!Replies, Known, Threads!There
  <2> DEFINE union == UNION {Threads!Replies(comments, x) : x \in c.ids}
  <2>3. union \subseteq Known \cap Ids
    BY <2>2
  <2> HIDE DEF union
  <2>4. c.ids \cup union \in SUBSET Ids /\ c.ids \cup union \subseteq Known
    BY <2>1, <2>3
  <2> QED
    BY <2>4 DEF union
<1>4. commentCalls' = [commentCalls EXCEPT ![h].step = "write",
        ![h].ids = @ \cup UNION {Threads!Replies(comments, x) : x \in @}]
  BY DEF Threads!FindReplies, Threads!RepliesOf
<1>5. commentCalls' = [commentCalls EXCEPT ![h] = [c EXCEPT !.step = "write", !.ids = found]]
  BY <1>2, <1>3, <1>4 DEF CommentsKnown, Threads!TypeOK
<1> DEFINE new == [c EXCEPT !.step = "write", !.ids = found]
<1>6. /\ new \in Threads!Call /\ new.op = c.op /\ new.id = c.id /\ new.entity = c.entity
      /\ new.ids = found
  BY <1>2, <1>3 DEF Threads!Call
<1>7. commentCalls' = [commentCalls EXCEPT ![h] = new]
  BY <1>5
<1> HIDE DEF new
<1>8. Known' = Known
  BY <1>1 DEF Known, Threads!There
<1>9. Threads!TypeOK'
  BY <1>1, <1>2, <1>6, <1>7 DEF CommentsKnown, Threads!TypeOK, Threads!There
<1>10. \A g \in Handlers : Named(g)'
  <2> SUFFICES ASSUME NEW g \in Handlers PROVE Named(g)'
    OBVIOUS
  <2>1. CASE g = h
    BY <1>1, <1>2, <1>3, <1>6, <1>7, <1>8, <2>1 DEF CommentsKnown, Named, Busy, Threads!TypeOK
  <2>2. CASE g # h
    BY <1>1, <1>2, <1>3, <1>6, <1>7, <1>8, <2>2 DEF CommentsKnown, Named, Busy, Threads!TypeOK
  <2> QED
    BY <2>1, <2>2
<1>11. \A x \in Ids : \A q \in Ids \cup {Null} : Hangs(x, q)' => Hangs(x, q)
  BY <1>1, <1>2, <1>6, <1>7 DEF CommentsKnown, Hangs, Has, Busy, Threads!TypeOK
<1> QED
  BY <1>1, <1>4, <1>8, <1>9, <1>10, <1>11, TreeStays DEF CommentsKnown

(* The repository's save, of a new entity or of one read before.              *)
LEMMA EntityIsWritten ==
  ASSUME CommentsKnown, NEW h \in Handlers,
         Threads!Insert(h) \/ Threads!SaveContent(h) \/ Threads!SoftDelete(h)
  PROVE  /\ CommentsKnown'
         /\ \E op \in {"create", "update", "delete"} : \E e \in Threads!Comment :
              /\ Busy(h) /\ commentCalls[h].op = op /\ e.parent = commentCalls[h].entity.parent
              /\ comments' = [comments EXCEPT ![commentCalls[h].id] = e]
         /\ commentCalls' = [commentCalls EXCEPT ![h] = Null]
         /\ events' = events + 1 /\ UNCHANGED <<loads, shown, commentChanges, removed>>
<1> USE CommentAssumptions
<1>1. PICK op \in {"create", "update", "delete"} :
        /\ Busy(h) /\ commentCalls[h].op = op
        /\ commentCalls' = [commentCalls EXCEPT ![h] = Null]
        /\ events' = events + 1 /\ UNCHANGED <<loads, shown, commentChanges, removed>>
  BY DEF Threads!Insert, Threads!SaveContent, Threads!SoftDelete, Threads!Write, Threads!At,
    Threads!Announce, Threads!Announced, Threads!Return, Busy
<1>2. PICK c \in Threads!Call : c = commentCalls[h] /\ c.id \in Ids /\ c.entity \in Threads!Comment
  BY <1>1 DEF CommentsKnown, Threads!TypeOK, Busy, Named
<1>3. PICK e \in Threads!Comment :
        e.parent = c.entity.parent /\ comments' = [comments EXCEPT ![c.id] = e]
  <2>1. CASE Threads!Insert(h)
    BY <1>2, <2>1 DEF Threads!Insert, Threads!Write
  <2>2. CASE Threads!SaveContent(h)
    <3>1. [c.entity EXCEPT !.words = TRUE] \in Threads!Comment
          /\ [c.entity EXCEPT !.words = TRUE].parent = c.entity.parent
      BY <1>2 DEF Threads!Comment
    <3> QED
      BY <1>2, <2>2, <3>1 DEF Threads!SaveContent, Threads!Write
  <2>3. CASE Threads!SoftDelete(h)
    <3>1. [c.entity EXCEPT !.words = FALSE, !.deleted = TRUE] \in Threads!Comment
          /\ [c.entity EXCEPT !.words = FALSE, !.deleted = TRUE].parent = c.entity.parent
      BY <1>2 DEF Threads!Comment
    <3> QED
      BY <1>2, <2>3, <3>1 DEF Threads!SoftDelete, Threads!Write
  <2> QED
    BY <2>1, <2>2, <2>3
<1>4. e # Null /\ c.op = op
  BY <1>1, <1>2
<1>5. Known' = Known \cup {c.id}
  BY <1>1, <1>2, <1>3, <1>4 DEF Known, Threads!There, CommentsKnown, Threads!TypeOK, Threads!Table
<1>6. \A g \in Handlers : g # h /\ Busy(g) /\ commentCalls[g].op = "create" => commentCalls[g].id # c.id
  BY <1>1, <1>2 DEF CommentsKnown, Named
<1>7. Threads!TypeOK'
  BY <1>1, <1>2, <1>3, <1>4, <1>6 DEF CommentsKnown, Threads!TypeOK, Threads!Table, Threads!There, Busy
<1>8. \A g \in Handlers : Named(g)'
  <2> SUFFICES ASSUME NEW g \in Handlers PROVE Named(g)'
    OBVIOUS
  <2>1. CASE g = h
    BY <1>1, <2>1 DEF CommentsKnown, Named, Busy, Threads!TypeOK
  <2>2. CASE g # h
    BY <1>1, <1>2, <1>5, <1>6, <2>2 DEF CommentsKnown, Named, Busy, Threads!TypeOK
  <2> QED
    BY <2>1, <2>2
<1>9. \A x \in Ids : \A q \in Ids \cup {Null} : Hangs(x, q)' => Hangs(x, q)
  BY <1>1, <1>2, <1>3, <1>4 DEF CommentsKnown, Hangs, Has, Busy, Threads!TypeOK, Threads!Table
<1> QED
  BY <1>1, <1>2, <1>3, <1>5, <1>7, <1>8, <1>9, TreeStays DEF CommentsKnown

LEMMA ManyAreDeleted ==
  ASSUME CommentsKnown, NEW h \in Handlers, Threads!DeleteMany(h)
  PROVE  /\ CommentsKnown'
         /\ Busy(h) /\ commentCalls[h].op \in {"moderate", "purge"} /\ commentCalls[h].step = "write"
         /\ comments' = [c \in Ids |-> IF c \in commentCalls[h].ids THEN Null ELSE comments[c]]
         /\ commentCalls' = [commentCalls EXCEPT ![h] = Null]
         /\ events' = (IF commentCalls[h].op = "purge" THEN events ELSE events + 1)
         /\ UNCHANGED <<loads, shown, commentChanges>>
<1> USE CommentAssumptions
<1>1. /\ Busy(h) /\ commentCalls[h].op \in {"moderate", "purge"} /\ commentCalls[h].step = "write"
      /\ comments' = [c \in Ids |-> IF c \in commentCalls[h].ids THEN Null ELSE comments[c]]
      /\ commentCalls' = [commentCalls EXCEPT ![h] = Null]
      /\ events' = (IF commentCalls[h].op = "purge" THEN events ELSE events + 1)
      /\ UNCHANGED <<loads, shown, commentChanges>>
      /\ removed' = removed \cup commentCalls[h].ids
  BY DEF Threads!DeleteMany, Threads!At, Threads!Announce, Threads!Announced, Threads!Return, Busy
<1>2. PICK c \in Threads!Call : c = commentCalls[h] /\ c.ids \subseteq Known
  BY <1>1 DEF CommentsKnown, Threads!TypeOK, Busy, Named
<1>3. Known' = Known
  BY <1>1, <1>2 DEF Known, Threads!There, Threads!Call, CommentsKnown, Threads!TypeOK
<1>4. Threads!TypeOK'
  <2>1. comments' \in Threads!Table /\ Threads!There' \subseteq Threads!There
    BY <1>1 DEF CommentsKnown, Threads!TypeOK, Threads!Table, Threads!There
  <2> QED
    BY <1>1, <1>2, <2>1 DEF CommentsKnown, Threads!TypeOK, Threads!Call
<1>5. \A g \in Handlers : Named(g)'
  <2> SUFFICES ASSUME NEW g \in Handlers PROVE Named(g)'
    OBVIOUS
  <2>1. CASE g = h
    BY <1>1, <2>1 DEF CommentsKnown, Named, Busy, Threads!TypeOK
  <2>2. CASE g # h
    BY <1>1, <1>2, <1>3, <2>2 DEF CommentsKnown, Named, Busy, Threads!TypeOK
  <2> QED
    BY <2>1, <2>2
<1>6. \A x \in Ids : \A q \in Ids \cup {Null} : Hangs(x, q)' => Hangs(x, q)
  BY <1>1 DEF CommentsKnown, Hangs, Has, Busy, Threads!TypeOK, Threads!Table
<1> QED
  BY <1>1, <1>3, <1>4, <1>5, <1>6, TreeStays DEF CommentsKnown

LEMMA ViewerLooks ==
  ASSUME CommentsKnown, Threads!View
  PROVE  /\ CommentsKnown'
         /\ ViewInTurn => ViewInTurn'
         /\ UNCHANGED <<comments, commentCalls>>
<1> USE CommentAssumptions
<1>1. UNCHANGED <<comments, commentCalls, removed, commentChanges>>
  BY DEF Threads!View, Threads!Reload, Threads!List, Threads!Show
<1>2. /\ events \in Nat /\ loads \in Seq(Threads!Table \cup {Null})
      /\ shown \in Threads!Table /\ comments \in Threads!Table
  BY DEF CommentsKnown, Threads!TypeOK
<1>3. CASE Threads!Reload
  <2>1. events' \in Nat /\ events > 0 /\ loads' = Append(loads, Null) /\ shown' = shown
    BY <1>2, <1>3 DEF Threads!Reload
  <2>2. loads' \in Seq(Threads!Table \cup {Null}) /\ Len(loads') = Len(loads) + 1
        /\ loads'[Len(loads) + 1] = Null /\ \A i \in 1..Len(loads) : loads'[i] = loads[i]
    BY <1>2, <2>1
  <2>3. CommentsKnown'
    BY <1>1, <1>2, <2>1, <2>2 DEF CommentsKnown, Threads!TypeOK, Threads!There, Named, Busy, Known,
      OneParent, ParentsKnown, Flat, Hangs, Has
  <2>4. ViewInTurn => ViewInTurn'
    BY <1>1, <1>2, <2>1, <2>2 DEF ViewInTurn, Busy
  <2> QED
    BY <1>1, <2>3, <2>4
<1>4. CASE Threads!List
  <2>1. events' = events /\ shown' = shown /\ loads # <<>> /\ loads' = [loads EXCEPT ![1] = comments]
    BY <1>4 DEF Threads!List
  <2>2. loads' \in Seq(Threads!Table \cup {Null}) /\ Len(loads') = Len(loads) /\ Len(loads) > 0
        /\ loads'[1] = comments /\ \A i \in 2..Len(loads) : loads'[i] = loads[i]
    BY <1>2, <2>1
  <2>3. CommentsKnown'
    BY <1>1, <1>2, <2>1, <2>2 DEF CommentsKnown, Threads!TypeOK, Threads!There, Named, Busy, Known,
      OneParent, ParentsKnown, Flat, Hangs, Has
  <2>4. ViewInTurn => ViewInTurn'
    BY <1>1, <1>2, <2>1, <2>2 DEF ViewInTurn, Busy
  <2> QED
    BY <1>1, <2>3, <2>4
<1>5. CASE Threads!Show
  <2>1. events' = events /\ loads # <<>> /\ Head(loads) # Null /\ shown' = Head(loads) /\ loads' = Tail(loads)
    BY <1>5 DEF Threads!Show
  <2>2. /\ loads' \in Seq(Threads!Table \cup {Null}) /\ Len(loads') = Len(loads) - 1 /\ Len(loads) > 0
        /\ shown' = loads[1] /\ shown' \in Threads!Table /\ \A i \in 1..Len(loads') : loads'[i] = loads[i + 1]
    BY <1>2, <2>1
  <2>3. CommentsKnown'
    BY <1>1, <1>2, <2>1, <2>2 DEF CommentsKnown, Threads!TypeOK, Threads!There, Named, Busy, Known,
      OneParent, ParentsKnown, Flat, Hangs, Has
  <2>4. ASSUME ViewInTurn PROVE ViewInTurn'
    <3>1. \A i \in 1..Len(loads') : loads'[i] = Null
      BY <1>2, <2>2, <2>4 DEF ViewInTurn
    <3>2. (events' = 0 /\ loads' = <<>>) => shown' = comments'
      BY <1>1, <2>1, <2>2, <2>4 DEF ViewInTurn
    <3> QED
      BY <1>1, <2>4, <3>1, <3>2 DEF ViewInTurn, Busy
  <2> QED
    BY <1>1, <2>3, <2>4
<1> QED
  BY <1>3, <1>4, <1>5 DEF Threads!View

(* What a call knows when it begins.                                         *)
LEMMA CallBegins ==
  ASSUME NEW h \in Handlers, NEW u \in Users, Threads!BeginCreate(h, u) \/ Threads!BeginChange(h, u)
  PROVE  \E c : /\ commentCalls' = [commentCalls EXCEPT ![h] = c] /\ c.op # "purge"
                /\ c.op = "create" => c.entity.parent \in Threads!There \cup {Null}
                /\ c.op \in {"update", "delete"} => c.id \in Threads!There
                /\ c.op = "moderate" => c.step = "replies"
<1>1. CASE Threads!BeginCreate(h, u)
  <2>1. PICK i \in Threads!Fresh, p \in Threads!There \cup {Null} :
          commentCalls' = [commentCalls EXCEPT ![h] =
            [op |-> "create", user |-> u, id |-> i, ids |-> {}, step |-> "write",
             entity |-> [author |-> u, parent |-> p, words |-> TRUE, deleted |-> FALSE]]]
    BY <1>1 DEF Threads!BeginCreate, Threads!Start, Threads!MayAnswer
  <2> DEFINE new == [op |-> "create", user |-> u, id |-> i, ids |-> {}, step |-> "write",
                     entity |-> [author |-> u, parent |-> p, words |-> TRUE, deleted |-> FALSE]]
  <2>2. new.op = "create" /\ new.entity.parent = p
    OBVIOUS
  <2>3. commentCalls' = [commentCalls EXCEPT ![h] = new]
    BY <2>1
  <2> HIDE DEF new
  <2> QED
    BY <2>2, <2>3
<1>2. CASE Threads!BeginChange(h, u)
  <2>1. PICK i \in Threads!There, op \in {"update", "delete", "moderate"} :
          Threads!Start(h, [op |-> op, user |-> u, id |-> i, ids |-> {i}, entity |-> comments[i],
                            step |-> IF op = "moderate" THEN "replies" ELSE "write"])
    BY <1>2 DEF Threads!BeginChange
  <2> DEFINE new == [op |-> op, user |-> u, id |-> i, ids |-> {i}, entity |-> comments[i],
                     step |-> IF op = "moderate" THEN "replies" ELSE "write"]
  <2>2. /\ new.op \in {"update", "delete", "moderate"} /\ new.id \in Threads!There
        /\ new.op = "moderate" => new.step = "replies"
    OBVIOUS
  <2>3. commentCalls' = [commentCalls EXCEPT ![h] = new]
    BY <2>1 DEF Threads!Start
  <2> HIDE DEF new
  <2> QED
    BY <2>2, <2>3
<1> QED
  BY <1>1, <1>2

(* The part about comments with its handlers interleaved.                    *)
LEMMA CommentsStep ==
  ASSUME CommentsKnown, ViewInTurn, Threads!Next
  PROVE  CommentsKnown' /\ ViewInTurn'
<1> USE CommentAssumptions
<1>1. CASE Threads!View
  BY <1>1, ViewerLooks
<1>2. ASSUME NEW h \in Handlers, NEW u \in Users, Threads!BeginCreate(h, u) \/ Threads!BeginChange(h, u)
      PROVE  CommentsKnown' /\ ViewInTurn'
  <2>1. UNCHANGED <<comments, events, loads, shown>>
    BY <1>2 DEF Threads!BeginCreate, Threads!BeginChange, Threads!viewer
  <2>2. PICK c : commentCalls' = [commentCalls EXCEPT ![h] = c] /\ c.op # "purge"
    BY <1>2, CallBegins
  <2>3. ViewInTurn'
    BY <2>1, <2>2 DEF ViewInTurn, Busy, CommentsKnown, Threads!TypeOK
  <2> QED
    BY <1>2, <2>3, CreateBegins, ChangeBegins
<1>3. ASSUME NEW h \in Handlers, Threads!Continue(h)
      PROVE  CommentsKnown' /\ ViewInTurn'
  <2>1. CASE Threads!FindReplies(h)
    <3>1. /\ CommentsKnown' /\ UNCHANGED <<comments, events, loads, shown>> /\ Busy(h)
          /\ commentCalls' = [commentCalls EXCEPT ![h].step = "write",
               ![h].ids = @ \cup UNION {Threads!Replies(comments, c) : c \in @}]
      BY <2>1, RepliesAreFound
    <3>2. commentCalls[h] \in Threads!Call
      BY <3>1 DEF Busy, CommentsKnown, Threads!TypeOK
    <3>3. \A g \in Handlers : Busy(g)' => Busy(g) /\ commentCalls'[g].op = commentCalls[g].op
      BY <3>1, <3>2 DEF Busy, CommentsKnown, Threads!TypeOK, Threads!Call
    <3> QED
      BY <3>1, <3>3 DEF ViewInTurn
  <2>2. CASE Threads!Insert(h) \/ Threads!SaveContent(h) \/ Threads!SoftDelete(h)
    <3>1. /\ CommentsKnown' /\ commentCalls' = [commentCalls EXCEPT ![h] = Null]
          /\ events' = events + 1 /\ loads' = loads
      BY <2>2, EntityIsWritten
    <3> QED
      BY <3>1 DEF ViewInTurn, Busy, CommentsKnown, Threads!TypeOK
  <2>3. CASE Threads!DeleteMany(h)
    <3>1. /\ CommentsKnown' /\ commentCalls' = [commentCalls EXCEPT ![h] = Null]
          /\ events' = events + 1 /\ loads' = loads
      BY <2>3, ManyAreDeleted DEF ViewInTurn
    <3> QED
      BY <3>1 DEF ViewInTurn, Busy, CommentsKnown, Threads!TypeOK
  <2> QED
    BY <1>3, <2>1, <2>2, <2>3 DEF Threads!Continue
<1> QED
  BY <1>1, <1>2, <1>3 DEF Threads!Next, Threads!Begin

(* The same part with its calls one at a time, purges among them.             *)
LEMMA CommentsInTurnStep ==
  ASSUME CommentsKnown, InTurn, Threads!SerialNext
  PROVE  CommentsKnown' /\ InTurn'
<1> USE CommentAssumptions
<1>1. ASSUME NEW h \in Handlers, NEW u \in Users, Threads!Alone,
             Threads!BeginCreate(h, u) \/ Threads!BeginChange(h, u) \/ Threads!BeginPurge(h, u)
      PROVE  CommentsKnown' /\ InTurn'
  <2>1. comments' = comments
    BY <1>1 DEF Threads!BeginCreate, Threads!BeginChange, Threads!BeginPurge
  <2>2. PICK c : /\ commentCalls' = [commentCalls EXCEPT ![h] = c]
                 /\ c.op = "create" => c.entity.parent \in Threads!There \cup {Null}
                 /\ c.op \in {"update", "delete"} => c.id \in Threads!There
                 /\ c.op \in {"moderate", "purge"} => c.step = "replies"
    <3>1. CASE Threads!BeginCreate(h, u) \/ Threads!BeginChange(h, u)
      BY <3>1, CallBegins
    <3>2. CASE Threads!BeginPurge(h, u)
      <4>1. PICK s \in SUBSET Threads!There :
              Threads!Start(h, [op |-> "purge", user |-> u, id |-> Null, ids |-> s, entity |-> Null,
                                step |-> "replies"])
        BY <3>2 DEF Threads!BeginPurge
      <4> DEFINE new == [op |-> "purge", user |-> u, id |-> Null, ids |-> s, entity |-> Null, step |-> "replies"]
      <4>2. new.op = "purge" /\ new.step = "replies"
        OBVIOUS
      <4>3. commentCalls' = [commentCalls EXCEPT ![h] = new]
        BY <4>1 DEF Threads!Start
      <4> HIDE DEF new
      <4> QED
        BY <4>2, <4>3
    <3> QED
      BY <1>1, <3>1, <3>2
  <2>3. \A g \in Handlers : Busy(g)' => g = h /\ commentCalls'[g] = c
    BY <1>1, <2>2 DEF Threads!Alone, Busy, CommentsKnown, Threads!TypeOK
  <2>4. InTurn'
    BY <2>1, <2>2, <2>3 DEF InTurn, Alone, Threads!RepliesHaveParents, Threads!There
  <2> QED
    BY <1>1, <2>4, CreateBegins, ChangeBegins
<1>2. ASSUME NEW h \in Handlers, Threads!Continue(h)
      PROVE  CommentsKnown' /\ InTurn'
  <2>1. CASE Threads!FindReplies(h)
    <3>1. /\ CommentsKnown' /\ comments' = comments /\ Busy(h)
          /\ commentCalls[h].op \in {"moderate", "purge"}
          /\ commentCalls' = [commentCalls EXCEPT ![h].step = "write",
               ![h].ids = @ \cup UNION {Threads!Replies(comments, c) : c \in @}]
      BY <2>1, RepliesAreFound
    <3>2. PICK c \in Threads!Call : c = commentCalls[h]
      BY <3>1 DEF CommentsKnown, Threads!TypeOK, Busy
    <3> DEFINE found == c.ids \cup UNION {Threads!Replies(comments, x) : x \in c.ids}
    <3>3. \A x \in found : Threads!Replies(comments, x) \subseteq found
      <4> SUFFICES ASSUME NEW x \in found, NEW y \in Threads!Replies(comments, x) PROVE y \in found
        OBVIOUS
      <4>1. CASE x \in c.ids
        BY <4>1
      <4>2. CASE x \notin c.ids
        <5>1. PICK z \in c.ids : x \in Threads!Replies(comments, z)
          BY <4>2
        <5>2. x \in Ids /\ y \in Ids /\ z \in Ids /\ Hangs(x, z) /\ Hangs(y, x)
          BY <3>2, <5>1 DEF Threads!Replies, Hangs, Threads!Call
        <5> QED
          BY <5>2 DEF CommentsKnown, Flat
      <4> QED
        BY <4>1, <4>2
    <3>4. commentCalls'[h].ids = found /\ commentCalls'[h].op = c.op
          /\ \A g \in Handlers : g # h => commentCalls'[g] = commentCalls[g]
      BY <3>1, <3>2 DEF CommentsKnown, Threads!TypeOK, Threads!Call
    <3> HIDE DEF found
    <3>5. \A g \in Handlers : Busy(g)' => g = h
      BY <3>1, <3>4 DEF InTurn, Alone, Busy
    <3>6. \A g \in Handlers : Alone(g)'
      BY <3>1, <3>2, <3>3, <3>4, <3>5 DEF Alone
    <3> QED
      BY <3>1, <3>6 DEF InTurn, Threads!RepliesHaveParents, Threads!There
  <2>2. CASE Threads!Insert(h) \/ Threads!SaveContent(h) \/ Threads!SoftDelete(h)
    <3>1. PICK op \in {"create", "update", "delete"}, e \in Threads!Comment :
            /\ CommentsKnown' /\ Busy(h) /\ commentCalls[h].op = op
            /\ e.parent = commentCalls[h].entity.parent
            /\ comments' = [comments EXCEPT ![commentCalls[h].id] = e]
            /\ commentCalls' = [commentCalls EXCEPT ![h] = Null]
      BY <2>2, EntityIsWritten
    <3>2. PICK c \in Threads!Call : c = commentCalls[h] /\ c.id \in Ids /\ c.entity \in Threads!Comment
      BY <3>1 DEF CommentsKnown, Threads!TypeOK, Busy, Named
    <3>3. e.parent \in Threads!There \cup {Null}
      <4>1. CASE op = "create"
        BY <3>1, <3>2, <4>1 DEF InTurn, Alone
      <4>2. CASE op # "create"
        <5>1. c.id \in Threads!There
          BY <3>1, <3>2, <4>2 DEF InTurn, Alone
        <5>2. Hangs(c.id, e.parent) /\ Hangs(c.id, comments[c.id].parent)
          BY <3>1, <3>2, <5>1 DEF Hangs, Has, Threads!There
        <5>3. e.parent \in Ids \cup {Null} /\ comments[c.id].parent \in Ids \cup {Null}
          BY <3>1, <5>1 DEF Threads!Comment, CommentsKnown, Threads!TypeOK, Threads!Table, Threads!There
        <5>4. e.parent = comments[c.id].parent
          BY <3>2, <5>2, <5>3 DEF CommentsKnown, OneParent
        <5> QED
          BY <5>1, <5>4 DEF InTurn, Threads!RepliesHaveParents
      <4> QED
        BY <4>1, <4>2
    <3>4. /\ Threads!There' = Threads!There \cup {c.id}
          /\ \A x \in Threads!There : comments'[x] = comments[x] \/ (x = c.id /\ comments'[x] = e)
          /\ comments'[c.id] = e
      BY <3>1, <3>2 DEF Threads!There, CommentsKnown, Threads!TypeOK, Threads!Table
    <3>5. Threads!RepliesHaveParents'
      BY <3>3, <3>4 DEF InTurn, Threads!RepliesHaveParents
    <3>6. \A g \in Handlers : ~Busy(g)'
      BY <3>1 DEF InTurn, Alone, Busy, CommentsKnown, Threads!TypeOK
    <3> QED
      BY <3>1, <3>5, <3>6 DEF InTurn, Alone
  <2>3. CASE Threads!DeleteMany(h)
    <3>1. /\ CommentsKnown' /\ Busy(h) /\ commentCalls[h].op \in {"moderate", "purge"}
          /\ commentCalls[h].step = "write"
          /\ comments' = [c \in Ids |-> IF c \in commentCalls[h].ids THEN Null ELSE comments[c]]
          /\ commentCalls' = [commentCalls EXCEPT ![h] = Null]
      BY <2>3, ManyAreDeleted
    <3>2. \A x \in commentCalls[h].ids : Threads!Replies(comments, x) \subseteq commentCalls[h].ids
      BY <3>1 DEF InTurn, Alone
    <3>3. /\ Threads!There' = Threads!There \ commentCalls[h].ids
          /\ \A x \in Threads!There' : comments'[x] = comments[x]
      BY <3>1 DEF Threads!There
    <3>4. Threads!RepliesHaveParents'
      <4> SUFFICES ASSUME NEW x \in Threads!There', comments'[x].parent # Null
                   PROVE  comments'[x].parent \in Threads!There'
        BY DEF Threads!RepliesHaveParents
      <4>1. x \in Threads!There /\ comments[x].parent \in Threads!There /\ x \notin commentCalls[h].ids
        BY <3>3 DEF InTurn, Threads!RepliesHaveParents
      <4>2. x \in Threads!Replies(comments, comments[x].parent)
        BY <4>1 DEF Threads!Replies, Threads!There
      <4> QED
        BY <3>2, <3>3, <4>1, <4>2
    <3>5. \A g \in Handlers : ~Busy(g)'
      BY <3>1 DEF InTurn, Alone, Busy, CommentsKnown, Threads!TypeOK
    <3> QED
      BY <3>1, <3>4, <3>5 DEF InTurn, Alone
  <2> QED
    BY <1>2, <2>1, <2>2, <2>3 DEF Threads!Continue
<1> QED
  BY <1>1, <1>2 DEF Threads!SerialNext, Threads!Begin, Threads!Purge

LEMMA CommentsInvImpliesSound == CommentsInv => ThreadsSound
<1> SUFFICES ASSUME CommentsInv PROVE ThreadsSound
  OBVIOUS
<1>1. ASSUME CommentsKnown PROVE Threads!TypeOK /\ Threads!TwoLevels
  <2>1. \A c \in Threads!There : comments[c].parent \in Threads!There =>
          Hangs(c, comments[c].parent) /\ Hangs(comments[c].parent, comments[comments[c].parent].parent)
          /\ comments[comments[c].parent].parent \in Ids \cup {Null} /\ c \in Ids /\ comments[c].parent \in Ids
    BY <1>1 DEF CommentsKnown, Threads!TypeOK, Threads!Table, Threads!Comment, Threads!There, Hangs
  <2> QED
    BY <1>1, <2>1 DEF CommentsKnown, Flat, Threads!TwoLevels
<1>2. ViewInTurn => Threads!ViewerUpToDate
  BY DEF ViewInTurn, Threads!ViewerUpToDate
<1> QED
  BY <1>1, <1>2 DEF CommentsInv, ThreadsSound, InTurn

LEMMA CommentsInvariance ==
  ASSUME CommentsInv, [Goes]_<<part, vars, avatarVars, commentVars, tagVars>>
  PROVE  CommentsInv'
<1>1. CASE UNCHANGED <<part, commentVars>>
  BY <1>1 DEF commentVars, CommentsInv, CommentsKnown, Threads!TypeOK, Threads!There, Named, Busy, Known,
    OneParent, ParentsKnown, Flat, Hangs, Has, ViewInTurn, InTurn, Alone, Threads!RepliesHaveParents
<1>2. CASE part = "comments" /\ Threads!Next /\ part' = part
  BY <1>2, CommentsStep DEF CommentsInv
<1>3. CASE part = "commentsInTurn" /\ Threads!SerialNext /\ part' = part
  BY <1>3, CommentsInTurnStep DEF CommentsInv
<1> QED
  BY <1>1, <1>2, <1>3 DEF Goes

(* CommentsService and useComments: two levels and a viewer who is up to date,  *)
(* whatever the interleaving, and in turn no reply without its parent.       *)
THEOREM ThreadsAreSound == Behaviour => []ThreadsSound
<1>1. Begins => CommentsInv
  BY CommentsBegin DEF Begins, CommentsInv, Threads!Init
<1> QED
  BY <1>1, CommentsInvariance, CommentsInvImpliesSound, PTL DEF Behaviour

-----------------------------------------------------------------------------
(* Tags: a panel is right about a tag, but for the calls it will hear of, as   *)
(* long as neither others nor two calls of its own have meddled with it.      *)

Heard(s) == tagCalls[s] # Null /\ tagCalls[s].load = panel[s[1]].load
Acted(s) == tagCalls[s].at = "done" /\ tagCalls[s].answer = "ok"

Exists(t)    == tags[t] # Null
Tagged(p, t) == <<PageOf[p], t>> \in links
Exempt(p, t) == <<p, t>> \in stray \/ t \in halved

AllRight(p, t)  == "all" \in panel[p].read => (t \in panel[p].all <=> Exists(t))
PageRight(p, t) == "page" \in panel[p].read => (t \in panel[p].page <=> Tagged(p, t))

(* What each step of a call has found, and what follows from its answer.      *)
CallShape(s) ==
  LET c == tagCalls[s]
  IN c # Null =>
       /\ c.load <= panel[s[1]].load /\ c.tag <= made
       /\ c.op # "create" \/ Acted(s) \/ c.at \notin {"find name", "insert", "done"} => c.tag \in Tagging!Tags
       /\ c.op = "create" => c.name \in Names
       /\ c.at \in {"find name", "insert"} => c.op = "create" /\ c.tag = Tagging!NoTag
       /\ c.at = "find link" => c.op # "delete"
       /\ c.at = "link" => c.op \in {"create", "attach"}
       /\ c.at = "unlink" => c.op = "detach"
       /\ c.at = "remove" => c.op = "delete"

PanelShape(p) ==
  /\ \A t \in panel[p].all \cup panel[p].page : t <= made
  /\ panel[p].status = "error" => panel[p].read = {}
  /\ panel[p].status = "ready" => panel[p].read \in {{}, {"all", "page"}}
  /\ panel[p].status = "loading" =>
       /\ "page" \notin panel[p].read => panel[p].page = {}
       /\ \A i \in 1..AtOnce : Heard(<<p, i>>) => tagCalls[<<p, i>>].op = "detach" /\ "page" \in panel[p].read

PanelRight(p, t) ==
  ~Exempt(p, t) /\ (\A i \in 1..AtOnce : Heard(<<p, i>>) => tagCalls[<<p, i>>].tag # t) =>
    AllRight(p, t) /\ PageRight(p, t)

CallRight(s) ==
  LET c == tagCalls[s]
      p == s[1]
  IN Heard(s) /\ c.tag \in Tagging!Tags /\ ~Exempt(p, c.tag) /\ panel[p].read # {} =>
       /\ c.op # "create" /\ ~Acted(s) => AllRight(p, c.tag) /\ PageRight(p, c.tag)
       /\ c.op = "create" => c.at # "done" \/ (Acted(s) /\ Exists(c.tag) /\ Tagged(p, c.tag))
       /\ c.op = "attach" /\ Acted(s) => AllRight(p, c.tag) /\ Tagged(p, c.tag)
       /\ c.op = "detach" /\ Acted(s) => AllRight(p, c.tag) /\ ~Tagged(p, c.tag)
       /\ c.op = "delete" /\ Acted(s) => ~Exists(c.tag) /\ ~Tagged(p, c.tag)

OneEach(p) ==
  \A i, j \in 1..AtOnce :
    /\ i # j /\ Heard(<<p, i>>) /\ Heard(<<p, j>>)
    /\ tagCalls[<<p, i>>].tag = tagCalls[<<p, j>>].tag /\ tagCalls[<<p, i>>].tag \in Tagging!Tags
    => <<p, tagCalls[<<p, i>>].tag>> \in stray

Locked(p) ==
  /\ panel[p].creating => \E i \in 1..AtOnce : Heard(<<p, i>>) /\ tagCalls[<<p, i>>].op = "create"
  /\ panel[p].pending # Tagging!NoTag =>
       \E i \in 1..AtOnce : /\ Heard(<<p, i>>) /\ tagCalls[<<p, i>>].op # "create"
                           /\ tagCalls[<<p, i>>].tag = panel[p].pending

TagsKnown ==
  /\ Tagging!TypeOK
  /\ IsFiniteSet(Tagging!Making) /\ made + Cardinality(Tagging!Making) <= MaxTags
  /\ \A t \in Tagging!Tags : Exists(t) => t <= made
  /\ \A s \in Tagging!Slots : CallShape(s) /\ CallRight(s)
  /\ \A p \in Panels : PanelShape(p) /\ OneEach(p) /\ \A t \in Tagging!Tags : PanelRight(p, t)
  /\ Tagging!LockedWhileAsking

-----------------------------------------------------------------------------
LEMMA TagAssumptions ==
  /\ PageOf \in [Panels -> TaggedPages] /\ Null \notin Names /\ Null \notin Tagging!Call
  /\ MaxTags \in Nat /\ AtOnce \in Nat /\ MaxFaults \in Nat /\ MaxLoads \in Nat
BY ContentAssumption DEF Tagging!PageTagsAssumption

LEMMA CallType ==
  ASSUME TagsKnown, NEW s \in Tagging!Slots, tagCalls[s] # Null
  PROVE  tagCalls[s] \in Tagging!Call
BY DEF TagsKnown, Tagging!TypeOK

LEMMA CallTagType ==
  ASSUME TagsKnown, NEW s \in Tagging!Slots, tagCalls[s] # Null
  PROVE  tagCalls[s].tag \in Nat /\ tagCalls[s].tag <= made
<1>1. tagCalls[s].tag <= made
  BY DEF TagsKnown, CallShape
<1>2. tagCalls[s].tag \in Tagging!Tags \cup {Tagging!NoTag}
  BY CallType DEF Tagging!Call
<1> QED
  BY <1>1, <1>2, TagAssumptions DEF Tagging!Tags, Tagging!NoTag

(* A step of the server in slot s changes the tables at most about its tag,   *)
(* and what it changes others see as stray.                                  *)
LEMMA ServerStep ==
  ASSUME TagsKnown, NEW s \in Tagging!Slots, tagCalls[s] # Null, NEW d \in Tagging!Call,
         tagCalls' = [tagCalls EXCEPT ![s] = d], panel' = panel,
         d.op = tagCalls[s].op, d.load = tagCalls[s].load,
         \/ d.tag = tagCalls[s].tag
         \/ tagCalls[s].tag = Tagging!NoTag /\ d.tag = made + 1 /\ d.op = "create",
         made <= made', stray \subseteq stray', halved \subseteq halved',
         \A p \in Panels : \A t \in Tagging!Tags :
           \/ (Exists(t)' <=> Exists(t)) /\ (Tagged(p, t)' <=> Tagged(p, t))
           \/ t = d.tag /\ (p \in Tagging!Deaf(s) => <<p, t>> \in stray'),
         Tagging!TypeOK', CallShape(s)', CallRight(s)',
         IsFiniteSet(Tagging!Making'), made' + Cardinality(Tagging!Making') <= MaxTags
  PROVE  TagsKnown'
<1> USE TagAssumptions DEF Tagging!NoTag, Tagging!Tags
<1>1. /\ tagCalls'[s] = d /\ d # Null
      /\ \A g \in Tagging!Slots : g # s => tagCalls'[g] = tagCalls[g]
  BY DEF TagsKnown, Tagging!TypeOK
<1>2. \A g \in Tagging!Slots : (Heard(g)' <=> Heard(g)) /\ (tagCalls'[g] # Null <=> tagCalls[g] # Null)
  BY <1>1 DEF Heard
<1>3. \A g \in Tagging!Slots : Heard(g) => tagCalls'[g].op = tagCalls[g].op
  BY <1>1
<1>4. \A p \in Panels : \A i \in 1..AtOnce : <<p, i>> \in Tagging!Slots
  BY DEF Tagging!Slots
<1>5. \A g \in Tagging!Slots : g[1] \in Panels /\ g[2] \in 1..AtOnce /\ g = <<g[1], g[2]>>
  BY DEF Tagging!Slots
<1>6. made \in Nat /\ tagCalls[s].tag \in Nat /\ d.tag \in Nat
  BY CallType DEF TagsKnown, Tagging!TypeOK, Tagging!Call
<1>7. \A g \in Tagging!Slots : CallShape(g)'
  <2> SUFFICES ASSUME NEW g \in Tagging!Slots, g # s, tagCalls[g] # Null PROVE CallShape(g)'
    BY <1>2 DEF CallShape
  <2>1. tagCalls[g] \in Tagging!Call /\ CallShape(g)
    BY CallType DEF TagsKnown
  <2>2. made' \in Nat /\ tagCalls[g].tag \in Nat
    BY <2>1 DEF Tagging!TypeOK, Tagging!Call
  <2>3. tagCalls'[g] = tagCalls[g] /\ tagCalls[g].tag <= made
    BY <1>1, CallTagType
  <2>4. tagCalls[g].tag <= made'
    BY <1>6, <2>2, <2>3
  <2> QED
    BY <2>1, <2>3, <2>4 DEF CallShape, Acted
<1>8. \A p \in Panels : PanelShape(p)'
  <2> SUFFICES ASSUME NEW p \in Panels PROVE PanelShape(p)'
    OBVIOUS
  <2>1. PanelShape(p) /\ \A t \in panel[p].all \cup panel[p].page : t \in Nat
    BY DEF TagsKnown, Tagging!TypeOK, Tagging!PanelState
  <2>2. made' \in Nat /\ made \in Nat
    BY DEF TagsKnown, Tagging!TypeOK
  <2>3. \A t \in panel[p].all \cup panel[p].page : t <= made'
    BY <2>1, <2>2 DEF PanelShape
  <2> QED
    BY <1>2, <1>3, <1>4, <2>1, <2>3 DEF PanelShape
<1>9. \A p \in Panels : OneEach(p)'
  <2> SUFFICES ASSUME NEW p \in Panels, NEW i \in 1..AtOnce, NEW j \in 1..AtOnce, i # j,
                      Heard(<<p, i>>)', Heard(<<p, j>>)',
                      tagCalls'[<<p, i>>].tag = tagCalls'[<<p, j>>].tag, tagCalls'[<<p, i>>].tag \in Tagging!Tags
               PROVE  <<p, tagCalls'[<<p, i>>].tag>> \in stray'
    BY DEF OneEach
  <2>1. Heard(<<p, i>>) /\ Heard(<<p, j>>) /\ OneEach(p) /\ CallShape(<<p, i>>) /\ CallShape(<<p, j>>)
    BY <1>2, <1>4 DEF TagsKnown
  <2>2. /\ tagCalls[<<p, i>>].tag \in Nat /\ tagCalls[<<p, i>>].tag <= made
        /\ tagCalls[<<p, j>>].tag \in Nat /\ tagCalls[<<p, j>>].tag <= made
    <3>1. tagCalls[<<p, i>>] # Null /\ tagCalls[<<p, j>>] # Null
      BY <2>1 DEF Heard
    <3> QED
      BY <1>4, <3>1, CallTagType
  <2>3. tagCalls'[<<p, i>>].tag = tagCalls[<<p, i>>].tag /\ tagCalls'[<<p, j>>].tag = tagCalls[<<p, j>>].tag
    <3>1. <<p, i>> # <<p, j>>
      OBVIOUS
    <3>2. CASE s = <<p, i>>
      BY <1>1, <1>4, <1>6, <2>2, <3>1, <3>2
    <3>3. CASE s = <<p, j>>
      BY <1>1, <1>4, <1>6, <2>2, <3>1, <3>3
    <3>4. CASE s # <<p, i>> /\ s # <<p, j>>
      BY <1>1, <1>4, <3>4
    <3> QED
      BY <3>2, <3>3, <3>4
  <2> QED
    BY <2>1, <2>3 DEF OneEach
<1>10. \A p \in Panels : p \notin Tagging!Deaf(s) /\ panel[p].read # {} => p = s[1] /\ Heard(s)
  BY DEF Tagging!Deaf, Heard
<1>11. ASSUME NEW p \in Panels, NEW t \in Tagging!Tags PROVE PanelRight(p, t)'
  <2> SUFFICES ASSUME ~Exempt(p, t)', \A i \in 1..AtOnce : Heard(<<p, i>>)' => tagCalls'[<<p, i>>].tag # t
               PROVE  AllRight(p, t)' /\ PageRight(p, t)'
    BY DEF PanelRight
  <2>1. ~Exempt(p, t)
    BY DEF Exempt
  <2>2. CASE (Exists(t)' <=> Exists(t)) /\ (Tagged(p, t)' <=> Tagged(p, t))
    <3>1. \A i \in 1..AtOnce : Heard(<<p, i>>) => tagCalls[<<p, i>>].tag # t
      BY <1>1, <1>2, <1>4
    <3>2. AllRight(p, t) /\ PageRight(p, t)
      BY <2>1, <3>1 DEF TagsKnown, PanelRight
    <3> QED
      BY <2>2, <3>2 DEF AllRight, PageRight
  <2>3. CASE t = d.tag /\ (p \in Tagging!Deaf(s) => <<p, t>> \in stray')
    <3>1. p \notin Tagging!Deaf(s)
      BY <2>3 DEF Exempt
    <3>2. ~(p = s[1] /\ Heard(s))
      BY <1>1, <1>2, <1>5, <2>3
    <3>3. panel[p].read = {}
      BY <1>10, <3>1, <3>2
    <3> QED
      BY <3>3 DEF AllRight, PageRight
  <2> QED
    BY <2>2, <2>3
<1>12. ASSUME NEW g \in Tagging!Slots PROVE CallRight(g)'
  <2> DEFINE p == g[1]
  <2> DEFINE t == tagCalls[g].tag
  <2> SUFFICES ASSUME g # s, Heard(g), t \in Tagging!Tags, ~Exempt(p, t)', panel[p].read # {}
               PROVE  CallRight(g)'
    BY <1>1, <1>2 DEF CallRight
  <2>1. ~Exempt(p, t) /\ p \in Panels /\ tagCalls'[g] = tagCalls[g]
    BY <1>1, <1>5 DEF Exempt
  <2>2. (Exists(t)' <=> Exists(t)) /\ (Tagged(p, t)' <=> Tagged(p, t))
    <3> SUFFICES ASSUME t = d.tag, p \in Tagging!Deaf(s) => <<p, t>> \in stray'
                 PROVE  FALSE
      BY <2>1
    <3>1. p = s[1] /\ Heard(s)
      BY <1>10, <2>1 DEF Exempt
    <3>2. g = <<p, g[2]>> /\ s = <<p, s[2]>> /\ g[2] # s[2] /\ g[2] \in 1..AtOnce /\ s[2] \in 1..AtOnce
      BY <1>5, <3>1
    <3>3. Heard(g)' /\ Heard(s)' /\ tagCalls'[s].tag = t /\ tagCalls'[g].tag = t
      BY <1>1, <1>2, <3>1
    <3>4. <<p, t>> \in stray'
      BY <1>9, <2>1, <3>2, <3>3 DEF OneEach
    <3> QED
      BY <3>4 DEF Exempt
  <2>3. CallRight(g)
    BY DEF TagsKnown
  <2> QED
    BY <2>1, <2>2, <2>3 DEF CallRight, Acted, AllRight, PageRight, Heard
<1>13. Tagging!LockedWhileAsking'
  <2>1. \A g \in Tagging!Slots : tagCalls[g] # Null =>
          /\ tagCalls'[g] # Null /\ tagCalls'[g].op = tagCalls[g].op /\ tagCalls'[g].load = tagCalls[g].load
          /\ tagCalls'[g].tag = tagCalls[g].tag \/ tagCalls[g].tag = 0
    BY <1>1, <1>2
  <2>2. Tagging!LockedWhileAsking /\ panel' = panel
    BY DEF TagsKnown
  <2> QED
    BY <1>4, <2>1, <2>2 DEF Tagging!LockedWhileAsking
<1>14. ASSUME NEW t \in Tagging!Tags, Exists(t)' PROVE t <= made'
  <2>1. t \in Nat /\ made \in Nat /\ made' \in Nat
    BY DEF TagsKnown, Tagging!TypeOK
  <2>2. CASE Exists(t)
    BY <2>1, <2>2 DEF TagsKnown
  <2>3. CASE t = d.tag
    BY <1>1, <2>3 DEF CallShape
  <2>4. CASE ~Exists(t) /\ t # d.tag
    <3>1. Panels # {}
      BY DEF Tagging!Slots
    <3> QED
      BY <1>14, <2>4, <3>1
  <2> QED
    BY <2>2, <2>3, <2>4
<1> QED
  BY <1>7, <1>8, <1>9, <1>11, <1>12, <1>13, <1>14 DEF TagsKnown

(* The call in slot s is now at step a, its answer x.                         *)
MovedTo(s, a, x) ==
  \E d \in Tagging!Call :
    /\ tagCalls' = [tagCalls EXCEPT ![s] = d]
    /\ d.op = tagCalls[s].op /\ d.tag = tagCalls[s].tag /\ d.load = tagCalls[s].load
    /\ d.name = tagCalls[s].name /\ d.at = a /\ d.answer = x

LEMMA CallGoesOn ==
  ASSUME TagsKnown, NEW s \in Tagging!Slots, tagCalls[s] # Null, NEW a \in Tagging!Steps, Tagging!On(s, a)
  PROVE  \E x \in Tagging!Answers : MovedTo(s, a, x)
<1>1. PICK c \in Tagging!Call : c = tagCalls[s]
  BY CallType
<1> DEFINE d == [c EXCEPT !.at = a]
<1>2. /\ d \in Tagging!Call /\ d.op = c.op /\ d.tag = c.tag /\ d.load = c.load /\ d.name = c.name
      /\ d.at = a /\ d.answer = c.answer
  BY <1>1 DEF Tagging!Call
<1>3. tagCalls' = [tagCalls EXCEPT ![s] = d]
  BY <1>1 DEF Tagging!On
<1>4. c.answer \in Tagging!Answers
  BY DEF Tagging!Call
<1> HIDE DEF d
<1> QED
  BY <1>1, <1>2, <1>3, <1>4 DEF MovedTo

LEMMA CallEnds ==
  ASSUME TagsKnown, NEW s \in Tagging!Slots, tagCalls[s] # Null, NEW x \in Tagging!Answers, Tagging!End(s, x)
  PROVE  MovedTo(s, "done", x)
<1>1. PICK c \in Tagging!Call : c = tagCalls[s]
  BY CallType
<1> DEFINE d == [c EXCEPT !.at = "done", !.answer = x]
<1>2. /\ d \in Tagging!Call /\ d.op = c.op /\ d.tag = c.tag /\ d.load = c.load /\ d.name = c.name
      /\ d.at = "done" /\ d.answer = x
  BY <1>1 DEF Tagging!Call, Tagging!Steps
<1>3. tagCalls' = [tagCalls EXCEPT ![s] = d]
  BY <1>1 DEF Tagging!End, TagsKnown, Tagging!TypeOK
<1> HIDE DEF d
<1> QED
  BY <1>1, <1>2, <1>3 DEF MovedTo

(* Those that make a tag are counted beside those made.                       *)
LEMMA MakingStays ==
  ASSUME TagsKnown, made' = made, Tagging!Making' \subseteq Tagging!Making
  PROVE  IsFiniteSet(Tagging!Making') /\ made' + Cardinality(Tagging!Making') <= MaxTags
<1>1. IsFiniteSet(Tagging!Making') /\ Cardinality(Tagging!Making') <= Cardinality(Tagging!Making)
  BY FS_Subset DEF TagsKnown
<1>2. Cardinality(Tagging!Making') \in Nat /\ Cardinality(Tagging!Making) \in Nat /\ made \in Nat
  BY <1>1, FS_CardinalityType DEF TagsKnown, Tagging!TypeOK
<1> QED
  BY <1>1, <1>2, TagAssumptions DEF TagsKnown

LEMMA TablesKept ==
  ASSUME TagsKnown, made' = made
  PROVE  made <= made'
<1>1. made \in 0..MaxTags
  BY DEF TagsKnown, Tagging!TypeOK
<1>2. made \in Nat
  BY <1>1, TagAssumptions
<1> QED
  BY <1>2

(* A step that touches no table: the call looks, or ends without success.     *)
LEMMA LookingStep ==
  ASSUME TagsKnown, NEW s \in Tagging!Slots, tagCalls[s] # Null,
         NEW a \in Tagging!Steps, NEW x \in Tagging!Answers, MovedTo(s, a, x),
         tagCalls[s].at # "done",
         \/ a = "done" /\ x # "ok"
         \/ a = "insert" /\ tagCalls[s].at = "find name"
         \/ a = "remove" /\ tagCalls[s].at = "find tag" /\ tagCalls[s].op = "delete"
         \/ a = "find link" /\ tagCalls[s].at = "find tag" /\ tagCalls[s].op # "delete"
         \/ a = "unlink" /\ tagCalls[s].at = "find link" /\ tagCalls[s].op = "detach"
         \/ a = "link" /\ tagCalls[s].at = "find link" /\ tagCalls[s].op # "detach",
         UNCHANGED <<tags, made, links, panel, stray>>, faults' \in 0..MaxFaults,
         halved' \subseteq Tagging!Tags, halved \subseteq halved',
         tagCalls[s].op = "create" /\ a = "done" /\ tagCalls[s].tag \in Tagging!Tags => tagCalls[s].tag \in halved'
  PROVE  TagsKnown'
<1> USE TagAssumptions
<1>1. PICK d \in Tagging!Call :
        /\ tagCalls' = [tagCalls EXCEPT ![s] = d]
        /\ d.op = tagCalls[s].op /\ d.tag = tagCalls[s].tag /\ d.load = tagCalls[s].load
        /\ d.name = tagCalls[s].name /\ d.at = a /\ d.answer = x
  BY DEF MovedTo
<1>2. /\ tagCalls'[s] = d /\ d # Null
      /\ \A g \in Tagging!Slots : g # s => tagCalls'[g] = tagCalls[g]
  BY <1>1 DEF TagsKnown, Tagging!TypeOK
<1>3. Tagging!TypeOK'
  BY <1>1 DEF TagsKnown, Tagging!TypeOK
<1>4. CallShape(s)'
  <2>1. CallShape(s) /\ tagCalls[s].op \in {"create", "attach", "detach", "delete"}
    BY CallType DEF TagsKnown, Tagging!Call
  <2> QED
    BY <1>1, <1>2, <2>1 DEF CallShape, Acted
<1>5. Tagging!Making' \subseteq Tagging!Making
  BY <1>1, <1>2 DEF Tagging!Making
<1>6. CallRight(s)'
  <2>1. CallRight(s) /\ ~Acted(s) /\ ~Acted(s)'
    BY <1>1, <1>2 DEF TagsKnown, Acted
  <2>2. (Heard(s)' <=> Heard(s)) /\ tagCalls'[s].tag = tagCalls[s].tag /\ tagCalls'[s].op = tagCalls[s].op
    BY <1>1, <1>2 DEF Heard
  <2>3. \A p, t : (Exempt(p, t) => Exempt(p, t)') /\ (AllRight(p, t)' <=> AllRight(p, t))
                  /\ (PageRight(p, t)' <=> PageRight(p, t))
    BY DEF Exempt, AllRight, PageRight, Exists, Tagged
  <2>4. d.op = "create" /\ d.at = "done" /\ d.tag \in Tagging!Tags => Exempt(s[1], d.tag)'
    BY <1>1 DEF Exempt
  <2> QED
    BY <1>1, <1>2, <2>1, <2>2, <2>3, <2>4 DEF CallRight
<1>7. \A p \in Panels : \A t \in Tagging!Tags : (Exists(t)' <=> Exists(t)) /\ (Tagged(p, t)' <=> Tagged(p, t))
  BY DEF Exists, Tagged
<1>8. made' = made /\ stray' = stray
  OBVIOUS
<1>9. made <= made' /\ stray \subseteq stray'
  <2>1. made <= made'
    BY <1>8, TablesKept
  <2> QED
    BY <1>8, <2>1
<1> QED
  BY <1>1, <1>3, <1>4, <1>5, <1>6, <1>7, <1>8, <1>9, MakingStays, ServerStep

LEMMA StepsAndAnswers ==
  /\ {"find name", "insert", "find tag", "find link", "link", "unlink", "remove", "done"} \subseteq Tagging!Steps
  /\ {"none", "ok", "taken", "tagged", "not found", "denied", "error"} \subseteq Tagging!Answers
BY DEF Tagging!Steps, Tagging!Answers

LEMMA FindNameStep ==
  ASSUME TagsKnown, NEW s \in Tagging!Slots, tagCalls[s] # Null, Tagging!FindName(s), UNCHANGED <<panel, faults>>
  PROVE  TagsKnown'
<1>1. CallShape(s) /\ tagCalls[s].at = "find name" /\ UNCHANGED <<tags, made, links, stray, panel, faults, halved>>
  BY DEF TagsKnown, Tagging!FindName
<1>2. tagCalls[s].tag \notin Tagging!Tags
  <2>1. tagCalls[s].tag = 0
    BY <1>1 DEF CallShape, Tagging!NoTag
  <2> QED
    BY <2>1, TagAssumptions DEF Tagging!Tags
<1>3. \/ \E x \in Tagging!Answers : MovedTo(s, "insert", x)
      \/ MovedTo(s, "done", "taken")
  BY CallGoesOn, CallEnds, StepsAndAnswers DEF Tagging!FindName
<1>4. faults' \in 0..MaxFaults /\ halved' \subseteq Tagging!Tags /\ halved \subseteq halved'
  BY <1>1 DEF TagsKnown, Tagging!TypeOK
<1> QED
  BY <1>1, <1>2, <1>3, <1>4, StepsAndAnswers, LookingStep

(* A failed call that was to make a tag and put it on the page leaves half.    *)
LEMMA HalfIsTold ==
  ASSUME TagsKnown, NEW s \in Tagging!Slots, tagCalls[s] # Null,
         tagCalls[s].at \in {"find tag", "find link", "link"}, Tagging!Half(s)
  PROVE  /\ halved' \subseteq Tagging!Tags /\ halved \subseteq halved'
         /\ tagCalls[s].op = "create" => tagCalls[s].tag \in halved'
<1>1. tagCalls[s].tag \in Tagging!Tags /\ halved \subseteq Tagging!Tags
  BY DEF TagsKnown, Tagging!TypeOK, CallShape
<1> QED
  BY <1>1 DEF Tagging!Half

LEMMA FindTagStep ==
  ASSUME TagsKnown, NEW s \in Tagging!Slots, tagCalls[s] # Null, Tagging!FindTag(s), UNCHANGED <<panel, faults>>
  PROVE  TagsKnown'
<1>1. tagCalls[s].at = "find tag" /\ UNCHANGED <<tags, made, links, stray, panel, faults>>
  BY DEF Tagging!FindTag
<1>2. faults' \in 0..MaxFaults /\ halved \subseteq Tagging!Tags
  BY <1>1 DEF TagsKnown, Tagging!TypeOK
<1>3. CASE Tagging!On(s, "remove") /\ tagCalls[s].op = "delete" /\ UNCHANGED halved
  <2>1. PICK x \in Tagging!Answers : MovedTo(s, "remove", x)
    BY <1>3, CallGoesOn, StepsAndAnswers
  <2> QED
    BY <1>1, <1>2, <1>3, <2>1, StepsAndAnswers, LookingStep
<1>4. CASE Tagging!On(s, "find link") /\ tagCalls[s].op # "delete" /\ UNCHANGED halved
  <2>1. PICK x \in Tagging!Answers : MovedTo(s, "find link", x)
    BY <1>4, CallGoesOn, StepsAndAnswers
  <2> QED
    BY <1>1, <1>2, <1>4, <2>1, StepsAndAnswers, LookingStep
<1>5. CASE Tagging!End(s, "not found") /\ Tagging!Half(s)
  <2>1. MovedTo(s, "done", "not found")
    BY <1>5, CallEnds, StepsAndAnswers
  <2> QED
    BY <1>1, <1>2, <1>5, <2>1, StepsAndAnswers, HalfIsTold, LookingStep
<1> QED
  BY <1>3, <1>4, <1>5 DEF Tagging!FindTag

LEMMA FindLinkStep ==
  ASSUME TagsKnown, NEW s \in Tagging!Slots, tagCalls[s] # Null, Tagging!FindLink(s), UNCHANGED <<panel, faults>>
  PROVE  TagsKnown'
<1>1. tagCalls[s].at = "find link" /\ UNCHANGED <<tags, made, links, stray, panel, faults>>
  BY DEF Tagging!FindLink
<1>2. faults' \in 0..MaxFaults /\ halved \subseteq Tagging!Tags
  BY <1>1 DEF TagsKnown, Tagging!TypeOK
<1>3. CASE Tagging!On(s, "unlink") /\ tagCalls[s].op = "detach" /\ UNCHANGED halved
  <2>1. PICK x \in Tagging!Answers : MovedTo(s, "unlink", x)
    BY <1>3, CallGoesOn, StepsAndAnswers
  <2> QED
    BY <1>1, <1>2, <1>3, <2>1, StepsAndAnswers, LookingStep
<1>4. CASE Tagging!On(s, "link") /\ tagCalls[s].op # "detach" /\ UNCHANGED halved
  <2>1. PICK x \in Tagging!Answers : MovedTo(s, "link", x)
    BY <1>4, CallGoesOn, StepsAndAnswers
  <2> QED
    BY <1>1, <1>2, <1>4, <2>1, StepsAndAnswers, LookingStep
<1>5. CASE Tagging!End(s, "not found") /\ tagCalls[s].op = "detach" /\ UNCHANGED halved
  <2>1. MovedTo(s, "done", "not found")
    BY <1>5, CallEnds, StepsAndAnswers
  <2> QED
    BY <1>1, <1>2, <1>5, <2>1, StepsAndAnswers, LookingStep
<1>6. CASE Tagging!End(s, "tagged") /\ Tagging!Half(s)
  <2>1. MovedTo(s, "done", "tagged")
    BY <1>6, CallEnds, StepsAndAnswers
  <2> QED
    BY <1>1, <1>2, <1>6, <2>1, StepsAndAnswers, HalfIsTold, LookingStep
<1> QED
  BY <1>3, <1>4, <1>5, <1>6 DEF Tagging!FindLink

LEMMA FaultStep ==
  ASSUME TagsKnown, NEW s \in Tagging!Slots, tagCalls[s] # Null, Tagging!Fault(s)
  PROVE  TagsKnown'
<1>1. tagCalls[s].at # "done" /\ UNCHANGED <<tags, made, links, stray, panel>>
  BY DEF Tagging!Fault
<1>2. faults' \in 0..MaxFaults
  <2>1. faults \in 0..MaxFaults /\ faults < MaxFaults /\ faults' = faults + 1
    BY DEF TagsKnown, Tagging!TypeOK, Tagging!Fault
  <2> QED
    BY <2>1, TagAssumptions
<1>3. PICK x \in Tagging!Answers \ {"ok"} : MovedTo(s, "done", x)
  <2>1. Tagging!End(s, "error") \/ Tagging!End(s, "denied")
    BY DEF Tagging!Fault
  <2> QED
    BY <2>1, CallEnds DEF Tagging!Answers
<1>4. /\ halved' \subseteq Tagging!Tags /\ halved \subseteq halved'
      /\ tagCalls[s].op = "create" /\ tagCalls[s].tag \in Tagging!Tags => tagCalls[s].tag \in halved'
  <2>1. CASE tagCalls[s].at \in {"find tag", "find link", "link"}
    BY <2>1, HalfIsTold DEF Tagging!Fault
  <2>2. CASE tagCalls[s].at \notin {"find tag", "find link", "link"}
    <3>1. tagCalls[s].op = "create" => tagCalls[s].tag = Tagging!NoTag
      <4>1. tagCalls[s].at \in Tagging!Steps /\ CallShape(s)
        BY CallType DEF Tagging!Call, TagsKnown
      <4> QED
        BY <1>1, <2>2, <4>1 DEF CallShape, Tagging!Steps
    <3>2. Tagging!NoTag \notin Tagging!Tags
      BY TagAssumptions DEF Tagging!NoTag, Tagging!Tags
    <3>3. UNCHANGED halved
      BY <2>2 DEF Tagging!Fault
    <3> QED
      BY <3>1, <3>2, <3>3 DEF TagsKnown, Tagging!TypeOK
  <2> QED
    BY <2>1, <2>2
<1> QED
  BY <1>1, <1>2, <1>3, <1>4, StepsAndAnswers, LookingStep

LEMMA InsertStep ==
  ASSUME TagsKnown, NEW s \in Tagging!Slots, tagCalls[s] # Null, Tagging!InsertTag(s), UNCHANGED <<panel, faults>>
  PROVE  TagsKnown'
<1> DEFINE c == tagCalls[s]
<1>1. c \in Tagging!Call /\ c.at = "insert" /\ c.op = "create" /\ c.tag = 0 /\ c.name \in Names /\ CallShape(s)
  BY CallType DEF TagsKnown, CallShape, Tagging!InsertTag, Tagging!NoTag
<1>2. UNCHANGED <<links, halved, panel, faults>>
  BY DEF Tagging!InsertTag
<1>3. CASE Tagging!Used(c.name) /\ Tagging!End(s, "error") /\ UNCHANGED <<tags, made, stray>>
  <2>1. MovedTo(s, "done", "error")
    BY <1>3, CallEnds, StepsAndAnswers
  <2>2. c.tag \notin Tagging!Tags
    BY <1>1, TagAssumptions DEF Tagging!Tags
  <2>3. faults' \in 0..MaxFaults /\ halved' \subseteq Tagging!Tags /\ halved \subseteq halved'
    BY <1>2 DEF TagsKnown, Tagging!TypeOK
  <2> QED
    BY <1>1, <1>2, <1>3, <2>1, <2>2, <2>3, StepsAndAnswers, LookingStep
<1>4. CASE /\ ~Tagging!Used(c.name)
           /\ made' = made + 1 /\ tags' = [tags EXCEPT ![made + 1] = c.name]
           /\ tagCalls' = [tagCalls EXCEPT ![s].tag = made + 1, ![s].at = "find tag"]
           /\ stray' = stray \cup (Tagging!Deaf(s) \X {made + 1})
  <2> DEFINE m == made + 1
  <2>1. /\ IsFiniteSet(Tagging!Making) /\ s \in Tagging!Making
        /\ IsFiniteSet(Tagging!Making \ {s})
        /\ Cardinality(Tagging!Making \ {s}) = Cardinality(Tagging!Making) - 1
        /\ Cardinality(Tagging!Making \ {s}) \in Nat /\ Cardinality(Tagging!Making) \in Nat
    <3>1. IsFiniteSet(Tagging!Making) /\ s \in Tagging!Making
      BY <1>1 DEF TagsKnown, Tagging!Making
    <3> QED
      BY <3>1, FS_RemoveElement, FS_CardinalityType
  <2>2. /\ made \in Nat /\ m \in Tagging!Tags /\ m \in 0..MaxTags /\ made <= m /\ m <= m
        /\ m + (Cardinality(Tagging!Making) - 1) <= MaxTags
    <3>1. made \in Nat
      BY TagAssumptions DEF TagsKnown, Tagging!TypeOK
    <3>2. made + Cardinality(Tagging!Making) <= MaxTags
      BY DEF TagsKnown
    <3> QED
      BY <2>1, <3>1, <3>2, TagAssumptions DEF Tagging!Tags
  <2> DEFINE d == [c EXCEPT !.tag = m, !.at = "find tag"]
  <2>3. /\ d \in Tagging!Call /\ d.op = "create" /\ d.tag = m /\ d.load = c.load /\ d.name = c.name
        /\ d.at = "find tag"
    BY <1>1, <2>2 DEF Tagging!Call, Tagging!Steps
  <2>4. tagCalls' = [tagCalls EXCEPT ![s] = d]
    BY <1>1, <1>4 DEF TagsKnown, Tagging!TypeOK
  <2> HIDE DEF d
  <2>5. /\ tagCalls'[s] = d /\ d # Null /\ \A g \in Tagging!Slots : g # s => tagCalls'[g] = tagCalls[g]
    BY <2>3, <2>4, TagAssumptions DEF TagsKnown, Tagging!TypeOK
  <2>6. Tagging!TypeOK'
    <3>1. tags' \in [Tagging!Tags -> Names \cup {Null}] /\ tags'[m] = c.name /\ c.name # Null
          /\ \A t \in Tagging!Tags : t # m => tags'[t] = tags[t]
      BY <1>1, <1>4, <2>2, TagAssumptions DEF TagsKnown, Tagging!TypeOK
    <3>2. \A t \in Tagging!Tags : tags[t] # c.name
      BY <1>4 DEF Tagging!Used
    <3>3. \A x, t \in Tagging!Tags : tags'[x] = tags'[t] /\ tags'[x] # Null => x = t
      BY <3>1, <3>2 DEF TagsKnown, Tagging!TypeOK
    <3>4. \A l \in links : l[2] \in Tagging!Tags /\ tags'[l[2]] # Null
      BY <3>1 DEF TagsKnown, Tagging!TypeOK
    <3>5. made' \in 0..MaxTags
      BY <1>4, <2>2
    <3>6. tagCalls' \in [Tagging!Slots -> Tagging!Call \cup {Null}]
      BY <2>3, <2>4 DEF TagsKnown, Tagging!TypeOK
    <3>7. stray' \subseteq Panels \X Tagging!Tags
      BY <1>4, <2>2 DEF TagsKnown, Tagging!TypeOK, Tagging!Deaf
    <3> QED
      BY <1>2, <3>1, <3>3, <3>4, <3>5, <3>6, <3>7 DEF TagsKnown, Tagging!TypeOK
  <2>7. CallShape(s)'
    <3>1. c.load <= panel[s[1]].load
      BY <1>1 DEF CallShape
    <3>2. d.tag <= made' /\ d.load <= panel'[s[1]].load
      BY <1>2, <1>4, <2>2, <2>3, <3>1
    <3> QED
      BY <1>1, <2>2, <2>3, <2>5, <3>2 DEF CallShape
  <2>8. CallRight(s)'
    BY <2>3, <2>5 DEF CallRight, Acted
  <2>9. Tagging!Making' = Tagging!Making \ {s}
    BY <2>3, <2>5 DEF Tagging!Making
  <2>10. made' + Cardinality(Tagging!Making') <= MaxTags /\ made <= made'
    BY <1>4, <2>1, <2>2, <2>9
  <2>11. ASSUME NEW p \in Panels, NEW t \in Tagging!Tags
         PROVE  \/ (Exists(t)' <=> Exists(t)) /\ (Tagged(p, t)' <=> Tagged(p, t))
                \/ t = m /\ (p \in Tagging!Deaf(s) => <<p, t>> \in stray')
    <3>1. CASE t = m
      BY <1>4, <3>1
    <3>2. CASE t # m
      BY <1>2, <1>4, <3>2 DEF Exists, Tagged, TagsKnown, Tagging!TypeOK
    <3> QED
      BY <3>1, <3>2
  <2>12. stray \subseteq stray' /\ halved \subseteq halved' /\ c.tag = Tagging!NoTag
    BY <1>1, <1>2, <1>4 DEF Tagging!NoTag
  <2> HIDE DEF c, m
  <2>13. d.op = c.op /\ d.tag = made + 1
    BY <1>1, <2>3 DEF m
  <2> QED
    BY <1>2, <2>1, <2>3, <2>4, <2>6, <2>7, <2>8, <2>9, <2>10, <2>11, <2>12, <2>13, ServerStep DEF c
<1> QED
  BY <1>3, <1>4 DEF Tagging!InsertTag

(* The last statement of a call: what it says is then so.                    *)
LEMMA WritingStep ==
  ASSUME TagsKnown, NEW s \in Tagging!Slots, tagCalls[s] # Null, tagCalls[s].at # "done",
         NEW t \in Tagging!Tags, tagCalls[s].tag = t, MovedTo(s, "done", "ok"),
         UNCHANGED <<made, panel, halved, faults>>, stray \subseteq stray', Tagging!TypeOK',
         \A p \in Panels : \A x \in Tagging!Tags :
           \/ (Exists(x)' <=> Exists(x)) /\ (Tagged(p, x)' <=> Tagged(p, x))
           \/ x = t /\ (p \in Tagging!Deaf(s) => <<p, x>> \in stray'),
         \/ tagCalls[s].op \in {"create", "attach"} /\ Exists(t) /\ Exists(t)' /\ Tagged(s[1], t)'
         \/ tagCalls[s].op = "detach" /\ (Exists(t)' <=> Exists(t)) /\ ~Tagged(s[1], t)'
         \/ tagCalls[s].op = "delete" /\ ~Exists(t)' /\ ~Tagged(s[1], t)'
  PROVE  TagsKnown'
<1>1. PICK d \in Tagging!Call :
        /\ tagCalls' = [tagCalls EXCEPT ![s] = d]
        /\ d.op = tagCalls[s].op /\ d.tag = tagCalls[s].tag /\ d.load = tagCalls[s].load
        /\ d.name = tagCalls[s].name /\ d.at = "done" /\ d.answer = "ok"
  BY DEF MovedTo
<1>2. /\ tagCalls'[s] = d /\ d # Null
      /\ \A g \in Tagging!Slots : g # s => tagCalls'[g] = tagCalls[g]
  BY <1>1, TagAssumptions DEF TagsKnown, Tagging!TypeOK
<1>3. Tagging!Making' \subseteq Tagging!Making
  BY <1>1, <1>2 DEF Tagging!Making
<1>4. CallShape(s)'
  <2>1. CallShape(s) /\ made' = made /\ panel' = panel
    BY DEF TagsKnown
  <2> QED
    BY <1>1, <1>2, <2>1 DEF CallShape
<1>5. CallRight(s)'
  <2>1. tagCalls'[s].tag = t /\ tagCalls'[s].op = tagCalls[s].op /\ panel' = panel
    BY <1>1, <1>2
  <2> SUFFICES ASSUME Heard(s)', ~Exempt(s[1], t)', panel[s[1]].read # {} PROVE CallRight(s)'
    BY <2>1 DEF CallRight
  <2>2. Heard(s) /\ ~Exempt(s[1], t) /\ Acted(s)' /\ ~Acted(s)
    BY <1>1, <1>2 DEF Heard, Exempt, Acted
  <2>3. CallRight(s)
    BY DEF TagsKnown
  <2>4. tagCalls[s].op # "create" => AllRight(s[1], t)
    BY <2>2, <2>3 DEF CallRight
  <2>5. tagCalls[s].op \in {"attach", "detach"} => (Exists(t)' <=> Exists(t))
    OBVIOUS
  <2>6. tagCalls[s].op \in {"attach", "detach"} => AllRight(s[1], t)'
    BY <2>1, <2>4, <2>5 DEF AllRight
  <2> QED
    BY <2>1, <2>2, <2>6 DEF CallRight
<1>6. made <= made' /\ halved \subseteq halved'
  BY TablesKept DEF TagsKnown
<1> QED
  BY <1>1, <1>3, <1>4, <1>5, <1>6, MakingStays, ServerStep

LEMMA LinkStep ==
  ASSUME TagsKnown, NEW s \in Tagging!Slots, tagCalls[s] # Null, Tagging!Link(s), UNCHANGED <<panel, faults>>
  PROVE  TagsKnown'
<1>1. PICK t \in Tagging!Tags :
      /\ t = tagCalls[s].tag /\ tagCalls[s].at = "link" /\ tagCalls[s].op \in {"create", "attach"}
      /\ s[1] \in Panels /\ UNCHANGED <<tags, made, panel, faults>>
  BY DEF TagsKnown, CallShape, Tagging!Link, Tagging!Slots
<1>2. CASE /\ t \in Tagging!Existing
           /\ links' = links \cup {<<PageOf[s[1]], t>>}
           /\ stray' = stray \cup ({q \in Tagging!Deaf(s) : PageOf[q] = PageOf[s[1]]} \X {t})
           /\ Tagging!End(s, "ok") /\ UNCHANGED halved
  <2>1. MovedTo(s, "done", "ok")
    BY <1>2, CallEnds, StepsAndAnswers
  <2>2. Exists(t) /\ Exists(t)' /\ Tagged(s[1], t)'
    BY <1>1, <1>2 DEF Exists, Tagged, Tagging!Existing
  <2>3. Tagging!TypeOK'
    <3>1. tagCalls' \in [Tagging!Slots -> Tagging!Call \cup {Null}]
      BY <2>1 DEF MovedTo, TagsKnown, Tagging!TypeOK
    <3>2. links' \subseteq TaggedPages \X Tagging!Tags /\ \A l \in links' : tags[l[2]] # Null
      BY <1>1, <1>2, TagAssumptions DEF TagsKnown, Tagging!TypeOK, Tagging!Existing
    <3>3. stray' \subseteq Panels \X Tagging!Tags
      BY <1>1, <1>2 DEF TagsKnown, Tagging!TypeOK, Tagging!Deaf
    <3> QED
      BY <1>1, <1>2, <3>1, <3>2, <3>3 DEF TagsKnown, Tagging!TypeOK
  <2>4. ASSUME NEW p \in Panels, NEW x \in Tagging!Tags
        PROVE  \/ (Exists(x)' <=> Exists(x)) /\ (Tagged(p, x)' <=> Tagged(p, x))
               \/ x = t /\ (p \in Tagging!Deaf(s) => <<p, x>> \in stray')
    <3>1. Exists(x)' <=> Exists(x)
      BY <1>1 DEF Exists
    <3>2. CASE x = t /\ PageOf[p] = PageOf[s[1]]
      BY <1>2, <3>2
    <3>3. CASE ~(x = t /\ PageOf[p] = PageOf[s[1]])
      BY <1>2, <3>1, <3>3 DEF Tagged
    <3> QED
      BY <3>2, <3>3
  <2>5. stray \subseteq stray'
    BY <1>2
  <2> QED
    BY <1>1, <1>2, <2>1, <2>2, <2>3, <2>4, <2>5, WritingStep
<1>3. CASE Tagging!End(s, "error") /\ Tagging!Half(s) /\ UNCHANGED <<links, stray>>
  <2>1. MovedTo(s, "done", "error")
    BY <1>3, CallEnds, StepsAndAnswers
  <2>2. faults' \in 0..MaxFaults
    BY <1>1 DEF TagsKnown, Tagging!TypeOK
  <2> QED
    BY <1>1, <1>3, <2>1, <2>2, StepsAndAnswers, HalfIsTold, LookingStep
<1> QED
  BY <1>1, <1>2, <1>3 DEF Tagging!Link

LEMMA UnlinkStep ==
  ASSUME TagsKnown, NEW s \in Tagging!Slots, tagCalls[s] # Null, Tagging!Unlink(s), UNCHANGED <<panel, faults>>
  PROVE  TagsKnown'
<1>1. PICK t \in Tagging!Tags :
      /\ t = tagCalls[s].tag /\ tagCalls[s].at = "unlink" /\ tagCalls[s].op = "detach"
      /\ s[1] \in Panels /\ UNCHANGED <<tags, made, panel, faults, halved>>
  BY DEF TagsKnown, CallShape, Tagging!Unlink, Tagging!Slots
<1>2. /\ links' = links \ {<<PageOf[s[1]], t>>}
      /\ stray' = stray \cup ({q \in Tagging!Deaf(s) : PageOf[q] = PageOf[s[1]]} \X {t})
  BY <1>1 DEF Tagging!Unlink
<1>3. MovedTo(s, "done", "ok")
  BY CallEnds, StepsAndAnswers DEF Tagging!Unlink
<1>4. (Exists(t)' <=> Exists(t)) /\ ~Tagged(s[1], t)'
  BY <1>1, <1>2 DEF Exists, Tagged
<1>5. Tagging!TypeOK'
  <2>1. tagCalls' \in [Tagging!Slots -> Tagging!Call \cup {Null}]
    BY <1>3 DEF MovedTo, TagsKnown, Tagging!TypeOK
  <2>2. links' \subseteq TaggedPages \X Tagging!Tags /\ \A l \in links' : tags[l[2]] # Null
    BY <1>2 DEF TagsKnown, Tagging!TypeOK
  <2>3. stray' \subseteq Panels \X Tagging!Tags
    BY <1>1, <1>2 DEF TagsKnown, Tagging!TypeOK, Tagging!Deaf
  <2> QED
    BY <1>1, <2>1, <2>2, <2>3 DEF TagsKnown, Tagging!TypeOK
<1>6. ASSUME NEW p \in Panels, NEW x \in Tagging!Tags
      PROVE  \/ (Exists(x)' <=> Exists(x)) /\ (Tagged(p, x)' <=> Tagged(p, x))
             \/ x = t /\ (p \in Tagging!Deaf(s) => <<p, x>> \in stray')
  <2>1. Exists(x)' <=> Exists(x)
    BY <1>1 DEF Exists
  <2>2. CASE x = t /\ PageOf[p] = PageOf[s[1]]
    BY <1>2, <2>2
  <2>3. CASE ~(x = t /\ PageOf[p] = PageOf[s[1]])
    BY <1>2, <2>1, <2>3 DEF Tagged
  <2> QED
    BY <2>2, <2>3
<1>7. stray \subseteq stray'
  BY <1>2
<1> QED
  BY <1>1, <1>3, <1>4, <1>5, <1>6, <1>7, WritingStep

LEMMA RemoveStep ==
  ASSUME TagsKnown, NEW s \in Tagging!Slots, tagCalls[s] # Null, Tagging!Remove(s), UNCHANGED <<panel, faults>>
  PROVE  TagsKnown'
<1>1. PICK t \in Tagging!Tags :
      /\ t = tagCalls[s].tag /\ tagCalls[s].at = "remove" /\ tagCalls[s].op = "delete"
      /\ s[1] \in Panels /\ UNCHANGED <<made, panel, faults, halved>>
  BY DEF TagsKnown, CallShape, Tagging!Remove, Tagging!Slots
<1>2. /\ tags' = [tags EXCEPT ![t] = Null] /\ links' = {l \in links : l[2] # t}
      /\ stray' = stray \cup (Tagging!Deaf(s) \X {t})
  BY <1>1 DEF Tagging!Remove
<1>3. MovedTo(s, "done", "ok")
  BY CallEnds, StepsAndAnswers DEF Tagging!Remove
<1>4. ~Exists(t)' /\ ~Tagged(s[1], t)'
  BY <1>1, <1>2 DEF Exists, Tagged, TagsKnown, Tagging!TypeOK
<1>5. Tagging!TypeOK'
  <2>1. tagCalls' \in [Tagging!Slots -> Tagging!Call \cup {Null}]
    BY <1>3 DEF MovedTo, TagsKnown, Tagging!TypeOK
  <2>2. /\ tags' \in [Tagging!Tags -> Names \cup {Null}] /\ tags'[t] = Null
        /\ \A x \in Tagging!Tags : x # t => tags'[x] = tags[x]
    BY <1>1, <1>2 DEF TagsKnown, Tagging!TypeOK
  <2>3. \A x, y \in Tagging!Tags : tags'[x] = tags'[y] /\ tags'[x] # Null => x = y
    BY <2>2 DEF TagsKnown, Tagging!TypeOK
  <2>4. links' \subseteq TaggedPages \X Tagging!Tags /\ \A l \in links' : tags'[l[2]] # Null
    BY <1>2, <2>2 DEF TagsKnown, Tagging!TypeOK
  <2>5. stray' \subseteq Panels \X Tagging!Tags
    BY <1>1, <1>2 DEF TagsKnown, Tagging!TypeOK, Tagging!Deaf
  <2> QED
    BY <1>1, <2>1, <2>2, <2>3, <2>4, <2>5 DEF TagsKnown, Tagging!TypeOK
<1>6. ASSUME NEW p \in Panels, NEW x \in Tagging!Tags
      PROVE  \/ (Exists(x)' <=> Exists(x)) /\ (Tagged(p, x)' <=> Tagged(p, x))
             \/ x = t /\ (p \in Tagging!Deaf(s) => <<p, x>> \in stray')
  <2>1. CASE x = t
    BY <1>2, <2>1
  <2>2. CASE x # t
    BY <1>2, <2>2 DEF Exists, Tagged, TagsKnown, Tagging!TypeOK
  <2> QED
    BY <2>1, <2>2
<1>7. stray \subseteq stray'
  BY <1>2
<1> QED
  BY <1>1, <1>3, <1>4, <1>5, <1>6, <1>7, WritingStep

LEMMA ServeStep ==
  ASSUME TagsKnown, NEW s \in Tagging!Slots, Tagging!Serve(s)
  PROVE  TagsKnown'
BY FindNameStep, InsertStep, FindTagStep, FindLinkStep, LinkStep, UnlinkStep, RemoveStep, FaultStep
DEF Tagging!Serve

-----------------------------------------------------------------------------
(* The panel's own steps.                                                    *)

LEMMA SlotsOfPanels ==
  /\ \A p \in Panels : \A i \in 1..AtOnce : <<p, i>> \in Tagging!Slots
  /\ \A s \in Tagging!Slots : s[1] \in Panels /\ s[2] \in 1..AtOnce /\ s = <<s[1], s[2]>>
BY DEF Tagging!Slots

LEMMA LockedIs ==
  /\ Tagging!LockedWhileAsking <=> \A p \in Panels : Locked(p)
  /\ Tagging!LockedWhileAsking' <=> \A p \in Panels : Locked(p)'
BY DEF Tagging!LockedWhileAsking, Locked, Heard, Tagging!NoTag

LEMMA ReadListStep ==
  ASSUME TagsKnown, NEW p \in Panels, NEW list \in {"all", "page"}, Tagging!ReadList(p, list)
  PROVE  TagsKnown'
<1> USE TagAssumptions
<1>1. UNCHANGED <<tags, made, links, faults, halved, tagCalls, stray>>
  BY DEF Tagging!ReadList, Tagging!Quiet
<1>2. PICK q \in Tagging!PanelState : q = panel[p]
  BY DEF TagsKnown, Tagging!TypeOK
<1>3. q.status = "loading" /\ list \notin q.read
  BY <1>2 DEF Tagging!ReadList
<1> DEFINE read == q.read \cup {list}
<1> DEFINE r == [q EXCEPT !.read = read, !.status = IF read = {"all", "page"} THEN "ready" ELSE "loading",
                   !.all = IF list = "all" THEN Tagging!Existing ELSE @,
                   !.page = IF list = "page" THEN Tagging!Linked(PageOf[p]) ELSE @]
<1>4. /\ r \in Tagging!PanelState /\ r.read = q.read \cup {list} /\ r.load = q.load
      /\ r.pending = q.pending /\ r.creating = q.creating
      /\ r.status = (IF r.read = {"all", "page"} THEN "ready" ELSE "loading")
      /\ r.all = (IF list = "all" THEN Tagging!Existing ELSE q.all)
      /\ r.page = (IF list = "page" THEN Tagging!Linked(PageOf[p]) ELSE q.page)
  BY <1>2 DEF Tagging!PanelState, Tagging!Existing, Tagging!Linked
<1>5. panel' = [panel EXCEPT ![p] = r]
  BY <1>2 DEF Tagging!ReadList, TagsKnown, Tagging!TypeOK
<1> HIDE DEF r, read
<1>6. panel'[p] = r /\ \A o \in Panels : o # p => panel'[o] = panel[o]
  BY <1>5 DEF TagsKnown, Tagging!TypeOK
<1>7. \A o \in Panels : panel'[o].load = panel[o].load /\ panel'[o].pending = panel[o].pending
                        /\ panel'[o].creating = panel[o].creating
  BY <1>2, <1>4, <1>6
<1>8. Tagging!TypeOK'
  BY <1>1, <1>4, <1>5 DEF TagsKnown, Tagging!TypeOK
<1>9. \A s \in Tagging!Slots : (Heard(s)' <=> Heard(s)) /\ (Acted(s)' <=> Acted(s))
  BY <1>1, <1>7, SlotsOfPanels DEF Heard, Acted
<1>10. \A o \in Panels, t \in Tagging!Tags : (Exempt(o, t)' <=> Exempt(o, t)) /\ (Exists(t)' <=> Exists(t))
                                            /\ (Tagged(o, t)' <=> Tagged(o, t))
  BY <1>1 DEF Exempt, Exists, Tagged
<1>11. \A o \in Panels, t \in Tagging!Tags :
         (AllRight(o, t) => AllRight(o, t)') /\ (PageRight(o, t) => PageRight(o, t)')
  <2> SUFFICES ASSUME NEW o \in Panels, NEW t \in Tagging!Tags
               PROVE  (AllRight(o, t) => AllRight(o, t)') /\ (PageRight(o, t) => PageRight(o, t)')
    OBVIOUS
  <2>1. CASE o # p
    BY <1>6, <1>10, <2>1 DEF AllRight, PageRight
  <2>2. CASE o = p /\ list = "all"
    BY <1>2, <1>4, <1>6, <1>10, <2>2 DEF AllRight, PageRight, Exists, Tagging!Existing
  <2>3. CASE o = p /\ list = "page"
    BY <1>2, <1>4, <1>6, <1>10, <2>3 DEF AllRight, PageRight, Tagged, Tagging!Linked
  <2> QED
    BY <2>1, <2>2, <2>3
<1>12. \A t \in Tagging!Tags : list = "all" => AllRight(p, t)'
  BY <1>4, <1>6, <1>10 DEF AllRight, Exists, Tagging!Existing
<1>13. \A s \in Tagging!Slots : CallShape(s)'
  BY <1>1, <1>7, <1>9, SlotsOfPanels DEF TagsKnown, CallShape
<1>14. ASSUME NEW s \in Tagging!Slots PROVE CallRight(s)'
  <2>1. CallRight(s)
    BY DEF TagsKnown
  <2>2. CASE s[1] # p
    BY <1>1, <1>6, <1>9, <1>10, <1>11, <2>1, <2>2, SlotsOfPanels DEF CallRight
  <2>3. CASE s[1] = p
    <3> SUFFICES ASSUME Heard(s) PROVE CallRight(s)'
      BY <1>9 DEF CallRight
    <3>1. s = <<p, s[2]>> /\ s[2] \in 1..AtOnce
      BY <2>3, SlotsOfPanels
    <3>2. tagCalls[s].op = "detach" /\ "page" \in panel[p].read
      BY <1>2, <1>3, <3>1 DEF TagsKnown, PanelShape
    <3> QED
      BY <1>1, <1>2, <1>9, <1>10, <1>11, <2>1, <2>3, <3>2 DEF CallRight
  <2> QED
    BY <2>2, <2>3
<1>15. ASSUME NEW o \in Panels PROVE PanelShape(o)'
  <2>1. PanelShape(o)
    BY DEF TagsKnown
  <2>2. CASE o # p
    BY <1>1, <1>6, <1>9, <2>1, <2>2, SlotsOfPanels DEF PanelShape
  <2>3. CASE o = p
    <3>1. \A t \in r.all \cup r.page : t <= made
      <4>1. \A t \in Tagging!Existing : t <= made
        BY DEF TagsKnown, Tagging!Existing, Exists
      <4>2. Tagging!Linked(PageOf[p]) \subseteq Tagging!Existing
        BY DEF TagsKnown, Tagging!TypeOK, Tagging!Linked, Tagging!Existing
      <4>3. \A t \in q.all \cup q.page : t <= made
        BY <1>2, <2>1, <2>3 DEF PanelShape
      <4> QED
        BY <1>4, <4>1, <4>2, <4>3
    <3>2. r.status = "loading" => ("page" \notin r.read => r.page = {})
      BY <1>2, <1>3, <1>4, <2>1, <2>3 DEF PanelShape
    <3>3. \A i \in 1..AtOnce : Heard(<<p, i>>) => tagCalls[<<p, i>>].op = "detach" /\ "page" \in r.read
      BY <1>2, <1>3, <1>4, <2>1, <2>3 DEF PanelShape
    <3>4. r.status = "ready" => r.read = {"all", "page"}
      BY <1>4
    <3>5. r.status # "error"
      BY <1>4
    <3> QED
      BY <1>1, <1>6, <1>9, <2>3, <3>1, <3>2, <3>3, <3>4, <3>5, SlotsOfPanels DEF PanelShape
  <2> QED
    BY <2>2, <2>3
<1>16. \A o \in Panels : OneEach(o)'
  BY <1>1, <1>9, SlotsOfPanels DEF TagsKnown, OneEach
<1>17. \A o \in Panels : \A t \in Tagging!Tags : PanelRight(o, t)'
  BY <1>1, <1>9, <1>10, <1>11, SlotsOfPanels DEF TagsKnown, PanelRight
<1>18. \A o \in Panels : Locked(o)'
  BY <1>1, <1>7, <1>9, SlotsOfPanels, LockedIs DEF TagsKnown, Locked
<1>19. UNCHANGED Tagging!Making
  BY <1>1 DEF Tagging!Making
<1>20. \A t \in Tagging!Tags : Exists(t)' => t <= made'
  BY <1>1, <1>10 DEF TagsKnown, Exists
<1>21. IsFiniteSet(Tagging!Making') /\ made' + Cardinality(Tagging!Making') <= MaxTags
  BY <1>1, <1>19, MakingStays
<1> QED
  BY <1>8, <1>13, <1>14, <1>15, <1>16, <1>17, <1>18, <1>20, <1>21, LockedIs DEF TagsKnown

(* The lists of a panel are gone: there is nothing it could be wrong about.    *)
LEMMA BlankStep ==
  ASSUME TagsKnown, NEW p \in Panels, NEW r \in Tagging!PanelState, panel' = [panel EXCEPT ![p] = r],
         r.all = {}, r.page = {}, r.read = {}, r.status # "ready", panel[p].load <= r.load,
         r.status = "loading" => \A i \in 1..AtOnce : ~Heard(<<p, i>>)',
         UNCHANGED <<tags, made, links, tagCalls, halved>>, faults' \in 0..MaxFaults,
         stray' \subseteq stray, \A l \in stray : l[1] # p => l \in stray',
         OneEach(p)', Locked(p)'
  PROVE  TagsKnown'
<1> USE TagAssumptions
<1>1. panel'[p] = r /\ \A o \in Panels : o # p => panel'[o] = panel[o]
  BY DEF TagsKnown, Tagging!TypeOK
<1>2. Tagging!TypeOK'
  BY DEF TagsKnown, Tagging!TypeOK
<1>3. \A s \in Tagging!Slots : s[1] # p => (Heard(s)' <=> Heard(s))
  BY <1>1, SlotsOfPanels DEF Heard
<1>4. \A o \in Panels, t \in Tagging!Tags :
        (o # p => (Exempt(o, t)' <=> Exempt(o, t))) /\ (Exists(t)' <=> Exists(t)) /\ (Tagged(o, t)' <=> Tagged(o, t))
  BY DEF Exempt, Exists, Tagged
<1>5. ASSUME NEW s \in Tagging!Slots PROVE CallShape(s)'
  <2> SUFFICES ASSUME tagCalls[s] # Null PROVE CallShape(s)'
    BY DEF CallShape
  <2>1. CallShape(s) /\ tagCalls[s].load <= panel[s[1]].load
    BY DEF TagsKnown, CallShape
  <2>2. tagCalls[s].load \in Nat /\ panel[s[1]].load \in Nat /\ r.load \in Nat
    BY CallType, SlotsOfPanels DEF TagsKnown, Tagging!TypeOK, Tagging!Call, Tagging!PanelState
  <2>3. tagCalls[s].load <= panel'[s[1]].load
    <3>1. CASE s[1] = p
      BY <1>1, <2>1, <2>2, <3>1
    <3>2. CASE s[1] # p
      BY <1>1, <2>1, <3>2, SlotsOfPanels
    <3> QED
      BY <3>1, <3>2
  <2> QED
    BY <2>1, <2>3 DEF CallShape, Acted
<1>6. ASSUME NEW s \in Tagging!Slots PROVE CallRight(s)'
  <2>1. CASE s[1] = p
    BY <1>1, <2>1 DEF CallRight
  <2>2. CASE s[1] # p
    <3>1. CallRight(s) /\ panel'[s[1]] = panel[s[1]] /\ (Heard(s)' <=> Heard(s)) /\ s[1] \in Panels
      BY <1>1, <1>3, <2>2, SlotsOfPanels DEF TagsKnown
    <3> QED
      BY <1>4, <2>2, <3>1 DEF CallRight, Acted, AllRight, PageRight
  <2> QED
    BY <2>1, <2>2
<1>7. ASSUME NEW o \in Panels PROVE PanelShape(o)'
  <2>1. CASE o = p
    BY <1>1, <2>1 DEF PanelShape
  <2>2. CASE o # p
    <3>1. PanelShape(o) /\ panel'[o] = panel[o] /\ \A i \in 1..AtOnce : Heard(<<o, i>>)' <=> Heard(<<o, i>>)
      BY <1>1, <1>3, <2>2, SlotsOfPanels DEF TagsKnown
    <3> QED
      BY <3>1 DEF PanelShape
  <2> QED
    BY <2>1, <2>2
<1>8. ASSUME NEW o \in Panels PROVE OneEach(o)'
  <2>1. CASE o # p
    <3>1. OneEach(o) /\ \A i \in 1..AtOnce : Heard(<<o, i>>)' <=> Heard(<<o, i>>)
      BY <1>3, <2>1, SlotsOfPanels DEF TagsKnown
    <3>2. \A t : <<o, t>> \in stray => <<o, t>> \in stray'
      BY <2>1
    <3> QED
      BY <3>1, <3>2 DEF OneEach
  <2> QED
    BY <2>1
<1>9. ASSUME NEW o \in Panels, NEW t \in Tagging!Tags PROVE PanelRight(o, t)'
  <2>1. CASE o = p
    BY <1>1, <2>1 DEF PanelRight, AllRight, PageRight
  <2>2. CASE o # p
    <3>1. PanelRight(o, t) /\ panel'[o] = panel[o] /\ \A i \in 1..AtOnce : Heard(<<o, i>>)' <=> Heard(<<o, i>>)
      BY <1>1, <1>3, <2>2, SlotsOfPanels DEF TagsKnown
    <3> QED
      BY <1>4, <2>2, <3>1 DEF PanelRight, AllRight, PageRight
  <2> QED
    BY <2>1, <2>2
<1>10. ASSUME NEW o \in Panels PROVE Locked(o)'
  <2>1. CASE o # p
    <3>1. Locked(o) /\ panel'[o] = panel[o] /\ \A i \in 1..AtOnce : Heard(<<o, i>>)' <=> Heard(<<o, i>>)
      BY <1>1, <1>3, <2>1, SlotsOfPanels, LockedIs DEF TagsKnown
    <3> QED
      BY <3>1 DEF Locked
  <2> QED
    BY <2>1
<1>11. UNCHANGED Tagging!Making
  BY DEF Tagging!Making
<1>12. IsFiniteSet(Tagging!Making') /\ made' + Cardinality(Tagging!Making') <= MaxTags
  BY <1>11, MakingStays
<1>13. \A t \in Tagging!Tags : Exists(t)' => t <= made'
  BY DEF TagsKnown, Exists
<1> QED
  BY <1>2, <1>5, <1>6, <1>7, <1>8, <1>9, <1>10, <1>12, <1>13, LockedIs DEF TagsKnown

LEMMA LoadFailsStep ==
  ASSUME TagsKnown, NEW p \in Panels, Tagging!LoadFails(p)
  PROVE  TagsKnown'
<1> USE TagAssumptions
<1>1. PICK q \in Tagging!PanelState : q = panel[p]
  BY DEF TagsKnown, Tagging!TypeOK
<1> DEFINE r == [q EXCEPT !.status = "error", !.all = {}, !.page = {}, !.read = {}]
<1>2. /\ r \in Tagging!PanelState /\ r.read = {} /\ r.all = {} /\ r.page = {} /\ r.status = "error"
      /\ r.load = q.load /\ r.pending = q.pending /\ r.creating = q.creating
  BY <1>1 DEF Tagging!PanelState
<1>3. panel' = [panel EXCEPT ![p] = r]
  BY <1>1 DEF Tagging!LoadFails, TagsKnown, Tagging!TypeOK
<1> HIDE DEF r
<1>4. panel'[p] = r
  BY <1>3 DEF TagsKnown, Tagging!TypeOK
<1>5. UNCHANGED <<tags, made, links, tagCalls, halved, stray>> /\ faults' \in 0..MaxFaults
  BY DEF Tagging!LoadFails, TagsKnown, Tagging!TypeOK
<1>6. \A i \in 1..AtOnce : Heard(<<p, i>>)' <=> Heard(<<p, i>>)
  BY <1>1, <1>2, <1>4, <1>5 DEF Heard
<1>7. OneEach(p) /\ Locked(p)
  BY LockedIs DEF TagsKnown
<1>8. OneEach(p)'
  BY <1>5, <1>6, <1>7 DEF OneEach
<1>9. Locked(p)'
  BY <1>1, <1>2, <1>4, <1>5, <1>6, <1>7 DEF Locked
<1>10. panel[p].load <= r.load
  BY <1>1, <1>2 DEF Tagging!PanelState
<1> QED
  BY <1>2, <1>3, <1>5, <1>8, <1>9, <1>10, BlankStep

LEMMA OpenStep ==
  ASSUME TagsKnown, NEW p \in Panels, Tagging!Open(p)
  PROVE  TagsKnown'
<1> USE TagAssumptions
<1>1. PICK l \in 0..MaxLoads : l = panel[p].load /\ l < MaxLoads
  BY DEF TagsKnown, Tagging!TypeOK, Tagging!PanelState, Tagging!Open
<1> DEFINE r == [status |-> "loading", all |-> {}, page |-> {}, read |-> {}, pending |-> Tagging!NoTag,
                 creating |-> FALSE, load |-> l + 1]
<1>2. /\ r \in Tagging!PanelState /\ r.read = {} /\ r.all = {} /\ r.page = {} /\ r.status = "loading"
      /\ r.load = l + 1 /\ r.pending = Tagging!NoTag /\ ~r.creating
  BY <1>1 DEF Tagging!PanelState
<1>3. panel' = [panel EXCEPT ![p] = r]
  BY <1>1 DEF Tagging!Open, TagsKnown, Tagging!TypeOK
<1> HIDE DEF r
<1>4. panel'[p] = r
  BY <1>3 DEF TagsKnown, Tagging!TypeOK
<1>5. /\ UNCHANGED <<tags, made, links, tagCalls, halved>> /\ faults' \in 0..MaxFaults
      /\ stray' = {x \in stray : x[1] # p}
  BY DEF Tagging!Open, TagsKnown, Tagging!TypeOK
<1>6. ASSUME NEW i \in 1..AtOnce PROVE ~Heard(<<p, i>>)'
  <2> SUFFICES ASSUME tagCalls[<<p, i>>] # Null PROVE tagCalls[<<p, i>>].load # l + 1
    BY <1>2, <1>4, <1>5 DEF Heard
  <2>1. tagCalls[<<p, i>>].load <= l
    BY <1>1, SlotsOfPanels DEF TagsKnown, CallShape
  <2>2. tagCalls[<<p, i>>].load \in Nat
    BY CallType, SlotsOfPanels DEF Tagging!Call
  <2> QED
    BY <2>1, <2>2
<1>7. OneEach(p)'
  BY <1>6 DEF OneEach
<1>8. Locked(p)'
  BY <1>2, <1>4 DEF Locked
<1>9. panel[p].load <= r.load
  BY <1>1, <1>2
<1> QED
  BY <1>2, <1>3, <1>5, <1>6, <1>7, <1>8, <1>9, BlankStep

(* A panel sends a call: it shows what it showed, and waits for one more answer. *)
LEMMA SendStep ==
  ASSUME TagsKnown, NEW p \in Panels, NEW k \in 1..AtOnce, NEW d \in Tagging!Call,
         tagCalls[<<p, k>>] = Null, tagCalls' = [tagCalls EXCEPT ![<<p, k>>] = d],
         d.load = panel[p].load, d.at # "done", d.op = "create" => d.tag = Tagging!NoTag,
         NEW r \in Tagging!PanelState, panel' = [panel EXCEPT ![p] = r],
         r.status = panel[p].status, r.all = panel[p].all, r.page = panel[p].page,
         r.read = panel[p].read, r.load = panel[p].load,
         r.creating => panel[p].creating \/ d.op = "create",
         \/ r.pending = panel[p].pending
         \/ d.op # "create" /\ d.tag = r.pending,
         UNCHANGED <<tags, made, links, faults, halved>>,
         stray \subseteq stray', stray' \subseteq Panels \X Tagging!Tags,
         \A j \in 1..AtOnce : tagCalls[<<p, j>>] # Null /\ tagCalls[<<p, j>>].tag = d.tag
                              /\ d.tag \in Tagging!Tags => <<p, d.tag>> \in stray',
         panel[p].status = "loading" => d.op = "detach" /\ "page" \in panel[p].read,
         CallShape(<<p, k>>)', IsFiniteSet(Tagging!Making'), made' + Cardinality(Tagging!Making') <= MaxTags
  PROVE  TagsKnown'
<1> USE TagAssumptions
<1> DEFINE s == <<p, k>>
<1>1. /\ s \in Tagging!Slots /\ tagCalls'[s] = d /\ d # Null
      /\ \A g \in Tagging!Slots : g # s => tagCalls'[g] = tagCalls[g]
  BY SlotsOfPanels DEF TagsKnown, Tagging!TypeOK
<1>2. panel'[p] = r /\ \A o \in Panels : o # p => panel'[o] = panel[o]
  BY DEF TagsKnown, Tagging!TypeOK
<1>3. \A o \in Panels :
        /\ panel'[o].status = panel[o].status /\ panel'[o].all = panel[o].all
        /\ panel'[o].page = panel[o].page /\ panel'[o].read = panel[o].read /\ panel'[o].load = panel[o].load
  BY <1>2
<1>4. Tagging!TypeOK'
  BY DEF TagsKnown, Tagging!TypeOK
<1>5. Heard(s)' /\ ~Acted(s)' /\ \A g \in Tagging!Slots : g # s => (Heard(g)' <=> Heard(g)) /\ (Acted(g)' <=> Acted(g))
  BY <1>1, <1>3, SlotsOfPanels DEF Heard, Acted
<1>6. ~Heard(s)
  BY DEF Heard
<1>7. \A o \in Panels, t \in Tagging!Tags :
        /\ (Exempt(o, t) => Exempt(o, t)') /\ (AllRight(o, t)' <=> AllRight(o, t)) /\ (PageRight(o, t)' <=> PageRight(o, t))
        /\ (Exists(t)' <=> Exists(t)) /\ (Tagged(o, t)' <=> Tagged(o, t))
  BY <1>3 DEF Exempt, AllRight, PageRight, Exists, Tagged
<1>8. ASSUME NEW g \in Tagging!Slots PROVE CallShape(g)'
  <2>1. CASE g = s
    BY <2>1
  <2>2. CASE g # s
    <3>1. CallShape(g) /\ tagCalls'[g] = tagCalls[g] /\ (Acted(g)' <=> Acted(g)) /\ panel'[g[1]].load = panel[g[1]].load
      BY <1>1, <1>3, <1>5, <2>2, SlotsOfPanels DEF TagsKnown
    <3> QED
      BY <3>1 DEF CallShape
  <2> QED
    BY <2>1, <2>2
<1>9. ASSUME NEW o \in Panels, NEW t \in Tagging!Tags PROVE PanelRight(o, t)'
  <2> SUFFICES ASSUME ~Exempt(o, t)', \A i \in 1..AtOnce : Heard(<<o, i>>)' => tagCalls'[<<o, i>>].tag # t
               PROVE  AllRight(o, t)' /\ PageRight(o, t)'
    BY DEF PanelRight
  <2>1. PanelRight(o, t) /\ ~Exempt(o, t)
    BY <1>7 DEF TagsKnown
  <2>2. \A i \in 1..AtOnce : Heard(<<o, i>>) => tagCalls[<<o, i>>].tag # t
    BY <1>1, <1>5, <1>6, SlotsOfPanels
  <2> QED
    BY <1>7, <2>1, <2>2 DEF PanelRight
<1>10. ASSUME NEW g \in Tagging!Slots PROVE CallRight(g)'
  <2>1. CASE g # s
    <3>1. CallRight(g) /\ tagCalls'[g] = tagCalls[g] /\ g[1] \in Panels /\ panel'[g[1]].read = panel[g[1]].read
      BY <1>1, <1>3, <2>1, SlotsOfPanels DEF TagsKnown
    <3> QED
      BY <1>5, <1>7, <2>1, <3>1 DEF CallRight
  <2>2. CASE g = s
    <3> DEFINE t == d.tag
    <3> SUFFICES ASSUME t \in Tagging!Tags, ~Exempt(p, t)' PROVE CallRight(s)'
      BY <1>1, <2>2 DEF CallRight
    <3>1. d.op # "create"
      BY DEF Tagging!Tags, Tagging!NoTag
    <3>2. \A i \in 1..AtOnce : Heard(<<p, i>>) => tagCalls[<<p, i>>].tag # t
      BY DEF Heard, Exempt
    <3>3. PanelRight(p, t) /\ ~Exempt(p, t)
      BY <1>7 DEF TagsKnown
    <3>4. AllRight(p, t)' /\ PageRight(p, t)'
      BY <1>7, <3>2, <3>3 DEF PanelRight
    <3> QED
      BY <1>1, <1>5, <3>1, <3>4 DEF CallRight
  <2> QED
    BY <2>1, <2>2
<1>11. ASSUME NEW o \in Panels PROVE PanelShape(o)'
  <2>1. PanelShape(o)
    BY DEF TagsKnown
  <2>2. ASSUME panel[o].status = "loading", NEW i \in 1..AtOnce, Heard(<<o, i>>)'
        PROVE  tagCalls'[<<o, i>>].op = "detach" /\ "page" \in panel[o].read
    <3>1. CASE <<o, i>> = s
      BY <1>1, <2>2, <3>1
    <3>2. CASE <<o, i>> # s
      BY <1>1, <1>5, <2>1, <2>2, <3>2, SlotsOfPanels DEF PanelShape
    <3> QED
      BY <3>1, <3>2
  <2> QED
    BY <1>3, <2>1, <2>2 DEF PanelShape
<1>12. ASSUME NEW o \in Panels PROVE OneEach(o)'
  <2> SUFFICES ASSUME NEW i \in 1..AtOnce, NEW j \in 1..AtOnce, i # j,
                      Heard(<<o, i>>)', Heard(<<o, j>>)',
                      tagCalls'[<<o, i>>].tag = tagCalls'[<<o, j>>].tag, tagCalls'[<<o, i>>].tag \in Tagging!Tags
               PROVE  <<o, tagCalls'[<<o, i>>].tag>> \in stray'
    BY DEF OneEach
  <2>1. CASE <<o, i>> = s
    BY <1>1, <1>5, <2>1, SlotsOfPanels DEF Heard
  <2>2. CASE <<o, j>> = s
    BY <1>1, <1>5, <2>2, SlotsOfPanels DEF Heard
  <2>3. CASE <<o, i>> # s /\ <<o, j>> # s
    <3>1. OneEach(o)
      BY DEF TagsKnown
    <3> QED
      BY <1>1, <1>5, <2>3, <3>1, SlotsOfPanels DEF OneEach
  <2> QED
    BY <2>1, <2>2, <2>3
<1>13. ASSUME NEW o \in Panels PROVE Locked(o)'
  <2>1. Locked(o)
    BY LockedIs DEF TagsKnown
  <2>2. \A i \in 1..AtOnce : Heard(<<o, i>>) => Heard(<<o, i>>)' /\ tagCalls'[<<o, i>>] = tagCalls[<<o, i>>]
    BY <1>1, <1>5, <1>6, SlotsOfPanels
  <2>3. CASE o # p
    BY <1>2, <2>1, <2>2, <2>3 DEF Locked
  <2>4. CASE o = p
    <3>1. Heard(<<p, k>>)' /\ tagCalls'[<<p, k>>] = d
      BY <1>1, <1>5
    <3>2. panel'[p].creating => \E i \in 1..AtOnce : Heard(<<p, i>>)' /\ tagCalls'[<<p, i>>].op = "create"
      BY <1>2, <2>1, <2>2, <2>4, <3>1 DEF Locked
    <3>3. panel'[p].pending # Tagging!NoTag =>
            \E i \in 1..AtOnce : /\ Heard(<<p, i>>)' /\ tagCalls'[<<p, i>>].op # "create"
                                /\ tagCalls'[<<p, i>>].tag = panel'[p].pending
      BY <1>2, <2>1, <2>2, <2>4, <3>1 DEF Locked
    <3> QED
      BY <2>4, <3>2, <3>3 DEF Locked
  <2> QED
    BY <2>3, <2>4
<1>14. \A t \in Tagging!Tags : Exists(t)' => t <= made'
  BY DEF TagsKnown, Exists
<1> QED
  BY <1>4, <1>8, <1>9, <1>10, <1>11, <1>12, <1>13, <1>14, LockedIs DEF TagsKnown

LEMMA NoTagIsNoTag == Tagging!NoTag \notin Tagging!Tags
BY TagAssumptions DEF Tagging!Tags, Tagging!NoTag

LEMMA CallLoadType ==
  ASSUME NEW c \in Tagging!Call
  PROVE  c.load \in Nat /\ c.load <= c.load
<1>1. c.load \in 0..MaxLoads
  BY DEF Tagging!Call
<1> QED
  BY <1>1, TagAssumptions

LEMMA MadeType ==
  ASSUME TagsKnown
  PROVE  made \in Nat /\ Tagging!NoTag <= made
<1>1. made \in 0..MaxTags
  BY DEF TagsKnown, Tagging!TypeOK
<1> QED
  BY <1>1, TagAssumptions DEF Tagging!NoTag

LEMMA OneMoreCounted ==
  ASSUME NEW S, IsFiniteSet(S), NEW x, x \notin S, NEW T, T \subseteq S \cup {x},
         NEW m \in Nat, m + Cardinality(S) < MaxTags
  PROVE  IsFiniteSet(T) /\ m + Cardinality(T) <= MaxTags
<1>1. IsFiniteSet(S \cup {x}) /\ Cardinality(S \cup {x}) = Cardinality(S) + 1
  BY FS_AddElement
<1>2. IsFiniteSet(T) /\ Cardinality(T) <= Cardinality(S \cup {x})
  BY <1>1, FS_Subset
<1>3. Cardinality(S) \in Nat /\ Cardinality(T) \in Nat
  BY <1>2, FS_CardinalityType
<1> QED
  BY <1>1, <1>2, <1>3, TagAssumptions

(* Panel p has sent a call; another of its calls about the tag makes it stray.  *)
SentBy(p, op, tag, name, first) ==
  /\ \E k \in 1..AtOnce, d \in Tagging!Call :
       /\ tagCalls[<<p, k>>] = Null /\ tagCalls' = [tagCalls EXCEPT ![<<p, k>>] = d]
       /\ d.op = op /\ d.tag = tag /\ d.name = name /\ d.load = panel[p].load /\ d.at = first
  /\ stray \subseteq stray' /\ stray' \subseteq Panels \X Tagging!Tags
  /\ \A j \in 1..AtOnce : tagCalls[<<p, j>>] # Null /\ tagCalls[<<p, j>>].tag = tag /\ tag \in Tagging!Tags
                          => <<p, tag>> \in stray'

LEMMA CallSent ==
  ASSUME TagsKnown, NEW p \in Panels, NEW op \in {"create", "attach", "detach", "delete"},
         NEW tag \in Tagging!Tags \cup {Tagging!NoTag}, NEW name \in Names \cup {Null},
         NEW first \in Tagging!Steps, Tagging!Sent(p, op, tag, name, first)
  PROVE  SentBy(p, op, tag, name, first)
<1>1. PICK k \in 1..AtOnce :
        /\ tagCalls[<<p, k>>] = Null
        /\ tagCalls' = [tagCalls EXCEPT ![<<p, k>>] =
             [op |-> op, tag |-> tag, name |-> name, load |-> panel[p].load, at |-> first, answer |-> "none"]]
  BY DEF Tagging!Sent
<1>2. PICK l \in 0..MaxLoads : l = panel[p].load
  BY DEF TagsKnown, Tagging!TypeOK, Tagging!PanelState
<1> DEFINE d == [op |-> op, tag |-> tag, name |-> name, load |-> l, at |-> first, answer |-> "none"]
<1>3. /\ d \in Tagging!Call /\ d.op = op /\ d.tag = tag /\ d.name = name /\ d.load = l /\ d.at = first
  BY DEF Tagging!Call, Tagging!Answers
<1>4. tagCalls' = [tagCalls EXCEPT ![<<p, k>>] = d]
  BY <1>1, <1>2
<1> HIDE DEF d
<1>5. stray' = stray \cup {x \in {<<p, tag>>} : tag # Tagging!NoTag /\ \E j \in 1..AtOnce :
                                  tagCalls[<<p, j>>] # Null /\ tagCalls[<<p, j>>].tag = tag}
  BY DEF Tagging!Sent
<1>6. stray \subseteq Panels \X Tagging!Tags
  BY DEF TagsKnown, Tagging!TypeOK
<1>7. stray \subseteq stray'
  BY <1>5
<1>8. stray' \subseteq Panels \X Tagging!Tags
  <2> SUFFICES ASSUME NEW x \in stray', x \notin stray PROVE x \in Panels \X Tagging!Tags
    BY <1>6
  <2>1. x = <<p, tag>> /\ tag # Tagging!NoTag
    BY <1>5
  <2> QED
    BY <2>1
<1>9. ASSUME NEW j \in 1..AtOnce, tagCalls[<<p, j>>] # Null, tagCalls[<<p, j>>].tag = tag, tag \in Tagging!Tags
      PROVE  <<p, tag>> \in stray'
  <2>1. tag # Tagging!NoTag
    BY <1>9, TagAssumptions DEF Tagging!Tags, Tagging!NoTag
  <2> QED
    BY <1>5, <1>9, <2>1
<1> QED
  BY <1>1, <1>2, <1>3, <1>4, <1>7, <1>8, <1>9 DEF SentBy

(* handleAttach, handleDetach, handleDelete: a tag that is shown is asked for.  *)
LEMMA AskStep ==
  ASSUME TagsKnown, NEW p \in Panels, NEW op \in {"attach", "detach", "delete"},
         NEW first \in {"find tag", "find link"}, op = "detach" <=> first = "find link",
         NEW t \in panel[p].all \cup panel[p].page, Tagging!Sent(p, op, t, Null, first),
         panel' = [panel EXCEPT ![p].pending = t], Tagging!Quiet,
         panel[p].status = "loading" => op = "detach" /\ t \in panel[p].page
  PROVE  TagsKnown'
<1> USE TagAssumptions
<1>1. PICK q \in Tagging!PanelState : q = panel[p]
  BY DEF TagsKnown, Tagging!TypeOK
<1>2. PICK u \in Tagging!Tags : u = t
  BY <1>1 DEF Tagging!PanelState
<1> DEFINE r == [q EXCEPT !.pending = u]
<1>3. /\ r \in Tagging!PanelState /\ r.status = q.status /\ r.all = q.all /\ r.page = q.page /\ r.read = q.read
      /\ r.load = q.load /\ r.pending = u /\ (r.creating <=> q.creating)
  BY Zenon DEF Tagging!PanelState
<1>4. panel' = [panel EXCEPT ![p] = r]
  BY <1>1, <1>2 DEF TagsKnown, Tagging!TypeOK
<1> HIDE DEF r
<1>5. SentBy(p, op, u, Null, first)
  <2>1. /\ Tagging!Sent(p, op, u, Null, first) /\ op \in {"create", "attach", "detach", "delete"}
        /\ u \in Tagging!Tags \cup {Tagging!NoTag} /\ Null \in Names \cup {Null} /\ first \in Tagging!Steps
    BY <1>2 DEF Tagging!Steps
  <2> HIDE DEF r
  <2> QED
    BY <2>1, CallSent
<1>6. PICK k \in 1..AtOnce, d \in Tagging!Call :
        /\ tagCalls[<<p, k>>] = Null /\ tagCalls' = [tagCalls EXCEPT ![<<p, k>>] = d]
        /\ d.op = op /\ d.tag = u /\ d.name = Null /\ d.load = panel[p].load /\ d.at = first
  BY <1>5 DEF SentBy
<1>7. UNCHANGED <<tags, made, links, faults, halved>>
  BY DEF Tagging!Quiet
<1>8. /\ tagCalls'[<<p, k>>] = d /\ panel'[p].load = panel[p].load
      /\ \A g \in Tagging!Slots : g # <<p, k>> => tagCalls'[g] = tagCalls[g]
  BY <1>1, <1>3, <1>4, <1>6, SlotsOfPanels DEF TagsKnown, Tagging!TypeOK
<1>9. CallShape(<<p, k>>)'
  <2>1. u <= made
    <3>1. PanelShape(p)
      BY DEF TagsKnown
    <3> QED
      BY <1>2, <3>1 DEF PanelShape
  <2>2. d.load <= d.load
    BY CallLoadType
  <2>3. <<p, k>>[1] = p /\ made' = made /\ panel'[p].load = d.load
    BY <1>6, <1>7, <1>8
  <2>4. /\ d.tag <= made /\ d.tag \in Tagging!Tags
        /\ d.op # "create" /\ d.at \notin {"find name", "insert", "link", "unlink", "remove", "done"}
        /\ d.at = "find link" => d.op # "delete"
    BY <1>2, <1>6, <2>1
  <2> QED
    BY <1>8, <2>2, <2>3, <2>4 DEF CallShape
<1>10. Tagging!Making' \subseteq Tagging!Making
  BY <1>6, <1>8 DEF Tagging!Making
<1>11. IsFiniteSet(Tagging!Making') /\ made' + Cardinality(Tagging!Making') <= MaxTags
  BY <1>7, <1>10, MakingStays
<1>12. panel[p].status = "loading" => "page" \in panel[p].read
  BY <1>1 DEF TagsKnown, PanelShape
<1> QED
  <2>1. /\ d.at # "done" /\ (d.op = "create" => d.tag = Tagging!NoTag)
        /\ (r.creating => panel[p].creating \/ d.op = "create")
        /\ d.op # "create" /\ d.tag = r.pending
        /\ (panel[p].status = "loading" => d.op = "detach" /\ "page" \in panel[p].read)
    BY <1>1, <1>3, <1>6, <1>12
  <2>2. \A j \in 1..AtOnce : tagCalls[<<p, j>>] # Null /\ tagCalls[<<p, j>>].tag = d.tag
                             /\ d.tag \in Tagging!Tags => <<p, d.tag>> \in stray'
    BY <1>5, <1>6 DEF SentBy
  <2>3. stray \subseteq stray' /\ stray' \subseteq Panels \X Tagging!Tags
    BY <1>5 DEF SentBy
  <2> QED
    BY <1>1, <1>3, <1>4, <1>6, <1>7, <1>9, <1>11, <2>1, <2>2, <2>3, SendStep

(* handleCreate: a tag to come is counted.                                    *)
LEMMA CreateStep ==
  ASSUME TagsKnown, NEW p \in Panels, Tagging!Create(p)
  PROVE  TagsKnown'
<1> USE TagAssumptions
<1>1. PICK n \in Names : Tagging!Sent(p, "create", Tagging!NoTag, n, "find name")
  BY DEF Tagging!Create
<1>2. PICK q \in Tagging!PanelState : q = panel[p]
  BY DEF TagsKnown, Tagging!TypeOK
<1> DEFINE r == [q EXCEPT !.creating = TRUE]
<1>3. /\ r \in Tagging!PanelState /\ r.status = q.status /\ r.all = q.all /\ r.page = q.page /\ r.read = q.read
      /\ r.load = q.load /\ r.pending = q.pending
  BY DEF Tagging!PanelState
<1>4. panel' = [panel EXCEPT ![p] = r]
  BY <1>2 DEF Tagging!Create, TagsKnown, Tagging!TypeOK
<1> HIDE DEF r
<1>5. SentBy(p, "create", Tagging!NoTag, n, "find name")
  <2>1. /\ "create" \in {"create", "attach", "detach", "delete"} /\ "find name" \in Tagging!Steps
        /\ Tagging!NoTag \in Tagging!Tags \cup {Tagging!NoTag} /\ n \in Names \cup {Null}
    BY DEF Tagging!Steps
  <2> QED
    BY <1>1, <2>1, CallSent
<1>6. PICK k \in 1..AtOnce, d \in Tagging!Call :
        /\ tagCalls[<<p, k>>] = Null /\ tagCalls' = [tagCalls EXCEPT ![<<p, k>>] = d]
        /\ d.op = "create" /\ d.tag = Tagging!NoTag /\ d.name = n /\ d.load = panel[p].load /\ d.at = "find name"
  BY <1>5 DEF SentBy
<1>7. UNCHANGED <<tags, made, links, faults, halved>> /\ panel[p].status # "loading"
  BY DEF Tagging!Quiet, Tagging!Create
<1>8. /\ tagCalls'[<<p, k>>] = d /\ panel'[p].load = panel[p].load /\ <<p, k>> \in Tagging!Slots
      /\ \A g \in Tagging!Slots : g # <<p, k>> => tagCalls'[g] = tagCalls[g]
  BY <1>2, <1>3, <1>4, <1>6, SlotsOfPanels DEF TagsKnown, Tagging!TypeOK
<1>9. CallShape(<<p, k>>)'
  <2>1. d.tag <= made
    BY <1>6, MadeType
  <2>2. d.load <= d.load
    BY CallLoadType
  <2>3. <<p, k>>[1] = p /\ made' = made /\ panel'[p].load = d.load /\ ~Acted(<<p, k>>)'
    BY <1>6, <1>7, <1>8 DEF Acted
  <2> QED
    BY <1>6, <1>8, <2>1, <2>2, <2>3 DEF CallShape
<1>10. Tagging!Making' \subseteq Tagging!Making \cup {<<p, k>>} /\ <<p, k>> \notin Tagging!Making
  BY <1>6, <1>8 DEF Tagging!Making
<1>11. IsFiniteSet(Tagging!Making') /\ made' + Cardinality(Tagging!Making') <= MaxTags
  <2>1. IsFiniteSet(Tagging!Making)
    BY DEF TagsKnown
  <2>2. made + Cardinality(Tagging!Making) < MaxTags
    BY DEF Tagging!Create, Tagging!Cardinality, Cardinality
  <2>3. made' = made /\ made \in Nat
    BY <1>7, MadeType
  <2> QED
    BY <1>10, <2>1, <2>2, <2>3, OneMoreCounted
<1>12. d.tag \notin Tagging!Tags
  BY <1>6, NoTagIsNoTag
<1>13. stray \subseteq stray' /\ stray' \subseteq Panels \X Tagging!Tags
  BY <1>5 DEF SentBy
<1> QED
  BY <1>2, <1>3, <1>4, <1>6, <1>7, <1>9, <1>11, <1>12, <1>13, SendStep

(* What an answer changes of a panel: only the tag it is about.                *)
LEMMA AnswerShown ==
  ASSUME NEW q \in Tagging!PanelState, NEW c \in Tagging!Call, c.answer = "ok" => c.tag \in Tagging!Tags
  PROVE  LET h == Tagging!Shown(q, c)
         IN /\ h \in Tagging!PanelState /\ h.load = q.load /\ h.read = q.read /\ h.pending = q.pending
            /\ h.creating = q.creating
            /\ h.status = IF c.answer = "ok" /\ c.op = "create" THEN "ready" ELSE q.status
            /\ h.all = IF c.answer = "ok" /\ c.op = "create" THEN q.all \cup {c.tag}
                       ELSE IF c.answer = "ok" /\ c.op = "delete" THEN q.all \ {c.tag} ELSE q.all
            /\ h.page = IF c.answer = "ok" /\ c.op \in {"create", "attach"} THEN q.page \cup {c.tag}
                        ELSE IF c.answer = "ok" THEN q.page \ {c.tag} ELSE q.page
<1>1. CASE c.answer # "ok"
  <2>1. Tagging!Shown(q, c) = q
    BY <1>1 DEF Tagging!Shown
  <2> QED
    BY <1>1, <2>1
<1>2. CASE c.answer = "ok" /\ c.op = "create"
  <2>1. Tagging!Shown(q, c) = [q EXCEPT !.all = @ \cup {c.tag}, !.page = @ \cup {c.tag}, !.status = "ready"]
    BY <1>2 DEF Tagging!Shown
  <2> DEFINE h == Tagging!Shown(q, c)
  <2>2. /\ h.all = q.all \cup {c.tag} /\ h.page = q.page \cup {c.tag} /\ h.status = "ready"
        /\ h.load = q.load /\ h.read = q.read /\ h.pending = q.pending /\ h.creating = q.creating
    BY <2>1 DEF Tagging!PanelState
  <2>3. h \in Tagging!PanelState
    <3>1. PICK A \in SUBSET Tagging!Tags, P \in SUBSET Tagging!Tags : A = q.all \cup {c.tag} /\ P = q.page \cup {c.tag}
      BY <1>2 DEF Tagging!PanelState
    <3>2. h = [q EXCEPT !.all = A, !.page = P, !.status = "ready"]
      BY <2>1, <3>1
    <3> QED
      BY <3>2 DEF Tagging!PanelState
  <2> HIDE DEF h
  <2> QED
    BY <1>2, <2>2, <2>3 DEF h
<1>3. CASE c.answer = "ok" /\ c.op = "attach"
  <2>1. Tagging!Shown(q, c) = [q EXCEPT !.page = @ \cup {c.tag}]
    BY <1>3 DEF Tagging!Shown
  <2> QED
    BY <1>3, <2>1 DEF Tagging!PanelState
<1>4. CASE c.answer = "ok" /\ c.op = "detach"
  <2>1. Tagging!Shown(q, c) = [q EXCEPT !.page = @ \ {c.tag}]
    BY <1>4 DEF Tagging!Shown
  <2> QED
    BY <1>4, <2>1 DEF Tagging!PanelState
<1>5. CASE c.answer = "ok" /\ c.op = "delete"
  <2>1. Tagging!Shown(q, c) = [q EXCEPT !.all = @ \ {c.tag}, !.page = @ \ {c.tag}]
    BY <1>5 DEF Tagging!Shown
  <2> DEFINE h == Tagging!Shown(q, c)
  <2>2. /\ h.all = q.all \ {c.tag} /\ h.page = q.page \ {c.tag} /\ h.status = q.status
        /\ h.load = q.load /\ h.read = q.read /\ h.pending = q.pending /\ h.creating = q.creating
    BY <2>1 DEF Tagging!PanelState
  <2>3. h \in Tagging!PanelState
    <3>1. PICK A \in SUBSET Tagging!Tags, P \in SUBSET Tagging!Tags : A = q.all \ {c.tag} /\ P = q.page \ {c.tag}
      BY <1>5 DEF Tagging!PanelState
    <3>2. h = [q EXCEPT !.all = A, !.page = P]
      BY <2>1, <3>1
    <3> QED
      BY <3>2 DEF Tagging!PanelState
  <2> HIDE DEF h
  <2> QED
    BY <1>5, <2>2, <2>3 DEF h
<1>6. c.op \in {"create", "attach", "detach", "delete"}
  BY DEF Tagging!Call
<1> QED
  BY <1>1, <1>2, <1>3, <1>4, <1>5, <1>6

LEMMA AnswerUnlocks ==
  ASSUME NEW h \in Tagging!PanelState, NEW c \in Tagging!Call
  PROVE  LET r == Tagging!Unlocked(h, c)
         IN /\ r \in Tagging!PanelState /\ r.load = h.load /\ r.read = h.read /\ r.status = h.status
            /\ r.all = h.all /\ r.page = h.page
            /\ c.op = "create" => r.pending = h.pending /\ r.creating = FALSE
            /\ c.op # "create" => r.pending = Tagging!NoTag /\ r.creating = h.creating
<1>1. CASE c.op = "create"
  <2>1. Tagging!Unlocked(h, c) = [h EXCEPT !.creating = FALSE]
    BY <1>1 DEF Tagging!Unlocked
  <2> QED
    BY <1>1, <2>1 DEF Tagging!PanelState
<1>2. CASE c.op # "create"
  <2>1. Tagging!Unlocked(h, c) = [h EXCEPT !.pending = Tagging!NoTag]
    BY <1>2 DEF Tagging!Unlocked
  <2> QED
    BY <1>2, <2>1 DEF Tagging!PanelState
<1> QED
  BY <1>1, <1>2

(* handleAttach, handleDetach, handleDelete and handleCreate, answered.         *)
LEMMA AnswerStep ==
  ASSUME TagsKnown, NEW s \in Tagging!Slots, tagCalls[s] # Null, Tagging!Answer(s)
  PROVE  TagsKnown'
<1> USE TagAssumptions
<1>1. PICK c \in Tagging!Call : c = tagCalls[s]
  BY CallType
<1>2. PICK p \in Panels : p = s[1]
  BY SlotsOfPanels
<1>3. /\ UNCHANGED <<tags, made, links, faults, halved, stray>> /\ c.at = "done"
      /\ tagCalls' = [tagCalls EXCEPT ![s] = Null]
      /\ panel' = IF c.load # panel[p].load THEN panel
                  ELSE [panel EXCEPT ![p] = Tagging!Unlocked(Tagging!Shown(panel[p], c), c)]
  BY <1>1, <1>2 DEF Tagging!Answer, Tagging!Quiet
<1>4. tagCalls'[s] = Null /\ \A g \in Tagging!Slots : g # s => tagCalls'[g] = tagCalls[g]
  BY <1>3 DEF TagsKnown, Tagging!TypeOK
<1>5. CallShape(s) /\ CallRight(s) /\ PanelShape(p) /\ OneEach(p) /\ Locked(p)
  BY LockedIs DEF TagsKnown
<1>6. PICK q \in Tagging!PanelState : q = panel[p]
  BY DEF TagsKnown, Tagging!TypeOK
<1>7. Acted(s) <=> c.answer = "ok"
  BY <1>1, <1>3 DEF Acted
<1>8. c.answer = "ok" => c.tag \in Tagging!Tags
  BY <1>1, <1>5, <1>7 DEF CallShape
(* What the panel shows afterwards: r. *)
<1>9. PICK r \in Tagging!PanelState :
        /\ panel' = [panel EXCEPT ![p] = r] /\ r.load = q.load /\ r.read = q.read
        /\ ~Heard(s) => r = q
        /\ Heard(s) =>
             /\ r.status = IF c.answer = "ok" /\ c.op = "create" THEN "ready" ELSE q.status
             /\ r.all = IF c.answer = "ok" /\ c.op = "create" THEN q.all \cup {c.tag}
                        ELSE IF c.answer = "ok" /\ c.op = "delete" THEN q.all \ {c.tag} ELSE q.all
             /\ r.page = IF c.answer = "ok" /\ c.op \in {"create", "attach"} THEN q.page \cup {c.tag}
                         ELSE IF c.answer = "ok" THEN q.page \ {c.tag} ELSE q.page
             /\ c.op = "create" => r.pending = q.pending /\ r.creating = FALSE
             /\ c.op # "create" => r.pending = Tagging!NoTag /\ r.creating = q.creating
  <2>1. Heard(s) <=> c.load = q.load
    BY <1>1, <1>2, <1>6 DEF Heard
  <2>2. CASE Heard(s)
    <3> DEFINE h == Tagging!Shown(q, c)
    <3> DEFINE r == Tagging!Unlocked(h, c)
    <3>1. /\ h \in Tagging!PanelState /\ h.load = q.load /\ h.read = q.read /\ h.pending = q.pending
          /\ h.creating = q.creating
          /\ h.status = IF c.answer = "ok" /\ c.op = "create" THEN "ready" ELSE q.status
          /\ h.all = IF c.answer = "ok" /\ c.op = "create" THEN q.all \cup {c.tag}
                     ELSE IF c.answer = "ok" /\ c.op = "delete" THEN q.all \ {c.tag} ELSE q.all
          /\ h.page = IF c.answer = "ok" /\ c.op \in {"create", "attach"} THEN q.page \cup {c.tag}
                      ELSE IF c.answer = "ok" THEN q.page \ {c.tag} ELSE q.page
      BY <1>8, AnswerShown
    <3>2. panel' = [panel EXCEPT ![p] = r]
      BY <1>3, <1>6, <2>1, <2>2
    <3> HIDE DEF h
    <3>3. /\ r \in Tagging!PanelState /\ r.load = h.load /\ r.read = h.read /\ r.status = h.status
          /\ r.all = h.all /\ r.page = h.page
          /\ c.op = "create" => r.pending = h.pending /\ r.creating = FALSE
          /\ c.op # "create" => r.pending = Tagging!NoTag /\ r.creating = h.creating
      BY <3>1, AnswerUnlocks
    <3> HIDE DEF r
    <3> QED
      BY <2>2, <3>1, <3>2, <3>3
  <2>3. CASE ~Heard(s)
    <3>1. panel' = panel
      BY <1>3, <1>6, <2>1, <2>3
    <3>2. panel' = [panel EXCEPT ![p] = q]
      BY <1>6, <3>1 DEF TagsKnown, Tagging!TypeOK
    <3> QED
      BY <2>3, <3>2
  <2> QED
    BY <2>2, <2>3
<1>10. panel'[p] = r /\ \A o \in Panels : o # p => panel'[o] = panel[o]
  BY <1>9 DEF TagsKnown, Tagging!TypeOK
<1>11. ~Heard(s)' /\ \A g \in Tagging!Slots : g # s => (Heard(g)' <=> Heard(g)) /\ (Acted(g)' <=> Acted(g))
  BY <1>4, <1>6, <1>9, <1>10, SlotsOfPanels DEF Heard, Acted
<1>12. Tagging!TypeOK'
  <2>1. tagCalls' \in [Tagging!Slots -> Tagging!Call \cup {Null}]
    BY <1>3 DEF TagsKnown, Tagging!TypeOK
  <2>2. panel' \in [Panels -> Tagging!PanelState]
    BY <1>9 DEF TagsKnown, Tagging!TypeOK
  <2> QED
    BY <1>3, <2>1, <2>2 DEF TagsKnown, Tagging!TypeOK
<1>13. \A o \in Panels, t \in Tagging!Tags :
         (Exempt(o, t)' <=> Exempt(o, t)) /\ (Exists(t)' <=> Exists(t)) /\ (Tagged(o, t)' <=> Tagged(o, t))
  BY <1>3 DEF Exempt, Exists, Tagged
<1>14. ASSUME NEW o \in Panels, NEW t \in Tagging!Tags, o # p \/ t # c.tag \/ ~Heard(s) \/ c.answer # "ok"
       PROVE  (AllRight(o, t)' <=> AllRight(o, t)) /\ (PageRight(o, t)' <=> PageRight(o, t))
  <2>1. panel'[o].read = panel[o].read
    BY <1>6, <1>9, <1>10
  <2>2. (t \in panel'[o].all <=> t \in panel[o].all) /\ (t \in panel'[o].page <=> t \in panel[o].page)
    BY <1>6, <1>9, <1>10, <1>14
  <2> QED
    BY <1>13, <2>1, <2>2 DEF AllRight, PageRight
<1>15. ASSUME Heard(s), c.tag \in Tagging!Tags, ~Exempt(p, c.tag), q.read # {}
       PROVE  AllRight(p, c.tag)' /\ PageRight(p, c.tag)'
  <2> DEFINE t == c.tag
  <2>1. c.op = "create" => Acted(s) /\ Exists(t) /\ Tagged(p, t)
    BY <1>1, <1>2, <1>3, <1>5, <1>6, <1>15 DEF CallRight
  <2>2. c.op # "create" /\ ~Acted(s) => AllRight(p, t) /\ PageRight(p, t)
    BY <1>1, <1>2, <1>5, <1>6, <1>15 DEF CallRight
  <2>3. c.op = "attach" /\ Acted(s) => AllRight(p, t) /\ Tagged(p, t)
    BY <1>1, <1>2, <1>5, <1>6, <1>15 DEF CallRight
  <2>4. c.op = "detach" /\ Acted(s) => AllRight(p, t) /\ ~Tagged(p, t)
    BY <1>1, <1>2, <1>5, <1>6, <1>15 DEF CallRight
  <2>5. c.op = "delete" /\ Acted(s) => ~Exists(t) /\ ~Tagged(p, t)
    BY <1>1, <1>2, <1>5, <1>6, <1>15 DEF CallRight
  <2>6. c.op \in {"create", "attach", "detach", "delete"}
    BY DEF Tagging!Call
  <2>7. CASE ~Acted(s)
    BY <1>7, <1>14, <1>15, <2>1, <2>2, <2>7
  <2>8. CASE Acted(s) /\ c.op = "create"
    BY <1>7, <1>9, <1>10, <1>13, <1>15, <2>1, <2>8 DEF AllRight, PageRight
  <2>9. CASE Acted(s) /\ c.op = "attach"
    BY <1>6, <1>7, <1>9, <1>10, <1>13, <1>15, <2>3, <2>9 DEF AllRight, PageRight
  <2>10. CASE Acted(s) /\ c.op = "detach"
    BY <1>6, <1>7, <1>9, <1>10, <1>13, <1>15, <2>4, <2>10 DEF AllRight, PageRight
  <2>11. CASE Acted(s) /\ c.op = "delete"
    BY <1>7, <1>9, <1>10, <1>13, <1>15, <2>5, <2>11 DEF AllRight, PageRight
  <2> QED
    BY <2>6, <2>7, <2>8, <2>9, <2>10, <2>11
<1>16. ASSUME NEW o \in Panels, NEW t \in Tagging!Tags PROVE PanelRight(o, t)'
  <2> SUFFICES ASSUME ~Exempt(o, t), \A i \in 1..AtOnce : Heard(<<o, i>>)' => tagCalls'[<<o, i>>].tag # t
               PROVE  AllRight(o, t)' /\ PageRight(o, t)'
    BY <1>13 DEF PanelRight
  <2>1. CASE o = p /\ Heard(s) /\ t = c.tag
    <3>1. CASE q.read # {}
      BY <1>15, <2>1, <3>1
    <3>2. CASE q.read = {}
      BY <1>9, <1>10, <2>1, <3>2 DEF AllRight, PageRight
    <3> QED
      BY <3>1, <3>2
  <2>2. CASE ~(o = p /\ Heard(s) /\ t = c.tag)
    <3>1. \A i \in 1..AtOnce : Heard(<<o, i>>) => tagCalls[<<o, i>>].tag # t
      BY <1>1, <1>2, <1>4, <1>11, <2>2, SlotsOfPanels
    <3>2. PanelRight(o, t)
      BY DEF TagsKnown
    <3> QED
      BY <1>14, <2>2, <3>1, <3>2 DEF PanelRight
  <2> QED
    BY <2>1, <2>2
<1>17. ASSUME NEW g \in Tagging!Slots PROVE CallRight(g)'
  <2> SUFFICES ASSUME g # s, Heard(g), tagCalls[g].tag \in Tagging!Tags, ~Exempt(g[1], tagCalls[g].tag)
               PROVE  CallRight(g)'
    BY <1>4, <1>11, <1>13, SlotsOfPanels DEF CallRight
  <2>1. CallRight(g) /\ g[1] \in Panels /\ tagCalls'[g] = tagCalls[g]
    BY <1>4, SlotsOfPanels DEF TagsKnown
  <2>2. ~(g[1] = p /\ tagCalls[g].tag = c.tag /\ Heard(s))
    <3> SUFFICES ASSUME g[1] = p, tagCalls[g].tag = c.tag, Heard(s) PROVE FALSE
      OBVIOUS
    <3>1. g = <<p, g[2]>> /\ s = <<p, s[2]>> /\ g[2] # s[2] /\ g[2] \in 1..AtOnce /\ s[2] \in 1..AtOnce
      BY <1>2, SlotsOfPanels
    <3>2. <<p, tagCalls[g].tag>> \in stray
      BY <1>1, <1>5, <3>1 DEF OneEach
    <3> QED
      BY <3>2 DEF Exempt
  <2>3. panel'[g[1]].read = panel[g[1]].read
    BY <1>6, <1>9, <1>10, <2>1
  <2>4. /\ AllRight(g[1], tagCalls[g].tag)' <=> AllRight(g[1], tagCalls[g].tag)
        /\ PageRight(g[1], tagCalls[g].tag)' <=> PageRight(g[1], tagCalls[g].tag)
    <3>1. PICK o \in Panels, t \in Tagging!Tags : o = g[1] /\ t = tagCalls[g].tag
      BY <2>1
    <3>2. (AllRight(o, t)' <=> AllRight(o, t)) /\ (PageRight(o, t)' <=> PageRight(o, t))
      BY <1>14, <2>2, <3>1
    <3>3. tagCalls'[g].tag = t
      BY <2>1, <3>1
    <3> QED
      BY <3>1, <3>2, <3>3
  <2>5. (Heard(g)' <=> Heard(g)) /\ (Acted(g)' <=> Acted(g))
    BY <1>11
  <2> QED
    BY <1>13, <2>1, <2>3, <2>4, <2>5 DEF CallRight
<1>18. ASSUME NEW g \in Tagging!Slots PROVE CallShape(g)'
  <2>1. CASE g = s
    BY <1>4, <2>1 DEF CallShape
  <2>2. CASE g # s
    <3>1. CallShape(g) /\ tagCalls'[g] = tagCalls[g] /\ (Acted(g)' <=> Acted(g)) /\ panel'[g[1]].load = panel[g[1]].load
      BY <1>4, <1>6, <1>9, <1>10, <1>11, <2>2, SlotsOfPanels DEF TagsKnown
    <3> QED
      BY <1>3, <3>1 DEF CallShape
  <2> QED
    BY <2>1, <2>2
<1>19. ASSUME NEW o \in Panels PROVE PanelShape(o)'
  <2>1. PanelShape(o) /\ \A i \in 1..AtOnce : Heard(<<o, i>>)' => Heard(<<o, i>>) /\ tagCalls'[<<o, i>>] = tagCalls[<<o, i>>]
    BY <1>4, <1>11, SlotsOfPanels DEF TagsKnown
  <2>2. CASE o # p
    BY <1>3, <1>10, <2>1, <2>2 DEF PanelShape
  <2>3. CASE o = p
    <3>1. s = <<p, s[2]>> /\ s[2] \in 1..AtOnce
      BY <1>2, SlotsOfPanels
    <3>2. c.tag <= made
      BY <1>1, CallTagType
    <3>3. \A t \in q.all \cup q.page : t <= made
      BY <1>5, <1>6 DEF PanelShape
    <3>4. \A t \in r.all \cup r.page : t <= made
      BY <1>9, <3>2, <3>3
    <3>5. q.status = "loading" /\ Heard(s) => c.op = "detach" /\ "page" \in q.read
      BY <1>1, <1>5, <1>6, <3>1 DEF PanelShape
    <3>6. /\ q.status = "error" => q.read = {}
          /\ q.status = "ready" => q.read \in {{}, {"all", "page"}}
          /\ q.status = "loading" => ("page" \notin q.read => q.page = {})
          /\ q.status = "loading" => \A i \in 1..AtOnce : Heard(<<p, i>>) =>
                                       tagCalls[<<p, i>>].op = "detach" /\ "page" \in q.read
      BY <1>5, <1>6 DEF PanelShape
    <3>7. q.status \in {"loading", "ready", "error"}
      BY DEF Tagging!PanelState
    <3>8. r.status = q.status \/ (r.status = "ready" /\ q.status # "loading")
      BY <1>9, <3>5
    <3>9. /\ r.status = "error" => r.read = {}
          /\ r.status = "ready" => r.read \in {{}, {"all", "page"}}
      BY <1>9, <3>6, <3>7, <3>8
    <3>10. r.status = "loading" => q.status = "loading" /\ ("page" \notin r.read => r.page = {})
      BY <1>9, <3>5, <3>6, <3>8
    <3> QED
      BY <1>3, <1>9, <1>10, <2>1, <2>3, <3>4, <3>6, <3>9, <3>10 DEF PanelShape
  <2> QED
    BY <2>2, <2>3
<1>20. ASSUME NEW o \in Panels PROVE OneEach(o)'
  <2>1. OneEach(o) /\ \A i \in 1..AtOnce : Heard(<<o, i>>)' => Heard(<<o, i>>) /\ tagCalls'[<<o, i>>] = tagCalls[<<o, i>>]
    BY <1>4, <1>11, SlotsOfPanels DEF TagsKnown
  <2> QED
    BY <1>3, <2>1 DEF OneEach
<1>21. ASSUME NEW o \in Panels PROVE Locked(o)'
  <2>1. Locked(o)
    BY LockedIs DEF TagsKnown
  <2>2. \A i \in 1..AtOnce : <<o, i>> # s /\ Heard(<<o, i>>) => Heard(<<o, i>>)' /\ tagCalls'[<<o, i>>] = tagCalls[<<o, i>>]
    BY <1>4, <1>11, SlotsOfPanels
  <2>3. CASE o # p
    <3>1. \A i \in 1..AtOnce : <<o, i>> # s
      BY <1>2, <2>3
    <3> QED
      BY <1>10, <2>1, <2>2, <2>3, <3>1 DEF Locked
  <2>4. CASE o = p /\ ~Heard(s)
    BY <1>6, <1>9, <1>10, <2>1, <2>2, <2>4 DEF Locked
  <2>5. CASE o = p /\ Heard(s)
    <3>1. panel'[p].creating => \E i \in 1..AtOnce : Heard(<<p, i>>)' /\ tagCalls'[<<p, i>>].op = "create"
      <4> SUFFICES ASSUME r.creating PROVE \E i \in 1..AtOnce : Heard(<<p, i>>)' /\ tagCalls'[<<p, i>>].op = "create"
        BY <1>10
      <4>1. c.op # "create" /\ q.creating
        BY <1>9, <2>5
      <4>2. PICK i \in 1..AtOnce : Heard(<<p, i>>) /\ tagCalls[<<p, i>>].op = "create"
        BY <1>6, <2>1, <2>5, <4>1 DEF Locked
      <4> QED
        BY <1>1, <2>2, <2>5, <4>1, <4>2
    <3>2. panel'[p].pending # Tagging!NoTag =>
            \E i \in 1..AtOnce : /\ Heard(<<p, i>>)' /\ tagCalls'[<<p, i>>].op # "create"
                                /\ tagCalls'[<<p, i>>].tag = panel'[p].pending
      <4> SUFFICES ASSUME r.pending # Tagging!NoTag
                   PROVE  \E i \in 1..AtOnce : /\ Heard(<<p, i>>)' /\ tagCalls'[<<p, i>>].op # "create"
                                              /\ tagCalls'[<<p, i>>].tag = r.pending
        BY <1>10
      <4>1. c.op = "create" /\ q.pending = r.pending
        BY <1>9, <2>5
      <4>2. PICK i \in 1..AtOnce : /\ Heard(<<p, i>>) /\ tagCalls[<<p, i>>].op # "create"
                                  /\ tagCalls[<<p, i>>].tag = q.pending
        BY <1>6, <2>1, <2>5, <4>1 DEF Locked
      <4> QED
        BY <1>1, <2>2, <2>5, <4>1, <4>2
    <3> QED
      BY <2>5, <3>1, <3>2 DEF Locked
  <2> QED
    BY <2>3, <2>4, <2>5
<1>22. Tagging!Making' \subseteq Tagging!Making
  BY <1>4 DEF Tagging!Making
<1>23. IsFiniteSet(Tagging!Making') /\ made' + Cardinality(Tagging!Making') <= MaxTags
  BY <1>3, <1>22, MakingStays
<1>24. \A t \in Tagging!Tags : Exists(t)' => t <= made'
  BY <1>3 DEF TagsKnown, Exists
<1> QED
  BY <1>12, <1>16, <1>17, <1>18, <1>19, <1>20, <1>21, <1>23, <1>24, LockedIs DEF TagsKnown

-----------------------------------------------------------------------------
LEMMA TagsBegin ==
  ASSUME Tagging!Init
  PROVE  TagsKnown
<1> USE TagAssumptions
<1>1. /\ \A p \in Panels : panel[p] = [status |-> "loading", all |-> {}, page |-> {}, read |-> {},
                                      pending |-> Tagging!NoTag, creating |-> FALSE, load |-> 0]
      /\ \A s \in Tagging!Slots : tagCalls[s] = Null
  BY DEF Tagging!Init
<1>2. /\ made \in 0..MaxTags /\ tags \in [Tagging!Tags -> Names \cup {Null}]
      /\ \A t \in Tagging!Tags : tags[t] = Null <=> t > made
      /\ \A s, t \in 1..made : tags[s] = tags[t] => s = t
      /\ links \subseteq TaggedPages \X (1..made)
  BY DEF Tagging!Init
<1>3. made \in Nat /\ made <= MaxTags
  BY <1>2
<1>4. \A t \in Tagging!Tags : tags[t] # Null <=> t \in 1..made
  BY <1>2, <1>3 DEF Tagging!Tags
<1>5. 1..made \subseteq Tagging!Tags
  BY <1>3 DEF Tagging!Tags
<1>6. \A s, t \in Tagging!Tags : tags[s] = tags[t] /\ tags[s] # Null => s = t
  BY <1>2, <1>4
<1>7. links \subseteq TaggedPages \X Tagging!Tags /\ \A l \in links : tags[l[2]] # Null
  BY <1>2, <1>4, <1>5
<1>8. panel \in [Panels -> Tagging!PanelState]
  <2>1. [status |-> "loading", all |-> {}, page |-> {}, read |-> {},
         pending |-> Tagging!NoTag, creating |-> FALSE, load |-> 0] \in Tagging!PanelState
    BY DEF Tagging!PanelState
  <2> QED
    BY <2>1 DEF Tagging!Init
<1>9. tagCalls \in [Tagging!Slots -> Tagging!Call \cup {Null}] /\ faults \in 0..MaxFaults /\ halved = {} /\ stray = {}
  BY DEF Tagging!Init
<1>10. Tagging!TypeOK
  BY <1>2, <1>6, <1>7, <1>8, <1>9 DEF Tagging!TypeOK
<1>11. Tagging!Making = {}
  BY <1>1 DEF Tagging!Making
<1>12. IsFiniteSet(Tagging!Making) /\ made + Cardinality(Tagging!Making) <= MaxTags
  <2>1. IsFiniteSet(Tagging!Making) /\ Cardinality(Tagging!Making) = 0
    BY <1>11, FS_EmptySet
  <2> QED
    BY <1>3, <2>1
<1>13. \A s \in Tagging!Slots : CallShape(s) /\ CallRight(s) /\ ~Heard(s)
  BY <1>1 DEF CallShape, CallRight, Heard
<1>14. \A p \in Panels : PanelShape(p) /\ OneEach(p) /\ Locked(p) /\ \A t \in Tagging!Tags : PanelRight(p, t)
  BY <1>1, <1>13, SlotsOfPanels DEF PanelShape, OneEach, PanelRight, AllRight, PageRight, Locked
<1>15. \A t \in Tagging!Tags : Exists(t) => t <= made
  BY <1>3, <1>4 DEF Exists
<1> QED
  BY <1>10, <1>12, <1>13, <1>14, <1>15, LockedIs DEF TagsKnown

LEMMA TagsStep ==
  ASSUME TagsKnown, Tagging!Next
  PROVE  TagsKnown'
<1>1. ASSUME NEW p \in Panels,
             \/ Tagging!Loading(p) \/ Tagging!LoadFails(p) \/ Tagging!Open(p)
             \/ Tagging!Attach(p) \/ Tagging!Detach(p) \/ Tagging!Delete(p) \/ Tagging!Create(p)
      PROVE  TagsKnown'
  <2>1. CASE Tagging!Loading(p)
    BY <2>1, ReadListStep DEF Tagging!Loading
  <2>2. CASE Tagging!LoadFails(p)
    BY <2>2, LoadFailsStep
  <2>3. CASE Tagging!Open(p)
    BY <2>3, OpenStep
  <2>4. CASE Tagging!Attach(p)
    <3>1. PICK t \in panel[p].all \ panel[p].page :
            /\ Tagging!Sent(p, "attach", t, Null, "find tag")
            /\ panel' = [panel EXCEPT ![p].pending = t]
            /\ Tagging!Quiet /\ panel[p].status = "ready"
      BY <2>4 DEF Tagging!Attach
    <3> QED
      BY <3>1, AskStep
  <2>5. CASE Tagging!Detach(p)
    <3>1. PICK t \in panel[p].page \ {panel[p].pending} :
            /\ Tagging!Sent(p, "detach", t, Null, "find link")
            /\ panel' = [panel EXCEPT ![p].pending = t]
            /\ Tagging!Quiet
      BY <2>5 DEF Tagging!Detach
    <3> QED
      BY <3>1, AskStep
  <2>6. CASE Tagging!Delete(p)
    <3>1. PICK t \in panel[p].all \ panel[p].page :
            /\ Tagging!Sent(p, "delete", t, Null, "find tag")
            /\ panel' = [panel EXCEPT ![p].pending = t]
            /\ Tagging!Quiet /\ panel[p].status = "ready"
      BY <2>6 DEF Tagging!Delete
    <3> QED
      BY <3>1, AskStep
  <2>7. CASE Tagging!Create(p)
    BY <2>7, CreateStep
  <2> QED
    BY <1>1, <2>1, <2>2, <2>3, <2>4, <2>5, <2>6, <2>7
<1> QED
  BY <1>1, ServeStep, AnswerStep DEF Tagging!Next

LEMMA TagsLeftAlone ==
  ASSUME TagsKnown, UNCHANGED <<tags, made, links, panel, tagCalls, faults, halved, stray>>
  PROVE  TagsKnown'
<1>1. Tagging!TypeOK' /\ IsFiniteSet(Tagging!Making') /\ made' + Cardinality(Tagging!Making') <= MaxTags
  <2>1. Tagging!TypeOK'
    BY DEF TagsKnown, Tagging!TypeOK
  <2>2. Tagging!Making' \subseteq Tagging!Making
    BY DEF Tagging!Making
  <2> QED
    BY <2>1, <2>2, MakingStays
<1>2. \A s \in Tagging!Slots : (Heard(s)' <=> Heard(s)) /\ (Acted(s)' <=> Acted(s))
  BY DEF Heard, Acted
<1>3. \A p \in Panels, t \in Tagging!Tags :
        /\ (AllRight(p, t)' <=> AllRight(p, t)) /\ (PageRight(p, t)' <=> PageRight(p, t))
        /\ (Exists(t)' <=> Exists(t)) /\ (Tagged(p, t)' <=> Tagged(p, t)) /\ (Exempt(p, t)' <=> Exempt(p, t))
  BY DEF AllRight, PageRight, Exists, Tagged, Exempt
<1>4. \A s \in Tagging!Slots : CallShape(s)' /\ CallRight(s)'
  BY <1>2, <1>3, SlotsOfPanels DEF TagsKnown, CallShape, CallRight
<1>5. \A p \in Panels : PanelShape(p)' /\ OneEach(p)'
  BY <1>2, SlotsOfPanels DEF TagsKnown, PanelShape, OneEach
<1>6. \A p \in Panels, t \in Tagging!Tags : PanelRight(p, t)'
  BY <1>2, <1>3, SlotsOfPanels DEF TagsKnown, PanelRight
<1>7. ASSUME NEW p \in Panels PROVE Locked(p)'
  <2>1. Locked(p)
    BY LockedIs DEF TagsKnown
  <2>2. panel' = panel /\ tagCalls' = tagCalls /\ \A i \in 1..AtOnce : Heard(<<p, i>>)' <=> Heard(<<p, i>>)
    BY <1>2, SlotsOfPanels
  <2> QED
    BY <2>1, <2>2 DEF Locked
<1>8. \A t \in Tagging!Tags : Exists(t)' => t <= made'
  <2>1. made' = made /\ \A t \in Tagging!Tags : Exists(t) => t <= made
    BY DEF TagsKnown
  <2> QED
    BY <2>1 DEF Exists
<1> QED
  BY <1>1, <1>4, <1>5, <1>6, <1>7, <1>8, LockedIs DEF TagsKnown

(* TagsService and PageTagsPanel: whatever panels ask and in whatever order     *)
(* they are served, a panel in which nothing is loading tells the tags of its *)
(* page and all the tags there are, and is locked only while its call is       *)
(* under way.                                                               *)
THEOREM TagsAreSound == Behaviour => []TagsSound
<1> DEFINE Inv == part \in {"tags", "onePanel"} => TagsKnown
<1>1. Begins => Inv
  BY TagsBegin DEF Begins
<1>2. ASSUME Inv, [Goes]_<<part, vars, avatarVars, commentVars, tagVars>> PROVE Inv'
  <2> SUFFICES ASSUME part' \in {"tags", "onePanel"} PROVE TagsKnown'
    OBVIOUS
  <2>1. part' = part
    BY <1>2 DEF Goes
  <2>2. TagsKnown
    BY <1>2, <2>1
  <2>3. CASE Tagging!Next
    BY <2>2, <2>3, TagsStep
  <2>4. CASE UNCHANGED tagVars
    BY <2>2, <2>4, TagsLeftAlone DEF tagVars
  <2> QED
    BY <1>2, <2>1, <2>3, <2>4 DEF Goes
<1>3. Inv => TagsSound
  <2> SUFFICES ASSUME TagsKnown PROVE Tagging!TypeOK /\ Tagging!PanelTells /\ Tagging!LockedWhileAsking
    BY DEF TagsSound
  <2>1. ASSUME NEW p \in Panels, panel[p].status = "ready", panel[p].read # {}
        PROVE  LET asked == {tagCalls[<<p, i>>].tag : i \in {j \in 1..AtOnce : tagCalls[<<p, j>>] # Null}}
                   known == Tagging!Tags \ ({t \in Tagging!Tags : <<p, t>> \in stray} \cup halved \cup asked)
               IN /\ panel[p].page \cap known = Tagging!Linked(PageOf[p]) \cap known
                  /\ panel[p].all \cap known = Tagging!Existing \cap known
    <3> DEFINE asked == {tagCalls[<<p, i>>].tag : i \in {j \in 1..AtOnce : tagCalls[<<p, j>>] # Null}}
    <3> DEFINE known == Tagging!Tags \ ({t \in Tagging!Tags : <<p, t>> \in stray} \cup halved \cup asked)
    <3>1. panel[p].read = {"all", "page"}
      BY <2>1 DEF TagsKnown, PanelShape
    <3>2. ASSUME NEW t \in known
          PROVE  (t \in panel[p].page <=> t \in Tagging!Linked(PageOf[p])) /\ (t \in panel[p].all <=> t \in Tagging!Existing)
      <4>1. t \in Tagging!Tags /\ ~Exempt(p, t)
        BY DEF Exempt
      <4>2. \A i \in 1..AtOnce : Heard(<<p, i>>) => tagCalls[<<p, i>>].tag # t
        BY DEF Heard
      <4>3. AllRight(p, t) /\ PageRight(p, t)
        BY <4>1, <4>2 DEF TagsKnown, PanelRight
      <4> QED
        BY <3>1, <4>1, <4>3 DEF AllRight, PageRight, Exists, Tagged, Tagging!Linked, Tagging!Existing
    <3> HIDE DEF known
    <3>3. panel[p].page \cap known = Tagging!Linked(PageOf[p]) \cap known
      BY <3>2
    <3>4. panel[p].all \cap known = Tagging!Existing \cap known
      BY <3>2
    <3> QED
      BY <3>3, <3>4 DEF known
  <2>2. Tagging!PanelTells
    BY <2>1 DEF Tagging!PanelTells
  <2> QED
    BY <2>2 DEF TagsKnown
<1> QED
  BY <1>1, <1>2, <1>3, PTL DEF Behaviour

=============================================================================
