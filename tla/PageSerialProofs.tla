--------------------------- MODULE PageSerialProofs ---------------------------
(***************************************************************************)
(* Theorems about the page handlers served one at a time, for every set of  *)
(* pages, versions, handlers, calls and seeds: moves never close a cycle,   *)
(* no page is left under a deleted one, a path names one page, a title is   *)
(* that of the current version, a visibility reaches the whole subtree,     *)
(* visibility changes and deletions go no further than asked, and the       *)
(* handlers implement the atomic document.                                  *)
(*                                                                         *)
(* The invariant says, for the handler under way and each of its steps,     *)
(* what it has read: since nobody else writes, all of it is still true of   *)
(* the tables when it saves.                                               *)
(***************************************************************************)
EXTENDS PageProperties, PageStoreProofs

OneAtATime == \A q, r \in Requests : (Active(q) /\ Active(r)) => q = r

-----------------------------------------------------------------------------
(* What the handler under way knows.                                        *)

(* A handler that has not begun has no call and has collected nothing.      *)
Untouched(r) == pc[r] = "idle" => call[r] = Null /\ ids[r] = {}

(* The two rows agree on what only moves, edits and deletions change.       *)
SamePlace(e, row) == e.slug = row.slug /\ (e.deleted <=> row.deleted)

SameText(e, row) == e.title = row.title /\ e.currentVersionId = row.currentVersionId

(* Until it decides, the handler holds the row of its page as it is.        *)
Fresh(r) ==
  (pc[r] \in {"authorize", "merge", "walk", "slug"} /\ call[r].op # "create") =>
    /\ Live(call[r].page)
    /\ entity[r] = pages[call[r].page]

(* What the handler saves differs from the row where its call says so.      *)
Intended(r) ==
  LET c   == call[r]
      e   == entity[r]
      row == pages[cursor[r]]
  IN pc[r] \in {"select", "write"} =>
       /\ c.op # "visibility" => cursor[r] = c.page
       /\ SamePlace(e, row)
       /\ e.currentVersionId = row.currentVersionId
       /\ c.op # "update" => e.title = row.title
       /\ e.parentId = IF c.op = "move" THEN c.parent ELSE row.parentId
       /\ e.visibility = IF c.op = "visibility" THEN c.visibility ELSE row.visibility

(* A column not found dirty is the same in the entity and in the row.       *)
CleanColumns(r) ==
  pc[r] = "write" =>
    /\ \A col \in Columns \ dirty[r] : entity[r][col] = pages[cursor[r]][col]
    /\ HasNewVersion(r) => "currentVersionId" \in dirty[r]

(* The ancestors of the new parent seen so far, next being the one to read: *)
(* all can be found, and the page that moves is none of them.               *)
Ancestors(r, next, A) ==
  /\ call[r].page \notin A
  /\ call[r].parent \in A \cup {next, Null}
  /\ \A x \in A : Live(x) /\ pages[x].parentId \in A \cup {next, Null}

MovePath(r) ==
  /\ pc[r] = "walk" => \E A \in SUBSET Pages : Ancestors(r, cursor[r], A)
  /\ (pc[r] \in {"slug", "select", "write"} /\ call[r].op = "move") =>
       \E A \in SUBSET Pages : Ancestors(r, Null, A)
  /\ (pc[r] = "slug" /\ call[r].op = "move") => cursor[r] = Null

ParentFound(r) ==
  (pc[r] \in {"authorize", "slug", "insert"} /\ call[r].op = "create"
     /\ call[r].parent # Null) => Live(call[r].parent)

SlugFree(r) ==
  /\ pc[r] = "insert" => ~SlugTaken(call[r].slug, call[r].parent, Null)
  /\ (pc[r] \in {"select", "write"} /\ call[r].op = "move") =>
       ~SlugTaken(entity[r].slug, call[r].parent, call[r].page)

(* The rows waiting in the frames of a cascade differ from the tables only  *)
(* in their visibility.                                                     *)
FrameFresh(f) ==
  \A k \in Pages :
    f.loaded[k] # Null => /\ SamePlace(f.loaded[k], pages[k])
                          /\ SameText(f.loaded[k], pages[k])
                          /\ f.loaded[k].parentId = pages[k].parentId

FramesFresh(r) ==
  /\ (pc[r] \in {"load", "authorize", "children", "softDelete"} \/ HasNewVersion(r)
        \/ call[r].op \in {"create", "move", "comments"}) => stack[r] = <<>>
  /\ call[r].op = "visibility" => \A i \in 1..Len(stack[r]) : FrameFresh(stack[r][i])

Doomed(r) == ids[r] \cup {call[r].page}

(* A page on the way down: the children of x not collected yet wait in one  *)
(* of its frames, or x is the page whose children are read next.            *)
Collecting(r) ==
  pc[r] \in {"collectVisit", "collect"} =>
    \A x \in Doomed(r) : \A y \in ChildrenOf(x) :
      \/ y \in ids[r]
      \/ pc[r] = "collectVisit" /\ x = cursor[r]
      \/ \E i \in 1..Len(stack[r]) : stack[r][i].page = x /\ y \in stack[r][i].todo

(* What is deleted is closed under having a parent in it and may be deleted, *)
(* and each frame accounts for every child its page still has.              *)
Deleting(r) ==
  pc[r] \in {"deleteVisit", "delete"} =>
    /\ Doomed(r) \subseteq Deletable
    /\ \A x \in Doomed(r) : ChildrenOf(x) \subseteq Doomed(r)
    /\ pc[r] = "deleteVisit" => cursor[r] \in Doomed(r)
    /\ \A i \in 1..Len(stack[r]) :
         LET below == IF i < Len(stack[r]) THEN {stack[r][i + 1].page}
                      ELSE IF pc[r] = "deleteVisit" THEN {cursor[r]} ELSE {}
         IN /\ stack[r][i].page \in Doomed(r)
            /\ stack[r][i].todo \subseteq Doomed(r)
            /\ ChildrenOf(stack[r][i].page) \subseteq stack[r][i].todo \cup below

DeleteAllowed(r) ==
  /\ pc[r] \in {"children", "softDelete", "collectVisit", "collect"} =>
       call[r].page \in Deletable
  /\ pc[r] = "children" => cursor[r] = call[r].page /\ ids[r] = {}
  /\ pc[r] \in {"load", "authorize"} => ids[r] = {}
  /\ pc[r] = "softDelete" => cursor[r] = call[r].page /\ ChildrenOf(cursor[r]) = {}

(* The text a handler saves is the one the abstract document gives its call. *)
TextAsked(r) ==
  (pc[r] \in {"select", "write"} /\ HasNewVersion(r)) =>
    text[r] = Document!Text(call[r])

Knows(r) ==
  /\ Fresh(r) /\ Intended(r) /\ CleanColumns(r)
  /\ MovePath(r) /\ ParentFound(r) /\ SlugFree(r) /\ FramesFresh(r)
  /\ Collecting(r) /\ Deleting(r) /\ DeleteAllowed(r) /\ TextAsked(r)

Tables ==
  /\ ParentsExist(pages)
  /\ Acyclic /\ LiveParent /\ LiveSlugsUnique /\ TitleOfCurrentVersion

SerialInv ==
  /\ OneAtATime
  /\ Tables
  /\ \A r \in Requests : Untouched(r) /\ (Active(r) => Knows(r))

-----------------------------------------------------------------------------
(* Steps that leave the tables alone.                                       *)

LEMMA TablesStay ==
  ASSUME UNCHANGED db
  PROVE  /\ Tables => Tables'
         /\ \A p \in Pages : Live(p)' <=> Live(p)
         /\ \A p : ChildrenOf(p)' = ChildrenOf(p)
         /\ \A s, p, q : SlugTaken(s, p, q)' <=> SlugTaken(s, p, q)
BY DEF db, Tables, Acyclic, LiveParent, LiveSlugsUnique, TitleOfCurrentVersion, Live,
       ChildrenOf, SlugTaken

LEMMA TextStays ==
  ASSUME UNCHANGED db, NEW r \in Requests, call'[r] = call[r]
  PROVE  Document!Text(call[r])' = Document!Text(call[r])
BY DEF db, Document!Text, Document!Current

LEMMA AnswerEnds ==
  ASSUME LocalType, NEW r \in Requests, NEW out \in Outcomes, Answer(r, out)
  PROVE  ~Active(r)' /\ pc'[r] # "idle"
BY DEF LocalType, Answer, Goto, Active, Outcomes

LEMMA RejectSerial ==
  ASSUME Inv, SerialInv, NEW r \in Requests, NEW out \in Outcomes, Reject(r, out)
  PROVE  Tables' /\ (Active(r)' => Knows(r)')
<1>1. ~Active(r)'
  BY AnswerEnds, TypeParts DEF Inv, Reject
<1> QED BY <1>1, TablesStay DEF SerialInv, Reject

LEMMA BeginSerial ==
  ASSUME Inv, SerialInv, NEW r \in Requests, Begin(r)
  PROVE  Tables' /\ (Active(r)' => Knows(r)')
<1> LocalType
  BY TypeParts DEF Inv
<1>1. Tables'
  BY TablesStay DEF Begin, SerialInv
<1>2. PICK c \in Calls :
        /\ call' = [call EXCEPT ![r] = c]
        /\ Goto(r, IF c.op = "create" /\ c.parent = Null THEN "authorize" ELSE "load")
  BY DEF Begin
<1>3. /\ call'[r] = c
      /\ pc'[r] = IF c.op = "create" /\ c.parent = Null THEN "authorize" ELSE "load"
      /\ stack'[r] = <<>> /\ ids'[r] = {}
  BY <1>2 DEF LocalType, Goto, Begin, SerialInv, Untouched, Inv, Control
<1>4. Fresh(r)' /\ Intended(r)' /\ CleanColumns(r)' /\ MovePath(r)' /\ ParentFound(r)' /\ SlugFree(r)'
  BY <1>3 DEF Fresh, Intended, CleanColumns, MovePath, ParentFound, SlugFree
<1>5. FramesFresh(r)' /\ Collecting(r)' /\ Deleting(r)' /\ DeleteAllowed(r)' /\ TextAsked(r)'
  BY <1>3 DEF FramesFresh, Collecting, Deleting, DeleteAllowed, TextAsked
<1> QED BY <1>1, <1>4, <1>5 DEF Knows

LEMMA LoadSerial ==
  ASSUME Inv, SerialInv, NEW r \in Requests, Load(r), Active(r)
  PROVE  Tables' /\ (Active(r)' => Knows(r)')
<1> DEFINE c == call[r]
           p == IF c.op = "create" THEN c.parent ELSE c.page
<1> LocalType /\ Knows(r)
  BY TypeParts DEF Inv, SerialInv
<1>1. CASE Reject(r, "notFound") \/ Reject(r, "versionNotFound")
  BY <1>1, RejectSerial DEF Outcomes
<1>2. CASE /\ Live(p)
           /\ IF c.op = "create" THEN UNCHANGED <<entity, cursor>>
              ELSE /\ entity' = [entity EXCEPT ![r] = pages[p]]
                   /\ cursor' = [cursor EXCEPT ![r] = p]
           /\ Goto(r, "authorize")
           /\ UNCHANGED <<db, call, text, dirty, stack, ids>>
  <2>1. pc'[r] = "authorize" /\ pc[r] = "load" /\ c \in Call
    BY <1>2 DEF LocalType, Goto, Load, Inv, Control, Outcomes
  <2>2. c.op # "create" => c.page \in Pages /\ entity'[r] = pages[c.page]
    BY <1>2, <2>1, CallFields DEF LocalType
  <2>3. Fresh(r)' /\ ParentFound(r)'
    BY <1>2, <2>1, <2>2, CallFields, TablesStay DEF Fresh, ParentFound, db
  <2>4. Intended(r)' /\ CleanColumns(r)' /\ MovePath(r)' /\ SlugFree(r)'
    BY <2>1 DEF Intended, CleanColumns, MovePath, SlugFree
  <2>5. stack'[r] = <<>> /\ ids'[r] = {}
    BY <1>2, <2>1 DEF Knows, FramesFresh, DeleteAllowed
  <2>6. FramesFresh(r)' /\ Collecting(r)' /\ Deleting(r)' /\ DeleteAllowed(r)' /\ TextAsked(r)'
    BY <2>1, <2>5 DEF FramesFresh, Collecting, Deleting, DeleteAllowed, TextAsked
  <2> QED BY <1>2, <2>3, <2>4, <2>6, TablesStay DEF Knows, SerialInv
<1> QED BY <1>1, <1>2 DEF Load

LEMMA AuthorizeSerial ==
  ASSUME Inv, SerialInv, NEW r \in Requests, Authorize(r), Active(r)
  PROVE  Tables' /\ (Active(r)' => Knows(r)')
<1> DEFINE c == call[r]
<1> LocalType /\ DbType /\ Knows(r) /\ pc[r] = "authorize"
  BY TypeParts DEF Inv, SerialInv, Authorize
<1>1. CASE Reject(r, "forbidden")
  BY <1>1, RejectSerial DEF Outcomes
<1> SUFFICES ASSUME UNCHANGED <<db, call, anchor, dirty, stack, ids>>,
                    ~Reject(r, "forbidden")
             PROVE  Knows(r)'
  BY <1>1, TablesStay DEF SerialInv, Authorize
<1>0. /\ c \in Call /\ stack'[r] = <<>> /\ ids'[r] = {} /\ call'[r] = c
      /\ c.op # "create" => /\ c.page \in Pages /\ Live(c.page) /\ cursor[r] = c.page
                            /\ entity[r] = pages[c.page] /\ pages[c.page] \in Row
  BY CallFields DEF Inv, Control, Outcomes, Knows, Fresh, FramesFresh, DeleteAllowed, Live, DbType
<1>3. CASE c.op = "create"
  <2>1. pc'[r] = "slug"
    BY <1>3 DEF Authorize, Goto, LocalType
  <2>2. ParentFound(r)'
    BY <1>0, <1>3, <2>1, CallFields, TablesStay DEF Knows, ParentFound
  <2> QED BY <1>0, <1>3, <2>1, <2>2 DEF Knows, Fresh, Intended, CleanColumns, MovePath, SlugFree,
             FramesFresh, Collecting, Deleting, DeleteAllowed, TextAsked
<1>4. CASE c.op = "update"
  <2>1. pc'[r] = "merge" /\ UNCHANGED entity
    BY <1>4 DEF Authorize, Goto, LocalType
  <2>2. Fresh(r)'
    BY <1>0, <2>1, TablesStay DEF Fresh, db
  <2> QED BY <1>0, <1>4, <2>1, <2>2 DEF Knows, ParentFound, Intended, CleanColumns, MovePath, SlugFree,
             FramesFresh, Collecting, Deleting, DeleteAllowed, TextAsked
<1>5. CASE c.op \in {"restore", "visibility", "comments"}
  <2>1. pc'[r] = "select" /\ cursor' = cursor
    BY <1>5 DEF Authorize, Goto, LocalType
  <2>2. Intended(r)'
    <3>1. CASE c.op = "restore"
      <4>1. entity' = entity
        BY <3>1 DEF Authorize
      <4> QED BY <1>0, <2>1, <3>1, <4>1 DEF Intended, SamePlace, db
    <3>2. CASE c.op = "visibility"
      <4>1. entity'[r] = [entity[r] EXCEPT !.visibility = c.visibility]
        BY <3>2 DEF Authorize, LocalType
      <4> QED BY <1>0, <2>1, <3>2, <4>1 DEF Intended, SamePlace, db, Row
    <3>3. CASE c.op = "comments"
      <4>1. entity'[r] = [entity[r] EXCEPT !.commentsEnabled = c.commentsEnabled]
        BY <3>3 DEF Authorize, LocalType
      <4> QED BY <1>0, <2>1, <3>3, <4>1 DEF Intended, SamePlace, db, Row
    <3> QED BY <1>5, <3>1, <3>2, <3>3
  <2>3. TextAsked(r)'
    <3> SUFFICES ASSUME c.op = "restore"
                 PROVE  TextAsked(r)'
      BY <1>0, <1>5 DEF TextAsked, HasNewVersion
    <3>1. text'[r] = versions[c.version].content /\ versions[c.version] # Null
      BY DEF Authorize, LocalType, Inv, Control, Outcomes
    <3>2. c.version \in Versions
      BY <1>0, CallFields
    <3> QED BY <1>0, <3>1, <3>2 DEF TextAsked, Document!Text, db
  <2> QED BY <1>0, <1>5, <2>1, <2>2, <2>3 DEF Knows, Fresh, ParentFound, CleanColumns, MovePath, SlugFree,
             FramesFresh, Collecting, Deleting, DeleteAllowed
<1>6. CASE c.op = "move"
  <2>1. /\ pc'[r] = IF c.parent = Null THEN "slug" ELSE "walk"
        /\ cursor'[r] = c.parent /\ UNCHANGED entity
    BY <1>6 DEF Authorize, Goto, LocalType
  <2>2. Fresh(r)'
    BY <1>0, <2>1, TablesStay DEF Fresh, db
  <2>3. MovePath(r)'
    <3>1. Ancestors(r, c.parent, {})'
      BY <1>0 DEF Ancestors
    <3>2. {} \in SUBSET Pages
      OBVIOUS
    <3> QED BY <1>0, <2>1, <3>1, <3>2 DEF MovePath
  <2> QED BY <1>0, <1>6, <2>1, <2>2, <2>3 DEF Knows, ParentFound, Intended, CleanColumns, SlugFree,
             FramesFresh, Collecting, Deleting, DeleteAllowed, TextAsked, HasNewVersion
<1>7. CASE c.op = "delete"
  <2>1. pc'[r] = "children" /\ UNCHANGED cursor /\ c.page \in Deletable
    BY <1>7 DEF Authorize, Goto, LocalType
  <2> QED BY <1>0, <1>7, <2>1 DEF Knows, Fresh, ParentFound, Intended, CleanColumns, MovePath, SlugFree,
             FramesFresh, Collecting, Deleting, DeleteAllowed, TextAsked
<1> QED BY <1>0, <1>3, <1>4, <1>5, <1>6, <1>7, CallFields

LEMMA MergeSerial ==
  ASSUME Inv, SerialInv, NEW r \in Requests, MergeWithBase(r), Active(r)
  PROVE  Tables' /\ (Active(r)' => Knows(r)')
<1> DEFINE c       == call[r]
           current == entity[r].currentVersionId
           theirs  == versions[current].content
           mine    == IF c.content = Null THEN theirs ELSE c.content
           save(t) == /\ text' = [text EXCEPT ![r] = t]
                      /\ entity' = [entity EXCEPT ![r].title = TitleAfter(r)]
                      /\ Goto(r, "select")
                      /\ UNCHANGED <<db, call, anchor, cursor, dirty, stack, ids>>
<1> LocalType /\ DbType /\ Knows(r) /\ pc[r] = "merge"
  BY TypeParts DEF Inv, SerialInv, MergeWithBase
<1>1. CASE Reject(r, "versionNotFound") \/ Reject(r, "conflict")
  BY <1>1, RejectSerial DEF Outcomes
<1>2. c \in UpdateCall /\ c.op = "update" /\ cursor[r] = c.page /\ Holds(r, c.page)
  BY CallFields DEF Inv, Control, Outcomes
<1>3. Live(c.page) /\ entity[r] = pages[c.page] /\ c.page \in Pages /\ pages[c.page] \in Row
  BY <1>2 DEF Knows, Fresh, Holds, DbType
<1>4. /\ current = pages[c.page].currentVersionId
      /\ theirs = Document!Current(c.page)
      /\ current \in Versions /\ versions[current] # Null
  BY <1>2, <1>3 DEF Document!Current, Holds, Owned
<1>5. ASSUME NEW t, save(t), t = Document!Text(c)
      PROVE  Tables' /\ Knows(r)'
  <2>1. /\ pc'[r] = "select" /\ text'[r] = t /\ call'[r] = c /\ cursor'[r] = c.page
        /\ stack'[r] = <<>>
    BY <1>2, <1>5 DEF LocalType, Goto, Knows, FramesFresh, HasNewVersion
  <2>2. entity'[r] = [entity[r] EXCEPT !.title = TitleAfter(r)]
    BY <1>5 DEF LocalType
  <2>3. Intended(r)'
    BY <1>2, <1>3, <1>5, <2>1, <2>2 DEF Intended, SamePlace, db, Row
  <2>4. TextAsked(r)'
    BY <1>5, <2>1, TextStays DEF TextAsked
  <2> QED BY <1>2, <1>5, <2>1, <2>3, <2>4, TablesStay DEF SerialInv, Knows, Fresh, ParentFound,
             CleanColumns, MovePath, SlugFree, FramesFresh, Collecting, Deleting, DeleteAllowed
<1>6. CASE ~NeedsMerge(r) /\ save(mine)
  <2>1. mine = Document!Text(c)
    BY <1>2, <1>3, <1>4, <1>6 DEF NeedsMerge, Document!Text, Merged
  <2> QED BY <1>5, <1>6, <2>1
<1>7. CASE NeedsMerge(r) /\ versions[c.base] # Null /\ save(Merged(versions[c.base].content, mine, theirs))
  <2>1. Merged(versions[c.base].content, mine, theirs) = Document!Text(c)
    BY <1>2, <1>3, <1>4, <1>7 DEF NeedsMerge, Document!Text, UpdateCall
  <2> QED BY <1>5, <1>7, <2>1
<1> QED BY <1>1, <1>6, <1>7 DEF MergeWithBase

LEMMA WalkSerial ==
  ASSUME Inv, SerialInv, NEW r \in Requests, Walk(r), Active(r)
  PROVE  Tables' /\ (Active(r)' => Knows(r)')
<1> DEFINE c == call[r]
           a == cursor[r]
<1> LocalType /\ DbType /\ Knows(r) /\ pc[r] = "walk"
  BY TypeParts DEF Inv, SerialInv, Walk
<1>1. CASE Reject(r, "circular") \/ Reject(r, "notFound")
  BY <1>1, RejectSerial DEF Outcomes
<1>2. CASE /\ a # c.page /\ Live(a)
           /\ cursor' = [cursor EXCEPT ![r] = pages[a].parentId]
           /\ Goto(r, IF pages[a].parentId = Null THEN "slug" ELSE "walk")
           /\ UNCHANGED <<db, call, entity, text, dirty, stack, ids>>
  <2>1. /\ c \in Call /\ c.op = "move" /\ a \in Pages /\ Holds(r, c.page)
        /\ Fresh(r) /\ stack'[r] = <<>>
    BY <1>2 DEF Inv, Control, Outcomes, Knows, FramesFresh
  <2>2. /\ pc'[r] = IF pages[a].parentId = Null THEN "slug" ELSE "walk"
        /\ cursor'[r] = pages[a].parentId
    BY <1>2 DEF LocalType, Goto
  <2>3. Fresh(r)'
    BY <1>2, <2>1, <2>2, TablesStay DEF Fresh, db, Holds
  <2>4. PICK A \in SUBSET Pages : Ancestors(r, a, A)
    BY DEF Knows, MovePath
  <2> PICK B \in SUBSET Pages : B = A \cup {a}
    BY <2>1
  <2>5. Ancestors(r, cursor[r], B)'
    BY <1>2, <2>1, <2>2, <2>4, TablesStay DEF Ancestors, db
  <2>6. MovePath(r)'
    BY <1>2, <2>1, <2>2, <2>5 DEF MovePath
  <2> QED BY <1>2, <2>1, <2>2, <2>3, <2>6, TablesStay DEF SerialInv, Knows, ParentFound, Intended,
             CleanColumns, SlugFree, FramesFresh, Collecting, Deleting, DeleteAllowed, TextAsked,
             HasNewVersion
<1> QED BY <1>1, <1>2 DEF Walk, ClosesCycle

LEMMA CheckSlugSerial ==
  ASSUME Inv, SerialInv, NEW r \in Requests, CheckSlug(r), Active(r)
  PROVE  Tables' /\ (Active(r)' => Knows(r)')
<1> DEFINE c == call[r]
<1> LocalType /\ DbType /\ Knows(r) /\ pc[r] = "slug"
  BY TypeParts DEF Inv, SerialInv, CheckSlug
<1>0. c \in Call /\ c.op \in {"create", "move"} /\ stack[r] = <<>>
  BY DEF Inv, Control, Outcomes, Knows, FramesFresh
<1>1. CASE Reject(r, "reserved") \/ Reject(r, "forbidden") \/ Reject(r, "slugTaken")
  BY <1>1, RejectSerial DEF Outcomes
<1>2. CASE /\ c.op = "create" /\ ~SlugTaken(c.slug, c.parent, Null)
           /\ Goto(r, "insert") /\ UNCHANGED <<entity, cursor>>
           /\ UNCHANGED <<db, call, anchor, text, dirty, stack, ids>>
  <2>1. pc'[r] = "insert"
    BY <1>2 DEF LocalType, Goto
  <2>2. ParentFound(r)'
    BY <1>0, <1>2, <2>1, CallFields, TablesStay DEF Knows, ParentFound
  <2>3. SlugFree(r)'
    BY <1>2, <2>1, TablesStay DEF SlugFree
  <2> QED BY <1>0, <1>2, <2>1, <2>2, <2>3, TablesStay DEF SerialInv, Knows, Fresh, MovePath, Intended,
             CleanColumns, FramesFresh, Collecting, Deleting, DeleteAllowed, TextAsked
<1>3. CASE /\ c.op = "move" /\ ~SlugTaken(entity[r].slug, c.parent, c.page)
           /\ entity' = [entity EXCEPT ![r].parentId = c.parent]
           /\ cursor' = [cursor EXCEPT ![r] = c.page]
           /\ Goto(r, "select")
           /\ UNCHANGED <<db, call, anchor, text, dirty, stack, ids>>
  <2>1. pc'[r] = "select" /\ cursor'[r] = c.page
    BY <1>3 DEF LocalType, Goto
  <2>2. entity[r] = pages[c.page] /\ pages[c.page] \in Row /\ c.page \in Pages
    BY <1>0, <1>3, CallFields DEF Knows, Fresh, DbType, Live
  <2>3. entity'[r] = [entity[r] EXCEPT !.parentId = c.parent]
    BY <1>3 DEF LocalType
  <2>4. Intended(r)'
    BY <1>3, <2>1, <2>2, <2>3 DEF Intended, SamePlace, db, Row
  <2>5. SlugFree(r)'
    BY <1>3, <2>1, <2>2, <2>3, TablesStay DEF SlugFree, Row
  <2>6. PICK A \in SUBSET Pages : Ancestors(r, Null, A)
    BY <1>3 DEF Knows, MovePath
  <2>7. Ancestors(r, Null, A)'
    BY <1>3, <2>6, TablesStay DEF Ancestors, db
  <2> QED BY <1>0, <1>3, <2>1, <2>4, <2>5, <2>7, TablesStay DEF SerialInv, Knows, Fresh, MovePath, ParentFound,
             CleanColumns, FramesFresh, Collecting, Deleting, DeleteAllowed, TextAsked, HasNewVersion
<1> QED BY <1>0, <1>1, <1>2, <1>3 DEF CheckSlug

-----------------------------------------------------------------------------
(* What one changed row does to a forest, and to the other tables' promises. *)

Rows == [Pages -> Row \cup {Null}]

LEMMA ForestGrows ==
  ASSUME NEW rows \in Rows, Forest(rows), ParentsExist(rows),
         NEW p \in Pages, rows[p] = Null, NEW row \in Row,
         row.parentId = Null \/ rows[row.parentId] # Null
  PROVE  Forest([rows EXCEPT ![p] = row])
<1> DEFINE new == [rows EXCEPT ![p] = row]
<1>1. new[p] = row /\ \A q \in Pages \ {p} : new[q] = rows[q]
  BY DEF Rows
<1> SUFFICES ASSUME NEW S \in SUBSET Pages, S # {}
             PROVE  \E q \in S : new[q] = Null \/ new[q].parentId \notin S
  BY DEF Forest
<1>2. CASE p \notin S
  BY <1>1, <1>2 DEF Forest
<1>3. CASE p \in S /\ row.parentId \notin S
  BY <1>1, <1>3
<1>4. CASE p \in S /\ row.parentId \in S
  <2>1. S \ {p} # {}
    BY <1>4, NullAssumption
  <2>2. PICK q \in S \ {p} : rows[q] = Null \/ rows[q].parentId \notin S \ {p}
    BY <2>1 DEF Forest
  <2>3. rows[q] # Null => rows[q].parentId # p
    BY NullAssumption DEF ParentsExist
  <2> QED BY <1>1, <2>2, <2>3
<1> QED BY <1>2, <1>3, <1>4

(* Moving p under a page none of whose ancestors is p keeps the forest: were *)
(* every page of S under another of S, so would be those of S above p.       *)
LEMMA ForestMoves ==
  ASSUME NEW rows \in Rows, Forest(rows), NEW p \in Pages, NEW row \in Row,
         NEW A \in SUBSET Pages, p \notin A, row.parentId \in A \cup {Null},
         \A x \in A : rows[x] # Null /\ rows[x].parentId \in A \cup {Null}
  PROVE  Forest([rows EXCEPT ![p] = row])
<1> DEFINE new == [rows EXCEPT ![p] = row]
<1>1. new[p] = row /\ \A q \in Pages \ {p} : new[q] = rows[q]
  BY DEF Rows
<1> SUFFICES ASSUME NEW S \in SUBSET Pages, S # {}
             PROVE  \E q \in S : new[q] = Null \/ new[q].parentId \notin S
  BY DEF Forest
<1>2. CASE p \notin S
  BY <1>1, <1>2 DEF Forest
<1>3. CASE p \in S /\ row.parentId \notin S
  BY <1>1, <1>3
<1>4. CASE p \in S /\ row.parentId \in S
  <2>1. S \cap A # {}
    BY <1>4, NullAssumption
  <2>2. PICK q \in S \cap A : rows[q] = Null \/ rows[q].parentId \notin S \cap A
    BY <2>1 DEF Forest
  <2>3. q # p /\ rows[q].parentId \notin S
    BY <2>2, NullAssumption
  <2> QED BY <1>1, <2>3
<1> QED BY <1>2, <1>3, <1>4

(* A step that leaves every page where it is, found or not, keeps the tree. *)
LEMMA TreeStays ==
  ASSUME NEW rows, NEW new,
         \A q \in Pages :
           /\ new[q] = Null <=> rows[q] = Null
           /\ rows[q] # Null => new[q].parentId = rows[q].parentId,
         Forest(rows), ParentsExist(rows)
  PROVE  Forest(new) /\ (rows \in Rows => ParentsExist(new))
<1>1. Forest(new)
  <2> SUFFICES ASSUME NEW S \in SUBSET Pages, S # {}
               PROVE  \E q \in S : new[q] = Null \/ new[q].parentId \notin S
    BY DEF Forest
  <2> PICK q \in S : rows[q] = Null \/ rows[q].parentId \notin S
    BY DEF Forest
  <2> QED OBVIOUS
<1>2. rows \in Rows => ParentsExist(new)
  BY DEF ParentsExist, Rows, Row
<1> QED BY <1>1, <1>2

LEMMA SelectSerial ==
  ASSUME Inv, SerialInv, NEW r \in Requests, Select(r), Active(r)
  PROVE  Tables' /\ (Active(r)' => Knows(r)')
<1> DEFINE c == call[r]
<1> LocalType /\ DbType /\ Knows(r) /\ pc[r] = "select"
  BY TypeParts DEF Inv, SerialInv, Select
<1>0. /\ c.op \in {"update", "restore", "move", "visibility", "comments"}
      /\ Holds(r, cursor[r])
  BY DEF Inv, Control, Outcomes
<1>1. /\ pc'[r] = "write" /\ UNCHANGED <<db, call, entity, text, cursor, stack, ids>>
      /\ dirty'[r] = {col \in Columns : entity[r][col] # pages[cursor[r]][col]}
                       \cup (IF HasNewVersion(r) THEN {"currentVersionId"} ELSE {})
  BY DEF Select, LocalType, Goto
<1>2. Intended(r)'
  BY <1>1 DEF Knows, Intended, db
<1>3. CleanColumns(r)'
  BY <1>1 DEF CleanColumns, db, HasNewVersion
<1>4. MovePath(r)'
  <2> SUFFICES ASSUME c.op = "move" PROVE \E A \in SUBSET Pages : Ancestors(r, Null, A)'
    BY <1>1 DEF MovePath
  <2>1. PICK A \in SUBSET Pages : Ancestors(r, Null, A)
    BY DEF Knows, MovePath
  <2> QED BY <1>1, <2>1, TablesStay DEF Ancestors, db
<1>5. SlugFree(r)'
  BY <1>1, TablesStay DEF Knows, SlugFree
<1>6. FramesFresh(r)'
  BY <1>1 DEF Knows, FramesFresh, FrameFresh, db, HasNewVersion
<1>7. TextAsked(r)'
  BY <1>1, TextStays DEF Knows, TextAsked, HasNewVersion
<1> QED BY <1>1, <1>2, <1>3, <1>4, <1>5, <1>6, <1>7, TablesStay
        DEF SerialInv, Knows, Fresh, ParentFound, Collecting, Deleting, DeleteAllowed

-----------------------------------------------------------------------------
(* Steps that change the tables.                                            *)

LEMMA InsertSerial ==
  ASSUME Inv, SerialInv, NEW r \in Requests, Insert(r), Active(r)
  PROVE  Tables' /\ (Active(r)' => Knows(r)')
<1> DEFINE c == call[r]
<1> LocalType /\ DbType /\ CurrentVersionOwned /\ Knows(r) /\ Tables /\ pc[r] = "insert"
  BY TypeParts DEF Inv, SerialInv, Insert
<1>0. c \in CreateCall /\ c.op = "create"
  BY CallFields DEF Inv, Control, Outcomes
<1>1. CASE Reject(r, "slugTaken")
  BY <1>1, RejectSerial DEF Outcomes
<1>2. ASSUME NEW p \in Pages, NEW v \in Versions, NEW row,
             pages[p] = Null, versions[v] = Null,
             row = [ slug |-> c.slug, title |-> c.title, parentId |-> c.parent,
                     currentVersionId |-> v, visibility |-> c.visibility,
                     commentsEnabled |-> TRUE, deleted |-> FALSE ],
             pages' = [pages EXCEPT ![p] = row],
             versions' = [versions EXCEPT ![v] =
               [pageId |-> p, content |-> c.content, title |-> c.title]]
      PROVE  Tables'
  <2>1. row \in Row /\ pages \in Rows
    BY <1>0, <1>2 DEF CreateCall, Row, DbType, Rows
  <2>2. row # Null
    BY <2>1, NullAssumption
  <2>3. pages'[p] = row /\ \A q \in Pages \ {p} : pages'[q] = pages[q]
    BY <1>2 DEF DbType
  <2>4. /\ row.parentId = c.parent /\ row.slug = c.slug /\ row.title = c.title
        /\ row.currentVersionId = v /\ ~row.deleted
    BY <1>2
  <2>5. c.parent # Null => Live(c.parent) /\ c.parent \in Pages
    BY <1>0 DEF Knows, ParentFound, CreateCall
  <2>6. Acyclic'
    BY <1>2, <2>1, <2>4, <2>5, ForestGrows DEF Acyclic, Tables, Live
  <2>7. ParentsExist(pages)'
    <3>1. \A q \in Pages : pages[q] # Null => pages[q].parentId \in Pages \cup {Null}
      BY DEF DbType, Row
    <3> QED BY <1>2, <2>2, <2>3, <2>4, <2>5, <3>1 DEF ParentsExist, Tables, Live
  <2>8. LiveParent'
    BY <1>2, <2>2, <2>3, <2>4, <2>5 DEF LiveParent, ParentsFindable, Findable, Tables, Live
  <2>9. LiveSlugsUnique'
    <3>1. \A q \in Pages : Findable(pages, q) => ~(pages[q].slug = c.slug /\ pages[q].parentId = c.parent)
      BY NullAssumption DEF Knows, SlugFree, SlugTaken, Findable, Live
    <3> QED BY <2>2, <2>3, <2>4, <3>1 DEF LiveSlugsUnique, PathsUnique, Findable, Tables
  <2>10. TitleOfCurrentVersion'
    <3>1. versions'[v].title = c.title /\ \A w \in Versions \ {v} : versions'[w] = versions[w]
      BY <1>2 DEF DbType
    <3>2. \A q \in Pages : pages[q] # Null => /\ pages[q].currentVersionId \in Versions \ {v}
      BY <1>2 DEF CurrentVersionOwned, Owned
    <3> QED BY <2>3, <2>4, <3>1, <3>2 DEF TitleOfCurrentVersion, TitlesCurrent, Tables
  <2> QED BY <2>6, <2>7, <2>8, <2>9, <2>10 DEF Tables
<1>3. CASE Answer(r, "ok")
  <2>1. ~Active(r)'
    BY <1>3, AnswerEnds DEF Outcomes
  <2>2. Tables' \/ Reject(r, "slugTaken")
    BY <1>2 DEF Insert
  <2> QED BY <1>1, <2>1, <2>2
<1> QED BY <1>1, <1>3 DEF Insert

(* What a save writes: the row of the table, changed where the call says so. *)
LEMMA UpdatedAsIntended ==
  ASSUME LocalType, DbType, CurrentVersionOwned, NEW r \in Requests, Intended(r), CleanColumns(r), pc[r] = "write",
         Holds(r, cursor[r])
  PROVE  LET row == pages[cursor[r]]
             new == Updated(r)
         IN /\ SamePlace(new, row)
            /\ new.currentVersionId = row.currentVersionId
            /\ new.title = entity[r].title
            /\ new.parentId = IF call[r].op = "move" THEN call[r].parent ELSE row.parentId
            /\ new.visibility = IF call[r].op = "visibility" THEN call[r].visibility
                                ELSE row.visibility
            /\ new \in Row
<1>1. pages[cursor[r]] \in Row /\ entity[r] \in Row
  BY DEF Holds, LocalType, DbType
<1> DEFINE row == pages[cursor[r]]
           new == Updated(r)
<1>2. DOMAIN row = {"slug", "title", "parentId", "currentVersionId", "visibility",
                    "commentsEnabled", "deleted"}
  BY <1>1 DEF Row
<1>3. new = [col \in DOMAIN row |-> IF col \in dirty[r] THEN entity[r][col] ELSE row[col]]
  BY DEF Updated
<1>4. \A col \in Columns : new[col] = entity[r][col]
  BY <1>2, <1>3 DEF CleanColumns, Columns
<1>5. new.slug = row.slug
  <2>1. "slug" \notin dirty[r]
    BY DEF LocalType, Columns
  <2> QED BY <1>2, <1>3, <2>1
<1>6. new \in Row
  BY UpdatedOwned
<1>7. /\ new.title = entity[r].title /\ new.parentId = entity[r].parentId
      /\ new.currentVersionId = entity[r].currentVersionId
      /\ new.visibility = entity[r].visibility
  BY <1>4 DEF Columns
<1>8. new.deleted <=> row.deleted
  <2>1. new.deleted = entity[r].deleted
    BY <1>4 DEF Columns
  <2>2. entity[r].deleted <=> row.deleted
    BY DEF Intended, SamePlace
  <2> HIDE DEF new, row
  <2> QED BY <2>1, <2>2, Zenon
<1>9. SamePlace(new, row)
  BY <1>5, <1>8, Zenon DEF SamePlace
<1> QED BY <1>6, <1>7, <1>9 DEF Intended

(* A saved row keeps the tree: only a move changes its place, and it checked. *)
LEMMA SavedTree ==
  ASSUME Inv, SerialInv, NEW r \in Requests, Knows(r), pc[r] = "write",
         NEW p \in Pages, p = cursor[r], Holds(r, p), NEW new \in Row,
         SamePlace(new, pages[p]),
         new.parentId = IF call[r].op = "move" THEN call[r].parent ELSE pages[p].parentId,
         pages' = [pages EXCEPT ![p] = new]
  PROVE  ParentsExist(pages)' /\ Acyclic' /\ LiveParent' /\ LiveSlugsUnique'
<1> DEFINE c == call[r]
<1> DbType /\ Tables
  BY TypeParts DEF Inv, SerialInv
<1>1. /\ pages'[p] = new /\ \A q \in Pages \ {p} : pages'[q] = pages[q]
      /\ pages \in Rows /\ new # Null /\ pages[p] # Null /\ pages[p] \in Row
  BY NullAssumption DEF DbType, Rows, Holds
<1>2. \A q \in Pages : Findable(pages, q)' <=> Findable(pages, q)
  <2>1. Findable(pages, p)' <=> Findable(pages, p)
    <3>1. new.deleted <=> pages[p].deleted
      BY DEF SamePlace
    <3> QED BY <1>1, <3>1, Zenon DEF Findable
  <2> QED BY <1>1, <2>1 DEF Findable
<1>3. \A q \in Pages : pages[q] # Null => pages'[q].slug = pages[q].slug
  BY <1>1 DEF SamePlace
<1>4. CASE c.op # "move"
  <2>1. \A q \in Pages : /\ pages'[q] = Null <=> pages[q] = Null
                         /\ pages[q] # Null => pages'[q].parentId = pages[q].parentId
    BY <1>1, <1>4
  <2>2. ParentsExist(pages)' /\ Acyclic'
    BY <1>1, <2>1, TreeStays DEF Tables, Acyclic
  <2>3. LiveParent'
    <3>1. \A q \in Pages : pages[q] # Null => pages[q].parentId \in Pages \cup {Null}
      BY DEF DbType, Row
    <3> QED BY <1>2, <2>1, <3>1 DEF LiveParent, ParentsFindable, Tables, Findable
  <2>4. LiveSlugsUnique'
    BY <1>2, <1>3, <2>1 DEF LiveSlugsUnique, PathsUnique, Tables, Findable
  <2> QED BY <2>2, <2>3, <2>4
<1>5. CASE c.op = "move"
  <2>1. p = c.page /\ new.parentId = c.parent /\ c.parent \in Pages \cup {Null}
    BY <1>5 DEF Knows, Intended, Row
  <2>2. PICK A \in SUBSET Pages : Ancestors(r, Null, A)
    BY <1>5 DEF Knows, MovePath
  <2>3. /\ c.parent \in A \cup {Null} /\ p \notin A
        /\ \A x \in A : Live(x) /\ pages[x].parentId \in A \cup {Null}
    BY <2>1, <2>2 DEF Ancestors
  <2>4. Acyclic'
    BY <1>1, <2>1, <2>3, ForestMoves DEF Tables, Acyclic, Live
  <2>5. \A q \in Pages : pages[q] # Null => pages[q].parentId \in Pages \cup {Null}
    BY DEF DbType, Row
  <2>6. ParentsExist(pages)'
    BY <1>1, <2>1, <2>3, <2>5 DEF Tables, ParentsExist, Live
  <2>7. LiveParent'
    BY <1>1, <1>2, <2>1, <2>3, <2>5 DEF LiveParent, ParentsFindable, Tables, Findable, Live
  <2>8. LiveSlugsUnique'
    <3>1. \A q \in Pages \ {p} : Findable(pages, q) =>
            ~(pages[q].slug = new.slug /\ pages[q].parentId = c.parent)
      <4>1. entity[r].slug = new.slug
        BY DEF Knows, Intended, SamePlace
      <4> QED BY <1>5, <2>1, <4>1 DEF Knows, SlugFree, SlugTaken, Findable, Live
    <3> QED BY <1>1, <1>2, <2>1, <3>1 DEF LiveSlugsUnique, PathsUnique, Tables, Findable
  <2> QED BY <2>4, <2>6, <2>7, <2>8
<1> QED BY <1>4, <1>5

LEMMA CommitVersionSerial ==
  ASSUME Inv, SerialInv, NEW r \in Requests, CommitVersion(r), Active(r)
  PROVE  Tables' /\ (Active(r)' => Knows(r)')
<1> DEFINE p == cursor[r]
           row == Updated(r)
<1> LocalType /\ DbType /\ CurrentVersionOwned /\ Knows(r) /\ Tables /\ pc[r] = "write"
  BY TypeParts DEF Inv, SerialInv, CommitVersion
<1>0. /\ Holds(r, p) /\ p \in Pages /\ call[r].op \in {"update", "restore"}
  BY DEF Inv, Control, Outcomes, Holds, CommitVersion, HasNewVersion
<1>1. CASE Reject(r, "slugTaken")
  BY <1>1, RejectSerial DEF Outcomes
<1>2. ASSUME NEW v \in Versions, versions[v] = Null,
             pages' = [pages EXCEPT ![p] = [row EXCEPT !.currentVersionId = v]],
             versions' = [versions EXCEPT ![v] =
               [pageId |-> p, content |-> text[r], title |-> entity[r].title]]
      PROVE  Tables'
  <2>1. /\ SamePlace(row, pages[p]) /\ row \in Row /\ row.title = entity[r].title
        /\ row.parentId = pages[p].parentId
    BY <1>0, UpdatedAsIntended DEF Knows
  <2> DEFINE new == [row EXCEPT !.currentVersionId = v]
  <2> HIDE DEF row
  <2>2. /\ new \in Row /\ new.title = entity[r].title /\ new.parentId = pages[p].parentId
        /\ new.currentVersionId = v /\ new.slug = row.slug
    BY <2>1 DEF Row
  <2>3. SamePlace(new, pages[p])
    <3>1. new.deleted = row.deleted
      BY <2>1, Z3 DEF Row
    <3> HIDE DEF new
    <3> QED BY <2>1, <2>2, <3>1, Zenon DEF SamePlace
  <2>4. pages' = [pages EXCEPT ![p] = new]
    BY <1>2
  <2> HIDE DEF new
  <2>5. ParentsExist(pages)' /\ Acyclic' /\ LiveParent' /\ LiveSlugsUnique'
    BY <1>0, <2>2, <2>3, <2>4, SavedTree
  <2>6. TitleOfCurrentVersion'
    <3>1. /\ versions'[v].title = entity[r].title
          /\ \A w \in Versions \ {v} : versions'[w] = versions[w]
      BY <1>2 DEF DbType
    <3>2. \A q \in Pages : pages[q] # Null => pages[q].currentVersionId \in Versions \ {v}
      BY <1>2 DEF CurrentVersionOwned, Owned
    <3>3. pages'[p] = new /\ \A q \in Pages \ {p} : pages'[q] = pages[q]
      BY <1>0, <2>4 DEF DbType
    <3> QED BY <2>2, <3>1, <3>2, <3>3 DEF TitleOfCurrentVersion, TitlesCurrent, Tables
  <2> QED BY <2>5, <2>6 DEF Tables
<1>3. CASE Answer(r, "ok")
  <2>1. ~Active(r)'
    BY <1>3, AnswerEnds DEF Outcomes
  <2>2. Tables' \/ Reject(r, "slugTaken")
    BY <1>2 DEF CommitVersion
  <2> QED BY <1>1, <2>1, <2>2
<1> QED BY <1>1, <1>3 DEF CommitVersion

(* A row that stays where it is, with the text it had, keeps frames fresh.   *)
LEMMA FramesStay ==
  ASSUME NEW r \in Requests, stack'[r] = stack[r], call'[r] = call[r],
         \A i \in 1..Len(stack[r]) : FrameFresh(stack[r][i]),
         \A q \in Pages : /\ SamePlace(pages'[q], pages[q]) /\ SameText(pages'[q], pages[q])
                          /\ pages'[q].parentId = pages[q].parentId
  PROVE  (\A i \in 1..Len(stack[r]) : FrameFresh(stack[r][i]))'
<1> SUFFICES ASSUME NEW i \in 1..Len(stack[r]), NEW q \in Pages, stack[r][i].loaded[q] # Null
             PROVE  LET e == stack[r][i].loaded[q]
                    IN /\ SamePlace(e, pages'[q]) /\ SameText(e, pages'[q])
                       /\ e.parentId = pages'[q].parentId
  BY DEF FrameFresh
<1> DEFINE e == stack[r][i].loaded[q]
<1>1. SamePlace(e, pages[q]) /\ SameText(e, pages[q]) /\ e.parentId = pages[q].parentId
  BY DEF FrameFresh
<1>2. SamePlace(e, pages'[q])
  BY <1>1, Zenon DEF SamePlace
<1> QED BY <1>1, <1>2 DEF SameText

LEMMA WriteRowSerial ==
  ASSUME Inv, SerialInv, NEW r \in Requests, WriteRow(r), Active(r)
  PROVE  Tables' /\ (Active(r)' => Knows(r)')
<1> DEFINE p   == cursor[r]
           row == Updated(r)
<1> LocalType /\ DbType /\ CurrentVersionOwned /\ Knows(r) /\ Tables /\ pc[r] = "write"
  BY TypeParts DEF Inv, SerialInv, WriteRow
<1>0. /\ Holds(r, p) /\ p \in Pages /\ call[r].op \in {"move", "visibility", "comments"}
  BY DEF Inv, Control, Outcomes, Holds, WriteRow, HasNewVersion
<1>1. CASE Reject(r, "slugTaken")
  BY <1>1, RejectSerial DEF Outcomes
<1>2. CASE /\ pages' = [pages EXCEPT ![p] = row] /\ UNCHANGED versions
           /\ IF call[r].op = "visibility" THEN Goto(r, "descend") /\ UNCHANGED locals
              ELSE Answer(r, "ok")
  <2>1. /\ SamePlace(row, pages[p]) /\ row \in Row /\ row.title = pages[p].title
        /\ row.parentId = IF call[r].op = "move" THEN call[r].parent ELSE pages[p].parentId
        /\ row.currentVersionId = pages[p].currentVersionId
    <3>1. row.title = entity[r].title
      BY <1>0, UpdatedAsIntended DEF Knows
    <3>2. entity[r].title = pages[p].title
      BY <1>0 DEF Knows, Intended
    <3> QED BY <1>0, <3>1, <3>2, UpdatedAsIntended DEF Knows
  <2> HIDE DEF row
  <2>2. ParentsExist(pages)' /\ Acyclic' /\ LiveParent' /\ LiveSlugsUnique'
    BY <1>0, <1>2, <2>1, SavedTree
  <2>3. pages'[p] = row /\ \A q \in Pages \ {p} : pages'[q] = pages[q]
    BY <1>0, <1>2 DEF DbType
  <2>4. TitleOfCurrentVersion'
    BY <1>0, <1>2, <2>1, <2>3 DEF TitleOfCurrentVersion, TitlesCurrent, Tables, Holds
  <2>5. CASE call[r].op # "visibility"
    BY <1>2, <2>2, <2>4, <2>5, AnswerEnds DEF Tables, Outcomes
  <2>6. CASE call[r].op = "visibility"
    <3>1. pc'[r] = "descend" /\ UNCHANGED <<call, stack, ids>>
      BY <1>2, <2>6 DEF LocalType, Goto, locals
    <3>2. \A q \in Pages : /\ SamePlace(pages'[q], pages[q]) /\ SameText(pages'[q], pages[q])
                           /\ pages'[q].parentId = pages[q].parentId
      <4>1. SamePlace(pages'[p], pages[p]) /\ SameText(pages'[p], pages[p])
              /\ pages'[p].parentId = pages[p].parentId
        BY <2>1, <2>3, <2>6 DEF SameText
      <4>2. \A q \in Pages \ {p} : SamePlace(pages'[q], pages[q])
        BY <2>3, Zenon DEF SamePlace
      <4> QED BY <2>3, <4>1, <4>2 DEF SameText
    <3>3. FramesFresh(r)'
      <4>1. (\A i \in 1..Len(stack[r]) : FrameFresh(stack[r][i]))'
        BY <2>6, <3>1, <3>2, FramesStay DEF Knows, FramesFresh
      <4> QED BY <2>6, <3>1, <4>1 DEF FramesFresh, HasNewVersion
    <3> QED BY <2>2, <2>4, <2>6, <3>1, <3>3 DEF Tables, Knows, Fresh, Intended, CleanColumns,
               MovePath, ParentFound, SlugFree, Collecting, Deleting, DeleteAllowed, TextAsked
  <2> QED BY <2>5, <2>6
<1> QED BY <1>1, <1>2 DEF WriteRow

-----------------------------------------------------------------------------
(* The frames of a descent.                                                 *)

LEMMA VisitingFrames ==
  ASSUME LocalType, NEW r \in Requests, Len(stack[r]) # 0, NEW k \in Pages
  PROVE  /\ Len(Visiting(r, k)) = Len(stack[r])
         /\ \A i \in 1..Len(stack[r]) - 1 : Visiting(r, k)[i] = stack[r][i]
         /\ Visiting(r, k)[Len(stack[r])].page = Top(r).page
         /\ Visiting(r, k)[Len(stack[r])].todo = Top(r).todo \ {k}
         /\ \A j \in Pages :
              Visiting(r, k)[Len(stack[r])].loaded[j] # Null =>
                Visiting(r, k)[Len(stack[r])].loaded[j] = Top(r).loaded[j]
<1> DEFINE f == [Top(r) EXCEPT !.todo = @ \ {k}, !.loaded[k] = Null]
           b == Below(r)
<1>1. /\ Len(stack[r]) \in Nat \ {0} /\ Top(r) \in Frame /\ b \in Seq(Frame)
      /\ Len(b) = Len(stack[r]) - 1 /\ \A i \in 1..Len(b) : b[i] = stack[r][i]
  BY StackParts
<1>2. f \in Frame
  BY <1>1 DEF Frame
<1>3. /\ f.page = Top(r).page /\ f.todo = Top(r).todo \ {k}
      /\ \A j \in Pages : f.loaded[j] # Null => f.loaded[j] = Top(r).loaded[j]
  BY <1>1 DEF Frame
<1> HIDE DEF b, f
<1>4. /\ Append(b, f) \in Seq(Frame) /\ Len(Append(b, f)) = Len(stack[r])
      /\ Append(b, f)[Len(stack[r])] = f
      /\ \A i \in 1..Len(stack[r]) - 1 : Append(b, f)[i] = b[i]
  BY <1>1, <1>2
<1> QED BY <1>1, <1>3, <1>4 DEF Visiting, b, f

LEMMA OpenFrames ==
  ASSUME LocalType, NEW r \in Requests, NEW from, NEW to, NEW loaded \in [Pages -> Row \cup {Null}],
         Open(r, from, to, loaded), cursor[r] \in Pages
  PROVE  /\ Len(stack[r]) \in Nat /\ Len(stack'[r]) = Len(stack[r]) + 1 /\ pc'[r] = to
         /\ \A i \in 1..Len(stack[r]) : stack'[r][i] = stack[r][i]
         /\ stack'[r][Len(stack[r]) + 1].page = cursor[r]
         /\ stack'[r][Len(stack[r]) + 1].todo = ChildrenOf(cursor[r])
         /\ stack'[r][Len(stack[r]) + 1].loaded = loaded
<1> DEFINE f == [page |-> cursor[r], todo |-> ChildrenOf(cursor[r]), loaded |-> loaded]
<1>1. f \in Frame
  BY DEF Frame, ChildrenOf
<1>2. stack[r] \in Seq(Frame) /\ Len(stack[r]) \in Nat
  BY DEF LocalType
<1>3. stack'[r] = Append(stack[r], f) /\ pc'[r] = to
  BY DEF Open, Goto, LocalType
<1>5. f.page = cursor[r] /\ f.todo = ChildrenOf(cursor[r]) /\ f.loaded = loaded
  OBVIOUS
<1> HIDE DEF f
<1>4. /\ Len(Append(stack[r], f)) = Len(stack[r]) + 1 /\ Append(stack[r], f)[Len(stack[r]) + 1] = f
      /\ \A i \in 1..Len(stack[r]) : Append(stack[r], f)[i] = stack[r][i]
  BY <1>1, <1>2
<1> QED BY <1>2, <1>3, <1>4, <1>5

(* What a handler on its way down a tree does not need to know.             *)
LEMMA CascadeKnows ==
  ASSUME NEW r \in Requests, pc'[r] \in {"descend", "cascade"}, call'[r].op = "visibility",
         FramesFresh(r)'
  PROVE  Knows(r)'
BY DEF Knows, Fresh, Intended, CleanColumns, MovePath, ParentFound, SlugFree, Collecting,
       Deleting, DeleteAllowed, TextAsked

LEMMA DeleteKnows ==
  ASSUME NEW r \in Requests, call'[r].op = "delete",
         pc'[r] \in {"collectVisit", "collect", "deleteVisit", "delete"},
         Collecting(r)', Deleting(r)', DeleteAllowed(r)'
  PROVE  Knows(r)'
BY DEF Knows, Fresh, Intended, CleanColumns, MovePath, ParentFound, SlugFree, FramesFresh,
       HasNewVersion, TextAsked

LEMMA OpenCascadeSerial ==
  ASSUME Inv, SerialInv, NEW r \in Requests, OpenCascade(r), Active(r)
  PROVE  Tables' /\ (Active(r)' => Knows(r)')
<1> DEFINE loaded == [k \in Pages |-> IF k \in ChildrenOf(cursor[r]) THEN pages[k] ELSE Null]
<1> LocalType /\ DbType /\ Knows(r) /\ pc[r] = "descend"
  BY TypeParts DEF Inv, SerialInv, OpenCascade, Open
<1>1. call[r].op = "visibility" /\ cursor[r] \in Pages
  BY DEF Inv, Control, Outcomes
<1>2. loaded \in [Pages -> Row \cup {Null}]
  BY DEF DbType
<1>3. Open(r, "descend", "cascade", loaded) /\ UNCHANGED <<db, call>>
  BY DEF OpenCascade, Open
<1> DEFINE n == Len(stack[r])
<1>4. /\ n \in Nat /\ Len(stack'[r]) = n + 1 /\ pc'[r] = "cascade"
      /\ \A i \in 1..n : stack'[r][i] = stack[r][i]
      /\ stack'[r][n + 1].loaded = loaded
  <2> HIDE DEF loaded
  <2> QED BY <1>1, <1>2, <1>3, OpenFrames
<1>5. ASSUME NEW f, FrameFresh(f)
      PROVE  FrameFresh(f)'
  BY <1>3, <1>5 DEF FrameFresh, db
<1>6. ASSUME NEW f, f.loaded = loaded
      PROVE  FrameFresh(f)
  <2> SUFFICES ASSUME NEW k \in Pages, loaded[k] # Null
               PROVE  /\ SamePlace(loaded[k], pages[k]) /\ SameText(loaded[k], pages[k])
                      /\ loaded[k].parentId = pages[k].parentId
    BY <1>6 DEF FrameFresh
  <2>1. loaded[k] = pages[k]
    OBVIOUS
  <2> HIDE DEF loaded
  <2>2. SamePlace(pages[k], pages[k])
    BY Zenon DEF SamePlace
  <2> QED BY <2>1, <2>2 DEF SameText
<1>7. \A i \in 1..n : FrameFresh(stack[r][i])
  BY <1>1 DEF Knows, FramesFresh
<1>8. \A i \in 1..n + 1 : FrameFresh(stack'[r][i])
  <2> HIDE DEF loaded, n
  <2> SUFFICES ASSUME NEW i \in 1..n + 1 PROVE FrameFresh(stack'[r][i])
    OBVIOUS
  <2>1. CASE i = n + 1
    BY <1>4, <1>6, <2>1
  <2>2. CASE i \in 1..n
    BY <1>4, <1>7, <2>2
  <2> QED BY <1>4, <2>1, <2>2
<1>9. FramesFresh(r)'
  <2> HIDE DEF loaded, n
  <2>1. (\A i \in 1..Len(stack[r]) : FrameFresh(stack[r][i]))'
    BY <1>3, <1>4, <1>8 DEF FrameFresh, db
  <2> QED BY <1>1, <1>3, <1>4, <2>1 DEF FramesFresh, HasNewVersion
<1> QED BY <1>1, <1>3, <1>4, <1>9, CascadeKnows, TablesStay DEF SerialInv

LEMMA CascadeSerial ==
  ASSUME Inv, SerialInv, NEW r \in Requests, Cascade(r), Active(r)
  PROVE  Tables' /\ (Active(r)' => Knows(r)')
<1> DEFINE n == Len(stack[r])
<1> LocalType /\ DbType /\ Knows(r) /\ pc[r] = "cascade"
  BY TypeParts DEF Inv, SerialInv, Cascade
<1>1. /\ call[r].op = "visibility" /\ n \in Nat \ {0} /\ Top(r) \in Frame
      /\ Len(Below(r)) = n - 1 /\ \A i \in 1..n - 1 : Below(r)[i] = stack[r][i]
  BY StackParts DEF Inv, Control, Outcomes
<1>2. \A i \in 1..n : FrameFresh(stack[r][i])
  BY <1>1 DEF Knows, FramesFresh
<1>3. CASE Reject(r, "ok")
  BY <1>3, RejectSerial DEF Outcomes
<1>4. CASE /\ stack' = [stack EXCEPT ![r] = Below(r)]
           /\ UNCHANGED <<db, pc, call, entity, anchor, text, cursor, dirty, ids>>
  <2>1. stack'[r] = Below(r)
    BY <1>4 DEF LocalType
  <2>2. (\A i \in 1..Len(stack[r]) : FrameFresh(stack[r][i]))'
    BY <1>1, <1>2, <1>4, <2>1 DEF FrameFresh, db
  <2>3. FramesFresh(r)'
    BY <1>1, <1>4, <2>2 DEF FramesFresh, HasNewVersion
  <2> QED BY <1>1, <1>4, <2>3, CascadeKnows, TablesStay DEF SerialInv
<1>5. ASSUME NEW k \in Top(r).todo,
             entity' = [entity EXCEPT ![r] = ChildSaved(r, k)],
             cursor' = [cursor EXCEPT ![r] = k],
             stack' = [stack EXCEPT ![r] = Visiting(r, k)],
             Goto(r, "select"), UNCHANGED <<db, call, anchor, text, dirty, ids>>
      PROVE  Tables' /\ Knows(r)'
  <2> DEFINE e == Top(r).loaded[k]
  <2>1. k \in Pages /\ Top(r) = stack[r][n] /\ n \in 1..n
    BY <1>1, <1>5 DEF Frame, Top
  <2>2. e # Null /\ e \in Row
    <3>1. FrameOwned(Top(r), TRUE)
      BY <1>1, <2>1 DEF Inv, StackOwned
    <3> QED BY <1>1, <1>5, <2>1, <3>1 DEF FrameOwned, Frame
  <2>3. /\ SamePlace(e, pages[k]) /\ SameText(e, pages[k]) /\ e.parentId = pages[k].parentId
    BY <1>2, <2>1, <2>2 DEF FrameFresh
  <2>4. /\ pc'[r] = "select" /\ cursor'[r] = k /\ call'[r] = call[r]
        /\ entity'[r] = [e EXCEPT !.visibility = call[r].visibility]
        /\ stack'[r] = Visiting(r, k)
    BY <1>5 DEF LocalType, Goto, ChildSaved
  <2> HIDE DEF e
  <2>5. /\ entity'[r].deleted = e.deleted /\ entity'[r].slug = e.slug
        /\ entity'[r].title = e.title /\ entity'[r].currentVersionId = e.currentVersionId
        /\ entity'[r].parentId = e.parentId /\ entity'[r].visibility = call[r].visibility
    BY <2>2, <2>4, Z3 DEF Row
  <2>6. SamePlace(entity'[r], pages[k])
    BY <2>3, <2>5, Zenon DEF SamePlace
  <2>7. Intended(r)'
    BY <1>1, <1>5, <2>3, <2>4, <2>5, <2>6 DEF Intended, SameText, db
  <2>8. FramesFresh(r)'
    <3>1. /\ Len(stack'[r]) = n /\ \A i \in 1..n - 1 : stack'[r][i] = stack[r][i]
          /\ \A j \in Pages : stack'[r][n].loaded[j] # Null =>
               stack'[r][n].loaded[j] = stack[r][n].loaded[j]
      BY <1>1, <2>1, <2>4, VisitingFrames
    <3>2. FrameFresh(stack'[r][n])
      BY <1>2, <2>1, <3>1 DEF FrameFresh
    <3>3. \A i \in 1..n : FrameFresh(stack'[r][i])
      BY <1>1, <1>2, <3>1, <3>2
    <3>4. (\A i \in 1..Len(stack[r]) : FrameFresh(stack[r][i]))'
      BY <1>5, <3>1, <3>3 DEF FrameFresh, db
    <3> QED BY <1>1, <2>4, <3>4 DEF FramesFresh, HasNewVersion
  <2> QED BY <1>1, <1>5, <2>4, <2>7, <2>8, TablesStay DEF SerialInv, Knows, Fresh, CleanColumns,
             MovePath, ParentFound, SlugFree, Collecting, Deleting, DeleteAllowed, TextAsked,
             HasNewVersion
<1> QED BY <1>3, <1>4, <1>5 DEF Cascade

(* Reading the children of a page closes the part of the tree it covers.    *)
LEMMA OpenCollectSerial ==
  ASSUME Inv, SerialInv, NEW r \in Requests, OpenCollect(r), Active(r)
  PROVE  Tables' /\ (Active(r)' => Knows(r)')
<1> DEFINE n == Len(stack[r])
<1> LocalType /\ DbType /\ Knows(r) /\ pc[r] = "collectVisit"
  BY TypeParts DEF Inv, SerialInv, OpenCollect, Open
<1>1. call[r].op = "delete" /\ cursor[r] \in Pages
  BY DEF Inv, Control, Outcomes
<1>2. NoEntity \in [Pages -> Row \cup {Null}]
  BY DEF NoEntity
<1>3. UNCHANGED <<db, call, cursor, ids>>
  BY DEF OpenCollect, Open
<1>4. /\ n \in Nat /\ Len(stack'[r]) = n + 1 /\ pc'[r] = "collect"
      /\ \A i \in 1..n : stack'[r][i] = stack[r][i]
      /\ stack'[r][n + 1].page = cursor[r]
      /\ stack'[r][n + 1].todo = ChildrenOf(cursor[r])
  BY <1>1, <1>2, OpenFrames DEF OpenCollect
<1>5. Collecting(r)'
  <2> SUFFICES ASSUME NEW x \in Doomed(r), NEW y \in ChildrenOf(x), y \notin ids[r]
               PROVE  \E i \in 1..n + 1 : stack'[r][i].page = x /\ y \in stack'[r][i].todo
    BY <1>3, <1>4, TablesStay DEF Collecting, Doomed
  <2>1. CASE x = cursor[r]
    BY <1>4, <2>1
  <2>2. CASE x # cursor[r]
    <3>1. PICK i \in 1..n : stack[r][i].page = x /\ y \in stack[r][i].todo
      BY <2>2 DEF Knows, Collecting
    <3> QED BY <1>4, <3>1
  <2> QED BY <2>1, <2>2
<1>6. Deleting(r)' /\ DeleteAllowed(r)'
  BY <1>3, <1>4 DEF Knows, Deleting, DeleteAllowed
<1> QED BY <1>1, <1>3, <1>4, <1>5, <1>6, DeleteKnows, TablesStay DEF SerialInv

LEMMA CollectSerial ==
  ASSUME Inv, SerialInv, NEW r \in Requests, Collect(r), Active(r)
  PROVE  Tables' /\ (Active(r)' => Knows(r)')
<1> DEFINE n == Len(stack[r])
<1> LocalType /\ DbType /\ Knows(r) /\ pc[r] = "collect"
  BY TypeParts DEF Inv, SerialInv, Collect
<1>1. /\ call[r].op = "delete" /\ n \in Nat \ {0} /\ Top(r) \in Frame /\ Top(r) = stack[r][n]
      /\ Len(Below(r)) = n - 1 /\ \A i \in 1..n - 1 : Below(r)[i] = stack[r][i]
      /\ call[r].page \in Deletable
  <2>1. call[r].op = "delete" /\ n # 0 /\ call[r].page \in Deletable
    BY DEF Inv, Control, Outcomes, Knows, DeleteAllowed
  <2> QED BY <2>1, StackParts DEF Top
<1>2. \A x \in Doomed(r) : \A y \in ChildrenOf(x) :
        y \in ids[r] \/ \E i \in 1..n : stack[r][i].page = x /\ y \in stack[r][i].todo
  BY DEF Knows, Collecting
<1>3. ASSUME NEW k \in Top(r).todo,
             ids' = [ids EXCEPT ![r] = @ \cup {k}],
             cursor' = [cursor EXCEPT ![r] = k],
             stack' = [stack EXCEPT ![r] = Visiting(r, k)],
             Goto(r, "collectVisit"), UNCHANGED <<db, call, entity, anchor, text, dirty>>
      PROVE  Tables' /\ Knows(r)'
  <2>1. k \in Pages
    BY <1>1, <1>3 DEF Frame
  <2>2. /\ pc'[r] = "collectVisit" /\ cursor'[r] = k /\ call'[r] = call[r]
        /\ ids'[r] = ids[r] \cup {k} /\ stack'[r] = Visiting(r, k)
    BY <1>3 DEF LocalType, Goto
  <2>3. /\ Len(stack'[r]) = n /\ \A i \in 1..n - 1 : stack'[r][i] = stack[r][i]
        /\ stack'[r][n].page = stack[r][n].page
        /\ stack'[r][n].todo = stack[r][n].todo \ {k}
    BY <1>1, <2>1, <2>2, VisitingFrames
  <2>4. Collecting(r)'
    <3> SUFFICES ASSUME NEW x \in Doomed(r) \cup {k}, NEW y \in ChildrenOf(x),
                        y \notin ids[r] \cup {k}, x # k
                 PROVE  \E i \in 1..n : stack'[r][i].page = x /\ y \in stack'[r][i].todo
      BY <1>3, <2>2, <2>3, TablesStay DEF Collecting, Doomed
    <3>1. PICK i \in 1..n : stack[r][i].page = x /\ y \in stack[r][i].todo
      BY <1>2
    <3>2. stack'[r][i].page = x /\ y \in stack'[r][i].todo
      BY <1>1, <2>3, <3>1
    <3> QED BY <3>2
  <2>5. Deleting(r)' /\ DeleteAllowed(r)'
    BY <1>1, <2>2 DEF Deleting, DeleteAllowed
  <2> QED BY <1>1, <1>3, <2>2, <2>4, <2>5, DeleteKnows, TablesStay DEF SerialInv
<1>4. CASE /\ Top(r).todo = {} /\ stack' = [stack EXCEPT ![r] = Below(r)]
           /\ UNCHANGED <<db, pc, call, entity, anchor, text, cursor, dirty, ids>>
  <2>1. stack'[r] = Below(r)
    BY <1>4 DEF LocalType
  <2>2. Collecting(r)'
    <3> SUFFICES ASSUME NEW x \in Doomed(r), NEW y \in ChildrenOf(x), y \notin ids[r]
                 PROVE  \E i \in 1..n - 1 : stack'[r][i].page = x /\ y \in stack'[r][i].todo
      BY <1>1, <1>4, <2>1, TablesStay DEF Collecting, Doomed
    <3>1. PICK i \in 1..n : stack[r][i].page = x /\ y \in stack[r][i].todo
      BY <1>2
    <3>2. i \in 1..n - 1
      BY <1>1, <1>4, <3>1
    <3> QED BY <1>1, <2>1, <3>1, <3>2
  <2>3. Deleting(r)' /\ DeleteAllowed(r)'
    BY <1>1, <1>4 DEF Deleting, DeleteAllowed
  <2> QED BY <1>1, <1>4, <2>2, <2>3, DeleteKnows, TablesStay DEF SerialInv
<1>5. CASE /\ Top(r).todo = {} /\ n = 1 /\ AllDeletable(ids[r])
           /\ cursor' = [cursor EXCEPT ![r] = call[r].page]
           /\ stack' = [stack EXCEPT ![r] = <<>>]
           /\ Goto(r, "deleteVisit")
           /\ UNCHANGED <<db, call, entity, anchor, text, dirty, ids>>
  <2>1. /\ pc'[r] = "deleteVisit" /\ cursor'[r] = call[r].page /\ stack'[r] = <<>>
        /\ call'[r] = call[r] /\ ids'[r] = ids[r]
    BY <1>5 DEF LocalType, Goto
  <2>2. \A x \in Doomed(r) : ChildrenOf(x) \subseteq ids[r]
    BY <1>1, <1>2, <1>5
  <2>3. Deleting(r)'
    BY <1>1, <1>5, <2>1, <2>2, TablesStay DEF Deleting, Doomed, AllDeletable
  <2>4. Collecting(r)' /\ DeleteAllowed(r)'
    BY <2>1 DEF Collecting, DeleteAllowed
  <2> QED BY <1>1, <1>5, <2>1, <2>3, <2>4, DeleteKnows, TablesStay DEF SerialInv
<1>6. CASE Reject(r, "forbidden")
  BY <1>6, RejectSerial DEF Outcomes
<1> QED BY <1>3, <1>4, <1>5, <1>6 DEF Collect

LEMMA FindChildrenSerial ==
  ASSUME Inv, SerialInv, NEW r \in Requests, FindChildren(r), Active(r)
  PROVE  Tables' /\ (Active(r)' => Knows(r)')
<1> LocalType /\ Knows(r) /\ pc[r] = "children"
  BY TypeParts DEF Inv, SerialInv, FindChildren
<1>0. /\ call[r].op = "delete" /\ cursor[r] = call[r].page /\ ids[r] = {} /\ stack[r] = <<>>
      /\ call[r].page \in Deletable
  BY DEF Inv, Control, Outcomes, Knows, DeleteAllowed, FramesFresh
<1>1. CASE Reject(r, "hasChildren")
  BY <1>1, RejectSerial DEF Outcomes
<1>2. CASE /\ ~Blocked(r)
           /\ Goto(r, IF call[r].cascade THEN "collectVisit" ELSE "softDelete")
           /\ UNCHANGED <<db, call, entity, anchor, text, cursor, dirty, stack, ids>>
  <2>1. pc'[r] = IF call[r].cascade THEN "collectVisit" ELSE "softDelete"
    BY <1>2 DEF LocalType, Goto
  <2>2. CASE call[r].cascade
    <3>1. Collecting(r)'
      BY <1>0, <1>2, <2>1, <2>2 DEF Collecting, Doomed
    <3>2. Deleting(r)' /\ DeleteAllowed(r)'
      BY <1>0, <1>2, <2>1, <2>2 DEF Deleting, DeleteAllowed
    <3> QED BY <1>0, <1>2, <2>1, <2>2, <3>1, <3>2, DeleteKnows, TablesStay DEF SerialInv
  <2>3. CASE ~call[r].cascade
    <3>1. ChildrenOf(cursor[r])' = {}
      BY <1>0, <1>2, <2>3 DEF Blocked, ChildrenOf, Live, db
    <3>2. DeleteAllowed(r)'
      BY <1>0, <1>2, <2>1, <2>3, <3>1 DEF DeleteAllowed
    <3> QED BY <1>0, <1>2, <2>1, <2>3, <3>2, TablesStay DEF SerialInv, Knows, Fresh, Intended,
               CleanColumns, MovePath, ParentFound, SlugFree, FramesFresh, Collecting, Deleting,
               TextAsked, HasNewVersion
  <2> QED BY <2>2, <2>3
<1> QED BY <1>1, <1>2 DEF FindChildren

(* Deleting a page without children that can be found keeps the tree.       *)
LEMMA SoftDeletedTables ==
  ASSUME DbType, Tables, NEW p \in Pages, ChildrenOf(p) = {}, pages' = SoftDeleted(p),
         UNCHANGED versions
  PROVE  /\ Tables'
         /\ \A q \in Pages : Live(q)' <=> (Live(q) /\ q # p)
         /\ \A q : ChildrenOf(q)' = ChildrenOf(q) \ {p}
<1>1. \A q \in Pages \ {p} : pages'[q] = pages[q]
  BY DEF SoftDeleted, DbType
<1>2. CASE pages[p] = Null
  <2>1. \A q \in Pages : pages'[q] = pages[q]
    BY <1>1, <1>2 DEF SoftDeleted, DbType
  <2>2. pages' = pages
    BY <2>1 DEF SoftDeleted, DbType
  <2>3. Tables'
    BY <2>2, TablesStay DEF db
  <2>4. ~Live(p)
    BY <1>2 DEF Live
  <2> QED BY <2>2, <2>3, <2>4 DEF Live, ChildrenOf
<1>3. CASE pages[p] # Null
  <2>1. pages[p] \in Row /\ pages'[p] = [pages[p] EXCEPT !.deleted = TRUE]
    BY <1>3 DEF SoftDeleted, DbType
  <2>2. /\ pages'[p] # Null /\ pages'[p].slug = pages[p].slug /\ pages'[p].deleted
        /\ pages'[p].parentId = pages[p].parentId /\ pages'[p].title = pages[p].title
        /\ pages'[p].currentVersionId = pages[p].currentVersionId
    <3>1. [pages[p] EXCEPT !.deleted = TRUE] \in Row
      BY <2>1 DEF Row
    <3> QED BY <2>1, <3>1, NullAssumption DEF Row
  <2>3. \A q \in Pages : Live(q)' <=> (Live(q) /\ q # p)
    BY <1>1, <2>2 DEF Live
  <2>4. \A q : ChildrenOf(q)' = ChildrenOf(q) \ {p}
    BY <1>1, <2>2, <2>3 DEF ChildrenOf
  <2>5. ParentsExist(pages)' /\ Acyclic'
    <3>1. \A q \in Pages : /\ pages'[q] = Null <=> pages[q] = Null
                           /\ pages[q] # Null => pages'[q].parentId = pages[q].parentId
      BY <1>1, <1>3, <2>2
    <3>2. pages \in Rows
      BY DEF DbType, Rows
    <3> QED BY <3>1, <3>2, TreeStays DEF Tables, Acyclic
  <2>6. \A q \in Pages : Findable(pages, q)' <=> (Findable(pages, q) /\ q # p)
    BY <2>3 DEF Findable, Live
  <2>7. LiveParent'
    <3>1. \A q \in Pages : Findable(pages, q) => pages[q].parentId # p
      BY DEF ChildrenOf, Live, Findable
    <3>2. \A q \in Pages : pages[q] # Null => pages[q].parentId \in Pages \cup {Null}
      BY DEF DbType, Row
    <3>3. \A q \in Pages : Findable(pages, q) => pages[q] # Null
      BY DEF Findable
    <3> QED BY <1>1, <2>6, <3>1, <3>2, <3>3 DEF LiveParent, ParentsFindable, Tables
  <2>8. LiveSlugsUnique'
    BY <1>1, <2>6 DEF LiveSlugsUnique, PathsUnique, Tables
  <2>9. TitleOfCurrentVersion'
    BY <1>1, <1>3, <2>2 DEF TitleOfCurrentVersion, TitlesCurrent, Tables
  <2> QED BY <2>3, <2>4, <2>5, <2>7, <2>8, <2>9 DEF Tables
<1> QED BY <1>2, <1>3

LEMMA SoftDeleteSerial ==
  ASSUME Inv, SerialInv, NEW r \in Requests, SoftDelete(r), Active(r)
  PROVE  Tables' /\ (Active(r)' => Knows(r)')
<1>1. LocalType /\ DbType /\ Knows(r) /\ Tables /\ cursor[r] \in Pages /\ pc[r] = "softDelete"
  BY TypeParts DEF Inv, SerialInv, SoftDelete, Control, Outcomes
<1>2. ChildrenOf(cursor[r]) = {}
  BY <1>1 DEF Knows, DeleteAllowed
<1> QED BY <1>1, <1>2, SoftDeletedTables, AnswerEnds DEF SoftDelete, Outcomes

LEMMA OpenDeleteSerial ==
  ASSUME Inv, SerialInv, NEW r \in Requests, OpenDelete(r), Active(r)
  PROVE  Tables' /\ (Active(r)' => Knows(r)')
<1> DEFINE n == Len(stack[r])
<1> LocalType /\ DbType /\ Knows(r) /\ pc[r] = "deleteVisit"
  BY TypeParts DEF Inv, SerialInv, OpenDelete, Open
<1>1. call[r].op = "delete" /\ cursor[r] \in Pages
  BY DEF Inv, Control, Outcomes
<1>2. NoEntity \in [Pages -> Row \cup {Null}]
  BY DEF NoEntity
<1>3. UNCHANGED <<db, call, cursor, ids>>
  BY DEF OpenDelete, Open
<1>4. /\ n \in Nat /\ Len(stack'[r]) = n + 1 /\ pc'[r] = "delete"
      /\ \A i \in 1..n : stack'[r][i] = stack[r][i]
      /\ stack'[r][n + 1].page = cursor[r]
      /\ stack'[r][n + 1].todo = ChildrenOf(cursor[r])
  BY <1>1, <1>2, OpenFrames DEF OpenDelete
<1>5. /\ Doomed(r) \subseteq Deletable
      /\ \A x \in Doomed(r) : ChildrenOf(x) \subseteq Doomed(r)
      /\ cursor[r] \in Doomed(r)
  BY DEF Knows, Deleting
<1>6. ASSUME NEW i \in 1..n + 1
      PROVE  LET below == IF i < n + 1 THEN {stack'[r][i + 1].page} ELSE {}
             IN /\ stack'[r][i].page \in Doomed(r)
                /\ stack'[r][i].todo \subseteq Doomed(r)
                /\ ChildrenOf(stack'[r][i].page) \subseteq stack'[r][i].todo \cup below
  <2>1. CASE i = n + 1
    BY <1>4, <1>5, <2>1
  <2>2. CASE i = n
    BY <1>4, <2>2 DEF Knows, Deleting
  <2>3. CASE i \in 1..n - 1
    <3>1. /\ i \in 1..n /\ i + 1 \in 1..n /\ i < n /\ i < n + 1
          /\ stack'[r][i] = stack[r][i] /\ stack'[r][i + 1] = stack[r][i + 1]
      BY <1>4, <2>3
    <3>2. /\ stack[r][i].page \in Doomed(r) /\ stack[r][i].todo \subseteq Doomed(r)
          /\ ChildrenOf(stack[r][i].page) \subseteq stack[r][i].todo \cup {stack[r][i + 1].page}
      BY <3>1 DEF Knows, Deleting
    <3> QED BY <3>1, <3>2
  <2> QED BY <1>4, <2>1, <2>2, <2>3
<1>7. Deleting(r)'
  BY <1>3, <1>4, <1>5, <1>6, TablesStay DEF Deleting, Doomed
<1>8. Collecting(r)' /\ DeleteAllowed(r)'
  BY <1>4 DEF Collecting, DeleteAllowed
<1> QED BY <1>1, <1>3, <1>4, <1>7, <1>8, DeleteKnows, TablesStay DEF SerialInv

(* The page of the top frame goes when none of its children is left: the     *)
(* frame below then accounts for one child less.                            *)
LEMMA DeleteRecursiveSerial ==
  ASSUME Inv, SerialInv, NEW r \in Requests, DeleteRecursive(r), Active(r)
  PROVE  Tables' /\ (Active(r)' => Knows(r)')
<1> DEFINE n == Len(stack[r])
<1> LocalType /\ DbType /\ Knows(r) /\ Tables /\ pc[r] = "delete"
  BY TypeParts DEF Inv, SerialInv, DeleteRecursive
<1>1. /\ call[r].op = "delete" /\ n \in Nat \ {0} /\ Top(r) \in Frame /\ Top(r) = stack[r][n]
      /\ Len(Below(r)) = n - 1 /\ \A i \in 1..n - 1 : Below(r)[i] = stack[r][i]
  <2>1. call[r].op = "delete" /\ n # 0
    BY DEF Inv, Control, Outcomes
  <2> QED BY <2>1, StackParts DEF Top
<1>2. /\ Doomed(r) \subseteq Deletable
      /\ \A x \in Doomed(r) : ChildrenOf(x) \subseteq Doomed(r)
      /\ \A i \in 1..n : stack[r][i].page \in Doomed(r) /\ stack[r][i].todo \subseteq Doomed(r)
      /\ ChildrenOf(stack[r][n].page) \subseteq stack[r][n].todo
      /\ \A i \in 1..n - 1 :
           ChildrenOf(stack[r][i].page) \subseteq stack[r][i].todo \cup {stack[r][i + 1].page}
  BY <1>1 DEF Knows, Deleting
<1>3. ASSUME NEW k \in Top(r).todo,
             cursor' = [cursor EXCEPT ![r] = k],
             stack' = [stack EXCEPT ![r] = Visiting(r, k)],
             Goto(r, "deleteVisit"), UNCHANGED <<db, call, entity, anchor, text, dirty, ids>>
      PROVE  Tables' /\ Knows(r)'
  <2>1. k \in Pages
    BY <1>1, <1>3 DEF Frame
  <2>2. /\ pc'[r] = "deleteVisit" /\ cursor'[r] = k /\ call'[r] = call[r]
        /\ stack'[r] = Visiting(r, k)
    BY <1>3 DEF LocalType, Goto
  <2>3. /\ Len(stack'[r]) = n /\ \A i \in 1..n - 1 : stack'[r][i] = stack[r][i]
        /\ stack'[r][n].page = stack[r][n].page
        /\ stack'[r][n].todo = stack[r][n].todo \ {k}
    BY <1>1, <2>1, <2>2, VisitingFrames
  <2>4. \A i \in 1..n : stack'[r][i].page = stack[r][i].page
    BY <1>1, <2>3
  <2>5. ASSUME NEW i \in 1..n
        PROVE  LET below == IF i < n THEN {stack'[r][i + 1].page} ELSE {k}
               IN /\ stack'[r][i].page \in Doomed(r)
                  /\ stack'[r][i].todo \subseteq Doomed(r)
                  /\ ChildrenOf(stack'[r][i].page) \subseteq stack'[r][i].todo \cup below
    <3>1. CASE i = n
      BY <1>1, <1>2, <2>3, <3>1
    <3>2. CASE i \in 1..n - 1
      <4>1. i \in 1..n /\ i + 1 \in 1..n /\ i < n
        BY <1>1, <3>2
      <4> QED BY <1>2, <2>3, <2>4, <3>2, <4>1
    <3> QED BY <1>1, <3>1, <3>2
  <2>6. k \in Doomed(r)
    BY <1>1, <1>2, <1>3
  <2>7. Deleting(r)'
    BY <1>2, <1>3, <2>2, <2>3, <2>5, <2>6, TablesStay DEF Deleting, Doomed
  <2>8. Collecting(r)' /\ DeleteAllowed(r)'
    BY <2>2 DEF Collecting, DeleteAllowed
  <2> QED BY <1>1, <1>3, <2>2, <2>7, <2>8, DeleteKnows, TablesStay DEF SerialInv
<1>4. CASE /\ Top(r).todo = {} /\ pages' = SoftDeleted(Top(r).page) /\ UNCHANGED versions
           /\ IF n = 1 THEN Answer(r, "ok")
              ELSE /\ stack' = [stack EXCEPT ![r] = Below(r)]
                   /\ UNCHANGED <<pc, call, entity, anchor, text, cursor, dirty, ids>>
  <2> DEFINE p == stack[r][n].page
  <2>1. p \in Pages /\ ChildrenOf(p) = {} /\ p = Top(r).page
    BY <1>1, <1>2, <1>4 DEF Frame
  <2>2. Tables' /\ \A q : ChildrenOf(q)' = ChildrenOf(q) \ {p}
    BY <1>4, <2>1, SoftDeletedTables
  <2>3. CASE n = 1
    BY <1>4, <2>2, <2>3, AnswerEnds DEF Outcomes
  <2>4. CASE n # 1
    <3>1. stack'[r] = Below(r) /\ UNCHANGED <<pc, call, cursor, ids>>
      BY <1>4, <2>4 DEF LocalType
    <3>2. \A i \in 1..n - 1 : stack'[r][i] = stack[r][i]
      BY <1>1, <3>1
    <3>3. ASSUME NEW i \in 1..n - 1
          PROVE  LET below == IF i < n - 1 THEN {stack'[r][i + 1].page} ELSE {}
                 IN /\ stack'[r][i].page \in Doomed(r)
                    /\ stack'[r][i].todo \subseteq Doomed(r)
                    /\ ChildrenOf(stack[r][i].page) \ {p} \subseteq stack'[r][i].todo \cup below
      <4>1. i \in 1..n /\ stack'[r][i] = stack[r][i]
        BY <1>1, <3>2
      <4>2. CASE i = n - 1
        BY <1>1, <1>2, <4>1, <4>2
      <4>3. CASE i < n - 1
        <5>1. i + 1 \in 1..n - 1 /\ stack'[r][i + 1] = stack[r][i + 1]
          BY <1>1, <3>2, <4>3
        <5> QED BY <1>2, <4>1, <4>3, <5>1
      <4> QED BY <1>1, <4>2, <4>3
    <3>4. Deleting(r)'
      BY <1>1, <1>2, <2>2, <3>1, <3>2, <3>3 DEF Deleting, Doomed
    <3>5. Collecting(r)' /\ DeleteAllowed(r)'
      BY <3>1 DEF Collecting, DeleteAllowed
    <3> QED BY <1>1, <2>2, <3>1, <3>4, <3>5, DeleteKnows
  <2> QED BY <2>3, <2>4
<1> QED BY <1>3, <1>4 DEF DeleteRecursive

-----------------------------------------------------------------------------
LEMMA StepSerial ==
  ASSUME Inv, SerialInv, NEW r \in Requests, Begin(r) \/ Step(r)
  PROVE  Tables' /\ (Active(r)' => Knows(r)')
<1>1. CASE Begin(r)
  BY <1>1, BeginSerial
<1>2. CASE Step(r)
  <2>1. Active(r)
    BY <1>2 DEF Step, Load, Authorize, MergeWithBase, Walk, CheckSlug, Insert, Select,
       CommitVersion, WriteRow, OpenCascade, Open, Cascade, FindChildren, SoftDelete,
       OpenCollect, Collect, OpenDelete, DeleteRecursive, Active, Outcomes
  <2> QED BY <1>2, <2>1, LoadSerial, AuthorizeSerial, MergeSerial, WalkSerial, CheckSlugSerial,
             InsertSerial, SelectSerial, CommitVersionSerial, WriteRowSerial, OpenCascadeSerial,
             CascadeSerial, FindChildrenSerial, SoftDeleteSerial, OpenCollectSerial,
             CollectSerial, OpenDeleteSerial, DeleteRecursiveSerial DEF Step
<1> QED BY <1>1, <1>2

(* A step of one handler leaves what the others have collected.             *)
LEMMA IdsStay ==
  ASSUME Inv, NEW r \in Requests, Begin(r) \/ Step(r), NEW o \in Requests \ {r}
  PROVE  ids'[o] = ids[o]
<1> LocalType
  BY TypeParts DEF Inv
<1>1. CASE Begin(r) \/ Load(r) \/ Authorize(r) \/ MergeWithBase(r) \/ Walk(r) \/ CheckSlug(r)
  BY <1>1 DEF Begin, Load, Authorize, MergeWithBase, Walk, CheckSlug, Reject, Answer, LocalType
<1>2. CASE Insert(r) \/ Select(r) \/ CommitVersion(r) \/ WriteRow(r) \/ OpenCascade(r) \/ Cascade(r)
  BY <1>2 DEF Insert, Select, CommitVersion, WriteRow, OpenCascade, Open, Cascade, Reject, Answer,
              locals, LocalType
<1>3. CASE FindChildren(r) \/ SoftDelete(r) \/ OpenCollect(r) \/ Collect(r) \/ OpenDelete(r)
           \/ DeleteRecursive(r)
  BY <1>3 DEF FindChildren, SoftDelete, OpenCollect, Open, Collect, OpenDelete, DeleteRecursive,
              Reject, Answer, LocalType
<1> QED BY <1>1, <1>2, <1>3 DEF Step

LEMMA NeverIdleAgain ==
  ASSUME Inv, NEW r \in Requests, Begin(r) \/ Step(r)
  PROVE  pc'[r] # "idle"
<1> LocalType
  BY TypeParts DEF Inv
<1>1. CASE Begin(r) \/ Load(r) \/ Authorize(r) \/ MergeWithBase(r) \/ Walk(r) \/ CheckSlug(r)
  BY <1>1 DEF Begin, Load, Authorize, MergeWithBase, Walk, CheckSlug, Reject, Answer, Goto, LocalType
<1>2. CASE Insert(r) \/ Select(r) \/ CommitVersion(r) \/ WriteRow(r) \/ OpenCascade(r) \/ Cascade(r)
  BY <1>2 DEF Insert, Select, CommitVersion, WriteRow, OpenCascade, Open, Cascade, Reject, Answer,
              Goto, locals, LocalType
<1>3. CASE FindChildren(r) \/ SoftDelete(r) \/ OpenCollect(r) \/ Collect(r) \/ OpenDelete(r)
           \/ DeleteRecursive(r)
  BY <1>3 DEF FindChildren, SoftDelete, OpenCollect, Open, Collect, OpenDelete, DeleteRecursive,
              Reject, Answer, Goto, LocalType
<1> QED BY <1>1, <1>2, <1>3 DEF Step

LEMMA InitSerial == Init => SerialInv
<1> SUFFICES ASSUME Init PROVE SerialInv
  OBVIOUS
<1>1. \A r \in Requests : ~Active(r) /\ Untouched(r)
  BY DEF Init, Active, Untouched
<1>2. Tables
  BY BuiltSeedsAssumption DEF Init, Tables, Acyclic, LiveParent, LiveSlugsUnique,
     TitleOfCurrentVersion
<1> QED BY <1>1, <1>2 DEF SerialInv, OneAtATime

LEMMA NextSerial == Inv /\ SerialInv /\ [SerialNext]_vars => SerialInv'
<1> SUFFICES ASSUME Inv, SerialInv, [SerialNext]_vars
             PROVE  SerialInv'
  OBVIOUS
<1>1. CASE UNCHANGED vars
  <2>1. UNCHANGED db /\ Tables'
    BY <1>1, TablesStay DEF vars, db, SerialInv
  <2>2. \A r \in Requests : /\ Active(r)' <=> Active(r)
                            /\ Untouched(r)' <=> Untouched(r)
    BY <1>1 DEF vars, Active, Untouched
  <2>3. ASSUME NEW r \in Requests, Knows(r)
        PROVE  Knows(r)'
    <3> UNCHANGED vars /\ UNCHANGED db
      BY <1>1, <2>1
    <3>1. Fresh(r)' /\ Intended(r)' /\ CleanColumns(r)' /\ ParentFound(r)' /\ SlugFree(r)'
      BY <2>3 DEF Knows, Fresh, Intended, CleanColumns, ParentFound, SlugFree, SlugTaken, Live,
                  SamePlace, HasNewVersion, vars
    <3>2. MovePath(r)'
      BY <2>3 DEF Knows, MovePath, Ancestors, Live, vars
    <3>3. FramesFresh(r)'
      BY <2>3 DEF Knows, FramesFresh, FrameFresh, HasNewVersion, vars
    <3>4. Collecting(r)' /\ Deleting(r)' /\ DeleteAllowed(r)'
      BY <2>3, TablesStay DEF Knows, Collecting, Deleting, DeleteAllowed, Doomed, vars
    <3>5. TextAsked(r)'
      BY <2>3, TextStays DEF Knows, TextAsked, HasNewVersion, vars
    <3> QED BY <3>1, <3>2, <3>3, <3>4, <3>5 DEF Knows
  <2>4. OneAtATime'
    BY <2>2 DEF SerialInv, OneAtATime
  <2> QED BY <2>1, <2>2, <2>3, <2>4 DEF SerialInv
<1>2. ASSUME NEW r \in Requests, Alone(r), Begin(r) \/ Step(r)
      PROVE  SerialInv'
  <2>1. Tables' /\ (Active(r)' => Knows(r)')
    BY <1>2, StepSerial
  <2>2. \A o \in Requests \ {r} : ~Active(o)' /\ Untouched(o)'
    <3> SUFFICES ASSUME NEW o \in Requests \ {r}
                 PROVE  ~Active(o)' /\ Untouched(o)'
      OBVIOUS
    <3>1. Same(o) /\ ids'[o] = ids[o] /\ ~Active(o) /\ Untouched(o)
      BY <1>2, StepFrame, IdsStay DEF Alone, SerialInv
    <3> QED BY <3>1 DEF Same, Active, Untouched
  <2>3. Untouched(r)'
    BY <1>2, NeverIdleAgain DEF Untouched
  <2>4. OneAtATime'
    BY <2>2 DEF OneAtATime
  <2> QED BY <2>1, <2>2, <2>3, <2>4 DEF SerialInv
<1> QED BY <1>1, <1>2 DEF SerialNext

LEMMA SerialIsSpec == SerialSpec => Spec
<1>1. [SerialNext]_vars => [Next]_vars
  BY DEF SerialNext, Next
<1> QED BY <1>1, PTL DEF SerialSpec, Spec

LEMMA SerialInvariance == SerialSpec => [](Inv /\ SerialInv)
<1> QED BY SerialIsSpec, Invariance, InitSerial, NextSerial, PTL DEF SerialSpec

(* Whatever pages are created, moved and deleted one request at a time, the  *)
(* parents of a page never lead back to it (CircularReference of movePage). *)
THEOREM MovesCloseNoCycle == SerialSpec => []Acyclic
<1>1. SerialInv => Acyclic
  BY DEF SerialInv, Tables
<1> QED BY <1>1, SerialInvariance, PTL

(* No create, move or cascade leaves a page that can be found under one that *)
(* cannot, not even between two steps of deleteRecursive.                   *)
THEOREM ParentsOfLiveAreLive == SerialSpec => []LiveParent
<1>1. SerialInv => LiveParent
  BY DEF SerialInv, Tables
<1> QED BY <1>1, SerialInvariance, PTL

(* A path of slugs names one page, at the root too, where the unique index  *)
(* of the table says nothing.                                               *)
THEOREM PathsNameOnePage == SerialSpec => []LiveSlugsUnique
<1>1. SerialInv => LiveSlugsUnique
  BY DEF SerialInv, Tables
<1> QED BY <1>1, SerialInvariance, PTL

(* The denormalised title of a row is the title of its current version.     *)
THEOREM TitleIsCurrent == SerialSpec => []TitleOfCurrentVersion
<1>1. SerialInv => TitleOfCurrentVersion
  BY DEF SerialInv, Tables
<1> QED BY <1>1, SerialInvariance, PTL

-----------------------------------------------------------------------------
(* What one step does to the rows.                                          *)

LEMMA CallStays ==
  ASSUME Inv, NEW r \in Requests, Step(r)
  PROVE  call' = call
<1>1. CASE Load(r) \/ Authorize(r) \/ MergeWithBase(r) \/ Walk(r) \/ CheckSlug(r)
  BY <1>1 DEF Load, Authorize, MergeWithBase, Walk, CheckSlug, Reject, Answer
<1>2. CASE Insert(r) \/ Select(r) \/ CommitVersion(r) \/ WriteRow(r) \/ OpenCascade(r) \/ Cascade(r)
  BY <1>2 DEF Insert, Select, CommitVersion, WriteRow, OpenCascade, Open, Cascade, Reject, Answer,
              locals
<1>3. CASE FindChildren(r) \/ SoftDelete(r) \/ OpenCollect(r) \/ Collect(r) \/ OpenDelete(r)
           \/ DeleteRecursive(r)
  BY <1>3 DEF FindChildren, SoftDelete, OpenCollect, Open, Collect, OpenDelete, DeleteRecursive,
              Reject, Answer
<1> QED BY <1>1, <1>2, <1>3 DEF Step

LEMMA StepActive ==
  ASSUME NEW r \in Requests, Step(r)
  PROVE  Active(r) /\ pc[r] \notin Outcomes
BY DEF Step, Load, Authorize, MergeWithBase, Walk, CheckSlug, Insert, Select, CommitVersion,
   WriteRow, OpenCascade, Open, Cascade, FindChildren, SoftDelete, OpenCollect, Collect,
   OpenDelete, DeleteRecursive, Active, Outcomes

LEMMA PagesChange ==
  ASSUME NEW r \in Requests, Begin(r) \/ Step(r)
  PROVE  \/ UNCHANGED db
         \/ Insert(r) \/ CommitVersion(r) \/ WriteRow(r) \/ SoftDelete(r) \/ DeleteRecursive(r)
<1>1. CASE Begin(r) \/ Load(r) \/ Authorize(r) \/ MergeWithBase(r) \/ Walk(r) \/ CheckSlug(r)
           \/ Select(r)
  BY <1>1 DEF Begin, Load, Authorize, MergeWithBase, Walk, CheckSlug, Select, Reject
<1>2. CASE OpenCascade(r) \/ Cascade(r) \/ FindChildren(r) \/ OpenCollect(r) \/ Collect(r)
           \/ OpenDelete(r)
  BY <1>2 DEF OpenCascade, Open, Cascade, FindChildren, OpenCollect, Collect, OpenDelete, Reject
<1> QED BY <1>1, <1>2 DEF Step

(* The row a save leaves, field by field.                                   *)
LEMMA SavedRow ==
  ASSUME Inv, SerialInv, NEW r \in Requests, CommitVersion(r) \/ WriteRow(r), ~UNCHANGED db
  PROVE  LET p == cursor[r]
         IN /\ p \in Pages /\ pages[p] # Null /\ pages'[p] # Null
            /\ \A q \in Pages \ {p} : pages'[q] = pages[q]
            /\ SamePlace(pages'[p], pages[p])
            /\ WriteRow(r) => pages'[p].currentVersionId = pages[p].currentVersionId
            /\ pages'[p].visibility = IF call[r].op = "visibility" THEN call[r].visibility
                                      ELSE pages[p].visibility
<1> DEFINE p   == cursor[r]
           row == Updated(r)
<1> LocalType /\ DbType /\ CurrentVersionOwned /\ pc[r] = "write"
  BY TypeParts DEF Inv, CommitVersion, WriteRow
<1>1. Knows(r) /\ Holds(r, p) /\ p \in Pages /\ pages[p] # Null
  BY DEF SerialInv, Active, Outcomes, Inv, Control, Holds
<1>2. /\ SamePlace(row, pages[p]) /\ row \in Row
      /\ row.currentVersionId = pages[p].currentVersionId
      /\ row.visibility = IF call[r].op = "visibility" THEN call[r].visibility
                          ELSE pages[p].visibility
  BY <1>1, UpdatedAsIntended DEF Knows
<1>3. ~Reject(r, "slugTaken")
  BY DEF Reject
<1>4. CASE WriteRow(r)
  <2>1. pages' = [pages EXCEPT ![p] = row]
    BY <1>3, <1>4 DEF WriteRow
  <2> HIDE DEF row
  <2> QED BY <1>1, <1>2, <2>1, NullAssumption DEF DbType
<1>5. CASE CommitVersion(r)
  <2>1. PICK v \in Versions : pages' = [pages EXCEPT ![p] = [row EXCEPT !.currentVersionId = v]]
    BY <1>3, <1>5 DEF CommitVersion
  <2>2. ~WriteRow(r)
    BY <1>5 DEF CommitVersion, WriteRow
  <2> DEFINE new == [row EXCEPT !.currentVersionId = v]
  <2> HIDE DEF row
  <2>3. new \in Row /\ new.slug = row.slug /\ new.visibility = row.visibility
    BY <1>2 DEF Row
  <2>4. new.deleted = row.deleted
    BY <1>2, Z3 DEF Row
  <2>5. pages'[p] = new /\ \A q \in Pages \ {p} : pages'[q] = pages[q]
    BY <1>1, <2>1 DEF DbType
  <2> HIDE DEF new
  <2>6. SamePlace(new, pages[p])
    BY <1>2, <2>3, <2>4, Zenon DEF SamePlace
  <2> QED BY <1>1, <1>2, <2>2, <2>3, <2>5, <2>6, NullAssumption
<1> QED BY <1>4, <1>5

LEMMA DeletedPage ==
  ASSUME Inv, SerialInv, NEW r \in Requests, SoftDelete(r) \/ DeleteRecursive(r), ~UNCHANGED db
  PROVE  \E p \in Pages \cap Deletable : pages' = SoftDeleted(p) /\ UNCHANGED versions
<1> LocalType /\ Knows(r)
  BY TypeParts DEF Inv, SerialInv, Active, Outcomes, SoftDelete, DeleteRecursive
<1>1. CASE SoftDelete(r)
  BY <1>1 DEF SoftDelete, Inv, Control, Outcomes, Knows, DeleteAllowed
<1>2. CASE DeleteRecursive(r)
  <2>1. /\ Len(stack[r]) \in Nat \ {0} /\ Top(r) \in Frame /\ Top(r) = stack[r][Len(stack[r])]
        /\ pc[r] = "delete"
    BY <1>2, StackParts DEF DeleteRecursive, Inv, Control, Outcomes, Top
  <2>2. Top(r).page \in Pages \cap Deletable
    BY <2>1 DEF Knows, Deleting, Frame
  <2>3. pages' = SoftDeleted(Top(r).page) /\ UNCHANGED versions
    BY <1>2 DEF DeleteRecursive, db
  <2> QED BY <2>2, <2>3
<1> QED BY <1>1, <1>2

LEMMA SoftDeletedRow ==
  ASSUME DbType, NEW p \in Pages, pages' = SoftDeleted(p)
  PROVE  \A q \in Pages :
           /\ q # p => pages'[q] = pages[q]
           /\ pages'[q] = Null <=> pages[q] = Null
           /\ pages[q] # Null => /\ pages'[q].visibility = pages[q].visibility
                                 /\ pages'[q].currentVersionId = pages[q].currentVersionId
<1>1. /\ \A q \in Pages \ {p} : pages'[q] = pages[q]
      /\ pages'[p] = IF pages[p] = Null THEN Null ELSE [pages[p] EXCEPT !.deleted = TRUE]
  BY DEF SoftDeleted, DbType
<1>2. pages[p] # Null => /\ pages'[p] # Null
                         /\ pages'[p].visibility = pages[p].visibility
                         /\ pages'[p].currentVersionId = pages[p].currentVersionId
  <2> SUFFICES ASSUME pages[p] # Null
               PROVE  /\ pages'[p] # Null
                      /\ pages'[p].visibility = pages[p].visibility
                      /\ pages'[p].currentVersionId = pages[p].currentVersionId
    OBVIOUS
  <2>1. pages[p] \in Row /\ [pages[p] EXCEPT !.deleted = TRUE] \in Row
    BY DEF DbType, Row
  <2> QED BY <1>1, <2>1, NullAssumption DEF Row
<1> QED BY <1>1, <1>2

LEMMA InsertedRow ==
  ASSUME Inv, NEW r \in Requests, Insert(r), ~UNCHANGED db
  PROVE  \E p \in Pages, v \in Versions :
           /\ pages[p] = Null /\ versions[v] = Null /\ pages'[p] # Null
           /\ pages'[p].currentVersionId = v
           /\ \A q \in Pages \ {p} : pages'[q] = pages[q]
           /\ versions'[v] = [pageId |-> p, content |-> call[r].content, title |-> call[r].title]
           /\ \A w \in Versions \ {v} : versions'[w] = versions[w]
<1> DbType
  BY TypeParts DEF Inv
<1>1. call[r] \in CreateCall
  BY CallFields DEF Insert, Inv, Control, Outcomes
<1>2. PICK p \in Pages, v \in Versions :
        /\ pages[p] = Null /\ versions[v] = Null
        /\ pages' = [pages EXCEPT ![p] =
             [ slug |-> call[r].slug, title |-> call[r].title, parentId |-> call[r].parent,
               currentVersionId |-> v, visibility |-> call[r].visibility,
               commentsEnabled |-> TRUE, deleted |-> FALSE ]]
        /\ versions' = [versions EXCEPT ![v] =
             [pageId |-> p, content |-> call[r].content, title |-> call[r].title]]
  BY DEF Insert, Reject
<1> DEFINE row == [ slug |-> call[r].slug, title |-> call[r].title, parentId |-> call[r].parent,
                    currentVersionId |-> v, visibility |-> call[r].visibility,
                    commentsEnabled |-> TRUE, deleted |-> FALSE ]
<1>3. row \in Row /\ row.currentVersionId = v
  BY <1>1 DEF CreateCall, Row
<1> HIDE DEF row
<1>4. pages' = [pages EXCEPT ![p] = row]
  BY <1>2 DEF row
<1> QED BY <1>2, <1>3, <1>4, NullAssumption DEF DbType

(* The visibility of a page changes only while a handler asked to set that  *)
(* very visibility saves: no edit, move or comment switch, and no row a      *)
(* cascade has been holding, brings another one back.                       *)
THEOREM VisibilityOnRequest == SerialSpec => VisibilityChangesOnRequest
<1> DEFINE A == \A p \in Pages :
                  (pages[p] # Null /\ pages'[p].visibility # pages[p].visibility) =>
                    \E r \in Requests :
                      /\ pc[r] = "write" /\ call[r].op = "visibility"
                      /\ pages'[p].visibility = call[r].visibility
<1>1. ASSUME Inv, SerialInv, [SerialNext]_vars
      PROVE  [A]_vars
  <2> SUFFICES ASSUME NEW q \in Requests, Begin(q) \/ Step(q)
               PROVE  A
    BY <1>1 DEF SerialNext
  <2>1. CASE UNCHANGED db
    BY <2>1 DEF db
  <2>2. CASE Insert(q) /\ ~UNCHANGED db
    BY <1>1, <2>2, InsertedRow
  <2>3. CASE (CommitVersion(q) \/ WriteRow(q)) /\ ~UNCHANGED db
    <3>1. pc[q] = "write"
      BY <2>3 DEF CommitVersion, WriteRow
    <3> QED BY <1>1, <2>3, <3>1, SavedRow
  <2>4. CASE (SoftDelete(q) \/ DeleteRecursive(q)) /\ ~UNCHANGED db
    BY <1>1, <2>4, DeletedPage, SoftDeletedRow, TypeParts DEF Inv
  <2> QED BY <2>1, <2>2, <2>3, <2>4, PagesChange
<1> QED BY <1>1, SerialInvariance, PTL DEF SerialSpec, VisibilityChangesOnRequest

(* A delete goes no further than what was checked: deleteRecursive reads the *)
(* children anew, and finds none that collectDescendantIds had not.         *)
THEOREM DeletesOnlyDeletable == SerialSpec => OnlyDeletableDeleted
<1> DEFINE A == \A p \in Pages : (Live(p) /\ ~Live(p)') => p \in Deletable
<1>1. ASSUME Inv, SerialInv, [SerialNext]_vars
      PROVE  [A]_vars
  <2> SUFFICES ASSUME NEW q \in Requests, Begin(q) \/ Step(q)
               PROVE  A
    BY <1>1 DEF SerialNext
  <2>1. CASE UNCHANGED db
    BY <2>1, TablesStay
  <2>2. CASE Insert(q) /\ ~UNCHANGED db
    BY <1>1, <2>2, InsertedRow DEF Live
  <2>3. CASE (CommitVersion(q) \/ WriteRow(q)) /\ ~UNCHANGED db
    <3> PICK p \in Pages : p = cursor[q]
      BY <1>1, <2>3, SavedRow
    <3>1. /\ pages'[p] # Null /\ SamePlace(pages'[p], pages[p])
          /\ \A k \in Pages \ {p} : pages'[k] = pages[k]
      BY <1>1, <2>3, SavedRow
    <3>2. pages'[p].deleted <=> pages[p].deleted
      BY <3>1 DEF SamePlace
    <3>3. pages[p] # Null
      BY <1>1, <2>3, SavedRow
    <3>4. Live(p)' <=> Live(p)
      <4>1. pages'[p] # Null
        BY <3>1
      <4> QED BY <3>2, <3>3, <4>1, Zenon DEF Live
    <3>5. \A k \in Pages \ {p} : Live(k)' <=> Live(k)
      BY <3>1 DEF Live
    <3> QED BY <3>4, <3>5
  <2>4. CASE (SoftDelete(q) \/ DeleteRecursive(q)) /\ ~UNCHANGED db
    <3>1. PICK p \in Pages \cap Deletable : pages' = SoftDeleted(p)
      BY <1>1, <2>4, DeletedPage
    <3>2. \A k \in Pages \ {p} : pages'[k] = pages[k]
      BY <1>1, <3>1, SoftDeletedRow, TypeParts DEF Inv
    <3> QED BY <3>1, <3>2 DEF Live
  <2> QED BY <2>1, <2>2, <2>3, <2>4, PagesChange
<1> QED BY <1>1, SerialInvariance, PTL DEF SerialSpec, OnlyDeletableDeleted

-----------------------------------------------------------------------------
(* A change of visibility reaches the whole subtree.                        *)

Waiting(r) == UNION {stack[r][i].todo : i \in 1..Len(stack[r])}

Saving(r) == IF pc[r] \in {"select", "write"} THEN {cursor[r]} ELSE {}

(* The pages of D have the visibility asked for, the page of the call is one *)
(* of them or is being saved, and so is or waits every child of theirs, but  *)
(* for the children of the page saved last, which are to be read next.      *)
Reached(r, D) ==
  /\ \A q \in D : pages[q].visibility = call[r].visibility
  /\ call[r].page \in D \cup Saving(r)
  /\ \A x \in D : \A c \in ChildrenOf(x) :
       c \in D \cup Saving(r) \cup Waiting(r) \/ (pc[r] = "descend" /\ x = cursor[r])

Cascading(r) ==
  (pc[r] \in {"select", "write", "descend", "cascade"} /\ call[r].op = "visibility") =>
    \E D \in SUBSET Pages : Reached(r, D)

CascadeInv == \A r \in Requests : Active(r) => Cascading(r)

(* Nothing in the tables or in the frames changes: the same pages will do.  *)
LEMMA ReachedStays ==
  ASSUME NEW r \in Requests, NEW D \in SUBSET Pages, Reached(r, D),
         UNCHANGED <<pages, stack>>, call'[r] = call[r],
         Saving(r) \subseteq Saving(r)', pc[r] # "descend"
  PROVE  Reached(r, D)'
BY DEF Reached, Waiting, ChildrenOf, Live

LEMMA WriteReaches ==
  ASSUME Inv, SerialInv, NEW r \in Requests, WriteRow(r), Active(r)', call[r].op = "visibility",
         NEW D \in SUBSET Pages, Reached(r, D), NEW E \in SUBSET Pages, E = D \cup {cursor[r]}
  PROVE  Reached(r, E)'
<1> DEFINE p == cursor[r]
<1> LocalType /\ DbType /\ Knows(r) /\ pc[r] = "write"
  BY TypeParts DEF Inv, SerialInv, WriteRow, Active, Outcomes
<1>1. /\ Holds(r, p) /\ p \in Pages /\ ~Reject(r, "slugTaken")
  BY AnswerEnds DEF Inv, Control, Outcomes, Holds, WriteRow, HasNewVersion, Reject
<1>2. /\ pages' = [pages EXCEPT ![p] = Updated(r)]
      /\ pc'[r] = "descend" /\ UNCHANGED <<call, stack, cursor>>
  BY <1>1 DEF WriteRow, LocalType, Goto, locals
<1>3. /\ SamePlace(Updated(r), pages[p])
      /\ Updated(r).parentId = pages[p].parentId /\ Updated(r).visibility = call[r].visibility
  <2>1. CurrentVersionOwned /\ Intended(r) /\ CleanColumns(r)
    BY DEF Inv, Knows
  <2> QED BY <1>1, <2>1, UpdatedAsIntended
<1>4. /\ pages'[p] = Updated(r) /\ \A q \in Pages \ {p} : pages'[q] = pages[q]
  BY <1>1, <1>2 DEF DbType
<1>5. \A q \in Pages : Live(q)' => Live(q)
  <2>1. pages[p] # Null /\ (pages'[p].deleted <=> pages[p].deleted)
    BY <1>1, <1>3, <1>4 DEF Holds, SamePlace
  <2> QED BY <1>4, <2>1 DEF Live
<1>6. ASSUME NEW x \in D, NEW c \in ChildrenOf(x)'
      PROVE  c \in ChildrenOf(x)
  BY <1>3, <1>4, <1>5, <1>6 DEF ChildrenOf
<1>7. Saving(r) = {p} /\ Saving(r)' = {} /\ Waiting(r)' = Waiting(r)
  BY <1>2 DEF Saving, Waiting
<1>8. \A q \in E : pages'[q].visibility = call[r].visibility
  BY <1>3, <1>4 DEF Reached
<1> QED BY <1>2, <1>6, <1>7, <1>8 DEF Reached

LEMMA OpenReaches ==
  ASSUME Inv, NEW r \in Requests, OpenCascade(r), NEW D \in SUBSET Pages, Reached(r, D)
  PROVE  Reached(r, D)'
<1> DEFINE loaded == [k \in Pages |-> IF k \in ChildrenOf(cursor[r]) THEN pages[k] ELSE Null]
           n == Len(stack[r])
<1> LocalType /\ DbType /\ pc[r] = "descend"
  BY TypeParts DEF Inv, OpenCascade, Open
<1>1. cursor[r] \in Pages
  BY DEF Inv, Control, Outcomes
<1>2. loaded \in [Pages -> Row \cup {Null}]
  BY DEF DbType
<1>3. Open(r, "descend", "cascade", loaded) /\ UNCHANGED <<pages, call, cursor>>
  BY DEF OpenCascade, Open, db
<1>4. /\ n \in Nat /\ Len(stack'[r]) = n + 1 /\ pc'[r] = "cascade"
      /\ \A i \in 1..n : stack'[r][i] = stack[r][i]
      /\ stack'[r][n + 1].todo = ChildrenOf(cursor[r])
  <2> HIDE DEF loaded
  <2> QED BY <1>1, <1>2, <1>3, OpenFrames
<1> HIDE DEF n
<1>5. Waiting(r) \cup ChildrenOf(cursor[r]) \subseteq Waiting(r)'
  <2>1. Waiting(r) \subseteq Waiting(r)'
    <3> SUFFICES ASSUME NEW i \in 1..n, NEW c \in stack[r][i].todo
                 PROVE  c \in Waiting(r)'
      BY DEF Waiting, n
    <3>1. i \in 1..n + 1 /\ stack'[r][i] = stack[r][i]
      BY <1>4
    <3> QED BY <1>4, <3>1 DEF Waiting
  <2>2. n + 1 \in 1..n + 1
    BY <1>4
  <2> QED BY <1>4, <2>1, <2>2 DEF Waiting
<1>6. Saving(r) = {} /\ \A x : ChildrenOf(x)' = ChildrenOf(x)
  BY <1>3 DEF Saving, ChildrenOf, Live
<1> QED BY <1>3, <1>4, <1>5, <1>6 DEF Reached

LEMMA CascadeReaches ==
  ASSUME Inv, NEW r \in Requests, Cascade(r), Active(r)', NEW D \in SUBSET Pages, Reached(r, D)
  PROVE  Reached(r, D)'
<1> DEFINE n == Len(stack[r])
<1> LocalType /\ pc[r] = "cascade"
  BY TypeParts DEF Inv, Cascade
<1>1. /\ n \in Nat \ {0} /\ Top(r) \in Frame /\ Top(r) = stack[r][n] /\ n \in 1..n
      /\ Len(Below(r)) = n - 1 /\ \A i \in 1..n - 1 : Below(r)[i] = stack[r][i]
  <2>1. /\ n \in Nat \ {0} /\ Top(r) \in Frame /\ Len(Below(r)) = n - 1
        /\ \A i \in 1..n - 1 : Below(r)[i] = stack[r][i]
    BY StackParts DEF Inv, Control, Outcomes
  <2> QED BY <2>1 DEF Top
<1>2. ~Reject(r, "ok")
  BY AnswerEnds DEF Reject, Outcomes
<1>3. UNCHANGED <<pages, call>> /\ Saving(r) = {}
  BY <1>2 DEF Cascade, db, Saving
<1>4. \A x : ChildrenOf(x)' = ChildrenOf(x)
  BY <1>3 DEF ChildrenOf, Live
<1>5. Waiting(r) \subseteq Saving(r)' \cup Waiting(r)'
  <2>1. CASE Top(r).todo = {} /\ stack' = [stack EXCEPT ![r] = Below(r)]
    <3>1. stack'[r] = Below(r)
      BY <2>1 DEF LocalType
    <3> SUFFICES ASSUME NEW i \in 1..n, NEW c \in stack[r][i].todo
                 PROVE  c \in Waiting(r)'
      BY DEF Waiting
    <3>2. i # n
      BY <1>1, <2>1
    <3>3. i \in 1..n - 1
      BY <1>1, <3>2
    <3> QED BY <1>1, <3>1, <3>3 DEF Waiting
  <2>2. ASSUME NEW k \in Top(r).todo, cursor' = [cursor EXCEPT ![r] = k],
               stack' = [stack EXCEPT ![r] = Visiting(r, k)], Goto(r, "select")
        PROVE  Waiting(r) \subseteq Saving(r)' \cup Waiting(r)'
    <3>1. k \in Pages
      BY <1>1 DEF Frame
    <3>2. /\ Len(stack'[r]) = n
          /\ \A i \in 1..n - 1 : stack'[r][i] = stack[r][i]
          /\ stack'[r][n].todo = Top(r).todo \ {k}
      BY <1>1, <2>2, <3>1, VisitingFrames DEF LocalType
    <3>3. Saving(r)' = {k}
      BY <2>2 DEF LocalType, Goto, Saving
    <3> SUFFICES ASSUME NEW i \in 1..n, NEW c \in stack[r][i].todo, c # k
                 PROVE  c \in Waiting(r)'
      BY <3>3 DEF Waiting
    <3>4. c \in stack'[r][i].todo
      <4>1. CASE i = n
        BY <1>1, <3>2, <4>1
      <4>2. CASE i # n
        <5>1. i \in 1..n - 1
          BY <1>1, <4>2
        <5> QED BY <3>2, <5>1
      <4> QED BY <4>1, <4>2
    <3> QED BY <3>2, <3>4 DEF Waiting
  <2> QED BY <1>2, <2>1, <2>2 DEF Cascade
<1> QED BY <1>3, <1>4, <1>5 DEF Reached

LEMMA StepCascades ==
  ASSUME Inv, SerialInv, NEW r \in Requests, Begin(r) \/ Step(r), Active(r) => Cascading(r),
         Active(r)'
  PROVE  Cascading(r)'
<1> LocalType
  BY TypeParts DEF Inv
<1> SUFFICES ASSUME pc'[r] \in {"select", "write", "descend", "cascade"},
                    call'[r].op = "visibility"
             PROVE  \E D \in SUBSET Pages : Reached(r, D)'
  BY DEF Cascading
<1>1. ~Begin(r)
  BY DEF Begin, LocalType, Goto
<1>2. Step(r) /\ Active(r) /\ call' = call /\ Knows(r)
  BY <1>1, CallStays, StepActive DEF SerialInv
<1>3. CASE Authorize(r)
  <2>1. /\ pc[r] = "authorize" /\ call[r].page = cursor[r] /\ pc'[r] = "select" /\ cursor'[r] = cursor[r]
    BY <1>2, <1>3 DEF Authorize, Inv, Control, Outcomes, Reject, Answer, Goto, LocalType
  <2>2. Reached(r, {})'
    BY <1>2, <2>1 DEF Reached, Saving
  <2>3. {} \in SUBSET Pages
    OBVIOUS
  <2> QED BY <2>2, <2>3
<1> SUFFICES ASSUME ~Authorize(r)
             PROVE  \E D \in SUBSET Pages : Reached(r, D)'
  BY <1>3
<1>4. /\ Select(r) \/ WriteRow(r) \/ OpenCascade(r) \/ Cascade(r)
      /\ pc[r] \in {"select", "write", "descend", "cascade"} /\ call[r].op = "visibility"
  <2>1. ~(Load(r) \/ MergeWithBase(r) \/ Walk(r) \/ CheckSlug(r) \/ Insert(r))
    BY <1>2 DEF Load, MergeWithBase, Walk, CheckSlug, Insert, Reject, Answer, Goto, LocalType,
       Inv, Control, Outcomes
  <2>2. ~(CommitVersion(r) \/ FindChildren(r) \/ SoftDelete(r) \/ OpenCollect(r) \/ Collect(r)
           \/ OpenDelete(r) \/ DeleteRecursive(r))
    BY <1>2 DEF CommitVersion, HasNewVersion, FindChildren, SoftDelete, OpenCollect, Open, Collect,
       OpenDelete, DeleteRecursive, Reject, Answer, Goto, LocalType, Inv, Control, Outcomes
  <2>3. Select(r) \/ WriteRow(r) \/ OpenCascade(r) \/ Cascade(r)
    BY <1>2, <2>1, <2>2 DEF Step
  <2> QED BY <1>2, <2>3 DEF Select, WriteRow, OpenCascade, Open, Cascade
<1>5. PICK D \in SUBSET Pages : Reached(r, D)
  BY <1>2, <1>4 DEF Cascading
<1>6. CASE Select(r)
  <2>1. Saving(r)' = Saving(r) /\ UNCHANGED <<pages, stack>> /\ pc[r] # "descend"
    BY <1>6 DEF Select, Saving, Goto, LocalType, db
  <2> QED BY <1>2, <1>5, <2>1, ReachedStays
<1>7. CASE WriteRow(r)
  <2>1. cursor[r] \in Pages
    BY <1>4, <1>7 DEF WriteRow, Inv, Control, Outcomes, Holds
  <2>2. PICK E \in SUBSET Pages : E = D \cup {cursor[r]}
    BY <2>1
  <2> QED BY <1>4, <1>5, <1>7, <2>2, WriteReaches
<1> QED BY <1>4, <1>5, <1>6, <1>7, OpenReaches, CascadeReaches

LEMMA NextCascades == Inv /\ SerialInv /\ CascadeInv /\ [SerialNext]_vars => CascadeInv'
<1> SUFFICES ASSUME Inv, SerialInv, CascadeInv, [SerialNext]_vars, NEW r \in Requests, Active(r)'
             PROVE  Cascading(r)'
  BY DEF CascadeInv
<1>1. CASE UNCHANGED vars
  <2>1. Active(r) /\ UNCHANGED <<pages, pc, call, cursor, stack>>
    BY <1>1 DEF vars, Active
  <2>2. \A D : Reached(r, D) => Reached(r, D)'
    BY <2>1 DEF Reached, Waiting, Saving, ChildrenOf, Live
  <2> QED BY <2>1, <2>2 DEF CascadeInv, Cascading
<1>2. ASSUME NEW q \in Requests, Alone(q), Begin(q) \/ Step(q)
      PROVE  Cascading(r)'
  <2>1. r = q
    BY <1>2, StepFrame DEF Alone, Same, Active
  <2> QED BY <1>2, <2>1, StepCascades DEF CascadeInv
<1> QED BY <1>1, <1>2 DEF SerialNext

(* Pages of a forest of pages that can be found are reached down from the   *)
(* root of their tree, and nothing below p escapes a set closed downwards.  *)
LEMMA SubtreeInside ==
  ASSUME LiveParent, NEW p \in Pages, NEW D \in SUBSET Pages, p \in D,
         \A x \in D : ChildrenOf(x) \subseteq D,
         NEW q \in Subtree(p) \cup {p}, Live(q)
  PROVE  q \in D
<1> DEFINE S == D \cup {c \in Pages : ~Live(c)}
<1>1. ASSUME NEW c \in Pages, pages[c] # Null, pages[c].parentId \in S \cup {p}
      PROVE  c \in S
  <2> SUFFICES ASSUME Live(c) PROVE c \in D
    OBVIOUS
  <2>1. pages[c].parentId \in D
    BY <1>1, NullAssumption DEF LiveParent, ParentsFindable, Findable, Live
  <2> QED BY <2>1 DEF ChildrenOf
<1>2. CASE q \in Subtree(p)
  <2>1. S \in SUBSET Pages
    OBVIOUS
  <2>2. q \in S
    <3> HIDE DEF S
    <3> QED BY <1>1, <1>2, <2>1 DEF Subtree
  <2> QED BY <2>2
<1> QED BY <1>2

(* When a change of visibility is answered, every page that can be found     *)
(* below the page it named has that visibility: cascadeVisibility leaves out *)
(* no child, at any depth.                                                  *)
THEOREM VisibilityReachesSubtree == SerialSpec => VisibilityCascaded
<1> DEFINE A == \A r \in Requests :
                  (pc[r] = "cascade" /\ pc'[r] = "ok") =>
                    \A q \in Subtree(call[r].page) \cup {call[r].page} :
                      Live(q) => pages'[q].visibility = call[r].visibility
<1>1. ASSUME Inv, SerialInv, CascadeInv, [SerialNext]_vars
      PROVE  [A]_vars
  <2> SUFFICES ASSUME NEW o \in Requests, Begin(o) \/ Step(o),
                      NEW r \in Requests, pc[r] = "cascade", pc'[r] = "ok",
                      NEW q \in Subtree(call[r].page) \cup {call[r].page}, Live(q)
               PROVE  pages'[q].visibility = call[r].visibility
    BY <1>1 DEF SerialNext
  <2> LocalType
    BY <1>1, TypeParts DEF Inv
  <2>1. r = o
    BY <1>1, StepFrame DEF Same
  <2>2. Cascade(r) /\ UNCHANGED pages
    BY <2>1 DEF Begin, Step, Load, Authorize, MergeWithBase, Walk, CheckSlug, Insert, Select,
       CommitVersion, WriteRow, OpenCascade, Open, Cascade, FindChildren, SoftDelete, OpenCollect,
       Collect, OpenDelete, DeleteRecursive, Reject, db
  <2>3. Len(stack[r]) = 1 /\ Top(r).todo = {}
    BY <2>2 DEF Cascade, Goto, LocalType
  <2>4. PICK D \in SUBSET Pages : Reached(r, D)
    BY <1>1 DEF CascadeInv, Cascading, Active, Outcomes, Inv, Control
  <2>5. Waiting(r) = {} /\ Saving(r) = {}
    BY <2>3 DEF Waiting, Top, Saving
  <2>6. call[r].page \in D /\ \A x \in D : ChildrenOf(x) \subseteq D
    BY <2>4, <2>5 DEF Reached
  <2>7. q \in D
    BY <1>1, <2>6, SubtreeInside DEF SerialInv, Tables
  <2> QED BY <2>2, <2>4, <2>7 DEF Reached
<1>2. Init => CascadeInv
  BY DEF Init, CascadeInv, Active
<1>3. Inv /\ SerialInv /\ CascadeInv /\ [SerialNext]_vars => CascadeInv'
  BY NextCascades
<1> HIDE DEF A
<1>4. Inv /\ SerialInv /\ CascadeInv /\ [SerialNext]_vars => [A]_vars
  BY <1>1
<1> QED BY <1>2, <1>3, <1>4, SerialInvariance, PTL DEF SerialSpec, VisibilityCascaded, A

-----------------------------------------------------------------------------
(* The handlers implement WikiDocument: the step that commits a version is   *)
(* the one in which the document serves the call, the step that answers any *)
(* other call closes it, and all else stutters.                             *)

Log    == [v \in Versions |->
             IF versions[v] = Null THEN Null
             ELSE [pageId |-> versions[v].pageId, content |-> versions[v].content]]
Newest == [p \in Pages |-> IF pages[p] = Null THEN Null ELSE pages[p].currentVersionId]
Served == {r \in Requests : pc[r] \in Outcomes}

(* Who has been answered, after a step of handler r.                        *)
LEMMA ServedAfter ==
  ASSUME Inv, NEW r \in Requests, Begin(r) \/ Step(r), pc[r] \notin Outcomes
  PROVE  /\ r \notin Served
         /\ Served' = IF pc'[r] \in Outcomes THEN Served \cup {r} ELSE Served
<1>1. \A o \in Requests \ {r} : pc'[o] = pc[o]
  BY StepFrame DEF Same
<1> QED BY <1>1 DEF Served

(* A step that shows no new version.                                        *)
LEMMA QuietStep ==
  ASSUME Inv, NEW r \in Requests, Step(r), Log' = Log, Newest' = Newest
  PROVE  Document!Close(r) \/ UNCHANGED Document!vars
<1>1. call' = call /\ Active(r) /\ pc[r] \notin Outcomes
  BY CallStays, StepActive
<1>2. call[r] # Null
  <2>1. call[r] \in Call
    BY <1>1 DEF Active, Inv, Control
  <2> QED BY <2>1, NullAssumption
<1>3. r \notin Served /\ Served' = IF pc'[r] \in Outcomes THEN Served \cup {r} ELSE Served
  BY <1>1, ServedAfter
<1> QED BY <1>1, <1>2, <1>3 DEF Document!Close, Document!vars, Log, Newest, Served

LEMMA QuietTables ==
  ASSUME UNCHANGED versions,
         \A p \in Pages : /\ pages'[p] = Null <=> pages[p] = Null
                          /\ pages[p] # Null =>
                               pages'[p].currentVersionId = pages[p].currentVersionId
  PROVE  Log' = Log /\ Newest' = Newest
BY DEF Log, Newest

(* The step that commits a version serves the call.                         *)
LEMMA CommitServes ==
  ASSUME Inv, SerialInv, NEW r \in Requests, CommitVersion(r), ~UNCHANGED db
  PROVE  Document!Serve(r)
<1> LocalType /\ DbType /\ CurrentVersionOwned /\ Step(r) /\ pc[r] = "write"
  BY TypeParts DEF Inv, Step, CommitVersion
<1>1. Knows(r) /\ call[r] # Null /\ pc[r] \notin Outcomes
  BY StepActive, NullAssumption DEF SerialInv, Active, Inv, Control
<1> PICK p \in Pages : p = cursor[r]
  BY DEF Inv, Control, Outcomes, Holds
<1>2. /\ p = call[r].page /\ call[r].op \in {"update", "restore"} /\ pages[p] # Null
      /\ text[r] = Document!Text(call[r])
  BY <1>1 DEF Knows, Intended, TextAsked, HasNewVersion, CommitVersion, Inv, Control, Outcomes,
              Holds
<1>3. PICK v \in Versions :
        /\ versions[v] = Null
        /\ pages' = [pages EXCEPT ![p] = [Updated(r) EXCEPT !.currentVersionId = v]]
        /\ versions' = [versions EXCEPT ![v] =
             [pageId |-> p, content |-> text[r], title |-> entity[r].title]]
        /\ Answer(r, "ok")
  BY DEF CommitVersion, Reject
<1>4. Updated(r) \in Row
  BY UpdatedOwned DEF Inv, Control, Outcomes
<1> DEFINE new == [Updated(r) EXCEPT !.currentVersionId = v]
<1>5. new \in Row /\ new.currentVersionId = v
  BY <1>4 DEF Row
<1> HIDE DEF new
<1>6. Newest' = [Newest EXCEPT ![p] = v]
  <2>1. pages' = [pages EXCEPT ![p] = new]
    BY <1>3 DEF new
  <2> QED BY <1>5, <2>1, NullAssumption DEF Newest, DbType
<1>7. Log[v] = Null /\ Log' = [Log EXCEPT ![v] = [pageId |-> p, content |-> text[r]]]
  <2> DEFINE row == [pageId |-> p, content |-> text[r], title |-> entity[r].title]
  <2>1. row \in VersionRow
    <3>1. text[r] \in Contents
      BY <1>2 DEF LocalType, Inv, Control, Outcomes
    <3>2. entity[r] \in Row
      BY DEF LocalType, Inv, Control, Outcomes, Holds
    <3> QED BY <3>1, <3>2 DEF VersionRow, Row
  <2>2. row # Null /\ row.pageId = p /\ row.content = text[r]
    BY <2>1, NullAssumption
  <2> HIDE DEF row
  <2>3. versions' = [versions EXCEPT ![v] = row]
    BY <1>3 DEF row
  <2> QED BY <1>3, <2>2, <2>3 DEF Log, DbType
<1>8. r \notin Served /\ Served' = Served \cup {r} /\ UNCHANGED call
  <2>1. pc'[r] = "ok"
    BY <1>3 DEF Answer, Goto, LocalType
  <2> QED BY <1>1, <2>1, ServedAfter, CallStays DEF Outcomes
<1> QED BY <1>1, <1>2, <1>6, <1>7, <1>8 DEF Document!Serve, Document!Publish, Log, Newest, Served

LEMMA InsertServes ==
  ASSUME Inv, SerialInv, NEW r \in Requests, Insert(r), ~UNCHANGED db
  PROVE  Document!Serve(r)
<1> LocalType /\ DbType /\ Step(r) /\ pc[r] = "insert"
  BY TypeParts DEF Inv, Step, Insert
<1>1. call[r].op = "create" /\ call[r] # Null /\ pc[r] \notin Outcomes
  BY StepActive, NullAssumption DEF Active, Inv, Control
<1>2. PICK p \in Pages, v \in Versions :
        /\ pages[p] = Null /\ versions[v] = Null /\ pages'[p] # Null
        /\ pages'[p].currentVersionId = v
        /\ \A q \in Pages \ {p} : pages'[q] = pages[q]
        /\ versions'[v] = [pageId |-> p, content |-> call[r].content, title |-> call[r].title]
        /\ \A w \in Versions \ {v} : versions'[w] = versions[w]
  BY InsertedRow
<1>3. Newest[p] = Null /\ Newest' = [Newest EXCEPT ![p] = v]
  BY <1>2 DEF Newest
<1>4. Log[v] = Null /\ Log' = [Log EXCEPT ![v] = [pageId |-> p, content |-> call[r].content]]
  <2> DEFINE row == [pageId |-> p, content |-> call[r].content, title |-> call[r].title]
  <2>1. row # Null /\ row.pageId = p /\ row.content = call[r].content
    <3>1. call[r] \in CreateCall
      BY <1>1, CallFields DEF Inv, Control, Outcomes
    <3>2. row \in VersionRow
      BY <3>1 DEF VersionRow, CreateCall
    <3> QED BY <3>2, NullAssumption
  <2> HIDE DEF row
  <2>2. versions'[v] = row
    BY <1>2 DEF row
  <2>3. Log' = [w \in Versions |-> IF w = v THEN [pageId |-> p, content |-> call[r].content]
                                   ELSE Log[w]]
    BY <1>2, <2>1, <2>2 DEF Log
  <2>4. Log = [w \in Versions |-> Log[w]] /\ Log[v] = Null
    BY <1>2 DEF Log
  <2> QED BY <2>3, <2>4
<1>5. r \notin Served /\ Served' = Served \cup {r} /\ UNCHANGED call
  <2>1. pc'[r] = "ok"
    BY DEF Insert, Reject, Answer, Goto, LocalType
  <2> QED BY <1>1, <2>1, ServedAfter, CallStays DEF Outcomes
<1> QED BY <1>1, <1>2, <1>3, <1>4, <1>5
        DEF Document!Serve, Document!Publish, Log, Newest, Served

LEMMA StepRefines ==
  ASSUME Inv, SerialInv, NEW r \in Requests, Begin(r) \/ Step(r)
  PROVE  Document!Ask(r) \/ Document!Serve(r) \/ Document!Close(r) \/ UNCHANGED Document!vars
<1> LocalType /\ DbType
  BY TypeParts DEF Inv
<1>1. CASE Begin(r)
  <2>1. call[r] = Null /\ pc[r] = "idle" /\ pc[r] \notin Outcomes
    BY <1>1 DEF SerialInv, Untouched, Begin, Outcomes
  <2>2. pc'[r] \notin Outcomes
    BY <1>1 DEF Begin, Goto, LocalType, Outcomes
  <2>3. Served' = Served /\ UNCHANGED db
    BY <1>1, <2>1, <2>2, ServedAfter DEF Begin
  <2> QED BY <1>1, <2>1, <2>3 DEF Document!Ask, Begin, Served, db
<1>2. CASE Step(r) /\ UNCHANGED db
  BY <1>2, QuietTables, QuietStep DEF db
<1>3. CASE Insert(r) /\ ~UNCHANGED db
  BY <1>3, InsertServes
<1>4. CASE CommitVersion(r) /\ ~UNCHANGED db
  BY <1>4, CommitServes
<1>5. CASE WriteRow(r) /\ ~UNCHANGED db
  <2>1. UNCHANGED versions
    BY <1>5 DEF WriteRow, Reject, db
  <2>2. \A p \in Pages : /\ pages'[p] = Null <=> pages[p] = Null
                         /\ pages[p] # Null =>
                              pages'[p].currentVersionId = pages[p].currentVersionId
    BY <1>5, SavedRow
  <2>3. Step(r)
    BY <1>5 DEF Step
  <2> QED BY <2>1, <2>2, <2>3, QuietTables, QuietStep
<1>6. CASE (SoftDelete(r) \/ DeleteRecursive(r)) /\ ~UNCHANGED db
  <2>1. UNCHANGED versions /\ \E p \in Pages : pages' = SoftDeleted(p)
    BY <1>6, DeletedPage
  <2>2. \A p \in Pages : /\ pages'[p] = Null <=> pages[p] = Null
                         /\ pages[p] # Null =>
                              pages'[p].currentVersionId = pages[p].currentVersionId
    BY <2>1, SoftDeletedRow
  <2>3. Step(r)
    BY <1>6 DEF Step
  <2> QED BY <2>1, <2>2, <2>3, QuietTables, QuietStep
<1> QED BY <1>1, <1>2, <1>3, <1>4, <1>5, <1>6, PagesChange

(* Served one at a time, every handler acts on the documents in one step, on *)
(* the page as it is at that moment.                                        *)
THEOREM HandlersAreAtomic == SerialSpec => ImplementsDocument
<1>1. Init => Document!Init
  BY DEF Init, Document!Init, Outcomes
<1>2. ASSUME Inv, SerialInv, [SerialNext]_vars
      PROVE  [Document!Next]_(Document!vars)
  <2>1. CASE UNCHANGED vars
    BY <2>1 DEF vars, Document!vars
  <2>2. ASSUME NEW r \in Requests, Begin(r) \/ Step(r)
        PROVE  [Document!Next]_(Document!vars)
    BY <1>2, <2>2, StepRefines DEF Document!Next
  <2> QED BY <1>2, <2>1, <2>2 DEF SerialNext
<1> QED BY <1>1, <1>2, SerialInvariance, PTL
        DEF SerialSpec, ImplementsDocument, Document!Spec

=============================================================================
