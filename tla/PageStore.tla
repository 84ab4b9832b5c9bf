------------------------------ MODULE PageStore ------------------------------
(***************************************************************************)
(* PagesService over the TypeORM page repository: the handlers that create, *)
(* edit, restore, move, delete and publish wiki pages, interleaved at every *)
(* await whose answer another handler can change.                           *)
(*                                                                         *)
(* A handler is a member of Requests and serves one call.  It reads an      *)
(* entity from the database, decides, and saves the entity it read; what    *)
(* happens to the row in between is what this module is about.  Awaits that *)
(* only read data nobody changes (versions are append-only) are folded into *)
(* the step that precedes them.                                            *)
(***************************************************************************)
EXTENDS Naturals, Sequences, FiniteSets

CONSTANTS
  Pages,               \* ids of rows of the table pages
  Versions,            \* ids of rows of the table page_versions
  Requests,            \* the handlers; each serves one call
  Slugs, Titles, Lines,
  ReservedRootSlugs,   \* RESERVED_ROOT_PAGE_SLUGS
  ReservedChildSlugs,  \* RESERVED_CHILD_OF_ROOT_PAGE_SLUGS
  Deletable,           \* pages on which the callers hold page.delete
  Calls,               \* the calls clients may make
  Seeds,               \* database contents the run may start from
  MaxDepth,            \* bound on the depth of a cascade (a cycle has none)
  Null                 \* null: no row, no parent, no version, field not sent

(* A document is the set of its lines. *)
Contents     == SUBSET Lines
Visibilities == {"public", "private"}

Row ==
  [ slug            : Slugs,
    title           : Titles,
    parentId        : Pages \cup {Null},
    currentVersionId: Versions \cup {Null},
    visibility      : Visibilities,
    commentsEnabled : BOOLEAN,
    deleted         : BOOLEAN ]

VersionRow == [pageId : Pages, content : Contents, title : Titles]

CreateCall ==
  [ op : {"create"}, parent : Pages \cup {Null}, slug : Slugs, title : Titles,
    content : Contents, visibility : Visibilities ]
UpdateCall ==
  [ op : {"update"}, page : Pages, title : Titles \cup {Null},
    content : {Null} \cup Contents, base : Versions \cup {Null} ]
RestoreCall    == [op : {"restore"}, page : Pages, version : Versions]
MoveCall       == [op : {"move"}, page : Pages, parent : Pages \cup {Null}]
DeleteCall     == [op : {"delete"}, page : Pages, cascade : BOOLEAN]
VisibilityCall == [op : {"visibility"}, page : Pages, visibility : Visibilities]
CommentsCall   == [op : {"comments"}, page : Pages, commentsEnabled : BOOLEAN]

Call ==
  UNION { CreateCall, UpdateCall, RestoreCall, MoveCall, DeleteCall,
          VisibilityCall, CommentsCall }

(* One level of a recursive descent: the page whose children were read, the *)
(* children still to visit, and the entity read for each of them (none when *)
(* the descent keeps only ids).                                             *)
Frame ==
  [page : Pages, todo : SUBSET Pages, loaded : [Pages -> Row \cup {Null}]]

(* How a handler answers. *)
Outcomes ==
  { "ok", "notFound", "forbidden", "versionNotFound", "conflict", "circular",
    "reserved", "slugTaken", "hasChildren" }

Steps ==
  { "idle", "load", "authorize", "merge", "walk", "slug", "insert",
    "select", "write", "descend", "cascade", "children", "softDelete",
    "collectVisit", "collect", "deleteVisit", "delete" } \cup Outcomes

Columns ==
  {"title", "parentId", "currentVersionId", "visibility", "commentsEnabled", "deleted"}

(* The version a page points at is a version of that page. *)
Owned(vs, p, row) ==
  row # Null =>
    /\ row.currentVersionId \in Versions
    /\ vs[row.currentVersionId] # Null
    /\ vs[row.currentVersionId].pageId = p

(* No two rows under one parent have the same slug: the unique index.       *)
ChildSlugsUnique(rows) ==
  \A p, q \in Pages :
    (p # q /\ rows[p] # Null /\ rows[q] # Null) =>
      \/ rows[p].parentId = Null
      \/ rows[p].parentId # rows[q].parentId
      \/ rows[p].slug # rows[q].slug

(* Null is none of the ids and none of the rows. *)
ASSUME NullAssumption ==
  /\ Null \notin Pages \cup Versions \cup Titles
  /\ Null \notin Row /\ Null \notin VersionRow
  /\ \A c \in Contents : c # Null
  /\ Null \notin Call

ASSUME CallsAssumption == Calls \subseteq Call

ASSUME SeedsAssumption ==
  \A s \in Seeds :
    /\ s.pages \in [Pages -> Row \cup {Null}]
    /\ s.versions \in [Versions -> VersionRow \cup {Null}]
    /\ \A p \in Pages : Owned(s.versions, p, s.pages[p])
    /\ ChildSlugsUnique(s.pages)

ASSUME BoundAssumption == MaxDepth \in Nat

VARIABLES
  pages,     \* table pages: a row, or Null where no row was inserted
  versions,  \* table page_versions
  pc,        \* next step of each handler, or its answer
  call,      \* the call each handler serves
  entity,    \* the page entity the handler loaded and will save
  anchor,    \* the parent entity the handler loaded
  text,      \* the content the handler will save
  cursor,    \* the page id the handler's next step is about
  dirty,     \* columns the handler's save found to differ
  stack,     \* frames of the handler's recursive descent
  ids        \* descendants the handler collected

db      == <<pages, versions>>
locals  == <<call, entity, anchor, text, cursor, dirty, stack, ids>>
vars    == <<pages, versions, pc, call, entity, anchor, text, cursor, dirty, stack, ids>>

TypeOK ==
  /\ pages \in [Pages -> Row \cup {Null}]
  /\ versions \in [Versions -> VersionRow \cup {Null}]
  /\ pc \in [Requests -> Steps]
  /\ call \in [Requests -> Call \cup {Null}]
  /\ entity \in [Requests -> Row \cup {Null}]
  /\ anchor \in [Requests -> Row \cup {Null}]
  /\ text \in [Requests -> {Null} \cup Contents]
  /\ cursor \in [Requests -> Pages \cup {Null}]
  /\ dirty \in [Requests -> SUBSET Columns]
  /\ stack \in [Requests -> Seq(Frame)]
  /\ ids \in [Requests -> SUBSET Pages]

-----------------------------------------------------------------------------
(* Queries of the repository.  TypeORM hides soft-deleted rows from a find. *)

Live(p) == pages[p] # Null /\ ~pages[p].deleted

ChildrenOf(p) == {c \in Pages : Live(c) /\ pages[c].parentId = p}

(* A mutated form of SlugTaken: the check left to the index, blind at the root. *)
SlugTakenUnderParent(slug, parent, self) ==
  parent # Null /\ \E q \in Pages \ {self} :
    Live(q) /\ pages[q].slug = slug /\ pages[q].parentId = parent

SlugTaken(slug, parent, self) ==
  \E q \in Pages \ {self} : Live(q) /\ pages[q].slug = slug /\ pages[q].parentId = parent

(* A mutated form of IndexAdmits: the migration without its unique index.   *)
IndexForgotten(slug, parent, self) == TRUE

(* The unique index on (parent_id, slug): it counts soft-deleted rows, and  *)
(* MySQL never finds two NULL parents equal.                                *)
IndexAdmits(slug, parent, self) ==
  \A q \in Pages \ {self} :
    (pages[q] # Null /\ parent # Null) =>
      ~(pages[q].slug = slug /\ pages[q].parentId = parent)

-----------------------------------------------------------------------------
(* Pure parts of the service. *)

(* assertSlugNotReserved: parent is the entity of the parent, Null at root. *)
Reserved(slug, parent) ==
  \/ parent = Null /\ slug \in ReservedRootSlugs
  \/ parent # Null /\ parent.parentId = Null /\ slug \in ReservedChildSlugs

(* A mutated form of Merged: base and theirs swapped in the last two parts. *)
MergedArgumentsSwapped(base, mine, theirs) ==
  (mine \cap base) \cup (mine \ theirs) \cup (base \ theirs)

(* Three-way merge of line sets: a line stays when both sides kept it or    *)
(* one side added it.  The library reports a conflict only when both sides  *)
(* changed the base, and differently; whether the changes overlap depends   *)
(* on positions, which line sets do not have.                               *)
Merged(base, mine, theirs) ==
  (mine \cap theirs) \cup (mine \ base) \cup (theirs \ base)

MayConflict(base, mine, theirs) == mine # base /\ theirs # base /\ mine # theirs

-----------------------------------------------------------------------------
(* Control of a handler. *)

Goto(r, step) == pc' = [pc EXCEPT ![r] = step]

Answer(r, outcome) ==
  /\ Goto(r, outcome)
  /\ UNCHANGED call
  /\ entity' = [entity EXCEPT ![r] = Null]
  /\ anchor' = [anchor EXCEPT ![r] = Null]
  /\ text'   = [text EXCEPT ![r] = Null]
  /\ cursor' = [cursor EXCEPT ![r] = Null]
  /\ dirty'  = [dirty EXCEPT ![r] = {}]
  /\ stack'  = [stack EXCEPT ![r] = <<>>]
  /\ ids'    = [ids EXCEPT ![r] = {}]

Reject(r, outcome) == Answer(r, outcome) /\ UNCHANGED db

Init ==
  /\ \E s \in Seeds : pages = s.pages /\ versions = s.versions
  /\ pc     = [r \in Requests |-> "idle"]
  /\ call   = [r \in Requests |-> Null]
  /\ entity = [r \in Requests |-> Null]
  /\ anchor = [r \in Requests |-> Null]
  /\ text   = [r \in Requests |-> Null]
  /\ cursor = [r \in Requests |-> Null]
  /\ dirty  = [r \in Requests |-> {}]
  /\ stack  = [r \in Requests |-> <<>>]
  /\ ids    = [r \in Requests |-> {}]

(* A request arrives.  A create at the root loads no parent.               *)
Begin(r) ==
  /\ pc[r] = "idle"
  /\ \E c \in Calls :
       /\ call' = [call EXCEPT ![r] = c]
       /\ Goto(r, IF c.op = "create" /\ c.parent = Null THEN "authorize" ELSE "load")
  /\ UNCHANGED <<db, entity, anchor, text, cursor, dirty, stack, ids>>

(* The first findById of a handler: the page, or the parent of a new page.  *)
(* Restore has looked its version up before, among those of the page, and   *)
(* says the version is missing when the page is.                            *)
Load(r) ==
  /\ pc[r] = "load"
  /\ LET c == call[r]
         p == IF c.op = "create" THEN c.parent ELSE c.page
         found == /\ Live(p)
                  /\ c.op = "restore" =>
                       versions[c.version] # Null /\ versions[c.version].pageId = p
     IN \/ /\ ~found
           /\ Reject(r, IF c.op = "restore" THEN "versionNotFound" ELSE "notFound")
        \/ /\ found
           /\ IF c.op = "create"
              THEN /\ anchor' = [anchor EXCEPT ![r] = pages[p]]
                   /\ UNCHANGED <<entity, cursor>>
              ELSE /\ entity' = [entity EXCEPT ![r] = pages[p]]
                   /\ cursor' = [cursor EXCEPT ![r] = p]
                   /\ UNCHANGED anchor
           /\ Goto(r, "authorize")
           /\ UNCHANGED <<db, call, text, dirty, stack, ids>>

(* assertCan.  Permissions are data of another component: the check may     *)
(* refuse any call, and a delete is refused exactly outside Deletable.      *)
(* A call that passes goes on with the step its handler has next, after the *)
(* entity is merged with the field it changes.                              *)
Authorize(r) ==
  /\ pc[r] = "authorize"
  /\ LET c == call[r]
         set(e) == entity' = [entity EXCEPT ![r] = e]
     IN \/ /\ c.op = "delete" => c.page \notin Deletable
           /\ Reject(r, "forbidden")
        \/ /\ c.op = "delete" => c.page \in Deletable
           /\ \/ /\ c.op = "create"
                 /\ Goto(r, "slug")
                 /\ UNCHANGED <<entity, text, cursor>>
              \/ /\ c.op = "update"
                 /\ Goto(r, "merge")
                 /\ UNCHANGED <<entity, text, cursor>>
              \/ /\ c.op = "restore"
                 /\ Goto(r, "select")
                 /\ text' = [text EXCEPT ![r] = versions[c.version].content]
                 /\ UNCHANGED <<entity, cursor>>
              \/ /\ c.op = "move"
                 /\ cursor' = [cursor EXCEPT ![r] = c.parent]
                 /\ Goto(r, IF c.parent = Null THEN "slug" ELSE "walk")
                 /\ UNCHANGED <<entity, text>>
              \/ /\ c.op = "delete"
                 /\ Goto(r, "children")
                 /\ UNCHANGED <<entity, text, cursor>>
              \/ /\ c.op = "visibility"
                 /\ set([entity[r] EXCEPT !.visibility = c.visibility])
                 /\ Goto(r, "select")
                 /\ UNCHANGED <<text, cursor>>
              \/ /\ c.op = "comments"
                 /\ set([entity[r] EXCEPT !.commentsEnabled = c.commentsEnabled])
                 /\ Goto(r, "select")
                 /\ UNCHANGED <<text, cursor>>
           /\ UNCHANGED <<db, call, anchor, dirty, stack, ids>>

(* A mutated form of NeedsMerge: the last writer wins.                      *)
NeverMerges(r) == FALSE

(* An edit is merged when its base is not the version the handler loaded.   *)
NeedsMerge(r) == call[r].base \notin {Null, entity[r].currentVersionId}

(* A mutated form of TitleAfter: no fallback to the title the page has.     *)
TitleSent(r) == call[r].title

TitleAfter(r) == IF call[r].title = Null THEN entity[r].title ELSE call[r].title

(* updatePage between the edit check and the save.  The current version is  *)
(* that of the entity loaded, whatever the row says by now.                 *)
MergeWithBase(r) ==
  /\ pc[r] = "merge"
  /\ LET c       == call[r]
         current == entity[r].currentVersionId
         theirs  == versions[current].content
         mine    == IF c.content = Null THEN theirs ELSE c.content
         save(t) == /\ text' = [text EXCEPT ![r] = t]
                    /\ entity' = [entity EXCEPT ![r].title = TitleAfter(r)]
                    /\ Goto(r, "select")
                    /\ UNCHANGED <<db, call, anchor, cursor, dirty, stack, ids>>
     IN IF ~NeedsMerge(r)
        THEN save(mine)
        ELSE IF versions[c.base] = Null \/ versions[c.base].pageId # c.page
             THEN Reject(r, "versionNotFound")
             ELSE LET base == versions[c.base].content
                  IN \/ /\ MayConflict(base, mine, theirs)
                        /\ Reject(r, "conflict")
                     \/ save(Merged(base, mine, theirs))

(* A mutated form of ClosesCycle: only the new parent itself is compared.    *)
ClosesCycleAtParent(r) == call[r].parent = call[r].page

(* movePage: one findById of the walk from the new parent to the root.      *)
ClosesCycle(r) == cursor[r] = call[r].page

Walk(r) ==
  /\ pc[r] = "walk"
  /\ LET a == cursor[r]
     IN IF ClosesCycle(r)
        THEN Reject(r, "circular")
        ELSE IF ~Live(a)
        THEN Reject(r, "notFound")
        ELSE /\ anchor' = [anchor EXCEPT ![r] = IF @ = Null THEN pages[a] ELSE @]
             /\ cursor' = [cursor EXCEPT ![r] = pages[a].parentId]
             /\ Goto(r, IF pages[a].parentId = Null THEN "slug" ELSE "walk")
             /\ UNCHANGED <<db, call, entity, text, dirty, stack, ids>>

(* The reserved-slug and sibling checks of createPage and movePage; between *)
(* them movePage asks whether the caller may create at the new place.       *)
CheckSlug(r) ==
  /\ pc[r] = "slug"
  /\ LET c    == call[r]
         slug == IF c.op = "create" THEN c.slug ELSE entity[r].slug
         self == IF c.op = "create" THEN Null ELSE c.page
     IN \/ /\ Reserved(slug, anchor[r])
           /\ Reject(r, "reserved")
        \/ /\ ~Reserved(slug, anchor[r]) /\ c.op = "move"
           /\ Reject(r, "forbidden")
        \/ /\ ~Reserved(slug, anchor[r]) /\ SlugTaken(slug, c.parent, self)
           /\ Reject(r, "slugTaken")
        \/ /\ ~Reserved(slug, anchor[r]) /\ ~SlugTaken(slug, c.parent, self)
           /\ IF c.op = "create"
              THEN Goto(r, "insert") /\ UNCHANGED <<entity, cursor>>
              ELSE /\ entity' = [entity EXCEPT ![r].parentId = c.parent]
                   /\ cursor' = [cursor EXCEPT ![r] = c.page]
                   /\ Goto(r, "select")
           /\ UNCHANGED <<db, call, anchor, text, dirty, stack, ids>>

(* A mutated form of Insert: the second save of the page is forgotten.       *)
InsertNoPointer(r) ==
  /\ pc[r] = "insert"
  /\ LET c == call[r]
     IN \E p \in Pages :
          /\ pages[p] = Null
          /\ pages' = [pages EXCEPT ![p] =
               [ slug |-> c.slug, title |-> c.title, parentId |-> c.parent,
                 currentVersionId |-> Null, visibility |-> c.visibility,
                 commentsEnabled |-> TRUE, deleted |-> FALSE ]]
          /\ UNCHANGED versions
          /\ Answer(r, "ok")

(* createWithFirstVersion: page, first version and pointer in a transaction. *)
Insert(r) ==
  /\ pc[r] = "insert"
  /\ LET c == call[r]
     IN \/ /\ ~IndexAdmits(c.slug, c.parent, Null)
           /\ Reject(r, "slugTaken")
        \/ /\ IndexAdmits(c.slug, c.parent, Null)
           /\ \E p \in Pages, v \in Versions :
                /\ pages[p] = Null /\ versions[v] = Null
                /\ pages' = [pages EXCEPT ![p] =
                     [ slug |-> c.slug, title |-> c.title, parentId |-> c.parent,
                       currentVersionId |-> v, visibility |-> c.visibility,
                       commentsEnabled |-> TRUE, deleted |-> FALSE ]]
                /\ versions' = [versions EXCEPT ![v] =
                     [pageId |-> p, content |-> c.content, title |-> c.title]]
           /\ Answer(r, "ok")

-----------------------------------------------------------------------------
(* Repository.save(entity): TypeORM reads the row again, soft-deleted or    *)
(* not, and updates every column in which the entity differs from it, so a  *)
(* column another handler wrote since the entity was loaded is put back.    *)
(* The read and the update are two queries.                                 *)

HasNewVersion(r) == call[r].op \in {"update", "restore"}

Select(r) ==
  /\ pc[r] = "select"
  /\ LET row == pages[cursor[r]]
     IN dirty' = [dirty EXCEPT ![r] =
          {col \in Columns : entity[r][col] # row[col]}
            \cup (IF HasNewVersion(r) THEN {"currentVersionId"} ELSE {})]
  /\ Goto(r, "write")
  /\ UNCHANGED <<db, call, entity, anchor, text, cursor, stack, ids>>

(* A mutated form of Updated: the title is not copied to the row.            *)
UpdatedWithoutTitle(r) ==
  [pages[cursor[r]] EXCEPT !.visibility = entity[r].visibility,
                           !.currentVersionId = entity[r].currentVersionId,
                           !.parentId = entity[r].parentId]

(* The row after the update of the dirty columns.                           *)
Updated(r) ==
  LET row == pages[cursor[r]]
  IN [col \in DOMAIN row |-> IF col \in dirty[r] THEN entity[r][col] ELSE row[col]]

(* A mutated form of CommitVersion: the current version is edited in place. *)
CommitVersionInPlace(r) ==
  /\ pc[r] = "write" /\ HasNewVersion(r)
  /\ LET p == cursor[r]
         v == pages[p].currentVersionId
     IN /\ pages' = [pages EXCEPT ![p] = Updated(r)]
        /\ versions' = [versions EXCEPT ![v] =
             [pageId |-> p, content |-> text[r], title |-> entity[r].title]]
  /\ Answer(r, "ok")

(* updateWithNewVersion: the version is inserted and the page repointed in  *)
(* one transaction, rolled back when the index refuses the row (updatePage   *)
(* lets the error of the driver through; here it is a taken slug as well).  *)
CommitVersion(r) ==
  /\ pc[r] = "write" /\ HasNewVersion(r)
  /\ LET p   == cursor[r]
         row == Updated(r)
     IN \/ /\ ~IndexAdmits(row.slug, row.parentId, p)
           /\ Reject(r, "slugTaken")
        \/ /\ IndexAdmits(row.slug, row.parentId, p)
           /\ \E v \in Versions :
                /\ versions[v] = Null
                /\ pages' = [pages EXCEPT ![p] = [row EXCEPT !.currentVersionId = v]]
                /\ versions' = [versions EXCEPT ![v] =
                     [pageId |-> p, content |-> text[r], title |-> entity[r].title]]
           /\ Answer(r, "ok")

(* updateParent, updateVisibility, updateCommentsEnabled.  Only setVisibility *)
(* goes on after its save, with the children of the page.                   *)
WriteRow(r) ==
  /\ pc[r] = "write" /\ ~HasNewVersion(r)
  /\ LET p   == cursor[r]
         row == Updated(r)
     IN \/ /\ ~IndexAdmits(row.slug, row.parentId, p)
           /\ Reject(r, "slugTaken")
        \/ /\ IndexAdmits(row.slug, row.parentId, p)
           /\ pages' = [pages EXCEPT ![p] = row]
           /\ UNCHANGED versions
           /\ IF call[r].op = "visibility"
              THEN /\ Goto(r, "descend")
                   /\ UNCHANGED locals
              ELSE Answer(r, "ok")

-----------------------------------------------------------------------------
(* Recursive descents: cascadeVisibility, collectDescendantIds and          *)
(* deleteRecursive read the children of a page and visit each in turn.      *)

Top(r) == stack[r][Len(stack[r])]

Below(r) == SubSeq(stack[r], 1, Len(stack[r]) - 1)

(* A mutated form of Visiting: the child stays on the list.                  *)
VisitingForever(r, k) == stack[r]

(* The stack of r once child k of the top frame is being visited.           *)
Visiting(r, k) ==
  Append(Below(r), [Top(r) EXCEPT !.todo = @ \ {k}, !.loaded[k] = Null])

(* findChildren(cursor): the descent goes one level down.                   *)
Open(r, from, to, loaded) ==
  /\ pc[r] = from
  /\ Len(stack[r]) < MaxDepth
  /\ stack' = [stack EXCEPT ![r] = Append(@,
       [page |-> cursor[r], todo |-> ChildrenOf(cursor[r]), loaded |-> loaded])]
  /\ Goto(r, to)
  /\ UNCHANGED <<db, call, entity, anchor, text, cursor, dirty, ids>>

NoEntity == [k \in Pages |-> Null]

(* A mutated form of OpenCascade: the children only, not their descendants. *)
OpenCascadeOnce(r) ==
  /\ pc[r] = "descend"
  /\ stack' = [stack EXCEPT ![r] =
       <<[ page |-> cursor[r],
           todo |-> IF stack[r] = <<>> THEN ChildrenOf(cursor[r]) ELSE {},
           loaded |-> [k \in Pages |-> pages[k]] ]>>]
  /\ Goto(r, "cascade")
  /\ UNCHANGED <<db, call, entity, anchor, text, cursor, dirty, ids>>

(* cascadeVisibility of the page the handler just saved.                    *)
OpenCascade(r) ==
  Open(r, "descend", "cascade",
       [k \in Pages |-> IF k \in ChildrenOf(cursor[r]) THEN pages[k] ELSE Null])

(* A mutated form of ChildSaved: the child toggles instead of following.     *)
ChildToggled(r, k) ==
  [Top(r).loaded[k] EXCEPT !.visibility = IF @ = "public" THEN "private" ELSE "public"]

ChildSaved(r, k) == [Top(r).loaded[k] EXCEPT !.visibility = call[r].visibility]

Cascade(r) ==
  /\ pc[r] = "cascade"
  /\ \/ /\ Top(r).todo = {}
        /\ IF Len(stack[r]) = 1
           THEN Reject(r, "ok")
           ELSE /\ stack' = [stack EXCEPT ![r] = Below(r)]
                /\ UNCHANGED <<db, pc, call, entity, anchor, text, cursor, dirty, ids>>
     \/ \E k \in Top(r).todo :
          /\ entity' = [entity EXCEPT ![r] = ChildSaved(r, k)]
          /\ cursor' = [cursor EXCEPT ![r] = k]
          /\ stack' = [stack EXCEPT ![r] = Visiting(r, k)]
          /\ Goto(r, "select")
          /\ UNCHANGED <<db, call, anchor, text, dirty, ids>>

(* A mutated form of Blocked: the children are not asked about.              *)
NeverBlocked(r) == FALSE

(* deletePage: the children decide between an error, a single soft delete   *)
(* and a recursive one.                                                     *)
Blocked(r) == ChildrenOf(call[r].page) # {} /\ ~call[r].cascade

FindChildren(r) ==
  /\ pc[r] = "children"
  /\ IF Blocked(r)
     THEN Reject(r, "hasChildren")
     ELSE /\ Goto(r, IF call[r].cascade THEN "collectVisit" ELSE "softDelete")
          /\ UNCHANGED <<db, call, entity, anchor, text, cursor, dirty, stack, ids>>

SoftDeleted(p) ==
  [pages EXCEPT ![p] = IF @ = Null THEN Null ELSE [@ EXCEPT !.deleted = TRUE]]

SoftDelete(r) ==
  /\ pc[r] = "softDelete"
  /\ pages' = SoftDeleted(cursor[r])
  /\ UNCHANGED versions
  /\ Answer(r, "ok")

(* collectDescendantIds, then the bulk check that every descendant found    *)
(* may be deleted.                                                          *)
OpenCollect(r) == Open(r, "collectVisit", "collect", NoEntity)

(* A mutated form of AllDeletable: one permission opens the whole subtree.  *)
SomeDeletable(S) == S = {} \/ S \cap Deletable # {}

AllDeletable(S) == S \subseteq Deletable

Collect(r) ==
  /\ pc[r] = "collect"
  /\ \/ \E k \in Top(r).todo :
          /\ ids' = [ids EXCEPT ![r] = @ \cup {k}]
          /\ cursor' = [cursor EXCEPT ![r] = k]
          /\ stack' = [stack EXCEPT ![r] = Visiting(r, k)]
          /\ Goto(r, "collectVisit")
          /\ UNCHANGED <<db, call, entity, anchor, text, dirty>>
     \/ /\ Top(r).todo = {} /\ Len(stack[r]) > 1
        /\ stack' = [stack EXCEPT ![r] = Below(r)]
        /\ UNCHANGED <<db, pc, call, entity, anchor, text, cursor, dirty, ids>>
     \/ /\ Top(r).todo = {} /\ Len(stack[r]) = 1
        /\ IF AllDeletable(ids[r])
           THEN /\ cursor' = [cursor EXCEPT ![r] = call[r].page]
                /\ stack' = [stack EXCEPT ![r] = <<>>]
                /\ Goto(r, "deleteVisit")
                /\ UNCHANGED <<db, call, entity, anchor, text, dirty, ids>>
           ELSE Reject(r, "forbidden")

(* deleteRecursive: it reads the children again and deletes bottom-up.      *)
OpenDelete(r) == Open(r, "deleteVisit", "delete", NoEntity)

DeleteRecursive(r) ==
  /\ pc[r] = "delete"
  /\ \/ \E k \in Top(r).todo :
          /\ cursor' = [cursor EXCEPT ![r] = k]
          /\ stack' = [stack EXCEPT ![r] = Visiting(r, k)]
          /\ Goto(r, "deleteVisit")
          /\ UNCHANGED <<db, call, entity, anchor, text, dirty, ids>>
     \/ /\ Top(r).todo = {}
        /\ pages' = SoftDeleted(Top(r).page)
        /\ UNCHANGED versions
        /\ IF Len(stack[r]) = 1
           THEN Answer(r, "ok")
           ELSE /\ stack' = [stack EXCEPT ![r] = Below(r)]
                /\ UNCHANGED <<pc, call, entity, anchor, text, cursor, dirty, ids>>

-----------------------------------------------------------------------------
Step(r) ==
  \/ Load(r) \/ Authorize(r) \/ MergeWithBase(r) \/ Walk(r) \/ CheckSlug(r)
  \/ Insert(r) \/ Select(r) \/ CommitVersion(r) \/ WriteRow(r)
  \/ OpenCascade(r) \/ Cascade(r)
  \/ FindChildren(r) \/ SoftDelete(r)
  \/ OpenCollect(r) \/ Collect(r) \/ OpenDelete(r) \/ DeleteRecursive(r)

Next == \E r \in Requests : Begin(r) \/ Step(r)

Spec == Init /\ [][Next]_vars

-----------------------------------------------------------------------------
(* What holds however the handlers interleave.                              *)

(* currentVersionId (no foreign key in the schema) always names an existing *)
(* version of that very page, although stale saves move it back and forth.  *)
CurrentVersionOwned == \A p \in Pages : Owned(versions, p, pages[p])

(* The history is append-only: no handler changes or removes a version that *)
(* exists, whatever it saves or rolls back.                                 *)
VersionsAppendOnly ==
  [][\A v \in Versions : versions[v] # Null => versions'[v] = versions[v]]_vars

(* Two rows under one parent never share a slug: what the check before an   *)
(* insert, a move or a stale save that writes a parent back cannot ensure.  *)
SlugUniqueUnderParent == ChildSlugsUnique(pages)

(* The handler answers its call with a new version in this step.            *)
Saves(r) == pc[r] = "write" /\ HasNewVersion(r) /\ pc'[r] = "ok"

SavedContent(r) == versions'[pages'[cursor[r]].currentVersionId].content

(* An edit made on an older version is merged with the version its handler  *)
(* read: lines added by either side are in the saved content, and lines     *)
(* removed by either side are not.                                          *)
MergeKeepsBothSides ==
  [][\A r \in Requests :
       (/\ Saves(r) /\ call[r].op = "update" /\ call[r].content # Null
        /\ call[r].base \notin {Null, entity[r].currentVersionId}) =>
         LET base   == versions[call[r].base].content
             mine   == call[r].content
             theirs == versions[entity[r].currentVersionId].content
         IN /\ (mine \ base) \cup (theirs \ base) \subseteq SavedContent(r)
            /\ ((base \ mine) \cup (base \ theirs)) \cap SavedContent(r) = {}]_vars

=============================================================================
