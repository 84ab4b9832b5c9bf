--------------------------- MODULE PageStoreProofs ---------------------------
(***************************************************************************)
(* Theorems about PageStore, for every set of pages, versions, handlers,    *)
(* calls and seeds: the state is well-typed, the current version of a page  *)
(* is always one of its own, the history is append-only, slugs are unique   *)
(* under a parent, and a merge keeps what both sides changed.               *)
(*                                                                         *)
(* A stale save writes back the current version its entity was loaded with, *)
(* so the invariant has to speak of every entity a handler holds: the one   *)
(* it will save and those waiting in the frames of a cascade.               *)
(***************************************************************************)
EXTENDS PageStore, SequenceTheorems, TLAPS

(* Handler r holds an entity of page p, whose version is one of p's.        *)
Holds(r, p) ==
  /\ p \in Pages /\ pages[p] # Null
  /\ entity[r] # Null /\ Owned(versions, p, entity[r])

(* Every entity a frame keeps is owned, and a cascade keeps one per child.  *)
FrameOwned(f, complete) ==
  \A k \in Pages :
    /\ f.loaded[k] # Null =>
         pages[k] # Null /\ Owned(versions, k, f.loaded[k])
    /\ (complete /\ k \in f.todo) => f.loaded[k] # Null

StackOwned(r) ==
  \A i \in 1..Len(stack[r]) :
    FrameOwned(stack[r][i], call[r].op = "visibility")

(* What handler r knows at each of its steps.                               *)
Control(r) ==
  LET c == call[r]
  IN /\ pc[r] \notin {"idle"} \cup Outcomes => c \in Call
     /\ pc[r] = "idle" => stack[r] = <<>>
     /\ pc[r] = "load" => (c.op = "create" => c.parent # Null)
     /\ pc[r] = "authorize" =>
          /\ c.op # "create" => cursor[r] = c.page /\ Holds(r, c.page)
          /\ c.op = "restore" => versions[c.version] # Null
     /\ pc[r] = "merge" => c.op = "update" /\ cursor[r] = c.page /\ Holds(r, c.page)
     /\ pc[r] = "walk" => c.op = "move" /\ cursor[r] \in Pages /\ Holds(r, c.page)
     /\ pc[r] = "slug" =>
          /\ c.op \in {"create", "move"}
          /\ c.op = "move" => Holds(r, c.page)
     /\ pc[r] = "insert" => c.op = "create"
     /\ pc[r] \in {"select", "write"} =>
          /\ c.op \in {"update", "restore", "move", "visibility", "comments"}
          /\ Holds(r, cursor[r])
          /\ c.op \in {"update", "restore"} => text[r] # Null
     /\ pc[r] \in {"descend", "cascade"} => c.op = "visibility"
     /\ pc[r] \in {"children", "softDelete", "collectVisit", "collect",
                   "deleteVisit", "delete"} => c.op = "delete"
     /\ pc[r] \in {"descend", "children", "softDelete", "collectVisit", "deleteVisit"}
          => cursor[r] \in Pages
     /\ pc[r] \in {"cascade", "collect", "delete"} => Len(stack[r]) # 0

Inv ==
  /\ TypeOK
  /\ CurrentVersionOwned
  /\ \A r \in Requests : StackOwned(r) /\ Control(r)

-----------------------------------------------------------------------------
(* No step removes a row or changes a version.                              *)
Grows ==
  /\ \A v \in Versions : versions[v] # Null => versions'[v] = versions[v]
  /\ \A p \in Pages : pages[p] # Null => pages'[p] # Null

(* A step of one handler leaves the variables of handler o alone.           *)
Same(o) ==
  /\ pc'[o] = pc[o] /\ call'[o] = call[o] /\ entity'[o] = entity[o]
  /\ text'[o] = text[o] /\ cursor'[o] = cursor[o] /\ stack'[o] = stack[o]

(* Owning survives every step.                                              *)
LEMMA OwnedStable ==
  ASSUME Grows, NEW p \in Pages, NEW row, Owned(versions, p, row)
  PROVE  Owned(versions', p, row)
BY DEF Grows, Owned

LEMMA HoldsStable ==
  ASSUME Grows, NEW r, NEW p, Holds(r, p), entity'[r] = entity[r]
  PROVE  Holds(r, p)'
BY OwnedStable DEF Holds, Grows

(* What the other handlers know survives a step of one handler.             *)
LEMMA OthersKeep ==
  ASSUME TypeOK, Grows, NEW o \in Requests, Same(o), StackOwned(o), Control(o)
  PROVE  StackOwned(o)' /\ Control(o)'
<1>1. StackOwned(o)'
  <2> SUFFICES ASSUME NEW i \in 1..Len(stack[o])
               PROVE  FrameOwned(stack[o][i], call[o].op = "visibility")'
    BY DEF StackOwned, Same
  <2>1. FrameOwned(stack[o][i], call[o].op = "visibility")
    BY DEF StackOwned
  <2>2. ASSUME NEW k \in Pages, stack[o][i].loaded[k] # Null
        PROVE  pages'[k] # Null /\ Owned(versions', k, stack[o][i].loaded[k])
    BY <2>1, <2>2, OwnedStable DEF FrameOwned, Grows
  <2> QED BY <2>1, <2>2 DEF FrameOwned, Same
<1>2. \A p \in Pages : Holds(o, p) => Holds(o, p)'
  BY HoldsStable DEF Same
<1>3. \A p : Holds(o, p) => p \in Pages
  BY DEF Holds
<1>4. pc[o] = "authorize" /\ call[o].op = "restore" => versions'[call[o].version] # Null
  <2> SUFFICES ASSUME pc[o] = "authorize", call[o].op = "restore"
               PROVE  versions'[call[o].version] # Null
    OBVIOUS
  <2>1. call[o] \in Call /\ versions[call[o].version] # Null
    BY DEF Control, Outcomes
  <2>2. call[o].version \in Versions
    BY <2>1 DEF Call, CreateCall, UpdateCall, RestoreCall, MoveCall, DeleteCall,
                VisibilityCall, CommentsCall
  <2> QED BY <2>1, <2>2, NullAssumption DEF Grows, TypeOK
<1>5. Control(o)'
  BY <1>2, <1>3, <1>4 DEF Control, Same
<1> QED BY <1>1, <1>5

-----------------------------------------------------------------------------
DbType ==
  /\ pages \in [Pages -> Row \cup {Null}]
  /\ versions \in [Versions -> VersionRow \cup {Null}]

LocalType ==
  /\ pc \in [Requests -> Steps]
  /\ call \in [Requests -> Call \cup {Null}]
  /\ entity \in [Requests -> Row \cup {Null}]
  /\ anchor \in [Requests -> Row \cup {Null}]
  /\ text \in [Requests -> {Null} \cup Contents]
  /\ cursor \in [Requests -> Pages \cup {Null}]
  /\ dirty \in [Requests -> SUBSET Columns]
  /\ stack \in [Requests -> Seq(Frame)]
  /\ ids \in [Requests -> SUBSET Pages]

LEMMA TypeParts == TypeOK <=> DbType /\ LocalType
BY DEF TypeOK, DbType, LocalType

(* The shape every step of a handler r has to have to keep the invariant.   *)
LEMMA StepKeeps ==
  ASSUME Inv, NEW r \in Requests, Grows, DbType', LocalType', CurrentVersionOwned',
         \A o \in Requests \ {r} : Same(o),
         StackOwned(r)', Control(r)'
  PROVE  Inv'
<1>1. \A o \in Requests \ {r} : StackOwned(o)' /\ Control(o)'
  BY OthersKeep DEF Inv
<1>2. TypeOK'
  BY DEF TypeOK, DbType, LocalType
<1> QED BY <1>1, <1>2 DEF Inv

(* A step that leaves the database alone.                                   *)
LEMMA LocalStepKeeps ==
  ASSUME Inv, NEW r \in Requests, UNCHANGED db, LocalType',
         \A o \in Requests \ {r} : Same(o),
         StackOwned(r)', Control(r)'
  PROVE  Inv'
<1>1. Grows
  BY DEF Grows, db
<1>2. CurrentVersionOwned'
  BY DEF CurrentVersionOwned, Owned, Inv, db
<1>3. DbType'
  BY DEF Inv, TypeOK, DbType, db
<1> QED BY <1>1, <1>2, <1>3, StepKeeps

(* A handler that answers holds nothing any more.                           *)
LEMMA AnswerKeeps ==
  ASSUME LocalType, NEW r \in Requests, NEW out \in Outcomes, Answer(r, out)
  PROVE  /\ LocalType'
         /\ \A o \in Requests \ {r} : Same(o)
         /\ StackOwned(r)' /\ Control(r)'
<1>1. LocalType'
  BY DEF LocalType, Answer, Goto, Steps
<1>2. \A o \in Requests \ {r} : Same(o)
  BY DEF LocalType, Answer, Goto, Same
<1>3. pc'[r] = out /\ stack'[r] = <<>>
  BY DEF LocalType, Answer, Goto
<1>4. StackOwned(r)'
  BY <1>3 DEF StackOwned
<1>5. Control(r)'
  BY <1>3 DEF Control, Outcomes
<1> QED BY <1>1, <1>2, <1>4, <1>5

LEMMA RejectKeeps ==
  ASSUME Inv, NEW r \in Requests, NEW out \in Outcomes, Reject(r, out)
  PROVE  Inv'
BY AnswerKeeps, LocalStepKeeps, TypeParts DEF Inv, Reject

LEMMA InitInv == Init => Inv
<1> SUFFICES ASSUME Init PROVE Inv
  OBVIOUS
<1>1. TypeOK
  BY SeedsAssumption DEF Init, TypeOK, Steps
<1>2. CurrentVersionOwned
  BY SeedsAssumption DEF Init, CurrentVersionOwned
<1>3. \A r \in Requests : StackOwned(r) /\ Control(r)
  BY DEF Init, StackOwned, Control, Outcomes
<1> QED BY <1>1, <1>2, <1>3 DEF Inv

LEMMA BeginKeeps ==
  ASSUME Inv, NEW r \in Requests, Begin(r)
  PROVE  Inv'
<1>1. PICK c \in Calls :
        /\ call' = [call EXCEPT ![r] = c]
        /\ Goto(r, IF c.op = "create" /\ c.parent = Null THEN "authorize" ELSE "load")
  BY DEF Begin
<1>2. c \in Call
  BY CallsAssumption
<1>3. LocalType /\ LocalType'
  BY <1>1, <1>2, TypeParts DEF Inv, Begin, LocalType, Goto, Steps
<1>4. \A o \in Requests \ {r} : Same(o)
  BY <1>1, <1>3 DEF Begin, LocalType, Goto, Same
<1>5. StackOwned(r)'
  <2>1. stack'[r] = <<>>
    BY DEF Begin, Inv, Control
  <2> QED BY <2>1 DEF StackOwned
<1>6. Control(r)'
  BY <1>1, <1>2, <1>3 DEF LocalType, Goto, Control, Outcomes
<1> QED BY <1>3, <1>4, <1>5, <1>6, LocalStepKeeps DEF Begin

(* The fields of a call, by operation.                                      *)
LEMMA CallFields ==
  ASSUME NEW c \in Call
  PROVE  /\ c.op \in {"create", "update", "restore", "move", "delete", "visibility",
                      "comments"}
         /\ c.op # "create" => c.page \in Pages
         /\ c.op \in {"create", "move"} => c.parent \in Pages \cup {Null}
         /\ c.op = "create" => c \in CreateCall
         /\ c.op = "update" => c \in UpdateCall
         /\ c.op = "restore" => c.version \in Versions
         /\ c.op = "visibility" => c.visibility \in Visibilities
         /\ c.op = "comments" => c.commentsEnabled \in BOOLEAN
BY DEF Call, CreateCall, UpdateCall, RestoreCall, MoveCall, DeleteCall,
       VisibilityCall, CommentsCall

LEMMA LoadKeeps ==
  ASSUME Inv, NEW r \in Requests, Load(r)
  PROVE  Inv'
<1> DEFINE c == call[r]
           p == IF c.op = "create" THEN c.parent ELSE c.page
<1>1. c \in Call /\ pc[r] = "load" /\ p \in Pages
  <2>1. c \in Call /\ pc[r] = "load" /\ (c.op = "create" => c.parent # Null)
    BY DEF Load, Inv, Control, Outcomes
  <2> QED BY <2>1, CallFields
<1>2. CASE Reject(r, "notFound") \/ Reject(r, "versionNotFound")
  BY <1>2, RejectKeeps DEF Outcomes
<1>3. CASE /\ Live(p)
           /\ c.op = "restore" => versions[c.version] # Null
           /\ IF c.op = "create"
              THEN /\ anchor' = [anchor EXCEPT ![r] = pages[p]]
                   /\ UNCHANGED <<entity, cursor>>
              ELSE /\ entity' = [entity EXCEPT ![r] = pages[p]]
                   /\ cursor' = [cursor EXCEPT ![r] = p]
                   /\ UNCHANGED anchor
           /\ Goto(r, "authorize")
           /\ UNCHANGED <<db, call, text, dirty, stack, ids>>
  <2> LocalType /\ pages[p] \in Row /\ pages[p] # Null
    BY <1>1, <1>3, TypeParts DEF Inv, DbType, Live
  <2>1. LocalType'
    BY <1>1, <1>3 DEF LocalType, Goto, Steps
  <2>2. \A o \in Requests \ {r} : Same(o)
    BY <1>3, <2>1 DEF LocalType, Goto, Same
  <2>3. c.op # "create" => Holds(r, c.page)' /\ cursor'[r] = c.page
    BY <1>1, <1>3, <2>1, TypeParts
       DEF Inv, LocalType, DbType, Holds, Live, CurrentVersionOwned, Owned, db
  <2>4. Control(r)'
    BY <1>1, <1>3, <2>1, <2>3 DEF LocalType, Goto, Control, db, Outcomes
  <2>5. StackOwned(r)'
    BY <1>3 DEF Inv, StackOwned, FrameOwned, db, Owned
  <2> QED BY <1>3, <2>1, <2>2, <2>4, <2>5, LocalStepKeeps
<1> QED BY <1>2, <1>3 DEF Load

(* A step that changes at most what a handler loaded, keeps its stack, and   *)
(* goes on.                                                                 *)
LEMMA GoOnKeeps ==
  ASSUME Inv, NEW r \in Requests, NEW step \in Steps, Goto(r, step),
         UNCHANGED <<db, call, dirty, stack, ids>>,
         entity' \in [Requests -> Row \cup {Null}],
         anchor' \in [Requests -> Row \cup {Null}],
         text' \in [Requests -> {Null} \cup Contents],
         cursor' \in [Requests -> Pages \cup {Null}],
         \A o \in Requests \ {r} :
           entity'[o] = entity[o] /\ text'[o] = text[o] /\ cursor'[o] = cursor[o],
         Control(r)'
  PROVE  Inv'
<1> LocalType
  BY TypeParts DEF Inv
<1>1. LocalType'
  BY DEF LocalType, Goto
<1>2. \A o \in Requests \ {r} : Same(o)
  BY DEF LocalType, Goto, Same
<1>3. StackOwned(r)'
  BY DEF Inv, StackOwned, FrameOwned, db, Owned
<1> QED BY <1>1, <1>2, <1>3, LocalStepKeeps

(* The part of Control that says what handler r may do where it goes next.  *)
LEMMA GoOnControl ==
  ASSUME LocalType, NEW r \in Requests, NEW step, Goto(r, step)
  PROVE  pc'[r] = step
BY DEF LocalType, Goto

LEMMA AuthorizeKeeps ==
  ASSUME Inv, NEW r \in Requests, Authorize(r)
  PROVE  Inv'
<1> DEFINE c == call[r]
           Rest == UNCHANGED <<db, call, anchor, dirty, stack, ids>>
<1> LocalType
  BY TypeParts DEF Inv
<1>0. /\ c \in Call
      /\ c.op # "create" => cursor[r] = c.page /\ Holds(r, c.page)
      /\ c.op = "restore" => versions[c.version] # Null
  BY DEF Authorize, Inv, Control, Outcomes
<1>1. CASE Reject(r, "forbidden")
  BY <1>1, RejectKeeps DEF Outcomes
<1>2. CASE Rest /\ c.op = "create" /\ Goto(r, "slug") /\ UNCHANGED <<entity, text, cursor>>
  <2>1. Control(r)'
    BY <1>0, <1>2, GoOnControl DEF Control, Outcomes
  <2> QED BY <1>2, <2>1, GoOnKeeps DEF LocalType, Steps
<1>3. CASE Rest /\ c.op = "update" /\ Goto(r, "merge") /\ UNCHANGED <<entity, text, cursor>>
  <2>1. Holds(r, c.page)'
    BY <1>0, <1>3 DEF Holds, db, Owned
  <2>2. Control(r)'
    BY <1>0, <1>3, <2>1, GoOnControl DEF Control, Outcomes
  <2> QED BY <1>3, <2>2, GoOnKeeps DEF LocalType, Steps
<1>4. CASE /\ Rest /\ c.op = "restore" /\ Goto(r, "select")
           /\ text' = [text EXCEPT ![r] = versions[c.version].content]
           /\ UNCHANGED <<entity, cursor>>
  <2>1. versions[c.version].content \in Contents
    BY <1>0, <1>4, CallFields, TypeParts DEF Inv, DbType, VersionRow
  <2>2. Holds(r, cursor[r])'
    BY <1>0, <1>4 DEF Holds, db, Owned
  <2>3. Control(r)'
    BY <1>0, <1>4, <2>1, <2>2, GoOnControl, NullAssumption DEF LocalType, Control, Outcomes
  <2> QED BY <1>4, <2>1, <2>3, GoOnKeeps DEF LocalType, Steps
<1>5. CASE /\ Rest /\ c.op = "move"
           /\ cursor' = [cursor EXCEPT ![r] = c.parent]
           /\ Goto(r, IF c.parent = Null THEN "slug" ELSE "walk")
           /\ UNCHANGED <<entity, text>>
  <2>1. Holds(r, c.page)'
    BY <1>0, <1>5 DEF Holds, db, Owned
  <2>2. c.parent \in Pages \cup {Null}
    BY <1>0, <1>5, CallFields
  <2>3. Control(r)'
    BY <1>0, <1>5, <2>1, <2>2, GoOnControl DEF LocalType, Control, Outcomes
  <2> QED BY <1>5, <2>2, <2>3, GoOnKeeps DEF LocalType, Steps
<1>6. CASE Rest /\ c.op = "delete" /\ Goto(r, "children") /\ UNCHANGED <<entity, text, cursor>>
  <2>1. Control(r)'
    BY <1>0, <1>6, GoOnControl, CallFields DEF Control, Outcomes
  <2> QED BY <1>6, <2>1, GoOnKeeps DEF LocalType, Steps
<1>7. CASE /\ Rest /\ c.op \in {"visibility", "comments"} /\ Goto(r, "select")
           /\ \/ /\ c.op = "visibility"
                 /\ entity' = [entity EXCEPT ![r] =
                                 [entity[r] EXCEPT !.visibility = c.visibility]]
              \/ /\ c.op = "comments"
                 /\ entity' = [entity EXCEPT ![r] =
                                 [entity[r] EXCEPT !.commentsEnabled = c.commentsEnabled]]
           /\ UNCHANGED <<text, cursor>>
  <2>1. entity[r] \in Row
    BY <1>0, <1>7 DEF Holds, LocalType
  <2>2. PICK e \in Row : /\ entity' = [entity EXCEPT ![r] = e]
                        /\ e.currentVersionId = entity[r].currentVersionId
    <3>1. CASE c.op = "visibility"
      <4> DEFINE e == [entity[r] EXCEPT !.visibility = c.visibility]
      <4>1. e \in Row /\ e.currentVersionId = entity[r].currentVersionId
        BY <1>0, <2>1, <3>1, CallFields DEF Row
      <4> QED BY <1>7, <3>1, <4>1
    <3>2. CASE c.op = "comments"
      <4> DEFINE e == [entity[r] EXCEPT !.commentsEnabled = c.commentsEnabled]
      <4>1. e \in Row /\ e.currentVersionId = entity[r].currentVersionId
        BY <1>0, <2>1, <3>2, CallFields DEF Row
      <4> QED BY <1>7, <3>2, <4>1
    <3> QED BY <1>7, <3>1, <3>2
  <2>3. /\ entity' \in [Requests -> Row \cup {Null}] /\ entity'[r] = e
        /\ \A o \in Requests \ {r} : entity'[o] = entity[o]
    BY <2>2 DEF LocalType
  <2>5. Holds(r, cursor[r])'
    BY <1>0, <1>7, <2>2, <2>3, NullAssumption DEF Holds, db, Owned
  <2>4. Control(r)'
    BY <1>0, <1>7, <2>5, GoOnControl DEF Control, Outcomes
  <2> QED BY <1>7, <2>3, <2>4, GoOnKeeps DEF LocalType, Steps
<1> QED BY <1>1, <1>2, <1>3, <1>4, <1>5, <1>6, <1>7 DEF Authorize

LEMMA MergeKeeps ==
  ASSUME Inv, NEW r \in Requests, MergeWithBase(r)
  PROVE  Inv'
<1> DEFINE c      == call[r]
           theirs == versions[entity[r].currentVersionId].content
           mine   == IF c.content = Null THEN theirs ELSE c.content
           save(t) == /\ text' = [text EXCEPT ![r] = t]
                      /\ entity' = [entity EXCEPT ![r].title = TitleAfter(r)]
                      /\ Goto(r, "select")
                      /\ UNCHANGED <<db, call, anchor, cursor, dirty, stack, ids>>
<1> LocalType /\ DbType
  BY TypeParts DEF Inv
<1>1. c \in Call /\ c.op = "update" /\ cursor[r] = c.page /\ Holds(r, c.page)
  BY DEF MergeWithBase, Inv, Control, Outcomes
<1>2. /\ c.title \in Titles \cup {Null} /\ c.content \in {Null} \cup Contents
      /\ c.base \in Versions \cup {Null}
  BY <1>1, CallFields DEF UpdateCall
<1>3. theirs \in Contents /\ mine \in Contents
  <2>1. theirs \in Contents
    BY <1>1 DEF Holds, Owned, DbType, VersionRow
  <2> QED BY <1>2, <2>1
<1>4. entity[r] \in Row /\ TitleAfter(r) \in Titles
  <2>1. entity[r] \in Row
    BY <1>1 DEF Holds, LocalType
  <2> QED BY <1>2, <2>1 DEF TitleAfter, Row
<1>5. ASSUME NEW t \in Contents, save(t)
      PROVE  Inv'
  <2> DEFINE e == [entity[r] EXCEPT !.title = TitleAfter(r)]
  <2>1. e \in Row /\ e.currentVersionId = entity[r].currentVersionId
    BY <1>4 DEF Row
  <2>2. /\ entity' \in [Requests -> Row \cup {Null}] /\ entity'[r] = e
        /\ \A o \in Requests \ {r} : entity'[o] = entity[o]
    BY <1>5, <2>1 DEF LocalType
  <2>3. text' \in [Requests -> {Null} \cup Contents] /\ text'[r] = t /\ t # Null
        /\ \A o \in Requests \ {r} : text'[o] = text[o]
    BY <1>5, NullAssumption DEF LocalType
  <2>4. Holds(r, cursor[r])'
    BY <1>1, <1>5, <2>1, <2>2, NullAssumption DEF Holds, db, Owned
  <2>5. Control(r)'
    BY <1>1, <1>5, <2>3, <2>4, GoOnControl DEF Control, Outcomes
  <2> QED BY <1>5, <2>2, <2>3, <2>5, GoOnKeeps DEF LocalType, Steps
<1>6. CASE Reject(r, "versionNotFound") \/ Reject(r, "conflict")
  BY <1>6, RejectKeeps DEF Outcomes
<1>7. CASE save(mine)
  BY <1>3, <1>5, <1>7
<1>8. CASE /\ c.base # Null /\ versions[c.base] # Null
           /\ save(Merged(versions[c.base].content, mine, theirs))
  <2>1. versions[c.base].content \in Contents
    BY <1>2, <1>8 DEF DbType, VersionRow
  <2>2. Merged(versions[c.base].content, mine, theirs) \in Contents
    BY <1>3, <2>1 DEF Merged, Contents
  <2> QED BY <1>5, <1>8, <2>2
<1> QED BY <1>6, <1>7, <1>8 DEF MergeWithBase, NeedsMerge

LEMMA WalkKeeps ==
  ASSUME Inv, NEW r \in Requests, Walk(r)
  PROVE  Inv'
<1> DEFINE c == call[r]
           a == cursor[r]
<1> LocalType /\ DbType
  BY TypeParts DEF Inv
<1>1. c \in Call /\ c.op = "move" /\ a \in Pages /\ Holds(r, c.page)
  BY DEF Walk, Inv, Control, Outcomes
<1>2. CASE Reject(r, "circular") \/ Reject(r, "notFound")
  BY <1>2, RejectKeeps DEF Outcomes
<1>3. CASE /\ Live(a)
           /\ anchor' = [anchor EXCEPT ![r] = IF @ = Null THEN pages[a] ELSE @]
           /\ cursor' = [cursor EXCEPT ![r] = pages[a].parentId]
           /\ Goto(r, IF pages[a].parentId = Null THEN "slug" ELSE "walk")
           /\ UNCHANGED <<db, call, entity, text, dirty, stack, ids>>
  <2>1. pages[a] \in Row /\ pages[a].parentId \in Pages \cup {Null}
    BY <1>1, <1>3 DEF Live, DbType, Row
  <2>2. Holds(r, c.page)'
    BY <1>1, <1>3 DEF Holds, db, Owned
  <2>3. Control(r)'
    BY <1>1, <1>3, <2>1, <2>2, GoOnControl DEF LocalType, Control, Outcomes
  <2> QED BY <1>3, <2>1, <2>3, GoOnKeeps DEF LocalType, Steps
<1> QED BY <1>2, <1>3 DEF Walk

LEMMA CheckSlugKeeps ==
  ASSUME Inv, NEW r \in Requests, CheckSlug(r)
  PROVE  Inv'
<1> DEFINE c == call[r]
<1> LocalType /\ DbType
  BY TypeParts DEF Inv
<1>1. /\ c \in Call /\ c.op \in {"create", "move"}
      /\ c.op = "move" => Holds(r, c.page)
  BY DEF CheckSlug, Inv, Control, Outcomes
<1>2. CASE Reject(r, "reserved") \/ Reject(r, "forbidden") \/ Reject(r, "slugTaken")
  BY <1>2, RejectKeeps DEF Outcomes
<1>3. CASE /\ c.op = "create" /\ Goto(r, "insert") /\ UNCHANGED <<entity, cursor>>
           /\ UNCHANGED <<db, call, anchor, text, dirty, stack, ids>>
  <2>1. Control(r)'
    BY <1>1, <1>3, GoOnControl DEF Control, Outcomes
  <2> QED BY <1>3, <2>1, GoOnKeeps DEF LocalType, Steps
<1>4. CASE /\ c.op # "create"
           /\ entity' = [entity EXCEPT ![r].parentId = c.parent]
           /\ cursor' = [cursor EXCEPT ![r] = c.page]
           /\ Goto(r, "select")
           /\ UNCHANGED <<db, call, anchor, text, dirty, stack, ids>>
  <2> DEFINE e == [entity[r] EXCEPT !.parentId = c.parent]
  <2>1. c.op = "move" /\ c.page \in Pages /\ c.parent \in Pages \cup {Null}
    BY <1>1, <1>4, CallFields
  <2>2. entity[r] \in Row
    BY <1>1, <2>1 DEF Holds, LocalType
  <2>3. e \in Row /\ e.currentVersionId = entity[r].currentVersionId
    BY <2>1, <2>2 DEF Row
  <2>4. /\ entity' \in [Requests -> Row \cup {Null}] /\ entity'[r] = e
        /\ \A o \in Requests \ {r} : entity'[o] = entity[o]
    BY <1>4, <2>3 DEF LocalType
  <2>5. /\ cursor' \in [Requests -> Pages \cup {Null}] /\ cursor'[r] = c.page
        /\ \A o \in Requests \ {r} : cursor'[o] = cursor[o]
    BY <1>4, <2>1 DEF LocalType
  <2>6. Holds(r, cursor[r])'
    BY <1>1, <1>4, <2>1, <2>3, <2>4, <2>5, NullAssumption DEF Holds, db, Owned
  <2>7. Control(r)'
    BY <1>1, <1>4, <2>1, <2>6, GoOnControl DEF Control, Outcomes
  <2> QED BY <1>4, <2>4, <2>5, <2>7, GoOnKeeps DEF LocalType, Steps
<1> QED BY <1>2, <1>3, <1>4 DEF CheckSlug

-----------------------------------------------------------------------------
(* A step that writes the database and answers.                             *)
LEMMA AnswerStepKeeps ==
  ASSUME Inv, NEW r \in Requests, NEW out \in Outcomes, Answer(r, out),
         Grows, DbType', CurrentVersionOwned'
  PROVE  Inv'
BY AnswerKeeps, StepKeeps, TypeParts DEF Inv

LEMMA InsertKeeps ==
  ASSUME Inv, NEW r \in Requests, Insert(r)
  PROVE  Inv'
<1> DEFINE c == call[r]
<1> DbType
  BY TypeParts DEF Inv
<1>1. c \in CreateCall
  BY CallFields DEF Insert, Inv, Control, Outcomes
<1>2. CASE Reject(r, "slugTaken")
  BY <1>2, RejectKeeps DEF Outcomes
<1>3. ASSUME NEW p \in Pages, NEW v \in Versions, Answer(r, "ok"),
             pages[p] = Null, versions[v] = Null,
             pages' = [pages EXCEPT ![p] =
               [ slug |-> c.slug, title |-> c.title, parentId |-> c.parent,
                 currentVersionId |-> v, visibility |-> c.visibility,
                 commentsEnabled |-> TRUE, deleted |-> FALSE ]],
             versions' = [versions EXCEPT ![v] =
               [pageId |-> p, content |-> c.content, title |-> c.title]]
      PROVE  Inv'
  <2> DEFINE row == [ slug |-> c.slug, title |-> c.title, parentId |-> c.parent,
                      currentVersionId |-> v, visibility |-> c.visibility,
                      commentsEnabled |-> TRUE, deleted |-> FALSE ]
             new == [pageId |-> p, content |-> c.content, title |-> c.title]
  <2>1. row \in Row /\ new \in VersionRow
    BY <1>1 DEF CreateCall, Row, VersionRow
  <2>2. /\ pages'[p] = row /\ versions'[v] = new
        /\ \A q \in Pages \ {p} : pages'[q] = pages[q]
        /\ \A w \in Versions \ {v} : versions'[w] = versions[w]
    BY <1>3 DEF DbType
  <2>3. DbType'
    BY <1>3, <2>1 DEF DbType
  <2>4. Grows
    BY <1>3, <2>2 DEF Grows
  <2>5. Owned(versions', p, row)
    BY <2>1, <2>2, NullAssumption DEF Owned
  <2>6. CurrentVersionOwned'
    BY <2>2, <2>4, <2>5, OwnedStable DEF Inv, CurrentVersionOwned
  <2> QED BY <1>3, <2>3, <2>4, <2>6, AnswerStepKeeps DEF Outcomes
<1> QED BY <1>2, <1>3 DEF Insert

LEMMA SelectKeeps ==
  ASSUME Inv, NEW r \in Requests, Select(r)
  PROVE  Inv'
<1> LocalType
  BY TypeParts DEF Inv
<1>1. /\ call[r] \in Call /\ Holds(r, cursor[r])
      /\ call[r].op \in {"update", "restore", "move", "visibility", "comments"}
      /\ call[r].op \in {"update", "restore"} => text[r] # Null
  BY DEF Select, Inv, Control, Outcomes
<1>2. dirty' \in [Requests -> SUBSET Columns]
  BY DEF Select, LocalType, Columns
<1>3. LocalType'
  BY <1>2 DEF Select, LocalType, Goto, Steps
<1>4. \A o \in Requests \ {r} : Same(o)
  BY DEF Select, LocalType, Goto, Same
<1>5. StackOwned(r)'
  BY DEF Select, Inv, StackOwned, FrameOwned, db, Owned
<1>6. Holds(r, cursor[r])'
  BY <1>1 DEF Select, Holds, db, Owned
<1>7. Control(r)'
  BY <1>1, <1>6, GoOnControl DEF Select, Control, Outcomes
<1> QED BY <1>3, <1>4, <1>5, <1>7, LocalStepKeeps DEF Select

(* What a save writes is well-formed, and its version is one of the page's:  *)
(* either the one the row has by now or the one the entity was loaded with. *)
LEMMA UpdatedOwned ==
  ASSUME DbType, LocalType, CurrentVersionOwned, NEW r \in Requests, Holds(r, cursor[r])
  PROVE  Updated(r) \in Row /\ Owned(versions, cursor[r], Updated(r))
<1> DEFINE p == cursor[r]
<1>1. p \in Pages /\ pages[p] \in Row /\ entity[r] \in Row
  BY DEF Holds, DbType, LocalType
<1>2. Updated(r) \in Row
  BY <1>1 DEF Updated, Row
<1>3. Updated(r).currentVersionId \in {pages[p].currentVersionId, entity[r].currentVersionId}
  BY <1>1 DEF Updated, Row
<1>4. Owned(versions, p, pages[p]) /\ Owned(versions, p, entity[r])
  BY <1>1 DEF CurrentVersionOwned, Holds
<1> QED BY <1>1, <1>2, <1>3, <1>4, NullAssumption DEF Owned

LEMMA CommitVersionKeeps ==
  ASSUME Inv, NEW r \in Requests, CommitVersion(r)
  PROVE  Inv'
<1> DEFINE p   == cursor[r]
           row == Updated(r)
<1> DbType /\ LocalType /\ CurrentVersionOwned
  BY TypeParts DEF Inv
<1>1. /\ Holds(r, p) /\ text[r] \in Contents
  BY DEF CommitVersion, HasNewVersion, Inv, Control, Outcomes, LocalType
<1>2. CASE Reject(r, "slugTaken")
  BY <1>2, RejectKeeps DEF Outcomes
<1>3. ASSUME NEW v \in Versions, versions[v] = Null, Answer(r, "ok"),
             pages' = [pages EXCEPT ![p] = [row EXCEPT !.currentVersionId = v]],
             versions' = [versions EXCEPT ![v] =
               [pageId |-> p, content |-> text[r], title |-> entity[r].title]]
      PROVE  Inv'
  <2> DEFINE saved == [row EXCEPT !.currentVersionId = v]
             new   == [pageId |-> p, content |-> text[r], title |-> entity[r].title]
  <2>1. row \in Row /\ entity[r] \in Row /\ p \in Pages
    BY <1>1, UpdatedOwned DEF Holds, LocalType
  <2>2. saved \in Row /\ saved.currentVersionId = v
    BY <2>1 DEF Row
  <2>3. new \in VersionRow
    BY <1>1, <2>1 DEF Row, VersionRow
  <2>4. /\ pages'[p] = saved /\ versions'[v] = new
        /\ \A q \in Pages \ {p} : pages'[q] = pages[q]
        /\ \A w \in Versions \ {v} : versions'[w] = versions[w]
    BY <1>3, <2>1 DEF DbType
  <2>5. DbType'
    BY <1>3, <2>2, <2>3 DEF DbType
  <2>6. Grows
    BY <1>3, <2>2, <2>4, NullAssumption DEF Grows
  <2>7. Owned(versions', p, saved)
    BY <2>2, <2>3, <2>4, NullAssumption DEF Owned
  <2>8. CurrentVersionOwned'
    BY <2>4, <2>6, <2>7, OwnedStable DEF CurrentVersionOwned
  <2> QED BY <1>3, <2>5, <2>6, <2>8, AnswerStepKeeps DEF Outcomes
<1> QED BY <1>2, <1>3 DEF CommitVersion

(* A row replaced by one of the same page leaves the database well-formed.  *)
LEMMA ReplaceRow ==
  ASSUME DbType, CurrentVersionOwned, NEW p \in Pages, NEW row \in Row,
         Owned(versions, p, row), pages' = [pages EXCEPT ![p] = row], UNCHANGED versions
  PROVE  Grows /\ DbType' /\ CurrentVersionOwned'
<1>1. /\ pages'[p] = row
      /\ \A q \in Pages \ {p} : pages'[q] = pages[q]
  BY DEF DbType
<1>2. DbType'
  BY DEF DbType
<1>3. Grows
  BY <1>1, NullAssumption DEF Grows
<1>4. CurrentVersionOwned'
  BY <1>1, <1>3, OwnedStable DEF CurrentVersionOwned
<1> QED BY <1>2, <1>3, <1>4

LEMMA WriteRowKeeps ==
  ASSUME Inv, NEW r \in Requests, WriteRow(r)
  PROVE  Inv'
<1> DEFINE p   == cursor[r]
           row == Updated(r)
<1> DbType /\ LocalType /\ CurrentVersionOwned
  BY TypeParts DEF Inv
<1>1. call[r] \in Call /\ Holds(r, p) /\ p \in Pages
  BY DEF WriteRow, Inv, Control, Outcomes, Holds
<1>2. CASE Reject(r, "slugTaken")
  BY <1>2, RejectKeeps DEF Outcomes
<1>3. CASE pages' = [pages EXCEPT ![p] = row] /\ UNCHANGED versions
  <2>1. Grows /\ DbType' /\ CurrentVersionOwned'
    BY <1>1, <1>3, UpdatedOwned, ReplaceRow
  <2>2. CASE Answer(r, "ok")
    BY <2>1, <2>2, AnswerStepKeeps DEF Outcomes
  <2>3. CASE call[r].op = "visibility" /\ Goto(r, "descend") /\ UNCHANGED locals
    <3>1. LocalType'
      BY <2>3 DEF LocalType, locals, Goto, Steps
    <3>2. \A o \in Requests \ {r} : Same(o)
      BY <2>3 DEF LocalType, locals, Goto, Same
    <3>3. StackOwned(r)'
      <4> SUFFICES ASSUME NEW i \in 1..Len(stack[r])
                   PROVE  FrameOwned(stack[r][i], call[r].op = "visibility")'
        BY <2>3 DEF StackOwned, locals
      <4>1. FrameOwned(stack[r][i], call[r].op = "visibility")
        BY DEF Inv, StackOwned
      <4> QED BY <2>1, <2>3, <4>1, OwnedStable DEF FrameOwned, Grows, locals
    <3>4. Control(r)'
      BY <1>1, <2>3, GoOnControl DEF Control, Outcomes, locals
    <3> QED BY <2>1, <3>1, <3>2, <3>3, <3>4, StepKeeps
  <2> QED BY <1>2, <1>3, <2>2, <2>3 DEF WriteRow
<1> QED BY <1>2, <1>3 DEF WriteRow

-----------------------------------------------------------------------------
(* Recursive descents.                                                      *)

(* The top of a stack and what is below it.                                 *)
LEMMA StackParts ==
  ASSUME LocalType, NEW r \in Requests, Len(stack[r]) # 0
  PROVE  /\ Len(stack[r]) \in Nat \ {0} /\ Top(r) \in Frame
         /\ Below(r) \in Seq(Frame) /\ Len(Below(r)) = Len(stack[r]) - 1
         /\ \A i \in 1..Len(Below(r)) : Below(r)[i] = stack[r][i]
<1> DEFINE s == stack[r]
<1>1. s \in Seq(Frame) /\ Len(s) \in Nat \ {0}
  BY DEF LocalType
<1>2. Len(s) \in 1..Len(s) /\ s[Len(s)] \in Frame
  BY <1>1
<1>3. Below(r) \in Seq(Frame) /\ Len(Below(r)) = Len(s) - 1
  BY <1>1 DEF Below
<1>4. \A i \in 1..Len(s) - 1 : Below(r)[i] = s[i]
  BY <1>1 DEF Below
<1> QED BY <1>1, <1>2, <1>3, <1>4 DEF Top

(* A step of a descent: it replaces the stack of its handler by one whose   *)
(* frames are owned, and goes on.                                           *)
LEMMA DescentKeeps ==
  ASSUME Inv, NEW r \in Requests, NEW step \in Steps, Goto(r, step),
         Grows, DbType', CurrentVersionOwned',
         UNCHANGED <<call, anchor, text, dirty>>,
         entity' \in [Requests -> Row \cup {Null}],
         cursor' \in [Requests -> Pages \cup {Null}],
         ids' \in [Requests -> SUBSET Pages],
         \A o \in Requests \ {r} : entity'[o] = entity[o] /\ cursor'[o] = cursor[o],
         NEW s \in Seq(Frame), stack' = [stack EXCEPT ![r] = s],
         \A i \in 1..Len(s) : FrameOwned(s[i], call[r].op = "visibility"),
         Control(r)'
  PROVE  Inv'
<1> LocalType
  BY TypeParts DEF Inv
<1>1. LocalType'
  BY DEF LocalType, Goto
<1>2. \A o \in Requests \ {r} : Same(o)
  BY DEF LocalType, Goto, Same
<1>3. StackOwned(r)'
  <2>1. stack'[r] = s /\ call'[r] = call[r]
    BY DEF LocalType
  <2> SUFFICES ASSUME NEW i \in 1..Len(s)
               PROVE  FrameOwned(s[i], call[r].op = "visibility")'
    BY <2>1 DEF StackOwned
  <2>2. FrameOwned(s[i], call[r].op = "visibility")
    OBVIOUS
  <2>3. ASSUME NEW k \in Pages, s[i].loaded[k] # Null
        PROVE  pages'[k] # Null /\ Owned(versions', k, s[i].loaded[k])
    BY <2>2, <2>3, OwnedStable DEF FrameOwned, Grows
  <2> QED BY <2>1, <2>2, <2>3 DEF FrameOwned
<1> QED BY <1>1, <1>2, <1>3, StepKeeps

(* Nothing a descent does to the stack adds an entity, so the frames stay    *)
(* owned: below the top, and in the top while a child is visited.           *)
LEMMA BelowOwned ==
  ASSUME LocalType, NEW r \in Requests, StackOwned(r), Len(stack[r]) # 0
  PROVE  \A i \in 1..Len(Below(r)) : FrameOwned(Below(r)[i], call[r].op = "visibility")
<1> SUFFICES ASSUME NEW i \in 1..Len(Below(r))
             PROVE  FrameOwned(Below(r)[i], call[r].op = "visibility")
  OBVIOUS
<1>1. i \in 1..Len(stack[r]) /\ Below(r)[i] = stack[r][i]
  BY StackParts
<1> QED BY <1>1 DEF StackOwned

LEMMA VisitingOwned ==
  ASSUME LocalType, NEW r \in Requests, StackOwned(r), Len(stack[r]) # 0, NEW k \in Pages
  PROVE  /\ Visiting(r, k) \in Seq(Frame) /\ Len(Visiting(r, k)) = Len(stack[r])
         /\ \A i \in 1..Len(Visiting(r, k)) :
              FrameOwned(Visiting(r, k)[i], call[r].op = "visibility")
<1> DEFINE f == [Top(r) EXCEPT !.todo = @ \ {k}, !.loaded[k] = Null]
           n == Len(stack[r])
<1>1. n \in Nat \ {0} /\ Top(r) \in Frame /\ Below(r) \in Seq(Frame) /\ Len(Below(r)) = n - 1
  BY StackParts
<1>2. f \in Frame
  BY <1>1 DEF Frame
<1>3. /\ Visiting(r, k) \in Seq(Frame) /\ Len(Visiting(r, k)) = n
      /\ Visiting(r, k)[n] = f
      /\ \A i \in 1..n - 1 : Visiting(r, k)[i] = Below(r)[i]
  <2> DEFINE b == Below(r)
  <2> HIDE DEF b, f, n
  <2>1. Append(b, f) \in Seq(Frame) /\ Len(Append(b, f)) = n
    BY <1>1, <1>2 DEF b
  <2>2. Append(b, f)[n] = f
    BY <1>1, <1>2 DEF b
  <2>3. \A i \in 1..n - 1 : Append(b, f)[i] = b[i]
    BY <1>1, <1>2 DEF b
  <2> QED BY <2>1, <2>2, <2>3 DEF Visiting, b, f
<1>4. FrameOwned(Top(r), call[r].op = "visibility")
  BY <1>1 DEF StackOwned, Top
<1>5. FrameOwned(f, call[r].op = "visibility")
  <2>1. /\ f.todo = Top(r).todo \ {k} /\ f.loaded[k] = Null
        /\ \A j \in Pages \ {k} : f.loaded[j] = Top(r).loaded[j]
    BY <1>1 DEF Frame
  <2> QED BY <1>4, <2>1 DEF FrameOwned
<1>6. \A i \in 1..n - 1 : FrameOwned(Below(r)[i], call[r].op = "visibility")
  BY <1>1, BelowOwned
<1> QED BY <1>1, <1>3, <1>5, <1>6

LEMMA OpenKeeps ==
  ASSUME Inv, NEW r \in Requests, NEW from \in Steps,
         NEW to \in {"cascade", "collect", "delete"},
         NEW loaded \in [Pages -> Row \cup {Null}], Open(r, from, to, loaded),
         call[r] \in Call, cursor[r] \in Pages,
         call[r].op = IF to = "cascade" THEN "visibility" ELSE "delete",
         \A k \in Pages : loaded[k] # Null => pages[k] # Null /\ Owned(versions, k, loaded[k]),
         to = "cascade" => \A k \in ChildrenOf(cursor[r]) : loaded[k] # Null
  PROVE  Inv'
<1> DEFINE f == [page |-> cursor[r], todo |-> ChildrenOf(cursor[r]), loaded |-> loaded]
           s == Append(stack[r], f)
<1> LocalType
  BY TypeParts DEF Inv
<1>1. f \in Frame
  BY DEF Frame, ChildrenOf
<1>2. stack[r] \in Seq(Frame) /\ Len(stack[r]) \in Nat
  BY DEF LocalType
<1>3. FrameOwned(f, call[r].op = "visibility")
  BY DEF FrameOwned
<1>4. /\ s \in Seq(Frame) /\ Len(s) = Len(stack[r]) + 1 /\ s[Len(stack[r]) + 1] = f
      /\ \A i \in 1..Len(stack[r]) : s[i] = stack[r][i]
  <2> HIDE DEF f
  <2> QED BY <1>1, <1>2
<1>5. \A i \in 1..Len(s) : FrameOwned(s[i], call[r].op = "visibility")
  <2> HIDE DEF f, s
  <2>1. \A i \in 1..Len(stack[r]) : FrameOwned(stack[r][i], call[r].op = "visibility")
    BY DEF Inv, StackOwned
  <2> QED BY <1>2, <1>3, <1>4, <2>1
<1>6. stack' = [stack EXCEPT ![r] = s]
  BY DEF Open
<1> HIDE DEF s
<1>7. stack'[r] = s /\ Len(stack'[r]) # 0
  BY <1>2, <1>4, <1>6 DEF LocalType
<1>8. Control(r)'
  BY <1>7, GoOnControl DEF Open, Control, Outcomes
<1>9. Grows /\ DbType' /\ CurrentVersionOwned'
  BY TypeParts DEF Open, Inv, Grows, DbType, CurrentVersionOwned, Owned, db
<1> QED BY <1>4, <1>5, <1>6, <1>8, <1>9, DescentKeeps DEF Open, LocalType, Steps

LEMMA OpenCascadeKeeps ==
  ASSUME Inv, NEW r \in Requests, OpenCascade(r)
  PROVE  Inv'
<1> DEFINE loaded == [k \in Pages |-> IF k \in ChildrenOf(cursor[r]) THEN pages[k] ELSE Null]
<1> DbType
  BY TypeParts DEF Inv
<1>1. call[r] \in Call /\ call[r].op = "visibility" /\ cursor[r] \in Pages
  BY DEF OpenCascade, Open, Inv, Control, Outcomes
<1>2. loaded \in [Pages -> Row \cup {Null}]
  BY DEF DbType
<1>3. \A k \in Pages : loaded[k] # Null => pages[k] # Null /\ Owned(versions, k, loaded[k])
  BY DEF Inv, CurrentVersionOwned
<1>4. \A k \in ChildrenOf(cursor[r]) : loaded[k] # Null
  BY DEF ChildrenOf, Live
<1>5. Open(r, "descend", "cascade", loaded)
  BY DEF OpenCascade
<1> QED BY <1>1, <1>2, <1>3, <1>4, <1>5, OpenKeeps DEF Steps

LEMMA OpenDeleteKeeps ==
  ASSUME Inv, NEW r \in Requests, OpenCollect(r) \/ OpenDelete(r)
  PROVE  Inv'
<1>1. call[r] \in Call /\ call[r].op = "delete" /\ cursor[r] \in Pages
  BY DEF OpenCollect, OpenDelete, Open, Inv, Control, Outcomes
<1>2. NoEntity \in [Pages -> Row \cup {Null}] /\ \A k \in Pages : NoEntity[k] = Null
  BY DEF NoEntity
<1> QED BY <1>1, <1>2, OpenKeeps DEF OpenCollect, OpenDelete, Steps

LEMMA CascadeKeeps ==
  ASSUME Inv, NEW r \in Requests, Cascade(r)
  PROVE  Inv'
<1> LocalType /\ StackOwned(r)
  BY TypeParts DEF Inv
<1>1. /\ pc[r] = "cascade" /\ call[r] \in Call /\ call[r].op = "visibility"
      /\ Len(stack[r]) # 0
  BY DEF Cascade, Inv, Control, Outcomes
<1>2. Len(stack[r]) \in Nat /\ Below(r) \in Seq(Frame) /\ Len(Below(r)) = Len(stack[r]) - 1
  BY <1>1, StackParts
<1>3. UNCHANGED db => Grows /\ DbType' /\ CurrentVersionOwned'
  BY TypeParts DEF Inv, Grows, DbType, CurrentVersionOwned, Owned, db
<1>4. CASE Reject(r, "ok")
  BY <1>4, RejectKeeps DEF Outcomes
<1>5. CASE /\ Len(stack[r]) # 1
           /\ stack' = [stack EXCEPT ![r] = Below(r)]
           /\ UNCHANGED <<db, pc, call, entity, anchor, text, cursor, dirty, ids>>
  <2>1. stack'[r] = Below(r)
    BY <1>5 DEF LocalType
  <2>4. pc'[r] = "cascade" /\ call'[r] = call[r]
    BY <1>1, <1>5
  <2>5. Len(stack'[r]) # 0
    <3>1. Len(Below(r)) # 0
      BY <1>1, <1>2, <1>5
    <3> QED BY <2>1, <3>1
  <2>2. Control(r)'
    BY <1>1, <2>4, <2>5 DEF Control, Outcomes
  <2>3. Goto(r, "cascade")
    BY <1>1, <1>5 DEF Goto, LocalType
  <2> QED BY <1>1, <1>2, <1>3, <1>5, <2>2, <2>3, BelowOwned, DescentKeeps DEF LocalType, Steps
<1>6. ASSUME NEW k \in Top(r).todo,
             entity' = [entity EXCEPT ![r] = ChildSaved(r, k)],
             cursor' = [cursor EXCEPT ![r] = k],
             stack' = [stack EXCEPT ![r] = Visiting(r, k)],
             Goto(r, "select"),
             UNCHANGED <<db, call, anchor, text, dirty, ids>>
      PROVE  Inv'
  <2> DEFINE e == ChildSaved(r, k)
             old == Top(r).loaded[k]
  <2>1. k \in Pages /\ old \in Row \cup {Null}
    BY <1>1, StackParts DEF Frame
  <2>2. FrameOwned(Top(r), call[r].op = "visibility")
    BY <1>1, <1>2 DEF StackOwned, Top
  <2>3. old \in Row /\ pages[k] # Null /\ Owned(versions, k, old)
    BY <1>1, <1>6, <2>1, <2>2 DEF FrameOwned
  <2>4. e \in Row /\ e.currentVersionId = old.currentVersionId
    <3> HIDE DEF old
    <3> QED BY <1>1, <2>3, CallFields DEF ChildSaved, Row, old
  <2>5. Owned(versions, k, e)
    BY <2>3, <2>4, NullAssumption DEF Owned
  <2> HIDE DEF e, old
  <2>6. /\ entity' \in [Requests -> Row \cup {Null}] /\ entity'[r] = e
        /\ \A o \in Requests \ {r} : entity'[o] = entity[o]
    BY <1>6, <2>4 DEF LocalType, e
  <2>7. /\ cursor' \in [Requests -> Pages \cup {Null}] /\ cursor'[r] = k
        /\ \A o \in Requests \ {r} : cursor'[o] = cursor[o]
    BY <1>6, <2>1 DEF LocalType
  <2>8. Holds(r, cursor[r])'
    BY <1>6, <2>1, <2>3, <2>4, <2>5, <2>6, <2>7, NullAssumption DEF Holds, db, Owned
  <2>9. Control(r)'
    BY <1>1, <1>6, <2>8, GoOnControl DEF Control, Outcomes
  <2>10. /\ Visiting(r, k) \in Seq(Frame)
         /\ \A i \in 1..Len(Visiting(r, k)) :
              FrameOwned(Visiting(r, k)[i], call[r].op = "visibility")
    BY <1>1, <2>1, VisitingOwned
  <2> QED BY <1>3, <1>6, <2>6, <2>7, <2>9, <2>10, DescentKeeps DEF LocalType, Steps
<1> QED BY <1>4, <1>5, <1>6 DEF Cascade

LEMMA SoftDeletedKeeps ==
  ASSUME DbType, CurrentVersionOwned, NEW p \in Pages,
         pages' = SoftDeleted(p), UNCHANGED versions
  PROVE  Grows /\ DbType' /\ CurrentVersionOwned'
<1>1. CASE pages[p] = Null
  <2>1. \A q \in Pages : pages'[q] = pages[q]
    BY <1>1 DEF SoftDeleted, DbType
  <2>2. DbType'
    BY <1>1, <2>1 DEF SoftDeleted, DbType
  <2>3. Grows
    BY <2>1 DEF Grows
  <2>4. CurrentVersionOwned'
    BY <2>1, <2>3, OwnedStable DEF CurrentVersionOwned
  <2> QED BY <2>2, <2>3, <2>4
<1>2. CASE pages[p] # Null
  <2> DEFINE row == [pages[p] EXCEPT !.deleted = TRUE]
  <2>1. pages[p] \in Row /\ Owned(versions, p, pages[p])
    BY <1>2 DEF DbType, CurrentVersionOwned
  <2>2. row \in Row /\ row.currentVersionId = pages[p].currentVersionId
    BY <2>1 DEF Row
  <2>3. Owned(versions, p, row)
    BY <1>2, <2>1, <2>2 DEF Owned
  <2>4. pages' = [pages EXCEPT ![p] = row]
    BY <1>2 DEF SoftDeleted
  <2> QED BY <2>2, <2>3, <2>4, ReplaceRow
<1> QED BY <1>1, <1>2

LEMMA FindChildrenKeeps ==
  ASSUME Inv, NEW r \in Requests, FindChildren(r)
  PROVE  Inv'
<1> LocalType
  BY TypeParts DEF Inv
<1>1. call[r] \in Call /\ call[r].op = "delete" /\ cursor[r] \in Pages
  BY DEF FindChildren, Inv, Control, Outcomes
<1>2. CASE Reject(r, "hasChildren")
  BY <1>2, RejectKeeps DEF Outcomes
<1>3. CASE /\ Goto(r, IF call[r].cascade THEN "collectVisit" ELSE "softDelete")
           /\ UNCHANGED <<db, call, entity, anchor, text, cursor, dirty, stack, ids>>
  <2>1. Control(r)'
    BY <1>1, <1>3, GoOnControl DEF Control, Outcomes
  <2> QED BY <1>3, <2>1, GoOnKeeps DEF LocalType, Steps
<1> QED BY <1>2, <1>3 DEF FindChildren

LEMMA SoftDeleteKeeps ==
  ASSUME Inv, NEW r \in Requests, SoftDelete(r)
  PROVE  Inv'
<1>1. cursor[r] \in Pages
  BY DEF SoftDelete, Inv, Control, Outcomes
<1>2. Grows /\ DbType' /\ CurrentVersionOwned'
  BY <1>1, SoftDeletedKeeps, TypeParts DEF SoftDelete, Inv
<1> QED BY <1>2, AnswerStepKeeps DEF SoftDelete, Outcomes

(* Visiting the next child of the top frame, for a delete.                  *)
LEMMA VisitKeeps ==
  ASSUME Inv, NEW r \in Requests, NEW step \in {"collectVisit", "deleteVisit"}, Goto(r, step),
         call[r] \in Call, call[r].op = "delete", Len(stack[r]) # 0,
         NEW k \in Top(r).todo,
         cursor' = [cursor EXCEPT ![r] = k],
         stack' = [stack EXCEPT ![r] = Visiting(r, k)],
         ids' \in [Requests -> SUBSET Pages],
         UNCHANGED <<db, call, entity, anchor, text, dirty>>
  PROVE  Inv'
<1> LocalType /\ StackOwned(r)
  BY TypeParts DEF Inv
<1>1. k \in Pages
  BY StackParts DEF Frame
<1>2. Grows /\ DbType' /\ CurrentVersionOwned'
  BY TypeParts DEF Inv, Grows, DbType, CurrentVersionOwned, Owned, db
<1>3. /\ cursor' \in [Requests -> Pages \cup {Null}] /\ cursor'[r] = k
      /\ \A o \in Requests \ {r} : cursor'[o] = cursor[o]
  BY <1>1 DEF LocalType
<1>4. Control(r)'
  BY <1>1, <1>3, GoOnControl DEF Control, Outcomes
<1>5. /\ Visiting(r, k) \in Seq(Frame)
      /\ \A i \in 1..Len(Visiting(r, k)) :
           FrameOwned(Visiting(r, k)[i], call[r].op = "visibility")
  BY <1>1, VisitingOwned
<1> QED BY <1>2, <1>3, <1>4, <1>5, DescentKeeps DEF LocalType, Steps

(* Returning to the level above, for a delete.                              *)
LEMMA ReturnKeeps ==
  ASSUME Inv, NEW r \in Requests, pc[r] \in {"collect", "delete"},
         call[r] \in Call, call[r].op = "delete", Len(stack[r]) \notin {0, 1},
         stack' = [stack EXCEPT ![r] = Below(r)],
         Grows, DbType', CurrentVersionOwned',
         UNCHANGED <<pc, call, entity, anchor, text, cursor, dirty, ids>>
  PROVE  Inv'
<1> LocalType /\ StackOwned(r)
  BY TypeParts DEF Inv
<1>1. /\ Len(stack[r]) \in Nat /\ Below(r) \in Seq(Frame)
      /\ Len(Below(r)) = Len(stack[r]) - 1
  BY StackParts
<1>2. stack'[r] = Below(r)
  BY DEF LocalType
<1>3. Len(stack'[r]) # 0
  <2>1. Len(Below(r)) # 0
    BY <1>1
  <2> QED BY <1>2, <2>1
<1>4. Control(r)'
  BY <1>3 DEF Control, Outcomes
<1>5. Goto(r, pc[r]) /\ pc[r] \in Steps
  BY DEF Goto, LocalType
<1> QED BY <1>1, <1>4, <1>5, BelowOwned, DescentKeeps DEF LocalType

LEMMA CollectKeeps ==
  ASSUME Inv, NEW r \in Requests, Collect(r)
  PROVE  Inv'
<1> LocalType
  BY TypeParts DEF Inv
<1>1. /\ pc[r] = "collect" /\ call[r] \in Call /\ call[r].op = "delete"
      /\ Len(stack[r]) # 0 /\ call[r].page \in Pages
  BY CallFields DEF Collect, Inv, Control, Outcomes
<1>2. UNCHANGED db => Grows /\ DbType' /\ CurrentVersionOwned'
  BY TypeParts DEF Inv, Grows, DbType, CurrentVersionOwned, Owned, db
<1>3. ASSUME NEW k \in Top(r).todo,
             ids' = [ids EXCEPT ![r] = @ \cup {k}],
             cursor' = [cursor EXCEPT ![r] = k],
             stack' = [stack EXCEPT ![r] = Visiting(r, k)],
             Goto(r, "collectVisit"),
             UNCHANGED <<db, call, entity, anchor, text, dirty>>
      PROVE  Inv'
  <2>1. k \in Pages
    BY <1>1, StackParts DEF Frame
  <2>2. ids' \in [Requests -> SUBSET Pages]
    BY <1>3, <2>1 DEF LocalType
  <2> QED BY <1>1, <1>3, <2>2, VisitKeeps
<1>4. CASE /\ Len(stack[r]) > 1
           /\ stack' = [stack EXCEPT ![r] = Below(r)]
           /\ UNCHANGED <<db, pc, call, entity, anchor, text, cursor, dirty, ids>>
  <2>1. Len(stack[r]) \notin {0, 1}
    <3> DEFINE n == Len(stack[r])
    <3>1. n \in Nat
      BY DEF LocalType
    <3>2. n > 1
      BY <1>4
    <3> HIDE DEF n
    <3>3. n \notin {0, 1}
      BY <3>1, <3>2
    <3> QED BY <3>3 DEF n
  <2>2. pc[r] \in {"collect", "delete"}
    BY <1>1
  <2> QED BY <1>1, <1>2, <1>4, <2>1, <2>2, ReturnKeeps
<1>5. CASE /\ cursor' = [cursor EXCEPT ![r] = call[r].page]
           /\ stack' = [stack EXCEPT ![r] = <<>>]
           /\ Goto(r, "deleteVisit")
           /\ UNCHANGED <<db, call, entity, anchor, text, dirty, ids>>
  <2>1. /\ cursor' \in [Requests -> Pages \cup {Null}] /\ cursor'[r] = call[r].page
        /\ \A o \in Requests \ {r} : cursor'[o] = cursor[o]
    BY <1>1, <1>5 DEF LocalType
  <2>2. Control(r)'
    BY <1>1, <1>5, <2>1, GoOnControl DEF Control, Outcomes
  <2>3. <<>> \in Seq(Frame) /\ Len(<<>>) = 0
    OBVIOUS
  <2>4. \A i \in 1..Len(<<>>) : FrameOwned(<<>>[i], call[r].op = "visibility")
    BY <2>3
  <2> QED BY <1>2, <1>5, <2>1, <2>2, <2>3, <2>4, DescentKeeps DEF LocalType, Steps
<1>6. CASE Reject(r, "forbidden")
  BY <1>6, RejectKeeps DEF Outcomes
<1> QED BY <1>3, <1>4, <1>5, <1>6 DEF Collect

LEMMA DeleteRecursiveKeeps ==
  ASSUME Inv, NEW r \in Requests, DeleteRecursive(r)
  PROVE  Inv'
<1> LocalType
  BY TypeParts DEF Inv
<1>1. /\ pc[r] = "delete" /\ call[r] \in Call /\ call[r].op = "delete"
      /\ Len(stack[r]) # 0
  BY DEF DeleteRecursive, Inv, Control, Outcomes
<1>2. ASSUME NEW k \in Top(r).todo,
             cursor' = [cursor EXCEPT ![r] = k],
             stack' = [stack EXCEPT ![r] = Visiting(r, k)],
             Goto(r, "deleteVisit"),
             UNCHANGED <<db, call, entity, anchor, text, dirty, ids>>
      PROVE  Inv'
  BY <1>1, <1>2, VisitKeeps DEF LocalType
<1>3. CASE /\ pages' = SoftDeleted(Top(r).page)
           /\ UNCHANGED versions
  <2>1. Top(r).page \in Pages
    BY <1>1, StackParts DEF Frame
  <2>2. Grows /\ DbType' /\ CurrentVersionOwned'
    BY <1>3, <2>1, SoftDeletedKeeps, TypeParts DEF Inv
  <2>3. CASE Answer(r, "ok")
    BY <2>2, <2>3, AnswerStepKeeps DEF Outcomes
  <2>4. CASE /\ Len(stack[r]) # 1
             /\ stack' = [stack EXCEPT ![r] = Below(r)]
             /\ UNCHANGED <<pc, call, entity, anchor, text, cursor, dirty, ids>>
    BY <1>1, <2>2, <2>4, ReturnKeeps
  <2> QED BY <1>2, <1>3, <2>3, <2>4 DEF DeleteRecursive
<1> QED BY <1>2, <1>3 DEF DeleteRecursive

-----------------------------------------------------------------------------
LEMMA NextInv == Inv /\ [Next]_vars => Inv'
<1> SUFFICES ASSUME Inv, [Next]_vars PROVE Inv'
  OBVIOUS
<1>1. CASE UNCHANGED vars
  <2>1. TypeOK'
    BY <1>1 DEF Inv, TypeOK, vars
  <2>2. CurrentVersionOwned'
    BY <1>1 DEF Inv, CurrentVersionOwned, Owned, vars
  <2>3. ASSUME NEW r \in Requests
        PROVE  StackOwned(r)' /\ Control(r)'
    <3>1. Grows /\ Same(r)
      BY <1>1 DEF Grows, Same, vars
    <3> QED BY <3>1, OthersKeep DEF Inv
  <2> QED BY <2>1, <2>2, <2>3 DEF Inv
<1>2. ASSUME NEW r \in Requests, Begin(r) \/ Step(r)
      PROVE  Inv'
  BY <1>2, BeginKeeps, LoadKeeps, AuthorizeKeeps, MergeKeeps, WalkKeeps, CheckSlugKeeps,
     InsertKeeps, SelectKeeps, CommitVersionKeeps, WriteRowKeeps, OpenCascadeKeeps,
     CascadeKeeps, FindChildrenKeeps, SoftDeleteKeeps, OpenDeleteKeeps, CollectKeeps,
     DeleteRecursiveKeeps DEF Step
<1> QED BY <1>1, <1>2 DEF Next

LEMMA Invariance == Spec => []Inv
BY InitInv, NextInv, PTL DEF Spec

(* The state of the service is well-typed, whatever the interleaving.       *)
THEOREM TypeCorrect == Spec => []TypeOK
<1>1. Inv => TypeOK
  BY DEF Inv
<1> QED BY <1>1, Invariance, PTL

(* updateWithNewVersion, updateParent, updateVisibility and the rest never  *)
(* make a page point at a missing version or at one of another page, though *)
(* a stale save may make it point at an older one of its own.               *)
THEOREM CurrentVersionIsOwned == Spec => []CurrentVersionOwned
<1>1. Inv => CurrentVersionOwned
  BY DEF Inv
<1> QED BY <1>1, Invariance, PTL

-----------------------------------------------------------------------------
(* No handler changes a version that exists: versions are inserted under a  *)
(* fresh id, by createWithFirstVersion and updateWithNewVersion only.       *)
LEMMA StepAppends ==
  ASSUME Inv, NEW r \in Requests, Begin(r) \/ Step(r), NEW v \in Versions, versions[v] # Null
  PROVE  versions'[v] = versions[v]
<1> DbType
  BY TypeParts DEF Inv
<1>1. CASE UNCHANGED versions
  BY <1>1
<1>2. CASE Insert(r)
  <2>1. CASE ~UNCHANGED db
    <3>1. PICK w, x : w \in Versions /\ versions[w] = Null /\ versions' = [versions EXCEPT ![w] = x]
      BY <1>2, <2>1 DEF Insert, Reject
    <3> QED BY <3>1 DEF DbType
  <2> QED BY <2>1 DEF db
<1>3. CASE CommitVersion(r)
  <2>1. CASE ~UNCHANGED db
    <3>1. PICK w, x : w \in Versions /\ versions[w] = Null /\ versions' = [versions EXCEPT ![w] = x]
      BY <1>3, <2>1 DEF CommitVersion, Reject
    <3> QED BY <3>1 DEF DbType
  <2> QED BY <2>1 DEF db
<1>4. CASE Begin(r) \/ Load(r) \/ Authorize(r) \/ Walk(r) \/ CheckSlug(r) \/ Select(r)
  BY <1>4, <1>1 DEF Begin, Load, Authorize, Walk, CheckSlug, Select, Reject, db
<1>5. CASE MergeWithBase(r) \/ WriteRow(r)
  BY <1>5, <1>1 DEF MergeWithBase, WriteRow, Reject, db
<1>6. CASE \/ OpenCascade(r) \/ Cascade(r) \/ FindChildren(r) \/ SoftDelete(r)
           \/ OpenCollect(r) \/ Collect(r) \/ OpenDelete(r) \/ DeleteRecursive(r)
  BY <1>6, <1>1 DEF OpenCascade, Cascade, FindChildren, SoftDelete, OpenCollect, Collect,
                    OpenDelete, DeleteRecursive, Open, Reject, db
<1> QED BY <1>2, <1>3, <1>4, <1>5, <1>6 DEF Step

(* The history of every page is append-only: no interleaving of handlers    *)
(* changes or loses a version.                                              *)
THEOREM HistoryAppendOnly == Spec => VersionsAppendOnly
<1>1. ASSUME Inv, [Next]_vars
      PROVE  [\A v \in Versions : versions[v] # Null => versions'[v] = versions[v]]_vars
  BY <1>1, StepAppends DEF Next
<1> QED BY <1>1, Invariance, PTL DEF Spec, VersionsAppendOnly

-----------------------------------------------------------------------------
(* A row written where the index admits its slug and parent leaves the slugs *)
(* under every parent distinct.                                             *)
LEMMA AdmittedRow ==
  ASSUME DbType, ChildSlugsUnique(pages), NEW p \in Pages, NEW row \in Row,
         IndexAdmits(row.slug, row.parentId, p), pages' = [pages EXCEPT ![p] = row]
  PROVE  ChildSlugsUnique(pages)'
<1>1. /\ pages'[p] = row
      /\ \A q \in Pages \ {p} : pages'[q] = pages[q]
  BY DEF DbType
<1> QED BY <1>1 DEF ChildSlugsUnique, IndexAdmits

(* So does a step that changes no slug and no parent.                       *)
LEMMA SameKeys ==
  ASSUME ChildSlugsUnique(pages),
         \A q \in Pages :
           pages'[q] # Null => /\ pages[q] # Null
                               /\ pages'[q].slug = pages[q].slug
                               /\ pages'[q].parentId = pages[q].parentId
  PROVE  ChildSlugsUnique(pages)'
BY DEF ChildSlugsUnique

LEMMA SoftDeletedSameKeys ==
  ASSUME DbType, NEW p \in Pages, pages' = SoftDeleted(p), ChildSlugsUnique(pages)
  PROVE  ChildSlugsUnique(pages)'
<1>1. \A q \in Pages \ {p} : pages'[q] = pages[q]
  BY DEF SoftDeleted, DbType
<1>2. pages'[p] = IF pages[p] = Null THEN Null ELSE [pages[p] EXCEPT !.deleted = TRUE]
  BY DEF SoftDeleted, DbType
<1>3. CASE pages[p] = Null
  BY <1>1, <1>2, <1>3, SameKeys
<1>4. CASE pages[p] # Null
  <2>1. pages[p] \in Row
    BY <1>4 DEF DbType
  <2>2. pages'[p].slug = pages[p].slug /\ pages'[p].parentId = pages[p].parentId
    BY <1>2, <1>4, <2>1 DEF Row
  <2> QED BY <1>1, <1>4, <2>2, SameKeys
<1> QED BY <1>3, <1>4

LEMMA StepKeepsSlugs ==
  ASSUME Inv, NEW r \in Requests, Begin(r) \/ Step(r), ChildSlugsUnique(pages)
  PROVE  ChildSlugsUnique(pages)'
<1> DbType /\ LocalType /\ CurrentVersionOwned
  BY TypeParts DEF Inv
<1>1. CASE UNCHANGED pages
  BY <1>1 DEF ChildSlugsUnique
<1>2. CASE Insert(r)
  <2> DEFINE c == call[r]
  <2>1. c \in CreateCall
    BY <1>2, CallFields DEF Insert, Inv, Control, Outcomes
  <2>2. CASE ~UNCHANGED pages
    <3>1. PICK p \in Pages, v \in Versions :
            /\ IndexAdmits(c.slug, c.parent, Null) /\ pages[p] = Null
            /\ pages' = [pages EXCEPT ![p] =
                 [ slug |-> c.slug, title |-> c.title, parentId |-> c.parent,
                   currentVersionId |-> v, visibility |-> c.visibility,
                   commentsEnabled |-> TRUE, deleted |-> FALSE ]]
      BY <1>2, <2>2 DEF Insert, Reject, db
    <3> DEFINE row == [ slug |-> c.slug, title |-> c.title, parentId |-> c.parent,
                        currentVersionId |-> v, visibility |-> c.visibility,
                        commentsEnabled |-> TRUE, deleted |-> FALSE ]
    <3>2. row \in Row
      BY <2>1 DEF CreateCall, Row
    <3>3. IndexAdmits(row.slug, row.parentId, p)
      BY <3>1, NullAssumption DEF IndexAdmits
    <3> QED BY <3>1, <3>2, <3>3, AdmittedRow
  <2> QED BY <1>1, <2>2
<1>3. CASE CommitVersion(r) \/ WriteRow(r)
  <2> DEFINE p   == cursor[r]
             row == Updated(r)
  <2>1. Holds(r, p) /\ row \in Row /\ p \in Pages
    <3>1. Holds(r, p)
      BY <1>3 DEF CommitVersion, WriteRow, Inv, Control, Outcomes
    <3> QED BY <3>1, UpdatedOwned DEF Holds
  <2>2. CASE ~UNCHANGED pages
    <3>1. PICK new :
            /\ IndexAdmits(row.slug, row.parentId, p)
            /\ pages' = [pages EXCEPT ![p] = new]
            /\ new = row \/ \E v \in Versions : new = [row EXCEPT !.currentVersionId = v]
      BY <1>3, <2>2 DEF CommitVersion, WriteRow, Reject, db
    <3> HIDE DEF row
    <3>2. new \in Row /\ new.slug = row.slug /\ new.parentId = row.parentId
      BY <2>1, <3>1 DEF Row
    <3> QED BY <2>1, <3>1, <3>2, AdmittedRow
  <2> QED BY <1>1, <2>2
<1>4. CASE SoftDelete(r)
  <2>1. cursor[r] \in Pages
    BY <1>4 DEF SoftDelete, Inv, Control, Outcomes
  <2> QED BY <1>4, <2>1, SoftDeletedSameKeys DEF SoftDelete
<1>5. CASE DeleteRecursive(r)
  <2>1. Len(stack[r]) # 0
    BY <1>5 DEF DeleteRecursive, Inv, Control, Outcomes
  <2>2. Top(r).page \in Pages
    BY <2>1, StackParts DEF Frame
  <2>3. UNCHANGED pages \/ pages' = SoftDeleted(Top(r).page)
    BY <1>5 DEF DeleteRecursive, db
  <2> QED BY <1>1, <2>2, <2>3, SoftDeletedSameKeys
<1>6. CASE Begin(r) \/ Load(r) \/ Authorize(r) \/ Walk(r) \/ CheckSlug(r) \/ Select(r)
  BY <1>6, <1>1 DEF Begin, Load, Authorize, Walk, CheckSlug, Select, Reject, db
<1>7. CASE MergeWithBase(r)
  BY <1>7, <1>1 DEF MergeWithBase, Reject, db
<1>8. CASE OpenCascade(r) \/ Cascade(r) \/ FindChildren(r) \/ OpenCollect(r) \/ Collect(r)
           \/ OpenDelete(r)
  BY <1>8, <1>1 DEF OpenCascade, Cascade, FindChildren, OpenCollect, Collect, OpenDelete,
                    Open, Reject, db
<1> QED BY <1>2, <1>3, <1>4, <1>5, <1>6, <1>7, <1>8 DEF Step

(* Two rows under one parent never share a slug, soft-deleted rows included, *)
(* however inserts, moves and stale saves that put a parent back interleave. *)
THEOREM SlugsUniqueUnderParent == Spec => []SlugUniqueUnderParent
<1>1. Init => ChildSlugsUnique(pages)
  BY SeedsAssumption DEF Init
<1>2. ASSUME Inv, ChildSlugsUnique(pages), [Next]_vars
      PROVE  ChildSlugsUnique(pages)'
  BY <1>2, StepKeepsSlugs DEF Next, vars, ChildSlugsUnique
<1> QED BY <1>1, <1>2, Invariance, PTL DEF Spec, SlugUniqueUnderParent

-----------------------------------------------------------------------------
(* The text a save on an older version carries from the merge to the commit. *)
Merges(r) ==
  /\ call[r].op = "update" /\ call[r].content # Null
  /\ call[r].base \notin {Null, entity[r].currentVersionId}

MergedText(r) ==
  (pc[r] \in {"select", "write"} /\ Merges(r)) =>
    /\ versions[call[r].base] # Null
    /\ text[r] = Merged(versions[call[r].base].content, call[r].content,
                        versions[entity[r].currentVersionId].content)

(* Other handlers change neither the base nor the version merged with.      *)
LEMMA MergedTextStable ==
  ASSUME Inv, NEW o \in Requests, Same(o), MergedText(o),
         \A v \in Versions : versions[v] # Null => versions'[v] = versions[v]
  PROVE  MergedText(o)'
<1> SUFFICES ASSUME pc[o] \in {"select", "write"}, Merges(o)
             PROVE  MergedText(o)'
  BY DEF MergedText, Merges, Same
<1>1. call[o] \in Call /\ Holds(o, cursor[o])
  BY DEF Inv, Control, Outcomes
<1>2. call[o].base \in Versions
  BY <1>1, CallFields DEF Merges, UpdateCall
<1>3. entity[o].currentVersionId \in Versions /\ versions[entity[o].currentVersionId] # Null
  BY <1>1 DEF Holds, Owned
<1>4. /\ versions'[call[o].base] = versions[call[o].base]
      /\ versions'[entity[o].currentVersionId] = versions[entity[o].currentVersionId]
  BY <1>2, <1>3 DEF MergedText
<1> QED BY <1>4 DEF MergedText, Merges, Same

(* A step of one handler touches no variable of the others.                 *)
LEMMA StepFrame ==
  ASSUME Inv, NEW r \in Requests, Begin(r) \/ Step(r), NEW o \in Requests \ {r}
  PROVE  Same(o)
<1> LocalType
  BY TypeParts DEF Inv
<1>1. CASE Begin(r) \/ Load(r) \/ Authorize(r) \/ Walk(r)
  BY <1>1 DEF Begin, Load, Authorize, Walk, Reject, Answer, Goto, LocalType, Same
<1>2. CASE MergeWithBase(r)
  BY <1>2 DEF MergeWithBase, Reject, Answer, Goto, LocalType, Same
<1>3. CASE CheckSlug(r) \/ Insert(r) \/ Select(r) \/ CommitVersion(r) \/ WriteRow(r)
  BY <1>3 DEF CheckSlug, Insert, Select, CommitVersion, WriteRow, Reject, Answer, Goto, locals,
              LocalType, Same
<1>4. CASE OpenCascade(r) \/ OpenCollect(r) \/ OpenDelete(r)
  BY <1>4 DEF OpenCascade, OpenCollect, OpenDelete, Open, Goto, LocalType, Same
<1>5. CASE Cascade(r) \/ FindChildren(r) \/ SoftDelete(r)
  BY <1>5 DEF Cascade, FindChildren, SoftDelete, Reject, Answer, Goto, LocalType, Same
<1>6. CASE Collect(r) \/ DeleteRecursive(r)
  BY <1>6 DEF Collect, DeleteRecursive, Reject, Answer, Goto, LocalType, Same
<1> QED BY <1>1, <1>2, <1>3, <1>4, <1>5, <1>6 DEF Step

(* A handler on its way to saving an update comes from the merge.           *)
LEMMA OwnMergedText ==
  ASSUME Inv, NEW r \in Requests, Begin(r) \/ Step(r), MergedText(r)
  PROVE  MergedText(r)'
<1> LocalType /\ DbType
  BY TypeParts DEF Inv
<1> SUFFICES ASSUME pc'[r] \in {"select", "write"}, call'[r].op = "update", Merges(r)'
             PROVE  MergedText(r)'
  BY DEF MergedText, Merges
<1>1. CASE Select(r)
  BY <1>1 DEF Select, MergedText, Merges, db
<1>2. CASE MergeWithBase(r)
  <2> DEFINE c == call[r]
  <2>1. Holds(r, c.page) /\ entity[r] \in Row
    BY <1>2 DEF MergeWithBase, Inv, Control, Outcomes, Holds, LocalType
  <2>7. ~Reject(r, "versionNotFound") /\ ~Reject(r, "conflict")
    BY DEF Reject, Answer, Goto, LocalType
  <2>2. PICK title : entity' = [entity EXCEPT ![r].title = title]
    BY <1>2, <2>7 DEF MergeWithBase
  <2>3. entity'[r].currentVersionId = entity[r].currentVersionId
    BY <2>1, <2>2 DEF Row, LocalType
  <2>4. UNCHANGED <<versions, call>>
    BY <1>2, <2>7 DEF MergeWithBase, db
  <2>5. NeedsMerge(r) /\ c.content # Null
    BY <2>3, <2>4 DEF NeedsMerge, Merges
  <2>6. /\ versions[c.base] # Null
        /\ text'[r] = Merged(versions[c.base].content, c.content,
                             versions[entity[r].currentVersionId].content)
    BY <1>2, <2>5, <2>7 DEF MergeWithBase, LocalType
  <2> QED BY <2>3, <2>4, <2>6 DEF MergedText
<1>3. CASE Begin(r) \/ Load(r) \/ Authorize(r) \/ Walk(r)
  BY <1>3 DEF Begin, Load, Authorize, Walk, Reject, Answer, Goto, LocalType, Outcomes
<1>4. CASE CheckSlug(r)
  BY <1>4 DEF CheckSlug, Reject, Answer, Goto, LocalType, Inv, Control, Outcomes
<1>5. CASE Insert(r) \/ CommitVersion(r) \/ WriteRow(r)
  BY <1>5 DEF Insert, CommitVersion, WriteRow, Reject, Answer, Goto, locals, LocalType, Outcomes
<1>6. CASE OpenCascade(r) \/ OpenCollect(r) \/ OpenDelete(r)
  BY <1>6 DEF OpenCascade, OpenCollect, OpenDelete, Open, Goto, LocalType
<1>7. CASE Cascade(r)
  BY <1>7 DEF Cascade, Reject, Answer, Goto, LocalType, Inv, Control, Outcomes
<1>8. CASE FindChildren(r) \/ SoftDelete(r) \/ Collect(r) \/ DeleteRecursive(r)
  BY <1>8 DEF FindChildren, SoftDelete, Collect, DeleteRecursive, Reject, Answer, Goto,
              LocalType, Outcomes
<1> QED BY <1>1, <1>2, <1>3, <1>4, <1>5, <1>6, <1>7, <1>8 DEF Step

LEMMA MergedTextInvariance == Spec => [](\A r \in Requests : MergedText(r))
<1> DEFINE I == \A r \in Requests : MergedText(r)
<1>1. Init => I
  BY DEF Init, MergedText
<1>2. ASSUME Inv, I, [Next]_vars
      PROVE  I'
  <2>1. CASE UNCHANGED vars
    BY <1>2, <2>1 DEF MergedText, Merges, vars
  <2>2. ASSUME NEW q \in Requests, Begin(q) \/ Step(q), NEW r \in Requests
        PROVE  MergedText(r)'
    <3>1. CASE r = q
      BY <1>2, <2>2, <3>1, OwnMergedText
    <3>2. CASE r # q
      <4>1. Same(r)
        BY <1>2, <2>2, <3>2, StepFrame
      <4> QED BY <1>2, <2>2, <4>1, StepAppends, MergedTextStable
    <3> QED BY <3>1, <3>2
  <2> QED BY <1>2, <2>1, <2>2 DEF Next
<1> QED BY <1>1, <1>2, Invariance, PTL DEF Spec

(* The content a committed save shows is the text its handler carried.      *)
LEMMA SavedIsText ==
  ASSUME Inv, NEW r \in Requests, CommitVersion(r), pc'[r] = "ok"
  PROVE  SavedContent(r) = text[r]
<1> LocalType /\ DbType /\ CurrentVersionOwned
  BY TypeParts DEF Inv
<1> DEFINE p   == cursor[r]
           row == Updated(r)
<1>1. Holds(r, p) /\ row \in Row /\ p \in Pages
  <2>1. Holds(r, p)
    BY DEF CommitVersion, HasNewVersion, Inv, Control, Outcomes
  <2> QED BY <2>1, UpdatedOwned DEF Holds
<1>2. ~Reject(r, "slugTaken")
  BY DEF Reject, Answer, Goto, LocalType
<1>3. PICK v \in Versions :
        /\ pages' = [pages EXCEPT ![p] = [row EXCEPT !.currentVersionId = v]]
        /\ versions' = [versions EXCEPT ![v] =
             [pageId |-> p, content |-> text[r], title |-> entity[r].title]]
  BY <1>2 DEF CommitVersion
<1> HIDE DEF row
<1>4. pages'[p].currentVersionId = v
  BY <1>1, <1>3 DEF Row, DbType
<1>5. versions'[v].content = text[r]
  BY <1>3 DEF DbType
<1> QED BY <1>4, <1>5 DEF SavedContent

(* The merge of updatePage loses nothing of either side, up to the version   *)
(* its handler read: this is what goes into the saved version, whatever the *)
(* other handlers do between the merge and the commit.                      *)
THEOREM MergeKeepsBoth == Spec => MergeKeepsBothSides
<1> DEFINE I == \A r \in Requests : MergedText(r)
           kept(r) ==
             LET base   == versions[call[r].base].content
                 mine   == call[r].content
                 theirs == versions[entity[r].currentVersionId].content
             IN /\ (mine \ base) \cup (theirs \ base) \subseteq SavedContent(r)
                /\ ((base \ mine) \cup (base \ theirs)) \cap SavedContent(r) = {}
           A == \A r \in Requests :
                  (/\ Saves(r) /\ call[r].op = "update" /\ call[r].content # Null
                   /\ call[r].base \notin {Null, entity[r].currentVersionId}) => kept(r)
<1>1. ASSUME Inv, I, [Next]_vars
      PROVE  [A]_vars
  <2> SUFFICES ASSUME NEW q \in Requests, Begin(q) \/ Step(q),
                      NEW r \in Requests, Saves(r), Merges(r)
               PROVE  kept(r)
    BY <1>1 DEF Next, Merges
  <2>1. r = q
    <3> SUFFICES ASSUME r # q PROVE FALSE
      OBVIOUS
    <3>1. Same(r)
      BY <1>1, StepFrame
    <3> QED BY <3>1 DEF Same, Saves
  <2>2. CommitVersion(r)
    BY <2>1 DEF Saves, Step, Begin, Load, Authorize, MergeWithBase, Walk, CheckSlug, Insert,
                Select, WriteRow, OpenCascade, Open, Cascade, FindChildren, SoftDelete,
                OpenCollect, Collect, OpenDelete, DeleteRecursive
  <2>3. SavedContent(r) = text[r]
    BY <1>1, <2>2, SavedIsText DEF Saves
  <2>4. text[r] = Merged(versions[call[r].base].content, call[r].content,
                         versions[entity[r].currentVersionId].content)
    BY <1>1 DEF MergedText, Saves
  <2> QED BY <2>3, <2>4 DEF Merged
<1> QED BY <1>1, Invariance, MergedTextInvariance, PTL DEF Spec, MergeKeepsBothSides

=============================================================================
