--------------------------- MODULE PageProperties ---------------------------
(***************************************************************************)
(* What the page handlers promise when requests reach them one at a time,   *)
(* the schedule the service is written and unit-tested for, and statements  *)
(* of its documentation that are also asked of interleaved handlers.        *)
(***************************************************************************)
EXTENDS PageStore

Active(r) == pc[r] \notin {"idle"} \cup Outcomes

(* One handler at a time: nobody starts a step while another is under way.  *)
Alone(r) == \A o \in Requests \ {r} : ~Active(o)

SerialNext == \E r \in Requests : Alone(r) /\ (Begin(r) \/ Step(r))

(* An await on the database settles, so a handler that runs goes on.        *)
SerialSpec ==
  /\ Init /\ [][SerialNext]_vars
  /\ \A r \in Requests : WF_vars(Alone(r) /\ Step(r))

-----------------------------------------------------------------------------
(* What the tables promise, said of any contents of them.                   *)

Findable(rows, p) == rows[p] # Null /\ ~rows[p].deleted

(* Among any pages there is one whose parent is not one of them.            *)
Forest(rows) ==
  \A S \in SUBSET Pages :
    S # {} => \E p \in S : rows[p] = Null \/ rows[p].parentId \notin S

(* A parent named is a row (rows are only soft-deleted; parent_id has no    *)
(* foreign key).                                                            *)
ParentsExist(rows) ==
  \A p \in Pages :
    (rows[p] # Null /\ rows[p].parentId # Null) => rows[rows[p].parentId] # Null

ParentsFindable(rows) ==
  \A p \in Pages :
    (Findable(rows, p) /\ rows[p].parentId # Null) => Findable(rows, rows[p].parentId)

PathsUnique(rows) ==
  \A p, q \in Pages :
    (/\ p # q /\ Findable(rows, p) /\ Findable(rows, q)
     /\ rows[p].parentId = rows[q].parentId) => rows[p].slug # rows[q].slug

TitlesCurrent(rows, vs) ==
  \A p \in Pages :
    rows[p] # Null => rows[p].title = vs[rows[p].currentVersionId].title

(* A run starts from a wiki these handlers, or the content seed, have built. *)
ASSUME BuiltSeedsAssumption ==
  \A s \in Seeds :
    /\ Forest(s.pages) /\ ParentsExist(s.pages) /\ ParentsFindable(s.pages)
    /\ PathsUnique(s.pages) /\ TitlesCurrent(s.pages, s.versions)

(* The rows form a forest: following parents from any page never returns to *)
(* it, whatever moves ran before (movePage throws CircularReference).       *)
Acyclic == Forest(pages)

(* A page that can be found has parents that can be found, up to a root: no *)
(* create, move or cascade ever leaves one under a deleted page, not even   *)
(* between two steps of a cascade.                                          *)
LiveParent == ParentsFindable(pages)

(* A path of slugs names at most one page, at the root as well.             *)
LiveSlugsUnique == PathsUnique(pages)

(* The title of a page row is that of its current version (the technical    *)
(* specification calls it denormalised from there).                         *)
TitleOfCurrentVersion == TitlesCurrent(pages, versions)

(* The pages below p, soft-deleted ones included: those of every set that   *)
(* has the children of p and the children of its own members.               *)
Subtree(p) ==
  {q \in Pages :
     \A S \in SUBSET Pages :
       (\A c \in Pages : (pages[c] # Null /\ pages[c].parentId \in S \cup {p}) => c \in S)
         => q \in S}

(* When a change of visibility is answered, every page found below has it.  *)
VisibilityCascaded ==
  [][\A r \in Requests :
       (pc[r] = "cascade" /\ pc'[r] = "ok") =>
         \A q \in Subtree(call[r].page) \cup {call[r].page} :
           Live(q) => pages'[q].visibility = call[r].visibility]_vars

(* The visibility of a page changes only while a handler asked to set that  *)
(* very visibility is at work: no edit, move or comment switch changes it.  *)
VisibilityChangesOnRequest ==
  [][\A p \in Pages :
       (pages[p] # Null /\ pages'[p].visibility # pages[p].visibility) =>
         \E r \in Requests :
           /\ pc[r] = "write" /\ call[r].op = "visibility"
           /\ pages'[p].visibility = call[r].visibility]_vars

(* A delete, cascading or not, removes no page its caller may not delete.   *)
OnlyDeletableDeleted ==
  [][\A p \in Pages : (Live(p) /\ ~Live(p)') => p \in Deletable]_vars

(* Every handler that starts answers.                                       *)
HandlersFinish == \A r \in Requests : Active(r) ~> ~Active(r)

(* A save on an older version keeps every line the page shows at that       *)
(* moment and the older version did not have ("Fusion a 3 voies ... au lieu *)
(* du dernier ecrivain qui ecrase silencieusement les autres").             *)
NoEditOverwritten ==
  [][\A r \in Requests :
       (Saves(r) /\ call[r].op = "update" /\ call[r].content # Null
                 /\ call[r].base # Null) =>
         LET base == versions[call[r].base].content
             now  == versions[pages[cursor[r]].currentVersionId].content
         IN (now \ base) \subseteq SavedContent(r)]_vars

(* No page bears, at its place in the tree, a slug reserved for that place  *)
(* ("Noms de page reserves, car ils entreraient en conflit avec les routes  *)
(* de l'API ... Refuses a la creation et au deplacement d'une page").       *)
NoReservedSlug ==
  \A p \in Pages :
    (Live(p) /\ (pages[p].parentId # Null => Live(pages[p].parentId))) =>
      ~Reserved(pages[p].slug,
                IF pages[p].parentId = Null THEN Null ELSE pages[pages[p].parentId])

-----------------------------------------------------------------------------
(* Served one at a time, the handlers implement the atomic wiki document.   *)
Document ==
  INSTANCE WikiDocument WITH
    log    <- [v \in Versions |->
                 IF versions[v] = Null THEN Null
                 ELSE [pageId |-> versions[v].pageId, content |-> versions[v].content]],
    head   <- [p \in Pages |-> IF pages[p] = Null THEN Null ELSE pages[p].currentVersionId],
    asked  <- call,
    served <- {r \in Requests : pc[r] \in Outcomes},
    Merged <- Merged

(* Each call acts on the documents in one step, on the page as it then is.  *)
ImplementsDocument == Document!Spec

=============================================================================
