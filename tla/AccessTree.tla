----------------------------- MODULE AccessTree -----------------------------
(***************************************************************************)
(* The tree of pages with a box beside each (PageAccessTreeSelector), where *)
(* an administrator edits the access rules of one user or group, and the    *)
(* panel of a page where others edit the same rules.                        *)
(*                                                                         *)
(* Each click computes one request from the rules the tree shows, and the   *)
(* answer is merged into the rules it shows by then.  Several requests may  *)
(* be under way: only the box whose key is `pending` is locked.             *)
(***************************************************************************)
EXTENDS Naturals, Sequences, FiniteSets

CONSTANTS
  Pages,
  Parent,      \* the page tree, which stays as it is
  Listed,      \* the pages of it the administrator may read, which GET /pages/tree lists
  Null,        \* no page: the whole wiki; no call
  Given,       \* the rules there may be when the tree is opened first, a set of sets
  Held,        \* pages, or Null, whose whole subtree the administrator may grant
  AtOnce,      \* requests under way at a time
  MaxRules,    \* rules ever created
  MaxLoads,    \* times the tree is opened again
  MaxElsewhere \* changes made in the panels of pages

Read == "page.read"
Edit == "page.edit"
Actions == {Read, Edit}
Keys == Pages \cup {Null}
Ids == 1..MaxRules
Slots == 1..AtOnce

Row == [id : Ids, pageId : Keys, appliesTo : {"page", "subtree"},
        actions : SUBSET Actions \ {{}}, excluded : SUBSET Pages]

Ops == {"create", "actions", "exclusions", "delete", "scope"}

Call ==
  [ key    : Keys,       \* the box that is locked by it
    op     : Ops,
    row    : Row,        \* what is asked; "scope": the rule to create in place of id
    id     : 0..MaxRules, \* the rule to change or remove, 0 for none
    load   : 0..MaxLoads, \* the tree it was started from
    stage  : {"sent", "removed", "done", "refused"} ]

AccessTreeAssumption ==
  /\ Null \notin Pages /\ Parent \in [Pages -> Keys] /\ Listed \subseteq Pages /\ Held \subseteq Keys
  /\ \A R \in Given : R \subseteq Row /\ {r.id : r \in R} = 1..Cardinality(R)
  /\ AtOnce \in Nat \ {0} /\ {MaxRules, MaxLoads, MaxElsewhere} \subseteq Nat

VARIABLES
  stored,    \* rules of the subject: page_access_rules and their exclusions
  created,   \* rules created so far
  view,      \* `rules` of the tree
  ready,     \* status of the tree: not while the list is loading
  loads,     \* times it was opened again
  pending,   \* pendingKey: "none", or the box that is locked
  calls,     \* requests under way
  unseen,    \* ids of the rules made, changed or removed where this tree does not see it
  halved     \* ids of rules removed by a change of scope whose second half was refused

vars == <<stored, created, view, ready, loads, pending, calls, unseen, halved>>

TypeOK ==
  /\ stored \subseteq Row /\ view \subseteq Row
  /\ \A r, s \in stored : r.id = s.id => r = s
  /\ \A r, s \in view : r.id = s.id => r = s
  /\ created \in 0..MaxRules /\ \A r \in stored : r.id <= created
  /\ ready \in BOOLEAN /\ loads \in 0..MaxLoads
  /\ pending \in Keys \cup {"none"}
  /\ calls \in [Slots -> Call \cup {Null}]
  /\ unseen \subseteq Ids /\ halved \subseteq Ids

-----------------------------------------------------------------------------
Range(f) == {f[x] : x \in DOMAIN f}

(* On the server: a page, its parent, and so on to a root. *)
Up[p \in Pages] == IF Parent[p] = Null THEN <<p>> ELSE <<p>> \o Up[Parent[p]]
Subtree(p) == {q \in Pages : p = Null \/ p \in Range(Up[q])}

(* access-rule-coverage.ts, over a set of rules: `find` and the loops of     *)
(* `best` take the first in the order of the array, here any of the set.     *)

(* In the tree that is listed, a page whose parent is not is a root.        *)
Above[p \in Listed] == IF Parent[p] \in Listed THEN Parent[p] ELSE Null

(* buildChainIndex: the page, the one it is listed below, and so on to a root. *)
chain[p \in Listed] == IF Above[p] = Null THEN <<p>> ELSE <<p>> \o chain[Above[p]]

Children(p) == {q \in Listed : Above[q] = p}
Boxes(p) == {q \in Listed : p \in Range(chain[q])}

(* 0: the rule's page is not on the chain. *)
BoundaryIndex(r, p) ==
  IF r.pageId = Null THEN Len(chain[p])
  ELSE IF r.pageId \in Range(chain[p]) THEN CHOOSE i \in DOMAIN chain[p] : chain[p][i] = r.pageId
  ELSE 0

(* A mutated form of CoversChain: an exclusion of a page above is not seen.   *)
CoversPageOnly(r, p) ==
  IF r.appliesTo = "page" THEN r.pageId = p /\ p \notin r.excluded
  ELSE BoundaryIndex(r, p) > 0 /\ p \notin r.excluded

CoversChain(r, p) ==
  IF r.appliesTo = "page" THEN r.pageId = p /\ p \notin r.excluded
  ELSE /\ BoundaryIndex(r, p) > 0
       /\ \A i \in 1..BoundaryIndex(r, p) : chain[p][i] \notin r.excluded

IsCloser(r, s, p) ==
  \/ BoundaryIndex(r, p) < BoundaryIndex(s, p)
  \/ BoundaryIndex(r, p) = BoundaryIndex(s, p) /\ r.pageId # Null /\ s.pageId = Null

Closest(R, p) == {r \in R : \A s \in R : ~ IsCloser(s, r, p)}

(* A mutated form of NearestCovering: the rule for the whole wiki is left out. *)
NearestBelowWiki(R, p) ==
  Closest({r \in R : r.pageId # Null /\ r.appliesTo = "subtree" /\ CoversChain(r, p)}, p)

NearestCovering(R, p) == Closest({r \in R : r.appliesTo = "subtree" /\ CoversChain(r, p)}, p)

ExcludingAncestor(R, p) ==
  Closest({r \in R : r.appliesTo = "subtree" /\ p \in r.excluded /\ BoundaryIndex(r, p) > 0}, p)

OwnRules(R, p, scope) == {r \in R : r.pageId = p /\ r.appliesTo = scope}

Own(R, p) ==
  IF OwnRules(R, p, "subtree") # {} THEN OwnRules(R, p, "subtree") ELSE OwnRules(R, p, "page")

EffectiveActions(R, p) ==
  LET given == UNION {r.actions : r \in {s \in R : CoversChain(s, p)}}
  IN given \cup {a \in {Read} : given \ {Read} # {}}

(* A mutated form of Coverage: a page with pages below is told by them alone. *)
CoverageBelow(R) ==
  LET state[p \in Listed] ==
        LET own == EffectiveActions(R, p) # {}
            below == IF Children(p) = {} THEN {IF own THEN "full" ELSE "none"}
                     ELSE {state[q] : q \in Children(p)}
        IN IF below \subseteq {"none"} THEN "none"
           ELSE IF below \subseteq {"full"} THEN "full" ELSE "partial"
  IN state

(* coverageForNode: the state of the box. *)
Coverage(R) ==
  LET state[p \in Listed] ==
        LET own == EffectiveActions(R, p) # {}
            below == {state[q] : q \in Children(p)}
        IN IF ~ own /\ below \subseteq {"none"} THEN "none"
           ELSE IF own /\ below \subseteq {"full"} THEN "full"
           ELSE "partial"
  IN state

-----------------------------------------------------------------------------
(* The service behind the requests.                                          *)

(* normalizeActions: any other action brings page.read. *)
Normal(A) == A \cup {a \in {Read} : A \ {Read} # {}}

(* assertNoEscalation, for somebody who may grant each page by itself. *)
MayGrant(r) == r.appliesTo = "page" \/ r.pageId \in Held

(* A mutated form of Change: the row it replaces stays.                       *)
ChangeBeside(R, id, r) == R \cup {r}

Change(R, id, r) == {s \in R : s.id # id} \cup {r}
Without(R, id) == {r \in R : r.id # id}
Stored(id) == CHOOSE r \in stored : r.id = id
IsStored(id) == \E r \in stored : r.id = id

Stage(i, s) == calls' = [calls EXCEPT ![i].stage = s]

(* createAccessRule. *)
HandleCreate(i) ==
  /\ calls[i].op = "create" /\ calls[i].stage = "sent"
  /\ IF MayGrant(calls[i].row)
     THEN LET r == [calls[i].row EXCEPT !.id = created + 1, !.actions = Normal(@)]
          IN /\ stored' = stored \cup {r} /\ created' = created + 1
             /\ calls' = [calls EXCEPT ![i].row = r, ![i].stage = "done"]
     ELSE Stage(i, "refused") /\ UNCHANGED <<stored, created>>
  /\ UNCHANGED <<view, ready, loads, pending, unseen, halved>>

(* applyUpdate: actions or exclusions, the other stays. *)
Updated(c, r) ==
  IF c.op = "actions" THEN [r EXCEPT !.actions = Normal(c.row.actions)]
  ELSE [r EXCEPT !.excluded = c.row.excluded]

HandleUpdate(i) ==
  /\ calls[i].op \in {"actions", "exclusions"} /\ calls[i].stage = "sent"
  /\ IF IsStored(calls[i].id) /\ MayGrant(Stored(calls[i].id))
     THEN LET r == Updated(calls[i], Stored(calls[i].id))
          IN /\ stored' = Change(stored, r.id, r)
             /\ calls' = [calls EXCEPT ![i].row = r, ![i].stage = "done"]
     ELSE Stage(i, "refused") /\ UNCHANGED stored
  /\ UNCHANGED <<created, view, ready, loads, pending, unseen, halved>>

(* deleteAccessRule. *)
HandleDelete(i) ==
  /\ calls[i].op = "delete" /\ calls[i].stage = "sent"
  /\ stored' = Without(stored, calls[i].id)
  /\ Stage(i, IF IsStored(calls[i].id) THEN "done" ELSE "refused")
  /\ UNCHANGED <<created, view, ready, loads, pending, unseen, halved>>

(* The two requests of a change of scope: remove, then create. *)
HandleScopeRemove(i) ==
  /\ calls[i].op = "scope" /\ calls[i].stage = "sent"
  /\ stored' = Without(stored, calls[i].id)
  /\ Stage(i, IF IsStored(calls[i].id) THEN "removed" ELSE "refused")
  /\ UNCHANGED <<created, view, ready, loads, pending, unseen, halved>>

HandleScopeCreate(i) ==
  /\ calls[i].op = "scope" /\ calls[i].stage = "removed"
  /\ IF MayGrant(calls[i].row)
     THEN LET r == [calls[i].row EXCEPT !.id = created + 1, !.actions = Normal(@)]
          IN /\ stored' = stored \cup {r} /\ created' = created + 1
             /\ calls' = [calls EXCEPT ![i].row = r, ![i].stage = "done"]
             /\ UNCHANGED halved
     ELSE /\ Stage(i, "refused") /\ halved' = halved \cup {calls[i].id}
          /\ UNCHANGED <<stored, created>>
  /\ UNCHANGED <<view, ready, loads, pending, unseen>>

-----------------------------------------------------------------------------
(* The clicks.                                                               *)

Creating(i) == calls[i] # Null /\ calls[i].op \in {"create", "scope"}
               /\ calls[i].stage \in {"sent", "removed"}
Room == created + Cardinality({i \in Slots : Creating(i)}) < MaxRules

NewRule(p, scope, A, E) == [id |-> MaxRules, pageId |-> p, appliesTo |-> scope, actions |-> A, excluded |-> E]

(* withPending: the box is locked, in place of the one that was. *)
Send(key, op, row, id) ==
  LET i == CHOOSE j \in Slots : calls[j] = Null /\ \A k \in Slots : k < j => calls[k] # Null
  IN /\ calls' = [calls EXCEPT ![i] =
           [key |-> key, op |-> op, row |-> row, id |-> id, load |-> loads, stage |-> "sent"]]
     /\ pending' = key
     /\ UNCHANGED <<stored, created, view, ready, loads, unseen, halved>>

Open(key) == ready /\ pending # key /\ \E i \in Slots : calls[i] = Null

(* handleToggleWholeWiki: the rule for the whole wiki is made, or removed. *)
ToggleWholeWiki ==
  /\ Open(Null)
  /\ \/ \E r \in OwnRules(view, Null, "subtree") : Send(Null, "delete", r, r.id)
     \/ /\ OwnRules(view, Null, "subtree") = {} /\ Room
        /\ Send(Null, "create", NewRule(Null, "subtree", {Read}, {}), 0)

(* A mutated form of Check: the rule is freed of all its exclusions.          *)
CheckFreeing(p) ==
  /\ Open(p) /\ Coverage(view)[p] = "none"
  /\ \/ \E r \in ExcludingAncestor(view, p) :
          Send(p, "exclusions", [r EXCEPT !.excluded = {}], r.id)
     \/ /\ ExcludingAncestor(view, p) = {} /\ Room
        /\ Send(p, "create", NewRule(p, "subtree", {Read}, {}), 0)

(* handleToggleNode, on a box that is off: the exclusion is taken back, or  *)
(* a rule of its own is made.                                               *)
Check(p) ==
  /\ Open(p) /\ Coverage(view)[p] = "none"
  /\ \/ \E r \in ExcludingAncestor(view, p) :
          Send(p, "exclusions", [r EXCEPT !.excluded = @ \ {p}], r.id)
     \/ /\ ExcludingAncestor(view, p) = {} /\ Room
        /\ Send(p, "create", NewRule(p, "subtree", {Read}, {}), 0)

(* On any other box: its own rule is removed, or the page is excluded from  *)
(* the nearest rule that covers it, or nothing happens.                     *)
Uncheck(p) ==
  /\ Open(p) /\ Coverage(view)[p] # "none"
  /\ \/ \E r \in Own(view, p) : Send(p, "delete", r, r.id)
     \/ /\ Own(view, p) = {}
        /\ \E r \in NearestCovering(view, p) :
             Send(p, "exclusions", [r EXCEPT !.excluded = @ \cup {p}], r.id)

(* handleActionsChange, handleWholeWikiActionsChange, from the menu of the   *)
(* rule: page.read stays while another action is there, and instead of none. *)
ChangeActions(p) ==
  /\ Open(p)
  /\ \E r \in Own(view, p), a \in Actions :
       LET next == IF a \in r.actions THEN r.actions \ {a} ELSE r.actions \cup {a}
       IN /\ ~ (a = Read /\ r.actions \ {Read} # {})
          /\ Send(p, "actions", [r EXCEPT !.actions = IF next = {} THEN {Read} ELSE next], r.id)

(* handleScopeToggle. *)
ToggleScope(p) ==
  /\ Open(p) /\ p # Null /\ Room
  /\ \E r \in Own(view, p) :
       LET scope == IF r.appliesTo = "subtree" THEN "page" ELSE "subtree"
       IN Send(p, "scope",
               NewRule(p, scope, r.actions, IF scope = "subtree" THEN r.excluded ELSE {}), r.id)

(* A mutated form of Merged: the rule that was replaced stays in the list.    *)
MergedBeside(c) ==
  CASE c.op \in {"create", "scope"} -> view \cup {c.row}
    [] c.op \in {"actions", "exclusions"} ->
         IF \E r \in view : r.id = c.id THEN Change(view, c.id, c.row) ELSE view
    [] c.op = "delete" -> Without(view, c.id)

(* setRules, in each of the handlers. *)
Merged(c) ==
  CASE c.op = "create" -> view \cup {c.row}
    [] c.op \in {"actions", "exclusions"} ->
         IF \E r \in view : r.id = c.id THEN Change(view, c.id, c.row) ELSE view
    [] c.op = "delete" -> Without(view, c.id)
    [] c.op = "scope" -> Without(view, c.id) \cup {c.row}

(* The answer: nobody sees it in a tree that was closed since. *)
Answer(i) ==
  /\ calls[i].stage \in {"done", "refused"}
  /\ IF calls[i].load = loads
     THEN /\ pending' = "none"
          /\ view' = IF calls[i].stage = "done" THEN Merged(calls[i]) ELSE view
          /\ UNCHANGED unseen
     ELSE /\ unseen' = unseen \cup ({calls[i].id, calls[i].row.id} \ {0})
          /\ UNCHANGED <<view, pending>>
  /\ calls' = [calls EXCEPT ![i] = Null]
  /\ UNCHANGED <<stored, created, ready, loads, halved>>

(* The effect that loads the rules, when the tree is shown again.           *)
Load ==
  /\ loads < MaxLoads
  /\ loads' = loads + 1 /\ ready' = FALSE /\ pending' = "none"
  /\ view' = stored
  /\ UNCHANGED <<stored, created, calls, unseen, halved>>

Loaded ==
  /\ ~ ready /\ ready' = TRUE
  /\ UNCHANGED <<stored, created, view, loads, pending, calls, unseen, halved>>

-----------------------------------------------------------------------------
(* PageAccessPanel: somebody else, at one page.  The panel reads the rules   *)
(* again when it opens and after each addition; it is shown here by the     *)
(* changes it makes.                                                        *)
Elsewhere(S) == Cardinality(unseen) < MaxElsewhere /\ unseen' = unseen \cup S
                /\ UNCHANGED <<view, ready, loads, pending, calls, halved>>

(* handleSubmit of AddPageAccessRuleDialog: SubtreeExclusionTree offers the   *)
(* pages below the page.                                                     *)
AddInPanel(p) ==
  /\ Room /\ p # Null
  /\ \E scope \in {"page", "subtree"}, A \in SUBSET Actions \ {{}} :
       \E E \in SUBSET (IF scope = "subtree" THEN Subtree(p) \ {p} ELSE {}) :
         stored' = stored \cup {[NewRule(p, scope, Normal(A), E) EXCEPT !.id = created + 1]}
  /\ created' = created + 1
  /\ Elsewhere({created + 1})

ActionsInPanel(p) ==
  /\ \E r \in stored, A \in SUBSET Actions \ {{}} :
       /\ r.pageId = p
       /\ stored' = Change(stored, r.id, [r EXCEPT !.actions = Normal(A)])
       /\ Elsewhere({r.id})
  /\ UNCHANGED created

DeleteInPanel(p) ==
  /\ \E r \in stored : r.pageId = p /\ stored' = Without(stored, r.id) /\ Elsewhere({r.id})
  /\ UNCHANGED created

-----------------------------------------------------------------------------
Init ==
  /\ stored \in Given /\ created = Cardinality(stored)
  /\ view = stored /\ ready = TRUE /\ loads = 0 /\ pending = "none"
  /\ calls = [i \in Slots |-> Null]
  /\ unseen = {} /\ halved = {}

Click ==
  \/ ToggleWholeWiki
  \/ \E p \in Listed : Check(p) \/ Uncheck(p) \/ ToggleScope(p)
  \/ \E p \in Listed \cup {Null} : ChangeActions(p)

Handle(i) ==
  /\ calls[i] # Null
  /\ \/ HandleCreate(i) \/ HandleUpdate(i) \/ HandleDelete(i)
     \/ HandleScopeRemove(i) \/ HandleScopeCreate(i)

InPanel == \E p \in Pages : AddInPanel(p) \/ ActionsInPanel(p) \/ DeleteInPanel(p)

Next ==
  \/ Click
  \/ \E i \in Slots : Handle(i) \/ (calls[i] # Null /\ Answer(i))
  \/ Load \/ Loaded
  \/ InPanel

-----------------------------------------------------------------------------
(* The rules R as rows of the tables PermissionsService reads.              *)
RuleRows(R) ==
  [k \in Ids |->
     IF \E r \in R : r.id = k
     THEN LET r == CHOOSE x \in R : x.id = k
          IN [subject |-> "subject", pageId |-> r.pageId, appliesTo |-> r.appliesTo,
              actions |-> r.actions]
     ELSE Null]
ExclusionRows(R) == [k \in Ids |-> UNION {r.excluded : r \in {x \in R : x.id = k}}]

Shown ==
  INSTANCE AccessEvaluation WITH
    Users <- {"subject"}, Groups <- {}, RuleIds <- Ids, Admins <- {}, Inactive <- {},
    Globals <- {"user.manage"}, parent <- Parent, live <- Pages, public <- {},
    groups <- {}, members <- <<>>, grants <- [u \in {"subject"} |-> {}],
    rules <- RuleRows(view), exclusions <- ExclusionRows(view)

Server ==
  INSTANCE AccessEvaluation WITH
    Users <- {"subject"}, Groups <- {}, RuleIds <- Ids, Admins <- {}, Inactive <- {},
    Globals <- {"user.manage"}, parent <- Parent, live <- Pages, public <- {},
    groups <- {}, members <- <<>>, grants <- [u \in {"subject"} |-> {}],
    rules <- RuleRows(stored), exclusions <- ExclusionRows(stored)

Granted(p) == Server!ActionsFromRules("subject", p)
GrantedIfShown(p) == Shown!ActionsFromRules("subject", p)

(* No rule that is shown starts, or stops, at a page above p which the         *)
(* administrator may not read: the tree has no place for it.                *)
Seen(p) ==
  \A q \in Range(Up[p]) \ Range(chain[p]), r \in view : r.pageId # q /\ q \notin r.excluded

(* Two programs answer the same question: the actions the tree computes in   *)
(* the browser (coveringRulesForChain, effectiveActionsForChain), from the   *)
(* pages its user may read, are those PermissionsService would grant on the  *)
(* same rules from all pages.                                               *)
ShownIsGranted ==
  \A p \in Listed : Seen(p) => EffectiveActions(view, p) = GrantedIfShown(p)

(* A box is on when the subject may read every page listed in its subtree by  *)
(* the rules that are shown, off when it may read none (coverageForNode goes  *)
(* by the node and the boxes below it).                                     *)
BoxTellsAccess ==
  \A p \in Listed :
    LET readable == {q \in Boxes(p) : Read \in GrantedIfShown(q)}
    IN (\A q \in Boxes(p) : Seen(q)) =>
         /\ Coverage(view)[p] = "full" <=> readable = Boxes(p)
         /\ Coverage(view)[p] = "none" <=> readable = {}

(* A click on a box that is on always finds a rule to remove or to narrow.   *)
FullHasHandle ==
  \A p \in Listed :
    Coverage(view)[p] = "full" => Own(view, p) # {} \/ NearestCovering(view, p) # {}

(* With no request under way, the tree shows the rules as they are stored,   *)
(* unless somebody else changed them or a change of scope stopped half-way.  *)
QuietViewIsStored ==
  (ready /\ unseen = {} /\ halved = {} /\ \A i \in Slots : calls[i] = Null) => view = stored

(* Whatever is under way, and in whatever order it is answered: a rule that  *)
(* is shown and no longer stored is being removed, and a rule that is stored *)
(* and not shown was just made, by a request that is about to be answered.   *)
ShownIsStored ==
  /\ \A r \in view :
       \/ IsStored(r.id) \/ r.id \in unseen \cup halved
       \/ \E i \in Slots : /\ calls[i] # Null /\ calls[i].id = r.id
                           /\ \/ calls[i].op = "delete" /\ calls[i].stage = "done"
                              \/ calls[i].op = "scope" /\ calls[i].stage \in {"removed", "done"}
  /\ \A r \in stored :
       \/ r.id \in unseen \/ \E s \in view : s.id = r.id
       \/ \E i \in Slots : /\ calls[i] # Null /\ calls[i].row.id = r.id
                           /\ calls[i].op \in {"create", "scope"} /\ calls[i].stage = "done"

(* What a click changes lies at or below the page of its box: no request     *)
(* gives or takes an action on another page (handleToggleNode sends the      *)
(* whole list of exclusions of a rule that covers much more).                *)
RestUntouched ==
  calls' # calls =>
    \A p \in Pages : Granted(p)' # Granted(p) =>
      \E i \in Slots : calls[i] # Null /\ calls'[i] # calls[i] /\ p \in Subtree(calls[i].key)

=============================================================================
