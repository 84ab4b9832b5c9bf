-------------------------- MODULE AccessEvaluation --------------------------
(***************************************************************************)
(* PermissionsService: who may do what on which page, computed from the     *)
(* page tree, the access rules with their exclusions, and the groups.  The  *)
(* code answers the question in several ways, each with its own queries;    *)
(* each is an operator over the tables here.                               *)
(***************************************************************************)
EXTENDS Naturals, FiniteSets

CONSTANTS
  Pages, Users, Groups,
  RuleIds,       \* ids of rows of page_access_rules
  Admins,        \* users whose role is admin
  Inactive,      \* users whose isActive is false
  Actions,       \* PAGE_ACTIONS
  Globals,       \* GLOBAL_PERMISSIONS
  Null           \* no page (the whole wiki), no rule, nobody

Read        == "page.read"
Manage      == "page.manage_permissions"
ManageUsers == "user.manage"

RuleRow ==
  [ subject   : Users \cup Groups,   \* userId or groupId, exactly one is set
    pageId    : Pages \cup {Null},
    appliesTo : {"page", "subtree"},
    actions   : SUBSET Actions ]

ASSUME AccessAssumption ==
  /\ Null \notin Pages \cup Users \cup Groups \cup RuleIds /\ Null \notin RuleRow
  /\ Users \cap Groups = {}
  /\ Admins \subseteq Users /\ Inactive \subseteq Users
  /\ {Read, Manage} \subseteq Actions /\ ManageUsers \in Globals

VARIABLES
  parent,      \* parent_id of each page
  live,        \* the pages that are not soft-deleted
  public,      \* the pages whose visibility is public
  groups,      \* rows of groups
  members,     \* rows of group_members, by group
  grants,      \* rows of user_permissions and group_permissions, by subject
  rules,       \* rows of page_access_rules
  exclusions   \* rows of page_access_exclusions, by rule

tables == <<parent, live, public, groups, members, grants, rules, exclusions>>

TablesOK ==
  /\ parent \in [Pages -> Pages \cup {Null}]
  /\ live \subseteq Pages /\ public \subseteq Pages
  /\ groups \subseteq Groups
  /\ members \in [Groups -> SUBSET Users]
  /\ grants \in [Users \cup Groups -> SUBSET Globals]
  /\ rules \in [RuleIds -> RuleRow \cup {Null}]
  /\ exclusions \in [RuleIds -> SUBSET Pages]

-----------------------------------------------------------------------------
(* The recursive queries of the page hierarchy: least fixpoints, which is   *)
(* what WITH RECURSIVE computes on a tree.  On a cycle the queries fail, and *)
(* what these operators yield there stands for no answer.                   *)

(* S holds the live parent of each of its pages. *)
Closed(S) == \A q \in S : parent[q] \in live => parent[q] \in S

(* findChains: p and its ancestors, up to a root or a deleted page.         *)
Chain(p) ==
  {q \in live : p \in live /\ \A S \in SUBSET (live \ {q}) : p \in S => ~Closed(S)}

(* findDescendantIds: p and the live pages that reach it through live ones. *)
Descendants(p) == {q \in live : p \in Chain(q)}

(* The part of the chain of p that ends with top. *)
UpTo(p, top) == {q \in Chain(p) : top \in Chain(q)}

(* ruleCoversChain, on the chain of p. *)
Covers(k, p) ==
  LET rule == rules[k]
  IN \/ /\ rule.appliesTo = "page"
        /\ rule.pageId = p /\ p \notin exclusions[k]
     \/ /\ rule.appliesTo = "subtree" /\ rule.pageId = Null
        /\ \A x \in exclusions[k] : x \notin Chain(p)
     \/ /\ rule.appliesTo = "subtree" /\ rule.pageId \in Chain(p)
        /\ \A x \in exclusions[k] : x \notin UpTo(p, rule.pageId)

-----------------------------------------------------------------------------
GroupsOf(u) == {g \in Groups : u \in members[g]}

(* loadUserContext: the rules of the user and of the user's groups.         *)
RulesOf(u) == {k \in RuleIds : rules[k] # Null /\ rules[k].subject \in {u} \cup GroupsOf(u)}

(* actionsFromRules: any other action implies page.read.                    *)
ActionsFromRules(u, p) ==
  LET given == UNION {rules[k].actions : k \in {j \in RulesOf(u) : Covers(j, p)}}
  IN given \cup {a \in {Read} : given \ {Read} # {}}

Active(u) == u \in Users \ Inactive

(* can.  A visitor is Null.  An administrator's isActive is not looked at.     *)
Can(u, a, p) ==
  /\ p \in live
  /\ \/ a = Read /\ p \in public
     \/ u \in Admins
     \/ Active(u) /\ a \in ActionsFromRules(u, p)

HasGlobal(u, permission) ==
  \/ u \in Admins
  \/ Active(u) /\ permission \in grants[u] \cup UNION {grants[g] : g \in GroupsOf(u)}

(* getEffectivePageActions, alone and in bulk. *)
EffectiveActions(u, p) ==
  IF p \notin live THEN {}
  ELSE IF u \in Admins THEN Actions
  ELSE {a \in {Read} : p \in public} \cup (IF Active(u) THEN ActionsFromRules(u, p) ELSE {})

(* filterReadable. *)
Readable(u, S) ==
  IF u \in Admins THEN S
  ELSE {p \in S \cap live : p \in public \/ (Active(u) /\ Read \in ActionsFromRules(u, p))}

(* A mutated form of Explained: whether u is active is not asked.            *)
ExplainedToInactive(u, a, p) ==
  /\ p \in live
  /\ \/ u \in Admins
     \/ a = Read /\ p \in public
     \/ \E k \in RulesOf(u) : a \in rules[k].actions /\ Covers(k, p)

(* explain: whether it names a source.  It looks for rules that grant the   *)
(* action, where ActionsFromRules collects actions first.                   *)
Explained(u, a, p) ==
  /\ p \in live
  /\ \/ u \in Admins
     \/ a = Read /\ p \in public
     \/ /\ Active(u)
        /\ \E k \in RulesOf(u) :
             /\ IF a = Read THEN rules[k].actions # {} ELSE a \in rules[k].actions
             /\ Covers(k, p)

(* hasUnrestrictedPageAccess. *)
WholeWiki(k) == rules[k].appliesTo = "subtree" /\ rules[k].pageId = Null

Unrestricted(u, a) ==
  \/ u \in Admins
  \/ Active(u) /\ \E k \in RulesOf(u) :
       WholeWiki(k) /\ a \in rules[k].actions /\ exclusions[k] = {}

(* A mutated form of UnrestrictedOnSubtree: the page itself is enough.       *)
CoveredOnSubtree(u, a, p) ==
  \/ u \in Admins
  \/ Active(u) /\ p \in live /\ \E k \in RulesOf(u) :
       rules[k].appliesTo = "subtree" /\ a \in rules[k].actions /\ Covers(k, p)

(* hasUnrestrictedActionOnSubtree: a subtree rule covers p and excludes no  *)
(* page below it.                                                           *)
UnrestrictedOnSubtree(u, a, p) ==
  \/ u \in Admins
  \/ /\ Active(u) /\ p \in live
     /\ \E k \in RulesOf(u) :
          /\ rules[k].appliesTo = "subtree" /\ a \in rules[k].actions
          /\ Covers(k, p)
          /\ \A x \in exclusions[k] : p \notin Chain(x)

Expanded(S) == UNION {Descendants(x) : x \in S}

(* A mutated form of ReadableIds: an exclusion hides one page only.          *)
ReadableIdsUnexpanded(u) ==
  LET reading == {k \in RulesOf(u) : Read \in rules[k].actions}
  IN IF u \in Admins \/ (Active(u) /\ \E k \in reading : WholeWiki(k) /\ exclusions[k] = {})
     THEN {Null}
     ELSE IF ~Active(u) THEN {}
     ELSE UNION
       {IF rules[k].appliesTo = "page" THEN {rules[k].pageId} \ {Null}
        ELSE (IF WholeWiki(k) THEN live ELSE Descendants(rules[k].pageId)) \ exclusions[k] :
          k \in reading}

(* getReadablePageIds; {Null} is its null, no restriction at all.           *)
ReadableIds(u) ==
  LET reading == {k \in RulesOf(u) : Read \in rules[k].actions}
  IN IF u \in Admins \/ (Active(u) /\ \E k \in reading : WholeWiki(k) /\ exclusions[k] = {})
     THEN {Null}
     ELSE IF ~Active(u) THEN {}
     ELSE UNION
       {IF rules[k].appliesTo = "page" THEN {rules[k].pageId} \ {Null}
        ELSE (IF WholeWiki(k) THEN live ELSE Descendants(rules[k].pageId))
               \ Expanded(exclusions[k]) :
          k \in reading}

=============================================================================
