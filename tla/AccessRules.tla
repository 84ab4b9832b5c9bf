----------------------------- MODULE AccessRules -----------------------------
(***************************************************************************)
(* AccessRulesService, GroupsService and UsersService.setGroups: who writes *)
(* the tables AccessEvaluation reads.  A handler is admitted by a guard,    *)
(* checks its arguments against what its caller holds, and then writes in   *)
(* several statements with no transaction around them, while other handlers *)
(* and the page tree move on.  The reads of one check are one step.         *)
(***************************************************************************)
EXTENDS AccessEvaluation

CONSTANTS
  Requests,      \* the handlers; each serves one call
  Calls,         \* the calls clients may make
  Seeds,         \* database contents the run may start from
  MaxTreeEdits   \* bound on the changes made to the page tree

Subjects == Users \cup Groups

(* "at" is the id in the path of the route: a page, or a subject.           *)
CreateCall ==
  [ op : {"create"}, actor : Users, at : Subjects \cup Pages, subject : Subjects,
    pageId : Pages \cup {Null}, appliesTo : {"page", "subtree"},
    actions : SUBSET Actions, excluded : SUBSET Pages ]
UpdateCall ==
  [ op : {"update"}, actor : Users, at : Subjects \cup Pages, rule : RuleIds,
    actions : (SUBSET Actions) \cup {Null}, excluded : (SUBSET Pages) \cup {Null} ]
DeleteCall      == [op : {"delete"}, actor : Users, at : Subjects \cup Pages, rule : RuleIds]
GrantCall       == [op : {"grants"}, actor : Users, at : Subjects, grants : SUBSET Globals]
MembersCall     == [op : {"members"}, actor : Users, at : Groups, users : SUBSET Users]
GroupsCall      == [op : {"groups"}, actor : Users, at : Users, groups : SUBSET Groups]
CreateGroupCall == [op : {"createGroup"}, actor : Users, at : {Null}, users : SUBSET Users]
DeleteGroupCall == [op : {"deleteGroup"}, actor : Users, at : Groups]

Call ==
  UNION { CreateCall, UpdateCall, DeleteCall, GrantCall, MembersCall, GroupsCall,
          CreateGroupCall, DeleteGroupCall }

(* How a handler answers: an error before any write, or one of the database. *)
Outcomes == {"ok", "refused", "failed"}
Writes   == {"insert", "actions", "clear", "add", "remove"}
Steps    == {"idle", "admit", "check"} \cup Writes \cup Outcomes

ASSUME CallsAssumption ==
  /\ Null \notin Call /\ \A s \in SUBSET (Actions \cup Pages) : s # Null
  /\ Calls \subseteq Call
  \* on the route of a page, the rule is about that page
  /\ \A c \in Calls : (c.op = "create" /\ c.at \in Pages) => c.pageId = c.at
  /\ Pages \cap (Users \cup Groups) = {}

ASSUME SeedsAssumption ==
  \A s \in Seeds :
    /\ s.parent \in [Pages -> Pages \cup {Null}]
    /\ s.live \subseteq Pages /\ s.public \subseteq Pages /\ s.groups \subseteq Groups
    /\ s.members \in [Groups -> SUBSET Users]
    /\ s.grants \in [Users \cup Groups -> SUBSET Globals]
    /\ s.rules \in [RuleIds -> RuleRow \cup {Null}]
    /\ s.exclusions \in [RuleIds -> SUBSET Pages]
    /\ \A g \in Groups \ s.groups : s.members[g] = {} /\ s.grants[g] = {}
    /\ \A k \in RuleIds :
         /\ s.rules[k] = Null => s.exclusions[k] = {}
         /\ s.rules[k] # Null =>
              /\ s.rules[k].subject \in Users \cup s.groups
              /\ s.rules[k].actions # {}
              /\ s.rules[k].actions \ {Read} # {} => Read \in s.rules[k].actions
              /\ s.rules[k].appliesTo = "page" => s.exclusions[k] = {}

ASSUME BoundAssumption == MaxTreeEdits \in Nat

VARIABLES
  spent,      \* ids of rules and groups already given out
  pc,         \* next step of each handler, or its answer
  call,       \* the call each handler serves
  target,     \* the rule or group the handler writes
  before,     \* history: what each user held when the handler checked
  treeEdits   \* how often the page tree changed

vars == <<parent, live, public, groups, members, grants, rules, exclusions,
          spent, pc, call, target, before, treeEdits>>

Anything == (Actions \X Pages) \cup (Globals \X {Null})

(* What u may do: actions on pages, and global permissions.                 *)
Holdings(u) ==
  {h \in Actions \X Pages : Can(u, h[1], h[2])}
    \cup {h \in Globals \X {Null} : HasGlobal(u, h[1])}

Unheld == [u \in Users |-> {}]

Init ==
  /\ \E s \in Seeds :
       /\ parent = s.parent /\ live = s.live /\ public = s.public
       /\ groups = s.groups /\ members = s.members /\ grants = s.grants
       /\ rules = s.rules /\ exclusions = s.exclusions
       /\ spent = s.groups \cup {k \in RuleIds : s.rules[k] # Null}
  /\ pc = [r \in Requests |-> "idle"]
  /\ call = [r \in Requests |-> Null]
  /\ target = [r \in Requests |-> Null]
  /\ before = [r \in Requests |-> Unheld]
  /\ treeEdits = 0

(* The handler goes on, about target k; one that answers forgets its locals. *)
GotoAbout(r, step, k, held) ==
  LET kept(value, none) == IF step \in Outcomes THEN none ELSE value
  IN /\ pc' = [pc EXCEPT ![r] = step]
     /\ call' = [call EXCEPT ![r] = kept(@, Null)]
     /\ target' = [target EXCEPT ![r] = kept(k, Null)]
     /\ before' = [before EXCEPT ![r] = kept(held, Unheld)]

Goto(r, step) == GotoAbout(r, step, target[r], before[r])

-----------------------------------------------------------------------------
(* Admission and checks *)

Begin(r) ==
  /\ pc[r] = "idle"
  /\ \E c \in Calls : call' = [call EXCEPT ![r] = c]
  /\ pc' = [pc EXCEPT ![r] = "admit"]
  /\ UNCHANGED <<tables, spent, target, before, treeEdits>>

(* PermissionsGuard on the admin routes, assertCanManageAccessRules on the   *)
(* routes of a page.                                                        *)
Admitted(c) ==
  IF c.at \in Pages THEN Can(c.actor, Manage, c.at)
  ELSE HasGlobal(c.actor, ManageUsers)

Admit(r) ==
  /\ pc[r] = "admit"
  /\ Goto(r, IF Admitted(call[r]) THEN "check" ELSE "refused")
  /\ UNCHANGED <<tables, spent, treeEdits>>

(* normalizeActions: whoever may act on a page may read it.                  *)
Normalized(actions) == actions \cup {a \in {Read} : actions \ {Read} # {}}

(* validateExclusions: strict descendants of the rule's page.               *)
ValidExclusions(pageId, appliesTo, excluded) ==
  \/ excluded = {}
  \/ /\ appliesTo = "subtree"
     /\ excluded \subseteq live
     /\ pageId # Null => \A x \in excluded : x # pageId /\ pageId \in Chain(x)

(* assertNoEscalation: the actor holds the actions wherever the rule may     *)
(* apply, its exclusions not counted.                                       *)
WithinReach(actor, pageId, appliesTo, actions) ==
  \/ pageId = Null /\ \A a \in actions : Unrestricted(actor, a)
  \/ /\ pageId # Null /\ appliesTo = "subtree"
     /\ \A a \in actions : UnrestrictedOnSubtree(actor, a, pageId)
  \/ /\ pageId # Null /\ appliesTo = "page"
     /\ actions \subseteq EffectiveActions(actor, pageId)

(* assertActorCanGrantGroupMembership. *)
MayJoin(actor, g) ==
  /\ \A permission \in grants[g] : HasGlobal(actor, permission)
  /\ \A k \in RuleIds : (rules[k] # Null /\ rules[k].subject = g) =>
       WithinReach(actor, rules[k].pageId, rules[k].appliesTo, rules[k].actions)

(* assertSubjectExists. *)
Exists(s) == s \in Users \cup groups

(* findOwnedRule, findRuleDirectlyOnPage. *)
Owned(c) ==
  /\ rules[c.rule] # Null
  /\ c.at = IF c.at \in Pages THEN rules[c.rule].pageId ELSE rules[c.rule].subject

CreateValid(c) ==
  /\ Exists(c.subject) /\ c.actions # {}
  /\ c.pageId \in live \cup {Null}
  /\ ValidExclusions(c.pageId, c.appliesTo, c.excluded)
  /\ WithinReach(c.actor, c.pageId, c.appliesTo, Normalized(c.actions))

(* A mutated form of UpdateValid: only new actions are checked.              *)
UpdateValidForActions(c) ==
  LET rule == rules[c.rule]
  IN /\ Owned(c) /\ c.actions # {}
     /\ c.excluded # Null => ValidExclusions(rule.pageId, rule.appliesTo, c.excluded)
     /\ c.actions # Null =>
          WithinReach(c.actor, rule.pageId, rule.appliesTo, Normalized(c.actions))

(* applyUpdate.  A field that is not sent is Null.                          *)
UpdateValid(c) ==
  LET rule == rules[c.rule]
  IN /\ Owned(c) /\ c.actions # {}
     /\ c.excluded # Null => ValidExclusions(rule.pageId, rule.appliesTo, c.excluded)
     /\ (c.actions # Null \/ c.excluded # Null) =>
          WithinReach(c.actor, rule.pageId, rule.appliesTo,
                      IF c.actions # Null THEN Normalized(c.actions) ELSE rule.actions)

GrantsValid(c) == Exists(c.at) /\ \A permission \in c.grants : HasGlobal(c.actor, permission)

(* setMembers: only new members are checked.                                *)
MembersValid(c) == c.at \in groups /\ (c.users \subseteq members[c.at] \/ MayJoin(c.actor, c.at))

(* setGroups: only the groups the user is not in yet are checked.           *)
GroupsValid(c) == c.groups \subseteq groups /\ \A g \in c.groups \ GroupsOf(c.at) : MayJoin(c.actor, g)

(* What each service method asks before it writes. *)
Valid(c) ==
  \/ c.op = "create" /\ CreateValid(c)
  \/ c.op = "update" /\ UpdateValid(c)
  \/ c.op = "delete" /\ Owned(c)
  \/ c.op = "grants" /\ GrantsValid(c)
  \/ c.op = "members" /\ MembersValid(c)
  \/ c.op = "groups" /\ GroupsValid(c)
  \/ c.op = "createGroup"
  \/ c.op = "deleteGroup" /\ c.at \in groups

(* The first statement a valid call runs. *)
FirstWrite(c) ==
  CASE c.op \in {"create", "createGroup"}                           -> "insert"
    [] c.op \in {"delete", "deleteGroup"}                           -> "remove"
    [] c.op \in {"grants", "members", "groups"}                     -> "clear"
    [] c.op = "update" /\ c.actions # Null                          -> "actions"
    [] c.op = "update" /\ c.actions = Null /\ c.excluded # Null     -> "clear"
    [] OTHER                                                        -> "ok"

(* A mutated form of Addressed: the first id of the path. *)
AddressedFirst(c) == c.at

(* The row the path of the call names. *)
Addressed(c) ==
  CASE c.op \in {"update", "delete"}       -> c.rule
    [] c.op \in {"members", "deleteGroup"} -> c.at
    [] OTHER                               -> Null

Check(r) ==
  LET c == call[r]
  IN /\ pc[r] = "check"
     /\ GotoAbout(r, IF Valid(c) THEN FirstWrite(c) ELSE "refused", Addressed(c),
                  [u \in Users |-> Holdings(u)])
     /\ UNCHANGED <<tables, spent, treeEdits>>

-----------------------------------------------------------------------------
(* Writes.  Each is one statement; a foreign key may refuse it.              *)

(* create of the rule. *)
InsertRule(r) ==
  LET c == call[r]
  IN /\ pc[r] = "insert" /\ c.op = "create"
     /\ \/ /\ Exists(c.subject)
           /\ \E k \in RuleIds \ spent :
                /\ rules' = [rules EXCEPT ![k] =
                     [ subject |-> c.subject, pageId |-> c.pageId,
                       appliesTo |-> c.appliesTo, actions |-> Normalized(c.actions) ]]
                /\ spent' = spent \cup {k}
                /\ GotoAbout(r, IF c.excluded = {} THEN "ok" ELSE "clear", k, before[r])
        \/ ~Exists(c.subject) /\ Goto(r, "failed") /\ UNCHANGED <<rules, spent>>
     /\ UNCHANGED <<parent, live, public, groups, members, grants, exclusions, treeEdits>>

(* A mutated form of SetActions: the actions as they were sent. *)
SetActionsAsSent(r) ==
  LET k == target[r]
  IN /\ pc[r] = "actions"
     /\ rules' = IF rules[k] = Null THEN rules
                 ELSE [rules EXCEPT ![k].actions = call[r].actions]
     /\ Goto(r, IF call[r].excluded = Null THEN "ok" ELSE "clear")
     /\ UNCHANGED <<parent, live, public, groups, members, grants, exclusions, spent, treeEdits>>

(* updateActions; the rule may be gone. *)
SetActions(r) ==
  LET c == call[r]
      k == target[r]
  IN /\ pc[r] = "actions"
     /\ rules' = IF rules[k] = Null THEN rules
                 ELSE [rules EXCEPT ![k].actions = Normalized(c.actions)]
     /\ Goto(r, IF c.excluded = Null THEN "ok" ELSE "clear")
     /\ UNCHANGED <<parent, live, public, groups, members, grants, exclusions, spent, treeEdits>>

(* setExclusions: a delete, and an insert when there is something to insert. *)
ClearExclusions(r) ==
  /\ pc[r] = "clear" /\ call[r].op \in {"create", "update"}
  /\ exclusions' = [exclusions EXCEPT ![target[r]] = {}]
  /\ Goto(r, IF call[r].excluded = {} THEN "ok" ELSE "add")
  /\ UNCHANGED <<parent, live, public, groups, members, grants, rules, spent, treeEdits>>

(* A mutated form of AddExclusions: no foreign key on the rule. *)
AddExclusionsUnreferenced(r) ==
  /\ pc[r] = "add" /\ call[r].op \in {"create", "update"}
  /\ exclusions' = [exclusions EXCEPT ![target[r]] = @ \cup call[r].excluded]
  /\ Goto(r, "ok")
  /\ UNCHANGED <<parent, live, public, groups, members, grants, rules, spent, treeEdits>>

AddExclusions(r) ==
  LET k == target[r]
  IN /\ pc[r] = "add" /\ call[r].op \in {"create", "update"}
     /\ \/ /\ rules[k] # Null
           /\ exclusions' = [exclusions EXCEPT ![k] = @ \cup call[r].excluded]
           /\ Goto(r, "ok")
        \/ rules[k] = Null /\ Goto(r, "failed") /\ UNCHANGED exclusions
     /\ UNCHANGED <<parent, live, public, groups, members, grants, rules, spent, treeEdits>>

(* delete of a rule; its exclusions go with it. *)
DeleteRule(r) ==
  LET k == target[r]
  IN /\ pc[r] = "remove" /\ call[r].op = "delete"
     /\ rules' = [rules EXCEPT ![k] = Null]
     /\ exclusions' = [exclusions EXCEPT ![k] = {}]
     /\ Goto(r, "ok")
     /\ UNCHANGED <<parent, live, public, groups, members, grants, spent, treeEdits>>

(* setForUser, setForGroup. *)
ClearGrants(r) ==
  /\ pc[r] = "clear" /\ call[r].op = "grants"
  /\ grants' = [grants EXCEPT ![call[r].at] = {}]
  /\ Goto(r, IF call[r].grants = {} THEN "ok" ELSE "add")
  /\ UNCHANGED <<parent, live, public, groups, members, rules, exclusions, spent, treeEdits>>

AddGrants(r) ==
  LET s == call[r].at
  IN /\ pc[r] = "add" /\ call[r].op = "grants"
     /\ \/ /\ Exists(s)
           /\ grants' = [grants EXCEPT ![s] = @ \cup call[r].grants]
           /\ Goto(r, "ok")
        \/ ~Exists(s) /\ Goto(r, "failed") /\ UNCHANGED grants
     /\ UNCHANGED <<parent, live, public, groups, members, rules, exclusions, spent, treeEdits>>

(* create of a group; members, if any are named, follow. *)
InsertGroup(r) ==
  /\ pc[r] = "insert" /\ call[r].op = "createGroup"
  /\ \E g \in Groups \ spent :
       /\ groups' = groups \cup {g}
       /\ spent' = spent \cup {g}
       /\ GotoAbout(r, IF call[r].users = {} THEN "ok" ELSE "clear", g, before[r])
  /\ UNCHANGED <<parent, live, public, members, grants, rules, exclusions, treeEdits>>

(* setMembers of the groups repository. *)
ClearMembers(r) ==
  /\ pc[r] = "clear" /\ call[r].op \in {"members", "createGroup"}
  /\ members' = [members EXCEPT ![target[r]] = {}]
  /\ Goto(r, IF call[r].users = {} THEN "ok" ELSE "add")
  /\ UNCHANGED <<parent, live, public, groups, grants, rules, exclusions, spent, treeEdits>>

AddMembers(r) ==
  LET g == target[r]
  IN /\ pc[r] = "add" /\ call[r].op \in {"members", "createGroup"}
     /\ \/ /\ g \in groups
           /\ members' = [members EXCEPT ![g] = @ \cup call[r].users]
           /\ Goto(r, "ok")
        \/ g \notin groups /\ Goto(r, "failed") /\ UNCHANGED members
     /\ UNCHANGED <<parent, live, public, groups, grants, rules, exclusions, spent, treeEdits>>

(* setGroupsForUser. *)
ClearGroups(r) ==
  /\ pc[r] = "clear" /\ call[r].op = "groups"
  /\ members' = [g \in Groups |-> members[g] \ {call[r].at}]
  /\ Goto(r, IF call[r].groups = {} THEN "ok" ELSE "add")
  /\ UNCHANGED <<parent, live, public, groups, grants, rules, exclusions, spent, treeEdits>>

AddGroups(r) ==
  LET c == call[r]
  IN /\ pc[r] = "add" /\ c.op = "groups"
     /\ \/ /\ c.groups \subseteq groups
           /\ members' = [g \in Groups |->
                members[g] \cup {u \in {c.at} : g \in c.groups}]
           /\ Goto(r, "ok")
        \/ ~(c.groups \subseteq groups) /\ Goto(r, "failed") /\ UNCHANGED members
     /\ UNCHANGED <<parent, live, public, groups, grants, rules, exclusions, spent, treeEdits>>

(* delete of a group; what names it goes with it. *)
DeleteGroup(r) ==
  LET g   == target[r]
      its == {k \in RuleIds : rules[k] # Null /\ rules[k].subject = g}
  IN /\ pc[r] = "remove" /\ call[r].op = "deleteGroup"
     /\ groups' = groups \ {g}
     /\ members' = [members EXCEPT ![g] = {}]
     /\ grants' = [grants EXCEPT ![g] = {}]
     /\ rules' = [k \in RuleIds |-> IF k \in its THEN Null ELSE rules[k]]
     /\ exclusions' = [k \in RuleIds |-> IF k \in its THEN {} ELSE exclusions[k]]
     /\ Goto(r, "ok")
     /\ UNCHANGED <<parent, live, public, spent, treeEdits>>

-----------------------------------------------------------------------------
(* The page tree, changed by the handlers of PageStore.                     *)

Move(p, to) ==
  /\ p \in live /\ to \in live \cup {Null} /\ p \notin Chain(to)
  /\ parent' = [parent EXCEPT ![p] = to]
  /\ UNCHANGED <<live, public>>

(* One page of a cascade, or a page without children. *)
Remove(p) ==
  /\ p \in live /\ \A q \in live : parent[q] # p
  /\ live' = live \ {p}
  /\ UNCHANGED <<parent, public>>

Publish(p) ==
  /\ p \in live \ public
  /\ public' = public \cup {p}
  /\ UNCHANGED <<parent, live>>

EditTree ==
  /\ treeEdits < MaxTreeEdits
  /\ \E p \in Pages : (\E to \in Pages \cup {Null} : Move(p, to)) \/ Remove(p) \/ Publish(p)
  /\ treeEdits' = treeEdits + 1
  /\ UNCHANGED <<groups, members, grants, rules, exclusions, spent, pc, call, target, before>>

-----------------------------------------------------------------------------
Write(r) ==
  \/ InsertRule(r) \/ SetActions(r) \/ ClearExclusions(r) \/ AddExclusions(r)
  \/ DeleteRule(r) \/ ClearGrants(r) \/ AddGrants(r) \/ InsertGroup(r)
  \/ ClearMembers(r) \/ AddMembers(r) \/ ClearGroups(r) \/ AddGroups(r) \/ DeleteGroup(r)

Step(r) == Admit(r) \/ Check(r) \/ Write(r)

Next == EditTree \/ \E r \in Requests : Begin(r) \/ Step(r)

Spec == Init /\ [][Next]_vars

AccessTypeOK ==
  /\ TablesOK
  /\ spent \subseteq RuleIds \cup Groups
  /\ pc \in [Requests -> Steps]
  /\ call \in [Requests -> Call \cup {Null}]
  /\ target \in [Requests -> RuleIds \cup Groups \cup {Null}]
  /\ before \in [Requests -> [Users -> SUBSET Anything]]
  /\ treeEdits \in 0..MaxTreeEdits

=============================================================================
