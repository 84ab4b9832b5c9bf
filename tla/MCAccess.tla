------------------------------ MODULE MCAccess ------------------------------
(***************************************************************************)
(* Small instances of AccessRules: a page above another and one beside them,*)
(* a manager, an administrator, two members, one of them inactive.          *)
(***************************************************************************)
EXTENDS AccessProperties, TLC

CONSTANTS p1, p2, p3, boss, ann, root, ghost, g1, g2, k1, k2, k3, r1, r2

MCPages    == {p1, p2, p3}
MCUsers    == {boss, ann, root, ghost}
MCGroups   == {g1, g2}
MCRuleIds  == {k1, k2, k3}
MCRequests == {r1, r2}
MCActions  == {Read, Manage, "page.edit"}
MCGlobals  == {ManageUsers, "tag.create"}

Nothing == [x \in MCUsers \cup MCGroups |-> {}]

Rule(subject, pageId, appliesTo, actions) ==
  [subject |-> subject, pageId |-> pageId, appliesTo |-> appliesTo, actions |-> actions]

(* p2 below p1, p3 beside them; the manager holds a rule, and a group one.  *)
Wiki(own, ownExcluded, theirs, theirExcluded) ==
  [ parent |-> (p1 :> Null) @@ (p2 :> p1) @@ (p3 :> Null),
    live |-> MCPages, public |-> {p3}, groups |-> {g1},
    members |-> (g1 :> {ann, ghost}) @@ (g2 :> {}),
    grants |-> (boss :> {ManageUsers}) @@ (g1 :> {"tag.create"}) @@ Nothing,
    rules |-> (k1 :> own) @@ (k2 :> theirs) @@ (k3 :> Null),
    exclusions |-> (k1 :> ownExcluded) @@ (k2 :> theirExcluded) @@ (k3 :> {}) ]

Edits == {Read, "page.edit"}

MCSeeds ==
  { Wiki(Rule(boss, p1, "subtree", MCActions), {}, Rule(g1, p1, "subtree", Edits), {p2}),
    Wiki(Rule(boss, Null, "subtree", MCActions), {p2}, Rule(g1, p1, "subtree", {Read}), {p2}),
    Wiki(Rule(boss, Null, "subtree", Edits), {}, Rule(g1, Null, "subtree", {Read}), {p1}) }

RacingSeeds ==
  { Wiki(Rule(boss, p1, "subtree", MCActions), {}, Rule(g1, p1, "subtree", Edits), {p2}),
    Wiki(Rule(boss, Null, "subtree", MCActions), {}, Rule(g1, p2, "page", {Read}), {}) }

(* p3 below p2 below p1, and every two rules that may be about them, one of *)
(* ann and one of ann's group, with every set of exclusions they may have.  *)
Below == (Null :> MCPages) @@ (p1 :> {p2, p3}) @@ (p2 :> {p3})

Shared(subject) ==
  UNION { { [rule |-> Rule(subject, p, "page", acts), excluded |-> {}] : acts \in {{Read}, Edits} }
            \cup { [rule |-> Rule(subject, p, "subtree", acts), excluded |-> x] :
                     acts \in {{Read}, Edits}, x \in SUBSET Below[p] } :
          p \in DOMAIN Below }

AnswerSeeds ==
  { [Wiki(a.rule, a.excluded, b.rule, b.excluded) EXCEPT
       !.parent = (p1 :> Null) @@ (p2 :> p1) @@ (p3 :> p2), !.public = {}] :
      a \in Shared(ann), b \in Shared(g1) }

Creates(actors, subjects, ps, scopes, acts, excluded) ==
  { [ op |-> "create", actor |-> a, at |-> s, subject |-> s, pageId |-> p,
      appliesTo |-> scope, actions |-> act, excluded |-> x ] :
      a \in actors, s \in subjects, p \in ps, scope \in scopes, act \in acts, x \in excluded }
OnPage(cs) == { [c EXCEPT !.at = c.pageId] : c \in cs }
Updates(actors, at, ks, acts, excluded) ==
  { [op |-> "update", actor |-> a, at |-> s, rule |-> k, actions |-> act, excluded |-> x] :
      a \in actors, s \in at, k \in ks, act \in acts, x \in excluded }
Deletes(actors, at, ks) ==
  { [op |-> "delete", actor |-> a, at |-> s, rule |-> k] : a \in actors, s \in at, k \in ks }
Grants(actors, at, gs) ==
  { [op |-> "grants", actor |-> a, at |-> s, grants |-> g] : a \in actors, s \in at, g \in gs }
Members(actors, at, us) ==
  { [op |-> "members", actor |-> a, at |-> g, users |-> u] : a \in actors, g \in at, u \in us }
Memberships(actors, at, gs) ==
  { [op |-> "groups", actor |-> a, at |-> u, groups |-> g] : a \in actors, u \in at, g \in gs }
NewGroups(us) == { [op |-> "createGroup", actor |-> boss, at |-> Null, users |-> u] : u \in us }
OldGroups(gs) == { [op |-> "deleteGroup", actor |-> boss, at |-> g] : g \in gs }

SerialCalls ==
  Creates({boss}, {g1}, {p1, Null}, {"page", "subtree"}, {{"page.edit"}}, {{}, {p2}})
    \cup Creates({boss}, {ann}, {p1, p2}, {"subtree"}, {{Manage}}, {{}})
    \cup OnPage(Creates({boss, ann}, {ann}, {p2}, {"subtree"}, {{"page.edit"}}, {{}}))
    \cup Updates({boss}, {g1}, {k2}, {Null, {Manage}}, {Null, {}, {p2}})
    \cup Updates({boss}, {p1}, {k1, k2}, {{"page.edit"}}, {{p2}})
    \cup Deletes({boss}, {g1, p1}, {k2})
    \cup Grants({boss}, {ann, g1}, {{}, {ManageUsers}, {"tag.create"}})
    \cup Members({boss}, {g1}, {{}, {boss, ann}})
    \cup Memberships({boss, root}, {boss, ann}, {{g1}}) \cup Memberships({root}, {ann}, {{}, {g1, g2}})
    \cup NewGroups({{}, {ann}}) \cup OldGroups({g1})

RacingCalls ==
  Creates({boss}, {g1}, {p1, Null}, {"subtree"}, {{"page.edit"}}, {{p2}})
    \cup OnPage(Creates({boss}, {ann}, {p1}, {"page"}, {{Manage}}, {{}}))
    \cup Updates({boss}, {g1}, {k2}, {Null, {Manage}}, {Null, {}, {p2}})
    \cup Deletes({boss}, {g1}, {k2})
    \cup Grants({boss}, {g1}, {{ManageUsers}})
    \cup Members({boss}, {g1}, {{boss, ann}})
    \cup Memberships({root}, {ann}, {{g1}, {}})
    \cup NewGroups({{ann}}) \cup OldGroups({g1, g2})

AllSeeds == AnswerSeeds \cup MCSeeds \cup RacingSeeds
AllCalls == SerialCalls \cup RacingCalls

Symmetry == Permutations(MCRequests)

-----------------------------------------------------------------------------
(* The answers, of every two rules while the tree is edited; calls one at a     *)
(* time; calls that interleave with each other and with edits of the tree.    *)
VARIABLE part

Answered    == INSTANCE AccessProperties WITH Seeds <- AnswerSeeds, Calls <- {}
InTurn      == INSTANCE AccessProperties WITH Seeds <- MCSeeds, Calls <- SerialCalls
Interleaved == INSTANCE AccessProperties WITH Seeds <- RacingSeeds, Calls <- RacingCalls

Begins ==
  \/ part = "answers" /\ Answered!Init
  \/ part = "inTurn" /\ InTurn!Init
  \/ part = "interleaved" /\ Interleaved!Init

Goes ==
  /\ UNCHANGED part
  /\ \/ part = "answers" /\ Answered!EditTree
     \/ part = "inTurn" /\ InTurn!SerialNext
     \/ part = "interleaved" /\ Interleaved!Next

Behaviour == Begins /\ [][Goes]_<<part, vars>>

(* Of calls served one at a time: nobody hands out more than they hold, at    *)
(* any statement of any handler (assertNoEscalation).                  *)
GrantsWithinReach == [][part = "inTurn" => HandsOutWithinReach]_vars

=============================================================================
