-------------------------- MODULE AccessProperties --------------------------
(***************************************************************************)
(* What must hold of the access tables and of the answers computed from     *)
(* them, whatever handlers and tree edits ran before; and, of handlers that *)
(* are served one at a time, that nobody hands out more than they hold.     *)
(***************************************************************************)
EXTENDS AccessRules

Running(r) == pc[r] \notin {"idle"} \cup Outcomes
Quiet      == \A r \in Requests : ~Running(r)

(* One handler at a time, and the tree at rest while it runs.               *)
SerialNext ==
  \/ Quiet /\ EditTree
  \/ \E r \in Requests :
       /\ \A o \in Requests \ {r} : ~Running(o)
       /\ Begin(r) \/ Step(r)

-----------------------------------------------------------------------------
(* A stored rule lists page.read with any other action, and a rule for one  *)
(* page has no exclusions: the readers rely on both.  normalizeActions and  *)
(* validateExclusions run before the write, on what another handler may     *)
(* change meanwhile.                                                        *)
RulesWellFormed ==
  \A k \in RuleIds : rules[k] # Null =>
    /\ rules[k].actions = Normalized(rules[k].actions) /\ rules[k].actions # {}
    /\ rules[k].appliesTo = "page" => exclusions[k] = {}

(* No row refers to a rule or a group that is gone, although handlers write *)
(* about it long after they looked it up.                                   *)
ReferencesHold ==
  /\ \A k \in RuleIds : exclusions[k] # {} => rules[k] # Null
  /\ \A k \in RuleIds : rules[k] # Null => Exists(rules[k].subject)
  /\ \A g \in Groups : (members[g] # {} \/ grants[g] # {}) => g \in groups

(* A visitor is Null. *)
Visitors == Users \cup {Null}

(* Four ways to ask who may do what give one answer: can(), the effective   *)
(* actions a page is served with, the filter of lists and trees, and the    *)
(* explanation of an access, which names a source exactly when it is held.  *)
AnswersAgree ==
  \A u \in Visitors :
    LET readable == Readable(u, live) IN
    /\ readable \subseteq live
    /\ \A p \in Pages :
         LET can == {a \in Actions : Can(u, a, p)} IN
         /\ EffectiveActions(u, p) = can /\ {a \in Actions : Explained(u, a, p)} = can
         /\ p \in readable <=> Read \in can

(* Whoever passes the test for handing out a subtree without exclusions may *)
(* do the action on every page of it (hasUnrestrictedActionOnSubtree).      *)
SubtreeReachSound ==
  \A u \in Users, p \in Pages :
    LET below == Descendants(p) IN
    \A a \in Actions : UnrestrictedOnSubtree(u, a, p) => \A q \in below : Can(u, a, q)

(* u is shown p by search and the media library, which ask getReadablePageIds: *)
(* a public page, or one of the ids it answered.                             *)
Found(u, p) == p \in public \/ p \in ReadableIds(u) \/ Null \in ReadableIds(u)

(* Of the live pages, the ids getReadablePageIds answers and the public ones *)
(* are together those that can() lets the user read, no more and no less.    *)
SearchFindsReadable ==
  \A u \in Visitors, p \in live : Found(u, p) <=> Can(u, Read, p)

(* No exclusion lies above the page of its rule, where validateExclusions    *)
(* never lets one in; a move may put one there.                             *)
ExclusionsBelow ==
  \A k \in RuleIds : rules[k] # Null =>
    \A x \in exclusions[k] : x \notin Chain(rules[k].pageId)

(* As long as no move puts an excluded page above the page of its rule, the *)
(* two algorithms agree.                                                    *)
SearchFindsReadableBelow == ExclusionsBelow => SearchFindsReadable

(* Nobody ends up holding what neither they nor the caller held when the    *)
(* call was checked: rules, groups and global permissions taken together,   *)
(* at every single statement (assertNoEscalation and its siblings).         *)
HandsOutWithinReach ==
  \A r \in Requests : (pc[r] \in Writes /\ pc'[r] # pc[r]) =>
    \A u \in Users : Holdings(u)' \subseteq before[r][u] \cup before[r][call[r].actor]

=============================================================================
