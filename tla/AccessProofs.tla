---------------------------- MODULE AccessProofs ----------------------------
(***************************************************************************)
(* Theorems about AccessEvaluation and AccessRules, for every set of pages, *)
(* users, groups, rules, handlers, calls and seeds.                         *)
(*                                                                         *)
(* The first part is about the tree: the chain of a page is a line, so of   *)
(* two ancestors one is above the other.  The answers are compared with it. *)
(***************************************************************************)
EXTENDS AccessProperties, TLAPS

(* A page that can be found is on its own chain. *)
LEMMA ChainSelf ==
  ASSUME NEW p \in live
  PROVE  p \in Chain(p)
BY DEF Chain

(* A chain goes on to the live parent of each of its pages. *)
LEMMA ChainClosed ==
  ASSUME NEW p
  PROVE  Closed(Chain(p)) /\ Chain(p) \subseteq live
<1>1. ASSUME NEW q \in Chain(p), parent[q] \in live
      PROVE  parent[q] \in Chain(p)
  <2>1. q \in live /\ p \in live BY <1>1 DEF Chain
  <2>2. ASSUME NEW S \in SUBSET live, p \in S, Closed(S)
        PROVE  parent[q] \in S
    <3>1. q \in S BY <1>1, <2>2 DEF Chain
    <3> QED BY <3>1, <2>2, <1>1 DEF Closed
  <2> QED BY <2>1, <2>2, <1>1 DEF Chain
<1>2. Chain(p) \subseteq live BY DEF Chain
<1> QED BY <1>1, <1>2 DEF Closed

(* It is contained in every closed set with the page. *)
LEMMA ChainLeast ==
  ASSUME NEW p, NEW S \in SUBSET live, p \in S, Closed(S)
  PROVE  Chain(p) \subseteq S
BY DEF Chain

(* An ancestor's chain is part of the chain. *)
LEMMA ChainTransitive ==
  ASSUME NEW p, NEW q \in Chain(p)
  PROVE  Chain(q) \subseteq Chain(p)
BY ChainClosed, ChainLeast

(* A page's chain is the page and the chain of its parent. *)
LEMMA ChainStep ==
  ASSUME NEW p \in live, NEW q \in Chain(p), q # p
  PROVE  parent[p] \in live /\ q \in Chain(parent[p])
<1>1. CASE parent[p] \in live
  <2> DEFINE S == {p} \cup Chain(parent[p])
  <2>1. S \subseteq live /\ Closed(S)
    <3>1. Closed(Chain(parent[p])) /\ Chain(parent[p]) \subseteq live BY ChainClosed
    <3>2. parent[p] \in Chain(parent[p]) BY <1>1, ChainSelf
    <3> QED BY <3>1, <3>2 DEF Closed
  <2>2. Chain(p) \subseteq S
    <3> HIDE DEF S
    <3>1. p \in S BY DEF S
    <3> QED BY <2>1, <3>1, ChainLeast
  <2> QED BY <1>1, <2>2
<1>2. CASE parent[p] \notin live
  <2>1. Closed({p}) BY <1>2 DEF Closed
  <2>2. Chain(p) \subseteq {p} BY <2>1, ChainLeast
  <2> QED BY <2>2
<1> QED BY <1>1, <1>2

(* Of two pages on one chain, one is on the chain of the other. *)
LEMMA ChainLinear ==
  ASSUME NEW p, NEW q \in Chain(p), NEW x \in Chain(p)
  PROVE  x \in Chain(q) \/ q \in Chain(x)
<1> DEFINE S == {y \in Chain(p) : q \in Chain(y) \/ y \in Chain(q)}
<1>1. Chain(p) \subseteq live /\ Closed(Chain(p)) BY ChainClosed
<1>2. p \in live BY DEF Chain
<1>3. p \in S BY <1>2, ChainSelf
<1>4. ASSUME NEW y \in S, parent[y] \in live
      PROVE  parent[y] \in S
  <2>1. parent[y] \in Chain(p) BY <1>4, <1>1 DEF Closed
  <2>2. CASE y \in Chain(q)
    <3>1. parent[y] \in Chain(q) BY <2>2, <1>4, ChainClosed DEF Closed
    <3> QED BY <2>1, <3>1
  <2>3. CASE q \in Chain(y) /\ q # y
    <3>1. y \in live BY <1>1, <1>4
    <3>2. q \in Chain(parent[y]) BY <2>3, <3>1, ChainStep
    <3> QED BY <2>1, <3>2
  <2>4. q \in live /\ (q = y => y \in Chain(q)) BY <1>1, ChainSelf
  <2> QED BY <2>2, <2>3, <2>4, <1>4
<1>5. S \in SUBSET live /\ Closed(S) BY <1>1, <1>4 DEF Closed
<1>6. Chain(p) \subseteq S
  <2> HIDE DEF S
  <2> QED BY <1>3, <1>5, ChainLeast
<1> QED BY <1>6

-----------------------------------------------------------------------------
(* The answers *)

(* A subtree rule that covers p and excludes nothing below it covers every  *)
(* page below p.                                                            *)
LEMMA CoversBelow ==
  ASSUME NEW k \in RuleIds, NEW p, NEW q \in Descendants(p),
         rules[k].appliesTo = "subtree", Covers(k, p),
         \A x \in exclusions[k] : p \notin Chain(x)
  PROVE  Covers(k, q)
<1>1. p \in Chain(q) BY DEF Descendants
<1>2. ASSUME NEW x \in Chain(q), x \in exclusions[k]
      PROVE  x \in Chain(p)
  BY <1>1, <1>2, ChainLinear
<1>3. CASE rules[k].pageId = Null /\ Chain(p) \cap exclusions[k] = {}
  BY <1>2, <1>3 DEF Covers
<1>4. CASE rules[k].pageId \in Chain(p) /\ UpTo(p, rules[k].pageId) \cap exclusions[k] = {}
  <2>1. rules[k].pageId \in Chain(q) BY <1>1, <1>4, ChainTransitive
  <2>2. UpTo(q, rules[k].pageId) \cap exclusions[k] = {} BY <1>2, <1>4 DEF UpTo
  <2> QED BY <2>1, <2>2 DEF Covers
<1> QED BY <1>3, <1>4 DEF Covers

(* Whatever the tables hold, the subtree test is sound. *)
LEMMA SubtreeReach == SubtreeReachSound
<1> SUFFICES ASSUME NEW u \in Users, NEW a \in Actions, NEW p \in Pages,
                    UnrestrictedOnSubtree(u, a, p), NEW q \in Descendants(p)
             PROVE  Can(u, a, q)
  BY DEF SubtreeReachSound
<1>1. q \in live BY DEF Descendants
<1>2. CASE u \in Admins BY <1>1, <1>2 DEF Can
<1>3. CASE Active(u) /\ u \notin Admins
  <2>1. PICK k \in RulesOf(u) :
          /\ rules[k].appliesTo = "subtree" /\ a \in rules[k].actions
          /\ Covers(k, p)
          /\ \A x \in exclusions[k] : p \notin Chain(x)
    BY <1>3 DEF UnrestrictedOnSubtree
  <2>2. k \in RuleIds BY DEF RulesOf
  <2>3. Covers(k, q) BY <2>1, <2>2, CoversBelow
  <2>4. a \in ActionsFromRules(u, q) BY <2>1, <2>2, <2>3 DEF ActionsFromRules
  <2> QED BY <1>1, <1>3, <2>4 DEF Can
<1> QED BY <1>2, <1>3 DEF UnrestrictedOnSubtree

(* Reading is implied by any covering rule that lists an action. *)
LEMMA ReadFromRules ==
  ASSUME NEW u, NEW p
  PROVE  Read \in ActionsFromRules(u, p)
           <=> \E k \in RulesOf(u) : Covers(k, p) /\ rules[k].actions # {}
<1> DEFINE given == UNION {rules[k].actions : k \in {j \in RulesOf(u) : Covers(j, p)}}
<1>1. Read \in ActionsFromRules(u, p) <=> given # {} BY DEF ActionsFromRules
<1>2. given # {} <=> \E k \in RulesOf(u) : Covers(k, p) /\ rules[k].actions # {} OBVIOUS
<1> QED BY <1>1, <1>2

(* Any other action is listed by a covering rule. *)
LEMMA OtherFromRules ==
  ASSUME NEW u, NEW p, NEW a, a # Read
  PROVE  a \in ActionsFromRules(u, p)
           <=> \E k \in RulesOf(u) : Covers(k, p) /\ a \in rules[k].actions
BY DEF ActionsFromRules

(* Whatever the tables hold, the answers agree. *)
LEMMA Answers ==
  ASSUME TablesOK
  PROVE  AnswersAgree
<1>1. ASSUME NEW u \in Visitors, NEW a \in Actions, NEW p \in Pages
      PROVE  Explained(u, a, p) <=> Can(u, a, p)
  <2>1. CASE a = Read BY <2>1, ReadFromRules DEF Explained, Can
  <2>2. CASE a # Read BY <2>2, OtherFromRules DEF Explained, Can
  <2> QED BY <2>1, <2>2
<1>2. ASSUME NEW u \in Visitors, NEW a \in Actions, NEW p \in Pages
      PROVE  a \in EffectiveActions(u, p) <=> Can(u, a, p)
  BY DEF EffectiveActions, Can
<1>3. ASSUME NEW u \in Visitors
      PROVE  Readable(u, live) = {p \in live : Can(u, Read, p)}
  BY DEF Readable, Can
<1>4. ASSUME NEW u \in Visitors, NEW p \in Pages
      PROVE  EffectiveActions(u, p) \subseteq Actions
  <2>1. \A k \in RulesOf(u) : rules[k].actions \subseteq Actions
    BY DEF TablesOK, RuleRow, RulesOf
  <2>2. ActionsFromRules(u, p) \subseteq Actions BY <2>1, AccessAssumption DEF ActionsFromRules
  <2> QED BY <2>2, AccessAssumption DEF EffectiveActions
<1>5. ASSUME NEW u \in Visitors
      PROVE  /\ Readable(u, live) \subseteq live
             /\ \A p \in Pages : p \in Readable(u, live) <=> Can(u, Read, p)
  BY <1>5, <1>3 DEF Can
<1>6. ASSUME NEW u \in Visitors, NEW p \in Pages
      PROVE  /\ EffectiveActions(u, p) = {a \in Actions : Can(u, a, p)}
             /\ {a \in Actions : Explained(u, a, p)} = {a \in Actions : Can(u, a, p)}
             /\ Read \in {a \in Actions : Can(u, a, p)} <=> Can(u, Read, p)
  BY <1>1, <1>2, <1>4, AccessAssumption
<1> QED BY <1>5, <1>6 DEF AnswersAgree

(* A rule covers p exactly when the ids computed for it have p: the pages    *)
(* below an excluded page are those whose chain has the excluded page.      *)
LEMMA CoversAsIds ==
  ASSUME TablesOK, RulesWellFormed, ExclusionsBelow,
         NEW k \in RuleIds, rules[k] # Null, NEW p \in live
  PROVE  Covers(k, p) <=>
           p \in IF rules[k].appliesTo = "page" THEN {rules[k].pageId} \ {Null}
                 ELSE (IF WholeWiki(k) THEN live ELSE Descendants(rules[k].pageId))
                        \ Expanded(exclusions[k])
<1> DEFINE rule == rules[k]
<1>1. /\ rule.appliesTo \in {"page", "subtree"}
      /\ p \in Pages /\ p # Null /\ Null \notin live
  BY AccessAssumption DEF TablesOK, RuleRow
<1>2. p \in Expanded(exclusions[k]) <=> Chain(p) \cap exclusions[k] # {}
  BY DEF Expanded, Descendants
<1>3. CASE rule.appliesTo = "page"
  <2>1. exclusions[k] = {} BY <1>3 DEF RulesWellFormed
  <2> QED BY <1>1, <1>3, <2>1 DEF Covers
<1>4. CASE rule.appliesTo = "subtree" /\ rule.pageId = Null
  <2>1. rule.pageId \notin Chain(p) BY <1>1, <1>4 DEF Chain
  <2>2. Covers(k, p) <=> Chain(p) \cap exclusions[k] = {} BY <1>4, <2>1 DEF Covers
  <2> QED BY <1>2, <1>4, <2>2 DEF WholeWiki
<1>5. CASE rule.appliesTo = "subtree" /\ rule.pageId # Null
  <2>1. p \in Descendants(rule.pageId) <=> rule.pageId \in Chain(p) BY DEF Descendants
  <2>2. ASSUME rule.pageId \in Chain(p), NEW x \in Chain(p) \cap exclusions[k]
        PROVE  x \in UpTo(p, rule.pageId)
    <3>1. x \notin Chain(rule.pageId) BY <2>2 DEF ExclusionsBelow
    <3>2. rule.pageId \in Chain(x) BY <2>2, <3>1, ChainLinear
    <3> QED BY <2>2, <3>2 DEF UpTo
  <2>3. UpTo(p, rule.pageId) \subseteq Chain(p) BY DEF UpTo
  <2>4. Covers(k, p) <=> rule.pageId \in Chain(p) /\ Chain(p) \cap exclusions[k] = {}
    BY <1>5, <2>2, <2>3 DEF Covers
  <2> QED BY <1>2, <1>5, <2>1, <2>4 DEF WholeWiki
<1> QED BY <1>1, <1>3, <1>4, <1>5

(* The ids search filters by are the pages can() lets the user read.        *)
LEMMA SearchFinds ==
  ASSUME TablesOK, RulesWellFormed, ExclusionsBelow
  PROVE  SearchFindsReadable
<1> SUFFICES ASSUME NEW u \in Visitors, NEW p \in live
             PROVE  Found(u, p) <=> Can(u, Read, p)
  BY DEF SearchFindsReadable
<1> DEFINE reading == {k \in RulesOf(u) : Read \in rules[k].actions}
           all == \E k \in reading : WholeWiki(k) /\ exclusions[k] = {}
           ids(k) == IF rules[k].appliesTo = "page" THEN {rules[k].pageId} \ {Null}
                     ELSE (IF WholeWiki(k) THEN live ELSE Descendants(rules[k].pageId))
                            \ Expanded(exclusions[k])
<1>1. p \in Pages /\ p # Null /\ Null \notin live BY AccessAssumption DEF TablesOK
<1>2. \A k \in reading : k \in RuleIds /\ rules[k] # Null BY DEF RulesOf
<1>3. Read \in ActionsFromRules(u, p) <=> \E k \in reading : Covers(k, p)
  <2>1. \A k \in RulesOf(u) : rules[k].actions # {} => Read \in rules[k].actions
    BY DEF RulesWellFormed, Normalized, RulesOf
  <2> QED BY <2>1, ReadFromRules
<1>4. \A k \in reading : Covers(k, p) <=> p \in ids(k) BY <1>2, CoversAsIds
<1>5. \A k \in reading : Null \notin ids(k)
  BY <1>1 DEF Descendants
<1>6. all => \E k \in reading : Covers(k, p) BY DEF Covers, WholeWiki
<1>7. CASE u \in Admins BY <1>7 DEF Found, ReadableIds, Can
<1>8. CASE u \notin Admins /\ ~Active(u)
  <2>1. ReadableIds(u) = {} BY <1>8 DEF ReadableIds
  <2> QED BY <1>8, <2>1 DEF Found, Can
<1>9. CASE u \notin Admins /\ Active(u) /\ all
  <2>1. ReadableIds(u) = {Null} BY <1>9 DEF ReadableIds
  <2> QED BY <1>3, <1>6, <1>9, <2>1 DEF Found, Can
<1>10. CASE u \notin Admins /\ Active(u) /\ ~all
  <2>1. ReadableIds(u) = UNION {ids(k) : k \in reading} BY <1>10 DEF ReadableIds
  <2>2. p \in ReadableIds(u) <=> \E k \in reading : Covers(k, p) BY <2>1, <1>4
  <2>3. Null \notin ReadableIds(u) BY <2>1, <1>5
  <2> QED BY <1>3, <1>10, <2>2, <2>3 DEF Found, Can
<1> QED BY <1>7, <1>8, <1>9, <1>10

-----------------------------------------------------------------------------
(* The handlers *)

(* What a handler's move to the next step leaves well-typed. *)
LEMMA GotoType ==
  ASSUME AccessTypeOK, NEW r \in Requests, NEW step \in Steps,
         NEW k \in RuleIds \cup Groups \cup {Null},
         NEW held \in [Users -> SUBSET Anything],
         GotoAbout(r, step, k, held)
  PROVE  /\ pc' \in [Requests -> Steps]
         /\ call' \in [Requests -> Call \cup {Null}]
         /\ target' \in [Requests -> RuleIds \cup Groups \cup {Null}]
         /\ before' \in [Requests -> [Users -> SUBSET Anything]]
<1>1. Unheld \in [Users -> SUBSET Anything] BY DEF Unheld
<1>2. pc' \in [Requests -> Steps] BY DEF GotoAbout, AccessTypeOK
<1>3. call' \in [Requests -> Call \cup {Null}] BY DEF GotoAbout, AccessTypeOK
<1>4. target' \in [Requests -> RuleIds \cup Groups \cup {Null}] BY DEF GotoAbout, AccessTypeOK
<1>5. before' \in [Requests -> [Users -> SUBSET Anything]] BY <1>1 DEF GotoAbout, AccessTypeOK
<1> QED BY <1>2, <1>3, <1>4, <1>5

(* The same of a step that keeps its target. *)
LEMMA GotoSameType ==
  ASSUME AccessTypeOK, NEW r \in Requests, NEW step \in Steps, Goto(r, step)
  PROVE  /\ pc' \in [Requests -> Steps]
         /\ call' \in [Requests -> Call \cup {Null}]
         /\ target' \in [Requests -> RuleIds \cup Groups \cup {Null}]
         /\ before' \in [Requests -> [Users -> SUBSET Anything]]
<1>1. target[r] \in RuleIds \cup Groups \cup {Null} /\ before[r] \in [Users -> SUBSET Anything]
  BY DEF AccessTypeOK
<1> QED BY <1>1, GotoType DEF Goto

(* How a step moves the handlers: the others stay where they are. *)
LEMMA GotoOthers ==
  ASSUME AccessTypeOK, NEW r \in Requests, NEW step, NEW k, NEW held, GotoAbout(r, step, k, held)
  PROVE  /\ pc'[r] = step
         /\ step \notin Outcomes => call'[r] = call[r] /\ target'[r] = k
         /\ \A o \in Requests \ {r} :
              pc'[o] = pc[o] /\ call'[o] = call[o] /\ target'[o] = target[o]
BY DEF GotoAbout, AccessTypeOK

(* What handler r knows at each of its steps. *)
Control(r) ==
  LET c == call[r]
      k == target[r]
  IN /\ pc[r] \notin {"idle"} \cup Outcomes => c \in Calls
     /\ pc[r] = "insert" => c.op \in {"create", "createGroup"}
     /\ pc[r] = "insert" /\ c.op = "create" =>
          c.actions # {} /\ (c.appliesTo = "page" => c.excluded = {})
     /\ pc[r] = "actions" => c.op = "update" /\ c.actions # Null /\ c.actions # {}
     /\ pc[r] \in {"clear", "add"} =>
          /\ c.op \in {"create", "update", "grants", "members", "createGroup", "groups"}
          /\ c.op \in {"create", "update"} => c.excluded # Null
     /\ pc[r] \in Writes /\ c.op = "update" => k \in RuleIds \cap spent
     /\ pc[r] \in {"clear", "add"} /\ c.op = "create" => k \in RuleIds \cap spent
     /\ pc[r] \in Writes /\ c.op \in {"create", "update"} /\ pc[r] # "insert"
          /\ rules[k] # Null /\ rules[k].appliesTo = "page" => c.excluded \in {Null, {}}
     /\ pc[r] \in {"clear", "add"} /\ c.op \in {"members", "createGroup"} => k \in Groups
     /\ pc[r] = "remove" =>
          /\ c.op \in {"delete", "deleteGroup"}
          /\ c.op = "delete" => k \in RuleIds
          /\ c.op = "deleteGroup" => k \in Groups

(* Ids in use were given out, and stay so: no id is used twice. *)
IdsSpent == groups \subseteq spent /\ \A k \in RuleIds : rules[k] # Null => k \in spent

IInv ==
  /\ AccessTypeOK /\ IdsSpent
  /\ \A r \in Requests : Control(r)
  /\ RulesWellFormed /\ ReferencesHold

(* The invariant holds of every seed. *)
LEMMA InitInv == Init => IInv
<1> SUFFICES ASSUME Init PROVE IInv OBVIOUS
<1>1. PICK s \in Seeds :
       /\ parent = s.parent /\ live = s.live /\ public = s.public
       /\ groups = s.groups /\ members = s.members /\ grants = s.grants
       /\ rules = s.rules /\ exclusions = s.exclusions
       /\ spent = s.groups \cup {k \in RuleIds : s.rules[k] # Null}
  BY DEF Init
<1>2. TablesOK BY <1>1, SeedsAssumption DEF TablesOK
<1>3. spent \subseteq RuleIds \cup Groups BY <1>1, SeedsAssumption
<1>4. Unheld \in [Users -> SUBSET Anything] BY DEF Unheld
<1>5. AccessTypeOK BY <1>2, <1>3, <1>4, BoundAssumption DEF Init, AccessTypeOK, Steps
<1>6. IdsSpent BY <1>1 DEF IdsSpent
<1>7. \A r \in Requests : Control(r) BY DEF Init, Control, Writes
<1>8. RulesWellFormed BY <1>1, SeedsAssumption DEF RulesWellFormed, Normalized
<1>9. ReferencesHold BY <1>1, SeedsAssumption DEF ReferencesHold, Exists
<1> QED BY <1>5, <1>6, <1>7, <1>8, <1>9 DEF IInv

(* No write puts a rule of another scope, or a new one, under a used id. *)
RulesStable ==
  /\ spent \subseteq spent'
  /\ \A k \in RuleIds \cap spent : rules'[k] # Null =>
       rules[k] # Null /\ rules'[k].appliesTo = rules[k].appliesTo

(* What a handler knows survives the steps of others. *)
LEMMA ControlKept ==
  ASSUME NEW o \in Requests, Control(o), RulesStable,
         pc'[o] = pc[o], call'[o] = call[o], target'[o] = target[o]
  PROVE  Control(o)'
<1>1. /\ pc[o] \in Writes /\ call[o].op \in {"create", "update"} /\ pc[o] # "insert"
         /\ rules'[target[o]] # Null /\ rules'[target[o]].appliesTo = "page"
         => call[o].excluded \in {Null, {}}
  <2> SUFFICES ASSUME pc[o] \in Writes, call[o].op \in {"create", "update"}, pc[o] # "insert",
                      rules'[target[o]] # Null, rules'[target[o]].appliesTo = "page"
               PROVE  call[o].excluded \in {Null, {}}
    OBVIOUS
  <2>1. target[o] \in RuleIds \cap spent BY DEF Control, Writes
  <2>2. rules[target[o]] # Null /\ rules[target[o]].appliesTo = "page" BY <2>1 DEF RulesStable
  <2> QED BY <2>2 DEF Control
<1>2. spent \subseteq spent' BY DEF RulesStable
<1> QED BY <1>1, <1>2 DEF Control

(* A step of r leaves the others, and r if it answers, knowing what they must. *)
LEMMA ControlAfter ==
  ASSUME IInv, NEW r \in Requests, NEW step, NEW k, NEW held,
         GotoAbout(r, step, k, held), RulesStable,
         step \notin Outcomes => Control(r)'
  PROVE  \A o \in Requests : Control(o)'
<1>1. ASSUME NEW o \in Requests \ {r}
      PROVE  Control(o)'
  <2>1. pc'[o] = pc[o] /\ call'[o] = call[o] /\ target'[o] = target[o]
    BY GotoOthers DEF IInv
  <2> QED BY <2>1, ControlKept DEF IInv
<1>2. step \in Outcomes => Control(r)'
  <2>1. pc'[r] = step BY GotoOthers DEF IInv
  <2> QED BY <2>1 DEF Control, Outcomes, Writes
<1> QED BY <1>1, <1>2

(* The same of a step that keeps its target. *)
LEMMA ControlAfterSame ==
  ASSUME IInv, NEW r \in Requests, NEW step, Goto(r, step), RulesStable,
         step \notin Outcomes => Control(r)'
  PROVE  \A o \in Requests : Control(o)'
BY ControlAfter DEF Goto

(* A new call is one of the calls. *)
LEMMA BeginInv ==
  ASSUME IInv, NEW r \in Requests, Begin(r)
  PROVE  IInv'
<1>1. PICK c \in Calls : call' = [call EXCEPT ![r] = c] BY DEF Begin
<1>2. AccessTypeOK' BY <1>1, CallsAssumption DEF Begin, IInv, AccessTypeOK, TablesOK, tables, Steps
<1>3. IdsSpent' /\ RulesWellFormed' /\ ReferencesHold'
  BY DEF Begin, IInv, tables, IdsSpent, RulesWellFormed, ReferencesHold, Exists
<1>4. RulesStable BY DEF Begin, tables, RulesStable
<1>5. ASSUME NEW o \in Requests PROVE Control(o)'
  <2>1. CASE o = r
    <3>1. pc'[r] = "admit" /\ call'[r] = c BY <1>1 DEF Begin, IInv, AccessTypeOK
    <3> QED BY <2>1, <3>1 DEF Control, Writes
  <2>2. CASE o # r
    <3>1. pc'[o] = pc[o] /\ call'[o] = call[o] /\ target'[o] = target[o]
      BY <1>1, <2>2 DEF Begin, IInv, AccessTypeOK
    <3> QED BY <1>4, <3>1, ControlKept DEF IInv
  <2> QED BY <2>1, <2>2
<1> QED BY <1>2, <1>3, <1>5 DEF IInv

(* The guards only read. *)
LEMMA AdmitInv ==
  ASSUME IInv, NEW r \in Requests, Admit(r)
  PROVE  IInv'
<1> DEFINE step == IF Admitted(call[r]) THEN "check" ELSE "refused"
<1>1. Goto(r, step) BY DEF Admit
<1>2. AccessTypeOK'
  <2>1. step \in Steps BY DEF Steps, Outcomes
  <2> HIDE DEF step
  <2> QED BY <1>1, <2>1, GotoSameType DEF Admit, IInv, AccessTypeOK, TablesOK, tables
<1>3. IdsSpent' /\ RulesWellFormed' /\ ReferencesHold'
  BY DEF Admit, IInv, tables, IdsSpent, RulesWellFormed, ReferencesHold, Exists
<1>4. RulesStable BY DEF Admit, tables, RulesStable
<1>5. step \notin Outcomes => Control(r)'
  <2> SUFFICES ASSUME step \notin Outcomes PROVE Control(r)' OBVIOUS
  <2>1. step = "check" BY DEF Outcomes
  <2> HIDE DEF step
  <2>2. pc'[r] = "check" /\ call'[r] = call[r] BY <1>1, <2>1, GotoOthers DEF Goto, IInv
  <2>3. call[r] \in Calls BY DEF Admit, IInv, Control, Outcomes
  <2> QED BY <2>2, <2>3 DEF Control, Writes
<1>6. \A o \in Requests : Control(o)'
  <2> HIDE DEF step
  <2> QED BY <1>1, <1>4, <1>5, ControlAfterSame
<1> QED BY <1>2, <1>3, <1>6 DEF IInv

(* What users hold is made of actions on pages and global permissions. *)
LEMMA HoldingsType ==
  [u \in Users |-> Holdings(u)] \in [Users -> SUBSET Anything]
BY DEF Holdings, Anything

(* The check of an update reads the scope its exclusions are written for. *)
LEMMA CheckInv ==
  ASSUME IInv, NEW r \in Requests, Check(r)
  PROVE  IInv'
<1> DEFINE c == call[r]
           step == IF Valid(c) THEN FirstWrite(c) ELSE "refused"
           held == [u \in Users |-> Holdings(u)]
<1>1. GotoAbout(r, step, Addressed(c), held) BY DEF Check
<1>2. c \in Calls /\ c \in Call BY CallsAssumption DEF Check, IInv, Control, Outcomes
<1>3. Addressed(c) \in RuleIds \cup Groups \cup {Null}
  <2>1. c.op \in {"update", "delete"} => c.rule \in RuleIds
    BY <1>2 DEF Call, CreateCall, UpdateCall, DeleteCall, GrantCall, MembersCall, GroupsCall,
                CreateGroupCall, DeleteGroupCall
  <2>2. c.op \in {"members", "deleteGroup"} => c.at \in Groups
    BY <1>2 DEF Call, CreateCall, UpdateCall, DeleteCall, GrantCall, MembersCall, GroupsCall,
                CreateGroupCall, DeleteGroupCall
  <2> QED BY <2>1, <2>2 DEF Addressed
<1>4. FirstWrite(c) \in {"insert", "remove", "clear", "actions", "ok"} BY DEF FirstWrite
<1>5. AccessTypeOK'
  <2>1. step \in Steps BY <1>4 DEF Steps, Outcomes, Writes
  <2> HIDE DEF step, held
  <2>2. held \in [Users -> SUBSET Anything] BY HoldingsType DEF held
  <2> QED BY <1>1, <1>3, <2>1, <2>2, GotoType DEF Check, IInv, AccessTypeOK, TablesOK, tables
<1>6. IdsSpent' /\ RulesWellFormed' /\ ReferencesHold'
  BY DEF Check, IInv, tables, IdsSpent, RulesWellFormed, ReferencesHold, Exists
<1>7. RulesStable BY DEF Check, tables, RulesStable
<1>8. step \notin Outcomes => Control(r)'
  <2> SUFFICES ASSUME step \notin Outcomes PROVE Control(r)' OBVIOUS
  <2>1. Valid(c) /\ step = FirstWrite(c) BY DEF Outcomes
  <2>2. step \in {"insert", "remove", "clear", "actions"} BY <1>4, <2>1 DEF Outcomes
  <2> HIDE DEF step, held
  <2>3. pc'[r] = step /\ call'[r] = c /\ target'[r] = Addressed(c) /\ rules' = rules /\ spent' = spent
    BY <1>1, GotoOthers DEF Check, IInv, tables
  <2>4. CASE c.op = "create"
    <3>1. step = "insert" BY <2>1, <2>4 DEF FirstWrite
    <3>2. c.actions # {} /\ (c.appliesTo = "page" => c.excluded = {})
      BY <2>1, <2>4 DEF Valid, CreateValid, ValidExclusions
    <3> HIDE DEF c
    <3> QED BY <1>2, <2>3, <2>4, <3>1, <3>2 DEF Control, Writes
  <2>5. CASE c.op = "update"
    <3>1. UpdateValid(c) BY <2>1, <2>5 DEF Valid
    <3>2. c.rule \in RuleIds /\ rules[c.rule] # Null /\ c.actions # {}
      BY <1>2, <2>5, <3>1 DEF UpdateValid, Owned, Call, CreateCall, UpdateCall, DeleteCall,
           GrantCall, MembersCall, GroupsCall, CreateGroupCall, DeleteGroupCall
    <3>3. c.rule \in spent BY <3>2 DEF IInv, IdsSpent
    <3>4. rules[c.rule].appliesTo = "page" => c.excluded \in {Null, {}}
      BY <3>1 DEF UpdateValid, ValidExclusions
    <3>5. \/ step = "actions" /\ c.actions # Null
          \/ step = "clear" /\ c.excluded # Null
      BY <2>1, <2>2, <2>5 DEF FirstWrite
    <3>6. Addressed(c) = c.rule BY <2>5 DEF Addressed
    <3> HIDE DEF c
    <3> QED BY <1>2, <2>3, <2>5, <3>2, <3>3, <3>4, <3>5, <3>6 DEF Control, Writes
  <2>6. CASE c.op \in {"delete", "deleteGroup"}
    <3>1. step = "remove" BY <2>1, <2>6 DEF FirstWrite
    <3>2. c.op = "delete" => Addressed(c) \in RuleIds
      BY <1>2 DEF Addressed, Call, CreateCall, UpdateCall, DeleteCall, GrantCall, MembersCall,
                  GroupsCall, CreateGroupCall, DeleteGroupCall
    <3>3. c.op = "deleteGroup" => Addressed(c) \in Groups
      BY <1>2 DEF Addressed, Call, CreateCall, UpdateCall, DeleteCall, GrantCall, MembersCall,
                  GroupsCall, CreateGroupCall, DeleteGroupCall
    <3> HIDE DEF c
    <3> QED BY <1>2, <2>3, <2>6, <3>1, <3>2, <3>3 DEF Control, Writes
  <2>7. CASE c.op \in {"grants", "members", "groups"}
    <3>1. step = "clear" BY <2>1, <2>7 DEF FirstWrite
    <3>2. c.op = "members" => Addressed(c) \in Groups
      BY <1>2 DEF Addressed, Call, CreateCall, UpdateCall, DeleteCall, GrantCall, MembersCall,
                  GroupsCall, CreateGroupCall, DeleteGroupCall
    <3> HIDE DEF c
    <3> QED BY <1>2, <2>3, <2>7, <3>1, <3>2 DEF Control, Writes
  <2>8. CASE c.op = "createGroup"
    <3>1. step = "insert" BY <2>1, <2>8 DEF FirstWrite
    <3> HIDE DEF c
    <3> QED BY <1>2, <2>3, <2>8, <3>1 DEF Control, Writes
  <2> QED BY <2>1, <2>4, <2>5, <2>6, <2>7, <2>8 DEF Valid
<1>9. \A o \in Requests : Control(o)'
  <2> HIDE DEF step, held
  <2> QED BY <1>1, <1>7, <1>8, ControlAfter
<1> QED BY <1>5, <1>6, <1>9 DEF IInv

-----------------------------------------------------------------------------
(* The writes.  A step that answers needs nothing said of its own handler.   *)

(* The fields of a call, by its operation. *)
LEMMA CallFields ==
  ASSUME NEW c \in Call
  PROVE  /\ c.op \in {"create", "update", "delete", "grants", "members", "groups",
                      "createGroup", "deleteGroup"}
         /\ c.op = "create" =>
              /\ c.subject \in Subjects /\ c.pageId \in Pages \cup {Null}
              /\ c.appliesTo \in {"page", "subtree"}
              /\ c.actions \in SUBSET Actions /\ c.excluded \in SUBSET Pages
         /\ c.op = "update" =>
              /\ c.actions \in (SUBSET Actions) \cup {Null}
              /\ c.excluded \in (SUBSET Pages) \cup {Null}
         /\ c.op = "grants" => c.at \in Subjects /\ c.grants \in SUBSET Globals
         /\ c.op \in {"members", "createGroup"} => c.users \in SUBSET Users
         /\ c.op = "groups" => c.at \in Users /\ c.groups \in SUBSET Groups
BY DEF Call, CreateCall, UpdateCall, DeleteCall, GrantCall, MembersCall, GroupsCall,
       CreateGroupCall, DeleteGroupCall

(* At a write the call is one of the calls. *)
LEMMA WriteCall ==
  ASSUME IInv, NEW r \in Requests, pc[r] \in Writes
  PROVE  call[r] \in Call /\ call[r] \in Calls
BY CallsAssumption DEF IInv, Control, Writes, Outcomes

(* Normalizing twice is normalizing once. *)
LEMMA NormalizedType ==
  ASSUME NEW S \in SUBSET Actions, S # {}
  PROVE  /\ Normalized(S) \in SUBSET Actions /\ Normalized(S) # {}
         /\ Normalized(Normalized(S)) = Normalized(S)
BY AccessAssumption DEF Normalized

(* A handler that answers and changes no row. *)
LEMMA AnswerInv ==
  ASSUME IInv, NEW r \in Requests, NEW step \in Outcomes, Goto(r, step),
         UNCHANGED <<tables, spent, treeEdits>>
  PROVE  IInv'
<1>1. AccessTypeOK' BY GotoSameType DEF IInv, AccessTypeOK, TablesOK, tables, Steps
<1>2. IdsSpent' /\ RulesWellFormed' /\ ReferencesHold'
  BY DEF IInv, tables, IdsSpent, RulesWellFormed, ReferencesHold, Exists
<1>3. RulesStable BY DEF tables, RulesStable
<1>4. \A o \in Requests : Control(o)' BY <1>3, ControlAfterSame
<1> QED BY <1>1, <1>2, <1>4 DEF IInv

(* The new row is normalized, under an id nobody else writes about. *)
LEMMA InsertRuleInv ==
  ASSUME IInv, NEW r \in Requests, InsertRule(r)
  PROVE  IInv'
<1> DEFINE c == call[r]
<1>0. pc[r] = "insert" /\ c.op = "create" BY DEF InsertRule
<1>1. c \in Call /\ c \in Calls BY <1>0, WriteCall DEF Writes
<1>2. c.actions # {} /\ (c.appliesTo = "page" => c.excluded = {})
  BY <1>0 DEF IInv, Control
<1>3. CASE Exists(c.subject)
  <2>1. PICK k \in RuleIds \ spent :
          /\ rules' = [rules EXCEPT ![k] =
               [ subject |-> c.subject, pageId |-> c.pageId,
                 appliesTo |-> c.appliesTo, actions |-> Normalized(c.actions) ]]
          /\ spent' = spent \cup {k}
          /\ GotoAbout(r, IF c.excluded = {} THEN "ok" ELSE "clear", k, before[r])
    BY <1>3 DEF InsertRule
  <2> DEFINE row == [ subject |-> c.subject, pageId |-> c.pageId,
                      appliesTo |-> c.appliesTo, actions |-> Normalized(c.actions) ]
             step == IF c.excluded = {} THEN "ok" ELSE "clear"
  <2>2. row \in RuleRow /\ row # Null
    BY <1>0, <1>1, <1>2, CallFields, NormalizedType, AccessAssumption DEF RuleRow, Subjects
  <2>3. step \in Steps BY DEF Steps, Outcomes, Writes
  <2>4. rules[k] = Null /\ exclusions[k] = {} BY DEF IInv, IdsSpent, ReferencesHold
  <2>5. before[r] \in [Users -> SUBSET Anything] BY DEF IInv, AccessTypeOK
  <2>6. UNCHANGED <<parent, live, public, groups, members, grants, exclusions, treeEdits>>
    BY DEF InsertRule
  <2>7. AccessTypeOK'
    <3> HIDE DEF row, step
    <3>1. rules' = [rules EXCEPT ![k] = row] BY <2>1 DEF row
    <3>2. TablesOK' BY <2>2, <2>6, <3>1 DEF IInv, AccessTypeOK, TablesOK
    <3>3. GotoAbout(r, step, k, before[r]) BY <2>1 DEF step
    <3> QED BY <2>1, <2>3, <2>5, <2>6, <3>2, <3>3, GotoType DEF IInv, AccessTypeOK
  <2>8. IdsSpent' BY <2>1, <2>6 DEF IInv, AccessTypeOK, TablesOK, IdsSpent
  <2>9. RulesStable BY <2>1 DEF RulesStable, IInv, AccessTypeOK, TablesOK
  <2>10. RulesWellFormed'
    <3>1. ASSUME NEW j \in RuleIds, rules'[j] # Null
          PROVE  /\ rules'[j].actions = Normalized(rules'[j].actions) /\ rules'[j].actions # {}
                 /\ rules'[j].appliesTo = "page" => exclusions'[j] = {}
      <4>1. CASE j = k
        <5>1. rules'[j].actions = Normalized(c.actions)
          BY <2>1, <4>1 DEF IInv, AccessTypeOK, TablesOK
        <5> QED BY <1>0, <1>1, <1>2, <2>4, <2>6, <4>1, <5>1, CallFields, NormalizedType
      <4>2. CASE j # k
        <5>1. rules'[j] = rules[j] BY <2>1, <4>2 DEF IInv, AccessTypeOK, TablesOK
        <5> QED BY <2>6, <3>1, <5>1 DEF IInv, RulesWellFormed
      <4> QED BY <4>1, <4>2
    <3>2. \A j \in RuleIds : rules'[j] # Null =>
            /\ rules'[j].actions = rules'[j].actions \cup {a \in {Read} : rules'[j].actions \ {Read} # {}}
            /\ rules'[j].actions # {}
            /\ rules'[j].appliesTo = "page" => exclusions'[j] = {}
      BY <3>1 DEF Normalized
    <3> QED BY <3>2 DEF RulesWellFormed, Normalized
  <2>11. ReferencesHold'
    <3> HIDE DEF row
    <3>1. rules' = [rules EXCEPT ![k] = row] BY <2>1 DEF row
    <3>2. row.subject = c.subject BY DEF row
    <3> QED BY <1>3, <2>2, <2>6, <3>1, <3>2 DEF ReferencesHold, Exists, IInv, AccessTypeOK, TablesOK
  <2>12. step \notin Outcomes => Control(r)'
    <3> SUFFICES ASSUME step \notin Outcomes PROVE Control(r)' OBVIOUS
    <3>1. step = "clear" /\ c.excluded # {} BY DEF Outcomes
    <3> HIDE DEF step
    <3>2. GotoAbout(r, step, k, before[r]) BY <2>1 DEF step
    <3>3. pc'[r] = "clear" /\ call'[r] = c /\ target'[r] = k
      BY <3>1, <3>2, GotoOthers DEF IInv, Outcomes
    <3>4. rules'[k].appliesTo = c.appliesTo BY <2>1 DEF IInv, AccessTypeOK, TablesOK
    <3>5. c.excluded # Null BY <1>0, <1>1, CallFields, CallsAssumption
    <3>6. k \in RuleIds \cap spent' BY <2>1
    <3> HIDE DEF c
    <3> QED BY <1>0, <1>1, <1>2, <3>1, <3>3, <3>4, <3>5, <3>6 DEF Control, Writes
  <2>13. \A o \in Requests : Control(o)'
    <3> HIDE DEF step
    <3>1. GotoAbout(r, step, k, before[r]) BY <2>1 DEF step
    <3> QED BY <2>9, <2>12, <3>1, ControlAfter
  <2> QED BY <2>7, <2>8, <2>10, <2>11, <2>13 DEF IInv
<1>4. CASE ~Exists(c.subject)
  BY <1>4, AnswerInv DEF InsertRule, tables, Outcomes
<1> QED BY <1>3, <1>4

(* The row that is updated keeps its subject and its scope. *)
LEMMA SetActionsInv ==
  ASSUME IInv, NEW r \in Requests, SetActions(r)
  PROVE  IInv'
<1> DEFINE c == call[r]
           k == target[r]
           step == IF c.excluded = Null THEN "ok" ELSE "clear"
<1>1. pc[r] = "actions" /\ Goto(r, step) BY DEF SetActions
<1>2. c \in Call /\ c \in Calls BY <1>1, WriteCall DEF Writes
<1>3. /\ c.op = "update" /\ c.actions \in SUBSET Actions /\ c.actions # {}
      /\ k \in RuleIds \cap spent
  BY <1>1, <1>2, CallFields DEF IInv, Control, Writes
<1>4. UNCHANGED <<parent, live, public, groups, members, grants, exclusions, spent, treeEdits>>
  BY DEF SetActions
<1>5. CASE rules[k] = Null
  <2>1. rules' = rules BY <1>5 DEF SetActions
  <2>2. RulesStable BY <1>4, <2>1 DEF RulesStable
  <2>3. step \in Steps BY DEF Steps, Outcomes, Writes
  <2> HIDE DEF step
  <2>4. AccessTypeOK' BY <1>1, <1>4, <2>1, <2>3, GotoSameType DEF IInv, AccessTypeOK, TablesOK
  <2>5. IdsSpent' /\ RulesWellFormed' /\ ReferencesHold'
    BY <1>4, <2>1 DEF IInv, IdsSpent, RulesWellFormed, ReferencesHold, Exists
  <2>6. step \notin Outcomes => Control(r)'
    <3>1. step \notin Outcomes => step = "clear" /\ c.excluded # Null BY DEF step, Outcomes
    <3>2. step \notin Outcomes => pc'[r] = step /\ call'[r] = c /\ target'[r] = k
      BY <1>1, GotoOthers DEF IInv, Goto
    <3> HIDE DEF c, k
    <3> QED BY <1>2, <1>3, <1>4, <1>5, <2>1, <3>1, <3>2 DEF Control, Writes
  <2>7. \A o \in Requests : Control(o)' BY <1>1, <2>2, <2>6, ControlAfterSame
  <2> QED BY <2>4, <2>5, <2>7 DEF IInv
<1>6. CASE rules[k] # Null
  <2>1. rules' = [rules EXCEPT ![k] = [rules[k] EXCEPT !.actions = Normalized(c.actions)]]
    BY <1>6 DEF SetActions
  <2> DEFINE row == [rules[k] EXCEPT !.actions = Normalized(c.actions)]
  <2>2. rules[k] \in RuleRow BY <1>3, <1>6 DEF IInv, AccessTypeOK, TablesOK
  <2>3. row \in RuleRow /\ row # Null
    BY <1>3, <2>2, NormalizedType, AccessAssumption DEF RuleRow
  <2>4. /\ row.subject = rules[k].subject /\ row.appliesTo = rules[k].appliesTo
        /\ row.actions = Normalized(c.actions)
    BY <2>2 DEF RuleRow
  <2> HIDE DEF row
  <2>5. rules' = [rules EXCEPT ![k] = row] BY <2>1 DEF row
  <2>6. RulesStable BY <1>3, <1>4, <1>6, <2>4, <2>5 DEF RulesStable, IInv, AccessTypeOK, TablesOK
  <2>7. step \in Steps BY DEF Steps, Outcomes, Writes
  <2> HIDE DEF step
  <2>8. AccessTypeOK'
    <3>1. TablesOK' BY <1>3, <1>4, <2>3, <2>5 DEF IInv, AccessTypeOK, TablesOK
    <3> QED BY <1>1, <1>4, <2>7, <3>1, GotoSameType DEF IInv, AccessTypeOK
  <2>9. IdsSpent' BY <1>3, <1>4, <2>5 DEF IInv, IdsSpent, AccessTypeOK, TablesOK
  <2>10. ReferencesHold'
    BY <1>3, <1>4, <1>6, <2>3, <2>4, <2>5 DEF IInv, ReferencesHold, Exists, AccessTypeOK, TablesOK
  <2>11. RulesWellFormed'
    <3>1. Normalized(row.actions) = row.actions /\ row.actions # {}
      BY <1>3, <2>4, NormalizedType
    <3>2. \A j \in RuleIds : rules'[j] # Null =>
            /\ rules'[j].actions = Normalized(rules'[j].actions) /\ rules'[j].actions # {}
            /\ rules'[j].appliesTo = "page" => exclusions'[j] = {}
      BY <1>4, <1>6, <2>4, <2>5, <3>1 DEF IInv, RulesWellFormed, AccessTypeOK, TablesOK
    <3> QED BY <3>2 DEF RulesWellFormed, Normalized
  <2>12. step \notin Outcomes => Control(r)'
    <3>1. step \notin Outcomes => step = "clear" /\ c.excluded # Null BY DEF step, Outcomes
    <3>2. step \notin Outcomes => pc'[r] = step /\ call'[r] = c /\ target'[r] = k
      BY <1>1, GotoOthers DEF IInv, Goto
    <3>3. rules[k].appliesTo = "page" => c.excluded \in {Null, {}}
      BY <1>1, <1>3, <1>6 DEF IInv, Control, Writes
    <3>4. rules'[k].appliesTo = rules[k].appliesTo
      BY <1>3, <2>4, <2>5 DEF IInv, AccessTypeOK, TablesOK
    <3> HIDE DEF c, k
    <3> QED BY <1>2, <1>3, <1>4, <3>1, <3>2, <3>3, <3>4 DEF Control, Writes
  <2>13. \A o \in Requests : Control(o)' BY <1>1, <2>6, <2>12, ControlAfterSame
  <2> QED BY <2>8, <2>9, <2>10, <2>11, <2>13 DEF IInv
<1> QED BY <1>5, <1>6

(* Fewer exclusions are never dangling ones. *)
LEMMA ClearExclusionsInv ==
  ASSUME IInv, NEW r \in Requests, ClearExclusions(r)
  PROVE  IInv'
<1> DEFINE c == call[r]
           k == target[r]
           step == IF c.excluded = {} THEN "ok" ELSE "add"
<1>1. pc[r] = "clear" /\ c.op \in {"create", "update"} /\ Goto(r, step)
  BY DEF ClearExclusions
<1>2. c \in Call /\ c \in Calls BY <1>1, WriteCall DEF Writes
<1>3. k \in RuleIds \cap spent /\ c.excluded # Null BY <1>1 DEF IInv, Control, Writes
<1>4. UNCHANGED <<parent, live, public, groups, members, grants, rules, spent, treeEdits>>
  BY DEF ClearExclusions
<1>5. exclusions' = [exclusions EXCEPT ![k] = {}] BY DEF ClearExclusions
<1>6. step \in Steps BY DEF Steps, Outcomes, Writes
<1> HIDE DEF step
<1>7. AccessTypeOK'
  <2>1. TablesOK' BY <1>3, <1>4, <1>5 DEF IInv, AccessTypeOK, TablesOK
  <2> QED BY <1>1, <1>4, <1>6, <2>1, GotoSameType DEF IInv, AccessTypeOK
<1>8. IdsSpent' /\ RulesWellFormed' /\ ReferencesHold'
  BY <1>3, <1>4, <1>5 DEF IInv, IdsSpent, RulesWellFormed, ReferencesHold, Exists, AccessTypeOK, TablesOK
<1>9. RulesStable BY <1>4 DEF RulesStable
<1>10. step \notin Outcomes => Control(r)'
  <2>1. step \notin Outcomes => step = "add" BY DEF step, Outcomes
  <2>2. step \notin Outcomes => pc'[r] = step /\ call'[r] = c /\ target'[r] = k
    BY <1>1, GotoOthers DEF IInv, Goto
  <2>3. rules[k] # Null /\ rules[k].appliesTo = "page" => c.excluded \in {Null, {}}
    BY <1>1 DEF IInv, Control, Writes
  <2> HIDE DEF c, k
  <2> QED BY <1>1, <1>2, <1>3, <1>4, <2>1, <2>2, <2>3 DEF Control, Writes
<1>11. \A o \in Requests : Control(o)' BY <1>1, <1>9, <1>10, ControlAfterSame
<1> QED BY <1>7, <1>8, <1>11 DEF IInv

(* The foreign key refuses exclusions of a rule that is gone. *)
LEMMA AddExclusionsInv ==
  ASSUME IInv, NEW r \in Requests, AddExclusions(r)
  PROVE  IInv'
<1> DEFINE c == call[r]
           k == target[r]
<1>1. pc[r] = "add" /\ c.op \in {"create", "update"} BY DEF AddExclusions
<1>2. c \in Call /\ c \in Calls BY <1>1, WriteCall DEF Writes
<1>3. k \in RuleIds \cap spent /\ c.excluded # Null /\ c.excluded \in SUBSET Pages
  BY <1>1, <1>2, CallFields DEF IInv, Control, Writes
<1>4. CASE rules[k] = Null
  BY <1>4, AnswerInv DEF AddExclusions, tables, Outcomes
<1>5. CASE rules[k] # Null
  <2>1. /\ UNCHANGED <<parent, live, public, groups, members, grants, rules, spent, treeEdits>>
        /\ exclusions' = [exclusions EXCEPT ![k] = @ \cup c.excluded]
        /\ Goto(r, "ok")
    BY <1>5 DEF AddExclusions
  <2>2. rules[k].appliesTo = "page" => c.excluded = {}
    BY <1>1, <1>3, <1>5 DEF IInv, Control, Writes
  <2>3. "ok" \in Steps /\ "ok" \in Outcomes BY DEF Steps, Outcomes
  <2>4. AccessTypeOK'
    <3>1. TablesOK' BY <1>3, <2>1 DEF IInv, AccessTypeOK, TablesOK
    <3> QED BY <2>1, <2>3, <3>1, GotoSameType DEF IInv, AccessTypeOK
  <2>5. IdsSpent' BY <2>1 DEF IInv, IdsSpent
  <2>6. RulesWellFormed'
    BY <1>3, <2>1, <2>2 DEF IInv, RulesWellFormed, Normalized, AccessTypeOK, TablesOK
  <2>7. ReferencesHold'
    BY <1>3, <1>5, <2>1 DEF IInv, ReferencesHold, Exists, AccessTypeOK, TablesOK
  <2>8. RulesStable BY <2>1 DEF RulesStable
  <2>9. \A o \in Requests : Control(o)' BY <2>1, <2>3, <2>8, ControlAfterSame
  <2> QED BY <2>4, <2>5, <2>6, <2>7, <2>9 DEF IInv
<1> QED BY <1>4, <1>5

(* The exclusions of a rule go with it. *)
LEMMA DeleteRuleInv ==
  ASSUME IInv, NEW r \in Requests, DeleteRule(r)
  PROVE  IInv'
<1> DEFINE k == target[r]
<1>1. /\ pc[r] = "remove" /\ call[r].op = "delete" /\ Goto(r, "ok")
      /\ rules' = [rules EXCEPT ![k] = Null] /\ exclusions' = [exclusions EXCEPT ![k] = {}]
      /\ UNCHANGED <<parent, live, public, groups, members, grants, spent, treeEdits>>
  BY DEF DeleteRule
<1>2. k \in RuleIds BY <1>1 DEF IInv, Control
<1>3. "ok" \in Steps /\ "ok" \in Outcomes BY DEF Steps, Outcomes
<1>4. AccessTypeOK'
  <2>1. TablesOK' BY <1>1, <1>2 DEF IInv, AccessTypeOK, TablesOK
  <2> QED BY <1>1, <1>3, <2>1, GotoSameType DEF IInv, AccessTypeOK
<1>5. IdsSpent' /\ RulesWellFormed' /\ ReferencesHold'
  BY <1>1, <1>2 DEF IInv, IdsSpent, RulesWellFormed, Normalized, ReferencesHold, Exists,
                    AccessTypeOK, TablesOK
<1>6. RulesStable BY <1>1, <1>2 DEF RulesStable, IInv, AccessTypeOK, TablesOK
<1>7. \A o \in Requests : Control(o)' BY <1>1, <1>3, <1>6, ControlAfterSame
<1> QED BY <1>4, <1>5, <1>7 DEF IInv

(* A statement on members or permissions of subjects: rules and their        *)
(* exclusions stay, and what the statement leaves belongs to a group.       *)
LEMMA SubjectRowsInv ==
  ASSUME IInv, NEW r \in Requests, NEW step \in Steps, Goto(r, step),
         UNCHANGED <<parent, live, public, groups, rules, exclusions, spent, treeEdits>>,
         members' \in [Groups -> SUBSET Users],
         grants' \in [Users \cup Groups -> SUBSET Globals],
         \A g \in Groups : (members'[g] # {} \/ grants'[g] # {}) => g \in groups,
         step \notin Outcomes => step = "add" /\ pc[r] = "clear"
  PROVE  IInv'
<1>1. AccessTypeOK'
  <2>1. TablesOK' BY DEF IInv, AccessTypeOK, TablesOK
  <2> QED BY <2>1, GotoSameType DEF IInv, AccessTypeOK
<1>2. IdsSpent' /\ RulesWellFormed' BY DEF IInv, IdsSpent, RulesWellFormed
<1>3. ReferencesHold' BY DEF IInv, ReferencesHold, Exists
<1>4. RulesStable BY DEF RulesStable
<1>5. step \notin Outcomes => Control(r)'
  <2> SUFFICES ASSUME step \notin Outcomes PROVE Control(r)' OBVIOUS
  <2>1. pc[r] = "clear" /\ pc'[r] = "add" /\ call'[r] = call[r] /\ target'[r] = target[r]
    BY GotoOthers DEF IInv, Goto
  <2>2. Control(r) BY DEF IInv
  <2> QED BY <2>1, <2>2 DEF Control, Writes, Outcomes
<1>6. \A o \in Requests : Control(o)' BY <1>4, <1>5, ControlAfterSame
<1> QED BY <1>1, <1>2, <1>3, <1>6 DEF IInv

(* Permissions are cleared before they are written anew. *)
LEMMA ClearGrantsInv ==
  ASSUME IInv, NEW r \in Requests, ClearGrants(r)
  PROVE  IInv'
<1> DEFINE s    == call[r].at
           step == IF call[r].grants = {} THEN "ok" ELSE "add"
<1>1. /\ pc[r] = "clear" /\ call[r].op = "grants" /\ Goto(r, step)
      /\ grants' = [grants EXCEPT ![s] = {}]
      /\ UNCHANGED <<parent, live, public, groups, members, rules, exclusions, spent, treeEdits>>
  BY DEF ClearGrants
<1>2. step \in Steps /\ (step \notin Outcomes => step = "add") BY DEF Steps, Outcomes, Writes
<1>3. grants' \in [Users \cup Groups -> SUBSET Globals] BY <1>1 DEF IInv, AccessTypeOK, TablesOK
<1>4. members' \in [Groups -> SUBSET Users] BY <1>1 DEF IInv, AccessTypeOK, TablesOK
<1>5. \A g \in Groups : (members'[g] # {} \/ grants'[g] # {}) => g \in groups
  BY <1>1 DEF IInv, AccessTypeOK, TablesOK, ReferencesHold
<1> HIDE DEF step, s
<1> QED BY <1>1, <1>2, <1>3, <1>4, <1>5, SubjectRowsInv

(* The foreign key refuses permissions of a group that is gone. *)
LEMMA AddGrantsInv ==
  ASSUME IInv, NEW r \in Requests, AddGrants(r)
  PROVE  IInv'
<1> DEFINE s == call[r].at
<1>1. pc[r] = "add" /\ call[r].op = "grants" BY DEF AddGrants
<1>2. s \in Users \cup Groups /\ call[r].grants \in SUBSET Globals
  BY <1>1, WriteCall, CallFields DEF Writes, Subjects
<1>3. CASE Exists(s)
  <2>1. /\ grants' = [grants EXCEPT ![s] = @ \cup call[r].grants] /\ Goto(r, "ok")
        /\ UNCHANGED <<parent, live, public, groups, members, rules, exclusions, spent, treeEdits>>
    BY <1>3 DEF AddGrants
  <2>2. "ok" \in Steps /\ "ok" \in Outcomes BY DEF Steps, Outcomes
  <2>3. grants' \in [Users \cup Groups -> SUBSET Globals]
    BY <1>2, <2>1 DEF IInv, AccessTypeOK, TablesOK
  <2>4. members' \in [Groups -> SUBSET Users] BY <2>1 DEF IInv, AccessTypeOK, TablesOK
  <2>5. \A g \in Groups : (members'[g] # {} \/ grants'[g] # {}) => g \in groups
    BY <1>2, <1>3, <2>1, AccessAssumption DEF IInv, AccessTypeOK, TablesOK, ReferencesHold, Exists
  <2> HIDE DEF s
  <2> QED BY <2>1, <2>2, <2>3, <2>4, <2>5, SubjectRowsInv
<1>4. CASE ~Exists(s) BY <1>4, AnswerInv DEF AddGrants, tables, Outcomes
<1> QED BY <1>3, <1>4

(* A new group has an id no rule names. *)
LEMMA InsertGroupInv ==
  ASSUME IInv, NEW r \in Requests, InsertGroup(r)
  PROVE  IInv'
<1> DEFINE step == IF call[r].users = {} THEN "ok" ELSE "clear"
<1>1. PICK g \in Groups \ spent :
        /\ groups' = groups \cup {g} /\ spent' = spent \cup {g}
        /\ GotoAbout(r, step, g, before[r])
  BY DEF InsertGroup
<1>2. /\ pc[r] = "insert" /\ call[r].op = "createGroup"
      /\ UNCHANGED <<parent, live, public, members, grants, rules, exclusions, treeEdits>>
  BY DEF InsertGroup
<1>3. step \in Steps /\ (step \notin Outcomes => step = "clear") BY DEF Steps, Outcomes, Writes
<1> HIDE DEF step
<1>4. AccessTypeOK'
  <2>1. TablesOK' BY <1>1, <1>2 DEF IInv, AccessTypeOK, TablesOK
  <2>2. before[r] \in [Users -> SUBSET Anything] BY DEF IInv, AccessTypeOK
  <2> QED BY <1>1, <1>2, <1>3, <2>1, <2>2, GotoType DEF IInv, AccessTypeOK
<1>5. IdsSpent' /\ RulesWellFormed' BY <1>1, <1>2 DEF IInv, IdsSpent, RulesWellFormed
<1>6. ReferencesHold' BY <1>1, <1>2 DEF IInv, ReferencesHold, Exists
<1>7. RulesStable BY <1>1, <1>2 DEF RulesStable
<1>8. step \notin Outcomes => Control(r)'
  <2> SUFFICES ASSUME step \notin Outcomes PROVE Control(r)' OBVIOUS
  <2>1. pc'[r] = "clear" /\ call'[r] = call[r] /\ target'[r] = g
    BY <1>1, <1>3, GotoOthers DEF IInv
  <2>2. call[r] \in Calls BY <1>2, WriteCall DEF Writes
  <2> QED BY <1>1, <1>2, <2>1, <2>2 DEF Control, Writes
<1>9. \A o \in Requests : Control(o)' BY <1>1, <1>7, <1>8, ControlAfter
<1> QED BY <1>4, <1>5, <1>6, <1>9 DEF IInv

(* Members are cleared before they are written anew. *)
LEMMA ClearMembersInv ==
  ASSUME IInv, NEW r \in Requests, ClearMembers(r)
  PROVE  IInv'
<1> DEFINE g    == target[r]
           step == IF call[r].users = {} THEN "ok" ELSE "add"
<1>1. /\ pc[r] = "clear" /\ call[r].op \in {"members", "createGroup"} /\ Goto(r, step)
      /\ members' = [members EXCEPT ![g] = {}]
      /\ UNCHANGED <<parent, live, public, groups, grants, rules, exclusions, spent, treeEdits>>
  BY DEF ClearMembers
<1>2. step \in Steps /\ (step \notin Outcomes => step = "add") BY DEF Steps, Outcomes, Writes
<1>3. members' \in [Groups -> SUBSET Users] BY <1>1 DEF IInv, AccessTypeOK, TablesOK
<1>4. grants' \in [Users \cup Groups -> SUBSET Globals] BY <1>1 DEF IInv, AccessTypeOK, TablesOK
<1>5. \A x \in Groups : (members'[x] # {} \/ grants'[x] # {}) => x \in groups
  BY <1>1 DEF IInv, AccessTypeOK, TablesOK, ReferencesHold
<1> HIDE DEF step, g
<1> QED BY <1>1, <1>2, <1>3, <1>4, <1>5, SubjectRowsInv

(* The foreign key refuses members of a group that is gone. *)
LEMMA AddMembersInv ==
  ASSUME IInv, NEW r \in Requests, AddMembers(r)
  PROVE  IInv'
<1> DEFINE g == target[r]
<1>1. pc[r] = "add" /\ call[r].op \in {"members", "createGroup"} BY DEF AddMembers
<1>2. call[r].users \in SUBSET Users BY <1>1, WriteCall, CallFields DEF Writes
<1>3. CASE g \in groups
  <2>1. /\ members' = [members EXCEPT ![g] = @ \cup call[r].users] /\ Goto(r, "ok")
        /\ UNCHANGED <<parent, live, public, groups, grants, rules, exclusions, spent, treeEdits>>
    BY <1>3 DEF AddMembers
  <2>2. "ok" \in Steps /\ "ok" \in Outcomes BY DEF Steps, Outcomes
  <2>3. members' \in [Groups -> SUBSET Users] BY <1>2, <2>1 DEF IInv, AccessTypeOK, TablesOK
  <2>4. grants' \in [Users \cup Groups -> SUBSET Globals] BY <2>1 DEF IInv, AccessTypeOK, TablesOK
  <2>5. \A x \in Groups : (members'[x] # {} \/ grants'[x] # {}) => x \in groups
    BY <1>3, <2>1 DEF IInv, AccessTypeOK, TablesOK, ReferencesHold
  <2> HIDE DEF g
  <2> QED BY <2>1, <2>2, <2>3, <2>4, <2>5, SubjectRowsInv
<1>4. CASE g \notin groups BY <1>4, AnswerInv DEF AddMembers, tables, Outcomes
<1> QED BY <1>3, <1>4

(* A user leaves every group before joining the new ones. *)
LEMMA ClearGroupsInv ==
  ASSUME IInv, NEW r \in Requests, ClearGroups(r)
  PROVE  IInv'
<1> DEFINE step == IF call[r].groups = {} THEN "ok" ELSE "add"
<1>1. /\ pc[r] = "clear" /\ Goto(r, step)
      /\ members' = [g \in Groups |-> members[g] \ {call[r].at}]
      /\ UNCHANGED <<parent, live, public, groups, grants, rules, exclusions, spent, treeEdits>>
  BY DEF ClearGroups
<1>2. step \in Steps /\ (step \notin Outcomes => step = "add") BY DEF Steps, Outcomes, Writes
<1>3. members' \in [Groups -> SUBSET Users] BY <1>1 DEF IInv, AccessTypeOK, TablesOK
<1>4. grants' \in [Users \cup Groups -> SUBSET Globals] BY <1>1 DEF IInv, AccessTypeOK, TablesOK
<1>5. \A x \in Groups : (members'[x] # {} \/ grants'[x] # {}) => x \in groups
  BY <1>1 DEF IInv, AccessTypeOK, TablesOK, ReferencesHold
<1> HIDE DEF step
<1> QED BY <1>1, <1>2, <1>3, <1>4, <1>5, SubjectRowsInv

(* The user joins all the groups, or none if one of them is gone. *)
LEMMA AddGroupsInv ==
  ASSUME IInv, NEW r \in Requests, AddGroups(r)
  PROVE  IInv'
<1> DEFINE c == call[r]
<1>1. pc[r] = "add" /\ c.op = "groups" BY DEF AddGroups
<1>2. c.at \in Users BY <1>1, WriteCall, CallFields DEF Writes
<1>3. CASE c.groups \subseteq groups
  <2>1. /\ members' = [g \in Groups |-> members[g] \cup {u \in {c.at} : g \in c.groups}]
        /\ Goto(r, "ok")
        /\ UNCHANGED <<parent, live, public, groups, grants, rules, exclusions, spent, treeEdits>>
    BY <1>3 DEF AddGroups
  <2>2. "ok" \in Steps /\ "ok" \in Outcomes BY DEF Steps, Outcomes
  <2>3. members' \in [Groups -> SUBSET Users] BY <1>2, <2>1 DEF IInv, AccessTypeOK, TablesOK
  <2>4. grants' \in [Users \cup Groups -> SUBSET Globals] BY <2>1 DEF IInv, AccessTypeOK, TablesOK
  <2>5. \A x \in Groups : (members'[x] # {} \/ grants'[x] # {}) => x \in groups
    BY <1>3, <2>1 DEF IInv, AccessTypeOK, TablesOK, ReferencesHold
  <2> HIDE DEF c
  <2> QED BY <2>1, <2>2, <2>3, <2>4, <2>5, SubjectRowsInv
<1>4. CASE ~(c.groups \subseteq groups) BY <1>4, AnswerInv DEF AddGroups, tables, Outcomes
<1> QED BY <1>3, <1>4

(* Whatever names a group goes with it, so nothing refers to it afterwards. *)
LEMMA DeleteGroupInv ==
  ASSUME IInv, NEW r \in Requests, DeleteGroup(r)
  PROVE  IInv'
<1> DEFINE g   == target[r]
           its == {k \in RuleIds : rules[k] # Null /\ rules[k].subject = g}
<1>1. /\ pc[r] = "remove" /\ call[r].op = "deleteGroup" /\ Goto(r, "ok")
      /\ groups' = groups \ {g}
      /\ members' = [members EXCEPT ![g] = {}] /\ grants' = [grants EXCEPT ![g] = {}]
      /\ rules' = [k \in RuleIds |-> IF k \in its THEN Null ELSE rules[k]]
      /\ exclusions' = [k \in RuleIds |-> IF k \in its THEN {} ELSE exclusions[k]]
      /\ UNCHANGED <<parent, live, public, spent, treeEdits>>
  BY DEF DeleteGroup
<1>2. g \in Groups BY <1>1 DEF IInv, Control
<1>3. "ok" \in Steps /\ "ok" \in Outcomes BY DEF Steps, Outcomes
<1>4. AccessTypeOK'
  <2> HIDE DEF its
  <2>1. rules' \in [RuleIds -> RuleRow \cup {Null}] BY <1>1 DEF IInv, AccessTypeOK, TablesOK
  <2>2. exclusions' \in [RuleIds -> SUBSET Pages] BY <1>1 DEF IInv, AccessTypeOK, TablesOK
  <2>3. TablesOK' BY <1>1, <1>2, <2>1, <2>2 DEF IInv, AccessTypeOK, TablesOK
  <2> QED BY <1>1, <1>3, <2>3, GotoSameType DEF IInv, AccessTypeOK
<1>5. \A k \in RuleIds : rules'[k] # Null =>
        rules'[k] = rules[k] /\ exclusions'[k] = exclusions[k] /\ rules[k].subject # g
  BY <1>1
<1>6. IdsSpent' BY <1>1, <1>5 DEF IInv, IdsSpent
<1>7. RulesWellFormed' BY <1>5 DEF IInv, RulesWellFormed, Normalized
<1>8. ReferencesHold'
  <2>1. \A k \in RuleIds : exclusions'[k] # {} => rules'[k] # Null
    BY <1>1 DEF IInv, ReferencesHold
  <2>2. \A k \in RuleIds : rules'[k] # Null => rules'[k].subject \in Users \cup groups'
    BY <1>1, <1>5 DEF IInv, ReferencesHold, Exists
  <2>3. \A x \in Groups : (members'[x] # {} \/ grants'[x] # {}) => x \in groups'
    BY <1>1, <1>2 DEF IInv, ReferencesHold, AccessTypeOK, TablesOK
  <2> QED BY <2>1, <2>2, <2>3 DEF ReferencesHold, Exists
<1>9. RulesStable BY <1>1, <1>5 DEF RulesStable
<1>10. \A o \in Requests : Control(o)' BY <1>1, <1>3, <1>9, ControlAfterSame
<1> QED BY <1>4, <1>6, <1>7, <1>8, <1>10 DEF IInv

(* The tree moves under the handlers; no row of theirs changes. *)
LEMMA EditTreeInv ==
  ASSUME IInv, EditTree
  PROVE  IInv'
<1>1. UNCHANGED <<groups, members, grants, rules, exclusions, spent, pc, call, target, before>>
  BY DEF EditTree
<1>2. parent' \in [Pages -> Pages \cup {Null}] /\ live' \subseteq Pages /\ public' \subseteq Pages
  BY DEF EditTree, Move, Remove, Publish, IInv, AccessTypeOK, TablesOK
<1>3. treeEdits' \in 0..MaxTreeEdits BY BoundAssumption DEF EditTree, IInv, AccessTypeOK
<1>4. AccessTypeOK' BY <1>1, <1>2, <1>3 DEF IInv, AccessTypeOK, TablesOK
<1>5. IdsSpent' /\ RulesWellFormed' /\ ReferencesHold'
  BY <1>1 DEF IInv, IdsSpent, RulesWellFormed, ReferencesHold, Exists
<1>6. \A r \in Requests : Control(r)' BY <1>1 DEF IInv, Control
<1> QED BY <1>4, <1>5, <1>6 DEF IInv

-----------------------------------------------------------------------------
(* Every step keeps the invariant. *)
LEMMA NextInv == IInv /\ [Next]_vars => IInv'
<1> SUFFICES ASSUME IInv, [Next]_vars PROVE IInv' OBVIOUS
<1>1. CASE EditTree BY <1>1, EditTreeInv
<1>2. ASSUME NEW r \in Requests, Begin(r) \/ Admit(r) \/ Check(r)
      PROVE  IInv'
  BY <1>2, BeginInv, AdmitInv, CheckInv
<1>3. ASSUME NEW r \in Requests, Write(r)
      PROVE  IInv'
  <2>1. CASE InsertRule(r) BY <2>1, InsertRuleInv
  <2>2. CASE SetActions(r) BY <2>2, SetActionsInv
  <2>3. CASE ClearExclusions(r) BY <2>3, ClearExclusionsInv
  <2>4. CASE AddExclusions(r) BY <2>4, AddExclusionsInv
  <2>5. CASE DeleteRule(r) BY <2>5, DeleteRuleInv
  <2>6. CASE ClearGrants(r) BY <2>6, ClearGrantsInv
  <2>7. CASE AddGrants(r) BY <2>7, AddGrantsInv
  <2>8. CASE InsertGroup(r) BY <2>8, InsertGroupInv
  <2>9. CASE ClearMembers(r) BY <2>9, ClearMembersInv
  <2>10. CASE AddMembers(r) BY <2>10, AddMembersInv
  <2>11. CASE ClearGroups(r) BY <2>11, ClearGroupsInv
  <2>12. CASE AddGroups(r) BY <2>12, AddGroupsInv
  <2>13. CASE DeleteGroup(r) BY <2>13, DeleteGroupInv
  <2> QED BY <1>3, <2>1, <2>2, <2>3, <2>4, <2>5, <2>6, <2>7, <2>8, <2>9, <2>10, <2>11,
             <2>12, <2>13 DEF Write
<1>4. CASE UNCHANGED vars
  <2>1. UNCHANGED <<tables, spent, pc, call, target, before, treeEdits>>
    BY <1>4 DEF vars, tables
  <2>2. AccessTypeOK' BY <2>1 DEF tables, IInv, AccessTypeOK, TablesOK
  <2>3. IdsSpent' /\ RulesWellFormed' /\ ReferencesHold'
    BY <2>1 DEF tables, IInv, IdsSpent, RulesWellFormed, ReferencesHold, Exists
  <2>4. \A r \in Requests : Control(r)' BY <2>1 DEF tables, IInv, Control
  <2> QED BY <2>2, <2>3, <2>4 DEF IInv
<1> QED BY <1>1, <1>2, <1>3, <1>4 DEF Next, Step

(* The inductive invariant holds in every reachable state. *)
THEOREM AccessInvariant == Spec => []IInv
BY InitInv, NextInv, PTL DEF Spec

(* Tables and handlers keep their types. *)
THEOREM AccessTypeCorrect == Spec => []AccessTypeOK
<1>1. IInv => AccessTypeOK BY DEF IInv
<1> QED BY <1>1, AccessInvariant, PTL

(* Stored rules list page.read with any other action, and a rule for one    *)
(* page never has exclusions, however handlers interleave.                  *)
THEOREM RulesAreWellFormed == Spec => []RulesWellFormed
<1>1. IInv => RulesWellFormed BY DEF IInv
<1> QED BY <1>1, AccessInvariant, PTL

(* No exclusion outlives its rule, no rule, membership or permission its     *)
(* group, although handlers check and write in separate steps.              *)
THEOREM ReferencesAlwaysHold == Spec => []ReferencesHold
<1>1. IInv => ReferencesHold BY DEF IInv
<1> QED BY <1>1, AccessInvariant, PTL

(* can(), the effective actions, the filter and the explanation agree in     *)
(* every state, for every tree, set of rules and user.                      *)
THEOREM AnswersAlwaysAgree == Spec => []AnswersAgree
<1>1. IInv => AnswersAgree BY Answers DEF IInv, AccessTypeOK
<1> QED BY <1>1, AccessInvariant, PTL

(* Who passes hasUnrestrictedActionOnSubtree may do the action on every page *)
(* of the subtree, in every state.                                          *)
THEOREM SubtreeReachIsSound == Spec => []SubtreeReachSound
<1>1. IInv => SubtreeReachSound BY SubtreeReach
<1> QED BY <1>1, AccessInvariant, PTL

(* As long as no exclusion lies above its rule, search and media find        *)
(* exactly what can() lets a user read.                                     *)
THEOREM SearchFindsWhatCanReads == Spec => []SearchFindsReadableBelow
<1>1. IInv => SearchFindsReadableBelow
  BY SearchFinds DEF IInv, AccessTypeOK, SearchFindsReadableBelow
<1> QED BY <1>1, AccessInvariant, PTL

=============================================================================
