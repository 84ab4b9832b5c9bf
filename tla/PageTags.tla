------------------------------ MODULE PageTags ------------------------------
(***************************************************************************)
(* Tags: TagsService over its two tables, one query a step, and the panels  *)
(* of the page editor (PageTagsPanel) that keep lists of their own.  A call *)
(* looks and then writes; between the two, other calls do.                  *)
(***************************************************************************)
EXTENDS Naturals, FiniteSets

CONSTANTS
  Pages, Names, Panels,
  PageOf,      \* the page each panel is open on
  None,        \* no call, no name
  MaxTags,     \* tags ever made
  AtOnce,      \* calls of one panel under way at a time
  MaxFaults,   \* queries that fail, and rights withdrawn, while a call is served
  MaxLoads     \* times a panel is opened

Tags == 1..MaxTags
NoTag == 0
Slots == Panels \X (1..AtOnce)

Steps == {"find name", "insert", "find tag", "find link", "link", "unlink", "remove", "done"}
Answers == {"none", "ok", "taken", "tagged", "not found", "denied", "error"}

Call ==
  [ op : {"create", "attach", "detach", "delete"}, tag : Tags \cup {NoTag}, name : Names \cup {None},
    load : 0..MaxLoads, at : Steps, answer : Answers ]

PageTagsAssumption ==
  /\ PageOf \in [Panels -> Pages] /\ None \notin Names /\ None \notin Call
  /\ {MaxTags, AtOnce, MaxFaults, MaxLoads} \subseteq Nat

VARIABLES
  tags,     \* rows of tags: the name of each id, None when there is no row
  made,     \* ids given so far
  links,    \* rows of page_tags
  panel,    \* state of each panel
  calls,    \* calls under way
  faults,
  halved,   \* tags made by a call that could not put them on the page
  stray     \* tags a panel may be wrong about: others changed them, or two of its own
            \* calls about the same tag were under way at once

vars == <<tags, made, links, panel, calls, faults, halved, stray>>

PanelState ==
  [ status  : {"loading", "ready", "error"},
    all     : SUBSET Tags,            \* allTags
    page    : SUBSET Tags,            \* pageTags
    read    : SUBSET {"all", "page"}, \* lists read by the effect so far
    pending : Tags \cup {NoTag},      \* pendingTagId
    creating : BOOLEAN,
    load    : 0..MaxLoads ]

TypeOK ==
  /\ tags \in [Tags -> Names \cup {None}] /\ made \in 0..MaxTags
  /\ \A s, t \in Tags : tags[s] = tags[t] /\ tags[s] # None => s = t
  /\ links \subseteq Pages \X Tags /\ \A l \in links : tags[l[2]] # None
  /\ panel \in [Panels -> PanelState]
  /\ calls \in [Slots -> Call \cup {None}]
  /\ faults \in 0..MaxFaults
  /\ halved \subseteq Tags /\ stray \subseteq Panels \X Tags

Existing == {t \in Tags : tags[t] # None}
Linked(p) == {t \in Tags : <<p, t>> \in links}
Used(name) == \E t \in Tags : tags[t] = name

(* The panels that have read a list and that no answer will tell what a call does. *)
Deaf(s) == {q \in Panels : (q # s[1] \/ calls[s].load # panel[q].load) /\ panel[q].read # {}}

-----------------------------------------------------------------------------
(* The service.  A call in slot s goes on to step `at`, or ends.            *)

On(s, step) == calls' = [calls EXCEPT ![s].at = step]
End(s, answer) == calls' = [calls EXCEPT ![s].at = "done", ![s].answer = answer]

(* createTag: the name is looked for; a row with the same name then refuses  *)
(* the insert, and nothing tells that from another failure.                 *)
FindName(s) ==
  /\ calls[s].at = "find name"
  /\ IF Used(calls[s].name) THEN End(s, "taken") ELSE On(s, "insert")
  /\ UNCHANGED <<tags, made, links, halved, stray>>

(* A mutated form of InsertTag: the column has no unique index.               *)
InsertAnyway(s) ==
  /\ calls[s].at = "insert"
  /\ made' = made + 1 /\ tags' = [tags EXCEPT ![made + 1] = calls[s].name]
  /\ calls' = [calls EXCEPT ![s].tag = made + 1, ![s].at = "find tag"]
  /\ stray' = stray \cup (Deaf(s) \X {made + 1})
  /\ UNCHANGED <<links, halved>>

(* The row is there: the panel then asks for the tag to be put on the page.   *)
InsertTag(s) ==
  /\ calls[s].at = "insert"
  /\ IF Used(calls[s].name)
     THEN End(s, "error") /\ UNCHANGED <<tags, made, stray>>
     ELSE /\ made' = made + 1 /\ tags' = [tags EXCEPT ![made + 1] = calls[s].name]
          /\ calls' = [calls EXCEPT ![s].tag = made + 1, ![s].at = "find tag"]
          /\ stray' = stray \cup (Deaf(s) \X {made + 1})
  /\ UNCHANGED <<links, halved>>

Half(s) == halved' = halved \cup (IF calls[s].op = "create" THEN {calls[s].tag} ELSE {})

(* tagPage and deleteTag: the tag must be there. *)
FindTag(s) ==
  /\ calls[s].at = "find tag"
  /\ IF calls[s].tag \in Existing
     THEN On(s, IF calls[s].op = "delete" THEN "remove" ELSE "find link") /\ UNCHANGED halved
     ELSE End(s, "not found") /\ Half(s)
  /\ UNCHANGED <<tags, made, links, stray>>

(* tagPage and untagPage: the page must not, or must, have it. *)
FindLink(s) ==
  /\ calls[s].at = "find link"
  /\ LET has == <<PageOf[s[1]], calls[s].tag>> \in links
     IN CASE calls[s].op = "detach" /\ has -> On(s, "unlink") /\ UNCHANGED halved
          [] calls[s].op = "detach" /\ ~ has -> End(s, "not found") /\ UNCHANGED halved
          [] calls[s].op # "detach" /\ has -> End(s, "tagged") /\ Half(s)
          [] calls[s].op # "detach" /\ ~ has -> On(s, "link") /\ UNCHANGED halved
  /\ UNCHANGED <<tags, made, links, stray>>

(* createPageTag: save looks for the row again, and updates it if it is there; *)
(* the foreign key refuses a tag that is gone.                                 *)
Link(s) ==
  /\ calls[s].at = "link"
  /\ IF calls[s].tag \in Existing
     THEN /\ links' = links \cup {<<PageOf[s[1]], calls[s].tag>>}
          /\ stray' = stray \cup ({q \in Deaf(s) : PageOf[q] = PageOf[s[1]]} \X {calls[s].tag})
          /\ End(s, "ok") /\ UNCHANGED halved
     ELSE End(s, "error") /\ Half(s) /\ UNCHANGED <<links, stray>>
  /\ UNCHANGED <<tags, made>>

Unlink(s) ==
  /\ calls[s].at = "unlink"
  /\ links' = links \ {<<PageOf[s[1]], calls[s].tag>>}
  /\ stray' = stray \cup ({q \in Deaf(s) : PageOf[q] = PageOf[s[1]]} \X {calls[s].tag})
  /\ End(s, "ok")
  /\ UNCHANGED <<tags, made, halved>>

(* A mutated form of Remove: without ON DELETE CASCADE.                      *)
RemoveRow(s) ==
  /\ calls[s].at = "remove"
  /\ tags' = [tags EXCEPT ![calls[s].tag] = None]
  /\ stray' = stray \cup (Deaf(s) \X {calls[s].tag})
  /\ End(s, "ok")
  /\ UNCHANGED <<made, links, halved>>

(* deleteTag: the tag, and by the foreign key its place on every page. *)
Remove(s) ==
  /\ calls[s].at = "remove"
  /\ tags' = [tags EXCEPT ![calls[s].tag] = None]
  /\ links' = {l \in links : l[2] # calls[s].tag}
  /\ stray' = stray \cup (Deaf(s) \X {calls[s].tag})
  /\ End(s, "ok")
  /\ UNCHANGED <<made, halved>>

(* A query fails, or the right to manage the tags of the page is gone.        *)
Fault(s) ==
  /\ calls[s].at # "done" /\ faults < MaxFaults /\ faults' = faults + 1
  /\ \/ End(s, "error")
     \/ calls[s].op # "delete" /\ calls[s].at \in {"find name", "find tag", "find link"} /\ End(s, "denied")
  /\ IF calls[s].at \in {"find tag", "find link", "link"} THEN Half(s) ELSE UNCHANGED halved
  /\ UNCHANGED <<tags, made, links, stray, panel>>

-----------------------------------------------------------------------------
(* The panel.                                                                *)

Sent(p, op, tag, name, first) ==
  \E i \in 1..AtOnce :
    /\ calls[<<p, i>>] = None /\ \A j \in 1..(i - 1) : calls[<<p, j>>] # None
    /\ calls' = [calls EXCEPT ![<<p, i>>] =
         [op |-> op, tag |-> tag, name |-> name, load |-> panel[p].load, at |-> first, answer |-> "none"]]
  /\ stray' = stray \cup {l \in {<<p, tag>>} : tag # NoTag /\ \E j \in 1..AtOnce :
                                  calls[<<p, j>>] # None /\ calls[<<p, j>>].tag = tag}

Quiet == UNCHANGED <<tags, made, links, faults, halved>>

(* The effect of the panel: both lists, each read at a moment of its own.     *)
ReadList(p, list) ==
  /\ panel[p].status = "loading" /\ list \notin panel[p].read
  /\ LET read == panel[p].read \cup {list}
     IN panel' = [panel EXCEPT
          ![p].read = read, ![p].status = IF read = {"all", "page"} THEN "ready" ELSE "loading",
          ![p].all = IF list = "all" THEN Existing ELSE @,
          ![p].page = IF list = "page" THEN Linked(PageOf[p]) ELSE @]
  /\ UNCHANGED <<calls, stray>> /\ Quiet

LoadFails(p) ==
  /\ panel[p].status = "loading" /\ faults < MaxFaults
  /\ faults' = faults + 1
  /\ panel' = [panel EXCEPT ![p].status = "error", ![p].all = {}, ![p].page = {}, ![p].read = {}]
  /\ UNCHANGED <<tags, made, links, calls, halved, stray>>

(* The editor of the page is opened again: what the panel showed is gone, and *)
(* so is who would read the answers it still waits for.                       *)
Open(p) ==
  /\ panel[p].load < MaxLoads
  /\ panel' = [panel EXCEPT ![p] =
       [status |-> "loading", all |-> {}, page |-> {}, read |-> {}, pending |-> NoTag,
        creating |-> FALSE, load |-> panel[p].load + 1]]
  /\ stray' = {l \in stray : l[1] # p}
  /\ UNCHANGED <<tags, made, links, calls, faults, halved>>

Attach(p) ==
  /\ panel[p].status = "ready"
  /\ \E t \in panel[p].all \ panel[p].page :
       /\ Sent(p, "attach", t, None, "find tag")
       /\ panel' = [panel EXCEPT ![p].pending = t]
  /\ Quiet

Detach(p) ==
  /\ \E t \in panel[p].page \ {panel[p].pending} :
       /\ Sent(p, "detach", t, None, "find link")
       /\ panel' = [panel EXCEPT ![p].pending = t]
  /\ Quiet

Delete(p) ==
  /\ panel[p].status = "ready"
  /\ \E t \in panel[p].all \ panel[p].page :
       /\ Sent(p, "delete", t, None, "find tag")
       /\ panel' = [panel EXCEPT ![p].pending = t]
  /\ Quiet

Making == {s \in Slots : calls[s] # None /\ calls[s].at \in {"find name", "insert"}}

Create(p) ==
  /\ panel[p].status # "loading" /\ ~ panel[p].creating
  /\ made + Cardinality(Making) < MaxTags
  /\ \E n \in Names : Sent(p, "create", NoTag, n, "find name")
  /\ panel' = [panel EXCEPT ![p].creating = TRUE]
  /\ Quiet

(* A mutated form of Shown: a deleted tag stays on the page.                  *)
ShownStill(q, c) ==
  CASE c.answer # "ok" -> q
    [] c.answer = "ok" /\ c.op = "create" ->
         [q EXCEPT !.all = @ \cup {c.tag}, !.page = @ \cup {c.tag}, !.status = "ready"]
    [] c.answer = "ok" /\ c.op = "attach" -> [q EXCEPT !.page = @ \cup {c.tag}]
    [] c.answer = "ok" /\ c.op = "detach" -> q
    [] c.answer = "ok" /\ c.op = "delete" -> [q EXCEPT !.all = @ \ {c.tag}]

(* handleAttach, handleDetach, handleDelete and handleCreate after the answer. *)
Shown(q, c) ==
  CASE c.answer # "ok" -> q
    [] c.answer = "ok" /\ c.op = "create" ->
         [q EXCEPT !.all = @ \cup {c.tag}, !.page = @ \cup {c.tag}, !.status = "ready"]
    [] c.answer = "ok" /\ c.op = "attach" -> [q EXCEPT !.page = @ \cup {c.tag}]
    [] c.answer = "ok" /\ c.op = "detach" -> [q EXCEPT !.page = @ \ {c.tag}]
    [] c.answer = "ok" /\ c.op = "delete" ->
         [q EXCEPT !.all = @ \ {c.tag}, !.page = @ \ {c.tag}]

(* A mutated form of Unlocked: only a call that went well unlocks the form.    *)
UnlockedWhenDone(q, c) ==
  IF c.op = "create" THEN [q EXCEPT !.creating = c.answer # "ok"]
  ELSE [q EXCEPT !.pending = NoTag]

Unlocked(q, c) ==
  IF c.op = "create" THEN [q EXCEPT !.creating = FALSE] ELSE [q EXCEPT !.pending = NoTag]

Answer(s) ==
  /\ calls[s].at = "done"
  /\ panel' = IF calls[s].load # panel[s[1]].load THEN panel
              ELSE [panel EXCEPT ![s[1]] = Unlocked(Shown(panel[s[1]], calls[s]), calls[s])]
  /\ calls' = [calls EXCEPT ![s] = None]
  /\ UNCHANGED stray /\ Quiet

-----------------------------------------------------------------------------
(* Any tags there are already, on any page, and each panel just opened.      *)
Init ==
  /\ made \in 0..MaxTags
  /\ tags \in {f \in [Tags -> Names \cup {None}] :
                 /\ \A t \in Tags : f[t] = None <=> t > made
                 /\ \A s, t \in 1..made : f[s] = f[t] => s = t}
  /\ links \in SUBSET (Pages \X (1..made))
  /\ panel = [p \in Panels |->
       [status |-> "loading", all |-> {}, page |-> {}, read |-> {}, pending |-> NoTag,
        creating |-> FALSE, load |-> 0]]
  /\ calls = [s \in Slots |-> None]
  /\ faults = 0 /\ halved = {} /\ stray = {}

Serve(s) ==
  /\ calls[s] # None
  /\ \/ /\ \/ FindName(s) \/ InsertTag(s) \/ FindTag(s) \/ FindLink(s)
           \/ Link(s) \/ Unlink(s) \/ Remove(s)
        /\ UNCHANGED <<panel, faults>>
     \/ Fault(s)

Loading(p) == \E list \in {"all", "page"} : ReadList(p, list)

Next ==
  \/ \E p \in Panels :
       Loading(p) \/ LoadFails(p) \/ Open(p) \/ Attach(p) \/ Detach(p) \/ Delete(p) \/ Create(p)
  \/ \E s \in Slots : Serve(s) \/ (calls[s] # None /\ Answer(s))

-----------------------------------------------------------------------------
(* A panel shows the tags of its page and, in the picker, every tag, however  *)
(* its calls overlap and whichever fail: but for a tag it waits to hear of,  *)
(* what others did since, two calls of its own about one tag, tags made by a *)
(* call that then failed (neither list has them), and lists that never       *)
(* loaded.                                                                   *)
PanelTells ==
  \A p \in Panels :
    panel[p].status = "ready" /\ panel[p].read # {} =>
      LET asked == {calls[<<p, i>>].tag : i \in {j \in 1..AtOnce : calls[<<p, j>>] # None}}
          known == Tags \ ({t \in Tags : <<p, t>> \in stray} \cup halved \cup asked)
      IN /\ panel[p].page \cap known = Linked(PageOf[p]) \cap known
         /\ panel[p].all \cap known = Existing \cap known

(* The form and the buttons of a panel are locked for as long as the call that  *)
(* locked them is under way, however it ends (the finally of each handler).   *)
LockedWhileAsking ==
  \A p \in Panels :
    LET asking(op, tag) == \E i \in 1..AtOnce :
          LET c == calls[<<p, i>>]
          IN c # None /\ c.load = panel[p].load /\ (op = "create" <=> c.op = "create") /\ tag \in {c.tag, NoTag}
    IN /\ panel[p].creating => asking("create", NoTag)
       /\ panel[p].pending # NoTag => asking("other", panel[p].pending)

=============================================================================
