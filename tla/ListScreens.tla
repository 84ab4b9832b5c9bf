------------------------------ MODULE ListScreens ------------------------------
(***************************************************************************)
(* The screens that list rows of the server: each asks with a filter and a   *)
(* page, waits, and shows what comes back, while the filter is typed on, the  *)
(* pager is clicked, rows are removed from the screen, and others change the  *)
(* rows.  A screen is described by how it treats those; one screen is open.   *)
(***************************************************************************)
EXTENDS Naturals, FiniteSets

CONSTANTS
  Rows,        \* numbers of the rows there may be, in the order of the list
  Kind,        \* of each row, by which the filter selects
  Size,        \* rows of a page
  MaxSent,     \* bound on the requests of the screen
  MaxChanges   \* bound on the rows others add or remove

ListAssumption ==
  /\ Rows \subseteq Nat /\ IsFiniteSet(Rows) /\ Size \in Nat \ {0}
  /\ MaxSent \in Nat \ {0} /\ MaxChanges \in Nat

(* cancels: an effect's cleanup drops the answer of the query before.          *)
(* delay:   a keystroke asks at once, when the debounced value changes, or,    *)
(*          dropping what is under way, 300 ms after it.                      *)
(* pager:   shown with the rows, or always; or a button that loads more.       *)
(* label:   the page number shown is the one asked for or the one answered.    *)
(* edits:   what the screen does after a change of its own.                   *)
Description ==
  [cancels : BOOLEAN, delay : {"none", "value", "query"}, pager : {"none", "ready", "always", "more"},
   label : {"asked", "answer"}, edits : {"none", "reload", "local", "purge"}, filtered : BOOLEAN]

Plain == [cancels |-> TRUE, delay |-> "none", pager |-> "none", label |-> "asked",
          edits |-> "none", filtered |-> TRUE]

AuditLog    == [Plain EXCEPT !.pager = "ready"]
ActivityLog == AuditLog
McpAudit    == AuditLog
SearchPage  == [Plain EXCEPT !.pager = "always"]
UsersPage   == [Plain EXCEPT !.delay = "value", !.pager = "ready", !.edits = "reload"]
SearchBox   == [Plain EXCEPT !.delay = "query"]
Beneficiaries == SearchBox
NewMembers    == SearchBox
UserDetail  == Plain
GroupDetail == Plain
VersionDiff == Plain
Contributors   == Plain
EffectiveRights == [Plain EXCEPT !.cancels = FALSE]
Dashboard   == [Plain EXCEPT !.filtered = FALSE]
VisitorHome == Dashboard
MyProfile   == Dashboard
GroupsPage  == [Plain EXCEPT !.edits = "local", !.filtered = FALSE]
KeysPage    == GroupsPage
ClientsPage == GroupsPage
History     == [Plain EXCEPT !.pager = "always", !.edits = "reload", !.filtered = FALSE]
UserComments == [Plain EXCEPT !.cancels = FALSE, !.pager = "always", !.label = "answer",
                              !.edits = "purge", !.filtered = FALSE]
MyActivity   == [UserComments EXCEPT !.edits = "none"]
Library      == [Plain EXCEPT !.cancels = FALSE, !.delay = "value", !.pager = "more",
                              !.label = "answer", !.edits = "local"]

Screens ==
  {AuditLog, ActivityLog, McpAudit, SearchPage, UsersPage, SearchBox, Beneficiaries, NewMembers,
   UserDetail, GroupDetail, VersionDiff, Contributors, EffectiveRights, Dashboard, VisitorHome,
   MyProfile, GroupsPage, KeysPage, ClientsPage, History, UserComments, MyActivity, Library}

All   == "all"
Blank == ""         \* too short a query for a search
Kinds == {Kind[r] : r \in Rows}
FiltersOf(s) == IF ~s.filtered THEN {All}
                ELSE Kinds \cup {IF s.delay = "query" THEN Blank ELSE All}

VARIABLES
  screen,
  rows,                  \* the server's
  filter,                \* what the inputs say
  applied,               \* what was last asked for: the debounced filter
  page, status, items, total, ticked, \* the screen's
  of,                    \* history: the filter and page its items answer
  timer,                 \* a keystroke waits for its 300 ms
  calls, sent,
  crossed,               \* history: answers of a screen that does not cancel crossed, or
                         \* what "load more" adds to is of a filter before
  disturbed,             \* history: the rows changed since they were listed
  changes

shown == <<page, status, items, total, ticked, of>>
vars  == <<screen, rows, filter, applied, shown, timer, calls, sent, crossed, disturbed, changes>>

-----------------------------------------------------------------------------
(* The server *)

Matching(f) == {r \in rows : f = All \/ Kind[r] = f}

(* skip((page - 1) * limit).take(limit) *)
Slice(f, p) ==
  {r \in Matching(f) : Cardinality({q \in Matching(f) : q < r}) \div Size = p - 1}

Listed(f, p) == IF screen.pager = "none" THEN Matching(f) ELSE Slice(f, p)

(* parsePage: an address may name any page, the pager offers these. *)
PageNumbers == 1..(IF total = 0 THEN 1 ELSE (total + Size - 1) \div Size)

-----------------------------------------------------------------------------
Loads == {c \in calls : c.op = "load"}
Edits == calls \ Loads

Load(f, p, how) ==
  [op |-> "load", n |-> sent + 1, filter |-> f, page |-> p, how |-> how, at |-> "sent", items |-> {}, total |-> 0]
Edit(op, row) ==
  [op |-> op, n |-> sent + 1, filter |-> All, page |-> 1, how |-> "", at |-> "sent", items |-> row, total |-> 0]

(* Mutant: no cleanup. *)
StillAwaited == Loads

(* The loads that stay awaited when another is sent.                         *)
Awaited == IF screen.cancels THEN {} ELSE Loads

Ask(f, p, how) ==
  /\ sent < MaxSent /\ sent' = sent + 1
  /\ calls' = Edits \cup Awaited \cup {Load(f, p, how)}
  /\ status' = "loading"
  /\ crossed' = (Awaited # {} \/ (how = "append" /\ crossed))

Init ==
  /\ screen \in Screens
  /\ rows \in SUBSET Rows
  /\ filter = (IF screen.delay = "query" THEN Blank ELSE All) /\ applied = filter
  /\ page = 1 /\ items = {} /\ total = 0 /\ ticked = {} /\ of = [filter |-> filter, page |-> 1]
  /\ timer = FALSE
  /\ IF screen.delay = "query"
       THEN status = "idle" /\ calls = {} /\ sent = 0
       ELSE /\ status = "loading" /\ sent = 1
            /\ calls = {[op |-> "load", n |-> 1, filter |-> All, page |-> 1, how |-> "replace",
                         at |-> "sent", items |-> {}, total |-> 0]}
  /\ crossed = FALSE /\ disturbed = FALSE /\ changes = 0

(* A filter changed: in the address, which also drops the page of it; typed;    *)
(* or a query, cleared at once when it is too short.                        *)
Filter(f) ==
  /\ screen.filtered /\ f \in FiltersOf(screen) \ {filter}
  /\ filter' = f
  /\ CASE screen.delay = "none" ->
            /\ applied' = f /\ page' = 1 /\ Ask(f, 1, "replace")
            /\ UNCHANGED <<items, total, ticked, of, timer>>
       [] screen.delay = "value" ->
            /\ timer' = TRUE
            /\ UNCHANGED <<applied, shown, calls, sent, crossed>>
       [] screen.delay = "query" ->
            /\ timer' = (f # Blank) /\ calls' = {} /\ applied' = f
            /\ IF f = Blank THEN items' = {} /\ total' = 0 /\ status' = "idle"
                            ELSE UNCHANGED <<items, total>> /\ status' = "loading"
            /\ UNCHANGED <<page, ticked, of, sent, crossed>>
  /\ UNCHANGED <<screen, rows, disturbed, changes>>

(* The 300 ms are over.  A debounced value that changed starts from the first   *)
(* page: of AdminUsers' two loads the one with the old page is cancelled at once. *)
Timeout ==
  /\ timer /\ timer' = FALSE
  /\ IF screen.delay = "value" /\ filter = applied
       THEN UNCHANGED <<applied, shown, calls, sent, crossed>>
       ELSE /\ applied' = filter /\ Ask(filter, 1, "replace")
            /\ page' = (IF screen.label = "asked" THEN 1 ELSE page)
            /\ UNCHANGED <<items, total, ticked, of>>
  /\ UNCHANGED <<screen, rows, filter, disturbed, changes>>

(* The pager, and "load more".                                              *)
GoToPage(p) ==
  /\ p \in {page - 1, page + 1} \cap PageNumbers
  /\ screen.pager = "always" \/ (screen.pager = "ready" /\ status = "ready")
  /\ page' = (IF screen.label = "asked" THEN p ELSE page)
  /\ Ask(applied, p, "replace")
  /\ UNCHANGED <<screen, rows, filter, applied, items, total, ticked, of, timer, disturbed, changes>>

LoadMore ==
  /\ screen.pager = "more" /\ status # "loading" /\ Cardinality(items) < total
  /\ Ask(applied, page + 1, "append")
  /\ UNCHANGED <<screen, rows, filter, applied, page, items, total, ticked, of, timer, disturbed, changes>>

-----------------------------------------------------------------------------
Tick(r) ==
  /\ screen.edits = "purge" /\ status = "ready" /\ r \in items
  /\ ticked' = IF r \in ticked THEN ticked \ {r} ELSE ticked \cup {r}
  /\ UNCHANGED <<screen, rows, filter, applied, page, status, items, total, of, timer, calls, sent,
                 crossed, disturbed, changes>>

(* handleDelete, handleRevoke, purgeSelected; a group or key created.         *)
Change(op, row) ==
  /\ screen.edits # "none" /\ Edits = {} /\ sent < MaxSent
  /\ \/ op = "remove" /\ screen.edits = "purge" /\ row = ticked /\ ticked # {}
     \/ op = "remove" /\ screen.edits # "purge" /\ status = "ready"
          /\ \E r \in items : row = {r}
     \/ op = "create" /\ screen.edits = "local" /\ screen.pager = "none"
          /\ \E r \in Rows \ rows : row = {r}
  /\ calls' = calls \cup {Edit(op, row)} /\ sent' = sent + 1
  /\ UNCHANGED <<screen, rows, filter, applied, shown, timer, crossed, disturbed, changes>>

Serve(c) ==
  /\ c.at = "sent"
  /\ IF c.op = "load"
       THEN /\ calls' = (calls \ {c}) \cup {[c EXCEPT !.at = "served", !.items = Listed(c.filter, c.page),
                                                      !.total = Cardinality(Matching(c.filter))]}
            /\ disturbed' = (disturbed /\ (c.how = "append" \/ Edits # {}))
            /\ UNCHANGED rows
       ELSE /\ calls' = (calls \ {c}) \cup {[c EXCEPT !.at = "served"]}
            /\ rows' = IF c.op = "remove" THEN rows \ c.items ELSE rows \cup c.items
            /\ disturbed' = (disturbed \/ screen.pager = "more")
  /\ UNCHANGED <<screen, filter, applied, shown, timer, sent, crossed, changes>>

(* Mutant: what was ticked stays ticked.                                    *)
TickedKept == ticked

(* setSelectedIds([]) *)
TickedAfterLoad == {}

AnswerLoad(c) ==
  /\ c.op = "load" /\ c.at = "served" /\ calls' = calls \ {c}
  /\ items' = IF c.how = "append" THEN items \cup c.items ELSE c.items
  /\ total' = c.total /\ status' = "ready"
  /\ of' = [filter |-> c.filter, page |-> c.page]
  /\ page' = IF screen.label = "answer" THEN c.page ELSE page
  /\ ticked' = TickedAfterLoad
  /\ UNCHANGED <<screen, rows, filter, applied, timer, sent, crossed, disturbed, changes>>

(* A screen that keeps its list itself changes it; the others ask again, the   *)
(* purge for the first page.                                                *)
AnswerEdit(c) ==
  /\ c.op # "load" /\ c.at = "served"
  /\ IF screen.edits = "local"
       THEN /\ calls' = calls \ {c}
            /\ items' = IF c.op = "remove" THEN items \ c.items ELSE items \cup c.items
            /\ total' = IF c.op = "remove" THEN (IF total = 0 THEN 0 ELSE total - 1) ELSE total + 1
            /\ crossed' = (crossed \/ Loads # {})
            /\ UNCHANGED <<status, sent, page>>
       ELSE /\ sent < MaxSent /\ sent' = sent + 1 /\ status' = "loading"
            /\ calls' = Awaited \cup {Load(applied, IF screen.edits = "purge" THEN 1 ELSE page, "replace")}
            /\ crossed' = (Awaited # {})
            /\ UNCHANGED <<items, total, page>>
  /\ UNCHANGED <<screen, rows, filter, applied, ticked, of, timer, disturbed, changes>>

(* An error is told instead of the list, or in a toast beside it; the change    *)
(* may have been made all the same.                                         *)
Fail(c) ==
  /\ calls' = calls \ {c}
  /\ IF c.op = "load"
       THEN /\ status' = "error"
            /\ IF screen \in {SearchPage, SearchBox} THEN items' = {} /\ total' = 0 ELSE UNCHANGED <<items, total>>
       ELSE UNCHANGED <<status, items, total>>
  /\ disturbed' = (disturbed \/ (c.op # "load" /\ c.at = "served"))
  /\ crossed' = (crossed \/ (screen.pager = "more" /\ c.how = "replace"))
  /\ UNCHANGED <<screen, rows, filter, applied, page, ticked, of, timer, sent, changes>>

(* Somebody else's row.                                                     *)
Others(r) ==
  /\ changes < MaxChanges /\ changes' = changes + 1
  /\ rows' = IF r \in rows THEN rows \ {r} ELSE rows \cup {r}
  /\ disturbed' = TRUE
  /\ UNCHANGED <<screen, filter, applied, shown, timer, calls, sent, crossed>>

Next ==
  \/ \E f \in Kinds \cup {All, Blank} : Filter(f)
  \/ Timeout \/ LoadMore
  \/ \E p \in 1..(Cardinality(Rows) + 1) : GoToPage(p)
  \/ \E r \in Rows : Tick(r) \/ Others(r)
  \/ \E row \in (SUBSET Rows) \ {{}}, op \in {"remove", "create"} : Change(op, row)
  \/ \E c \in calls : Serve(c) \/ AnswerLoad(c) \/ AnswerEdit(c) \/ Fail(c)

-----------------------------------------------------------------------------
(* Properties *)

TypeOK ==
  /\ screen \in Description /\ rows \subseteq Rows
  /\ {filter, applied} \subseteq FiltersOf(screen)
  /\ page \in Nat \ {0} /\ status \in {"idle", "loading", "ready", "error"}
  /\ items \subseteq Rows /\ total \in Nat /\ ticked \subseteq Rows
  /\ Cardinality(Edits) <= 1 /\ (screen.cancels => Cardinality(Loads) <= 1)

Rest == ~timer /\ Loads = {} /\ status = "ready"

(* The effects' cleanups and the debounce, however typing, paging and answers    *)
(* cross: once nothing is awaited, the rows shown answer the filter and the    *)
(* page the screen names; on the screens that cancel nothing, so the page.     *)
ShowsWhatIsAsked ==
  Rest => /\ of.page = page
          /\ (screen.cancels \/ ~crossed) => of.filter = filter

(* As long as nobody else changes a row and the screen's own answers do not      *)
(* cross, what it shows is that part of the server's rows: after every reload,  *)
(* every row it added or removed by itself, and every further page.          *)
ShowsWhatIsThere ==
  (Rest /\ Edits = {} /\ ~disturbed /\ ~crossed) =>
    items = IF screen.pager = "more" THEN UNION {Listed(applied, p) : p \in 1..page}
            ELSE Listed(applied, page)

(* What a purge of the selected comments removes is what the panel shows: no     *)
(* comment stays selected when its page is left.                            *)
TickedIsShown == ticked \subseteq items

ListsTell == TypeOK /\ ShowsWhatIsAsked /\ ShowsWhatIsThere /\ TickedIsShown

=============================================================================
