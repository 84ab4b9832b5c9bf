------------------------------- MODULE PageRooms -------------------------------
(***************************************************************************)
(* A browser tab that views pages, and the socket that tells it of what       *)
(* others do to the page: the requests for pages and comments, the rooms it   *)
(* joins and leaves, the events of the server, and connections that drop.     *)
(***************************************************************************)
EXTENDS Naturals, Sequences

CONSTANTS
  Pages,
  None,
  MaxRequests,   \* bound on the tab's requests for pages
  MaxReloads,    \* bound on those for comments
  MaxChanges,    \* bound on the versions, comments and deletes
  MaxDrops       \* bound on the connections that drop

(* None is no page, no page or list of comments that is shown, no version.     *)
ASSUME RoomsAssumption ==
  None \notin Pages \cup Nat \cup [id : Pages, version : Nat] \cup [n : Nat, value : Nat]

VARIABLES
  route,         \* the page the address names; None: not on a page
  last,          \* requestIdRef
  requests,      \* for the page
  page,          \* the page shown, with the number of its version
  banner,        \* hasNewVersion
  reloads,       \* requests for its comments
  asked,         \* how many there were
  thread,        \* the comments shown, and the request they answer; None: not loaded
  up,            \* the socket is connected
  out,           \* joins and leaves sent, or kept until it is connected
  checks,        \* joins whose page is being looked up
  rooms,         \* the rooms of the socket
  inbox,         \* events sent to it
  live,
  saved,         \* of each page, its number of versions and of comments
  unheard,       \* history: changes no event told the tab, or a later answer undid
  drops, changes

client == <<route, last, requests, page, banner, reloads, asked, thread>>
socket == <<up, out, checks, rooms, inbox, drops>>
server == <<live, saved, changes>>
vars   == <<client, socket, server, unheard>>

Kinds == {"version", "comments"}

Init ==
  /\ route = None /\ last = 0 /\ requests = {} /\ page = None /\ banner = FALSE
  /\ reloads = {} /\ asked = 0 /\ thread = None
  /\ up = FALSE /\ out = <<>> /\ checks = <<>> /\ rooms = {} /\ inbox = <<>> /\ drops = 0
  /\ live = Pages /\ saved = [p \in Pages |-> [k \in Kinds |-> 1]] /\ unheard = {} /\ changes = 0

-----------------------------------------------------------------------------
(* The tab *)

(* Mutant: the room is joined when the page opens, never again.             *)
NotRejoined == out

(* usePageRoom: a new connection joins the room of the page shown once more.  *)
Rejoined == IF page = None THEN out ELSE Append(out, [op |-> "join", page |-> page.id])

(* The page goes, and its comments, its banner and its room with it.        *)
Blank ==
  /\ page' = None /\ banner' = FALSE /\ thread' = None /\ reloads' = {}
  /\ out' = IF page = None THEN out ELSE Append(out, [op |-> "leave", page |-> page.id])

Load(p, reload) ==
  /\ last < MaxRequests /\ last' = last + 1
  /\ requests' = requests \cup {[n |-> last + 1, page |-> p, reload |-> reload, at |-> "sent", value |-> None]}
  /\ Blank
  /\ UNCHANGED <<asked, up, checks, rooms, inbox, drops, server, unheard>>

Open(p) == p # route /\ route' = p /\ Load(p, FALSE)

(* handleReload *)
Reload == banner /\ Load(route, TRUE) /\ UNCHANGED route

Close ==
  /\ route # None /\ route' = None /\ requests' = {} /\ Blank
  /\ UNCHANGED <<last, asked, up, checks, rooms, inbox, drops, server, unheard>>

ServePage(r) ==
  /\ r.at = "sent"
  /\ requests' = (requests \ {r}) \cup
       {[r EXCEPT !.at = "served", !.value = IF r.page \in live THEN saved[r.page]["version"] ELSE None]}
  /\ unheard' = IF r.n = last THEN unheard \ {<<r.page, "version">>} ELSE unheard
  /\ UNCHANGED <<route, last, page, banner, reloads, asked, thread, socket, server>>

(* Mutant: any answer is shown.                                             *)
AnyIsLast(r) == TRUE

IsLast(r) == r.n = last

Comments == [n |-> asked + 1, at |-> "sent", value |-> None]

(* The answer, or an error.  The answer to the last request is shown; the       *)
(* reload of a page left meanwhile takes away the banner of the page shown.   *)
AnswerPage(r, value) ==
  /\ (r.at = "served" /\ value = r.value) \/ value = None
  /\ requests' = requests \ {r}
  /\ IF IsLast(r) /\ value # None
       THEN /\ page' = [id |-> r.page, version |-> value] /\ banner' = FALSE
            /\ asked < MaxReloads /\ asked' = asked + 1 /\ reloads' = {Comments} /\ thread' = None
            /\ out' = Append(out, [op |-> "join", page |-> r.page])
            /\ UNCHANGED unheard
       ELSE /\ banner' = (banner /\ ~r.reload)
            /\ unheard' = IF banner /\ r.reload THEN unheard \cup {<<page.id, "version">>} ELSE unheard
            /\ UNCHANGED <<page, thread, asked, reloads, out>>
  /\ UNCHANGED <<route, last, up, checks, rooms, inbox, drops, server>>

ServeComments(c) ==
  /\ c.at = "sent"
  /\ reloads' = (reloads \ {c}) \cup {[c EXCEPT !.at = "served", !.value = saved[page.id]["comments"]]}
  /\ unheard' = IF c.n = asked THEN unheard \ {<<page.id, "comments">>} ELSE unheard
  /\ UNCHANGED <<route, last, requests, page, banner, asked, thread, socket, server>>

(* Nothing orders the answers: an older list may replace a newer one.  An       *)
(* error shows no list.                                                     *)
AnswerComments(c, value) ==
  /\ (c.at = "served" /\ value = c.value) \/ value = None
  /\ reloads' = reloads \ {c}
  /\ thread' = IF value = None THEN None ELSE [n |-> c.n, value |-> value]
  /\ UNCHANGED <<route, last, requests, page, banner, asked, socket, server, unheard>>

-----------------------------------------------------------------------------
(* The gateway *)

(* A leave is done as it arrives; a join awaits getByIdOrFail first.          *)
Receive ==
  /\ up /\ out # <<>> /\ out' = Tail(out)
  /\ LET m == Head(out) IN
       IF m.op = "join" THEN checks' = Append(checks, m.page) /\ UNCHANGED rooms
                        ELSE rooms' = rooms \ {m.page} /\ UNCHANGED checks
  /\ UNCHANGED <<client, up, inbox, drops, server, unheard>>

EndJoin(i) ==
  /\ checks' = SubSeq(checks, 1, i - 1) \o SubSeq(checks, i + 1, Len(checks))
  /\ rooms' = rooms \cup ({checks[i]} \cap live)
  /\ UNCHANGED <<client, up, out, inbox, drops, server, unheard>>

(* Somebody saves a version of the page, or a comment on it.                *)
Save(p, kind) ==
  /\ p \in live /\ changes < MaxChanges /\ changes' = changes + 1
  /\ saved' = [saved EXCEPT ![p][kind] = @ + 1]
  /\ IF p \in rooms THEN inbox' = Append(inbox, <<p, kind>>) /\ UNCHANGED unheard
                    ELSE unheard' = unheard \cup {<<p, kind>>} /\ UNCHANGED inbox
  /\ UNCHANGED <<client, up, out, checks, rooms, drops, live>>

Delete(p) ==
  /\ p \in live /\ live' = live \ {p} /\ changes < MaxChanges /\ changes' = changes + 1
  /\ UNCHANGED <<client, socket, saved, unheard>>

-----------------------------------------------------------------------------
(* Mutant: the page of the event is not compared.                           *)
AnyIsShown(p) == page # None

IsShown(p) == page # None /\ page.id = p

Deliver ==
  /\ inbox # <<>> /\ inbox' = Tail(inbox)
  /\ LET p == Head(inbox)[1]  kind == Head(inbox)[2] IN
       /\ banner' = (banner \/ (IsShown(p) /\ kind = "version"))
       /\ IF IsShown(p) /\ kind = "comments"
            THEN asked < MaxReloads /\ asked' = asked + 1 /\ reloads' = reloads \cup {Comments} /\ thread' = None
            ELSE UNCHANGED <<asked, reloads, thread>>
       /\ unheard' = IF IsShown(p) THEN unheard ELSE unheard \cup {<<p, kind>>}
  /\ UNCHANGED <<route, last, requests, page, up, out, checks, rooms, drops, server>>

Drop ==
  /\ up /\ up' = FALSE /\ drops < MaxDrops /\ drops' = drops + 1
  /\ out' = <<>> /\ checks' = <<>> /\ rooms' = {} /\ inbox' = <<>>
  /\ unheard' = unheard \cup {inbox[i] : i \in 1..Len(inbox)}
  /\ UNCHANGED <<client, server>>

(* What was emitted in between is sent, then the handlers of "connect" run.   *)
Connect ==
  /\ ~up /\ up' = TRUE /\ out' = Rejoined
  /\ UNCHANGED <<client, checks, rooms, inbox, drops, server, unheard>>

Next ==
  \/ \E p \in Pages : Open(p) \/ Delete(p) \/ \E kind \in Kinds : Save(p, kind)
  \/ Reload \/ Close \/ Receive \/ Deliver \/ Drop \/ Connect
  \/ \E r \in requests : ServePage(r) \/ \E value \in {r.value, None} : AnswerPage(r, value)
  \/ \E c \in reloads : ServeComments(c) \/ \E value \in {c.value, None} : AnswerComments(c, value)
  \/ \E i \in 1..Len(checks) : EndJoin(i)
Spec == Init /\ [][Next]_vars

-----------------------------------------------------------------------------
(* Properties *)

TypeOK ==
  /\ route \in Pages \cup {None} /\ last \in Nat /\ asked \in Nat /\ banner \in BOOLEAN /\ up \in BOOLEAN
  /\ page = None \/ (page.id \in Pages /\ page.version \in Nat)
  /\ rooms \subseteq Pages /\ live \subseteq Pages /\ unheard \subseteq Pages \X Kinds
  /\ page = None => (~banner /\ reloads = {} /\ thread = None)
  /\ ~up => rooms = {} /\ checks = <<>>

Settled == up /\ out = <<>> /\ checks = <<>>

(* However joins that are still being checked, leaves and connections cross,    *)
(* the socket ends up in the room of the page the tab shows.                *)
JoinedWhatIsShown ==
  (Settled /\ page # None /\ page.id \in live) => page.id \in rooms

(* A tab shows the page of its address, and when nothing is under way and every  *)
(* change reached it by an event, it shows the last version and the comments of *)
(* the page, or the banner that there is another.                           *)
TellsChanges ==
  (page # None) =>
    /\ page.id = route
    /\ (Settled /\ inbox = <<>>) =>
         /\ (<<page.id, "version">> \notin unheard /\ saved[page.id]["version"] # page.version) => banner
         /\ (<<page.id, "comments">> \notin unheard /\ thread # None)
              => (thread.n = asked => thread.value = saved[page.id]["comments"])

(* The banner never tells of another page's version.                        *)
BannerIsOfThePage == banner => saved[page.id]["version"] > 1

ViewersAreTold == TypeOK /\ JoinedWhatIsShown /\ TellsChanges /\ BannerIsOfThePage

=============================================================================
